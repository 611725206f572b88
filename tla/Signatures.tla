----------------------------- MODULE Signatures -----------------------------
(* ed25519 (eddsa25519.cpp) and ed448 (eddsa448.cpp): a message is signed  *)
(* with one key, and what a verifier is given differs from what was signed *)
(* in one place or in none.                                                *)
(*                                                                         *)
(* A hash is any function: its values are chosen when it is first asked    *)
(* for them and kept.  A seed is named by the lower half of its digest,    *)
(* the upper half is the prefix of that seed.  Sums and products modulo    *)
(* the order of the base point are those of Fp8, see PrimeFields.          *)
EXTENDS KeyExchange

CONSTANTS
    Seeds,          \* lower halves of the digests of private keys
    Messages,
    DigestValues    \* digests as numbers, below and above the order

ASSUME SignatureAssumption ==
    /\ Seeds \subseteq 0 .. 2 ^ ScalarBits - 1 /\ DigestValues \subseteq Nat
    /\ \A c \in Curves : c.order < 2 ^ (ScalarBits - 2)

VARIABLES
    digests,    \* the hash, where it was asked
    signed,     \* a signature with what it was made for, or <<>>
    received,   \* what a verifier was given, or <<>>
    accepted    \* and what it said

signatureVars == <<digests, signed, received, accepted>>

----------------------------------------------------------------------------
Domains == {"pure", "ph"}

\* Fp8::load with C25519_ORDER or C448_ORDER.
ModOrder(v) == v % curve.order

\* ed25519_expand_key, toPublic
Secret(seed) == ModOrder(Clamped(seed))
TimesBase(k) == PointTimes(BasePoint, k)
PublicOf(seed) == Encoded(TimesBase(Secret(seed)))

\* What a signature is made for or checked with: a key pair, kept as toPublic
\* has stored it, a use and a message.
Abouts == UNION {[seed : {seed}, public : PublicOf(seed), domain : Domains, message : Messages] :
                     seed \in Seeds}

\* The inputs of ed25519_derive_r and of ed25519_compute_k.
NonceInput(about) == [domain |-> about.domain, prefix |-> about.seed, message |-> about.message]

ChallengeInput(about, R) ==
    [domain |-> about.domain, R |-> R, public |-> about.public, message |-> about.message]

\* The values a hash may give.
Digest(input) == IF input \in DOMAIN digests THEN {digests[input]} ELSE DigestValues

Response(secret, k, r) == ModOrder(ModOrder(secret * k) + r)

\* ed25519_sign_impl: R = rB, S = sk + r.  The byte after S of ed448 is zero.
Sign(about) ==
    /\ signed = <<>>
    /\ \E nonce \in Digest(NonceInput(about)) : \E R \in Encoded(TimesBase(ModOrder(nonce))) :
        \E challenge \in Digest(ChallengeInput(about, R)) :
            /\ signed' = [about |-> about, R |-> R, top |-> 0,
                          S |-> Response(Secret(about.seed), ModOrder(challenge), ModOrder(nonce))]
            /\ digests' = (NonceInput(about) :> nonce) @@ (ChallengeInput(about, R) :> challenge) @@ digests
    /\ UNCHANGED <<received, accepted>>

----------------------------------------------------------------------------
\* Mutant of Reduced: S is taken modulo the order.
ReducedAnyway(sig) == TRUE

\* S has to be what loading it gives; ed448 loads a byte more than it compares.
Reduced(sig) == ModOrder(sig.S + sig.top * 2 ^ ScalarBits) = sig.S

\* ed25519_verify_compute_rhs: R + kA.
RightSide(public, R, challenge) ==
    IF NoPoint \in {public, R} THEN NoPoint ELSE PointSum(PointTimes(public, ModOrder(challenge)), R)

\* ed25519_verify_compute_lhs: sB.
LeftSide(sig) == IF Reduced(sig) THEN TimesBase(sig.S) ELSE NoPoint

\* ed25519_verify_impl once k is known and the points are loaded.
Holds(sig, public, R, challenge) ==
    LET right == RightSide(public, R, challenge)
        left == LeftSide(sig)
    IN NoPoint \notin {left, right} /\ PointsEqual(left, right)

Verify(sig) ==
    /\ signed # <<>> /\ received = <<>> /\ received' = sig
    /\ \E challenge \in Digest(ChallengeInput(sig.about, sig.R)) :
        /\ \E public \in Decoded(sig.about.public), R \in Decoded(sig.R) :
               accepted' = Holds(sig, public, R, challenge)
        /\ digests' = (ChallengeInput(sig.about, sig.R) :> challenge) @@ digests
    /\ UNCHANGED signed

\* The i-th multiple of the base point, by the group law.
Multiple(i) == LawTimes(curve.base, i)

\* Encodings of the multiples, and those load() takes though store() does not
\* make them: x = 0 with an odd parity, and with ed25519 a y above the prime.
OtherR ==
    {<<q[2], 0, q[1] % 2>> : q \in {Multiple(i) : i \in 0 .. curve.order - 1}}
    \cup {<<1, 0, 1>>, <<curve.prime - 1, 0, 1>>}
    \cup {<<y, 0, 1>> : y \in IF Is25519 THEN curve.prime .. 2 ^ curve.width - 1 ELSE {}}

\* The signature as it was made or changed in one place.
Deliveries ==
    {[signed EXCEPT !.about = about] : about \in Abouts}
    \cup {[signed EXCEPT !.R = R] : R \in OtherR}
    \cup {[signed EXCEPT !.S = s] : s \in {(signed.S + 1) % curve.order, signed.S + curve.order}}
    \cup IF Is25519 THEN {} ELSE {[signed EXCEPT !.R[2] = 1], [signed EXCEPT !.top = 1]}

SignatureInit == digests = <<>> /\ signed = <<>> /\ received = <<>> /\ accepted = FALSE

SignatureNext ==
    /\ \/ \E about \in Abouts : Sign(about)
       \/ signed # <<>> /\ \E sig \in Deliveries : Verify(sig)
    /\ UNCHANGED curve

----------------------------------------------------------------------------
\* S is reduced and r + ks, where R is r times the base point.
Made(sig, R, s) ==
    LET k == digests[ChallengeInput(sig.about, sig.R)]
    IN sig.S < curve.order /\ sig.top = 0 /\ Multiple((sig.S - k * s) % curve.order) = R

\* A signature is accepted exactly if it could have been made by whoever has
\* the key for this message and this use (pure or prehashed): R is an encoding
\* of a multiple r of the base point, S is reduced and r + ks.  What sign()
\* makes is accepted.  This is said of R and of the public key as they are
\* loaded, which is not the point they encode if its x or -x is small, or none
\* if its y is, with ed448 (LoadedAs).
SignatureRight ==
    received # <<>> =>
      LET R == LoadedAs(received.R)
          public == LoadedAs(received.about.public)
          s == Secret(received.about.seed)
          secrets == {t \in {s, curve.order - s} : Multiple(t) \in public}
      IN /\ <<>> \notin public => s \in secrets
         /\ accepted \in {Made(received, q, t) : q \in R, t \in secrets} \cup {FALSE : q \in public \cap {<<>>}}
         /\ (received = signed /\ <<>> \notin R /\ Cardinality(R) = 1 /\ secrets = {s}) => accepted
=============================================================================
