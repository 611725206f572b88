-------------------------------- MODULE Sponge --------------------------------
(* The Keccak sponge of sha3_keccak1600.cpp and the functions over it:     *)
(* SHA-3 (sha3_sha3.cpp), SHAKE (sha3_shake.cpp) and KMAC (sha3_kmac.cpp). *)
(*                                                                         *)
(* The permutation is symbolic: a state is what has been exclusive-ored    *)
(* into it between the permutations so far, and byte i of a permuted state *)
(* is the token <<"keccak", past, i>>.  Lengths are scaled: Length stands  *)
(* for 200 bytes and Unit for the 16 of "16 << variant".                   *)
EXTENDS SymbolicBytes

CONSTANTS
    Length,         \* keccak1600::LENGTH
    Unit,           \* capacity of a SHAKE of variant 0, in bytes
    Kind,           \* "sha3", "shake" or "kmac", and its parameters
    SpongePieces,   \* lengths of pieces, fed or drawn
    SpongeKeys,     \* lengths of KMAC keys
    MacLengths,     \* lengths of MACs
    MaxFed,         \* longest message
    MaxDrawn        \* most bytes drawn after one message

ASSUME SpongeAssumption ==
    /\ {Length, Unit, MaxFed, MaxDrawn} \subseteq Nat \ {0}
    /\ SpongePieces \cup SpongeKeys \cup MacLengths \subseteq Nat
    /\ Kind \subseteq [name : {"sha3", "shake", "kmac"}, variant : Nat]

\* sha3_rate(), shake_rate(), kmac_rate() of a function that has been chosen.
Rate(f) == CASE f.name = "sha3"  -> Length - 2 * f.variant
             [] f.name = "shake" -> Length - Unit * 2 ^ f.variant
             [] f.name = "kmac"  -> Length - 2 * Unit * 2 ^ f.variant

\* A function has been chosen and leaves a rate, which is part of the state (a
\* digest may be longer than the rate); the names that kmac::init() frames are
\* shorter than a block.
ASSUME RateAssumption ==
    \A f \in Kind :
        /\ Rate(f) \in 1 .. Length
        /\ f.name = "sha3" => f.variant # 0
        /\ f.name = "kmac" => Rate(f) > 3

VARIABLES
    k,              \* the keccak1600: st, ptr, rate
    m_generating,   \* shake::m_generating
    m_macLength,    \* kmac::m_macLength
    kind,           \* which function, and its variant or digest length
    key,            \* the KMAC key in use
    absorbed,       \* bytes of the message
    drawn           \* bytes given out for it

spongeVars == <<k, m_generating, m_macLength, kind, key, absorbed, drawn>>

----------------------------------------------------------------------------
(* keccak1600.                                                            *)

\* st is [past, now]: the blocks permuted so far, what was added since.
EmptyState == [past |-> <<>>, now |-> Zeros(Length)]
EmptySponge(rate) == [st |-> EmptyState, ptr |-> 0, rate |-> rate]

Apply(st) == [past |-> Append(st.past, st.now), now |-> Zeros(Length)]

\* Byte i of the state, from 0.
StateByte(st, i) ==
    Xor(IF st.past = <<>> THEN Zero ELSE {<<"keccak", st.past, i>>}, st.now[i + 1])

\* A full block is permuted at once.
Advance(s, n) == IF s.ptr + n = s.rate THEN [s EXCEPT !.st = Apply(@), !.ptr = 0]
                                       ELSE [s EXCEPT !.ptr = @ + n]

Chunk(s, length) == IF length < s.rate - s.ptr THEN length ELSE s.rate - s.ptr

\* One round of consume(): c is the context and the data still to come.
ConsumeRound(c) ==
    IF c.rest = <<>> THEN c
    ELSE LET ll == Chunk(c.k, Len(c.rest))
             mixed == [c.k EXCEPT !.st.now = XoredInto(@, c.k.ptr, SubSeq(c.rest, 1, ll))]
         IN [k |-> Advance(mixed, ll), rest |-> SubSeq(c.rest, ll + 1, Len(c.rest))]

\* The loops: a round moves a byte at least, so they have ended after as many
\* rounds as there are bytes.
Consume(s, data) ==
    LET after[n \in 0 .. Len(data)] ==
            IF n = 0 THEN [k |-> s, rest |-> data] ELSE ConsumeRound(after[n - 1])
    IN after[Len(data)].k

\* Padding that writes the last byte instead of adding to it.
FinishOverwriting(s, trailer) ==
    LET trailed == XoredInto(s.st.now, s.ptr, <<Number(trailer)>>)
    IN [s EXCEPT !.st = Apply([@ EXCEPT !.now = CopiedInto(trailed, s.rate - 1, <<Number(128)>>)]),
                 !.ptr = 0]

\* The last byte of the block may be the trailer's as well.
FinishSponge(s, trailer) ==
    LET trailed == XoredInto(s.st.now, s.ptr, <<Number(trailer)>>)
    IN [s EXCEPT !.st = Apply([@ EXCEPT !.now = XoredInto(trailed, s.rate - 1, <<Number(128)>>)]),
                 !.ptr = 0]

\* One round of produce(): the context, the bytes so far and those to come.
ProduceRound(c) ==
    IF c.left = 0 THEN c
    ELSE LET ll == Chunk(c.k, c.left)
         IN [k |-> Advance(c.k, ll), left |-> c.left - ll,
             out |-> c.out \o [i \in 1 .. ll |-> StateByte(c.k.st, c.k.ptr + i - 1)]]

Produce(s, length) ==
    LET after[n \in 0 .. length] ==
            IF n = 0 THEN [k |-> s, left |-> length, out |-> <<>>] ELSE ProduceRound(after[n - 1])
    IN after[length]

----------------------------------------------------------------------------
(* The functions.                                                         *)

Suffix(f) == CASE f.name = "sha3" -> 6 [] f.name = "shake" -> 31 [] f.name = "kmac" -> 4

\* kmac_push_rate() and KMAC_PREFIX, here one byte instead of eight.
PushRate(rate) == <<Number(1), Number(rate)>>
KmacPrefix == <<{<<"KMAC">>}>>

\* kmac_encoded_length(): the bytes that hold x | 1, of a 32-bit x.
EncodedLength(x) ==
    CASE x < 256   -> 1
      [] x \in 256 .. 256^2 - 1   -> 2
      [] x \in 256^2 .. 256^3 - 1 -> 3
      [] OTHER     -> 4
BigEndian(x, l) == [i \in 1 .. l |-> Number((x \div 256 ^ (l - i)) % 256)]
LeftEncode(x) == <<Number(EncodedLength(x))>> \o BigEndian(x, EncodedLength(x))
RightEncode(x) == BigEndian(x, EncodedLength(x)) \o <<Number(EncodedLength(x))>>

\* A permutation and a new block, as kmac::init() asks for it.
NextBlock(s) == [s EXCEPT !.st = Apply(@), !.ptr = 0]

\* An init() that forgets that consume() permutes a full block.
KeyedAlways(rate, bytes) ==
    LET named == NextBlock(Consume(EmptySponge(rate), PushRate(rate) \o KmacPrefix))
    IN NextBlock(Consume(named, PushRate(rate) \o LeftEncode(8 * Len(bytes)) \o bytes))

\* kmac::init(): bytepad of the names, shorter than any rate, then of the key;
\* a key that ends a block has been permuted by consume() already.
Keyed(rate, bytes) ==
    LET named == NextBlock(Consume(EmptySponge(rate), PushRate(rate) \o KmacPrefix))
        full == Consume(named, PushRate(rate) \o LeftEncode(8 * Len(bytes)) \o bytes)
    IN IF full.ptr = 0 THEN full ELSE NextBlock(full)

----------------------------------------------------------------------------
Fresh(n) == Supplied("message", Len(absorbed), n)

SpongeInit ==
    /\ kind \in Kind /\ k = EmptySponge(Rate(kind))
    /\ m_generating = FALSE /\ m_macLength = 0
    /\ key = <<>> /\ absorbed = <<>> /\ drawn = <<>>

\* sha3::reset(digestLength), shake::reset(variant): at any moment, to
\* another variant or to the same one.
SpongeReset(f) ==
    /\ kind.name # "kmac" /\ f \in Kind /\ f.name = kind.name
    /\ kind' = f /\ k' = EmptySponge(Rate(f)) /\ m_generating' = FALSE
    /\ absorbed' = <<>> /\ drawn' = <<>>
    /\ UNCHANGED <<m_macLength, key>>

\* sha3::update, shake::update, kmac::update: new data after output starts a
\* new message in a SHAKE; a SHA-3 has been reset by finish().
SpongeUpdate(n) ==
    LET restart == (kind.name = "shake" /\ m_generating) \/ (kind.name = "sha3" /\ drawn # <<>>)
        data == IF restart THEN Supplied("message", 0, n) ELSE Fresh(n)
        base == IF kind.name = "shake" /\ m_generating THEN EmptySponge(k.rate) ELSE k
    IN /\ (kind.name = "kmac") => (m_macLength # 0 /\ drawn = <<>>)
       /\ absorbed' = (IF restart THEN data ELSE absorbed \o data)
       /\ Len(absorbed') <= MaxFed
       /\ k' = Consume(base, data)
       /\ m_generating' = (m_generating /\ kind.name # "shake")
       /\ drawn' = (IF restart THEN <<>> ELSE drawn)
       /\ UNCHANGED <<m_macLength, kind, key>>

\* sha3::finish(digest): the digest is the front of the state, past the rate if
\* it is longer than that; the next message may be the empty one.
Sha3Finish ==
    LET done == FinishSponge(k, Suffix(kind))
        length == (Length - k.rate) \div 2
    IN /\ kind.name = "sha3"
       /\ absorbed' = (IF drawn = <<>> THEN absorbed ELSE <<>>)
       /\ drawn' = [i \in 1 .. length |-> StateByte(done.st, i - 1)]
       /\ k' = EmptySponge(k.rate)
       /\ UNCHANGED <<m_generating, m_macLength, kind, key>>

\* shake::generate(output, length), as often as one likes.
Generate(n) ==
    LET made == Produce(IF m_generating THEN k ELSE FinishSponge(k, Suffix(kind)), n)
    IN /\ kind.name = "shake" /\ Len(drawn) + n <= MaxDrawn
       /\ k' = made.k /\ drawn' = drawn \o made.out /\ m_generating' = TRUE
       /\ UNCHANGED <<m_macLength, kind, key, absorbed>>

\* kmac::init(variant, key, keyLength, macLength), at any moment.
KmacInit(f, n, length) ==
    /\ kind.name = "kmac" /\ f \in Kind /\ f.name = "kmac"
    /\ kind' = f /\ key' = Supplied("key", 0, n) /\ m_macLength' = length
    /\ k' = Keyed(Rate(f), key')
    /\ absorbed' = <<>> /\ drawn' = <<>>
    /\ UNCHANGED m_generating

\* kmac::finish(mac)
KmacFinish ==
    LET made == Produce(FinishSponge(Consume(k, RightEncode(8 * m_macLength)), Suffix(kind)),
                        m_macLength)
    IN /\ kind.name = "kmac" /\ m_macLength # 0 /\ drawn = <<>>
       /\ k' = made.k /\ drawn' = made.out
       /\ UNCHANGED <<m_generating, m_macLength, kind, key, absorbed>>

SpongeNext ==
    \/ \E f \in Kind : SpongeReset(f)
    \/ \E n \in SpongePieces : SpongeUpdate(n)
    \/ Sha3Finish
    \/ \E n \in SpongePieces : Generate(n)
    \/ \E f \in Kind, n \in SpongeKeys, length \in MacLengths : KmacInit(f, n, length)
    \/ KmacFinish
SpongeSpec == SpongeInit /\ [][SpongeNext]_spongeVars

----------------------------------------------------------------------------
(* The definitions of FIPS 202 and SP 800-185, of a message as a whole.   *)

\* The blocks of whole-rate input as they are added to the state.
RateBlocks(bytes, rate) ==
    [b \in 1 .. Len(bytes) \div rate |->
        SubSeq(bytes, (b - 1) * rate + 1, b * rate) \o Zeros(Length - rate)]

\* Domain suffix and pad10*1 up to a multiple of the rate.
PaddedFor(m, suffix, rate) ==
    LET gap == rate - 1 - (Len(m) % rate)
        tail == <<Number(suffix)>> \o Zeros(gap)
    IN m \o [tail EXCEPT ![gap + 1] = Xor(@, Number(128))]

\* The first n bytes squeezed from a sponge that took these blocks.
Squeezed(blocks, rate, n) ==
    [i \in 1 .. n |->
        {<<"keccak", blocks \o [z \in 1 .. (i - 1) \div rate |-> Zeros(Length)], (i - 1) % rate>>}]

BytePad(bytes, rate) ==
    LET framed == PushRate(rate) \o bytes
    IN framed \o Zeros((rate - (Len(framed) % rate)) % rate)

\* What the function absorbs, before its suffix.
Input(f) ==
    IF f.name # "kmac" THEN absorbed
    ELSE BytePad(KmacPrefix, Rate(f)) \o BytePad(LeftEncode(8 * Len(key)) \o key, Rate(f))
         \o absorbed \o RightEncode(8 * m_macLength)

Expected(f, n) ==
    Squeezed(RateBlocks(PaddedFor(Input(f), Suffix(f), Rate(f)), Rate(f)), Rate(f), n)

\* A digest, and the output of a SHAKE in whatever pieces it is drawn, are
\* those of the message in whatever pieces it was fed: at every position of
\* the padding, the suffix sharing the last byte with it or not, over
\* permutations in the middle of a piece, and after messages of other
\* variants.  The same holds of a KMAC and every length of key, one that
\* fills its block included.  Of a digest longer than the rate it holds of the
\* bytes within the rate: finish() takes the others from the same state.
SpongeRight ==
    drawn # <<>> =>
        LET expected == Expected(kind, Len(drawn))
        IN  /\ kind.name # "sha3" => drawn = expected
            /\ kind.name = "sha3" =>
                   /\ Len(drawn) = kind.variant
                   /\ \A i \in 1 .. Len(drawn) : i <= Rate(kind) => drawn[i] = expected[i]
            /\ kind.name = "kmac" => Len(drawn) = m_macLength
=============================================================================
