---------------------------- MODULE KeyExchange ----------------------------
(* x25519 and x448 (eddh.cpp): the ladder on the u coordinates of the      *)
(* Montgomery curve v^2 = u^3 + (4 k24 + 2) u^2 + u, for the private keys  *)
(* and the received u of one exchange.                                     *)
EXTENDS EdwardsPoints

CONSTANTS PrivateKeys

ASSUME ExchangeAssumption ==
    /\ PrivateKeys \subseteq 0 .. 2 ^ ScalarBits - 1
    /\ \A c \in Curves : {c.k24, c.u, c.ladderBits} \subseteq Nat /\ c.ladderBits <= ScalarBits

VARIABLE exchange   \* the private key, the u it was applied to, and the result

exchangeVars == exchange

----------------------------------------------------------------------------
\* x25519_load_scalar, x448_load_scalar, and the same in the signatures: low
\* bits cleared, a high bit set.
Clamped(k) ==
    IF Is25519 THEN ((8 * (k \div 8)) % 2 ^ (ScalarBits - 2)) + 2 ^ (ScalarBits - 2)
    ELSE ((4 * (k \div 4)) % 2 ^ (ScalarBits - 1)) + 2 ^ (ScalarBits - 1)

Swapped(s, bit) == IF bit THEN [s EXCEPT !.x2 = s.x3, !.z2 = s.z3, !.x3 = s.x2, !.z3 = s.z2] ELSE s

\* Mutant of LadderStep: the swap of the turn before is not undone.
LadderStepLeft(s0, u, bit) ==
    LET s == Swapped(s0, bit)
        a == Mod(s.x2 + s.z2)
        b == Mod(s.x2 - s.z2)
        da == Mod((s.x3 - s.z3) * a)
        cb == Mod((s.x3 + s.z3) * b)
        e == Mod(a * a - b * b)
    IN [x2 |-> Mod(Mod(a * a) * Mod(b * b)), z2 |-> Mod(e * Mod(a * a + curve.k24 * e)),
        x3 |-> Mod((da + cb) * (da + cb)), z3 |-> Mod(u * Mod((da - cb) * (da - cb))), swap |-> bit]

\* One turn of edwards_multiply(); the swap is undone by the next turn.
LadderStep(s0, u, bit) ==
    LET s == Swapped(s0, s0.swap # bit)
        a == Mod(s.x2 + s.z2)
        b == Mod(s.x2 - s.z2)
        da == Mod((s.x3 - s.z3) * a)
        cb == Mod((s.x3 + s.z3) * b)
        e == Mod(a * a - b * b)
    IN [x2 |-> Mod(Mod(a * a) * Mod(b * b)), z2 |-> Mod(e * Mod(a * a + curve.k24 * e)),
        x3 |-> Mod((da + cb) * (da + cb)), z3 |-> Mod(u * Mod((da - cb) * (da - cb))), swap |-> bit]

LadderEnd(k, u) ==
    FoldLeft(LAMBDA s, i : LadderStep(s, u, (k \div 2 ^ (curve.ladderBits - i)) % 2 = 1),
             [x2 |-> 1, z2 |-> 0, x3 |-> u, z3 |-> 1, swap |-> FALSE],
             [i \in 1 .. curve.ladderBits |-> i])

\* edwards_multiply()
Ladder(k, u) ==
    LET end == LadderEnd(k, u)
        s == Swapped(end, end.swap)
    IN Mod(s.x2 * InverseOf(s.z2))

ToPublic(private) == Ladder(Clamped(private), curve.u)
Compute(private, public) == Ladder(Clamped(private), Mod(public))

----------------------------------------------------------------------------
(* The affine group law of the curve b v^2 = u^3 + a u^2 + u.  For any u   *)
(* but those of order two, (u, 1) is a point of the curve with b the right *)
(* side: the curve itself up to its scale, or its twist.                   *)

Right(u) == Mod(u * Mod(u * u + (4 * curve.k24 + 2) * u + 1))

MontSum(p, q, b) ==
    LET slope == IF p # q THEN (q[2] - p[2]) * InverseOf(Mod(q[1] - p[1]))
                 ELSE Mod(3 * p[1] * p[1] + 2 * (4 * curve.k24 + 2) * p[1] + 1) * InverseOf(Mod(2 * b * p[2]))
        s == Mod(slope)
        u == Mod(b * s * s - (4 * curve.k24 + 2) - p[1] - q[1])
    IN CASE p = <<>> -> q
         [] q = <<>> -> p
         [] p # <<>> /\ q # <<>> ->
              IF p[1] = q[1] /\ Mod(p[2] + q[2]) = 0 THEN <<>> ELSE <<u, Mod(s * (p[1] - u) - p[2])>>

\* The u of k times a point with that u, 0 at infinity.
MontTimes(k, u) ==
    LET b == Right(u)
        times[n \in Nat] ==
            IF n = 0 THEN <<>>
            ELSE LET half == times[n \div 2]
                     even == MontSum(half, half, b)
                 IN IF n % 2 = 0 THEN even ELSE MontSum(even, <<u, 1>>, b)
    IN IF b = 0 THEN (IF k % 2 = 0 THEN 0 ELSE u)
       ELSE IF times[k] = <<>> THEN 0 ELSE times[k][1]

----------------------------------------------------------------------------
ExchangeInit == exchange = <<>>

\* Whatever the peer sends is a u: the highest bit counts.
Exchange ==
    /\ exchange = <<>>
    /\ \E private \in PrivateKeys :
        \/ exchange' = <<Clamped(private), curve.u, ToPublic(private)>>
        \/ \E public \in 0 .. 2 ^ (curve.width + 1) - 1 :
               exchange' = <<Clamped(private), Mod(public), Compute(private, public)>>
    /\ UNCHANGED curve

----------------------------------------------------------------------------
\* A key exchange returns the u of the private key times the peer's point, by
\* the group law of the curve the u lies on, be it the curve or its twist, of
\* small order or none, and 0 at infinity.  As the law is commutative, the
\* secrets of two parties are the same.
SecretRight == exchange # <<>> => exchange[3] = MontTimes(exchange[1], exchange[2])
=============================================================================
