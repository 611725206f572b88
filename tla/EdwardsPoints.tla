---------------------------- MODULE EdwardsPoints ----------------------------
(* Points of the two Edwards curves: ed25519_pt (ed25519.cpp, -x^2 + y^2 = *)
(* 1 + d x^2 y^2, extended coordinates X, Y, Z and T = XY/Z) and ed448_pt  *)
(* (ed448.cpp, x^2 + y^2 = 1 + d x^2 y^2, projective X, Y, Z), with the    *)
(* formulas of the code over small primes of the same residues.            *)
(*                                                                         *)
(* A field element is its residue.  PrimeFields is about how far the code  *)
(* reduces it: where it reads the bits of a value that is not normalized,  *)
(* a small residue may be there with the prime added (Held), and a sum of  *)
(* two such values of ed448 whose carry is lost has no place here.         *)
(*                                                                         *)
(* An encoding is <<y, rest, parity>>: the bits of y, the bits between y   *)
(* and the highest one, and the highest one.                               *)
(*                                                                         *)
(* One point is loaded and then worked on by any sequence of operations.   *)
EXTENDS Integers, SequencesExt

CONSTANTS
    Curves,         \* records: see CurveAssumption
    ScalarBits,     \* 256 and 448 in the code
    Scalars         \* multipliers tried

ASSUME CurveAssumption ==
    /\ ScalarBits \in Nat \ {0} /\ Scalars \subseteq 0 .. 2 ^ ScalarBits - 1
    /\ \A c \in Curves :
        /\ {c.prime, c.d, c.width, c.order, c.tiny, c.base[1], c.base[2]} \subseteq Nat
        /\ 2 ^ (c.width - 1) < c.prime /\ c.prime + c.tiny <= 2 ^ c.width
        /\ c.base[1] % 2 = 0
        /\ c.name = "ed448" => c.tiny <= c.base[1] /\ c.base[1] + c.tiny <= c.prime
        /\ \/ c.name = "ed25519" /\ c.prime % 8 = 5
           \/ c.name = "ed448" /\ c.prime % 4 = 3

VARIABLES
    curve,      \* the curve in use
    point,      \* the coordinates the object holds
    stands      \* the affine point they stand for, or <<>> for none

pointVars == <<curve, point, stands>>

----------------------------------------------------------------------------
Mod(v) == v % curve.prime
Is25519 == curve.name = "ed25519"

\* bigint_pow_rle() with a constant exponent.
Powered(v, n) ==
    LET pow[i \in Nat] == IF i = 0 THEN 1
                          ELSE IF i % 2 = 1 THEN Mod(v * pow[i - 1])
                          ELSE LET h == pow[i \div 2] IN Mod(h * h)
    IN pow[n]

InverseOf(v) == Powered(v, curve.prime - 2)

\* project(); the T of ed448 does not exist.
Projected(a, b) ==
    IF Is25519 THEN [x |-> a, y |-> b, z |-> 1, t |-> Mod(a * b)] ELSE [x |-> a, y |-> b, z |-> 1]

NeutralPoint == Projected(0, 1)

\* An object load() has refused: no point has Z = 0.
NoPoint == [Projected(0, 0) EXCEPT !.z = 0]

----------------------------------------------------------------------------
(* Sums.                                                                   *)

\* Mutant of Sum25519: C is d T1 T2.
SumHalfC(a, b) ==
    LET m == Mod((a.y - a.x) * (b.y - b.x))
        n == Mod((a.y + a.x) * (b.y + b.x))
        c == Mod(curve.d * Mod(a.t * b.t))
        d == Mod(2 * a.z * b.z)
    IN [x |-> Mod((n - m) * (d - c)), y |-> Mod((d + c) * (n + m)),
        z |-> Mod((d + c) * (d - c)), t |-> Mod((n - m) * (n + m))]

\* ed25519_add_impl: m, n, c, d are A, B, C, D of the comments there.
Sum25519(a, b) ==
    LET m == Mod((a.y - a.x) * (b.y - b.x))
        n == Mod((a.y + a.x) * (b.y + b.x))
        c == Mod(2 * curve.d * Mod(a.t * b.t))
        d == Mod(2 * a.z * b.z)
    IN [x |-> Mod((n - m) * (d - c)), y |-> Mod((d + c) * (n + m)),
        z |-> Mod((d + c) * (d - c)), t |-> Mod((n - m) * (n + m))]

\* ed25519_double
Double25519(a) ==
    LET h == Mod(a.x * a.x + a.y * a.y)
        g == Mod(a.x * a.x - a.y * a.y)
        f == Mod(2 * a.z * a.z + g)
        e == Mod(h - (a.x + a.y) * (a.x + a.y))
    IN [x |-> Mod(e * f), y |-> Mod(g * h), z |-> Mod(g * f), t |-> Mod(e * h)]

\* ED448::add
Sum448(a, b) ==
    LET m == Mod(a.z * b.z)
        c == Mod(a.x * b.x)
        d == Mod(a.y * b.y)
        e == Mod(Mod(c * d) * curve.d)
        f == Mod(m * m - e)
        g == Mod(m * m + e)
        h == Mod((a.x + a.y) * (b.x + b.y))
    IN [x |-> Mod(Mod(f * (h - c - d)) * m), y |-> Mod(m * Mod((d - c) * g)), z |-> Mod(f * g)]

\* ed448_double
Double448(a) ==
    LET b == Mod((a.x + a.y) * (a.x + a.y))
        c == Mod(a.x * a.x)
        d == Mod(a.y * a.y)
        j == Mod(c + d - 2 * a.z * a.z)
    IN [x |-> Mod(j * (b - (c + d))), y |-> Mod((c + d) * (c - d)), z |-> Mod((c + d) * j)]

PointSum(a, b) == IF Is25519 THEN Sum25519(a, b) ELSE Sum448(a, b)
PointDouble(a) == IF Is25519 THEN Double25519(a) ELSE Double448(a)

\* ED25519::mul, ED448::mul: from the highest bit down.
PointTimes(a, k) ==
    FoldLeft(LAMBDA r, i : LET twice == PointDouble(r)
                           IN IF (k \div 2 ^ (ScalarBits - i)) % 2 = 1 THEN PointSum(twice, a) ELSE twice,
             NeutralPoint, [i \in 1 .. ScalarBits |-> i])

PointsEqual(a, b) ==
    Mod(a.x * b.z) = Mod(b.x * a.z) /\ Mod(a.y * b.z) = Mod(b.y * a.z)

----------------------------------------------------------------------------
(* Encodings.                                                              *)

\* What a register may hold that a multiplication has left.
Held(v) == IF v < curve.tiny THEN {v, v + curve.prime} ELSE {v}

\* store(): only ed25519 normalizes what it divided by Z.
Unprojected(a) == LET i == InverseOf(a.z) IN Projected(Mod(a.x * i), Mod(a.y * i))
Encoded(a) ==
    LET u == Unprojected(a)
    IN IF Is25519 THEN {<<u.y, 0, u.x % 2>>}
       ELSE {<<y, 0, x % 2>> : x \in Held(u.x), y \in Held(u.y)}

\* The parity is read from the root as it was computed.
WithParity(a, parity) == {IF h % 2 = parity THEN a ELSE Mod(-a) : h \in Held(a)}

\* ed25519_pt::load: u/v is a square if the candidate or its product with
\* sqrt(-1), which is 2^((p-1)/4), is a root.
Decoded25519(e) ==
    LET yy == Mod(e[1] * e[1])
        u == Mod(yy - 1)
        v == Mod(curve.d * yy + 1)
        vvv == Mod(v * Mod(v * v))
        candidate == Mod(vvv * Mod(u * Powered(Mod(Mod(vvv * vvv) * Mod(v * u)), (curve.prime - 5) \div 8)))
        check == Mod(v * Mod(candidate * candidate))
        root == IF check = u THEN candidate ELSE Mod(candidate * Powered(2, (curve.prime - 1) \div 4))
    IN IF check \notin {u, Mod(-u)} THEN {NoPoint}
       ELSE {Projected(x, Mod(e[1])) : x \in WithParity(root, e[3])}

\* ed448_pt::load: y has to be reduced and the seven bits after it clear.
Decoded448(e) ==
    LET yy == Mod(e[1] * e[1])
        u == Mod(yy - 1)
        v == Mod(curve.d * yy - 1)
        uuu == Mod(u * Mod(u * u))
        vvv == Mod(v * Mod(v * v))
        power == Powered(Mod(Mod(Mod(u * u) * uuu) * vvv), (curve.prime - 3) \div 4)
        root == Mod(Mod(uuu * v) * power)
    IN IF e[1] >= curve.prime \/ e[2] # 0 \/ Mod(v * Mod(root * root)) # u THEN {NoPoint}
       ELSE {Projected(x, e[1]) : x \in WithParity(root, e[3])}

\* load(): what the object may hold then.
Decoded(e) == IF Is25519 THEN Decoded25519(e) ELSE Decoded448(e)

\* loadBase(): ed448 decodes it; the base points have even x, and neither it
\* nor its negative is small.
BasePoint ==
    IF Is25519 THEN Projected(curve.base[1], curve.base[2])
    ELSE CHOOSE q \in Decoded448(<<curve.base[2], 0, 0>>) : TRUE

----------------------------------------------------------------------------
(* What the formulas compute: the affine group law.                        *)

A == IF Is25519 THEN -1 ELSE 1

Points ==
    [c \in Curves |->
        {q \in (0 .. c.prime - 1) \X (0 .. c.prime - 1) :
            LET xx == (q[1] * q[1]) % c.prime
                yy == q[2] * q[2]
            IN (IF c.name = "ed25519" THEN yy - xx ELSE yy + xx) % c.prime
                 = (1 + ((c.d * xx) % c.prime) * yy) % c.prime}]

OnCurve == Points[curve]

LawSum(q, r) ==
    LET e == Mod(Mod(curve.d * q[1] * r[1]) * q[2] * r[2])
    IN << Mod((q[1] * r[2] + r[1] * q[2]) * InverseOf(Mod(1 + e))),
          Mod((q[2] * r[2] - A * q[1] * r[1]) * InverseOf(Mod(1 - e))) >>

LawTimes(q, k) ==
    LET times[n \in Nat] == IF n = 0 THEN <<0, 1>>
                            ELSE LET half == times[n \div 2]
                                 IN IF n % 2 = 0 THEN LawSum(half, half) ELSE LawSum(LawSum(half, half), q)
    IN times[k]

\* The points with an encoding: that y and a root of that parity.  The encoding
\* of x = 0 may have either parity; only ed448 asks y to be reduced.
Encoding(e) ==
    {q \in OnCurve : /\ q[2] = Mod(e[1])
                     /\ q[1] = 0 \/ q[1] % 2 = e[3]
                     /\ Is25519 \/ (q[2] = e[1] /\ e[2] = 0)}

\* A root that is small, or whose negative is, may be taken for its negative.
Doubtful(q) == q[1] < curve.tiny \/ curve.prime - q[1] < curve.tiny
Either(q) == IF Doubtful(q) THEN {q, <<Mod(-q[1]), q[2]>>} ELSE {q}

\* The points that loading an encoding may give, and storing and loading a
\* point: ed448 refuses its own encoding of a small y that it did not reduce.
LoadedAs(e) == IF Encoding(e) = {} THEN {<<>>} ELSE UNION {Either(q) : q \in Encoding(e)}
StoredAs(q) == Either(q) \cup IF Is25519 \/ q[2] >= curve.tiny THEN {} ELSE {<<>>}

StandFor(a, q) == IF q = <<>> THEN a.z = 0 ELSE a.z # 0 /\ PointsEqual(a, Projected(q[1], q[2]))

\* Of several points that an object may stand for, the one it does.
OneOf(points, a) ==
    IF \E q \in points : StandFor(a, q) THEN CHOOSE q \in points : StandFor(a, q)
    ELSE CHOOSE q \in points : TRUE

----------------------------------------------------------------------------
PointInit == curve \in Curves /\ point = NeutralPoint /\ stands = <<0, 1>>

Valid == stands # <<>>

LoadPoint ==
    /\ stands = <<0, 1>>
    /\ \E e \in (0 .. 2 ^ curve.width - 1) \X (IF Is25519 THEN {0} ELSE 0 .. 1) \X (0 .. 1) :
        point' \in Decoded(e) /\ stands' = OneOf(LoadedAs(e), point')
    /\ UNCHANGED curve

LoadBase == point' = BasePoint /\ stands' = curve.base /\ UNCHANGED curve

AddPoint ==
    /\ Valid
    /\ \/ \E q \in OnCurve : point' = PointSum(point, Projected(q[1], q[2])) /\ stands' = LawSum(stands, q)
       \/ point' = PointSum(point, point) /\ stands' = LawSum(stands, stands)
    /\ UNCHANGED curve

MultiplyPoint ==
    /\ Valid
    /\ \E k \in Scalars : point' = PointTimes(point, k) /\ stands' = LawTimes(stands, k)
    /\ UNCHANGED curve

StorePoint ==
    /\ Valid
    /\ \E e \in Encoded(point) : point' \in Decoded(e)
    /\ stands' = OneOf(StoredAs(stands), point')
    /\ UNCHANGED curve

PointNext == LoadPoint \/ LoadBase \/ AddPoint \/ MultiplyPoint \/ StorePoint

----------------------------------------------------------------------------
\* The coordinates stand for the point the group law gives, whatever was done
\* before and whatever their common factor: the formulas hold for equal,
\* opposite and neutral operands, an encoding is refused exactly when no point
\* has it, what is stored is loaded again as the same point, T stays the
\* product the next sum relies on, and equals() finds two points equal exactly
\* when they are.  Only a point whose x or -x is small may have been loaded as
\* its negative, and only one of ed448 with a small y not at all.
PointRight ==
    IF ~Valid THEN point.z = 0
    ELSE /\ point.z # 0
         /\ \A q \in OnCurve : PointsEqual(point, Projected(q[1], q[2])) <=> q = stands
         /\ Is25519 => Mod(point.t * point.z) = Mod(point.x * point.y)
=============================================================================
