----------------------------- MODULE PrimeFields -----------------------------
(* Arithmetic modulo the primes of the Edwards curves, word by word with   *)
(* its carries: F25519 (f25519.cpp, modulo 2^255 - 19), F448 (f448.cpp,    *)
(* modulo 2^448 - 2^224 - 1) and Fp8 (fprime8.cpp, modulo any smaller      *)
(* number).  The algorithms are those of the code with words of fewer bits *)
(* and numbers of fewer words; 255 - 19 becomes total - 1 bits and C.      *)
(*                                                                         *)
(* One register is loaded and then worked on by any sequence of operations *)
(* without being normalized, as the curve formulas do.                     *)
EXTENDS Integers, SequencesExt

CONSTANTS
    Bits25519, Words25519, C,   \* 32, 8 and 19 in the code
    Bits448, Words448,          \* 32 and 14 in the code
    ByteBits, ByteCount,        \* 8 and 32: a number of Fp8
    Primes,                     \* moduli of Fp8
    Operands25519, Operands448  \* second operands

----------------------------------------------------------------------------
(* Numbers, words and carries.  A borrow is a carry of -1.                *)

\* base ^ n, and f[1] + ... + f[n].
Pow(base, n) == LET upTo[i \in 0 .. n] == IF i = 0 THEN 1 ELSE upTo[i - 1] * base IN upTo[n]
Sum(f, n) == LET upTo[i \in 0 .. n] == IF i = 0 THEN 0 ELSE upTo[i - 1] + f[i] IN upTo[n]

\* The n words of a number, from the least significant one.
WordsOf(v, n, base) == [i \in 1 .. n |-> (v \div Pow(base, i - 1)) % base]
NumberOf(words, base) == Sum([i \in 1 .. Len(words) |-> words[i] * Pow(base, i - 1)], Len(words))

\* What the lowest n places leave for the next.
Carry(sums, carry, base, n) ==
    LET c[i \in 0 .. n] == IF i = 0 THEN carry ELSE (c[i - 1] + sums[i]) \div base IN c[n]

\* Each place takes its sum and the carry from below, and keeps one word.
Rippled(sums, carry, base) ==
    [words |-> [i \in 1 .. Len(sums) |-> (Carry(sums, carry, base, i - 1) + sums[i]) % base],
     carry |-> Carry(sums, carry, base, Len(sums))]

Plus(a, b) == [i \in 1 .. Len(a) |-> a[i] + b[i]]
Minus(a, b) == [i \in 1 .. Len(a) |-> a[i] - b[i]]

\* The values of a word, half of them, and the values of a number.
Base25519 == Pow(2, Bits25519)
Top25519 == Pow(2, Bits25519 - 1)
Range25519 == Pow(Base25519, Words25519)
Base448 == Pow(2, Bits448)
Half == Words448 \div 2
Range448 == Pow(Base448, Words448)
Values8 == Pow(2, ByteBits * ByteCount)

\* 2^(total - 1) - C and 2^total - 2^(total / 2) - 1.
P25519 == Top25519 * Pow(Base25519, Words25519 - 1) - C
P448 == Range448 - Pow(Base448, Half) - 1

\* A carry of F25519::mul, folded, stays below the top bit; a small number of
\* F448::load is less than a word; a modulus of Fp8 leaves the top bit free.
ASSUME FieldAssumption ==
    /\ {Bits25519, Words25519, C, Bits448, Words448, ByteBits, ByteCount} \subseteq Nat \ {0}
    /\ 4 * C * C * Words25519 * Base25519 + 3 * C <= P25519
    /\ Words448 % 2 = 0 /\ Bits448 # 1
    /\ Primes \subseteq Nat /\ \A q \in Primes : 2 <= q /\ 2 * q < Values8
    /\ Operands25519 \subseteq Nat /\ \A y \in Operands25519 : y < Range25519
    /\ Operands448 \subseteq Nat /\ \A y \in Operands448 : y < Range448

VARIABLES
    field,      \* the field in use, and its modulus for Fp8
    register,   \* the register
    raw,        \* loaded and not yet worked on
    exact,      \* what it stands for, in 0 .. modulus - 1
    lost        \* a sum of F448 was too large for its one reduction

fieldVars == <<field, register, raw, exact, lost>>

----------------------------------------------------------------------------
(* F25519.                                                                *)

Words25(v) == WordsOf(v, Words25519, Base25519)
Number25(words) == NumberOf(words, Base25519)
Ripple25(sums, carry) == Rippled(sums, carry, Base25519)

\* A reduction that forgets the carry.
ReduceTopBit(words, carry) ==
    Ripple25([words EXCEPT ![Words25519] = @ % Top25519],
             (words[Words25519] \div Top25519) * C).words

\* f25519_reduce_single(): the top bit and the carry are worth C each.
ReduceSingle(words, carry) ==
    Ripple25([words EXCEPT ![Words25519] = @ % Top25519],
             (2 * carry + words[Words25519] \div Top25519) * C).words

\* F25519::normalize(): x + C without its top bit is x - p.
Normalize25519(v) ==
    LET y == ReduceSingle(Words25(v), 0)
        low == Ripple25(SubSeq(y, 1, Words25519 - 1), C)
        high == low.carry + y[Words25519] - Top25519
    IN IF high < 0 THEN Number25(y) ELSE Number25(Append(low.words, high % Base25519))

Add25519(a, b) ==
    LET s == Ripple25(Plus(Words25(a), Words25(b)), 0)
    IN Number25(ReduceSingle(s.words, s.carry))

\* F25519::sub, F25519::neg: a + 2p - b, of which 2p is split into base - 2C
\* and as many times base - 1 as there are higher places.
Sub25519(a, b) ==
    LET lifted == [i \in 1 .. Words25519 |->
            (Words25(a)[i] - Words25(b)[i])
              + (IF i < Words25519 THEN Base25519 * (Base25519 - 1) ELSE 0)]
        s == Ripple25(lifted, Base25519 - 2 * C)
    IN Number25(ReduceSingle(s.words, s.carry))

\* F25519::mul: products above the number come back at 2C times their weight.
Row25519(v, j) ==
    [i \in 1 .. Words25519 |-> IF j <= i THEN v[i - j + 1] ELSE 2 * C * v[i + Words25519 - j + 1]]
Mul25519(a, b) ==
    LET u == Words25(a)  v == Words25(b)
        column(i) == Sum([j \in 1 .. Words25519 |-> u[j] * Row25519(v, j)[i]], Words25519)
        s == Ripple25([i \in 1 .. Words25519 |-> column(i)], 0)
    IN Number25(ReduceSingle(s.words, s.carry))

----------------------------------------------------------------------------
(* F448.                                                                  *)

Words44(v) == WordsOf(v, Words448, Base448)
Number44(words) == NumberOf(words, Base448)

\* f448_add_carry() from word at up.
AddCarry(words, carry, at) ==
    LET s == Rippled(SubSeq(words, at + 1, Len(words)), carry, Base448)
    IN [words |-> SubSeq(words, 1, at) \o s.words, carry |-> s.carry]

\* f448_reduce(): 2^448 is 2^224 + 1; the carry that is left.
Reduce448(words, carry) ==
    LET low == AddCarry(words, carry, 0)
        high == AddCarry(low.words, carry, Half)
    IN [words |-> high.words, carry |-> IF low.carry + high.carry > 0 THEN 1 ELSE 0]

\* F448::normalize
Normalize448(v) ==
    LET s == Rippled(Minus(Words44(v), Words44(P448)), 0, Base448)
    IN IF s.carry < 0 THEN v ELSE Number44(s.words)

Add448(a, b) ==
    LET s == Rippled(Plus(Words44(a), Words44(b)), 0, Base448)
    IN Number44(Reduce448(s.words, s.carry).words)

\* F448::neg: 2p - x, the highest bit of 2p in the carry.
Neg448(a) ==
    LET s == Rippled(Minus(Words44(2 * P448 - Range448), Words44(a)), 0, Base448)
    IN Number44(Reduce448(s.words, 1 + s.carry).words)

\* F448::load of a small negative or positive number.
Load448(n) ==
    IF n >= 0 THEN n
    ELSE Number44([Words44(P448) EXCEPT ![1] = (n - 1) % Base448])

\* F448::mul, step 2: what lies above the number is added at both places.
Folded(tmp) ==
    LET r == SubSeq(tmp, Words448 + 1, 2 * Words448)
        low == Rippled(Plus(SubSeq(tmp, 1, Words448), r), 0, Base448)
        once == low.words \o <<low.carry>> \o [i \in 1 .. Words448 - 1 |-> 0]
        high == Rippled(Plus(SubSeq(once, Half + 1, Half + Words448), r), 0, Base448)
    IN SubSeq(once, 1, Half) \o high.words \o <<high.carry>> \o [i \in 1 .. Half - 1 |-> 0]

Row448(v, j) ==
    [i \in 1 .. 2 * Words448 |-> IF i - j + 1 \in 1 .. Words448 THEN v[i - j + 1] ELSE 0]
Mul448(a, b) ==
    LET u == Words44(a)  v == Words44(b)
        column(i) == Sum([j \in 1 .. Words448 |-> u[j] * Row448(v, j)[i]], Words448)
        product == Rippled([i \in 1 .. 2 * Words448 |-> column(i)], 0, Base448)
        tmp == Folded(Folded(product.words))
        once == Reduce448(SubSeq(tmp, 1, Words448), tmp[Words448 + 1])
    IN Number44(Reduce448(once.words, once.carry).words)

----------------------------------------------------------------------------
(* Powers: bigint_pow_rle().  a and b are the places r and s; the result  *)
(* is left where the last multiplication put it.                          *)

Op(f, a, b) == IF f.name = "F25519" THEN Mul25519(a, b) ELSE Mul448(a, b)

\* One bit of the exponent: a one bit of an odd code, the zero bit of an even.
Squared(f, s, v, i) ==
    LET squared == Op(f, s.b, s.b)
    IN IF i % 2 = 1 THEN [a |-> squared, b |-> Op(f, squared, v), swaps |-> s.swaps]
                    ELSE [a |-> s.b, b |-> squared, swaps |-> s.swaps + 1]

\* One code i of the exponent: i \div 2 equal bits.
Coded(f, s, v, i, n) ==
    LET after[m \in 0 .. n] == IF m = 0 THEN s ELSE Squared(f, after[m - 1], v, i) IN after[n]
Codes(f, v, codes, n) ==
    LET after[m \in 0 .. n] ==
            IF m = 0 THEN [a |-> 0, b |-> v, swaps |-> 0]
            ELSE Coded(f, after[m - 1], v, codes[m], codes[m] \div 2)
    IN after[n]
PowRle(f, v, codes) == Codes(f, v, codes, Len(codes))

\* F25519::inv reads the result from r, F25519::pow58 from s.
InR(s) == IF s.swaps % 2 = 0 THEN s.b ELSE s.a
InS(s) == IF s.swaps % 2 = 1 THEN s.b ELSE s.a

----------------------------------------------------------------------------
(* Fp8.                                                                   *)

\* fp_raw_try_sub, fp_shift_n_bits, fp_prime_msb
TrySub(v, q) == IF v < q THEN v ELSE v - q
Shifted(v, n) == (v * Pow(2, n)) % Values8
Msb(q) == CHOOSE i \in 0 .. ByteBits * ByteCount : Pow(2, i) <= q /\ q < Pow(2, i + 1)
Above(v, i) == v \div Pow(2, i)
Bit(v, i) == Above(v, i) % 2

\* Fp8::load, the lowest bits: one by one.
LoadBits(first, data, rest, q, n) ==
    LET r[i \in 0 .. n] == IF i = 0 THEN first
                           ELSE TrySub(Shifted(r[i - 1], 1) + Bit(data, rest - i), q)
    IN r[n]

\* Fp8::load: as many top bits as are surely below the modulus at once, whole
\* bytes and a part of the next one, the others one by one.
AtOnce(length, q) == IF Msb(q) - 1 < ByteBits * length THEN Msb(q) - 1 ELSE ByteBits * length
First(data, length, total) ==
    LET bytes == total \div ByteBits
        bits == total % ByteBits
        whole == Above(data, ByteBits * (length - bytes))
        next == Above(data, ByteBits * (length - bytes - 1)) % Pow(2, ByteBits)
    IN IF bits = 0 THEN whole ELSE Shifted(whole, bits) + Above(next, ByteBits - bits)
Load8(data, length, q) ==
    LET total == AtOnce(length, q)
        rest == ByteBits * length - total
    IN LoadBits(First(data, length, total), data, rest, q, rest)

\* Fp8::add, Fp8::mul, the latter from the highest bit down.
Add8(a, b, q) == TrySub((a + b) % Values8, q)
WithBit(r, a, b, q, i) ==
    LET doubled == TrySub(Shifted(r, 1), q)
    IN IF Bit(b, Msb(q) + 1 - i) = 1 THEN Add8(doubled, a, q) ELSE doubled
MulBits(a, b, q, n) ==
    LET r[i \in 0 .. n] == IF i = 0 THEN 0 ELSE WithBit(r[i - 1], a, b, q, i) IN r[n]
Mul8(a, b, q) == MulBits(a, b, q, Msb(q) + 1)

----------------------------------------------------------------------------
Modulus == CASE field.name = "F25519" -> P25519
             [] field.name = "F448" -> P448
             [] field.name = "Fp8" -> field.prime

Becomes25519(v, e) == field.name = "F25519" /\ register' = v /\ exact' = e % P25519
Becomes448(v, e) == field.name = "F448" /\ register' = v /\ exact' = e % P448
Becomes8(v, e) == field.name = "Fp8" /\ register' = v /\ exact' = e % field.prime

FieldInit ==
    /\ field \in [name : {"F25519", "F448"}, prime : {0}] \cup [name : {"Fp8"}, prime : Primes]
    /\ register = 0 /\ raw = TRUE /\ exact = 0 /\ lost = FALSE

\* Numbers that come from outside: any words.
LoadNumber ==
    /\ raw /\ register = 0
    /\ \/ \E v \in 0 .. Range25519 - 1 : Becomes25519(v, v)
       \/ \E v \in 0 .. Range448 - 1 : Becomes448(v, v)
       \/ \E n \in -3 .. 3 : Becomes448(Load448(n), n)
    /\ UNCHANGED <<field, raw, lost>>

LoadBytes(data, length) ==
    /\ raw /\ register = 0 /\ Becomes8(Load8(data, length, field.prime), data)
    /\ UNCHANGED <<field, raw, lost>>

\* x = x + y, x = x - y and x = y - x; the number subtracted from 2p is one
\* that a reduction has left below 2p.
Add25519By(y) == Becomes25519(Add25519(register, y), exact + y)
Sub25519By(y) ==
    \/ y < 2 * P25519 /\ Becomes25519(Sub25519(register, y), exact - y)
    \/ register < 2 * P25519 /\ Becomes25519(Sub25519(y, register), y - exact)

\* F448::add takes no notice of the carry that its reduction leaves: such a sum
\* is short of 2^448, which no operand below p can bring about.
TooLarge(sum) == sum >= Range448 + P448
Add448By(y) == Becomes448(Add448(register, y), exact + y) /\ lost' = TooLarge(register + y)

Negated ==
    \/ register < 2 * P25519 /\ Becomes25519(Sub25519(0, register), -exact)
    \/ Becomes448(Neg448(register), -exact)

Multiplied ==
    \/ \E y \in Operands25519 : Becomes25519(Mul25519(register, y), exact * y)
    \/ \E y \in Operands448 : Becomes448(Mul448(register, y), exact * y)
    \/ \E y \in 0 .. field.prime - 1 : Becomes8(Mul8(register, y, field.prime), exact * y)

Added ==
    \/ \E y \in Operands448 : Add448By(y)
    \/ /\ \/ \E y \in Operands25519 : Add25519By(y) \/ Sub25519By(y)
          \/ \E y \in 0 .. field.prime - 1 : Becomes8(Add8(register, y, field.prime), exact + y)
       /\ UNCHANGED lost

\* A power of what the register stands for.
Power(v, n, p) ==
    LET upTo[i \in 0 .. n] == IF i = 0 THEN 1 ELSE (v * upTo[i - 1]) % p IN upTo[n]

\* The exponent 29 is 11101 in binary, its zero bit in a code of its own, and
\* leaves the result in s; 26 is 11010 and leaves it in r.
ExponentOf(n) == IF n = 29 THEN <<5, 2, 3>> ELSE <<3, 2, 3, 2>>
ResultOf(s, n) == IF n = 29 THEN InS(s) ELSE InR(s)
Raised ==
    /\ field.name # "Fp8"
    /\ \E n \in {26, 29} :
           /\ register' = ResultOf(PowRle(field, register, ExponentOf(n)), n)
           /\ exact' = Power(exact, n, Modulus)

\* A behaviour ends with the first carry lost: the words that are left are as
\* good as loaded ones, but no longer stand for exact.
WorkedOn ==
    /\ ~lost /\ raw' = FALSE /\ UNCHANGED field
    /\ Added \/ ((Negated \/ Multiplied \/ Raised) /\ UNCHANGED lost)

FieldNext ==
    \/ LoadNumber
    \/ \E length \in 1 .. ByteCount + 2 : \E data \in 0 .. Pow(2, ByteBits * length) - 1 :
           LoadBytes(data, length)
    \/ WorkedOn
FieldSpec == FieldInit /\ [][FieldNext]_fieldVars

----------------------------------------------------------------------------
\* After any sequence of operations the register stands for the exact result,
\* though it is reduced only as far as each operation cares to: but for sums
\* of F448 that are too large no carry is lost at the top, a value of F25519
\* can be the operand of the next operation, any words are one of F448, and
\* normalizing gives the result itself.
FieldRight ==
    /\ ~lost => register % Modulus = exact
    /\ field.name = "F25519" => Normalize25519(register) = exact /\ (raw \/ register < 2 * P25519)
    /\ field.name = "F448" => (lost \/ Normalize448(register) = exact) /\ register < Range448
    /\ field.name = "Fp8" => register = exact

\* What f448_test_gen.py expects of F448::add for any two operands, 2^448 - 1
\* twice among them and all the words a reduction may leave above p: the sum
\* modulo p.  It is not so: a carry may be lost.
SumsExact == register % Modulus = exact
=============================================================================
