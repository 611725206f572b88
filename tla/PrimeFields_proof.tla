--------------------------- MODULE PrimeFields_proof ---------------------------
(***************************************************************************)
(* The fields under the Edwards curves compute modulo their primes: for    *)
(* every word size and number of words, no carry of f25519.cpp is lost and *)
(* of f448.cpp only that of a sum of at least 2^448 + p, and fprime8.cpp   *)
(* reduces any data modulo any number that leaves the top bit free.        *)
(*                                                                         *)
(* Val is the value of words, Same congruence.  Each operation has a lemma *)
(* that gives its result up to congruence and its range (AddIs25, MulIs44, *)
(* LoadIs8, ...); from these follows the inductive invariant FieldInv.     *)
(***************************************************************************)
EXTENDS PrimeFields, SequenceTheorems, WellFoundedInduction, TLAPS

-----------------------------------------------------------------------------
(* Sequences, division and induction.                                      *)

\* Induction, over a set instead of a predicate.
LEMMA Induction ==
    ASSUME NEW T, 0 \in T, \A i \in Nat : i \in T => i + 1 \in T
    PROVE  \A i \in Nat : i \in T
<1> SUFFICES ASSUME NEW x \in Nat, x \notin T PROVE FALSE
  OBVIOUS
<1> DEFINE U == Nat \ T
<1>1. \E n \in U : \A m \in U : ~(<<m, n>> \in OpToRel(<, Nat))
  BY WFMin, NatLessThanWellFounded
<1>2. PICK n \in U : \A m \in U : ~(<<m, n>> \in OpToRel(<, Nat))
  BY <1>1
<1>3. n # 0 /\ n - 1 \in Nat /\ n - 1 < n
  OBVIOUS
<1>4. n - 1 \in T
  BY <1>2, <1>3 DEF OpToRel
<1>5. (n - 1) + 1 \in T
  BY <1>3, <1>4
<1> QED
  BY <1>3, <1>5

\* A function on 1..n is a sequence.
LEMMA FunctionIsSeq ==
    ASSUME NEW S, NEW n \in Nat, NEW f \in [1 .. n -> S]
    PROVE  f \in Seq(S) /\ Len(f) = n
<1>1. f \in Seq(S)
  BY SeqDef
<1>2. DOMAIN f = 1 .. n /\ DOMAIN f = 1 .. Len(f) /\ Len(f) \in Nat
  BY <1>1, LenProperties
<1> QED
  BY <1>1, <1>2

\* A sequence, of whatever.
IsSeq(m) == m \in Seq(Range(m))

\* What a sequence is.
LEMMA SeqFacts ==
    ASSUME NEW m, IsSeq(m)
    PROVE  /\ Len(m) \in Nat /\ DOMAIN m = 1 .. Len(m)
           /\ m = [i \in 1 .. Len(m) |-> m[i]]
           /\ \A i \in 1 .. Len(m) : m[i] \in Range(m)
<1>1. m \in [1 .. Len(m) -> Range(m)] /\ Len(m) \in Nat /\ DOMAIN m = 1 .. Len(m)
  BY LenProperties DEF IsSeq
<1> QED
  BY <1>1

\* Whatever its elements.
LEMMA SeqOfSet == ASSUME NEW S, NEW m \in Seq(S) PROVE IsSeq(m)
<1>1. m \in [1 .. Len(m) -> S] /\ Len(m) \in Nat /\ DOMAIN m = 1 .. Len(m)
  BY LenProperties
<1>2. m \in [1 .. Len(m) -> Range(m)]
  BY <1>1 DEF Range
<1> QED
  BY <1>1, <1>2, FunctionIsSeq DEF IsSeq

\* A function on 1..n of unnamed elements.
LEMMA FunctionSeq ==
    ASSUME NEW n \in Nat, NEW f, f = [i \in 1 .. n |-> f[i]]
    PROVE  IsSeq(f) /\ Len(f) = n
<1>1. f \in [1 .. n -> Range(f)]
  BY DEF Range
<1> QED
  BY <1>1, FunctionIsSeq DEF IsSeq

\* Concatenation.
LEMMA ConcatFacts ==
    ASSUME NEW a, IsSeq(a), NEW b, IsSeq(b)
    PROVE  /\ IsSeq(a \o b) /\ Len(a \o b) = Len(a) + Len(b)
           /\ \A i \in 1 .. Len(a) : (a \o b)[i] = a[i]
           /\ \A i \in 1 .. Len(b) : (a \o b)[Len(a) + i] = b[i]
<1> DEFINE S == Range(a) \cup Range(b)
<1>1. a \in Seq(S) /\ b \in Seq(S)
  BY SeqMonotonic DEF IsSeq
<1>2. Len(a) \in Nat /\ Len(b) \in Nat
  BY SeqFacts
<1> HIDE DEF S
<1>3. /\ a \o b \in Seq(S) /\ Len(a \o b) = Len(a) + Len(b)
      /\ \A i \in 1 .. Len(a) + Len(b) : (a \o b)[i] = IF i <= Len(a) THEN a[i] ELSE b[i - Len(a)]
  BY <1>1, ConcatProperties
<1>4. IsSeq(a \o b)
  BY <1>3, SeqOfSet
<1>5. ASSUME NEW i \in 1 .. Len(a) PROVE (a \o b)[i] = a[i]
  <2>1. i \in 1 .. Len(a) + Len(b) /\ i <= Len(a)
    BY <1>2
  <2> QED
    BY <1>3, <2>1
<1>6. ASSUME NEW i \in 1 .. Len(b) PROVE (a \o b)[Len(a) + i] = b[i]
  <2>1. Len(a) + i \in 1 .. Len(a) + Len(b) /\ ~(Len(a) + i <= Len(a)) /\ (Len(a) + i) - Len(a) = i
    BY <1>2
  <2> QED
    BY <1>3, <2>1
<1> QED
  BY <1>3, <1>4, <1>5, <1>6

\* Parts of a sequence.
LEMMA SliceFacts ==
    ASSUME NEW m, NEW a \in Nat, NEW n \in Nat
    PROVE  /\ IsSeq(SubSeq(m, a + 1, a + n)) /\ Len(SubSeq(m, a + 1, a + n)) = n
           /\ \A i \in 1 .. n : SubSeq(m, a + 1, a + n)[i] = m[a + i]
<1> DEFINE S == {m[i] : i \in a + 1 .. a + n}
           s == SubSeq(m, a + 1, a + n)
<1>1. \A i \in a + 1 .. a + n : m[i] \in S
  OBVIOUS
<1>2. a + 1 \in Int /\ a + n \in Int /\ (a + n) - (a + 1) + 1 = n /\ (~(a + 1 <= a + n) => n = 0)
  OBVIOUS
<1> HIDE DEF S
<1>3. /\ s \in Seq(S) /\ Len(s) = IF a + 1 <= a + n THEN (a + n) - (a + 1) + 1 ELSE 0
      /\ \A i \in 1 .. (a + n) - (a + 1) + 1 : s[i] = m[(a + 1) + i - 1]
  BY <1>1, <1>2, SubSeqProperties
<1> HIDE DEF s
<1>4. Len(s) = n
  BY <1>2, <1>3
<1>5. \A i \in 1 .. n : s[i] = m[a + i]
  <2>1. \A i \in 1 .. n : (a + 1) + i - 1 = a + i
    OBVIOUS
  <2> QED
    BY <1>2, <1>3, <2>1
<1>6. IsSeq(s)
  BY <1>3, SeqOfSet
<1> QED
  BY <1>4, <1>5, <1>6 DEF s

\* One element more.
LEMMA AppendFacts ==
    ASSUME NEW a, IsSeq(a), NEW x
    PROVE  /\ IsSeq(Append(a, x)) /\ Len(Append(a, x)) = Len(a) + 1
           /\ \A i \in 1 .. Len(a) : Append(a, x)[i] = a[i]
           /\ Append(a, x)[Len(a) + 1] = x
<1> DEFINE S == Range(a) \cup {x}
<1>1. a \in Seq(S) /\ x \in S
  BY SeqMonotonic DEF IsSeq
<1> HIDE DEF S
<1>2. /\ Append(a, x) \in Seq(S) /\ Len(Append(a, x)) = Len(a) + 1
      /\ \A i \in 1 .. Len(a) : Append(a, x)[i] = a[i]
      /\ Append(a, x)[Len(a) + 1] = x
  BY <1>1, AppendProperties
<1>3. IsSeq(Append(a, x))
  BY <1>2, SeqOfSet
<1> QED
  BY <1>2, <1>3

\* The part after the first k elements.
LEMMA PieceFacts ==
    ASSUME NEW m, NEW a \in Nat, NEW b \in Nat, a <= b
    PROVE  /\ IsSeq(SubSeq(m, a + 1, b)) /\ Len(SubSeq(m, a + 1, b)) = b - a
           /\ \A i \in 1 .. b - a : SubSeq(m, a + 1, b)[i] = m[a + i]
<1> DEFINE n == b - a
<1>1. n \in Nat /\ a + n = b
  OBVIOUS
<1> HIDE DEF n
<1>2. /\ IsSeq(SubSeq(m, a + 1, a + n)) /\ Len(SubSeq(m, a + 1, a + n)) = n
      /\ \A i \in 1 .. n : SubSeq(m, a + 1, a + n)[i] = m[a + i]
  BY <1>1, SliceFacts
<1> QED
  BY <1>1, <1>2 DEF n

\* A sequence of one element.
LEMMA OneFacts == ASSUME NEW x PROVE IsSeq(<<x>>) /\ Len(<<x>>) = 1 /\ <<x>>[1] = x
<1>1. <<x>> \in Seq({x}) /\ Len(<<x>>) = 1 /\ <<x>>[1] = x
  OBVIOUS
<1> QED
  BY <1>1, SeqOfSet

\* Quotient and remainder,
LEMMA DivMod ==
    ASSUME NEW n \in Nat, NEW m \in Nat \ {0}
    PROVE  /\ n \div m \in Nat /\ n % m \in Nat /\ n % m < m
           /\ n = (n \div m) * m + (n % m)
OBVIOUS

\* and what they are.
LEMMA DivModIs ==
    ASSUME NEW n \in Nat, NEW m \in Nat \ {0}, NEW q \in Nat, NEW r \in Nat, r < m, n = q * m + r
    PROVE  n \div m = q /\ n % m = r
OBVIOUS

\* The first elements.
LEMMA FrontFacts ==
    ASSUME NEW m, NEW n \in Nat
    PROVE  /\ IsSeq(SubSeq(m, 1, n)) /\ Len(SubSeq(m, 1, n)) = n
           /\ \A i \in 1 .. n : SubSeq(m, 1, n)[i] = m[i]
<1>1. 0 \in Nat /\ 0 <= n
  OBVIOUS
<1>2. /\ IsSeq(SubSeq(m, 0 + 1, n)) /\ Len(SubSeq(m, 0 + 1, n)) = n - 0
      /\ \A i \in 1 .. n - 0 : SubSeq(m, 0 + 1, n)[i] = m[0 + i]
  BY <1>1, PieceFacts
<1>3. 0 + 1 = 1 /\ n - 0 = n /\ \A i \in 1 .. n : 0 + i = i
  OBVIOUS
<1> QED
  BY <1>2, <1>3

-----------------------------------------------------------------------------
(* The operators that count up from zero.                                  *)

\* Powers.
PowEq(f, base, n) ==
    f = [i \in 0 .. n |-> IF i = 0 THEN 1 ELSE f[i - 1] * base]

\* There is a function as Pow builds it.
LEMMA PowLoop ==
    ASSUME NEW base, NEW n \in Nat
    PROVE  \E f : PowEq(f, base, n)
<1> DEFINE Eq(f, j) == f = [i \in 0 .. j |-> IF i = 0 THEN 1 ELSE f[i - 1] * base]
           T == {j \in Nat : \E f : Eq(f, j)}
<1>1. 0 \in T
  <2> DEFINE f == [i \in 0 .. 0 |-> 1]
  <2>1. Eq(f, 0)
    OBVIOUS
  <2> QED
    BY <2>1
<1>2. ASSUME NEW j \in Nat, j \in T PROVE j + 1 \in T
  <2>1. PICK f : Eq(f, j)
    BY <1>2
  <2> DEFINE g == [i \in 0 .. j + 1 |-> IF i = j + 1 THEN f[j] * base ELSE f[i]]
  <2>2. Eq(g, j + 1)
    BY <2>1
  <2> HIDE DEF g
  <2>3. j + 1 \in Nat /\ \E h : Eq(h, j + 1)
    BY <2>2
  <2> QED
    BY <2>3
<1> HIDE DEF T
<1>3. n \in T
  BY <1>1, <1>2, Induction
<1> QED
  BY <1>3 DEF T, PowEq

\* Pow is the value of any such function.
LEMMA PowIs ==
    ASSUME NEW base, NEW n \in Nat, NEW f, PowEq(f, base, n)
    PROVE  Pow(base, n) = f[n]
<1> DEFINE Eq(g) == g = [i \in 0 .. n |-> IF i = 0 THEN 1 ELSE g[i - 1] * base]
           h == CHOOSE g : Eq(g)
<1>1. Eq(f)
  BY DEF PowEq
<1>2. Eq(h)
  BY <1>1
<1>3. Pow(base, n) = h[n]
  BY DEF Pow
<1> HIDE DEF h
<1> DEFINE T == {i \in Nat : i <= n => f[i] = h[i]}
<1>4. 0 \in T
  BY <1>1, <1>2
<1>5. ASSUME NEW i \in Nat, i \in T PROVE i + 1 \in T
  <2>1. CASE i + 1 <= n
    <3>1. f[i] = h[i] /\ i + 1 \in 0 .. n /\ i + 1 # 0 /\ (i + 1) - 1 = i
      BY <1>5, <2>1
    <3>2. f[i + 1] = f[(i + 1) - 1] * base /\ h[i + 1] = h[(i + 1) - 1] * base
      BY <1>1, <1>2, <3>1
    <3>3. f[i + 1] = h[i + 1]
      BY <3>1, <3>2
    <3> QED
      BY <3>3
  <2>2. CASE ~(i + 1 <= n)
    BY <2>2
  <2> QED
    BY <2>1, <2>2
<1> HIDE DEF T
<1>6. n \in T
  BY <1>4, <1>5, Induction
<1> QED
  BY <1>3, <1>6 DEF T

\* What the definition of Pow says, step by step.
LEMMA PowFacts ==
    ASSUME NEW base, NEW n \in Nat
    PROVE  /\ Pow(base, 0) = 1
           /\ Pow(base, n + 1) = Pow(base, n) * base
<1>1. Pow(base, 0) = 1
  <2> DEFINE f == [i \in 0 .. 0 |-> 1]
  <2>1. PowEq(f, base, 0) /\ f[0] = 1
    BY DEF PowEq
  <2> HIDE DEF f
  <2>2. 0 \in Nat
    OBVIOUS
  <2> QED
    BY <2>1, <2>2, PowIs
<1>2. Pow(base, n + 1) = Pow(base, n) * base
  <2>0. n + 1 \in Nat
    OBVIOUS
  <2>1. PICK f : PowEq(f, base, n + 1)
    BY <2>0, PowLoop
  <2> DEFINE g == [i \in 0 .. n |-> f[i]]
  <2>2. PowEq(g, base, n)
    BY <2>1 DEF PowEq
  <2>3. g[n] = f[n]
    OBVIOUS
  <2> HIDE DEF g
  <2>4. Pow(base, n) = f[n]
    BY <2>2, <2>3, PowIs
  <2>5. Pow(base, n + 1) = f[n + 1]
    BY <2>0, <2>1, PowIs
  <2>6. n + 1 \in 0 .. n + 1 /\ n + 1 # 0 /\ (n + 1) - 1 = n
    OBVIOUS
  <2>7. f[n + 1] = f[(n + 1) - 1] * base
    BY <2>1, <2>6 DEF PowEq
  <2> QED
    BY <2>4, <2>5, <2>6, <2>7
<1> QED
  BY <1>1, <1>2

\* Sums.
SumEq(f, s, n) ==
    f = [i \in 0 .. n |-> IF i = 0 THEN 0 ELSE f[i - 1] + s[i]]

\* There is a function as Sum builds it.
LEMMA SumLoop ==
    ASSUME NEW s, NEW n \in Nat
    PROVE  \E f : SumEq(f, s, n)
<1> DEFINE Eq(f, j) == f = [i \in 0 .. j |-> IF i = 0 THEN 0 ELSE f[i - 1] + s[i]]
           T == {j \in Nat : \E f : Eq(f, j)}
<1>1. 0 \in T
  <2> DEFINE f == [i \in 0 .. 0 |-> 0]
  <2>1. Eq(f, 0)
    OBVIOUS
  <2> QED
    BY <2>1
<1>2. ASSUME NEW j \in Nat, j \in T PROVE j + 1 \in T
  <2>1. PICK f : Eq(f, j)
    BY <1>2
  <2> DEFINE g == [i \in 0 .. j + 1 |-> IF i = j + 1 THEN f[j] + s[j + 1] ELSE f[i]]
  <2>2. Eq(g, j + 1)
    BY <2>1
  <2> HIDE DEF g
  <2>3. j + 1 \in Nat /\ \E h : Eq(h, j + 1)
    BY <2>2
  <2> QED
    BY <2>3
<1> HIDE DEF T
<1>3. n \in T
  BY <1>1, <1>2, Induction
<1> QED
  BY <1>3 DEF T, SumEq

\* Sum is the value of any such function.
LEMMA SumIs ==
    ASSUME NEW s, NEW n \in Nat, NEW f, SumEq(f, s, n)
    PROVE  Sum(s, n) = f[n]
<1> DEFINE Eq(g) == g = [i \in 0 .. n |-> IF i = 0 THEN 0 ELSE g[i - 1] + s[i]]
           h == CHOOSE g : Eq(g)
<1>1. Eq(f)
  BY DEF SumEq
<1>2. Eq(h)
  BY <1>1
<1>3. Sum(s, n) = h[n]
  BY DEF Sum
<1> HIDE DEF h
<1> DEFINE T == {i \in Nat : i <= n => f[i] = h[i]}
<1>4. 0 \in T
  BY <1>1, <1>2
<1>5. ASSUME NEW i \in Nat, i \in T PROVE i + 1 \in T
  <2>1. CASE i + 1 <= n
    <3>1. f[i] = h[i] /\ i + 1 \in 0 .. n /\ i + 1 # 0 /\ (i + 1) - 1 = i
      BY <1>5, <2>1
    <3>2. f[i + 1] = f[(i + 1) - 1] + s[i + 1] /\ h[i + 1] = h[(i + 1) - 1] + s[i + 1]
      BY <1>1, <1>2, <3>1
    <3>3. f[i + 1] = h[i + 1]
      BY <3>1, <3>2
    <3> QED
      BY <3>3
  <2>2. CASE ~(i + 1 <= n)
    BY <2>2
  <2> QED
    BY <2>1, <2>2
<1> HIDE DEF T
<1>6. n \in T
  BY <1>4, <1>5, Induction
<1> QED
  BY <1>3, <1>6 DEF T

\* What the definition of Sum says, step by step.
LEMMA SumFacts ==
    ASSUME NEW s, NEW n \in Nat
    PROVE  /\ Sum(s, 0) = 0
           /\ Sum(s, n + 1) = Sum(s, n) + s[n + 1]
<1>1. Sum(s, 0) = 0
  <2> DEFINE f == [i \in 0 .. 0 |-> 0]
  <2>1. SumEq(f, s, 0) /\ f[0] = 0
    BY DEF SumEq
  <2> HIDE DEF f
  <2>2. 0 \in Nat
    OBVIOUS
  <2> QED
    BY <2>1, <2>2, SumIs
<1>2. Sum(s, n + 1) = Sum(s, n) + s[n + 1]
  <2>0. n + 1 \in Nat
    OBVIOUS
  <2>1. PICK f : SumEq(f, s, n + 1)
    BY <2>0, SumLoop
  <2> DEFINE g == [i \in 0 .. n |-> f[i]]
  <2>2. SumEq(g, s, n)
    BY <2>1 DEF SumEq
  <2>3. g[n] = f[n]
    OBVIOUS
  <2> HIDE DEF g
  <2>4. Sum(s, n) = f[n]
    BY <2>2, <2>3, SumIs
  <2>5. Sum(s, n + 1) = f[n + 1]
    BY <2>0, <2>1, SumIs
  <2>6. n + 1 \in 0 .. n + 1 /\ n + 1 # 0 /\ (n + 1) - 1 = n
    OBVIOUS
  <2>7. f[n + 1] = f[(n + 1) - 1] + s[n + 1]
    BY <2>1, <2>6 DEF SumEq
  <2> QED
    BY <2>4, <2>5, <2>6, <2>7
<1> QED
  BY <1>1, <1>2

\* Carries.
CarryEq(f, sums, carry, base, n) ==
    f = [i \in 0 .. n |-> IF i = 0 THEN carry ELSE (f[i - 1] + sums[i]) \div base]

\* There is a function as Carry builds it.
LEMMA CarryLoop ==
    ASSUME NEW sums, NEW carry, NEW base, NEW n \in Nat
    PROVE  \E f : CarryEq(f, sums, carry, base, n)
<1> DEFINE Eq(f, j) == f = [i \in 0 .. j |-> IF i = 0 THEN carry
                                             ELSE (f[i - 1] + sums[i]) \div base]
           T == {j \in Nat : \E f : Eq(f, j)}
<1>1. 0 \in T
  <2> DEFINE f == [i \in 0 .. 0 |-> carry]
  <2>1. Eq(f, 0)
    OBVIOUS
  <2> QED
    BY <2>1
<1>2. ASSUME NEW j \in Nat, j \in T PROVE j + 1 \in T
  <2>1. PICK f : Eq(f, j)
    BY <1>2
  <2> DEFINE g == [i \in 0 .. j + 1 |-> IF i = j + 1 THEN (f[j] + sums[j + 1]) \div base ELSE f[i]]
  <2>2. Eq(g, j + 1)
    BY <2>1
  <2> HIDE DEF g
  <2>3. j + 1 \in Nat /\ \E h : Eq(h, j + 1)
    BY <2>2
  <2> QED
    BY <2>3
<1> HIDE DEF T
<1>3. n \in T
  BY <1>1, <1>2, Induction
<1> QED
  BY <1>3 DEF T, CarryEq

\* Carry is the value of any such function.
LEMMA CarryIs ==
    ASSUME NEW sums, NEW carry, NEW base, NEW n \in Nat, NEW f, CarryEq(f, sums, carry, base, n)
    PROVE  Carry(sums, carry, base, n) = f[n]
<1> DEFINE Eq(g) == g = [i \in 0 .. n |-> IF i = 0 THEN carry ELSE (g[i - 1] + sums[i]) \div base]
           h == CHOOSE g : Eq(g)
<1>1. Eq(f)
  BY DEF CarryEq
<1>2. Eq(h)
  BY <1>1
<1>3. Carry(sums, carry, base, n) = h[n]
  BY DEF Carry
<1> HIDE DEF h
<1> DEFINE T == {i \in Nat : i <= n => f[i] = h[i]}
<1>4. 0 \in T
  BY <1>1, <1>2
<1>5. ASSUME NEW i \in Nat, i \in T PROVE i + 1 \in T
  <2>1. CASE i + 1 <= n
    <3>1. f[i] = h[i] /\ i + 1 \in 0 .. n /\ i + 1 # 0 /\ (i + 1) - 1 = i
      BY <1>5, <2>1
    <3>2. /\ f[i + 1] = (f[(i + 1) - 1] + sums[i + 1]) \div base
          /\ h[i + 1] = (h[(i + 1) - 1] + sums[i + 1]) \div base
      BY <1>1, <1>2, <3>1
    <3>3. f[i + 1] = h[i + 1]
      BY <3>1, <3>2
    <3> QED
      BY <3>3
  <2>2. CASE ~(i + 1 <= n)
    BY <2>2
  <2> QED
    BY <2>1, <2>2
<1> HIDE DEF T
<1>6. n \in T
  BY <1>4, <1>5, Induction
<1> QED
  BY <1>3, <1>6 DEF T

\* What the definition of Carry says, step by step.
LEMMA CarryFacts ==
    ASSUME NEW sums, NEW carry, NEW base, NEW n \in Nat
    PROVE  /\ Carry(sums, carry, base, 0) = carry
           /\ Carry(sums, carry, base, n + 1) =
                     (Carry(sums, carry, base, n) + sums[n + 1]) \div base
<1>1. Carry(sums, carry, base, 0) = carry
  <2> DEFINE f == [i \in 0 .. 0 |-> carry]
  <2>1. CarryEq(f, sums, carry, base, 0) /\ f[0] = carry
    BY DEF CarryEq
  <2> HIDE DEF f
  <2>2. 0 \in Nat
    OBVIOUS
  <2> QED
    BY <2>1, <2>2, CarryIs
<1>2. Carry(sums, carry, base, n + 1) = (Carry(sums, carry, base, n) + sums[n + 1]) \div base
  <2>0. n + 1 \in Nat
    OBVIOUS
  <2>1. PICK f : CarryEq(f, sums, carry, base, n + 1)
    BY <2>0, CarryLoop
  <2> DEFINE g == [i \in 0 .. n |-> f[i]]
  <2>2. CarryEq(g, sums, carry, base, n)
    BY <2>1 DEF CarryEq
  <2>3. g[n] = f[n]
    OBVIOUS
  <2> HIDE DEF g
  <2>4. Carry(sums, carry, base, n) = f[n]
    BY <2>2, <2>3, CarryIs
  <2>5. Carry(sums, carry, base, n + 1) = f[n + 1]
    BY <2>0, <2>1, CarryIs
  <2>6. n + 1 \in 0 .. n + 1 /\ n + 1 # 0 /\ (n + 1) - 1 = n
    OBVIOUS
  <2>7. f[n + 1] = (f[(n + 1) - 1] + sums[n + 1]) \div base
    BY <2>1, <2>6 DEF CarryEq
  <2> QED
    BY <2>4, <2>5, <2>6, <2>7
<1> QED
  BY <1>1, <1>2

\* Powers modulo a prime.
PowerEq(f, v, p, n) ==
    f = [i \in 0 .. n |-> IF i = 0 THEN 1 ELSE (v * f[i - 1]) % p]

\* There is a function as Power builds it.
LEMMA PowerLoop ==
    ASSUME NEW v, NEW p, NEW n \in Nat
    PROVE  \E f : PowerEq(f, v, p, n)
<1> DEFINE Eq(f, j) == f = [i \in 0 .. j |-> IF i = 0 THEN 1 ELSE (v * f[i - 1]) % p]
           T == {j \in Nat : \E f : Eq(f, j)}
<1>1. 0 \in T
  <2> DEFINE f == [i \in 0 .. 0 |-> 1]
  <2>1. Eq(f, 0)
    OBVIOUS
  <2> QED
    BY <2>1
<1>2. ASSUME NEW j \in Nat, j \in T PROVE j + 1 \in T
  <2>1. PICK f : Eq(f, j)
    BY <1>2
  <2> DEFINE g == [i \in 0 .. j + 1 |-> IF i = j + 1 THEN (v * f[j]) % p ELSE f[i]]
  <2>2. Eq(g, j + 1)
    BY <2>1
  <2> HIDE DEF g
  <2>3. j + 1 \in Nat /\ \E h : Eq(h, j + 1)
    BY <2>2
  <2> QED
    BY <2>3
<1> HIDE DEF T
<1>3. n \in T
  BY <1>1, <1>2, Induction
<1> QED
  BY <1>3 DEF T, PowerEq

\* Power is the value of any such function.
LEMMA PowerIs ==
    ASSUME NEW v, NEW p, NEW n \in Nat, NEW f, PowerEq(f, v, p, n)
    PROVE  Power(v, n, p) = f[n]
<1> DEFINE Eq(g) == g = [i \in 0 .. n |-> IF i = 0 THEN 1 ELSE (v * g[i - 1]) % p]
           h == CHOOSE g : Eq(g)
<1>1. Eq(f)
  BY DEF PowerEq
<1>2. Eq(h)
  BY <1>1
<1>3. Power(v, n, p) = h[n]
  BY DEF Power
<1> HIDE DEF h
<1> DEFINE T == {i \in Nat : i <= n => f[i] = h[i]}
<1>4. 0 \in T
  BY <1>1, <1>2
<1>5. ASSUME NEW i \in Nat, i \in T PROVE i + 1 \in T
  <2>1. CASE i + 1 <= n
    <3>1. f[i] = h[i] /\ i + 1 \in 0 .. n /\ i + 1 # 0 /\ (i + 1) - 1 = i
      BY <1>5, <2>1
    <3>2. f[i + 1] = (v * f[(i + 1) - 1]) % p /\ h[i + 1] = (v * h[(i + 1) - 1]) % p
      BY <1>1, <1>2, <3>1
    <3>3. f[i + 1] = h[i + 1]
      BY <3>1, <3>2
    <3> QED
      BY <3>3
  <2>2. CASE ~(i + 1 <= n)
    BY <2>2
  <2> QED
    BY <2>1, <2>2
<1> HIDE DEF T
<1>6. n \in T
  BY <1>4, <1>5, Induction
<1> QED
  BY <1>3, <1>6 DEF T

\* What the definition of Power says, step by step.
LEMMA PowerFacts ==
    ASSUME NEW v, NEW p, NEW n \in Nat
    PROVE  /\ Power(v, 0, p) = 1
           /\ Power(v, n + 1, p) = (v * Power(v, n, p)) % p
<1>1. Power(v, 0, p) = 1
  <2> DEFINE f == [i \in 0 .. 0 |-> 1]
  <2>1. PowerEq(f, v, p, 0) /\ f[0] = 1
    BY DEF PowerEq
  <2> HIDE DEF f
  <2>2. 0 \in Nat
    OBVIOUS
  <2> QED
    BY <2>1, <2>2, PowerIs
<1>2. Power(v, n + 1, p) = (v * Power(v, n, p)) % p
  <2>0. n + 1 \in Nat
    OBVIOUS
  <2>1. PICK f : PowerEq(f, v, p, n + 1)
    BY <2>0, PowerLoop
  <2> DEFINE g == [i \in 0 .. n |-> f[i]]
  <2>2. PowerEq(g, v, p, n)
    BY <2>1 DEF PowerEq
  <2>3. g[n] = f[n]
    OBVIOUS
  <2> HIDE DEF g
  <2>4. Power(v, n, p) = f[n]
    BY <2>2, <2>3, PowerIs
  <2>5. Power(v, n + 1, p) = f[n + 1]
    BY <2>0, <2>1, PowerIs
  <2>6. n + 1 \in 0 .. n + 1 /\ n + 1 # 0 /\ (n + 1) - 1 = n
    OBVIOUS
  <2>7. f[n + 1] = (v * f[(n + 1) - 1]) % p
    BY <2>1, <2>6 DEF PowerEq
  <2> QED
    BY <2>4, <2>5, <2>6, <2>7
<1> QED
  BY <1>1, <1>2

\* The bits of one code of an exponent.
CodedEq(f, fd, s, v, c, n) ==
    f = [i \in 0 .. n |-> IF i = 0 THEN s ELSE Squared(fd, f[i - 1], v, c)]

\* There is a function as Coded builds it.
LEMMA CodedLoop ==
    ASSUME NEW fd, NEW s, NEW v, NEW c, NEW n \in Nat
    PROVE  \E f : CodedEq(f, fd, s, v, c, n)
<1> DEFINE Eq(f, j) == f = [i \in 0 .. j |-> IF i = 0 THEN s ELSE Squared(fd, f[i - 1], v, c)]
           T == {j \in Nat : \E f : Eq(f, j)}
<1>1. 0 \in T
  <2> DEFINE f == [i \in 0 .. 0 |-> s]
  <2>1. Eq(f, 0)
    OBVIOUS
  <2> QED
    BY <2>1
<1>2. ASSUME NEW j \in Nat, j \in T PROVE j + 1 \in T
  <2>1. PICK f : Eq(f, j)
    BY <1>2
  <2> DEFINE g == [i \in 0 .. j + 1 |-> IF i = j + 1 THEN Squared(fd, f[j], v, c) ELSE f[i]]
  <2>2. Eq(g, j + 1)
    BY <2>1
  <2> HIDE DEF g
  <2>3. j + 1 \in Nat /\ \E h : Eq(h, j + 1)
    BY <2>2
  <2> QED
    BY <2>3
<1> HIDE DEF T
<1>3. n \in T
  BY <1>1, <1>2, Induction
<1> QED
  BY <1>3 DEF T, CodedEq

\* Coded is the value of any such function.
LEMMA CodedIs ==
    ASSUME NEW fd, NEW s, NEW v, NEW c, NEW n \in Nat, NEW f, CodedEq(f, fd, s, v, c, n)
    PROVE  Coded(fd, s, v, c, n) = f[n]
<1> DEFINE Eq(g) == g = [i \in 0 .. n |-> IF i = 0 THEN s ELSE Squared(fd, g[i - 1], v, c)]
           h == CHOOSE g : Eq(g)
<1>1. Eq(f)
  BY DEF CodedEq
<1>2. Eq(h)
  BY <1>1
<1>3. Coded(fd, s, v, c, n) = h[n]
  BY DEF Coded
<1> HIDE DEF h
<1> DEFINE T == {i \in Nat : i <= n => f[i] = h[i]}
<1>4. 0 \in T
  BY <1>1, <1>2
<1>5. ASSUME NEW i \in Nat, i \in T PROVE i + 1 \in T
  <2>1. CASE i + 1 <= n
    <3>1. f[i] = h[i] /\ i + 1 \in 0 .. n /\ i + 1 # 0 /\ (i + 1) - 1 = i
      BY <1>5, <2>1
    <3>2. /\ f[i + 1] = Squared(fd, f[(i + 1) - 1], v, c)
          /\ h[i + 1] = Squared(fd, h[(i + 1) - 1], v, c)
      BY <1>1, <1>2, <3>1
    <3>3. f[i + 1] = h[i + 1]
      BY <3>1, <3>2
    <3> QED
      BY <3>3
  <2>2. CASE ~(i + 1 <= n)
    BY <2>2
  <2> QED
    BY <2>1, <2>2
<1> HIDE DEF T
<1>6. n \in T
  BY <1>4, <1>5, Induction
<1> QED
  BY <1>3, <1>6 DEF T

\* What the definition of Coded says, step by step.
LEMMA CodedFacts ==
    ASSUME NEW fd, NEW s, NEW v, NEW c, NEW n \in Nat
    PROVE  /\ Coded(fd, s, v, c, 0) = s
           /\ Coded(fd, s, v, c, n + 1) = Squared(fd, Coded(fd, s, v, c, n), v, c)
<1>1. Coded(fd, s, v, c, 0) = s
  <2> DEFINE f == [i \in 0 .. 0 |-> s]
  <2>1. CodedEq(f, fd, s, v, c, 0) /\ f[0] = s
    BY DEF CodedEq
  <2> HIDE DEF f
  <2>2. 0 \in Nat
    OBVIOUS
  <2> QED
    BY <2>1, <2>2, CodedIs
<1>2. Coded(fd, s, v, c, n + 1) = Squared(fd, Coded(fd, s, v, c, n), v, c)
  <2>0. n + 1 \in Nat
    OBVIOUS
  <2>1. PICK f : CodedEq(f, fd, s, v, c, n + 1)
    BY <2>0, CodedLoop
  <2> DEFINE g == [i \in 0 .. n |-> f[i]]
  <2>2. CodedEq(g, fd, s, v, c, n)
    BY <2>1 DEF CodedEq
  <2>3. g[n] = f[n]
    OBVIOUS
  <2> HIDE DEF g
  <2>4. Coded(fd, s, v, c, n) = f[n]
    BY <2>2, <2>3, CodedIs
  <2>5. Coded(fd, s, v, c, n + 1) = f[n + 1]
    BY <2>0, <2>1, CodedIs
  <2>6. n + 1 \in 0 .. n + 1 /\ n + 1 # 0 /\ (n + 1) - 1 = n
    OBVIOUS
  <2>7. f[n + 1] = Squared(fd, f[(n + 1) - 1], v, c)
    BY <2>1, <2>6 DEF CodedEq
  <2> QED
    BY <2>4, <2>5, <2>6, <2>7
<1> QED
  BY <1>1, <1>2

\* The codes of an exponent.
CodesEq(f, fd, v, codes, n) ==
    f = [i \in 0 .. n |-> IF i = 0 THEN [a |-> 0, b |-> v, swaps |-> 0]
                          ELSE Coded(fd, f[i - 1], v, codes[i], codes[i] \div 2)]

\* There is a function as Codes builds it.
LEMMA CodesLoop ==
    ASSUME NEW fd, NEW v, NEW codes, NEW n \in Nat
    PROVE  \E f : CodesEq(f, fd, v, codes, n)
<1> DEFINE Eq(f, j) == f = [i \in 0 .. j |-> IF i = 0 THEN [a |-> 0, b |-> v, swaps |-> 0]
                                             ELSE Coded(fd, f[i - 1], v, codes[i], codes[i] \div 2)]
           T == {j \in Nat : \E f : Eq(f, j)}
<1>1. 0 \in T
  <2> DEFINE f == [i \in 0 .. 0 |-> [a |-> 0, b |-> v, swaps |-> 0]]
  <2>1. Eq(f, 0)
    OBVIOUS
  <2> QED
    BY <2>1
<1>2. ASSUME NEW j \in Nat, j \in T PROVE j + 1 \in T
  <2>1. PICK f : Eq(f, j)
    BY <1>2
  <2> DEFINE g == [i \in 0 .. j + 1 |-> IF i = j + 1 THEN Coded(fd, f[j], v, codes[j + 1], codes[j + 1] \div 2)
                                        ELSE f[i]]
  <2>2. Eq(g, j + 1)
    BY <2>1
  <2> HIDE DEF g
  <2>3. j + 1 \in Nat /\ \E h : Eq(h, j + 1)
    BY <2>2
  <2> QED
    BY <2>3
<1> HIDE DEF T
<1>3. n \in T
  BY <1>1, <1>2, Induction
<1> QED
  BY <1>3 DEF T, CodesEq

\* Codes is the value of any such function.
LEMMA CodesIs ==
    ASSUME NEW fd, NEW v, NEW codes, NEW n \in Nat, NEW f, CodesEq(f, fd, v, codes, n)
    PROVE  Codes(fd, v, codes, n) = f[n]
<1> DEFINE Eq(g) == g = [i \in 0 .. n |-> IF i = 0 THEN [a |-> 0, b |-> v, swaps |-> 0]
                                          ELSE Coded(fd, g[i - 1], v, codes[i], codes[i] \div 2)]
           h == CHOOSE g : Eq(g)
<1>1. Eq(f)
  BY DEF CodesEq
<1>2. Eq(h)
  BY <1>1
<1>3. Codes(fd, v, codes, n) = h[n]
  BY DEF Codes
<1> HIDE DEF h
<1> DEFINE T == {i \in Nat : i <= n => f[i] = h[i]}
<1>4. 0 \in T
  BY <1>1, <1>2
<1>5. ASSUME NEW i \in Nat, i \in T PROVE i + 1 \in T
  <2>1. CASE i + 1 <= n
    <3>1. f[i] = h[i] /\ i + 1 \in 0 .. n /\ i + 1 # 0 /\ (i + 1) - 1 = i
      BY <1>5, <2>1
    <3>2. /\ f[i + 1] = Coded(fd, f[(i + 1) - 1], v, codes[i + 1], codes[i + 1] \div 2)
          /\ h[i + 1] = Coded(fd, h[(i + 1) - 1], v, codes[i + 1], codes[i + 1] \div 2)
      BY <1>1, <1>2, <3>1
    <3>3. f[i + 1] = h[i + 1]
      BY <3>1, <3>2
    <3> QED
      BY <3>3
  <2>2. CASE ~(i + 1 <= n)
    BY <2>2
  <2> QED
    BY <2>1, <2>2
<1> HIDE DEF T
<1>6. n \in T
  BY <1>4, <1>5, Induction
<1> QED
  BY <1>3, <1>6 DEF T

\* What the definition of Codes says, step by step.
LEMMA CodesFacts ==
    ASSUME NEW fd, NEW v, NEW codes, NEW n \in Nat
    PROVE  /\ Codes(fd, v, codes, 0) = [a |-> 0, b |-> v, swaps |-> 0]
           /\ Codes(fd, v, codes, n + 1) =
                     Coded(fd, Codes(fd, v, codes, n), v, codes[n + 1], codes[n + 1] \div 2)
<1>1. Codes(fd, v, codes, 0) = [a |-> 0, b |-> v, swaps |-> 0]
  <2> DEFINE f == [i \in 0 .. 0 |-> [a |-> 0, b |-> v, swaps |-> 0]]
  <2>1. CodesEq(f, fd, v, codes, 0) /\ f[0] = [a |-> 0, b |-> v, swaps |-> 0]
    BY DEF CodesEq
  <2> HIDE DEF f
  <2>2. 0 \in Nat
    OBVIOUS
  <2> QED
    BY <2>1, <2>2, CodesIs
<1>2. Codes(fd, v, codes, n + 1) =
          Coded(fd, Codes(fd, v, codes, n), v, codes[n + 1], codes[n + 1] \div 2)
  <2>0. n + 1 \in Nat
    OBVIOUS
  <2>1. PICK f : CodesEq(f, fd, v, codes, n + 1)
    BY <2>0, CodesLoop
  <2> DEFINE g == [i \in 0 .. n |-> f[i]]
  <2>2. CodesEq(g, fd, v, codes, n)
    BY <2>1 DEF CodesEq
  <2>3. g[n] = f[n]
    OBVIOUS
  <2> HIDE DEF g
  <2>4. Codes(fd, v, codes, n) = f[n]
    BY <2>2, <2>3, CodesIs
  <2>5. Codes(fd, v, codes, n + 1) = f[n + 1]
    BY <2>0, <2>1, CodesIs
  <2>6. n + 1 \in 0 .. n + 1 /\ n + 1 # 0 /\ (n + 1) - 1 = n
    OBVIOUS
  <2>7. f[n + 1] = Coded(fd, f[(n + 1) - 1], v, codes[n + 1], codes[n + 1] \div 2)
    BY <2>1, <2>6 DEF CodesEq
  <2> QED
    BY <2>4, <2>5, <2>6, <2>7
<1> QED
  BY <1>1, <1>2

\* The bits that Fp8::load adds one by one.
LoadBitsEq(f, first, data, rest, q, n) ==
    f = [i \in 0 .. n |-> IF i = 0 THEN first
                          ELSE TrySub(Shifted(f[i - 1], 1) + Bit(data, rest - i), q)]

\* There is a function as LoadBits builds it.
LEMMA LoadBitsLoop ==
    ASSUME NEW first, NEW data, NEW rest, NEW q, NEW n \in Nat
    PROVE  \E f : LoadBitsEq(f, first, data, rest, q, n)
<1> DEFINE Eq(f, j) == f = [i \in 0 .. j |-> IF i = 0 THEN first
                                             ELSE TrySub(Shifted(f[i - 1], 1) + Bit(data, rest - i), q)]
           T == {j \in Nat : \E f : Eq(f, j)}
<1>1. 0 \in T
  <2> DEFINE f == [i \in 0 .. 0 |-> first]
  <2>1. Eq(f, 0)
    OBVIOUS
  <2> QED
    BY <2>1
<1>2. ASSUME NEW j \in Nat, j \in T PROVE j + 1 \in T
  <2>1. PICK f : Eq(f, j)
    BY <1>2
  <2> DEFINE g == [i \in 0 .. j + 1 |-> IF i = j + 1 THEN TrySub(Shifted(f[j], 1) + Bit(data, rest - (j + 1)), q)
                                        ELSE f[i]]
  <2>2. Eq(g, j + 1)
    BY <2>1
  <2> HIDE DEF g
  <2>3. j + 1 \in Nat /\ \E h : Eq(h, j + 1)
    BY <2>2
  <2> QED
    BY <2>3
<1> HIDE DEF T
<1>3. n \in T
  BY <1>1, <1>2, Induction
<1> QED
  BY <1>3 DEF T, LoadBitsEq

\* LoadBits is the value of any such function.
LEMMA LoadBitsIs ==
    ASSUME NEW first, NEW data, NEW rest, NEW q, NEW n \in Nat, NEW f, LoadBitsEq(f, first, data, rest, q, n)
    PROVE  LoadBits(first, data, rest, q, n) = f[n]
<1> DEFINE Eq(g) == g = [i \in 0 .. n |-> IF i = 0 THEN first
                                          ELSE TrySub(Shifted(g[i - 1], 1) + Bit(data, rest - i), q)]
           h == CHOOSE g : Eq(g)
<1>1. Eq(f)
  BY DEF LoadBitsEq
<1>2. Eq(h)
  BY <1>1
<1>3. LoadBits(first, data, rest, q, n) = h[n]
  BY DEF LoadBits
<1> HIDE DEF h
<1> DEFINE T == {i \in Nat : i <= n => f[i] = h[i]}
<1>4. 0 \in T
  BY <1>1, <1>2
<1>5. ASSUME NEW i \in Nat, i \in T PROVE i + 1 \in T
  <2>1. CASE i + 1 <= n
    <3>1. f[i] = h[i] /\ i + 1 \in 0 .. n /\ i + 1 # 0 /\ (i + 1) - 1 = i
      BY <1>5, <2>1
    <3>2. /\ f[i + 1] = TrySub(Shifted(f[(i + 1) - 1], 1) + Bit(data, rest - (i + 1)), q)
          /\ h[i + 1] = TrySub(Shifted(h[(i + 1) - 1], 1) + Bit(data, rest - (i + 1)), q)
      BY <1>1, <1>2, <3>1
    <3>3. f[i + 1] = h[i + 1]
      BY <3>1, <3>2
    <3> QED
      BY <3>3
  <2>2. CASE ~(i + 1 <= n)
    BY <2>2
  <2> QED
    BY <2>1, <2>2
<1> HIDE DEF T
<1>6. n \in T
  BY <1>4, <1>5, Induction
<1> QED
  BY <1>3, <1>6 DEF T

\* What the definition of LoadBits says, step by step.
LEMMA LoadBitsFacts ==
    ASSUME NEW first, NEW data, NEW rest, NEW q, NEW n \in Nat
    PROVE  /\ LoadBits(first, data, rest, q, 0) = first
           /\ LoadBits(first, data, rest, q, n + 1) =
                     TrySub(Shifted(LoadBits(first, data, rest, q, n), 1) + Bit(data, rest - (n + 1)), q)
<1>1. LoadBits(first, data, rest, q, 0) = first
  <2> DEFINE f == [i \in 0 .. 0 |-> first]
  <2>1. LoadBitsEq(f, first, data, rest, q, 0) /\ f[0] = first
    BY DEF LoadBitsEq
  <2> HIDE DEF f
  <2>2. 0 \in Nat
    OBVIOUS
  <2> QED
    BY <2>1, <2>2, LoadBitsIs
<1>2. LoadBits(first, data, rest, q, n + 1) =
          TrySub(Shifted(LoadBits(first, data, rest, q, n), 1) + Bit(data, rest - (n + 1)), q)
  <2>0. n + 1 \in Nat
    OBVIOUS
  <2>1. PICK f : LoadBitsEq(f, first, data, rest, q, n + 1)
    BY <2>0, LoadBitsLoop
  <2> DEFINE g == [i \in 0 .. n |-> f[i]]
  <2>2. LoadBitsEq(g, first, data, rest, q, n)
    BY <2>1 DEF LoadBitsEq
  <2>3. g[n] = f[n]
    OBVIOUS
  <2> HIDE DEF g
  <2>4. LoadBits(first, data, rest, q, n) = f[n]
    BY <2>2, <2>3, LoadBitsIs
  <2>5. LoadBits(first, data, rest, q, n + 1) = f[n + 1]
    BY <2>0, <2>1, LoadBitsIs
  <2>6. n + 1 \in 0 .. n + 1 /\ n + 1 # 0 /\ (n + 1) - 1 = n
    OBVIOUS
  <2>7. f[n + 1] = TrySub(Shifted(f[(n + 1) - 1], 1) + Bit(data, rest - (n + 1)), q)
    BY <2>1, <2>6 DEF LoadBitsEq
  <2> QED
    BY <2>4, <2>5, <2>6, <2>7
<1> QED
  BY <1>1, <1>2

\* The bits that Fp8::mul adds.
MulBitsEq(f, a, b, q, n) ==
    f = [i \in 0 .. n |-> IF i = 0 THEN 0 ELSE WithBit(f[i - 1], a, b, q, i)]

\* There is a function as MulBits builds it.
LEMMA MulBitsLoop ==
    ASSUME NEW a, NEW b, NEW q, NEW n \in Nat
    PROVE  \E f : MulBitsEq(f, a, b, q, n)
<1> DEFINE Eq(f, j) == f = [i \in 0 .. j |-> IF i = 0 THEN 0 ELSE WithBit(f[i - 1], a, b, q, i)]
           T == {j \in Nat : \E f : Eq(f, j)}
<1>1. 0 \in T
  <2> DEFINE f == [i \in 0 .. 0 |-> 0]
  <2>1. Eq(f, 0)
    OBVIOUS
  <2> QED
    BY <2>1
<1>2. ASSUME NEW j \in Nat, j \in T PROVE j + 1 \in T
  <2>1. PICK f : Eq(f, j)
    BY <1>2
  <2> DEFINE g == [i \in 0 .. j + 1 |-> IF i = j + 1 THEN WithBit(f[j], a, b, q, j + 1) ELSE f[i]]
  <2>2. Eq(g, j + 1)
    BY <2>1
  <2> HIDE DEF g
  <2>3. j + 1 \in Nat /\ \E h : Eq(h, j + 1)
    BY <2>2
  <2> QED
    BY <2>3
<1> HIDE DEF T
<1>3. n \in T
  BY <1>1, <1>2, Induction
<1> QED
  BY <1>3 DEF T, MulBitsEq

\* MulBits is the value of any such function.
LEMMA MulBitsIs ==
    ASSUME NEW a, NEW b, NEW q, NEW n \in Nat, NEW f, MulBitsEq(f, a, b, q, n)
    PROVE  MulBits(a, b, q, n) = f[n]
<1> DEFINE Eq(g) == g = [i \in 0 .. n |-> IF i = 0 THEN 0 ELSE WithBit(g[i - 1], a, b, q, i)]
           h == CHOOSE g : Eq(g)
<1>1. Eq(f)
  BY DEF MulBitsEq
<1>2. Eq(h)
  BY <1>1
<1>3. MulBits(a, b, q, n) = h[n]
  BY DEF MulBits
<1> HIDE DEF h
<1> DEFINE T == {i \in Nat : i <= n => f[i] = h[i]}
<1>4. 0 \in T
  BY <1>1, <1>2
<1>5. ASSUME NEW i \in Nat, i \in T PROVE i + 1 \in T
  <2>1. CASE i + 1 <= n
    <3>1. f[i] = h[i] /\ i + 1 \in 0 .. n /\ i + 1 # 0 /\ (i + 1) - 1 = i
      BY <1>5, <2>1
    <3>2. /\ f[i + 1] = WithBit(f[(i + 1) - 1], a, b, q, i + 1)
          /\ h[i + 1] = WithBit(h[(i + 1) - 1], a, b, q, i + 1)
      BY <1>1, <1>2, <3>1
    <3>3. f[i + 1] = h[i + 1]
      BY <3>1, <3>2
    <3> QED
      BY <3>3
  <2>2. CASE ~(i + 1 <= n)
    BY <2>2
  <2> QED
    BY <2>1, <2>2
<1> HIDE DEF T
<1>6. n \in T
  BY <1>4, <1>5, Induction
<1> QED
  BY <1>3, <1>6 DEF T

\* What the definition of MulBits says, step by step.
LEMMA MulBitsFacts ==
    ASSUME NEW a, NEW b, NEW q, NEW n \in Nat
    PROVE  /\ MulBits(a, b, q, 0) = 0
           /\ MulBits(a, b, q, n + 1) = WithBit(MulBits(a, b, q, n), a, b, q, n + 1)
<1>1. MulBits(a, b, q, 0) = 0
  <2> DEFINE f == [i \in 0 .. 0 |-> 0]
  <2>1. MulBitsEq(f, a, b, q, 0) /\ f[0] = 0
    BY DEF MulBitsEq
  <2> HIDE DEF f
  <2>2. 0 \in Nat
    OBVIOUS
  <2> QED
    BY <2>1, <2>2, MulBitsIs
<1>2. MulBits(a, b, q, n + 1) = WithBit(MulBits(a, b, q, n), a, b, q, n + 1)
  <2>0. n + 1 \in Nat
    OBVIOUS
  <2>1. PICK f : MulBitsEq(f, a, b, q, n + 1)
    BY <2>0, MulBitsLoop
  <2> DEFINE g == [i \in 0 .. n |-> f[i]]
  <2>2. MulBitsEq(g, a, b, q, n)
    BY <2>1 DEF MulBitsEq
  <2>3. g[n] = f[n]
    OBVIOUS
  <2> HIDE DEF g
  <2>4. MulBits(a, b, q, n) = f[n]
    BY <2>2, <2>3, MulBitsIs
  <2>5. MulBits(a, b, q, n + 1) = f[n + 1]
    BY <2>0, <2>1, MulBitsIs
  <2>6. n + 1 \in 0 .. n + 1 /\ n + 1 # 0 /\ (n + 1) - 1 = n
    OBVIOUS
  <2>7. f[n + 1] = WithBit(f[(n + 1) - 1], a, b, q, n + 1)
    BY <2>1, <2>6 DEF MulBitsEq
  <2> QED
    BY <2>4, <2>5, <2>6, <2>7
<1> QED
  BY <1>1, <1>2

-----------------------------------------------------------------------------
(* Powers, sums and the value of words.                                    *)

\* A word has at least two values.
BaseOK(b) == b \in Nat /\ b # 0 /\ b # 1

\* A power is a natural number, not zero.
LEMMA PowNat ==
    ASSUME NEW b \in Nat, b # 0, NEW n \in Nat
    PROVE  Pow(b, n) \in Nat /\ Pow(b, n) # 0
<1> DEFINE T == {i \in Nat : Pow(b, i) \in Nat /\ Pow(b, i) # 0}
<1>1. 0 \in T
  BY PowFacts
<1>2. ASSUME NEW i \in Nat, i \in T PROVE i + 1 \in T
  <2>1. Pow(b, i + 1) = Pow(b, i) * b
    BY PowFacts
  <2>2. Pow(b, i) \in Nat /\ Pow(b, i) # 0
    BY <1>2
  <2> DEFINE p == Pow(b, i)
  <2> HIDE DEF p
  <2>3. p \in Nat /\ p # 0 => p * b \in Nat /\ p * b # 0
    OBVIOUS
  <2> QED
    BY <2>1, <2>2, <2>3 DEF p
<1> HIDE DEF T
<1>3. n \in T
  BY <1>1, <1>2, Induction
<1> QED
  BY <1>3 DEF T

\* The first power is the base.
LEMMA PowOne == ASSUME NEW b \in Nat, b # 0 PROVE Pow(b, 1) = b
<1>1. Pow(b, 0) = 1 /\ Pow(b, 0 + 1) = Pow(b, 0) * b
  BY PowFacts
<1> QED
  BY <1>1

\* Exponents add.
LEMMA PowAdd ==
    ASSUME NEW b \in Nat, b # 0, NEW m \in Nat, NEW n \in Nat
    PROVE  Pow(b, m + n) = Pow(b, m) * Pow(b, n)
<1> DEFINE T == {i \in Nat : Pow(b, m + i) = Pow(b, m) * Pow(b, i)}
           p == Pow(b, m)
<1>0. p \in Nat
  BY PowNat
<1>1. 0 \in T
  <2>1. Pow(b, 0) = 1 /\ m + 0 = m
    BY PowFacts
  <2> QED
    BY <2>1, <1>0
<1>2. ASSUME NEW i \in Nat, i \in T PROVE i + 1 \in T
  <2> DEFINE q == Pow(b, i)
             s == Pow(b, m + i)
  <2>1. m + i \in Nat /\ m + (i + 1) = (m + i) + 1
    OBVIOUS
  <2>2. Pow(b, i + 1) = q * b /\ Pow(b, (m + i) + 1) = s * b
    BY <2>1, PowFacts
  <2>3. s = p * q /\ q \in Nat
    BY <1>2, PowNat
  <2>4. Pow(b, m + (i + 1)) = s * b
    BY <2>1, <2>2
  <2> HIDE DEF p, q, s
  <2>5. s * b = p * (q * b)
    BY <2>3, <1>0
  <2>6. Pow(b, m + (i + 1)) = p * Pow(b, i + 1)
    BY <2>2, <2>4, <2>5
  <2> QED
    BY <2>6 DEF p
<1> HIDE DEF T
<1>3. n \in T
  BY <1>1, <1>2, Induction
<1> QED
  BY <1>3 DEF T

\* Exponents multiply.
LEMMA PowTimes ==
    ASSUME NEW b \in Nat, b # 0, NEW m \in Nat, NEW n \in Nat
    PROVE  Pow(b, m * n) = Pow(Pow(b, m), n)
<1> DEFINE p == Pow(b, m)
           T == {i \in Nat : Pow(b, m * i) = Pow(p, i)}
<1>0. p \in Nat /\ p # 0
  BY PowNat
<1>1. 0 \in T
  <2>1. Pow(b, 0) = 1 /\ Pow(p, 0) = 1 /\ m * 0 = 0
    BY PowFacts
  <2> QED
    BY <2>1
<1>2. ASSUME NEW i \in Nat, i \in T PROVE i + 1 \in T
  <2>1. m * (i + 1) = m * i + m /\ m * i \in Nat
    OBVIOUS
  <2> DEFINE w == m * i
  <2> HIDE DEF w
  <2>2. Pow(b, w + m) = Pow(b, w) * Pow(b, m)
    BY <2>1, PowAdd DEF w
  <2>3. Pow(p, i + 1) = Pow(p, i) * p
    BY PowFacts
  <2>4. Pow(b, w) = Pow(p, i) /\ m * (i + 1) = w + m
    BY <1>2, <2>1 DEF w
  <2> QED
    BY <2>2, <2>3, <2>4
<1> HIDE DEF T
<1>3. n \in T
  BY <1>1, <1>2, Induction
<1> QED
  BY <1>3 DEF T

\* A sum of integers is one.
LEMMA SumInt ==
    ASSUME NEW n \in Nat, NEW s, \A i \in 1 .. n : s[i] \in Int
    PROVE  Sum(s, n) \in Int
<1> DEFINE T == {i \in Nat : i <= n => Sum(s, i) \in Int}
<1>1. 0 \in T
  BY SumFacts
<1>2. ASSUME NEW i \in Nat, i \in T PROVE i + 1 \in T
  <2>1. Sum(s, i + 1) = Sum(s, i) + s[i + 1]
    BY SumFacts
  <2> QED
    BY <1>2, <2>1
<1> HIDE DEF T
<1>3. n \in T
  BY <1>1, <1>2, Induction
<1> QED
  BY <1>3 DEF T

\* Equal terms have equal sums.
LEMMA SumSame ==
    ASSUME NEW n \in Nat, NEW s, NEW t, \A i \in 1 .. n : s[i] = t[i]
    PROVE  Sum(s, n) = Sum(t, n)
<1> DEFINE T == {i \in Nat : i <= n => Sum(s, i) = Sum(t, i)}
<1>1. 0 \in T
  BY SumFacts
<1>2. ASSUME NEW i \in Nat, i \in T PROVE i + 1 \in T
  <2>1. Sum(s, i + 1) = Sum(s, i) + s[i + 1] /\ Sum(t, i + 1) = Sum(t, i) + t[i + 1]
    BY SumFacts
  <2> QED
    BY <1>2, <2>1
<1> HIDE DEF T
<1>3. n \in T
  BY <1>1, <1>2, Induction
<1> QED
  BY <1>3 DEF T

\* The value of the first n words, whatever they are.
Val(w, b, n) == Sum([i \in 1 .. n |-> w[i] * Pow(b, i - 1)], n)

\* A word more adds its value at its weight.
LEMMA ValFacts ==
    ASSUME NEW w, NEW b, NEW n \in Nat
    PROVE  /\ Val(w, b, 0) = 0
           /\ Val(w, b, n + 1) = Val(w, b, n) + w[n + 1] * Pow(b, n)
<1>1. Val(w, b, 0) = 0
  BY SumFacts DEF Val
<1>2. Val(w, b, n + 1) = Val(w, b, n) + w[n + 1] * Pow(b, n)
  <2> DEFINE s == [i \in 1 .. n + 1 |-> w[i] * Pow(b, i - 1)]
             t == [i \in 1 .. n |-> w[i] * Pow(b, i - 1)]
  <2>1. s[n + 1] = w[n + 1] * Pow(b, n)
    <3>1. n + 1 \in 1 .. n + 1 /\ (n + 1) - 1 = n
      OBVIOUS
    <3>2. s[n + 1] = w[n + 1] * Pow(b, (n + 1) - 1)
      BY <3>1
    <3> QED
      BY <3>1, <3>2
  <2>2. \A i \in 1 .. n : s[i] = t[i]
    OBVIOUS
  <2>3. Val(w, b, n + 1) = Sum(s, n + 1) /\ Val(w, b, n) = Sum(t, n)
    BY DEF Val
  <2> HIDE DEF s, t
  <2>4. Sum(s, n + 1) = Sum(s, n) + s[n + 1]
    BY SumFacts
  <2>5. Sum(s, n) = Sum(t, n)
    BY <2>2, SumSame
  <2> QED
    BY <2>1, <2>3, <2>4, <2>5
<1> QED
  BY <1>1, <1>2

\* Equal words have equal values.
LEMMA ValSame ==
    ASSUME NEW n \in Nat, NEW b, NEW s, NEW t, \A i \in 1 .. n : s[i] = t[i]
    PROVE  Val(s, b, n) = Val(t, b, n)
<1> DEFINE u == [i \in 1 .. n |-> s[i] * Pow(b, i - 1)]
           v == [i \in 1 .. n |-> t[i] * Pow(b, i - 1)]
<1>1. \A i \in 1 .. n : u[i] = v[i]
  OBVIOUS
<1>2. Val(s, b, n) = Sum(u, n) /\ Val(t, b, n) = Sum(v, n)
  BY DEF Val
<1> HIDE DEF u, v
<1> QED
  BY <1>1, <1>2, SumSame

\* Integer words, negative ones too, have an integer value.
LEMMA ValInt ==
    ASSUME NEW n \in Nat, NEW b \in Nat, b # 0, NEW s, \A i \in 1 .. n : s[i] \in Int
    PROVE  Val(s, b, n) \in Int
<1> DEFINE u == [i \in 1 .. n |-> s[i] * Pow(b, i - 1)]
<1>1. ASSUME NEW i \in 1 .. n PROVE u[i] \in Int
  <2>1. i - 1 \in Nat
    OBVIOUS
  <2>2. Pow(b, i - 1) \in Int /\ s[i] \in Int
    BY <2>1, PowNat
  <2> QED
    BY <2>2
<1>2. Val(s, b, n) = Sum(u, n)
  BY DEF Val
<1> HIDE DEF u
<1> QED
  BY <1>1, <1>2, SumInt

\* NumberOf is the value of all words.
LEMMA NumberIs == ASSUME NEW w, NEW b PROVE NumberOf(w, b) = Val(w, b, Len(w))
BY DEF NumberOf, Val

\* n words of a number, each in its range.
Digits(w, b, n) == IsSeq(w) /\ Len(w) = n /\ \A i \in 1 .. n : w[i] \in Nat /\ w[i] < b

\* A digit above a value below p stays below the next power.
LEMMA DigitRange ==
    ASSUME NEW b \in Nat, NEW p \in Nat, NEW v \in Nat, v < p, NEW d \in Nat, d < b
    PROVE  v + d * p \in Nat /\ v + d * p < p * b
<1>1. d * p <= (b - 1) * p /\ (b - 1) * p = p * b - p
  OBVIOUS
<1> QED
  BY <1>1

\* n words are a number below the n-th power of the base.
LEMMA ValRange ==
    ASSUME NEW b, BaseOK(b), NEW n \in Nat, NEW w, \A i \in 1 .. n : w[i] \in Nat /\ w[i] < b
    PROVE  Val(w, b, n) \in Nat /\ Val(w, b, n) < Pow(b, n)
<1> DEFINE T == {i \in Nat : i <= n => Val(w, b, i) \in Nat /\ Val(w, b, i) < Pow(b, i)}
<1>0. b \in Nat /\ b # 0
  BY DEF BaseOK
<1>1. 0 \in T
  BY ValFacts, PowFacts
<1>2. ASSUME NEW i \in Nat, i \in T PROVE i + 1 \in T
  <2> SUFFICES ASSUME i + 1 <= n PROVE Val(w, b, i + 1) \in Nat /\ Val(w, b, i + 1) < Pow(b, i + 1)
    OBVIOUS
  <2> DEFINE v == Val(w, b, i)
             p == Pow(b, i)
             d == w[i + 1]
  <2>1. v \in Nat /\ v < p /\ p \in Nat /\ d \in Nat /\ d < b
    BY <1>0, <1>2, PowNat
  <2>2. Val(w, b, i + 1) = v + d * p /\ Pow(b, i + 1) = p * b
    BY ValFacts, PowFacts
  <2> HIDE DEF v, p, d
  <2>3. v + d * p \in Nat /\ v + d * p < p * b
    BY <1>0, <2>1, DigitRange
  <2> QED
    BY <2>2, <2>3
<1> HIDE DEF T
<1>3. n \in T
  BY <1>1, <1>2, Induction
<1> QED
  BY <1>3 DEF T

-----------------------------------------------------------------------------
(* Words of a number, and carries.                                         *)

\* Quotient and remainder, of a negative quotient too.
LEMMA DivModInt ==
    ASSUME NEW v \in Nat, NEW p \in Nat, v < p, NEW c \in Int
    PROVE  (v + c * p) \div p = c /\ (v + c * p) % p = v
OBVIOUS

\* What is divided is the quotient and the remainder.
LEMMA IntDivMod ==
    ASSUME NEW v \in Int, NEW p \in Nat, p # 0
    PROVE  v \div p \in Int /\ v % p \in Nat /\ v % p < p /\ v = (v % p) + (v \div p) * p
OBVIOUS

\* The remainder of a product, in two steps.
LEMMA ModProduct ==
    ASSUME NEW v \in Nat, NEW m \in Nat, m # 0, NEW b \in Nat, b # 0
    PROVE  v % (m * b) = (v % m) + ((v \div m) % b) * m
<1> DEFINE q == v \div m
           r == v % m
           s == q \div b
           d == q % b
           low == r + d * m
           w == m * b
<1>1. q \in Nat /\ r \in Nat /\ r < m /\ v = q * m + r
  BY DivMod
<1>2. s \in Nat /\ d \in Nat /\ d < b /\ q = s * b + d
  BY <1>1, DivMod
<1> HIDE DEF q, r, s, d
<1>3. low \in Nat /\ low < w /\ w \in Nat
  BY <1>1, <1>2, DigitRange
<1>4. v = low + s * w
  <2>1. v = (s * b + d) * m + r
    BY <1>1, <1>2
  <2>2. (s * b + d) * m + r = (r + d * m) + s * (m * b)
    BY <1>1, <1>2
  <2> QED
    BY <2>1, <2>2
<1> HIDE DEF low, w
<1>5. v % w = low
  BY <1>2, <1>3, <1>4, DivModInt
<1> QED
  BY <1>5 DEF w, low, r, d, q

\* The words of a number are digits, their value is what fits in n words.
LEMMA WordsFacts ==
    ASSUME NEW b, BaseOK(b), NEW n \in Nat, NEW v \in Nat
    PROVE  /\ Digits(WordsOf(v, n, b), b, n)
           /\ Val(WordsOf(v, n, b), b, n) = v % Pow(b, n)
<1> DEFINE w == WordsOf(v, n, b)
<1>0. b \in Nat /\ b # 0
  BY DEF BaseOK
<1>1. w = [i \in 1 .. n |-> w[i]]
  BY DEF WordsOf
<1>2. ASSUME NEW i \in 1 .. n PROVE w[i] = (v \div Pow(b, i - 1)) % b
  BY DEF WordsOf
<1> HIDE DEF w
<1>3. IsSeq(w) /\ Len(w) = n
  BY <1>1, FunctionSeq
<1>4. ASSUME NEW i \in 1 .. n PROVE w[i] \in Nat /\ w[i] < b
  <2>1. i - 1 \in Nat
    OBVIOUS
  <2>2. Pow(b, i - 1) \in Nat /\ Pow(b, i - 1) # 0
    BY <1>0, <2>1, PowNat
  <2> DEFINE p == Pow(b, i - 1)
             q == v \div p
  <2> HIDE DEF p
  <2>3. q \in Nat
    BY <2>2, DivMod DEF p
  <2> HIDE DEF q
  <2>4. q % b \in Nat /\ q % b < b
    BY <1>0, <2>3, DivMod
  <2> QED
    BY <1>2, <2>4 DEF p, q
<1> DEFINE T == {i \in Nat : i <= n => Val(w, b, i) = v % Pow(b, i)}
<1>5. 0 \in T
  <2>1. Val(w, b, 0) = 0 /\ Pow(b, 0) = 1
    BY ValFacts, PowFacts
  <2> QED
    BY <2>1
<1>6. ASSUME NEW i \in Nat, i \in T PROVE i + 1 \in T
  <2> SUFFICES ASSUME i + 1 <= n PROVE Val(w, b, i + 1) = v % Pow(b, i + 1)
    OBVIOUS
  <2> DEFINE p == Pow(b, i)
             x == Val(w, b, i)
             d == w[i + 1]
  <2>1. x = v % p /\ p \in Nat /\ p # 0
    BY <1>0, <1>6, PowNat
  <2>2. Val(w, b, i + 1) = x + d * p /\ Pow(b, i + 1) = p * b
    BY ValFacts, PowFacts
  <2>3. d = (v \div p) % b
    <3>1. i + 1 \in 1 .. n /\ (i + 1) - 1 = i
      OBVIOUS
    <3> QED
      BY <1>2, <3>1
  <2> HIDE DEF p, x, d
  <2>4. v % (p * b) = (v % p) + ((v \div p) % b) * p
    BY <1>0, <2>1, ModProduct
  <2> QED
    BY <2>1, <2>2, <2>3, <2>4
<1> HIDE DEF T
<1>7. n \in T
  BY <1>5, <1>6, Induction
<1> QED
  BY <1>3, <1>4, <1>7 DEF T, w, Digits

\* A number that fits is the value of its words.
LEMMA WordsAre ==
    ASSUME NEW b, BaseOK(b), NEW n \in Nat, NEW v \in Nat, v < Pow(b, n)
    PROVE  /\ Digits(WordsOf(v, n, b), b, n)
           /\ Val(WordsOf(v, n, b), b, n) = v
<1>1. Pow(b, n) \in Nat /\ Pow(b, n) # 0
  BY PowNat DEF BaseOK
<1> DEFINE p == Pow(b, n)
<1> HIDE DEF p
<1>2. v < p /\ p \in Nat
  BY <1>1 DEF p
<1>3. v % p = v
  <2>1. v = v + 0 * p /\ 0 \in Int
    BY <1>2
  <2>2. (v + 0 * p) % p = v
    BY <1>2, DivModInt
  <2> QED
    BY <2>1, <2>2
<1>4. Digits(WordsOf(v, n, b), b, n) /\ Val(WordsOf(v, n, b), b, n) = v % p
  BY WordsFacts DEF p
<1> QED
  BY <1>3, <1>4

\* One place of a sum with its carry.
Placed(x, d, e, b) == e \in Int /\ d \in Nat /\ d < b /\ x = d + e * b

\* Division splits a place into the word kept and the carry.
LEMMA PlaceIs ==
    ASSUME NEW x \in Int, NEW b, BaseOK(b), NEW e, e = x \div b, NEW d, d = x % b
    PROVE  Placed(x, d, e, b)
<1>1. b \in Nat /\ b # 0
  BY DEF BaseOK
<1>2. x \div b \in Int /\ x % b \in Nat /\ x % b < b /\ x = (x % b) + (x \div b) * b
  BY <1>1, IntDivMod
<1> QED
  BY <1>2 DEF Placed

\* What a place leaves for the next.
NextCarry(c, s, b) == (c + s) \div b

\* Each carry comes from the one below.
LEMMA CarryStep ==
    ASSUME NEW s, NEW carry \in Int, NEW b
    PROVE  \A i \in Nat : Carry(s, carry, b, i + 1) = NextCarry(Carry(s, carry, b, i), s[i + 1], b)
<1>3. ASSUME NEW i \in Nat
      PROVE  Carry(s, carry, b, i + 1) = NextCarry(Carry(s, carry, b, i), s[i + 1], b)
  BY CarryFacts DEF NextCarry
<1> QED
  BY <1>3

\* The lowest place takes the carry given.
LEMMA CarryZero == ASSUME NEW s, NEW carry, NEW b PROVE Carry(s, carry, b, 0) = carry
BY CarryFacts

\* The carry chain loses nothing: words kept and the last carry are the sum.
LEMMA RippleFacts ==
    ASSUME NEW b, BaseOK(b), NEW n \in Nat, NEW s, IsSeq(s), Len(s) = n,
           \A i \in 1 .. n : s[i] \in Int, NEW carry \in Int
    PROVE  /\ Digits(Rippled(s, carry, b).words, b, n)
           /\ Rippled(s, carry, b).carry \in Int
           /\ Val(s, b, n) + carry
                = Val(Rippled(s, carry, b).words, b, n) + Rippled(s, carry, b).carry * Pow(b, n)
<1>5. \A i \in Nat : Carry(s, carry, b, i + 1) = NextCarry(Carry(s, carry, b, i), s[i + 1], b)
  BY CarryStep
<1>10. Carry(s, carry, b, 0) = carry
  BY CarryZero
<1> DEFINE w == Rippled(s, carry, b).words
           c(i) == Carry(s, carry, b, i)
<1>0. b \in Nat /\ b # 0
  BY DEF BaseOK
<1>1. Rippled(s, carry, b).carry = c(n) /\ w = [i \in 1 .. n |-> (c(i - 1) + s[i]) % b]
  BY DEF Rippled
<1>2. w = [i \in 1 .. n |-> w[i]]
  BY <1>1
<1>3. ASSUME NEW i \in 1 .. n PROVE w[i] = (c(i - 1) + s[i]) % b
  BY <1>1
<1> HIDE DEF w
<1>4. IsSeq(w) /\ Len(w) = n
  BY <1>2, FunctionSeq
<1> HIDE DEF c
<1> DEFINE T == {i \in Nat : i <= n => /\ c(i) \in Int
                                       /\ Val(s, b, i) \in Int /\ Val(w, b, i) \in Int
                                       /\ Val(s, b, i) + carry = Val(w, b, i) + c(i) * Pow(b, i)
                                       /\ \A j \in 1 .. i : w[j] \in Nat /\ w[j] < b}
<1>6. 0 \in T
  <2>1. Val(s, b, 0) = 0 /\ Val(w, b, 0) = 0 /\ Pow(b, 0) = 1
    BY ValFacts, PowFacts
  <2> QED
    BY <2>1, <1>10 DEF c
<1>7. ASSUME NEW i \in Nat, i \in T PROVE i + 1 \in T
  <2> SUFFICES ASSUME i + 1 <= n
               PROVE  /\ c(i + 1) \in Int
                      /\ Val(s, b, i + 1) \in Int /\ Val(w, b, i + 1) \in Int
                      /\ Val(s, b, i + 1) + carry = Val(w, b, i + 1) + c(i + 1) * Pow(b, i + 1)
                      /\ \A j \in 1 .. i + 1 : w[j] \in Nat /\ w[j] < b
    OBVIOUS
  <2> DEFINE k == c(i)
             z == s[i + 1]
             d == w[i + 1]
             e == c(i + 1)
             p == Pow(b, i)
             x == Val(s, b, i)
             y == Val(w, b, i)
  <2>1. /\ k \in Int /\ x \in Int /\ y \in Int /\ x + carry = y + k * p
        /\ \A j \in 1 .. i : w[j] \in Nat /\ w[j] < b
    BY <1>7
  <2>2. z \in Int /\ i + 1 \in 1 .. n /\ (i + 1) - 1 = i
    OBVIOUS
  <2>3. e = (k + z) \div b /\ d = (k + z) % b
    BY <1>3, <1>5, <2>2 DEF NextCarry, c
  <2>4. p \in Nat
    BY <1>0, PowNat
  <2>5. /\ Val(s, b, i + 1) = x + z * p /\ Val(w, b, i + 1) = y + d * p
        /\ Pow(b, i + 1) = p * b
    BY SMTT(30), ValFacts, PowFacts
  <2> HIDE DEF k, z, d, e, p, x, y
  <2>6. e \in Int /\ d \in Nat /\ d < b /\ k + z = d + e * b
    <3> DEFINE v == k + z
    <3>1. v \in Int /\ e = v \div b /\ d = v % b
      BY <2>1, <2>2, <2>3
    <3> HIDE DEF v
    <3>2. Placed(v, d, e, b)
      BY <3>1, PlaceIs
    <3> QED
      BY <3>2 DEF Placed, v
  <2>7. (x + z * p) + carry = (y + d * p) + e * (p * b)
    <3>1. (x + z * p) + carry = y + (k + z) * p
      BY <2>1, <2>2, <2>4
    <3>2. (k + z) * p = d * p + e * (p * b)
      BY <1>0, <2>6, <2>4
    <3> DEFINE g == d * p
               h == e * (p * b)
               f == (k + z) * p
               q == z * p
    <3>3. g \in Int /\ h \in Int /\ f \in Int /\ q \in Int
      BY <1>0, <2>1, <2>2, <2>4, <2>6
    <3>4. (x + q) + carry = y + f /\ f = g + h
      BY <3>1, <3>2
    <3> HIDE DEF f, g, h, q
    <3>5. (x + q) + carry = (y + g) + h
      BY <2>1, <3>3, <3>4
    <3> QED
      BY <3>5 DEF g, h, q
  <2>8. x + z * p \in Int /\ y + d * p \in Int
    BY <2>1, <2>2, <2>4, <2>6
  <2>9. \A j \in 1 .. i + 1 : w[j] \in Nat /\ w[j] < b
    <3>1. w[i + 1] \in Nat /\ w[i + 1] < b
      BY <2>6 DEF d
    <3> QED
      BY <2>1, <3>1
  <2> QED
    BY <2>5, <2>6, <2>7, <2>8, <2>9 DEF e
<1> HIDE DEF T
<1>8. n \in T
  BY <1>6, <1>7, Induction
<1>9. /\ c(n) \in Int /\ Val(s, b, n) + carry = Val(w, b, n) + c(n) * Pow(b, n)
      /\ \A j \in 1 .. n : w[j] \in Nat /\ w[j] < b
  BY <1>8 DEF T
<1> QED
  BY <1>1, <1>4, <1>9 DEF Digits, w

\* The sums with the carry are a number; a ripple leaves its lowest places in
\* the words and the rest in the carry.
\* Without a carry from below.
LEMMA RippleZero ==
    ASSUME NEW b, BaseOK(b), NEW n \in Nat, NEW s, IsSeq(s), Len(s) = n,
           \A i \in 1 .. n : s[i] \in Int, NEW p, p = Pow(b, n), NEW r, r = Rippled(s, 0, b)
    PROVE  /\ Digits(r.words, b, n) /\ r.carry \in Int
           /\ Val(s, b, n) + 0 = Val(r.words, b, n) + r.carry * p
<1>1. 0 \in Int
  OBVIOUS
<1> QED
  BY <1>1, RippleFacts

\* So the words are the remainder, the carry the quotient.
LEMMA RippleIs ==
    ASSUME NEW b, BaseOK(b), NEW n \in Nat, NEW s, IsSeq(s), Len(s) = n,
           \A i \in 1 .. n : s[i] \in Int, NEW carry \in Int
    PROVE  /\ Digits(Rippled(s, carry, b).words, b, n)
           /\ Val(s, b, n) + carry \in Int
           /\ Rippled(s, carry, b).carry = (Val(s, b, n) + carry) \div Pow(b, n)
           /\ Val(Rippled(s, carry, b).words, b, n) = (Val(s, b, n) + carry) % Pow(b, n)
<1> DEFINE w == Rippled(s, carry, b).words
           c == Rippled(s, carry, b).carry
           x == Val(s, b, n) + carry
           y == Val(w, b, n)
           p == Pow(b, n)
<1>0. b \in Nat /\ b # 0
  BY DEF BaseOK
<1>1. Digits(w, b, n) /\ c \in Int /\ x = y + c * p
  BY RippleFacts
<1>2. y \in Nat /\ y < p
  BY <1>1, ValRange DEF Digits
<1>3. p \in Nat
  BY <1>0, PowNat
<1> HIDE DEF w, c, x, y, p
<1>4. x \div p = c /\ x % p = y /\ x \in Int
  BY <1>1, <1>2, <1>3, DivModInt
<1> QED
  BY <1>1, <1>4 DEF w, c, x, y, p

-----------------------------------------------------------------------------
(* Congruence, and the value of sums, shifts and parts of words.           *)

\* Congruence modulo m.
Same(a, b, m) == \E k \in Int : a = b + k * m

\* Congruent numbers have the same remainder.
LEMMA SameMod ==
    ASSUME NEW m \in Nat, m # 0, NEW a \in Int, NEW b \in Int, Same(a, b, m)
    PROVE  a % m = b % m
<1>1. PICK k \in Int : a = b + k * m
  BY DEF Same
<1> DEFINE r == b % m
           q == b \div m
           s == q + k
<1>2. q \in Int /\ r \in Nat /\ r < m /\ b = r + q * m
  BY IntDivMod
<1> HIDE DEF r, q
<1>3. s \in Int /\ a = r + s * m
  BY <1>1, <1>2
<1> HIDE DEF s
<1>4. a % m = r
  BY <1>2, <1>3, DivModInt
<1> QED
  BY <1>4 DEF r

\* A number below m that is congruent is the remainder.
LEMMA ModIs ==
    ASSUME NEW m \in Nat, m # 0, NEW a \in Int, NEW r \in Nat, r < m, Same(a, r, m)
    PROVE  a % m = r
<1>1. PICK k \in Int : a = r + k * m
  BY DEF Same
<1> QED
  BY <1>1, DivModInt

\* A number is congruent to its remainder.
LEMMA ModSame ==
    ASSUME NEW m \in Nat, m # 0, NEW a \in Int
    PROVE  a % m \in Nat /\ a % m < m /\ Same(a, a % m, m) /\ Same(a % m, a, m)
<1> DEFINE r == a % m
           q == a \div m
<1>1. q \in Int /\ r \in Nat /\ r < m /\ a = r + q * m
  BY IntDivMod
<1> HIDE DEF r, q
<1>2. Same(a, r, m)
  BY <1>1 DEF Same
<1>3. r = a + (-q) * m /\ -q \in Int
  BY <1>1
<1>4. Same(r, a, m)
  BY <1>3 DEF Same
<1> QED
  BY <1>1, <1>2, <1>4 DEF r

\* Congruence is reflexive,
LEMMA SameSelf == ASSUME NEW m \in Nat, NEW a \in Int PROVE Same(a, a, m)
<1>1. a = a + 0 * m /\ 0 \in Int
  OBVIOUS
<1> QED
  BY <1>1 DEF Same

\* transitive
LEMMA SameTrans ==
    ASSUME NEW m \in Nat, NEW a \in Int, NEW b \in Int, NEW c \in Int, Same(a, b, m), Same(b, c, m)
    PROVE  Same(a, c, m)
<1>1. PICK k \in Int : a = b + k * m
  BY DEF Same
<1>2. PICK l \in Int : b = c + l * m
  BY DEF Same
<1>3. a = c + (k + l) * m /\ k + l \in Int
  BY <1>1, <1>2
<1> QED
  BY <1>3 DEF Same

\* and symmetric.
LEMMA SameBack ==
    ASSUME NEW m \in Nat, NEW a \in Int, NEW b \in Int, Same(a, b, m)
    PROVE  Same(b, a, m)
<1>1. PICK k \in Int : a = b + k * m
  BY DEF Same
<1>2. -k \in Int /\ (-k) * m = -(k * m)
  OBVIOUS
<1>3. b = a + (-k) * m
  BY <1>1, <1>2
<1> QED
  BY <1>2, <1>3 DEF Same

\* Sums and differences keep it
LEMMA SameSum ==
    ASSUME NEW m \in Nat, NEW a \in Int, NEW b \in Int, NEW c \in Int, NEW d \in Int,
           Same(a, b, m), Same(c, d, m)
    PROVE  Same(a + c, b + d, m) /\ Same(a - c, b - d, m)
<1>1. PICK k \in Int : a = b + k * m
  BY DEF Same
<1>2. PICK l \in Int : c = d + l * m
  BY DEF Same
<1>3. a + c = (b + d) + (k + l) * m /\ k + l \in Int
  BY <1>1, <1>2
<1>4. a - c = (b - d) + (k - l) * m /\ k - l \in Int
  BY <1>1, <1>2
<1> QED
  BY <1>3, <1>4 DEF Same

\* and products.
LEMMA SameProduct ==
    ASSUME NEW m \in Nat, NEW a \in Int, NEW b \in Int, NEW c \in Int, NEW d \in Int,
           Same(a, b, m), Same(c, d, m)
    PROVE  Same(a * c, b * d, m)
<1>1. PICK k \in Int : a = b + k * m
  BY DEF Same
<1>2. PICK l \in Int : c = d + l * m
  BY DEF Same
<1> DEFINE x == k * c + b * l
<1>3. x \in Int
  OBVIOUS
<1>4. a * c = b * d + x * m
  <2>1. a * c = b * c + (k * m) * c
    BY <1>1
  <2>2. b * c = b * d + b * (l * m)
    BY <1>2
  <2>3. (k * m) * c + b * (l * m) = x * m
    OBVIOUS
  <2> DEFINE e == a * c
             f == b * c
             g == (k * m) * c
             h == b * (l * m)
             i == b * d
             j == x * m
  <2>4. e \in Int /\ f \in Int /\ g \in Int /\ h \in Int /\ i \in Int /\ j \in Int
    BY <1>3
  <2>5. e = f + g /\ f = i + h /\ g + h = j
    BY <2>1, <2>2, <2>3
  <2> HIDE DEF e, f, g, h, i, j
  <2>6. e = i + j
    BY <2>4, <2>5
  <2> QED
    BY <2>6 DEF e, i, j
<1> QED
  BY <1>3, <1>4 DEF Same

\* The words t are s and k times r.
Linear(t, s, r, k, n) ==
    \A i \in 1 .. n : s[i] \in Int /\ r[i] \in Int /\ t[i] = s[i] + k * r[i]

\* The value of words added place by place is the sum of the values.
LEMMA ValLinear ==
    ASSUME NEW n \in Nat, NEW b \in Nat, b # 0, NEW k \in Int, NEW s, NEW r, NEW t,
           Linear(t, s, r, k, n)
    PROVE  Val(t, b, n) = Val(s, b, n) + k * Val(r, b, n)
<1>0. \A i \in 1 .. n : s[i] \in Int /\ r[i] \in Int /\ t[i] = s[i] + k * r[i]
  BY DEF Linear
<1> DEFINE T == {i \in Nat : i <= n => /\ Val(s, b, i) \in Int /\ Val(r, b, i) \in Int
                                       /\ Val(t, b, i) = Val(s, b, i) + k * Val(r, b, i)}
<1>1. 0 \in T
  <2>1. Val(s, b, 0) = 0 /\ Val(r, b, 0) = 0 /\ Val(t, b, 0) = 0
    BY ValFacts
  <2> QED
    BY <2>1
<1>2. ASSUME NEW i \in Nat, i \in T PROVE i + 1 \in T
  <2> SUFFICES ASSUME i + 1 <= n
               PROVE  /\ Val(s, b, i + 1) \in Int /\ Val(r, b, i + 1) \in Int
                      /\ Val(t, b, i + 1) = Val(s, b, i + 1) + k * Val(r, b, i + 1)
    OBVIOUS
  <2> DEFINE x == Val(s, b, i)
             y == Val(r, b, i)
             z == Val(t, b, i)
             p == Pow(b, i)
             d == s[i + 1]
             e == r[i + 1]
             f == t[i + 1]
  <2>1. x \in Int /\ y \in Int /\ z = x + k * y
    BY <1>2
  <2>2. d \in Int /\ e \in Int /\ f = d + k * e
    BY <1>0
  <2>3. p \in Nat
    BY PowNat
  <2>4. /\ Val(s, b, i + 1) = x + d * p /\ Val(r, b, i + 1) = y + e * p
        /\ Val(t, b, i + 1) = z + f * p
    BY ValFacts
  <2> HIDE DEF x, y, z, p, d, e, f
  <2>5. z + f * p = (x + d * p) + k * (y + e * p)
    <3>1. f * p = d * p + k * (e * p)
      BY <2>2, <2>3
    <3>2. k * (y + e * p) = k * y + k * (e * p)
      BY <2>1, <2>2, <2>3
    <3> DEFINE u == e * p
               v == k * u
               w == k * y
               g == d * p
               h == f * p
               o == k * (y + u)
    <3>3. v \in Int /\ w \in Int /\ g \in Int /\ h \in Int /\ o \in Int
      BY <2>1, <2>2, <2>3
    <3>4. h = g + v /\ o = w + v /\ z = x + w
      BY <2>1, <3>1, <3>2
    <3> HIDE DEF v, w, g, h, o
    <3>5. z + h = (x + g) + o
      BY <2>1, <3>3, <3>4
    <3> QED
      BY <3>5 DEF g, h, o, u
  <2>6. x + d * p \in Int /\ y + e * p \in Int
    BY <2>1, <2>2, <2>3
  <2> QED
    BY <2>4, <2>5, <2>6
<1> HIDE DEF T
<1>3. n \in T
  BY <1>1, <1>2, Induction
<1> QED
  BY <1>3 DEF T

\* One word more at the bottom.
LEMMA ValShift ==
    ASSUME NEW n \in Nat, NEW b \in Nat, b # 0, NEW s, NEW t, t[1] \in Int,
           \A i \in 1 .. n : s[i] \in Int /\ t[i + 1] = s[i]
    PROVE  Val(t, b, n + 1) = t[1] + b * Val(s, b, n)
<1> DEFINE T == {i \in Nat : i <= n => /\ Val(s, b, i) \in Int
                                       /\ Val(t, b, i + 1) = t[1] + b * Val(s, b, i)}
<1>1. 0 \in T
  <2>1. 0 \in Nat
    OBVIOUS
  <2>2. Val(s, b, 0) = 0 /\ Val(t, b, 0) = 0 /\ Pow(b, 0) = 1
    BY <2>1, ValFacts, PowFacts
  <2>3. Val(t, b, 0 + 1) = Val(t, b, 0) + t[0 + 1] * Pow(b, 0)
    BY <2>1, ValFacts
  <2> QED
    BY <2>2, <2>3
<1>2. ASSUME NEW i \in Nat, i \in T PROVE i + 1 \in T
  <2> SUFFICES ASSUME i + 1 <= n
               PROVE  /\ Val(s, b, i + 1) \in Int
                      /\ Val(t, b, (i + 1) + 1) = t[1] + b * Val(s, b, i + 1)
    OBVIOUS
  <2> DEFINE x == Val(s, b, i)
             y == Val(t, b, i + 1)
             p == Pow(b, i)
             d == s[i + 1]
             c == t[1]
  <2>0. i + 1 \in Nat /\ i + 1 \in 1 .. n
    OBVIOUS
  <2>1. x \in Int /\ y = c + b * x /\ c \in Int
    BY <1>2
  <2>2. d \in Int /\ t[(i + 1) + 1] = d
    BY <2>0
  <2>3. p \in Nat
    BY PowNat
  <2>4. Val(s, b, i + 1) = x + d * p
    BY ValFacts
  <2>5. Val(t, b, (i + 1) + 1) = y + t[(i + 1) + 1] * Pow(b, i + 1)
    BY <2>0, ValFacts
  <2>6. Pow(b, i + 1) = p * b
    BY PowFacts
  <2> HIDE DEF x, y, p, d, c
  <2>7. y + d * (p * b) = c + b * (x + d * p)
    BY <2>1, <2>2, <2>3
  <2>8. x + d * p \in Int
    BY <2>1, <2>2, <2>3
  <2>9. Val(t, b, (i + 1) + 1) = c + b * Val(s, b, i + 1)
    BY <2>2, <2>4, <2>5, <2>6, <2>7
  <2> QED
    BY <2>4, <2>8, <2>9 DEF c
<1> HIDE DEF T
<1>3. n \in T
  BY <1>1, <1>2, Induction
<1> QED
  BY <1>3 DEF T

\* Words in two parts.
SplitAt(w, t, b, m, n) == Val(w, b, m + n) = Val(w, b, m) + Pow(b, m) * Val(t, b, n)

\* The value of two parts, one after the other.
LEMMA SplitIs ==
    ASSUME NEW m \in Nat, NEW n \in Nat, NEW b \in Nat, b # 0, NEW w, NEW t,
           \A i \in 1 .. m : w[i] \in Int,
           \A i \in 1 .. n : t[i] \in Int /\ w[m + i] = t[i]
    PROVE  SplitAt(w, t, b, m, n)
<1> DEFINE T == {i \in Nat : i <= n => /\ Val(t, b, i) \in Int
                                       /\ Val(w, b, m + i) =
                                                 Val(w, b, m) + Pow(b, m) * Val(t, b, i)}
<1>0. Val(w, b, m) \in Int /\ Pow(b, m) \in Nat
  BY ValInt, PowNat
<1>1. 0 \in T
  <2>1. Val(t, b, 0) = 0 /\ m + 0 = m
    BY ValFacts
  <2> QED
    BY <1>0, <2>1
<1>2. ASSUME NEW i \in Nat, i \in T PROVE i + 1 \in T
  <2> SUFFICES ASSUME i + 1 <= n
               PROVE  /\ Val(t, b, i + 1) \in Int
                      /\ Val(w, b, m + (i + 1)) = Val(w, b, m) + Pow(b, m) * Val(t, b, i + 1)
    OBVIOUS
  <2> DEFINE x == Val(t, b, i)
             y == Val(w, b, m + i)
             z == Val(w, b, m)
             p == Pow(b, i)
             q == Pow(b, m)
             d == t[i + 1]
  <2>0. m + i \in Nat /\ (m + i) + 1 = m + (i + 1) /\ i + 1 \in 1 .. n
    OBVIOUS
  <2>1. x \in Int /\ y = z + q * x /\ z \in Int /\ q \in Nat
    BY <1>0, <1>2
  <2>2. d \in Int /\ w[m + (i + 1)] = d
    BY <2>0
  <2>3. p \in Nat
    BY PowNat
  <2>4. Val(t, b, i + 1) = x + d * p
    BY ValFacts
  <2>5. Val(w, b, (m + i) + 1) = y + w[(m + i) + 1] * Pow(b, m + i)
    BY <2>0, ValFacts
  <2>6. Pow(b, m + i) = q * p
    BY PowAdd
  <2> HIDE DEF x, y, z, p, q, d
  <2>7. y + d * (q * p) = z + q * (x + d * p)
    BY <2>1, <2>2, <2>3
  <2>8. x + d * p \in Int
    BY <2>1, <2>2, <2>3
  <2>9. Val(w, b, m + (i + 1)) = z + q * Val(t, b, i + 1)
    BY <2>0, <2>2, <2>4, <2>5, <2>6, <2>7
  <2> QED
    BY <2>4, <2>8, <2>9 DEF z, q
<1> HIDE DEF T
<1>3. n \in T
  BY <1>1, <1>2, Induction
<1> QED
  BY <1>3 DEF T, SplitAt

\* Words of k times their greatest value at most.
LEMMA ValBound ==
    ASSUME NEW n \in Nat, NEW b \in Nat, b # 0, NEW k \in Nat, NEW w,
           \A i \in 1 .. n : w[i] \in Nat /\ w[i] <= k * (b - 1)
    PROVE  Val(w, b, n) \in Nat /\ Val(w, b, n) <= k * (Pow(b, n) - 1)
<1> DEFINE T == {i \in Nat : i <= n => Val(w, b, i) \in Nat /\ Val(w, b, i) <= k * (Pow(b, i) - 1)}
<1>1. 0 \in T
  <2>1. Val(w, b, 0) = 0 /\ Pow(b, 0) = 1
    BY ValFacts, PowFacts
  <2> QED
    BY <2>1
<1>2. ASSUME NEW i \in Nat, i \in T PROVE i + 1 \in T
  <2> SUFFICES ASSUME i + 1 <= n
               PROVE  Val(w, b, i + 1) \in Nat /\ Val(w, b, i + 1) <= k * (Pow(b, i + 1) - 1)
    OBVIOUS
  <2> DEFINE x == Val(w, b, i)
             p == Pow(b, i)
             d == w[i + 1]
  <2>1. x \in Nat /\ x <= k * (p - 1)
    BY <1>2
  <2>2. d \in Nat /\ d <= k * (b - 1)
    OBVIOUS
  <2>3. p \in Nat /\ p # 0
    BY PowNat
  <2>4. Val(w, b, i + 1) = x + d * p /\ Pow(b, i + 1) = p * b
    BY ValFacts, PowFacts
  <2> HIDE DEF x, p, d
  <2>5. x + d * p \in Nat
    BY <2>1, <2>2, <2>3
  <2>6. x + d * p <= k * (p * b - 1)
    <3>1. d * p <= (k * (b - 1)) * p
      <4> DEFINE g == k * (b - 1)
      <4>1. g \in Nat /\ d <= g
        BY <2>2
      <4> HIDE DEF g
      <4>2. d * p <= g * p
        BY <2>2, <2>3, <4>1
      <4> QED
        BY <4>2 DEF g
    <3>2. k * (p - 1) + (k * (b - 1)) * p = k * (p * b - 1)
      BY <2>3
    <3> DEFINE g == k * (p - 1)
               h == (k * (b - 1)) * p
               e == d * p
    <3>3. g \in Int /\ h \in Int /\ e \in Int
      BY <2>2, <2>3
    <3> HIDE DEF g, h, e
    <3>4. x + e <= g + h
      BY <2>1, <3>1, <3>3 DEF g, h, e
    <3> QED
      BY <3>2, <3>4 DEF g, h, e
  <2> QED
    BY <2>4, <2>5, <2>6
<1> HIDE DEF T
<1>3. n \in T
  BY <1>1, <1>2, Induction
<1> QED
  BY <1>3 DEF T

\* Zero words are zero.
LEMMA ValZero ==
    ASSUME NEW n \in Nat, NEW b, NEW w, \A i \in 1 .. n : w[i] = 0, BaseOK(b)
    PROVE  Val(w, b, n) = 0
<1>1. b \in Nat /\ b # 0
  BY DEF BaseOK
<1>2. \A i \in 1 .. n : w[i] \in Nat /\ w[i] <= 0 * (b - 1)
  BY <1>1
<1>3. Val(w, b, n) \in Nat /\ Val(w, b, n) <= 0 * (Pow(b, n) - 1)
  BY <1>1, <1>2, ValBound
<1>4. Pow(b, n) \in Nat
  BY <1>1, PowNat
<1> QED
  BY <1>3, <1>4

\* Every word at its greatest value.
LEMMA ValFull ==
    ASSUME NEW n \in Nat, NEW b \in Nat, b # 0, NEW w, \A i \in 1 .. n : w[i] = b - 1
    PROVE  Val(w, b, n) = Pow(b, n) - 1
<1> DEFINE T == {i \in Nat : i <= n => Val(w, b, i) = Pow(b, i) - 1}
<1>1. 0 \in T
  <2>1. Val(w, b, 0) = 0 /\ Pow(b, 0) = 1
    BY ValFacts, PowFacts
  <2> QED
    BY <2>1
<1>2. ASSUME NEW i \in Nat, i \in T PROVE i + 1 \in T
  <2> SUFFICES ASSUME i + 1 <= n PROVE Val(w, b, i + 1) = Pow(b, i + 1) - 1
    OBVIOUS
  <2> DEFINE p == Pow(b, i)
  <2>1. Val(w, b, i) = p - 1 /\ w[i + 1] = b - 1
    BY <1>2
  <2>2. p \in Nat
    BY PowNat
  <2>3. Val(w, b, i + 1) = Val(w, b, i) + w[i + 1] * p /\ Pow(b, i + 1) = p * b
    BY ValFacts, PowFacts
  <2> HIDE DEF p
  <2>4. (p - 1) + (b - 1) * p = p * b - 1
    BY <2>2
  <2> QED
    BY <2>1, <2>3, <2>4
<1> HIDE DEF T
<1>3. n \in T
  BY <1>1, <1>2, Induction
<1> QED
  BY <1>3 DEF T

-----------------------------------------------------------------------------
(* F25519.                                                                 *)

\* The value of the top bit.
Half25 == Top25519 * Pow(Base25519, Words25519 - 1)

\* The constants of F25519: words and their base.
LEMMA Sizes25 ==
    /\ Words25519 \in Nat /\ Words25519 # 0 /\ Words25519 - 1 \in Nat
    /\ C \in Nat /\ C # 0
    /\ Top25519 \in Nat /\ Top25519 # 0 /\ Base25519 = 2 * Top25519
    /\ Base25519 \in Nat /\ Base25519 # 0 /\ BaseOK(Base25519)
<1>1. /\ Words25519 \in Nat /\ Words25519 # 0 /\ C \in Nat /\ C # 0
      /\ Bits25519 \in Nat /\ Bits25519 # 0
  BY FieldAssumption
<1>2. Bits25519 - 1 \in Nat /\ (Bits25519 - 1) + 1 = Bits25519 /\ Words25519 - 1 \in Nat
  BY <1>1
<1> DEFINE n == Bits25519 - 1
<1>3. Pow(2, n) \in Nat /\ Pow(2, n) # 0
  BY <1>2, PowNat
<1>4. Pow(2, n + 1) = Pow(2, n) * 2
  BY <1>2, PowFacts
<1>5. Top25519 = Pow(2, n) /\ Base25519 = Pow(2, n + 1)
  BY <1>2 DEF Top25519, Base25519
<1> HIDE DEF n
<1>6. Base25519 = 2 * Top25519 /\ Top25519 \in Nat /\ Top25519 # 0
  BY <1>3, <1>4, <1>5
<1>7. Base25519 \in Nat /\ Base25519 # 0 /\ BaseOK(Base25519)
  BY <1>6 DEF BaseOK
<1> QED
  BY <1>1, <1>2, <1>6, <1>7

\* The constants of F25519: modulus and range, and how much room there is.
LEMMA Numbers25 ==
    /\ Half25 \in Nat /\ Range25519 = 2 * Half25 /\ Range25519 \in Nat
    /\ Range25519 = Pow(Base25519, Words25519)
    /\ P25519 = Half25 - C
    /\ 4 * C * C * Words25519 * Base25519 + 4 * C <= Half25
    /\ 12 * C <= Half25 /\ P25519 \in Nat /\ P25519 # 0 /\ 2 <= P25519
<1> DEFINE q == Pow(Base25519, Words25519 - 1)
           w == Words25519
<1>1. q \in Nat
  BY Sizes25, PowNat
<1>2. (w - 1) + 1 = w
  BY Sizes25
<1>3. Pow(Base25519, (w - 1) + 1) = q * Base25519
  BY Sizes25, PowFacts
<1>4. Range25519 = q * Base25519 /\ Range25519 = Pow(Base25519, Words25519)
  BY <1>2, <1>3 DEF Range25519
<1>5. Half25 = Top25519 * q /\ P25519 = Half25 - C
  BY DEF Half25, P25519
<1>6. 4 * C * C * Words25519 * Base25519 + 3 * C <= P25519
  BY FieldAssumption
<1> HIDE DEF q
<1>7. Half25 \in Nat /\ Range25519 = 2 * Half25
  <2>1. q * (2 * Top25519) = 2 * (Top25519 * q) /\ Top25519 * q \in Nat
    BY <1>1, Sizes25
  <2> QED
    BY <1>4, <1>5, <2>1, Sizes25
<1> DEFINE m == C * Words25519 * Base25519
<1>8. m \in Nat /\ 2 <= m
  <2> DEFINE k == C * Words25519
  <2>1. k \in Nat /\ k # 0
    BY Sizes25
  <2>2. Base25519 \in Nat /\ 2 <= Base25519
    BY Sizes25
  <2> HIDE DEF k
  <2>3. k * Base25519 \in Nat /\ 2 <= k * Base25519
    BY <2>1, <2>2
  <2> QED
    BY <2>3 DEF k
<1>9. 4 * C * C * Words25519 * Base25519 = 4 * C * m
  BY Sizes25
<1> HIDE DEF m
<1>10. 4 * C * m \in Nat /\ 8 * C <= 4 * C * m
  BY <1>8, Sizes25
<1> QED
  BY <1>4, <1>5, <1>6, <1>7, <1>9, <1>10, Sizes25

\* The words of one step of a reduction stand for the number again.
LEMMA ReduceSingleIs ==
    ASSUME NEW words, Digits(words, Base25519, Words25519), NEW carry \in Nat,
           NEW z \in Nat, z = Val(words, Base25519, Words25519) + carry * Range25519,
           (z \div Half25) * C <= Half25 - 2 * C
    PROVE  LET r == ReduceSingle(words, carry)
           IN /\ Digits(r, Base25519, Words25519)
              /\ Number25(r) = (z % Half25) + (z \div Half25) * C
              /\ Number25(r) \in Nat /\ Number25(r) < 2 * P25519 /\ Same(Number25(r), z, P25519)
<1> DEFINE W == Words25519
           B == Base25519
           H == Half25
           t == words[W] \div Top25519
           d == words[W] % Top25519
           f == [words EXCEPT ![W] = d]
           q == Pow(B, W - 1)
           x == Val(words, B, W - 1)
           cc == (2 * carry + t) * C
           s == Ripple25(f, cc)
<1>1. W \in Nat /\ W \in 1 .. W /\ W - 1 \in Nat /\ (W - 1) + 1 = W
  BY Sizes25
<1>2. /\ IsSeq(words) /\ Len(words) = W
      /\ \A i \in 1 .. W : words[i] \in Nat /\ words[i] < B
  BY DEF Digits
<1>3. words[W] \in Nat /\ words[W] < B
  BY <1>1, <1>2
<1>4. t \in Nat /\ d \in Nat /\ d < Top25519 /\ words[W] = t * Top25519 + d
  BY <1>3, Sizes25, DivMod
<1>5. DOMAIN words = 1 .. W
  BY <1>2, SeqFacts
<1> HIDE DEF W
<1>6. f = [i \in 1 .. W |-> f[i]] /\ f[W] = d /\ \A i \in 1 .. W - 1 : f[i] = words[i]
  <2>1. f = [i \in 1 .. W |-> f[i]] /\ f[W] = d
    BY <1>1, <1>5
  <2>2. ASSUME NEW i \in 1 .. W - 1 PROVE f[i] = words[i]
    <3>1. i \in 1 .. W /\ i # W
      BY <1>1
    <3> QED
      BY <1>5, <3>1
  <2> QED
    BY <2>1, <2>2
<1> USE DEF W
<1> HIDE DEF t, d
<1> HIDE DEF f
<1>7. IsSeq(f) /\ Len(f) = W
  BY <1>1, <1>6, FunctionSeq
<1>8. \A i \in 1 .. W : f[i] \in Int
  <2> TAKE i \in 1 .. W
  <2>1. CASE i = W
    <3>1. f[i] = d
      BY <1>6, <2>1
    <3> QED
      BY <1>4, <3>1
  <2>2. CASE i # W
    <3>1. i \in 1 .. W - 1 /\ i \in 1 .. W
      BY <1>1, <2>2
    <3>2. f[i] = words[i]
      BY <1>6, <3>1
    <3> QED
      BY <1>2, <3>1, <3>2
  <2> QED
    BY <2>1, <2>2
<1>9. x \in Nat /\ x < q
  <2>1. \A i \in 1 .. W - 1 : words[i] \in Nat /\ words[i] < B
    BY <1>1, <1>2
  <2> QED
    BY <1>1, <2>1, ValRange, Sizes25
<1>10. q \in Nat /\ q # 0
  BY <1>1, Sizes25, PowNat
<1> DEFINE low == x + d * q
<1>11. Val(f, B, W) = low
  <2>1. Val(f, B, (W - 1) + 1) = Val(f, B, W - 1) + f[(W - 1) + 1] * q
    BY <1>1, ValFacts
  <2>2. Val(f, B, W - 1) = x
    <3>1. \A i \in 1 .. W - 1 : f[i] = words[i]
      BY <1>1, <1>6
    <3> DEFINE n == W - 1
    <3>2. n \in Nat /\ \A i \in 1 .. n : f[i] = words[i]
      BY <1>1, <3>1
    <3> HIDE DEF n
    <3>3. Val(f, B, n) = Val(words, B, n)
      BY <3>2, ValSame
    <3> QED
      BY <3>3 DEF n
  <2> QED
    BY <1>1, <1>6, <2>1, <2>2
<1>12. Val(words, B, W) = x + words[W] * q
  <2>1. Val(words, B, (W - 1) + 1) = x + words[(W - 1) + 1] * q
    BY <1>1, ValFacts
  <2> QED
    BY <1>1, <2>1
<1>13. H = Top25519 * q
  BY DEF Half25
<1>14. low \in Nat /\ low < q * Top25519
  BY <1>4, <1>9, <1>10, Sizes25, DigitRange
<1> HIDE DEF q, x
<1>15. z = low + (2 * carry + t) * H
  <2>1. words[W] * q = d * q + t * (Top25519 * q)
    <3>1. (t * Top25519 + d) * q = d * q + t * (Top25519 * q)
      BY <1>4, <1>10, Sizes25
    <3> QED
      BY <1>4, <3>1
  <2>2. carry * Range25519 = (2 * carry) * H
    BY Numbers25
  <2>3. (2 * carry + t) * H = (2 * carry) * H + t * H
    BY <1>4, Numbers25
  <2> DEFINE e == d * q
             g == t * H
             h == (2 * carry) * H
  <2>4. e \in Nat /\ g \in Nat /\ h \in Nat /\ x \in Nat
    BY <1>4, <1>9, <1>10, Numbers25
  <2>5. z = (x + (e + g)) + h
    BY <1>12, <1>13, <2>1, <2>2
  <2>6. (2 * carry + t) * H = h + g /\ low = x + e
    BY <2>3
  <2> HIDE DEF e, g, h
  <2> QED
    BY <2>4, <2>5, <2>6
<1>16. low \in Nat /\ low < H /\ H \in Nat
  <2>1. q * Top25519 = Top25519 * q
    BY <1>10, Sizes25
  <2> QED
    BY <1>13, <1>14, <2>1, Numbers25
<1> HIDE DEF low
<1> DEFINE k == 2 * carry + t
<1>17. k \in Nat /\ k \in Int
  BY <1>4
<1>18. z \div H = k /\ z % H = low
  BY <1>15, <1>16, <1>17, DivModInt
<1>19. cc = k * C /\ cc \in Nat /\ cc <= H - 2 * C
  BY <1>17, <1>18, Sizes25
<1> HIDE DEF k, cc
<1>20. /\ Digits(s.words, B, W)
       /\ Val(s.words, B, W) = (low + cc) % Pow(B, W)
  BY <1>1, <1>7, <1>8, <1>11, <1>19, Sizes25, RippleIs DEF Ripple25
<1> DEFINE v == low + cc
<1>21. v \in Nat /\ v < Pow(B, W) /\ v < 2 * P25519 /\ Pow(B, W) \in Nat
  BY <1>16, <1>19, Numbers25, Sizes25
<1> HIDE DEF v
<1>22. v % Pow(B, W) = v
  <2> DEFINE n == Pow(B, W)
  <2>1. n \in Nat /\ v < n
    BY <1>21
  <2> HIDE DEF n
  <2>2. v % n = v
    BY <1>21, <2>1
  <2> QED
    BY <2>2 DEF n
<1>23. ReduceSingle(words, carry) = s.words
  BY DEF ReduceSingle, s, f, t, d, cc, k
<1> HIDE DEF s
<1>24. Number25(s.words) = v
  <2>1. Number25(s.words) = Val(s.words, B, Len(s.words))
    BY NumberIs DEF Number25
  <2>2. Len(s.words) = W
    BY <1>20 DEF Digits
  <2> QED
    BY <1>20, <1>22, <2>1, <2>2 DEF v
<1>25. Same(v, z, P25519)
  <2>1. v = low + k * C /\ z = low + k * H
    BY <1>15, <1>19 DEF v, k
  <2>2. low + k * C = (low + k * H) + (-k) * (H - C)
    BY <1>16, <1>17, Sizes25
  <2>3. v = z + (-k) * P25519 /\ -k \in Int
    BY <1>17, <2>1, <2>2, Numbers25
  <2> QED
    BY <2>3 DEF Same
<1> QED
  BY <1>18, <1>19, <1>20, <1>21, <1>23, <1>24, <1>25 DEF v

\* A ripple and a reduction keep the number, modulo p.
LEMMA Finish25 ==
    ASSUME NEW sums, IsSeq(sums), Len(sums) = Words25519,
           \A i \in 1 .. Words25519 : sums[i] \in Int, NEW carry \in Int,
           NEW z \in Nat, z = Val(sums, Base25519, Words25519) + carry,
           (z \div Half25) * C <= Half25 - 2 * C
    PROVE  LET s == Ripple25(sums, carry)
               r == Number25(ReduceSingle(s.words, s.carry))
           IN r \in Nat /\ r < 2 * P25519 /\ Same(r, z, P25519)
<1> DEFINE s == Ripple25(sums, carry)
           N == Range25519
<1>1. /\ Digits(s.words, Base25519, Words25519)
      /\ s.carry = z \div N /\ Val(s.words, Base25519, Words25519) = z % N
  BY SMTT(30), Sizes25, Numbers25, RippleIs DEF Ripple25
<1>2. N \in Nat /\ N # 0
  BY Numbers25, Sizes25
<1> HIDE DEF N, s
<1>3. z \div N \in Nat /\ z % N \in Nat /\ z = (z % N) + (z \div N) * N
  <2>1. z \div N \in Nat /\ z % N \in Nat /\ z = (z \div N) * N + (z % N)
    BY <1>2, DivMod
  <2> QED
    BY <1>2, <2>1
<1>4. s.carry \in Nat /\ z = Val(s.words, Base25519, Words25519) + s.carry * Range25519
  BY <1>1, <1>3 DEF N
<1> QED
  BY <1>1, <1>4, ReduceSingleIs DEF s

\* Two numbers, or twice p and one.
LEMMA Few25 ==
    ASSUME NEW z \in Nat, z < 4 * Half25
    PROVE  (z \div Half25) * C <= Half25 - 2 * C
<1>1. Half25 \in Nat /\ Half25 # 0 /\ 12 * C <= Half25 /\ C \in Nat
  BY Numbers25, Sizes25
<1> DEFINE H == Half25
           k == z \div H
<1> HIDE DEF H
<1>2. k \in Nat /\ k * H <= z
  BY <1>1 DEF H
<1>3. k <= 3
  <2> HIDE DEF k
  <2> SUFFICES ASSUME 4 <= k PROVE FALSE
    BY <1>2
  <2>1. 4 * H <= k * H
    BY <1>1, <1>2 DEF H
  <2> QED
    BY <1>1, <1>2, <2>1 DEF H
<1> HIDE DEF k
<1>4. k * C <= 3 * C
  BY <1>1, <1>2, <1>3
<1>5. k * C \in Nat
  BY <1>1, <1>2
<1>6. k * C <= H - 2 * C
  BY <1>1, <1>4, <1>5 DEF H
<1> QED
  BY <1>6 DEF k, H

\* The words of a number of F25519.
LEMMA Words25Are ==
    ASSUME NEW v \in Nat, v < Range25519
    PROVE  /\ Digits(Words25(v), Base25519, Words25519)
           /\ Val(Words25(v), Base25519, Words25519) = v
BY Sizes25, Numbers25, WordsAre DEF Words25

\* F25519::add gives the sum, reduced below 2p, of any two words.
LEMMA AddIs25 ==
    ASSUME NEW a \in Nat, a < Range25519, NEW b \in Nat, b < Range25519
    PROVE  LET r == Add25519(a, b)
           IN r \in Nat /\ r < 2 * P25519 /\ Same(r, a + b, P25519)
<1> DEFINE W == Words25519
           B == Base25519
           u == Words25(a)
           v == Words25(b)
           s == Plus(u, v)
<1>1. Digits(u, B, W) /\ Val(u, B, W) = a /\ Digits(v, B, W) /\ Val(v, B, W) = b
  BY Words25Are
<1>2. IsSeq(u) /\ Len(u) = W /\ \A i \in 1 .. W : u[i] \in Int /\ v[i] \in Int
  BY <1>1 DEF Digits
<1>3. s = [i \in 1 .. W |-> s[i]] /\ \A i \in 1 .. W : s[i] = u[i] + v[i]
  BY <1>2 DEF Plus
<1>9. Add25519(a, b) = Number25(ReduceSingle(Ripple25(s, 0).words, Ripple25(s, 0).carry))
  BY DEF Add25519
<1> HIDE DEF s, u, v
<1>4. IsSeq(s) /\ Len(s) = W
  BY <1>3, Sizes25, FunctionSeq
<1>5. Linear(s, u, v, 1, W)
  BY <1>2, <1>3 DEF Linear
<1>6. Val(s, B, W) = a + 1 * b
  BY <1>1, <1>5, Sizes25, ValLinear
<1>7. a + b \in Nat /\ a + b < 4 * Half25 /\ a + b = Val(s, B, W) + 0
  BY <1>6, Numbers25
<1>8. ((a + b) \div Half25) * C <= Half25 - 2 * C
  BY <1>7, Few25
<1>10. \A i \in 1 .. W : s[i] \in Int
  BY <1>2, <1>3
<1> QED
  BY <1>4, <1>7, <1>8, <1>9, <1>10, Finish25

\* F25519::sub gives the difference when the subtrahend is below 2p.
LEMMA SubIs25 ==
    ASSUME NEW a \in Nat, a < Range25519, NEW b \in Nat, b < 2 * P25519
    PROVE  LET r == Sub25519(a, b)
           IN r \in Nat /\ r < 2 * P25519 /\ Same(r, a - b, P25519)
<1> DEFINE W == Words25519
           B == Base25519
           u == Words25(a)
           v == Words25(b)
           s == [i \in 1 .. W |-> (u[i] - v[i]) + (IF i < W THEN B * (B - 1) ELSE 0)]
           carry == B - 2 * C
           d == [i \in 1 .. W |-> u[i] - v[i]]
           f == [i \in 1 .. W |-> B - 1]
           q == Pow(B, W - 1)
<1>0. b < Range25519
  BY Numbers25, Sizes25
<1>1. Digits(u, B, W) /\ Val(u, B, W) = a /\ Digits(v, B, W) /\ Val(v, B, W) = b
  BY <1>0, Words25Are
<1>2. \A i \in 1 .. W : u[i] \in Int /\ v[i] \in Int
  BY <1>1 DEF Digits
<1>3. /\ s = [i \in 1 .. W |-> s[i]]
      /\ \A i \in 1 .. W : s[i] = d[i] + (IF i < W THEN B * (B - 1) ELSE 0)
  OBVIOUS
<1>4. (\A i \in 1 .. W : d[i] = u[i] - v[i]) /\ \A i \in 1 .. W : f[i] = B - 1
  OBVIOUS
<1>5. Sub25519(a, b) = Number25(ReduceSingle(Ripple25(s, carry).words, Ripple25(s, carry).carry))
  BY DEF Sub25519
<1> HIDE DEF s, u, v, d, f
<1>6. IsSeq(s) /\ Len(s) = W
  BY <1>3, Sizes25, FunctionSeq
<1>7. Linear(d, u, v, -1, W) /\ \A i \in 1 .. W : d[i] \in Int
  BY <1>2, <1>4 DEF Linear
<1>8. Val(d, B, W) = a + (-1) * b
  BY <1>1, <1>7, Sizes25, ValLinear
<1>9. W - 1 \in Nat /\ (W - 1) + 1 = W /\ B \in Nat /\ B # 0 /\ W \in 1 .. W
  BY Sizes25
<1>10. Val(f, B, W - 1) = q - 1
  <2>1. \A i \in 1 .. W - 1 : f[i] = B - 1
    BY <1>4, <1>9
  <2> QED
    BY <1>9, <2>1, ValFull
<1>11. Val(s, B, W - 1) = Val(d, B, W - 1) + B * (q - 1)
  <2>1. Linear(s, d, f, B, W - 1)
    <3> SUFFICES ASSUME NEW i \in 1 .. W - 1
                 PROVE  d[i] \in Int /\ f[i] \in Int /\ s[i] = d[i] + B * f[i]
      BY DEF Linear
    <3>1. i \in 1 .. W /\ i < W
      BY <1>9
    <3>2. f[i] = B - 1 /\ s[i] = d[i] + B * (B - 1) /\ d[i] = u[i] - v[i]
      BY <1>3, <1>4, <3>1
    <3>3. u[i] \in Int /\ v[i] \in Int
      BY <1>2, <3>1
    <3> QED
      BY <1>9, <3>2, <3>3
  <2>2. B \in Int
    BY <1>9
  <2>3. Val(s, B, W - 1) = Val(d, B, W - 1) + B * Val(f, B, W - 1)
    BY <1>9, <2>1, <2>2, ValLinear
  <2> QED
    BY <1>10, <2>3
<1>12. Val(s, B, W) = Val(d, B, W) + B * (q - 1)
  <2>1. Val(s, B, (W - 1) + 1) = Val(s, B, W - 1) + s[(W - 1) + 1] * q
    BY <1>9, ValFacts
  <2>2. Val(d, B, (W - 1) + 1) = Val(d, B, W - 1) + d[(W - 1) + 1] * q
    BY <1>9, ValFacts
  <2>3. d[W] \in Int
    BY <1>7, <1>9
  <2>4. s[W] = d[W]
    BY <1>3, <1>9, <2>3
  <2>5. q \in Nat
    BY <1>9, PowNat
  <2>6. Val(d, B, W - 1) \in Int
    <3>1. \A i \in 1 .. W - 1 : d[i] \in Int
      BY <1>7, <1>9
    <3> QED
      BY <1>9, <3>1, ValInt
  <2> DEFINE x == Val(s, B, W)
             y == Val(d, B, W - 1)
             g == d[W] * q
             h == B * (q - 1)
             z == Val(d, B, W)
  <2>7. x = (y + h) + g /\ z = y + g
    BY <1>9, <1>11, <2>1, <2>2, <2>4
  <2>8. y \in Int /\ g \in Int /\ h \in Int
    BY <1>9, <2>3, <2>5, <2>6
  <2> HIDE DEF x, y, z, g, h
  <2>9. x = z + h
    BY <2>7, <2>8
  <2> QED
    BY <2>9 DEF x, z, h
<1>13. B * (q - 1) + carry = 2 * P25519
  <2>1. q \in Nat
    BY <1>9, PowNat
  <2>2. B * q = 2 * Half25
    <3>1. Half25 = Top25519 * q
      BY DEF Half25
    <3> HIDE DEF q
    <3>2. (2 * Top25519) * q = 2 * (Top25519 * q)
      BY <2>1, Sizes25
    <3> QED
      BY <3>1, <3>2, Sizes25
  <2> HIDE DEF q
  <2>3. B * (q - 1) = B * q - B
    BY <1>9, <2>1
  <2> QED
    BY <1>9, <2>2, <2>3, Numbers25, Sizes25
<1> DEFINE z == (a - b) + 2 * P25519
<1>14. z \in Nat /\ z < 4 * Half25
  BY Numbers25, Sizes25
<1>15. z = Val(s, B, W) + carry
  <2> DEFINE h == B * (q - 1)
  <2>1. q \in Nat
    BY <1>9, PowNat
  <2>2. h \in Int /\ carry \in Int
    <3> HIDE DEF q
    <3>1. h \in Int
      BY <1>9, <2>1
    <3> QED
      BY <1>9, <3>1, Sizes25
  <2>3. Val(s, B, W) = (a + (-1) * b) + h /\ h + carry = 2 * P25519
    BY <1>8, <1>12, <1>13
  <2> HIDE DEF h, carry
  <2> QED
    BY <2>2, <2>3, Numbers25
<1>16. (z \div Half25) * C <= Half25 - 2 * C
  BY <1>14, Few25
<1>17. carry \in Int
  BY <1>9, Sizes25
<1>18. \A i \in 1 .. W : s[i] \in Int
  <2> TAKE i \in 1 .. W
  <2>1. d[i] \in Int /\ B * (B - 1) \in Int
    BY <1>7, <1>9
  <2> QED
    BY <1>3, <2>1
<1> HIDE DEF z, carry
<1>19. Sub25519(a, b) \in Nat /\ Sub25519(a, b) < 2 * P25519 /\ Same(Sub25519(a, b), z, P25519)
  BY <1>5, <1>6, <1>14, <1>15, <1>16, <1>17, <1>18, Finish25
<1>20. Same(z, a - b, P25519)
  BY DEF Same, z
<1>21. Same(Sub25519(a, b), a - b, P25519)
  BY <1>14, <1>19, <1>20, Numbers25, SameTrans
<1> QED
  BY <1>19, <1>21

\* The columns of a product: a row for each word u[j], of which Columns takes
\* the first m.
Column(u, rows, i, M) == [j \in 1 .. M |-> u[j] * rows[j][i]]

\* The sums of the first m products in each of n columns.
Columns(u, rows, M, m, n) == [i \in 1 .. n |-> Sum(Column(u, rows, i, M), m)]

\* Row j is worth v times base^(j - 1), modulo p (p may be 0).
Row(r, n, b, v, j, p, limit) ==
    /\ \A i \in 1 .. n : r[i] \in Int
    /\ Val(r, b, n) \in Nat /\ Val(r, b, n) <= limit /\ Same(Val(r, b, n), v * Pow(b, j - 1), p)

\* One more word of the first factor adds its multiple of a row.
LEMMA ColumnsStep ==
    ASSUME NEW u, NEW rows, NEW M \in Nat, NEW m \in Nat, m + 1 <= M, NEW n \in Nat,
           \A i \in 1 .. n : Columns(u, rows, M, m, n)[i] \in Int /\ rows[m + 1][i] \in Int
    PROVE  Linear(Columns(u, rows, M, m + 1, n), Columns(u, rows, M, m, n), rows[m + 1], u[m + 1], n)
<1>1. ASSUME NEW i \in 1 .. n
      PROVE  Columns(u, rows, M, m + 1, n)[i]
               = Columns(u, rows, M, m, n)[i] + u[m + 1] * rows[m + 1][i]
  <2> DEFINE s == Column(u, rows, i, M)
  <2>1. Columns(u, rows, M, m + 1, n)[i] = Sum(s, m + 1) /\ Columns(u, rows, M, m, n)[i] = Sum(s, m)
    BY DEF Columns
  <2>2. s[m + 1] = u[m + 1] * rows[m + 1][i]
    BY DEF Column
  <2> HIDE DEF s
  <2>3. Sum(s, m + 1) = Sum(s, m) + s[m + 1]
    BY SumFacts
  <2> QED
    BY <2>1, <2>2, <2>3
<1> QED
  BY <1>1 DEF Linear

\* Without a word there is nothing in the columns.
LEMMA ColumnsZero ==
    ASSUME NEW u, NEW rows, NEW M, NEW n \in Nat
    PROVE  \A i \in 1 .. n : Columns(u, rows, M, 0, n)[i] = 0
<1> TAKE i \in 1 .. n
<1> DEFINE s == Column(u, rows, i, M)
<1>1. Columns(u, rows, M, 0, n)[i] = Sum(s, 0)
  BY DEF Columns
<1> HIDE DEF s
<1>2. Sum(s, 0) = 0
  BY SumFacts
<1> QED
  BY <1>1, <1>2

\* One row more in the sum of the columns.
LEMMA RowAdded ==
    ASSUME NEW p \in Nat, NEW v \in Nat, NEW b \in Nat, b # 0, NEW d \in Nat, d < b, NEW q \in Nat,
           NEW r \in Nat, NEW limit \in Nat, r <= limit, Same(r, v * q, p),
           NEW x \in Nat, NEW m \in Nat, x <= m * (b - 1) * limit,
           NEW y \in Nat, Same(x, y * v, p)
    PROVE  /\ x + d * r \in Nat /\ x + d * r <= (m + 1) * (b - 1) * limit
           /\ Same(x + d * r, (y + d * q) * v, p)
<1>1. x + d * r \in Nat
  OBVIOUS
<1>2. x + d * r <= (m + 1) * (b - 1) * limit
  <2>1. d * r <= (b - 1) * limit
    <3>1. d * r <= d * limit /\ d * limit <= (b - 1) * limit
      OBVIOUS
    <3>2. d * r \in Nat /\ d * limit \in Nat /\ (b - 1) * limit \in Nat
      OBVIOUS
    <3> DEFINE e == d * r
               f == d * limit
               g == (b - 1) * limit
    <3> HIDE DEF e, f, g
    <3>3. e <= g
      BY <3>1, <3>2 DEF e, f, g
    <3> QED
      BY <3>3 DEF e, g
  <2>2. (m + 1) * (b - 1) * limit = m * (b - 1) * limit + (b - 1) * limit
    OBVIOUS
  <2> DEFINE e == d * r
             f == (b - 1) * limit
             g == m * (b - 1) * limit
  <2>3. e \in Int /\ f \in Int /\ g \in Int
    OBVIOUS
  <2> HIDE DEF e, f, g
  <2>4. x + e <= g + f
    BY <2>1, <2>3 DEF e, f, g
  <2> QED
    BY <2>2, <2>4 DEF e, f, g
<1>3. Same(d, d, p)
  BY SameSelf
<1>4. Same(d * r, d * (v * q), p)
  <2> DEFINE w == v * q
  <2>1. w \in Int /\ Same(r, w, p)
    OBVIOUS
  <2> HIDE DEF w
  <2>2. Same(d * r, d * w, p)
    BY <1>3, <2>1, SameProduct
  <2> QED
    BY <2>2 DEF w
<1>5. Same(x + d * r, y * v + d * (v * q), p)
  <2> DEFINE e == d * r
             f == y * v
             g == d * (v * q)
  <2>1. e \in Int /\ f \in Int /\ g \in Int
    OBVIOUS
  <2> HIDE DEF e, f, g
  <2>2. Same(x + e, f + g, p)
    BY <1>4, <2>1, SameSum DEF e, f, g
  <2> QED
    BY <2>2 DEF e, f, g
<1>6. y * v + d * (v * q) = (y + d * q) * v
  OBVIOUS
<1> QED
  BY <1>1, <1>2, <1>5, <1>6

\* The columns together are the product, congruent or equal as the rows are.
LEMMA ColumnsAre ==
    ASSUME NEW M \in Nat, NEW n \in Nat, NEW b, BaseOK(b), NEW u,
           \A j \in 1 .. M : u[j] \in Nat /\ u[j] < b,
           NEW v \in Nat, NEW p \in Nat, NEW limit \in Nat, NEW rows,
           \A j \in 1 .. M : Row(rows[j], n, b, v, j, p, limit)
    PROVE  LET c == Columns(u, rows, M, M, n)
           IN /\ \A i \in 1 .. n : c[i] \in Int
              /\ Val(c, b, n) \in Nat /\ Val(c, b, n) <= M * (b - 1) * limit
              /\ Same(Val(c, b, n), Val(u, b, M) * v, p)
<1> DEFINE c(m) == Columns(u, rows, M, m, n)
           Good(m) == /\ \A i \in 1 .. n : c(m)[i] \in Int
                      /\ Val(c(m), b, n) \in Nat /\ Val(c(m), b, n) <= m * (b - 1) * limit
                      /\ Val(u, b, m) \in Nat /\ Same(Val(c(m), b, n), Val(u, b, m) * v, p)
           T == {m \in Nat : m <= M => Good(m)}
<1>0. b \in Nat /\ b # 0
  BY DEF BaseOK
<1>1. 0 \in T
  <2>1. \A i \in 1 .. n : c(0)[i] = 0
    BY ColumnsZero
  <2> HIDE DEF c
  <2>2. Val(c(0), b, n) = 0
    BY <2>1, ValZero
  <2>3. Val(u, b, 0) = 0
    BY ValFacts
  <2>4. Same(0, 0, p)
    BY SameSelf
  <2>5. 0 * v = 0 /\ 0 * (b - 1) * limit = 0
    BY <1>0
  <2>6. Same(Val(c(0), b, n), Val(u, b, 0) * v, p)
    BY <2>2, <2>3, <2>4, <2>5
  <2>7. \A i \in 1 .. n : c(0)[i] \in Int
    BY <2>1
  <2>8. Val(c(0), b, n) \in Nat /\ Val(c(0), b, n) <= 0 * (b - 1) * limit /\ Val(u, b, 0) \in Nat
    BY <2>2, <2>3, <2>5
  <2> QED
    BY <2>6, <2>7, <2>8
<1>2. ASSUME NEW m \in Nat, m \in T PROVE m + 1 \in T
  <2> SUFFICES ASSUME m + 1 <= M PROVE Good(m + 1)
    OBVIOUS
  <2> DEFINE x == Val(c(m), b, n)
             y == Val(u, b, m)
             d == u[m + 1]
             r == Val(rows[m + 1], b, n)
             q == Pow(b, m)
  <2>1. /\ \A i \in 1 .. n : c(m)[i] \in Int
        /\ x \in Nat /\ x <= m * (b - 1) * limit /\ y \in Nat /\ Same(x, y * v, p)
    BY <1>2
  <2>2. m + 1 \in 1 .. M /\ (m + 1) - 1 = m
    OBVIOUS
  <2>3. d \in Nat /\ d < b
    BY <2>2
  <2>4. Row(rows[m + 1], n, b, v, m + 1, p, limit)
    BY <2>2
  <2>5. /\ \A i \in 1 .. n : rows[m + 1][i] \in Int
        /\ r \in Nat /\ r <= limit /\ Same(r, v * q, p)
    BY <2>2, <2>4 DEF Row
  <2>6. Linear(c(m + 1), c(m), rows[m + 1], d, n)
    BY <2>1, <2>5, ColumnsStep
  <2> DEFINE e == c(m)
             f == c(m + 1)
             g == rows[m + 1]
  <2> HIDE DEF c
  <2> HIDE DEF e, f, g, d
  <2>7. Linear(f, e, g, d, n)
    BY <2>6 DEF e, f, g
  <2>8. Val(f, b, n) = Val(e, b, n) + d * Val(g, b, n)
    BY <1>0, <2>3, <2>7, ValLinear
  <2>9. Val(u, b, m + 1) = y + d * q
    BY ValFacts DEF d
  <2>10. q \in Nat
    BY <1>0, PowNat
  <2>11. Val(c(m + 1), b, n) = x + d * r
    BY <2>8 DEF e, f, g
  <2> HIDE DEF x, y, r, q
  <2>12. /\ x + d * r \in Nat /\ x + d * r <= (m + 1) * (b - 1) * limit
         /\ Same(x + d * r, (y + d * q) * v, p)
    BY <1>0, <2>1, <2>3, <2>5, <2>10, RowAdded
  <2>13. y + d * q \in Nat
    BY <2>1, <2>3, <2>10
  <2>14. \A i \in 1 .. n : c(m + 1)[i] \in Int
    <3> TAKE i \in 1 .. n
    <3>1. e[i] \in Int /\ g[i] \in Int /\ f[i] = e[i] + d * g[i]
      BY <2>7 DEF Linear
    <3> QED
      BY <2>3, <3>1 DEF f
  <2> QED
    BY <2>9, <2>11, <2>12, <2>13, <2>14
<1> HIDE DEF T
<1>3. M \in T
  BY <1>1, <1>2, Induction
<1> QED
  BY <1>3 DEF T

\* A quotient is bounded as the number is.
LEMMA DivAtMost ==
    ASSUME NEW z \in Nat, NEW h \in Nat, h # 0, NEW k \in Nat, z <= k * h
    PROVE  z \div h \in Nat /\ z \div h <= k
<1> DEFINE q == z \div h
<1>1. q \in Nat /\ q * h <= z
  OBVIOUS
<1> HIDE DEF q
<1>2. q <= k
  <2> SUFFICES ASSUME k + 1 <= q PROVE FALSE
    BY <1>1
  <2>1. (k + 1) * h <= q * h
    BY <1>1
  <2>2. (k + 1) * h = k * h + h
    OBVIOUS
  <2> DEFINE e == k * h
             f == q * h
             g == (k + 1) * h
  <2>3. e \in Nat /\ f \in Nat /\ g \in Nat
    BY <1>1
  <2>4. g <= f /\ g = e + h /\ f <= z /\ z <= e
    BY <1>1, <2>1, <2>2
  <2> HIDE DEF e, f, g
  <2> QED
    BY <2>3, <2>4
<1> QED
  BY <1>1, <1>2 DEF q

\* The rows of F25519::mul: each is base times the one below, modulo 2p.
LEMMA Row25Word ==
    ASSUME NEW v, NEW j \in 1 .. Words25519, NEW i \in 1 .. Words25519
    PROVE  Row25519(v, j)[i] = IF j <= i THEN v[i - j + 1] ELSE 2 * C * v[i + Words25519 - j + 1]
BY DEF Row25519

\* The places of a row of F25519::mul.
LEMMA Row25Range ==
    ASSUME NEW v, Digits(v, Base25519, Words25519), NEW j \in 1 .. Words25519
    PROVE  \A i \in 1 .. Words25519 : /\ Row25519(v, j)[i] \in Nat
                                      /\ Row25519(v, j)[i] <= (2 * C) * (Base25519 - 1)
<1> TAKE i \in 1 .. Words25519
<1>1. Words25519 \in Nat /\ C \in Nat /\ C # 0 /\ Base25519 \in Nat
  BY Sizes25
<1> DEFINE B == Base25519
           k == 2 * C
           r == Row25519(v, j)[i]
<1>2. \A l \in 1 .. Words25519 : v[l] \in Nat /\ v[l] < B
  BY DEF Digits
<1>3. k \in Nat /\ 1 <= k
  BY <1>1
<1>4. CASE j <= i
  <2> DEFINE d == v[i - j + 1]
  <2>1. i - j + 1 \in 1 .. Words25519
    BY <1>1, <1>4
  <2>2. d \in Nat /\ d < B /\ r = d
    BY <1>2, <1>4, <2>1, Row25Word
  <2> HIDE DEF d, r, k
  <2>3. d <= k * (B - 1)
    BY <1>1, <1>3, <2>2
  <2> QED
    BY <2>2, <2>3 DEF r, k
<1>5. CASE ~(j <= i)
  <2> DEFINE d == v[i + Words25519 - j + 1]
  <2>1. i + Words25519 - j + 1 \in 1 .. Words25519
    BY <1>1, <1>5
  <2>2. d \in Nat /\ d < B /\ r = k * d
    BY <1>2, <1>5, <2>1, Row25Word
  <2> HIDE DEF d, r, k
  <2>3. k * d \in Nat /\ k * d <= k * (B - 1)
    BY <1>1, <1>3, <2>2
  <2> QED
    BY <2>2, <2>3 DEF r, k
<1> QED
  BY <1>4, <1>5

\* A row of F25519::mul is the second factor at the weight of the word.
LEMMA Row25Same ==
    ASSUME NEW v, Digits(v, Base25519, Words25519), NEW j \in 1 .. Words25519
    PROVE  Same(Val(Row25519(v, j), Base25519, Words25519),
                Val(v, Base25519, Words25519) * Pow(Base25519, j - 1), P25519)
<1> DEFINE W == Words25519
           B == Base25519
           x == Val(v, B, W)
           R(i) == Val(Row25519(v, i + 1), B, W)
           T == {i \in Nat : i + 1 <= W => Same(R(i), x * Pow(B, i), P25519)}
<1>0. /\ W \in Nat /\ B \in Nat /\ B # 0 /\ P25519 \in Nat /\ C \in Nat
      /\ W - 1 \in Nat /\ (W - 1) + 1 = W
  BY Sizes25, Numbers25
<1>1. \A l \in 1 .. W : v[l] \in Nat /\ v[l] < B
  BY DEF Digits
<1>2. x \in Int
  <2>1. \A l \in 1 .. W : v[l] \in Int
    BY <1>1
  <2> QED
    BY <1>0, <2>1, ValInt
<1>3. 0 \in T
  <2> SUFFICES ASSUME 1 <= W PROVE Same(R(0), x * Pow(B, 0), P25519)
    OBVIOUS
  <2> DEFINE r == Row25519(v, 1)
  <2>1. ASSUME NEW i \in 1 .. W PROVE r[i] = v[i]
    <3>1. 1 \in 1 .. W /\ 1 <= i /\ i - 1 + 1 = i
      BY <1>0
    <3> QED
      BY <3>1, Row25Word
  <2> HIDE DEF r
  <2>2. Val(r, B, W) = x
    BY <1>0, <2>1, ValSame
  <2>3. Pow(B, 0) = 1
    BY PowFacts
  <2>4. R(0) = x /\ x * Pow(B, 0) = x
    BY <1>2, <2>2, <2>3 DEF r
  <2> QED
    BY <1>0, <1>2, <2>4, SameSelf
<1>4. ASSUME NEW i \in Nat, i \in T PROVE i + 1 \in T
  <2> SUFFICES ASSUME (i + 1) + 1 <= W PROVE Same(R(i + 1), x * Pow(B, i + 1), P25519)
    OBVIOUS
  <2>0. i + 1 \in 1 .. W /\ i + 2 \in 1 .. W /\ (i + 1) + 1 = i + 2
    BY <1>0
  <2> DEFINE s == Row25519(v, i + 1)
             t == Row25519(v, i + 2)
             q == Pow(B, W - 1)
             e == v[W - i]
             y == Val(s, B, W)
             z == Val(s, B, W - 1)
             k == 2 * C
  <2>1. \A l \in 1 .. W : s[l] \in Int /\ t[l] \in Int
    <3>1. \A l \in 1 .. W : s[l] \in Nat /\ t[l] \in Nat
      BY <2>0, Row25Range
    <3> QED
      BY <3>1
  <2>2. e \in Nat
    <3>1. W - i \in 1 .. W
      BY <1>0
    <3> QED
      BY <1>1, <3>1
  <2>3. s[W] = e
    <3>1. W \in 1 .. W /\ i + 1 <= W /\ W - (i + 1) + 1 = W - i
      BY <1>0
    <3> QED
      BY <2>0, <3>1, Row25Word
  <2>4. t[1] = k * e
    <3>1. 1 \in 1 .. W /\ ~(i + 2 <= 1) /\ 1 + W - (i + 2) + 1 = W - i
      BY <1>0
    <3> QED
      BY <2>0, <3>1, Row25Word
  <2>5. ASSUME NEW l \in 1 .. W - 1 PROVE t[l + 1] = s[l]
    <3>1. l \in 1 .. W /\ l + 1 \in 1 .. W
      BY <1>0
    <3>2. CASE i + 1 <= l
      <4>1. i + 2 <= l + 1 /\ (l + 1) - (i + 2) + 1 = l - (i + 1) + 1
        BY <1>0, <3>2
      <4> QED
        BY <2>0, <3>1, <3>2, <4>1, Row25Word
    <3>3. CASE ~(i + 1 <= l)
      <4>1. ~(i + 2 <= l + 1) /\ (l + 1) + W - (i + 2) + 1 = l + W - (i + 1) + 1
        BY <1>0, <3>3
      <4> QED
        BY <2>0, <3>1, <3>3, <4>1, Row25Word
    <3> QED
      BY <3>2, <3>3
  <2> HIDE DEF s, t
  <2>6. Val(t, B, (W - 1) + 1) = t[1] + B * z
    <3>1. t[1] \in Int
      BY <1>0, <2>1
    <3>2. \A l \in 1 .. W - 1 : s[l] \in Int /\ t[l + 1] = s[l]
      BY <1>0, <2>1, <2>5
    <3> QED
      BY <1>0, <3>1, <3>2, ValShift
  <2>7. y = z + e * q
    <3>1. Val(s, B, (W - 1) + 1) = z + s[(W - 1) + 1] * q
      BY <1>0, ValFacts
    <3> QED
      BY <1>0, <2>3, <3>1
  <2>8. z \in Int /\ q \in Nat
    <3>1. \A l \in 1 .. W - 1 : s[l] \in Int
      BY <1>0, <2>1
    <3> QED
      BY <1>0, <3>1, ValInt, PowNat
  <2>9. B * q = 2 * P25519 + k
    <3>1. Pow(B, (W - 1) + 1) = q * B
      BY <1>0, PowFacts
    <3>2. Range25519 = q * B
      BY <1>0, <3>1, Numbers25
    <3>3. Range25519 = 2 * P25519 + k /\ q * B = B * q
      BY <1>0, <2>8, Numbers25, Sizes25
    <3> QED
      BY <3>2, <3>3
  <2>10. Val(t, B, W) = k * e + B * z
    BY <1>0, <2>4, <2>6
  <2> HIDE DEF e, y, z, q
  <2>11. Val(t, B, W) = B * y + (-2 * e) * P25519
    <3>1. B * y = B * z + e * (B * q)
      BY <1>0, <2>2, <2>7, <2>8
    <3>2. e * (B * q) = e * (2 * P25519) + e * k
      BY <1>0, <2>2, <2>9
    <3> DEFINE f == B * y
               g == B * z
               h == e * (B * q)
               a == e * (2 * P25519)
               c == e * k
               d == (-2 * e) * P25519
    <3>3. g \in Int /\ a \in Int /\ c \in Int /\ c = k * e /\ d = -a
      BY <1>0, <2>2, <2>8
    <3>4. f = g + h /\ h = a + c
      BY <3>1, <3>2
    <3> HIDE DEF f, g, h, a, c, d
    <3>5. c + g = f + d
      BY <3>3, <3>4
    <3> QED
      BY <2>10, <3>3, <3>5 DEF f, g, d
  <2>12. y \in Int
    BY <2>2, <2>7, <2>8
  <2>13. Same(Val(t, B, W), B * y, P25519)
    <3>1. -2 * e \in Int
      BY <2>2
    <3> QED
      BY <2>11, <3>1 DEF Same
  <2> DEFINE w == Pow(B, i)
             g == x * w
  <2>14. w \in Nat /\ Pow(B, i + 1) = w * B
    BY <1>0, PowNat, PowFacts
  <2>15. Same(y, g, P25519)
    BY <1>4, <2>0 DEF y, s
  <2> HIDE DEF w, x
  <2>16. g \in Int /\ B * g = x * (w * B)
    BY <1>0, <1>2, <2>14
  <2> HIDE DEF g
  <2>17. Same(B * y, B * g, P25519)
    <3>1. Same(B, B, P25519)
      BY <1>0, SameSelf
    <3> QED
      BY <1>0, <2>12, <2>15, <2>16, <3>1, SameProduct
  <2>18. Val(t, B, W) \in Int /\ B * y \in Int /\ B * g \in Int
    <3>1. Val(t, B, W) \in Int
      BY <1>0, <2>1, ValInt
    <3> QED
      BY <1>0, <2>12, <2>16, <3>1
  <2>19. Same(Val(t, B, W), B * g, P25519)
    BY <1>0, <2>13, <2>17, <2>18, SameTrans
  <2> QED
    BY <2>0, <2>14, <2>16, <2>19 DEF t
<1> HIDE DEF T
<1>5. j - 1 \in Nat /\ (j - 1) + 1 = j /\ j <= W
  BY <1>0
<1>6. j - 1 \in T
  BY <1>3, <1>4, <1>5, Induction
<1> QED
  BY <1>5, <1>6 DEF T

\* F25519::mul gives the product, reduced below 2p, of any two words.
LEMMA MulIs25 ==
    ASSUME NEW a \in Nat, a < Range25519, NEW b \in Nat, b < Range25519
    PROVE  LET r == Mul25519(a, b)
           IN r \in Nat /\ r < 2 * P25519 /\ Same(r, a * b, P25519)
<1> DEFINE W == Words25519
           B == Base25519
           N == Range25519
           u == Words25(a)
           v == Words25(b)
           rows == [j \in 1 .. W |-> Row25519(v, j)]
           s == Columns(u, rows, W, W, W)
           limit == (2 * C) * (N - 1)
<1>1. Digits(u, B, W) /\ Val(u, B, W) = a /\ Digits(v, B, W) /\ Val(v, B, W) = b
  BY Words25Are
<1>2. /\ W \in Nat /\ B \in Nat /\ B # 0 /\ BaseOK(B) /\ C \in Nat /\ N \in Nat /\ N # 0
      /\ P25519 \in Nat /\ N = Pow(B, W)
  BY Sizes25, Numbers25
<1>3. limit \in Nat
  BY <1>2
<1>4. ASSUME NEW j \in 1 .. W PROVE Row(rows[j], W, B, b, j, P25519, limit)
  <2> DEFINE r == rows[j]
  <2>1. r = Row25519(v, j)
    OBVIOUS
  <2> HIDE DEF u, v, rows
  <2> HIDE DEF r
  <2>2. \A i \in 1 .. W : r[i] \in Nat /\ r[i] <= (2 * C) * (B - 1)
    BY <1>1, <2>1, Row25Range
  <2>3. Val(r, B, W) \in Nat /\ Val(r, B, W) <= limit
    <3> DEFINE k == 2 * C
    <3>1. k \in Nat /\ \A i \in 1 .. W : r[i] \in Nat /\ r[i] <= k * (B - 1)
      BY <1>2, <2>2
    <3> HIDE DEF k
    <3>2. Val(r, B, W) \in Nat /\ Val(r, B, W) <= k * (N - 1)
      BY <1>2, <3>1, ValBound
    <3> QED
      BY <3>2 DEF k
  <2>4. Same(Val(r, B, W), b * Pow(B, j - 1), P25519)
    BY <1>1, <2>1, Row25Same
  <2>5. \A i \in 1 .. W : r[i] \in Int
    BY <2>2
  <2> QED
    BY <2>3, <2>4, <2>5 DEF Row, r
<1>5. Mul25519(a, b) = Number25(ReduceSingle(Ripple25(s, 0).words, Ripple25(s, 0).carry))
  <2> DEFINE c(i) == Sum([j \in 1 .. W |-> u[j] * Row25519(v, j)[i]], W)
             m == [i \in 1 .. W |-> c(i)]
  <2>1. ASSUME NEW i \in 1 .. W PROVE Column(u, rows, i, W) =
            [j \in 1 .. W |-> u[j] * Row25519(v, j)[i]]
    BY DEF Column
  <2>2. s = m
    BY <2>1 DEF Columns
  <2>3. Mul25519(a, b) = Number25(ReduceSingle(Ripple25(m, 0).words, Ripple25(m, 0).carry))
    BY DEF Mul25519
  <2> HIDE DEF s, m
  <2> QED
    BY <2>2, <2>3
<1> HIDE DEF u, v, rows, limit
<1>6. \A j \in 1 .. W : u[j] \in Nat /\ u[j] < B
  BY <1>1 DEF Digits
<1>7. /\ \A i \in 1 .. W : s[i] \in Int
      /\ Val(s, B, W) \in Nat /\ Val(s, B, W) <= W * (B - 1) * limit
      /\ Same(Val(s, B, W), a * b, P25519)
  BY <1>1, <1>2, <1>3, <1>4, <1>6, ColumnsAre
<1>8. s = [i \in 1 .. W |-> s[i]]
  BY DEF Columns
<1> DEFINE z == Val(s, B, W)
<1> HIDE DEF s
<1>9. IsSeq(s) /\ Len(s) = W
  BY <1>2, <1>8, FunctionSeq
<1>10. z \in Nat /\ z = Val(s, B, W) + 0 /\ z <= W * (B - 1) * limit
  BY <1>7
<1> HIDE DEF z
<1>11. (z \div Half25) * C <= Half25 - 2 * C
  <2> DEFINE H == Half25
             m == C * (W * B)
             k == 4 * m
  <2>1. H \in Nat /\ H # 0 /\ N = 2 * H
    BY Numbers25, Sizes25
  <2>2. W * B \in Nat
    BY <1>2
  <2>3. m \in Nat /\ k \in Nat
    BY <1>2, <2>2
  <2>4. W * (B - 1) * limit <= k * H
    <3> DEFINE e == W * (B - 1)
               f == W * B
               g == (2 * C) * N
    <3>1. e \in Nat /\ f \in Nat /\ e <= f /\ g \in Nat /\ limit <= g /\ limit \in Nat
      <4>1. e \in Nat /\ f \in Nat /\ e <= f /\ g \in Nat
        BY <1>2
      <4>2. (2 * C) * (N - 1) <= (2 * C) * N
        BY <1>2
      <4> QED
        BY <1>3, <4>1, <4>2 DEF limit
    <3>2. f * g = k * H
      <4>1. g = (2 * C) * (2 * H)
        BY <2>1
      <4>2. f * ((2 * C) * (2 * H)) = (4 * (C * f)) * H
        <5> HIDE DEF f, H
        <5> QED
          BY <1>2, <2>1, <3>1
      <4> QED
        BY <4>1, <4>2
    <3> HIDE DEF e, f, g, k
    <3>3. e * limit <= f * g
      <4>1. e * limit <= f * limit
        BY <3>1
      <4>2. f * limit <= f * g
        BY <3>1
      <4>3. e * limit \in Int /\ f * limit \in Int /\ f * g \in Int
        BY <3>1
      <4> QED
        BY <4>1, <4>2, <4>3
    <3> QED
      BY <3>2, <3>3 DEF e
  <2>5. z <= k * H
    <3> DEFINE e == W * (B - 1) * limit
               f == k * H
    <3>1. e \in Int /\ f \in Int
      BY <1>2, <1>3, <2>1, <2>3
    <3> HIDE DEF e, f
    <3>2. z <= e /\ e <= f
      BY <1>10, <2>4 DEF e, f
    <3>3. z <= f
      BY <1>10, <3>1, <3>2
    <3> QED
      BY <3>3 DEF f
  <2> HIDE DEF k
  <2>6. z \div H \in Nat /\ z \div H <= k
    BY <1>10, <2>1, <2>3, <2>5, DivAtMost
  <2>7. k * C = 4 * C * C * Words25519 * Base25519
    <3>1. k * C = (4 * (C * (W * B))) * C
      BY DEF k
    <3> HIDE DEF W, B
    <3>2. (4 * (C * (W * B))) * C = 4 * C * C * W * B
      BY <1>2
    <3> QED
      BY <3>1, <3>2 DEF W, B
  <2>8. k * C + 4 * C <= H /\ k * C \in Nat
    BY <1>2, <2>3, <2>7, Numbers25
  <2> DEFINE l == z \div H
  <2> HIDE DEF l
  <2>9. l * C <= k * C /\ l * C \in Nat
    BY <1>2, <2>3, <2>6 DEF l
  <2>10. l * C <= H - 2 * C
    <3> DEFINE e == l * C
               f == k * C
    <3> HIDE DEF e, f
    <3>1. e <= H - 2 * C
      BY <1>2, <2>1, <2>8, <2>9 DEF e, f
    <3> QED
      BY <3>1 DEF e
  <2> QED
    BY <2>10 DEF l
<1>12. /\ Mul25519(a, b) \in Nat /\ Mul25519(a, b) < 2 * P25519
       /\ Same(Mul25519(a, b), z, P25519)
  <2>1. 0 \in Int
    OBVIOUS
  <2> QED
    BY <1>5, <1>7, <1>9, <1>10, <1>11, <2>1, Finish25
<1>13. Same(z, a * b, P25519)
  BY <1>7 DEF z
<1>14. Same(Mul25519(a, b), a * b, P25519)
  <2>1. a * b \in Int
    OBVIOUS
  <2> QED
    BY <1>2, <1>10, <1>12, <1>13, <2>1, SameTrans
<1> QED
  BY <1>12, <1>14

\* Adding C and taking the top bit away subtracts p.
LEMMA NormalizeIs25 ==
    ASSUME NEW v \in Nat, v < Range25519
    PROVE  Normalize25519(v) = v % P25519
<1> DEFINE W == Words25519
           B == Base25519
           H == Half25
           T == Top25519
           y == ReduceSingle(Words25(v), 0)
           Y == Number25(y)
           low == Ripple25(SubSeq(y, 1, W - 1), C)
           high == low.carry + y[W] - T
           q == Pow(B, W - 1)
<1>1. /\ W \in Nat /\ W - 1 \in Nat /\ (W - 1) + 1 = W /\ W \in 1 .. W
      /\ B \in Nat /\ B # 0 /\ BaseOK(B) /\ B = 2 * T /\ T \in Nat /\ T # 0 /\ C \in Nat
      /\ H \in Nat /\ H # 0 /\ 12 * C <= H /\ Range25519 = 2 * H
      /\ P25519 \in Nat /\ P25519 # 0 /\ P25519 = H - C
  BY Sizes25, Numbers25
<1>2. Digits(Words25(v), B, W) /\ Val(Words25(v), B, W) = v
  BY Words25Are
<1>3. Digits(y, B, W) /\ Y \in Nat /\ Y < 2 * P25519 /\ Same(Y, v, P25519)
  <2>1. (v \div H) * C <= H - 2 * C
    <3>1. v < 4 * Half25
      BY <1>1
    <3> QED
      BY <3>1, Few25
  <2>2. v = Val(Words25(v), B, W) + 0 * Range25519 /\ 0 \in Nat
    BY <1>1, <1>2
  <2> QED
    BY <1>2, <2>1, <2>2, ReduceSingleIs
<1>4. Normalize25519(v) = IF high < 0 THEN Y ELSE Number25(Append(low.words, high % B))
  BY DEF Normalize25519
<1> HIDE DEF y
<1>5. IsSeq(y) /\ Len(y) = W /\ \A i \in 1 .. W : y[i] \in Nat /\ y[i] < B
  BY <1>3 DEF Digits
<1> DEFINE f == SubSeq(y, 1, W - 1)
           x == Val(y, B, W - 1)
<1>6. IsSeq(f) /\ Len(f) = W - 1 /\ \A i \in 1 .. W - 1 : f[i] = y[i]
  BY <1>1, FrontFacts
<1> HIDE DEF f
<1>7. Val(f, B, W - 1) = x /\ \A i \in 1 .. W - 1 : f[i] \in Int
  <2>1. \A i \in 1 .. W - 1 : y[i] \in Int
    BY <1>1, <1>5
  <2> QED
    BY <1>1, <1>6, <2>1, ValSame
<1>8. /\ Digits(low.words, B, W - 1) /\ low.carry \in Int
      /\ x + C = Val(low.words, B, W - 1) + low.carry * q
  <2>1. BaseOK(B) /\ W - 1 \in Nat /\ C \in Int
    BY <1>1
  <2>2. low = Rippled(f, C, B)
    BY DEF f, Ripple25
  <2> HIDE DEF low
  <2>3. /\ Digits(low.words, B, W - 1) /\ low.carry \in Int
        /\ Val(f, B, W - 1) + C = Val(low.words, B, W - 1) + low.carry * Pow(B, W - 1)
    BY <1>6, <1>7, <2>1, <2>2, RippleFacts
  <2> QED
    BY <1>7, <2>3
<1>9. Val(low.words, B, W - 1) \in Nat /\ Val(low.words, B, W - 1) < q
  BY <1>1, <1>8, ValRange DEF Digits
<1>10. Y = x + y[W] * q
  <2>1. Y = Val(y, B, W)
    BY <1>5, NumberIs DEF Number25
  <2>2. Val(y, B, (W - 1) + 1) = x + y[(W - 1) + 1] * q
    BY <1>1, ValFacts
  <2> QED
    BY <1>1, <2>1, <2>2
<1>11. H = T * q /\ q \in Nat /\ q # 0
  BY <1>1, PowNat DEF Half25
<1>12. x \in Int
  <2>1. \A i \in 1 .. W - 1 : y[i] \in Int
    BY <1>1, <1>5
  <2> QED
    BY <1>1, <2>1, ValInt
<1>13. y[W] \in Nat
  BY <1>1, <1>5
<1> DEFINE l == Val(low.words, B, W - 1)
           c == low.carry
           e == y[W]
<1>14. high = c + e - T /\ high \in Int
  BY <1>1, <1>8, <1>13
<1> HIDE DEF low, high, x, q, l, c, e, Y
<1>15. Y - P25519 = l + high * q
  <2>1. high * q = c * q + e * q - T * q
    BY <1>1, <1>8, <1>11, <1>13, <1>14 DEF c, e
  <2> DEFINE g == c * q
             h == e * q
             i == T * q
             j == high * q
  <2>2. g \in Int /\ h \in Int /\ i \in Int /\ j \in Int
    BY <1>1, <1>8, <1>11, <1>13, <1>14 DEF c, e
  <2>3. j = g + h - i /\ x + C = l + g /\ Y = x + h /\ H = i
    BY <1>8, <1>10, <1>11, <2>1 DEF l, c, e
  <2>5. x \in Int /\ C \in Int /\ Y \in Int /\ l \in Int /\ P25519 = H - C /\ H \in Int
    BY <1>1, <1>3, <1>9, <1>12 DEF l, Y
  <2> HIDE DEF g, h, i, j, H
  <2>4. Y - P25519 = l + j
    BY <2>2, <2>3, <2>5
  <2> QED
    BY <2>4 DEF j
<1>16. l \in Nat /\ l < q /\ Y \in Nat /\ Y < 2 * P25519 /\ Same(Y, v, P25519)
  BY <1>3, <1>9 DEF l
<1>19. P25519 \in Nat /\ P25519 # 0 /\ v \in Int
  BY <1>1
<1>17. CASE high < 0
  <2>1. Y < P25519
    <3>1. high * q <= -q
      BY <1>11, <1>14, <1>17
    <3>2. high * q \in Int
      BY <1>11, <1>14
    <3> DEFINE j == high * q
    <3> HIDE DEF j
    <3>3. j <= -q /\ Y - P25519 = l + j /\ j \in Int
      BY <1>15, <3>1, <3>2 DEF j
    <3> QED
      BY <1>1, <1>11, <1>16, <3>3
  <2>2. v % P25519 = Y
    <3>1. Same(v, Y, P25519)
      <4>1. PICK k \in Int : Y = v + k * P25519
        BY <1>16 DEF Same
      <4>2. v = Y + (-k) * P25519 /\ -k \in Int
        BY <1>1, <1>16, <4>1
      <4> QED
        BY <4>2 DEF Same
    <3> QED
      BY <1>16, <1>19, <2>1, <3>1, ModIs
  <2> QED
    BY <1>4, <1>17, <2>2
<1>18. CASE ~(high < 0)
  <2> DEFINE j == high * q
  <2>1. j \in Nat
    BY <1>11, <1>14, <1>18
  <2>2. Y - P25519 = l + j
    BY <1>15
  <2>3. high < B
    <3> SUFFICES ASSUME B <= high PROVE FALSE
      BY <1>1, <1>14
    <3>1. B * q <= high * q
      BY <1>1, <1>11, <1>14
    <3>2. B * q = 2 * H
      <4>1. (2 * T) * q = 2 * (T * q)
        BY <1>1, <1>11
      <4> QED
        BY <1>1, <1>11, <4>1
    <3> HIDE DEF j
    <3>3. 2 * H <= j
      BY <3>1, <3>2 DEF j
    <3> QED
      BY <1>1, <1>16, <2>1, <2>2, <3>3
  <2>4. high % B = high
    <3>1. high \in Nat /\ high < B
      BY <1>14, <1>18, <2>3
    <3> QED
      BY <1>1, <3>1
  <2> DEFINE w == Append(low.words, high)
  <2>5. IsSeq(low.words) /\ Len(low.words) = W - 1
    BY <1>8 DEF Digits
  <2>6. /\ IsSeq(w) /\ Len(w) = (W - 1) + 1
        /\ \A i \in 1 .. W - 1 : w[i] = low.words[i]
        /\ w[(W - 1) + 1] = high
    BY <2>5, AppendFacts
  <2> HIDE DEF w
  <2>7. Number25(w) = l + high * q
    <3>1. Number25(w) = Val(w, B, (W - 1) + 1)
      BY <2>6, NumberIs DEF Number25
    <3>2. Val(w, B, (W - 1) + 1) = Val(w, B, W - 1) + w[(W - 1) + 1] * q
      BY <1>1, ValFacts DEF q
    <3>3. Val(w, B, W - 1) = l
      BY <1>1, <2>6, ValSame DEF l
    <3> QED
      BY <2>6, <3>1, <3>2, <3>3
  <2>8. Normalize25519(v) = Y - P25519
    BY <1>4, <1>15, <1>18, <2>4, <2>7 DEF w
  <2>9. v % P25519 = Y - P25519
    <3> DEFINE r == Y - P25519
    <3>1. r \in Nat /\ r < P25519
      <4> HIDE DEF j
      <4> QED
        BY <1>1, <1>16, <2>1, <2>2
    <3>2. Same(v, r, P25519)
      <4>1. PICK k \in Int : Y = v + k * P25519
        BY <1>16 DEF Same
      <4>2. v = r + (1 - k) * P25519 /\ 1 - k \in Int
        BY <1>1, <1>16, <4>1
      <4> QED
        BY <4>2 DEF Same
    <3> HIDE DEF r
    <3>3. v % P25519 = r
      BY <1>19, <3>1, <3>2, ModIs
    <3> QED
      BY <3>3 DEF r
  <2> QED
    BY <2>8, <2>9
<1> QED
  BY <1>17, <1>18

-----------------------------------------------------------------------------
(* Parts of words.                                                         *)

\* What digits are, as facts of their own.
LEMMA DigitsInt ==
    ASSUME NEW w, NEW b, NEW n \in Nat, Digits(w, b, n)
    PROVE  /\ IsSeq(w) /\ Len(w) = n
           /\ \A i \in 1 .. n : w[i] \in Nat /\ w[i] < b
           /\ \A i \in 1 .. n : w[i] \in Int
BY DEF Digits

\* The value of digits is in range.
LEMMA DigitsRange ==
    ASSUME NEW w, NEW b, BaseOK(b), NEW n \in Nat, Digits(w, b, n)
    PROVE  Val(w, b, n) \in Nat /\ Val(w, b, n) < Pow(b, n)
BY ValRange DEF Digits

\* NumberOf digits is their value.
LEMMA DigitsNumber ==
    ASSUME NEW w, NEW b, NEW n \in Nat, Digits(w, b, n)
    PROVE  NumberOf(w, b) = Val(w, b, n)
BY NumberIs DEF Digits

\* Place by place, words add
LEMMA PlusVal ==
    ASSUME NEW b, BaseOK(b), NEW n \in Nat, NEW u, Digits(u, b, n), NEW v, Digits(v, b, n)
    PROVE  /\ IsSeq(Plus(u, v)) /\ Len(Plus(u, v)) = n
           /\ \A i \in 1 .. n : Plus(u, v)[i] \in Int
           /\ Val(Plus(u, v), b, n) = Val(u, b, n) + Val(v, b, n)
<1> DEFINE s == Plus(u, v)
<1>1. IsSeq(u) /\ Len(u) = n /\ \A i \in 1 .. n : u[i] \in Int /\ v[i] \in Int
  BY DigitsInt
<1>2. s = [i \in 1 .. n |-> s[i]] /\ \A i \in 1 .. n : s[i] = u[i] + v[i]
  BY <1>1 DEF Plus
<1> HIDE DEF s
<1>3. IsSeq(s) /\ Len(s) = n
  BY <1>2, FunctionSeq
<1>4. Linear(s, u, v, 1, n)
  BY <1>1, <1>2 DEF Linear
<1>5. Val(s, b, n) = Val(u, b, n) + 1 * Val(v, b, n)
  BY <1>4, ValLinear DEF BaseOK
<1>6. Val(u, b, n) \in Int /\ Val(v, b, n) \in Int
  BY DigitsRange
<1>7. Val(s, b, n) = Val(u, b, n) + Val(v, b, n)
  BY <1>5, <1>6
<1>8. \A i \in 1 .. n : s[i] \in Int
  BY <1>1, <1>2
<1> QED
  BY <1>3, <1>7, <1>8 DEF s

\* and subtract.
LEMMA MinusVal ==
    ASSUME NEW b, BaseOK(b), NEW n \in Nat, NEW u, Digits(u, b, n), NEW v, Digits(v, b, n)
    PROVE  /\ IsSeq(Minus(u, v)) /\ Len(Minus(u, v)) = n
           /\ \A i \in 1 .. n : Minus(u, v)[i] \in Int
           /\ Val(Minus(u, v), b, n) = Val(u, b, n) - Val(v, b, n)
<1> DEFINE s == Minus(u, v)
<1>1. IsSeq(u) /\ Len(u) = n /\ \A i \in 1 .. n : u[i] \in Int /\ v[i] \in Int
  BY DigitsInt
<1>2. s = [i \in 1 .. n |-> s[i]] /\ \A i \in 1 .. n : s[i] = u[i] - v[i]
  BY <1>1 DEF Minus
<1> HIDE DEF s
<1>3. IsSeq(s) /\ Len(s) = n
  BY <1>2, FunctionSeq
<1>4. Linear(s, u, v, -1, n)
  BY <1>1, <1>2 DEF Linear
<1>5. Val(s, b, n) = Val(u, b, n) + (-1) * Val(v, b, n)
  BY <1>4, ValLinear DEF BaseOK
<1>6. Val(u, b, n) \in Int /\ Val(v, b, n) \in Int
  BY DigitsRange
<1>7. Val(s, b, n) = Val(u, b, n) - Val(v, b, n)
  BY <1>5, <1>6
<1>8. \A i \in 1 .. n : s[i] \in Int
  BY <1>1, <1>2
<1> QED
  BY <1>3, <1>7, <1>8 DEF s

\* The words w are a and c.
Joined(w, a, c, b, m, n) ==
    /\ Digits(w, b, m + n) /\ Val(w, b, m + n) = Val(a, b, m) + Pow(b, m) * Val(c, b, n)
    /\ \A i \in 1 .. n : w[m + i] = c[i]

\* The value of two sequences of digits one after the other.
LEMMA JoinedIs ==
    ASSUME NEW b, BaseOK(b), NEW m \in Nat, NEW n \in Nat,
           NEW a, Digits(a, b, m), NEW c, Digits(c, b, n)
    PROVE  Joined(a \o c, a, c, b, m, n)
<1> DEFINE w == a \o c
<1>1. /\ IsSeq(a) /\ Len(a) = m /\ \A i \in 1 .. m : a[i] \in Nat /\ a[i] < b /\ a[i] \in Int
      /\ IsSeq(c) /\ Len(c) = n /\ \A i \in 1 .. n : c[i] \in Nat /\ c[i] < b /\ c[i] \in Int
  BY DigitsInt
<1>2. /\ IsSeq(w) /\ Len(w) = m + n
      /\ \A i \in 1 .. m : w[i] = a[i]
      /\ \A i \in 1 .. n : w[m + i] = c[i]
  <2>1. IsSeq(a) /\ IsSeq(c) /\ Len(a) = m /\ Len(c) = n
    BY <1>1
  <2>2. IsSeq(a \o c) /\ Len(a \o c) = Len(a) + Len(c)
    BY <2>1, ConcatFacts
  <2>3. \A i \in 1 .. Len(a) : (a \o c)[i] = a[i]
    BY <2>1, ConcatFacts
  <2>4. \A i \in 1 .. Len(c) : (a \o c)[Len(a) + i] = c[i]
    BY <2>1, ConcatFacts
  <2> QED
    BY <2>1, <2>2, <2>3, <2>4
<1> HIDE DEF w
<1>3. ASSUME NEW i \in 1 .. m + n PROVE w[i] \in Nat /\ w[i] < b
  <2>1. CASE i <= m
    <3>1. i \in 1 .. m
      BY <2>1
    <3> QED
      BY <1>1, <1>2, <3>1
  <2>2. CASE ~(i <= m)
    <3>1. i - m \in 1 .. n /\ m + (i - m) = i
      BY <2>2
    <3>2. w[m + (i - m)] = c[i - m]
      BY <1>2, <3>1
    <3> QED
      BY <1>1, <3>1, <3>2
  <2> QED
    BY <2>1, <2>2
<1>4. Digits(w, b, m + n)
  BY <1>2, <1>3 DEF Digits
<1>5. b \in Nat /\ b # 0
  BY DEF BaseOK
<1>6. Val(w, b, m + n) = Val(w, b, m) + Pow(b, m) * Val(c, b, n)
  <2>1. \A i \in 1 .. m : w[i] \in Int
    BY <1>1, <1>2
  <2>2. \A i \in 1 .. n : c[i] \in Int /\ w[m + i] = c[i]
    BY <1>1, <1>2
  <2>3. SplitAt(w, c, b, m, n)
    BY <1>5, <2>1, <2>2, SplitIs
  <2> QED
    BY <2>3 DEF SplitAt
<1>7. Val(w, b, m) = Val(a, b, m)
  BY <1>2, ValSame
<1> QED
  BY <1>2, <1>4, <1>6, <1>7 DEF w, Joined

\* The words w are f and t.
Cut(w, f, t, b, m, n) ==
    /\ Digits(f, b, m) /\ Digits(t, b, n)
    /\ \A i \in 1 .. m : f[i] = w[i]
    /\ \A i \in 1 .. n : t[i] = w[m + i]
    /\ Val(w, b, m + n) = Val(f, b, m) + Pow(b, m) * Val(t, b, n)

\* The two parts of a sequence of digits.
LEMMA CutDigits ==
    ASSUME NEW b, BaseOK(b), NEW m \in Nat, NEW n \in Nat, NEW w, Digits(w, b, m + n)
    PROVE  Cut(w, SubSeq(w, 1, m), SubSeq(w, m + 1, m + n), b, m, n)
<1> DEFINE f == SubSeq(w, 1, m)
           t == SubSeq(w, m + 1, m + n)
<1>1. IsSeq(f) /\ Len(f) = m /\ \A i \in 1 .. m : f[i] = w[i]
  BY FrontFacts
<1>2. IsSeq(t) /\ Len(t) = n /\ \A i \in 1 .. n : t[i] = w[m + i]
  BY SliceFacts
<1>3. \A i \in 1 .. m + n : w[i] \in Nat /\ w[i] < b /\ w[i] \in Int
  BY DEF Digits
<1> HIDE DEF f, t
<1>4. ASSUME NEW i \in 1 .. m PROVE f[i] \in Nat /\ f[i] < b /\ w[i] \in Int
  <2>1. i \in 1 .. m + n
    OBVIOUS
  <2> QED
    BY <1>1, <1>3, <2>1
<1>5. ASSUME NEW i \in 1 .. n PROVE t[i] \in Nat /\ t[i] < b /\ t[i] \in Int /\ w[m + i] = t[i]
  <2>1. m + i \in 1 .. m + n
    OBVIOUS
  <2> QED
    BY <1>2, <1>3, <2>1
<1>6. Digits(f, b, m) /\ Digits(t, b, n)
  BY <1>1, <1>2, <1>4, <1>5 DEF Digits
<1>7. Val(w, b, m + n) = Val(w, b, m) + Pow(b, m) * Val(t, b, n)
  <2>1. b \in Nat /\ b # 0
    BY DEF BaseOK
  <2>2. \A i \in 1 .. m : w[i] \in Int
    BY <1>4
  <2>3. \A i \in 1 .. n : t[i] \in Int /\ w[m + i] = t[i]
    BY <1>5
  <2>4. SplitAt(w, t, b, m, n)
    BY <2>1, <2>2, <2>3, SplitIs
  <2> QED
    BY <2>4 DEF SplitAt
<1>8. Val(f, b, m) = Val(w, b, m)
  BY <1>1, ValSame
<1> QED
  BY <1>1, <1>2, <1>6, <1>7, <1>8 DEF f, t, Cut

\* Zero words are digits of zero.
LEMMA ZeroDigits ==
    ASSUME NEW b, BaseOK(b), NEW n \in Nat
    PROVE  LET z == [i \in 1 .. n |-> 0]
           IN Digits(z, b, n) /\ Val(z, b, n) = 0 /\ \A i \in 1 .. n : z[i] = 0
<1> DEFINE z == [i \in 1 .. n |-> 0]
<1>1. z = [i \in 1 .. n |-> z[i]] /\ \A i \in 1 .. n : z[i] = 0
  OBVIOUS
<1> HIDE DEF z
<1>2. IsSeq(z) /\ Len(z) = n
  BY <1>1, FunctionSeq
<1>3. 0 \in Nat /\ 0 < b
  BY DEF BaseOK
<1>4. Digits(z, b, n)
  BY <1>1, <1>2, <1>3 DEF Digits
<1>5. Val(z, b, n) = 0
  BY <1>1, ValZero
<1> QED
  BY <1>1, <1>4, <1>5 DEF z

\* One word is a number of its own.
LEMMA OneDigit ==
    ASSUME NEW b, BaseOK(b), NEW c \in Nat, c < b
    PROVE  Digits(<<c>>, b, 1) /\ Val(<<c>>, b, 1) = c
<1>1. IsSeq(<<c>>) /\ Len(<<c>>) = 1 /\ <<c>>[1] = c
  BY OneFacts
<1> DEFINE w == <<c>>
<1> HIDE DEF w
<1>2. IsSeq(w) /\ Len(w) = 1 /\ w[1] = c
  BY <1>1 DEF w
<1>3. Digits(w, b, 1)
  BY <1>2 DEF Digits
<1>4. Val(w, b, 0) = 0 /\ Pow(b, 0) = 1 /\ 0 \in Nat
  BY ValFacts, PowFacts
<1>5. Val(w, b, 0 + 1) = Val(w, b, 0) + w[0 + 1] * Pow(b, 0)
  BY <1>4, ValFacts
<1>6. Val(w, b, 1) = c
  BY <1>2, <1>4, <1>5
<1> QED
  BY <1>3, <1>6 DEF w

\* The lowest word is what the number leaves modulo the base.
LEMMA FirstDigit ==
    ASSUME NEW b, BaseOK(b), NEW n \in Nat, n # 0, NEW w, Digits(w, b, n)
    PROVE  w[1] = Val(w, b, n) % b
<1> DEFINE m == 1
           t == SubSeq(w, m + 1, m + (n - 1))
           x == Val(t, b, n - 1)
<1>1. n - 1 \in Nat /\ m + (n - 1) = n /\ (n - 1) + 1 = n
  OBVIOUS
<1>2. m \in Nat /\ Digits(w, b, m + (n - 1))
  BY <1>1
<1> HIDE DEF m
<1>3. Cut(w, SubSeq(w, 1, m), t, b, m, n - 1)
  BY <1>1, <1>2, CutDigits
<1> HIDE DEF t
<1>4. \A i \in 1 .. n - 1 : t[i] \in Int /\ w[i + 1] = t[i]
  <2> TAKE i \in 1 .. n - 1
  <2>1. m + i = i + 1
    BY DEF m
  <2>2. Digits(t, b, n - 1) /\ t[i] = w[m + i]
    BY <1>3 DEF Cut
  <2> QED
    BY <1>1, <2>1, <2>2, DigitsInt
<1>5. w[1] \in Nat /\ w[1] < b /\ w[1] \in Int
  <2>1. 1 \in 1 .. n
    OBVIOUS
  <2> QED
    BY <2>1, DigitsInt
<1>6. b \in Nat /\ b # 0
  BY DEF BaseOK
<1>7. Val(w, b, (n - 1) + 1) = w[1] + b * x
  BY <1>1, <1>4, <1>5, <1>6, ValShift
<1>8. x \in Int
  BY <1>1, <1>3, DigitsRange DEF Cut
<1> DEFINE d == w[1]
<1> HIDE DEF x, d
<1>9. Val(w, b, n) = d + x * b
  BY <1>1, <1>6, <1>7, <1>8, <1>5 DEF d
<1>10. (d + x * b) % b = d
  BY <1>5, <1>6, <1>8, DivModInt DEF d
<1> QED
  BY <1>9, <1>10 DEF d

-----------------------------------------------------------------------------
(* F448.                                                                   *)

\* 2^224 in the code: half the words.
Root448 == Pow(Base448, Half)

\* The constants of F448: words and their base.
LEMMA Sizes44 ==
    /\ Words448 \in Nat /\ Half \in Nat /\ Half # 0 /\ Words448 = Half + Half /\ Words448 # 0
    /\ Base448 \in Nat /\ Base448 # 0 /\ 4 <= Base448 /\ BaseOK(Base448)
<1>1. /\ Words448 \in Nat /\ Words448 # 0 /\ Words448 % 2 = 0 /\ Bits448 \in Nat /\ Bits448 # 0
      /\ Bits448 # 1
  BY FieldAssumption
<1>2. Half \in Nat /\ Half # 0 /\ Words448 = Half + Half
  BY <1>1 DEF Half
<1> DEFINE n == Bits448 - 2
<1>3. n \in Nat /\ n + 1 \in Nat /\ (n + 1) + 1 = Bits448
  BY <1>1
<1> HIDE DEF n
<1>4. Pow(2, n) \in Nat /\ Pow(2, n) # 0
  BY <1>3, PowNat
<1>5. Pow(2, n + 1) = Pow(2, n) * 2
  BY <1>3, PowFacts
<1>6. Pow(2, (n + 1) + 1) = Pow(2, n + 1) * 2
  BY <1>3, PowFacts
<1>7. Base448 \in Nat /\ 4 <= Base448
  BY <1>3, <1>4, <1>5, <1>6 DEF Base448
<1> QED
  BY <1>1, <1>2, <1>7 DEF BaseOK

\* The constants of F448: modulus and range.
LEMMA Numbers44 ==
    /\ Root448 \in Nat /\ 4 <= Root448 /\ Root448 = Pow(Base448, Half)
    /\ Range448 \in Nat /\ Range448 # 0 /\ Range448 = Root448 * Root448
    /\ Range448 = Pow(Base448, Words448)
    /\ 4 * Root448 <= Range448 /\ P448 = Range448 - Root448 - 1
    /\ P448 \in Nat /\ P448 # 0 /\ 11 <= P448 /\ Range448 <= 2 * P448
<1> DEFINE h == Half - 1
           q == Pow(Base448, h)
<1>1. h \in Nat /\ h + 1 = Half
  BY Sizes44
<1> HIDE DEF h
<1>2. q \in Nat /\ q # 0
  BY <1>1, Sizes44, PowNat
<1>3. Pow(Base448, h + 1) = q * Base448
  BY <1>1, PowFacts
<1> HIDE DEF q
<1>4. Root448 \in Nat /\ 4 <= Root448
  <2>1. q * Base448 \in Nat /\ 4 <= q * Base448
    BY <1>2, Sizes44
  <2> QED
    BY <1>1, <1>3, <2>1 DEF Root448
<1>5. Range448 = Root448 * Root448 /\ Range448 = Pow(Base448, Words448)
  <2>1. Pow(Base448, Half + Half) = Pow(Base448, Half) * Pow(Base448, Half)
    BY Sizes44, PowAdd
  <2> QED
    BY <2>1, Sizes44 DEF Range448, Root448
<1>6. Root448 * Root448 \in Nat /\ 4 * Root448 <= Root448 * Root448
  BY <1>4
<1>7. P448 = Range448 - Root448 - 1
  BY DEF P448, Root448
<1>8. Root448 = Pow(Base448, Half)
  BY DEF Root448
<1> DEFINE n == Root448 * Root448
<1> HIDE DEF n
<1>9. Range448 = n /\ n \in Nat /\ 4 * Root448 <= n
  BY <1>5, <1>6 DEF n
<1>10. /\ Range448 \in Nat /\ Range448 # 0 /\ 4 * Root448 <= Range448
       /\ P448 \in Nat /\ P448 # 0 /\ 11 <= P448 /\ Range448 <= 2 * P448
  BY <1>4, <1>7, <1>9
<1> QED
  BY <1>4, <1>5, <1>7, <1>8, <1>10

\* The words of a number of F448
LEMMA Words44Are ==
    ASSUME NEW v \in Nat, v < Range448
    PROVE  /\ Digits(Words44(v), Base448, Words448)
           /\ Val(Words44(v), Base448, Words448) = v
BY Sizes44, Numbers44, WordsAre DEF Words44

\* and the number of words.
LEMMA Number44Is ==
    ASSUME NEW w, Digits(w, Base448, Words448)
    PROVE  /\ Number44(w) = Val(w, Base448, Words448)
           /\ Number44(w) \in Nat /\ Number44(w) < Range448
BY Sizes44, Numbers44, DigitsNumber, DigitsRange DEF Number44

\* A carry added at a place.
LEMMA AddCarryIs ==
    ASSUME NEW words, Digits(words, Base448, Words448), NEW carry \in Int, NEW at \in Nat, at <= Words448
    PROVE  LET r == AddCarry(words, carry, at)
           IN /\ Digits(r.words, Base448, Words448) /\ r.carry \in Int
              /\ Val(words, Base448, Words448) + carry * Pow(Base448, at)
                   = Val(r.words, Base448, Words448) + r.carry * Range448
<1> DEFINE B == Base448
           W == Words448
           n == W - at
           f == SubSeq(words, 1, at)
           t == SubSeq(words, at + 1, at + n)
           s == Rippled(t, carry, B)
           r == AddCarry(words, carry, at)
<1>1. W \in Nat /\ n \in Nat /\ at + n = W /\ BaseOK(B) /\ B \in Nat /\ B # 0
  BY Sizes44
<1> HIDE DEF n
<1>2. Len(words) = at + n /\ Digits(words, B, at + n)
  BY <1>1 DEF Digits
<1>3. /\ Digits(f, B, at) /\ Digits(t, B, n)
      /\ Val(words, B, at + n) = Val(f, B, at) + Pow(B, at) * Val(t, B, n)
  <2>1. Cut(words, f, t, B, at, n)
    BY <1>1, <1>2, CutDigits
  <2> QED
    BY <2>1 DEF Cut
<1>4. r.words = f \o s.words /\ r.carry = s.carry
  BY <1>2 DEF AddCarry
<1> HIDE DEF f, t, r
<1>5. /\ Digits(s.words, B, n) /\ s.carry \in Int
      /\ Val(t, B, n) + carry = Val(s.words, B, n) + s.carry * Pow(B, n)
  <2>1. IsSeq(t) /\ Len(t) = n /\ \A i \in 1 .. n : t[i] \in Int
    BY <1>1, <1>3, DigitsInt
  <2> QED
    BY <1>1, <2>1, RippleFacts
<1> DEFINE g == s.words
           k == s.carry
           p == Pow(B, at)
           q == Pow(B, n)
           x == Val(f, B, at)
           y == Val(t, B, n)
           z == Val(g, B, n)
<1> HIDE DEF s
<1>6. Digits(f \o g, B, at + n) /\ Val(f \o g, B, at + n) = x + p * z
  <2>1. Joined(f \o g, f, g, B, at, n)
    BY <1>1, <1>3, <1>5, JoinedIs
  <2> QED
    BY <2>1 DEF Joined
<1>7. Range448 = p * q
  BY <1>1, PowAdd DEF Range448
<1>8. x \in Int /\ y \in Int /\ z \in Int /\ k \in Int /\ p \in Nat /\ q \in Nat
  BY <1>1, <1>3, <1>5, DigitsRange, PowNat
<1>9. Val(words, B, W) = x + p * y /\ y + carry = z + k * q
  BY <1>1, <1>3, <1>5
<1> HIDE DEF g, k, p, q, x, y, z
<1>10. (x + p * y) + carry * p = (x + p * z) + k * (p * q)
  <2>1. (x + p * y) + carry * p = x + p * (y + carry)
    BY <1>8
  <2>2. p * (z + k * q) = p * z + k * (p * q)
    BY <1>8
  <2> DEFINE a == p * (z + k * q)
             b == p * z
             c == k * (p * q)
  <2>3. a \in Int /\ b \in Int /\ c \in Int
    BY <1>8
  <2>4. p * (y + carry) = a
    BY <1>9
  <2> HIDE DEF a, b, c
  <2>5. (x + p * y) + carry * p = x + a /\ a = b + c
    BY <2>1, <2>2, <2>4 DEF a, b, c
  <2>6. x + a = (x + b) + c
    BY <1>8, <2>3, <2>5
  <2> QED
    BY <2>5, <2>6 DEF b, c
<1> QED
  BY <1>1, <1>4, <1>5, <1>6, <1>7, <1>9, <1>10 DEF g, k, p, r

\* f448_reduce() adds the carry at both places; a carry of 1 may be left.
LEMMA Reduce448Is ==
    ASSUME NEW words, Digits(words, Base448, Words448), NEW carry \in Nat,
           NEW z \in Nat, z = Val(words, Base448, Words448) + carry * (Root448 + 1), z < 2 * Range448
    PROVE  LET r == Reduce448(words, carry)
           IN /\ Digits(r.words, Base448, Words448) /\ r.carry \in {0, 1}
              /\ z = Val(r.words, Base448, Words448) + r.carry * Range448
<1> DEFINE B == Base448
           W == Words448
           low == AddCarry(words, carry, 0)
           high == AddCarry(low.words, carry, Half)
           r == Reduce448(words, carry)
<1>1. /\ 0 \in Nat /\ 0 <= W /\ Half \in Nat /\ Half <= W /\ carry \in Int /\ Pow(B, 0) = 1
      /\ BaseOK(B) /\ W \in Nat
  BY Sizes44, PowFacts
<1>2. /\ Digits(low.words, B, W) /\ low.carry \in Int
      /\ Val(words, B, W) + carry * Pow(B, 0) = Val(low.words, B, W) + low.carry * Range448
  BY <1>1, AddCarryIs
<1>3. r.words = high.words /\ r.carry = IF low.carry + high.carry > 0 THEN 1 ELSE 0
  BY DEF Reduce448
<1> HIDE DEF low, r
<1>4. /\ Digits(high.words, B, W) /\ high.carry \in Int
      /\ Val(low.words, B, W) + carry * Root448 = Val(high.words, B, W) + high.carry * Range448
  BY <1>1, <1>2, AddCarryIs, Numbers44
<1> HIDE DEF high
<1> DEFINE x == Val(words, B, W)
           y == Val(low.words, B, W)
           v == Val(high.words, B, W)
           i == low.carry
           j == high.carry
           N == Range448
<1>5. /\ x \in Int /\ y \in Int /\ v \in Nat /\ v < N /\ i \in Int /\ j \in Int /\ N \in Nat
      /\ Root448 \in Nat
  BY <1>1, <1>2, <1>4, DigitsRange, Numbers44
<1>6. x + carry = y + i * N /\ y + carry * Root448 = v + j * N
  BY <1>1, <1>2, <1>4, <1>5
<1>7. z = x + carry * (Root448 + 1) /\ z < 2 * N
  OBVIOUS
<1> HIDE DEF x, y, v, i, j, N
<1>8. z = v + (i + j) * N
  <2>1. carry * (Root448 + 1) = carry * Root448 + carry /\ (i + j) * N = i * N + j * N
    BY <1>5
  <2> DEFINE a == carry * Root448
             b == i * N
             c == j * N
  <2>2. a \in Int /\ b \in Int /\ c \in Int
    BY <1>5
  <2>3. z = x + (a + carry) /\ x + carry = y + b /\ y + a = v + c /\ (i + j) * N = b + c
    BY <1>6, <1>7, <2>1
  <2> HIDE DEF a, b, c
  <2> QED
    BY <1>5, <2>2, <2>3
<1> DEFINE m == i + j
<1>9. m \in Int /\ z = v + m * N
  BY <1>5, <1>8
<1> HIDE DEF m
<1>10. m = 0 \/ m = 1
  <2>1. CASE m < 0
    <3>1. m * N <= -N
      BY <1>5, <1>9, <2>1
    <3> DEFINE a == m * N
    <3>2. a \in Int
      BY <1>5, <1>9
    <3> HIDE DEF a
    <3>3. a <= -N /\ z = v + a
      BY <1>9, <3>1 DEF a
    <3> QED
      BY <1>5, <3>2, <3>3
  <2>2. CASE m > 1
    <3>1. 2 * N <= m * N
      BY <1>5, <1>9, <2>2
    <3> DEFINE a == m * N
    <3>2. a \in Int
      BY <1>5, <1>9
    <3> HIDE DEF a
    <3>3. 2 * N <= a /\ z = v + a
      BY <1>9, <3>1 DEF a
    <3> QED
      BY <1>5, <1>7, <3>2, <3>3
  <2> QED
    BY <1>9, <2>1, <2>2
<1>11. r.carry = m
  BY <1>3, <1>10 DEF m, i, j
<1> QED
  BY <1>3, <1>4, <1>9, <1>10, <1>11 DEF r, v, N

\* 2^448 is 2^224 + 1.
LEMMA Fold44 ==
    ASSUME NEW l \in Int, NEW r \in Int
    PROVE  Same(l + r * (Root448 + 1), l + r * Range448, P448)
<1>1. Root448 \in Nat /\ P448 \in Nat /\ Range448 = P448 + (Root448 + 1)
  BY Numbers44
<1>2. l + r * (Root448 + 1) = (l + r * Range448) + (-r) * P448
  <2> DEFINE k == Root448 + 1
  <2>1. k \in Int
    BY <1>1
  <2> HIDE DEF k
  <2>2. l + r * k = (l + r * (P448 + k)) + (-r) * P448
    BY <1>1, <2>1
  <2> QED
    BY <1>1, <2>2 DEF k
<1>3. -r \in Int
  OBVIOUS
<1> QED
  BY <1>2, <1>3 DEF Same

\* F448::add gives the sum unless that is too large, and words in any case.
LEMMA AddIs44 ==
    ASSUME NEW a \in Nat, a < Range448, NEW b \in Nat, b < Range448
    PROVE  LET r == Add448(a, b)
           IN r \in Nat /\ r < Range448 /\ (~TooLarge(a + b) => Same(r, a + b, P448))
<1> DEFINE W == Words448
           B == Base448
           N == Range448
           K == Root448
           u == Words44(a)
           v == Words44(b)
           f == Plus(u, v)
           s == Rippled(f, 0, B)
           t == Reduce448(s.words, s.carry)
<1>1. /\ W \in Nat /\ BaseOK(B) /\ N \in Nat /\ K \in Nat /\ 4 <= K /\ 4 * K <= N
      /\ P448 \in Nat /\ P448 = N - K - 1 /\ N = Pow(B, W)
  BY Sizes44, Numbers44
<1>2. Digits(u, B, W) /\ Val(u, B, W) = a /\ Digits(v, B, W) /\ Val(v, B, W) = b
  BY <1>1, Words44Are
<1>3. Add448(a, b) = Number44(t.words)
  BY DEF Add448
<1> HIDE DEF u, v, t
<1>4. /\ IsSeq(f) /\ Len(f) = W /\ \A i \in 1 .. W : f[i] \in Int
      /\ Val(f, B, W) = a + b
  BY <1>1, <1>2, PlusVal
<1> HIDE DEF f
<1>5. /\ Digits(s.words, B, W) /\ s.carry \in Int
      /\ Val(f, B, W) + 0 = Val(s.words, B, W) + s.carry * N
  <2>1. 0 \in Int /\ W \in Nat /\ BaseOK(B) /\ N = Pow(B, W)
    BY <1>1
  <2>2. IsSeq(f) /\ Len(f) = W /\ \A i \in 1 .. W : f[i] \in Int
    BY <1>4
  <2> QED
    BY <2>1, <2>2, RippleFacts
<1> DEFINE x == Val(s.words, B, W)
           c == s.carry
           z == x + c * (K + 1)
<1>6. x \in Nat /\ x < N /\ c \in Int /\ a + b = x + c * N
  BY <1>1, <1>4, <1>5, DigitsRange
<1> HIDE DEF x, c, N, K, s
<1>7. c = 0 \/ c = 1
  <2> DEFINE e == c * N
  <2>1. e \in Int /\ a + b = x + e
    BY <1>1, <1>6
  <2>2. CASE c < 0
    <3>1. e <= -N
      BY <1>1, <1>6, <2>2
    <3> HIDE DEF e
    <3> QED
      BY <1>1, <1>6, <2>1, <3>1
  <2>3. CASE c > 1
    <3>1. 2 * N <= e
      BY <1>1, <1>6, <2>3
    <3> HIDE DEF e
    <3> QED
      BY <1>1, <1>6, <2>1, <3>1 DEF N
  <2> QED
    BY <1>6, <2>2, <2>3
<1>8. z \in Nat /\ z < 2 * N /\ c \in Nat /\ (~TooLarge(a + b) => z < N)
  <2>1. CASE c = 0
    BY <1>1, <1>6, <2>1
  <2>2. CASE c = 1
    BY <1>1, <1>6, <2>2 DEF N, TooLarge
  <2> QED
    BY <1>7, <2>1, <2>2
<1>9. Same(z, a + b, P448)
  <2>1. Same(x + c * (K + 1), x + c * N, P448)
    BY <1>6, Fold44 DEF N, K
  <2> QED
    BY <1>6, <2>1
<1>10. z = x + c * (K + 1)
  OBVIOUS
<1> HIDE DEF z
<1>11. /\ Digits(t.words, B, W) /\ t.carry \in {0, 1}
       /\ z = Val(t.words, B, W) + t.carry * N
  BY <1>5, <1>8, <1>10, Reduce448Is DEF s, t, x, c, N, K
<1>12. Val(t.words, B, W) \in Nat /\ Val(t.words, B, W) < N
  BY <1>1, <1>11, DigitsRange DEF N
<1>13. ~TooLarge(a + b) => z = Val(t.words, B, W)
  BY <1>1, <1>8, <1>11, <1>12
<1>14. Add448(a, b) = Val(t.words, B, W)
  BY <1>3, <1>11, Number44Is
<1> QED
  BY <1>9, <1>12, <1>13, <1>14 DEF N

\* F448::neg gives the negative of any number.
LEMMA NegIs44 ==
    ASSUME NEW a \in Nat, a < Range448
    PROVE  LET r == Neg448(a)
           IN r \in Nat /\ r < Range448 /\ Same(r, -a, P448)
<1> DEFINE W == Words448
           B == Base448
           N == Range448
           K == Root448
           m == 2 * P448 - N
           u == Words44(m)
           v == Words44(a)
           f == Minus(u, v)
           s == Rippled(f, 0, B)
           t == Reduce448(s.words, 1 + s.carry)
<1>1. /\ W \in Nat /\ BaseOK(B) /\ N \in Nat /\ K \in Nat /\ 4 <= K /\ 4 * K <= N
      /\ P448 \in Nat /\ P448 = N - K - 1 /\ N = Pow(B, W)
  BY Sizes44, Numbers44
<1>2. m \in Nat /\ m < N
  BY <1>1
<1>3. Digits(u, B, W) /\ Val(u, B, W) = m /\ Digits(v, B, W) /\ Val(v, B, W) = a
  BY <1>1, <1>2, Words44Are
<1>4. Neg448(a) = Number44(t.words)
  BY DEF Neg448
<1> HIDE DEF u, v, t, m
<1>5. /\ IsSeq(f) /\ Len(f) = W /\ \A i \in 1 .. W : f[i] \in Int
      /\ Val(f, B, W) = m - a
  BY <1>1, <1>3, MinusVal
<1> HIDE DEF f
<1>6. /\ Digits(s.words, B, W) /\ s.carry \in Int
      /\ Val(f, B, W) + 0 = Val(s.words, B, W) + s.carry * N
  <2>1. s = Rippled(f, 0, B)
    OBVIOUS
  <2> HIDE DEF s, B, W, N
  <2>2. BaseOK(B) /\ W \in Nat /\ N = Pow(B, W)
    BY <1>1
  <2>3. IsSeq(f) /\ Len(f) = W /\ \A i \in 1 .. W : f[i] \in Int
    BY <1>5
  <2> QED
    BY <2>1, <2>2, <2>3, RippleZero
<1> DEFINE x == Val(s.words, B, W)
           c == 1 + s.carry
           z == x + c * (K + 1)
<1>7. x \in Nat /\ x < N /\ c \in Int /\ m - a = x + (c - 1) * N
  <2>1. x \in Nat /\ x < N
    BY <1>1, <1>6, DigitsRange
  <2>2. c - 1 = s.carry /\ m - a = Val(f, B, W) + 0 /\ c \in Int
    BY <1>1, <1>2, <1>5, <1>6
  <2> QED
    BY <1>6, <2>1, <2>2
<1> HIDE DEF x, c, N, K, s
<1>8. c = 0 \/ c = 1
  <2> DEFINE e == (c - 1) * N
  <2>1. e \in Int /\ m - a = x + e
    BY <1>1, <1>7
  <2>2. CASE c < 0
    <3>1. e <= -(2 * N)
      BY <1>1, <1>7, <2>2
    <3> HIDE DEF e
    <3> QED
      BY <1>1, <1>2, <1>7, <2>1, <3>1 DEF N
  <2>3. CASE c > 1
    <3>1. N <= e
      BY <1>1, <1>7, <2>3
    <3> HIDE DEF e
    <3> QED
      BY <1>1, <1>2, <1>7, <2>1, <3>1
  <2> QED
    BY <1>7, <2>2, <2>3
<1>9. z \in Nat /\ z < N /\ z < 2 * N /\ c \in Nat
  <2>1. CASE c = 0
    BY <1>1, <1>7, <2>1
  <2>2. CASE c = 1
    BY <1>1, <1>7, <2>2 DEF N, m
  <2> QED
    BY <1>8, <2>1, <2>2
<1>10. Same(z, -a, P448)
  <2>1. Same(x + c * (K + 1), x + c * N, P448)
    BY <1>7, Fold44 DEF N, K
  <2>2. x + c * N = -a + 2 * P448
    <3>1. x + c * N = (x + (c - 1) * N) + N
      BY <1>1, <1>7
    <3> QED
      BY <1>1, <1>7, <3>1 DEF m, N
  <2>3. Same(-a + 2 * P448, -a, P448)
    BY DEF Same
  <2>4. z \in Int /\ -a + 2 * P448 \in Int /\ -a \in Int
    BY <1>1, <1>9
  <2> QED
    BY <1>1, <2>1, <2>2, <2>3, <2>4, SameTrans
<1>11. z = x + c * (K + 1)
  OBVIOUS
<1> HIDE DEF z
<1>12. /\ Digits(t.words, B, W) /\ t.carry \in {0, 1}
       /\ z = Val(t.words, B, W) + t.carry * N
  BY <1>6, <1>9, <1>11, Reduce448Is DEF s, t, x, c, N, K
<1>13. Val(t.words, B, W) \in Nat
  BY <1>1, <1>12, DigitsRange
<1>14. z = Val(t.words, B, W)
  BY <1>1, <1>9, <1>12, <1>13
<1>15. Neg448(a) = z
  BY <1>4, <1>12, <1>14, Number44Is
<1> QED
  BY <1>9, <1>10, <1>15 DEF N

\* A negative number is p less something, all in the lowest word.
LEMMA LoadIs44 ==
    ASSUME NEW n \in -3 .. 3
    PROVE  LET r == Load448(n)
           IN r \in Nat /\ r < Range448 /\ Same(r, n, P448)
<1> DEFINE W == Words448
           B == Base448
           w == Words44(P448)
           d == (n - 1) % B
           f == [w EXCEPT ![1] = d]
           g == SubSeq(w, 2, 1 + (W - 1))
<1>1. /\ W \in Nat /\ W # 0 /\ W - 1 \in Nat /\ 1 + (W - 1) = W /\ (W - 1) + 1 = W /\ 1 \in 1 .. W
      /\ BaseOK(B) /\ B \in Nat /\ B # 0 /\ 4 <= B /\ P448 \in Nat /\ 11 <= P448 /\ P448 < Range448
      /\ Range448 \in Nat
  BY Sizes44, Numbers44
<1>2. CASE n >= 0
  <2>1. Load448(n) = n
    BY <1>2 DEF Load448
  <2>2. n \in Nat /\ n < Range448
    BY <1>1, <1>2
  <2>3. Same(n, n, P448)
    BY <1>1, <2>2, SameSelf
  <2> QED
    BY <2>1, <2>2, <2>3
<1>3. CASE ~(n >= 0)
  <2>1. Digits(w, B, W) /\ Val(w, B, W) = P448
    BY <1>1, Words44Are
  <2>2. Load448(n) = Number44(f)
    BY <1>3 DEF Load448
  <2> HIDE DEF w
  <2>3. IsSeq(w) /\ Len(w) = W /\ \A i \in 1 .. W : w[i] \in Nat /\ w[i] < B /\ w[i] \in Int
    BY <1>1, <2>1, DigitsInt
  <2>4. DOMAIN w = 1 .. W
    BY <2>3, SeqFacts
  <2>5. d \in Nat /\ d < B /\ d = B - 1 + n
    <3> DEFINE v == B - 1 + n
    <3>1. v \in Nat /\ v < B /\ n - 1 = v + (-1) * B
      BY <1>1, <1>3
    <3> HIDE DEF v
    <3>2. (v + (-1) * B) % B = v
      BY <1>1, <3>1, DivModInt
    <3> QED
      BY <3>1, <3>2 DEF v
  <2> HIDE DEF d
  <2>6. f = [i \in 1 .. W |-> f[i]] /\ f[1] = d
    BY <1>1, <2>4
  <2>7. ASSUME NEW i \in 1 .. W, i # 1 PROVE f[i] = w[i]
    BY <2>4, <2>7
  <2> HIDE DEF f
  <2>8. IsSeq(f) /\ Len(f) = W
    BY <1>1, <2>6, FunctionSeq
  <2>9. ASSUME NEW i \in 1 .. W PROVE f[i] \in Nat /\ f[i] < B
    BY <2>3, <2>5, <2>6, <2>7
  <2>10. Digits(f, B, W)
    BY <2>8, <2>9 DEF Digits
  <2>11. Val(f, B, W) = P448 + n
    <3> DEFINE t == [i \in 1 .. W - 1 |-> w[i + 1]]
               x == Val(t, B, W - 1)
    <3>1. \A i \in 1 .. W - 1 : t[i] = w[i + 1]
      OBVIOUS
    <3> HIDE DEF t
    <3>2. ASSUME NEW i \in 1 .. W - 1 PROVE t[i] \in Int /\ w[i + 1] = t[i] /\ f[i + 1] = t[i]
      <4>1. i + 1 \in 1 .. W /\ i + 1 # 1
        BY <1>1
      <4> QED
        BY <2>3, <2>7, <3>1, <4>1
    <3>3. w[1] \in Int /\ f[1] \in Int
      BY <1>1, <2>3, <2>5, <2>6
    <3>4. Val(w, B, (W - 1) + 1) = w[1] + B * x
      BY <1>1, <3>2, <3>3, ValShift
    <3>5. Val(f, B, (W - 1) + 1) = f[1] + B * x
      BY <1>1, <3>2, <3>3, ValShift
    <3>6. x \in Int
      BY <1>1, <3>2, ValInt
    <3>7. w[1] = P448 % B
      BY <1>1, <2>1, FirstDigit
    <3>8. P448 % B = B - 1
      <4> DEFINE h == Half - 1
                 q == Pow(B, h)
                 k == q * Root448 - q - 1
      <4>1. h \in Nat /\ h + 1 = Half
        BY Sizes44
      <4>2. q \in Nat /\ Pow(B, h + 1) = q * B
        BY <1>1, <4>1, PowNat, PowFacts
      <4>3. Root448 = q * B /\ Root448 \in Nat
        BY <4>1, <4>2, Numbers44
      <4>4. P448 = Root448 * Root448 - Root448 - 1
        BY Numbers44
      <4> HIDE DEF q
      <4>5. k \in Int
        BY <4>2, <4>3
      <4>6. (q * B) * Root448 = (q * Root448) * B
        BY <1>1, <4>2, <4>3
      <4>7. k * B = (q * Root448) * B - q * B - B
        BY <1>1, <4>2, <4>3
      <4> DEFINE a == (q * Root448) * B
                 b == q * B
                 e == k * B
      <4>8. a \in Int /\ b \in Int /\ e \in Int
        BY <1>1, <4>2, <4>3, <4>5
      <4>9. P448 = a - b - 1 /\ e = a - b - B
        BY <4>3, <4>4, <4>6, <4>7
      <4> HIDE DEF a, b, e, k
      <4>10. P448 = (B - 1) + e
        BY <1>1, <4>8, <4>9
      <4>11. P448 = (B - 1) + k * B
        BY <4>10 DEF e
      <4> DEFINE v == B - 1
      <4>12. v \in Nat /\ v < B /\ P448 = v + k * B
        BY <1>1, <4>11
      <4> HIDE DEF v
      <4>13. P448 % B = v
        BY <1>1, <4>5, <4>12, DivModInt
      <4> QED
        BY <4>13 DEF v
    <3> DEFINE y == B * x
    <3>9. y \in Int /\ P448 = (B - 1) + y /\ Val(f, B, W) = (B - 1 + n) + y
      BY <1>1, <2>1, <2>5, <2>6, <3>4, <3>5, <3>6, <3>7, <3>8
    <3> HIDE DEF y
    <3> QED
      BY <1>1, <3>9
  <2>12. Number44(f) = P448 + n /\ P448 + n \in Nat /\ P448 + n < Range448
    BY <1>1, <1>3, <2>10, <2>11, Number44Is
  <2>13. Same(P448 + n, n, P448)
    <3>1. P448 + n = n + 1 * P448 /\ 1 \in Int
      BY <1>1
    <3> QED
      BY <3>1 DEF Same
  <2> QED
    BY <2>2, <2>12, <2>13
<1> QED
  BY <1>2, <1>3

\* F448::normalize gives the remainder.
LEMMA NormalizeIs44 ==
    ASSUME NEW v \in Nat, v < Range448
    PROVE  Normalize448(v) = v % P448
<1> DEFINE W == Words448
           B == Base448
           N == Range448
           u == Words44(v)
           w == Words44(P448)
           f == Minus(u, w)
           s == Rippled(f, 0, B)
<1>1. /\ W \in Nat /\ BaseOK(B) /\ N \in Nat /\ N # 0 /\ P448 \in Nat /\ P448 < N /\ P448 # 0
      /\ N <= 2 * P448 /\ N = Pow(B, W)
  BY Sizes44, Numbers44
<1>2. Digits(u, B, W) /\ Val(u, B, W) = v /\ Digits(w, B, W) /\ Val(w, B, W) = P448
  BY <1>1, Words44Are
<1>3. Normalize448(v) = IF s.carry < 0 THEN v ELSE Number44(s.words)
  BY DEF Normalize448
<1> HIDE DEF u, w
<1>4. /\ IsSeq(f) /\ Len(f) = W /\ \A i \in 1 .. W : f[i] \in Int
      /\ Val(f, B, W) = v - P448
  BY <1>1, <1>2, MinusVal
<1> HIDE DEF f
<1>5. /\ Digits(s.words, B, W) /\ s.carry \in Int
      /\ Val(f, B, W) + 0 = Val(s.words, B, W) + s.carry * N
  <2>1. s = Rippled(f, 0, B)
    OBVIOUS
  <2> HIDE DEF s, B, W, N
  <2>2. BaseOK(B) /\ W \in Nat /\ N = Pow(B, W)
    BY <1>1
  <2>3. IsSeq(f) /\ Len(f) = W /\ \A i \in 1 .. W : f[i] \in Int
    BY <1>4
  <2> QED
    BY <2>1, <2>2, <2>3, RippleZero
<1> DEFINE x == Val(s.words, B, W)
           c == s.carry
           e == c * N
<1>6. x \in Nat /\ x < N /\ c \in Int /\ Number44(s.words) = x
  BY <1>1, <1>5, DigitsRange, Number44Is
<1>7. e \in Int /\ v - P448 = x + e
  <2>1. e \in Int
    BY <1>1, <1>6
  <2> QED
    BY <1>1, <1>4, <1>5, <2>1
<1> HIDE DEF x, c, s, N
<1>8. CASE c < 0
  <2>1. e <= -N
    BY <1>1, <1>6, <1>8
  <2> HIDE DEF e
  <2>2. v < P448
    BY <1>1, <1>6, <1>7, <2>1
  <2>3. v % P448 = v
    BY <1>1, <2>2, SameSelf, ModIs
  <2> QED
    BY <1>3, <1>8, <2>3 DEF c
<1>9. CASE ~(c < 0)
  <2>1. e \in Nat /\ (c # 0 => N <= e)
    BY <1>1, <1>6, <1>9
  <2> HIDE DEF e
  <2>2. c = 0
    BY <1>1, <1>6, <1>7, <2>1 DEF N
  <2>3. e = 0
    BY <1>1, <2>2 DEF e
  <2>4. x = v - P448 /\ x < P448
    BY <1>1, <1>6, <1>7, <2>3 DEF N
  <2>5. Same(v, x, P448)
    <3>1. v = x + 1 * P448 /\ 1 \in Int
      BY <1>1, <1>6, <2>4
    <3> QED
      BY <3>1 DEF Same
  <2>6. v % P448 = x
    BY <1>1, <1>6, <2>4, <2>5, ModIs
  <2> QED
    BY <1>3, <1>6, <1>9, <2>6 DEF c
<1> QED
  BY <1>8, <1>9

\* Two numbers added: the carry is a bit.
LEMMA TwoAdded44 ==
    ASSUME NEW u, Digits(u, Base448, Words448), NEW v, Digits(v, Base448, Words448)
    PROVE  LET s == Rippled(Plus(u, v), 0, Base448)
           IN /\ Digits(s.words, Base448, Words448) /\ s.carry \in {0, 1}
              /\ Val(u, Base448, Words448) + Val(v, Base448, Words448)
                   = Val(s.words, Base448, Words448) + s.carry * Range448
<1> DEFINE W == Words448
           B == Base448
           N == Range448
           f == Plus(u, v)
           s == Rippled(f, 0, B)
           a == Val(u, B, W)
           b == Val(v, B, W)
<1>1. W \in Nat /\ BaseOK(B) /\ N \in Nat /\ N # 0 /\ N = Pow(B, W)
  BY Sizes44, Numbers44
<1>2. /\ IsSeq(f) /\ Len(f) = W /\ \A i \in 1 .. W : f[i] \in Int
      /\ Val(f, B, W) = a + b
  BY <1>1, PlusVal
<1>3. a \in Nat /\ a < N /\ b \in Nat /\ b < N
  BY <1>1, DigitsRange
<1> HIDE DEF f
<1>4. /\ Digits(s.words, B, W) /\ s.carry \in Int
      /\ Val(f, B, W) + 0 = Val(s.words, B, W) + s.carry * N
  <2>1. 0 \in Int /\ W \in Nat /\ BaseOK(B) /\ N = Pow(B, W)
    BY <1>1
  <2>2. IsSeq(f) /\ Len(f) = W /\ \A i \in 1 .. W : f[i] \in Int
    BY <1>2
  <2> QED
    BY <2>1, <2>2, RippleFacts
<1> DEFINE x == Val(s.words, B, W)
           c == s.carry
           e == c * N
<1>5. x \in Nat /\ x < N /\ c \in Int
  BY <1>1, <1>4, DigitsRange
<1> HIDE DEF s, a, b
<1>6. e \in Int /\ a + b = x + e
  <2>1. e \in Int
    BY <1>1, <1>5
  <2> QED
    BY <1>2, <1>3, <1>4, <2>1
<1> HIDE DEF x, c, N
<1>7. c = 0 \/ c = 1
  <2>1. CASE c < 0
    <3>1. e <= -N
      BY <1>1, <1>5, <2>1
    <3> HIDE DEF e
    <3> QED
      BY <1>1, <1>3, <1>5, <1>6, <3>1
  <2>2. CASE c > 1
    <3>1. 2 * N <= e
      BY <1>1, <1>5, <2>2
    <3> HIDE DEF e
    <3> QED
      BY <1>1, <1>3, <1>5, <1>6, <3>1
  <2> QED
    BY <1>5, <2>1, <2>2
<1> QED
  BY <1>4, <1>6, <1>7 DEF s, f, x, c, e, a, b, N

\* One fold: the upper words once at each place.
LEMMA FoldedIs ==
    ASSUME NEW tmp, Digits(tmp, Base448, Words448 + Words448)
    PROVE  LET W == Words448
               l == SubSeq(tmp, 1, W)
               r == SubSeq(tmp, W + 1, W + W)
           IN /\ Digits(Folded(tmp), Base448, W + W)
              /\ Val(Folded(tmp), Base448, W + W)
                   = Val(l, Base448, W) + Val(r, Base448, W) * (Root448 + 1)
<1> DEFINE W == Words448
           B == Base448
           N == Range448
           K == Root448
           H == Half
           l == SubSeq(tmp, 1, W)
           r == SubSeq(tmp, W + 1, W + W)
           low == Rippled(Plus(l, r), 0, B)
           z == [i \in 1 .. W - 1 |-> 0]
           once == low.words \o <<low.carry>> \o z
           front == SubSeq(once, 1, H)
           mid == SubSeq(once, H + 1, H + W)
           high == Rippled(Plus(mid, r), 0, B)
           y == [i \in 1 .. H - 1 |-> 0]
           result == front \o high.words \o <<high.carry>> \o y
<1>0. /\ W \in Nat /\ H \in Nat /\ 1 \in Nat /\ BaseOK(B) /\ B \in Nat /\ B # 0 /\ W - 1 \in Nat
      /\ H - 1 \in Nat /\ W + 1 \in Nat /\ H + W \in Nat /\ (H + W) + 1 \in Nat /\ W + W \in Nat
  BY Sizes44
<1>1. /\ W \in Nat /\ H \in Nat /\ W = H + H /\ W - 1 \in Nat /\ H - 1 \in Nat /\ 1 \in Nat
      /\ W + 1 \in Nat /\ H + W \in Nat /\ (H + W) + 1 \in Nat /\ W + W \in Nat
      /\ (W + 1) + (W - 1) = W + W /\ ((H + W) + 1) + (H - 1) = W + W /\ (H + W) + H = W + W
      /\ 2 * W = W + W
      /\ BaseOK(B) /\ B \in Nat /\ B # 0 /\ 4 <= B /\ N \in Nat /\ N = Pow(B, W) /\ K \in Nat
      /\ K = Pow(B, H) /\ N = K * K
  BY Sizes44, Numbers44
<1>2. Folded(tmp) = result
  BY <1>1 DEF Folded
<1>3. Digits(l, B, W) /\ Digits(r, B, W)
  <2>1. Cut(tmp, l, r, B, W, W)
    BY <1>1, CutDigits
  <2> QED
    BY <2>1 DEF Cut
<1> HIDE DEF result, l, r
<1> DEFINE L == Val(l, B, W)
           R == Val(r, B, W)
<1>4. /\ Digits(low.words, B, W) /\ low.carry \in {0, 1}
      /\ L + R = Val(low.words, B, W) + low.carry * N
  BY <1>3, TwoAdded44
<1> HIDE DEF low
<1> DEFINE lw == low.words
           lc == low.carry
           one == lw \o <<lc>>
<1>5. Digits(<<lc>>, B, 1) /\ Val(<<lc>>, B, 1) = lc
  <2>1. lc \in Nat /\ lc < B
    BY <1>1, <1>4
  <2> QED
    BY <1>1, <2>1, OneDigit
<1>6. Digits(one, B, W + 1) /\ Val(one, B, W + 1) = Val(lw, B, W) + N * lc
  <2>1. Joined(one, lw, <<lc>>, B, W, 1)
    BY <1>0, <1>4, <1>5, JoinedIs
  <2>2. N = Pow(B, W)
    BY <1>1
  <2> QED
    BY <1>5, <2>1, <2>2 DEF Joined
<1>7. Digits(z, B, W - 1) /\ Val(z, B, W - 1) = 0 /\ \A i \in 1 .. W - 1 : z[i] = 0
  BY <1>1, ZeroDigits
<1>8. once = one \o z
  OBVIOUS
<1> HIDE DEF one, z, once
<1>9. /\ Digits(once, B, (W + 1) + (W - 1))
      /\ Val(once, B, (W + 1) + (W - 1)) = Val(one, B, W + 1) + Pow(B, W + 1) * Val(z, B, W - 1)
      /\ \A i \in 1 .. W - 1 : once[(W + 1) + i] = z[i]
  <2>1. Joined(once, one, z, B, W + 1, W - 1)
    BY <1>0, <1>6, <1>7, <1>8, JoinedIs
  <2> QED
    BY <2>1 DEF Joined
<1>10. L \in Nat /\ R \in Nat /\ Val(lw, B, W) \in Nat /\ lc \in Nat
  BY <1>1, <1>3, <1>4, DigitsRange
<1>11. Digits(once, B, W + W) /\ Val(once, B, W + W) = L + R
  <2>1. Pow(B, W + 1) \in Nat
    BY <1>1, PowNat
  <2>2. Pow(B, W + 1) * Val(z, B, W - 1) = 0
    BY <1>7, <2>1
  <2>3. N * lc = lc * N /\ N * lc \in Nat
    BY <1>1, <1>10
  <2>4. Val(one, B, W + 1) = L + R
    BY <1>4, <1>6, <2>3
  <2>5. L + R \in Nat
    BY <1>10
  <2> QED
    BY <1>1, <1>9, <2>2, <2>4, <2>5
<1>12. \A i \in 1 .. W + W : once[i] \in Nat /\ once[i] < B /\ once[i] \in Int
  BY <1>1, <1>11, DigitsInt
<1>13. /\ Digits(front, B, H) /\ Digits(mid, B, W)
       /\ Val(once, B, H + W) = Val(front, B, H) + K * Val(mid, B, W)
  <2>1. Len(once) = W + W /\ IsSeq(once)
    BY <1>11 DEF Digits
  <2> DEFINE part == SubSeq(once, 1, H + W)
  <2>2. IsSeq(front) /\ Len(front) = H /\ \A i \in 1 .. H : front[i] = once[i]
    BY <1>0, FrontFacts
  <2>3. IsSeq(mid) /\ Len(mid) = W /\ \A i \in 1 .. W : mid[i] = once[H + i]
    BY <1>0, SliceFacts
  <2> HIDE DEF front, mid
  <2>4. ASSUME NEW i \in 1 .. H PROVE front[i] \in Nat /\ front[i] < B /\ once[i] \in Int
    <3>1. i \in 1 .. W + W
      BY <1>1
    <3> QED
      BY <1>12, <2>2, <3>1
  <2>5. ASSUME NEW i \in 1 .. W
        PROVE  mid[i] \in Nat /\ mid[i] < B /\ mid[i] \in Int /\ once[H + i] = mid[i]
    <3>1. H + i \in 1 .. W + W
      BY <1>1
    <3> QED
      BY <1>12, <2>3, <3>1
  <2>6. Digits(front, B, H) /\ Digits(mid, B, W)
    BY <2>2, <2>3, <2>4, <2>5 DEF Digits
  <2>7. Val(once, B, H + W) = Val(once, B, H) + Pow(B, H) * Val(mid, B, W)
    <3>1. \A i \in 1 .. H : once[i] \in Int
      BY <2>4
    <3>2. \A i \in 1 .. W : mid[i] \in Int /\ once[H + i] = mid[i]
      BY <2>5
    <3>3. SplitAt(once, mid, B, H, W)
      BY <1>0, <3>1, <3>2, SplitIs
    <3> QED
      BY <3>3 DEF SplitAt
  <2>8. Val(front, B, H) = Val(once, B, H)
    BY <1>0, <2>2, ValSame
  <2> QED
    BY <1>1, <2>6, <2>7, <2>8
<1>14. Val(once, B, W + W) = Val(once, B, H + W)
  <2> DEFINE o == [i \in 1 .. H |-> 0]
  <2>1. Digits(o, B, H) /\ Val(o, B, H) = 0 /\ \A i \in 1 .. H : o[i] = 0
    BY <1>1, ZeroDigits
  <2> HIDE DEF o
  <2>2. ASSUME NEW i \in 1 .. H PROVE o[i] \in Int /\ once[(H + W) + i] = o[i]
    <3>1. H - 1 + i \in 1 .. W - 1 /\ (W + 1) + (H - 1 + i) = (H + W) + i
      BY <1>1
    <3>2. once[(W + 1) + (H - 1 + i)] = 0
      BY <1>7, <1>9, <3>1
    <3> QED
      BY <2>1, <3>1, <3>2
  <2>3. \A i \in 1 .. H + W : once[i] \in Int
    <3> TAKE i \in 1 .. H + W
    <3>1. i \in 1 .. W + W
      BY <1>1
    <3> QED
      BY <1>12, <3>1
  <2>4. \A i \in 1 .. H : o[i] \in Int /\ once[(H + W) + i] = o[i]
    BY <2>2
  <2>5. Val(once, B, (H + W) + H) = Val(once, B, H + W) + Pow(B, H + W) * Val(o, B, H)
    <3>1. SplitAt(once, o, B, H + W, H)
      BY <1>0, <2>3, <2>4, SplitIs
    <3> QED
      BY <3>1 DEF SplitAt
  <2>6. Pow(B, H + W) \in Nat /\ Val(once, B, H + W) \in Int
    BY <1>1, <2>3, PowNat, ValInt
  <2> QED
    BY <1>1, <2>1, <2>5, <2>6
<1> HIDE DEF front, mid
<1>15. /\ Digits(high.words, B, W) /\ high.carry \in {0, 1}
       /\ Val(mid, B, W) + R = Val(high.words, B, W) + high.carry * N
  BY <1>3, <1>13, TwoAdded44
<1> HIDE DEF high
<1> DEFINE hw == high.words
           hc == high.carry
           two == front \o hw
           three == two \o <<hc>>
<1>16. Digits(two, B, H + W) /\ Val(two, B, H + W) = Val(front, B, H) + K * Val(hw, B, W)
  <2>1. Joined(two, front, hw, B, H, W)
    BY <1>0, <1>13, <1>15, JoinedIs
  <2>2. K = Pow(B, H)
    BY <1>1
  <2> QED
    BY <2>1, <2>2 DEF Joined
<1>17. Digits(<<hc>>, B, 1) /\ Val(<<hc>>, B, 1) = hc
  <2>1. hc \in Nat /\ hc < B
    BY <1>1, <1>15
  <2> QED
    BY <1>1, <2>1, OneDigit
<1>18. result = three \o y
  BY DEF result
<1> HIDE DEF two
<1>19. /\ Digits(three, B, (H + W) + 1)
       /\ Val(three, B, (H + W) + 1) = Val(two, B, H + W) + Pow(B, H + W) * hc
  <2>1. Joined(three, two, <<hc>>, B, H + W, 1)
    BY <1>0, <1>16, <1>17, JoinedIs
  <2> QED
    BY <1>17, <2>1 DEF Joined
<1>20. Digits(y, B, H - 1) /\ Val(y, B, H - 1) = 0
  BY <1>1, ZeroDigits
<1> HIDE DEF three, y
<1>21. /\ Digits(result, B, ((H + W) + 1) + (H - 1))
       /\ Val(result, B, ((H + W) + 1) + (H - 1))
            = Val(three, B, (H + W) + 1) + Pow(B, (H + W) + 1) * Val(y, B, H - 1)
  <2>1. Joined(result, three, y, B, (H + W) + 1, H - 1)
    BY <1>0, <1>18, <1>19, <1>20, JoinedIs
  <2> QED
    BY <2>1 DEF Joined
<1>22. Pow(B, (H + W) + 1) \in Nat /\ Pow(B, H + W) = K * N
  <2>1. Pow(B, (H + W) + 1) \in Nat
    BY <1>0, PowNat
  <2>2. Pow(B, H + W) = Pow(B, H) * Pow(B, W)
    BY <1>0, PowAdd
  <2>3. K = Pow(B, H) /\ N = Pow(B, W)
    BY <1>1
  <2> QED
    BY <2>1, <2>2, <2>3
<1> DEFINE F == Val(front, B, H)
           M == Val(mid, B, W)
           G == Val(hw, B, W)
<1>23. F \in Nat /\ M \in Nat /\ G \in Nat /\ hc \in Nat
  BY <1>1, <1>13, <1>15, DigitsRange
<1>24. Digits(result, B, W + W) /\ Val(result, B, W + W) = (F + K * G) + (K * N) * hc
  <2>1. Pow(B, (H + W) + 1) * Val(y, B, H - 1) = 0
    BY <1>20, <1>22
  <2>2. Val(three, B, (H + W) + 1) = (F + K * G) + (K * N) * hc
    BY <1>16, <1>19, <1>22
  <2>3. (F + K * G) + (K * N) * hc \in Int
    BY <1>1, <1>23
  <2> QED
    BY <1>1, <1>21, <2>1, <2>2, <2>3
<1>25. L + R = F + K * M /\ M + R = G + hc * N
  BY <1>11, <1>13, <1>14, <1>15
<1> HIDE DEF F, M, G, L, R, hc, K, N
<1>26. (F + K * G) + (K * N) * hc = L + R * (K + 1)
  <2>1. K * (M + R) = K * G + (K * N) * hc
    <3>1. K * (G + hc * N) = K * G + (K * N) * hc
      BY <1>1, <1>23
    <3> QED
      BY <1>25, <3>1
  <2>2. K * (M + R) = K * M + K * R /\ R * (K + 1) = K * R + R
    BY <1>1, <1>10, <1>23
  <2> DEFINE a == K * (M + R)
             b == K * G
             c == (K * N) * hc
             d == K * M
             e == K * R
             f == R * (K + 1)
  <2>3. a \in Int /\ b \in Int /\ c \in Int /\ d \in Int /\ e \in Int /\ f \in Int
    BY <1>1, <1>10, <1>23
  <2>4. a = b + c /\ a = d + e /\ f = e + R /\ L + R = F + d
    BY <1>25, <2>1, <2>2
  <2> HIDE DEF a, b, c, d, e, f
  <2>5. (F + b) + c = L + f
    BY <1>10, <1>23, <2>3, <2>4
  <2> QED
    BY <2>5 DEF b, c, f
<1> QED
  BY <1>2, <1>24, <1>26 DEF L, R, K, l, r

\* A row of F448::mul is the second factor at the weight of the word.
LEMMA Row44Is ==
    ASSUME NEW v, Digits(v, Base448, Words448), NEW j \in 1 .. Words448
    PROVE  Row(Row448(v, j), Words448 + Words448, Base448, Val(v, Base448, Words448), j, 0,
               Range448 * Range448)
<1> DEFINE W == Words448
           B == Base448
           r == Row448(v, j)
           m == j - 1
           n == W - j + 1
           x == Val(v, B, W)
           o == [i \in 1 .. n |-> 0]
<1>1. /\ W \in Nat /\ m \in Nat /\ n \in Nat /\ m + W \in Nat /\ W + W \in Nat /\ BaseOK(B)
      /\ B \in Nat /\ B # 0
  BY Sizes44
<1>2. (m + W) + n = W + W /\ m + W <= W + W
  BY <1>1
<1>3. \A i \in 1 .. W : v[i] \in Nat /\ v[i] < B /\ v[i] \in Int
  BY <1>1, DigitsInt
<1>4. ASSUME NEW i \in 1 .. W + W
      PROVE  r[i] = IF i - j + 1 \in 1 .. W THEN v[i - j + 1] ELSE 0
  <2>1. 2 * W = W + W
    BY <1>1
  <2> QED
    BY <2>1 DEF Row448
<1> HIDE DEF r
<1>5. ASSUME NEW i \in 1 .. W + W PROVE r[i] \in Nat /\ r[i] < B /\ r[i] \in Int
  <2>1. 0 \in Nat /\ 0 < B
    BY <1>1
  <2> QED
    BY <1>3, <1>4, <2>1
<1>6. ASSUME NEW i \in 1 .. m PROVE r[i] = 0
  <2>1. i \in 1 .. W + W /\ ~(i - j + 1 \in 1 .. W)
    BY <1>1
  <2> QED
    BY <1>4, <2>1
<1>7. ASSUME NEW i \in 1 .. W PROVE v[i] \in Int /\ r[m + i] = v[i]
  <2>1. m + i \in 1 .. W + W /\ (m + i) - j + 1 = i
    BY <1>1
  <2> QED
    BY <1>3, <1>4, <2>1
<1>8. Digits(o, B, n) /\ Val(o, B, n) = 0 /\ \A i \in 1 .. n : o[i] = 0
  BY <1>1, ZeroDigits
<1> HIDE DEF o
<1>9. ASSUME NEW i \in 1 .. n PROVE o[i] \in Int /\ r[(m + W) + i] = o[i]
  <2>1. (m + W) + i \in 1 .. W + W /\ ~(((m + W) + i) - j + 1 \in 1 .. W)
    BY <1>1
  <2>2. r[(m + W) + i] = 0
    BY <1>4, <2>1
  <2> QED
    BY <1>8, <2>2
<1> HIDE DEF m, n
<1>10. \A i \in 1 .. m : r[i] \in Int
  BY <1>6
<1>11. \A i \in 1 .. m + W : r[i] \in Int
  <2> TAKE i \in 1 .. m + W
  <2>1. i \in 1 .. W + W
    BY <1>1, <1>2
  <2> QED
    BY <1>5, <2>1
<1>12. SplitAt(r, v, B, m, W)
  <2>1. \A i \in 1 .. W : v[i] \in Int /\ r[m + i] = v[i]
    BY <1>7
  <2> QED
    BY <1>1, <1>10, <2>1, SplitIs
<1>13. SplitAt(r, o, B, m + W, n)
  <2>1. \A i \in 1 .. n : o[i] \in Int /\ r[(m + W) + i] = o[i]
    BY <1>9
  <2> QED
    BY <1>1, <1>11, <2>1, SplitIs
<1>14. Val(r, B, m) = 0
  <2>1. \A i \in 1 .. m : r[i] = 0
    BY <1>6
  <2> QED
    BY <1>1, <2>1, ValZero
<1> DEFINE p == Pow(B, m)
           q == Pow(B, m + W)
           y == Val(r, B, W + W)
<1>15. p \in Nat /\ q \in Nat
  BY <1>1, PowNat
<1>16. x \in Nat
  BY <1>1, DigitsRange
<1>17. Val(r, B, m + W) = 0 + p * x
  BY <1>12, <1>14 DEF SplitAt
<1>18. Val(r, B, (m + W) + n) = Val(r, B, m + W) + q * Val(o, B, n)
  BY <1>13 DEF SplitAt
<1>19. Val(r, B, (m + W) + n) = y
  BY <1>2
<1> HIDE DEF p, q, x, y
<1>20. y = x * p
  <2>1. q * Val(o, B, n) = 0
    BY <1>8, <1>15
  <2>2. p * x \in Int /\ p * x = x * p
    BY <1>15, <1>16
  <2> QED
    BY <1>17, <1>18, <1>19, <2>1, <2>2
<1>21. x * p \in Nat
  BY <1>15, <1>16
<1>22. Same(y, x * p, 0)
  <2>1. 0 \in Nat
    OBVIOUS
  <2> QED
    BY <1>20, <1>21, <2>1, SameSelf
<1>23. y \in Nat /\ y <= Range448 * Range448
  <2>1. \A i \in 1 .. W + W : r[i] \in Nat /\ r[i] < B
    BY <1>5
  <2>2. y \in Nat /\ y < Pow(B, W + W)
    BY <1>1, <2>1, ValRange DEF y
  <2>3. Pow(B, W + W) = Pow(B, W) * Pow(B, W)
    BY <1>1, PowAdd
  <2>4. Pow(B, W) = Range448 /\ Range448 * Range448 \in Nat
    BY Numbers44
  <2> QED
    BY <2>2, <2>3, <2>4
<1>24. \A i \in 1 .. W + W : r[i] \in Int
  BY <1>5
<1> QED
  BY <1>22, <1>23, <1>24 DEF Row, x, p, y, r, m

\* Parts and bounds of the steps of F448::mul.
LEMMA Cut44 ==
    ASSUME NEW w, Digits(w, Base448, Words448 + Words448)
    PROVE  LET l == SubSeq(w, 1, Words448)
               r == SubSeq(w, Words448 + 1, Words448 + Words448)
           IN /\ Digits(l, Base448, Words448) /\ Digits(r, Base448, Words448)
              /\ r[1] = w[Words448 + 1]
              /\ Val(l, Base448, Words448) \in Nat /\ Val(l, Base448, Words448) < Range448
              /\ Val(r, Base448, Words448) \in Nat /\ Val(r, Base448, Words448) < Range448
              /\ Val(w, Base448, Words448 + Words448)
                   = Val(l, Base448, Words448) + Val(r, Base448, Words448) * Range448
<1> DEFINE W == Words448
           B == Base448
           l == SubSeq(w, 1, W)
           r == SubSeq(w, W + 1, W + W)
<1>1. W \in Nat /\ W # 0 /\ BaseOK(B) /\ Range448 = Pow(B, W) /\ Range448 \in Nat /\ 1 \in 1 .. W
  BY Sizes44, Numbers44
<1>2. Cut(w, l, r, B, W, W)
  BY <1>1, CutDigits
<1> HIDE DEF l, r
<1>3. /\ Digits(l, B, W) /\ Digits(r, B, W) /\ r[1] = w[W + 1]
      /\ Val(w, B, W + W) = Val(l, B, W) + Range448 * Val(r, B, W)
  BY <1>1, <1>2 DEF Cut
<1>4. /\ Val(l, B, W) \in Nat /\ Val(l, B, W) < Range448
      /\ Val(r, B, W) \in Nat /\ Val(r, B, W) < Range448
  BY <1>1, <1>3, DigitsRange
<1> DEFINE x == Val(r, B, W)
<1> HIDE DEF x
<1>5. Range448 * x = x * Range448
  BY <1>1, <1>4 DEF x
<1> QED
  BY <1>3, <1>4, <1>5 DEF l, r, x

\* One fold in numbers, of a number below k + 1 times the range.
LEMMA FoldBound ==
    ASSUME NEW l \in Nat, NEW r \in Nat, NEW N \in Nat, N # 0, l < N, NEW k \in Nat,
           l + r * N < (k + 1) * N
    PROVE  r <= k
<1> SUFFICES ASSUME k + 1 <= r PROVE FALSE
  OBVIOUS
<1>1. (k + 1) * N <= r * N
  OBVIOUS
<1> DEFINE a == (k + 1) * N
           b == r * N
<1>2. a \in Nat /\ b \in Nat /\ a <= b /\ l + b < a
  BY <1>1
<1> HIDE DEF a, b
<1> QED
  BY <1>2

\* A multiple of a smaller number is smaller.
LEMMA Times44 ==
    ASSUME NEW r \in Nat, NEW k \in Nat, r <= k, NEW K \in Nat
    PROVE  r * (K + 1) \in Nat /\ r * (K + 1) <= k * (K + 1)
<1> DEFINE m == K + 1
<1>1. m \in Nat
  OBVIOUS
<1> HIDE DEF m
<1>2. r * m \in Nat /\ r * m <= k * m
  BY <1>1
<1> QED
  BY <1>2 DEF m

\* F448::mul gives the product: two big reductions and two small ones
\* suffice.
LEMMA MulIs44 ==
    ASSUME NEW a \in Nat, a < Range448, NEW b \in Nat, b < Range448
    PROVE  LET r == Mul448(a, b)
           IN r \in Nat /\ r < Range448 /\ Same(r, a * b, P448)
<1> DEFINE W == Words448
           B == Base448
           N == Range448
           K == Root448
           p == P448
           u == Words44(a)
           v == Words44(b)
           rows == [j \in 1 .. W |-> Row448(v, j)]
           c == Columns(u, rows, W, W, W + W)
           product == Rippled(c, 0, B)
           t0 == product.words
           t1 == Folded(t0)
           t2 == Folded(t1)
           once == Reduce448(SubSeq(t2, 1, W), t2[W + 1])
           twice == Reduce448(once.words, once.carry)
<1>1. /\ W \in Nat /\ W + W \in Nat /\ BaseOK(B) /\ B \in Nat /\ 4 <= B /\ p \in Nat
      /\ K \in Nat /\ 4 <= K /\ N \in Nat /\ N # 0 /\ N = K * K /\ 4 * K <= N /\ N = Pow(B, W)
  BY Sizes44, Numbers44
<1>2. Digits(u, B, W) /\ Val(u, B, W) = a /\ Digits(v, B, W) /\ Val(v, B, W) = b
  BY <1>1, Words44Are
<1>3. Mul448(a, b) = Number44(twice.words)
  <2> DEFINE col(i) == Sum([j \in 1 .. W |-> u[j] * Row448(v, j)[i]], W)
             m == [i \in 1 .. 2 * W |-> col(i)]
             n == Rippled(m, 0, B)
             f == Folded(Folded(n.words))
             g == Reduce448(SubSeq(f, 1, W), f[W + 1])
  <2>1. ASSUME NEW i \in 1 .. W + W PROVE Column(u, rows, i, W) =
            [j \in 1 .. W |-> u[j] * Row448(v, j)[i]]
    BY DEF Column
  <2>2. 2 * W = W + W
    BY <1>1
  <2>3. c = m
    BY <2>1, <2>2 DEF Columns
  <2>4. Mul448(a, b) = Number44(Reduce448(g.words, g.carry).words)
    BY DEF Mul448
  <2> HIDE DEF c, m
  <2> QED
    BY <2>3, <2>4
<1>4. ASSUME NEW j \in 1 .. W PROVE Row(rows[j], W + W, B, b, j, 0, N * N)
  <2>1. rows[j] = Row448(v, j)
    OBVIOUS
  <2> HIDE DEF v, rows
  <2> QED
    BY <1>2, <2>1, Row44Is
<1>5. c = [i \in 1 .. W + W |-> c[i]]
  BY DEF Columns
<1> HIDE DEF u, v, rows
<1>6. /\ \A i \in 1 .. W + W : c[i] \in Int
      /\ Val(c, B, W + W) \in Nat /\ Same(Val(c, B, W + W), a * b, 0)
  <2>1. \A j \in 1 .. W : u[j] \in Nat /\ u[j] < B
    BY <1>2 DEF Digits
  <2>2. 0 \in Nat /\ N * N \in Nat
    BY <1>1
  <2> QED
    BY <1>1, <1>2, <1>4, <2>1, <2>2, ColumnsAre
<1> HIDE DEF c
<1>7. IsSeq(c) /\ Len(c) = W + W
  BY <1>1, <1>5, FunctionSeq
<1>8. Val(c, B, W + W) = a * b /\ a * b \in Nat
  <2>1. a * b \in Nat
    OBVIOUS
  <2> DEFINE y == a * b
  <2> HIDE DEF y
  <2>2. PICK k \in Int : Val(c, B, W + W) = y + k * 0
    BY <1>6 DEF Same, y
  <2>3. k * 0 = 0
    OBVIOUS
  <2> QED
    BY <2>1, <2>2, <2>3 DEF y
<1>9. a * b <= (N - 1) * (N - 1) /\ (N - 1) * (N - 1) < N * N
  <2>1. a * b <= a * (N - 1) /\ a * (N - 1) <= (N - 1) * (N - 1)
    BY <1>1
  <2>2. a * b \in Int /\ a * (N - 1) \in Int /\ (N - 1) * (N - 1) \in Int
    BY <1>1
  <2>3. (N - 1) * (N - 1) < N * N
    BY <1>1
  <2> QED
    BY <2>1, <2>2, <2>3
<1>10. Digits(t0, B, W + W) /\ Val(t0, B, W + W) = a * b
  <2>1. 0 \in Int
    OBVIOUS
  <2>2. /\ Digits(t0, B, W + W)
        /\ Val(t0, B, W + W) = (Val(c, B, W + W) + 0) % Pow(B, W + W)
    BY <1>1, <1>6, <1>7, <2>1, RippleIs
  <2> HIDE DEF product
  <2>3. Pow(B, W + W) = Pow(B, W) * Pow(B, W)
    <3>1. W \in Nat /\ B \in Nat /\ B # 0
      BY <1>1
    <3> QED
      BY <3>1, PowAdd
  <2>4. Pow(B, W + W) = N * N
    BY <1>1, <2>3
  <2> DEFINE y == a * b
             m == N * N
             n == (N - 1) * (N - 1)
  <2>5. y \in Nat /\ m \in Nat /\ n \in Int
    BY <1>1
  <2>6. y <= n /\ n < m /\ Val(c, B, W + W) = y /\ Pow(B, W + W) = m
    BY <1>8, <1>9, <2>4
  <2> HIDE DEF y, m, n
  <2>7. y \in Nat /\ y < m /\ y + 0 = y
    BY <2>5, <2>6
  <2>8. y % m = y
    BY <2>5, <2>7
  <2> QED
    BY <2>2, <2>6, <2>7, <2>8 DEF y
<1> HIDE DEF product
<1> DEFINE L(w) == Val(SubSeq(w, 1, W), B, W)
           R(w) == Val(SubSeq(w, W + 1, W + W), B, W)
           X(w) == Val(w, B, W + W)
<1>11. Digits(t1, B, W + W) /\ X(t1) = L(t0) + R(t0) * (K + 1)
  BY <1>10, FoldedIs
<1>12. /\ L(t0) \in Nat /\ L(t0) < N /\ R(t0) \in Nat /\ X(t0) = L(t0) + R(t0) * N
  BY <1>10, Cut44
<1> HIDE DEF t1
<1>13. Digits(t2, B, W + W) /\ X(t2) = L(t1) + R(t1) * (K + 1)
  BY <1>11, FoldedIs
<1>14. /\ L(t1) \in Nat /\ L(t1) < N /\ R(t1) \in Nat /\ X(t1) = L(t1) + R(t1) * N
  BY <1>11, Cut44
<1> HIDE DEF t2
<1>15. /\ L(t2) \in Nat /\ L(t2) < N /\ R(t2) \in Nat /\ X(t2) = L(t2) + R(t2) * N
       /\ Digits(SubSeq(t2, 1, W), B, W)
  BY <1>13, Cut44
<1> DEFINE l0 == L(t0)
           l1 == L(t1)
           l2 == L(t2)
           r0 == R(t0)
           r1 == R(t1)
           r2 == R(t2)
           x0 == X(t0)
           x1 == X(t1)
           x2 == X(t2)
<1>16. /\ l0 \in Nat /\ l0 < N /\ r0 \in Nat /\ x0 = l0 + r0 * N
       /\ l1 \in Nat /\ l1 < N /\ r1 \in Nat /\ x1 = l1 + r1 * N
       /\ l2 \in Nat /\ l2 < N /\ r2 \in Nat /\ x2 = l2 + r2 * N
       /\ x1 = l0 + r0 * (K + 1) /\ x2 = l1 + r1 * (K + 1) /\ x0 = a * b
  BY <1>10, <1>11, <1>12, <1>13, <1>14, <1>15
<1> HIDE DEF L, R, X
<1> HIDE DEF l0, l1, l2, r0, r1, r2, x0, x1, x2
<1> USE DEF L, R, X
<1>17. r0 <= N - 2
  <2>1. N - 2 \in Nat /\ (N - 2) + 1 = N - 1
    BY <1>1
  <2>2. l0 + r0 * N < ((N - 2) + 1) * N
    <3>1. (N - 1) * (N - 1) < (N - 1) * N
      BY <1>1
    <3> DEFINE y == a * b
               m == (N - 1) * (N - 1)
               n == (N - 1) * N
    <3>2. y \in Int /\ m \in Int /\ n \in Int
      BY <1>1
    <3>3. y <= m /\ m < n
      BY <1>9, <3>1
    <3> HIDE DEF y, m, n
    <3>4. y < n
      BY <3>2, <3>3
    <3> QED
      BY <1>16, <2>1, <3>4 DEF y, n
  <2> QED
    BY <1>1, <1>16, <2>1, <2>2, FoldBound
<1>18. r1 <= K + 1
  <2>1. r0 * (K + 1) \in Nat /\ r0 * (K + 1) <= (N - 2) * (K + 1)
    <3>1. N - 2 \in Nat
      BY <1>1
    <3> QED
      BY <1>1, <1>16, <1>17, <3>1, Times44
  <2>2. (N - 2) * (K + 1) = N * (K + 1) - 2 * (K + 1) /\ N * (K + 1) + N = ((K + 1) + 1) * N
    BY <1>1
  <2> DEFINE y == r0 * (K + 1)
             m == (N - 2) * (K + 1)
             n == N * (K + 1)
             o == ((K + 1) + 1) * N
  <2>3. /\ y \in Nat /\ y <= m /\ m = n - 2 * (K + 1) /\ n + N = o /\ m \in Int /\ n \in Int
        /\ o \in Int
    BY <1>1, <2>1, <2>2
  <2>4. x1 = l0 + y
    BY <1>16
  <2> HIDE DEF y, m, n, o
  <2>5. x1 < o
    BY <1>1, <1>16, <2>3, <2>4
  <2>6. l1 + r1 * N < ((K + 1) + 1) * N
    BY <1>16, <2>5 DEF o
  <2>7. K + 1 \in Nat
    BY <1>1
  <2> QED
    BY <1>1, <1>16, <2>6, <2>7, FoldBound
<1>19. r2 <= 2 /\ x2 < 2 * N + N
  <2>1. K + 1 \in Nat
    BY <1>1
  <2>2. r1 * (K + 1) \in Nat /\ r1 * (K + 1) <= (K + 1) * (K + 1)
    BY <1>1, <1>16, <1>18, <2>1, Times44
  <2>3. (K + 1) * (K + 1) = N + 2 * K + 1
    BY <1>1
  <2> DEFINE y == r1 * (K + 1)
             m == (K + 1) * (K + 1)
  <2>4. y \in Nat /\ y <= m /\ m = N + 2 * K + 1 /\ x2 = l1 + y
    BY <1>16, <2>2, <2>3
  <2> HIDE DEF y, m
  <2>5. x2 < 2 * N + N
    BY <1>1, <1>16, <2>4
  <2>6. (2 + 1) * N = 2 * N + N
    BY <1>1
  <2>7. l2 + r2 * N < (2 + 1) * N /\ 2 \in Nat
    BY <1>16, <2>5, <2>6
  <2>8. r2 <= 2
    BY <1>1, <1>16, <2>7, FoldBound
  <2> QED
    BY <2>5, <2>8
<1>20. t2[W + 1] = r2
  <2> DEFINE w == SubSeq(t2, W + 1, W + W)
  <2>1. Digits(w, B, W) /\ w[1] = t2[W + 1] /\ Val(w, B, W) = r2
    BY <1>13, Cut44 DEF r2
  <2> HIDE DEF w
  <2>2. W # 0
    BY Sizes44
  <2>3. w[1] = r2 % B
    BY <1>1, <2>1, <2>2, FirstDigit
  <2>4. r2 \in Nat /\ r2 < B
    BY <1>1, <1>16, <1>19
  <2>5. r2 % B = r2
    BY <1>1, <2>4
  <2> QED
    BY <2>1, <2>3, <2>5
<1> DEFINE z == l2 + r2 * (K + 1)
<1>21. z \in Nat /\ z < 2 * N /\ z <= l2 + 2 * K + 2
  <2>1. r2 * (K + 1) \in Nat /\ r2 * (K + 1) <= 2 * (K + 1)
    BY <1>1, <1>16, <1>19, Times44
  <2> DEFINE y == r2 * (K + 1)
  <2>2. y \in Nat /\ y <= 2 * K + 2 /\ z = l2 + y
    BY <1>1, <2>1
  <2> HIDE DEF y, z
  <2> QED
    BY <1>1, <1>16, <2>2
<1>22. z = Val(SubSeq(t2, 1, W), B, W) + r2 * (K + 1)
  BY DEF l2
<1> HIDE DEF z
<1>23. /\ Digits(once.words, B, W) /\ once.carry \in {0, 1}
       /\ z = Val(once.words, B, W) + once.carry * N
  BY <1>15, <1>16, <1>20, <1>21, <1>22, Reduce448Is
<1> HIDE DEF once
<1> DEFINE y == Val(once.words, B, W)
           d == once.carry
           s == y + d * (K + 1)
<1>24. y \in Nat /\ y < N /\ d \in Nat
  BY <1>1, <1>23, DigitsRange
<1>25. z = y + d * N
  BY <1>23
<1> HIDE DEF y, d
<1>26. d = 0 \/ d = 1
  BY <1>23 DEF d
<1>27. s \in Nat /\ s < N
  <2>1. CASE d = 0
    BY <1>1, <1>24, <2>1
  <2>2. CASE d = 1
    <3>1. z = y + N /\ s = y + K + 1
      BY <1>1, <1>24, <1>25, <2>2
    <3> HIDE DEF s
    <3> QED
      BY <1>1, <1>16, <1>21, <1>24, <3>1
  <2> QED
    BY <1>26, <2>1, <2>2
<1>28. s = Val(once.words, B, W) + d * (K + 1)
  BY DEF y
<1>29. s = y + d * (K + 1)
  OBVIOUS
<1> HIDE DEF s
<1>30. s < 2 * N
  BY <1>1, <1>27
<1>31. /\ Digits(twice.words, B, W) /\ twice.carry \in {0, 1}
       /\ s = Val(twice.words, B, W) + twice.carry * N
  BY <1>23, <1>24, <1>27, <1>28, <1>30, Reduce448Is DEF d
<1>32. Mul448(a, b) = s
  <2>1. Val(twice.words, B, W) \in Nat
    BY <1>1, <1>31, DigitsRange
  <2>2. s = Val(twice.words, B, W)
    BY <1>1, <1>27, <1>31, <2>1
  <2> QED
    BY <1>3, <1>31, <2>2, Number44Is
<1>33. Same(s, a * b, p)
  <2>1. Same(x1, x0, p)
    BY <1>16, Fold44
  <2>2. Same(x2, x1, p)
    BY <1>16, Fold44
  <2>3. Same(z, x2, p)
    BY <1>16, Fold44 DEF z
  <2>4. Same(s, z, p)
    BY <1>24, <1>25, <1>29, Fold44
  <2>5. x0 \in Int /\ x1 \in Int /\ x2 \in Int /\ z \in Int /\ s \in Int
    <3>1. r0 * N \in Int /\ r1 * N \in Int /\ r2 * N \in Int
      BY <1>1, <1>16
    <3> QED
      BY <1>16, <1>21, <1>27, <3>1
  <2>6. Same(s, x2, p)
    BY <1>1, <2>3, <2>4, <2>5, SameTrans
  <2>7. Same(s, x1, p)
    BY <1>1, <2>2, <2>5, <2>6, SameTrans
  <2>8. Same(s, x0, p)
    BY <1>1, <2>1, <2>5, <2>7, SameTrans
  <2> QED
    BY <1>16, <2>8
<1> QED
  BY <1>27, <1>32, <1>33

-----------------------------------------------------------------------------
(* Fp8.                                                                    *)

\* A modulus of Fp8.
Modulus8(q) == q \in Nat /\ 2 <= q /\ 2 * q < Values8

\* The constants of Fp8.
LEMMA Sizes8 ==
    /\ ByteBits \in Nat /\ ByteBits # 0 /\ ByteCount \in Nat /\ ByteBits * ByteCount \in Nat
    /\ Values8 \in Nat /\ Values8 # 0 /\ Values8 = Pow(2, ByteBits * ByteCount)
    /\ \A q \in Primes : Modulus8(q)
<1>1. ByteBits \in Nat /\ ByteBits # 0 /\ ByteCount \in Nat
  BY FieldAssumption
<1> DEFINE n == ByteBits * ByteCount
<1>2. n \in Nat
  BY <1>1
<1> HIDE DEF n
<1>3. Pow(2, n) \in Nat /\ Pow(2, n) # 0
  BY <1>2, PowNat
<1>4. Values8 = Pow(2, n)
  BY DEF Values8, n
<1>5. \A q \in Primes : Modulus8(q)
  BY FieldAssumption DEF Modulus8
<1> QED
  BY <1>1, <1>2, <1>3, <1>4, <1>5 DEF n

\* Powers of two.
LEMMA PowTwo ==
    ASSUME NEW n \in Nat
    PROVE  /\ Pow(2, n) \in Nat /\ Pow(2, n) # 0 /\ Pow(2, n + 1) = 2 * Pow(2, n)
           /\ Pow(2, 0) = 1 /\ Pow(2, 1) = 2
<1>1. Pow(2, n) \in Nat /\ Pow(2, n) # 0
  BY PowNat
<1>2. Pow(2, n + 1) = Pow(2, n) * 2
  BY PowFacts
<1>3. Pow(2, 0) = 1
  BY PowFacts
<1>4. Pow(2, 1) = 2
  BY PowOne
<1> QED
  BY <1>1, <1>2, <1>3, <1>4

\* The highest bit of a modulus.
LEMMA MsbIs ==
    ASSUME NEW q, Modulus8(q)
    PROVE  /\ Msb(q) \in Nat /\ 1 <= Msb(q)
           /\ Pow(2, Msb(q)) <= q /\ q < Pow(2, Msb(q) + 1)
<1> DEFINE High(i) == Pow(2, i) <= q /\ q < Pow(2, i + 1)
           T == {n \in Nat : q < Pow(2, n + 1) => \E i \in 0 .. n : High(i)}
           k == ByteBits * ByteCount
<1>0. q \in Nat /\ 2 <= q /\ 2 * q < Values8
  BY DEF Modulus8
<1>1. 0 \in T
  <2>1. 0 \in Nat /\ Pow(2, 0) = 1
    BY PowTwo
  <2>2. Pow(2, 0) <= q /\ 0 \in 0 .. 0
    BY <1>0, <2>1
  <2> QED
    BY <2>1, <2>2
<1>2. ASSUME NEW n \in Nat, n \in T PROVE n + 1 \in T
  <2> SUFFICES ASSUME q < Pow(2, (n + 1) + 1) PROVE \E i \in 0 .. n + 1 : High(i)
    OBVIOUS
  <2>1. Pow(2, n + 1) \in Nat
    BY PowTwo
  <2>2. CASE Pow(2, n + 1) <= q
    <3>1. n + 1 \in 0 .. n + 1 /\ High(n + 1)
      BY <2>2
    <3> QED
      BY <3>1
  <2>3. CASE ~(Pow(2, n + 1) <= q)
    <3>1. q < Pow(2, n + 1)
      BY <1>0, <2>1, <2>3
    <3>2. PICK i \in 0 .. n : High(i)
      BY <1>2, <3>1
    <3>3. i \in 0 .. n + 1
      OBVIOUS
    <3> QED
      BY <3>2, <3>3
  <2> QED
    BY <2>2, <2>3
<1> HIDE DEF T
<1>3. k \in Nat /\ Values8 = Pow(2, k)
  BY Sizes8
<1> HIDE DEF k
<1>4. k \in T
  BY <1>1, <1>2, <1>3, Induction
<1>5. q < Pow(2, k + 1)
  <2>1. Pow(2, k + 1) = 2 * Pow(2, k) /\ Pow(2, k) \in Nat
    BY <1>3, PowTwo
  <2> QED
    BY <1>0, <1>3, <2>1
<1>6. \E i \in 0 .. k : High(i)
  BY <1>3, <1>4, <1>5 DEF T
<1>7. Msb(q) \in 0 .. k /\ High(Msb(q))
  BY <1>6 DEF Msb, k
<1>8. Msb(q) \in Nat
  BY <1>3, <1>7
<1>9. Msb(q) # 0
  <2> SUFFICES ASSUME Msb(q) = 0 PROVE FALSE
    OBVIOUS
  <2>1. q < Pow(2, 0 + 1)
    BY <1>7
  <2>2. Pow(2, 1) = 2
    BY PowOne
  <2> QED
    BY <1>0, <2>1, <2>2
<1> QED
  BY <1>7, <1>8, <1>9

\* fp_raw_try_sub() reduces what is below twice the modulus.
LEMMA TrySubIs ==
    ASSUME NEW q, Modulus8(q), NEW v \in Nat, v < 2 * q
    PROVE  TrySub(v, q) = v % q /\ TrySub(v, q) \in Nat /\ TrySub(v, q) < q
<1>0. q \in Nat /\ q # 0
  BY DEF Modulus8
<1>1. CASE v < q
  <2>1. v % q = v
    BY <1>0, <1>1
  <2> QED
    BY <1>1, <2>1 DEF TrySub
<1>2. CASE ~(v < q)
  <2> DEFINE r == v - q
  <2>1. r \in Nat /\ r < q /\ v = r + 1 * q /\ 1 \in Int
    BY <1>0, <1>2
  <2> HIDE DEF r
  <2>2. v % q = r
    BY <1>0, <2>1, DivModInt
  <2> QED
    BY <1>2, <2>1, <2>2 DEF TrySub, r
<1> QED
  BY <1>1, <1>2

\* What is below the modulus is its own remainder.
LEMMA SmallMod == ASSUME NEW v \in Nat, NEW m \in Nat, v < m PROVE v % m = v
OBVIOUS

\* A shift by one bit never overflows: moduli leave the top bit free.
LEMMA DoubledIs ==
    ASSUME NEW q, Modulus8(q), NEW v \in Nat, v < q
    PROVE  Shifted(v, 1) = 2 * v
<1>1. Pow(2, 1) = 2
  BY PowOne
<1>2. q \in Nat /\ 2 * q < Values8 /\ Values8 \in Nat
  BY Sizes8 DEF Modulus8
<1> DEFINE w == 2 * v
<1>3. w \in Nat /\ w < Values8 /\ v * 2 = w
  BY <1>2
<1> HIDE DEF w
<1>4. w % Values8 = w
  BY <1>2, <1>3, SmallMod
<1>5. Shifted(v, 1) = w
  BY <1>1, <1>3, <1>4 DEF Shifted
<1> QED
  BY <1>5 DEF w

\* Fp8::add gives the sum.
LEMMA AddIs8 ==
    ASSUME NEW q, Modulus8(q), NEW a \in Nat, a < q, NEW b \in Nat, b < q
    PROVE  /\ Add8(a, b, q) = (a + b) % q
           /\ Add8(a, b, q) \in Nat /\ Add8(a, b, q) < q
<1>1. q \in Nat /\ 2 * q < Values8 /\ Values8 \in Nat
  BY Sizes8 DEF Modulus8
<1> DEFINE s == a + b
<1>2. s \in Nat /\ s < 2 * q /\ s < Values8
  BY <1>1
<1> HIDE DEF s
<1>3. s % Values8 = s
  BY <1>1, <1>2, SmallMod
<1>4. Add8(a, b, q) = TrySub(s, q)
  BY <1>3 DEF Add8, s
<1>5. TrySub(s, q) = s % q /\ TrySub(s, q) \in Nat /\ TrySub(s, q) < q
  BY <1>2, TrySubIs
<1> QED
  BY <1>4, <1>5 DEF s

\* A bit, and what lies above it.
LEMMA BitIs ==
    ASSUME NEW v \in Nat, NEW i \in Nat
    PROVE  /\ Bit(v, i) \in {0, 1} /\ v \div Pow(2, i + 1) \in Nat
           /\ v \div Pow(2, i) = 2 * (v \div Pow(2, i + 1)) + Bit(v, i)
<1> DEFINE p == Pow(2, i)
           w == v \div p
           s == v % p
           h == w \div 2
           t == w % 2
<1>1. p \in Nat /\ p # 0 /\ Pow(2, i + 1) = 2 * p
  BY PowTwo
<1>2. Bit(v, i) = t
  BY DEF Bit, Above
<1> HIDE DEF p
<1>3. w \in Nat /\ s \in Nat /\ s < p /\ v = w * p + s
  BY <1>1, DivMod
<1> HIDE DEF w, s
<1>4. h \in Nat /\ t \in Nat /\ t < 2 /\ w = h * 2 + t
  BY <1>3
<1> HIDE DEF h, t
<1> DEFINE m == 2 * p
           r == t * p + s
<1>5. r \in Nat /\ r < m /\ m \in Nat /\ m # 0
  <2>1. t * p <= p /\ t * p \in Nat
    BY <1>1, <1>4
  <2> DEFINE e == t * p
  <2> HIDE DEF e
  <2> QED
    BY <1>1, <1>3, <2>1 DEF e
<1>6. v = h * m + r
  <2>1. (h * 2 + t) * p + s = h * (2 * p) + (t * p + s)
    BY <1>1, <1>3, <1>4
  <2> QED
    BY <1>3, <1>4, <2>1
<1> HIDE DEF r, m
<1>7. v \div m = h
  BY <1>4, <1>5, <1>6, DivModIs
<1>8. w = 2 * h + t
  BY <1>4
<1> QED
  BY <1>1, <1>2, <1>4, <1>7, <1>8 DEF m, w, p

\* One bit more: twice the remainder and the bit.
LEMMA BitAdded ==
    ASSUME NEW q, Modulus8(q), NEW d \in Nat, NEW e \in {0, 1}
    PROVE  TrySub(Shifted(d % q, 1) + e, q) = (2 * d + e) % q
<1> DEFINE r == d % q
           v == 2 * r + e
<1>1. q \in Nat /\ q # 0
  BY DEF Modulus8
<1>2. r \in Nat /\ r < q /\ Same(r, d, q)
  BY <1>1, ModSame
<1> HIDE DEF r
<1>3. Shifted(r, 1) = 2 * r
  BY <1>2, DoubledIs
<1>4. v \in Nat /\ v < 2 * q
  BY <1>1, <1>2
<1>5. TrySub(v, q) = v % q
  BY <1>4, TrySubIs
<1>6. Same(v, 2 * d + e, q)
  <2>1. PICK k \in Int : r = d + k * q
    BY <1>2 DEF Same
  <2>2. v = (2 * d + e) + (2 * k) * q /\ 2 * k \in Int
    BY <1>1, <1>2, <2>1
  <2> QED
    BY <2>2 DEF Same
<1>7. v % q = (2 * d + e) % q
  <2>1. 2 * d + e \in Int /\ v \in Int
    BY <1>4
  <2> HIDE DEF v
  <2> QED
    BY <1>1, <1>6, <2>1, SameMod
<1> QED
  BY <1>3, <1>5, <1>7 DEF r

\* Fp8::load, bit by bit: what lies above the bits that are left, reduced.
LEMMA LoadBitsRight ==
    ASSUME NEW q, Modulus8(q), NEW data \in Nat, NEW rest \in Nat, NEW first \in Nat, first < q,
           first = Above(data, rest), NEW n \in Nat, n <= rest
    PROVE  LoadBits(first, data, rest, q, n) = Above(data, rest - n) % q
<1> DEFINE R(i) == LoadBits(first, data, rest, q, i)
           T == {i \in Nat : i <= rest => R(i) = Above(data, rest - i) % q}
<1>0. q \in Nat /\ q # 0
  BY DEF Modulus8
<1>1. 0 \in T
  <2>1. R(0) = first /\ rest - 0 = rest
    BY LoadBitsFacts
  <2>2. first % q = first
    BY <1>0, SmallMod
  <2> QED
    BY <2>1, <2>2
<1>2. ASSUME NEW i \in Nat, i \in T PROVE i + 1 \in T
  <2> SUFFICES ASSUME i + 1 <= rest PROVE R(i + 1) = Above(data, rest - (i + 1)) % q
    OBVIOUS
  <2> DEFINE j == rest - (i + 1)
             d == Above(data, j + 1)
             e == Bit(data, j)
  <2>1. j \in Nat /\ j + 1 = rest - i
    OBVIOUS
  <2>2. R(i + 1) = TrySub(Shifted(R(i), 1) + Bit(data, rest - (i + 1)), q)
    BY LoadBitsFacts
  <2>3. R(i) = d % q
    BY <1>2, <2>1
  <2> HIDE DEF R
  <2>4. R(i + 1) = TrySub(Shifted(d % q, 1) + e, q)
    BY <2>2, <2>3
  <2> HIDE DEF j
  <2>5. e \in {0, 1} /\ d \in Nat /\ Above(data, j) = 2 * d + e
    BY <2>1, BitIs DEF Above
  <2> HIDE DEF d, e
  <2>6. R(i + 1) = (2 * d + e) % q
    BY <2>4, <2>5, BitAdded
  <2>7. R(i + 1) = Above(data, j) % q
    BY <2>5, <2>6
  <2> QED
    BY <2>7 DEF j, R
<1> HIDE DEF T
<1>3. n \in T
  BY <1>1, <1>2, Induction
<1> QED
  BY <1>3 DEF T

\* After the highest n bits their product is there.
MulBitsGood(a, b, q, n) ==
    /\ MulBits(a, b, q, n) = (a * Above(b, Msb(q) + 1 - n)) % q
    /\ MulBits(a, b, q, n) \in Nat /\ MulBits(a, b, q, n) < q

\* Fp8::mul, bit by bit.
LEMMA MulBitsRight ==
    ASSUME NEW q \in Nat, Modulus8(q), NEW a \in Nat, a < q, NEW b \in Nat, b < q,
           NEW n \in Nat, n <= Msb(q) + 1
    PROVE  MulBitsGood(a, b, q, n)
<1> DEFINE M == Msb(q)
           R(i) == MulBits(a, b, q, i)
           T == {i \in Nat : i <= M + 1 => R(i) = (a * Above(b, M + 1 - i)) % q
                                           /\ R(i) \in Nat /\ R(i) < q}
<1>0. q \in Nat /\ q # 0 /\ M \in Nat /\ q < Pow(2, M + 1) /\ M + 1 \in Nat
  BY MsbIs DEF Modulus8
<1>1. 0 \in T
  <2>1. R(0) = 0 /\ (M + 1) - 0 = M + 1
    BY <1>0, MulBitsFacts
  <2>2. Above(b, M + 1) = 0
    <3> DEFINE p == Pow(2, M + 1)
    <3>1. p \in Nat /\ p # 0
      BY <1>0, PowTwo
    <3> HIDE DEF p
    <3>2. b \div p = 0
      <4>1. b \in Nat /\ b < p /\ b = 0 * p + b /\ 0 \in Nat
        BY <1>0, <3>1 DEF p
      <4> QED
        BY <3>1, <4>1, DivModIs
    <3> QED
      BY <3>2 DEF p, Above
  <2>3. (a * 0) % q = 0
    BY <1>0
  <2> QED
    BY <1>0, <2>1, <2>2, <2>3
<1>2. ASSUME NEW i \in Nat, i \in T PROVE i + 1 \in T
  <2> SUFFICES ASSUME i + 1 <= M + 1
               PROVE  /\ R(i + 1) = (a * Above(b, M + 1 - (i + 1))) % q
                      /\ R(i + 1) \in Nat /\ R(i + 1) < q
    OBVIOUS
  <2> DEFINE j == M + 1 - (i + 1)
             d == Above(b, j + 1)
             e == Bit(b, j)
             r == R(i)
             y == TrySub(Shifted(r, 1), q)
  <2>1. j \in Nat /\ j + 1 = M + 1 - i /\ i <= M + 1
    BY <1>0
  <2>2. R(i + 1) = WithBit(r, a, b, q, i + 1)
    BY MulBitsFacts
  <2>3. WithBit(r, a, b, q, i + 1) = IF Bit(b, M + 1 - (i + 1)) = 1 THEN Add8(y, a, q) ELSE y
    BY DEF WithBit
  <2>4. r = (a * d) % q /\ r \in Nat /\ r < q
    BY <1>2, <2>1
  <2> HIDE DEF R, r
  <2>5. R(i + 1) = IF e = 1 THEN Add8(y, a, q) ELSE y
    BY <2>2, <2>3 DEF r
  <2> HIDE DEF j
  <2>6. e \in {0, 1} /\ d \in Nat /\ Above(b, j) = 2 * d + e
    BY <2>1, BitIs DEF Above
  <2> HIDE DEF d, e
  <2>7. Shifted(r, 1) = 2 * r
    BY <2>4, DoubledIs
  <2>8. y = (2 * r) % q /\ y \in Nat /\ y < q
    <3>1. 2 * r \in Nat /\ 2 * r < 2 * q
      BY <1>0, <2>4
    <3> QED
      BY <2>7, <3>1, TrySubIs
  <2> HIDE DEF y
  <2> DEFINE z == a * d
  <2>9. z \in Nat
    BY <2>6
  <2>10. a * (2 * d + e) = 2 * z + a * e /\ a * (2 * d + e) \in Nat
    BY <2>6
  <2> HIDE DEF z
  <2>11. Same(y, 2 * z, q)
    <3>1. Same(r, z, q)
      BY <1>0, <2>4, <2>9, ModSame DEF z
    <3>2. PICK k \in Int : r = z + k * q
      BY <3>1 DEF Same
    <3>3. Same(y, 2 * r, q)
      <4>1. 2 * r \in Int
        BY <2>4
      <4> QED
        BY <1>0, <2>8, <4>1, ModSame
    <3>4. PICK l \in Int : y = 2 * r + l * q
      BY <3>3 DEF Same
    <3>5. y = 2 * z + (2 * k + l) * q /\ 2 * k + l \in Int
      <4>1. (2 * k + l) * q = 2 * (k * q) + l * q
        BY <1>0
      <4> DEFINE f == k * q
                 g == l * q
                 h == (2 * k + l) * q
      <4>2. f \in Int /\ g \in Int /\ h \in Int
        BY <1>0
      <4>3. h = 2 * f + g /\ r = z + f /\ y = 2 * r + g
        BY <3>2, <3>4, <4>1
      <4> HIDE DEF f, g, h
      <4>4. y = 2 * z + h
        BY <2>4, <2>8, <2>9, <4>2, <4>3
      <4> QED
        BY <4>4 DEF h
    <3> QED
      BY <3>5 DEF Same
  <2>12. CASE e = 0
    <3>1. R(i + 1) = y
      BY <2>5, <2>12
    <3>2. a * e = 0 /\ 2 * z \in Int
      BY <2>9, <2>12
    <3>3. (2 * z) % q = y
      <4> DEFINE f == 2 * z
      <4>1. f \in Int /\ y \in Int /\ Same(y, f, q)
        BY <2>8, <2>9, <2>11
      <4> HIDE DEF f
      <4>2. f % q = y % q
        BY <1>0, <4>1, SameMod
      <4>3. y % q = y
        BY <1>0, <2>8, SmallMod
      <4> QED
        BY <4>2, <4>3 DEF f
    <3>4. a * (2 * d + e) = 2 * z
      BY <2>9, <2>10, <3>2
    <3> QED
      BY <2>6, <2>8, <3>1, <3>3, <3>4 DEF j
  <2>13. CASE e = 1
    <3>1. R(i + 1) = Add8(y, a, q)
      BY <2>5, <2>13
    <3>2. /\ Add8(y, a, q) = (y + a) % q
          /\ Add8(y, a, q) \in Nat /\ Add8(y, a, q) < q
      BY <2>8, AddIs8
    <3>3. a * (2 * d + e) = 2 * z + a
      BY <2>9, <2>10, <2>13
    <3>4. Same(y + a, 2 * z + a, q)
      <4>1. Same(a, a, q) /\ 2 * z \in Int
        BY <1>0, <2>9, SameSelf
      <4> QED
        BY <1>0, <2>8, <2>11, <4>1, SameSum
    <3>5. (y + a) % q = (2 * z + a) % q
      <4> DEFINE f == y + a
                 g == 2 * z + a
      <4>1. f \in Int /\ g \in Int /\ Same(f, g, q)
        BY <2>8, <2>9, <3>4
      <4> HIDE DEF f, g
      <4>2. f % q = g % q
        BY <1>0, <4>1, SameMod
      <4> QED
        BY <4>2 DEF f, g
    <3> QED
      BY <2>6, <3>1, <3>2, <3>3, <3>5 DEF j
  <2> QED
    BY <2>6, <2>12, <2>13
<1> HIDE DEF T
<1>3. n \in T
  BY <1>1, <1>2, Induction
<1> QED
  BY <1>3 DEF T, MulBitsGood

\* Above bit 0 lies the number.
LEMMA AboveZero == ASSUME NEW v \in Nat PROVE Above(v, 0) = v
<1>1. Pow(2, 0) = 1
  BY PowTwo
<1> QED
  BY <1>1 DEF Above

\* Fp8::mul gives the product.
LEMMA MulIs8 ==
    ASSUME NEW q \in Nat, Modulus8(q), NEW a \in Nat, a < q, NEW b \in Nat, b < q
    PROVE  /\ Mul8(a, b, q) = (a * b) % q
           /\ Mul8(a, b, q) \in Nat /\ Mul8(a, b, q) < q
<1> DEFINE n == Msb(q) + 1
<1>1. n \in Nat /\ n <= Msb(q) + 1 /\ Msb(q) + 1 - n = 0
  BY MsbIs
<1> HIDE DEF n
<1>2. MulBitsGood(a, b, q, n)
  BY <1>1, MulBitsRight
<1>3. Above(b, 0) = b
  BY AboveZero
<1>4. MulBits(a, b, q, n) = Mul8(a, b, q)
  BY DEF Mul8, n
<1> QED
  BY <1>1, <1>2, <1>3, <1>4 DEF MulBitsGood

\* What lies above a bit is a natural number,
LEMMA AboveNat == ASSUME NEW v \in Nat, NEW i \in Nat PROVE Above(v, i) \in Nat
<1> DEFINE p == Pow(2, i)
<1>1. p \in Nat /\ p # 0
  BY PowTwo
<1> HIDE DEF p
<1>2. v \div p \in Nat
  BY <1>1, DivMod
<1> QED
  BY <1>2 DEF Above, p

\* v = (v above i) * 2^i + the rest.
LEMMA AboveIs ==
    ASSUME NEW v \in Nat, NEW i \in Nat, NEW w \in Nat, NEW r \in Nat, NEW p, p = Pow(2, i),
           r < p, v = w * p + r
    PROVE  Above(v, i) = w
<1>1. p \in Nat /\ p # 0
  BY PowTwo
<1>2. v \div p = w
  BY <1>1, DivModIs
<1> QED
  BY <1>2 DEF Above

\* and with the bits below it the number.
LEMMA AboveSplit ==
    ASSUME NEW v \in Nat, NEW i \in Nat, NEW p, p = Pow(2, i)
    PROVE  v % p \in Nat /\ v % p < p /\ v = Above(v, i) * p + (v % p)
<1>1. p \in Nat /\ p # 0
  BY PowTwo
<1>2. v % p \in Nat /\ v % p < p /\ v = (v \div p) * p + (v % p)
  BY <1>1, DivMod
<1> QED
  BY <1>2 DEF Above

\* Bits can be dropped in two steps.
LEMMA AboveAdd ==
    ASSUME NEW v \in Nat, NEW i \in Nat, NEW k \in Nat, NEW j, j = i + k
    PROVE  Above(v, j) = Above(Above(v, i), k)
<1> DEFINE p == Pow(2, i)
           q == Pow(2, k)
           d == Above(v, i)
           w == Above(d, k)
           r == v % p
           s == d % q
           m == q * p
           t == s * p + r
<1>1. p \in Nat /\ p # 0 /\ q \in Nat /\ q # 0
  BY PowTwo
<1>2. Pow(2, j) = m
  <2>1. Pow(2, i + k) = Pow(2, i) * Pow(2, k)
    BY PowAdd
  <2>2. Pow(2, i) * Pow(2, k) = Pow(2, k) * Pow(2, i)
    BY <1>1
  <2> QED
    BY <2>1, <2>2
<1>3. d \in Nat /\ w \in Nat
  <2>1. d \in Nat
    BY AboveNat
  <2> HIDE DEF d
  <2> QED
    BY <2>1, AboveNat
<1>4. r \in Nat /\ r < p /\ v = d * p + r
  BY AboveSplit
<1>5. s \in Nat /\ s < q /\ d = w * q + s
  <2> HIDE DEF d
  <2> QED
    BY <1>3, AboveSplit
<1> HIDE DEF p, q, d, w, r, s
<1>6. t \in Nat /\ t < m
  <2>1. s * p \in Nat /\ (q - 1 - s) * p >= 0
    BY <1>1, <1>5
  <2>2. (q - 1 - s) * p = q * p - p - s * p
    BY <1>1, <1>5
  <2> DEFINE e == s * p
             f == q * p
  <2>3. e \in Nat /\ f \in Nat /\ f - p - e >= 0
    BY <1>1, <2>1, <2>2
  <2> HIDE DEF e, f
  <2>4. e + r \in Nat /\ e + r < f
    BY <1>1, <1>4, <2>3
  <2> QED
    BY <2>4 DEF e, f
<1>7. v = w * m + t
  <2>1. (w * q + s) * p = w * (q * p) + s * p
    BY <1>1, <1>3, <1>5
  <2> DEFINE e == s * p
             f == w * (q * p)
  <2>2. e \in Nat /\ f \in Nat /\ d * p = f + e
    BY <1>1, <1>3, <1>5, <2>1
  <2> HIDE DEF e, f
  <2>3. v = f + (e + r)
    BY <1>4, <2>2
  <2> QED
    BY <2>3 DEF e, f
<1> HIDE DEF m, t
<1>8. Above(v, j) = w
  BY <1>2, <1>3, <1>6, <1>7, AboveIs
<1> QED
  BY <1>8 DEF w, d

\* Powers of two grow.
LEMMA PowMore ==
    ASSUME NEW i \in Nat, NEW j \in Nat, i <= j
    PROVE  Pow(2, i) <= Pow(2, j)
<1> DEFINE k == j - i
           p == Pow(2, i)
           q == Pow(2, k)
<1>1. k \in Nat /\ j = i + k
  OBVIOUS
<1> HIDE DEF k
<1>2. p \in Nat /\ p # 0 /\ q \in Nat /\ q # 0
  BY <1>1, PowTwo
<1>3. Pow(2, j) = p * q
  BY <1>1, PowAdd
<1> HIDE DEF p, q
<1>4. p * q >= p
  <2>1. p * (q - 1) >= 0 /\ p * (q - 1) = p * q - p
    BY <1>2
  <2>2. p * q \in Nat
    BY <1>2
  <2> QED
    BY <1>2, <2>1, <2>2
<1> QED
  BY <1>3, <1>4 DEF p

\* The top bits that are surely less than the modulus.
LEMMA TopBits ==
    ASSUME NEW q \in Nat, Modulus8(q), NEW total \in Nat, total <= Msb(q), NEW rest \in Nat,
           NEW data \in Nat, NEW n, n = rest + total, data < Pow(2, n)
    PROVE  Above(data, rest) \in Nat /\ Above(data, rest) < q
<1> DEFINE w == Above(data, rest)
           p == Pow(2, rest)
           t == Pow(2, total)
           r == data % p
<1>1. p \in Nat /\ p # 0 /\ t \in Nat
  BY PowTwo
<1>2. Pow(2, n) = p * t
  BY PowAdd
<1>3. w \in Nat /\ r \in Nat /\ r < p /\ data = w * p + r
  BY AboveNat, AboveSplit
<1>4. t <= Pow(2, Msb(q)) /\ Pow(2, Msb(q)) \in Nat
  BY MsbIs, PowMore, PowTwo
<1>5. Pow(2, Msb(q)) <= q
  BY MsbIs
<1> HIDE DEF w, p, t, r
<1>6. w < t
  <2> SUFFICES ASSUME t <= w PROVE FALSE
    BY <1>1, <1>3
  <2>1. (w - t) * p >= 0 /\ (w - t) * p = w * p - p * t
    BY <1>1, <1>3
  <2>2. w * p \in Nat /\ p * t \in Nat /\ data < p * t
    BY <1>1, <1>2, <1>3
  <2> DEFINE e == w * p
             f == p * t
  <2>3. e \in Nat /\ f \in Nat /\ data < f /\ e - f >= 0 /\ data = e + r
    BY <1>3, <2>1, <2>2
  <2> HIDE DEF e, f
  <2> QED
    BY <1>3, <2>3
<1>7. w < q
  BY <1>1, <1>3, <1>4, <1>5, <1>6
<1> QED
  BY <1>3, <1>7 DEF w

\* A few more bits after whole bytes.
LEMMA MoreBits ==
    ASSUME NEW d \in Nat, NEW bits \in Nat, NEW s \in Nat, NEW n, n = bits + s,
           Above(d, s) < Values8
    PROVE  Shifted(Above(d, n), bits) + Above(d % Pow(2, n), s) = Above(d, s)
<1> DEFINE w == Above(d, n)
           p == Pow(2, s)
           m == Pow(2, bits)
           e == Pow(2, n)
           x == d % e
           h == Above(x, s)
           l == x % p
           first == w * m + h
<1>1. p \in Nat /\ p # 0 /\ m \in Nat /\ m # 0 /\ e \in Nat /\ e # 0
  BY PowTwo
<1>2. e = m * p
  BY PowAdd
<1>3. w \in Nat /\ x \in Nat /\ x < e /\ d = w * e + x
  <2>0. n \in Nat
    OBVIOUS
  <2>1. w \in Nat
    BY <2>0, AboveNat
  <2>3. e = Pow(2, n)
    OBVIOUS
  <2> HIDE DEF e
  <2>2. d % e \in Nat /\ d % e < e /\ d = Above(d, n) * e + (d % e)
    BY <2>0, <2>3, AboveSplit
  <2> QED
    BY <2>1, <2>2
<1> HIDE DEF w, e, x
<1>4. h \in Nat /\ l \in Nat /\ l < p /\ x = h * p + l
  <2>1. p = Pow(2, s)
    OBVIOUS
  <2> HIDE DEF p
  <2> QED
    BY <1>3, <2>1, AboveNat, AboveSplit
<1>5. first \in Nat /\ d = first * p + l
  <2> HIDE DEF p, m, h, l
  <2>1. w * e = (w * m) * p /\ first * p = (w * m) * p + h * p /\ w * m \in Nat
    BY <1>1, <1>2, <1>3, <1>4
  <2> DEFINE f == (w * m) * p
             g == h * p
  <2>2. f \in Nat /\ g \in Nat /\ first * p = f + g /\ w * e = f /\ x = g + l
    BY <1>1, <1>3, <1>4, <2>1
  <2>3. first \in Nat
    BY <1>4, <2>1
  <2> HIDE DEF f, g, first
  <2>4. d = (f + g) + l
    BY <1>3, <1>4, <2>2
  <2> QED
    BY <2>2, <2>3, <2>4
<1>6. Above(d, s) = first
  <2> HIDE DEF l, first
  <2> QED
    BY <1>4, <1>5, AboveIs
<1>7. w * m \in Nat /\ w * m < Values8
  <2>1. w * m \in Nat /\ first < Values8
    BY <1>1, <1>3, <1>6
  <2> DEFINE f == w * m
  <2>2. f \in Nat /\ f + h < Values8
    BY <2>1
  <2> HIDE DEF f, h
  <2>3. f < Values8
    BY <1>4, <2>2, Sizes8
  <2> QED
    BY <2>1, <2>3 DEF f
<1>8. Shifted(w, bits) = w * m
  <2> DEFINE f == w * m
  <2>1. f \in Nat /\ f < Values8
    BY <1>7
  <2>2. Shifted(w, bits) = f % Values8
    BY DEF Shifted
  <2> HIDE DEF f
  <2>3. f % Values8 = f
    BY <2>1, Sizes8, SmallMod
  <2> QED
    BY <2>2, <2>3 DEF f
<1> QED
  BY <1>6, <1>8 DEF w, x, e

\* Fp8::load starts with the top bits of the data, and they are below the
\* modulus.
LEMMA FirstIs ==
    ASSUME NEW q \in Nat, Modulus8(q), NEW length \in Nat, 1 <= length, NEW data \in Nat,
           NEW total \in Nat, total <= Msb(q), NEW rest \in Nat, ByteBits * length = rest + total,
           data < Pow(2, ByteBits * length)
    PROVE  /\ First(data, length, total) = Above(data, rest)
           /\ Above(data, rest) \in Nat /\ Above(data, rest) < q
<1> DEFINE b == ByteBits
           bytes == total \div b
           bits == total % b
           n == b * length
<1>1. b \in Nat /\ b # 0
  BY Sizes8
<1>2. bytes \in Nat /\ bits \in Nat /\ bits < b /\ total = bytes * b + bits
  <2> HIDE DEF b
  <2> QED
    BY <1>1, DivMod
<1>3. n \in Nat /\ n = rest + total /\ data < Pow(2, n)
  BY <1>1
<1>4. Above(data, rest) \in Nat /\ Above(data, rest) < q
  <2> HIDE DEF n
  <2> QED
    BY <1>3, TopBits
<1>5. First(data, length, total)
        = IF bits = 0 THEN Above(data, b * (length - bytes))
          ELSE Shifted(Above(data, b * (length - bytes)), bits)
                 + Above(Above(data, b * (length - bytes - 1)) % Pow(2, b), b - bits)
  BY DEF First
<1> HIDE DEF b, bytes, bits, n
<1>6. b * (length - bytes) = rest + bits
  <2>1. b * (length - bytes) = b * length - bytes * b
    BY <1>1, <1>2
  <2> DEFINE e == bytes * b
  <2>2. e \in Nat /\ n - e = b * (length - bytes) /\ total = e + bits
    BY <1>1, <1>2, <2>1 DEF n
  <2> HIDE DEF e
  <2>3. n - e = rest + bits
    BY <1>2, <1>3, <2>2
  <2> QED
    BY <2>2, <2>3
<1>7. CASE bits = 0
  <2>1. b * (length - bytes) = rest
    BY <1>6, <1>7
  <2> QED
    BY <1>4, <1>5, <1>7, <2>1
<1>8. CASE bits # 0
  <2> DEFINE j == b * (length - bytes - 1)
             s == b - bits
             k == b * (length - bytes)
  <2>1. s \in Nat /\ b = bits + s
    BY <1>1, <1>2
  <2>2. j = k - b
    BY <1>1, <1>2
  <2>3. k = rest + bits /\ k \in Nat
    BY <1>2, <1>6
  <2>4. j \in Nat
    \* A whole byte is left, otherwise fewer than bits would be.
    <3>1. bytes < length
      <4> SUFFICES ASSUME length <= bytes PROVE FALSE
        BY <1>2
      <4>1. b * (length - bytes) <= 0
        BY <1>1, <1>2
      <4> QED
        BY <1>2, <1>8, <2>3, <4>1
    <3>2. length - bytes - 1 \in Nat
      BY <1>2, <3>1
    <3> DEFINE e == length - bytes - 1
    <3> HIDE DEF e
    <3>3. b * e \in Nat
      BY <1>1, <3>2 DEF e
    <3> QED
      BY <3>3 DEF e
  <2> DEFINE d == Above(data, j)
  <2> HIDE DEF j, s, k
  <2>5. rest = j + s /\ k = j + b
    BY <1>1, <1>2, <2>1, <2>2, <2>3, <2>4
  <2>6. d \in Nat
    BY <2>4, AboveNat
  <2>7. Above(data, rest) = Above(d, s)
    BY <2>1, <2>4, <2>5, AboveAdd
  <2>8. Above(data, k) = Above(d, b)
    BY <1>1, <2>4, <2>5, AboveAdd
  <2> HIDE DEF d
  <2>9. Above(d, s) < Values8
    <3>1. q < Values8
      BY Sizes8 DEF Modulus8
    <3>2. Above(d, s) \in Nat /\ Above(d, s) < q
      BY <1>4, <2>7
    <3> QED
      BY <3>1, <3>2, Sizes8
  <2>10. Shifted(Above(d, b), bits) + Above(d % Pow(2, b), s) = Above(d, s)
    BY <1>1, <1>2, <2>1, <2>6, <2>9, MoreBits
  <2>11. First(data, length, total)
           = Shifted(Above(data, k), bits) + Above(d % Pow(2, b), s)
    BY <1>5, <1>8 DEF k, d, j, s
  <2> QED
    BY <1>4, <2>7, <2>8, <2>10, <2>11
<1> QED
  BY <1>7, <1>8

\* Fp8::load gives the remainder, of data of any length.
LEMMA LoadIs8 ==
    ASSUME NEW q \in Nat, Modulus8(q), NEW length \in Nat, 1 <= length,
           NEW data \in Nat, data < Pow(2, ByteBits * length)
    PROVE  /\ Load8(data, length, q) = data % q
           /\ Load8(data, length, q) \in Nat /\ Load8(data, length, q) < q
<1> DEFINE n == ByteBits * length
           total == AtOnce(length, q)
           rest == n - total
           first == First(data, length, total)
<1>1. n \in Nat
  BY Sizes8
<1>2. Msb(q) \in Nat /\ 1 <= Msb(q)
  BY MsbIs
<1>3. total \in Nat /\ total <= Msb(q) /\ total <= n
  <2>1. total = (IF Msb(q) - 1 < n THEN Msb(q) - 1 ELSE n)
    BY DEF AtOnce
  <2> HIDE DEF n, total
  <2> QED
    BY <1>1, <1>2, <2>1
<1>4. Load8(data, length, q) = LoadBits(first, data, rest, q, rest)
  BY DEF Load8
<1>5. rest \in Nat /\ n = rest + total /\ rest - rest = 0
  <2> HIDE DEF n, total
  <2> QED
    BY <1>1, <1>3
<1> HIDE DEF total, rest
<1>6. first = Above(data, rest) /\ first \in Nat /\ first < q
  <2>1. ByteBits * length = rest + total
    BY <1>5
  <2>2. /\ First(data, length, total) = Above(data, rest)
        /\ Above(data, rest) \in Nat /\ Above(data, rest) < q
    BY <1>3, <1>5, <2>1, FirstIs
  <2> QED
    BY <2>2
<1> HIDE DEF first
<1>7. LoadBits(first, data, rest, q, rest) = Above(data, 0) % q
  <2>1. LoadBits(first, data, rest, q, rest) = Above(data, rest - rest) % q
    BY <1>5, <1>6, LoadBitsRight
  <2> QED
    BY <1>5, <2>1
<1>8. Above(data, 0) = data
  BY AboveZero
<1>9. q # 0
  BY DEF Modulus8
<1>10. data % q \in Nat /\ data % q < q
  BY <1>9, DivMod
<1> QED
  BY <1>4, <1>7, <1>8, <1>10

-----------------------------------------------------------------------------
(* Powers.                                                                 *)

\* A power modulo p is a natural number.
LEMMA PowerNat ==
    ASSUME NEW x \in Nat, NEW n \in Nat, NEW p \in Nat, p # 0
    PROVE  Power(x, n, p) \in Nat
<1> DEFINE T == {i \in Nat : Power(x, i, p) \in Nat}
<1>1. 0 \in T
  <2>1. Power(x, 0, p) = 1
    BY PowerFacts
  <2> QED
    BY <2>1
<1>2. ASSUME NEW i \in Nat, i \in T PROVE i + 1 \in T
  <2>1. Power(x, i + 1, p) = (x * Power(x, i, p)) % p
    BY PowerFacts
  <2> DEFINE w == Power(x, i, p)
  <2>2. w \in Nat
    BY <1>2
  <2> HIDE DEF w
  <2>3. x * w \in Nat
    BY <2>2
  <2>4. (x * w) % p \in Nat
    BY <2>3, DivMod
  <2> QED
    BY <2>1, <2>4 DEF w
<1> HIDE DEF T
<1>3. n \in T
  BY <1>1, <1>2, Induction
<1> QED
  BY <1>3 DEF T

\* A power one higher.
LEMMA PowerNext ==
    ASSUME NEW x \in Nat, NEW n \in Nat, NEW p \in Nat, p # 0
    PROVE  Same(Power(x, n + 1, p), x * Power(x, n, p), p)
<1> DEFINE w == Power(x, n, p)
<1>1. w \in Nat
  BY PowerNat
<1>2. Power(x, n + 1, p) = (x * w) % p
  BY PowerFacts
<1> HIDE DEF w
<1> DEFINE y == x * w
<1>3. y \in Int
  BY <1>1
<1> HIDE DEF y
<1>4. Same(y % p, y, p)
  BY <1>3, ModSame
<1> QED
  BY <1>2, <1>4 DEF y, w

\* Exponents add: a name for this, and the induction.
Exponents(x, m, n, p) == Same(Power(x, m + n, p), Power(x, m, p) * Power(x, n, p), p)

\* Exponents add.
LEMMA PowerSum ==
    ASSUME NEW x \in Nat, NEW m \in Nat, NEW n \in Nat, NEW p \in Nat, p # 0
    PROVE  Exponents(x, m, n, p)
<1> DEFINE T == {i \in Nat : Same(Power(x, i + n, p), Power(x, i, p) * Power(x, n, p), p)}
           w == Power(x, n, p)
<1>1. w \in Nat
  BY PowerNat
<1>2. 0 \in T
  <2>1. Power(x, 0, p) = 1 /\ 0 + n = n
    BY PowerFacts
  <2>2. Same(w, w, p)
    BY <1>1, SameSelf
  <2> HIDE DEF w
  <2>3. 1 * w = w
    BY <1>1
  <2> QED
    BY <2>1, <2>2, <2>3 DEF w
<1>3. ASSUME NEW i \in Nat, i \in T PROVE i + 1 \in T
  <2> DEFINE a == Power(x, i + n, p)
             b == Power(x, i, p)
             c == Power(x, (i + 1) + n, p)
             d == Power(x, i + 1, p)
  <2>0. i + n \in Nat /\ (i + 1) + n \in Nat /\ i + 1 \in Nat
    OBVIOUS
  <2>1. a \in Nat /\ b \in Nat /\ c \in Nat /\ d \in Nat
    <3> DEFINE k == i + n
               l == (i + 1) + n
               j == i + 1
    <3>1. k \in Nat /\ l \in Nat /\ j \in Nat
      OBVIOUS
    <3> HIDE DEF k, l, j
    <3>2. /\ Power(x, k, p) \in Nat /\ Power(x, l, p) \in Nat /\ Power(x, i, p) \in Nat
          /\ Power(x, j, p) \in Nat
      BY <3>1, PowerNat
    <3> QED
      BY <3>2 DEF k, l, j
  <2>2. Same(c, x * a, p)
    <3>1. (i + 1) + n = (i + n) + 1 /\ i + n \in Nat
      OBVIOUS
    <3> DEFINE k == i + n
    <3> HIDE DEF k
    <3>2. Same(Power(x, k + 1, p), x * Power(x, k, p), p)
      BY <3>1, PowerNext DEF k
    <3> QED
      BY <3>1, <3>2 DEF k
  <2>3. Same(d, x * b, p)
    BY PowerNext
  <2>4. Same(a, b * w, p)
    BY <1>3
  <2> HIDE DEF a, b, c, d, w
  <2> DEFINE e == b * w
             f == x * a
             g == x * e
             h == d * w
             k == x * b
  <2>5. e \in Int /\ f \in Int /\ g \in Int /\ h \in Int /\ k \in Int /\ k * w = g
    BY <1>1, <2>1
  <2>6. Same(f, g, p)
    <3>1. Same(x, x, p)
      BY SameSelf
    <3> HIDE DEF e
    <3> QED
      BY <2>1, <2>4, <2>5, <3>1, SameProduct DEF e
  <2>7. Same(h, g, p)
    <3>1. Same(w, w, p)
      BY <1>1, SameSelf
    <3>2. Same(d, k, p)
      BY <2>3
    <3> HIDE DEF k, g
    <3>3. Same(d * w, k * w, p)
      BY <1>1, <2>1, <2>5, <3>1, <3>2, SameProduct
    <3> QED
      BY <2>5, <3>3
  <2> HIDE DEF e, f, g, h, k
  <2>8. Same(c, f, p)
    BY <2>2 DEF f
  <2>9. Same(g, h, p)
    BY <2>5, <2>7, SameBack
  <2>10. Same(c, g, p)
    BY <2>1, <2>5, <2>6, <2>8, SameTrans
  <2>11. Same(c, h, p)
    BY <2>1, <2>5, <2>9, <2>10, SameTrans
  <2> QED
    BY <2>11 DEF c, h, d, w
<1> HIDE DEF T
<1>4. m \in T
  BY <1>2, <1>3, Induction
<1> QED
  BY <1>4 DEF T, Exponents

\* What a multiplication of a field does: less than limit, and the product.
OpRight(f, p, range, limit) ==
    /\ p \in Nat /\ p # 0 /\ range \in Nat /\ limit \in Nat /\ limit <= range
    /\ \A a, b \in Nat : a < range /\ b < range =>
          Op(f, a, b) \in Nat /\ Op(f, a, b) < limit /\ Same(Op(f, a, b), a * b, p)

\* A number that stands for the power e of x.
PowerOf(r, x, e, p, limit) == r \in Nat /\ r < limit /\ Same(r, Power(x, e, p), p)

\* A product of two powers is the power of the sum.
LEMMA PowerProduct ==
    ASSUME NEW f, NEW p, NEW range, NEW limit, OpRight(f, p, range, limit), NEW x \in Nat,
           NEW m \in Nat, NEW n \in Nat, NEW k, k = m + n, NEW a, NEW b,
           PowerOf(a, x, m, p, range), PowerOf(b, x, n, p, range)
    PROVE  PowerOf(Op(f, a, b), x, k, p, limit) /\ PowerOf(Op(f, a, b), x, k, p, range)
<1> DEFINE u == Power(x, m, p)
           v == Power(x, n, p)
           w == Power(x, k, p)
           r == Op(f, a, b)
<1>1. p \in Nat /\ p # 0 /\ range \in Nat /\ limit \in Nat /\ limit <= range
  BY DEF OpRight
<1>2. a \in Nat /\ a < range /\ Same(a, u, p) /\ b \in Nat /\ b < range /\ Same(b, v, p)
  BY DEF PowerOf
<1>3. r \in Nat /\ r < limit /\ Same(r, a * b, p)
  BY <1>2 DEF OpRight
<1>4. u \in Nat /\ v \in Nat /\ w \in Nat
  <2>1. k \in Nat
    OBVIOUS
  <2>2. Power(x, m, p) \in Nat /\ Power(x, n, p) \in Nat /\ Power(x, k, p) \in Nat
    BY <1>1, <2>1, PowerNat
  <2> QED
    BY <2>2
<1>5. Same(w, u * v, p)
  BY <1>1, PowerSum DEF Exponents
<1> HIDE DEF u, v, w, r
<1> DEFINE y == a * b
           z == u * v
<1>6. y \in Int /\ z \in Int
  BY <1>2, <1>4
<1>7. Same(y, z, p)
  BY <1>1, <1>2, <1>4, SameProduct
<1>8. Same(r, y, p) /\ Same(w, z, p)
  BY <1>3, <1>5
<1> HIDE DEF y, z
<1>9. Same(r, z, p)
  BY <1>1, <1>3, <1>6, <1>7, <1>8, SameTrans
<1>10. Same(z, w, p)
  BY <1>1, <1>4, <1>6, <1>8, SameBack
<1>11. Same(r, w, p)
  BY <1>1, <1>3, <1>4, <1>6, <1>9, <1>10, SameTrans
<1>12. r < range
  BY <1>1, <1>3
<1> QED
  BY <1>3, <1>11, <1>12 DEF PowerOf, r, w

\* The place b of bigint_pow_rle() stands for the power e after k swaps.
Holds(s, x, e, k, p, limit) == s = [a |-> s.a, b |-> s.b, swaps |-> k] /\ PowerOf(s.b, x, e, p, limit)

\* One bit of an odd code and the zero bit of an even one.
LEMMA OneBit ==
    ASSUME NEW f, NEW p, NEW range, NEW limit, OpRight(f, p, range, limit), NEW x \in Nat,
           NEW v, PowerOf(v, x, 1, p, range), NEW s, NEW e \in Nat, NEW k \in Nat,
           Holds(s, x, e, k, p, range), NEW d, d = 2 * e + 1, NEW i, i % 2 = 1
    PROVE  /\ Holds(Squared(f, s, v, i), x, d, k, p, limit)
           /\ Holds(Squared(f, s, v, i), x, d, k, p, range)
<1> DEFINE squared == Op(f, s.b, s.b)
           r == Op(f, squared, v)
           c == e + e
<1>1. PowerOf(s.b, x, e, p, range) /\ s = [a |-> s.a, b |-> s.b, swaps |-> k]
  BY DEF Holds
<1>2. c \in Nat /\ d = c + 1
  OBVIOUS
<1> HIDE DEF c
<1>3. PowerOf(squared, x, c, p, range)
  BY <1>1, PowerProduct DEF c
<1> HIDE DEF squared
<1>4. PowerOf(r, x, d, p, limit) /\ PowerOf(r, x, d, p, range)
  BY <1>2, <1>3, PowerProduct
<1>5. Squared(f, s, v, i) = [a |-> squared, b |-> r, swaps |-> s.swaps]
  BY DEF Squared, squared
<1>6. s.swaps = k
  BY <1>1
<1> HIDE DEF r
<1>7. Squared(f, s, v, i) = [a |-> squared, b |-> r, swaps |-> k]
  BY <1>5, <1>6
<1> QED
  BY <1>4, <1>7 DEF Holds

\* The zero bit of an even code squares, and swaps the places.
LEMMA ZeroBit ==
    ASSUME NEW f, NEW p, NEW range, NEW limit, OpRight(f, p, range, limit), NEW x \in Nat,
           NEW v, NEW s, NEW e \in Nat, NEW k \in Nat,
           Holds(s, x, e, k, p, range), NEW d, d = 2 * e, NEW i, i % 2 # 1, NEW n, n = k + 1
    PROVE  /\ Holds(Squared(f, s, v, i), x, d, n, p, limit)
           /\ Holds(Squared(f, s, v, i), x, d, n, p, range)
<1> DEFINE squared == Op(f, s.b, s.b)
<1>1. PowerOf(s.b, x, e, p, range) /\ s.swaps = k
  BY DEF Holds
<1>2. d = e + e
  OBVIOUS
<1>3. PowerOf(squared, x, d, p, limit) /\ PowerOf(squared, x, d, p, range)
  BY <1>1, <1>2, PowerProduct
<1>4. Squared(f, s, v, i) = [a |-> s.b, b |-> squared, swaps |-> s.swaps + 1]
  BY DEF Squared
<1> HIDE DEF squared
<1>5. Squared(f, s, v, i) = [a |-> s.b, b |-> squared, swaps |-> n]
  BY <1>1, <1>4
<1> QED
  BY <1>3, <1>5 DEF Holds

\* A code of one one bit
LEMMA OneCode ==
    ASSUME NEW f, NEW p, NEW range, NEW limit, OpRight(f, p, range, limit), NEW x \in Nat,
           NEW v, PowerOf(v, x, 1, p, range), NEW s, NEW e \in Nat, NEW k \in Nat,
           Holds(s, x, e, k, p, range), NEW d, d = 2 * e + 1
    PROVE  Holds(Coded(f, s, v, 3, 1), x, d, k, p, limit) /\ Holds(Coded(f, s, v, 3, 1), x, d, k, p, range)
<1>1. Coded(f, s, v, 3, 0) = s
  BY CodedFacts
<1>2. Coded(f, s, v, 3, 0 + 1) = Squared(f, Coded(f, s, v, 3, 0), v, 3)
  BY CodedFacts
<1>3. Coded(f, s, v, 3, 1) = Squared(f, s, v, 3)
  BY <1>1, <1>2
<1>4. 3 % 2 = 1
  OBVIOUS
<1> QED
  BY <1>3, <1>4, OneBit

\* and of two
LEMMA TwoCode ==
    ASSUME NEW f, NEW p, NEW range, NEW limit, OpRight(f, p, range, limit), NEW x \in Nat,
           NEW v, PowerOf(v, x, 1, p, range), NEW s, NEW e \in Nat, NEW k \in Nat,
           Holds(s, x, e, k, p, range), NEW d, d = 4 * e + 3
    PROVE  Holds(Coded(f, s, v, 5, 2), x, d, k, p, range)
<1> DEFINE t == Squared(f, s, v, 5)
           c == 2 * e + 1
<1>1. Coded(f, s, v, 5, 0) = s
  BY CodedFacts
<1>2. Coded(f, s, v, 5, 0 + 1) = Squared(f, Coded(f, s, v, 5, 0), v, 5)
  BY CodedFacts
<1>3. Coded(f, s, v, 5, 1 + 1) = Squared(f, Coded(f, s, v, 5, 1), v, 5)
  BY CodedFacts
<1>4. Coded(f, s, v, 5, 2) = Squared(f, t, v, 5)
  BY <1>1, <1>2, <1>3
<1>5. 5 % 2 = 1 /\ c \in Nat /\ d = 2 * c + 1
  OBVIOUS
<1>6. Holds(t, x, c, k, p, range)
  BY <1>5, OneBit
<1> HIDE DEF t, c
<1>7. Holds(Squared(f, t, v, 5), x, d, k, p, range)
  BY <1>5, <1>6, OneBit
<1> QED
  BY <1>4, <1>7

\* and of one zero bit.
LEMMA ZeroCode ==
    ASSUME NEW f, NEW p, NEW range, NEW limit, OpRight(f, p, range, limit), NEW x \in Nat,
           NEW v, NEW s, NEW e \in Nat, NEW k \in Nat,
           Holds(s, x, e, k, p, range), NEW d, d = 2 * e, NEW n, n = k + 1
    PROVE  Holds(Coded(f, s, v, 2, 1), x, d, n, p, limit) /\ Holds(Coded(f, s, v, 2, 1), x, d, n, p, range)
<1>1. Coded(f, s, v, 2, 0) = s
  BY CodedFacts
<1>2. Coded(f, s, v, 2, 0 + 1) = Squared(f, Coded(f, s, v, 2, 0), v, 2)
  BY CodedFacts
<1>3. Coded(f, s, v, 2, 1) = Squared(f, s, v, 2)
  BY <1>1, <1>2
<1>4. 2 % 2 # 1
  OBVIOUS
<1> QED
  BY <1>3, <1>4, ZeroBit

\* The exponent 11101 ends in s.
LEMMA Power29 ==
    ASSUME NEW f, NEW p, NEW range, NEW limit, OpRight(f, p, range, limit), NEW x \in Nat,
           NEW v, PowerOf(v, x, 1, p, range)
    PROVE  PowerOf(InS(PowRle(f, v, <<5, 2, 3>>)), x, 29, p, limit)
<1> DEFINE codes == <<5, 2, 3>>
           after(n) == Codes(f, v, codes, n)
<1>1. after(0) = [a |-> 0, b |-> v, swaps |-> 0]
  BY CodesFacts
<1>2. Holds(after(0), x, 1, 0, p, range)
  BY <1>1 DEF Holds
<1>3. Holds(after(1), x, 7, 0, p, range)
  <2>1. after(0 + 1) = Coded(f, after(0), v, codes[0 + 1], codes[0 + 1] \div 2)
    BY CodesFacts
  <2>2. codes[0 + 1] = 5 /\ 5 \div 2 = 2 /\ 0 + 1 = 1
    OBVIOUS
  <2> HIDE DEF codes, after
  <2>3. after(1) = Coded(f, after(0), v, 5, 2)
    BY <2>1, <2>2
  <2>4. 7 = 4 * 1 + 3 /\ 1 \in Nat /\ 0 \in Nat
    OBVIOUS
  <2> QED
    BY <1>2, <2>3, <2>4, TwoCode
<1>4. Holds(after(2), x, 14, 1, p, range)
  <2>1. after(1 + 1) = Coded(f, after(1), v, codes[1 + 1], codes[1 + 1] \div 2)
    BY CodesFacts
  <2>2. codes[1 + 1] = 2 /\ 2 \div 2 = 1 /\ 1 + 1 = 2
    OBVIOUS
  <2> HIDE DEF codes, after
  <2>3. after(2) = Coded(f, after(1), v, 2, 1)
    BY <2>1, <2>2
  <2>4. 14 = 2 * 7 /\ 1 = 0 + 1 /\ 7 \in Nat /\ 0 \in Nat
    OBVIOUS
  <2> QED
    BY <1>3, <2>3, <2>4, ZeroCode
<1>5. Holds(after(3), x, 29, 1, p, limit)
  <2>1. after(2 + 1) = Coded(f, after(2), v, codes[2 + 1], codes[2 + 1] \div 2)
    BY CodesFacts
  <2>2. codes[2 + 1] = 3 /\ 3 \div 2 = 1 /\ 2 + 1 = 3
    OBVIOUS
  <2> HIDE DEF codes, after
  <2>3. after(3) = Coded(f, after(2), v, 3, 1)
    BY <2>1, <2>2
  <2>4. 29 = 2 * 14 + 1 /\ 14 \in Nat /\ 1 \in Nat
    OBVIOUS
  <2> QED
    BY <1>4, <2>3, <2>4, OneCode
<1>6. PowRle(f, v, <<5, 2, 3>>) = after(3)
  BY DEF PowRle
<1> HIDE DEF after
<1>7. PowerOf(after(3).b, x, 29, p, limit) /\ after(3).swaps = 1
  BY <1>5 DEF Holds
<1>8. InS(after(3)) = after(3).b
  BY <1>7 DEF InS
<1> QED
  BY <1>6, <1>7, <1>8

\* The exponent 11010 ends in r.
LEMMA Power26 ==
    ASSUME NEW f, NEW p, NEW range, NEW limit, OpRight(f, p, range, limit), NEW x \in Nat,
           NEW v, PowerOf(v, x, 1, p, range)
    PROVE  PowerOf(InR(PowRle(f, v, <<3, 2, 3, 2>>)), x, 26, p, limit)
<1> DEFINE codes == <<3, 2, 3, 2>>
           after(n) == Codes(f, v, codes, n)
<1>1. after(0) = [a |-> 0, b |-> v, swaps |-> 0]
  BY CodesFacts
<1>2. Holds(after(0), x, 1, 0, p, range)
  BY <1>1 DEF Holds
<1>3. Holds(after(1), x, 3, 0, p, range)
  <2>1. after(0 + 1) = Coded(f, after(0), v, codes[0 + 1], codes[0 + 1] \div 2)
    BY CodesFacts
  <2>2. codes[0 + 1] = 3 /\ 3 \div 2 = 1 /\ 0 + 1 = 1
    OBVIOUS
  <2> HIDE DEF codes, after
  <2>3. after(1) = Coded(f, after(0), v, 3, 1)
    BY <2>1, <2>2
  <2>4. 3 = 2 * 1 + 1 /\ 1 \in Nat /\ 0 \in Nat
    OBVIOUS
  <2> QED
    BY <1>2, <2>3, <2>4, OneCode
<1>4. Holds(after(2), x, 6, 1, p, range)
  <2>1. after(1 + 1) = Coded(f, after(1), v, codes[1 + 1], codes[1 + 1] \div 2)
    BY CodesFacts
  <2>2. codes[1 + 1] = 2 /\ 2 \div 2 = 1 /\ 1 + 1 = 2
    OBVIOUS
  <2> HIDE DEF codes, after
  <2>3. after(2) = Coded(f, after(1), v, 2, 1)
    BY <2>1, <2>2
  <2>4. 6 = 2 * 3 /\ 1 = 0 + 1 /\ 3 \in Nat /\ 0 \in Nat
    OBVIOUS
  <2> QED
    BY <1>3, <2>3, <2>4, ZeroCode
<1>5. Holds(after(3), x, 13, 1, p, range)
  <2>1. after(2 + 1) = Coded(f, after(2), v, codes[2 + 1], codes[2 + 1] \div 2)
    BY CodesFacts
  <2>2. codes[2 + 1] = 3 /\ 3 \div 2 = 1 /\ 2 + 1 = 3
    OBVIOUS
  <2> HIDE DEF codes, after
  <2>3. after(3) = Coded(f, after(2), v, 3, 1)
    BY <2>1, <2>2
  <2>4. 13 = 2 * 6 + 1 /\ 6 \in Nat /\ 1 \in Nat
    OBVIOUS
  <2> QED
    BY <1>4, <2>3, <2>4, OneCode
<1>6. Holds(after(4), x, 26, 2, p, limit)
  <2>1. after(3 + 1) = Coded(f, after(3), v, codes[3 + 1], codes[3 + 1] \div 2)
    BY CodesFacts
  <2>2. codes[3 + 1] = 2 /\ 2 \div 2 = 1 /\ 3 + 1 = 4
    OBVIOUS
  <2> HIDE DEF codes, after
  <2>3. after(4) = Coded(f, after(3), v, 2, 1)
    BY <2>1, <2>2
  <2>4. 26 = 2 * 13 /\ 2 = 1 + 1 /\ 13 \in Nat /\ 1 \in Nat
    OBVIOUS
  <2> QED
    BY <1>5, <2>3, <2>4, ZeroCode
<1>7. PowRle(f, v, <<3, 2, 3, 2>>) = after(4)
  BY DEF PowRle
<1> HIDE DEF after
<1>8. PowerOf(after(4).b, x, 26, p, limit) /\ after(4).swaps = 2
  BY <1>6 DEF Holds
<1>9. InR(after(4)) = after(4).b
  BY <1>8 DEF InR
<1> QED
  BY <1>7, <1>8, <1>9

-----------------------------------------------------------------------------
(* The register.                                                           *)

\* The register of F25519: below 2p unless just loaded.
Good25(r, e, w) == r \in Nat /\ r < Range25519 /\ e = r % P25519 /\ (w = TRUE \/ r < 2 * P25519)

\* The register of F448: any words.
Good44(r, e) == r \in Nat /\ r < Range448 /\ e = r % P448

\* The register of Fp8: reduced.
Good8(r, e, q) == r \in Nat /\ r < q /\ e = r

\* The inductive invariant: the register is congruent to the exact result,
\* unless a sum of F448 was too large, and in the range that every operation
\* of its field needs.
FieldInv ==
    /\ raw \in BOOLEAN
    /\ field \in [name : {"F25519", "F448"}, prime : {0}] \cup [name : {"Fp8"}, prime : Primes]
    /\ field.name = "F25519" => Good25(register, exact, raw)
    /\ field.name = "F448" => register \in Nat /\ register < Range448
    /\ field.name = "F448" /\ ~lost => Good44(register, exact)
    /\ field.name = "Fp8" => Good8(register, exact, field.prime)
    /\ lost \in BOOLEAN

\* Below 2p is within the words.
LEMMA Below25 == \A r \in Nat : r < 2 * P25519 => r < Range25519
<1>1. /\ P25519 = Half25 - C /\ Half25 \in Nat /\ Range25519 = 2 * Half25 /\ P25519 \in Nat
      /\ C \in Nat
  BY Numbers25, Sizes25
<1> QED
  BY <1>1

\* A result of F25519.
LEMMA Became25 ==
    ASSUME NEW r \in Nat, r < 2 * P25519, NEW z \in Int, Same(r, z, P25519), NEW w
    PROVE  Good25(r, z % P25519, w)
<1>1. P25519 \in Nat /\ P25519 # 0
  BY Numbers25
<1>2. r % P25519 = z % P25519
  <2> DEFINE p == P25519
  <2>1. p \in Nat /\ p # 0 /\ Same(r, z, p) /\ r \in Int
    BY <1>1
  <2> HIDE DEF p
  <2>2. r % p = z % p
    BY <2>1, SameMod
  <2> QED
    BY <2>2 DEF p
<1>3. r < Range25519
  BY Below25
<1> QED
  BY <1>2, <1>3 DEF Good25

\* A result of F448.
LEMMA Became44 ==
    ASSUME NEW r \in Nat, r < Range448, NEW z \in Int, Same(r, z, P448)
    PROVE  Good44(r, z % P448)
<1>1. P448 \in Nat /\ P448 # 0
  BY Numbers44
<1>2. r % P448 = z % P448
  <2> DEFINE p == P448
  <2>1. p \in Nat /\ p # 0 /\ Same(r, z, p) /\ r \in Int
    BY <1>1
  <2> HIDE DEF p
  <2>2. r % p = z % p
    BY <2>1, SameMod
  <2> QED
    BY <2>2 DEF p
<1> QED
  BY <1>2 DEF Good44

\* What the register of F25519 stands for
LEMMA Exact25 ==
    ASSUME NEW r, NEW e, NEW w, Good25(r, e, w)
    PROVE  r \in Nat /\ r < Range25519 /\ e \in Nat /\ e < P25519 /\ Same(r, e, P25519)
<1>1. P25519 \in Nat /\ P25519 # 0
  BY Numbers25
<1>2. r \in Nat /\ r < Range25519 /\ e = r % P25519
  BY DEF Good25
<1>3. r % P25519 \in Nat /\ r % P25519 < P25519 /\ Same(r, r % P25519, P25519)
  BY <1>1, <1>2, ModSame
<1> QED
  BY <1>2, <1>3

\* and that of F448.
LEMMA Exact44 ==
    ASSUME NEW r, NEW e, Good44(r, e)
    PROVE  r \in Nat /\ r < Range448 /\ e \in Nat /\ e < P448 /\ Same(r, e, P448)
<1>1. P448 \in Nat /\ P448 # 0
  BY Numbers44
<1>2. r \in Nat /\ r < Range448 /\ e = r % P448
  BY DEF Good44
<1>3. r % P448 \in Nat /\ r % P448 < P448 /\ Same(r, r % P448, P448)
  BY <1>1, <1>2, ModSame
<1> QED
  BY <1>2, <1>3

\* A result of the number is a result of what it stands for.
LEMMA AlsoSum ==
    ASSUME NEW m \in Nat, NEW r \in Nat, NEW x \in Nat, NEW e \in Nat, NEW y \in Int,
           Same(x, e, m), Same(r, x + y, m)
    PROVE  Same(r, e + y, m)
<1>1. Same(y, y, m)
  BY SameSelf
<1>2. Same(x + y, e + y, m)
  BY <1>1, SameSum
<1> DEFINE f == x + y
           g == e + y
<1>3. f \in Int /\ g \in Int
  OBVIOUS
<1> HIDE DEF f, g
<1>4. Same(r, f, m) /\ Same(f, g, m)
  BY <1>2 DEF f, g
<1>5. Same(r, g, m)
  BY <1>3, <1>4, SameTrans
<1> QED
  BY <1>5 DEF g

\* The same for differences,
LEMMA AlsoDifference ==
    ASSUME NEW m \in Nat, NEW r \in Nat, NEW x \in Nat, NEW e \in Nat, NEW y \in Int,
           Same(x, e, m)
    PROVE  /\ Same(r, x - y, m) => Same(r, e - y, m)
           /\ Same(r, y - x, m) => Same(r, y - e, m)
<1>1. Same(y, y, m)
  BY SameSelf
<1>2. Same(x - y, e - y, m) /\ Same(y - x, y - e, m)
  BY <1>1, SameSum
<1> DEFINE f == x - y
           g == e - y
           h == y - x
           k == y - e
<1>3. f \in Int /\ g \in Int /\ h \in Int /\ k \in Int
  OBVIOUS
<1> HIDE DEF f, g, h, k
<1>4. Same(f, g, m) /\ Same(h, k, m)
  BY <1>2 DEF f, g, h, k
<1>5. Same(r, f, m) => Same(r, g, m)
  BY <1>3, <1>4, SameTrans
<1>6. Same(r, h, m) => Same(r, k, m)
  BY <1>3, <1>4, SameTrans
<1> QED
  BY <1>5, <1>6 DEF f, g, h, k

\* negatives
LEMMA AlsoNegative ==
    ASSUME NEW m \in Nat, NEW r \in Nat, NEW x \in Nat, NEW e \in Nat, Same(x, e, m),
           NEW u, u = 0 - x, NEW z, z = 0 - e, Same(r, u, m)
    PROVE  Same(r, z, m)
<1>1. PICK k \in Int : x = e + k * m
  BY DEF Same
<1>2. PICK l \in Int : r = u + l * m
  BY DEF Same
<1>3. l - k \in Int /\ (l - k) * m = l * m - k * m
  OBVIOUS
<1>4. r = z + (l - k) * m
  BY <1>1, <1>2, <1>3
<1> QED
  BY <1>3, <1>4 DEF Same

\* and products.
LEMMA AlsoProduct ==
    ASSUME NEW m \in Nat, NEW r \in Nat, NEW x \in Nat, NEW e \in Nat, NEW y \in Int,
           Same(x, e, m), Same(r, x * y, m)
    PROVE  Same(r, e * y, m)
<1>1. Same(y, y, m)
  BY SameSelf
<1>2. Same(x * y, e * y, m)
  BY <1>1, SameProduct
<1> DEFINE f == x * y
           g == e * y
<1>3. f \in Int /\ g \in Int
  OBVIOUS
<1> HIDE DEF f, g
<1>4. Same(r, f, m) /\ Same(f, g, m)
  BY <1>2 DEF f, g
<1>5. Same(r, g, m)
  BY <1>3, <1>4, SameTrans
<1> QED
  BY <1>5 DEF g

\* F25519::mul is a multiplication that leaves less than 2p
LEMMA Op25 ==
    ASSUME NEW f, f.name = "F25519"
    PROVE  OpRight(f, P25519, Range25519, 2 * P25519)
<1>1. P25519 \in Nat /\ P25519 # 0 /\ Range25519 \in Nat
  BY Numbers25
<1>2. 2 * P25519 \in Nat /\ 2 * P25519 <= Range25519
  <2>1. P25519 = Half25 - C /\ Half25 \in Nat /\ Range25519 = 2 * Half25 /\ C \in Nat
    BY Numbers25, Sizes25
  <2> QED
    BY <1>1, <2>1
<1>3. ASSUME NEW a \in Nat, NEW b \in Nat, a < Range25519, b < Range25519
      PROVE  Op(f, a, b) \in Nat /\ Op(f, a, b) < 2 * P25519 /\ Same(Op(f, a, b), a * b, P25519)
  <2>1. Op(f, a, b) = Mul25519(a, b)
    BY DEF Op
  <2> QED
    BY <1>3, <2>1, MulIs25
<1> QED
  BY <1>1, <1>2, <1>3 DEF OpRight

\* and F448::mul one that leaves any words.
LEMMA Op44 ==
    ASSUME NEW f, f.name = "F448"
    PROVE  OpRight(f, P448, Range448, Range448)
<1>1. P448 \in Nat /\ P448 # 0 /\ Range448 \in Nat
  BY Numbers44
<1>2. ASSUME NEW a \in Nat, NEW b \in Nat, a < Range448, b < Range448
      PROVE  Op(f, a, b) \in Nat /\ Op(f, a, b) < Range448 /\ Same(Op(f, a, b), a * b, P448)
  <2>1. Op(f, a, b) = Mul448(a, b)
    BY DEF Op
  <2> QED
    BY <1>2, <2>1, MulIs44
<1> QED
  BY <1>1, <1>2 DEF OpRight

\* The register is its first power.
LEMMA FirstPower ==
    ASSUME NEW p \in Nat, p # 0, NEW x \in Nat, x < p, NEW r \in Nat, Same(r, x, p),
           NEW range, r < range
    PROVE  PowerOf(r, x, 1, p, range)
<1>1. Power(x, 0, p) = 1 /\ Power(x, 0 + 1, p) = (x * Power(x, 0, p)) % p
  BY PowerFacts
<1>2. x * 1 = x /\ 0 + 1 = 1
  OBVIOUS
<1>3. x % p = x
  BY SmallMod
<1>4. Power(x, 1, p) = x
  BY <1>1, <1>2, <1>3
<1> QED
  BY <1>4 DEF PowerOf

\* A new object is zero.
LEMMA FieldStart == FieldInit => FieldInv
<1> SUFFICES ASSUME FieldInit PROVE FieldInv
  OBVIOUS
<1>1. field \in [name : {"F25519", "F448"}, prime : {0}] \cup [name : {"Fp8"}, prime : Primes]
      /\ register = 0 /\ raw = TRUE /\ exact = 0 /\ lost = FALSE
  BY DEF FieldInit
<1>2. Good25(0, 0, TRUE)
  <2>1. P25519 \in Nat /\ P25519 # 0 /\ Range25519 \in Nat /\ 2 * P25519 \in Nat /\ 0 < 2 * P25519
    BY Numbers25
  <2>2. 0 % P25519 = 0 /\ 0 < Range25519
    <3>1. 0 < Range25519
      BY <2>1, Below25
    <3> QED
      BY <2>1, <3>1, SmallMod
  <2> QED
    BY <2>2 DEF Good25
<1>3. Good44(0, 0) /\ 0 < Range448
  <2>1. P448 \in Nat /\ P448 # 0 /\ Range448 \in Nat /\ Range448 # 0
    BY Numbers44
  <2>2. 0 % P448 = 0 /\ 0 < Range448
    BY <2>1, SmallMod
  <2> QED
    BY <2>2 DEF Good44
<1>4. field.name = "Fp8" => Good8(0, 0, field.prime)
  <2> SUFFICES ASSUME field.name = "Fp8" PROVE Good8(0, 0, field.prime)
    OBVIOUS
  <2>1. field.prime \in Primes
    BY <1>1
  <2>2. field.prime \in Nat /\ 2 <= field.prime
    BY <2>1, Sizes8 DEF Modulus8
  <2> QED
    BY <2>2 DEF Good8
<1> QED
  BY <1>1, <1>2, <1>3, <1>4 DEF FieldInv

\* The modulus of Fp8.
LEMMA PrimeIs ==
    ASSUME FieldInv, field.name = "Fp8"
    PROVE  field.prime \in Nat /\ Modulus8(field.prime) /\ field.prime # 0
<1>1. field.prime \in Primes
  BY DEF FieldInv
<1>2. Modulus8(field.prime)
  BY <1>1, Sizes8
<1> QED
  BY <1>2 DEF Modulus8

\* What a step on each field has to show.
LEMMA OnField ==
    ASSUME FieldInv, UNCHANGED field, raw' \in BOOLEAN, lost' \in BOOLEAN
    PROVE  /\ (field.name = "F25519" /\ Good25(register', exact', raw')) => FieldInv'
           /\ (field.name = "F448" /\ Good44(register', exact')) => FieldInv'
           /\ (field.name = "F448" /\ lost' /\ register' \in Nat /\ register' < Range448) => FieldInv'
           /\ (field.name = "Fp8" /\ Good8(register', exact', field.prime)) => FieldInv'
<1>1. field \in [name : {"F25519", "F448"}, prime : {0}] \cup [name : {"Fp8"}, prime : Primes]
  BY DEF FieldInv
<1>2. field' = field
  OBVIOUS
<1>3. ASSUME field.name = "F25519", Good25(register', exact', raw') PROVE FieldInv'
  BY <1>1, <1>2, <1>3 DEF FieldInv
<1>4. ASSUME field.name = "F448", Good44(register', exact') PROVE FieldInv'
  BY <1>1, <1>2, <1>4 DEF FieldInv, Good44
<1>5. ASSUME field.name = "Fp8", Good8(register', exact', field.prime) PROVE FieldInv'
  BY <1>1, <1>2, <1>5 DEF FieldInv
<1>6. ASSUME field.name = "F448", lost', register' \in Nat, register' < Range448 PROVE FieldInv'
  BY <1>1, <1>2, <1>6 DEF FieldInv
<1> QED
  BY <1>3, <1>4, <1>5, <1>6

\* Loading any words, or a small number of either sign into F448.
LEMMA LoadNumberKeeps ==
    ASSUME FieldInv, LoadNumber
    PROVE  FieldInv'
<1>0. UNCHANGED field /\ raw = TRUE /\ raw' = raw /\ lost' \in BOOLEAN
  <2>1. raw /\ raw \in BOOLEAN /\ lost \in BOOLEAN /\ UNCHANGED <<field, raw, lost>>
    BY DEF LoadNumber, FieldInv
  <2> QED
    BY <2>1
<1>1. CASE \E v \in 0 .. Range25519 - 1 : Becomes25519(v, v)
  <2>1. PICK v \in 0 .. Range25519 - 1 : Becomes25519(v, v)
    BY <1>1
  <2>2. v \in Nat /\ v < Range25519
    BY Numbers25
  <2>3. field.name = "F25519" /\ register' = v /\ exact' = v % P25519
    BY <2>1 DEF Becomes25519
  <2>4. Good25(register', exact', raw')
    BY <1>0, <2>2, <2>3 DEF Good25
  <2> QED
    BY <1>0, <2>3, <2>4, OnField
<1>2. CASE \E v \in 0 .. Range448 - 1 : Becomes448(v, v)
  <2>1. PICK v \in 0 .. Range448 - 1 : Becomes448(v, v)
    BY <1>2
  <2>2. v \in Nat /\ v < Range448
    BY Numbers44
  <2>3. field.name = "F448" /\ register' = v /\ exact' = v % P448
    BY <2>1 DEF Becomes448
  <2>4. Good44(register', exact')
    BY <2>2, <2>3 DEF Good44
  <2> QED
    BY <1>0, <2>3, <2>4, OnField
<1>3. CASE \E n \in -3 .. 3 : Becomes448(Load448(n), n)
  <2>1. PICK n \in -3 .. 3 : Becomes448(Load448(n), n)
    BY <1>3
  <2> DEFINE r == Load448(n)
  <2>2. r \in Nat /\ r < Range448 /\ Same(r, n, P448)
    BY LoadIs44
  <2>3. field.name = "F448" /\ register' = r /\ exact' = n % P448
    BY <2>1 DEF Becomes448
  <2> HIDE DEF r
  <2>4. Good44(r, n % P448)
    BY <2>2, Became44
  <2> QED
    BY <1>0, <2>3, <2>4, OnField
<1> QED
  BY <1>1, <1>2, <1>3 DEF LoadNumber

\* Fp8::load.
LEMMA LoadBytesKeeps ==
    ASSUME FieldInv, NEW length \in 1 .. ByteCount + 2,
           NEW data \in 0 .. Pow(2, ByteBits * length) - 1, LoadBytes(data, length)
    PROVE  FieldInv'
<1> DEFINE q == field.prime
<1>1. /\ field.name = "Fp8" /\ UNCHANGED field /\ raw' = raw /\ raw \in BOOLEAN
      /\ lost' \in BOOLEAN
  BY DEF LoadBytes, Becomes8, FieldInv
<1>2. register' = Load8(data, length, q) /\ exact' = data % q
  BY DEF LoadBytes, Becomes8
<1>3. q \in Nat /\ Modulus8(q)
  BY <1>1, PrimeIs
<1> HIDE DEF q
<1>4. length \in Nat /\ 1 <= length
  BY Sizes8
<1> DEFINE n == ByteBits * length
<1>5. n \in Nat
  BY <1>4, Sizes8
<1> HIDE DEF n
<1>6. Pow(2, n) \in Nat
  BY <1>5, PowTwo
<1>7. data \in Nat /\ data < Pow(2, ByteBits * length)
  <2>1. data \in 0 .. Pow(2, n) - 1
    BY DEF n
  <2>2. data \in Nat /\ data < Pow(2, n)
    BY <1>6, <2>1
  <2> QED
    BY <2>2 DEF n
<1>8. /\ Load8(data, length, q) = data % q
      /\ Load8(data, length, q) \in Nat /\ Load8(data, length, q) < q
  BY <1>3, <1>4, <1>7, LoadIs8
<1>9. Good8(register', exact', field.prime)
  BY <1>2, <1>8 DEF Good8, q
<1> QED
  BY <1>1, <1>9, OnField

\* Sums and differences.
LEMMA AddedKeeps ==
    ASSUME FieldInv, UNCHANGED field, raw' \in BOOLEAN, ~lost, lost' \in BOOLEAN, Added
    PROVE  FieldInv'
<1>1. ASSUME NEW y \in Operands25519, Add25519By(y) PROVE FieldInv'
  <2> DEFINE r == Add25519(register, y)
  <2>1. field.name = "F25519" /\ register' = r /\ exact' = (exact + y) % P25519
    BY <1>1 DEF Add25519By, Becomes25519
  <2>2. register \in Nat /\ register < Range25519 /\ exact \in Nat /\ Same(register, exact, P25519)
    BY <2>1, Exact25 DEF FieldInv
  <2>3. y \in Nat /\ y < Range25519
    BY FieldAssumption
  <2>4. r \in Nat /\ r < 2 * P25519 /\ Same(r, register + y, P25519)
    BY <2>2, <2>3, AddIs25
  <2> HIDE DEF r
  <2>5. Same(r, exact + y, P25519)
    <3>1. P25519 \in Nat /\ y \in Int
      BY <2>3, Numbers25
    <3> QED
      BY <2>2, <2>4, <3>1, AlsoSum
  <2> DEFINE z == exact + y
  <2>6. z \in Int
    BY <2>2, <2>3
  <2> HIDE DEF z
  <2>7. Good25(r, z % P25519, raw')
    BY <2>4, <2>5, <2>6, Became25 DEF z
  <2> QED
    BY <2>1, <2>7, OnField DEF z
<1>2. ASSUME NEW y \in Operands25519, Sub25519By(y) PROVE FieldInv'
  <2>0. field.name = "F25519"
    BY <1>2 DEF Sub25519By, Becomes25519
  <2>1. register \in Nat /\ register < Range25519 /\ exact \in Nat /\ Same(register, exact, P25519)
    BY <2>0, Exact25 DEF FieldInv
  <2>2. y \in Nat /\ y < Range25519
    BY FieldAssumption
  <2>3. CASE y < 2 * P25519 /\ Becomes25519(Sub25519(register, y), exact - y)
    <3> DEFINE r == Sub25519(register, y)
               z == exact - y
    <3>1. register' = r /\ exact' = z % P25519
      BY <2>3 DEF Becomes25519
    <3>2. r \in Nat /\ r < 2 * P25519 /\ Same(r, register - y, P25519)
      BY <2>1, <2>2, <2>3, SubIs25
    <3> HIDE DEF r
    <3>3. Same(r, exact - y, P25519)
      BY <2>1, <2>2, <3>2, Numbers25, AlsoDifference
    <3>4. z \in Int
      BY <2>1, <2>2
    <3> HIDE DEF z
    <3>5. Good25(r, z % P25519, raw')
      BY <3>2, <3>3, <3>4, Became25 DEF z
    <3> QED
      BY <2>0, <3>1, <3>5, OnField
  <2>4. CASE register < 2 * P25519 /\ Becomes25519(Sub25519(y, register), y - exact)
    <3> DEFINE r == Sub25519(y, register)
               z == y - exact
    <3>1. register' = r /\ exact' = z % P25519
      BY <2>4 DEF Becomes25519
    <3>2. r \in Nat /\ r < 2 * P25519 /\ Same(r, y - register, P25519)
      BY <2>1, <2>2, <2>4, SubIs25
    <3> HIDE DEF r
    <3>3. Same(r, y - exact, P25519)
      BY <2>1, <2>2, <3>2, Numbers25, AlsoDifference
    <3>4. z \in Int
      BY <2>1, <2>2
    <3> HIDE DEF z
    <3>5. Good25(r, z % P25519, raw')
      BY <3>2, <3>3, <3>4, Became25 DEF z
    <3> QED
      BY <2>0, <3>1, <3>5, OnField
  <2> QED
    BY <1>2, <2>3, <2>4 DEF Sub25519By
<1>3. ASSUME NEW y \in Operands448, Add448By(y) PROVE FieldInv'
  <2> DEFINE r == Add448(register, y)
             x == register + y
             z == exact + y
  <2>1. field.name = "F448" /\ register' = r /\ exact' = z % P448 /\ lost' = TooLarge(x)
    BY <1>3 DEF Add448By, Becomes448
  <2>2. register \in Nat /\ register < Range448 /\ exact \in Nat /\ Same(register, exact, P448)
    BY <2>1, Exact44 DEF FieldInv
  <2>3. y \in Nat /\ y < Range448
    BY FieldAssumption
  <2>4. r \in Nat /\ r < Range448 /\ (~TooLarge(x) => Same(r, register + y, P448))
    BY <2>1, <2>2, <2>3, AddIs44
  <2> HIDE DEF r
  <2>5. ASSUME ~TooLarge(x) PROVE Same(r, exact + y, P448)
    <3>1. P448 \in Nat /\ y \in Int
      BY <2>3, Numbers44
    <3> QED
      BY <2>2, <2>4, <2>5, <3>1, AlsoSum
  <2>6. z \in Int
    BY <2>2, <2>3
  <2> HIDE DEF z, x
  <2>7. CASE TooLarge(x)
    BY <2>1, <2>4, <2>7, OnField
  <2>8. CASE ~TooLarge(x)
    <3>1. Good44(r, z % P448)
      BY <2>4, <2>5, <2>6, <2>8, Became44 DEF z
    <3> QED
      BY <2>1, <3>1, OnField
  <2> QED
    BY <2>7, <2>8
<1>4. ASSUME NEW y \in 0 .. field.prime - 1, Becomes8(Add8(register, y, field.prime), exact + y)
      PROVE  FieldInv'
  <2> DEFINE q == field.prime
  <2>1. field.name = "Fp8" /\ register' = Add8(register, y, q) /\ exact' = (exact + y) % q
    BY <1>4 DEF Becomes8
  <2>2. q \in Nat /\ Modulus8(q)
    BY <2>1, PrimeIs
  <2>3. register \in Nat /\ register < q /\ exact = register
    BY <2>1 DEF FieldInv, Good8
  <2> HIDE DEF q
  <2>4. y \in Nat /\ y < q
    BY <2>2 DEF q
  <2>5. /\ Add8(register, y, q) = (register + y) % q
        /\ Add8(register, y, q) \in Nat /\ Add8(register, y, q) < q
    BY <2>2, <2>3, <2>4, AddIs8
  <2>6. Good8(register', exact', field.prime)
    BY <2>1, <2>3, <2>5 DEF Good8, q
  <2> QED
    BY <2>1, <2>6, OnField
<1> QED
  BY <1>1, <1>2, <1>3, <1>4 DEF Added

\* Negatives.
LEMMA NegatedKeeps ==
    ASSUME FieldInv, UNCHANGED field, raw' \in BOOLEAN, ~lost, lost' \in BOOLEAN, Negated
    PROVE  FieldInv'
<1>1. CASE register < 2 * P25519 /\ Becomes25519(Sub25519(0, register), -exact)
  <2> DEFINE r == Sub25519(0, register)
             z == -exact
  <2>1. field.name = "F25519" /\ register' = r /\ exact' = z % P25519
    BY <1>1 DEF Becomes25519
  <2>2. register \in Nat /\ register < Range25519 /\ exact \in Nat /\ Same(register, exact, P25519)
    BY <2>1, Exact25 DEF FieldInv
  <2>3. 0 \in Nat /\ 0 < Range25519
    BY <2>2, Numbers25
  <2>4. r \in Nat /\ r < 2 * P25519 /\ Same(r, 0 - register, P25519)
    BY <1>1, <2>2, <2>3, SubIs25
  <2> HIDE DEF r
  <2>5. z \in Int /\ z = 0 - exact
    BY <2>2
  <2> HIDE DEF z
  <2>6. Same(r, z, P25519)
    <3>1. P25519 \in Nat 
      BY Numbers25
    <3> DEFINE u == 0 - register
    <3>2. u = 0 - register /\ Same(r, u, P25519)
      BY <2>4
    <3> HIDE DEF u
    <3> QED
      BY <2>2, <2>4, <2>5, <3>1, <3>2, AlsoNegative
  <2>7. Good25(r, z % P25519, raw')
    BY <2>4, <2>5, <2>6, Became25
  <2> QED
    BY <2>1, <2>7, OnField
<1>2. CASE Becomes448(Neg448(register), -exact)
  <2> DEFINE r == Neg448(register)
             z == -exact
  <2>1. field.name = "F448" /\ register' = r /\ exact' = z % P448
    BY <1>2 DEF Becomes448
  <2>2. register \in Nat /\ register < Range448 /\ exact \in Nat /\ Same(register, exact, P448)
    BY <2>1, Exact44 DEF FieldInv
  <2>3. r \in Nat /\ r < Range448 /\ Same(r, -register, P448)
    BY <2>2, NegIs44
  <2> HIDE DEF r
  <2>5. z \in Int /\ z = 0 - exact
    BY <2>2
  <2> HIDE DEF z
  <2>6. Same(r, z, P448)
    <3>1. P448 \in Nat
      BY Numbers44
    <3> DEFINE u == -register
    <3>2. u = 0 - register /\ Same(r, u, P448)
      BY <2>2, <2>3
    <3> HIDE DEF u
    <3> QED
      BY <2>2, <2>3, <2>5, <3>1, <3>2, AlsoNegative
  <2>7. Good44(r, z % P448)
    BY <2>3, <2>5, <2>6, Became44
  <2> QED
    BY <2>1, <2>7, OnField
<1> QED
  BY <1>1, <1>2 DEF Negated

\* Products.
LEMMA MultipliedKeeps ==
    ASSUME FieldInv, UNCHANGED field, raw' \in BOOLEAN, ~lost, lost' \in BOOLEAN, Multiplied
    PROVE  FieldInv'
<1>1. ASSUME NEW y \in Operands25519, Becomes25519(Mul25519(register, y), exact * y)
      PROVE  FieldInv'
  <2> DEFINE r == Mul25519(register, y)
             z == exact * y
  <2>1. field.name = "F25519" /\ register' = r /\ exact' = z % P25519
    BY <1>1 DEF Becomes25519
  <2>2. register \in Nat /\ register < Range25519 /\ exact \in Nat /\ Same(register, exact, P25519)
    BY <2>1, Exact25 DEF FieldInv
  <2>3. y \in Nat /\ y < Range25519
    BY FieldAssumption
  <2>4. r \in Nat /\ r < 2 * P25519 /\ Same(r, register * y, P25519)
    BY <2>2, <2>3, MulIs25
  <2> HIDE DEF r
  <2>5. Same(r, exact * y, P25519)
    <3>1. P25519 \in Nat /\ y \in Int
      BY <2>3, Numbers25
    <3> QED
      BY <2>2, <2>4, <3>1, AlsoProduct
  <2>6. z \in Int
    BY <2>2, <2>3
  <2> HIDE DEF z
  <2>7. Good25(r, z % P25519, raw')
    BY <2>4, <2>5, <2>6, Became25 DEF z
  <2> QED
    BY <2>1, <2>7, OnField
<1>2. ASSUME NEW y \in Operands448, Becomes448(Mul448(register, y), exact * y)
      PROVE  FieldInv'
  <2> DEFINE r == Mul448(register, y)
             z == exact * y
  <2>1. field.name = "F448" /\ register' = r /\ exact' = z % P448
    BY <1>2 DEF Becomes448
  <2>2. register \in Nat /\ register < Range448 /\ exact \in Nat /\ Same(register, exact, P448)
    BY <2>1, Exact44 DEF FieldInv
  <2>3. y \in Nat /\ y < Range448
    BY FieldAssumption
  <2>4. r \in Nat /\ r < Range448 /\ Same(r, register * y, P448)
    BY <2>2, <2>3, MulIs44
  <2> HIDE DEF r
  <2>5. Same(r, exact * y, P448)
    <3>1. P448 \in Nat /\ y \in Int
      BY <2>3, Numbers44
    <3> QED
      BY <2>2, <2>4, <3>1, AlsoProduct
  <2>6. z \in Int
    BY <2>2, <2>3
  <2> HIDE DEF z
  <2>7. Good44(r, z % P448)
    BY <2>4, <2>5, <2>6, Became44 DEF z
  <2> QED
    BY <2>1, <2>7, OnField
<1>3. ASSUME NEW y \in 0 .. field.prime - 1, Becomes8(Mul8(register, y, field.prime), exact * y)
      PROVE  FieldInv'
  <2> DEFINE q == field.prime
  <2>1. field.name = "Fp8" /\ register' = Mul8(register, y, q) /\ exact' = (exact * y) % q
    BY <1>3 DEF Becomes8
  <2>2. q \in Nat /\ Modulus8(q)
    BY <2>1, PrimeIs
  <2>3. register \in Nat /\ register < q /\ exact = register
    BY <2>1 DEF FieldInv, Good8
  <2> HIDE DEF q
  <2>4. y \in Nat /\ y < q
    BY <2>2 DEF q
  <2>5. /\ Mul8(register, y, q) = (register * y) % q
        /\ Mul8(register, y, q) \in Nat /\ Mul8(register, y, q) < q
    BY <2>2, <2>3, <2>4, MulIs8
  <2>6. Good8(register', exact', field.prime)
    BY <2>1, <2>3, <2>5 DEF Good8, q
  <2> QED
    BY <2>1, <2>6, OnField
<1> QED
  BY <1>1, <1>2, <1>3 DEF Multiplied

\* A power is a remainder already.
LEMMA PowerReduced ==
    ASSUME NEW x \in Nat, NEW n \in Nat, n # 0, NEW p \in Nat, p # 0
    PROVE  Power(x, n, p) \in Nat /\ Power(x, n, p) % p = Power(x, n, p)
<1> DEFINE m == n - 1
           w == Power(x, m, p)
<1>1. m \in Nat /\ n = m + 1
  OBVIOUS
<1>2. w \in Nat
  BY <1>1, PowerNat
<1>3. Power(x, n, p) = (x * w) % p
  BY <1>1, PowerFacts
<1> HIDE DEF m, w
<1>4. x * w \in Nat
  BY <1>2
<1>5. (x * w) % p \in Nat /\ (x * w) % p < p
  BY <1>4, DivMod
<1>6. ((x * w) % p) % p = (x * w) % p
  BY <1>5, SmallMod
<1> QED
  BY <1>3, <1>5, <1>6

\* The end of a power.
LEMMA Raised25 ==
    ASSUME FieldInv, UNCHANGED field, raw' \in BOOLEAN, ~lost, lost' \in BOOLEAN,
           field.name = "F25519",
           NEW r, NEW e \in Nat, e # 0, PowerOf(r, exact, e, P25519, 2 * P25519),
           register' = r, exact' = Power(exact, e, P25519)
    PROVE  FieldInv'
<1> DEFINE z == Power(exact, e, P25519)
<1>1. exact \in Nat
  BY Exact25 DEF FieldInv
<1>2. z \in Int /\ z % P25519 = z
  BY <1>1, Numbers25, PowerReduced
<1>3. r \in Nat /\ r < 2 * P25519 /\ Same(r, z, P25519)
  BY DEF PowerOf
<1>4. register' = r /\ exact' = z
  OBVIOUS
<1> HIDE DEF z
<1>5. Good25(r, z % P25519, raw')
  BY <1>2, <1>3, Became25
<1> QED
  BY <1>2, <1>4, <1>5, OnField

\* The same for F448.
LEMMA Raised44 ==
    ASSUME FieldInv, UNCHANGED field, raw' \in BOOLEAN, ~lost, lost' \in BOOLEAN,
           field.name = "F448",
           NEW r, NEW e \in Nat, e # 0, PowerOf(r, exact, e, P448, Range448),
           register' = r, exact' = Power(exact, e, P448)
    PROVE  FieldInv'
<1> DEFINE z == Power(exact, e, P448)
<1>1. exact \in Nat
  BY Exact44 DEF FieldInv
<1>2. z \in Int /\ z % P448 = z
  BY <1>1, Numbers44, PowerReduced
<1>3. r \in Nat /\ r < Range448 /\ Same(r, z, P448)
  BY DEF PowerOf
<1>4. register' = r /\ exact' = z
  OBVIOUS
<1> HIDE DEF z
<1>5. Good44(r, z % P448)
  BY <1>2, <1>3, Became44
<1> QED
  BY <1>2, <1>4, <1>5, OnField

\* What a power of F25519 starts from
LEMMA Base25 ==
    ASSUME FieldInv, field.name = "F25519"
    PROVE  /\ OpRight(field, P25519, Range25519, 2 * P25519)
           /\ exact \in Nat /\ PowerOf(register, exact, 1, P25519, Range25519)
<1>1. /\ register \in Nat /\ register < Range25519 /\ exact \in Nat /\ exact < P25519
      /\ Same(register, exact, P25519)
  BY Exact25 DEF FieldInv
<1>2. PowerOf(register, exact, 1, P25519, Range25519)
  BY <1>1, Numbers25, FirstPower
<1> QED
  BY <1>1, <1>2, Op25

\* and one of F448.
LEMMA Base44 ==
    ASSUME FieldInv, ~lost, field.name = "F448"
    PROVE  /\ OpRight(field, P448, Range448, Range448)
           /\ exact \in Nat /\ PowerOf(register, exact, 1, P448, Range448)
<1>1. /\ register \in Nat /\ register < Range448 /\ exact \in Nat /\ exact < P448
      /\ Same(register, exact, P448)
  BY Exact44 DEF FieldInv
<1>2. PowerOf(register, exact, 1, P448, Range448)
  BY <1>1, Numbers44, FirstPower
<1> QED
  BY <1>1, <1>2, Op44

\* Powers with an exponent that ends in either place.
LEMMA RaisedKeeps ==
    ASSUME FieldInv, UNCHANGED field, raw' \in BOOLEAN, ~lost, lost' \in BOOLEAN, Raised
    PROVE  FieldInv'
<1>1. PICK n \in {26, 29} :
        /\ register' = ResultOf(PowRle(field, register, ExponentOf(n)), n)
        /\ exact' = Power(exact, n, Modulus)
  BY DEF Raised
<1>2. field.name = "F25519" \/ field.name = "F448"
  BY DEF Raised, FieldInv
<1>3. CASE field.name = "F25519"
  <2>1. /\ OpRight(field, P25519, Range25519, 2 * P25519)
        /\ exact \in Nat /\ PowerOf(register, exact, 1, P25519, Range25519)
    BY <1>3, Base25
  <2>2. PowerOf(ResultOf(PowRle(field, register, ExponentOf(n)), n), exact, n, P25519, 2 * P25519)
    <3>1. CASE n = 29
      <4>1. PowerOf(InS(PowRle(field, register, <<5, 2, 3>>)), exact, 29, P25519, 2 * P25519)
        BY <2>1, Power29
      <4> QED
        BY <3>1, <4>1 DEF ResultOf, ExponentOf
    <3>2. CASE n = 26
      <4>1. PowerOf(InR(PowRle(field, register, <<3, 2, 3, 2>>)), exact, 26, P25519, 2 * P25519)
        BY <2>1, Power26
      <4> QED
        BY <3>2, <4>1 DEF ResultOf, ExponentOf
    <3> QED
      BY <1>1, <3>1, <3>2
  <2>3. exact' = Power(exact, n, P25519)
    BY <1>1, <1>3 DEF Modulus
  <2> QED
    BY <1>1, <1>3, <2>2, <2>3, Raised25
<1>4. CASE field.name = "F448"
  <2>1. /\ OpRight(field, P448, Range448, Range448)
        /\ exact \in Nat /\ PowerOf(register, exact, 1, P448, Range448)
    BY <1>4, Base44
  <2>2. PowerOf(ResultOf(PowRle(field, register, ExponentOf(n)), n), exact, n, P448, Range448)
    <3>1. CASE n = 29
      <4>1. PowerOf(InS(PowRle(field, register, <<5, 2, 3>>)), exact, 29, P448, Range448)
        BY <2>1, Power29
      <4> QED
        BY <3>1, <4>1 DEF ResultOf, ExponentOf
    <3>2. CASE n = 26
      <4>1. PowerOf(InR(PowRle(field, register, <<3, 2, 3, 2>>)), exact, 26, P448, Range448)
        BY <2>1, Power26
      <4> QED
        BY <3>2, <4>1 DEF ResultOf, ExponentOf
    <3> QED
      BY <1>1, <3>1, <3>2
  <2>3. exact' = Power(exact, n, P448)
    BY <1>1, <1>4 DEF Modulus
  <2> QED
    BY <1>1, <1>4, <2>2, <2>3, Raised44
<1> QED
  BY <1>2, <1>3, <1>4

\* Every step keeps the invariant.
LEMMA FieldStep == FieldInv /\ [FieldNext]_fieldVars => FieldInv'
<1> SUFFICES ASSUME FieldInv, [FieldNext]_fieldVars PROVE FieldInv'
  OBVIOUS
<1>1. CASE LoadNumber
  BY <1>1, LoadNumberKeeps
<1>2. CASE \E length \in 1 .. ByteCount + 2 : \E data \in 0 .. Pow(2, ByteBits * length) - 1 :
               LoadBytes(data, length)
  BY <1>2, LoadBytesKeeps
<1>3. CASE WorkedOn
  <2>1. UNCHANGED field /\ raw' \in BOOLEAN /\ ~lost /\ (Added \/ Negated \/ Multiplied \/ Raised)
    BY <1>3 DEF WorkedOn
  <2>0. lost' \in BOOLEAN
    <3>1. \A sum : TooLarge(sum) \in BOOLEAN
      BY DEF TooLarge
    <3>2. UNCHANGED lost \/ \E y \in Operands448 : lost' = TooLarge(register + y)
      BY <1>3 DEF WorkedOn, Added, Add448By
    <3>3. lost \in BOOLEAN
      BY DEF FieldInv
    <3> QED
      BY <3>1, <3>2, <3>3
  <2>2. CASE Added
    BY <2>0, <2>1, <2>2, AddedKeeps
  <2>3. CASE Negated
    BY <2>0, <2>1, <2>3, NegatedKeeps
  <2>4. CASE Multiplied
    BY <2>0, <2>1, <2>4, MultipliedKeeps
  <2>5. CASE Raised
    BY <2>0, <2>1, <2>5, RaisedKeeps
  <2> QED
    BY <2>1, <2>2, <2>3, <2>4, <2>5
<1>4. CASE UNCHANGED fieldVars
  BY <1>4 DEF fieldVars, FieldInv
<1> QED
  BY <1>1, <1>2, <1>3, <1>4 DEF FieldNext

\* The invariant shows that the register is right.
LEMMA FieldShows == FieldInv => FieldRight
<1> SUFFICES ASSUME FieldInv PROVE FieldRight
  OBVIOUS
<1>1. raw \in BOOLEAN /\ field.name \in {"F25519", "F448", "Fp8"}
  BY DEF FieldInv
<1>2. CASE field.name = "F25519"
  <2>1. register \in Nat /\ register < Range25519 /\ exact = register % P25519
        /\ (raw \/ register < 2 * P25519)
    BY <1>1, <1>2 DEF FieldInv, Good25
  <2>2. Normalize25519(register) = register % P25519
    BY <2>1, NormalizeIs25
  <2>3. Modulus = P25519
    BY <1>2 DEF Modulus
  <2> QED
    BY <1>2, <2>1, <2>2, <2>3 DEF FieldRight
<1>3. CASE field.name = "F448"
  <2>1. register \in Nat /\ register < Range448 /\ (lost \/ exact = register % P448)
    BY <1>3 DEF FieldInv, Good44
  <2>2. Normalize448(register) = register % P448
    BY <2>1, NormalizeIs44
  <2>3. Modulus = P448
    BY <1>3 DEF Modulus
  <2> QED
    BY <1>3, <2>1, <2>2, <2>3 DEF FieldRight
<1>4. CASE field.name = "Fp8"
  <2>1. register \in Nat /\ register < field.prime /\ exact = register
    BY <1>4 DEF FieldInv, Good8
  <2>2. field.prime \in Nat
    BY <1>4, PrimeIs
  <2>3. register % field.prime = register
    BY <2>1, <2>2, SmallMod
  <2>4. Modulus = field.prime
    BY <1>4 DEF Modulus
  <2> QED
    BY <1>4, <2>1, <2>3, <2>4 DEF FieldRight
<1> QED
  BY <1>1, <1>2, <1>3, <1>4

\* After any sequence of operations the register of F25519, F448 or Fp8 is
\* congruent to the exact result and F25519's is below 2p; only a sum of F448
\* that is at least 2^448 + p leaves words that are not.
THEOREM FieldInvTheorem == FieldSpec => []FieldInv
BY FieldStart, FieldStep, PTL DEF FieldSpec

\* So normalizing it gives the exact result, for any word size, number of
\* words, small constant, modulus of Fp8 and operands: f25519.cpp and
\* fprime8.cpp lose no carry, and f448.cpp only the second one of such a sum,
\* for which both operands have to be above p.
THEOREM FieldRightTheorem == FieldSpec => []FieldRight
BY FieldInvTheorem, FieldShows, PTL
=============================================================================
