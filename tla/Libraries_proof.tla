---------------------------- MODULE Libraries_proof ----------------------------
(***************************************************************************)
(* Proofs about the objects of src/utilities and src/crypto: the ring      *)
(* implements the queue of ByteQueue; the generator gives out no word      *)
(* twice and keeps none; a hash, an HMAC, a sponge and a stream cipher     *)
(* give the same result however the caller cuts the text.  All of it for   *)
(* every size of block, rate, word, key and piece that the ASSUMEs of the  *)
(* modules admit.                                                          *)
(***************************************************************************)
EXTENDS CircularBuffer, SecureRandom, BlockHash, Sponge, StreamCipher,
    SequenceTheorems, WellFoundedInduction, TLAPS

-----------------------------------------------------------------------------
(* Sequences, sums of blocks and induction, for the parts below.           *)

\* Induction, over a set instead of a predicate.
LEMMA Induction ==
    ASSUME NEW T, 0 \in T, \A i \in Nat : i \in T => i + 1 \in T
    PROVE  \A i \in Nat : i \in T
<1> SUFFICES ASSUME NEW x \in Nat, x \notin T PROVE FALSE
  OBVIOUS
<1> DEFINE U == Nat \ T
<1>1. \E n \in U : \A m \in U : ~(<<m, n>> \in OpToRel(<, Nat))
  BY WFMin, NatLessThanWellFounded
<1>2. PICK n \in U : \A m \in U : ~(<<m, n>> \in OpToRel(<, Nat))
  BY <1>1
<1>3. n # 0 /\ n - 1 \in Nat /\ n - 1 < n
  OBVIOUS
<1>4. n - 1 \in T
  BY <1>2, <1>3 DEF OpToRel
<1>5. (n - 1) + 1 \in T
  BY <1>3, <1>4
<1> QED
  BY <1>3, <1>5

LEMMA FunctionIsSeq ==
    ASSUME NEW S, NEW n \in Nat, NEW f \in [1 .. n -> S]
    PROVE  f \in Seq(S) /\ Len(f) = n
<1>1. f \in Seq(S)
  BY SeqDef
<1>2. DOMAIN f = 1 .. n /\ DOMAIN f = 1 .. Len(f) /\ Len(f) \in Nat
  BY <1>1, LenProperties
<1> QED
  BY <1>1, <1>2

\* A sequence, of whatever.
IsSeq(m) == m \in Seq(Range(m))

LEMMA SeqFacts ==
    ASSUME NEW m, IsSeq(m)
    PROVE  /\ Len(m) \in Nat /\ DOMAIN m = 1 .. Len(m)
           /\ m = [i \in 1 .. Len(m) |-> m[i]]
           /\ \A i \in 1 .. Len(m) : m[i] \in Range(m)
<1>1. m \in [1 .. Len(m) -> Range(m)] /\ Len(m) \in Nat /\ DOMAIN m = 1 .. Len(m)
  BY LenProperties DEF IsSeq
<1> QED
  BY <1>1

LEMMA SeqOfSet == ASSUME NEW S, NEW m \in Seq(S) PROVE IsSeq(m)
<1>1. m \in [1 .. Len(m) -> S] /\ Len(m) \in Nat /\ DOMAIN m = 1 .. Len(m)
  BY LenProperties
<1>2. m \in [1 .. Len(m) -> Range(m)]
  BY <1>1 DEF Range
<1> QED
  BY <1>1, <1>2, FunctionIsSeq DEF IsSeq

LEMMA FunctionSeq ==
    ASSUME NEW n \in Nat, NEW f, f = [i \in 1 .. n |-> f[i]]
    PROVE  IsSeq(f) /\ Len(f) = n
<1>1. f \in [1 .. n -> Range(f)]
  BY DEF Range
<1> QED
  BY <1>1, FunctionIsSeq DEF IsSeq

LEMMA SameSeq ==
    ASSUME NEW a, IsSeq(a), NEW b, IsSeq(b), Len(a) = Len(b), \A i \in 1 .. Len(a) : a[i] = b[i]
    PROVE  a = b
<1>1. a = [i \in 1 .. Len(a) |-> a[i]] /\ b = [i \in 1 .. Len(a) |-> b[i]]
  BY SeqFacts
<1> QED
  BY <1>1

LEMMA EmptyIsSeq == IsSeq(<<>>) /\ Len(<<>>) = 0
BY EmptySeq DEF IsSeq

LEMMA ConcatFacts ==
    ASSUME NEW a, IsSeq(a), NEW b, IsSeq(b)
    PROVE  /\ IsSeq(a \o b) /\ Len(a \o b) = Len(a) + Len(b)
           /\ \A i \in 1 .. Len(a) : (a \o b)[i] = a[i]
           /\ \A i \in 1 .. Len(b) : (a \o b)[Len(a) + i] = b[i]
<1> DEFINE S == Range(a) \cup Range(b)
<1>1. a \in Seq(S) /\ b \in Seq(S)
  BY SeqMonotonic DEF IsSeq
<1>2. Len(a) \in Nat /\ Len(b) \in Nat
  BY SeqFacts
<1> HIDE DEF S
<1>3. /\ a \o b \in Seq(S) /\ Len(a \o b) = Len(a) + Len(b)
      /\ \A i \in 1 .. Len(a) + Len(b) : (a \o b)[i] = IF i <= Len(a) THEN a[i] ELSE b[i - Len(a)]
  BY <1>1, ConcatProperties
<1>4. IsSeq(a \o b)
  BY <1>3, SeqOfSet
<1>5. ASSUME NEW i \in 1 .. Len(a) PROVE (a \o b)[i] = a[i]
  <2>1. i \in 1 .. Len(a) + Len(b) /\ i <= Len(a)
    BY <1>2
  <2> QED
    BY <1>3, <2>1
<1>6. ASSUME NEW i \in 1 .. Len(b) PROVE (a \o b)[Len(a) + i] = b[i]
  <2>1. Len(a) + i \in 1 .. Len(a) + Len(b) /\ ~(Len(a) + i <= Len(a)) /\ (Len(a) + i) - Len(a) = i
    BY <1>2
  <2> QED
    BY <1>3, <2>1
<1> QED
  BY <1>3, <1>4, <1>5, <1>6

LEMMA SliceFacts ==
    ASSUME NEW m, NEW a \in Nat, NEW n \in Nat
    PROVE  /\ IsSeq(SubSeq(m, a + 1, a + n)) /\ Len(SubSeq(m, a + 1, a + n)) = n
           /\ \A i \in 1 .. n : SubSeq(m, a + 1, a + n)[i] = m[a + i]
<1> DEFINE S == {m[i] : i \in a + 1 .. a + n}
           s == SubSeq(m, a + 1, a + n)
<1>1. \A i \in a + 1 .. a + n : m[i] \in S
  OBVIOUS
<1>2. a + 1 \in Int /\ a + n \in Int /\ (a + n) - (a + 1) + 1 = n /\ (~(a + 1 <= a + n) => n = 0)
  OBVIOUS
<1> HIDE DEF S
<1>3. /\ s \in Seq(S) /\ Len(s) = IF a + 1 <= a + n THEN (a + n) - (a + 1) + 1 ELSE 0
      /\ \A i \in 1 .. (a + n) - (a + 1) + 1 : s[i] = m[(a + 1) + i - 1]
  BY <1>1, <1>2, SubSeqProperties
<1> HIDE DEF s
<1>4. Len(s) = n
  BY <1>2, <1>3
<1>5. \A i \in 1 .. n : s[i] = m[a + i]
  <2>1. \A i \in 1 .. n : (a + 1) + i - 1 = a + i
    OBVIOUS
  <2> QED
    BY <1>2, <1>3, <2>1
<1>6. IsSeq(s)
  BY <1>3, SeqOfSet
<1> QED
  BY <1>4, <1>5, <1>6 DEF s

LEMMA AppendFacts ==
    ASSUME NEW a, IsSeq(a), NEW x
    PROVE  /\ IsSeq(Append(a, x)) /\ Len(Append(a, x)) = Len(a) + 1
           /\ \A i \in 1 .. Len(a) : Append(a, x)[i] = a[i]
           /\ Append(a, x)[Len(a) + 1] = x
<1> DEFINE S == Range(a) \cup {x}
<1>1. a \in Seq(S) /\ x \in S
  BY SeqMonotonic DEF IsSeq
<1> HIDE DEF S
<1>2. /\ Append(a, x) \in Seq(S) /\ Len(Append(a, x)) = Len(a) + 1
      /\ \A i \in 1 .. Len(a) : Append(a, x)[i] = a[i]
      /\ Append(a, x)[Len(a) + 1] = x
  BY <1>1, AppendProperties
<1>3. IsSeq(Append(a, x))
  BY <1>2, SeqOfSet
<1> QED
  BY <1>2, <1>3

LEMMA PieceFacts ==
    ASSUME NEW m, NEW a \in Nat, NEW b \in Nat, a <= b
    PROVE  /\ IsSeq(SubSeq(m, a + 1, b)) /\ Len(SubSeq(m, a + 1, b)) = b - a
           /\ \A i \in 1 .. b - a : SubSeq(m, a + 1, b)[i] = m[a + i]
<1> DEFINE n == b - a
<1>1. n \in Nat /\ a + n = b
  OBVIOUS
<1> HIDE DEF n
<1>2. /\ IsSeq(SubSeq(m, a + 1, a + n)) /\ Len(SubSeq(m, a + 1, a + n)) = n
      /\ \A i \in 1 .. n : SubSeq(m, a + 1, a + n)[i] = m[a + i]
  BY <1>1, SliceFacts
<1> QED
  BY <1>1, <1>2 DEF n

LEMMA CopiedFacts ==
    ASSUME NEW bytes, IsSeq(bytes), NEW at \in Nat, NEW data, IsSeq(data),
           at + Len(data) <= Len(bytes)
    PROVE  /\ IsSeq(CopiedInto(bytes, at, data)) /\ Len(CopiedInto(bytes, at, data)) = Len(bytes)
           /\ \A i \in 1 .. at : CopiedInto(bytes, at, data)[i] = bytes[i]
           /\ \A i \in 1 .. Len(data) : CopiedInto(bytes, at, data)[at + i] = data[i]
           /\ \A i \in at + Len(data) + 1 .. Len(bytes) : CopiedInto(bytes, at, data)[i] = bytes[i]
<1> DEFINE r == CopiedInto(bytes, at, data)
<1>1. /\ Len(bytes) \in Nat /\ DOMAIN bytes = 1 .. Len(bytes)
      /\ Len(data) \in Nat /\ DOMAIN data = 1 .. Len(data)
  BY SeqFacts
<1>2. r = [i \in 1 .. Len(bytes) |-> r[i]]
  BY <1>1 DEF CopiedInto
<1>3. \A i \in 1 .. Len(bytes) : r[i] = IF i - at \in 1 .. Len(data) THEN data[i - at] ELSE bytes[i]
  BY <1>1 DEF CopiedInto
<1> HIDE DEF r
<1>4. IsSeq(r) /\ Len(r) = Len(bytes)
  BY <1>1, <1>2, FunctionSeq
<1>5. \A i \in 1 .. at : r[i] = bytes[i]
  <2> TAKE i \in 1 .. at
  <2>1. i \in 1 .. Len(bytes) /\ ~(i - at \in 1 .. Len(data))
    BY <1>1
  <2> QED
    BY <1>3, <2>1
<1>6. \A i \in 1 .. Len(data) : r[at + i] = data[i]
  <2> TAKE i \in 1 .. Len(data)
  <2>1. at + i \in 1 .. Len(bytes) /\ (at + i) - at = i
    BY <1>1
  <2> QED
    BY <1>3, <2>1
<1>7. \A i \in at + Len(data) + 1 .. Len(bytes) : r[i] = bytes[i]
  <2> TAKE i \in at + Len(data) + 1 .. Len(bytes)
  <2>1. i \in 1 .. Len(bytes) /\ ~(i - at \in 1 .. Len(data))
    BY <1>1
  <2> QED
    BY <1>3, <2>1
<1> QED
  BY <1>4, <1>5, <1>6, <1>7 DEF r

LEMMA Regroup ==
    ASSUME NEW a, IsSeq(a), NEW b, IsSeq(b), NEW c, IsSeq(c)
    PROVE  (a \o b) \o c = a \o (b \o c)
<1> DEFINE S == Range(a) \cup Range(b) \cup Range(c)
<1>1. a \in Seq(S) /\ b \in Seq(S) /\ c \in Seq(S)
  BY SeqMonotonic DEF IsSeq
<1> HIDE DEF S
<1> QED
  BY <1>1, ConcatAssociative

LEMMA ZerosFacts ==
    ASSUME NEW n \in Nat
    PROVE  IsSeq(Zeros(n)) /\ Len(Zeros(n)) = n /\ \A i \in 1 .. n : Zeros(n)[i] = Zero
<1> DEFINE z == Zeros(n)
<1>1. z = [i \in 1 .. n |-> z[i]] /\ \A i \in 1 .. n : z[i] = Zero
  BY DEF Zeros
<1> HIDE DEF z
<1>2. IsSeq(z) /\ Len(z) = n
  BY <1>1, FunctionSeq
<1> QED
  BY <1>1, <1>2 DEF z

LEMMA OneFacts == ASSUME NEW x PROVE IsSeq(<<x>>) /\ Len(<<x>>) = 1 /\ <<x>>[1] = x
<1>1. <<x>> \in Seq({x}) /\ Len(<<x>>) = 1 /\ <<x>>[1] = x
  OBVIOUS
<1> QED
  BY <1>1, SeqOfSet

LEMMA SuppliedFacts ==
    ASSUME NEW name, NEW at, NEW n \in Nat
    PROVE  IsSeq(Supplied(name, at, n)) /\ Len(Supplied(name, at, n)) = n
<1> DEFINE s == Supplied(name, at, n)
<1>1. s = [i \in 1 .. n |-> s[i]]
  BY DEF Supplied
<1> HIDE DEF s
<1>2. IsSeq(s) /\ Len(s) = n
  BY <1>1, FunctionSeq
<1> QED
  BY <1>2 DEF s

LEMMA DivMod ==
    ASSUME NEW n \in Nat, NEW m \in Nat \ {0}
    PROVE  /\ n \div m \in Nat /\ n % m \in Nat /\ n % m < m
           /\ n = (n \div m) * m + (n % m)
OBVIOUS

LEMMA DivModIs ==
    ASSUME NEW n \in Nat, NEW m \in Nat \ {0}, NEW q \in Nat, NEW r \in Nat, r < m, n = q * m + r
    PROVE  n \div m = q /\ n % m = r
OBVIOUS

\* n bytes more, without and with the end of a block.
LEMMA DivStep ==
    ASSUME NEW n \in Nat, NEW m \in Nat \ {0}, NEW j \in Nat
    PROVE  /\ (n % m) + j < m => (n + j) \div m = n \div m /\ (n + j) % m = (n % m) + j
           /\ (n % m) + j = m => (n + j) \div m = (n \div m) + 1 /\ (n + j) % m = 0
OBVIOUS

LEMMA FrontFacts ==
    ASSUME NEW m, NEW n \in Nat
    PROVE  /\ IsSeq(SubSeq(m, 1, n)) /\ Len(SubSeq(m, 1, n)) = n
           /\ \A i \in 1 .. n : SubSeq(m, 1, n)[i] = m[i]
<1>1. 0 \in Nat /\ 0 <= n
  OBVIOUS
<1>2. /\ IsSeq(SubSeq(m, 0 + 1, n)) /\ Len(SubSeq(m, 0 + 1, n)) = n - 0
      /\ \A i \in 1 .. n - 0 : SubSeq(m, 0 + 1, n)[i] = m[0 + i]
  BY <1>1, PieceFacts
<1>3. 0 + 1 = 1 /\ n - 0 = n /\ \A i \in 1 .. n : 0 + i = i
  OBVIOUS
<1> QED
  BY <1>2, <1>3

-----------------------------------------------------------------------------
(* The ring of bytes: the pointers stay inside the storage, no byte is lost *)
(* or repeated, and the ring is the queue of ByteQueue.                     *)

LEMMA SmallMod ==
    ASSUME NEW a \in Nat, NEW m \in Nat \ {0}, a < m
    PROVE  a % m = a
OBVIOUS

\* The job is something the documented preconditions allow.
JobInv ==
    \/ job = Idle
    \/ \E s \in Seq(Byte) : /\ job = [op |-> "write", rest |-> s, left |-> 0]
                            /\ s # << >> /\ Len(s) <= FreeBytes
    \/ \E n \in 1..PendingBytes : job = [op |-> "read", rest |-> << >>, left |-> n]

BufInv == BufTypeOK /\ JobInv

-----------------------------------------------------------------------------
(* Arithmetic of the pointers.                                             *)

LEMMA PointerFacts ==
    ASSUME BufTypeOK
    PROVE  /\ capacity \in Nat /\ capacity >= 1 /\ capacity <= MaxCapacity
           /\ rdPtr \in Nat /\ rdPtr < capacity /\ wrPtr \in Nat /\ wrPtr < capacity
           /\ MaxCapacity \in Nat /\ Word \in Nat /\ Word > 2 * MaxCapacity
BY BufferAssumption DEF BufTypeOK

\* freeBytes() never wraps: the storage is shorter than a word.
LEMMA FreeValue ==
    ASSUME BufTypeOK
    PROVE  FreeBytes = IF rdPtr <= wrPtr THEN capacity - wrPtr + rdPtr - 1 ELSE rdPtr - wrPtr - 1
<1> DEFINE free == IF rdPtr <= wrPtr THEN capacity - wrPtr + rdPtr - 1 ELSE rdPtr - wrPtr - 1
<1>1. free \in Nat /\ free < Word /\ Word \in Nat \ {0}
  BY PointerFacts
<1>2. FreeBytes = free % Word
  BY DEF FreeBytes
<1> HIDE DEF free
<1>3. FreeBytes = free
  BY <1>1, <1>2, SmallMod
<1> QED
  BY <1>3 DEF free

\* Every byte of the storage but one is pending or free.
LEMMA ConservationLemma == ASSUME BufTypeOK PROVE Conservation
BY PointerFacts, FreeValue DEF Conservation, PendingBytes

LEMMA SizeFacts ==
    ASSUME BufTypeOK
    PROVE  /\ PendingBytes \in Nat /\ PendingBytes < capacity
           /\ FreeBytes \in Nat /\ FreeBytes < capacity
BY PointerFacts, FreeValue DEF PendingBytes

LEMMA LimitFacts ==
    ASSUME BufTypeOK
    PROVE  /\ ReadLimit \in Nat /\ ReadLimit <= PendingBytes /\ rdPtr + ReadLimit <= capacity
           /\ WriteLimit \in Nat /\ WriteLimit <= FreeBytes /\ wrPtr + WriteLimit <= capacity
           /\ FreeBytes > 0 => WriteLimit > 0
           /\ PendingBytes > 0 => ReadLimit > 0
BY PointerFacts, FreeValue DEF PendingBytes, ReadLimit, WriteLimit

\* What FreeValue and PointerFacts say of the state a step leads to.
LEMMA NextFacts ==
    ASSUME BufTypeOK'
    PROVE  /\ capacity' \in Nat /\ rdPtr' \in Nat /\ rdPtr' < capacity'
           /\ wrPtr' \in Nat /\ wrPtr' < capacity'
           /\ FreeBytes' = IF rdPtr' <= wrPtr' THEN capacity' - wrPtr' + rdPtr' - 1
                           ELSE rdPtr' - wrPtr' - 1
<1> DEFINE c == capacity'
           r == rdPtr'
           w == wrPtr'
           free == IF r <= w THEN c - w + r - 1 ELSE r - w - 1
<1>1. c \in 1..MaxCapacity /\ r \in 0..(c - 1) /\ w \in 0..(c - 1)
  BY DEF BufTypeOK
<1>2. FreeBytes' = free % Word
  BY DEF FreeBytes
<1> HIDE DEF c, r, w
<1>3. MaxCapacity \in Nat /\ Word \in Nat \ {0} /\ Word > 2 * MaxCapacity
  BY BufferAssumption
<1>4. c \in Nat /\ r \in Nat /\ w \in Nat /\ r < c /\ w < c
  BY <1>1, <1>3
<1>5. free \in Nat /\ free < Word
  BY <1>1, <1>3, <1>4
<1> HIDE DEF free
<1>6. FreeBytes' = free
  BY <1>2, <1>3, <1>5, SmallMod
<1> QED
  BY <1>4, <1>6 DEF free, c, r, w

\* Moving the head by n frees n bytes.
LEMMA HeadMoves ==
    ASSUME BufTypeOK, NEW n \in Nat, n <= PendingBytes, ReadBytes(n)
    PROVE  /\ BufTypeOK'
           /\ PendingBytes' = PendingBytes - n
           /\ FreeBytes' = FreeBytes + n
<1>1. n < capacity
  BY PointerFacts, SizeFacts
<1>2. rdPtr' \in 0..(capacity - 1)
  BY <1>1, PointerFacts DEF ReadBytes, Wrap
<1>3. headPos' \in 0..(Word - 1)
  <2>1. headPos + n \in Nat /\ Word \in Nat \ {0}
    BY PointerFacts DEF BufTypeOK
  <2> QED
    BY <2>1 DEF ReadBytes
<1>4. BufTypeOK'
  BY <1>2, <1>3 DEF BufTypeOK, ReadBytes
<1>5. PendingBytes' = PendingBytes - n
  BY <1>1, PointerFacts DEF PendingBytes, ReadBytes, Wrap
<1>6. FreeBytes' = FreeBytes + n
  <2>1. capacity' = capacity /\ wrPtr' = wrPtr /\ rdPtr' = Wrap(rdPtr + n)
    BY DEF ReadBytes
  <2> QED
    BY <1>1, <1>4, <2>1, NextFacts, FreeValue, PointerFacts DEF Wrap, PendingBytes
<1> QED
  BY <1>4, <1>5, <1>6

\* Moving the tail by Len(s) uses as many bytes.
LEMMA TailMoves ==
    ASSUME BufTypeOK, NEW s \in Seq(Byte), Len(s) <= FreeBytes, WriteBytes(s)
    PROVE  /\ BufTypeOK'
           /\ PendingBytes' = PendingBytes + Len(s)
           /\ FreeBytes' = FreeBytes - Len(s)
<1>1. Len(s) \in Nat /\ Len(s) < capacity
  BY PointerFacts, SizeFacts
<1>2. /\ capacity' = capacity /\ rdPtr' = rdPtr /\ headPos' = headPos
      /\ wrPtr' = Wrap(wrPtr + Len(s)) /\ buffer' = Store(wrPtr, s)
  BY DEF WriteBytes
<1>3. wrPtr' \in 0..(capacity - 1)
  BY <1>1, <1>2, PointerFacts DEF Wrap
<1>4. buffer' \in [0..(capacity - 1) -> Byte]
  <2>1. DOMAIN buffer = 0..(capacity - 1)
    BY DEF BufTypeOK
  <2> SUFFICES ASSUME NEW a \in 0..(capacity - 1)
               PROVE  buffer'[a] \in Byte
    BY <1>2, <2>1 DEF Store
  <2>2. /\ (a >= wrPtr /\ a < wrPtr + Len(s)) => a - wrPtr + 1 \in 1..Len(s)
        /\ (~(a >= wrPtr) /\ a + capacity < wrPtr + Len(s)) => a + capacity - wrPtr + 1 \in 1..Len(s)
    <3> DEFINE m == Len(s)
    <3>1. /\ a \in Nat /\ a < capacity /\ m \in Nat /\ m < capacity
          /\ wrPtr \in Nat /\ wrPtr < capacity /\ capacity \in Nat
      BY <1>1, PointerFacts
    <3> HIDE DEF m
    <3>2. /\ (a >= wrPtr /\ a < wrPtr + m) => a - wrPtr + 1 \in 1..m
          /\ (~(a >= wrPtr) /\ a + capacity < wrPtr + m) => a + capacity - wrPtr + 1 \in 1..m
      BY <3>1
    <3> QED
      BY <3>2 DEF m
  <2>3. buffer'[a] = IF a >= wrPtr /\ a < wrPtr + Len(s) THEN s[a - wrPtr + 1]
                     ELSE IF a + capacity < wrPtr + Len(s) THEN s[a + capacity - wrPtr + 1]
                     ELSE buffer[a]
    BY <1>2, <2>1 DEF Store
  <2>4. \A i \in 1..Len(s) : s[i] \in Byte
    BY ElementOfSeq
  <2>5. buffer[a] \in Byte
    BY DEF BufTypeOK
  <2>6. CASE a >= wrPtr /\ a < wrPtr + Len(s)
    <3>1. buffer'[a] = s[a - wrPtr + 1] /\ a - wrPtr + 1 \in 1..Len(s)
      BY <2>2, <2>3, <2>6
    <3> QED
      BY <3>1, <2>4
  <2>7. CASE ~(a >= wrPtr) /\ a + capacity < wrPtr + Len(s)
    <3>1. buffer'[a] = s[a + capacity - wrPtr + 1] /\ a + capacity - wrPtr + 1 \in 1..Len(s)
      BY <2>2, <2>3, <2>7
    <3> QED
      BY <3>1, <2>4
  <2>8. CASE /\ ~(a >= wrPtr /\ a < wrPtr + Len(s))
             /\ ~(a + capacity < wrPtr + Len(s))
    BY <2>3, <2>5, <2>8
  <2>9. a + capacity < wrPtr + Len(s) => ~(a >= wrPtr)
    BY <1>1, PointerFacts
  <2> QED
    BY <2>6, <2>7, <2>8, <2>9
<1>5. BufTypeOK'
  BY <1>2, <1>3, <1>4 DEF BufTypeOK
<1> DEFINE n == Len(s)
           w == wrPtr'
<1>6. /\ PendingBytes' = IF rdPtr <= w THEN w - rdPtr ELSE capacity + w - rdPtr
      /\ FreeBytes' = IF rdPtr <= w THEN capacity - w + rdPtr - 1 ELSE rdPtr - w - 1
  BY <1>2, <1>5, NextFacts DEF PendingBytes
<1>7. n \in Nat /\ n < capacity /\ n <= FreeBytes /\ w = Wrap(wrPtr + n)
  BY <1>1, <1>2
<1> HIDE DEF n, w
<1>8. w = IF wrPtr + n >= capacity THEN wrPtr + n - capacity ELSE wrPtr + n
  BY <1>7, PointerFacts DEF Wrap
<1>9. /\ PendingBytes' = PendingBytes + n
      /\ FreeBytes' = FreeBytes - n
  <2>1. PendingBytes = IF rdPtr <= wrPtr THEN wrPtr - rdPtr ELSE capacity + wrPtr - rdPtr
    BY DEF PendingBytes
  <2>2. FreeBytes = IF rdPtr <= wrPtr THEN capacity - wrPtr + rdPtr - 1 ELSE rdPtr - wrPtr - 1
    BY FreeValue
  <2> DEFINE p == PendingBytes
             f == FreeBytes
  <2> HIDE DEF p, f
  <2>3. /\ p = IF rdPtr <= wrPtr THEN wrPtr - rdPtr ELSE capacity + wrPtr - rdPtr
        /\ f = IF rdPtr <= wrPtr THEN capacity - wrPtr + rdPtr - 1 ELSE rdPtr - wrPtr - 1
        /\ n <= f
    BY <2>1, <2>2, <1>7 DEF p, f
  <2>4. /\ p + n = IF rdPtr <= w THEN w - rdPtr ELSE capacity + w - rdPtr
        /\ f - n = IF rdPtr <= w THEN capacity - w + rdPtr - 1 ELSE rdPtr - w - 1
    <3>0. n \in Nat /\ rdPtr \in Nat /\ wrPtr \in Nat /\ capacity \in Nat
      BY <1>7, PointerFacts
    <3>1. CASE rdPtr <= wrPtr /\ wrPtr + n >= capacity
      <4>1. /\ w = wrPtr + n - capacity /\ n <= capacity - wrPtr + rdPtr - 1
            /\ p = wrPtr - rdPtr /\ f = capacity - wrPtr + rdPtr - 1
        BY <3>1, <2>3, <1>8
      <4>2. ~(rdPtr <= w)
        BY <3>0, <4>1
      <4> QED
        BY <3>0, <4>1, <4>2
    <3>2. CASE rdPtr <= wrPtr /\ ~(wrPtr + n >= capacity)
      <4>1. /\ w = wrPtr + n
            /\ p = wrPtr - rdPtr /\ f = capacity - wrPtr + rdPtr - 1
        BY <3>2, <2>3, <1>8
      <4>2. rdPtr <= w
        BY <3>0, <3>2, <4>1
      <4> QED
        BY <3>0, <4>1, <4>2
    <3>3. CASE ~(rdPtr <= wrPtr)
      <4>1. /\ n <= rdPtr - wrPtr - 1
            /\ p = capacity + wrPtr - rdPtr /\ f = rdPtr - wrPtr - 1
        BY <3>3, <2>3
      <4>2. ~(wrPtr + n >= capacity)
        BY <3>0, <4>1, PointerFacts
      <4>3. w = wrPtr + n /\ ~(rdPtr <= w)
        BY <3>0, <4>1, <4>2, <1>8
      <4> QED
        BY <3>0, <4>1, <4>3
    <3> QED
      BY <3>1, <3>2, <3>3
  <2> QED
    BY <2>4, <1>6 DEF p, f
<1> QED
  BY <1>5, <1>9 DEF n

-----------------------------------------------------------------------------
(* The inductive invariant.                                                *)

LEMMA InitInv == BufInit => BufInv
<1> SUFFICES ASSUME BufInit PROVE BufInv
  OBVIOUS
<1>1. capacity \in 1..MaxCapacity /\ MaxCapacity \in Nat /\ Word \in Nat \ {0}
  BY BufferAssumption DEF BufInit
<1>2. BufTypeOK
  BY <1>1 DEF BufInit, BufTypeOK
<1>3. JobInv
  BY DEF BufInit, JobInv
<1> QED
  BY <1>2, <1>3 DEF BufInv

\* SetBuffer and ResetBuffer leave an empty ring.
LEMMA SetBufferStep ==
    ASSUME BufInv, NEW length \in 1..MaxCapacity, SetBuffer(length)
    PROVE  BufInv'
<1>1. capacity' = length /\ rdPtr' = 0 /\ wrPtr' = 0 /\ job' = Idle
  BY DEF SetBuffer
<1>2. headPos' \in 0..(Word - 1)
  <2>1. headPos + PendingBytes \in Nat /\ Word \in Nat \ {0}
    BY PointerFacts, SizeFacts DEF BufInv, BufTypeOK
  <2> QED
    BY <2>1 DEF SetBuffer
<1>3. buffer' \in [0..(length - 1) -> Byte]
  BY DEF SetBuffer
<1>4. length \in 1..MaxCapacity /\ 0 \in 0..(length - 1)
  BY BufferAssumption
<1>5. BufTypeOK'
  BY <1>1, <1>2, <1>3, <1>4 DEF BufTypeOK
<1>6. JobInv'
  BY <1>1 DEF JobInv, Idle
<1> QED
  BY <1>5, <1>6 DEF BufInv

LEMMA ResetStep ==
    ASSUME BufInv, ResetBuffer
    PROVE  BufInv'
<1>1. /\ capacity' = capacity /\ buffer' = buffer /\ headPos' = 0
      /\ rdPtr' = 0 /\ wrPtr' = 0 /\ job' = Idle
  BY DEF ResetBuffer
<1>2. 0 \in 0..(capacity - 1) /\ 0 \in 0..(Word - 1)
  BY PointerFacts DEF BufInv
<1>3. BufTypeOK'
  BY <1>1, <1>2 DEF BufTypeOK, BufInv
<1>4. JobInv'
  BY <1>1 DEF JobInv, Idle
<1> QED
  BY <1>3, <1>4 DEF BufInv

\* A zero-copy caller moves one pointer and starts no loop.
LEMMA ZeroCopyStep ==
    ASSUME BufInv,
           \/ \E n \in 0..MaxCapacity : Discard(n)
           \/ \E s \in ShortSeq : Commit(s)
    PROVE  BufInv'
<1>1. CASE \E n \in 0..MaxCapacity : Discard(n)
  <2> PICK n \in 0..MaxCapacity : Discard(n)
    BY <1>1
  <2>1. n \in Nat /\ n <= PendingBytes /\ ReadBytes(n) /\ job' = job /\ job = Idle
    BY BufferAssumption DEF Discard
  <2>2. BufTypeOK'
    BY <2>1, HeadMoves DEF BufInv
  <2> QED
    BY <2>1, <2>2 DEF BufInv, JobInv, Idle
<1>2. CASE \E s \in ShortSeq : Commit(s)
  <2> PICK s \in ShortSeq : Commit(s)
    BY <1>2
  <2>1. s \in Seq(Byte)
    BY BufferAssumption DEF ShortSeq
  <2>2. Len(s) <= FreeBytes /\ WriteBytes(s) /\ job' = job /\ job = Idle
    BY DEF Commit
  <2>3. BufTypeOK'
    BY <2>1, <2>2, TailMoves DEF BufInv
  <2> QED
    BY <2>2, <2>3 DEF BufInv, JobInv, Idle
<1> QED
  BY <1>1, <1>2

\* A copying call records what it has to copy.
LEMMA CallStep ==
    ASSUME BufInv,
           \/ \E n \in 0..MaxCapacity : CallRead(n)
           \/ \E s \in ShortSeq : CallWrite(s)
    PROVE  BufInv'
<1>1. /\ capacity' = capacity /\ buffer' = buffer /\ headPos' = headPos
      /\ rdPtr' = rdPtr /\ wrPtr' = wrPtr
  BY DEF CallRead, CallWrite
<1>2. BufTypeOK'
  BY <1>1 DEF BufTypeOK, BufInv
<1>3. PendingBytes' = PendingBytes /\ FreeBytes' = FreeBytes
  BY <1>1 DEF PendingBytes, FreeBytes
<1>4. CASE \E n \in 0..MaxCapacity : CallRead(n)
  <2> PICK n \in 0..MaxCapacity : CallRead(n)
    BY <1>4
  <2>1. n \in Nat /\ n <= PendingBytes /\ job' = Reading(n)
    BY BufferAssumption DEF CallRead
  <2>2. JobInv'
    <3>1. CASE n = 0
      BY <3>1, <2>1 DEF JobInv, Reading, Idle
    <3>2. CASE n # 0
      <4>1. n \in 1..PendingBytes
        BY <3>2, <2>1, SizeFacts DEF BufInv
      <4> QED
        BY <4>1, <3>2, <2>1, <1>3 DEF JobInv, Reading
    <3> QED
      BY <3>1, <3>2
  <2> QED
    BY <1>2, <2>2 DEF BufInv
<1>5. CASE \E s \in ShortSeq : CallWrite(s)
  <2> PICK s \in ShortSeq : CallWrite(s)
    BY <1>5
  <2>1. s \in Seq(Byte)
    BY BufferAssumption DEF ShortSeq
  <2>2. Len(s) <= FreeBytes /\ job' = Writing(s)
    BY DEF CallWrite
  <2>3. JobInv'
    BY <2>1, <2>2, <1>3 DEF JobInv, Writing, Idle
  <2> QED
    BY <1>2, <2>3 DEF BufInv
<1> QED
  BY <1>4, <1>5

\* One iteration of writeBytes(buffer, n) leaves room for the rest.
LEMMA WriteChunkStep == ASSUME BufInv, WriteChunk PROVE BufInv'
<1> DEFINE len == Least(WriteLimit, Len(job.rest))
           s == SubSeq(job.rest, 1, len)
           rest == SubSeq(job.rest, len + 1, Len(job.rest))
<1>1. /\ job.rest \in Seq(Byte) /\ Len(job.rest) <= FreeBytes
  BY DEF BufInv, JobInv, Idle, WriteChunk
<1>2. len \in Nat /\ len <= Len(job.rest)
  BY <1>1, LimitFacts DEF BufInv, Least
<1>3. WriteBytes(s) /\ job' = Writing(rest)
  BY DEF WriteChunk
<1>4. s \in Seq(Byte) /\ Len(s) = len /\ rest \in Seq(Byte) /\ Len(rest) = Len(job.rest) - len
  BY <1>1, <1>2, SubSeqProperties
<1>5. Len(s) <= FreeBytes
  BY <1>1, <1>2, <1>4, SizeFacts DEF BufInv
<1>6. BufTypeOK' /\ FreeBytes' = FreeBytes - len
  BY <1>3, <1>4, <1>5, TailMoves DEF BufInv
<1>7. Len(rest) <= FreeBytes'
  BY <1>1, <1>2, <1>4, <1>6, SizeFacts DEF BufInv
<1> HIDE DEF rest
<1>8. JobInv'
  BY <1>3, <1>4, <1>7 DEF JobInv, Writing, Idle
<1> QED
  BY <1>6, <1>8 DEF BufInv

\* One iteration of readBytes(buffer, n) leaves data for the rest.
LEMMA ReadChunkStep == ASSUME BufInv, ReadChunk PROVE BufInv'
<1> DEFINE len == Least(ReadLimit, job.left)
           left == job.left - len
<1>1. job.left \in 1..PendingBytes
  BY DEF BufInv, JobInv, Idle, ReadChunk
<1>2. len \in Nat /\ len <= job.left /\ len <= PendingBytes
  BY <1>1, LimitFacts, SizeFacts DEF BufInv, Least
<1>3. ReadBytes(len) /\ job' = Reading(left)
  BY DEF ReadChunk
<1> HIDE DEF len
<1>4. BufTypeOK' /\ PendingBytes' = PendingBytes - len
  BY <1>2, <1>3, HeadMoves DEF BufInv
<1>5. left \in Nat /\ left <= PendingBytes'
  BY <1>1, <1>2, <1>4, SizeFacts DEF BufInv
<1>6. JobInv'
  <2> HIDE DEF left
  <2>1. CASE left = 0
    BY <2>1, <1>3 DEF JobInv, Reading, Idle
  <2>2. CASE left # 0
    <3>1. PendingBytes' \in Nat
      BY <1>1, <1>2, <1>4, SizeFacts DEF BufInv
    <3>2. left \in 1..PendingBytes'
      BY <2>2, <3>1, <1>5
    <3> QED
      BY <2>2, <3>2, <1>3 DEF JobInv, Reading
  <2> QED
    BY <2>1, <2>2
<1> QED
  BY <1>4, <1>6 DEF BufInv

\* The invariant that carries the four properties below: the pointers are inside
\* the storage and a call in progress fits what is free or pending.
THEOREM BufferInvariant == BufSpec => []BufInv
<1>1. BufInit => BufInv
  BY InitInv
<1>2. BufInv /\ [BufNext]_bufVars => BufInv'
  <2> SUFFICES ASSUME BufInv, [BufNext]_bufVars PROVE BufInv'
    OBVIOUS
  <2>1. CASE \E length \in 1..MaxCapacity : SetBuffer(length)
    BY <2>1, SetBufferStep
  <2>2. CASE ResetBuffer
    BY <2>2, ResetStep
  <2>3. CASE \E n \in 0..MaxCapacity : Discard(n) \/ CallRead(n)
    BY <2>3, ZeroCopyStep, CallStep
  <2>4. CASE \E s \in ShortSeq : Commit(s) \/ CallWrite(s)
    BY <2>4, ZeroCopyStep, CallStep
  <2>5. CASE WriteChunk
    BY <2>5, WriteChunkStep
  <2>6. CASE ReadChunk
    BY <2>6, ReadChunkStep
  <2>7. CASE UNCHANGED bufVars
    BY <2>7 DEF bufVars, BufInv, BufTypeOK, JobInv, PendingBytes, FreeBytes
  <2> QED
    BY <2>1, <2>2, <2>3, <2>4, <2>5, <2>6, <2>7 DEF BufNext
<1> QED
  BY <1>1, <1>2, PTL DEF BufSpec

-----------------------------------------------------------------------------
(* Theorems.                                                               *)

\* Both pointers of a CircularBuffer stay inside its storage.
THEOREM BufferTypeCorrect == BufSpec => []BufTypeOK
<1>1. BufInv => BufTypeOK
  BY DEF BufInv
<1> QED
  BY <1>1, BufferInvariant, PTL

\* pendingBytes() and freeBytes() always add up to one byte less than the storage.
THEOREM BufferConserves == BufSpec => []Conservation
<1>1. BufInv => Conservation
  BY ConservationLemma DEF BufInv
<1> QED
  BY <1>1, BufferInvariant, PTL

\* What writeLimit() and readLimit() offer lies in the storage and is really free
\* or pending.
THEOREM BufferRegions == BufSpec => []RegionsInv
<1>1. BufInv => RegionsInv
  BY LimitFacts DEF BufInv, RegionsInv
<1> QED
  BY <1>1, BufferInvariant, PTL

\* No iteration of the copying loops copies nothing.
THEOREM BufferLoops == BufSpec => []LoopInv
<1>1. BufInv => LoopInv
  <2> SUFFICES ASSUME BufInv PROVE LoopInv
    OBVIOUS
  <2>1. CASE job = Idle
    BY <2>1 DEF LoopInv, Idle
  <2>2. CASE \E s \in Seq(Byte) : /\ job = [op |-> "write", rest |-> s, left |-> 0]
                                  /\ s # << >> /\ Len(s) <= FreeBytes
    <3> PICK s \in Seq(Byte) : /\ job = [op |-> "write", rest |-> s, left |-> 0]
                               /\ s # << >> /\ Len(s) <= FreeBytes
      BY <2>2
    <3>1. Len(s) \in Nat /\ Len(s) > 0 /\ FreeBytes > 0
      BY EmptySeq, SizeFacts DEF BufInv
    <3> QED
      BY <3>1, LimitFacts DEF LoopInv, BufInv
  <2>3. CASE \E n \in 1..PendingBytes : job = [op |-> "read", rest |-> << >>, left |-> n]
    BY <2>3, LimitFacts, SizeFacts DEF LoopInv, BufInv
  <2> QED
    BY <2>1, <2>2, <2>3 DEF BufInv, JobInv
<1> QED
  BY <1>1, BufferInvariant, PTL

\* A copying call iterates at most twice: an iteration that leaves something to
\* copy has moved its pointer from the middle of the storage to its start.
THEOREM BufferTwoChunks == BufSpec => AtMostTwoChunks
<1> DEFINE Crossing == /\ WriteChunk /\ job' # Idle => wrPtr # 0 /\ wrPtr' = 0
                       /\ ReadChunk /\ job' # Idle => rdPtr # 0 /\ rdPtr' = 0
<1>1. BufInv /\ [BufNext]_bufVars => [Crossing]_bufVars
  <2> SUFFICES ASSUME BufInv PROVE Crossing
    OBVIOUS
  <2>1. ASSUME WriteChunk, job' # Idle PROVE wrPtr # 0 /\ wrPtr' = 0
    <3> DEFINE n == Len(job.rest)
               len == Least(WriteLimit, n)
               s == SubSeq(job.rest, 1, len)
    <3>1. job.rest \in Seq(Byte) /\ n \in Nat /\ n <= FreeBytes
      BY <2>1 DEF BufInv, JobInv, Idle, WriteChunk
    <3>2. WriteLimit \in Nat /\ len \in Nat /\ len <= n
      BY <3>1, LimitFacts DEF BufInv, Least
    <3>3. SubSeq(job.rest, len + 1, n) # << >>
      BY <2>1 DEF WriteChunk, Writing
    <3>4. len < n
      BY <3>1, <3>2, <3>3, SubSeqEmpty
    <3>5. len = WriteLimit /\ WriteLimit < FreeBytes
      BY <3>1, <3>2, <3>4, SizeFacts DEF Least, BufInv
    <3>6. rdPtr # 0 /\ rdPtr <= wrPtr /\ WriteLimit = capacity - wrPtr
      BY <3>5, FreeValue, PointerFacts DEF WriteLimit, BufInv
    <3>7. Len(s) = len
      BY <3>1, <3>2, SubSeqProperties
    <3>8. wrPtr' = Wrap(wrPtr + Len(s))
      BY <2>1 DEF WriteChunk, WriteBytes
    <3> QED
      BY <3>5, <3>6, <3>7, <3>8, PointerFacts DEF Wrap, BufInv
  <2>2. ASSUME ReadChunk, job' # Idle PROVE rdPtr # 0 /\ rdPtr' = 0
    <3> DEFINE len == Least(ReadLimit, job.left)
    <3>1. job.left \in 1..PendingBytes
      BY <2>2 DEF BufInv, JobInv, Idle, ReadChunk
    <3>2. ReadLimit \in Nat /\ len \in Nat /\ len <= job.left /\ job.left - len # 0
      BY <2>2, <3>1, LimitFacts DEF BufInv, Least, ReadChunk, Reading
    <3>3. len = ReadLimit /\ ReadLimit < PendingBytes
      BY <3>1, <3>2, SizeFacts DEF Least, BufInv
    <3>4. rdPtr > wrPtr /\ ReadLimit = capacity - rdPtr
      BY <3>3, PointerFacts DEF ReadLimit, PendingBytes, BufInv
    <3>5. rdPtr' = Wrap(rdPtr + len)
      BY <2>2 DEF ReadChunk, ReadBytes
    <3> QED
      BY <3>3, <3>4, <3>5, PointerFacts DEF Wrap, BufInv
  <2> QED
    BY <2>1, <2>2
<1> QED
  BY <1>1, BufferInvariant, PTL DEF BufSpec, AtMostTwoChunks

-----------------------------------------------------------------------------
(* The ring implements the queue.                                          *)

LEMMA PendingFacts ==
    ASSUME BufTypeOK
    PROVE  /\ Pending \in Seq(Byte) /\ Len(Pending) = PendingBytes
           /\ \A i \in 1..PendingBytes : Pending[i] = buffer[Wrap(rdPtr + i - 1)]
<1>1. PendingBytes \in Nat /\ PendingBytes < capacity
  BY SizeFacts
<1>2. \A i \in 1..PendingBytes : Wrap(rdPtr + i - 1) \in 0..(capacity - 1)
  BY <1>1, PointerFacts DEF Wrap
<1>3. \A i \in 1..PendingBytes : buffer[Wrap(rdPtr + i - 1)] \in Byte
  BY <1>2 DEF BufTypeOK
<1> DEFINE n == PendingBytes
<1> HIDE DEF n
<1>4. Pending = [i \in 1..n |-> buffer[Wrap(rdPtr + i - 1)]]
  BY DEF Pending, Stored, n
<1>5. n \in Nat /\ \A i \in 1..n : buffer[Wrap(rdPtr + i - 1)] \in Byte
  BY <1>1, <1>3 DEF n
<1>6. Pending \in Seq(Byte) /\ Len(Pending) = n
  BY <1>4, <1>5
<1> QED
  BY <1>4, <1>6 DEF n

\* The same of the state a step leads to, when the ring is empty there.
LEMMA NextPending ==
    ASSUME BufTypeOK', PendingBytes' = 0
    PROVE  Pending' = << >>
<1>1. Pending' = [i \in 1..0 |-> buffer'[(Wrap(rdPtr + i - 1))']]
  BY DEF Pending, Stored, Wrap
<1> QED
  BY <1>1

\* Moving the head drops the oldest bytes.
LEMMA HeadPending ==
    ASSUME BufTypeOK, NEW n \in Nat, n <= PendingBytes, ReadBytes(n)
    PROVE  Pending' = SubSeq(Pending, n + 1, Len(Pending))
<1> DEFINE p == PendingBytes
           q == SubSeq(Pending, n + 1, p)
           r == Wrap(rdPtr + n)
<1>1. Pending \in Seq(Byte) /\ Len(Pending) = p /\ p \in Nat /\ p < capacity /\ n <= p
  BY PendingFacts, SizeFacts
<1>2. q \in Seq(Byte) /\ Len(q) = p - n /\ \A i \in 1..(p - n) : q[i] = Pending[n + i]
  BY <1>1, SubSeqProperties
<1>3. PendingBytes' = p - n /\ capacity' = capacity /\ buffer' = buffer /\ rdPtr' = r
  BY HeadMoves DEF ReadBytes
<1>4. Pending' = [i \in 1..(p - n) |-> buffer[Wrap(r + i - 1)]]
  BY <1>3 DEF Pending, Stored, Wrap
<1>5. ASSUME NEW i \in 1..(p - n)
      PROVE  Wrap(r + i - 1) = Wrap(rdPtr + (n + i) - 1) /\ n + i \in 1..p
  BY <1>1, PointerFacts DEF Wrap
<1>6. ASSUME NEW i \in 1..(p - n)
      PROVE  buffer[Wrap(r + i - 1)] = q[i]
  BY <1>2, <1>5, PendingFacts
<1> HIDE DEF p, q, r
<1>7. Pending' = q
  BY <1>1, <1>2, <1>4, <1>6
<1> QED
  BY <1>1, <1>7 DEF q, p

\* Moving the tail appends the bytes that were put there.
LEMMA TailPending ==
    ASSUME BufTypeOK, NEW s \in Seq(Byte), Len(s) <= FreeBytes, WriteBytes(s)
    PROVE  Pending' = Pending \o s
<1> DEFINE p == PendingBytes
           n == Len(s)
           q == Pending \o s
<1>1. /\ Pending \in Seq(Byte) /\ Len(Pending) = p /\ p \in Nat /\ p < capacity
      /\ n \in Nat /\ p + n < capacity
  <2>1. p + FreeBytes = capacity - 1 /\ FreeBytes \in Nat /\ n \in Nat /\ n <= FreeBytes
    BY ConservationLemma, SizeFacts DEF Conservation
  <2> QED
    BY <2>1, PendingFacts, SizeFacts, PointerFacts
<1>2. q \in Seq(Byte) /\ Len(q) = p + n
      /\ \A i \in 1..(p + n) : q[i] = IF i <= p THEN Pending[i] ELSE s[i - p]
  BY <1>1, ConcatProperties
<1>3. /\ PendingBytes' = p + n /\ capacity' = capacity /\ rdPtr' = rdPtr
      /\ buffer' = Store(wrPtr, s)
  BY TailMoves DEF WriteBytes
<1>4. Pending' = [i \in 1..(p + n) |-> buffer'[Wrap(rdPtr + i - 1)]]
  BY <1>3 DEF Pending, Stored, Wrap
<1>5. DOMAIN buffer = 0..(capacity - 1)
  BY DEF BufTypeOK
<1>6. p = IF rdPtr <= wrPtr THEN wrPtr - rdPtr ELSE capacity + wrPtr - rdPtr
  BY DEF PendingBytes
<1> HIDE DEF p, q, n
<1>7. ASSUME NEW i \in 1..(p + n)
      PROVE  buffer'[Wrap(rdPtr + i - 1)] = q[i]
  <2> DEFINE a == Wrap(rdPtr + i - 1)
             r == rdPtr
             w == wrPtr
             c == capacity
  <2>0. a = IF r + i - 1 >= c THEN r + i - 1 - c ELSE r + i - 1
    BY <1>1, PointerFacts DEF Wrap
  <2>1. /\ r \in Nat /\ r < c /\ w \in Nat /\ w < c /\ c \in Nat /\ p \in Nat /\ n \in Nat
        /\ p + n < c /\ i \in Nat /\ i >= 1 /\ i <= p + n
        /\ r <= w => p = w - r
        /\ ~(r <= w) => p = c + w - r
    BY <1>1, <1>6, PointerFacts
  <2>2. a \in 0..(c - 1)
    BY <2>0, <2>1
  <2>3. buffer'[a] = IF a >= w /\ a < w + n THEN s[a - w + 1]
                     ELSE IF a + c < w + n THEN s[a + c - w + 1]
                     ELSE buffer[a]
    BY <2>2, <1>3, <1>5 DEF Store, n
  <2> HIDE DEF a, r, w, c
  <2>4. CASE i <= p
    <3>1. ~(a >= w /\ a < w + n) /\ ~(a + c < w + n)
      <4>1. CASE r <= w
        <5>1. p = w - r /\ r + i - 1 < w
          BY <4>1, <2>1, <2>4
        <5>2. a = r + i - 1
          BY <5>1, <2>0, <2>1
        <5> QED
          BY <5>1, <5>2, <2>1
      <4>2. CASE ~(r <= w)
        <5>1. p = c + w - r /\ w + n < r
          BY <4>2, <2>1
        <5>2. r + i - 1 < c + w
          BY <5>1, <2>1, <2>4
        <5> QED
          BY <5>1, <5>2, <2>0, <2>1
      <4> QED
        BY <4>1, <4>2
    <3>2. q[i] = Pending[i] /\ i \in 1..p
      BY <2>1, <2>4, <1>2
    <3>3. Pending[i] = buffer[a]
      BY <3>2, PendingFacts DEF a, p
    <3>4. buffer'[a] = buffer[a]
      BY <3>1, <2>3
    <3> QED
      BY <3>2, <3>3, <3>4 DEF a, r
  <2>5. CASE ~(i <= p)
    <3>1. q[i] = s[i - p]
      BY <2>1, <2>5, <1>2
    <3>2. buffer'[a] = s[i - p]
      <4>1. CASE r <= w
        <5>1. p = w - r
          BY <4>1, <2>1
        <5>2. CASE r + i - 1 >= c
          <6>1. a = r + i - 1 - c /\ a + c < w + n /\ ~(a >= w) /\ a + c - w + 1 = i - p
            BY <5>1, <5>2, <2>0, <2>1, <2>5
          <6> QED
            BY <6>1, <2>3
        <5>3. CASE ~(r + i - 1 >= c)
          <6>1. a = r + i - 1
            BY <5>3, <2>0
          <6>2. a >= w /\ a < w + n /\ a - w + 1 = i - p
            BY <5>1, <6>1, <2>1, <2>5
          <6> QED
            BY <6>2, <2>3
        <5> QED
          BY <5>2, <5>3
      <4>2. CASE ~(r <= w)
        <5>1. p = c + w - r
          BY <4>2, <2>1
        <5>2. r + i - 1 >= c
          BY <5>1, <2>1, <2>5
        <5>3. a = r + i - 1 - c
          BY <5>2, <2>0
        <5>4. a >= w /\ a < w + n /\ a - w + 1 = i - p
          BY <5>1, <5>3, <2>1, <2>5
        <5> QED
          BY <5>4, <2>3
      <4> QED
        BY <4>1, <4>2
    <3> QED
      BY <3>1, <3>2 DEF a, r
  <2> QED
    BY <2>4, <2>5
<1> DEFINE m == p + n
           cell(i) == buffer'[Wrap(rdPtr + i - 1)]
<1>8. Pending' = [i \in 1..m |-> cell(i)] /\ \A i \in 1..m : cell(i) = q[i]
  BY <1>4, <1>7
<1>9. q = [i \in 1..m |-> q[i]]
  BY <1>1, <1>2
<1> HIDE DEF m, cell
<1>10. Pending' = q
  BY <1>8, <1>9
<1> QED
  BY <1>10 DEF q

LEMMA InitRefines == BufInit => Queue!QueueInit
<1> SUFFICES ASSUME BufInit PROVE Queue!QueueInit
  OBVIOUS
<1>1. BufTypeOK
  BY InitInv DEF BufInv
<1>2. PendingBytes = 0
  BY PointerFacts DEF BufInit, PendingBytes
<1>3. Pending = << >>
  BY <1>1, <1>2, PendingFacts, EmptySeq
<1>4. capacity - 1 \in 0..(MaxCapacity - 1)
  BY <1>1, PointerFacts
<1> QED
  BY <1>3, <1>4 DEF Queue!QueueInit, BufInit

\* Appending s to the ring is a Push.
LEMMA TailRefines ==
    ASSUME BufInv, NEW s \in Seq(Byte), Len(s) <= FreeBytes, WriteBytes(s)
    PROVE  Queue!QueueNext
<1>1. Pending' = Pending \o s
  BY TailPending DEF BufInv
<1>2. Len(Pending) + Len(s) <= capacity - 1 /\ Len(s) \in Nat
  BY PendingFacts, ConservationLemma, SizeFacts DEF BufInv, Conservation
<1>3. Len(s) \in 0..MaxCapacity /\ s \in [1..Len(s) -> Byte]
  BY <1>2, SizeFacts, PointerFacts DEF BufInv
<1>4. out' = << >> /\ capacity' = capacity /\ headPos' = headPos
  BY DEF WriteBytes
<1>5. Queue!Push(s)
  BY <1>1, <1>2, <1>4 DEF Queue!Push
<1> QED
  BY <1>3, <1>5 DEF Queue!QueueNext

\* Taking n bytes from the ring is a Take.
LEMMA HeadRefines ==
    ASSUME BufInv, NEW n \in Nat, n <= PendingBytes, ReadBytes(n),
           out' = << >> \/ out' = SubSeq(Pending, 1, n)
    PROVE  Queue!QueueNext
<1>1. Pending' = SubSeq(Pending, n + 1, Len(Pending))
  BY HeadPending DEF BufInv
<1>2. n \in 0..Len(Pending)
  BY PendingFacts, SizeFacts DEF BufInv
<1>3. Queue!Take(n)
  BY <1>1 DEF Queue!Take, ReadBytes
<1>4. Queue!Pop(n) \/ Queue!Drop(n)
  BY <1>3 DEF Queue!Pop, Queue!Drop
<1> QED
  BY <1>2, <1>4 DEF Queue!QueueNext

\* Every step of the ring is a step of the queue or leaves it alone.
LEMMA StepRefines ==
    ASSUME BufInv, BufInv', BufNext
    PROVE  Queue!QueueNext
<1>1. ASSUME NEW length \in 1..MaxCapacity, SetBuffer(length) PROVE Queue!QueueNext
  <2>1. PendingBytes' = 0
    BY <1>1, PointerFacts DEF SetBuffer, PendingBytes
  <2>3. Pending' = << >>
    BY <2>1, NextPending DEF BufInv
  <2>4. headPos' = (headPos + Len(Pending)) % Word /\ capacity' - 1 = length - 1 /\ out' = << >>
    BY <1>1, PendingFacts DEF SetBuffer, BufInv
  <2>5. length - 1 \in 0..(MaxCapacity - 1)
    BY BufferAssumption
  <2>6. Queue!Rebase(length - 1)
    BY <2>3, <2>4 DEF Queue!Rebase
  <2> QED
    BY <2>5, <2>6 DEF Queue!QueueNext
<1>2. ASSUME ResetBuffer PROVE Queue!QueueNext
  <2>1. PendingBytes' = 0
    BY <1>2, PointerFacts DEF ResetBuffer, PendingBytes
  <2>3. Pending' = << >>
    BY <2>1, NextPending DEF BufInv
  <2>4. Queue!Clear
    BY <1>2, <2>3 DEF Queue!Clear, ResetBuffer
  <2> QED
    BY <2>4 DEF Queue!QueueNext
<1>3. ASSUME NEW n \in 0..MaxCapacity, Discard(n) PROVE Queue!QueueNext
  BY <1>3, HeadRefines, BufferAssumption DEF Discard
<1>4. ASSUME NEW s \in ShortSeq, Commit(s) PROVE Queue!QueueNext
  <2>1. s \in Seq(Byte)
    BY BufferAssumption DEF ShortSeq
  <2> QED
    BY <1>4, <2>1, TailRefines DEF Commit
<1>5. ASSUME \/ \E n \in 0..MaxCapacity : CallRead(n)
             \/ \E s \in ShortSeq : CallWrite(s)
      PROVE Queue!QueueNext
  <2>1. /\ buffer' = buffer /\ capacity' = capacity /\ rdPtr' = rdPtr /\ wrPtr' = wrPtr
        /\ headPos' = headPos /\ out' = << >>
    BY <1>5 DEF CallRead, CallWrite
  <2>2. PendingBytes' = PendingBytes
    BY <2>1 DEF PendingBytes
  <2>3. Pending' = Pending
    BY <2>1, <2>2 DEF Pending, Stored, Wrap
  <2>4. Pending \in Seq(Byte) /\ Len(Pending) <= capacity - 1
    BY PendingFacts, SizeFacts, PointerFacts DEF BufInv
  <2>5. Pending \o << >> = Pending /\ Len(<< >>) = 0
    BY <2>4, ConcatEmptySeq, EmptySeq
  <2>6. Len(Pending) + Len(<< >>) <= capacity - 1
    BY <2>4, <2>5
  <2>7. Queue!Push(<< >>)
    BY <2>1, <2>3, <2>5, <2>6 DEF Queue!Push
  <2>8. 0 \in 0..MaxCapacity /\ << >> \in [1..0 -> Byte]
    BY BufferAssumption
  <2> QED
    BY <2>7, <2>8 DEF Queue!QueueNext
<1>6. ASSUME WriteChunk PROVE Queue!QueueNext
  <2> DEFINE len == Least(WriteLimit, Len(job.rest))
             s == SubSeq(job.rest, 1, len)
  <2>1. job.rest \in Seq(Byte) /\ Len(job.rest) \in Nat /\ Len(job.rest) <= FreeBytes
    BY <1>6 DEF BufInv, JobInv, Idle, WriteChunk
  <2>2. len \in Nat /\ len <= Len(job.rest)
    BY <2>1, LimitFacts DEF BufInv, Least
  <2>3. s \in Seq(Byte) /\ Len(s) = len
    BY <2>1, <2>2, SubSeqProperties
  <2>4. Len(s) <= FreeBytes /\ WriteBytes(s)
    BY <1>6, <2>1, <2>2, <2>3, SizeFacts DEF WriteChunk, BufInv
  <2> QED
    BY <2>3, <2>4, TailRefines
<1>7. ASSUME ReadChunk PROVE Queue!QueueNext
  <2> DEFINE len == Least(ReadLimit, job.left)
             copied == [i \in 1..len |-> buffer[rdPtr + i - 1]]
  <2>1. job.left \in 1..PendingBytes
    BY <1>7 DEF BufInv, JobInv, Idle, ReadChunk
  <2>2. len \in Nat /\ len <= PendingBytes /\ rdPtr + len <= capacity
    BY <2>1, LimitFacts, SizeFacts, PointerFacts DEF BufInv, Least
  <2>3. ReadBytes(len) /\ out' = copied
    BY <1>7 DEF ReadChunk
  <2> DEFINE q == SubSeq(Pending, 1, len)
  <2>4. q \in Seq(Byte) /\ Len(q) = len /\ \A i \in 1..len : q[i] = Pending[i]
    BY <2>2, PendingFacts, SizeFacts, SubSeqProperties DEF BufInv
  <2>5. ASSUME NEW i \in 1..len PROVE buffer[rdPtr + i - 1] = q[i]
    <3>1. Wrap(rdPtr + i - 1) = rdPtr + i - 1 /\ i \in 1..PendingBytes
      BY <2>2, SizeFacts, PointerFacts DEF Wrap, BufInv
    <3> QED
      BY <2>4, <3>1, PendingFacts DEF BufInv
  <2> HIDE DEF len, q
  <2>6. copied = q
    BY <2>2, <2>4, <2>5
  <2> QED
    BY <2>2, <2>3, <2>6, HeadRefines DEF q
<1> QED
  BY <1>1, <1>2, <1>3, <1>4, <1>5, <1>6, <1>7 DEF BufNext

\* CircularBuffer implements the byte queue: whatever the capacity, bytes come out
\* once each, in the order they went in, and headPosition() counts them.
THEOREM BufferImplementsQueue == BufSpec => ImplementsQueue
<1>1. BufInit => Queue!QueueInit
  BY InitRefines
<1>2. BufInv /\ BufInv' /\ [BufNext]_bufVars => [Queue!QueueNext]_(Queue!queueVars)
  <2> SUFFICES ASSUME BufInv, BufInv', [BufNext]_bufVars
               PROVE  [Queue!QueueNext]_(Queue!queueVars)
    OBVIOUS
  <2>1. CASE BufNext
    BY <2>1, StepRefines
  <2>2. CASE UNCHANGED bufVars
    <3>1. /\ buffer' = buffer /\ capacity' = capacity /\ rdPtr' = rdPtr /\ wrPtr' = wrPtr
          /\ headPos' = headPos /\ out' = out
      BY <2>2 DEF bufVars
    <3>2. PendingBytes' = PendingBytes
      BY <3>1 DEF PendingBytes
    <3>3. Pending' = Pending
      BY <3>1, <3>2 DEF Pending, Stored, Wrap
    <3> QED
      BY <3>1, <3>3 DEF Queue!queueVars
  <2> QED
    BY <2>1, <2>2
<1> QED
  BY <1>1, <1>2, BufferInvariant, PTL DEF BufSpec, ImplementsQueue, Queue!QueueSpec

-----------------------------------------------------------------------------
(* The generator: no word of the output is given twice or can be computed *)
(* from the state that is left.                                            *)

\* The loops are the functions their equations describe.
LEMMA PushLoop ==
    ASSUME NEW c, NEW n \in Nat
    PROVE  \E after : after = [i \in 0 .. n |-> IF i = 0 THEN c ELSE PushRound(after[i - 1])]
<1> DEFINE Eq(f, j) == f = [i \in 0 .. j |-> IF i = 0 THEN c ELSE PushRound(f[i - 1])]
           T == {j \in Nat : \E f : Eq(f, j)}
<1>1. 0 \in T
  <2> DEFINE f == [i \in 0 .. 0 |-> c]
  <2>1. Eq(f, 0)
    OBVIOUS
  <2> QED
    BY <2>1
<1>2. ASSUME NEW j \in Nat, j \in T PROVE j + 1 \in T
  <2>1. PICK f : Eq(f, j)
    BY <1>2
  <2> DEFINE g == [i \in 0 .. j + 1 |-> IF i = j + 1 THEN PushRound(f[j]) ELSE f[i]]
  <2>2. Eq(g, j + 1)
    BY <2>1
  <2> HIDE DEF g
  <2>3. j + 1 \in Nat /\ \E h : Eq(h, j + 1)
    BY <2>2
  <2> QED
    BY <2>3
<1> HIDE DEF T
<1>3. n \in T
  BY <1>1, <1>2, Induction
<1> QED
  BY <1>3 DEF T

LEMMA PushedValue ==
    ASSUME NEW s, NEW data, Len(data) \in Nat
    PROVE  \E after :
              /\ after = [n \in 0 .. Len(data) |-> IF n = 0 THEN [s |-> s, rest |-> data]
                                                        ELSE PushRound(after[n - 1])]
              /\ Pushed(s, data) = after[Len(data)].s
<1> DEFINE c == [s |-> s, rest |-> data]
           Eq(f) == f = [n \in 0 .. Len(data) |-> IF n = 0 THEN c ELSE PushRound(f[n - 1])]
           after == CHOOSE f : Eq(f)
<1>1. \E f : Eq(f)
  BY PushLoop
<1>2. Eq(after)
  BY <1>1
<1>3. Pushed(s, data) = after[Len(data)].s
  BY DEF Pushed
<1> HIDE DEF after
<1> QED
  BY <1>2, <1>3

WordToken(t) == t[1] = "word" /\ t = <<"word", t[2], t[3]>> /\ t[3] \in 1 .. 2 * KeyWords

Used(held, t) == <<"word", t[2], 1>> \in held[1]

KeyInv(held) ==
    /\ held = [i \in 1 .. KeyWords |-> held[i]]
    /\ \A i \in 1 .. KeyWords : \A t \in held[i] : t[1] = "entropy" \/ (WordToken(t) /\ Used(held, t))
    /\ \A t \in held[1] : t[1] = "word" /\ t[3] = 1 => t \notin t[2].key[1]

GivenInv(held, issued) ==
    /\ issued \in Seq(Range(issued))
    /\ \A i \in DOMAIN issued : \E t \in issued[i] :
          /\ issued[i] = {t} /\ WordToken(t) /\ t[3] > KeyWords /\ Used(held, t)
          /\ \A j \in 1 .. KeyWords : t \notin held[j]
    /\ \A i, j \in DOMAIN issued : issued[i] = issued[j] => i = j

LEMMA XorMembers ==
    ASSUME NEW a, NEW b, NEW t
    PROVE  t \in Xor(a, b) <=> ((t \in a /\ t \notin b) \/ (t \in b /\ t \notin a))
BY DEF Xor

LEMMA TagFacts ==
    ASSUME NEW x, NEW i
    PROVE  <<"word", x, i>>[1] = "word" /\ <<"word", x, i>>[2] = x /\ <<"word", x, i>>[3] = i
OBVIOUS

\* A key changed in entropy alone.
LEMMA EntropyAdded ==
    ASSUME NEW held, NEW issued, KeyInv(held), GivenInv(held, issued), NEW new,
           new = [i \in 1 .. KeyWords |-> new[i]],
           \A i \in 1 .. KeyWords : \A t : t[1] # "entropy" => (t \in new[i] <=> t \in held[i]),
           KeyWords \in Nat \ {0}
    PROVE  KeyInv(new) /\ GivenInv(new, issued)
<1>1. 1 \in 1 .. KeyWords /\ \A t : Used(held, t) <=> Used(new, t)
  BY TagFacts DEF Used
<1>2. ASSUME NEW i \in 1 .. KeyWords, NEW t \in new[i]
      PROVE  t[1] = "entropy" \/ (WordToken(t) /\ Used(new, t))
  BY <1>1, <1>2 DEF KeyInv
<1>3. ASSUME NEW t \in new[1], t[1] = "word" /\ t[3] = 1 PROVE t \notin t[2].key[1]
  BY <1>1, <1>3 DEF KeyInv
<1>4. KeyInv(new)
  BY <1>2, <1>3 DEF KeyInv
<1>5. ASSUME NEW i \in DOMAIN issued
      PROVE  \E t \in issued[i] : /\ issued[i] = {t} /\ WordToken(t) /\ t[3] > KeyWords /\ Used(new, t)
                               /\ \A j \in 1 .. KeyWords : t \notin new[j]
  <2>1. PICK t \in issued[i] : /\ issued[i] = {t} /\ WordToken(t) /\ t[3] > KeyWords /\ Used(held, t)
                            /\ \A j \in 1 .. KeyWords : t \notin held[j]
    BY DEF GivenInv
  <2>2. t[1] # "entropy"
    BY <2>1 DEF WordToken
  <2>3. \A j \in 1 .. KeyWords : t \notin new[j]
    BY <2>1, <2>2
  <2> QED
    BY <2>1, <2>3, <1>1
<1> QED
  BY <1>4, <1>5 DEF GivenInv

\* No token names a state whose block is still to be made.
LEMMA FreshSeed ==
    ASSUME NEW x, NEW issued, KeyInv(x.key), GivenInv(x.key, issued), KeyWords \in Nat \ {0}
    PROVE  /\ <<"word", x, 1>> \notin x.key[1]
           /\ \A i \in 1 .. KeyWords, j \in Nat : <<"word", x, j>> \notin x.key[i]
           /\ \A i \in DOMAIN issued, j \in Nat : <<"word", x, j>> \notin issued[i]
<1>1. <<"word", x, 1>> \notin x.key[1]
  BY TagFacts DEF KeyInv
<1>2. ASSUME NEW i \in 1 .. KeyWords, NEW j \in Nat PROVE <<"word", x, j>> \notin x.key[i]
  <2> DEFINE t == <<"word", x, j>>
  <2>1. t[1] = "word" /\ t[2] = x /\ t[1] # "entropy"
    OBVIOUS
  <2> HIDE DEF t
  <2>2. t \in x.key[i] => <<"word", x, 1>> \in x.key[1]
    BY <2>1 DEF KeyInv, Used
  <2> QED
    BY <1>1, <2>2 DEF t
<1>3. ASSUME NEW i \in DOMAIN issued, NEW j \in Nat PROVE <<"word", x, j>> \notin issued[i]
  <2> DEFINE t == <<"word", x, j>>
  <2>1. t[2] = x
    OBVIOUS
  <2> HIDE DEF t
  <2>2. PICK u \in issued[i] : issued[i] = {u} /\ Used(x.key, u)
    BY DEF GivenInv
  <2>3. t \in issued[i] => <<"word", x, 1>> \in x.key[1]
    BY <2>1, <2>2 DEF Used
  <2> QED
    BY <1>1, <2>3 DEF t
<1> QED
  BY <1>1, <1>2, <1>3

\* A block is made from x: the key grows by its first words, and by some of
\* its others or by none.
LEMMA KeyGrown ==
    ASSUME NEW x, NEW issued, KeyInv(x.key), GivenInv(x.key, issued), KeyWords \in Nat \ {0},
           NEW new, new = [i \in 1 .. KeyWords |-> new[i]],
           NEW W, \A t \in W : \E i \in 1 .. 2 * KeyWords : t = <<"word", x, i>>,
           <<"word", x, 1>> \in new[1],
           \A i \in 1 .. KeyWords : x.key[i] \subseteq new[i] /\ new[i] \subseteq x.key[i] \cup W
    PROVE  KeyInv(new) /\ GivenInv(new, issued)
<1> DEFINE held == x.key
<1>0. 1 \in 1 .. KeyWords /\ \A t : Used(held, t) => Used(new, t)
  BY DEF Used
<1>1. ASSUME NEW t \in W PROVE t[1] = "word" /\ t[2] = x /\ WordToken(t) /\ Used(new, t)
  <2>1. PICK i \in 1 .. 2 * KeyWords : t = <<"word", x, i>>
    OBVIOUS
  <2> QED
    BY <2>1, TagFacts DEF WordToken, Used
<1>2. ASSUME NEW i \in 1 .. KeyWords, NEW t \in new[i]
      PROVE  t[1] = "entropy" \/ (WordToken(t) /\ Used(new, t))
  BY <1>0, <1>1, <1>2 DEF KeyInv
<1>3. ASSUME NEW t \in new[1], t[1] = "word" /\ t[3] = 1 PROVE t \notin t[2].key[1]
  <2>1. CASE t \in held[1]
    BY <2>1, <1>3 DEF KeyInv
  <2>2. CASE t \in W
    <3>1. t[2] = x /\ t = <<"word", x, 1>>
      BY <2>2, <1>1, <1>3 DEF WordToken
    <3>2. <<"word", x, 1>> \notin x.key[1]
      BY FreshSeed
    <3>3. t \notin x.key[1]
      BY <3>1, <3>2
    <3> QED
      BY <3>1, <3>3
  <2> QED
    BY <1>0, <2>1, <2>2
<1>4. KeyInv(new)
  BY <1>2, <1>3 DEF KeyInv
<1>5. ASSUME NEW i \in DOMAIN issued
      PROVE  \E t \in issued[i] : /\ issued[i] = {t} /\ WordToken(t) /\ t[3] > KeyWords /\ Used(new, t)
                               /\ \A j \in 1 .. KeyWords : t \notin new[j]
  <2>1. PICK t \in issued[i] : /\ issued[i] = {t} /\ WordToken(t) /\ t[3] > KeyWords /\ Used(held, t)
                            /\ \A j \in 1 .. KeyWords : t \notin held[j]
    BY DEF GivenInv
  <2>2. t \notin W
    BY <2>1, FreshSeed
  <2>3. \A j \in 1 .. KeyWords : t \notin new[j]
    BY <2>1, <2>2
  <2> QED
    BY <2>1, <2>3, <1>0
<1> QED
  BY <1>4, <1>5 DEF GivenInv

\* The second half of a block is given out, or a part of it.
LEMMA GivenGrown ==
    ASSUME NEW x, NEW new, NEW issued, KeyWords \in Nat \ {0}, GivenInv(new, issued),
           \A i \in DOMAIN issued, j \in Nat : <<"word", x, j>> \notin issued[i],
           <<"word", x, 1>> \in new[1],
           \A i \in 1 .. KeyWords : \A j \in KeyWords + 1 .. 2 * KeyWords : <<"word", x, j>> \notin new[i],
           NEW n \in 0 .. KeyWords,
           NEW w, w = [i \in 1 .. n |-> OutWord(x, KeyWords + i)]
    PROVE  GivenInv(new, issued \o w)
<1> DEFINE S == Range(issued) \cup {OutWord(x, KeyWords + i) : i \in 1 .. n}
           all == issued \o w
<1>1. issued \in Seq(S) /\ w \in Seq(S) /\ Len(w) = n /\ Len(issued) \in Nat /\ DOMAIN issued = 1 .. Len(issued)
  <2>1. issued \in Seq(Range(issued))
    BY DEF GivenInv
  <2>2. issued \in Seq(S)
    BY <2>1, SeqMonotonic
  <2>3. w \in [1 .. n -> S]
    OBVIOUS
  <2>4. w \in Seq(S) /\ Len(w) = n
    BY <2>3, FunctionIsSeq
  <2> QED
    BY <2>1, <2>2, <2>3, <2>4, LenProperties
<1> HIDE DEF S
<1>2. /\ all \in Seq(S) /\ Len(all) = Len(issued) + n /\ DOMAIN all = 1 .. Len(issued) + n
      /\ \A i \in 1 .. Len(issued) : all[i] = issued[i]
      /\ \A i \in 1 .. n : all[Len(issued) + i] = {<<"word", x, KeyWords + i>>}
  <2>1. /\ all \in Seq(S) /\ Len(all) = Len(issued) + n
        /\ \A i \in 1 .. Len(issued) + n : all[i] = IF i <= Len(issued) THEN issued[i] ELSE w[i - Len(issued)]
    BY <1>1, ConcatProperties
  <2>2. DOMAIN all = 1 .. Len(issued) + n
    BY <2>1, LenProperties
  <2>3. ASSUME NEW i \in 1 .. n PROVE all[Len(issued) + i] = {<<"word", x, KeyWords + i>>}
    <3>1. Len(issued) + i \in 1 .. Len(issued) + n /\ ~(Len(issued) + i <= Len(issued)) /\ (Len(issued) + i) - Len(issued) = i
      BY <1>1
    <3>2. all[Len(issued) + i] = w[i]
      BY <2>1, <3>1
    <3> QED
      BY <3>2 DEF OutWord
  <2>4. ASSUME NEW i \in 1 .. Len(issued) PROVE all[i] = issued[i]
    <3>1. i \in 1 .. Len(issued) + n /\ i <= Len(issued)
      BY <1>1
    <3> QED
      BY <2>1, <3>1
  <2> QED
    BY <2>1, <2>2, <2>3, <2>4
<1> HIDE DEF all
<1>3. ASSUME NEW q \in DOMAIN all PROVE (q \in 1 .. Len(issued)) \/ (\E i \in 1 .. n : q = Len(issued) + i)
  <2>1. q \in 1 .. Len(issued) \/ (q - Len(issued) \in 1 .. n /\ q = Len(issued) + (q - Len(issued)))
    BY <1>1, <1>2
  <2> QED
    BY <2>1
<1>4. all \in Seq(Range(all))
  <2>1. all \in [1 .. Len(issued) + n -> Range(all)]
    BY <1>1, <1>2, LenProperties DEF Range
  <2>2. Len(issued) + n \in Nat
    BY <1>1
  <2> QED
    BY <2>1, <2>2, FunctionIsSeq
<1>5. ASSUME NEW q \in DOMAIN all
      PROVE  \E t \in all[q] : /\ all[q] = {t} /\ WordToken(t) /\ t[3] > KeyWords /\ Used(new, t)
                               /\ \A j \in 1 .. KeyWords : t \notin new[j]
  <2>1. CASE q \in 1 .. Len(issued)
    BY <1>1, <1>2, <2>1 DEF GivenInv
  <2>2. ASSUME NEW i \in 1 .. n, q = Len(issued) + i PROVE <1>5!2
    <3> DEFINE t == <<"word", x, KeyWords + i>>
    <3>1. KeyWords + i \in KeyWords + 1 .. 2 * KeyWords /\ KeyWords + i \in 1 .. 2 * KeyWords
      OBVIOUS
    <3>2. t[1] = "word" /\ t[2] = x /\ t[3] = KeyWords + i
      OBVIOUS
    <3>3. WordToken(t) /\ t[3] > KeyWords /\ Used(new, t) /\ \A j \in 1 .. KeyWords : t \notin new[j]
      BY <3>1, <3>2 DEF WordToken, Used
    <3>4. all[q] = {t}
      BY <1>2, <2>2
    <3> HIDE DEF t
    <3> QED
      BY <3>3, <3>4
  <2> QED
    BY <1>3, <2>1, <2>2
<1>6. ASSUME NEW q \in DOMAIN all, NEW l \in DOMAIN all, all[q] = all[l] PROVE q = l
  <2>1. CASE q \in 1 .. Len(issued) /\ l \in 1 .. Len(issued)
    BY <1>1, <1>2, <1>6, <2>1 DEF GivenInv
  <2>2. ASSUME NEW i \in 1 .. n, NEW a \in 1 .. Len(issued), all[Len(issued) + i] = all[a] PROVE FALSE
    <3>1. <<"word", x, KeyWords + i>> \in issued[a] /\ KeyWords + i \in Nat
      BY <1>2, <2>2
    <3> QED
      BY <1>1, <3>1
  <2>3. ASSUME NEW i \in 1 .. n, NEW m \in 1 .. n, all[Len(issued) + i] = all[Len(issued) + m] PROVE i = m
    <3>1. <<"word", x, KeyWords + i>> = <<"word", x, KeyWords + m>>
      BY ZenonT(60), <1>2, <2>3
    <3>2. KeyWords + i = KeyWords + m
      BY <3>1
    <3> QED
      BY <3>2
  <2> QED
    BY <1>3, <1>6, <2>1, <2>2, <2>3
<1> QED
  BY <1>4, <1>5, <1>6 DEF GivenInv, all

\* The context between two rounds, and at rest.
ContextInv(s) ==
    /\ s = [seed |-> [key |-> s.seed.key, counter |-> s.seed.counter],
            stream |-> s.stream, blocks |-> s.blocks, out |-> s.out]
    /\ KeyInv(s.seed.key) /\ GivenInv(s.seed.key, s.out)
    /\ s.stream = Zeros(2 * KeyWords)

LEMMA PartFacts ==
    ASSUME KeyWords \in Nat \ {0}, NEW n \in Nat, n # 0
    PROVE  /\ Part(n) \in 1 .. KeyWords /\ Part(n) <= n /\ n - Part(n) \in Nat
           /\ n - Part(n) < n
BY DEF Part

LEMMA BlockMade ==
    ASSUME NEW s, ContextInv(s), KeyWords \in Nat \ {0}
    PROVE  /\ Advanced(s) = [seed |-> [key |-> Advanced(s).seed.key, counter |-> Stepped(s.seed.counter)],
                             stream |-> Advanced(s).stream, blocks |-> s.blocks + 1, out |-> s.out]
           /\ Advanced(s).seed.key = [i \in 1 .. KeyWords |-> s.seed.key[i] \cup {<<"word", s.seed, i>>}]
           /\ Upper(Advanced(s)) = [i \in 1 .. KeyWords |-> OutWord(s.seed, KeyWords + i)]
<1> DEFINE x == s.seed
           made == [i \in 1 .. 2 * KeyWords |-> OutWord(x, i)]
           S == {OutWord(x, i) : i \in 1 .. 2 * KeyWords}
           low == SubSeq(made, 1, KeyWords)
           high == SubSeq(made, KeyWords + 1, 2 * KeyWords)
           held == XoredInto(x.key, 0, low)
<1>1. 2 * KeyWords \in Nat /\ KeyWords + 1 \in Nat /\ KeyWords < 2 * KeyWords
  OBVIOUS
<1>2. \A i \in 1 .. 2 * KeyWords : made[i] = OutWord(x, i) /\ made[i] \in S
  OBVIOUS
<1> HIDE DEF S, made
<1>3. /\ low \in Seq(S) /\ Len(low) = KeyWords
      /\ \A i \in 1 .. KeyWords : low[i] = OutWord(x, i)
  <2>1. \A i \in 1 .. KeyWords : made[i] \in S
    BY <1>1, <1>2
  <2>2. /\ low \in Seq(S) /\ Len(low) = IF 1 <= KeyWords THEN KeyWords - 1 + 1 ELSE 0
        /\ \A i \in 1 .. KeyWords - 1 + 1 : low[i] = made[1 + i - 1]
    BY <2>1, SubSeqProperties
  <2>3. \A i \in 1 .. KeyWords : i \in 1 .. 2 * KeyWords /\ i \in 1 .. KeyWords - 1 + 1 /\ 1 + i - 1 = i
    OBVIOUS
  <2> QED
    BY <2>2, <2>3, <1>2
<1>4. /\ high \in Seq(S) /\ Len(high) = KeyWords
      /\ \A i \in 1 .. KeyWords : high[i] = OutWord(x, KeyWords + i)
  <2>1. \A i \in KeyWords + 1 .. 2 * KeyWords : made[i] \in S
    BY <1>1, <1>2
  <2> DEFINE m == KeyWords + 1
             n == 2 * KeyWords
  <2>2. m \in Int /\ n \in Int /\ n - m + 1 = KeyWords /\ m <= n
    OBVIOUS
  <2>3. \A i \in 1 .. KeyWords : KeyWords + i \in 1 .. 2 * KeyWords /\ m + i - 1 = KeyWords + i
    OBVIOUS
  <2>4. high = SubSeq(made, m, n)
    OBVIOUS
  <2> HIDE DEF m, n, high
  <2>5. \A i \in m .. n : made[i] \in S
    BY <2>1 DEF m, n
  <2>6. /\ high \in Seq(S) /\ Len(high) = IF m <= n THEN n - m + 1 ELSE 0
        /\ \A i \in 1 .. n - m + 1 : high[i] = made[m + i - 1]
    BY <2>2, <2>4, <2>5, SubSeqProperties
  <2> QED
    BY <2>2, <2>3, <2>6, <1>2
<1> HIDE DEF low, high
<1>5. DOMAIN low = 1 .. KeyWords /\ high = [i \in 1 .. KeyWords |-> OutWord(x, KeyWords + i)]
  BY <1>3, <1>4, LenProperties
<1>6. KeyInv(x.key) /\ GivenInv(x.key, s.out) /\ x.key = [i \in 1 .. KeyWords |-> x.key[i]]
  BY DEF ContextInv, KeyInv
<1>7. ASSUME NEW i \in 1 .. KeyWords PROVE held[i] = x.key[i] \cup {<<"word", x, i>>}
  <2>1. i - 0 = i /\ i \in Nat
    OBVIOUS
  <2>2. held[i] = Xor(low[i], x.key[i])
    BY <1>5, <1>6, <2>1 DEF XoredInto
  <2>3. <<"word", x, i>> \notin x.key[i]
    BY <1>6, <2>1, FreshSeed
  <2> QED
    BY <1>3, <2>2, <2>3 DEF Xor, OutWord
<1>8. held = [i \in 1 .. KeyWords |-> x.key[i] \cup {<<"word", x, i>>}]
  <2>1. held = [i \in 1 .. KeyWords |-> held[i]]
    BY <1>6 DEF XoredInto
  <2> QED
    BY <1>7, <2>1
<1>9. Advanced(s) = [seed |-> [key |-> held, counter |-> Stepped(x.counter)],
                     stream |-> made, blocks |-> s.blocks + 1, out |-> s.out]
  BY DEF Advanced, low, made
<1>10. Upper(Advanced(s)) = high
  BY <1>9 DEF Upper, high
<1> HIDE DEF held
<1>11. Advanced(s).seed.key = held /\ Advanced(s).stream = made
  BY <1>9
<1>12. Advanced(s).seed.key = [i \in 1 .. KeyWords |-> s.seed.key[i] \cup {<<"word", s.seed, i>>}]
  BY <1>8, <1>11
<1>13. Upper(Advanced(s)) = [i \in 1 .. KeyWords |-> OutWord(s.seed, KeyWords + i)]
  BY <1>5, <1>10
<1>14. Advanced(s) = [seed |-> [key |-> Advanced(s).seed.key, counter |-> Stepped(s.seed.counter)],
                      stream |-> Advanced(s).stream, blocks |-> s.blocks + 1, out |-> s.out]
  BY <1>9, <1>11
<1> QED
  BY <1>12, <1>13, <1>14

EntropyWords(data) ==
    data \in Seq(Range(data)) /\ \A i \in DOMAIN data : \A t \in data[i] : t[1] = "entropy"

\* What is left of the data after a part of it has been taken.
LEMMA EntropyParts ==
    ASSUME NEW data, EntropyWords(data), NEW n \in 0 .. Len(data)
    PROVE  /\ Len(data) \in Nat /\ DOMAIN data = 1 .. Len(data)
           /\ DOMAIN SubSeq(data, 1, n) = 1 .. n /\ \A i \in 1 .. n : SubSeq(data, 1, n)[i] = data[i]
           /\ EntropyWords(SubSeq(data, n + 1, Len(data)))
           /\ Len(SubSeq(data, n + 1, Len(data))) = Len(data) - n
<1> DEFINE S == Range(data)
           low == SubSeq(data, 1, n)
           l == Len(data)
           m == n + 1
           rest == SubSeq(data, m, l)
<1>1. data \in Seq(S) /\ l \in Nat /\ DOMAIN data = 1 .. l /\ data \in [1 .. l -> S]
  BY LenProperties DEF EntropyWords
<1>0. l \in Nat /\ n \in 0 .. l
  BY <1>1
<1> HIDE DEF S, l
<1>2. m \in Int /\ l \in Int /\ \A i \in m .. l : data[i] \in S
  BY <1>1 DEF l
<1>3. 1 \in Int /\ n \in Int /\ \A i \in 1 .. n : data[i] \in S
  BY <1>1 DEF l
<1>4. low \in Seq(S) /\ Len(low) = n /\ \A i \in 1 .. n : low[i] = data[i]
  <2>1. /\ low \in Seq(S) /\ Len(low) = IF 1 <= n THEN n - 1 + 1 ELSE 0
        /\ \A i \in 1 .. n - 1 + 1 : low[i] = data[1 + i - 1]
    BY <1>3, SubSeqProperties
  <2> HIDE DEF low
  <2> QED
    BY <2>1, <1>1 DEF l
<1>5. /\ rest \in Seq(S) /\ Len(rest) = l - n
      /\ \A i \in 1 .. l - n : rest[i] = data[m + i - 1] /\ m + i - 1 \in 1 .. l
  <2>1. /\ rest \in Seq(S) /\ Len(rest) = IF m <= l THEN l - m + 1 ELSE 0
        /\ \A i \in 1 .. l - m + 1 : rest[i] = data[m + i - 1]
    BY <1>2, SubSeqProperties
  <2>2. l - m + 1 = l - n /\ (~(m <= l) => l - n = 0) /\ n <= l
    BY <1>0
  <2> HIDE DEF rest
  <2>3. Len(rest) = l - n /\ \A i \in 1 .. l - n : rest[i] = data[m + i - 1]
    BY <2>1, <2>2
  <2>4. \A i \in 1 .. l - n : m + i - 1 \in 1 .. l
    BY <2>2, <1>1
  <2> QED
    BY <2>1, <2>3, <2>4
<1> HIDE DEF low, rest, m
<1>6. DOMAIN low = 1 .. n /\ DOMAIN rest = 1 .. l - n /\ rest \in [1 .. l - n -> Range(rest)] /\ l - n \in Nat
  <2>1. l - n \in Nat
    BY <1>1 DEF l
  <2> QED
    BY <2>1, <1>4, <1>5, LenProperties DEF Range
<1>7. rest \in Seq(Range(rest))
  BY <1>6, FunctionIsSeq
<1>8. \A i \in DOMAIN rest : \A t \in rest[i] : t[1] = "entropy"
  BY <1>1, <1>5, <1>6 DEF EntropyWords
<1> QED
  BY <1>1, <1>4, <1>5, <1>6, <1>7, <1>8 DEF EntropyWords, low, rest, m, l

LEMMA PushRoundKeeps ==
    ASSUME NEW c, c = [s |-> c.s, rest |-> c.rest], ContextInv(c.s), EntropyWords(c.rest),
           KeyWords \in Nat \ {0}
    PROVE  /\ PushRound(c) = [s |-> PushRound(c).s, rest |-> PushRound(c).rest]
           /\ ContextInv(PushRound(c).s) /\ EntropyWords(PushRound(c).rest)
<1>1. CASE c.rest = <<>>
  <2>1. PushRound(c) = c
    BY <1>1 DEF PushRound
  <2> QED
    BY <2>1
<1>2. CASE c.rest # <<>>
  <2> DEFINE data == c.rest
             s == c.s
             len == Part(Len(data))
             low == SubSeq(data, 1, len)
             first == XoredInto(s.seed.key, 0, low)
             mixed == [s EXCEPT !.seed.key = first]
             next == Advanced(mixed)
             mixedKey == XoredInto(next.seed.key, 0, Upper(next))
             final == Erased([next EXCEPT !.seed.key = mixedKey])
             rest == SubSeq(data, len + 1, Len(data))
  <2>1. Len(data) \in Nat /\ Len(data) # 0
    BY <1>2, LenProperties, EmptySeq DEF EntropyWords
  <2>2. len \in 1 .. KeyWords /\ len \in 0 .. Len(data)
    BY <2>1, PartFacts
  <2>3. PushRound(c) = [s |-> final, rest |-> rest]
    BY <1>2 DEF PushRound
  <2> HIDE DEF len
  <2>4. EntropyWords(rest) /\ DOMAIN low = 1 .. len /\ \A i \in 1 .. len : low[i] = data[i]
    BY <2>2, EntropyParts
  <2>5. /\ KeyInv(s.seed.key) /\ GivenInv(s.seed.key, s.out) /\ s.stream = Zeros(2 * KeyWords)
        /\ s.seed.key = [i \in 1 .. KeyWords |-> s.seed.key[i]]
        /\ s = [seed |-> [key |-> s.seed.key, counter |-> s.seed.counter],
                stream |-> s.stream, blocks |-> s.blocks, out |-> s.out]
    BY DEF ContextInv, KeyInv
  <2>6. KeyInv(first) /\ GivenInv(first, s.out)
    <3>1. first = [i \in 1 .. KeyWords |-> first[i]]
      BY <2>5 DEF XoredInto
    <3>2. ASSUME NEW i \in 1 .. KeyWords, NEW t, t[1] # "entropy"
          PROVE  t \in first[i] <=> t \in s.seed.key[i]
      <4>1. i - 0 = i
        OBVIOUS
      <4>2. CASE i \in 1 .. len
        <5>1. first[i] = Xor(low[i], s.seed.key[i])
          BY <2>4, <2>5, <4>1, <4>2 DEF XoredInto
        <5>2. t \notin low[i]
          BY <2>4, <3>2, <4>2, EntropyParts, <2>2 DEF EntropyWords
        <5> QED
          BY <5>1, <5>2 DEF Xor
      <4>3. CASE i \notin 1 .. len
        <5>1. first[i] = s.seed.key[i]
          BY <2>4, <2>5, <4>1, <4>3 DEF XoredInto
        <5> QED
          BY <5>1
      <4> QED
        BY <4>2, <4>3
    <3> HIDE DEF first
    <3> QED
      BY <2>5, <3>1, <3>2, EntropyAdded
  <2> HIDE DEF first, low, rest
  <2>7. /\ mixed = [seed |-> [key |-> first, counter |-> s.seed.counter],
                    stream |-> s.stream, blocks |-> s.blocks, out |-> s.out]
        /\ mixed.seed.key = first /\ mixed.out = s.out /\ mixed.stream = s.stream
    BY <2>5
  <2> HIDE DEF mixed
  <2>8. ContextInv(mixed)
    BY <2>5, <2>6, <2>7 DEF ContextInv
  <2> DEFINE x == mixed.seed
  <2>9. /\ next = [seed |-> [key |-> next.seed.key, counter |-> Stepped(x.counter)],
                   stream |-> next.stream, blocks |-> mixed.blocks + 1, out |-> mixed.out]
        /\ next.seed.key = [i \in 1 .. KeyWords |-> x.key[i] \cup {<<"word", x, i>>}]
        /\ Upper(next) = [i \in 1 .. KeyWords |-> OutWord(x, KeyWords + i)]
    BY <2>8, BlockMade
  <2> HIDE DEF next, s
  <2>10. KeyInv(x.key) /\ GivenInv(x.key, mixed.out)
    BY <2>8 DEF ContextInv
  <2>11. ASSUME NEW i \in 1 .. KeyWords
         PROVE  mixedKey[i] = x.key[i] \cup {<<"word", x, i>>, <<"word", x, KeyWords + i>>}
    <3>1. i - 0 = i /\ KeyWords + i \in Nat /\ i # KeyWords + i
      OBVIOUS
    <3>2. mixedKey[i] = Xor({<<"word", x, KeyWords + i>>}, x.key[i] \cup {<<"word", x, i>>})
      BY <2>9, <3>1 DEF XoredInto, OutWord
    <3>3. <<"word", x, KeyWords + i>> \notin x.key[i]
      BY <2>10, <3>1, FreshSeed
    <3>4. <<"word", x, KeyWords + i>> # <<"word", x, i>>
      BY <3>1
    <3> QED
      BY <3>2, <3>3, <3>4 DEF Xor
  <2>12. mixedKey = [i \in 1 .. KeyWords |-> mixedKey[i]]
    BY <2>9 DEF XoredInto
  <2> HIDE DEF mixedKey, x
  <2>13. KeyInv(mixedKey) /\ GivenInv(mixedKey, mixed.out)
    <3> DEFINE W == {<<"word", x, i>> : i \in 1 .. 2 * KeyWords}
    <3>1. \A t \in W : \E i \in 1 .. 2 * KeyWords : t = <<"word", x, i>>
      OBVIOUS
    <3>2. ASSUME NEW i \in 1 .. KeyWords PROVE x.key[i] \subseteq mixedKey[i] /\ mixedKey[i] \subseteq x.key[i] \cup W
      <4>1. i \in 1 .. 2 * KeyWords /\ KeyWords + i \in 1 .. 2 * KeyWords
        OBVIOUS
      <4>2. <<"word", x, i>> \in W /\ <<"word", x, KeyWords + i>> \in W
        BY <4>1
      <4> HIDE DEF W
      <4> QED
        BY <2>11, <4>2
    <3>3. 1 \in 1 .. KeyWords /\ <<"word", x, 1>> \in mixedKey[1]
      BY <2>11
    <3> HIDE DEF W
    <3> QED
      BY <2>10, <2>12, <3>1, <3>2, <3>3, KeyGrown
  <2> DEFINE rekeyed == [next EXCEPT !.seed.key = mixedKey]
  <2>14. rekeyed = [seed |-> [key |-> mixedKey, counter |-> Stepped(x.counter)],
                     stream |-> next.stream, blocks |-> mixed.blocks + 1, out |-> mixed.out]
    BY <2>9
  <2>15. final = [rekeyed EXCEPT !.stream = Zeros(2 * KeyWords)]
    BY DEF final, Erased
  <2> HIDE DEF rekeyed, final
  <2>16. /\ final = [seed |-> [key |-> mixedKey, counter |-> Stepped(x.counter)],
                     stream |-> Zeros(2 * KeyWords), blocks |-> mixed.blocks + 1, out |-> mixed.out]
         /\ final.seed.key = mixedKey /\ final.out = mixed.out /\ final.stream = Zeros(2 * KeyWords)
    BY <2>14, <2>15
  <2>17. ContextInv(final)
    BY <2>13, <2>16 DEF ContextInv
  <2> QED
    BY <2>3, <2>4, <2>17
<1> QED
  BY <1>1, <1>2

LEMMA GenerateRoundKeeps ==
    ASSUME NEW c, c = [s |-> c.s, left |-> c.left], ContextInv(c.s), c.left \in Nat,
           KeyWords \in Nat \ {0}
    PROVE  /\ GenerateRound(c) = [s |-> GenerateRound(c).s, left |-> GenerateRound(c).left]
           /\ ContextInv(GenerateRound(c).s) /\ GenerateRound(c).left \in Nat
<1>1. CASE c.left = 0
  <2>1. GenerateRound(c) = c
    BY <1>1 DEF GenerateRound
  <2> QED
    BY <2>1
<1>2. CASE c.left # 0
  <2> DEFINE s == c.s
             x == s.seed
             n == Part(c.left)
             next == Advanced(s)
             w == SubSeq(Upper(next), 1, n)
             longer == [next EXCEPT !.out = @ \o w]
             final == Erased(longer)
  <2>1. n \in 1 .. KeyWords /\ c.left - n \in Nat
    BY <1>2, PartFacts
  <2>2. GenerateRound(c) = [s |-> final, left |-> c.left - n]
    BY <1>2 DEF GenerateRound
  <2>3. /\ next = [seed |-> [key |-> next.seed.key, counter |-> Stepped(x.counter)],
                   stream |-> next.stream, blocks |-> s.blocks + 1, out |-> s.out]
        /\ next.seed.key = [i \in 1 .. KeyWords |-> x.key[i] \cup {<<"word", x, i>>}]
        /\ Upper(next) = [i \in 1 .. KeyWords |-> OutWord(x, KeyWords + i)]
    BY BlockMade
  <2>4. KeyInv(x.key) /\ GivenInv(x.key, s.out)
    BY DEF ContextInv
  <2> HIDE DEF n, next
  <2>5. w = [i \in 1 .. n |-> OutWord(x, KeyWords + i)]
    <3> DEFINE u == Upper(next)
               S == {OutWord(x, KeyWords + i) : i \in 1 .. KeyWords}
    <3>1. \A i \in 1 .. n : u[i] \in S /\ u[i] = OutWord(x, KeyWords + i)
      BY <2>1, <2>3
    <3> HIDE DEF u, S
    <3>2. 1 \in Int /\ n \in Int /\ 1 <= n /\ n - 1 + 1 = n /\ \A i \in 1 .. n : 1 + i - 1 = i
      BY <2>1
    <3>3. /\ SubSeq(u, 1, n) \in Seq(S) /\ Len(SubSeq(u, 1, n)) = n
          /\ \A i \in 1 .. n : SubSeq(u, 1, n)[i] = u[i]
      <4>1. /\ SubSeq(u, 1, n) \in Seq(S)
            /\ Len(SubSeq(u, 1, n)) = IF 1 <= n THEN n - 1 + 1 ELSE 0
            /\ \A i \in 1 .. n - 1 + 1 : SubSeq(u, 1, n)[i] = u[1 + i - 1]
        BY <3>1, <3>2, SubSeqProperties
      <4> QED
        BY <3>2, <4>1
    <3>4. SubSeq(u, 1, n) \in [1 .. n -> S]
      BY <3>3, LenProperties
    <3>5. SubSeq(u, 1, n) = [i \in 1 .. n |-> u[i]]
      BY <3>3, <3>4
    <3> QED
      BY <3>1, <3>5 DEF u
  <2> HIDE DEF w
  <2> DEFINE held == next.seed.key
  <2>6. KeyInv(held) /\ GivenInv(held, s.out)
    <3> DEFINE W == {<<"word", x, i>> : i \in 1 .. KeyWords}
    <3>1. ASSUME NEW t \in W PROVE \E i \in 1 .. 2 * KeyWords : t = <<"word", x, i>>
      <4>1. PICK i \in 1 .. KeyWords : t = <<"word", x, i>>
        OBVIOUS
      <4>2. i \in 1 .. 2 * KeyWords
        OBVIOUS
      <4> QED
        BY <4>1, <4>2
    <3>2. ASSUME NEW i \in 1 .. KeyWords PROVE x.key[i] \subseteq held[i] /\ held[i] \subseteq x.key[i] \cup W
      BY <2>3
    <3>3. 1 \in 1 .. KeyWords /\ <<"word", x, 1>> \in held[1] /\ held = [i \in 1 .. KeyWords |-> held[i]]
      BY <2>3
    <3> HIDE DEF W, held, x
    <3> QED
      BY <2>4, <3>1, <3>2, <3>3, KeyGrown
  <2>7. GivenInv(held, s.out \o w)
    <3>1. ASSUME NEW i \in 1 .. KeyWords, NEW j \in KeyWords + 1 .. 2 * KeyWords
          PROVE  <<"word", x, j>> \notin held[i]
      <4>1. j \in Nat /\ j # i
        OBVIOUS
      <4>2. <<"word", x, j>> \notin x.key[i] /\ <<"word", x, j>> # <<"word", x, i>>
        BY <2>4, <4>1, FreshSeed
      <4> QED
        BY <2>3, <4>2
    <3>2. 1 \in 1 .. KeyWords /\ <<"word", x, 1>> \in held[1] /\ n \in 0 .. KeyWords
      BY <2>1, <2>3
    <3>3. \A i \in DOMAIN s.out, j \in Nat : <<"word", x, j>> \notin s.out[i]
      BY <2>4, FreshSeed
    <3> HIDE DEF held, x
    <3> QED
      BY <2>5, <2>6, <3>1, <3>2, <3>3, GivenGrown
  <2>8. longer = [seed |-> [key |-> held, counter |-> Stepped(x.counter)],
                  stream |-> next.stream, blocks |-> s.blocks + 1, out |-> s.out \o w]
    <3> DEFINE first == [key |-> held, counter |-> Stepped(x.counter)]
    <3>1. next = [seed |-> first, stream |-> next.stream, blocks |-> s.blocks + 1, out |-> s.out]
      BY <2>3
    <3> DEFINE block == next.stream
               made == s.blocks + 1
               old == s.out
               all == next.out \o w
    <3>2. longer = [next EXCEPT !.out = all]
      OBVIOUS
    <3>3. next = [seed |-> first, stream |-> block, blocks |-> made, out |-> old]
      BY <3>1
    <3>4. all = s.out \o w
      BY <3>3
    <3> HIDE DEF first, block, made, old, all, longer
    <3>5. longer = [seed |-> first, stream |-> block, blocks |-> made, out |-> all]
      BY <3>2, <3>3
    <3> QED
      BY <3>4, <3>5 DEF first, block, made
  <2>9. final = [longer EXCEPT !.stream = Zeros(2 * KeyWords)]
    BY DEF Erased
  <2> HIDE DEF longer, final, held
  <2>10. /\ final = [seed |-> [key |-> held, counter |-> Stepped(x.counter)],
                     stream |-> Zeros(2 * KeyWords), blocks |-> s.blocks + 1, out |-> s.out \o w]
         /\ final.seed.key = held /\ final.out = s.out \o w /\ final.stream = Zeros(2 * KeyWords)
    BY <2>8, <2>9
  <2>11. ContextInv(final)
    BY <2>6, <2>7, <2>10 DEF ContextInv
  <2> QED
    BY <2>1, <2>2, <2>11
<1> QED
  BY <1>1, <1>2

LEMMA PushedKeeps ==
    ASSUME NEW s, ContextInv(s), NEW data, EntropyWords(data), KeyWords \in Nat \ {0}
    PROVE  ContextInv(Pushed(s, data))
<1> DEFINE c == [s |-> s, rest |-> data]
           n == Len(data)
           Good(d) == d = [s |-> d.s, rest |-> d.rest] /\ ContextInv(d.s) /\ EntropyWords(d.rest)
<1>1. n \in Nat
  BY LenProperties DEF EntropyWords
<1>2. PICK after : /\ after = [i \in 0 .. n |-> IF i = 0 THEN c ELSE PushRound(after[i - 1])]
                   /\ Pushed(s, data) = after[n].s
  BY <1>1, PushedValue
<1> HIDE DEF n
<1> DEFINE T == {i \in Nat : i <= n => Good(after[i])}
<1>3. 0 \in T
  <2>1. after[0] = c
    BY <1>1, <1>2
  <2> QED
    BY <2>1
<1>4. ASSUME NEW i \in Nat, i \in T PROVE i + 1 \in T
  <2>1. CASE i + 1 <= n
    <3>1. i + 1 \in 0 .. n /\ i + 1 # 0 /\ (i + 1) - 1 = i
      BY <1>1, <2>1
    <3>2. Good(after[i])
      BY <1>1, <1>4, <2>1
    <3>3. after[i + 1] = PushRound(after[(i + 1) - 1])
      BY <1>2, <3>1
    <3>4. after[i + 1] = PushRound(after[i])
      BY <3>1, <3>3
    <3>5. Good(PushRound(after[i]))
      BY <3>2, PushRoundKeeps
    <3> QED
      BY <3>4, <3>5
  <2> QED
    BY <2>1
<1> HIDE DEF T
<1>5. n \in T
  BY <1>1, <1>3, <1>4, Induction
<1> QED
  BY <1>1, <1>2, <1>5 DEF T

LEMMA GenerateLoop ==
    ASSUME NEW c, NEW n \in Nat
    PROVE  \E after : after = [i \in 0 .. n |-> IF i = 0 THEN c ELSE GenerateRound(after[i - 1])]
<1> DEFINE Eq(f, j) == f = [i \in 0 .. j |-> IF i = 0 THEN c ELSE GenerateRound(f[i - 1])]
           T == {j \in Nat : \E f : Eq(f, j)}
<1>1. 0 \in T
  <2> DEFINE f == [i \in 0 .. 0 |-> c]
  <2>1. Eq(f, 0)
    OBVIOUS
  <2> QED
    BY <2>1
<1>2. ASSUME NEW j \in Nat, j \in T PROVE j + 1 \in T
  <2>1. PICK f : Eq(f, j)
    BY <1>2
  <2> DEFINE g == [i \in 0 .. j + 1 |-> IF i = j + 1 THEN GenerateRound(f[j]) ELSE f[i]]
  <2>2. Eq(g, j + 1)
    BY <2>1
  <2> HIDE DEF g
  <2>3. j + 1 \in Nat /\ \E h : Eq(h, j + 1)
    BY <2>2
  <2> QED
    BY <2>3
<1> HIDE DEF T
<1>3. n \in T
  BY <1>1, <1>2, Induction
<1> QED
  BY <1>3 DEF T

LEMMA GeneratedValue ==
    ASSUME NEW s, NEW length \in Nat
    PROVE  \E after :
              /\ after = [n \in 0 .. length |-> IF n = 0 THEN [s |-> s, left |-> length]
                                                     ELSE GenerateRound(after[n - 1])]
              /\ Generated(s, length) = after[length].s
<1> DEFINE c == [s |-> s, left |-> length]
           Eq(f) == f = [n \in 0 .. length |-> IF n = 0 THEN c ELSE GenerateRound(f[n - 1])]
           after == CHOOSE f : Eq(f)
<1>1. \E f : Eq(f)
  BY GenerateLoop
<1>2. Eq(after)
  BY <1>1
<1>3. Generated(s, length) = after[length].s
  BY DEF Generated
<1> HIDE DEF after
<1> QED
  BY <1>2, <1>3

LEMMA GeneratedKeeps ==
    ASSUME NEW s, ContextInv(s), NEW n \in Nat, KeyWords \in Nat \ {0}
    PROVE  ContextInv(Generated(s, n))
<1> DEFINE c == [s |-> s, left |-> n]
           Good(d) == d = [s |-> d.s, left |-> d.left] /\ ContextInv(d.s) /\ d.left \in Nat
<1>1. PICK after : /\ after = [i \in 0 .. n |-> IF i = 0 THEN c ELSE GenerateRound(after[i - 1])]
                   /\ Generated(s, n) = after[n].s
  BY GeneratedValue
<1> DEFINE T == {i \in Nat : i <= n => Good(after[i])}
<1>2. 0 \in T
  <2>1. after[0] = c
    BY <1>1
  <2> QED
    BY <2>1
<1>3. ASSUME NEW i \in Nat, i \in T PROVE i + 1 \in T
  <2>1. CASE i + 1 <= n
    <3>1. i + 1 \in 0 .. n /\ i + 1 # 0 /\ (i + 1) - 1 = i
      BY <2>1
    <3>2. Good(after[i])
      BY <1>3, <2>1
    <3>3. after[i + 1] = GenerateRound(after[(i + 1) - 1])
      BY <1>1, <3>1
    <3>4. after[i + 1] = GenerateRound(after[i])
      BY <3>1, <3>3
    <3>5. Good(GenerateRound(after[i]))
      BY <3>2, GenerateRoundKeeps
    <3> QED
      BY <3>4, <3>5
  <2> QED
    BY <2>1
<1> HIDE DEF T
<1>4. n \in T
  BY <1>2, <1>3, Induction
<1> QED
  BY <1>1, <1>4 DEF T

RandomInv == ContextInv(Now)

LEMMA RandomAtRest == RandomInit => RandomInv
<1> SUFFICES ASSUME RandomInit PROVE ContextInv(Now)
  BY DEF RandomInv
<1>1. KeyWords \in Nat \ {0}
  BY RandomAssumption
<1> DEFINE held == Zeros(KeyWords)
<1>2. held = [i \in 1 .. KeyWords |-> {}] /\ 1 \in 1 .. KeyWords
  BY <1>1 DEF Zeros, Zero
<1> HIDE DEF held
<1>3. held = [i \in 1 .. KeyWords |-> held[i]] /\ \A i \in 1 .. KeyWords : held[i] = {}
  BY <1>2
<1>4. KeyInv(held)
  BY <1>2, <1>3 DEF KeyInv
<1>5. GivenInv(held, <<>>)
  <2>1. <<>> \in Seq(Range(<<>>)) /\ DOMAIN <<>> = {}
    BY EmptySeq
  <2> QED
    BY <2>1 DEF GivenInv
<1>6. seed = [key |-> held, counter |-> <<0, 0>>] /\ stream = Zeros(2 * KeyWords) /\ given = <<>>
  BY DEF RandomInit, held
<1> QED
  BY <1>4, <1>5, <1>6 DEF ContextInv, Now

LEMMA RandomStep == RandomInv /\ [RandomNext]_randomVars => RandomInv'
<1> SUFFICES ASSUME ContextInv(Now), [RandomNext]_randomVars PROVE ContextInv(Now')
  BY DEF RandomInv
<1>0. KeyWords \in Nat \ {0} /\ RandomPieces \subseteq Nat
  BY RandomAssumption
<1>1. ASSUME NEW s, Becomes(s), ContextInv(s) PROVE ContextInv(Now')
  <2>1. Now' = [seed |-> s.seed, stream |-> s.stream, blocks |-> s.blocks, out |-> s.out]
    BY <1>1 DEF Becomes, Now
  <2>2. s = [seed |-> [key |-> s.seed.key, counter |-> s.seed.counter],
             stream |-> s.stream, blocks |-> s.blocks, out |-> s.out]
    BY <1>1 DEF ContextInv
  <2>3. s.seed = [key |-> s.seed.key, counter |-> s.seed.counter]
    BY <2>2
  <2>4. Now' = s
    BY <2>1, <2>2, <2>3
  <2> QED
    BY <1>1, <2>4
<1>2. ASSUME NEW n \in RandomPieces, PushEntropy(n) PROVE ContextInv(Now')
  <2> DEFINE data == Supplied("entropy", 0, n)
  <2>1. n \in Nat
    BY <1>0
  <2>2. data = [i \in 1 .. n |-> {<<"entropy", 0 + i>>}]
    BY DEF Supplied
  <2>3. data \in [1 .. n -> Range(data)]
    BY <2>2 DEF Range
  <2>4. ASSUME NEW i \in DOMAIN data, NEW t \in data[i] PROVE t[1] = "entropy"
    <3>1. t = <<"entropy", 0 + i>>
      BY <2>2, <2>4
    <3> QED
      BY <3>1
  <2> HIDE DEF data
  <2>5. EntropyWords(data)
    BY <2>1, <2>3, <2>4, FunctionIsSeq DEF EntropyWords
  <2>6. ContextInv(Pushed(Now, data))
    BY <1>0, <2>5, PushedKeeps
  <2>7. Becomes(Pushed(Now, data))
    BY <1>2 DEF PushEntropy, data
  <2> QED
    BY <1>1, <2>6, <2>7
<1>3. ASSUME NEW n \in RandomPieces, GenerateWords(n) PROVE ContextInv(Now')
  <2>1. n \in Nat
    BY <1>0
  <2>2. ContextInv(Generated(Now, n))
    BY <1>0, <2>1, GeneratedKeeps
  <2> QED
    BY <1>1, <1>3, <2>2 DEF GenerateWords
<1>4. CASE UNCHANGED randomVars
  BY <1>4 DEF randomVars, Now, ContextInv
<1> QED
  BY <1>2, <1>3, <1>4 DEF RandomNext

LEMMA GivenApart == RandomInv => OutputApart
<1> SUFFICES ASSUME ContextInv(Now) PROVE OutputApart
  BY DEF RandomInv
<1>1. KeyWords \in Nat \ {0}
  BY RandomAssumption
<1>2. KeyInv(seed.key) /\ GivenInv(seed.key, given) /\ stream = Zeros(2 * KeyWords)
  BY DEF ContextInv, Now
<1>3. ASSUME NEW t, t \in Tokens(given) PROVE t \notin Tokens(seed.key) /\ t \notin Tokens(stream)
  <2>1. PICK i \in DOMAIN given : t \in given[i]
    BY <1>3 DEF Tokens, Range
  <2>2. PICK u \in given[i] : given[i] = {u} /\ \A j \in 1 .. KeyWords : u \notin seed.key[j]
    BY <1>2 DEF GivenInv
  <2>3. \A j \in 1 .. KeyWords : t \notin seed.key[j]
    BY <2>1, <2>2
  <2>4. DOMAIN seed.key = 1 .. KeyWords
    BY <1>2 DEF KeyInv
  <2> QED
    BY <1>2, <2>3, <2>4 DEF Tokens, Range, Zeros, Zero
<1> QED
  BY <1>2, <1>3 DEF OutputApart, GivenInv

\* The key of the generator always names every state that made a block.
THEOREM RandomInvTheorem == RandomSpec => []RandomInv
BY RandomAtRest, RandomStep, PTL DEF RandomSpec

\* No word given out is left in the generator, and none is given out twice.
THEOREM OutputApartTheorem == RandomSpec => []OutputApart
BY RandomInvTheorem, GivenApart, PTL

-----------------------------------------------------------------------------
(* Hashes: pieces of any lengths give the digest of the whole text.        *)

-----------------------------------------------------------------------------
(* The hash.                                                              *)

\* The blocks in the first n bytes of a text, and the context that has taken
\* these bytes: what follows the last whole block is at the front of the block.
BlocksOf(m, n) == [b \in 1 .. n \div Block |-> SubSeq(m, (b - 1) * Block + 1, b * Block)]

Absorbed(h, m, n) ==
    /\ h = [block |-> h.block, state |-> BlocksOf(m, n), total |-> n]
    /\ IsSeq(h.block) /\ Len(h.block) = Block
    /\ \A i \in 1 .. n % Block : h.block[i] = m[(n \div Block) * Block + i]

LEMMA BlockSlice ==
    ASSUME NEW m, NEW a \in Nat, NEW s, IsSeq(s), \A i \in 1 .. Len(s) : s[i] = m[a + i]
    PROVE  SubSeq(m, a + 1, a + Len(s)) = s
<1> DEFINE n == Len(s)
           t == SubSeq(m, a + 1, a + n)
<1>1. n \in Nat
  BY SeqFacts
<1> HIDE DEF n
<1>2. IsSeq(t) /\ Len(t) = n /\ \A i \in 1 .. n : t[i] = m[a + i]
  BY <1>1, SliceFacts
<1> HIDE DEF t
<1>3. t = s
  BY <1>2, SameSeq DEF n
<1> QED
  BY <1>3 DEF t, n

LEMMA LastBlock ==
    ASSUME NEW m, NEW a \in Nat, NEW block, IsSeq(block), Len(block) = Block,
           \A i \in 1 .. Block : block[i] = m[a + i]
    PROVE  SubSeq(m, a + 1, a + Block) = block
BY BlockSlice

LEMMA BlocksAppended ==
    ASSUME NEW m, NEW q \in Nat, NEW n, n \div Block = q, NEW l, l \div Block = q + 1,
           Block \in Nat
    PROVE  Append(BlocksOf(m, n), SubSeq(m, q * Block + 1, q * Block + Block)) = BlocksOf(m, l)
<1> DEFINE old == BlocksOf(m, n)
           new == BlocksOf(m, l)
           block == SubSeq(m, q * Block + 1, q * Block + Block)
<1>1. q + 1 \in Nat /\ q * Block \in Nat
  OBVIOUS
<1>2. old = [b \in 1 .. q |-> old[b]] /\ new = [b \in 1 .. q + 1 |-> new[b]]
  BY <1>1 DEF BlocksOf
<1>3. IsSeq(old) /\ Len(old) = q /\ IsSeq(new) /\ Len(new) = q + 1
  <2> HIDE DEF old, new
  <2> QED
    BY <1>1, <1>2, FunctionSeq
<1>4. \A b \in 1 .. q : new[b] = old[b]
  <2>1. \A b \in 1 .. q : b \in 1 .. l \div Block
    BY <1>1
  <2> QED
    BY <2>1 DEF BlocksOf
<1>5. new[q + 1] = block
  <2>1. q + 1 \in 1 .. l \div Block /\ (q + 1) - 1 = q
    BY <1>1
  <2>2. (q + 1) * Block = q * Block + Block
    BY <1>1
  <2>3. new[q + 1] = SubSeq(m, ((q + 1) - 1) * Block + 1, (q + 1) * Block)
    BY <2>1 DEF BlocksOf
  <2> HIDE DEF new
  <2> QED
    BY <2>1, <2>2, <2>3
<1> HIDE DEF old, new, block
<1> DEFINE all == Append(old, block)
<1>7. IsSeq(all) /\ Len(all) = q + 1 /\ (\A b \in 1 .. q : all[b] = old[b]) /\ all[q + 1] = block
  BY <1>3, AppendFacts
<1> HIDE DEF all
<1>8. ASSUME NEW b \in 1 .. Len(all) PROVE all[b] = new[b]
  <2>1. b \in 1 .. q \/ b = q + 1
    BY <1>1, <1>7
  <2> QED
    BY <1>4, <1>5, <1>7, <2>1
<1>9. all = new
  BY <1>3, <1>7, <1>8, SameSeq
<1> QED
  BY <1>9 DEF all, old, new, block

\* A loop of update() that has taken n bytes of the text.
Taken(c, m, n) ==
    /\ n \in 0 .. Len(m) /\ Absorbed(c.h, m, n)
    /\ IsSeq(c.rest) /\ Len(c.rest) = Len(m) - n
    /\ \A i \in 1 .. Len(c.rest) : c.rest[i] = m[n + i]

\* A round takes a byte at least, while there is one.
LEMMA UpdateRoundKeeps ==
    ASSUME NEW m, IsSeq(m), NEW c, NEW n, Taken(c, m, n)
    PROVE  \E l \in n .. Len(m) : Taken(UpdateRound(c), m, l) /\ (n < Len(m) => n < l)
<1>b. Block \in Nat /\ Block \in Nat \ {0}
  BY BlockHashAssumption
<1>0. /\ n \in 0 .. Len(m) /\ Absorbed(c.h, m, n)
      /\ IsSeq(c.rest) /\ Len(c.rest) = Len(m) - n
      /\ \A i \in 1 .. Len(c.rest) : c.rest[i] = m[n + i]
  BY DEF Taken
<1>1. Len(m) \in Nat /\ n \in Nat /\ n <= Len(m)
  BY <1>0, SeqFacts
<1>2. CASE c.rest = <<>>
  <2>1. n = Len(m) /\ n \in n .. Len(m)
    BY <1>0, <1>1, <1>2, EmptyIsSeq
  <2>2. UpdateRound(c) = c
    BY <1>2 DEF UpdateRound
  <2> QED
    BY <1>1, <2>1, <2>2
<1>3. CASE c.rest # <<>>
  <2> DEFINE used == n % Block
             q == n \div Block
             rest == c.rest
             len == IF Len(rest) < Block - used THEN Len(rest) ELSE Block - used
             piece == SubSeq(rest, 1, len)
             block == CopiedInto(c.h.block, used, piece)
             l == n + len
             next == [c.h EXCEPT !.block = CopiedInto(@, used, piece), !.total = @ + len]
             after == SubSeq(rest, len + 1, Len(rest))
             sofar == IF next.total % Block = 0 THEN ProcessBlock(next) ELSE next
  <2>1. /\ c.h = [block |-> c.h.block, state |-> BlocksOf(m, n), total |-> n]
        /\ IsSeq(c.h.block) /\ Len(c.h.block) = Block
        /\ \A i \in 1 .. used : c.h.block[i] = m[q * Block + i]
    BY <1>0 DEF Absorbed
  <2>0. c.h.total = n
    BY <2>1
  <2>2. UpdateRound(c) = [h |-> sofar, rest |-> after]
    <3> DEFINE u == c.h.total % Block
               w == IF Len(c.rest) < Block - u THEN Len(c.rest) ELSE Block - u
               g == [c.h EXCEPT !.block = CopiedInto(@, u, SubSeq(c.rest, 1, w)), !.total = @ + w]
    <3>1. UpdateRound(c) = [h |-> IF g.total % Block = 0 THEN ProcessBlock(g) ELSE g,
                            rest |-> SubSeq(c.rest, w + 1, Len(c.rest))]
      BY <1>3, Zenon DEF UpdateRound
    <3>2. u = used
      BY <2>0
    <3> HIDE DEF u, used
    <3> QED
      BY <3>1, <3>2
  <2>3. next = [block |-> block, state |-> BlocksOf(m, n), total |-> l]
    <3> DEFINE g == c.h
    <3>1. next = [g EXCEPT !.block = CopiedInto(g.block, used, piece), !.total = g.total + len]
      OBVIOUS
    <3> DEFINE gb == g.block
               gs == BlocksOf(m, n)
               nb == CopiedInto(gb, used, piece)
               nt == g.total + len
    <3>2. g = [block |-> gb, state |-> gs, total |-> n]
      BY <2>1
    <3>3. nt = n + len
      BY <2>0
    <3>4. next = [g EXCEPT !.block = nb, !.total = nt]
      BY <3>1
    <3> HIDE DEF piece, len, g, next, used, gb, gs, nb, nt
    <3>5. next = [block |-> nb, state |-> gs, total |-> nt]
      BY <3>2, <3>4
    <3>6. next = [block |-> nb, state |-> gs, total |-> n + len]
      BY <3>3, <3>5
    <3> QED
      BY <3>6 DEF g, gb, gs, nb
  <2>4. q \in Nat /\ used \in Nat /\ used < Block /\ n = q * Block + used
    BY <1>1, <1>b, DivMod
  <2>5. Len(rest) \in Nat /\ Len(rest) = Len(m) - n /\ IsSeq(rest) /\ \A i \in 1 .. Len(rest) : rest[i] = m[n + i]
    BY <1>0, SeqFacts
  <2>6. Len(rest) > 0
    <3>1. Len(rest) = 0 => rest = <<>>
      BY <2>5, EmptyIsSeq, SameSeq
    <3> QED
      BY <1>3, <2>5, <3>1
  <2>7. len \in Nat /\ len > 0 /\ len <= Len(rest) /\ used + len <= Block
    <3> HIDE DEF used, rest
    <3> QED
      BY SMTT(30), <1>b, <2>4, <2>5, <2>6
  <2> HIDE DEF used, q, rest, len
  <2>8. IsSeq(piece) /\ Len(piece) = len /\ \A i \in 1 .. len : piece[i] = rest[i]
    <3>1. /\ IsSeq(SubSeq(rest, 0 + 1, len)) /\ Len(SubSeq(rest, 0 + 1, len)) = len - 0
          /\ \A i \in 1 .. len - 0 : SubSeq(rest, 0 + 1, len)[i] = rest[0 + i]
      <4>1. 0 \in Nat /\ len \in Nat /\ 0 <= len
        BY <2>7
      <4> HIDE DEF piece
      <4> QED
        BY <4>1, PieceFacts
    <3>2. 0 + 1 = 1 /\ len - 0 = len /\ \A i \in 1 .. len : 0 + i = i
      BY <2>7
    <3> QED
      BY <3>1, <3>2
  <2>9. IsSeq(after) /\ Len(after) = Len(rest) - len /\ \A i \in 1 .. Len(rest) - len : after[i] = rest[len + i]
    BY <2>5, <2>7, PieceFacts
  <2> HIDE DEF piece, after
  <2>10. /\ IsSeq(block) /\ Len(block) = Block
         /\ \A i \in 1 .. used : block[i] = c.h.block[i]
         /\ \A i \in 1 .. len : block[used + i] = piece[i]
    <3> DEFINE old == c.h.block
    <3>1. IsSeq(old) /\ Len(old) = Block /\ used \in Nat /\ used + Len(piece) <= Len(old)
      BY <2>1, <2>4, <2>7, <2>8
    <3> HIDE DEF old
    <3>2. LET r == CopiedInto(old, used, piece)
          IN  /\ IsSeq(r) /\ Len(r) = Len(old)
              /\ \A i \in 1 .. used : r[i] = old[i]
              /\ \A i \in 1 .. Len(piece) : r[used + i] = piece[i]
      BY <2>8, <3>1, CopiedFacts
    <3> QED
      BY <2>8, <3>1, <3>2 DEF old
  <2> HIDE DEF block
  <2>11. \A i \in 1 .. used + len : block[i] = m[q * Block + i]
    <3> TAKE i \in 1 .. used + len
    <3>1. CASE i <= used
      <4>1. i \in 1 .. used
        BY <2>4, <3>1
      <4> QED
        BY <2>1, <2>10, <4>1
    <3>2. CASE i > used
      <4> DEFINE j == i - used
      <4>1. j \in 1 .. len /\ used + j = i /\ j \in 1 .. Len(rest)
        BY <2>4, <2>5, <2>7, <3>2
      <4>2. n + j = q * Block + i
        BY <2>4, <4>1, <1>b
      <4> HIDE DEF j
      <4>3. block[used + j] = piece[j] /\ piece[j] = rest[j] /\ rest[j] = m[n + j]
        BY <2>5, <2>8, <2>10, <4>1
      <4> QED
        BY <4>1, <4>2, <4>3
    <3> QED
      BY <2>4, <2>7, <3>1, <3>2
  <2>12. l \in n .. Len(m) /\ n < l /\ l \in Nat /\ Len(rest) - len = Len(m) - l
    BY <1>1, <2>5, <2>7
  <2>13. \A i \in 1 .. Len(m) - l : after[i] = m[l + i]
    <3> TAKE i \in 1 .. Len(m) - l
    <3>1. i \in 1 .. Len(rest) - len /\ len + i \in 1 .. Len(rest) /\ n + (len + i) = l + i
      BY <1>1, <2>5, <2>7, <2>12
    <3> QED
      BY <2>5, <2>9, <3>1
  <2>14. Absorbed(sofar, m, l)
    <3> DEFINE state == BlocksOf(m, n)
    <3>1. /\ used + len < Block => l \div Block = q /\ l % Block = used + len
          /\ used + len = Block => l \div Block = q + 1 /\ l % Block = 0
      BY <1>1, <1>b, <2>7, DivStep DEF used, q
    <3>2. CASE used + len < Block
      <4>1. sofar = [block |-> block, state |-> state, total |-> l]
        <5>0. l % Block # 0
          <6> HIDE DEF l
          <6> QED
            BY <2>4, <2>7, <3>1, <3>2
        <5> HIDE DEF next, state, l
        <5>1. next.total = l /\ l % Block # 0
          BY <2>3, <5>0
        <5> QED
          BY <2>3, <5>1 DEF state
      <4>2. state = BlocksOf(m, l)
        BY <3>1, <3>2 DEF BlocksOf, q
      <4> HIDE DEF sofar, state, l, next
      <4>3. l % Block = used + len /\ l \div Block = q
        BY <3>1, <3>2
      <4>4. sofar.block = block /\ sofar = [block |-> sofar.block, state |-> BlocksOf(m, l), total |-> l]
        BY <4>1, <4>2
      <4> QED
        BY <2>10, <2>11, <4>3, <4>4 DEF Absorbed
    <3>3. CASE used + len = Block
      <4>0. l % Block = 0 /\ l \div Block = q + 1 /\ n \div Block = q
        BY <3>1, <3>3 DEF q
      <4>1. sofar = [block |-> block, state |-> Append(state, block), total |-> l]
        <5>1. next.total = l
          BY <2>3
        <5> HIDE DEF next, state, l
        <5> QED
          BY <2>3, <5>1, <4>0 DEF state, ProcessBlock
      <4>2. SubSeq(m, q * Block + 1, q * Block + Block) = block
        <5> DEFINE a == q * Block
        <5>1. a \in Nat
          BY <1>b, <2>4
        <5>2. \A i \in 1 .. Block : block[i] = m[a + i]
          BY <2>11, <3>3
        <5> HIDE DEF a
        <5>3. SubSeq(m, a + 1, a + Block) = block
          BY <1>b, <2>10, <5>1, <5>2, LastBlock
        <5> QED
          BY <5>3 DEF a
      <4>3. Append(state, block) = BlocksOf(m, l)
        <5> HIDE DEF l
        <5>1. Append(BlocksOf(m, n), SubSeq(m, q * Block + 1, q * Block + Block)) = BlocksOf(m, l)
          BY <1>b, <2>4, <4>0, BlocksAppended
        <5> QED
          BY <4>2, <5>1
      <4> HIDE DEF sofar, state, l, next
      <4>4. sofar.block = block /\ sofar = [block |-> sofar.block, state |-> BlocksOf(m, l), total |-> l]
        BY <4>1, <4>3
      <4>5. 1 .. l % Block = {}
        BY <4>0
      <4> QED
        BY <2>10, <4>4, <4>5 DEF Absorbed
    <3> QED
      BY <1>b, <2>4, <2>7, <3>2, <3>3
  <2> HIDE DEF sofar, l
  <2>15. Taken([h |-> sofar, rest |-> after], m, l)
    <3>1. l \in 0 .. Len(m)
      BY <1>1, <2>12
    <3> QED
      BY <2>9, <2>12, <2>13, <2>14, <3>1 DEF Taken
  <2> QED
    BY <2>2, <2>12, <2>15
<1> QED
  BY <1>2, <1>3

LEMMA UpdateLoop ==
    ASSUME NEW c, NEW n \in Nat
    PROVE  \E after : after = [i \in 0 .. n |-> IF i = 0 THEN c ELSE UpdateRound(after[i - 1])]
<1> DEFINE Eq(f, j) == f = [i \in 0 .. j |-> IF i = 0 THEN c ELSE UpdateRound(f[i - 1])]
           T == {j \in Nat : \E f : Eq(f, j)}
<1>1. 0 \in T
  <2> DEFINE f == [i \in 0 .. 0 |-> c]
  <2>1. Eq(f, 0)
    OBVIOUS
  <2> QED
    BY <2>1
<1>2. ASSUME NEW j \in Nat, j \in T PROVE j + 1 \in T
  <2>1. PICK f : Eq(f, j)
    BY <1>2
  <2> DEFINE g == [i \in 0 .. j + 1 |-> IF i = j + 1 THEN UpdateRound(f[j]) ELSE f[i]]
  <2>2. Eq(g, j + 1)
    BY <2>1
  <2> HIDE DEF g
  <2>3. j + 1 \in Nat /\ \E h : Eq(h, j + 1)
    BY <2>2
  <2> QED
    BY <2>3
<1> HIDE DEF T
<1>3. n \in T
  BY <1>1, <1>2, Induction
<1> QED
  BY <1>3 DEF T

LEMMA UpdateValue ==
    ASSUME NEW h, NEW data, Len(data) \in Nat
    PROVE  \E after :
              /\ after = [n \in 0 .. Len(data) |-> IF n = 0 THEN [h |-> h, rest |-> data]
                                                        ELSE UpdateRound(after[n - 1])]
              /\ Update(h, data) = after[Len(data)].h
<1> DEFINE c == [h |-> h, rest |-> data]
           Eq(f) == f = [n \in 0 .. Len(data) |-> IF n = 0 THEN c ELSE UpdateRound(f[n - 1])]
           after == CHOOSE f : Eq(f)
<1>1. \E f : Eq(f)
  BY UpdateLoop
<1>2. Eq(after)
  BY <1>1
<1>3. Update(h, data) = after[Len(data)].h
  BY DEF Update
<1> HIDE DEF after
<1> QED
  BY <1>2, <1>3

\* What a context has taken of a text it has taken of any that begins so.
LEMMA Prefix ==
    ASSUME NEW text, IsSeq(text), NEW data, IsSeq(data), NEW h, Absorbed(h, text, Len(text))
    PROVE  Absorbed(h, text \o data, Len(text))
<1> DEFINE m == text \o data
           n == Len(text)
           q == n \div Block
           old == BlocksOf(text, n)
           new == BlocksOf(m, n)
<1>b. Block \in Nat /\ Block \in Nat \ {0}
  BY BlockHashAssumption
<1>1. n \in Nat /\ \A i \in 1 .. n : m[i] = text[i]
  BY SeqFacts, ConcatFacts
<1>2. q \in Nat /\ n % Block \in Nat /\ n = q * Block + (n % Block)
  BY <1>b, <1>1, DivMod
<1>3. \A i \in 1 .. n % Block : q * Block + i \in 1 .. n
  <2> DEFINE x == q * Block
             y == n % Block
  <2>1. x \in Nat /\ y \in Nat /\ n = x + y
    BY <1>b, <1>2
  <2> HIDE DEF x, y
  <2>2. \A i \in 1 .. y : x + i \in 1 .. n
    BY <2>1
  <2> QED
    BY <2>2 DEF x, y
<1> HIDE DEF m
<1>4. ASSUME NEW b \in 1 .. q PROVE SubSeq(text, (b - 1) * Block + 1, b * Block) = SubSeq(m, (b - 1) * Block + 1, b * Block)
  <2> DEFINE a == (b - 1) * Block
  <2>1. a \in Nat /\ b * Block = a + Block /\ a + Block <= n
    <3>1. b - 1 \in Nat /\ b \in Nat /\ b <= q
      BY <1>2
    <3>2. (b - 1) * Block \in Nat /\ b * Block = (b - 1) * Block + Block
      BY <1>b, <3>1
    <3>3. b * Block <= q * Block
      BY <1>b, <1>2, <3>1
    <3>4. q * Block <= n
      <4> DEFINE x == q * Block
                 y == n % Block
      <4>1. x \in Nat /\ y \in Nat /\ n = x + y
        BY <1>b, <1>2
      <4> HIDE DEF x, y
      <4>2. x <= n
        BY <4>1
      <4> QED
        BY <4>2 DEF x
    <3>5. b * Block \in Nat /\ q * Block \in Nat
      BY <1>b, <1>2, <3>1
    <3> QED
      BY <1>1, <3>2, <3>3, <3>4, <3>5
  <2> DEFINE s == SubSeq(text, a + 1, a + Block)
             t == SubSeq(m, a + 1, a + Block)
  <2> HIDE DEF a
  <2>2. IsSeq(s) /\ Len(s) = Block /\ \A i \in 1 .. Block : s[i] = text[a + i]
    BY <1>b, <2>1, SliceFacts
  <2>3. IsSeq(t) /\ Len(t) = Block /\ \A i \in 1 .. Block : t[i] = m[a + i]
    BY <1>b, <2>1, SliceFacts
  <2>4. \A i \in 1 .. Block : a + i \in 1 .. n
    BY <1>b, <1>1, <2>1
  <2> HIDE DEF s, t, n
  <2>5. s = t
    <3>1. \A i \in 1 .. Len(s) : s[i] = t[i]
      BY <1>1, <2>2, <2>3, <2>4
    <3> QED
      BY <2>2, <2>3, <3>1, SameSeq
  <2> QED
    BY <2>1, <2>5 DEF s, t, a
<1>5. old = new
  BY <1>4 DEF BlocksOf
<1> HIDE DEF old, new, q, n
<1>6. /\ h = [block |-> h.block, state |-> old, total |-> n]
      /\ IsSeq(h.block) /\ Len(h.block) = Block
      /\ \A i \in 1 .. n % Block : h.block[i] = text[q * Block + i]
  BY DEF Absorbed, old, n, q
<1>7. \A i \in 1 .. n % Block : h.block[i] = m[q * Block + i]
  BY <1>1, <1>3, <1>6
<1>8. Absorbed(h, m, n)
  BY <1>5, <1>6, <1>7 DEF Absorbed, new, q
<1> QED
  BY <1>8 DEF m, n

\* A piece of any length is taken whole.
LEMMA UpdateKeeps ==
    ASSUME NEW text, IsSeq(text), NEW data, IsSeq(data), NEW h, Absorbed(h, text, Len(text))
    PROVE  Absorbed(Update(h, data), text \o data, Len(text \o data))
<1> DEFINE m == text \o data
           c == [h |-> h, rest |-> data]
           n == Len(data)
           j == Len(text)
<1>1. n \in Nat /\ j \in Nat
  BY SeqFacts
<1>2. IsSeq(m) /\ Len(m) = j + n /\ \A i \in 1 .. n : m[j + i] = data[i]
  BY ConcatFacts
<1>3. Absorbed(h, m, j)
  BY Prefix
<1>4. PICK after : /\ after = [i \in 0 .. n |-> IF i = 0 THEN c ELSE UpdateRound(after[i - 1])]
                   /\ Update(h, data) = after[n].h
  BY <1>1, UpdateValue
<1> HIDE DEF n, j, m
<1>5. Taken(c, m, j)
  <2>1. j \in 0 .. Len(m) /\ Len(data) = Len(m) - j
    BY <1>1, <1>2 DEF n
  <2>2. c.h = h /\ c.rest = data
    OBVIOUS
  <2> HIDE DEF c
  <2> QED
    BY <1>2, <1>3, <2>1, <2>2 DEF Taken, n
<1> HIDE DEF c
<1> DEFINE T == {i \in Nat : i <= n => \E l \in j + i .. Len(m) : Taken(after[i], m, l)}
<1>6. 0 \in T
  <2>1. after[0] = c
    BY <1>1, <1>4
  <2>2. j \in j + 0 .. Len(m)
    BY <1>1, <1>2
  <2> QED
    BY <1>5, <2>1, <2>2
<1>7. ASSUME NEW i \in Nat, i \in T PROVE i + 1 \in T
  <2>1. CASE i + 1 <= n
    <3>1. i + 1 \in 0 .. n /\ i + 1 # 0 /\ (i + 1) - 1 = i /\ i <= n
      BY <1>1, <2>1
    <3>2. PICK l \in j + i .. Len(m) : Taken(after[i], m, l)
      BY <1>7, <3>1
    <3>3. after[i + 1] = UpdateRound(after[(i + 1) - 1])
      BY <1>4, <3>1
    <3>4. after[i + 1] = UpdateRound(after[i])
      BY <3>1, <3>3
    <3>5. PICK p \in l .. Len(m) : Taken(UpdateRound(after[i]), m, p) /\ (l < Len(m) => l < p)
      BY <1>2, <3>2, UpdateRoundKeeps
    <3>6. p \in j + (i + 1) .. Len(m)
      BY <1>1, <1>2, <2>1, <3>2, <3>5
    <3> QED
      BY <3>4, <3>5, <3>6
  <2> QED
    BY <2>1
<1> HIDE DEF T
<1>8. n \in T
  BY <1>1, <1>6, <1>7, Induction
<1>9. PICK l \in j + n .. Len(m) : Taken(after[n], m, l)
  BY <1>1, <1>8 DEF T
<1>10. l = Len(m)
  BY <1>1, <1>2, <1>9
<1> QED
  BY <1>4, <1>9, <1>10 DEF Taken, m

-----------------------------------------------------------------------------
(* The padding.                                                           *)

\* The zeros between the one bit and the length: what is left of the block,
\* or of the next one.
Gap(n) == (IF TrailerFits((n % Block) + 1) THEN Block ELSE 2 * Block) - (n % Block) - 1 - Trailer

LEMMA GapFacts ==
    ASSUME NEW n \in Nat
    PROVE  /\ Gap(n) \in 0 .. Block - 1
           /\ (TrailerFits((n % Block) + 1)
                  => n + 1 + Gap(n) + Trailer = ((n \div Block) + 1) * Block)
           /\ (~TrailerFits((n % Block) + 1)
                  => n + 1 + Gap(n) + Trailer = ((n \div Block) + 2) * Block)
           /\ (n + 1 + Gap(n) + Trailer) % Block = 0
           /\ \A j \in 0 .. Block - 1 : (n + 1 + j + Trailer) % Block = 0 => j = Gap(n)
<1> DEFINE u == n % Block
           q == n \div Block
           w == IF TrailerFits(u + 1) THEN 1 ELSE 2
           g == w * Block - u - 1 - Trailer
<1>1. /\ Block \in Nat /\ Block \in Nat \ {0} /\ Trailer \in Nat /\ 5 <= Trailer /\ Trailer < Block
  BY BlockHashAssumption
<1>2. u \in Nat /\ u < Block /\ q \in Nat /\ n = q * Block + u
  BY <1>1, DivMod
<1>3. g = Gap(n)
  BY <1>1, <1>2 DEF Gap
<1>4. w \in {1, 2} /\ (w = 1 <=> u + 1 + Trailer <= Block)
  BY <1>1, <1>2 DEF TrailerFits
<1> HIDE DEF u, q, w
<1>5. g \in 0 .. Block - 1
  BY <1>1, <1>2, <1>4
<1>6. n + 1 + g + Trailer = (q + w) * Block
  <2>1. (q + 1) * Block = q * Block + Block /\ (q + 2) * Block = q * Block + 2 * Block /\ q * Block \in Nat
    BY <1>1, <1>2
  <2> DEFINE x == q * Block
  <2> HIDE DEF x
  <2>2. CASE w = 1
    <3>1. n + 1 + g + Trailer = x + Block
      BY <1>1, <1>2, <2>1, <2>2 DEF x
    <3> QED
      BY <2>1, <2>2, <3>1 DEF x
  <2>3. CASE w = 2
    <3>1. n + 1 + g + Trailer = x + 2 * Block
      BY <1>1, <1>2, <2>1, <2>3 DEF x
    <3> QED
      BY <2>1, <2>3, <3>1 DEF x
  <2> QED
    BY <1>4, <2>2, <2>3
<1>7. ((q + w) * Block) % Block = 0
  <2>1. q + w \in Nat
    BY <1>2, <1>4
  <2> DEFINE y == q + w
             x == y * Block
  <2>2. y \in Nat /\ x \in Nat /\ 0 \in Nat /\ 0 < Block /\ x = y * Block + 0
    BY <1>1, <2>1
  <2> HIDE DEF x, y
  <2>3. x % Block = 0
    BY <1>1, <2>2, DivModIs
  <2> QED
    BY <2>3 DEF x, y
<1>8. ASSUME NEW j \in 0 .. Block - 1, (n + 1 + j + Trailer) % Block = 0 PROVE j = g
  <2> DEFINE N == n + 1 + j + Trailer
             p == N \div Block
             d == p - q
  <2>1. N \in Nat
    BY <1>1
  <2>2. p \in Nat /\ N = p * Block + (N % Block)
    <3> HIDE DEF N
    <3> QED
      BY <1>1, <2>1, DivMod
  <2>3. N = p * Block
    <3>1. p * Block \in Nat
      BY <1>1, <2>2
    <3>2. N % Block = 0
      BY <1>8
    <3> DEFINE x == p * Block
    <3> HIDE DEF x, N
    <3>3. N = x + 0
      BY <2>2, <3>2 DEF x
    <3>4. N = x
      BY <3>1, <3>3 DEF x
    <3> QED
      BY <3>4 DEF x
  <2> HIDE DEF p
  <2>4. d \in Int /\ d * Block = p * Block - q * Block
    BY <1>1, <1>2, <2>2
  <2>5. d * Block = u + 1 + j + Trailer
    <3> DEFINE x == p * Block
               y == q * Block
               z == d * Block
    <3>1. x \in Nat /\ y \in Nat /\ n + 1 + j + Trailer = x /\ n = y + u /\ z = x - y
      BY <1>1, <1>2, <2>2, <2>3, <2>4
    <3> HIDE DEF x, y, z
    <3>2. z = u + 1 + j + Trailer
      BY <1>1, <1>2, <3>1
    <3> QED
      BY <3>2 DEF z
  <2> HIDE DEF d, N
  <2>6. d = 1 \/ d = 2
    <3>1. d * Block > 0 /\ d * Block < 3 * Block
      BY <1>1, <1>2, <2>5
    <3>2. d <= 0 => d * Block <= 0
      BY <1>1, <2>4
    <3>3. d >= 3 => d * Block >= 3 * Block
      BY <1>1, <2>4
    <3>4. d > 0 /\ d < 3
      <4> DEFINE z == d * Block
      <4>1. z \in Int
        BY <1>1, <2>4
      <4>2. z > 0 /\ z < 3 * Block /\ (d <= 0 => z <= 0) /\ (d >= 3 => z >= 3 * Block)
        BY <3>1, <3>2, <3>3
      <4> HIDE DEF z
      <4> QED
        BY <1>1, <2>4, <4>1, <4>2
    <3> QED
      BY <2>4, <3>4
  <2>7. CASE d = 1
    <3>1. Block = u + 1 + j + Trailer
      BY <1>1, <2>5, <2>7
    <3> QED
      BY <1>1, <1>2, <1>4, <3>1
  <2>8. CASE d = 2
    <3>1. 2 * Block = u + 1 + j + Trailer
      BY <1>1, <2>5, <2>8
    <3>2. w = 2
      BY <1>1, <1>2, <1>4, <3>1
    <3> QED
      BY <1>1, <1>2, <3>1, <3>2
  <2> QED
    BY <2>6, <2>7, <2>8
<1>9. /\ (TrailerFits(u + 1) => w = 1) /\ (~TrailerFits(u + 1) => w = 2)
  BY DEF w
<1> HIDE DEF g
<1> QED
  BY <1>3, <1>5, <1>6, <1>7, <1>8, <1>9 DEF u, q

LEMMA GapRange == ASSUME NEW n \in Nat PROVE Gap(n) \in 0 .. Block - 1 /\ Gap(n) \in Nat /\ Trailer \in Nat
<1>1. Block \in Nat /\ Trailer \in Nat
  BY BlockHashAssumption
<1>2. Gap(n) \in 0 .. Block - 1
  BY GapFacts
<1> QED
  BY <1>1, <1>2

\* What follows a message of n bytes in its padded form.
Tail80(n) == <<Number(128)>> \o Zeros(Gap(n)) \o LengthField(n)

LEMMA TailFacts ==
    ASSUME NEW n \in Nat
    PROVE  /\ IsSeq(Tail80(n)) /\ Len(Tail80(n)) = 1 + Gap(n) + Trailer
           /\ Tail80(n)[1] = Number(128)
           /\ \A j \in 1 .. Gap(n) : Tail80(n)[1 + j] = Zero
           /\ \A j \in 1 .. Trailer : Tail80(n)[1 + Gap(n) + j] = Number(LengthByte(n, Trailer - j))
<1> DEFINE g == Gap(n)
           one == <<Number(128)>>
           z == Zeros(g)
           f == LengthField(n)
           oz == one \o z
           t == oz \o f
<1>1. g \in Nat /\ Trailer \in Nat
  BY GapRange
<1>2. IsSeq(one) /\ Len(one) = 1 /\ one[1] = Number(128)
  BY OneFacts
<1> HIDE DEF g, one
<1>3. IsSeq(z) /\ Len(z) = g /\ \A i \in 1 .. g : z[i] = Zero
  BY <1>1, ZerosFacts
<1>4. f = [i \in 1 .. Trailer |-> f[i]] /\ \A i \in 1 .. Trailer : f[i] = Number(LengthByte(n, Trailer - i))
  BY DEF LengthField
<1> HIDE DEF z, f
<1>5. IsSeq(f) /\ Len(f) = Trailer
  BY <1>1, <1>4, FunctionSeq
<1>6. /\ IsSeq(oz) /\ Len(oz) = 1 + g /\ (\A i \in 1 .. 1 : oz[i] = one[i])
      /\ \A i \in 1 .. g : oz[1 + i] = z[i]
  <2>1. IsSeq(one) /\ IsSeq(z)
    BY <1>2, <1>3
  <2>2. /\ IsSeq(oz) /\ Len(oz) = Len(one) + Len(z)
        /\ \A i \in 1 .. Len(one) : oz[i] = one[i]
        /\ \A i \in 1 .. Len(z) : oz[Len(one) + i] = z[i]
    BY <2>1, ConcatFacts
  <2> HIDE DEF oz
  <2> QED
    BY <1>2, <1>3, <2>2
<1> HIDE DEF oz
<1>7. /\ IsSeq(t) /\ Len(t) = 1 + g + Trailer /\ (\A i \in 1 .. 1 + g : t[i] = oz[i])
      /\ \A i \in 1 .. Trailer : t[1 + g + i] = f[i]
  <2>1. IsSeq(oz) /\ IsSeq(f)
    BY <1>5, <1>6
  <2>2. /\ IsSeq(t) /\ Len(t) = Len(oz) + Len(f)
        /\ \A i \in 1 .. Len(oz) : t[i] = oz[i]
        /\ \A i \in 1 .. Len(f) : t[Len(oz) + i] = f[i]
    BY <2>1, ConcatFacts
  <2> HIDE DEF t
  <2> QED
    BY <1>5, <1>6, <2>2
<1> HIDE DEF t
<1>8. 1 \in 1 .. 1 /\ 1 \in 1 .. 1 + g /\ \A j \in 1 .. g : 1 + j \in 1 .. 1 + g
  BY <1>1
<1>9. t[1] = Number(128) /\ \A j \in 1 .. g : t[1 + j] = Zero
  BY <1>2, <1>3, <1>6, <1>7, <1>8
<1>10. \A j \in 1 .. Trailer : t[1 + g + j] = Number(LengthByte(n, Trailer - j))
  BY <1>4, <1>7
<1>11. t = Tail80(n)
  BY DEF t, oz, one, z, f, g, Tail80
<1> QED
  BY <1>7, <1>9, <1>10, <1>11 DEF g

LEMMA PaddedIs ==
    ASSUME NEW m, IsSeq(m)
    PROVE  Padded(m) = m \o Tail80(Len(m))
<1> DEFINE n == Len(m)
           Fits(j) == (n + 1 + j + Trailer) % Block = 0
           gap == CHOOSE j \in 0 .. Block - 1 : Fits(j)
           g == Gap(n)
           one == <<Number(128)>>
           f == LengthField(n)
<1>1. n \in Nat
  BY SeqFacts
<1>2. g \in 0 .. Block - 1 /\ Fits(g) /\ \A j \in 0 .. Block - 1 : Fits(j) => j = g
  <2> HIDE DEF n
  <2> QED
    BY <1>1, GapFacts
<1> HIDE DEF g
<1>3. gap = g
  <2> HIDE DEF Fits
  <2>1. gap \in 0 .. Block - 1 /\ Fits(gap)
    BY <1>2
  <2> QED
    BY <1>2, <2>1
<1>4. Padded(m) = m \o one \o Zeros(gap) \o f
  BY DEF Padded
<1> HIDE DEF gap, n
<1>5. Padded(m) = m \o one \o Zeros(g) \o f
  BY <1>3, <1>4
<1>6. g \in Nat /\ Trailer \in Nat
  BY <1>1, GapRange DEF g
<1> DEFINE z == Zeros(g)
<1>7. IsSeq(z) /\ IsSeq(one)
  BY <1>6, ZerosFacts, OneFacts
<1>8. IsSeq(f)
  <2>1. f = [i \in 1 .. Trailer |-> f[i]]
    BY DEF LengthField
  <2> HIDE DEF f
  <2> QED
    BY <1>6, <2>1, FunctionSeq
<1> HIDE DEF z, one, f
<1>9. m \o one \o z \o f = m \o (one \o z \o f)
  <2>1. (m \o one) \o z = m \o (one \o z)
    BY <1>7, Regroup
  <2>2. IsSeq(one \o z)
    BY <1>7, ConcatFacts
  <2> DEFINE b == one \o z
             x == m \o one \o z
  <2> HIDE DEF b, x
  <2>3. (m \o b) \o f = m \o (b \o f)
    BY <1>8, <2>2, Regroup DEF b
  <2>4. x = m \o b
    BY <2>1 DEF b, x
  <2>5. x \o f = m \o (b \o f)
    BY <2>3, <2>4
  <2> QED
    BY <2>5 DEF b, x
<1> QED
  BY <1>5, <1>9 DEF z, one, f, g, n, Tail80

LEMMA TrailerFacts ==
    ASSUME NEW block, IsSeq(block), Len(block) = Block, NEW used \in Nat, TrailerFits(used),
           NEW n \in Nat
    PROVE  LET w == WithTrailer(block, used, n)
           IN  /\ IsSeq(w) /\ Len(w) = Block
               /\ \A i \in 1 .. used : w[i] = block[i]
               /\ \A i \in used + 1 .. Block - Trailer : w[i] = Zero
               /\ \A j \in 1 .. Trailer : w[Block - Trailer + j] = Number(LengthByte(n, Trailer - j))
<1> DEFINE w == WithTrailer(block, used, n)
           high == n \div 32
           c == [i \in DOMAIN block |-> IF i > used THEN Zero ELSE block[i]]
           v0 == Number((n * 8) % 256)
           v1 == Number(high % 256)
           v2 == Number((high \div 2^8) % 256)
           v3 == Number((high \div 2^16) % 256)
           v4 == Number((high \div 2^24) % 256)
<1>1. /\ Block \in Nat /\ Block \in Nat \ {0} /\ Trailer \in Nat /\ 5 <= Trailer /\ Trailer < Block
  BY BlockHashAssumption
<1>2. used + Trailer <= Block
  BY DEF TrailerFits
<1>3. DOMAIN block = 1 .. Block
  BY SeqFacts
<1>4. c = [i \in 1 .. Block |-> c[i]] /\ \A i \in 1 .. Block : c[i] = IF i > used THEN Zero ELSE block[i]
  BY <1>3
<1>5. w = [c EXCEPT ![Block] = v0, ![Block - 1] = v1, ![Block - 2] = v2, ![Block - 3] = v3, ![Block - 4] = v4]
  BY DEF WithTrailer
<1>6. /\ v0 = Number(LengthByte(n, 0)) /\ v1 = Number(LengthByte(n, 1)) /\ v2 = Number(LengthByte(n, 2))
      /\ v3 = Number(LengthByte(n, 3)) /\ v4 = Number(LengthByte(n, 4))
  <2>0. 2^5 = 32 /\ 2^8 = 256 /\ 2^13 = 8192 /\ 2^16 = 65536 /\ 2^21 = 2097152 /\ 2^24 = 16777216 /\ 2^29 = 536870912
    OBVIOUS
  <2>1. /\ (n \div 32) \div 256 = n \div 8192 /\ (n \div 32) \div 65536 = n \div 2097152
        /\ (n \div 32) \div 16777216 = n \div 536870912
    OBVIOUS
  <2>2. /\ LengthByte(n, 0) = (n * 8) % 256 /\ LengthByte(n, 1) = (n \div 2^5) % 256
        /\ LengthByte(n, 2) = (n \div 2^13) % 256 /\ LengthByte(n, 3) = (n \div 2^21) % 256
        /\ LengthByte(n, 4) = (n \div 2^29) % 256
    BY DEF LengthByte
  <2>3. v1 = Number((n \div 32) % 256) /\ v2 = Number((n \div 8192) % 256)
    BY <2>0, <2>1
  <2>4. v3 = Number((n \div 2097152) % 256) /\ v4 = Number((n \div 536870912) % 256)
    BY <2>0, <2>1
  <2>5. /\ LengthByte(n, 1) = (n \div 32) % 256
        /\ LengthByte(n, 2) = (n \div 8192) % 256 /\ LengthByte(n, 3) = (n \div 2097152) % 256
        /\ LengthByte(n, 4) = (n \div 536870912) % 256
    BY <2>0, <2>2
  <2> HIDE DEF v1, v2, v3, v4
  <2> QED
    BY <2>2, <2>3, <2>4, <2>5
<1> HIDE DEF c, v0, v1, v2, v3, v4
<1>7. /\ w = [i \in 1 .. Block |-> w[i]]
      /\ w[Block] = v0 /\ w[Block - 1] = v1 /\ w[Block - 2] = v2 /\ w[Block - 3] = v3 /\ w[Block - 4] = v4
      /\ \A i \in 1 .. Block - 5 : w[i] = c[i]
  <2>1. /\ Block \in 1 .. Block /\ Block - 1 \in 1 .. Block /\ Block - 2 \in 1 .. Block
        /\ Block - 3 \in 1 .. Block /\ Block - 4 \in 1 .. Block
        /\ \A i \in 1 .. Block - 5 : i \in 1 .. Block
    BY <1>1
  <2> DEFINE c0 == [c EXCEPT ![Block] = v0]
             c1 == [c0 EXCEPT ![Block - 1] = v1]
             c2 == [c1 EXCEPT ![Block - 2] = v2]
             c3 == [c2 EXCEPT ![Block - 3] = v3]
             c4 == [c3 EXCEPT ![Block - 4] = v4]
  <2>2. w = c4
    BY <1>5, Zenon
  <2> HIDE DEF w
  <2>3. DOMAIN c = 1 .. Block
    BY <1>4
  <2>4. DOMAIN c0 = 1 .. Block /\ \A i \in 1 .. Block : c0[i] = IF i = Block THEN v0 ELSE c[i]
    BY <2>3
  <2> HIDE DEF c0
  <2>5. DOMAIN c1 = 1 .. Block /\ \A i \in 1 .. Block : c1[i] = IF i = Block - 1 THEN v1 ELSE c0[i]
    BY <2>4
  <2> HIDE DEF c1
  <2>6. DOMAIN c2 = 1 .. Block /\ \A i \in 1 .. Block : c2[i] = IF i = Block - 2 THEN v2 ELSE c1[i]
    BY <2>5
  <2> HIDE DEF c2
  <2>7. DOMAIN c3 = 1 .. Block /\ \A i \in 1 .. Block : c3[i] = IF i = Block - 3 THEN v3 ELSE c2[i]
    BY <2>6
  <2> HIDE DEF c3
  <2>8. /\ DOMAIN c4 = 1 .. Block /\ c4 = [i \in 1 .. Block |-> c4[i]]
        /\ \A i \in 1 .. Block : c4[i] = IF i = Block - 4 THEN v4 ELSE c3[i]
    BY <2>7
  <2> HIDE DEF c4
  <2>9. /\ w[Block] = v0 /\ w[Block - 1] = v1 /\ w[Block - 2] = v2 /\ w[Block - 3] = v3 /\ w[Block - 4] = v4
    BY <1>1, <2>1, <2>2, <2>4, <2>5, <2>6, <2>7, <2>8
  <2>10. \A i \in 1 .. Block - 5 : w[i] = c[i]
    <3> TAKE i \in 1 .. Block - 5
    <3>1. i \in 1 .. Block /\ i # Block /\ i # Block - 1 /\ i # Block - 2 /\ i # Block - 3 /\ i # Block - 4
      BY <1>1
    <3> QED
      BY <2>2, <2>4, <2>5, <2>6, <2>7, <2>8, <3>1
  <2> QED
    BY <2>2, <2>8, <2>9, <2>10
<1> HIDE DEF w
<1>8. IsSeq(w) /\ Len(w) = Block
  BY <1>1, <1>7, FunctionSeq
<1>9. \A i \in 1 .. used : w[i] = block[i]
  <2> TAKE i \in 1 .. used
  <2>1. i \in 1 .. Block - 5 /\ i \in 1 .. Block /\ ~(i > used)
    BY <1>1, <1>2
  <2> QED
    BY <1>4, <1>7, <2>1
<1>10. \A i \in used + 1 .. Block - Trailer : w[i] = Zero
  <2> TAKE i \in used + 1 .. Block - Trailer
  <2>1. i \in 1 .. Block - 5 /\ i \in 1 .. Block /\ i > used
    BY <1>1, <1>2
  <2> QED
    BY <1>4, <1>7, <2>1
<1>11. \A j \in 1 .. Trailer : w[Block - Trailer + j] = Number(LengthByte(n, Trailer - j))
  <2> TAKE j \in 1 .. Trailer
  <2> DEFINE p == Trailer - j
             i == Block - Trailer + j
  <2>1. p \in Nat /\ i = Block - p /\ i \in 1 .. Block
    BY <1>1
  <2> HIDE DEF p, i
  <2>2. CASE p \in 0 .. 4
    <3>1. p = 0 \/ p = 1 \/ p = 2 \/ p = 3 \/ p = 4
      BY <2>2
    <3>2. Block - 0 = Block
      BY <1>1
    <3> QED
      BY <1>6, <1>7, <2>1, <3>1, <3>2 DEF p, i
  <2>3. CASE p >= 5
    <3>1. i \in 1 .. Block - 5 /\ i > used
      BY <1>1, <1>2, <2>1, <2>3 DEF i
    <3>2. LengthByte(n, p) = 0
      BY <2>1, <2>3 DEF LengthByte
    <3>3. w[i] = Zero
      BY <1>1, <1>4, <1>7, <2>1, <3>1
    <3> QED
      BY <3>2, <3>3 DEF Number, p, i
  <2> QED
    BY <2>1, <2>2, <2>3
<1> QED
  BY <1>8, <1>9, <1>10, <1>11 DEF w

LEMMA ClearedFacts ==
    ASSUME NEW block, IsSeq(block), Len(block) = Block, NEW used \in Nat, ~TrailerFits(used),
           NEW n \in Nat
    PROVE  LET w == WithTrailer(block, used, n)
           IN  /\ IsSeq(w) /\ Len(w) = Block
               /\ \A i \in 1 .. Block : w[i] = IF i > used THEN Zero ELSE block[i]
<1> DEFINE w == WithTrailer(block, used, n)
<1>1. DOMAIN block = 1 .. Block /\ Block \in Nat
  BY SeqFacts, BlockHashAssumption
<1>2. w = [i \in DOMAIN block |-> IF i > used THEN Zero ELSE block[i]]
  BY DEF WithTrailer
<1> HIDE DEF w
<1>3. /\ w = [i \in 1 .. Block |-> w[i]]
      /\ \A i \in 1 .. Block : w[i] = IF i > used THEN Zero ELSE block[i]
  BY <1>1, <1>2
<1>4. IsSeq(w) /\ Len(w) = Block
  BY <1>1, <1>3, FunctionSeq
<1> QED
  BY <1>3, <1>4 DEF w

\* The multiples of a block, and the end of one.
LEMMA Multiple ==
    ASSUME NEW q \in Nat
    PROVE  /\ (q * Block) \div Block = q
           /\ (q + 1) * Block = q * Block + Block /\ (q + 2) * Block = q * Block + 2 * Block
           /\ q * Block \in Nat
<1>1. Block \in Nat /\ Block \in Nat \ {0}
  BY BlockHashAssumption
<1>2. q * Block \in Nat /\ (q + 1) * Block = q * Block + Block /\ (q + 2) * Block = q * Block + 2 * Block
  BY <1>1
<1> DEFINE x == q * Block
<1>3. x \in Nat /\ 0 \in Nat /\ 0 < Block /\ x = q * Block + 0
  BY <1>1, <1>2
<1> HIDE DEF x
<1>4. x \div Block = q
  BY <1>1, <1>3, DivModIs
<1> QED
  BY <1>2, <1>4 DEF x

\* The text a finished context has compressed.
LEMMA PaddedText ==
    ASSUME NEW m, IsSeq(m)
    PROVE  LET n == Len(m)
               P == m \o Tail80(n)
           IN  /\ IsSeq(P) /\ Len(P) = n + (1 + Gap(n) + Trailer)
               /\ P[n + 1] = Number(128)
               /\ \A j \in 1 .. Gap(n) : P[n + (1 + j)] = Zero
               /\ \A j \in 1 .. Trailer : P[n + (1 + Gap(n) + j)] = Number(LengthByte(n, Trailer - j))
<1> DEFINE n == Len(m)
           t == Tail80(n)
           g == Gap(n)
           P == m \o t
<1>0. n \in Nat
  BY SeqFacts
<1> HIDE DEF n
<1>1. g \in Nat /\ Trailer \in Nat
  BY <1>0, GapRange
<1>2. /\ IsSeq(t) /\ Len(t) = 1 + g + Trailer
      /\ t[1] = Number(128)
      /\ \A j \in 1 .. g : t[1 + j] = Zero
      /\ \A j \in 1 .. Trailer : t[1 + g + j] = Number(LengthByte(n, Trailer - j))
  BY <1>0, TailFacts
<1> HIDE DEF t, g
<1>3. /\ IsSeq(P) /\ Len(P) = Len(m) + Len(t)
      /\ \A i \in 1 .. Len(t) : P[Len(m) + i] = t[i]
  <2>1. IsSeq(t)
    BY <1>2
  <2> QED
    BY <2>1, ConcatFacts
<1> HIDE DEF P
<1>4. Len(P) = n + (1 + g + Trailer) /\ \A i \in 1 .. 1 + g + Trailer : P[n + i] = t[i]
  BY <1>2, <1>3 DEF n
<1>5. /\ 1 \in 1 .. 1 + g + Trailer
      /\ \A j \in 1 .. g : 1 + j \in 1 .. 1 + g + Trailer
      /\ \A j \in 1 .. Trailer : 1 + g + j \in 1 .. 1 + g + Trailer
  BY <1>1
<1>6. /\ P[n + 1] = Number(128)
      /\ \A j \in 1 .. g : P[n + (1 + j)] = Zero
      /\ \A j \in 1 .. Trailer : P[n + (1 + g + j)] = Number(LengthByte(n, Trailer - j))
  BY <1>2, <1>4, <1>5
<1> QED
  BY <1>3, <1>4, <1>6 DEF P, t, g, n

\* finish() of a context that has taken a message whole.
LEMMA FinishIs ==
    ASSUME NEW m, IsSeq(m), NEW h, Absorbed(h, m, Len(m))
    PROVE  Finish(h) = Sha(m)
<1> DEFINE n == Len(m)
           u == n % Block
           q == n \div Block
           x == q * Block
           g == Gap(n)
           P == m \o Tail80(n)
           used == u + 1
           ended == CopiedInto(h.block, used - 1, <<Number(128)>>)
           b1 == WithTrailer(ended, used, n)
           b2 == WithTrailer(b1, 0, n)
           s0 == BlocksOf(P, n)
           s1 == Append(s0, b1)
<1>b. /\ Block \in Nat /\ Block \in Nat \ {0} /\ Trailer \in Nat /\ 5 <= Trailer /\ Trailer < Block
  BY BlockHashAssumption
<1>1. n \in Nat
  BY SeqFacts
<1>2. /\ IsSeq(P) /\ Len(P) = n + (1 + g + Trailer)
      /\ P[n + 1] = Number(128)
      /\ \A j \in 1 .. g : P[n + (1 + j)] = Zero
      /\ \A j \in 1 .. Trailer : P[n + (1 + g + j)] = Number(LengthByte(n, Trailer - j))
  BY PaddedText
<1>3. Absorbed(h, P, n)
  <2>1. IsSeq(Tail80(n))
    BY <1>1, TailFacts
  <2> QED
    BY <2>1, Prefix
<1>4. Padded(m) = P
  BY PaddedIs
<1> HIDE DEF P
<1>5. /\ h = [block |-> h.block, state |-> s0, total |-> n]
      /\ IsSeq(h.block) /\ Len(h.block) = Block
      /\ \A i \in 1 .. u : h.block[i] = P[x + i]
  BY <1>3 DEF Absorbed
<1>6. u \in Nat /\ u < Block /\ q \in Nat /\ n = x + u /\ x \in Nat
  <2> HIDE DEF n
  <2>1. u \in Nat /\ u < Block /\ q \in Nat /\ n = x + u
    BY <1>1, <1>b, DivMod
  <2> HIDE DEF q
  <2> QED
    BY <2>1, <1>b, Multiple
<1>7. /\ g \in Nat
      /\ (TrailerFits(used) => n + 1 + g + Trailer = (q + 1) * Block)
      /\ (~TrailerFits(used) => n + 1 + g + Trailer = (q + 2) * Block)
  <2> HIDE DEF n
  <2> QED
    BY <1>1, GapFacts, GapRange
<1>8. (q + 1) * Block = x + Block /\ (q + 2) * Block = x + 2 * Block
  <2> HIDE DEF q
  <2> QED
    BY <1>6, Multiple
<1> HIDE DEF u, g, x
<1>9. used - 1 = u /\ used \in Nat
  BY <1>6
<1>10. /\ IsSeq(ended) /\ Len(ended) = Block
       /\ \A i \in 1 .. u : ended[i] = h.block[i]
       /\ ended[u + 1] = Number(128)
  <2> DEFINE old == h.block
             one == <<Number(128)>>
             r == CopiedInto(old, u, one)
  <2>1. IsSeq(one) /\ Len(one) = 1 /\ one[1] = Number(128)
    BY OneFacts
  <2> HIDE DEF one, old
  <2>2. u + Len(one) <= Len(old) /\ IsSeq(old)
    BY <1>5, <1>6, <1>b, <2>1 DEF old
  <2>3. /\ IsSeq(r) /\ Len(r) = Len(old)
        /\ \A i \in 1 .. u : r[i] = old[i]
        /\ \A i \in 1 .. Len(one) : r[u + i] = one[i]
    <3>1. u \in Nat /\ IsSeq(one) /\ IsSeq(old) /\ u + Len(one) <= Len(old)
      BY <1>6, <2>1, <2>2
    <3> QED
      BY <3>1, CopiedFacts
  <2>4. 1 \in 1 .. Len(one)
    BY <2>1
  <2> HIDE DEF r
  <2>5. r[u + 1] = Number(128)
    BY <2>1, <2>3, <2>4
  <2> HIDE DEF used
  <2>6. r = ended
    BY <1>9 DEF r, old, one
  <2> QED
    BY <1>5, <2>3, <2>5, <2>6 DEF old
<1> HIDE DEF ended
<1>11. \A i \in 1 .. u : ended[i] = P[x + i]
  BY <1>5, <1>10
<1>12. ended[u + 1] = P[x + (u + 1)]
  <2>1. x + (u + 1) = n + 1
    BY <1>6
  <2> QED
    BY <1>2, <1>10, <2>1
<1>13. \A i \in 1 .. used : ended[i] = P[x + i]
  <2> TAKE i \in 1 .. used
  <2>1. i \in 1 .. u \/ i = u + 1
    BY <1>6
  <2> QED
    BY <1>11, <1>12, <2>1
<1> DEFINE first == ProcessBlock([h EXCEPT !.block = WithTrailer(ended, used, h.total)])
           second == ProcessBlock([first EXCEPT !.block = WithTrailer(@, 0, h.total)])
<1>14. Finish(h) = DigestOf((IF TrailerFits(used) THEN first ELSE second).state)
  <2> DEFINE w == (h.total % Block) + 1
             e == CopiedInto(h.block, w - 1, <<Number(128)>>)
             f == ProcessBlock([h EXCEPT !.block = WithTrailer(e, w, h.total)])
  <2>1. Finish(h) = DigestOf((IF TrailerFits(w) THEN f ELSE ProcessBlock([f EXCEPT !.block = WithTrailer(@, 0, h.total)])).state)
    BY Zenon DEF Finish
  <2>2. h.total = n
    BY <1>5
  <2>3. w = used
    BY <2>2 DEF u
  <2> HIDE DEF w, used
  <2>4. e = ended
    BY <2>3 DEF ended
  <2> HIDE DEF e
  <2> QED
    BY <2>1, <2>3, <2>4
<1>15. first = [block |-> b1, state |-> s1, total |-> n] /\ second.state = Append(s1, b2)
  <2> DEFINE hb == h.block
             st == s0
  <2>1. h = [block |-> hb, state |-> st, total |-> n]
    BY <1>5
  <2>2. first = ProcessBlock([h EXCEPT !.block = b1])
    BY <1>5
  <2> HIDE DEF hb, st, b1, first, n
  <2>3. first = [block |-> b1, state |-> Append(st, b1), total |-> n]
    BY <2>1, <2>2 DEF ProcessBlock
  <2>4. h.total = n /\ first.block = b1
    BY <2>1, <2>3
  <2>5. second = ProcessBlock([first EXCEPT !.block = b2])
    <3>1. second = ProcessBlock([first EXCEPT !.block = WithTrailer(first.block, 0, h.total)])
      OBVIOUS
    <3> QED
      BY <2>4, <3>1
  <2> HIDE DEF second, b2
  <2>6. second.state = Append(Append(st, b1), b2)
    <3> DEFINE v == Append(st, b1)
    <3> HIDE DEF v
    <3>1. first = [block |-> b1, state |-> v, total |-> n]
      BY <2>3 DEF v
    <3>2. second.state = Append(v, b2)
      BY <2>5, <3>1 DEF ProcessBlock
    <3> QED
      BY <3>2 DEF v
  <2> QED
    BY <2>3, <2>6 DEF st
<1> HIDE DEF first, second
<1> DEFINE N == Len(P)
<1>16. CASE TrailerFits(used)
  <2>1. used + Trailer <= Block /\ N = (q + 1) * Block /\ n + (1 + g) = x + (Block - Trailer)
    <3>1. N = n + 1 + g + Trailer
      BY <1>1, <1>2, <1>7, <1>b
    <3>2. n + 1 + g + Trailer = x + Block
      BY <1>7, <1>8, <1>16
    <3> HIDE DEF N
    <3>3. n + (1 + g) = x + (Block - Trailer)
      BY <1>1, <1>6, <1>7, <1>b, <3>2
    <3> QED
      BY <1>7, <1>8, <1>16, <3>1, <3>3 DEF TrailerFits
  <2>2. /\ IsSeq(b1) /\ Len(b1) = Block
        /\ \A i \in 1 .. used : b1[i] = ended[i]
        /\ \A i \in used + 1 .. Block - Trailer : b1[i] = Zero
        /\ \A j \in 1 .. Trailer : b1[Block - Trailer + j] = Number(LengthByte(n, Trailer - j))
    <3> HIDE DEF n, used
    <3> QED
      BY ZenonT(60), <1>1, <1>9, <1>10, <1>16, TrailerFacts
  <2> HIDE DEF b1
  <2>3. ASSUME NEW i \in 1 .. Block PROVE b1[i] = P[x + i]
    <3>1. CASE i <= used
      BY <1>13, <2>2, <3>1
    <3>2. CASE i > used /\ i <= Block - Trailer
      <4> DEFINE j == i - used
      <4>1. j \in 1 .. g /\ n + (1 + j) = x + i /\ i \in used + 1 .. Block - Trailer
        BY <1>1, <1>6, <1>7, <1>b, <2>1, <3>2
      <4> HIDE DEF j
      <4> QED
        BY <1>2, <2>2, <4>1
    <3>3. CASE i > Block - Trailer
      <4> DEFINE j == i - (Block - Trailer)
      <4>1. j \in 1 .. Trailer /\ n + (1 + g + j) = x + i /\ Block - Trailer + j = i
        BY <1>1, <1>6, <1>7, <1>b, <2>1, <3>3
      <4> HIDE DEF j
      <4>2. P[n + (1 + g + j)] = b1[Block - Trailer + j]
        BY <1>2, <2>2, <4>1
      <4> QED
        BY <4>1, <4>2
    <3> QED
      BY <1>6, <1>b, <3>1, <3>2, <3>3
  <2>4. SubSeq(P, x + 1, x + Block) = b1
    <3>1. Block \in Nat /\ x \in Nat /\ IsSeq(b1) /\ Len(b1) = Block
      BY <1>b, <1>6, <2>2
    <3> QED
      BY <2>3, <3>1, LastBlock
  <2>5. Append(BlocksOf(P, n), SubSeq(P, x + 1, x + Block)) = BlocksOf(P, N)
    <3>1. n \div Block = q /\ N \div Block = q + 1
      <4>1. q + 1 \in Nat
        BY <1>6
      <4> HIDE DEF q
      <4> QED
        BY <2>1, <4>1, Multiple DEF q
    <3> HIDE DEF n, N, q
    <3> QED
      BY <1>b, <1>6, <3>1, BlocksAppended DEF x
  <2>6. BlocksOf(P, N) = Blocks(P)
    BY DEF BlocksOf, Blocks
  <2>7. Finish(h) = DigestOf(first.state) /\ first.state = s1
    BY <1>14, <1>15, <1>16
  <2>8. s1 = BlocksOf(P, N)
    BY <2>4, <2>5
  <2> QED
    BY <1>4, <2>6, <2>7, <2>8 DEF Sha
<1>17. CASE ~TrailerFits(used)
  <2>1. used + Trailer > Block /\ N = (q + 2) * Block /\ n + (1 + g) = x + (2 * Block - Trailer)
    <3>1. N = n + 1 + g + Trailer
      BY <1>1, <1>2, <1>7, <1>b
    <3>2. n + 1 + g + Trailer = x + 2 * Block
      BY <1>7, <1>8, <1>17
    <3> HIDE DEF N
    <3>3. n + (1 + g) = x + (2 * Block - Trailer)
      BY <1>1, <1>6, <1>7, <1>b, <3>2
    <3>4. used + Trailer > Block
      BY <1>6, <1>b, <1>17 DEF TrailerFits
    <3> QED
      BY <1>7, <1>8, <1>17, <3>1, <3>3, <3>4
  <2>2. /\ IsSeq(b1) /\ Len(b1) = Block
        /\ \A i \in 1 .. Block : b1[i] = IF i > used THEN Zero ELSE ended[i]
    <3> HIDE DEF n, used
    <3> QED
      BY <1>1, <1>9, <1>10, <1>17, ClearedFacts
  <2> HIDE DEF b1
  <2>3. ASSUME NEW i \in 1 .. Block PROVE b1[i] = P[x + i]
    <3>1. CASE i <= used
      <4>1. i \in 1 .. used /\ ~(i > used)
        BY <1>9, <3>1
      <4> QED
        BY <1>13, <2>2, <4>1
    <3>2. CASE i > used
      <4> DEFINE j == i - used
      <4>1. j \in 1 .. g /\ n + (1 + j) = x + i
        BY <1>1, <1>6, <1>7, <1>b, <2>1, <3>2
      <4> HIDE DEF j
      <4> QED
        BY <1>2, <2>2, <3>2, <4>1
    <3> QED
      BY <1>6, <1>b, <3>1, <3>2
  <2>4. SubSeq(P, x + 1, x + Block) = b1
    <3>1. Block \in Nat /\ x \in Nat /\ IsSeq(b1) /\ Len(b1) = Block
      BY <1>b, <1>6, <2>2
    <3> QED
      BY <2>3, <3>1, LastBlock
  <2> DEFINE l == (q + 1) * Block
  <2>5. Append(BlocksOf(P, n), SubSeq(P, x + 1, x + Block)) = BlocksOf(P, l)
    <3>1. n \div Block = q /\ l \div Block = q + 1
      <4>1. q + 1 \in Nat
        BY <1>6
      <4> HIDE DEF q
      <4> QED
        BY <4>1, Multiple DEF q
    <3> HIDE DEF n, l, q
    <3> QED
      BY <1>b, <1>6, <3>1, BlocksAppended DEF x
  <2>6. /\ IsSeq(b2) /\ Len(b2) = Block
        /\ \A i \in 1 .. Block - Trailer : b2[i] = Zero
        /\ \A j \in 1 .. Trailer : b2[Block - Trailer + j] = Number(LengthByte(n, Trailer - j))
    <3>1. TrailerFits(0) /\ 0 \in Nat /\ 0 + 1 = 1
      BY <1>b DEF TrailerFits
    <3> HIDE DEF n
    <3>2. /\ IsSeq(b2) /\ Len(b2) = Block
          /\ \A i \in 0 + 1 .. Block - Trailer : b2[i] = Zero
          /\ \A j \in 1 .. Trailer : b2[Block - Trailer + j] = Number(LengthByte(n, Trailer - j))
      BY <1>1, <2>2, <3>1, TrailerFacts
    <3> QED
      BY <3>1, <3>2
  <2> HIDE DEF b2
  <2> DEFINE y == x + Block
  <2>7. ASSUME NEW i \in 1 .. Block PROVE b2[i] = P[y + i]
    <3>1. CASE i <= Block - Trailer
      <4> DEFINE j == (Block - used) + i
      <4>1. j \in 1 .. g /\ n + (1 + j) = y + i /\ i \in 1 .. Block - Trailer
        BY <1>1, <1>6, <1>7, <1>b, <2>1, <3>1
      <4> HIDE DEF j
      <4> QED
        BY <1>2, <2>6, <4>1
    <3>2. CASE i > Block - Trailer
      <4> DEFINE j == i - (Block - Trailer)
      <4>1. j \in 1 .. Trailer /\ n + (1 + g + j) = y + i /\ Block - Trailer + j = i
        BY <1>1, <1>6, <1>7, <1>b, <2>1, <3>2
      <4> HIDE DEF j
      <4>2. P[n + (1 + g + j)] = b2[Block - Trailer + j]
        BY <1>2, <2>6, <4>1
      <4> QED
        BY <4>1, <4>2
    <3> QED
      BY <1>b, <3>1, <3>2
  <2>8. y \in Nat /\ l = y
    BY <1>b, <1>6, <1>8
  <2>9. SubSeq(P, y + 1, y + Block) = b2
    <3>1. Block \in Nat /\ y \in Nat /\ IsSeq(b2) /\ Len(b2) = Block
      BY <1>b, <2>6, <2>8
    <3> HIDE DEF y
    <3> QED
      BY <2>7, <3>1, LastBlock
  <2>10. Append(BlocksOf(P, l), SubSeq(P, y + 1, y + Block)) = BlocksOf(P, N)
    <3> DEFINE p == q + 1
    <3>1. p \in Nat /\ l \div Block = p /\ N \div Block = p + 1
      <4>1. q + 1 \in Nat /\ q + 2 \in Nat /\ (q + 1) + 1 = q + 2
        BY <1>6
      <4> HIDE DEF q
      <4> QED
        BY <2>1, <4>1, Multiple
    <3>2. p * Block = y
      BY <2>8
    <3> HIDE DEF p, l, N, y
    <3>3. Append(BlocksOf(P, l), SubSeq(P, p * Block + 1, p * Block + Block)) = BlocksOf(P, N)
      BY <1>b, <3>1, BlocksAppended
    <3> QED
      BY <3>2, <3>3
  <2>11. BlocksOf(P, N) = Blocks(P)
    BY DEF BlocksOf, Blocks
  <2>12. Finish(h) = DigestOf(Append(s1, b2))
    BY <1>14, <1>15, <1>17
  <2>13. s1 = BlocksOf(P, l)
    BY <2>4, <2>5
  <2>14. Append(s1, b2) = BlocksOf(P, N)
    BY <2>9, <2>10, <2>13
  <2> QED
    BY <1>4, <2>11, <2>12, <2>14 DEF Sha
<1> QED
  BY <1>16, <1>17

-----------------------------------------------------------------------------
(* The keyed hash.                                                        *)

LEMMA EmptyTaken == Absorbed(EmptyHash, <<>>, 0)
<1> DEFINE z == Zeros(Block)
           e == BlocksOf(<<>>, 0)
<1>1. Block \in Nat /\ Block \in Nat \ {0}
  BY BlockHashAssumption
<1>2. IsSeq(z) /\ Len(z) = Block
  BY <1>1, ZerosFacts
<1>3. 0 \div Block = 0 /\ 0 % Block = 0
  BY <1>1
<1>4. e = <<>>
  <2>1. e = [b \in 1 .. 0 |-> e[b]]
    BY <1>3 DEF BlocksOf
  <2> HIDE DEF e
  <2>2. IsSeq(e) /\ Len(e) = 0
    BY <2>1, FunctionSeq
  <2> QED
    BY <2>2, EmptyIsSeq, SameSeq
<1> HIDE DEF z, e
<1>5. EmptyHash = [block |-> z, state |-> e, total |-> 0]
  BY <1>4 DEF EmptyHash, z
<1>6. 1 .. 0 % Block = {}
  BY <1>3
<1> QED
  BY <1>2, <1>5, <1>6 DEF Absorbed, e

LEMMA EmptyBefore == ASSUME NEW m, IsSeq(m) PROVE <<>> \o m = m
BY ConcatEmptySeq DEF IsSeq

\* A text taken by a new context.
LEMMA FromEmpty ==
    ASSUME NEW m, IsSeq(m)
    PROVE  Absorbed(Update(EmptyHash, m), m, Len(m))
<1>1. Absorbed(EmptyHash, <<>>, Len(<<>>))
  BY EmptyTaken, EmptyIsSeq
<1>2. Absorbed(Update(EmptyHash, m), <<>> \o m, Len(<<>> \o m))
  BY <1>1, EmptyIsSeq, UpdateKeeps
<1> QED
  BY <1>2, EmptyBefore

LEMMA ShaFacts == ASSUME NEW m PROVE IsSeq(Sha(m)) /\ Len(Sha(m)) = Output
<1> DEFINE d == Sha(m)
<1>1. d = [i \in 1 .. Output |-> d[i]]
  BY DEF Sha, DigestOf
<1>2. Output \in Nat
  BY BlockHashAssumption
<1> HIDE DEF d
<1>3. IsSeq(d) /\ Len(d) = Output
  BY <1>1, <1>2, FunctionSeq
<1> QED
  BY <1>3 DEF d

\* The key as RFC 2104 extends it to a block.
ShortKey(keyText) == IF Len(keyText) > Block THEN Sha(keyText) ELSE keyText

WholeKey(keyText) == ShortKey(keyText) \o Zeros(Block - Len(ShortKey(keyText)))

LEMMA KeyBlockIs ==
    ASSUME NEW keyText, IsSeq(keyText)
    PROVE  KeyBlock(keyText) = WholeKey(keyText) /\ IsSeq(WholeKey(keyText)) /\ Len(WholeKey(keyText)) = Block
<1> DEFINE short == ShortKey(keyText)
           n == Len(short)
           z == Zeros(Block)
           a == CopiedInto(z, 0, short)
           rest == Zeros(Block - n)
           b == short \o rest
<1>1. Block \in Nat /\ Output \in Nat /\ Output <= Block /\ 0 \in Nat
  BY BlockHashAssumption
<1>2. Finish(Update(EmptyHash, keyText)) = Sha(keyText)
  BY FromEmpty, FinishIs
<1>3. KeyBlock(keyText) = a
  BY <1>2 DEF KeyBlock, ShortKey
<1>4. IsSeq(short) /\ n \in 0 .. Block
  <2>1. Len(keyText) \in Nat
    BY SeqFacts
  <2>2. CASE Len(keyText) > Block
    <3>1. short = Sha(keyText)
      BY <2>2 DEF ShortKey
    <3> HIDE DEF short
    <3> QED
      BY <1>1, <3>1, ShaFacts
  <2>3. CASE ~(Len(keyText) > Block)
    <3>1. short = keyText
      BY <2>3 DEF ShortKey
    <3> HIDE DEF short
    <3> QED
      BY <1>1, <2>1, <2>3, <3>1
  <2> QED
    BY <2>2, <2>3
<1>5. WholeKey(keyText) = b
  BY DEF WholeKey
<1> HIDE DEF short
<1>6. IsSeq(z) /\ Len(z) = Block /\ \A i \in 1 .. Block : z[i] = Zero
  BY <1>1, ZerosFacts
<1> HIDE DEF z
<1>7. Block - n \in Nat
  BY <1>1, <1>4
<1>8. IsSeq(rest) /\ Len(rest) = Block - n /\ \A i \in 1 .. Block - n : rest[i] = Zero
  <2> DEFINE q == Block - n
  <2>1. q \in Nat
    BY <1>7
  <2> HIDE DEF q
  <2>2. IsSeq(Zeros(q)) /\ Len(Zeros(q)) = q /\ \A i \in 1 .. q : Zeros(q)[i] = Zero
    BY <2>1, ZerosFacts
  <2> QED
    BY <2>2 DEF q
<1> HIDE DEF rest
<1>9. /\ IsSeq(a) /\ Len(a) = Len(z)
      /\ \A i \in 1 .. Len(short) : a[0 + i] = short[i]
      /\ \A i \in 0 + Len(short) + 1 .. Len(z) : a[i] = z[i]
  <2>1. 0 \in Nat /\ IsSeq(z) /\ IsSeq(short) /\ 0 + Len(short) <= Len(z)
    BY <1>1, <1>4, <1>6
  <2> QED
    BY <2>1, CopiedFacts
<1>10. /\ IsSeq(b) /\ Len(b) = n + Len(rest)
       /\ \A i \in 1 .. n : b[i] = short[i]
       /\ \A i \in 1 .. Len(rest) : b[n + i] = rest[i]
  <2>1. IsSeq(short) /\ IsSeq(rest)
    BY <1>4, <1>8
  <2> QED
    BY <2>1, ConcatFacts
<1> HIDE DEF a, b
<1>11. Len(a) = Block /\ Len(b) = Block
  BY <1>1, <1>4, <1>6, <1>8, <1>9, <1>10
<1>12. ASSUME NEW i \in 1 .. Block PROVE a[i] = b[i]
  <2>1. CASE i <= n
    <3>1. i \in 1 .. n /\ 0 + i = i
      BY <1>4, <2>1
    <3> QED
      BY <1>9, <1>10, <3>1
  <2>2. CASE i > n
    <3> DEFINE j == i - n
    <3>1. j \in 1 .. Block - n /\ n + j = i /\ i \in 0 + n + 1 .. Block
      BY <1>1, <1>4, <2>2
    <3> HIDE DEF j
    <3>2. a[i] = z[i] /\ z[i] = Zero
      BY <1>6, <1>9, <3>1
    <3>3. b[n + j] = rest[j] /\ rest[j] = Zero
      BY <1>8, <1>10, <3>1
    <3> QED
      BY <3>1, <3>2, <3>3
  <2> QED
    BY <1>4, <2>1, <2>2
<1>13. a = b
  BY <1>9, <1>10, <1>11, <1>12, SameSeq
<1> QED
  BY <1>3, <1>5, <1>10, <1>11, <1>13

LEMMA MaskFacts ==
    ASSUME NEW keyText, IsSeq(keyText), NEW pad
    PROVE  /\ IsSeq(MaskKey(keyText, pad)) /\ Len(MaskKey(keyText, pad)) = Len(keyText)
           /\ \A i \in 1 .. Len(keyText) : MaskKey(keyText, pad)[i] = Xor(keyText[i], pad)
<1> DEFINE r == MaskKey(keyText, pad)
<1>1. Len(keyText) \in Nat /\ DOMAIN keyText = 1 .. Len(keyText)
  BY SeqFacts
<1>2. r = [i \in 1 .. Len(keyText) |-> r[i]] /\ \A i \in 1 .. Len(keyText) : r[i] = Xor(keyText[i], pad)
  BY <1>1 DEF MaskKey
<1> HIDE DEF r
<1>3. IsSeq(r) /\ Len(r) = Len(keyText)
  BY <1>1, <1>2, FunctionSeq
<1> QED
  BY <1>2, <1>3 DEF r

\* The inner key turns into the outer one.
LEMMA OuterKeyIs ==
    ASSUME NEW keyText, IsSeq(keyText)
    PROVE  OuterKey(MaskKey(keyText, IPad)) = MaskKey(keyText, OPad)
<1> DEFINE inner == MaskKey(keyText, IPad)
           both == Xor(IPad, OPad)
           outer == MaskKey(inner, both)
           direct == MaskKey(keyText, OPad)
<1>1. IsSeq(inner) /\ Len(inner) = Len(keyText) /\ \A i \in 1 .. Len(keyText) : inner[i] = Xor(keyText[i], IPad)
  BY MaskFacts
<1>2. outer = OuterKey(inner)
  BY DEF OuterKey
<1> HIDE DEF inner, both
<1>3. IsSeq(outer) /\ Len(outer) = Len(inner) /\ \A i \in 1 .. Len(inner) : outer[i] = Xor(inner[i], both)
  BY <1>1, MaskFacts
<1>4. IsSeq(direct) /\ Len(direct) = Len(keyText) /\ \A i \in 1 .. Len(keyText) : direct[i] = Xor(keyText[i], OPad)
  BY MaskFacts
<1>5. ASSUME NEW x PROVE Xor(Xor(x, IPad), both) = Xor(x, OPad)
  BY DEF Xor, both
<1> HIDE DEF outer, direct
<1>6. \A i \in 1 .. Len(keyText) : outer[i] = direct[i]
  BY <1>1, <1>3, <1>4, <1>5
<1>7. outer = direct
  BY <1>1, <1>3, <1>4, <1>6, SameSeq
<1> QED
  BY <1>2, <1>7 DEF inner, direct

\* finish() of the inner hash and of the outer one.
LEMMA MacFinishIs ==
    ASSUME NEW keyText, IsSeq(keyText), NEW m, IsSeq(m), NEW h, NEW mask,
           mask = MaskKey(WholeKey(keyText), IPad), Absorbed(h, mask \o m, Len(mask \o m))
    PROVE  MacFinish(h, mask) = Hmac(keyText, m)
<1> DEFINE whole == WholeKey(keyText)
           outer == MaskKey(whole, OPad)
           inner == Sha(mask \o m)
<1>1. IsSeq(whole)
  BY KeyBlockIs
<1>2. Hmac(keyText, m) = Sha(outer \o Sha(MaskKey(whole, IPad) \o m))
  BY DEF Hmac, WholeKey, ShortKey
<1>3. OuterKey(mask) = outer
  <2> HIDE DEF whole
  <2>1. OuterKey(MaskKey(whole, IPad)) = outer
    BY <1>1, OuterKeyIs
  <2> QED
    BY <2>1 DEF whole
<1> HIDE DEF whole
<1>4. IsSeq(mask) /\ IsSeq(outer)
  BY <1>1, MaskFacts DEF whole
<1> HIDE DEF outer
<1>5. Finish(h) = inner
  <2>1. IsSeq(mask \o m)
    BY <1>4, ConcatFacts
  <2> QED
    BY <2>1, FinishIs
<1>6. Absorbed(Update(EmptyHash, outer), outer, Len(outer))
  BY <1>4, FromEmpty
<1>7. IsSeq(inner)
  BY ShaFacts
<1>8. Hmac(keyText, m) = Sha(outer \o inner)
  BY <1>2 DEF whole
<1> HIDE DEF inner
<1> DEFINE first == Update(EmptyHash, outer)
<1> HIDE DEF first
<1>9. Absorbed(Update(first, inner), outer \o inner, Len(outer \o inner))
  BY <1>4, <1>6, <1>7, UpdateKeeps DEF first
<1>10. IsSeq(outer \o inner)
  BY <1>4, <1>7, ConcatFacts
<1>11. Finish(Update(first, inner)) = Sha(outer \o inner)
  BY <1>9, <1>10, FinishIs
<1>12. MacFinish(h, mask) = Finish(Update(first, inner))
  BY <1>3, <1>5 DEF MacFinish, first
<1> QED
  BY <1>8, <1>11, <1>12

-----------------------------------------------------------------------------
(* The object.                                                            *)

\* The context has taken what was passed, after the inner key of a MAC.
HashInv ==
    /\ IsSeq(fed)
    /\ keyed = Plain => Absorbed(m_hash, fed, Len(fed))
    /\ keyed \notin {Plain, Unkeyed}
         => /\ IsSeq(keyed) /\ m_key = MaskKey(WholeKey(keyed), IPad)
            /\ Absorbed(m_hash, m_key \o fed, Len(m_key \o fed))
    /\ HashRight

LEMMA NoAnswer == ASSUME answer' = <<>> PROVE HashRight'
<1>1. ToSet(answer') = {}
  <2>1. ToSet(<<>>) = {}
    BY DEF ToSet
  <2> QED
    BY <2>1
<1> QED
  BY <1>1 DEF HashRight

LEMMA OneAnswer ==
    ASSUME NEW of, NEW keyText, NEW digest, answer' = <<[of |-> of, key |-> keyText, digest |-> digest]>>,
           digest = (IF keyText = Plain THEN Sha(of) ELSE Hmac(keyText, of))
    PROVE  HashRight'
<1> DEFINE a == [of |-> of, key |-> keyText, digest |-> digest]
<1>1. ToSet(<<a>>) = {a}
  <2> HIDE DEF a
  <2> QED
    BY DEF ToSet
<1>2. a.of = of /\ a.key = keyText /\ a.digest = digest
  OBVIOUS
<1> HIDE DEF a
<1>3. \A b \in ToSet(answer') : b = a
  BY <1>1 DEF a
<1>4. a.digest = (IF a.key = Plain THEN Sha(a.of) ELSE Hmac(a.key, a.of))
  BY <1>2
<1> QED
  BY <1>3, <1>4 DEF HashRight

LEMMA HashStarts == HashInit => HashInv
<1> SUFFICES ASSUME HashInit PROVE HashInv
  OBVIOUS
<1>1. HashRight
  <2>1. ToSet(<<>>) = {}
    BY DEF ToSet
  <2> QED
    BY <2>1 DEF HashInit, HashRight
<1>2. Absorbed(m_hash, fed, Len(fed)) /\ IsSeq(fed)
  BY EmptyTaken, EmptyIsSeq DEF HashInit
<1>3. keyed \in {Plain, Unkeyed}
  BY DEF HashInit
<1> QED
  BY <1>1, <1>2, <1>3 DEF HashInv

LEMMA HashStep == HashInv /\ [HashNext]_hashVars => HashInv'
<1> SUFFICES ASSUME HashInv, [HashNext]_hashVars PROVE HashInv'
  OBVIOUS
<1>j. Pieces \subseteq Nat /\ KeyLengths \subseteq Nat
  BY BlockHashAssumption
<1>1. ASSUME NEW n \in KeyLengths, HmacInit(n) PROVE HashInv'
  <2> DEFINE keyText == Supplied("key", 100 * uses, n)
  <2>1. IsSeq(keyText)
    BY <1>j, SuppliedFacts
  <2>2. m_key' = MaskKey(WholeKey(keyText), IPad) /\ IsSeq(m_key')
    <3> HIDE DEF keyText
    <3>1. KeyBlock(keyText) = WholeKey(keyText) /\ IsSeq(WholeKey(keyText))
      BY <2>1, KeyBlockIs
    <3>2. m_key' = MaskKey(WholeKey(keyText), IPad)
      BY <1>1, <3>1 DEF HmacInit, keyText
    <3> QED
      BY <3>1, <3>2, MaskFacts
  <2>3. keyText # Plain
    <3>1. Plain = <<{<<"hash", 0>>}>> /\ Len(Plain) = 1 /\ Plain[1] = {<<"hash", 0>>}
      BY DEF Plain
    <3>2. ASSUME keyText = Plain PROVE FALSE
      <4>1. Len(keyText) = n
        BY <1>j, SuppliedFacts
      <4>2. n = 1
        BY <3>1, <3>2, <4>1
      <4>3. keyText[1] = {<<"key", 100 * uses + 1>>}
        BY <4>2 DEF Supplied
      <4>4. {<<"key", 100 * uses + 1>>} = {<<"hash", 0>>}
        BY <3>1, <3>2, <4>3
      <4>5. <<"key", 100 * uses + 1>> = <<"hash", 0>>
        BY <4>4, Zenon
      <4>6. "key" = "hash"
        BY <4>5
      <4> QED
        BY <4>6
    <3> QED
      BY <3>2
  <2>4. /\ m_hash' = Update(EmptyHash, m_key') /\ keyed' = keyText /\ fed' = <<>> /\ answer' = <<>>
    BY <1>1 DEF HmacInit
  <2>5. Absorbed(m_hash', m_key' \o fed', Len(m_key' \o fed'))
    <3> DEFINE j == m_key'
    <3> HIDE DEF j
    <3>1. Absorbed(Update(EmptyHash, j), j, Len(j))
      BY <2>2, FromEmpty DEF j
    <3>2. j \o <<>> = j
      BY <2>2, ConcatEmptySeq DEF IsSeq, j
    <3> QED
      BY <2>4, <3>1, <3>2 DEF j
  <2>6. HashRight' /\ IsSeq(fed')
    BY <2>4, NoAnswer, EmptyIsSeq
  <2> HIDE DEF keyText
  <2> QED
    BY <2>1, <2>2, <2>3, <2>4, <2>5, <2>6 DEF HashInv, Plain, Unkeyed
<1>2. ASSUME NEW n \in Pieces, HashUpdate(n) PROVE HashInv'
  <2> DEFINE data == Supplied("message", 100 * uses + Len(fed), n)
  <2>1. IsSeq(data)
    BY <1>j, SuppliedFacts
  <2>2. /\ keyed # Unkeyed /\ m_hash' = Update(m_hash, data) /\ fed' = fed \o data /\ answer' = <<>>
        /\ m_key' = m_key /\ keyed' = keyed
    BY <1>2 DEF HashUpdate
  <2> HIDE DEF data
  <2>3. IsSeq(fed) /\ IsSeq(fed')
    BY <2>1, <2>2, ConcatFacts DEF HashInv
  <2>4. HashRight'
    BY <2>2, NoAnswer
  <2>5. ASSUME keyed = Plain PROVE Absorbed(m_hash', fed', Len(fed'))
    BY <2>1, <2>2, <2>3, <2>5, UpdateKeeps DEF HashInv
  <2>6. ASSUME keyed # Plain
        PROVE  /\ IsSeq(keyed) /\ m_key = MaskKey(WholeKey(keyed), IPad)
               /\ Absorbed(m_hash', m_key \o fed', Len(m_key \o fed'))
    <3>1. /\ IsSeq(keyed) /\ m_key = MaskKey(WholeKey(keyed), IPad)
          /\ Absorbed(m_hash, m_key \o fed, Len(m_key \o fed))
      BY <2>2, <2>6 DEF HashInv
    <3>2. IsSeq(m_key)
      BY <3>1, KeyBlockIs, MaskFacts
    <3>3. IsSeq(m_key \o fed)
      BY <2>3, <3>2, ConcatFacts
    <3> DEFINE t == m_key \o fed
    <3> HIDE DEF t
    <3>4. Absorbed(Update(m_hash, data), t \o data, Len(t \o data))
      BY <2>1, <3>1, <3>3, UpdateKeeps DEF t
    <3>5. t \o data = m_key \o (fed \o data)
      BY <2>1, <2>3, <3>2, Regroup DEF t
    <3> QED
      BY <2>2, <3>1, <3>4, <3>5
  <2> QED
    BY <2>2, <2>3, <2>4, <2>5, <2>6 DEF HashInv, Plain, Unkeyed
<1>3. ASSUME HashReset PROVE HashInv'
  <2>1. /\ m_hash' = EmptyHash /\ fed' = <<>> /\ answer' = <<>>
        /\ keyed' = Plain \/ keyed' = Unkeyed
    BY <1>3 DEF HashReset
  <2>2. HashRight' /\ IsSeq(fed') /\ Absorbed(m_hash', fed', Len(fed'))
    BY <2>1, NoAnswer, EmptyTaken, EmptyIsSeq
  <2> QED
    BY <2>1, <2>2 DEF HashInv, Plain, Unkeyed
<1>4. ASSUME HashFinish PROVE HashInv'
  <2>1. /\ keyed = Plain /\ keyed' = keyed /\ m_hash' = EmptyHash /\ fed' = <<>>
        /\ answer' = <<[of |-> fed, key |-> keyed, digest |-> Finish(m_hash)]>>
    BY <1>4 DEF HashFinish
  <2>2. Finish(m_hash) = Sha(fed)
    BY <2>1, FinishIs DEF HashInv
  <2>3. HashRight'
    <3> DEFINE d == Finish(m_hash)
    <3>1. d = (IF keyed = Plain THEN Sha(fed) ELSE Hmac(keyed, fed))
      BY <2>1, <2>2
    <3> HIDE DEF d
    <3> QED
      BY <2>1, <3>1, OneAnswer DEF d
  <2>4. IsSeq(fed') /\ Absorbed(m_hash', fed', Len(fed'))
    BY <2>1, EmptyTaken, EmptyIsSeq
  <2> QED
    BY <2>1, <2>3, <2>4 DEF HashInv, Plain, Unkeyed
<1>5. ASSUME HmacFinish PROVE HashInv'
  <2>1. /\ keyed \notin {Plain, Unkeyed} /\ keyed' = Unkeyed /\ fed' = <<>>
        /\ answer' = <<[of |-> fed, key |-> keyed, digest |-> MacFinish(m_hash, m_key)]>>
    BY <1>5 DEF HmacFinish
  <2>2. MacFinish(m_hash, m_key) = Hmac(keyed, fed)
    <3>1. /\ IsSeq(fed) /\ IsSeq(keyed) /\ m_key = MaskKey(WholeKey(keyed), IPad)
          /\ Absorbed(m_hash, m_key \o fed, Len(m_key \o fed))
      BY <2>1 DEF HashInv
    <3> QED
      BY <3>1, MacFinishIs
  <2>3. HashRight'
    <3> DEFINE d == MacFinish(m_hash, m_key)
    <3>1. d = (IF keyed = Plain THEN Sha(fed) ELSE Hmac(keyed, fed))
      BY <2>1, <2>2
    <3> HIDE DEF d
    <3> QED
      BY <2>1, <3>1, OneAnswer DEF d
  <2>4. Plain # Unkeyed
    <3>1. <<{<<"hash", 0>>}>>[1] = {<<"hash", 0>>} /\ <<{<<"mac", 0>>}>>[1] = {<<"mac", 0>>}
      OBVIOUS
    <3>2. ASSUME Plain = Unkeyed PROVE FALSE
      <4>1. {<<"hash", 0>>} = {<<"mac", 0>>}
        BY <3>1, <3>2 DEF Plain, Unkeyed
      <4>2. <<"hash", 0>> = <<"mac", 0>>
        BY <4>1, Zenon
      <4>3. "hash" = "mac"
        BY <4>2
      <4> QED
        BY <4>3
    <3> QED
      BY <3>2
  <2> QED
    BY <2>1, <2>3, <2>4, EmptyIsSeq DEF HashInv, Plain, Unkeyed
<1>6. ASSUME UNCHANGED hashVars PROVE HashInv'
  BY <1>6 DEF HashInv, hashVars, HashRight
<1> QED
  BY <1>1, <1>2, <1>3, <1>4, <1>5, <1>6 DEF HashNext

\* The context holds what was passed, of a hash and of a MAC: in every run.
THEOREM HashInvTheorem == HashSpec => []HashInv
BY HashStarts, HashStep, PTL DEF HashSpec

\* Every digest and every MAC returned is that of the message, for any sizes
\* of block, trailer and digest, any pieces, any keys and any number of uses.
THEOREM HashRightTheorem == HashSpec => []HashRight
<1>1. HashInv => HashRight
  BY DEF HashInv
<1> QED
  BY <1>1, HashInvTheorem, PTL

-----------------------------------------------------------------------------
(* Ciphers: pieces of any lengths give the text combined with one stream.  *)

-----------------------------------------------------------------------------
(* The counters.                                                          *)

\* The quotients of a number: the recursive function of Digits.
Overs(n, over) == over = [j \in 0 .. CipherBlock |-> IF j = 0 THEN n ELSE over[j - 1] \div Base]

LEMMA OversExist == ASSUME NEW n PROVE \E over : Overs(n, over)
<1> DEFINE Eq(f, j) == f = [i \in 0 .. j |-> IF i = 0 THEN n ELSE f[i - 1] \div Base]
           T == {j \in Nat : \E f : Eq(f, j)}
<1>1. 0 \in T
  <2> DEFINE f == [i \in 0 .. 0 |-> n]
  <2>1. Eq(f, 0)
    OBVIOUS
  <2> QED
    BY <2>1
<1>2. ASSUME NEW j \in Nat, j \in T PROVE j + 1 \in T
  <2>1. PICK f : Eq(f, j)
    BY <1>2
  <2> DEFINE g == [i \in 0 .. j + 1 |-> IF i = j + 1 THEN f[j] \div Base ELSE f[i]]
  <2>2. Eq(g, j + 1)
    BY <2>1
  <2> HIDE DEF g
  <2>3. j + 1 \in Nat /\ \E h : Eq(h, j + 1)
    BY <2>2
  <2> QED
    BY <2>3
<1> HIDE DEF T
<1>3. CipherBlock \in T
  BY <1>1, <1>2, Induction, CipherAssumption
<1> QED
  BY <1>3 DEF T, Overs

LEMMA DigitsValue ==
    ASSUME NEW n
    PROVE  \E over : Overs(n, over) /\ Digits(n) = [i \in 1 .. CipherBlock |-> over[CipherBlock - i] % Base]
<1> DEFINE over == CHOOSE f : Overs(n, f)
<1>1. Overs(n, over)
  BY OversExist
<1>2. Digits(n) = [i \in 1 .. CipherBlock |-> over[CipherBlock - i] % Base]
  BY DEF Digits, Overs
<1> HIDE DEF over
<1> QED
  BY <1>1, <1>2

LEMMA CipherNumbers ==
    /\ CipherBlock \in Nat /\ CipherBlock \in Nat \ {0} /\ Base \in Nat /\ Base \in Nat \ {0}
    /\ Words \in Nat /\ Words \in Nat \ {0} /\ CipherPieces \subseteq Nat
BY CipherAssumption

\* One step of the quotients.
LEMMA OversFacts ==
    ASSUME NEW n \in Nat, NEW over, Overs(n, over)
    PROVE  /\ over[0] = n
           /\ \A j \in 0 .. CipherBlock - 1 : over[j + 1] = over[j] \div Base
           /\ \A j \in 0 .. CipherBlock : over[j] \in Nat
<1>1. over[0] = n
  BY CipherNumbers DEF Overs
<1>2. \A j \in 0 .. CipherBlock - 1 : over[j + 1] = over[j] \div Base
  <2> TAKE j \in 0 .. CipherBlock - 1
  <2>1. j + 1 \in 0 .. CipherBlock /\ j + 1 # 0 /\ (j + 1) - 1 = j
    BY CipherNumbers
  <2>2. over[j + 1] = over[(j + 1) - 1] \div Base
    BY <2>1 DEF Overs
  <2> QED
    BY <2>1, <2>2
<1> DEFINE T == {j \in Nat : j <= CipherBlock => over[j] \in Nat}
<1>3. 0 \in T
  BY <1>1
<1>4. ASSUME NEW j \in Nat, j \in T PROVE j + 1 \in T
  <2>1. CASE j + 1 <= CipherBlock
    <3>1. j \in 0 .. CipherBlock - 1 /\ over[j] \in Nat
      BY <1>4, <2>1, CipherNumbers
    <3> QED
      BY <1>2, <3>1, CipherNumbers
  <2> QED
    BY <2>1
<1> HIDE DEF T
<1>5. \A j \in Nat : j \in T
  BY <1>3, <1>4, Induction
<1>6. \A j \in 0 .. CipherBlock : over[j] \in Nat
  BY <1>5, CipherNumbers DEF T
<1> QED
  BY <1>1, <1>2, <1>6

\* A quotient and its digit, one more.
LEMMA OneMore ==
    ASSUME NEW x \in Nat, NEW b \in Nat \ {0}
    PROVE  /\ (x % b) + 1 \in 1 .. b
           /\ (x % b) + 1 < b => ((x % b) + 1) % b = (x % b) + 1 /\ (x + 1) % b = (x % b) + 1 /\ (x + 1) \div b = x \div b
           /\ (x % b) + 1 = b => ((x % b) + 1) % b = 0 /\ (x + 1) % b = 0 /\ (x + 1) \div b = (x \div b) + 1
<1>1. x % b \in Nat /\ x % b < b
  BY DivMod
<1>2. (x % b) + 1 < b => (x + 1) % b = (x % b) + 1 /\ (x + 1) \div b = x \div b
  BY DivStep
<1>3. (x % b) + 1 = b => (x + 1) % b = 0 /\ (x + 1) \div b = (x \div b) + 1
  BY ZenonT(60), DivStep
<1> DEFINE r == x % b
<1> HIDE DEF r
<1>4. /\ r + 1 \in 1 .. b
      /\ r + 1 < b => (r + 1) % b = r + 1
      /\ r + 1 = b => (r + 1) % b = 0
  BY <1>1 DEF r
<1> QED
  BY <1>2, <1>3, <1>4 DEF r

\* The carry loop adds one.
LEMMA IncrementedIs ==
    ASSUME NEW n \in Nat
    PROVE  Incremented(Digits(n)) = Digits(n + 1)
<1>1. PICK p : Overs(n, p) /\ Digits(n) = [i \in 1 .. CipherBlock |-> p[CipherBlock - i] % Base]
  BY DigitsValue
<1>2. PICK q : Overs(n + 1, q) /\ Digits(n + 1) = [i \in 1 .. CipherBlock |-> q[CipherBlock - i] % Base]
  BY DigitsValue
<1>3. /\ p[0] = n /\ \A w \in 0 .. CipherBlock - 1 : p[w + 1] = p[w] \div Base
      /\ \A w \in 0 .. CipherBlock : p[w] \in Nat
  BY <1>1, OversFacts
<1>4. /\ q[0] = n + 1 /\ \A w \in 0 .. CipherBlock - 1 : q[w + 1] = q[w] \div Base
      /\ \A w \in 0 .. CipherBlock : q[w] \in Nat
  <2>1. n + 1 \in Nat
    OBVIOUS
  <2> QED
    BY <1>2, <2>1, OversFacts
<1> DEFINE Carry(w) == \A j \in 0 .. w - 1 : ((p[j] % Base) + 1) % Base = 0
           T == {w \in Nat : w <= CipherBlock => q[w] = p[w] + (IF Carry(w) THEN 1 ELSE 0)}
<1>5. 0 \in T
  <2>1. Carry(0)
    OBVIOUS
  <2> QED
    BY <1>3, <1>4, <2>1
<1>6. ASSUME NEW w \in Nat, w \in T PROVE w + 1 \in T
  <2>1. CASE w + 1 <= CipherBlock
    <3>1. w \in 0 .. CipherBlock - 1 /\ w \in 0 .. CipherBlock /\ w <= CipherBlock
      BY <2>1, CipherNumbers
    <3>2. /\ p[w] \in Nat /\ q[w] = p[w] + (IF Carry(w) THEN 1 ELSE 0)
          /\ p[w + 1] = p[w] \div Base /\ q[w + 1] = q[w] \div Base
      BY <1>3, <1>4, <1>6, <3>1
    <3> DEFINE x == p[w]
               d == x % Base
    <3>3. /\ d + 1 \in 1 .. Base
          /\ d + 1 < Base => (d + 1) % Base = d + 1 /\ (x + 1) \div Base = x \div Base
          /\ d + 1 = Base => (d + 1) % Base = 0 /\ (x + 1) \div Base = (x \div Base) + 1
      BY <3>2, CipherNumbers, OneMore
    <3>4. Carry(w + 1) <=> Carry(w) /\ (d + 1) % Base = 0
      <4>1. 0 .. (w + 1) - 1 = 0 .. w - 1 \cup {w}
        OBVIOUS
      <4> QED
        BY <4>1
    <3>5. x \div Base \in Nat /\ q[w] = x + (IF Carry(w) THEN 1 ELSE 0) /\ q[w + 1] = q[w] \div Base
      BY <3>2, CipherNumbers
    <3> HIDE DEF Carry, x, d
    <3>6. CASE ~Carry(w)
      <4>1. q[w] = x + 0 /\ ~Carry(w + 1)
        BY <3>4, <3>5, <3>6
      <4>2. q[w] = x
        BY <3>2, <4>1 DEF x
      <4>3. q[w + 1] = (x \div Base) + 0
        BY <3>5, <4>2
      <4> QED
        BY <3>2, <4>1, <4>3 DEF x
    <3>7. CASE Carry(w)
      <4>1. q[w] = x + 1
        BY <3>5, <3>7
      <4>2. CASE d + 1 < Base
        <5>1. ~Carry(w + 1)
          BY <3>3, <3>4, <4>2
        <5>2. q[w + 1] = (x \div Base) + 0
          BY <3>3, <3>5, <4>1, <4>2
        <5> QED
          BY <3>2, <5>1, <5>2 DEF x
      <4>3. CASE d + 1 = Base
        <5>1. Carry(w + 1)
          BY <3>3, <3>4, <3>7, <4>3
        <5>2. q[w + 1] = (x \div Base) + 1
          BY <3>3, <3>5, <4>1, <4>3
        <5> QED
          BY <3>2, <5>1, <5>2 DEF x
      <4> QED
        BY <3>3, <4>2, <4>3, CipherNumbers
    <3> QED
      BY <3>6, <3>7
  <2> QED
    BY <2>1
<1> HIDE DEF T
<1>7. \A w \in Nat : w \in T
  BY <1>5, <1>6, Induction
<1> DEFINE a == Incremented(Digits(n))
           b == Digits(n + 1)
           Reached(i) == \A j \in i + 1 .. CipherBlock : (Digits(n)[j] + 1) % Base = 0
<1>8. /\ a = [i \in 1 .. CipherBlock |-> IF Reached(i) THEN (Digits(n)[i] + 1) % Base ELSE Digits(n)[i]]
      /\ b = [i \in 1 .. CipherBlock |-> q[CipherBlock - i] % Base]
  <2>1. DOMAIN Digits(n) = 1 .. CipherBlock
    BY <1>1
  <2> QED
    BY <1>2, <2>1 DEF Incremented
<1>9. \A i \in 1 .. CipherBlock : Digits(n)[i] = p[CipherBlock - i] % Base
  BY <1>1
<1> HIDE DEF a, b
<1>10. ASSUME NEW i \in 1 .. CipherBlock PROVE a[i] = b[i]
  <2> DEFINE w == CipherBlock - i
             x == p[w]
             d == x % Base
  <2>1. w \in 0 .. CipherBlock - 1 /\ w \in Nat /\ w \in 0 .. CipherBlock /\ w <= CipherBlock
    BY CipherNumbers
  <2>2. Reached(i) <=> Carry(w)
    <3>1. ASSUME Carry(w), NEW j \in i + 1 .. CipherBlock PROVE (Digits(n)[j] + 1) % Base = 0
      <4>1. CipherBlock - j \in 0 .. w - 1 /\ j \in 1 .. CipherBlock
        BY CipherNumbers
      <4> QED
        BY <1>9, <3>1, <4>1
    <3>2. ASSUME Reached(i), NEW j \in 0 .. w - 1 PROVE ((p[j] % Base) + 1) % Base = 0
      <4> DEFINE l == CipherBlock - j
      <4>1. l \in i + 1 .. CipherBlock /\ l \in 1 .. CipherBlock /\ CipherBlock - l = j
        BY CipherNumbers
      <4> HIDE DEF l
      <4> QED
        BY <1>9, <3>2, <4>1
    <3> QED
      BY <3>1, <3>2
  <2>3. x \in Nat /\ q[w] = x + (IF Carry(w) THEN 1 ELSE 0)
    BY <1>3, <1>7, <2>1 DEF T
  <2>4. (d + 1) % Base = (x + 1) % Base
    <3>1. /\ d + 1 \in 1 .. Base
          /\ d + 1 < Base => (d + 1) % Base = d + 1 /\ (x + 1) % Base = d + 1
          /\ d + 1 = Base => (d + 1) % Base = 0 /\ (x + 1) % Base = 0
      <4>1. x \in Nat
        BY <2>3
      <4> HIDE DEF x
      <4> QED
        BY <4>1, CipherNumbers, OneMore
    <3> HIDE DEF d
    <3> QED
      BY <3>1, CipherNumbers
  <2>5. a[i] = IF Carry(w) THEN (d + 1) % Base ELSE d
    BY <1>8, <1>9, <2>2
  <2>6. b[i] = q[w] % Base
    BY <1>8
  <2> HIDE DEF Carry, w
  <2>7. CASE Carry(w)
    BY <2>3, <2>4, <2>5, <2>6, <2>7
  <2>8. CASE ~Carry(w)
    <3>1. q[w] = x
      <4>1. x \in Nat /\ q[w] = x + 0
        BY <2>3, <2>8
      <4> HIDE DEF x
      <4> QED
        BY <4>1
    <3> QED
      BY <2>5, <2>6, <2>8, <3>1
  <2> QED
    BY <2>7, <2>8
<1>11. a = b
  BY <1>8, <1>10
<1> QED
  BY <1>11 DEF a, b

\* The numbers of the leading digits: the recursive function of Value.
Uptos(d, upTo) == upTo = [i \in 0 .. CipherBlock |-> IF i = 0 THEN 0 ELSE upTo[i - 1] * Base + d[i]]

LEMMA UptosExist == ASSUME NEW d PROVE \E upTo : Uptos(d, upTo)
<1> DEFINE Eq(f, j) == f = [i \in 0 .. j |-> IF i = 0 THEN 0 ELSE f[i - 1] * Base + d[i]]
           T == {j \in Nat : \E f : Eq(f, j)}
<1>1. 0 \in T
  <2> DEFINE f == [i \in 0 .. 0 |-> 0]
  <2>1. Eq(f, 0)
    OBVIOUS
  <2> QED
    BY <2>1
<1>2. ASSUME NEW j \in Nat, j \in T PROVE j + 1 \in T
  <2>1. PICK f : Eq(f, j)
    BY <1>2
  <2> DEFINE g == [i \in 0 .. j + 1 |-> IF i = j + 1 THEN f[j] * Base + d[j + 1] ELSE f[i]]
  <2>2. Eq(g, j + 1)
    BY <2>1
  <2> HIDE DEF g
  <2>3. j + 1 \in Nat /\ \E h : Eq(h, j + 1)
    BY <2>2
  <2> QED
    BY <2>3
<1> HIDE DEF T
<1>3. CipherBlock \in T
  BY <1>1, <1>2, Induction, CipherAssumption
<1> QED
  BY <1>3 DEF T, Uptos

LEMMA ValueIs ==
    ASSUME NEW d
    PROVE  \E upTo : Uptos(d, upTo) /\ Value(d) = upTo[CipherBlock]
<1> DEFINE upTo == CHOOSE f : Uptos(d, f)
<1>1. Uptos(d, upTo)
  BY UptosExist
<1>2. Value(d) = upTo[CipherBlock]
  BY DEF Value, Uptos
<1> HIDE DEF upTo
<1> QED
  BY <1>1, <1>2

LEMMA HornerStep ==
    ASSUME NEW x \in Nat, NEW b \in Nat \ {0}, NEW y \in 0 .. b - 1
    PROVE  x * b + y \in Nat /\ (x * b + y) \div b = x /\ (x * b + y) % b = y
<1> DEFINE n == x * b + y
<1>1. n \in Nat /\ y \in Nat /\ y < b
  <2>1. x * b \in Nat
    OBVIOUS
  <2> QED
    BY <2>1
<1>2. n = x * b + y
  OBVIOUS
<1> HIDE DEF n
<1>3. n \div b = x /\ n % b = y
  BY <1>1, <1>2, DivModIs
<1> QED
  BY <1>1, <1>3 DEF n

\* The digits of the number of some digits are these.
LEMMA DigitsOfValue ==
    ASSUME NEW d \in [1 .. CipherBlock -> 0 .. Base - 1]
    PROVE  Value(d) \in Nat /\ Digits(Value(d)) = d
<1>1. PICK v : Uptos(d, v) /\ Value(d) = v[CipherBlock]
  BY ValueIs
<1>2. v[0] = 0 /\ \A i \in 1 .. CipherBlock : v[i] = v[i - 1] * Base + d[i]
  <2>1. 0 \in 0 .. CipherBlock /\ \A i \in 1 .. CipherBlock : i \in 0 .. CipherBlock /\ i # 0
    BY CipherNumbers
  <2> QED
    BY <1>1, <2>1 DEF Uptos
<1> DEFINE T == {i \in Nat : i <= CipherBlock => v[i] \in Nat}
<1>3. 0 \in T
  BY <1>2
<1>4. ASSUME NEW i \in Nat, i \in T PROVE i + 1 \in T
  <2>1. CASE i + 1 <= CipherBlock
    <3>1. i + 1 \in 1 .. CipherBlock /\ (i + 1) - 1 = i /\ v[i] \in Nat
      BY <1>4, <2>1, CipherNumbers
    <3>2. v[i + 1] = v[(i + 1) - 1] * Base + d[i + 1]
      BY <1>2, <3>1
    <3>3. v[i + 1] = v[i] * Base + d[i + 1] /\ d[i + 1] \in 0 .. Base - 1
      BY <3>1, <3>2
    <3>4. v[i + 1] \in Nat
      BY <3>1, <3>3, CipherNumbers, HornerStep
    <3> QED
      BY <3>4
  <2> QED
    BY <2>1
<1> HIDE DEF T
<1>5. \A i \in Nat : i \in T
  BY <1>3, <1>4, Induction
<1>6. \A i \in 0 .. CipherBlock : v[i] \in Nat
  BY <1>5, CipherNumbers DEF T
<1>7. ASSUME NEW i \in 1 .. CipherBlock PROVE v[i] \div Base = v[i - 1] /\ v[i] % Base = d[i]
  <2>1. v[i - 1] \in Nat /\ d[i] \in 0 .. Base - 1 /\ v[i] = v[i - 1] * Base + d[i]
    <3>1. i - 1 \in 0 .. CipherBlock
      BY CipherNumbers
    <3> QED
      BY <1>2, <1>6, <3>1
  <2> DEFINE x == v[i - 1]
             y == d[i]
  <2> HIDE DEF x, y
  <2>2. (x * Base + y) \div Base = x /\ (x * Base + y) % Base = y
    BY <2>1, CipherNumbers, HornerStep DEF x, y
  <2> QED
    BY <2>1, <2>2 DEF x, y
<1> DEFINE n == Value(d)
<1>8. n \in Nat
  BY <1>1, <1>6, CipherNumbers
<1>9. PICK p : Overs(n, p) /\ Digits(n) = [i \in 1 .. CipherBlock |-> p[CipherBlock - i] % Base]
  BY DigitsValue
<1>10. /\ p[0] = n /\ \A j \in 0 .. CipherBlock - 1 : p[j + 1] = p[j] \div Base
  BY <1>8, <1>9, OversFacts
<1> DEFINE U == {j \in Nat : j <= CipherBlock => p[j] = v[CipherBlock - j]}
<1>11. 0 \in U
  <2>1. CipherBlock - 0 = CipherBlock
    BY CipherNumbers
  <2> QED
    BY <1>1, <1>10, <2>1
<1>12. ASSUME NEW j \in Nat, j \in U PROVE j + 1 \in U
  <2>1. CASE j + 1 <= CipherBlock
    <3> DEFINE i == CipherBlock - j
    <3>1. i \in 1 .. CipherBlock /\ i - 1 = CipherBlock - (j + 1) /\ j \in 0 .. CipherBlock - 1 /\ j <= CipherBlock
      BY <2>1, CipherNumbers
    <3>2. p[j + 1] = p[j] \div Base /\ p[j] = v[i]
      BY <1>10, <1>12, <3>1
    <3> HIDE DEF i
    <3>3. p[j + 1] = v[i - 1]
      BY <1>7, <3>1, <3>2
    <3> QED
      BY <3>1, <3>3
  <2> QED
    BY <2>1
<1> HIDE DEF U
<1>13. \A j \in Nat : j \in U
  BY <1>11, <1>12, Induction
<1>14. ASSUME NEW i \in 1 .. CipherBlock PROVE Digits(n)[i] = d[i]
  <2> DEFINE j == CipherBlock - i
  <2>1. j \in Nat /\ j <= CipherBlock /\ CipherBlock - j = i
    BY CipherNumbers
  <2>2. Digits(n)[i] = p[j] % Base
    BY <1>9
  <2> HIDE DEF j
  <2>3. p[j] = v[i]
    BY <1>13, <2>1 DEF U
  <2> QED
    BY <1>7, <2>2, <2>3
<1> HIDE DEF n
<1>15. Digits(n) = [i \in 1 .. CipherBlock |-> Digits(n)[i]] /\ d = [i \in 1 .. CipherBlock |-> d[i]]
  BY <1>9
<1> QED
  BY <1>8, <1>14, <1>15 DEF n

-----------------------------------------------------------------------------
(* The rounds.                                                            *)

LEMMA ChaChaNext ==
    ASSUME cipher = "chacha20", NEW b \in Nat
    PROVE  ChaChaBlock(CounterBlock(b)) = [stream |-> KeyStream(CounterBlock(b)), counter |-> CounterBlock(b + 1)]
<1> DEFINE j == begun[1].key
           o == begun[1].nonce
           x == b % Words
           y == (b + 1) % Words
<1>1. CounterBlock(b) = [key |-> j, nonce |-> o, block |-> x] /\ CounterBlock(b + 1) = [key |-> j, nonce |-> o, block |-> y]
  BY DEF CounterBlock
<1>2. (x + 1) % Words = y
  <2>1. /\ x + 1 \in 1 .. Words
        /\ x + 1 < Words => (x + 1) % Words = x + 1 /\ (b + 1) % Words = x + 1
        /\ x + 1 = Words => (x + 1) % Words = 0 /\ (b + 1) % Words = 0
    BY CipherNumbers, OneMore
  <2> HIDE DEF x
  <2> QED
    BY <2>1, CipherNumbers
<1> HIDE DEF j, o, x, y
<1> DEFINE c == CounterBlock(b)
           e == CounterBlock(b + 1)
<1> HIDE DEF c, e
<1>3. c = [key |-> j, nonce |-> o, block |-> x] /\ e = [key |-> j, nonce |-> o, block |-> y]
  BY <1>1 DEF c, e
<1>4. [c EXCEPT !.block = (@ + 1) % Words] = e
  BY <1>2, <1>3
<1>5. ChaChaBlock(c) = [stream |-> KeyStream(c), counter |-> e]
  BY <1>4 DEF ChaChaBlock
<1> QED
  BY <1>5 DEF c, e

LEMMA AesNextIs ==
    ASSUME cipher # "chacha20", begun[1].nonce \in Nonces, NEW b \in Nat
    PROVE  AesNext(CounterBlock(b)) = CounterBlock(b + 1)
<1> DEFINE j == begun[1].key
           d == begun[1].nonce
           v == Value(d)
<1>1. v \in Nat
  <2>1. d \in [1 .. CipherBlock -> 0 .. Base - 1]
    BY CipherAssumption
  <2> HIDE DEF d
  <2> QED
    BY <2>1, DigitsOfValue
<1>2. CounterBlock(b) = [key |-> j, nonce |-> Digits(v + b)] /\ CounterBlock(b + 1) = [key |-> j, nonce |-> Digits(v + (b + 1))]
  BY DEF CounterBlock
<1> HIDE DEF j, v
<1>3. Incremented(Digits(v + b)) = Digits(v + (b + 1))
  <2>1. v + b \in Nat /\ (v + b) + 1 = v + (b + 1)
    BY <1>1
  <2>2. Incremented(Digits(v + b)) = Digits((v + b) + 1)
    BY <2>1, IncrementedIs
  <2> QED
    BY <2>1, <2>2
<1> DEFINE c == CounterBlock(b)
           e == CounterBlock(b + 1)
           x == Digits(v + b)
           y == Digits(v + (b + 1))
<1> HIDE DEF c, e, x, y
<1>4. c = [key |-> j, nonce |-> x] /\ e = [key |-> j, nonce |-> y] /\ Incremented(x) = y
  BY <1>2, <1>3 DEF c, e, x, y
<1>5. AesNext(c) = e
  BY <1>4 DEF AesNext
<1> QED
  BY <1>5 DEF c, e

\* A context that stands at a place of the text: chacha20 has made the block
\* it is in and counted on; aes_ctr has done so except at the start of a block.
Ready(ready, counter, pos, at) ==
    LET q == at \div CipherBlock
        u == at % CipherBlock
    IN /\ pos = u
       /\ cipher = "chacha20" \/ u # 0 => ready = KeyStream(CounterBlock(q))
       /\ counter = CounterBlock(IF cipher = "chacha20" \/ u # 0 THEN q + 1 ELSE q)

\* The text of a call of length l that began at from, n bytes of it done.
Text(c, from, n, l) ==
    /\ c = [stream |-> c.stream, counter |-> c.counter, pos |-> c.pos, dst |-> c.dst, rest |-> c.rest]
    /\ IsSeq(c.dst) /\ Len(c.dst) = n
    /\ \A i \in 1 .. n : c.dst[i] = Wanted(from + (i - 1))
    /\ IsSeq(c.rest) /\ Len(c.rest) = l - n
    /\ \A i \in 1 .. l - n : c.rest[i] = {<<"text", (from + n) + i>>}

\* A context with the block of key stream of a place of the text.
Inside(c, at) ==
    /\ c.pos = at % CipherBlock
    /\ c.stream = KeyStream(CounterBlock(at \div CipherBlock))

LEMMA CombinedFacts ==
    ASSUME NEW src, IsSeq(src), NEW gamma
    PROVE  /\ IsSeq(Combined(src, gamma)) /\ Len(Combined(src, gamma)) = Len(src)
           /\ \A i \in 1 .. Len(src) : Combined(src, gamma)[i] = Xor(src[i], gamma[i])
<1> DEFINE r == Combined(src, gamma)
<1>1. Len(src) \in Nat /\ DOMAIN src = 1 .. Len(src)
  BY SeqFacts
<1>2. r = [i \in 1 .. Len(src) |-> r[i]] /\ \A i \in 1 .. Len(src) : r[i] = Xor(src[i], gamma[i])
  BY <1>1 DEF Combined
<1> HIDE DEF r
<1>3. IsSeq(r) /\ Len(r) = Len(src)
  BY <1>1, <1>2, FunctionSeq
<1> QED
  BY <1>2, <1>3 DEF r

\* The bytes combined in one round.
LEMMA Place ==
    ASSUME NEW at \in Nat, NEW j \in Nat, (at % CipherBlock) + j < CipherBlock
    PROVE  (at + j) \div CipherBlock = at \div CipherBlock /\ (at + j) % CipherBlock = (at % CipherBlock) + j
BY CipherNumbers, DivStep

LEMMA CombineKeeps ==
    ASSUME NEW from \in Nat, NEW l \in Nat, NEW n \in Nat, NEW c, Text(c, from, n, l),
           Inside(c, from + n),
           NEW len \in Nat, c.pos + len <= CipherBlock, len <= l - n
    PROVE  \E dst, rest :
              /\ Combine(c, len) = [stream |-> c.stream, counter |-> c.counter, pos |-> c.pos,
                                    dst |-> dst, rest |-> rest]
              /\ IsSeq(dst) /\ Len(dst) = n + len
              /\ \A i \in 1 .. n + len : dst[i] = Wanted(from + (i - 1))
              /\ IsSeq(rest) /\ Len(rest) = l - (n + len)
              /\ \A i \in 1 .. l - (n + len) : rest[i] = {<<"text", (from + (n + len)) + i>>}
<1> DEFINE at == from + n
           q == at \div CipherBlock
           u == c.pos
           ready == c.stream
           gamma == SubSeq(ready, u + 1, u + len)
           piece == SubSeq(c.rest, 1, len)
           more == Combined(piece, gamma)
           dst == c.dst \o more
           rest == SubSeq(c.rest, len + 1, Len(c.rest))
<1>0. u = at % CipherBlock /\ ready = KeyStream(CounterBlock(q))
  BY DEF Inside
<1>1. /\ c = [stream |-> c.stream, counter |-> c.counter, pos |-> c.pos, dst |-> c.dst, rest |-> c.rest]
      /\ IsSeq(c.dst) /\ Len(c.dst) = n
      /\ \A i \in 1 .. n : c.dst[i] = Wanted(from + (i - 1))
      /\ IsSeq(c.rest) /\ Len(c.rest) = l - n
      /\ \A i \in 1 .. l - n : c.rest[i] = {<<"text", at + i>>}
  BY DEF Text
<1>2. at \in Nat /\ u \in Nat /\ u < CipherBlock /\ q \in Nat
  <2>1. at \in Nat
    OBVIOUS
  <2> HIDE DEF at, u
  <2> QED
    BY <1>0, <2>1, CipherNumbers, DivMod
<1>3. Combine(c, len) = [stream |-> c.stream, counter |-> c.counter, pos |-> c.pos, dst |-> dst, rest |-> rest]
  <2> DEFINE s == c.stream
             w == c.counter
             p == c.pos
             d == c.dst
             r == c.rest
  <2>1. Combine(c, len) = [c EXCEPT !.dst = dst, !.rest = rest]
    BY DEF Combine
  <2>2. c = [stream |-> s, counter |-> w, pos |-> p, dst |-> d, rest |-> r]
    BY <1>1
  <2> HIDE DEF s, w, p, d, r, dst, rest
  <2>3. Combine(c, len) = [stream |-> s, counter |-> w, pos |-> p, dst |-> dst, rest |-> rest]
    BY <2>1, <2>2
  <2> QED
    BY <2>3 DEF s, w, p
<1>4. IsSeq(gamma) /\ Len(gamma) = len /\ \A i \in 1 .. len : gamma[i] = ready[u + i]
  <2> HIDE DEF ready
  <2> QED
    BY ZenonT(60), <1>2, SliceFacts
<1>5. IsSeq(piece) /\ Len(piece) = len /\ \A i \in 1 .. len : piece[i] = c.rest[i]
  <2> DEFINE r == c.rest
  <2> HIDE DEF r
  <2>1. IsSeq(SubSeq(r, 1, len)) /\ Len(SubSeq(r, 1, len)) = len /\ \A i \in 1 .. len : SubSeq(r, 1, len)[i] = r[i]
    BY FrontFacts
  <2> QED
    BY <2>1 DEF r
<1>6. IsSeq(rest) /\ Len(rest) = (l - n) - len /\ \A i \in 1 .. (l - n) - len : rest[i] = c.rest[len + i]
  <2> DEFINE r == c.rest
             b == Len(r)
  <2>1. b = l - n /\ b \in Nat /\ len <= b
    BY <1>1
  <2> HIDE DEF r, b
  <2>2. /\ IsSeq(SubSeq(r, len + 1, b)) /\ Len(SubSeq(r, len + 1, b)) = b - len
        /\ \A i \in 1 .. b - len : SubSeq(r, len + 1, b)[i] = r[len + i]
    BY ZenonT(60), <2>1, PieceFacts
  <2> QED
    BY <2>1, <2>2 DEF r, b
<1> HIDE DEF gamma, piece, rest
<1>7. IsSeq(more) /\ Len(more) = len /\ \A i \in 1 .. len : more[i] = Xor(piece[i], gamma[i])
  BY <1>5, CombinedFacts
<1> HIDE DEF more
<1>8. /\ IsSeq(dst) /\ Len(dst) = n + len
      /\ \A i \in 1 .. n : dst[i] = c.dst[i]
      /\ \A i \in 1 .. len : dst[n + i] = more[i]
  <2> DEFINE d == c.dst
  <2>1. IsSeq(d) /\ IsSeq(more)
    BY <1>1, <1>7
  <2> HIDE DEF d
  <2>2. /\ IsSeq(d \o more) /\ Len(d \o more) = Len(d) + Len(more)
        /\ \A i \in 1 .. Len(d) : (d \o more)[i] = d[i]
        /\ \A i \in 1 .. Len(more) : (d \o more)[Len(d) + i] = more[i]
    BY <2>1, ConcatFacts
  <2> QED
    BY <1>1, <1>7, <2>2 DEF d
<1> HIDE DEF dst
<1>9. ASSUME NEW i \in 1 .. len PROVE more[i] = Wanted(from + ((n + i) - 1))
  <2> DEFINE w == i - 1
             p == at + w
  <2>1. w \in Nat /\ u + w < CipherBlock /\ p = from + ((n + i) - 1) /\ u + i \in 1 .. CipherBlock
        /\ (u + w) + 1 = u + i /\ p + 1 = at + i
    BY <1>2, CipherNumbers
  <2>2. p \div CipherBlock = q /\ p % CipherBlock = u + w
    <3>1. at % CipherBlock = u
      BY <1>0
    <3>2. at \in Nat /\ w \in Nat /\ (at % CipherBlock) + w < CipherBlock
      BY <1>2, <2>1, <3>1
    <3> HIDE DEF w, at
    <3>3. (at + w) \div CipherBlock = at \div CipherBlock /\ (at + w) % CipherBlock = (at % CipherBlock) + w
      BY <3>2, Place
    <3> QED
      BY <3>1, <3>3
  <2>3. StreamAt(p) = ready[u + i]
    <3>1. StreamAt(p) = KeyStream(CounterBlock(q))[(u + w) + 1]
      BY <2>2 DEF StreamAt
    <3> QED
      BY <1>0, <2>1, <3>1
  <2>4. gamma[i] = ready[u + i]
    BY <1>4
  <2>5. piece[i] = {<<"text", at + i>>}
    <3>1. i \in 1 .. l - n
      OBVIOUS
    <3> QED
      BY <1>1, <1>5, <3>1
  <2>6. Wanted(p) = Xor({<<"text", p + 1>>}, StreamAt(p))
    BY DEF Wanted
  <2> HIDE DEF p, w, at, ready
  <2>7. more[i] = Wanted(p)
    BY <1>7, <2>1, <2>3, <2>4, <2>5, <2>6
  <2> QED
    BY <2>1, <2>7
<1>10. ASSUME NEW i \in 1 .. n + len PROVE dst[i] = Wanted(from + (i - 1))
  <2>1. CASE i <= n
    <3>1. i \in 1 .. n
      BY <2>1
    <3> QED
      BY <1>1, <1>8, <3>1
  <2>2. CASE i > n
    <3> DEFINE j == i - n
    <3>1. j \in 1 .. len /\ n + j = i
      BY <2>2
    <3> HIDE DEF j
    <3>2. dst[n + j] = Wanted(from + ((n + j) - 1))
      BY <1>8, <1>9, <3>1
    <3> QED
      BY <3>1, <3>2
  <2> QED
    BY <2>1, <2>2
<1>11. (l - n) - len = l - (n + len)
  OBVIOUS
<1>12. ASSUME NEW i \in 1 .. l - (n + len) PROVE rest[i] = {<<"text", (from + (n + len)) + i>>}
  <2>1. i \in 1 .. (l - n) - len /\ len + i \in 1 .. l - n /\ at + (len + i) = (from + (n + len)) + i
    BY <1>11
  <2>2. rest[i] = c.rest[len + i] /\ c.rest[len + i] = {<<"text", at + (len + i)>>}
    BY <1>1, <1>6, <2>1
  <2> QED
    BY <2>1, <2>2
<1>13. IsSeq(rest) /\ Len(rest) = l - (n + len)
  BY <1>6, <1>11
<1> QED
  BY <1>3, <1>8, <1>10, <1>12, <1>13

\* A place of the text, len bytes further.
LEMMA Further ==
    ASSUME NEW at \in Nat, NEW len \in Nat, len > 0, (at % CipherBlock) + len <= CipherBlock
    PROVE  /\ at % CipherBlock \in Nat /\ at % CipherBlock < CipherBlock /\ at \div CipherBlock \in Nat
           /\ ((at % CipherBlock) + len < CipherBlock
                 => /\ (at + len) \div CipherBlock = at \div CipherBlock
                    /\ (at + len) % CipherBlock = (at % CipherBlock) + len
                    /\ (at % CipherBlock) + len # 0
                    /\ ((at % CipherBlock) + len) % CipherBlock = (at % CipherBlock) + len)
           /\ ((at % CipherBlock) + len = CipherBlock
                 => /\ (at + len) \div CipherBlock = (at \div CipherBlock) + 1
                    /\ (at + len) % CipherBlock = 0
                    /\ ((at % CipherBlock) + len) % CipherBlock = 0)
<1> DEFINE r == at % CipherBlock
<1>1. r \in Nat /\ r < CipherBlock /\ at \div CipherBlock \in Nat
  BY CipherNumbers, DivMod
<1>2. /\ r + len < CipherBlock => (at + len) \div CipherBlock = at \div CipherBlock /\ (at + len) % CipherBlock = r + len
      /\ r + len = CipherBlock => (at + len) \div CipherBlock = (at \div CipherBlock) + 1 /\ (at + len) % CipherBlock = 0
  BY CipherNumbers, DivStep
<1> HIDE DEF r
<1>3. /\ r + len < CipherBlock => (r + len) % CipherBlock = r + len /\ r + len # 0
      /\ r + len = CipherBlock => (r + len) % CipherBlock = 0
  BY <1>1, CipherNumbers
<1> QED
  BY <1>1, <1>2, <1>3 DEF r

LEMMA CipherRoundKeeps ==
    ASSUME cipher # "chacha20" => begun[1].nonce \in Nonces,
           NEW from \in Nat, NEW l \in Nat, NEW n \in Nat, n <= l, NEW c,
           Text(c, from, n, l), Ready(c.stream, c.counter, c.pos, from + n)
    PROVE  \E m \in n .. l :
              /\ Text(CipherRound(c), from, m, l)
              /\ Ready(CipherRound(c).stream, CipherRound(c).counter, CipherRound(c).pos, from + m)
              /\ n < l => n < m
<1> DEFINE at == from + n
           q == at \div CipherBlock
           u == at % CipherBlock
           len == Share(c)
           m == n + len
<1>1. /\ c = [stream |-> c.stream, counter |-> c.counter, pos |-> c.pos, dst |-> c.dst, rest |-> c.rest]
      /\ IsSeq(c.dst) /\ Len(c.dst) = n
      /\ \A i \in 1 .. n : c.dst[i] = Wanted(from + (i - 1))
      /\ IsSeq(c.rest) /\ Len(c.rest) = l - n
      /\ \A i \in 1 .. l - n : c.rest[i] = {<<"text", at + i>>}
  BY DEF Text
<1>2. /\ c.pos = u
      /\ cipher = "chacha20" \/ u # 0 => c.stream = KeyStream(CounterBlock(q))
      /\ c.counter = CounterBlock(IF cipher = "chacha20" \/ u # 0 THEN q + 1 ELSE q)
  BY DEF Ready
<1>3. at \in Nat /\ u \in Nat /\ u < CipherBlock /\ q \in Nat
  <2>1. at \in Nat
    OBVIOUS
  <2> HIDE DEF at
  <2> QED
    BY <2>1, CipherNumbers, DivMod
<1>4. CASE c.rest = <<>>
  <2>1. n = l /\ n \in n .. l
    <3>1. l - n = 0
      BY <1>1, <1>4, EmptyIsSeq
    <3> QED
      BY <3>1
  <2>2. CipherRound(c) = c
    BY <1>4 DEF CipherRound
  <2> QED
    BY <2>1, <2>2
<1>5. CASE c.rest # <<>>
  <2>1. len \in Nat /\ len > 0 /\ len <= l - n /\ u + len <= CipherBlock
    <3>1. Len(c.rest) > 0
      <4>1. Len(c.rest) \in Nat
        BY <1>1
      <4>2. Len(c.rest) = 0 => c.rest = <<>>
        BY <1>1, EmptyIsSeq, SameSeq
      <4> QED
        BY <1>5, <4>1, <4>2
    <3> DEFINE j == Len(c.rest)
    <3>2. len = IF j < CipherBlock - u THEN j ELSE CipherBlock - u
      BY <1>2 DEF Share
    <3>3. j = l - n /\ j > 0 /\ j \in Nat
      BY <1>1, <3>1
    <3> HIDE DEF len, u, j
    <3> QED
      BY <1>3, <3>2, <3>3, CipherNumbers
  <2> HIDE DEF len
  <2>2. m \in n .. l /\ n < m /\ from + m = at + len /\ from + m \in Nat
    BY <2>1
  <2>3. /\ (u + len < CipherBlock
              => /\ (from + m) \div CipherBlock = q /\ (from + m) % CipherBlock = u + len
                 /\ u + len # 0 /\ (u + len) % CipherBlock = u + len)
        /\ (u + len = CipherBlock
              => /\ (from + m) \div CipherBlock = q + 1 /\ (from + m) % CipherBlock = 0
                 /\ (u + len) % CipherBlock = 0)
    <3> HIDE DEF at
    <3>1. /\ (u + len < CipherBlock
                => /\ (at + len) \div CipherBlock = q /\ (at + len) % CipherBlock = u + len
                   /\ u + len # 0 /\ (u + len) % CipherBlock = u + len)
          /\ (u + len = CipherBlock
                => /\ (at + len) \div CipherBlock = q + 1 /\ (at + len) % CipherBlock = 0
                   /\ (u + len) % CipherBlock = 0)
      BY <1>3, <2>1, Further
    <3> DEFINE x == from + m
    <3>2. x = at + len
      BY <2>2
    <3> HIDE DEF x
    <3>3. /\ (u + len < CipherBlock
                => /\ x \div CipherBlock = q /\ x % CipherBlock = u + len
                   /\ u + len # 0 /\ (u + len) % CipherBlock = u + len)
          /\ (u + len = CipherBlock
                => /\ x \div CipherBlock = q + 1 /\ x % CipherBlock = 0
                   /\ (u + len) % CipherBlock = 0)
      BY <3>1, <3>2
    <3> QED
      BY <3>3 DEF x
  <2>4. u + len < CipherBlock \/ u + len = CipherBlock
    <3> HIDE DEF u
    <3> QED
      BY <1>3, <2>1, CipherNumbers
  <2>5. CASE cipher = "chacha20"
    <3>1. PICK dst, rest :
              /\ Combine(c, len) = [stream |-> c.stream, counter |-> c.counter, pos |-> c.pos,
                                    dst |-> dst, rest |-> rest]
              /\ IsSeq(dst) /\ Len(dst) = m
              /\ \A i \in 1 .. m : dst[i] = Wanted(from + (i - 1))
              /\ IsSeq(rest) /\ Len(rest) = l - m
              /\ \A i \in 1 .. l - m : rest[i] = {<<"text", (from + m) + i>>}
      <4>1. Inside(c, at) /\ c.pos + len <= CipherBlock
        BY <1>2, <2>1, <2>5 DEF Inside
      <4>2. len \in Nat /\ len <= l - n
        BY <2>1
      <4> QED
        BY <4>1, <4>2, CombineKeeps
    <3> DEFINE d == CipherRound(c)
               next == ChaChaBlock(c.counter)
    <3>2. d = IF u + len < CipherBlock THEN [Combine(c, len) EXCEPT !.pos = u + len]
              ELSE [Combine(c, len) EXCEPT !.pos = 0, !.stream = next.stream, !.counter = next.counter]
      BY <1>2, <1>5, <2>5 DEF CipherRound, ChaChaRound, len
    <3> HIDE DEF d, m, at, next
    <3>3. CASE u + len < CipherBlock
      <4> DEFINE s == c.stream
                 j == c.counter
                 p == c.pos
      <4>1. Combine(c, len) = [stream |-> s, counter |-> j, pos |-> p, dst |-> dst, rest |-> rest]
        BY <3>1
      <4>2. d = [Combine(c, len) EXCEPT !.pos = u + len]
        BY <3>2, <3>3
      <4> HIDE DEF s, j, p, u
      <4>3. d = [stream |-> s, counter |-> j, pos |-> u + len, dst |-> dst, rest |-> rest]
        BY <4>1, <4>2
      <4>4. Text(d, from, m, l)
        BY <3>1, <4>3 DEF Text
      <4>5. s = KeyStream(CounterBlock(q)) /\ j = CounterBlock(q + 1)
        BY <1>2, <2>5 DEF s, j
      <4> HIDE DEF q
      <4>6. Ready(d.stream, d.counter, d.pos, from + m)
        <5>1. d.stream = s /\ d.counter = j /\ d.pos = u + len
          BY <4>3
        <5>2. (from + m) \div CipherBlock = q /\ (from + m) % CipherBlock = u + len
          BY <2>3, <3>3
        <5> QED
          BY <2>5, <4>5, <5>1, <5>2 DEF Ready
      <4> QED
        BY <2>2, <4>4, <4>6 DEF d
    <3>4. CASE u + len = CipherBlock
      <4> DEFINE s == c.stream
                 j == c.counter
                 p == c.pos
                 ns == KeyStream(CounterBlock(q + 1))
                 nk == CounterBlock((q + 1) + 1)
      <4>1. Combine(c, len) = [stream |-> s, counter |-> j, pos |-> p, dst |-> dst, rest |-> rest]
        BY <3>1
      <4>2. next.stream = ns /\ next.counter = nk
        <5>1. q + 1 \in Nat
          BY <1>3
        <5>2. c.counter = CounterBlock(q + 1)
          BY <1>2, <2>5
        <5> HIDE DEF q
        <5>3. ChaChaBlock(CounterBlock(q + 1)) = [stream |-> ns, counter |-> nk]
          BY <2>5, <5>1, ChaChaNext
        <5> QED
          BY <5>2, <5>3 DEF next
      <4>3. d = [Combine(c, len) EXCEPT !.pos = 0, !.stream = ns, !.counter = nk]
        <5>1. ~(u + len < CipherBlock)
          BY <3>4, CipherNumbers
        <5> HIDE DEF ns, nk
        <5> QED
          BY <3>2, <4>2, <5>1
      <4> HIDE DEF s, j, p, ns, nk, u
      <4>4. d = [stream |-> ns, counter |-> nk, pos |-> 0, dst |-> dst, rest |-> rest]
        <5> DEFINE y == Combine(c, len)
        <5> HIDE DEF y
        <5>1. y = [stream |-> s, counter |-> j, pos |-> p, dst |-> dst, rest |-> rest]
          BY <4>1 DEF y
        <5>2. d = [y EXCEPT !.pos = 0, !.stream = ns, !.counter = nk]
          BY <4>3 DEF y
        <5> QED
          BY <5>1, <5>2
      <4>5. Text(d, from, m, l)
        BY <3>1, <4>4 DEF Text
      <4>6. Ready(d.stream, d.counter, d.pos, from + m)
        <5>1. d.stream = ns /\ d.counter = nk /\ d.pos = 0
          BY <4>4
        <5>2. (from + m) \div CipherBlock = q + 1 /\ (from + m) % CipherBlock = 0
          BY <2>3, <3>4
        <5> QED
          BY <2>5, <5>1, <5>2 DEF Ready, ns, nk
      <4> QED
        BY <2>2, <4>5, <4>6 DEF d
    <3> QED
      BY <2>4, <3>3, <3>4
  <2>6. CASE cipher # "chacha20"
    <3> DEFINE e == IF c.pos = 0 THEN [c EXCEPT !.stream = KeyStream(c.counter), !.counter = AesNext(@)] ELSE c
               s == KeyStream(CounterBlock(q))
               j == CounterBlock(q + 1)
    <3>1. e = [stream |-> s, counter |-> j, pos |-> u, dst |-> c.dst, rest |-> c.rest]
      <4> DEFINE cs == c.stream
                 ck == c.counter
                 cp == c.pos
                 cd == c.dst
                 cr == c.rest
      <4>1. c = [stream |-> cs, counter |-> ck, pos |-> cp, dst |-> cd, rest |-> cr] /\ cp = u
        BY <1>1, <1>2
      <4>2. CASE u = 0
        <5>1. ck = CounterBlock(q)
          BY <1>2, <2>6, <4>2
        <5>2. AesNext(ck) = j
          <6> HIDE DEF q
          <6>1. AesNext(CounterBlock(q)) = CounterBlock(q + 1)
            BY <1>3, <2>6, AesNextIs
          <6> HIDE DEF ck
          <6> QED
            BY <5>1, <6>1
        <5>3. KeyStream(ck) = s
          BY <5>1
        <5>4. e = [c EXCEPT !.stream = KeyStream(ck), !.counter = AesNext(ck)]
          BY <4>1, <4>2
        <5> HIDE DEF cs, ck, cp, cd, cr, s, j, u, e
        <5>5. e = [c EXCEPT !.stream = s, !.counter = j]
          BY <5>2, <5>3, <5>4
        <5>6. e = [stream |-> s, counter |-> j, pos |-> cp, dst |-> cd, rest |-> cr]
          BY <4>1, <5>5
        <5> QED
          BY <4>1, <5>6 DEF cd, cr
      <4>3. CASE u # 0
        <5>1. cs = s /\ ck = j
          BY <1>2, <4>3
        <5>2. e = c
          BY <4>1, <4>3
        <5> HIDE DEF cs, ck, cp, cd, cr, s, j, u, e
        <5> QED
          BY <4>1, <5>1, <5>2 DEF cd, cr
      <4> QED
        BY <4>2, <4>3
    <3>2. CipherRound(c) = [Combine(e, len) EXCEPT !.pos = (u + len) % CipherBlock]
      BY <1>2, <1>5, <2>6 DEF CipherRound, AesRound, len
    <3> HIDE DEF e, s, j
    <3>3. e.stream = s /\ e.counter = j /\ e.pos = u /\ e.dst = c.dst /\ e.rest = c.rest
      BY <3>1
    <3>4. Text(e, from, n, l)
      <4>1. e = [stream |-> e.stream, counter |-> e.counter, pos |-> e.pos, dst |-> e.dst, rest |-> e.rest]
        BY <3>1, <3>3
      <4> QED
        BY <1>1, <3>3, <4>1 DEF Text
    <3>5. PICK dst, rest :
              /\ Combine(e, len) = [stream |-> e.stream, counter |-> e.counter, pos |-> e.pos,
                                    dst |-> dst, rest |-> rest]
              /\ IsSeq(dst) /\ Len(dst) = m
              /\ \A i \in 1 .. m : dst[i] = Wanted(from + (i - 1))
              /\ IsSeq(rest) /\ Len(rest) = l - m
              /\ \A i \in 1 .. l - m : rest[i] = {<<"text", (from + m) + i>>}
      <4>1. Inside(e, at) /\ e.pos + len <= CipherBlock
        BY <2>1, <3>3 DEF Inside, s
      <4>2. len \in Nat /\ len <= l - n
        BY <2>1
      <4> QED
        BY <3>4, <4>1, <4>2, CombineKeeps
    <3> DEFINE d == CipherRound(c)
               v == (u + len) % CipherBlock
    <3> HIDE DEF d, m, at
    <3>6. d = [stream |-> s, counter |-> j, pos |-> v, dst |-> dst, rest |-> rest]
      <4>1. d = [Combine(e, len) EXCEPT !.pos = v]
        BY <3>2 DEF d
      <4> HIDE DEF v, u
      <4>2. Combine(e, len) = [stream |-> s, counter |-> j, pos |-> u, dst |-> dst, rest |-> rest]
        BY <3>3, <3>5
      <4> QED
        BY <4>1, <4>2
    <3> HIDE DEF v
    <3>7. Text(d, from, m, l)
      BY <3>5, <3>6 DEF Text
    <3>8. d.stream = s /\ d.counter = j /\ d.pos = v
      BY <3>6
    <3>9. Ready(d.stream, d.counter, d.pos, from + m)
      <4>1. CASE u + len < CipherBlock
        <5>1. (from + m) \div CipherBlock = q /\ (from + m) % CipherBlock = v /\ v # 0
          BY <2>3, <4>1 DEF v
        <5> HIDE DEF q, u
        <5> QED
          BY <2>6, <3>8, <5>1 DEF Ready, s, j
      <4>2. CASE u + len = CipherBlock
        <5>1. (from + m) \div CipherBlock = q + 1 /\ (from + m) % CipherBlock = v /\ v = 0
          BY <2>3, <4>2 DEF v
        <5> HIDE DEF q, u
        <5> QED
          BY <2>6, <3>8, <5>1 DEF Ready, j
      <4> QED
        BY <2>4, <4>1, <4>2
    <3> QED
      BY <2>2, <3>7, <3>9 DEF d
  <2> QED
    BY <2>5, <2>6
<1> QED
  BY <1>4, <1>5

-----------------------------------------------------------------------------
(* The object.                                                            *)

LEMMA CipherLoop ==
    ASSUME NEW c, NEW n \in Nat
    PROVE  \E after : after = [i \in 0 .. n |-> IF i = 0 THEN c ELSE CipherRound(after[i - 1])]
<1> DEFINE Eq(f, j) == f = [i \in 0 .. j |-> IF i = 0 THEN c ELSE CipherRound(f[i - 1])]
           T == {j \in Nat : \E f : Eq(f, j)}
<1>1. 0 \in T
  <2> DEFINE f == [i \in 0 .. 0 |-> c]
  <2>1. Eq(f, 0)
    OBVIOUS
  <2> QED
    BY <2>1
<1>2. ASSUME NEW j \in Nat, j \in T PROVE j + 1 \in T
  <2>1. PICK f : Eq(f, j)
    BY <1>2
  <2> DEFINE g == [i \in 0 .. j + 1 |-> IF i = j + 1 THEN CipherRound(f[j]) ELSE f[i]]
  <2>2. Eq(g, j + 1)
    BY <2>1
  <2> HIDE DEF g
  <2>3. j + 1 \in Nat /\ \E h : Eq(h, j + 1)
    BY <2>2
  <2> QED
    BY <2>3
<1> HIDE DEF T
<1>3. n \in T
  BY <1>1, <1>2, Induction
<1> QED
  BY <1>3 DEF T

LEMMA ProcessedValue ==
    ASSUME NEW c, Len(c.rest) \in Nat
    PROVE  \E after :
              /\ after = [n \in 0 .. Len(c.rest) |-> IF n = 0 THEN c ELSE CipherRound(after[n - 1])]
              /\ Processed(c) = after[Len(c.rest)]
<1> DEFINE Eq(f) == f = [n \in 0 .. Len(c.rest) |-> IF n = 0 THEN c ELSE CipherRound(f[n - 1])]
           after == CHOOSE f : Eq(f)
<1>1. \E f : Eq(f)
  BY CipherLoop
<1>2. Eq(after)
  BY <1>1
<1>3. Processed(c) = after[Len(c.rest)]
  BY DEF Processed
<1> HIDE DEF after
<1> QED
  BY <1>2, <1>3

\* A call takes its text whole.
LEMMA ProcessedIs ==
    ASSUME cipher # "chacha20" => begun[1].nonce \in Nonces,
           NEW from \in Nat, NEW l \in Nat, NEW c,
           Text(c, from, 0, l), Ready(c.stream, c.counter, c.pos, from), l = Len(c.rest)
    PROVE  /\ Text(Processed(c), from, l, l)
           /\ Ready(Processed(c).stream, Processed(c).counter, Processed(c).pos, from + l)
<1> DEFINE Good(d, m) == Text(d, from, m, l) /\ Ready(d.stream, d.counter, d.pos, from + m)
<1>1. PICK after : /\ after = [n \in 0 .. l |-> IF n = 0 THEN c ELSE CipherRound(after[n - 1])]
                   /\ Processed(c) = after[l]
  BY ProcessedValue
<1> DEFINE T == {i \in Nat : i <= l => \E m \in i .. l : Good(after[i], m)}
<1>2. 0 \in T
  <2>1. after[0] = c
    BY <1>1
  <2>2. 0 \in 0 .. l /\ from + 0 = from
    OBVIOUS
  <2>3. Good(c, 0)
    BY <2>2
  <2> HIDE DEF Good
  <2> QED
    BY <2>1, <2>2, <2>3
<1>3. ASSUME NEW i \in Nat, i \in T PROVE i + 1 \in T
  <2>1. CASE i + 1 <= l
    <3>1. i + 1 \in 0 .. l /\ i + 1 # 0 /\ (i + 1) - 1 = i /\ i <= l
      BY <2>1
    <3>2. PICK m \in i .. l : Good(after[i], m)
      BY <1>3, <3>1
    <3>3. after[i + 1] = CipherRound(after[(i + 1) - 1])
      BY <1>1, <3>1
    <3>4. after[i + 1] = CipherRound(after[i])
      BY <3>1, <3>3
    <3>5. m \in Nat /\ m <= l
      BY <3>2
    <3>6. PICK p \in m .. l : Good(CipherRound(after[i]), p) /\ (m < l => m < p)
      BY <3>2, <3>5, CipherRoundKeeps
    <3>7. p \in i + 1 .. l
      BY <2>1, <3>2, <3>6
    <3> HIDE DEF Good
    <3> QED
      BY <3>4, <3>6, <3>7
  <2> QED
    BY <2>1
<1> HIDE DEF T
<1>4. l \in T
  BY <1>2, <1>3, Induction
<1>5. PICK m \in l .. l : Good(after[l], m)
  BY <1>4 DEF T
<1>6. m = l
  BY <1>5
<1> QED
  BY <1>1, <1>5, <1>6

\* Between calls the object stands where the text does.
CipherInv ==
    /\ done \in Nat
    /\ begun # <<>> => /\ cipher # "chacha20" => begun[1].nonce \in Nonces
                       /\ Ready(m_stream, m_counter, m_streamPos, done)
    /\ CipherRight

LEMMA NoCall == ASSUME last' = <<>> PROVE CipherRight'
<1>1. ToSet(last') = {}
  <2>1. ToSet(<<>>) = {}
    BY DEF ToSet
  <2> QED
    BY <2>1
<1> QED
  BY <1>1 DEF CipherRight

LEMMA WantedKept ==
    ASSUME cipher' = cipher, begun' = begun
    PROVE  \A at : Wanted(at)' = Wanted(at)
<1>1. \A b : CounterBlock(b)' = CounterBlock(b)
  BY DEF CounterBlock
<1>2. \A at : StreamAt(at)' = StreamAt(at)
  BY <1>1 DEF StreamAt, KeyStream
<1> QED
  BY <1>2 DEF Wanted, Xor

LEMMA OneCall ==
    ASSUME NEW from \in Nat, NEW dst, last' = <<[from |-> from, dst |-> dst]>>, IsSeq(dst),
           cipher' = cipher, begun' = begun,
           \A i \in 1 .. Len(dst) : dst[i] = Wanted(from + (i - 1))
    PROVE  CipherRight'
<1> DEFINE a == [from |-> from, dst |-> dst]
<1>1. ToSet(<<a>>) = {a}
  <2> HIDE DEF a
  <2> QED
    BY DEF ToSet
<1>2. a.from = from /\ a.dst = dst
  OBVIOUS
<1> HIDE DEF a
<1>3. \A b \in ToSet(last') : b = a
  BY <1>1 DEF a
<1>4. \A at : Wanted(at)' = Wanted(at)
  BY WantedKept
<1>5. DOMAIN dst = 1 .. Len(dst)
  BY SeqFacts
<1>6. \A i \in DOMAIN dst : dst[i] = Wanted(from + (i - 1))'
  BY <1>4, <1>5
<1> QED
  BY <1>2, <1>3, <1>6 DEF CipherRight

LEMMA CipherStarts == CipherInit => CipherInv
<1> SUFFICES ASSUME CipherInit PROVE CipherInv
  OBVIOUS
<1>1. CipherRight
  <2>1. ToSet(<<>>) = {}
    BY DEF ToSet
  <2> QED
    BY <2>1 DEF CipherInit, CipherRight
<1> QED
  BY <1>1 DEF CipherInit, CipherInv

LEMMA AtStart == 0 \div CipherBlock = 0 /\ 0 % CipherBlock = 0
BY CipherNumbers

LEMMA CipherStep == CipherInv /\ [CipherNext]_cipherVars => CipherInv'
<1> SUFFICES ASSUME CipherInv, [CipherNext]_cipherVars PROVE CipherInv'
  OBVIOUS
<1>1. ASSUME NEW id, ChaChaInit(id) PROVE CipherInv'
  <2> DEFINE first == ChaChaBlock([key |-> id, nonce |-> id, block |-> 0])
  <2>1. /\ cipher' = "chacha20" /\ m_counter' = first.counter /\ m_stream' = first.stream /\ m_streamPos' = 0
        /\ begun' = <<[key |-> id, nonce |-> id]>> /\ done' = 0 /\ last' = <<>>
    BY <1>1 DEF ChaChaInit
  <2>2. begun'[1].key = id /\ begun'[1].nonce = id
    BY <2>1
  <2>3. CounterBlock(0)' = [key |-> id, nonce |-> id, block |-> 0]
    <3>1. 0 % Words = 0
      BY CipherNumbers
    <3> QED
      BY <2>1, <2>2, <3>1 DEF CounterBlock
  <2>4. first.stream = KeyStream(CounterBlock(0)') /\ first.counter = CounterBlock(1)'
    <3>1. first.counter = [key |-> id, nonce |-> id, block |-> (0 + 1) % Words]
      BY DEF ChaChaBlock
    <3>2. CounterBlock(1)' = [key |-> id, nonce |-> id, block |-> 1 % Words]
      BY <2>1, <2>2 DEF CounterBlock
    <3>3. first.stream = KeyStream([key |-> id, nonce |-> id, block |-> 0])
      BY DEF ChaChaBlock
    <3>4. (0 + 1) % Words = 1 % Words
      OBVIOUS
    <3> HIDE DEF first
    <3> QED
      BY <2>3, <3>1, <3>2, <3>3, <3>4
  <2> HIDE DEF first
  <2>5. Ready(m_stream, m_counter, m_streamPos, done)'
    BY <2>1, <2>4, AtStart DEF Ready, KeyStream
  <2>6. CipherRight'
    BY <2>1, NoCall
  <2> QED
    BY <2>1, <2>5, <2>6 DEF CipherInv
<1>2. ASSUME NEW id, NEW nonce \in Nonces, AesInit(id, nonce) PROVE CipherInv'
  <2>1. /\ cipher' = "aes_ctr" /\ m_counter' = [key |-> id, nonce |-> nonce] /\ m_streamPos' = 0
        /\ begun' = <<[key |-> id, nonce |-> nonce]>> /\ done' = 0 /\ last' = <<>>
    BY <1>2 DEF AesInit
  <2>2. begun'[1].key = id /\ begun'[1].nonce = nonce
    BY <2>1
  <2>3. CounterBlock(0)' = [key |-> id, nonce |-> nonce]
    <3>1. nonce \in [1 .. CipherBlock -> 0 .. Base - 1]
      BY CipherAssumption
    <3>2. Value(nonce) \in Nat /\ Digits(Value(nonce)) = nonce
      BY <3>1, DigitsOfValue
    <3>3. Value(nonce) + 0 = Value(nonce)
      BY <3>2
    <3>4. Digits(Value(nonce) + 0) = nonce
      BY <3>2, <3>3
    <3>5. cipher' # "chacha20"
      BY <2>1
    <3>6. CounterBlock(0)' = [key |-> begun'[1].key, nonce |-> Digits(Value(begun'[1].nonce) + 0)]
      BY <3>5 DEF CounterBlock, Digits, Value
    <3> QED
      BY <2>2, <3>4, <3>6
  <2>4. Ready(m_stream, m_counter, m_streamPos, done)'
    BY <2>1, <2>3, AtStart DEF Ready
  <2>5. CipherRight'
    BY <2>1, NoCall
  <2> QED
    BY <2>1, <2>2, <2>4, <2>5 DEF CipherInv
<1>3. ASSUME AesReject \/ AesReset PROVE CipherInv'
  <2>1. begun' = <<>> /\ done' = 0 /\ last' = <<>>
    BY <1>3 DEF AesReject, AesReset
  <2> QED
    BY <2>1, NoCall DEF CipherInv
<1>4. ASSUME NEW n \in CipherPieces, Process(n) PROVE CipherInv'
  <2> DEFINE src == Supplied("text", done, n)
             c == [stream |-> m_stream, counter |-> m_counter, pos |-> m_streamPos, dst |-> <<>>, rest |-> src]
             t == Processed(c)
  <2>1. /\ begun # <<>> /\ m_counter' = t.counter /\ m_stream' = t.stream /\ m_streamPos' = t.pos
        /\ done' = done + n /\ last' = <<[from |-> done, dst |-> t.dst]>>
        /\ cipher' = cipher /\ begun' = begun
    BY <1>4 DEF Process
  <2>2. n \in Nat /\ done \in Nat
    BY CipherNumbers DEF CipherInv
  <2>3. /\ cipher # "chacha20" => begun[1].nonce \in Nonces
        /\ Ready(m_stream, m_counter, m_streamPos, done)
    BY <2>1 DEF CipherInv
  <2>4. IsSeq(src) /\ Len(src) = n /\ \A i \in 1 .. n : src[i] = {<<"text", (done + 0) + i>>}
    <3>1. IsSeq(src) /\ Len(src) = n
      BY <2>2, SuppliedFacts
    <3>2. \A i \in 1 .. n : src[i] = {<<"text", done + i>>}
      BY DEF Supplied
    <3>3. done + 0 = done
      BY <2>2
    <3> QED
      BY <3>1, <3>2, <3>3
  <2>5. c.stream = m_stream /\ c.counter = m_counter /\ c.pos = m_streamPos /\ c.dst = <<>> /\ c.rest = src
    OBVIOUS
  <2>6. c = [stream |-> c.stream, counter |-> c.counter, pos |-> c.pos, dst |-> c.dst, rest |-> c.rest]
    BY <2>5
  <2> HIDE DEF src, c
  <2>7. Text(c, done, 0, n)
    <3>1. n - 0 = n /\ 1 .. 0 = {}
      BY <2>2
    <3> QED
      BY <2>4, <2>5, <2>6, <3>1, EmptyIsSeq DEF Text
  <2>8. Text(t, done, n, n) /\ Ready(t.stream, t.counter, t.pos, done + n)
    BY <2>2, <2>3, <2>4, <2>5, <2>7, ProcessedIs
  <2> HIDE DEF t
  <2>9. Ready(m_stream, m_counter, m_streamPos, done)'
    <3>2. \A b : CounterBlock(b)' = CounterBlock(b)
      BY <2>1 DEF CounterBlock
    <3>3. LET q == (done + n) \div CipherBlock
              u == (done + n) % CipherBlock
          IN /\ t.pos = u
             /\ cipher = "chacha20" \/ u # 0 => t.stream = KeyStream(CounterBlock(q))
             /\ t.counter = CounterBlock(IF cipher = "chacha20" \/ u # 0 THEN q + 1 ELSE q)
      BY <2>8 DEF Ready
    <3> QED
      BY <2>1, <3>2, <3>3 DEF Ready, KeyStream
  <2>10. CipherRight'
    <3>1. IsSeq(t.dst) /\ Len(t.dst) = n /\ \A i \in 1 .. n : t.dst[i] = Wanted(done + (i - 1))
      BY <2>8 DEF Text
    <3> QED
      BY <2>1, <2>2, <3>1, OneCall
  <2>11. done' \in Nat
    BY <2>1, <2>2
  <2> QED
    BY <2>1, <2>3, <2>9, <2>10, <2>11 DEF CipherInv
<1>5. ASSUME UNCHANGED cipherVars PROVE CipherInv'
  <2>1. /\ cipher' = cipher /\ begun' = begun /\ done' = done /\ last' = last
        /\ m_stream' = m_stream /\ m_counter' = m_counter /\ m_streamPos' = m_streamPos
    BY <1>5 DEF cipherVars
  <2>2. \A b : CounterBlock(b)' = CounterBlock(b)
    BY <2>1 DEF CounterBlock
  <2>3. CipherRight'
    BY <2>1, WantedKept DEF CipherInv, CipherRight
  <2>4. Ready(m_stream, m_counter, m_streamPos, done) => Ready(m_stream, m_counter, m_streamPos, done)'
    BY <2>1, <2>2 DEF Ready, KeyStream
  <2> QED
    BY <2>1, <2>3, <2>4 DEF CipherInv
<1> QED
  BY <1>1, <1>2, <1>3, <1>4, <1>5 DEF CipherNext

\* Between calls a cipher is where its text is, however the text was cut.
THEOREM CipherInvTheorem == CipherSpec => []CipherInv
BY CipherStarts, CipherStep, PTL DEF CipherSpec

\* Each byte returned is the byte of the text under the key stream at its place.
THEOREM CipherRightTheorem == CipherSpec => []CipherRight
<1>1. CipherInv => CipherRight
  BY DEF CipherInv
<1> QED
  BY <1>1, CipherInvTheorem, PTL

-----------------------------------------------------------------------------
(* The sponge: its state is the text taken so far, its output that of the  *)
(* padded text, for SHA-3, SHAKE and KMAC.                                 *)

\* A rate: at most the whole state.
RateOK(r) == r \in Nat /\ r \in Nat \ {0} /\ r <= Length /\ Length \in Nat

\* The blocks in the first l bytes of a text, what follows them in the state,
\* and the sponge that has taken these bytes.
Past(t, l, r) ==
    [b \in 1 .. l \div r |-> SubSeq(t, (b - 1) * r + 1, b * r) \o Zeros(Length - r)]

Fill(t, l, r) == [i \in 1 .. Length |-> IF i <= l % r THEN t[(l \div r) * r + i] ELSE Zero]

Sunk(t, l, r) ==
    [st |-> [past |-> Past(t, l, r), now |-> Fill(t, l, r)], ptr |-> l % r, rate |-> r]

\* The state beyond the blocks: the rest of the text, then zeros.
LEMMA FillFacts ==
    ASSUME NEW t, NEW l, NEW r, RateOK(r)
    PROVE  /\ IsSeq(Fill(t, l, r)) /\ Len(Fill(t, l, r)) = Length
           /\ \A i \in 1 .. Length :
                 Fill(t, l, r)[i] = IF i <= l % r THEN t[(l \div r) * r + i] ELSE Zero
<1> DEFINE f == Fill(t, l, r)
<1>1. f = [i \in 1 .. Length |-> f[i]] /\ Length \in Nat
  BY DEF Fill, RateOK
<1>2. \A i \in 1 .. Length : f[i] = IF i <= l % r THEN t[(l \div r) * r + i] ELSE Zero
  BY DEF Fill
<1> HIDE DEF f
<1>3. IsSeq(f) /\ Len(f) = Length
  BY <1>1, FunctionSeq
<1> QED
  BY <1>2, <1>3 DEF f

\* One more whole block of the text joins the permuted ones.
LEMMA PastAppended ==
    ASSUME NEW t, NEW l, NEW m, NEW r, RateOK(r), NEW q \in Nat, l \div r = q, m \div r = q + 1
    PROVE  Append(Past(t, l, r), SubSeq(t, q * r + 1, q * r + r) \o Zeros(Length - r)) = Past(t, m, r)
<1> DEFINE old == Past(t, l, r)
           new == Past(t, m, r)
           block == SubSeq(t, q * r + 1, q * r + r) \o Zeros(Length - r)
<1>1. q + 1 \in Nat /\ q * r \in Nat /\ r \in Nat
  BY DEF RateOK
<1>2. old = [b \in 1 .. q |-> old[b]] /\ new = [b \in 1 .. q + 1 |-> new[b]]
  BY <1>1 DEF Past
<1>3. IsSeq(old) /\ Len(old) = q /\ IsSeq(new) /\ Len(new) = q + 1
  <2> HIDE DEF old, new
  <2> QED
    BY <1>1, <1>2, FunctionSeq
<1>4. \A b \in 1 .. q : new[b] = old[b]
  <2>1. \A b \in 1 .. q : b \in 1 .. m \div r
    BY <1>1
  <2> QED
    BY <2>1 DEF Past
<1>5. new[q + 1] = block
  <2>1. q + 1 \in 1 .. m \div r /\ (q + 1) - 1 = q
    BY <1>1
  <2>2. (q + 1) * r = q * r + r
    BY <1>1
  <2>3. new[q + 1] = SubSeq(t, ((q + 1) - 1) * r + 1, (q + 1) * r) \o Zeros(Length - r)
    BY <2>1 DEF Past
  <2> HIDE DEF new
  <2> QED
    BY <2>1, <2>2, <2>3
<1> HIDE DEF old, new, block
<1> DEFINE all == Append(old, block)
<1>7. IsSeq(all) /\ Len(all) = q + 1 /\ (\A b \in 1 .. q : all[b] = old[b]) /\ all[q + 1] = block
  BY <1>3, AppendFacts
<1> HIDE DEF all
<1>8. ASSUME NEW b \in 1 .. Len(all) PROVE all[b] = new[b]
  <2>1. b \in 1 .. q \/ b = q + 1
    BY <1>1, <1>7
  <2> QED
    BY <1>4, <1>5, <1>7, <2>1
<1>9. all = new
  BY <1>3, <1>7, <1>8, SameSeq
<1> QED
  BY <1>9 DEF all, old, new, block

\* exclusiveOr() on a part of the state changes the bytes of that part.
LEMMA XoredFacts ==
    ASSUME NEW bytes, IsSeq(bytes), NEW at \in Nat, NEW data, IsSeq(data), at + Len(data) <= Len(bytes)
    PROVE  /\ IsSeq(XoredInto(bytes, at, data)) /\ Len(XoredInto(bytes, at, data)) = Len(bytes)
           /\ \A i \in 1 .. at : XoredInto(bytes, at, data)[i] = bytes[i]
           /\ \A i \in 1 .. Len(data) : XoredInto(bytes, at, data)[at + i] = Xor(data[i], bytes[at + i])
           /\ \A i \in at + Len(data) + 1 .. Len(bytes) : XoredInto(bytes, at, data)[i] = bytes[i]
<1> DEFINE x == XoredInto(bytes, at, data)
<1>1. /\ Len(bytes) \in Nat /\ DOMAIN bytes = 1 .. Len(bytes)
      /\ Len(data) \in Nat /\ DOMAIN data = 1 .. Len(data)
  BY SeqFacts
<1>2. x = [i \in 1 .. Len(bytes) |-> x[i]]
  BY <1>1 DEF XoredInto
<1>3. \A i \in 1 .. Len(bytes) : x[i] = IF i - at \in 1 .. Len(data) THEN Xor(data[i - at], bytes[i]) ELSE bytes[i]
  BY <1>1 DEF XoredInto
<1> HIDE DEF x
<1>4. IsSeq(x) /\ Len(x) = Len(bytes)
  BY <1>1, <1>2, FunctionSeq
<1>5. \A i \in 1 .. at : x[i] = bytes[i]
  <2> TAKE i \in 1 .. at
  <2>1. i \in 1 .. Len(bytes) /\ ~(i - at \in 1 .. Len(data))
    BY <1>1
  <2> QED
    BY <1>3, <2>1
<1>6. \A i \in 1 .. Len(data) : x[at + i] = Xor(data[i], bytes[at + i])
  <2> TAKE i \in 1 .. Len(data)
  <2>1. at + i \in 1 .. Len(bytes) /\ (at + i) - at = i
    BY <1>1
  <2> QED
    BY <1>3, <2>1
<1>7. \A i \in at + Len(data) + 1 .. Len(bytes) : x[i] = bytes[i]
  <2> TAKE i \in at + Len(data) + 1 .. Len(bytes)
  <2>1. i \in 1 .. Len(bytes) /\ ~(i - at \in 1 .. Len(data))
    BY <1>1
  <2> QED
    BY <1>3, <2>1
<1> QED
  BY <1>4, <1>5, <1>6, <1>7 DEF x

\* A zero byte takes part in no exclusive or.
LEMMA XorFacts ==
    ASSUME NEW a, NEW b
    PROVE  Xor(a, Zero) = a /\ Xor(Zero, a) = a /\ Xor(a, b) = Xor(b, a)
BY Zenon DEF Xor, Zero

\* The block a full state holds.
Full(now, t, at, r) ==
    /\ IsSeq(now) /\ Len(now) = Length
    /\ \A i \in 1 .. r : now[i] = t[at + i]
    /\ \A i \in r + 1 .. Length : now[i] = Zero

\* A state filled up to the rate is the next block of the text.
LEMMA FullBlock ==
    ASSUME NEW t, NEW at \in Nat, NEW r, RateOK(r), NEW now, Full(now, t, at, r)
    PROVE  now = SubSeq(t, at + 1, at + r) \o Zeros(Length - r)
<1> DEFINE a == SubSeq(t, at + 1, at + r)
           z == Zeros(Length - r)
           n == Length - r
<1>0. /\ IsSeq(now) /\ Len(now) = Length
      /\ (\A i \in 1 .. r : now[i] = t[at + i]) /\ (\A i \in r + 1 .. Length : now[i] = Zero)
  BY DEF Full
<1>1. at \in Nat /\ r \in Nat /\ n \in Nat /\ r + n = Length
  BY DEF RateOK
<1>2. IsSeq(a) /\ Len(a) = r /\ \A i \in 1 .. r : a[i] = t[at + i]
  BY <1>1, SliceFacts
<1>3. IsSeq(z) /\ Len(z) = n /\ \A i \in 1 .. n : z[i] = Zero
  <2> HIDE DEF n
  <2>1. IsSeq(Zeros(n)) /\ Len(Zeros(n)) = n /\ \A i \in 1 .. n : Zeros(n)[i] = Zero
    BY <1>1, ZerosFacts
  <2> QED
    BY <2>1 DEF n
<1> HIDE DEF a, z, n
<1>4. /\ IsSeq(a \o z) /\ Len(a \o z) = r + n
      /\ \A i \in 1 .. r : (a \o z)[i] = a[i]
      /\ \A i \in 1 .. n : (a \o z)[r + i] = z[i]
  <2>1. IsSeq(a) /\ IsSeq(z)
    BY <1>2, <1>3
  <2>2. /\ IsSeq(a \o z) /\ Len(a \o z) = Len(a) + Len(z)
        /\ \A i \in 1 .. Len(a) : (a \o z)[i] = a[i]
        /\ \A i \in 1 .. Len(z) : (a \o z)[Len(a) + i] = z[i]
    BY <2>1, ConcatFacts
  <2>3. Len(a) = r /\ Len(z) = n
    BY <1>2, <1>3
  <2> QED
    BY <2>2, <2>3
<1>5. ASSUME NEW i \in 1 .. Len(now) PROVE now[i] = (a \o z)[i]
  <2>1. CASE i <= r
    <3>1. i \in 1 .. r
      BY <2>1, <1>1
    <3> QED
      BY <3>1, <1>0, <1>2, <1>4
  <2>2. CASE ~(i <= r)
    <3>1. i - r \in 1 .. n /\ r + (i - r) = i /\ i \in r + 1 .. Length
      BY <2>2, <1>0, <1>1
    <3>2. (a \o z)[r + (i - r)] = z[i - r] /\ z[i - r] = Zero
      BY <3>1, <1>3, <1>4
    <3> QED
      BY <3>1, <3>2, <1>0
  <2> QED
    BY <2>1, <2>2
<1>6. now = a \o z
  BY <1>0, <1>1, <1>4, <1>5, SameSeq
<1> QED
  BY <1>6 DEF a, z

\* A state, a place in it and a rate.
Context(past, now, u, r) == [st |-> [past |-> past, now |-> now], ptr |-> u, rate |-> r]

\* Moving ptr permutes the state exactly at the end of a block.
LEMMA AdvanceIs ==
    ASSUME NEW past, NEW now, NEW u, NEW r, NEW n
    PROVE  /\ u + n = r => Advance(Context(past, now, u, r), n)
                             = Context(Append(past, now), Zeros(Length), 0, r)
           /\ u + n # r => Advance(Context(past, now, u, r), n) = Context(past, now, u + n, r)
           /\ NextBlock(Context(past, now, u, r)) = Context(Append(past, now), Zeros(Length), 0, r)
<1> DEFINE s == Context(past, now, u, r)
           st == [past |-> past, now |-> now]
<1>1. s = [st |-> st, ptr |-> u, rate |-> r] /\ s.st = st /\ s.ptr = u /\ s.rate = r
  BY DEF Context
<1>2. Apply(st) = [past |-> Append(past, now), now |-> Zeros(Length)]
  BY DEF Apply
<1>3. Context(Append(past, now), Zeros(Length), 0, r) = [st |-> Apply(st), ptr |-> 0, rate |-> r]
  BY <1>2 DEF Context
<1>4. Context(past, now, u + n, r) = [st |-> st, ptr |-> u + n, rate |-> r]
  BY DEF Context
<1> DEFINE ap == Apply(st)
<1> HIDE DEF s, st, ap
<1>5. [s EXCEPT !.st = ap, !.ptr = 0] = [st |-> ap, ptr |-> 0, rate |-> r]
  <2>1. [s EXCEPT !.st = ap] = [st |-> ap, ptr |-> u, rate |-> r]
    BY <1>1
  <2> DEFINE x == [s EXCEPT !.st = ap]
  <2>2. [s EXCEPT !.st = ap, !.ptr = 0] = [x EXCEPT !.ptr = 0]
    OBVIOUS
  <2>3. x = [st |-> ap, ptr |-> u, rate |-> r]
    BY <2>1
  <2> HIDE DEF x
  <2>4. [x EXCEPT !.ptr = 0] = [st |-> ap, ptr |-> 0, rate |-> r]
    BY <2>3
  <2> QED
    BY <2>2, <2>4 DEF x
<1>6. [s EXCEPT !.ptr = @ + n] = [st |-> st, ptr |-> u + n, rate |-> r]
  BY <1>1
<1>7. ap = Apply(s.st)
  BY <1>1 DEF ap
<1>8. [s EXCEPT !.st = Apply(@), !.ptr = 0] = [s EXCEPT !.st = ap, !.ptr = 0]
  BY <1>7
<1>9. Advance(s, n) = IF u + n = r THEN [st |-> ap, ptr |-> 0, rate |-> r]
                                   ELSE [st |-> st, ptr |-> u + n, rate |-> r]
  BY <1>1, <1>5, <1>6, <1>8 DEF Advance
<1>10. NextBlock(s) = [st |-> ap, ptr |-> 0, rate |-> r]
  BY <1>5, <1>8 DEF NextBlock
<1> QED
  BY <1>3, <1>4, <1>9, <1>10 DEF s, ap

\* Adding bytes leaves everything but the state behind.
LEMMA MixedIs ==
    ASSUME NEW past, NEW now, NEW u, NEW r, NEW data
    PROVE  [Context(past, now, u, r) EXCEPT !.st.now = XoredInto(@, u, data)]
             = Context(past, XoredInto(now, u, data), u, r)
<1> DEFINE x == XoredInto(now, u, data)
<1>1. Context(past, now, u, r).st.now = now
  BY DEF Context
<1> HIDE DEF x
<1>2. [Context(past, now, u, r) EXCEPT !.st.now = x] = Context(past, x, u, r)
  BY DEF Context
<1> QED
  BY <1>1, <1>2 DEF x

\* The record of a sponge that took a text, field by field.
LEMMA SunkIs == ASSUME NEW t, NEW l, NEW r
                PROVE  Sunk(t, l, r) = Context(Past(t, l, r), Fill(t, l, r), l % r, r)
BY DEF Sunk, Context

\* A loop of consume() that has taken l bytes of the text.
Soaked(c, t, l, r) ==
    /\ l \in 0 .. Len(t) /\ c.k = Sunk(t, l, r)
    /\ IsSeq(c.rest) /\ Len(c.rest) = Len(t) - l
    /\ \A i \in 1 .. Len(c.rest) : c.rest[i] = t[l + i]

\* A piece of a text that the block has room for.
PieceOf(data, t, l, n) == IsSeq(data) /\ Len(data) = n /\ \A i \in 1 .. n : data[i] = t[l + i]

Fits(l, n, r) == (l % r) + n <= r

\* What a piece of text adds to the state, and where it gets to.
LEMMA PieceAdded ==
    ASSUME NEW t, NEW l \in Nat, NEW r, RateOK(r), NEW n \in Nat, Fits(l, n, r),
           NEW data, PieceOf(data, t, l, n)
    PROVE  Advance(Context(Past(t, l, r), XoredInto(Fill(t, l, r), l % r, data), l % r, r), n)
             = Sunk(t, l + n, r)
<1> DEFINE u == l % r
           q == l \div r
           now == Fill(t, l, r)
           x == XoredInto(now, u, data)
           m == l + n
           v == u + n
<1>1. q \in Nat /\ u \in Nat /\ u < r /\ l = q * r + u /\ r \in Nat /\ r \in Nat \ {0}
  <2>1. r \in Nat \ {0}
    BY DEF RateOK
  <2> QED
    BY <2>1, DivMod
<1>2. v \in Nat /\ v <= r /\ r <= Length /\ Length \in Nat /\ m \in Nat /\ u + n = v
  <2>1. (l % r) + n <= r
    BY DEF Fits
  <2> HIDE DEF u
  <2> QED
    BY <1>1, <2>1 DEF RateOK, u
<1>0. IsSeq(data) /\ Len(data) = n /\ \A i \in 1 .. n : data[i] = t[l + i]
  BY DEF PieceOf
<1>3. /\ IsSeq(now) /\ Len(now) = Length
      /\ \A i \in 1 .. Length : now[i] = IF i <= u THEN t[q * r + i] ELSE Zero
  BY FillFacts
<1>4. \A i \in 1 .. n : t[l + i] = t[q * r + (u + i)]
  <2> HIDE DEF q, u
  <2> TAKE i \in 1 .. n
  <2>1. l + i = q * r + (u + i)
    <3> DEFINE p == q * r
    <3>1. p \in Nat /\ l = p + u
      BY <1>1
    <3> HIDE DEF p
    <3>2. l + i = p + (u + i)
      BY <3>1, <1>1
    <3> QED
      BY <3>2 DEF p
  <2> QED
    BY <2>1
<1> HIDE DEF u, q, now
<1>5. u + Len(data) <= Len(now) /\ IsSeq(data) /\ Len(data) = n
  <2> HIDE DEF v, m
  <2>1. u + n <= Length
    BY <1>1, <1>2
  <2>2. Len(now) = Length
    BY <1>3
  <2>3. Len(data) = n /\ IsSeq(data)
    BY <1>0
  <2> QED
    BY <2>1, <2>2, <2>3
<1>6. /\ IsSeq(x) /\ Len(x) = Len(now)
      /\ \A i \in 1 .. u : x[i] = now[i]
      /\ \A i \in 1 .. Len(data) : x[u + i] = Xor(data[i], now[u + i])
      /\ \A i \in u + Len(data) + 1 .. Len(now) : x[i] = now[i]
  <2>1. IsSeq(now) /\ u \in Nat /\ IsSeq(data) /\ u + Len(data) <= Len(now)
    BY <1>1, <1>3, <1>5
  <2> QED
    BY <2>1, XoredFacts
<1> HIDE DEF x
<1>7. \A i \in 1 .. Length : x[i] = IF i <= v THEN t[q * r + i] ELSE Zero
  <2> HIDE DEF v
  <2> TAKE i \in 1 .. Length
  <2>1. CASE i <= u
    <3>1. i \in 1 .. u /\ i <= v
      BY <2>1, <1>1, <1>2
    <3>2. x[i] = now[i] /\ now[i] = t[q * r + i]
      BY <3>1, <2>1, <1>3, <1>6
    <3> QED
      BY <3>1, <3>2
  <2>2. CASE ~(i <= u) /\ i <= v
    <3> DEFINE j == i - u
    <3>1. j \in 1 .. n /\ u + j = i
      BY <2>2, <1>1, <1>2
    <3> HIDE DEF j
    <3>2. x[u + j] = Xor(data[j], now[u + j])
      BY <3>1, <1>5, <1>6
    <3>3. data[j] = t[q * r + (u + j)]
      BY <3>1, <1>0, <1>4
    <3>4. now[i] = Zero
      BY <2>2, <1>3
    <3>5. x[i] = Xor(t[q * r + i], Zero)
      BY <3>1, <3>2, <3>3, <3>4
    <3> QED
      BY <2>2, <3>5, XorFacts
  <2>3. CASE ~(i <= v)
    <3>1. i \in u + n + 1 .. Length /\ ~(i <= u)
      BY <2>3, <1>1, <1>2
    <3>2. x[i] = now[i] /\ now[i] = Zero
      BY <3>1, <1>3, <1>5, <1>6
    <3> QED
      BY <2>3, <3>2
  <2> QED
    BY <2>1, <2>2, <2>3
<1>8. CASE v = r
  <2>1. m \div r = q + 1 /\ m % r = 0
    <3>1. l \in Nat /\ n \in Nat /\ r \in Nat \ {0} /\ (l % r) + n = r
      BY <1>1, <1>8 DEF u, v
    <3> QED
      BY <3>1, DivStep DEF q, m
  <2>2. \A i \in 1 .. r : x[i] = t[q * r + i]
    <3> TAKE i \in 1 .. r
    <3>1. i \in 1 .. Length /\ i <= v
      BY <1>1, <1>2, <1>8
    <3> QED
      BY <3>1, <1>7
  <2>3. \A i \in r + 1 .. Length : x[i] = Zero
    <3> TAKE i \in r + 1 .. Length
    <3>1. i \in 1 .. Length /\ ~(i <= v)
      BY <1>1, <1>2, <1>8
    <3> QED
      BY <3>1, <1>7
  <2>4. x = SubSeq(t, q * r + 1, q * r + r) \o Zeros(Length - r)
    <3>1. Full(x, t, q * r, r)
      BY <2>2, <2>3, <1>3, <1>6 DEF Full
    <3>2. q * r \in Nat
      BY <1>1
    <3> QED
      BY <3>1, <3>2, FullBlock
  <2>5. Append(Past(t, l, r), x) = Past(t, m, r)
    <3>1. l \div r = q
      BY DEF q
    <3>2. Append(Past(t, l, r), SubSeq(t, q * r + 1, q * r + r) \o Zeros(Length - r)) = Past(t, m, r)
      <4>1. q \in Nat /\ m \div r = q + 1
        BY <1>1, <2>1
      <4> HIDE DEF m
      <4> QED
        BY ZenonT(60), <3>1, <4>1, PastAppended
    <3> QED
      BY <3>2, <2>4
  <2>6. Fill(t, m, r) = Zeros(Length)
    <3>1. \A i \in 1 .. Length : ~(i <= m % r)
      BY <2>1
    <3> QED
      BY <3>1 DEF Fill, Zeros
  <2>7. Advance(Context(Past(t, l, r), x, u, r), n)
          = Context(Append(Past(t, l, r), x), Zeros(Length), 0, r)
    BY <1>8, AdvanceIs DEF v
  <2>8. Sunk(t, m, r) = Context(Append(Past(t, l, r), x), Zeros(Length), 0, r)
    BY <2>1, <2>5, <2>6, SunkIs
  <2> QED
    BY <2>7, <2>8 DEF x, u, now, m
<1>9. CASE v # r
  <2>1. m \div r = q /\ m % r = v
    <3>1. l \in Nat /\ n \in Nat /\ r \in Nat \ {0} /\ (l % r) + n < r
      BY <1>1, <1>2, <1>9 DEF u, v
    <3> QED
      BY <3>1, DivStep DEF q, m, v, u
  <2>2. Past(t, m, r) = Past(t, l, r)
    BY <2>1 DEF Past, q
  <2>3. Fill(t, m, r) = x
    <3> DEFINE f == Fill(t, m, r)
    <3>1. IsSeq(f) /\ Len(f) = Length /\ \A i \in 1 .. Length : f[i] = IF i <= v THEN t[q * r + i] ELSE Zero
      BY <2>1, FillFacts
    <3> HIDE DEF f
    <3>2. Len(x) = Length /\ IsSeq(x)
      BY <1>3, <1>6
    <3>3. \A i \in 1 .. Len(f) : f[i] = x[i]
      BY <3>1, <1>7
    <3>4. f = x
      BY <3>1, <3>2, <3>3, SameSeq
    <3> QED
      BY <3>4 DEF f
  <2>4. Advance(Context(Past(t, l, r), x, u, r), n) = Context(Past(t, l, r), x, v, r)
    BY <1>9, AdvanceIs DEF v
  <2>5. Sunk(t, m, r) = Context(Past(t, l, r), x, v, r)
    BY <2>1, <2>2, <2>3, SunkIs
  <2> QED
    BY <2>4, <2>5 DEF x, u, now, m
<1> QED
  BY <1>8, <1>9

\* The fields of a context.
LEMMA ContextFields ==
    ASSUME NEW past, NEW now, NEW u, NEW r
    PROVE  /\ Context(past, now, u, r).ptr = u /\ Context(past, now, u, r).rate = r
           /\ Context(past, now, u, r).st = [past |-> past, now |-> now]
BY DEF Context

\* A round takes a byte at least, while there is one.
LEMMA ConsumeRoundKeeps ==
    ASSUME NEW t, IsSeq(t), NEW r, RateOK(r), NEW c, NEW l, Soaked(c, t, l, r)
    PROVE  \E m \in l .. Len(t) : Soaked(ConsumeRound(c), t, m, r) /\ (l < Len(t) => l < m)
<1>1. Len(t) \in Nat /\ l \in Nat /\ l <= Len(t)
  <2>1. Len(t) \in Nat
    BY SeqFacts
  <2> QED
    BY <2>1 DEF Soaked
<1>0. /\ c.k = Sunk(t, l, r) /\ IsSeq(c.rest) /\ Len(c.rest) = Len(t) - l
      /\ \A i \in 1 .. Len(c.rest) : c.rest[i] = t[l + i]
  BY DEF Soaked
<1>2. CASE c.rest = <<>>
  <2>1. l = Len(t) /\ l \in l .. Len(t)
    BY <1>0, <1>1, <1>2, EmptyIsSeq
  <2>2. ConsumeRound(c) = c
    BY <1>2 DEF ConsumeRound
  <2> QED
    BY <1>1, <2>1, <2>2
<1>3. CASE c.rest # <<>>
  <2> DEFINE u == l % r
             rest == c.rest
             ll == IF Len(rest) < r - u THEN Len(rest) ELSE r - u
             piece == SubSeq(rest, 1, ll)
             after == SubSeq(rest, ll + 1, Len(rest))
             m == l + ll
             past == Past(t, l, r)
             now == Fill(t, l, r)
  <2>1. u \in Nat /\ u < r /\ r \in Nat
    <3>1. r \in Nat \ {0}
      BY DEF RateOK
    <3> QED
      BY <1>1, <3>1, DivMod
  <2>2. Len(rest) \in Nat /\ Len(rest) # 0
    <3>1. Len(rest) \in Nat
      BY <1>0, SeqFacts
    <3>2. ASSUME Len(rest) = 0 PROVE FALSE
      <4>1. \A i \in 1 .. Len(rest) : rest[i] = <<>>[i]
        BY <3>2
      <4>2. rest = <<>>
        BY <4>1, <3>2, <1>0, EmptyIsSeq, SameSeq
      <4> QED
        BY <4>2, <1>3
    <3> QED
      BY <3>1, <3>2
  <2>3. c.k = Context(past, now, u, r)
    BY <1>0, SunkIs
  <2>3a. c.k.ptr = u /\ c.k.rate = r
    <3> HIDE DEF past, now, u
    <3>1. Context(past, now, u, r).ptr = u /\ Context(past, now, u, r).rate = r
      BY DEF Context
    <3> QED
      BY <2>3, <3>1
  <2>4. ConsumeRound(c) = [k |-> Advance(Context(past, XoredInto(now, u, piece), u, r), ll), rest |-> after]
    <3>1. Chunk(c.k, Len(rest)) = ll
      BY <2>3a DEF Chunk
    <3>2. [c.k EXCEPT !.st.now = XoredInto(@, c.k.ptr, piece)] = Context(past, XoredInto(now, u, piece), u, r)
      <4>1. c.k.ptr = u
        BY <2>3a
      <4> HIDE DEF past, now, u, piece
      <4>2. [Context(past, now, u, r) EXCEPT !.st.now = XoredInto(@, u, piece)]
              = Context(past, XoredInto(now, u, piece), u, r)
        BY MixedIs
      <4> QED
        BY <2>3, <4>1, <4>2
    <3> DEFINE len == Chunk(c.k, Len(c.rest))
               mixed == [c.k EXCEPT !.st.now = XoredInto(@, c.k.ptr, SubSeq(c.rest, 1, len))]
    <3>3. ConsumeRound(c) = [k |-> Advance(mixed, len), rest |-> SubSeq(c.rest, len + 1, Len(c.rest))]
      BY <1>3 DEF ConsumeRound
    <3> HIDE DEF ll
    <3>4. len = ll
      BY <3>1
    <3> HIDE DEF len
    <3>5. mixed = Context(past, XoredInto(now, u, piece), u, r)
      BY <3>2, <3>4
    <3> HIDE DEF mixed
    <3> QED
      BY <3>3, <3>4, <3>5
  <2>5. ll \in Nat /\ ll # 0 /\ u + ll <= r /\ ll <= Len(rest)
    <3> HIDE DEF u, rest
    <3> QED
      BY <2>1, <2>2
  <2> HIDE DEF ll
  <2>6. PieceOf(piece, t, l, ll)
    <3> HIDE DEF rest
    <3>1. IsSeq(piece) /\ Len(piece) = ll /\ \A i \in 1 .. ll : piece[i] = rest[i]
      BY <2>5, FrontFacts
    <3>2. \A i \in 1 .. ll : i \in 1 .. Len(rest)
      BY <2>2, <2>5
    <3>3. \A i \in 1 .. ll : rest[i] = t[l + i]
      BY <3>2, <1>0 DEF rest
    <3> QED
      BY <3>1, <3>3 DEF PieceOf
  <2>7. Advance(Context(past, XoredInto(now, u, piece), u, r), ll) = Sunk(t, m, r)
    <3>1. Fits(l, ll, r)
      BY <2>5 DEF Fits
    <3> QED
      BY <1>1, <2>5, <2>6, <3>1, PieceAdded
  <2> DEFINE d == [k |-> Sunk(t, m, r), rest |-> after]
  <2>8. ConsumeRound(c) = d
    BY <2>4, <2>7
  <2>9. IsSeq(after) /\ Len(after) = Len(rest) - ll /\ \A i \in 1 .. Len(rest) - ll : after[i] = rest[ll + i]
    <3> HIDE DEF rest
    <3> QED
      BY <2>2, <2>5, PieceFacts
  <2>10. m \in l .. Len(t) /\ l < m /\ m \in 0 .. Len(t) /\ Len(rest) - ll = Len(t) - m
    <3>1. Len(rest) = Len(t) - l
      BY <1>0
    <3> HIDE DEF rest
    <3> QED
      BY <1>1, <2>5, <2>2, <3>1
  <2>11. \A i \in 1 .. Len(rest) - ll : after[i] = t[m + i]
    <3> TAKE i \in 1 .. Len(rest) - ll
    <3>1. after[i] = rest[ll + i]
      BY <2>9
    <3> HIDE DEF after
    <3>2. ll + i \in 1 .. Len(rest)
      <4> HIDE DEF rest
      <4> QED
        BY <2>2, <2>5
    <3>3. rest[ll + i] = t[l + (ll + i)]
      BY <3>2, <1>0
    <3>4. l + (ll + i) = m + i
      <4> HIDE DEF rest
      <4> QED
        BY <1>1, <2>5
    <3> QED
      BY <3>1, <3>3, <3>4
  <2>12. Soaked(d, t, m, r)
    <3>1. d.k = Sunk(t, m, r) /\ d.rest = after
      OBVIOUS
    <3> HIDE DEF d, after, rest, m
    <3> QED
      BY <2>9, <2>10, <2>11, <3>1 DEF Soaked
  <2> HIDE DEF d
  <2> QED
    BY <2>8, <2>10, <2>12
<1> QED
  BY <1>2, <1>3

\* The rounds of consume() make a function.
LEMMA ConsumeLoop ==
    ASSUME NEW c, NEW n \in Nat
    PROVE  \E after : after = [i \in 0 .. n |-> IF i = 0 THEN c ELSE ConsumeRound(after[i - 1])]
<1> DEFINE Eq(f, j) == f = [i \in 0 .. j |-> IF i = 0 THEN c ELSE ConsumeRound(f[i - 1])]
           T == {j \in Nat : \E f : Eq(f, j)}
<1>1. 0 \in T
  <2> DEFINE f == [i \in 0 .. 0 |-> c]
  <2>1. Eq(f, 0)
    OBVIOUS
  <2> QED
    BY <2>1
<1>2. ASSUME NEW j \in Nat, j \in T PROVE j + 1 \in T
  <2>1. PICK f : Eq(f, j)
    BY <1>2
  <2> DEFINE g == [i \in 0 .. j + 1 |-> IF i = j + 1 THEN ConsumeRound(f[j]) ELSE f[i]]
  <2>2. Eq(g, j + 1)
    BY <2>1
  <2> HIDE DEF g
  <2>3. j + 1 \in Nat /\ \E h : Eq(h, j + 1)
    BY <2>2
  <2> QED
    BY <2>3
<1> HIDE DEF T
<1>3. n \in T
  BY <1>1, <1>2, Induction
<1> QED
  BY <1>3 DEF T

\* consume() returns what its last round leaves.
LEMMA ConsumeValue ==
    ASSUME NEW s, NEW data, Len(data) \in Nat
    PROVE  \E after :
              /\ after = [n \in 0 .. Len(data) |-> IF n = 0 THEN [k |-> s, rest |-> data]
                                                        ELSE ConsumeRound(after[n - 1])]
              /\ Consume(s, data) = after[Len(data)].k
<1> DEFINE c == [k |-> s, rest |-> data]
           Eq(f) == f = [n \in 0 .. Len(data) |-> IF n = 0 THEN c ELSE ConsumeRound(f[n - 1])]
           after == CHOOSE f : Eq(f)
<1>1. \E f : Eq(f)
  BY ConsumeLoop
<1>2. Eq(after)
  BY <1>1
<1>3. Consume(s, data) = after[Len(data)].k
  BY DEF Consume
<1> HIDE DEF after
<1> QED
  BY <1>2, <1>3

\* A sponge that has taken a text has taken the beginning of any that begins so.
LEMMA SunkPrefix ==
    ASSUME NEW a, IsSeq(a), NEW b, IsSeq(b), NEW r, RateOK(r)
    PROVE  Sunk(a, Len(a), r) = Sunk(a \o b, Len(a), r)
<1> DEFINE m == a \o b
           n == Len(a)
           q == n \div r
<1>1. n \in Nat /\ \A i \in 1 .. n : m[i] = a[i]
  BY SeqFacts, ConcatFacts
<1>b. r \in Nat /\ r \in Nat \ {0}
  BY DEF RateOK
<1>2. q \in Nat /\ n % r \in Nat /\ n = q * r + (n % r)
  BY <1>b, <1>1, DivMod
<1>3. \A i \in 1 .. n % r : q * r + i \in 1 .. n
  <2> DEFINE x == q * r
             y == n % r
  <2>1. x \in Nat /\ y \in Nat /\ n = x + y
    BY <1>b, <1>2
  <2> HIDE DEF x, y
  <2>2. \A i \in 1 .. y : x + i \in 1 .. n
    BY <2>1
  <2> QED
    BY <2>2 DEF x, y
<1> HIDE DEF m
<1>4. ASSUME NEW b1 \in 1 .. q PROVE SubSeq(a, (b1 - 1) * r + 1, b1 * r) = SubSeq(m, (b1 - 1) * r + 1, b1 * r)
  <2> DEFINE at == (b1 - 1) * r
  <2>1. at \in Nat /\ b1 * r = at + r /\ at + r <= n
    <3>1. b1 - 1 \in Nat /\ b1 \in Nat /\ b1 <= q
      BY <1>2
    <3>2. (b1 - 1) * r \in Nat /\ b1 * r = (b1 - 1) * r + r
      BY <1>b, <3>1
    <3>3. b1 * r <= q * r
      BY <1>b, <1>2, <3>1
    <3>4. q * r <= n
      <4> DEFINE x == q * r
                 y == n % r
      <4>1. x \in Nat /\ y \in Nat /\ n = x + y
        BY <1>b, <1>2
      <4> HIDE DEF x, y
      <4>2. x <= n
        BY <4>1
      <4> QED
        BY <4>2 DEF x
    <3>5. b1 * r \in Nat /\ q * r \in Nat
      BY <1>b, <1>2, <3>1
    <3> QED
      BY <1>1, <3>2, <3>3, <3>4, <3>5
  <2> DEFINE s == SubSeq(a, at + 1, at + r)
             t == SubSeq(m, at + 1, at + r)
  <2> HIDE DEF at
  <2>2. IsSeq(s) /\ Len(s) = r /\ \A i \in 1 .. r : s[i] = a[at + i]
    BY <1>b, <2>1, SliceFacts
  <2>3. IsSeq(t) /\ Len(t) = r /\ \A i \in 1 .. r : t[i] = m[at + i]
    BY <1>b, <2>1, SliceFacts
  <2>4. \A i \in 1 .. r : at + i \in 1 .. n
    BY <1>b, <1>1, <2>1
  <2> HIDE DEF s, t, n
  <2>5. s = t
    <3>1. \A i \in 1 .. Len(s) : s[i] = t[i]
      BY <1>1, <2>2, <2>3, <2>4
    <3> QED
      BY <2>2, <2>3, <3>1, SameSeq
  <2> QED
    BY <2>1, <2>5 DEF s, t, at
<1>5. Past(a, n, r) = Past(m, n, r)
  BY <1>4 DEF Past
<1>6. Fill(a, n, r) = Fill(m, n, r)
  <2>1. \A i \in 1 .. Length : i <= n % r => a[q * r + i] = m[q * r + i]
    <3> TAKE i \in 1 .. Length
    <3> HAVE i <= n % r
    <3> HIDE DEF q, n
    <3>1. i \in 1 .. n % r
      BY <1>2
    <3> QED
      BY <3>1, <1>1, <1>3
  <2> QED
    BY <2>1 DEF Fill
<1> QED
  BY <1>5, <1>6 DEF Sunk, m, n

\* Text of any length is taken whole, whatever has been taken before.
LEMMA ConsumeIs ==
    ASSUME NEW a, IsSeq(a), NEW data, IsSeq(data), NEW r, RateOK(r)
    PROVE  Consume(Sunk(a, Len(a), r), data) = Sunk(a \o data, Len(a \o data), r)
<1> DEFINE m == a \o data
           s == Sunk(a, Len(a), r)
           c == [k |-> s, rest |-> data]
           n == Len(data)
           l0 == Len(a)
<1>1. n \in Nat /\ l0 \in Nat
  BY SeqFacts
<1>2. IsSeq(m) /\ Len(m) = l0 + n /\ \A i \in 1 .. n : m[l0 + i] = data[i]
  BY ConcatFacts
<1>3. s = Sunk(m, l0, r)
  BY SunkPrefix
<1> HIDE DEF s
<1>4. PICK after : /\ after = [i \in 0 .. n |-> IF i = 0 THEN c ELSE ConsumeRound(after[i - 1])]
                   /\ Consume(s, data) = after[n].k
  BY <1>1, ConsumeValue
<1> HIDE DEF n, l0, m
<1>5. Soaked(c, m, l0, r)
  <2>1. l0 \in 0 .. Len(m) /\ Len(data) = Len(m) - l0
    BY <1>1, <1>2 DEF n
  <2>2. c.k = s /\ c.rest = data
    OBVIOUS
  <2> HIDE DEF c
  <2> QED
    BY <1>2, <1>3, <2>1, <2>2 DEF Soaked, n
<1> HIDE DEF c
<1> DEFINE T == {i \in Nat : i <= n => \E l \in l0 + i .. Len(m) : Soaked(after[i], m, l, r)}
<1>6. 0 \in T
  <2>1. after[0] = c
    BY <1>1, <1>4
  <2>2. l0 \in l0 + 0 .. Len(m)
    BY <1>1, <1>2
  <2> QED
    BY <1>5, <2>1, <2>2
<1>7. ASSUME NEW i \in Nat, i \in T PROVE i + 1 \in T
  <2>1. CASE i + 1 <= n
    <3>1. i + 1 \in 0 .. n /\ i + 1 # 0 /\ (i + 1) - 1 = i /\ i <= n
      BY <1>1, <2>1
    <3>2. PICK l \in l0 + i .. Len(m) : Soaked(after[i], m, l, r)
      BY <1>7, <3>1
    <3>3. after[i + 1] = ConsumeRound(after[(i + 1) - 1])
      BY <1>4, <3>1
    <3>4. after[i + 1] = ConsumeRound(after[i])
      BY <3>1, <3>3
    <3>5. PICK p \in l .. Len(m) : Soaked(ConsumeRound(after[i]), m, p, r) /\ (l < Len(m) => l < p)
      BY <1>2, <3>2, ConsumeRoundKeeps
    <3>6. p \in l0 + (i + 1) .. Len(m)
      BY <1>1, <1>2, <2>1, <3>2, <3>5
    <3> QED
      BY <3>4, <3>5, <3>6
  <2> QED
    BY <2>1
<1> HIDE DEF T
<1>8. n \in T
  BY <1>1, <1>6, <1>7, Induction
<1>9. PICK l \in l0 + n .. Len(m) : Soaked(after[n], m, l, r)
  BY <1>1, <1>8 DEF T
<1>10. l = Len(m)
  BY <1>1, <1>2, <1>9
<1>11. after[n].k = Sunk(m, Len(m), r)
  BY <1>9, <1>10 DEF Soaked
<1> QED
  BY <1>4, <1>11 DEF m, s

\* A sponge that was reset has taken the empty text.
LEMMA EmptyIs == ASSUME NEW r, RateOK(r) PROVE EmptySponge(r) = Sunk(<<>>, Len(<<>>), r)
<1>0. r \in Nat \ {0} /\ Len(<<>>) = 0
  BY EmptyIsSeq DEF RateOK
<1>1. 0 \div r = 0 /\ 0 % r = 0
  BY <1>0, DivModIs
<1>2. Past(<<>>, 0, r) = <<>>
  BY <1>1 DEF Past
<1>3. Fill(<<>>, 0, r) = Zeros(Length)
  <2>1. \A i \in 1 .. Length : ~(i <= 0 % r)
    BY <1>1
  <2> QED
    BY <2>1 DEF Fill, Zeros
<1> QED
  BY <1>0, <1>1, <1>2, <1>3 DEF EmptySponge, EmptyState, Sunk

\* A sponge that has taken whole blocks.
LEMMA WholeBlocks ==
    ASSUME NEW t, NEW r, Len(t) % r = 0
    PROVE  Sunk(t, Len(t), r) = Context(RateBlocks(t, r), Zeros(Length), 0, r)
<1>1. Fill(t, Len(t), r) = Zeros(Length)
  <2>1. \A i \in 1 .. Length : ~(i <= Len(t) % r)
    OBVIOUS
  <2> QED
    BY <2>1 DEF Fill, Zeros
<1>2. Past(t, Len(t), r) = RateBlocks(t, r)
  BY DEF Past, RateBlocks
<1> QED
  BY <1>1, <1>2, SunkIs

\* A sponge that has taken a text takes what fills the block.
LEMMA BlockFilled ==
    ASSUME NEW m, IsSeq(m), NEW r, RateOK(r), NEW tail, IsSeq(tail), (Len(m) % r) + Len(tail) = r
    PROVE  /\ Len(m \o tail) % r = 0 /\ IsSeq(m \o tail) /\ Len(m \o tail) = Len(m) + Len(tail)
           /\ Context(Append(Past(m, Len(m), r), XoredInto(Fill(m, Len(m), r), Len(m) % r, tail)),
                      Zeros(Length), 0, r)
                = Sunk(m \o tail, Len(m \o tail), r)
<1> DEFINE n == Len(m)
           u == n % r
           g == Len(tail)
           t == m \o tail
           past == Past(m, n, r)
           now == Fill(m, n, r)
           x == XoredInto(now, u, tail)
<1>1. n \in Nat /\ g \in Nat /\ r \in Nat \ {0} /\ u + g = r
  BY SeqFacts DEF RateOK
<1>2. IsSeq(t) /\ Len(t) = n + g /\ \A i \in 1 .. g : t[n + i] = tail[i]
  BY ConcatFacts
<1>3. past = Past(t, n, r) /\ now = Fill(t, n, r)
  <2>1. Sunk(m, n, r) = Sunk(t, n, r)
    BY SunkPrefix
  <2> QED
    BY <2>1 DEF Sunk
<1>4. Len(t) % r = 0
  <2>1. (n + g) % r = 0
    <3> HIDE DEF n, g
    <3>1. (n % r) + g = r
      BY <1>1
    <3> QED
      BY <3>1, <1>1, DivStep
  <2> QED
    BY <1>2, <2>1
<1>5. PieceOf(tail, t, n, g)
  <2>1. \A i \in 1 .. g : tail[i] = t[n + i]
    BY <1>2
  <2> HIDE DEF t, n
  <2> QED
    BY <2>1 DEF PieceOf
<1>6. Advance(Context(Past(t, n, r), XoredInto(Fill(t, n, r), u, tail), u, r), g) = Sunk(t, n + g, r)
  <2>1. Fits(n, g, r)
    BY <1>1 DEF Fits
  <2> HIDE DEF t, n, g
  <2> QED
    BY <1>1, <1>5, <2>1, PieceAdded DEF u
<1> HIDE DEF x, past, now, u, t, n, g
<1>7. Advance(Context(past, x, u, r), g) = Context(Append(past, x), Zeros(Length), 0, r)
  BY <1>1, AdvanceIs
<1>8. Context(Append(past, x), Zeros(Length), 0, r) = Sunk(t, Len(t), r)
  BY <1>2, <1>3, <1>6, <1>7 DEF x
<1> QED
  BY <1>2, <1>4, <1>8 DEF x, past, now, u, t, n, g

\* Suffix and padding as the bytes that fill the block.
Closes(tail, m, x, r) ==
    /\ PaddedFor(m, x, r) = m \o tail
    /\ IsSeq(tail) /\ (Len(m) % r) + Len(tail) = r /\ Len(tail) # 0
    /\ XoredInto(Fill(m, Len(m), r), Len(m) % r, tail)
         = XoredInto(XoredInto(Fill(m, Len(m), r), Len(m) % r, <<Number(x)>>),
                     r - 1, <<Number(128)>>)

\* The padding that finish() adds to the state closes the block.
LEMMA TailCloses ==
    ASSUME NEW m, IsSeq(m), NEW r, RateOK(r), NEW x
    PROVE  \E tail : Closes(tail, m, x, r)
<1> DEFINE u == Len(m) % r
           gap == r - 1 - u
           bare == <<Number(x)>> \o Zeros(gap)
           tail == [bare EXCEPT ![gap + 1] = Xor(@, Number(128))]
           now == Fill(m, Len(m), r)
           one == <<Number(x)>>
           bit == <<Number(128)>>
           trailed == XoredInto(now, u, one)
           padded == XoredInto(trailed, r - 1, bit)
           whole == XoredInto(now, u, tail)
<1>1. u \in Nat /\ u < r /\ r \in Nat /\ r # 0 /\ r <= Length /\ Length \in Nat
  <2>1. Len(m) \in Nat /\ r \in Nat \ {0}
    BY SeqFacts DEF RateOK
  <2> QED
    BY <2>1, DivMod DEF RateOK
<1>2. PaddedFor(m, x, r) = m \o tail
  BY DEF PaddedFor
<1>3. now = [i \in 1 .. Length |-> now[i]] /\ \A i \in 1 .. Length : ~(i <= u) => now[i] = Zero
  <2>1. IsSeq(now) /\ Len(now) = Length
    BY FillFacts
  <2>2. now = [i \in 1 .. Length |-> now[i]]
    BY <2>1, SeqFacts
  <2>3. \A i \in 1 .. Length : now[i] = IF i <= u THEN m[(Len(m) \div r) * r + i] ELSE Zero
    BY FillFacts
  <2> HIDE DEF now, u
  <2> QED
    BY <2>2, <2>3
<1> HIDE DEF u
<1>4. gap \in Nat /\ u + (gap + 1) = r /\ gap + 1 \in Nat
  BY <1>1
<1> HIDE DEF gap
<1>5. /\ IsSeq(bare) /\ Len(bare) = gap + 1 /\ bare[1] = Number(x)
      /\ \A i \in 1 .. gap : bare[1 + i] = Zero
  <2>1. IsSeq(one) /\ Len(one) = 1 /\ one[1] = Number(x)
    BY OneFacts
  <2>2. IsSeq(Zeros(gap)) /\ Len(Zeros(gap)) = gap /\ \A i \in 1 .. gap : Zeros(gap)[i] = Zero
    BY <1>4, ZerosFacts
  <2> DEFINE z == Zeros(gap)
  <2> HIDE DEF one, z
  <2>3. /\ IsSeq(one \o z) /\ Len(one \o z) = Len(one) + Len(z)
        /\ \A i \in 1 .. Len(one) : (one \o z)[i] = one[i]
        /\ \A i \in 1 .. Len(z) : (one \o z)[Len(one) + i] = z[i]
    <3>1. IsSeq(one) /\ IsSeq(z)
      BY <2>1, <2>2 DEF z
    <3> QED
      BY <3>1, ConcatFacts
  <2> DEFINE b == one \o z
  <2> HIDE DEF b
  <2>4. IsSeq(b) /\ Len(b) = 1 + gap /\ b[1] = one[1] /\ \A i \in 1 .. gap : b[1 + i] = z[i]
    BY <2>1, <2>2, <2>3 DEF b, z
  <2>5. 1 + gap = gap + 1
    BY <1>4
  <2>6. IsSeq(b) /\ Len(b) = gap + 1 /\ b[1] = Number(x) /\ \A i \in 1 .. gap : b[1 + i] = Zero
    BY <2>1, <2>2, <2>4, <2>5 DEF z
  <2> QED
    BY <2>6 DEF b, one, z
<1> HIDE DEF bare
<1>6. /\ IsSeq(tail) /\ Len(tail) = gap + 1 /\ DOMAIN tail = 1 .. gap + 1
      /\ \A j \in 1 .. gap + 1 : tail[j] = IF j = gap + 1 THEN Xor(bare[j], Number(128)) ELSE bare[j]
  <2>1. DOMAIN bare = 1 .. gap + 1
    BY <1>5, SeqFacts
  <2>2. tail = [j \in 1 .. gap + 1 |-> tail[j]]
    BY <2>1
  <2>3. \A j \in 1 .. gap + 1 : tail[j] = IF j = gap + 1 THEN Xor(bare[j], Number(128)) ELSE bare[j]
    BY <2>1
  <2> HIDE DEF tail
  <2>4. IsSeq(tail) /\ Len(tail) = gap + 1
    BY <2>2, <1>4, FunctionSeq
  <2> QED
    BY <2>2, <2>3, <2>4
<1> HIDE DEF tail, now
<1>7. DOMAIN now = 1 .. Length
  BY <1>3
<1>8. /\ DOMAIN trailed = 1 .. Length
      /\ \A i \in 1 .. Length : trailed[i] = IF i = u + 1 THEN Xor(Number(x), now[i]) ELSE now[i]
  <2>1. DOMAIN one = 1 .. 1 /\ one[1] = Number(x)
    OBVIOUS
  <2> HIDE DEF one
  <2>2. \A i \in 1 .. Length : i - u \in 1 .. 1 <=> i = u + 1
    BY <1>1
  <2>3. \A i \in 1 .. Length : i = u + 1 => i - u = 1
    BY <1>1
  <2> QED
    BY <1>7, <2>1, <2>2, <2>3 DEF XoredInto
<1> HIDE DEF trailed
<1>9. /\ padded = [i \in 1 .. Length |-> padded[i]]
      /\ \A i \in 1 .. Length : padded[i] = IF i = r THEN Xor(Number(128), trailed[i]) ELSE trailed[i]
  <2>1. DOMAIN bit = 1 .. 1 /\ bit[1] = Number(128)
    OBVIOUS
  <2> HIDE DEF bit
  <2>2. \A i \in 1 .. Length : i - (r - 1) \in 1 .. 1 <=> i = r
    BY <1>1
  <2>3. \A i \in 1 .. Length : i = r => i - (r - 1) = 1
    BY <1>1
  <2> QED
    BY <1>8, <2>1, <2>2, <2>3 DEF XoredInto
<1>10. /\ whole = [i \in 1 .. Length |-> whole[i]]
       /\ \A i \in 1 .. Length : whole[i] = IF i - u \in 1 .. gap + 1 THEN Xor(tail[i - u], now[i]) ELSE now[i]
  BY <1>6, <1>7 DEF XoredInto
<1> HIDE DEF padded, whole
<1>11. ASSUME NEW i \in 1 .. Length PROVE whole[i] = padded[i]
  <2>1. CASE i <= u \/ i > r
    <3>1. i # u + 1 /\ i # r /\ ~(i - u \in 1 .. gap + 1)
      BY <2>1, <1>1, <1>4
    <3> QED
      BY <3>1, <1>8, <1>9, <1>10
  <2>2. CASE ~(i <= u) /\ i <= r
    <3> DEFINE j == i - u
    <3>1. j \in 1 .. gap + 1 /\ (i = r <=> j = gap + 1) /\ (i = u + 1 <=> j = 1)
      BY <2>2, <1>1, <1>4
    <3>2. now[i] = Zero
      BY <2>2, <1>3
    <3>3. whole[i] = Xor(tail[j], Zero)
      BY <3>1, <3>2, <1>10
    <3> HIDE DEF j
    <3>4. whole[i] = tail[j]
      BY <3>3, XorFacts
    <3>5. trailed[i] = IF j = 1 THEN Xor(Number(x), Zero) ELSE Zero
      BY <3>1, <3>2, <1>8
    <3>6. bare[j] = IF j = 1 THEN Number(x) ELSE Zero
      <4>1. CASE j # 1
        <5>1. j - 1 \in 1 .. gap /\ 1 + (j - 1) = j
          BY <3>1, <4>1, <1>4
        <5>2. bare[1 + (j - 1)] = Zero
          BY <5>1, <1>5
        <5> QED
          BY <4>1, <5>1, <5>2
      <4> QED
        BY <4>1, <1>5
    <3>7. trailed[i] = bare[j]
      BY <3>5, <3>6, XorFacts
    <3>8. Xor(bare[j], Number(128)) = Xor(Number(128), bare[j])
      BY XorFacts
    <3> QED
      BY <3>1, <3>4, <3>7, <3>8, <1>6, <1>9
  <2> QED
    BY <2>1, <2>2, <1>1
<1>12. whole = padded
  BY <1>9, <1>10, <1>11
<1>13. gap + 1 # 0
  BY <1>4
<1> QED
  BY <1>2, <1>4, <1>6, <1>12, <1>13 DEF Closes, whole, padded, trailed, now, u

\* finish() has taken the padded text, wherever ptr stood.
LEMMA FinishSpongeIs ==
    ASSUME NEW m, IsSeq(m), NEW r, RateOK(r), NEW x
    PROVE  /\ FinishSponge(Sunk(m, Len(m), r), x)
                = Context(RateBlocks(PaddedFor(m, x, r), r), Zeros(Length), 0, r)
           /\ IsSeq(PaddedFor(m, x, r)) /\ Len(PaddedFor(m, x, r)) # 0 /\ Len(PaddedFor(m, x, r)) \in Nat
           /\ Len(PaddedFor(m, x, r)) % r = 0
<1> DEFINE u == Len(m) % r
           past == Past(m, Len(m), r)
           now == Fill(m, Len(m), r)
           p == PaddedFor(m, x, r)
<1>0. PICK tail : Closes(tail, m, x, r)
  BY TailCloses
<1>1. /\ p = m \o tail
      /\ IsSeq(tail) /\ u + Len(tail) = r /\ Len(tail) # 0
      /\ XoredInto(now, u, tail) = XoredInto(XoredInto(now, u, <<Number(x)>>), r - 1, <<Number(128)>>)
  BY <1>0 DEF Closes
<1>2. /\ Len(m \o tail) % r = 0 /\ IsSeq(m \o tail) /\ Len(m \o tail) = Len(m) + Len(tail)
      /\ Context(Append(past, XoredInto(now, u, tail)), Zeros(Length), 0, r)
           = Sunk(m \o tail, Len(m \o tail), r)
  <2>1. IsSeq(tail) /\ u + Len(tail) = r
    BY <1>1
  <2> QED
    BY <2>1, BlockFilled
<1>3. Len(m) \in Nat /\ Len(tail) \in Nat
  BY <1>1, SeqFacts
<1> DEFINE s == Sunk(m, Len(m), r)
           y == XoredInto(XoredInto(now, u, <<Number(x)>>), r - 1, <<Number(128)>>)
<1>4. FinishSponge(s, x) = Context(Append(past, y), Zeros(Length), 0, r)
  <2>1. s = [st |-> [past |-> past, now |-> now], ptr |-> u, rate |-> r]
    BY DEF Sunk
  <2> DEFINE trailed == XoredInto(s.st.now, s.ptr, <<Number(x)>>)
             st == [s.st EXCEPT !.now = XoredInto(trailed, s.rate - 1, <<Number(128)>>)]
             ap == Apply(st)
  <2>2. FinishSponge(s, x) = [s EXCEPT !.st = ap, !.ptr = 0]
    BY DEF FinishSponge
  <2> HIDE DEF s, past, now, u
  <2>3. s.st = [past |-> past, now |-> now] /\ s.ptr = u /\ s.rate = r /\ s.st.now = now
    BY <2>1
  <2>4. XoredInto(trailed, s.rate - 1, <<Number(128)>>) = y
    BY <2>3
  <2> HIDE DEF trailed, y
  <2>5. st = [past |-> past, now |-> y]
    BY <2>3, <2>4
  <2> HIDE DEF st
  <2>6. ap = [past |-> Append(past, y), now |-> Zeros(Length)]
    BY <2>5 DEF Apply
  <2> HIDE DEF ap
  <2> DEFINE w == [s EXCEPT !.st = ap]
  <2>7. [s EXCEPT !.st = ap, !.ptr = 0] = [w EXCEPT !.ptr = 0]
    OBVIOUS
  <2>8. w = [st |-> ap, ptr |-> u, rate |-> r]
    BY <2>1
  <2> HIDE DEF w
  <2>9. [w EXCEPT !.ptr = 0] = [st |-> ap, ptr |-> 0, rate |-> r]
    BY <2>8
  <2> QED
    BY <2>2, <2>6, <2>7, <2>9 DEF Context
<1> HIDE DEF s, y, now, past, u
<1>5. FinishSponge(s, x) = Sunk(p, Len(p), r)
  BY <1>1, <1>2, <1>4 DEF y
<1>6. IsSeq(p) /\ Len(p) % r = 0 /\ Len(p) = Len(m) + Len(tail)
  BY <1>1, <1>2
<1> HIDE DEF p
<1>7. Len(p) # 0 /\ Len(p) \in Nat
  <2>1. Len(tail) # 0
    BY <1>1
  <2> QED
    BY <2>1, <1>3, <1>6
<1>8. Sunk(p, Len(p), r) = Context(RateBlocks(p, r), Zeros(Length), 0, r)
  BY <1>6, WholeBlocks
<1> QED
  BY <1>5, <1>6, <1>7, <1>8 DEF s, p

\* A sponge that took the blocks and gave n bytes, and the bytes it gives.
Blank(c) == [z \in 1 .. c |-> Zeros(Length)]

Spent(taken, r, n) == Context(taken \o Blank(n \div r), Zeros(Length), n % r, r)

SpongeByte(taken, r, i) == {<<"keccak", taken \o Blank((i - 1) \div r), (i - 1) % r>>}

BlocksOK(taken) == IsSeq(taken) /\ Len(taken) # 0

\* Empty blocks, one for each permutation while squeezing.
LEMMA BlankFacts == ASSUME NEW c \in Nat PROVE IsSeq(Blank(c)) /\ Len(Blank(c)) = c /\ \A i \in 1 .. c : Blank(c)[i] = Zeros(Length)
<1> DEFINE b == Blank(c)
<1>1. b = [i \in 1 .. c |-> b[i]] /\ \A i \in 1 .. c : b[i] = Zeros(Length)
  BY DEF Blank
<1> HIDE DEF b
<1>2. IsSeq(b) /\ Len(b) = c
  BY <1>1, FunctionSeq
<1> QED
  BY <1>1, <1>2 DEF b

\* A permutation while squeezing adds one of them.
LEMMA BlankAppended ==
    ASSUME NEW taken, IsSeq(taken), NEW q \in Nat
    PROVE  Append(taken \o Blank(q), Zeros(Length)) = taken \o Blank(q + 1)
<1> DEFINE a == Blank(q)
           b == Blank(q + 1)
           z == Zeros(Length)
           x == taken \o a
           y == taken \o b
           n == Len(taken)
           w == Append(x, z)
<1>1. IsSeq(a) /\ Len(a) = q /\ \A i \in 1 .. q : a[i] = z
  BY BlankFacts
<1>2. IsSeq(b) /\ Len(b) = q + 1 /\ \A i \in 1 .. q + 1 : b[i] = z
  <2>1. q + 1 \in Nat
    OBVIOUS
  <2> QED
    BY <2>1, BlankFacts
<1> HIDE DEF a, b, z
<1>3. n \in Nat
  BY SeqFacts
<1>4. IsSeq(x) /\ Len(x) = n + q /\ (\A i \in 1 .. n : x[i] = taken[i]) /\ \A i \in 1 .. q : x[n + i] = a[i]
  <2>1. /\ IsSeq(x) /\ Len(x) = Len(taken) + Len(a) /\ (\A i \in 1 .. Len(taken) : x[i] = taken[i])
        /\ \A i \in 1 .. Len(a) : x[Len(taken) + i] = a[i]
    <3>1. IsSeq(a)
      BY <1>1
    <3> QED
      BY <3>1, ConcatFacts
  <2>2. Len(a) = q
    BY <1>1
  <2> QED
    BY <2>1, <2>2
<1>5. IsSeq(y) /\ Len(y) = n + (q + 1) /\ (\A i \in 1 .. n : y[i] = taken[i]) /\ \A i \in 1 .. q + 1 : y[n + i] = b[i]
  <2>1. /\ IsSeq(y) /\ Len(y) = Len(taken) + Len(b) /\ (\A i \in 1 .. Len(taken) : y[i] = taken[i])
        /\ \A i \in 1 .. Len(b) : y[Len(taken) + i] = b[i]
    <3>1. IsSeq(b)
      BY <1>2
    <3> QED
      BY <3>1, ConcatFacts
  <2>2. Len(b) = q + 1
    BY <1>2
  <2> QED
    BY <2>1, <2>2
<1> HIDE DEF x, y, n
<1>6. IsSeq(w) /\ Len(w) = (n + q) + 1 /\ (\A i \in 1 .. n + q : w[i] = x[i]) /\ w[(n + q) + 1] = z
  <2>1. IsSeq(w) /\ Len(w) = Len(x) + 1 /\ (\A i \in 1 .. Len(x) : w[i] = x[i]) /\ w[Len(x) + 1] = z
    BY <1>4, AppendFacts
  <2>2. Len(x) = n + q
    BY <1>4
  <2> QED
    BY <2>1, <2>2
<1> HIDE DEF w
<1>7. ASSUME NEW i \in 1 .. Len(w) PROVE w[i] = y[i]
  <2>1. CASE i <= n
    <3>1. i \in 1 .. n /\ i \in 1 .. n + q
      BY <2>1, <1>3, <1>6
    <3> QED
      BY <3>1, <1>4, <1>5, <1>6
  <2>2. CASE ~(i <= n) /\ i <= n + q
    <3> DEFINE j == i - n
    <3>1. j \in 1 .. q /\ j \in 1 .. q + 1 /\ n + j = i /\ i \in 1 .. n + q
      BY <2>2, <1>3, <1>6
    <3> HIDE DEF j
    <3>2. w[n + j] = z
      BY <3>1, <1>1, <1>4, <1>6
    <3>3. y[n + j] = z
      BY <3>1, <1>2, <1>5
    <3> QED
      BY <3>1, <3>2, <3>3
  <2>3. CASE ~(i <= n + q)
    <3>1. i = (n + q) + 1 /\ i = n + (q + 1) /\ q + 1 \in 1 .. q + 1
      BY <2>3, <1>3, <1>6
    <3>2. y[n + (q + 1)] = z
      BY <3>1, <1>2, <1>5
    <3> QED
      BY <3>1, <3>2, <1>6
  <2> QED
    BY <2>1, <2>2, <2>3
<1>8. w = y
  <2>1. IsSeq(w) /\ IsSeq(y) /\ Len(w) = Len(y)
    BY <1>3, <1>5, <1>6
  <2> QED
    BY <2>1, <1>7, SameSeq
<1> QED
  BY <1>8 DEF w, x, y, z, a, b

\* A byte of a sponge that has given some.
LEMMA StateByteIs ==
    ASSUME NEW taken, BlocksOK(taken), NEW r, RateOK(r), NEW n \in Nat, NEW i \in Nat, (n % r) + i < r
    PROVE  StateByte(Spent(taken, r, n).st, Spent(taken, r, n).ptr + (i + 1) - 1) = SpongeByte(taken, r, n + (i + 1))
<1> DEFINE q == n \div r
           u == n % r
           past == taken \o Blank(q)
           now == Zeros(Length)
           at == u + (i + 1) - 1
<1>1. q \in Nat /\ u \in Nat /\ r \in Nat \ {0} /\ r <= Length /\ Length \in Nat
  <2>1. r \in Nat \ {0}
    BY DEF RateOK
  <2> QED
    BY <2>1, DivMod DEF RateOK
<1>2. past # <<>>
  <2>1. IsSeq(taken) /\ Len(taken) # 0 /\ Len(taken) \in Nat
    BY SeqFacts DEF BlocksOK
  <2>2. IsSeq(Blank(q)) /\ Len(Blank(q)) = q
    BY <1>1, BlankFacts
  <2> DEFINE b == Blank(q)
  <2> HIDE DEF b
  <2>3. Len(taken \o b) = Len(taken) + Len(b)
    <3>1. IsSeq(b)
      BY <2>2 DEF b
    <3> QED
      BY <2>1, <3>1, ConcatFacts
  <2>4. Len(taken \o b) # 0
    BY <2>1, <2>2, <2>3, <1>1 DEF b
  <2> QED
    BY <2>4, EmptyIsSeq DEF b
<1>3. at = u + i /\ at + 1 \in 1 .. Length
  <2>1. u + i < r
    OBVIOUS
  <2> HIDE DEF u
  <2> QED
    BY <1>1, <2>1
<1>4. now[at + 1] = Zero
  <2> HIDE DEF at
  <2>1. \A j \in 1 .. Length : Zeros(Length)[j] = Zero
    BY DEF Zeros
  <2> QED
    BY <1>3, <2>1
<1>5. (n + (i + 1)) - 1 = n + i /\ (n + i) \div r = q /\ (n + i) % r = u + i
  <2>1. (n % r) + i < r /\ n \in Nat /\ i \in Nat /\ r \in Nat \ {0}
    BY <1>1
  <2>2. (n + i) \div r = n \div r /\ (n + i) % r = (n % r) + i
    BY <2>1, DivStep
  <2> QED
    BY <2>2
<1>6. SpongeByte(taken, r, n + (i + 1)) = {<<"keccak", past, at>>}
  BY <1>3, <1>5 DEF SpongeByte
<1>7. Spent(taken, r, n).st.past = past /\ Spent(taken, r, n).st.now = now /\ Spent(taken, r, n).ptr = u
  BY DEF Spent, Context
<1> DEFINE s == Spent(taken, r, n)
<1>8. s.ptr + (i + 1) - 1 = at
  BY <1>7
<1> HIDE DEF s, past, now, at, u
<1>9. StateByte(s.st, at) = Xor({<<"keccak", past, at>>}, Zero)
  BY <1>2, <1>4, <1>7 DEF StateByte, s
<1> QED
  BY <1>6, <1>8, <1>9, XorFacts DEF s

\* A loop of produce() that has given j bytes of l after n.
Squeezing(c, taken, r, n, l, j) ==
    /\ j \in 0 .. l /\ c.k = Spent(taken, r, n + j) /\ c.left = l - j
    /\ IsSeq(c.out) /\ Len(c.out) = j
    /\ \A i \in 1 .. j : c.out[i] = SpongeByte(taken, r, n + i)

\* A round of produce() gives at least a byte of what is asked.
LEMMA ProduceRoundKeeps ==
    ASSUME NEW taken, BlocksOK(taken), NEW r, RateOK(r), NEW n \in Nat, NEW l \in Nat, NEW c, NEW j,
           Squeezing(c, taken, r, n, l, j)
    PROVE  \E p \in j .. l : Squeezing(ProduceRound(c), taken, r, n, l, p) /\ (j < l => j < p)
<1>0. /\ j \in 0 .. l /\ c.k = Spent(taken, r, n + j) /\ c.left = l - j
      /\ IsSeq(c.out) /\ Len(c.out) = j
      /\ \A i \in 1 .. j : c.out[i] = SpongeByte(taken, r, n + i)
  BY DEF Squeezing
<1>1. CASE c.left = 0
  <2>1. ProduceRound(c) = c /\ j = l /\ j \in j .. l
    BY <1>0, <1>1 DEF ProduceRound
  <2> QED
    BY <2>1
<1>2. CASE c.left # 0
  <2> DEFINE at == n + j
             u == at % r
             q == at \div r
             past == taken \o Blank(q)
             now == Zeros(Length)
             ll == IF l - j < r - u THEN l - j ELSE r - u
             piece == [i \in 1 .. ll |-> StateByte(c.k.st, c.k.ptr + i - 1)]
             p == j + ll
             next == Advance(c.k, ll)
             d == [k |-> next, left |-> c.left - ll, out |-> c.out \o piece]
  <2>1. at \in Nat /\ j \in Nat /\ j < l
    BY <1>0, <1>2
  <2> HIDE DEF at
  <2>2. q \in Nat /\ u \in Nat /\ u < r /\ r \in Nat \ {0} /\ r \in Nat
    <3>1. r \in Nat \ {0} /\ r \in Nat
      BY DEF RateOK
    <3> QED
      BY <2>1, <3>1, DivMod
  <2>3. c.k = Context(past, now, u, r)
    BY <1>0 DEF Spent, at
  <2>4. c.k.ptr = u /\ c.k.rate = r
    <3> HIDE DEF past, now, u
    <3> QED
      BY <2>3 DEF Context
  <2>5. ProduceRound(c) = d
    <3> DEFINE len == Chunk(c.k, c.left)
    <3>1. len = ll
      BY <1>0, <2>4 DEF Chunk
    <3>2. ProduceRound(c) = [k |-> Advance(c.k, len), left |-> c.left - len,
                             out |-> c.out \o [i \in 1 .. len |-> StateByte(c.k.st, c.k.ptr + i - 1)]]
      BY <1>2 DEF ProduceRound
    <3> HIDE DEF len, ll
    <3> QED
      BY <3>1, <3>2
  <2>6. ll \in Nat /\ ll # 0 /\ u + ll <= r /\ ll <= l - j
    <3> HIDE DEF u
    <3> QED
      BY <2>1, <2>2
  <2> HIDE DEF ll
  <2>7. next = Spent(taken, r, at + ll)
    <3> HIDE DEF past, now, u, q
    <3>1. CASE u + ll = r
      <4>1. next = Context(Append(past, now), now, 0, r)
        BY <3>1, <2>3, AdvanceIs DEF now
      <4>2. (at + ll) \div r = q + 1 /\ (at + ll) % r = 0
        <5>1. (at % r) + ll = r
          BY <3>1 DEF u
        <5> QED
          BY <5>1, <2>1, <2>2, <2>6, DivStep DEF q
      <4>3. Append(past, now) = taken \o Blank(q + 1)
        BY <2>2, BlankAppended DEF past, now, BlocksOK
      <4> QED
        BY <4>1, <4>2, <4>3 DEF Spent, now
    <3>2. CASE u + ll # r
      <4>1. next = Context(past, now, u + ll, r)
        BY <3>2, <2>3, AdvanceIs
      <4>2. (at + ll) \div r = q /\ (at + ll) % r = u + ll
        <5>1. (at % r) + ll < r
          BY <3>2, <2>2, <2>6 DEF u
        <5> QED
          BY <5>1, <2>1, <2>2, <2>6, DivStep DEF q, u
      <4> QED
        BY <4>1, <4>2 DEF Spent, past, now
    <3> QED
      BY <3>1, <3>2
  <2>8. IsSeq(piece) /\ Len(piece) = ll /\ \A i \in 1 .. ll : piece[i] = SpongeByte(taken, r, at + i)
    <3>1. \A i \in 1 .. ll : piece[i] = StateByte(c.k.st, c.k.ptr + i - 1)
      OBVIOUS
    <3>2. piece = [i \in 1 .. ll |-> piece[i]]
      OBVIOUS
    <3> HIDE DEF piece
    <3>3. IsSeq(piece) /\ Len(piece) = ll
      BY <2>6, <3>2, FunctionSeq
    <3>4. ASSUME NEW i \in 1 .. ll PROVE piece[i] = SpongeByte(taken, r, at + i)
      <4> DEFINE e == i - 1
      <4>1. e \in Nat /\ e + 1 = i /\ u + e < r
        <5> HIDE DEF u
        <5> QED
          BY <2>2, <2>6
      <4> HIDE DEF e
      <4>2. StateByte(Spent(taken, r, at).st, Spent(taken, r, at).ptr + (e + 1) - 1) = SpongeByte(taken, r, at + (e + 1))
        BY <2>1, <4>1, StateByteIs
      <4>3. c.k = Spent(taken, r, at)
        BY <1>0 DEF at
      <4>4. StateByte(c.k.st, c.k.ptr + i - 1) = SpongeByte(taken, r, at + i)
        BY <4>1, <4>2, <4>3
      <4> QED
        BY <3>1, <4>4
    <3> QED
      BY <3>3, <3>4
  <2> DEFINE all == c.out \o piece
  <2> HIDE DEF piece
  <2>9. /\ IsSeq(all) /\ Len(all) = Len(c.out) + Len(piece) /\ (\A i \in 1 .. Len(c.out) : all[i] = c.out[i])
        /\ \A i \in 1 .. Len(piece) : all[Len(c.out) + i] = piece[i]
    <3>1. IsSeq(c.out) /\ IsSeq(piece)
      BY <1>0, <2>8
    <3> DEFINE o == c.out
    <3> HIDE DEF o
    <3>2. /\ IsSeq(o \o piece) /\ Len(o \o piece) = Len(o) + Len(piece)
          /\ (\A i \in 1 .. Len(o) : (o \o piece)[i] = o[i])
          /\ \A i \in 1 .. Len(piece) : (o \o piece)[Len(o) + i] = piece[i]
      BY <3>1, ConcatFacts DEF o
    <3> QED
      BY <3>2 DEF o
  <2>10. Len(c.out) = j /\ Len(piece) = ll
    BY <1>0, <2>8
  <2> HIDE DEF all
  <2>11. Len(all) = p /\ (\A i \in 1 .. j : all[i] = c.out[i]) /\ \A i \in 1 .. ll : all[j + i] = piece[i]
    BY <2>9, <2>10
  <2>12. ASSUME NEW i \in 1 .. p PROVE all[i] = SpongeByte(taken, r, n + i)
    <3>1. CASE i <= j
      <4>1. i \in 1 .. j
        BY <3>1, <2>1
      <4> QED
        BY <4>1, <1>0, <2>11
    <3>2. CASE ~(i <= j)
      <4> DEFINE e == i - j
      <4>1. e \in 1 .. ll /\ j + e = i /\ at + e = n + i
        BY <3>2, <2>1, <2>6 DEF at
      <4> HIDE DEF e
      <4>2. all[j + e] = SpongeByte(taken, r, at + e)
        BY <4>1, <2>8, <2>11
      <4> QED
        BY <4>1, <4>2
    <3> QED
      BY <3>1, <3>2
  <2>13. p \in j .. l /\ j < p /\ p \in 0 .. l /\ c.left - ll = l - p /\ at + ll = n + p
    <3>1. c.left = l - j
      BY <1>0
    <3> QED
      BY <3>1, <2>1, <2>6 DEF at
  <2>14. Squeezing(d, taken, r, n, l, p)
    <3>1. d.k = Spent(taken, r, n + p) /\ d.left = l - p /\ d.out = all
      BY <2>7, <2>13 DEF all
    <3> HIDE DEF d, p
    <3> QED
      BY <3>1, <2>9, <2>11, <2>12, <2>13 DEF Squeezing
  <2> HIDE DEF d, p
  <2> QED
    BY <2>5, <2>13, <2>14
<1> QED
  BY <1>1, <1>2

\* The rounds of produce() make a function.
LEMMA ProduceLoop ==
    ASSUME NEW c, NEW n \in Nat
    PROVE  \E after : after = [i \in 0 .. n |-> IF i = 0 THEN c ELSE ProduceRound(after[i - 1])]
<1> DEFINE Eq(f, j) == f = [i \in 0 .. j |-> IF i = 0 THEN c ELSE ProduceRound(f[i - 1])]
           T == {j \in Nat : \E f : Eq(f, j)}
<1>1. 0 \in T
  <2> DEFINE f == [i \in 0 .. 0 |-> c]
  <2>1. Eq(f, 0)
    OBVIOUS
  <2> QED
    BY <2>1
<1>2. ASSUME NEW j \in Nat, j \in T PROVE j + 1 \in T
  <2>1. PICK f : Eq(f, j)
    BY <1>2
  <2> DEFINE g == [i \in 0 .. j + 1 |-> IF i = j + 1 THEN ProduceRound(f[j]) ELSE f[i]]
  <2>2. Eq(g, j + 1)
    BY <2>1
  <2> HIDE DEF g
  <2>3. j + 1 \in Nat /\ \E h : Eq(h, j + 1)
    BY <2>2
  <2> QED
    BY <2>3
<1> HIDE DEF T
<1>3. n \in T
  BY <1>1, <1>2, Induction
<1> QED
  BY <1>3 DEF T

\* produce() returns what its last round leaves.
LEMMA ProduceValue ==
    ASSUME NEW s, NEW length \in Nat
    PROVE  \E after :
              /\ after = [n \in 0 .. length |-> IF n = 0 THEN [k |-> s, left |-> length, out |-> <<>>]
                                                ELSE ProduceRound(after[n - 1])]
              /\ Produce(s, length) = after[length]
<1> DEFINE c == [k |-> s, left |-> length, out |-> <<>>]
           Eq(f) == f = [n \in 0 .. length |-> IF n = 0 THEN c ELSE ProduceRound(f[n - 1])]
           after == CHOOSE f : Eq(f)
<1>1. \E f : Eq(f)
  BY ProduceLoop
<1>2. Eq(after)
  BY <1>1
<1>3. Produce(s, length) = after[length]
  BY DEF Produce
<1> HIDE DEF after
<1> QED
  BY <1>2, <1>3

\* Output of any length continues where the last one ended.
LEMMA ProduceIs ==
    ASSUME NEW taken, BlocksOK(taken), NEW r, RateOK(r), NEW n \in Nat, NEW l \in Nat
    PROVE  Squeezing(Produce(Spent(taken, r, n), l), taken, r, n, l, l)
<1> DEFINE s == Spent(taken, r, n)
           c == [k |-> s, left |-> l, out |-> <<>>]
           Good(d, j) == Squeezing(d, taken, r, n, l, j)
<1> HIDE DEF s
<1>1. PICK after : /\ after = [i \in 0 .. l |-> IF i = 0 THEN c ELSE ProduceRound(after[i - 1])]
                   /\ Produce(s, l) = after[l]
  BY ProduceValue
<1>2. Good(c, 0)
  <2>1. c.k = s /\ c.left = l /\ c.out = <<>>
    OBVIOUS
  <2> HIDE DEF c
  <2>2. n + 0 = n /\ l - 0 = l /\ 0 \in 0 .. l
    OBVIOUS
  <2> QED
    BY <2>1, <2>2, EmptyIsSeq DEF Squeezing, s
<1> HIDE DEF c
<1>3. ASSUME NEW d, NEW j, Good(d, j)
      PROVE  \E p \in j .. l : Good(ProduceRound(d), p) /\ (j < l => j < p)
  BY <1>3, ProduceRoundKeeps
<1>4. \A d, j : Good(d, j) => j \in 0 .. l
  BY DEF Squeezing
<1> HIDE DEF Good
<1> DEFINE T == {i \in Nat : i <= l => \E j \in i .. l : Good(after[i], j)}
<1>6. 0 \in T
  <2>1. after[0] = c
    BY <1>1
  <2> QED
    BY <1>2, <2>1
<1>7. ASSUME NEW i \in Nat, i \in T PROVE i + 1 \in T
  <2>1. CASE i + 1 <= l
    <3>1. i + 1 \in 0 .. l /\ i + 1 # 0 /\ (i + 1) - 1 = i /\ i <= l
      BY <2>1
    <3>2. PICK j \in i .. l : Good(after[i], j)
      BY <1>7, <3>1
    <3>3. after[i + 1] = ProduceRound(after[(i + 1) - 1])
      BY <1>1, <3>1
    <3>4. after[i + 1] = ProduceRound(after[i])
      BY <3>1, <3>3
    <3>5. PICK p \in j .. l : Good(ProduceRound(after[i]), p) /\ (j < l => j < p)
      BY <1>3, <3>2
    <3>6. p \in i + 1 .. l
      BY <2>1, <3>2, <3>5
    <3> QED
      BY <3>4, <3>5, <3>6
  <2> QED
    BY <2>1
<1> HIDE DEF T
<1>8. l \in T
  BY <1>6, <1>7, Induction
<1>9. PICK j \in l .. l : Good(after[l], j)
  BY <1>8 DEF T
<1>10. j = l
  BY <1>9
<1> QED
  BY <1>1, <1>9, <1>10 DEF Good, s

\* finish() leaves the sponge at the start of its output.
LEMMA SpentStart ==
    ASSUME NEW taken, IsSeq(taken), NEW r, RateOK(r)
    PROVE  Context(taken, Zeros(Length), 0, r) = Spent(taken, r, 0)
<1>1. 0 \div r = 0 /\ 0 % r = 0
  <2>1. r \in Nat \ {0}
    BY DEF RateOK
  <2> QED
    BY <2>1, DivModIs
<1>2. Blank(0) = <<>>
  BY DEF Blank
<1>3. taken \o <<>> = taken
  <2> DEFINE x == taken \o <<>>
  <2>1. IsSeq(x) /\ Len(x) = Len(taken) + 0 /\ \A i \in 1 .. Len(taken) : x[i] = taken[i]
    BY EmptyIsSeq, ConcatFacts
  <2>2. Len(taken) \in Nat
    BY SeqFacts
  <2> HIDE DEF x
  <2>3. x = taken
    BY <2>1, <2>2, SameSeq
  <2> QED
    BY <2>3 DEF x
<1> QED
  BY <1>1, <1>2, <1>3 DEF Spent

\* The blocks of padded text: there is one at least.
LEMMA RateBlocksFacts ==
    ASSUME NEW t, NEW r, RateOK(r), Len(t) \in Nat, Len(t) # 0, Len(t) % r = 0
    PROVE  BlocksOK(RateBlocks(t, r))
<1> DEFINE n == Len(t)
           q == n \div r
           b == RateBlocks(t, r)
<1>1. r \in Nat \ {0} /\ n \in Nat
  BY DEF RateOK
<1>2. q \in Nat /\ n = q * r + (n % r)
  BY <1>1, DivMod
<1>3. q # 0
  <2> HIDE DEF q
  <2>1. n # 0 /\ n % r = 0
    OBVIOUS
  <2> HIDE DEF n
  <2> QED
    BY <1>1, <1>2, <2>1
<1>4. b = [i \in 1 .. q |-> b[i]]
  BY DEF RateBlocks
<1> HIDE DEF b, q
<1>5. IsSeq(b) /\ Len(b) = q
  BY <1>2, <1>4, FunctionSeq
<1> QED
  BY <1>3, <1>5 DEF BlocksOK, b

-----------------------------------------------------------------------------
(* KMAC.                                                                   *)

\* The empty text is neutral.
LEMMA ConcatEmpty == ASSUME NEW a, IsSeq(a) PROVE a \o <<>> = a /\ <<>> \o a = a
<1> DEFINE x == a \o <<>>
           y == <<>> \o a
<1>1. IsSeq(x) /\ Len(x) = Len(a) + 0 /\ \A i \in 1 .. Len(a) : x[i] = a[i]
  BY EmptyIsSeq, ConcatFacts
<1>2. IsSeq(y) /\ Len(y) = 0 + Len(a) /\ \A i \in 1 .. Len(a) : y[0 + i] = a[i]
  BY EmptyIsSeq, ConcatFacts
<1>3. Len(a) \in Nat
  BY SeqFacts
<1> HIDE DEF x, y
<1>4. x = a
  BY <1>1, <1>3, SameSeq
<1>5. y = a
  <2>1. Len(y) = Len(a) /\ \A i \in 1 .. Len(a) : y[i] = a[i]
    BY <1>2, <1>3
  <2> QED
    BY <1>2, <2>1, SameSeq
<1> QED
  BY <1>4, <1>5 DEF x, y

\* Zeros up to the end of the block, as bytepad() has them.
Pad(t, r) == Zeros((r - (Len(t) % r)) % r)

\* A permutation of a block that is not full yet stands for zeros.
LEMMA NextBlockIs ==
    ASSUME NEW t, IsSeq(t), NEW r, RateOK(r)
    PROVE  /\ IsSeq(Pad(t, r)) /\ IsSeq(t \o Pad(t, r)) /\ Len(t \o Pad(t, r)) % r = 0
           /\ Sunk(t, Len(t), r).ptr = 0 => Sunk(t, Len(t), r) = Sunk(t \o Pad(t, r), Len(t \o Pad(t, r)), r)
           /\ Sunk(t, Len(t), r).ptr # 0 =>
                NextBlock(Sunk(t, Len(t), r)) = Sunk(t \o Pad(t, r), Len(t \o Pad(t, r)), r)
<1> DEFINE u == Len(t) % r
           z == Pad(t, r)
           past == Past(t, Len(t), r)
           now == Fill(t, Len(t), r)
           s == Sunk(t, Len(t), r)
           g == r - u
<1>1. u \in Nat /\ u < r /\ r \in Nat /\ r \in Nat \ {0} /\ r <= Length /\ Length \in Nat
  <2>1. Len(t) \in Nat /\ r \in Nat \ {0}
    BY SeqFacts DEF RateOK
  <2> QED
    BY <2>1, DivMod DEF RateOK
<1>2. s = Context(past, now, u, r) /\ s.ptr = u
  <2> HIDE DEF past, now, u
  <2> QED
    BY SunkIs DEF Context, past, now, u
<1>3. CASE u = 0
  <2>1. (r - u) % r = 0
    <3> HIDE DEF u
    <3>1. r - u = 1 * r + 0
      BY <1>1, <1>3
    <3>2. r - u \in Nat /\ 1 \in Nat /\ 0 \in Nat /\ 0 < r
      BY <1>1, <1>3
    <3> DEFINE w == r - u
    <3> HIDE DEF w
    <3>3. w % r = 0
      BY <3>1, <3>2, <1>1, DivModIs DEF w
    <3> QED
      BY <3>3 DEF w
  <2>2. z = <<>>
    BY <2>1 DEF Pad, Zeros
  <2>3. t \o z = t /\ IsSeq(z)
    BY <2>2, ConcatEmpty, EmptyIsSeq
  <2> HIDE DEF z, s
  <2> QED
    BY <1>2, <1>3, <2>3 DEF z, s
<1>4. CASE u # 0
  <2>1. (r - u) % r = g /\ g \in Nat
    <3> HIDE DEF u
    <3>1. g = 0 * r + g /\ g \in Nat /\ 0 \in Nat /\ g < r
      BY <1>1, <1>4
    <3> HIDE DEF g
    <3>2. g % r = g
      BY <3>1, <1>1, DivModIs
    <3> QED
      BY <3>1, <3>2 DEF g
  <2>2. z = Zeros(g)
    BY <2>1 DEF Pad
  <2>3. IsSeq(z) /\ Len(z) = g /\ \A i \in 1 .. g : z[i] = Zero
    <3> HIDE DEF g, z
    <3> QED
      BY <2>1, <2>2, ZerosFacts
  <2>4. u + Len(z) = r
    <3> HIDE DEF u, z
    <3> QED
      BY <1>1, <2>3
  <2>5. XoredInto(now, u, z) = now
    <3>1. IsSeq(now) /\ Len(now) = Length
      BY FillFacts
    <3>2. DOMAIN now = 1 .. Length /\ now = [i \in 1 .. Length |-> now[i]]
      BY <3>1, SeqFacts
    <3>3. DOMAIN z = 1 .. g
      BY <2>3, SeqFacts
    <3> HIDE DEF now, u, z, g
    <3>4. \A i \in 1 .. Length : i - u \in 1 .. g => Xor(z[i - u], now[i]) = now[i]
      BY <2>3, XorFacts
    <3> QED
      BY <3>2, <3>3, <3>4 DEF XoredInto
  <2>6. /\ Len(t \o z) % r = 0 /\ IsSeq(t \o z)
        /\ Context(Append(past, XoredInto(now, u, z)), Zeros(Length), 0, r) = Sunk(t \o z, Len(t \o z), r)
    <3> HIDE DEF z
    <3>1. IsSeq(z) /\ (Len(t) % r) + Len(z) = r
      BY <2>3, <2>4
    <3> QED
      BY <3>1, BlockFilled
  <2>7. NextBlock(s) = Context(Append(past, now), Zeros(Length), 0, r)
    <3> HIDE DEF s, past, now, u
    <3>1. 0 \in Nat
      OBVIOUS
    <3>2. /\ u + 0 = r => Advance(Context(past, now, u, r), 0) = Context(Append(past, now), Zeros(Length), 0, r)
          /\ u + 0 # r => Advance(Context(past, now, u, r), 0) = Context(past, now, u + 0, r)
          /\ NextBlock(Context(past, now, u, r)) = Context(Append(past, now), Zeros(Length), 0, r)
      BY AdvanceIs
    <3> QED
      BY <1>2, <3>2
  <2> HIDE DEF past, now, z, s
  <2> QED
    BY <1>2, <1>4, <2>3, <2>5, <2>6, <2>7 DEF z, s
<1> QED
  BY <1>3, <1>4

\* Whole blocks before a text do not move its end in the block.
LEMMA AfterBlocks ==
    ASSUME NEW a \in Nat, NEW b \in Nat, NEW r \in Nat \ {0}, a % r = 0
    PROVE  (a + b) % r = b % r
<1> DEFINE p == a \div r
           q == b \div r
           w == b % r
           x == p * r
           y == q * r
<1>1. p \in Nat /\ q \in Nat /\ w \in Nat /\ w < r /\ a = x + 0 /\ b = y + w /\ x \in Nat /\ y \in Nat
  <2>1. p \in Nat /\ a = p * r + (a % r)
    BY DivMod
  <2>2. q \in Nat /\ w \in Nat /\ w < r /\ b = q * r + w
    BY DivMod
  <2>3. p * r \in Nat /\ q * r \in Nat
    BY <2>1, <2>2
  <2> QED
    BY <2>1, <2>2, <2>3
<1>2. x + y = (p + q) * r /\ p + q \in Nat
  BY <1>1
<1> HIDE DEF w
<1>3. a + b = (p + q) * r + w
  <2> DEFINE v == (p + q) * r
  <2>1. x + y = v
    BY <1>2
  <2> HIDE DEF x, y, v
  <2>2. a + b = v + w
    BY <1>1, <2>1
  <2> QED
    BY <2>2 DEF v
<1> DEFINE e == p + q
           f == a + b
<1> HIDE DEF p, q, e
<1>4. f \in Nat /\ e \in Nat /\ f = e * r + w
  BY <1>2, <1>3 DEF e
<1> HIDE DEF f
<1>5. f % r = w
  BY <1>1, <1>4, DivModIs
<1> QED
  BY <1>5 DEF f, w

\* Encoded lengths are sequences of bytes.
LEMMA EncodedFacts ==
    ASSUME NEW x
    PROVE  IsSeq(LeftEncode(x)) /\ IsSeq(RightEncode(x))
<1> DEFINE l == EncodedLength(x)
           b == BigEndian(x, l)
           o == <<Number(l)>>
<1>1. l \in Nat
  <2>1. 1 \in Nat /\ 2 \in Nat /\ 3 \in Nat /\ 4 \in Nat
    OBVIOUS
  <2> QED
    BY <2>1, Zenon DEF EncodedLength
<1> HIDE DEF l
<1>2. b = [i \in 1 .. l |-> b[i]]
  BY DEF BigEndian
<1> HIDE DEF b
<1>3. IsSeq(b)
  BY <1>1, <1>2, FunctionSeq
<1>4. IsSeq(o)
  BY OneFacts
<1>5. LeftEncode(x) = o \o b /\ RightEncode(x) = b \o o
  BY DEF LeftEncode, RightEncode, l, b
<1> HIDE DEF o
<1>6. IsSeq(o \o b) /\ IsSeq(b \o o)
  BY <1>3, <1>4, ConcatFacts
<1> QED
  BY <1>5, <1>6

\* What kmac::init() has the sponge take.
KeyText(r, bytes) ==
    BytePad(KmacPrefix, r) \o BytePad(LeftEncode(8 * Len(bytes)) \o bytes, r)

\* kmac::init() has the sponge take the names and the key, each padded
\* to whole blocks, the key that ends a block included.
LEMMA KeyedIs ==
    ASSUME NEW r, RateOK(r), r > 3, NEW bytes, IsSeq(bytes)
    PROVE  /\ IsSeq(KeyText(r, bytes))
           /\ Keyed(r, bytes) = Sunk(KeyText(r, bytes), Len(KeyText(r, bytes)), r)
<1> DEFINE p == PushRate(r)
           f == p \o KmacPrefix
           a == f \o Pad(f, r)
           e == LeftEncode(8 * Len(bytes))
           g == p \o e \o bytes
           t == a \o g
           b == t \o Pad(t, r)
           named == NextBlock(Consume(EmptySponge(r), f))
           full == Consume(named, g)
<1>0. r \in Nat /\ r \in Nat \ {0} /\ r > 3
  BY DEF RateOK
<1>1. IsSeq(p) /\ Len(p) = 2 /\ IsSeq(KmacPrefix) /\ Len(KmacPrefix) = 1
  <2>1. p \in Seq({Number(1), Number(r)}) /\ Len(p) = 2
    BY DEF PushRate
  <2>2. IsSeq(KmacPrefix) /\ Len(KmacPrefix) = 1
    BY OneFacts DEF KmacPrefix
  <2> QED
    BY <2>1, <2>2, SeqOfSet
<1>2. IsSeq(f) /\ Len(f) = 3
  <2> HIDE DEF p
  <2>1. IsSeq(f) /\ Len(f) = Len(p) + Len(KmacPrefix)
    BY <1>1, ConcatFacts
  <2> QED
    BY <1>1, <2>1
<1>3. IsSeq(e)
  BY EncodedFacts
<1> HIDE DEF p, e
<1>4. IsSeq(g) /\ g = p \o (e \o bytes) /\ IsSeq(e \o bytes)
  <2>1. IsSeq(p) /\ IsSeq(e) /\ IsSeq(p \o e) /\ IsSeq(e \o bytes)
    BY <1>1, <1>3, ConcatFacts
  <2> DEFINE w == p \o e
  <2> HIDE DEF w
  <2>2. IsSeq(w \o bytes)
    BY <2>1, ConcatFacts DEF w
  <2>3. (p \o e) \o bytes = p \o (e \o bytes)
    BY <2>1, Regroup
  <2> QED
    BY <2>1, <2>2, <2>3 DEF w
<1> HIDE DEF f, g
<1>5. Consume(EmptySponge(r), f) = Sunk(f, Len(f), r)
  <2>1. EmptySponge(r) = Sunk(<<>>, Len(<<>>), r)
    BY EmptyIs
  <2>2. Consume(Sunk(<<>>, Len(<<>>), r), f) = Sunk(<<>> \o f, Len(<<>> \o f), r)
    BY <1>2, EmptyIsSeq, ConsumeIs
  <2>3. <<>> \o f = f
    BY <1>2, ConcatEmpty
  <2> QED
    BY <2>1, <2>2, <2>3
<1>6. IsSeq(a) /\ Len(a) % r = 0 /\ named = Sunk(a, Len(a), r)
  <2>1. /\ IsSeq(f \o Pad(f, r)) /\ Len(f \o Pad(f, r)) % r = 0
        /\ Sunk(f, Len(f), r).ptr # 0 =>
             NextBlock(Sunk(f, Len(f), r)) = Sunk(f \o Pad(f, r), Len(f \o Pad(f, r)), r)
    BY <1>2, NextBlockIs
  <2>2. Sunk(f, Len(f), r).ptr # 0
    <3>1. Sunk(f, Len(f), r).ptr = 3 % r
      BY <1>2 DEF Sunk
    <3>2. 3 % r = 3
      <4>1. 3 = 0 * r + 3 /\ 3 \in Nat /\ 0 \in Nat /\ 3 < r
        BY <1>0
      <4> QED
        BY <4>1, <1>0, DivModIs
    <3> QED
      BY <3>1, <3>2
  <2> QED
    BY <1>5, <2>1, <2>2
<1>7. BytePad(KmacPrefix, r) = a
  BY DEF BytePad, Pad, f, p
<1> HIDE DEF a, named
<1>8. full = Sunk(t, Len(t), r)
  BY <1>4, <1>6, ConsumeIs
<1>9. IsSeq(t) /\ IsSeq(b) /\ (full.ptr = 0 => full = Sunk(b, Len(b), r))
      /\ (full.ptr # 0 => NextBlock(full) = Sunk(b, Len(b), r)) /\ IsSeq(Pad(t, r))
  <2>1. IsSeq(t)
    BY <1>4, <1>6, ConcatFacts
  <2> HIDE DEF t
  <2>2. /\ IsSeq(t \o Pad(t, r)) /\ IsSeq(Pad(t, r))
        /\ Sunk(t, Len(t), r).ptr = 0 => Sunk(t, Len(t), r) = Sunk(t \o Pad(t, r), Len(t \o Pad(t, r)), r)
        /\ Sunk(t, Len(t), r).ptr # 0 =>
             NextBlock(Sunk(t, Len(t), r)) = Sunk(t \o Pad(t, r), Len(t \o Pad(t, r)), r)
    BY <2>1, NextBlockIs
  <2> QED
    BY <2>1, <2>2, <1>8
<1>10. Keyed(r, bytes) = Sunk(b, Len(b), r)
  <2>1. Keyed(r, bytes) = IF full.ptr = 0 THEN full ELSE NextBlock(full)
    BY DEF Keyed, named, f, g, e, p
  <2> HIDE DEF full, b
  <2> QED
    BY <1>9, <2>1
<1>11. Pad(t, r) = Pad(g, r)
  <2>1. Len(t) = Len(a) + Len(g)
    BY <1>4, <1>6, ConcatFacts
  <2>2. Len(a) \in Nat /\ Len(g) \in Nat
    BY <1>4, <1>6, SeqFacts
  <2>3. (Len(a) + Len(g)) % r = Len(g) % r
    <3> DEFINE la == Len(a)
               lg == Len(g)
    <3>1. la \in Nat /\ lg \in Nat /\ la % r = 0
      BY <1>6, <2>2
    <3> HIDE DEF la, lg
    <3>2. (la + lg) % r = lg % r
      BY <3>1, <1>0, AfterBlocks
    <3> QED
      BY <3>2 DEF la, lg
  <2> HIDE DEF t
  <2> QED
    BY <2>1, <2>3 DEF Pad
<1>12. BytePad(e \o bytes, r) = g \o Pad(g, r)
  BY <1>4 DEF BytePad, Pad, p
<1>13. b = a \o (g \o Pad(g, r))
  <2> DEFINE z == Pad(t, r)
  <2>1. IsSeq(a) /\ IsSeq(g) /\ IsSeq(z)
    BY <1>4, <1>6, <1>9
  <2> HIDE DEF z
  <2>2. (a \o g) \o z = a \o (g \o z)
    BY <2>1, Regroup
  <2> QED
    BY <1>11, <2>2 DEF z
<1>14. KeyText(r, bytes) = b
  BY <1>7, <1>12, <1>13 DEF KeyText, e
<1> QED
  BY <1>9, <1>10, <1>14

-----------------------------------------------------------------------------
(* The objects.                                                            *)

\* The sponge has taken this text, at this rate.
TookText(s, t, r) == s = Sunk(t, Len(t), r)

\* The blocks of a whole text, a sponge that took them and gave n bytes, and
\* the bytes it gave.
TextBlocks(t, f) == RateBlocks(PaddedFor(t, Suffix(f), Rate(f)), Rate(f))

Gave(s, t, f, n) == s = Spent(TextBlocks(t, f), Rate(f), n)

Answer(d, t, f) == IsSeq(d) /\ \A i \in 1 .. Len(d) : d[i] = SpongeByte(TextBlocks(t, f), Rate(f), i)

\* Between calls, a sponge stands where its message and its output do.
SpongeInv ==
    /\ kind \in Kind /\ m_macLength \in Nat
    /\ IsSeq(absorbed) /\ IsSeq(drawn) /\ IsSeq(key)
    /\ kind.name # "shake" => m_generating = FALSE
    /\ kind.name = "sha3" => TookText(k, IF drawn = <<>> THEN absorbed ELSE <<>>, Rate(kind))
    /\ kind.name = "shake" /\ ~m_generating => drawn = <<>> /\ TookText(k, absorbed, Rate(kind))
    /\ kind.name = "shake" /\ m_generating => Gave(k, absorbed, kind, Len(drawn)) /\ Answer(drawn, absorbed, kind)
    /\ kind.name = "kmac" /\ m_macLength # 0 /\ drawn = <<>> =>
          TookText(k, KeyText(Rate(kind), key) \o absorbed, Rate(kind))
    /\ SpongeRight

\* What the assumptions say of a function that can be chosen.
LEMMA KindFacts ==
    ASSUME NEW f \in Kind
    PROVE  /\ RateOK(Rate(f)) /\ f.name \in {"sha3", "shake", "kmac"}
           /\ f.name = "sha3" => /\ f.variant \in Nat /\ f.variant # 0
                                 /\ (Length - Rate(f)) \div 2 = f.variant
           /\ f.name = "kmac" => Rate(f) > 3
<1>1. Length \in Nat
  BY SpongeAssumption
<1>2. /\ Rate(f) \in 1 .. Length
      /\ f.name = "sha3" => f.variant # 0
      /\ f.name = "kmac" => Rate(f) > 3
  BY RateAssumption
<1>3. f.name \in {"sha3", "shake", "kmac"} /\ f.variant \in Nat
  <2>1. f \in [name : {"sha3", "shake", "kmac"}, variant : Nat]
    BY SpongeAssumption
  <2> QED
    BY <2>1
<1>4. RateOK(Rate(f))
  BY <1>1, <1>2 DEF RateOK
<1>5. f.name = "sha3" => (Length - Rate(f)) \div 2 = f.variant
  <2> HAVE f.name = "sha3"
  <2> DEFINE v == f.variant
  <2>1. Rate(f) = Length - 2 * v
    BY DEF Rate
  <2>2. v \in Nat
    BY <1>3
  <2> HIDE DEF v
  <2>3. (Length - (Length - 2 * v)) \div 2 = v
    BY <1>1, <2>2
  <2> QED
    BY <2>1, <2>3 DEF v
<1> QED
  BY <1>2, <1>3, <1>4, <1>5

\* finish() of a sponge that took a text.
LEMMA FinishGives ==
    ASSUME NEW f \in Kind, NEW t, IsSeq(t), NEW s, TookText(s, t, Rate(f))
    PROVE  Gave(FinishSponge(s, Suffix(f)), t, f, 0) /\ BlocksOK(TextBlocks(t, f))
<1> DEFINE r == Rate(f)
           p == PaddedFor(t, Suffix(f), r)
<1>1. RateOK(r)
  BY KindFacts
<1>2. s = Sunk(t, Len(t), r)
  BY DEF TookText
<1> HIDE DEF r
<1>3. /\ FinishSponge(s, Suffix(f)) = Context(RateBlocks(p, r), Zeros(Length), 0, r)
      /\ IsSeq(p) /\ Len(p) # 0 /\ Len(p) \in Nat /\ Len(p) % r = 0
  BY <1>1, <1>2, FinishSpongeIs
<1> HIDE DEF p
<1>4. BlocksOK(RateBlocks(p, r))
  BY <1>1, <1>3, RateBlocksFacts
<1> DEFINE b == RateBlocks(p, r)
<1> HIDE DEF b
<1>5. Context(b, Zeros(Length), 0, r) = Spent(b, r, 0)
  <2>1. IsSeq(b)
    BY <1>4 DEF BlocksOK, b
  <2> QED
    BY <1>1, <2>1, SpentStart
<1> QED
  BY <1>3, <1>4, <1>5 DEF Gave, TextBlocks, b, p, r

\* A padded text has a block at least.
LEMMA TextBlocksOK ==
    ASSUME NEW f \in Kind, NEW t, IsSeq(t)
    PROVE  BlocksOK(TextBlocks(t, f))
<1>1. TookText(Sunk(t, Len(t), Rate(f)), t, Rate(f))
  BY DEF TookText
<1> QED
  BY <1>1, FinishGives

\* Byte for byte the output of the standard.
LEMMA AnswerIs ==
    ASSUME NEW d, NEW t, NEW f, Answer(d, t, f)
    PROVE  d = Squeezed(TextBlocks(t, f), Rate(f), Len(d))
<1> DEFINE b == TextBlocks(t, f)
           r == Rate(f)
           e == Squeezed(b, r, Len(d))
<1>1. IsSeq(d) /\ \A i \in 1 .. Len(d) : d[i] = SpongeByte(b, r, i)
  BY DEF Answer
<1> HIDE DEF b, r
<1>2. e = [i \in 1 .. Len(d) |-> SpongeByte(b, r, i)]
  BY DEF Squeezed, SpongeByte, Blank
<1> HIDE DEF e
<1>3. d = [i \in 1 .. Len(d) |-> d[i]]
  BY <1>1, SeqFacts
<1> QED
  BY <1>1, <1>2, <1>3 DEF e, b, r

\* produce() continues the answer.
LEMMA AnswerContinued ==
    ASSUME NEW f \in Kind, NEW t, NEW s, NEW d, Gave(s, t, f, Len(d)), Answer(d, t, f),
           BlocksOK(TextBlocks(t, f)), NEW n \in Nat
    PROVE  /\ Gave(Produce(s, n).k, t, f, Len(d \o Produce(s, n).out))
           /\ Answer(d \o Produce(s, n).out, t, f)
           /\ Len(d \o Produce(s, n).out) = Len(d) + n
           /\ Produce(s, n).out = d \o Produce(s, n).out \/ Len(d) # 0
<1> DEFINE b == TextBlocks(t, f)
           r == Rate(f)
           o == Produce(s, n).out
           l == Len(d)
           w == d \o o
<1>1. RateOK(r) /\ BlocksOK(b)
  BY KindFacts
<1>2. s = Spent(b, r, l)
  BY DEF Gave
<1>3. IsSeq(d) /\ \A i \in 1 .. Len(d) : d[i] = SpongeByte(b, r, i)
  BY DEF Answer
<1>4. l \in Nat
  BY <1>3, SeqFacts
<1> HIDE DEF b, r
<1>5. Squeezing(Produce(s, n), b, r, l, n, n)
  <2> HIDE DEF l
  <2> QED
    BY <1>1, <1>2, <1>4, ProduceIs
<1>6. /\ Produce(s, n).k = Spent(b, r, l + n) /\ IsSeq(o) /\ Len(o) = n
      /\ \A i \in 1 .. n : o[i] = SpongeByte(b, r, l + i)
  BY <1>5 DEF Squeezing
<1> HIDE DEF o
<1>7. /\ IsSeq(w) /\ Len(w) = l + n /\ (\A i \in 1 .. l : w[i] = d[i])
      /\ \A i \in 1 .. n : w[l + i] = o[i]
  <2>1. IsSeq(d) /\ IsSeq(o)
    BY <1>3, <1>6
  <2>2. /\ IsSeq(w) /\ Len(w) = Len(d) + Len(o) /\ (\A i \in 1 .. Len(d) : w[i] = d[i])
        /\ \A i \in 1 .. Len(o) : w[Len(d) + i] = o[i]
    BY <2>1, ConcatFacts
  <2>3. Len(o) = n
    BY <1>6
  <2> QED
    BY <2>2, <2>3
<1>8. l = 0 => w = o
  <2> HAVE l = 0
  <2>1. d = <<>>
    <3>1. \A i \in 1 .. Len(d) : d[i] = <<>>[i]
      OBVIOUS
    <3>2. Len(d) = Len(<<>>) /\ IsSeq(<<>>)
      BY EmptyIsSeq
    <3> QED
      BY <1>3, <3>1, <3>2, SameSeq
  <2> QED
    BY <1>6, <2>1, ConcatEmpty
<1> HIDE DEF w
<1>9. ASSUME NEW i \in 1 .. Len(w) PROVE w[i] = SpongeByte(b, r, i)
  <2>1. CASE i <= l
    <3>1. i \in 1 .. l
      BY <2>1, <1>4, <1>7
    <3> QED
      BY <3>1, <1>3, <1>7
  <2>2. CASE ~(i <= l)
    <3> DEFINE e == i - l
    <3>1. e \in 1 .. n /\ l + e = i
      BY <2>2, <1>4, <1>7
    <3> HIDE DEF e
    <3>2. w[l + e] = SpongeByte(b, r, l + e)
      BY <3>1, <1>6, <1>7
    <3> QED
      BY <3>1, <3>2
  <2> QED
    BY <2>1, <2>2
<1>10. Gave(Produce(s, n).k, t, f, Len(w))
  BY <1>6, <1>7 DEF Gave, b, r
<1>11. Answer(w, t, f)
  BY <1>7, <1>9 DEF Answer, b, r
<1> QED
  BY <1>7, <1>8, <1>10, <1>11 DEF w, o

\* Before the first byte of output.
LEMMA NothingDrawn ==
    ASSUME NEW t, NEW f
    PROVE  Answer(<<>>, t, f) /\ Len(<<>>) = 0
BY EmptyIsSeq DEF Answer

\* With nothing drawn there is no answer to be wrong.
LEMMA NothingWrong == ASSUME drawn' = <<>> PROVE SpongeRight'
BY DEF SpongeRight

\* update() continues the text.
LEMMA TookMore ==
    ASSUME NEW s, NEW t, IsSeq(t), NEW data, IsSeq(data), NEW r, RateOK(r), TookText(s, t, r)
    PROVE  TookText(Consume(s, data), t \o data, r) /\ IsSeq(t \o data)
<1>1. s = Sunk(t, Len(t), r)
  BY DEF TookText
<1>2. Consume(Sunk(t, Len(t), r), data) = Sunk(t \o data, Len(t \o data), r)
  BY ConsumeIs
<1>3. IsSeq(t \o data)
  BY ConcatFacts
<1> QED
  BY <1>1, <1>2, <1>3 DEF TookText

\* reset() begins a new one.
LEMMA TookNothing == ASSUME NEW r, RateOK(r) PROVE TookText(EmptySponge(r), <<>>, r)
BY EmptyIs DEF TookText

\* The objects as constructed.
LEMMA SpongeStarts == SpongeInit => SpongeInv
<1> SUFFICES ASSUME SpongeInit PROVE SpongeInv
  OBVIOUS
<1>1. /\ kind \in Kind /\ k = EmptySponge(Rate(kind)) /\ m_generating = FALSE
      /\ m_macLength = 0 /\ key = <<>> /\ absorbed = <<>> /\ drawn = <<>>
  BY DEF SpongeInit
<1>2. RateOK(Rate(kind))
  BY <1>1, KindFacts
<1>3. TookText(k, <<>>, Rate(kind))
  BY <1>1, <1>2, TookNothing
<1>4. IsSeq(<<>>)
  BY EmptyIsSeq
<1> QED
  BY <1>1, <1>3, <1>4 DEF SpongeInv, SpongeRight

\* sha3::reset(), shake::reset().
LEMMA ResetKeeps == ASSUME SpongeInv, NEW f, SpongeReset(f) PROVE SpongeInv'
<1>1. /\ f \in Kind /\ f.name = kind.name /\ f.name # "kmac" /\ kind' = f
      /\ k' = EmptySponge(Rate(f)) /\ m_generating' = FALSE
      /\ absorbed' = <<>> /\ drawn' = <<>> /\ m_macLength' = m_macLength /\ key' = key
  BY DEF SpongeReset
<1>2. m_macLength \in Nat /\ IsSeq(key)
  BY DEF SpongeInv
<1>3. RateOK(Rate(f))
  BY <1>1, KindFacts
<1>4. TookText(k', <<>>, Rate(f)) /\ IsSeq(<<>>)
  BY <1>1, <1>3, TookNothing, EmptyIsSeq
<1>5. SpongeRight'
  BY <1>1, NothingWrong
<1> QED
  BY <1>1, <1>2, <1>4, <1>5 DEF SpongeInv

\* update() of each function, before and after output.
LEMMA SpongeUpdateKeeps ==
    ASSUME SpongeInv, NEW n \in SpongePieces, SpongeUpdate(n)
    PROVE  SpongeInv'
<1> DEFINE restart == (kind.name = "shake" /\ m_generating) \/ (kind.name = "sha3" /\ drawn # <<>>)
           data == IF restart THEN Supplied("message", 0, n) ELSE Fresh(n)
           base == IF kind.name = "shake" /\ m_generating THEN EmptySponge(k.rate) ELSE k
           r == Rate(kind)
<1>1. /\ (kind.name = "kmac") => (m_macLength # 0 /\ drawn = <<>>)
      /\ absorbed' = (IF restart THEN data ELSE absorbed \o data)
      /\ k' = Consume(base, data)
      /\ m_generating' = (m_generating /\ kind.name # "shake")
      /\ drawn' = (IF restart THEN <<>> ELSE drawn)
      /\ m_macLength' = m_macLength /\ kind' = kind /\ key' = key
  BY DEF SpongeUpdate
<1>2. /\ kind \in Kind /\ m_macLength \in Nat /\ IsSeq(absorbed) /\ IsSeq(drawn) /\ IsSeq(key)
      /\ kind.name # "shake" => m_generating = FALSE
  BY DEF SpongeInv
<1>3. RateOK(r) /\ kind.name \in {"sha3", "shake", "kmac"} /\ (kind.name = "kmac" => r > 3)
  BY <1>2, KindFacts
<1>4. IsSeq(data)
  <2>1. n \in Nat
    BY SpongeAssumption
  <2> QED
    BY <2>1, SuppliedFacts DEF Fresh
<1>5. <<>> \o data = data /\ IsSeq(<<>>) /\ Len(<<>>) = 0
  BY <1>4, ConcatEmpty, EmptyIsSeq
<1>6. absorbed \o data = absorbed' \/ restart
  BY <1>1
<1> HIDE DEF data
<1>7. IsSeq(absorbed \o data) /\ IsSeq(absorbed')
  <2>1. IsSeq(absorbed \o data)
    BY <1>2, <1>4, ConcatFacts
  <2> QED
    BY <2>1, <1>1, <1>4
<1>8. CASE kind.name = "sha3"
  <2>1. TookText(k, IF drawn = <<>> THEN absorbed ELSE <<>>, r)
    BY <1>8 DEF SpongeInv
  <2>2. base = k /\ drawn' = <<>> /\ m_generating' = FALSE
    BY <1>1, <1>2, <1>8
  <2>3. TookText(k', absorbed', r)
    <3>1. CASE drawn = <<>>
      <4>1. TookText(k, absorbed, r)
        BY <2>1, <3>1
      <4>2. ~restart
        BY <1>8, <3>1
      <4>3. TookText(Consume(k, data), absorbed \o data, r)
        BY <4>1, <1>2, <1>3, <1>4, TookMore
      <4> QED
        BY <4>2, <4>3, <1>1, <2>2
    <3>2. CASE drawn # <<>>
      <4>1. TookText(k, <<>>, r)
        BY <2>1, <3>2
      <4>2. restart
        BY <1>8, <3>2
      <4>3. TookText(Consume(k, data), <<>> \o data, r)
        BY <4>1, <1>5, <1>3, <1>4, TookMore
      <4> QED
        BY <4>2, <4>3, <1>1, <1>5, <2>2
    <3> QED
      BY <3>1, <3>2
  <2>4. SpongeRight'
    BY <2>2, NothingWrong
  <2> QED
    BY <1>1, <1>2, <1>5, <1>7, <1>8, <2>2, <2>3, <2>4 DEF SpongeInv
<1>9. CASE kind.name = "shake"
  <2>1. drawn' = <<>> /\ m_generating' = FALSE /\ TookText(k', absorbed', r)
    <3>1. CASE m_generating
      <4>1. Gave(k, absorbed, kind, Len(drawn))
        BY <1>9, <3>1 DEF SpongeInv
      <4>2. k.rate = r
        BY <4>1 DEF Gave, Spent, Context
      <4>3. restart /\ base = EmptySponge(r)
        BY <1>9, <3>1, <4>2
      <4>4. TookText(Consume(EmptySponge(r), data), <<>> \o data, r)
        BY <1>3, <1>4, <1>5, TookNothing, TookMore
      <4> QED
        BY <4>3, <4>4, <1>1, <1>5, <1>9
    <3>2. CASE ~m_generating
      <4>1. drawn = <<>> /\ TookText(k, absorbed, r)
        BY <1>9, <3>2 DEF SpongeInv
      <4>2. ~restart /\ base = k
        BY <1>9, <3>2
      <4>3. TookText(Consume(k, data), absorbed \o data, r)
        BY <4>1, <1>2, <1>3, <1>4, TookMore
      <4> QED
        BY <4>1, <4>2, <4>3, <1>1, <1>9
    <3> QED
      BY <3>1, <3>2
  <2>2. SpongeRight'
    BY <2>1, NothingWrong
  <2> QED
    BY <1>1, <1>2, <1>5, <1>7, <1>9, <2>1, <2>2 DEF SpongeInv
<1>10. CASE kind.name = "kmac"
  <2> DEFINE t == KeyText(r, key)
  <2>1. m_macLength # 0 /\ drawn = <<>> /\ ~restart /\ base = k /\ drawn' = <<>> /\ m_generating' = FALSE
    BY <1>1, <1>2, <1>10
  <2>2. TookText(k, t \o absorbed, r)
    BY <1>10, <2>1 DEF SpongeInv
  <2>3. IsSeq(t)
    BY <1>2, <1>3, <1>10, KeyedIs
  <2> HIDE DEF t
  <2>4. IsSeq(t \o absorbed) /\ (t \o absorbed) \o data = t \o (absorbed \o data)
    <3>1. IsSeq(t) /\ IsSeq(absorbed) /\ IsSeq(data)
      BY <2>3, <1>2, <1>4
    <3>2. IsSeq(t \o absorbed)
      BY <3>1, ConcatFacts
    <3>3. (t \o absorbed) \o data = t \o (absorbed \o data)
      BY <3>1, Regroup
    <3> QED
      BY <3>2, <3>3
  <2>5. TookText(Consume(k, data), (t \o absorbed) \o data, r)
    BY <2>2, <2>4, <1>3, <1>4, TookMore
  <2>6. TookText(k', t \o absorbed', r)
    BY <1>1, <2>1, <2>4, <2>5
  <2>7. SpongeRight'
    BY <2>1, NothingWrong
  <2> QED
    BY <1>1, <1>2, <1>5, <1>7, <1>10, <2>1, <2>6, <2>7 DEF SpongeInv, t
<1> QED
  BY <1>3, <1>8, <1>9, <1>10

\* The text of a function that needs no key is its message.
LEMMA PlainInput ==
    ASSUME NEW f, f.name # "kmac", NEW n
    PROVE  Expected(f, n) = Squeezed(TextBlocks(absorbed, f), Rate(f), n)
BY DEF Expected, Input, TextBlocks

\* The text of a KMAC: the padded key, the message, the length.
LEMMA KeyedInput ==
    ASSUME NEW f, f.name = "kmac", NEW n,
           IsSeq(KeyText(Rate(f), key)), IsSeq(absorbed), IsSeq(RightEncode(8 * m_macLength))
    PROVE  Expected(f, n) =
             Squeezed(TextBlocks((KeyText(Rate(f), key) \o absorbed) \o RightEncode(8 * m_macLength), f),
                      Rate(f), n)
BY DEF Expected, Input, TextBlocks, KeyText

\* sha3::finish().
LEMMA Sha3FinishKeeps == ASSUME SpongeInv, Sha3Finish PROVE SpongeInv'
<1> DEFINE r == Rate(kind)
           t == IF drawn = <<>> THEN absorbed ELSE <<>>
           closed == FinishSponge(k, Suffix(kind))
           v == kind.variant
           b == TextBlocks(t, kind)
           d == [i \in 1 .. v |-> StateByte(closed.st, i - 1)]
<1>1. /\ kind.name = "sha3" /\ absorbed' = (IF drawn = <<>> THEN absorbed ELSE <<>>)
      /\ drawn' = [i \in 1 .. (Length - k.rate) \div 2 |-> StateByte(closed.st, i - 1)]
      /\ k' = EmptySponge(k.rate)
      /\ m_generating' = m_generating /\ m_macLength' = m_macLength /\ kind' = kind /\ key' = key
  BY DEF Sha3Finish
<1>2. /\ kind \in Kind /\ m_macLength \in Nat /\ IsSeq(absorbed) /\ IsSeq(drawn) /\ IsSeq(key)
      /\ m_generating = FALSE /\ TookText(k, t, r)
  BY <1>1 DEF SpongeInv
<1>3. /\ RateOK(r) /\ v \in Nat /\ v # 0 /\ (Length - r) \div 2 = v
  BY <1>1, <1>2, KindFacts
<1>4. k.rate = r
  BY <1>2 DEF TookText, Sunk
<1>5. IsSeq(t) /\ absorbed' = t
  BY <1>1, <1>2, EmptyIsSeq
<1>6. drawn' = d
  BY <1>1, <1>3, <1>4
<1> HIDE DEF t
<1>7. Gave(closed, t, kind, 0) /\ BlocksOK(b)
  BY <1>2, <1>5, FinishGives
<1>8. closed = Spent(b, r, 0)
  BY <1>7 DEF Gave
<1> HIDE DEF closed, b, r, v
<1>9. ASSUME NEW i \in 1 .. v, i <= r PROVE StateByte(closed.st, i - 1) = SpongeByte(b, r, i)
  <2> DEFINE j == i - 1
  <2>1. j \in Nat /\ j < r /\ j + 1 = i /\ r \in Nat \ {0} /\ r \in Nat
    BY <1>3, <1>9 DEF RateOK
  <2>2. 0 % r = 0
    BY <2>1
  <2>3. (0 % r) + j < r /\ 0 \in Nat
    BY <2>1, <2>2
  <2> HIDE DEF j
  <2>4. StateByte(Spent(b, r, 0).st, Spent(b, r, 0).ptr + (j + 1) - 1) = SpongeByte(b, r, 0 + (j + 1))
    BY <1>3, <1>7, <2>1, <2>3, StateByteIs
  <2>5. Spent(b, r, 0).ptr = 0
    BY <2>2 DEF Spent, Context
  <2>6. 0 + (j + 1) - 1 = j /\ 0 + (j + 1) = i
    BY <2>1
  <2>7. StateByte(closed.st, j) = SpongeByte(b, r, i)
    BY <1>8, <2>4, <2>5, <2>6
  <2> QED
    BY <2>7 DEF j
<1>10. IsSeq(d) /\ Len(d) = v /\ \A i \in 1 .. v : i <= r => d[i] = SpongeByte(b, r, i)
  <2>1. d = [i \in 1 .. v |-> d[i]] /\ \A i \in 1 .. v : d[i] = StateByte(closed.st, i - 1)
    OBVIOUS
  <2> HIDE DEF d
  <2>2. IsSeq(d) /\ Len(d) = v
    BY <2>1, <1>3, FunctionSeq
  <2> QED
    BY <2>1, <2>2, <1>9
<1> HIDE DEF d
<1>11. drawn' # <<>>
  <2>1. Len(drawn') # Len(<<>>)
    BY <1>3, <1>6, <1>10, EmptyIsSeq
  <2> QED
    BY <2>1
<1>12. ASSUME NEW i \in 1 .. v, i <= r PROVE d[i] = Squeezed(b, r, v)[i]
  BY <1>10, <1>12 DEF Squeezed, SpongeByte, Blank
<1>13. SpongeRight'
  <2>1. Len(drawn') = v /\ drawn' = d
    BY <1>6, <1>10
  <2>2. Squeezed(b, r, Len(drawn')) = Expected(kind, Len(drawn))'
    BY <1>1, <1>5 DEF Expected, Input, TextBlocks, b, r
  <2>3. Expected(kind, Len(drawn))' = Squeezed(b, r, v)
    BY <2>1, <2>2
  <2>4. \A i \in 1 .. Len(drawn') : i <= Rate(kind') => drawn'[i] = Expected(kind, Len(drawn))'[i]
    BY <1>1, <1>12, <2>1, <2>3 DEF r
  <2> QED
    BY <1>1, <2>1, <2>4 DEF SpongeRight, v
<1>14. TookText(k', <<>>, r)
  BY <1>1, <1>3, <1>4, TookNothing
<1> QED
  BY <1>1, <1>2, <1>5, <1>6, <1>10, <1>11, <1>13, <1>14 DEF SpongeInv, r

\* shake::generate(), the first call and the later ones.
LEMMA GenerateKeeps ==
    ASSUME SpongeInv, NEW n \in SpongePieces, Generate(n)
    PROVE  SpongeInv'
<1> DEFINE s == IF m_generating THEN k ELSE FinishSponge(k, Suffix(kind))
           made == Produce(s, n)
           w == drawn \o made.out
<1>1. /\ kind.name = "shake" /\ k' = made.k /\ drawn' = w /\ m_generating' = TRUE
      /\ m_macLength' = m_macLength /\ kind' = kind /\ key' = key /\ absorbed' = absorbed
  BY DEF Generate
<1>2. /\ kind \in Kind /\ m_macLength \in Nat /\ IsSeq(absorbed) /\ IsSeq(drawn) /\ IsSeq(key)
  BY DEF SpongeInv
<1>3. n \in Nat
  BY SpongeAssumption
<1>4. /\ Gave(s, absorbed, kind, Len(drawn)) /\ Answer(drawn, absorbed, kind)
      /\ BlocksOK(TextBlocks(absorbed, kind))
  <2>1. CASE m_generating
    <3>1. Gave(k, absorbed, kind, Len(drawn)) /\ Answer(drawn, absorbed, kind)
      BY <1>1, <2>1 DEF SpongeInv
    <3>2. BlocksOK(TextBlocks(absorbed, kind))
      BY <1>2, TextBlocksOK
    <3> QED
      BY <2>1, <3>1, <3>2
  <2>2. CASE ~m_generating
    <3>1. drawn = <<>> /\ TookText(k, absorbed, Rate(kind))
      BY <1>1, <2>2 DEF SpongeInv
    <3>2. Gave(FinishSponge(k, Suffix(kind)), absorbed, kind, 0) /\ BlocksOK(TextBlocks(absorbed, kind))
      BY <1>2, <3>1, FinishGives
    <3>3. Answer(<<>>, absorbed, kind) /\ Len(<<>>) = 0
      BY NothingDrawn
    <3> QED
      BY <2>2, <3>1, <3>2, <3>3
  <2> QED
    BY <2>1, <2>2
<1> HIDE DEF s
<1>5. Gave(made.k, absorbed, kind, Len(w)) /\ Answer(w, absorbed, kind)
  BY <1>2, <1>3, <1>4, AnswerContinued
<1> HIDE DEF made, w
<1>6. IsSeq(w)
  BY <1>5 DEF Answer
<1>7. SpongeRight'
  <2>1. w = Squeezed(TextBlocks(absorbed, kind), Rate(kind), Len(w))
    BY <1>5, AnswerIs
  <2>2. drawn' = Expected(kind, Len(drawn))'
    BY <1>1, <2>1 DEF Expected, Input, TextBlocks
  <2> QED
    BY <1>1, <2>2 DEF SpongeRight
<1> QED
  BY <1>1, <1>2, <1>5, <1>6, <1>7 DEF SpongeInv

\* kmac::init().
LEMMA KmacInitKeeps ==
    ASSUME SpongeInv, NEW f, NEW n \in SpongeKeys, NEW length \in MacLengths, KmacInit(f, n, length)
    PROVE  SpongeInv'
<1> DEFINE r == Rate(f)
           t == KeyText(r, key')
<1>1. /\ f \in Kind /\ f.name = "kmac" /\ kind.name = "kmac" /\ kind' = f
      /\ key' = Supplied("key", 0, n) /\ m_macLength' = length
      /\ k' = Keyed(r, key') /\ absorbed' = <<>> /\ drawn' = <<>> /\ m_generating' = m_generating
  BY DEF KmacInit
<1>2. n \in Nat /\ length \in Nat
  BY SpongeAssumption
<1>3. IsSeq(key')
  BY <1>1, <1>2, SuppliedFacts
<1>4. RateOK(r) /\ r > 3
  BY <1>1, KindFacts
<1> HIDE DEF r
<1>5. IsSeq(t) /\ k' = Sunk(t, Len(t), r)
  BY <1>1, <1>3, <1>4, KeyedIs
<1> HIDE DEF t
<1>6. TookText(k', t \o <<>>, r)
  BY <1>5, ConcatEmpty DEF TookText
<1>7. m_generating = FALSE /\ IsSeq(<<>>)
  BY <1>1, EmptyIsSeq DEF SpongeInv
<1>8. SpongeRight'
  BY <1>1, NothingWrong
<1>9. TookText(k', KeyText(Rate(kind'), key') \o absorbed', Rate(kind'))
  BY <1>1, <1>6 DEF t, r
<1> QED
  BY <1>1, <1>2, <1>3, <1>7, <1>8, <1>9 DEF SpongeInv

\* kmac::finish().
LEMMA KmacFinishKeeps == ASSUME SpongeInv, KmacFinish PROVE SpongeInv'
<1> DEFINE r == Rate(kind)
           a == KeyText(r, key) \o absorbed
           e == RightEncode(8 * m_macLength)
           t == a \o e
           s == FinishSponge(Consume(k, e), Suffix(kind))
           made == Produce(s, m_macLength)
           o == made.out
<1>1. /\ kind.name = "kmac" /\ m_macLength # 0 /\ drawn = <<>>
      /\ k' = made.k /\ drawn' = o
      /\ m_generating' = m_generating /\ m_macLength' = m_macLength /\ kind' = kind
      /\ key' = key /\ absorbed' = absorbed
  BY DEF KmacFinish
<1>2. /\ kind \in Kind /\ m_macLength \in Nat /\ IsSeq(absorbed) /\ IsSeq(key)
      /\ m_generating = FALSE /\ TookText(k, a, r)
  BY <1>1 DEF SpongeInv
<1>3. RateOK(r) /\ r > 3
  BY <1>1, <1>2, KindFacts
<1>4. IsSeq(KeyText(r, key)) /\ IsSeq(e)
  BY <1>2, <1>3, KeyedIs, EncodedFacts
<1>5. IsSeq(a)
  BY <1>2, <1>4, ConcatFacts
<1> HIDE DEF a, e
<1>6. TookText(Consume(k, e), t, r) /\ IsSeq(t)
  BY <1>2, <1>3, <1>4, <1>5, TookMore
<1> HIDE DEF t
<1>7. Gave(s, t, kind, 0) /\ BlocksOK(TextBlocks(t, kind))
  BY <1>2, <1>6, FinishGives
<1> HIDE DEF s
<1>8. Answer(<<>>, t, kind) /\ Gave(s, t, kind, Len(<<>>))
  BY <1>7, NothingDrawn
<1>9. /\ Answer(<<>> \o o, t, kind) /\ Len(<<>> \o o) = Len(<<>>) + m_macLength
      /\ (o = <<>> \o o \/ Len(<<>>) # 0)
  <2> DEFINE d == <<>>
  <2>1. kind \in Kind /\ m_macLength \in Nat
    BY <1>2
  <2>2. Gave(s, t, kind, Len(d)) /\ Answer(d, t, kind) /\ BlocksOK(TextBlocks(t, kind))
    BY <1>7, <1>8
  <2> HIDE DEF d
  <2>3. /\ Answer(d \o Produce(s, m_macLength).out, t, kind)
        /\ Len(d \o Produce(s, m_macLength).out) = Len(d) + m_macLength
        /\ Produce(s, m_macLength).out = d \o Produce(s, m_macLength).out \/ Len(d) # 0
    BY <2>1, <2>2, AnswerContinued
  <2> QED
    BY <2>3 DEF d
<1>10. Len(<<>>) = 0
  BY EmptyIsSeq
<1>11. Answer(o, t, kind) /\ Len(o) = m_macLength
  BY <1>2, <1>9, <1>10
<1> HIDE DEF o
<1>12. IsSeq(o) /\ o # <<>>
  <2>1. Len(o) # Len(<<>>)
    BY <1>1, <1>10, <1>11
  <2> QED
    BY <2>1, <1>11 DEF Answer
<1>13. SpongeRight'
  <2>1. o = Squeezed(TextBlocks(t, kind), Rate(kind), Len(o))
    BY <1>11, AnswerIs
  <2>2. Expected(kind, Len(o)) = Squeezed(TextBlocks(t, kind), Rate(kind), Len(o))
    BY <1>1, <1>2, <1>4, KeyedInput DEF t, a, e, r
  <2>3. Expected(kind, Len(drawn))' = Expected(kind, Len(o))
    BY <1>1 DEF Expected, Input
  <2> QED
    BY <1>1, <1>11, <2>1, <2>2, <2>3 DEF SpongeRight
<1> QED
  BY <1>1, <1>2, <1>12, <1>13 DEF SpongeInv

\* Every operation keeps the invariant.
LEMMA SpongeKept == SpongeInv /\ [SpongeNext]_spongeVars => SpongeInv'
<1> SUFFICES ASSUME SpongeInv, [SpongeNext]_spongeVars PROVE SpongeInv'
  OBVIOUS
<1>1. ASSUME NEW f \in Kind, SpongeReset(f) PROVE SpongeInv'
  BY <1>1, ResetKeeps
<1>2. ASSUME NEW n \in SpongePieces, SpongeUpdate(n) PROVE SpongeInv'
  BY <1>2, SpongeUpdateKeeps
<1>3. CASE Sha3Finish
  BY <1>3, Sha3FinishKeeps
<1>4. ASSUME NEW n \in SpongePieces, Generate(n) PROVE SpongeInv'
  BY <1>4, GenerateKeeps
<1>5. ASSUME NEW f \in Kind, NEW n \in SpongeKeys, NEW length \in MacLengths, KmacInit(f, n, length)
      PROVE  SpongeInv'
  BY <1>5, KmacInitKeeps
<1>6. CASE KmacFinish
  BY <1>6, KmacFinishKeeps
<1>7. CASE UNCHANGED spongeVars
  BY <1>7 DEF SpongeInv, SpongeRight, Expected, Input, spongeVars
<1> QED
  BY <1>1, <1>2, <1>3, <1>4, <1>5, <1>6, <1>7 DEF SpongeNext

\* Whatever the lengths of the pieces, the sponge has taken the text so far
\* and nothing else, and stands where the bytes given out end
\* (sha3_keccak1600.cpp, sha3_sha3.cpp, sha3_shake.cpp, sha3_kmac.cpp).
THEOREM SpongeInvTheorem == SpongeSpec => []SpongeInv
BY SpongeStarts, SpongeKept, PTL DEF SpongeSpec

\* Every digest, MAC and piece of SHAKE output is that of FIPS 202 and
\* SP 800-185 for the whole message, for any rate and any pieces; of a SHA-3
\* digest longer than the rate, the bytes within the rate.
THEOREM SpongeRightTheorem == SpongeSpec => []SpongeRight
<1>1. SpongeInv => SpongeRight
  BY DEF SpongeInv
<1> QED
  BY <1>1, SpongeInvTheorem, PTL

=============================================================================
