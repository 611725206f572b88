----------------------------- MODULE Stm32Pcd_proof -----------------------------
(***************************************************************************)
(* The driver of the STM32 peripheral forgets no call, hears SETUP packets *)
(* unless a packet crosses a write of a status, delivers packets whole,    *)
(* keeps its buffers apart and implements the contract of a controller:    *)
(* for every table of endpoints, packet and memory size and both access    *)
(* widths.                                                                 *)
(***************************************************************************)
EXTENDS Stm32Pcd, SequenceTheorems, WellFoundedInduction, TLAPS

-----------------------------------------------------------------------------
(* The inductive invariant.                                                *)

EpIn  == <<0, "in">>
EpOut == <<0, "out">>

PcdTypeOK ==
    /\ stat \in [Directions -> {Disabled, Stall, Nak, Valid}]
    /\ ctr \subseteq Directions /\ setup \in BOOLEAN
    /\ resetFlag \in BOOLEAN /\ enabled \in BOOLEAN
    /\ op.on \in BOOLEAN /\ op.d \in Directions
    /\ op.read \in {Disabled, Stall, Nak, Valid} /\ op.to \in {Disabled, Stall, Nak, Valid}
    /\ open \subseteq Configured /\ owed \subseteq Configured \cup ControlPair
    /\ phase \in {"idle", "reset", "request", "refusing", "halted"}
    /\ upset \subseteq ControlPair
    /\ talk \in [ctl : BOOLEAN, data : BOOLEAN]

Pending(d) == op.on /\ op.d = d

\* Data endpoints: one that is open waits with NAK, or is armed for a call, or has
\* the flag of a packet that answers one; no other is ever armed or flagged.
DataInv ==
    /\ ctr \ ControlPair \subseteq Configured
    /\ op.on /\ op.d \notin ControlPair =>
           /\ op.read = Nak /\ op.to = Valid
           /\ Live => op.d \in open /\ stat[op.d] = Nak
    /\ resetFlag => \A d \in Directions \ ControlPair : stat[d] \in {Disabled, Stall}
    /\ Live => \A d \in Directions \ ControlPair : stat[d] = Valid => d \in open
    /\ Live => \A d \in open : stat[d] \in {Nak, Valid}
    /\ Live => \A d \in open : /\ d \in owed <=> Armed(d) \/ d \in ctr
                               /\ ~(Armed(d) /\ d \in ctr)

\* A SETUP packet waits to be read.
SetupWaits == EpOut \in ctr /\ setup

\* What was read of a control status: it still holds, or a packet has come since,
\* after which the write does as it should or the direction is upset.
Crossed(d) == stat[d] = Nak /\ (d \in upset \/ op.read \in {Nak, op.to})

OpInv ==
    /\ op.on => op.to \in {Stall, Valid} /\ (op.to = Valid <=> op.d \in owed)
    /\ \A d \in ControlPair : Pending(d) /\ op.to = Stall /\ op.read = Disabled => d \in upset
    /\ resetFlag => \A d \in ControlPair : /\ Pending(d) => stat[d] = Disabled
                                           /\ stat[d] = Stall => d \in owed \cup upset
    /\ Live => /\ Pending(EpOut) => stat[EpOut] = op.read \/ (EpOut \in ctr /\ Crossed(EpOut))
               /\ Pending(EpIn) => \/ stat[EpIn] = op.read
                                   \/ (EpIn \in ctr \/ SetupWaits) /\ Crossed(EpIn)

\* A control endpoint that is not upset is enabled when it must be.
EnabledInv ==
    Live => /\ phase # "reset" /\ ~Pending(EpOut) => stat[EpOut] # Disabled \/ EpOut \in upset
            /\ SetupWaits \/ phase \in {"request", "refusing", "halted"} =>
                   Pending(EpIn) \/ stat[EpIn] # Disabled \/ EpIn \in upset

\* Its calls are not forgotten.
OwedInv ==
    Live => /\ EpOut \in owed => Armed(EpOut) \/ EpOut \in ctr
            /\ EpIn \in owed => Armed(EpIn) \/ EpIn \in ctr \/ SetupWaits

ControlInv == OpInv /\ EnabledInv /\ OwedInv

StatusInv == PcdTypeOK /\ DataInv /\ ControlInv

\* The memory: what the driver and the hardware keep of the buffers.
BufferType     == [offset : Nat, length : Nat]
DescriptorType == [addr : Nat, blocks : Nat, count : 0..ControlPacket]

MemTypeOK ==
    /\ access \in {2, 4}
    /\ buffer \in [Directions -> BufferType] /\ bufferPtr \in Nat
    /\ table \in [Directions -> DescriptorType]

\* The buffer of d ends, for the accesses of the driver and for the packets the
\* hardware takes, where "end" begins.
EndsAt(b, t, d, end) ==
    /\ b[d].offset + AlignLength(b[d].length) <= end
    /\ d[2] = "out" => t[d].addr = b[d].offset /\ t[d].addr + Capacity(t[d].blocks) <= end

\* Buffers "b" and descriptors "t" of the directions D, all below "ptr".
LaidOut(b, t, D, ptr) ==
    /\ ptr \in Nat /\ ptr % access = 0 /\ TableLength <= ptr
    /\ \A d \in D : /\ TableLength <= b[d].offset /\ b[d].offset % access = 0 /\ b[d].length > 0
                    /\ EndsAt(b, t, d, ptr)
    /\ \A d, e \in D : d # e => EndsAt(b, t, d, b[e].offset) \/ EndsAt(b, t, e, b[d].offset)

MemInv ==
    /\ enabled => buffer[EpOut].length > 0
    /\ buffer[EpOut].length > 0 => buffer[EpIn].length = ControlPacket
    /\ bufferPtr <= MemoryLength
    /\ InUse # {} => LaidOut(buffer, table, InUse, bufferPtr)
    /\ \A d \in InUse : d[2] = "in" /\ (stat[d] = Valid \/ Pending(d)) =>
                           table[d].count <= buffer[d].length

PcdInv == StatusInv /\ MemTypeOK /\ MemInv

-----------------------------------------------------------------------------
(* Numbers.                                                                *)

LEMMA Smallest ==
    ASSUME NEW T \in SUBSET Nat, T # {}
    PROVE  \E n \in T : \A m \in T : n <= m
<1>1. \E n \in T : \A m \in T : ~(<<m, n>> \in OpToRel(<, Nat))
  BY WFMin, NatLessThanWellFounded
<1>2. ASSUME NEW m \in Nat, NEW n \in Nat, m < n PROVE <<m, n>> \in OpToRel(<, Nat)
  BY <1>2 DEF OpToRel
<1>3. PICK n \in T : \A m \in T : ~(<<m, n>> \in OpToRel(<, Nat))
  BY <1>1
<1>4. ASSUME NEW m \in T PROVE n <= m
  <2>1. ~(m < n)
    BY <1>2, <1>3
  <2> QED
    BY <2>1
<1> QED
  BY <1>4

LEMMA FlipFacts ==
    ASSUME NEW x \in {Disabled, Stall, Nak, Valid}, NEW y \in {Disabled, Stall, Nak, Valid}
    PROVE  /\ Flip(x, y) \in {Disabled, Stall, Nak, Valid}
           /\ Flip(x, Flip(x, y)) = y
           /\ Flip(Disabled, Flip(Nak, Valid)) = Stall
BY DEF Flip, Disabled, Stall, Nak, Valid

LEMMA StatusFacts == /\ Disabled # Stall /\ Disabled # Nak /\ Disabled # Valid
                     /\ Stall # Nak /\ Stall # Valid /\ Nak # Valid
BY DEF Disabled, Stall, Nak, Valid

LEMMA AlignFacts ==
    ASSUME access \in {2, 4}, NEW n \in Nat
    PROVE  /\ AlignLength(n) \in Nat /\ AlignLength(n) >= n /\ AlignLength(n) % access = 0
           /\ n > 0 => AlignLength(n) >= 2
           /\ \A m \in Nat : m <= n => AlignLength(m) <= AlignLength(n)
<1>1. CASE access = 2
  BY <1>1 DEF AlignLength
<1>2. CASE access = 4
  BY <1>2 DEF AlignLength
<1> QED
  BY <1>1, <1>2

LEMMA ReceiveFacts ==
    ASSUME access \in {2, 4}, NEW n \in Nat, n >= 2, n % access = 0
    PROVE  LET m == AlignReceiveLength(n)
           IN  /\ m \in Nat /\ m >= n /\ m % access = 0
               /\ EncodeReceiveLength(m) \in Nat /\ Capacity(EncodeReceiveLength(m)) <= m
               /\ Capacity(EncodeReceiveLength(m)) \in Nat
<1>1. CASE n < 64
  BY <1>1 DEF AlignReceiveLength, EncodeReceiveLength, Capacity
<1>2. CASE n >= 64
  <2> DEFINE q == (n + 31) \div 32
  <2>1. q \in Nat /\ q >= 2 /\ q * 32 >= n
    BY <1>2
  <2>2. AlignReceiveLength(n) = q * 32
    BY <1>2 DEF AlignReceiveLength
  <2> HIDE DEF q
  <2>3. q * 32 >= 64 /\ (q * 32) \div 32 = q /\ (q * 32) % access = 0
    BY <2>1
  <2>4. EncodeReceiveLength(q * 32) = 32 + (q - 1)
    BY <2>3 DEF EncodeReceiveLength
  <2>5. Capacity(32 + (q - 1)) = q * 32
    BY <2>1 DEF Capacity
  <2> QED
    BY <1>2, <2>1, <2>2, <2>3, <2>4, <2>5
<1> QED
  BY <1>1, <1>2

-----------------------------------------------------------------------------
(* Endpoints are opened one after the other.                               *)

EndpointType == [num : 1..7, in : BOOLEAN, maxPacket : Nat \ {0}]

LEMMA DirectionFacts ==
    /\ EpIn \in Directions /\ EpOut \in Directions /\ ControlPair = {EpIn, EpOut} /\ EpIn # EpOut
    /\ ControlPair \subseteq Directions /\ \A d \in ControlPair : d[1] = 0
    /\ EpIn[2] = "in" /\ EpOut[2] = "out"
    /\ \A d \in Directions : d[1] = 0 => d \in ControlPair
    /\ Config \in Seq(EndpointType) /\ Len(Config) \in Nat
    /\ \A i \in 1..Len(Config) : /\ Config[i] \in EndpointType
                                 /\ Direction(Config[i]) \in Configured
                                 /\ Direction(Config[i])[2] = IF Config[i].in THEN "in" ELSE "out"
    /\ Configured \subseteq Directions \ ControlPair
    /\ \A d \in Configured : \E i \in 1..Len(Config) : d = Direction(Config[i])
<1>1. /\ EpIn \in Directions /\ EpOut \in Directions /\ ControlPair = {EpIn, EpOut} /\ EpIn # EpOut
      /\ ControlPair \subseteq Directions /\ \A d \in ControlPair : d[1] = 0
      /\ EpIn[2] = "in" /\ EpOut[2] = "out"
  BY DEF EpIn, EpOut, ControlPair, Directions, Numbers
<1>2. \A d \in Directions : d[1] = 0 => d \in ControlPair
  BY DEF ControlPair, Directions
<1>3. Config \in Seq(EndpointType) /\ Len(Config) \in Nat
  BY PcdAssumption DEF EndpointType
<1>4. \A i \in 1..Len(Config) : Config[i] \in EndpointType
  BY <1>3
<1>5. \A i \in 1..Len(Config) : /\ Direction(Config[i]) \in Configured
                                /\ Direction(Config[i])[2] = IF Config[i].in THEN "in" ELSE "out"
                                /\ Direction(Config[i])[1] = Config[i].num
                                /\ Direction(Config[i]) \in Directions
  BY DEF Configured, Direction, Directions, Numbers
<1>6. \A d \in Configured : \E i \in 1..Len(Config) : d = Direction(Config[i])
  BY DEF Configured
<1>7. \A i \in 1..Len(Config) : Direction(Config[i]) \notin ControlPair
  BY <1>1, <1>4, <1>5 DEF EndpointType
<1> QED
  BY <1>1, <1>2, <1>3, <1>4, <1>5, <1>6, <1>7

LEMMA OpenedInSteps ==
    ASSUME NEW s
    PROVE  \E k : /\ k[0] = s
                  /\ \A i \in 1..Len(Config) : k[i] = OpenEndpoint(k[i - 1], Config[i])
                  /\ OpenAll(s) = k[Len(Config)]
<1> DEFINE Body(n, f) == [i \in 0..n |-> IF i = 0 THEN s ELSE OpenEndpoint(f[i - 1], Config[i])]
           T == {n \in Nat : ~\E f : f = Body(n, f)}
<1>1. T = {}
  <2> SUFFICES ASSUME T # {} PROVE FALSE
    OBVIOUS
  <2>1. PICK n \in T : \A m \in T : n <= m
    BY Smallest
  <2>2. CASE n = 0
    <3>1. [i \in 0..0 |-> s] = Body(0, [i \in 0..0 |-> s])
      OBVIOUS
    <3> QED
      BY <2>1, <2>2, <3>1
  <2>3. CASE n # 0
    <3>1. n \in Nat /\ n - 1 \in Nat /\ ~(n <= n - 1)
      BY <2>1, <2>3
    <3>2. PICK f : f = Body(n - 1, f)
      BY <2>1, <3>1
    <3> DEFINE g == [i \in 0..n |-> IF i = n THEN OpenEndpoint(f[n - 1], Config[n]) ELSE f[i]]
    <3>3. \A i \in 0..(n - 1) : f[i] = IF i = 0 THEN s ELSE OpenEndpoint(f[i - 1], Config[i])
      BY <3>2
    <3>4. \A i \in 0..n : g[i] = IF i = 0 THEN s ELSE OpenEndpoint(g[i - 1], Config[i])
      <4> SUFFICES ASSUME NEW i \in 0..n
                   PROVE  g[i] = IF i = 0 THEN s ELSE OpenEndpoint(g[i - 1], Config[i])
        OBVIOUS
      <4>1. CASE i = n
        <5>1. g[i] = OpenEndpoint(f[n - 1], Config[n]) /\ g[n - 1] = f[n - 1] /\ i # 0
          BY <2>3, <3>1, <4>1
        <5> QED
          BY <4>1, <5>1
      <4>2. CASE i # n /\ i # 0
        <5>1. i \in 0..(n - 1) /\ g[i] = f[i] /\ g[i - 1] = f[i - 1]
          BY <3>1, <4>2
        <5> QED
          BY <3>3, <4>2, <5>1
      <4>3. CASE i # n /\ i = 0
        BY <3>1, <3>3, <4>3
      <4> QED
        BY <4>1, <4>2, <4>3
    <3>5. g = Body(n, g)
      BY <3>4
    <3> QED
      BY <2>1, <3>5
  <2> QED
    BY <2>2, <2>3
<1> DEFINE N == Len(Config)
           k == CHOOSE f : f = Body(N, f)
<1>2. OpenAll(s) = k[N]
  BY DEF OpenAll
<1>3. \E f : f = Body(N, f)
  BY <1>1, DirectionFacts
<1> HIDE DEF Body
<1>4. k = Body(N, k)
  BY <1>3, Zenon
<1> HIDE DEF k
<1>5. k[0] = s /\ \A i \in 1..Len(Config) : k[i] = OpenEndpoint(k[i - 1], Config[i])
  BY <1>4, DirectionFacts DEF Body
<1> QED
  BY <1>2, <1>5

\* The part of the state openEndpoint() works on.
Opening == [stat : [Directions -> {Disabled, Stall, Nak, Valid}], ctr : SUBSET Directions,
            buffer : [Directions -> BufferType], table : [Directions -> DescriptorType],
            bufferPtr : Nat]

LEMMA OpenOne ==
    ASSUME access \in {2, 4}, NEW s \in Opening, NEW c \in EndpointType, Direction(c) \in Directions
    PROVE  LET t       == OpenEndpoint(s, c)
               d       == Direction(c)
               aligned == AlignLength(c.maxPacket)
               length  == IF c.in THEN aligned ELSE AlignReceiveLength(aligned)
           IN  /\ t \in Opening
               /\ t.stat = [s.stat EXCEPT ![d] = Nak] /\ t.ctr = s.ctr \ {d}
               /\ t.buffer = [s.buffer EXCEPT ![d] = [offset |-> s.bufferPtr, length |-> c.maxPacket]]
               /\ ~c.in => t.table = [s.table EXCEPT ![d] = [addr |-> s.bufferPtr, count |-> 0,
                                                  blocks |-> EncodeReceiveLength(length)]]
               /\ c.in => t.table = s.table
               /\ t.bufferPtr = s.bufferPtr + length
<1> DEFINE d       == Direction(c)
           aligned == AlignLength(c.maxPacket)
           length  == IF c.in THEN aligned ELSE AlignReceiveLength(aligned)
           stat1   == [s.stat EXCEPT ![d] = Nak]
           buffer1 == [s.buffer EXCEPT ![d] = [offset |-> s.bufferPtr, length |-> c.maxPacket]]
           entry   == [addr |-> s.bufferPtr, count |-> 0, blocks |-> EncodeReceiveLength(length)]
           table1  == IF c.in THEN s.table ELSE [s.table EXCEPT ![d] = entry]
<1>1. c.maxPacket \in Nat /\ c.maxPacket > 0 /\ c.in \in BOOLEAN
  BY DEF EndpointType
<1>2. aligned \in Nat /\ aligned >= 2 /\ aligned % access = 0
  BY <1>1, AlignFacts
<1>3. length \in Nat /\ (~c.in => EncodeReceiveLength(length) \in Nat)
  BY <1>2, ReceiveFacts
<1>4. /\ s.stat \in [Directions -> {Disabled, Stall, Nak, Valid}] /\ s.ctr \in SUBSET Directions
      /\ s.buffer \in [Directions -> BufferType] /\ s.table \in [Directions -> DescriptorType]
      /\ s.bufferPtr \in Nat
      /\ s = [stat |-> s.stat, ctr |-> s.ctr, buffer |-> s.buffer, table |-> s.table,
              bufferPtr |-> s.bufferPtr]
  BY DEF Opening
<1>5. Flip(s.stat[d], Flip(s.stat[d], Nak)) = Nak
  BY <1>4, FlipFacts DEF Nak
<1>6. stat1 \in [Directions -> {Disabled, Stall, Nak, Valid}]
  BY <1>4
<1>7. buffer1 \in [Directions -> BufferType]
  BY <1>1, <1>4 DEF BufferType
<1>8. ~c.in => entry \in DescriptorType
  BY <1>3, <1>4, PcdAssumption DEF DescriptorType
<1>9. table1 \in [Directions -> DescriptorType]
  BY <1>1, <1>4, <1>8
<1>10. OpenEndpoint(s, c) = [stat |-> stat1, ctr |-> s.ctr \ {d}, buffer |-> buffer1,
                             table |-> table1, bufferPtr |-> s.bufferPtr + length]
  <2> DEFINE x == s.stat
             y == s.table
  <2>1. OpenEndpoint(s, c) =
          [s EXCEPT
            !.stat[d]   = Flip(@, Flip(@, Nak)),
            !.ctr       = @ \ {d},
            !.buffer[d] = [offset |-> s.bufferPtr, length |-> c.maxPacket],
            !.table[d]  = IF c.in THEN @ ELSE entry,
            !.bufferPtr = @ + length]
    BY DEF OpenEndpoint
  <2>2. [s.stat EXCEPT ![d] = Flip(@, Flip(@, Nak))] = stat1
    BY <1>5
  <2>3. [s.table EXCEPT ![d] = IF c.in THEN @ ELSE entry] = table1
    BY <1>1, <1>4
  <2> QED
    BY <1>4, <2>1, <2>2, <2>3
<1> HIDE DEF stat1, buffer1, table1, length
<1>11. OpenEndpoint(s, c) \in Opening
  BY <1>3, <1>4, <1>6, <1>7, <1>9, <1>10 DEF Opening
<1> QED
  BY <1>1, <1>10, <1>11 DEF stat1, buffer1, table1, length

LEMMA CapacityFacts == \A n \in Nat : Capacity(n) \in Nat
BY DEF Capacity

\* A buffer more, behind all others.
LEMMA LaidOne ==
    ASSUME access \in {2, 4}, NEW s \in Opening, NEW c \in EndpointType, Direction(c) \in Directions,
           Direction(c)[2] = IF c.in THEN "in" ELSE "out",
           NEW D \in SUBSET Directions, LaidOut(s.buffer, s.table, D, s.bufferPtr)
    PROVE  LET t == OpenEndpoint(s, c)
           IN  LaidOut(t.buffer, t.table, D \cup {Direction(c)}, t.bufferPtr)
<1> DEFINE t       == OpenEndpoint(s, c)
           d       == Direction(c)
           aligned == AlignLength(c.maxPacket)
           length  == IF c.in THEN aligned ELSE AlignReceiveLength(aligned)
           ptr     == s.bufferPtr
           b       == s.buffer
           tb      == s.table
           b1      == t.buffer
           tb1     == t.table
           end     == t.bufferPtr
<1>1. c.maxPacket \in Nat /\ c.maxPacket > 0 /\ c.in \in BOOLEAN
  BY DEF EndpointType
<1>2. aligned \in Nat /\ aligned >= 2 /\ aligned % access = 0
  BY <1>1, AlignFacts
<1>3. /\ length \in Nat /\ length >= aligned /\ length % access = 0
      /\ ~c.in => /\ Capacity(EncodeReceiveLength(length)) <= length
                  /\ Capacity(EncodeReceiveLength(length)) \in Nat
  BY <1>2, ReceiveFacts
<1>4. /\ b \in [Directions -> BufferType] /\ tb \in [Directions -> DescriptorType] /\ ptr \in Nat
      /\ ptr % access = 0 /\ TableLength <= ptr /\ TableLength \in Nat
  BY PcdAssumption DEF Opening, LaidOut
<1>5. /\ b1 = [b EXCEPT ![d] = [offset |-> ptr, length |-> c.maxPacket]]
      /\ ~c.in => tb1 = [tb EXCEPT ![d] = [addr |-> ptr, count |-> 0,
                                           blocks |-> EncodeReceiveLength(length)]]
      /\ c.in => tb1 = tb
      /\ end = ptr + length
  BY OpenOne
<1>6. \A e \in Directions : e # d => b1[e] = b[e] /\ tb1[e] = tb[e]
  BY <1>1, <1>4, <1>5
<1>7. b1[d].offset = ptr /\ b1[d].length = c.maxPacket
  BY <1>4, <1>5
<1>8. ~c.in => tb1[d].addr = ptr /\ tb1[d].blocks = EncodeReceiveLength(length)
  BY <1>4, <1>5
<1>9. \A e \in D : \A from, to \in Nat : EndsAt(b, tb, e, from) /\ from <= to => EndsAt(b, tb, e, to)
  <2> SUFFICES ASSUME NEW e \in D, NEW from \in Nat, NEW to \in Nat, EndsAt(b, tb, e, from), from <= to
               PROVE  EndsAt(b, tb, e, to)
    OBVIOUS
  <2>1. b[e].offset \in Nat /\ b[e].length \in Nat /\ tb[e].addr \in Nat /\ tb[e].blocks \in Nat
    BY <1>4 DEF BufferType, DescriptorType
  <2>2. AlignLength(b[e].length) \in Nat /\ Capacity(tb[e].blocks) \in Nat
    BY <2>1, AlignFacts, CapacityFacts
  <2> QED
    BY <2>1, <2>2 DEF EndsAt
<1> HIDE DEF t, d, aligned, length, ptr, b, tb, b1, tb1, end
<1>10. end \in Nat /\ end % access = 0 /\ ptr <= end /\ TableLength <= end
  <2>1. (ptr + length) % access = 0
    <3>1. CASE access = 2
      BY <1>3, <1>4, <3>1
    <3>2. CASE access = 4
      BY <1>3, <1>4, <3>2
    <3> QED
      BY <3>1, <3>2
  <2> QED
    BY <1>3, <1>4, <1>5, <2>1
<1>11. EndsAt(b1, tb1, d, end)
  <2>1. ptr + aligned <= end
    BY <1>2, <1>3, <1>4, <1>5
  <2>2. d[2] = "out" => ~c.in
    BY <1>1 DEF d
  <2>3. ~c.in => ptr + Capacity(EncodeReceiveLength(length)) <= end
    BY <1>3, <1>4, <1>5
  <2> QED
    BY <1>7, <1>8, <2>1, <2>2, <2>3 DEF EndsAt, aligned
<1>12. \A e \in D : e # d => /\ EndsAt(b1, tb1, e, ptr) /\ EndsAt(b1, tb1, e, end)
                             /\ TableLength <= b1[e].offset /\ b1[e].offset % access = 0
                             /\ b1[e].length > 0
  <2> SUFFICES ASSUME NEW e \in D, e # d
               PROVE  /\ EndsAt(b1, tb1, e, ptr) /\ EndsAt(b1, tb1, e, end)
                      /\ TableLength <= b1[e].offset /\ b1[e].offset % access = 0
                      /\ b1[e].length > 0
    OBVIOUS
  <2>1. b1[e] = b[e] /\ tb1[e] = tb[e]
    BY <1>6
  <2>2. EndsAt(b, tb, e, ptr) /\ TableLength <= b[e].offset /\ b[e].offset % access = 0 /\ b[e].length > 0
    BY DEF LaidOut, b, tb, ptr
  <2>3. EndsAt(b, tb, e, end)
    BY <1>4, <1>9, <1>10, <2>2
  <2> QED
    BY <2>1, <2>2, <2>3 DEF EndsAt
<1>13. \A e, f \in D \cup {d} : e # f => EndsAt(b1, tb1, e, b1[f].offset) \/ EndsAt(b1, tb1, f, b1[e].offset)
  <2> SUFFICES ASSUME NEW e \in D \cup {d}, NEW f \in D \cup {d}, e # f
               PROVE  EndsAt(b1, tb1, e, b1[f].offset) \/ EndsAt(b1, tb1, f, b1[e].offset)
    OBVIOUS
  <2>1. CASE e = d
    BY <1>7, <1>12, <2>1
  <2>2. CASE f = d
    BY <1>7, <1>12, <2>2
  <2>3. CASE e # d /\ f # d
    <3>1. e \in D /\ f \in D
      BY <2>3
    <3>2. EndsAt(b, tb, e, b[f].offset) \/ EndsAt(b, tb, f, b[e].offset)
      BY <3>1 DEF LaidOut, b, tb
    <3> QED
      BY <1>6, <2>3, <3>1, <3>2 DEF EndsAt
  <2> QED
    BY <2>1, <2>2, <2>3
<1>14. \A e \in D \cup {d} : /\ TableLength <= b1[e].offset /\ b1[e].offset % access = 0
                             /\ b1[e].length > 0 /\ EndsAt(b1, tb1, e, end)
  BY <1>1, <1>4, <1>7, <1>11, <1>12
<1>15. LaidOut(b1, tb1, D \cup {d}, end)
  BY <1>10, <1>13, <1>14 DEF LaidOut
<1> QED
  BY <1>15 DEF b1, tb1, d, end, t

LEMMA Opened ==
    ASSUME access \in {2, 4}, NEW s \in Opening
    PROVE  LET t == OpenAll(s)
           IN  /\ t \in Opening
               /\ \A d \in Configured : t.stat[d] = Nak
               /\ \A d \in Directions \ Configured : t.stat[d] = s.stat[d] /\ t.buffer[d] = s.buffer[d]
                                                     /\ t.table[d] = s.table[d]
               /\ t.ctr = s.ctr \ Configured
               /\ LaidOut(s.buffer, s.table, ControlPair, s.bufferPtr) =>
                      LaidOut(t.buffer, t.table, Configured \cup ControlPair, t.bufferPtr)
<1>1. PICK k : /\ k[0] = s
               /\ \A i \in 1..Len(Config) : k[i] = OpenEndpoint(k[i - 1], Config[i])
               /\ OpenAll(s) = k[Len(Config)]
  BY OpenedInSteps
<1> DEFINE N == Len(Config)
           Done(i) == {Direction(Config[j]) : j \in 1..i}
           Good(i) == /\ k[i] \in Opening
                      /\ \A d \in Done(i) : k[i].stat[d] = Nak
                      /\ \A d \in Directions \ Done(i) :
                             /\ k[i].stat[d] = s.stat[d] /\ k[i].buffer[d] = s.buffer[d]
                             /\ k[i].table[d] = s.table[d]
                      /\ k[i].ctr = s.ctr \ Done(i)
                      /\ LaidOut(s.buffer, s.table, ControlPair, s.bufferPtr) =>
                             LaidOut(k[i].buffer, k[i].table, Done(i) \cup ControlPair, k[i].bufferPtr)
           T == {i \in 0..N : ~Good(i)}
<1>2. Good(0)
  <2>1. Done(0) = {}
    OBVIOUS
  <2> QED
    BY <1>1, <2>1
<1>3. ASSUME NEW i \in 1..N, Good(i - 1) PROVE Good(i)
  <2> DEFINE c == Config[i]
             d == Direction(c)
             u == k[i - 1]
             t == k[i]
  <2>1. /\ i - 1 \in Nat /\ c \in EndpointType /\ d \in Directions /\ d \in Configured
        /\ d[2] = IF c.in THEN "in" ELSE "out"
    BY DirectionFacts
  <2>2. Done(i) = Done(i - 1) \cup {d}
    BY <2>1
  <2>3. Done(i - 1) \subseteq Directions /\ ControlPair \subseteq Directions
    <3>1. \A j \in 1..(i - 1) : j \in 1..N
      BY DirectionFacts
    <3> QED
      BY <3>1, DirectionFacts
  <2>4. t = OpenEndpoint(u, c) /\ u \in Opening
    BY <1>1, <1>3
  <2>5. /\ t \in Opening /\ u.stat \in [Directions -> {Disabled, Stall, Nak, Valid}]
        /\ t.stat = [u.stat EXCEPT ![d] = Nak] /\ t.ctr = u.ctr \ {d}
        /\ \A e \in Directions : e # d => t.buffer[e] = u.buffer[e] /\ t.table[e] = u.table[e]
    <3>1. /\ u.buffer \in [Directions -> BufferType] /\ u.table \in [Directions -> DescriptorType]
          /\ u.stat \in [Directions -> {Disabled, Stall, Nak, Valid}] /\ c.in \in BOOLEAN
      BY <2>1, <2>4 DEF Opening, EndpointType
    <3> HIDE DEF c, d, u, t
    <3>2. /\ t \in Opening /\ t.stat = [u.stat EXCEPT ![d] = Nak] /\ t.ctr = u.ctr \ {d}
      BY <2>1, <2>4, OpenOne DEF d
    <3>3. \A e \in Directions : e # d => t.buffer[e] = u.buffer[e]
      <4>1. t.buffer = [u.buffer EXCEPT ![d] = [offset |-> u.bufferPtr, length |-> c.maxPacket]]
        BY <2>1, <2>4, OpenOne DEF d
      <4> QED
        BY <3>1, <4>1
    <3>4. \A e \in Directions : e # d => t.table[e] = u.table[e]
      <4>1. CASE c.in
        BY <2>1, <2>4, <4>1, OpenOne DEF d
      <4>2. CASE ~c.in
        <5> DEFINE x == [addr |-> u.bufferPtr, count |-> 0, blocks |->
                         EncodeReceiveLength(AlignReceiveLength(AlignLength(c.maxPacket)))]
        <5>1. t.table = [u.table EXCEPT ![d] = x]
          BY <2>1, <2>4, <4>2, OpenOne DEF d
        <5> HIDE DEF x
        <5> QED
          BY <3>1, <5>1
      <4> QED
        BY <4>1, <4>2
    <3> QED
      BY <3>1, <3>2, <3>3, <3>4
  <2>6. \A e \in Done(i) : t.stat[e] = Nak
    <3> SUFFICES ASSUME NEW e \in Done(i) PROVE t.stat[e] = Nak
      OBVIOUS
    <3>1. e \in Directions /\ (e = d \/ e \in Done(i - 1))
      BY <2>1, <2>2, <2>3
    <3> HIDE DEF d, t, Done
    <3> QED
      BY <1>3, <2>1, <2>5, <3>1
  <2>7. \A e \in Directions \ Done(i) : /\ t.stat[e] = s.stat[e] /\ t.buffer[e] = s.buffer[e]
                                        /\ t.table[e] = s.table[e]
    <3> SUFFICES ASSUME NEW e \in Directions \ Done(i)
                 PROVE  t.stat[e] = s.stat[e] /\ t.buffer[e] = s.buffer[e] /\ t.table[e] = s.table[e]
      OBVIOUS
    <3>1. e \in Directions \ Done(i - 1) /\ e # d
      BY <2>2
    <3> HIDE DEF d, t, Done
    <3> QED
      BY <1>3, <2>5, <3>1
  <2>8. t.ctr = s.ctr \ Done(i)
    BY <1>3, <2>2, <2>5
  <2>9. LaidOut(s.buffer, s.table, ControlPair, s.bufferPtr) =>
            LaidOut(t.buffer, t.table, Done(i) \cup ControlPair, t.bufferPtr)
    <3> SUFFICES ASSUME LaidOut(s.buffer, s.table, ControlPair, s.bufferPtr)
                 PROVE  LaidOut(t.buffer, t.table, Done(i) \cup ControlPair, t.bufferPtr)
      OBVIOUS
    <3>1. LaidOut(u.buffer, u.table, Done(i - 1) \cup ControlPair, u.bufferPtr)
      BY <1>3
    <3>2. Done(i - 1) \cup ControlPair \in SUBSET Directions
      BY <2>3
    <3> HIDE DEF Done, d, c, u, t
    <3>3. LaidOut(t.buffer, t.table, (Done(i - 1) \cup ControlPair) \cup {d}, t.bufferPtr)
      BY <2>1, <2>4, <3>1, <3>2, LaidOne DEF d
    <3>4. (Done(i - 1) \cup ControlPair) \cup {d} = Done(i) \cup ControlPair
      BY <2>2
    <3> QED
      BY <3>3, <3>4
  <2> QED
    BY <2>5, <2>6, <2>7, <2>8, <2>9
<1> HIDE DEF Good
<1>4. ASSUME T # {} PROVE FALSE
  <2>1. T \in SUBSET Nat
    OBVIOUS
  <2>2. PICK i \in T : \A m \in T : i <= m
    BY <1>4, <2>1, Smallest
  <2>3. i # 0 /\ i \in 0..N
    BY <1>2, <2>2
  <2>4. i \in 1..N /\ i - 1 \in 0..N /\ ~(i <= i - 1)
    BY <2>3, DirectionFacts
  <2>5. Good(i - 1)
    BY <2>2, <2>4
  <2> QED
    BY <1>3, <2>2, <2>4, <2>5
<1>5. Good(N)
  BY <1>4, DirectionFacts
<1>6. Done(N) = Configured
  BY DEF Configured
<1> QED
  BY <1>1, <1>5, <1>6, Zenon DEF Good

-----------------------------------------------------------------------------
(* Status, flags and calls: the hardware.                                  *)

StatusVars == <<stat, ctr, setup, resetFlag, enabled, op, open, owed, phase, talk, upset>>

LEMMA StatusStutters == ASSUME StatusInv, UNCHANGED StatusVars PROVE StatusInv'
<1>1. \A d : (Armed(d)' <=> Armed(d)) /\ (Pending(d)' <=> Pending(d)) /\ (Crossed(d)' <=> Crossed(d))
  BY DEF StatusVars, Armed, Written, Pending, Crossed
<1>2. (Live' <=> Live) /\ (SetupWaits' <=> SetupWaits)
  BY DEF StatusVars, Live, SetupWaits
<1>3. PcdTypeOK'
  BY DEF StatusInv, PcdTypeOK, StatusVars
<1>4. DataInv'
  BY <1>1, <1>2 DEF StatusInv, DataInv, StatusVars
<1>5. ControlInv'
  BY <1>1, <1>2 DEF StatusInv, ControlInv, OpInv, EnabledInv, OwedInv, StatusVars
<1> QED
  BY <1>3, <1>4, <1>5 DEF StatusInv

LEMMA HwResetStatus == ASSUME StatusInv, HwReset PROVE StatusInv'
<1>1. /\ stat' = [d \in Directions |-> Disabled] /\ setup' = FALSE /\ resetFlag' = TRUE
      /\ enabled' = FALSE /\ talk' = Quiet
      /\ upset' = upset \/ upset' = upset \cup {EpOut}
      /\ UNCHANGED <<ctr, op, open, owed, phase>>
  BY DEF HwReset, DriverUnchanged, EpOut
<1>2. ~Live'
  BY <1>1 DEF Live
<1>3. talk' \in [ctl : BOOLEAN, data : BOOLEAN]
  BY <1>1 DEF Quiet
<1>4. PcdTypeOK'
  BY <1>1, <1>3, DirectionFacts DEF StatusInv, PcdTypeOK
<1>5. DataInv'
  BY <1>1, <1>2, StatusFacts DEF StatusInv, DataInv
<1>6. ControlInv'
  BY <1>1, <1>2, StatusFacts, DirectionFacts
     DEF StatusInv, ControlInv, OpInv, EnabledInv, OwedInv, Pending
<1> QED
  BY <1>4, <1>5, <1>6 DEF StatusInv

\* The data endpoints do not see what happens on the control endpoint.
LEMMA DataKept ==
    ASSUME StatusInv, Live, Live', UNCHANGED open,
           op' = op \/ (op'.d \in Directions /\ \A d \in Directions \ ControlPair : ~Pending(d) /\ ~Pending(d)'),
           stat' \in [Directions -> {Disabled, Stall, Nak, Valid}],
           \A d \in Directions \ ControlPair : /\ stat'[d] = stat[d] /\ (d \in ctr' <=> d \in ctr)
                                               /\ (d \in owed' <=> d \in owed),
           ctr' \subseteq Directions
    PROVE  DataInv'
<1>1. open \subseteq Directions \ ControlPair
  BY DirectionFacts DEF StatusInv, PcdTypeOK
<1>2. \A d \in Directions \ ControlPair : Armed(d)' <=> Armed(d)
  <2>1. CASE op' = op
    BY <2>1 DEF Armed, Written
  <2>2. CASE op' # op
    BY <2>2 DEF Armed, Pending
  <2> QED
    BY <2>1, <2>2
<1>3. ctr' \ ControlPair \subseteq Configured
  BY DEF StatusInv, DataInv
<1>4. op'.on /\ op'.d \notin ControlPair =>
         op'.read = Nak /\ op'.to = Valid /\ op'.d \in open' /\ stat'[op'.d] = Nak
  BY DEF StatusInv, DataInv, PcdTypeOK, Pending
<1>5. \A e \in Directions \ ControlPair : stat'[e] = Valid => e \in open'
  BY DEF StatusInv, DataInv
<1>6. \A e \in open' : stat'[e] \in {Nak, Valid}
  BY <1>1 DEF StatusInv, DataInv
<1>7. \A e \in open' : (e \in owed' <=> Armed(e)' \/ e \in ctr') /\ ~(Armed(e)' /\ e \in ctr')
  BY <1>1, <1>2 DEF StatusInv, DataInv
<1> QED
  BY <1>3, <1>4, <1>5, <1>6, <1>7 DEF DataInv, Live

\* A direction the hardware changes to NAK under a write of the driver.
LEMMA CrossedNow ==
    ASSUME StatusInv, NEW S \in SUBSET ControlPair, upset' = CrossedBy(S), op' = op,
           NEW d \in S, stat'[d] = Nak
    PROVE  Pending(d)' => Crossed(d)'
BY DEF Pending, Crossed, CrossedBy

LEMMA HwSetupStatus == ASSUME StatusInv, HwSetup PROVE StatusInv'
<1>1. /\ Live /\ stat[EpOut] # Disabled /\ EpOut \notin ctr
      /\ stat' = [d \in Directions |-> IF d \in ControlPair THEN Nak ELSE stat[d]]
      /\ ctr' = ctr \cup {EpOut} /\ setup' = TRUE /\ upset' = CrossedBy(ControlPair)
      /\ UNCHANGED <<resetFlag, enabled, op, open, owed, phase>>
  BY DEF HwSetup, DriverUnchanged, Answering, Live, EpOut
<1>2. /\ talk' \in [ctl : BOOLEAN, data : BOOLEAN]
      /\ upset \subseteq upset' /\ upset' \subseteq ControlPair
  BY <1>1 DEF HwSetup, StatusInv, PcdTypeOK, CrossedBy
<1>3. Live'
  BY <1>1 DEF Live
<1>4. /\ stat'[EpIn] = Nak /\ stat'[EpOut] = Nak
      /\ \A d \in Directions \ ControlPair : stat'[d] = stat[d]
  BY <1>1, DirectionFacts
<1>5. PcdTypeOK'
  BY <1>1, <1>2, DirectionFacts DEF StatusInv, PcdTypeOK
<1>6. DataInv'
  BY <1>1, <1>3, <1>4, <1>5, DirectionFacts, DataKept DEF PcdTypeOK
<1>7. ControlInv'
  <2>1. SetupWaits' /\ EpOut \in ctr'
    BY <1>1 DEF SetupWaits
  <2>2. /\ Pending(EpIn)' => Crossed(EpIn)'
        /\ Pending(EpOut)' => Crossed(EpOut)'
    BY <1>1, <1>4, CrossedNow, DirectionFacts
  <2>3. OpInv'
    BY <1>1, <1>2, <1>3, <2>1, <2>2 DEF StatusInv, ControlInv, OpInv, Pending, Live
  <2>4. EnabledInv'
    BY <1>4, StatusFacts DEF EnabledInv
  <2>5. OwedInv'
    BY <2>1 DEF OwedInv
  <2> QED
    BY <2>3, <2>4, <2>5 DEF ControlInv
<1> QED
  BY <1>5, <1>6, <1>7 DEF StatusInv

\* A packet of a data direction that is armed: its call is answered.
LEMMA DataMoved ==
    ASSUME StatusInv, NEW d \in Directions, d \notin ControlPair, Live, stat[d] = Valid,
           stat' = [stat EXCEPT ![d] = Nak], ctr' = ctr \cup {d}, upset' = CrossedBy({d}),
           UNCHANGED <<setup, resetFlag, enabled, op, open, owed, phase, talk>>
    PROVE  StatusInv'
<1>1. d \in open /\ Armed(d) /\ d \in owed /\ d \notin ctr
  BY DEF StatusInv, DataInv, Armed
<1>2. ~Pending(d)
  BY StatusFacts DEF StatusInv, DataInv, Pending
<1>3. Live' /\ upset' = upset
  BY <1>2 DEF Live, CrossedBy, Pending
<1>4. stat'[d] = Nak /\ \A e \in Directions : e # d => stat'[e] = stat[e]
  BY DEF StatusInv, PcdTypeOK
<1>5. PcdTypeOK'
  BY <1>3 DEF StatusInv, PcdTypeOK
<1>6. open \subseteq Configured /\ Configured \subseteq Directions \ ControlPair
  BY DirectionFacts DEF StatusInv, PcdTypeOK
<1>7. ~Armed(d)' /\ \A e \in Directions : e # d => (Armed(e)' <=> Armed(e))
  BY <1>2, <1>4, StatusFacts DEF Armed, Written, Pending
<1>8. DataInv'
  <2>1. ctr' \ ControlPair \subseteq Configured
    BY <1>1, <1>6 DEF StatusInv, DataInv
  <2>2. op'.on /\ op'.d \notin ControlPair =>
           op'.read = Nak /\ op'.to = Valid /\ op'.d \in open' /\ stat'[op'.d] = Nak
    BY <1>4 DEF StatusInv, DataInv, PcdTypeOK
  <2>3. \A e \in Directions \ ControlPair : stat'[e] = Valid => e \in open'
    BY <1>3, <1>4, StatusFacts DEF StatusInv, DataInv
  <2>4. \A e \in open' : stat'[e] \in {Nak, Valid}
    BY <1>4, <1>6 DEF StatusInv, DataInv
  <2>5. \A e \in open' : (e \in owed' <=> Armed(e)' \/ e \in ctr') /\ ~(Armed(e)' /\ e \in ctr')
    BY <1>1, <1>6, <1>7 DEF StatusInv, DataInv
  <2> QED
    BY <1>3, <2>1, <2>2, <2>3, <2>4, <2>5 DEF DataInv, Live
<1>9. ControlInv'
  <2>1. d # EpIn /\ d # EpOut
    BY DirectionFacts
  <2>2. \A e \in ControlPair : /\ stat'[e] = stat[e] /\ (e \in ctr' <=> e \in ctr)
                               /\ (Armed(e)' <=> Armed(e)) /\ (Pending(e)' <=> Pending(e))
                               /\ (Crossed(e)' <=> Crossed(e))
    BY <1>3, <1>4, <1>7, <2>1, DirectionFacts DEF Pending, Crossed
  <2>3. SetupWaits' <=> SetupWaits
    BY <2>1 DEF SetupWaits
  <2> QED
    BY <1>3, <2>2, <2>3, DirectionFacts DEF StatusInv, ControlInv, OpInv, EnabledInv, OwedInv
<1> QED
  BY <1>5, <1>8, <1>9 DEF StatusInv

LEMMA HwReceivesStatus ==
    ASSUME StatusInv, NEW n \in Numbers, NEW length \in Lengths, HwReceives(n, length)
    PROVE  StatusInv'
<1> DEFINE d == <<n, "out">>
<1>1. /\ d \in Directions /\ Live /\ stat[d] = Valid
      /\ stat' = [stat EXCEPT ![d] = Nak] /\ ctr' = ctr \cup {d}
      /\ setup' = IF n = 0 /\ d \notin ctr THEN FALSE ELSE setup
      /\ upset' = CrossedBy({d})
      /\ UNCHANGED <<resetFlag, enabled, op, open, owed, phase, talk>>
  BY DEF HwReceives, DriverUnchanged, Directions, HostTalks, Answering, Live
<1>2. CASE n # 0
  <2>1. d \notin ControlPair
    BY <1>2, DirectionFacts
  <2> QED
    BY <1>1, <1>2, <2>1, DataMoved
<1>3. CASE n = 0
  <2>1. d = EpOut /\ EpOut \in ControlPair
    BY <1>3, DirectionFacts DEF EpOut
  <2>2. /\ stat'[EpOut] = Nak /\ stat'[EpIn] = stat[EpIn]
        /\ \A e \in Directions \ ControlPair : stat'[e] = stat[e]
    BY <1>1, <2>1, DirectionFacts DEF StatusInv, PcdTypeOK
  <2>3. /\ Live' /\ ctr' = ctr \cup {EpOut} /\ upset' = CrossedBy({EpOut})
        /\ upset \subseteq upset' /\ upset' \subseteq ControlPair
        /\ setup' = IF EpOut \notin ctr THEN FALSE ELSE setup
    BY <1>1, <1>3, <2>1 DEF Live, CrossedBy, StatusInv, PcdTypeOK
  <2>4. PcdTypeOK'
    <3>1. /\ stat' \in [Directions -> {Disabled, Stall, Nak, Valid}]
          /\ ctr' \subseteq Directions /\ setup' \in BOOLEAN
      BY <1>1, <2>1, <2>3 DEF StatusInv, PcdTypeOK
    <3> QED
      BY <1>1, <2>3, <3>1 DEF StatusInv, PcdTypeOK
  <2>5. DataInv'
    BY <1>1, <2>1, <2>2, <2>3, <2>4, DataKept DEF PcdTypeOK
  <2> HIDE DEF d
  <2>6. ControlInv'
    <3>1. (EpIn \in ctr' <=> EpIn \in ctr) /\ EpOut \in ctr' /\ (SetupWaits' <=> SetupWaits)
      BY <2>3, DirectionFacts DEF SetupWaits
    <3>2. Pending(EpOut)' => Crossed(EpOut)'
      BY <1>1, <2>1, <2>2, <2>3, CrossedNow
    <3>3. (Armed(EpIn)' <=> Armed(EpIn)) /\ (Crossed(EpIn) => Crossed(EpIn)')
      BY <1>1, <2>2, <2>3 DEF Armed, Written, Crossed
    <3>4. \A e : Pending(e)' <=> Pending(e)
      BY <1>1 DEF Pending
    <3>5. OpInv'
      BY <1>1, <2>2, <2>3, <3>1, <3>2, <3>3, <3>4 DEF StatusInv, ControlInv, OpInv, Live
    <3>6. EnabledInv'
      BY <1>1, <2>2, <2>3, <3>1, <3>4, StatusFacts DEF StatusInv, ControlInv, EnabledInv
    <3>7. OwedInv'
      BY <1>1, <3>1, <3>3 DEF StatusInv, ControlInv, OwedInv
    <3> QED
      BY <3>5, <3>6, <3>7 DEF ControlInv
  <2> QED
    BY <2>4, <2>5, <2>6 DEF StatusInv
<1> QED
  BY <1>2, <1>3

LEMMA HwTransmitsStatus == ASSUME StatusInv, NEW n \in Numbers, HwTransmits(n) PROVE StatusInv'
<1> DEFINE d == <<n, "in">>
<1>1. /\ d \in Directions /\ Live /\ stat[d] = Valid
      /\ stat' = [stat EXCEPT ![d] = Nak] /\ ctr' = ctr \cup {d} /\ upset' = CrossedBy({d})
      /\ UNCHANGED <<setup, resetFlag, enabled, op, open, owed, phase, talk>>
  BY DEF HwTransmits, DriverUnchanged, Directions, HostTalks, Answering, Live
<1>2. CASE n # 0
  <2>1. d \notin ControlPair
    BY <1>2, DirectionFacts
  <2> QED
    BY <1>1, <2>1, DataMoved
<1>3. CASE n = 0
  <2>1. d = EpIn /\ EpIn \in ControlPair
    BY <1>3, DirectionFacts DEF EpIn
  <2>2. /\ stat'[EpIn] = Nak /\ stat'[EpOut] = stat[EpOut]
        /\ \A e \in Directions \ ControlPair : stat'[e] = stat[e]
    BY <1>1, <2>1, DirectionFacts DEF StatusInv, PcdTypeOK
  <2>3. /\ Live' /\ ctr' = ctr \cup {EpIn} /\ upset' = CrossedBy({EpIn})
        /\ upset \subseteq upset' /\ upset' \subseteq ControlPair
    BY <1>1, <2>1 DEF Live, CrossedBy, StatusInv, PcdTypeOK
  <2>4. PcdTypeOK'
    <3>1. /\ stat' \in [Directions -> {Disabled, Stall, Nak, Valid}]
          /\ ctr' \subseteq Directions /\ setup' \in BOOLEAN
      BY <1>1, <2>1, <2>3 DEF StatusInv, PcdTypeOK
    <3> QED
      BY <1>1, <2>3, <3>1 DEF StatusInv, PcdTypeOK
  <2>5. DataInv'
    BY <1>1, <2>1, <2>2, <2>3, <2>4, DataKept DEF PcdTypeOK
  <2> HIDE DEF d
  <2>6. ControlInv'
    <3>1. (EpOut \in ctr' <=> EpOut \in ctr) /\ EpIn \in ctr' /\ (SetupWaits' <=> SetupWaits)
      BY <1>1, <2>3, DirectionFacts DEF SetupWaits
    <3>2. Pending(EpIn)' => Crossed(EpIn)'
      BY <1>1, <2>1, <2>2, <2>3, CrossedNow
    <3>3. (Armed(EpOut)' <=> Armed(EpOut)) /\ (Crossed(EpOut) => Crossed(EpOut)')
      BY <1>1, <2>2, <2>3 DEF Armed, Written, Crossed
    <3>4. \A e : Pending(e)' <=> Pending(e)
      BY <1>1 DEF Pending
    <3>5. OpInv'
      BY <1>1, <2>2, <2>3, <3>1, <3>2, <3>3, <3>4 DEF StatusInv, ControlInv, OpInv, Live
    <3>6. EnabledInv'
      BY <1>1, <2>2, <2>3, <3>1, <3>4, StatusFacts DEF StatusInv, ControlInv, EnabledInv
    <3>7. OwedInv'
      BY <1>1, <3>1, <3>3 DEF StatusInv, ControlInv, OwedInv
    <3> QED
      BY <3>5, <3>6, <3>7 DEF ControlInv
  <2> QED
    BY <2>4, <2>5, <2>6 DEF StatusInv
<1> QED
  BY <1>2, <1>3


-----------------------------------------------------------------------------
(* Status, flags and calls: the driver.                                    *)

\* What a write of a control status makes of the status it finds.
LEMMA WriteFacts ==
    ASSUME NEW x \in {Disabled, Stall, Nak, Valid}, NEW read \in {Disabled, Stall, Nak, Valid},
           NEW to \in {Stall, Valid}
    PROVE  LET v == Flip(x, Flip(read, to))
           IN  /\ v \in {Disabled, Stall, Nak, Valid}
               /\ x = read => v = to
               /\ x = Nak /\ read \in {Nak, to} => v # Disabled /\ (v = Valid => to = Valid)
               /\ x = Disabled /\ v = Stall => to = Valid \/ read = Disabled
               /\ x = Nak /\ read = to => v = Nak
BY DEF Flip, Disabled, Stall, Nak, Valid

\* The write of a status puts it to what was asked, unless the registers were
\* cleared or a packet has come since the read.
LEMMA EndStatusStatus == ASSUME StatusInv, EndStatus PROVE StatusInv'
<1> DEFINE d == op.d
           v == Written
<1>1. /\ op.on /\ op' = NoOp /\ ~op'.on
      /\ stat' = [stat EXCEPT ![d] = v]
      /\ UNCHANGED <<ctr, setup, resetFlag, enabled, open, owed, phase, talk, upset>>
  BY DEF EndStatus, NoOp
<1>2. /\ d \in Directions /\ stat[d] \in {Disabled, Stall, Nak, Valid}
      /\ op.read \in {Disabled, Stall, Nak, Valid} /\ op.to \in {Stall, Valid}
      /\ stat \in [Directions -> {Disabled, Stall, Nak, Valid}]
      /\ op.to = Valid <=> d \in owed
  BY <1>1 DEF StatusInv, PcdTypeOK, ControlInv, OpInv
<1>3. /\ v = Flip(stat[d], Flip(op.read, op.to)) /\ v \in {Disabled, Stall, Nak, Valid}
      /\ stat'[d] = v /\ \A e \in Directions : e # d => stat'[e] = stat[e]
      /\ stat[d] = op.read => v = op.to
      /\ stat[d] = Nak /\ op.read \in {Nak, op.to} => v # Disabled
      /\ stat[d] = Disabled /\ v = Stall => op.to = Valid \/ op.read = Disabled
  BY <1>1, <1>2, WriteFacts DEF Written
<1>4. (\A e : ~Pending(e)') /\ \A e : Pending(e) <=> e = d
  BY <1>1 DEF Pending
<1>5. (Live' <=> Live) /\ (Live => ~resetFlag)
  BY <1>1 DEF Live
<1>6. \A e \in Directions : Armed(e)' <=> IF e = d THEN v = Valid ELSE Armed(e)
  BY <1>1, <1>3 DEF Armed
<1>7. PcdTypeOK'
  <2>1. op' = NoOp /\ NoOp.on \in BOOLEAN /\ NoOp.d \in Directions /\ NoOp.read = Disabled /\ NoOp.to = Disabled
    BY <1>1, DirectionFacts DEF NoOp, EpOut
  <2>2. stat' \in [Directions -> {Disabled, Stall, Nak, Valid}]
    BY <1>1, <1>2, <1>3
  <2> QED
    BY <1>1, <2>1, <2>2 DEF StatusInv, PcdTypeOK
<1> HIDE DEF v
<1>8. d \notin ControlPair => /\ Live => stat[d] = Nak /\ v = Valid /\ d \in open
                              /\ resetFlag => v \in {Disabled, Stall}
  <2> SUFFICES ASSUME d \notin ControlPair
               PROVE  /\ Live => stat[d] = Nak /\ v = Valid /\ d \in open
                      /\ resetFlag => v \in {Disabled, Stall}
    OBVIOUS
  <2>1. op.read = Nak /\ op.to = Valid
    BY <1>1 DEF StatusInv, DataInv
  <2>2. ASSUME resetFlag PROVE v \in {Disabled, Stall}
    <3>1. stat[d] \in {Disabled, Stall}
      BY <1>2, <2>2 DEF StatusInv, DataInv
    <3> QED
      BY <1>3, <2>1, <3>1 DEF Flip, Disabled, Stall, Nak, Valid
  <2>3. ASSUME Live PROVE stat[d] = Nak /\ d \in open
    BY <1>1, <2>3 DEF StatusInv, DataInv
  <2> QED
    BY <1>3, <2>1, <2>2, <2>3
<1>9. open \subseteq Directions \ ControlPair
  BY DirectionFacts DEF StatusInv, PcdTypeOK
<1>10. DataInv'
  <2>1. ctr' \ ControlPair \subseteq Configured
    BY <1>1 DEF StatusInv, DataInv
  <2>2. resetFlag' => \A e \in Directions \ ControlPair : stat'[e] \in {Disabled, Stall}
    BY <1>1, <1>3, <1>8 DEF StatusInv, DataInv
  <2>3. Live' => \A e \in Directions \ ControlPair : stat'[e] = Valid => e \in open'
    BY <1>1, <1>3, <1>5, <1>8 DEF StatusInv, DataInv
  <2>4. Live' => \A e \in open' : stat'[e] \in {Nak, Valid}
    BY <1>1, <1>3, <1>5, <1>8, <1>9 DEF StatusInv, DataInv
  <2>5. Live' => \A e \in open' : /\ e \in owed' <=> Armed(e)' \/ e \in ctr'
                                  /\ ~(Armed(e)' /\ e \in ctr')
    <3>1. Live /\ d \notin ControlPair => Armed(d)
      BY <1>1, <1>8 DEF Armed, v
    <3>2. \A e \in Directions \ ControlPair : Live => (Armed(e)' <=> Armed(e))
      BY <1>6, <1>8, <3>1
    <3> HIDE DEF d
    <3> QED
      BY <1>1, <1>5, <1>9, <3>2 DEF StatusInv, DataInv
  <2> QED
    BY <1>1, <2>1, <2>2, <2>3, <2>4, <2>5 DEF DataInv
<1>11. ControlInv'
  <2>1. SetupWaits' <=> SetupWaits
    BY <1>1 DEF SetupWaits
  <2>2. OpInv'
    <3>1. resetFlag => \A e \in ControlPair : stat'[e] = Stall => e \in owed \cup upset
      <4> SUFFICES ASSUME resetFlag, NEW e \in ControlPair, stat'[e] = Stall
                   PROVE  e \in owed \cup upset
        OBVIOUS
      <4>1. e \in Directions
        BY DirectionFacts
      <4>2. CASE e # d
        BY <1>3, <4>1, <4>2 DEF StatusInv, ControlInv, OpInv
      <4>3. CASE e = d
        <5>1. stat[d] = Disabled
          BY <1>4, <4>3 DEF StatusInv, ControlInv, OpInv
        <5>2. op.to = Valid \/ (op.to = Stall /\ op.read = Disabled)
          BY <1>2, <1>3, <4>3, <5>1
        <5> QED
          BY <1>2, <1>4, <4>3, <5>2 DEF StatusInv, ControlInv, OpInv
      <4> QED
        BY <4>2, <4>3
    <3> QED
      BY <1>1, <1>4, <3>1 DEF OpInv
  <2>3. Live /\ d \in ControlPair => v # Disabled \/ d \in upset
    <3>1. Live /\ d \in ControlPair => stat[d] = op.read \/ Crossed(d)
      BY <1>4, DirectionFacts DEF StatusInv, ControlInv, OpInv
    <3> QED
      BY <1>2, <1>3, <3>1, StatusFacts DEF Crossed
  <2>4. EnabledInv'
    BY <1>1, <1>3, <1>4, <1>5, <2>1, <2>3, DirectionFacts
       DEF StatusInv, ControlInv, EnabledInv
  <2>5. OwedInv'
    <3>1. /\ Live /\ d = EpOut => stat[d] = op.read \/ EpOut \in ctr
          /\ Live /\ d = EpIn => stat[d] = op.read \/ EpIn \in ctr \/ SetupWaits
      BY <1>4 DEF StatusInv, ControlInv, OpInv
    <3> QED
      BY <1>1, <1>2, <1>3, <1>5, <1>6, <2>1, <3>1, DirectionFacts
         DEF StatusInv, ControlInv, OwedInv
  <2> QED
    BY <2>2, <2>4, <2>5 DEF ControlInv
<1> QED
  BY <1>7, <1>10, <1>11 DEF StatusInv

LEMMA DirectionsOwed == Configured \cup ControlPair \subseteq Directions
BY DirectionFacts

\* A call on an endpoint none is under way on: the endpoint is not armed.
LEMMA CallStatus ==
    ASSUME StatusInv, NEW d \in Directions, Callable(d), d \notin owed, BeginStatus(d, Valid),
           owed' = owed \cup {d}, phase' = phase \/ (d = EpOut /\ phase' = "idle"),
           d = EpIn => phase # "reset",
           UNCHANGED <<stat, ctr, setup, resetFlag, enabled, open, talk, upset>>
    PROVE  StatusInv'
<1>1. /\ ~op.on /\ Live /\ Live' /\ op' = [on |-> TRUE, d |-> d, read |-> stat[d], to |-> Valid]
      /\ op'.on /\ op'.d = d /\ op'.read = stat[d] /\ op'.to = Valid
      /\ d \notin ControlPair => phase # "reset" /\ d \in open
  BY DEF Callable, BeginStatus, Live
<1>2. stat[d] \in {Disabled, Stall, Nak, Valid} /\ open \subseteq Directions \ ControlPair
  BY DirectionFacts DEF StatusInv, PcdTypeOK
<1>3. PcdTypeOK'
  <2>1. owed' \subseteq Configured \cup ControlPair
    BY <1>1 DEF StatusInv, PcdTypeOK
  <2>2. /\ op'.on \in BOOLEAN /\ op'.d \in Directions
        /\ op'.read \in {Disabled, Stall, Nak, Valid} /\ op'.to \in {Disabled, Stall, Nak, Valid}
    BY <1>1, <1>2
  <2>3. phase' \in {"idle", "reset", "request", "refusing", "halted"}
    BY DEF StatusInv, PcdTypeOK
  <2> QED
    BY <2>1, <2>2, <2>3 DEF StatusInv, PcdTypeOK
<1>4. /\ \A e : Pending(e)' <=> e = d
      /\ \A e : ~Pending(e)
      /\ \A e : Armed(e)' <=> Armed(e) \/ e = d
      /\ SetupWaits' <=> SetupWaits
  <2>1. Written' = Valid
    BY <1>1, <1>2, FlipFacts DEF Written
  <2> QED
    BY <1>1, <2>1 DEF Pending, Armed, SetupWaits
<1>5. CASE d \notin ControlPair
  <2>1. d \in open /\ ~Armed(d) /\ d \notin ctr /\ stat[d] = Nak
    BY <1>1, <1>5 DEF StatusInv, DataInv, Armed
  <2>2. DataInv'
    <3>1. ctr' \ ControlPair \subseteq Configured
      BY DEF StatusInv, DataInv
    <3>2. op'.read = Nak /\ op'.to = Valid /\ op'.d \in open' /\ stat'[op'.d] = Nak
      BY <1>1, <2>1
    <3>3. \A e \in Directions \ ControlPair : stat'[e] = Valid => e \in open'
      BY <1>1 DEF StatusInv, DataInv
    <3>4. \A e \in open' : stat'[e] \in {Nak, Valid}
      BY <1>1 DEF StatusInv, DataInv
    <3>5. \A e \in open' : (e \in owed' <=> Armed(e)' \/ e \in ctr') /\ ~(Armed(e)' /\ e \in ctr')
      BY <1>1, <1>4, <2>1 DEF StatusInv, DataInv
    <3> QED
      BY <1>1, <3>1, <3>2, <3>3, <3>4, <3>5 DEF DataInv, Live
  <2>3. d # EpIn /\ d # EpOut
    BY <1>5, DirectionFacts
  <2>4. ControlInv'
    BY <1>1, <1>4, <2>3, DirectionFacts, StatusFacts
       DEF StatusInv, ControlInv, OpInv, EnabledInv, OwedInv, Live
  <2> QED
    BY <1>3, <2>2, <2>4 DEF StatusInv
<1>6. CASE d \in ControlPair
  <2>1. d = EpIn \/ d = EpOut
    BY <1>6, DirectionFacts
  <2>2. DataInv'
    <3>1. \A e \in Directions \ ControlPair : ~Pending(e) /\ ~Pending(e)'
      BY <1>4, <1>6
    <3>2. /\ stat' \in [Directions -> {Disabled, Stall, Nak, Valid}] /\ ctr' \subseteq Directions
          /\ op'.d \in Directions
      BY <1>3 DEF PcdTypeOK
    <3>3. \A e \in Directions \ ControlPair : stat'[e] = stat[e] /\ (e \in ctr' <=> e \in ctr)
                                              /\ (e \in owed' <=> e \in owed)
      BY <1>6
    <3> QED
      BY <1>1, <3>1, <3>2, <3>3, DataKept
  <2>3. ControlInv'
    <3>1. OpInv'
      BY <1>1, <1>4, StatusFacts DEF OpInv, Live
    <3>2. EnabledInv'
      BY <1>1, <1>4, <2>1 DEF StatusInv, ControlInv, EnabledInv
    <3>3. OwedInv'
      BY <1>1, <1>4, <2>1 DEF StatusInv, ControlInv, OwedInv
    <3> QED
      BY <3>1, <3>2, <3>3 DEF ControlInv
  <2> QED
    BY <1>3, <2>2, <2>3 DEF StatusInv
<1> QED
  BY <1>5, <1>6

LEMMA ReceiveStatus == ASSUME StatusInv, NEW n \in Numbers, ReceivePacket(n) PROVE StatusInv'
<1> DEFINE d == <<n, "out">>
<1>1. /\ Callable(d) /\ d \notin owed /\ BeginStatus(d, Valid) /\ owed' = owed \cup {d}
      /\ phase' = IF phase = "reset" THEN "idle" ELSE phase
      /\ UNCHANGED <<stat, ctr, setup, resetFlag, enabled, open, talk, upset>>
  BY DEF ReceivePacket
<1>2. d \in Directions /\ d # EpIn
  BY DEF Directions, EpIn
<1>3. phase' = phase \/ (d = EpOut /\ phase' = "idle")
  <2>1. CASE phase = "reset"
    <3>1. d \in ControlPair
      BY <1>1, <2>1 DEF Callable
    <3> QED
      BY <1>1, <1>2, <2>1, <3>1, DirectionFacts
  <2>2. CASE phase # "reset"
    BY <1>1, <2>2
  <2> QED
    BY <2>1, <2>2
<1> QED
  BY <1>1, <1>2, <1>3, CallStatus

LEMMA TransmitStatus ==
    ASSUME StatusInv, NEW n \in Numbers, NEW offered \in Lengths, TransmitPacket(n, offered)
    PROVE  StatusInv'
<1> DEFINE d == <<n, "in">>
<1>1. /\ Callable(d) /\ d \notin owed /\ phase # "reset" /\ BeginStatus(d, Valid) /\ owed' = owed \cup {d}
      /\ UNCHANGED <<stat, ctr, setup, resetFlag, enabled, open, talk, phase, upset>>
  BY DEF TransmitPacket
<1>2. d \in Directions
  BY DEF Directions
<1> QED
  BY <1>1, <1>2, CallStatus

LEMMA StallStatus == ASSUME StatusInv, NEW d \in ControlPair, StallEndpoint(d) PROVE StatusInv'
<1>1. /\ ~op.on /\ Live /\ Live' /\ op' = [on |-> TRUE, d |-> d, read |-> stat[d], to |-> Stall]
      /\ op'.on /\ op'.d = d /\ op'.read = stat[d] /\ op'.to = Stall /\ owed' = owed \ {d}
      /\ \/ d = EpIn /\ phase = "request" /\ phase' = "refusing"
         \/ d = EpOut /\ phase = "refusing" /\ phase' = "halted"
      /\ UNCHANGED <<stat, ctr, setup, resetFlag, enabled, open, talk, upset>>
  BY DEF StallEndpoint, BeginStatus, Live, EpIn, EpOut
<1>2. d \in Directions /\ stat[d] \in {Disabled, Stall, Nak, Valid}
  BY DirectionFacts DEF StatusInv, PcdTypeOK
<1>3. PcdTypeOK'
  BY <1>1, <1>2 DEF StatusInv, PcdTypeOK
<1>4. /\ \A e : Pending(e)' <=> e = d
      /\ \A e : ~Pending(e)
      /\ \A e : Armed(e)' <=> Armed(e)
      /\ SetupWaits' <=> SetupWaits
  <2>1. Written' = Stall
    BY <1>1, <1>2, FlipFacts DEF Written
  <2> QED
    BY <1>1, <2>1, StatusFacts DEF Pending, Armed, SetupWaits
<1>5. DataInv'
  <2>1. \A e \in Directions \ ControlPair : ~Pending(e) /\ ~Pending(e)'
    BY <1>4
  <2> QED
    BY <1>1, <1>2, <1>3, <2>1, DataKept DEF PcdTypeOK
<1>6. ControlInv'
  <2>1. stat[d] # Disabled \/ d \in upset
    BY <1>1, <1>4 DEF StatusInv, ControlInv, EnabledInv
  <2>2. OpInv'
    BY <1>1, <1>4, <2>1, StatusFacts, DirectionFacts DEF OpInv, Live
  <2>3. EnabledInv'
    BY <1>1, <1>4 DEF StatusInv, ControlInv, EnabledInv
  <2>4. OwedInv'
    BY <1>1, <1>4 DEF StatusInv, ControlInv, OwedInv
  <2> QED
    BY <2>2, <2>3, <2>4 DEF ControlInv
<1> QED
  BY <1>3, <1>5, <1>6 DEF StatusInv

LEMMA PullResetStatus == ASSUME StatusInv, ~op.on, PullReset PROVE StatusInv'
<1>1. /\ resetFlag /\ ~resetFlag' /\ enabled' /\ Live'
      /\ resetFlag' \in BOOLEAN /\ enabled' \in BOOLEAN
      /\ stat' = [d \in Directions |-> IF d \in ControlPair THEN Flip(stat[d], Nak) ELSE stat[d]]
      /\ ctr' = ctr \ ControlPair /\ open' = {} /\ owed' = {} /\ phase' = "reset"
      /\ upset' \subseteq upset
      /\ UNCHANGED <<setup, op, talk>>
  BY DEF PullReset, HandleReset, Live
<1>2. \A d \in Directions : Flip(stat[d], Nak) \in {Disabled, Stall, Nak, Valid}
  BY FlipFacts DEF StatusInv, PcdTypeOK, Nak
<1>3. PcdTypeOK'
  BY <1>1, <1>2 DEF StatusInv, PcdTypeOK
<1>4. ~op'.on /\ (\A e : ~Pending(e)') /\ ~SetupWaits'
  BY <1>1, DirectionFacts DEF Pending, SetupWaits
<1>5. DataInv'
  <2>1. \A d \in Directions \ ControlPair : stat'[d] # Valid
    BY <1>1, StatusFacts DEF StatusInv, DataInv
  <2> QED
    BY <1>1, <1>4, <2>1 DEF StatusInv, DataInv
<1>6. ControlInv'
  BY <1>1, <1>4 DEF ControlInv, OpInv, EnabledInv, OwedInv
<1> QED
  BY <1>3, <1>5, <1>6 DEF StatusInv

\* The reported packet is one that was transferred.
LEMMA ReportedFacts == ASSUME ctr \subseteq Directions, ctr # {} PROVE Reported \in ctr
<1> DEFINE Flagged(m) == {<<m, "in">>, <<m, "out">>} \cap ctr # {}
           T == {m \in Numbers : Flagged(m)}
           Lowest(m) == /\ Flagged(m)
                        /\ \A k \in 0..(m - 1) : <<k, "in">> \notin ctr /\ <<k, "out">> \notin ctr
           n == CHOOSE m \in Numbers : Lowest(m)
<1>1. Numbers \subseteq Nat
  <2>1. \A i \in 1..Len(Config) : Config[i].num \in 1..7
    BY DirectionFacts DEF EndpointType
  <2> QED
    BY <2>1 DEF Numbers
<1>2. \A k : <<k, "in">> \in ctr \/ <<k, "out">> \in ctr => k \in T
  BY DEF Directions
<1>3. T # {}
  <2>1. PICK d \in ctr : d \in Directions
    OBVIOUS
  <2>2. d[1] \in Numbers /\ (d = <<d[1], "in">> \/ d = <<d[1], "out">>)
    BY <2>1 DEF Directions
  <2> QED
    BY <2>1, <2>2
<1>4. PICK l \in T : \A m \in T : l <= m
  BY <1>1, <1>3, Smallest
<1>5. Lowest(l)
  <2>1. \A k \in 0..(l - 1) : k \notin T
    BY <1>1, <1>4
  <2> QED
    BY <1>2, <1>4, <2>1
<1>6. n \in Numbers /\ Lowest(n)
  BY <1>4, <1>5
<1>7. Reported = IF <<n, "out">> \in ctr THEN <<n, "out">> ELSE <<n, "in">>
  BY DEF Reported
<1> HIDE DEF n
<1> QED
  BY <1>6, <1>7

\* An event of a data endpoint answers the call.
LEMMA DataPulled ==
    ASSUME StatusInv, ~op.on, NEW d \in ctr \ ControlPair, ctr' = ctr \ {d}, owed' = owed \ {d},
           UNCHANGED <<stat, setup, resetFlag, enabled, op, open, phase, talk, upset>>
    PROVE  StatusInv'
<1>1. PcdTypeOK'
  BY DEF StatusInv, PcdTypeOK
<1>2. ~op'.on /\ (Live' <=> Live)
  BY DEF Live
<1>3. \A e : (Armed(e)' <=> Armed(e)) /\ (Pending(e)' <=> Pending(e))
  BY DEF Armed, Written, Pending
<1>4. Live /\ d \in open => ~Armed(d)
  BY DEF StatusInv, DataInv
<1>5. DataInv'
  <2>1. ctr' \ ControlPair \subseteq Configured
    BY DEF StatusInv, DataInv
  <2>2. Live => \A e \in open : /\ e \in owed' <=> Armed(e)' \/ e \in ctr'
                                /\ ~(Armed(e)' /\ e \in ctr')
    BY <1>3, <1>4 DEF StatusInv, DataInv
  <2> QED
    BY <1>2, <2>1, <2>2 DEF StatusInv, DataInv
<1>6. ControlInv'
  <2>1. d # EpIn /\ d # EpOut
    BY DirectionFacts
  <2>2. SetupWaits' <=> SetupWaits
    BY <2>1 DEF SetupWaits
  <2> QED
    BY <1>2, <1>3, <2>1, <2>2 DEF StatusInv, ControlInv, OpInv, EnabledInv, OwedInv, Pending
<1> QED
  BY <1>1, <1>5, <1>6 DEF StatusInv

\* An event of the control endpoint answers one call; a SETUP packet makes all
\* calls on it obsolete.
LEMMA ControlPulled ==
    ASSUME StatusInv, ~op.on, ~resetFlag, phase \notin {"reset", "refusing"},
           NEW d \in ctr \cap ControlPair, ctr' = ctr \ {d},
           IF d = EpOut /\ setup THEN owed' = owed \ ControlPair /\ phase' = "request"
                                 ELSE owed' = owed \ {d} /\ phase' = phase,
           UNCHANGED <<stat, setup, resetFlag, enabled, op, open, talk, upset>>
    PROVE  StatusInv'
<1>1. PcdTypeOK'
  BY DEF StatusInv, PcdTypeOK
<1>2. ~op'.on /\ (Live' <=> Live)
  BY DEF Live
<1>3. \A e : (Armed(e)' <=> Armed(e)) /\ ~Pending(e)' /\ ~Pending(e)
  BY DEF Armed, Written, Pending
<1>4. \A e \in Directions \ ControlPair : (e \in ctr' <=> e \in ctr) /\ (e \in owed' <=> e \in owed)
  OBVIOUS
<1>5. d = EpIn \/ d = EpOut
  BY DirectionFacts
<1>6. DataInv'
  <2>1. ctr' \ ControlPair \subseteq Configured
    BY DEF StatusInv, DataInv
  <2>2. Live => \A e \in open : /\ e \in owed' <=> Armed(e)' \/ e \in ctr'
                                /\ ~(Armed(e)' /\ e \in ctr')
    <3>1. open \subseteq Directions \ ControlPair
      BY DirectionFacts DEF StatusInv, PcdTypeOK
    <3> QED
      BY <1>3, <1>4, <3>1 DEF StatusInv, DataInv
  <2> QED
    BY <1>2, <2>1, <2>2 DEF StatusInv, DataInv
<1>7. ControlInv'
  <2>1. OpInv'
    BY <1>2, <1>3 DEF OpInv
  <2>2. SetupWaits' => SetupWaits
    BY DEF SetupWaits
  <2>3. phase' # phase => SetupWaits
    BY DEF SetupWaits
  <2>4. EnabledInv'
    BY <1>2, <1>3, <2>2, <2>3 DEF StatusInv, ControlInv, EnabledInv
  <2>5. OwedInv'
    <3>1. CASE d = EpOut
      BY <1>2, <1>3, <3>1, DirectionFacts DEF StatusInv, ControlInv, OwedInv, SetupWaits
    <3>2. CASE d = EpIn
      BY <1>2, <1>3, <3>2, DirectionFacts DEF StatusInv, ControlInv, OwedInv, SetupWaits
    <3> QED
      BY <1>5, <3>1, <3>2
  <2> QED
    BY <2>1, <2>4, <2>5 DEF ControlInv
<1> QED
  BY <1>1, <1>6, <1>7 DEF StatusInv

LEMMA PullReceivedStatus ==
    ASSUME StatusInv, ~op.on, phase \notin {"reset", "refusing"}, PullReceived PROVE StatusInv'
<1> DEFINE d == Reported
<1>1. /\ d[2] = "out" /\ ctr' = ctr \ {d}
      /\ owed' = IF d[1] = 0 /\ setup THEN owed \ ControlPair ELSE owed \ {d}
      /\ phase' = IF d[1] = 0 /\ setup THEN "request" ELSE phase
      /\ UNCHANGED <<stat, setup, resetFlag, enabled, op, open, talk, upset>>
      /\ ~resetFlag
  BY DEF PullReceived, ClearFlag
<1>2. d \in ctr /\ d \in Directions
  BY ReportedFacts DEF PullReceived, StatusInv, PcdTypeOK
<1>3. d \in ControlPair <=> d[1] = 0
  BY <1>2, DirectionFacts
<1>4. d \in ControlPair => d = EpOut
  BY <1>1, DirectionFacts
<1> HIDE DEF d
<1>5. CASE d \in ControlPair
  BY <1>1, <1>2, <1>3, <1>4, <1>5, ControlPulled
<1>6. CASE d \notin ControlPair
  BY <1>1, <1>2, <1>3, <1>6, DataPulled
<1> QED
  BY <1>5, <1>6

LEMMA PullTransmittedStatus ==
    ASSUME StatusInv, ~op.on, phase \notin {"reset", "refusing"}, PullTransmitted PROVE StatusInv'
<1> DEFINE d == Reported
<1>1. /\ d[2] = "in" /\ ctr' = ctr \ {d} /\ owed' = owed \ {d}
      /\ UNCHANGED <<stat, setup, resetFlag, enabled, op, open, phase, talk, upset>>
      /\ ~resetFlag
  BY DEF PullTransmitted, ClearFlag
<1>2. d \in ctr /\ d \in Directions
  BY ReportedFacts DEF PullTransmitted, StatusInv, PcdTypeOK
<1>3. d # EpOut
  BY <1>1, DirectionFacts
<1> HIDE DEF d
<1>5. CASE d \in ControlPair
  BY <1>1, <1>2, <1>3, <1>5, ControlPulled
<1>6. CASE d \notin ControlPair
  BY <1>1, <1>2, <1>6, DataPulled
<1> QED
  BY <1>5, <1>6

\* What openEndpoint() is called with is of the expected form.
LEMMA OpeningNow ==
    ASSUME StatusInv, MemTypeOK
    PROVE  [stat |-> stat, ctr |-> ctr, buffer |-> buffer, table |-> table,
            bufferPtr |-> bufferPtr] \in Opening
BY DEF StatusInv, PcdTypeOK, MemTypeOK, Opening

LEMMA ConfigureStatus == ASSUME StatusInv, MemTypeOK, ConfigureDevice PROVE StatusInv'
<1> DEFINE s == [stat |-> stat, ctr |-> ctr, buffer |-> buffer, table |-> table,
                 bufferPtr |-> bufferPtr]
           t == OpenAll(s)
<1>1. /\ ~op.on /\ Live /\ phase = "request" /\ stat' = t.stat /\ ctr' = t.ctr
      /\ open' = Configured /\ owed' = owed \cap ControlPair
      /\ UNCHANGED <<setup, resetFlag, enabled, op, phase, upset>>
  BY DEF ConfigureDevice, Live
<1>2. talk' \in [ctl : BOOLEAN, data : BOOLEAN]
  BY DEF ConfigureDevice, StatusInv, PcdTypeOK
<1>3. s \in Opening /\ s.stat = stat /\ s.ctr = ctr /\ access \in {2, 4}
  BY OpeningNow DEF MemTypeOK
<1> HIDE DEF s, t
<1>4. /\ t \in Opening /\ \A d \in Configured : t.stat[d] = Nak
      /\ \A d \in Directions \ Configured : t.stat[d] = stat[d]
      /\ t.ctr = ctr \ Configured
  BY <1>3, Opened DEF t
<1>5. Configured \subseteq Directions \ ControlPair /\ ctr \ ControlPair \subseteq Configured
  BY DirectionFacts DEF StatusInv, PcdTypeOK, DataInv
<1>6. /\ stat' \in [Directions -> {Disabled, Stall, Nak, Valid}] /\ ctr' \subseteq ControlPair
      /\ \A d \in Configured : stat'[d] = Nak
      /\ \A d \in Directions \ Configured : stat'[d] = stat[d]
      /\ \A d \in ControlPair : (d \in ctr' <=> d \in ctr) /\ (d \in owed' <=> d \in owed)
  BY <1>1, <1>4, <1>5 DEF Opening
<1>7. PcdTypeOK'
  BY <1>1, <1>2, <1>6, DirectionFacts DEF StatusInv, PcdTypeOK
<1>8. Live' /\ ~op'.on /\ ~resetFlag' /\ \A e : ~Pending(e) /\ ~Pending(e)'
  BY <1>1 DEF Live, Pending
<1>9. DataInv'
  <2>1. \A d \in Directions \ ControlPair : stat'[d] = Valid => d \in open'
    BY <1>1, <1>6, DirectionFacts DEF StatusInv, DataInv, PcdTypeOK
  <2>2. \A d \in open' : ~Armed(d)' /\ d \notin owed' /\ d \notin ctr' /\ stat'[d] = Nak
    BY <1>1, <1>5, <1>6, StatusFacts DEF Armed
  <2> QED
    BY <1>6, <1>8, <2>1, <2>2 DEF DataInv
<1>10. ControlInv'
  <2>1. /\ EpIn \in ControlPair /\ EpOut \in ControlPair
        /\ stat'[EpIn] = stat[EpIn] /\ stat'[EpOut] = stat[EpOut]
    BY <1>5, <1>6, DirectionFacts
  <2>2. /\ Armed(EpIn)' <=> Armed(EpIn)
        /\ Armed(EpOut)' <=> Armed(EpOut)
        /\ SetupWaits' <=> SetupWaits
    BY <1>1, <1>6, <2>1 DEF Armed, SetupWaits
  <2> QED
    BY <1>1, <1>6, <1>8, <2>1, <2>2 DEF StatusInv, ControlInv, OpInv, EnabledInv, OwedInv
<1> QED
  BY <1>7, <1>9, <1>10 DEF StatusInv

LEMMA DisconnectStatus == ASSUME StatusInv, Disconnect PROVE StatusInv'
<1>1. /\ ~op.on /\ ~enabled' /\ ~resetFlag' /\ talk' = Quiet
      /\ enabled' \in BOOLEAN /\ resetFlag' \in BOOLEAN
      /\ UNCHANGED <<stat, ctr, setup, op, open, owed, phase, upset>>
  BY DEF Disconnect
<1>2. Quiet \in [ctl : BOOLEAN, data : BOOLEAN]
  BY DEF Quiet
<1> QED
  BY <1>1, <1>2 DEF StatusInv, PcdTypeOK, DataInv, ControlInv, OpInv, EnabledInv, OwedInv, Live, Pending

LEMMA StatusStep == ASSUME StatusInv, MemTypeOK, PcdNext PROVE StatusInv'
<1>1. CASE Hardware
  <2>1. CASE HwReset \/ HwSetup
    BY <2>1, HwResetStatus, HwSetupStatus
  <2>2. ASSUME NEW n \in Numbers, HwTransmits(n) PROVE StatusInv'
    BY <2>2, HwTransmitsStatus
  <2>3. ASSUME NEW n \in Numbers, NEW length \in Lengths, HwReceives(n, length) PROVE StatusInv'
    BY <2>3, HwReceivesStatus
  <2> QED
    BY <1>1, <2>1, <2>2, <2>3 DEF Hardware
<1>2. CASE Driver
  <2>1. CASE EndStatus
    BY <2>1, EndStatusStatus
  <2>2. ASSUME NEW n \in Numbers, ReceivePacket(n) PROVE StatusInv'
    BY <2>2, ReceiveStatus
  <2>3. ASSUME NEW n \in Numbers, NEW length \in Lengths, TransmitPacket(n, length) PROVE StatusInv'
    BY <2>3, TransmitStatus
  <2>4. ASSUME NEW d \in ControlPair, StallEndpoint(d) PROVE StatusInv'
    BY <2>4, StallStatus
  <2>5. CASE PullEvent
    <3>1. CASE PullReset
      BY <2>5, <3>1, PullResetStatus DEF PullEvent
    <3>2. CASE PullReceived
      BY <2>5, <3>2, PullReceivedStatus DEF PullEvent, PullReceived
    <3>3. CASE PullTransmitted
      BY <2>5, <3>3, PullTransmittedStatus DEF PullEvent, PullTransmitted
    <3> QED
      BY <2>5, <3>1, <3>2, <3>3 DEF PullEvent
  <2>6. CASE ConfigureDevice \/ Disconnect
    BY <2>6, ConfigureStatus, DisconnectStatus
  <2>7. CASE Connect
    <3>1. UNCHANGED StatusVars
      BY <2>7 DEF Connect, StatusVars
    <3> QED
      BY <3>1, StatusStutters
  <2> QED
    BY <1>2, <2>1, <2>2, <2>3, <2>4, <2>5, <2>6, <2>7 DEF Driver
<1> QED
  BY <1>1, <1>2 DEF PcdNext

-----------------------------------------------------------------------------
(* The packet memory.                                                      *)


-----------------------------------------------------------------------------
(* The packet memory.                                                      *)

LEMMA PacketFacts == /\ ControlPacket \in Nat /\ ControlPacket >= 8 /\ ControlPacket % 4 = 0
                     /\ TableLength \in Nat /\ MemoryLength \in Nat
                     /\ TableLength + 2 * ControlPacket <= MemoryLength
                     /\ Lengths \subseteq 0..ControlPacket
BY PcdAssumption

\* Every step but those two that lay out buffers.
LEMMA MemKept ==
    ASSUME StatusInv, MemTypeOK, MemInv, UNCHANGED <<access, buffer, bufferPtr, open>>,
           enabled' => enabled, table' \in [Directions -> DescriptorType],
           \A d \in Directions : d[2] = "out" => /\ table'[d].addr = table[d].addr
                                                 /\ table'[d].blocks = table[d].blocks,
           \A d \in open : d[2] = "in" /\ (stat'[d] = Valid \/ Pending(d)') =>
                               table'[d].count <= buffer[d].length
    PROVE  MemTypeOK' /\ MemInv'
<1>1. MemTypeOK'
  BY DEF MemTypeOK
<1>2. InUse' = InUse /\ InUse \subseteq Directions /\ InUse \subseteq open \cup ControlPair
  BY DirectionFacts DEF InUse, StatusInv, PcdTypeOK
<1>3. ASSUME InUse # {} PROVE LaidOut(buffer, table, InUse, bufferPtr)'
  <2>1. LaidOut(buffer, table, InUse, bufferPtr)
    BY <1>3 DEF MemInv
  <2>2. \A d \in InUse : \A n : EndsAt(buffer, table', d, n) <=> EndsAt(buffer, table, d, n)
    BY <1>2 DEF EndsAt
  <2> DEFINE t == table'
             D == InUse
  <2>3. LaidOut(buffer, t, D, bufferPtr)
    BY <2>1, <2>2 DEF LaidOut
  <2> HIDE DEF t, D
  <2>4. buffer' = buffer /\ table' = t /\ InUse' = D /\ bufferPtr' = bufferPtr /\ access' = access
    BY <1>2 DEF t, D
  <2> QED
    BY <2>3, <2>4 DEF LaidOut, EndsAt, AlignLength
<1>4. \A d \in InUse : d[2] = "in" /\ (stat'[d] = Valid \/ Pending(d)') =>
                           table'[d].count <= buffer[d].length
  <2>1. \A d \in Directions : table'[d].count \in 0..ControlPacket
    BY DEF DescriptorType
  <2>2. \A d \in InUse : d \in open \/ (d \in ControlPair /\ buffer[EpOut].length > 0)
    BY DEF InUse, EpOut
  <2>3. ASSUME NEW d \in InUse, d \notin open, d[2] = "in"
        PROVE  table'[d].count <= buffer[d].length
    <3>1. d = EpIn /\ EpIn \in Directions
      BY <2>2, <2>3, DirectionFacts
    <3>2. buffer[EpIn].length = ControlPacket
      BY <2>2, <2>3 DEF MemInv
    <3> QED
      BY <2>1, <3>1, <3>2, PacketFacts
  <2> QED
    BY <2>3
<1> QED
  BY <1>1, <1>2, <1>3, <1>4 DEF MemInv

\* The same, for the steps that leave the descriptors alone and arm nothing.
LEMMA MemStutters ==
    ASSUME StatusInv, MemTypeOK, MemInv, UNCHANGED <<access, buffer, bufferPtr, open, table>>,
           enabled' => enabled,
           \A d \in open : d[2] = "in" /\ (stat'[d] = Valid \/ Pending(d)') =>
                               stat[d] = Valid \/ Pending(d)
    PROVE  MemTypeOK' /\ MemInv'
<1>1. table' \in [Directions -> DescriptorType]
  BY DEF MemTypeOK
<1>2. \A d \in open : d[2] = "in" /\ (stat'[d] = Valid \/ Pending(d)') =>
                          table'[d].count <= buffer[d].length
  BY DEF MemInv, InUse
<1> QED
  BY <1>1, <1>2, MemKept

\* The hardware notes the length of a packet it took.
LEMMA Counted ==
    ASSUME MemTypeOK, NEW e \in Directions, e[2] = "out", NEW n \in 0..ControlPacket,
           table' = [table EXCEPT ![e].count = n]
    PROVE  /\ table' \in [Directions -> DescriptorType]
           /\ \A d \in Directions : /\ table'[d].addr = table[d].addr /\ table'[d].blocks = table[d].blocks
                                    /\ d[2] = "in" => table'[d].count = table[d].count
<1> DEFINE old == table[e]
           new == [old EXCEPT !.count = n]
<1>1. table \in [Directions -> DescriptorType] /\ old \in DescriptorType
  BY DEF MemTypeOK
<1>2. new \in DescriptorType /\ new.addr = old.addr /\ new.blocks = old.blocks
  BY <1>1 DEF DescriptorType
<1>3. table' = [table EXCEPT ![e] = new]
  OBVIOUS
<1> HIDE DEF new
<1> QED
  BY <1>1, <1>2, <1>3

LEMMA HardwareMem == ASSUME StatusInv, MemTypeOK, MemInv, Hardware PROVE MemTypeOK' /\ MemInv'
<1>1. open \subseteq Directions /\ stat \in [Directions -> {Disabled, Stall, Nak, Valid}]
  BY DirectionFacts DEF StatusInv, PcdTypeOK
<1>2. CASE HwReset
  <2>1. /\ UNCHANGED <<access, buffer, bufferPtr, open, table, op>> /\ ~enabled'
        /\ \A d \in Directions : stat'[d] = Disabled
    BY <1>2 DEF HwReset, DriverUnchanged
  <2> QED
    BY <1>1, <2>1, StatusFacts, MemStutters DEF Pending
<1>3. CASE HwSetup
  <2>1. /\ UNCHANGED <<access, buffer, bufferPtr, open, op, enabled>>
        /\ table' = [table EXCEPT ![EpOut].count = 8]
        /\ \A d \in Directions : stat'[d] = IF d \in ControlPair THEN Nak ELSE stat[d]
    BY <1>3 DEF HwSetup, DriverUnchanged, EpOut
  <2>2. /\ table' \in [Directions -> DescriptorType]
        /\ \A d \in Directions : /\ table'[d].addr = table[d].addr /\ table'[d].blocks = table[d].blocks
                                 /\ d[2] = "in" => table'[d].count = table[d].count
    <3>1. 8 \in 0..ControlPacket
      BY PacketFacts
    <3>2. EpOut \in Directions /\ EpOut[2] = "out"
      BY DirectionFacts
    <3>3. table' = [table EXCEPT ![EpOut].count = 8]
      BY <2>1
    <3> QED
      BY <3>1, <3>2, <3>3, Counted
  <2>3. \A d \in open : d[2] = "in" /\ (stat'[d] = Valid \/ Pending(d)') =>
                            table'[d].count <= buffer[d].length
    BY <1>1, <2>1, <2>2, StatusFacts DEF MemInv, InUse, Pending
  <2> QED
    BY <2>1, <2>2, <2>3, MemKept
<1>4. ASSUME NEW n \in Numbers, NEW length \in Lengths, HwReceives(n, length)
      PROVE  MemTypeOK' /\ MemInv'
  <2> DEFINE e == <<n, "out">>
  <2>1. /\ UNCHANGED <<access, buffer, bufferPtr, open, op, enabled>>
        /\ table' = [table EXCEPT ![e].count = length] /\ stat' = [stat EXCEPT ![e] = Nak]
        /\ e \in Directions /\ e[2] = "out"
    BY <1>4 DEF HwReceives, DriverUnchanged, Directions
  <2> HIDE DEF e
  <2>2. /\ table' \in [Directions -> DescriptorType]
        /\ \A d \in Directions : /\ table'[d].addr = table[d].addr /\ table'[d].blocks = table[d].blocks
                                 /\ d[2] = "in" => table'[d].count = table[d].count
    BY <2>1, PacketFacts, Counted
  <2>3. \A d \in open : d[2] = "in" /\ (stat'[d] = Valid \/ Pending(d)') =>
                            table'[d].count <= buffer[d].length
    BY <1>1, <2>1, <2>2, StatusFacts DEF MemInv, InUse, Pending
  <2> QED
    BY <2>1, <2>2, <2>3, MemKept
<1>5. ASSUME NEW n \in Numbers, HwTransmits(n) PROVE MemTypeOK' /\ MemInv'
  <2> DEFINE e == <<n, "in">>
  <2>1. /\ UNCHANGED <<access, buffer, bufferPtr, open, op, enabled, table>>
        /\ stat' = [stat EXCEPT ![e] = Nak]
    BY <1>5 DEF HwTransmits, DriverUnchanged
  <2> HIDE DEF e
  <2>2. \A d \in open : stat'[d] = Valid => stat[d] = Valid
    BY <1>1, <2>1, StatusFacts
  <2> QED
    BY <2>1, <2>2, MemStutters DEF Pending
<1> QED
  BY <1>2, <1>3, <1>4, <1>5 DEF Hardware

LEMMA EndStatusMem == ASSUME StatusInv, MemTypeOK, MemInv, EndStatus PROVE MemTypeOK' /\ MemInv'
<1>1. /\ op.on /\ ~op'.on /\ UNCHANGED <<access, buffer, bufferPtr, open, table, enabled>>
      /\ \A d \in Directions : d # op.d => stat'[d] = stat[d]
  BY DEF EndStatus, NoOp, StatusInv, PcdTypeOK
<1>2. open \subseteq Directions
  BY DirectionFacts DEF StatusInv, PcdTypeOK
<1> QED
  BY <1>1, <1>2, MemStutters DEF Pending

LEMMA ReceiveMem ==
    ASSUME StatusInv, MemTypeOK, MemInv, NEW n \in Numbers, ReceivePacket(n)
    PROVE  MemTypeOK' /\ MemInv'
<1>1. op'.d[2] = "out" /\ UNCHANGED <<access, buffer, bufferPtr, open, table, enabled, stat>>
  BY DEF ReceivePacket, BeginStatus
<1> QED
  BY <1>1, MemStutters DEF Pending

LEMMA TransmitMem ==
    ASSUME StatusInv, MemTypeOK, MemInv, NEW n \in Numbers, NEW offered \in Lengths,
           TransmitPacket(n, offered)
    PROVE  MemTypeOK' /\ MemInv'
<1> DEFINE e      == <<n, "in">>
           length == IF offered <= buffer[e].length THEN offered ELSE buffer[e].length
           entry  == [addr |-> buffer[e].offset, blocks |-> 0, count |-> length]
<1>1. /\ ~op.on /\ op'.d = e /\ UNCHANGED <<access, buffer, bufferPtr, open, enabled, stat>>
      /\ table' = [table EXCEPT ![e] = entry]
  BY DEF TransmitPacket, BeginStatus, Callable
<1>2. e \in Directions /\ e[2] = "in" /\ buffer[e].length \in Nat /\ buffer[e].offset \in Nat
  BY DEF Directions, MemTypeOK, BufferType
<1>3. length \in 0..ControlPacket /\ length <= buffer[e].length
  BY <1>2, PacketFacts
<1> HIDE DEF length, e
<1>4. entry \in DescriptorType /\ entry.count = length
  BY <1>2, <1>3 DEF DescriptorType
<1> HIDE DEF entry
<1>5. /\ table' \in [Directions -> DescriptorType]
      /\ \A d \in Directions : d # e => table'[d] = table[d]
      /\ table'[e].count = length
  BY <1>1, <1>2, <1>4 DEF MemTypeOK
<1>6. \A d \in open : d[2] = "in" /\ (stat'[d] = Valid \/ Pending(d)') =>
                          table'[d].count <= buffer[d].length
  <2>1. open \subseteq Directions
    BY DirectionFacts DEF StatusInv, PcdTypeOK
  <2> QED
    BY <1>1, <1>3, <1>5, <2>1 DEF MemInv, InUse, Pending
<1> QED
  BY <1>1, <1>2, <1>5, <1>6, MemKept

LEMMA StallMem ==
    ASSUME StatusInv, MemTypeOK, MemInv, NEW e \in ControlPair, StallEndpoint(e)
    PROVE  MemTypeOK' /\ MemInv'
<1>1. op'.d = e /\ UNCHANGED <<access, buffer, bufferPtr, open, enabled, stat, table>>
  BY DEF StallEndpoint, BeginStatus
<1>2. e \notin open
  BY DirectionFacts DEF StatusInv, PcdTypeOK
<1> QED
  BY <1>1, <1>2, MemStutters DEF Pending

LEMMA PullMem ==
    ASSUME StatusInv, MemTypeOK, MemInv, PullReceived \/ PullTransmitted \/ Connect \/ Disconnect
    PROVE  MemTypeOK' /\ MemInv'
<1>1. UNCHANGED <<access, buffer, bufferPtr, open, table, stat, op>> /\ (enabled' => enabled)
  BY DEF PullReceived, PullTransmitted, Connect, Disconnect
<1> QED
  BY <1>1, MemStutters DEF Pending

\* handleReset() lays out the buffers of the control endpoint behind the table.
LEMMA ControlLaidOut ==
    ASSUME access \in {2, 4}, NEW b, NEW t,
           b[EpOut] = [offset |-> TableLength, length |-> ControlPacket],
           b[EpIn] = [offset |-> TableLength + ControlPacket, length |-> ControlPacket],
           t[EpOut] = [addr |-> TableLength, blocks |-> EncodeReceiveLength(ControlPacket),
                       count |-> 0]
    PROVE  LaidOut(b, t, ControlPair, TableLength + 2 * ControlPacket)
<1> DEFINE C == ControlPacket
           T == TableLength
<1>1. /\ C \in Nat /\ T \in Nat /\ C % access = 0 /\ T % access = 0 /\ C >= 8
      /\ (T + C) % access = 0 /\ (T + 2 * C) % access = 0
  <2>1. C \in Nat /\ T \in Nat /\ C % 4 = 0 /\ T % 4 = 0 /\ C >= 8
    BY PcdAssumption
  <2> HIDE DEF C, T
  <2>2. CASE access = 2
    BY <2>1, <2>2
  <2>3. CASE access = 4
    BY <2>1, <2>3
  <2> QED
    BY <2>1, <2>2, <2>3
<1>2. AlignLength(C) = C
  <2> HIDE DEF C, T
  <2>1. CASE access = 2
    BY <1>1, <2>1 DEF AlignLength
  <2>2. CASE access = 4
    BY <1>1, <2>2 DEF AlignLength
  <2> QED
    BY <2>1, <2>2
<1>3. Capacity(EncodeReceiveLength(C)) <= C /\ Capacity(EncodeReceiveLength(C)) \in Nat
  <2>1. C \in {8, 16, 32, 64}
    BY PcdAssumption
  <2> HIDE DEF C, T
  <2>2. AlignReceiveLength(C) = C
    BY <2>1 DEF AlignReceiveLength
  <2> QED
    BY <1>1, <2>2, ReceiveFacts
<1> HIDE DEF C, T
<1>4. /\ b[EpOut].offset = T /\ b[EpOut].length = C /\ b[EpIn].offset = T + C /\ b[EpIn].length = C
      /\ t[EpOut].addr = T /\ Capacity(t[EpOut].blocks) <= C /\ Capacity(t[EpOut].blocks) \in Nat
  BY <1>3 DEF C, T
<1>5. /\ EndsAt(b, t, EpOut, b[EpIn].offset)
      /\ EndsAt(b, t, EpOut, T + 2 * C) /\ EndsAt(b, t, EpIn, T + 2 * C)
  <2>1. EpIn[2] # "out"
    BY DEF EpIn
  <2>2. /\ AlignLength(b[EpOut].length) = C /\ AlignLength(b[EpIn].length) = C
        /\ T + C <= T + 2 * C /\ (T + C) + C <= T + 2 * C
        /\ T + Capacity(t[EpOut].blocks) <= T + C /\ T + Capacity(t[EpOut].blocks) <= T + 2 * C
    BY <1>1, <1>2, <1>4
  <2> QED
    BY <1>1, <1>4, <2>1, <2>2 DEF EndsAt
<1>6. LaidOut(b, t, ControlPair, T + 2 * C)
  <2>1. ControlPair = {EpIn, EpOut}
    BY DirectionFacts
  <2>2. \A d \in ControlPair : /\ T <= b[d].offset /\ b[d].offset % access = 0 /\ b[d].length > 0
                               /\ EndsAt(b, t, d, T + 2 * C)
    BY <1>1, <1>4, <1>5, <2>1
  <2> QED
    BY <1>1, <1>5, <2>1, <2>2 DEF LaidOut, T
<1> QED
  BY <1>6 DEF C, T

LEMMA ControlLength == access \in {2, 4} => /\ ControlRxLength = ControlPacket
                                            /\ AlignLength(ControlPacket) = ControlPacket
                                            /\ EncodeReceiveLength(ControlPacket) \in Nat
<1>1. CASE access = 2
  BY <1>1, PcdAssumption DEF ControlRxLength, AlignReceiveLength, AlignLength, EncodeReceiveLength
<1>2. CASE access = 4
  BY <1>2, PcdAssumption DEF ControlRxLength, AlignReceiveLength, AlignLength, EncodeReceiveLength
<1> QED
  BY <1>1, <1>2

LEMMA PullResetMem ==
    ASSUME StatusInv, MemTypeOK, MemInv, ~op.on, PullReset PROVE MemTypeOK' /\ MemInv'
<1> DEFINE C == ControlPacket
           T == TableLength
           out == [addr |-> T, blocks |-> EncodeReceiveLength(C), count |-> 0]
           bout == [offset |-> T, length |-> C]
           bin == [offset |-> T + C, length |-> C]
<1>1. access \in {2, 4} /\ ControlRxLength = C /\ AlignLength(C) = C /\ EncodeReceiveLength(C) \in Nat
  BY ControlLength DEF MemTypeOK
<1>2. /\ access' = access /\ open' = {} /\ enabled' /\ op' = op
      /\ table' = [table EXCEPT ![EpOut] = out]
      /\ buffer' = [buffer EXCEPT ![EpOut] = bout, ![EpIn] = bin]
      /\ bufferPtr' = T + C + C
  BY <1>1 DEF PullReset, HandleReset, EpIn, EpOut
<1>3. C \in Nat /\ T \in Nat /\ C > 0 /\ T + 2 * C <= MemoryLength
  BY PacketFacts
<1>4. out \in DescriptorType /\ bout \in BufferType /\ bin \in BufferType
  BY <1>1, <1>3 DEF DescriptorType, BufferType
<1>5. /\ buffer \in [Directions -> BufferType] /\ table \in [Directions -> DescriptorType]
      /\ EpIn \in Directions /\ EpOut \in Directions /\ EpIn # EpOut
  BY DirectionFacts DEF MemTypeOK
<1> HIDE DEF out, bin, bout
<1>6. /\ buffer' \in [Directions -> BufferType] /\ table' \in [Directions -> DescriptorType]
      /\ buffer'[EpOut] = bout /\ buffer'[EpIn] = bin /\ table'[EpOut] = out
  BY <1>2, <1>4, <1>5
<1>7. T + C + C = T + 2 * C /\ T + 2 * C \in Nat
  BY <1>3
<1>8. LaidOut(buffer', table', ControlPair, T + 2 * C)
  BY <1>1, <1>6, ControlLaidOut DEF bin, bout, out
<1>9. buffer'[EpOut].length = C /\ buffer'[EpIn].length = C
  BY <1>6 DEF bin, bout
<1>10. InUse' = ControlPair
  BY <1>2, <1>3, <1>9 DEF InUse, EpOut
<1>11. MemTypeOK'
  BY <1>1, <1>2, <1>6, <1>7 DEF MemTypeOK
<1>12. LaidOut(buffer, table, InUse, bufferPtr)'
  <2> DEFINE p == T + 2 * C
             D == ControlPair
  <2> HIDE DEF p, D
  <2>1. LaidOut(buffer', table', D, p) /\ InUse' = D /\ bufferPtr' = p /\ access' = access
    BY <1>2, <1>7, <1>8, <1>10 DEF p, D
  <2> QED
    BY <2>1 DEF LaidOut, EndsAt, AlignLength
<1>13. \A d \in InUse' : d[2] = "in" => table'[d].count <= buffer'[d].length
  <2>1. table'[EpIn].count \in 0..ControlPacket
    BY <1>5, <1>6 DEF DescriptorType
  <2> QED
    BY <1>3, <1>9, <1>10, <2>1, DirectionFacts
<1> QED
  BY <1>2, <1>3, <1>7, <1>9, <1>11, <1>12, <1>13 DEF MemInv

LEMMA ConfigureMem ==
    ASSUME StatusInv, MemTypeOK, MemInv, ConfigureDevice PROVE MemTypeOK' /\ MemInv'
<1> DEFINE s == [stat |-> stat, ctr |-> ctr, buffer |-> buffer, table |-> table,
                 bufferPtr |-> bufferPtr]
           t == OpenAll(s)
<1>1. /\ ~op.on /\ enabled /\ t.bufferPtr <= MemoryLength /\ stat' = t.stat
      /\ buffer' = t.buffer /\ table' = t.table /\ bufferPtr' = t.bufferPtr
      /\ open' = Configured /\ UNCHANGED <<access, enabled, op>>
  BY DEF ConfigureDevice
<1>2. s \in Opening /\ s.buffer = buffer /\ s.table = table /\ s.bufferPtr = bufferPtr /\ access \in {2, 4}
  BY OpeningNow DEF MemTypeOK
<1> HIDE DEF s, t
<1>3. ControlPair \subseteq InUse
  BY <1>1 DEF MemInv, InUse, EpOut
<1>4. LaidOut(buffer, table, ControlPair, bufferPtr)
  BY <1>3, DirectionFacts DEF MemInv, LaidOut
<1>5. /\ t \in Opening
      /\ \A d \in Configured : t.stat[d] = Nak
      /\ \A d \in Directions \ Configured : t.buffer[d] = buffer[d] /\ t.table[d] = table[d]
      /\ LaidOut(t.buffer, t.table, Configured \cup ControlPair, t.bufferPtr)
  BY <1>2, <1>4, Opened DEF t
<1>6. MemTypeOK'
  BY <1>1, <1>2, <1>5 DEF MemTypeOK, Opening
<1>7. EpIn \in Directions \ Configured /\ EpOut \in Directions \ Configured
  BY DirectionFacts
<1>8. /\ buffer'[EpIn] = buffer[EpIn] /\ buffer'[EpOut] = buffer[EpOut]
      /\ buffer[EpOut].length > 0 /\ buffer[EpIn].length = ControlPacket
  BY <1>1, <1>5, <1>7 DEF MemInv
<1>9. InUse' = Configured \cup ControlPair
  BY <1>1, <1>8 DEF InUse, EpOut
<1>10. LaidOut(buffer, table, InUse, bufferPtr)'
  <2> DEFINE b == t.buffer
             e == t.table
             p == t.bufferPtr
             D == Configured \cup ControlPair
  <2> HIDE DEF b, e, p, D
  <2>1. /\ LaidOut(b, e, D, p) /\ buffer' = b /\ table' = e /\ InUse' = D /\ bufferPtr' = p
        /\ access' = access
    BY <1>1, <1>5, <1>9 DEF b, e, p, D
  <2> QED
    BY <2>1 DEF LaidOut, EndsAt, AlignLength
<1>11. \A d \in InUse' : d[2] = "in" /\ (stat'[d] = Valid \/ Pending(d)') =>
                             table'[d].count <= buffer'[d].length
  <2>1. \A d \in Configured : stat'[d] # Valid /\ ~Pending(d)'
    BY <1>1, <1>5, StatusFacts DEF Pending
  <2>2. table'[EpIn].count \in 0..ControlPacket
    BY <1>6, <1>7 DEF MemTypeOK, DescriptorType
  <2>3. table'[EpIn].count <= buffer'[EpIn].length
    BY <1>8, <2>2, PacketFacts
  <2> QED
    BY <1>9, <2>1, <2>3, DirectionFacts
<1> QED
  BY <1>1, <1>6, <1>8, <1>10, <1>11 DEF MemInv

LEMMA MemStep == ASSUME StatusInv, MemTypeOK, MemInv, PcdNext PROVE MemTypeOK' /\ MemInv'
<1>1. CASE Hardware
  BY <1>1, HardwareMem
<1>2. CASE Driver
  <2>1. CASE EndStatus
    BY <2>1, EndStatusMem
  <2>2. ASSUME NEW n \in Numbers, ReceivePacket(n) PROVE MemTypeOK' /\ MemInv'
    BY <2>2, ReceiveMem
  <2>3. ASSUME NEW n \in Numbers, NEW length \in Lengths, TransmitPacket(n, length)
        PROVE  MemTypeOK' /\ MemInv'
    BY <2>3, TransmitMem
  <2>4. ASSUME NEW d \in ControlPair, StallEndpoint(d) PROVE MemTypeOK' /\ MemInv'
    BY <2>4, StallMem
  <2>5. CASE PullEvent
    BY <2>5, PullResetMem, PullMem DEF PullEvent
  <2>6. CASE ConfigureDevice
    BY <2>6, ConfigureMem
  <2>7. CASE Connect \/ Disconnect
    BY <2>7, PullMem
  <2> QED
    BY <1>2, <2>1, <2>2, <2>3, <2>4, <2>5, <2>6, <2>7 DEF Driver
<1> QED
  BY <1>1, <1>2 DEF PcdNext


\* Initially nothing is set up.
LEMMA PcdInvInit == PcdInit => PcdInv
<1> SUFFICES ASSUME PcdInit PROVE PcdInv
  OBVIOUS
<1>1. PcdTypeOK
  BY DirectionFacts DEF PcdInit, PcdTypeOK, NoOp, Quiet, Disabled, EpOut
<1>2. ~enabled /\ ~op.on /\ ctr = {} /\ ~resetFlag /\ ~Live
  BY DEF PcdInit, NoOp, Live
<1>3. DataInv /\ ControlInv
  BY <1>2 DEF DataInv, ControlInv, OpInv, EnabledInv, OwedInv, Pending
<1>4. /\ access \in {2, 4} /\ buffer = [d \in Directions |-> [offset |-> 0, length |-> 0]]
      /\ table = [d \in Directions |-> [addr |-> 0, blocks |-> 0, count |-> 0]]
      /\ bufferPtr = 0 /\ open = {}
  BY PcdAssumption DEF PcdInit
<1>5. MemTypeOK
  BY <1>4, PacketFacts DEF MemTypeOK, BufferType, DescriptorType
<1>6. buffer[EpOut].length = 0
  BY <1>4, DirectionFacts
<1>7. InUse = {}
  BY <1>4, <1>6 DEF InUse, EpOut
<1>8. MemInv
  BY <1>2, <1>4, <1>6, <1>7, PacketFacts DEF MemInv
<1> QED
  BY <1>1, <1>3, <1>5, <1>8 DEF PcdInv, StatusInv

LEMMA PcdInvStep == PcdInv /\ [PcdNext]_pcdVars => PcdInv'
<1> SUFFICES ASSUME PcdInv, [PcdNext]_pcdVars PROVE PcdInv'
  OBVIOUS
<1>1. CASE PcdNext
  BY <1>1, StatusStep, MemStep DEF PcdInv
<1>2. CASE UNCHANGED pcdVars
  <2>1. UNCHANGED StatusVars /\ UNCHANGED <<access, buffer, bufferPtr, open, table, enabled, stat, op>>
    BY <1>2 DEF pcdVars, StatusVars
  <2> QED
    BY <2>1, StatusStutters, MemStutters DEF PcdInv, Pending
<1> QED
  BY <1>1, <1>2

\* The inductive invariant holds in every state.
THEOREM PcdInvariant == PcdSpec => []PcdInv
<1> QED
  BY PcdInvInit, PcdInvStep, PTL DEF PcdSpec

-----------------------------------------------------------------------------
(* What follows from the invariant.                                        *)

\* No call is forgotten: the endpoint is armed, about to be, or its event is pending.
THEOREM PcdForgetsNothing == PcdSpec => []NothingForgotten
<1>1. ASSUME PcdInv PROVE NothingForgotten
  <2> SUFFICES ASSUME Live PROVE NothingForgotten
    BY DEF NothingForgotten, Live
  <2>1. \A d \in open : /\ d \in owed <=> Armed(d) \/ d \in ctr
                        /\ ~(Armed(d) /\ d \in ctr)
    BY <1>1 DEF PcdInv, StatusInv, DataInv
  <2>2. \A d \in owed \cap ControlPair : Armed(d) \/ d \in ctr \/ SetupWaits
    BY <1>1, DirectionFacts DEF PcdInv, StatusInv, ControlInv, OwedInv
  <2> QED
    BY <2>1, <2>2 DEF NothingForgotten, SetupWaits, EpOut
<1> QED
  BY <1>1, PcdInvariant, PTL

\* Between the writes of the driver the control endpoint hears SETUP packets,
\* unless one of those writes was crossed by a packet.
THEOREM PcdHearsSetup == PcdSpec => []ControlAlive
<1>1. ASSUME PcdInv PROVE ControlAlive
  BY <1>1 DEF PcdInv, StatusInv, ControlInv, EnabledInv, ControlAlive, Deaf, Pending, EpOut
<1> QED
  BY <1>1, PcdInvariant, PTL

\* The packet buffers lie apart, in the memory, and neither side writes outside.
THEOREM PcdKeepsApart == PcdSpec => []BuffersApart
<1>1. ASSUME PcdInv PROVE BuffersApart
  <2> SUFFICES ASSUME NEW d \in InUse
               PROVE  /\ buffer[d].offset >= TableLength /\ buffer[d].offset + Extent(d) <= MemoryLength
                      /\ buffer[d].offset % access = 0
                      /\ \A e \in InUse \ {d} : Apart(d, e)
                      /\ IF d[2] = "out"
                         THEN /\ table[d].addr = buffer[d].offset
                              /\ \A e \in InUse \ {d} :
                                     \/ table[d].addr + Capacity(table[d].blocks) <= buffer[e].offset
                                     \/ buffer[e].offset < table[d].addr
                         ELSE stat[d] = Valid => WriteFootprint(table[d].count) <= Extent(d)
    BY DEF BuffersApart
  <2>1. LaidOut(buffer, table, InUse, bufferPtr) /\ bufferPtr <= MemoryLength /\ bufferPtr \in Nat
    BY <1>1 DEF PcdInv, MemInv, MemTypeOK
  <2>2. /\ access \in {2, 4} /\ InUse \subseteq Directions
        /\ buffer \in [Directions -> BufferType] /\ table \in [Directions -> DescriptorType]
    BY <1>1, DirectionFacts DEF PcdInv, StatusInv, PcdTypeOK, MemTypeOK, InUse
  <2>3. \A e \in InUse : /\ buffer[e].offset \in Nat /\ buffer[e].length \in Nat
                         /\ table[e].addr \in Nat /\ table[e].blocks \in Nat
                         /\ table[e].count \in Nat /\ e[2] \in {"in", "out"}
    BY <2>2, PacketFacts DEF BufferType, DescriptorType, Directions
  <2>4. \A e \in InUse : Extent(e) \in Nat /\ Extent(e) >= 2 /\ Extent(e) = AlignLength(buffer[e].length)
    BY <2>1, <2>2, <2>3, AlignFacts DEF LaidOut, Extent
  <2>5. \A e \in InUse : /\ TableLength <= buffer[e].offset /\ buffer[e].offset % access = 0
                         /\ EndsAt(buffer, table, e, bufferPtr)
    BY <2>1 DEF LaidOut
  <2>6. \A e \in InUse \ {d} : \/ EndsAt(buffer, table, d, buffer[e].offset)
                               \/ EndsAt(buffer, table, e, buffer[d].offset)
    BY <2>1 DEF LaidOut
  <2>7. buffer[d].offset >= TableLength /\ buffer[d].offset + Extent(d) <= MemoryLength
    BY <2>1, <2>3, <2>4, <2>5, PacketFacts DEF EndsAt
  <2>8. \A e \in InUse \ {d} : Apart(d, e)
    BY <2>4, <2>6 DEF EndsAt, Apart
  <2>9. ASSUME d[2] = "out"
        PROVE  /\ table[d].addr = buffer[d].offset
               /\ \A e \in InUse \ {d} :
                      \/ table[d].addr + Capacity(table[d].blocks) <= buffer[e].offset
                      \/ buffer[e].offset < table[d].addr
    <3>1. table[d].addr = buffer[d].offset
      BY <2>5, <2>9 DEF EndsAt
    <3>2. ASSUME NEW e \in InUse \ {d}, EndsAt(buffer, table, e, buffer[d].offset)
          PROVE  buffer[e].offset < table[d].addr
      <4>1. buffer[e].offset + Extent(e) <= buffer[d].offset
        BY <2>4, <3>2 DEF EndsAt
      <4> QED
        BY <2>3, <2>4, <3>1, <4>1
    <3>3. ASSUME NEW e \in InUse \ {d}, EndsAt(buffer, table, d, buffer[e].offset)
          PROVE  table[d].addr + Capacity(table[d].blocks) <= buffer[e].offset
      BY <2>9, <3>3 DEF EndsAt
    <3> QED
      BY <2>6, <3>1, <3>2, <3>3
  <2>10. ASSUME d[2] # "out", stat[d] = Valid PROVE WriteFootprint(table[d].count) <= Extent(d)
    <3>1. table[d].count <= buffer[d].length
      BY <1>1, <2>3, <2>10 DEF PcdInv, MemInv
    <3>2. AlignLength(table[d].count) <= AlignLength(buffer[d].length)
      BY <2>2, <2>3, <3>1, AlignFacts
    <3>3. buffer[d].length <= AlignLength(buffer[d].length)
      BY <2>2, <2>3, AlignFacts
    <3> QED
      BY <2>3, <2>4, <3>1, <3>2, <3>3 DEF WriteFootprint
  <2> QED
    BY <2>5, <2>7, <2>8, <2>9, <2>10
<1> QED
  BY <1>1, PcdInvariant, PTL

-----------------------------------------------------------------------------
(* Packets are whole.                                                      *)

\* Reading takes the bytes of the packet and leaves the others as they were.
LEMMA ReadWhole ==
    ASSUME access \in {2, 4}, NEW n \in 0..ControlPacket
    PROVE  ReadPacket(Blank, Packet(Cells), n) = Packet(n)
<1> DEFINE words == (n \div access) * access
<1>1. /\ n \in Nat /\ ControlPacket \in Nat /\ words \in Nat /\ n % access \in Nat
      /\ words + (n % access) = n
  <2>1. n \in Nat /\ ControlPacket \in Nat
    BY PacketFacts
  <2>2. CASE access = 2
    BY <2>1, <2>2
  <2>3. CASE access = 4
    BY <2>1, <2>3
  <2> QED
    BY <2>1, <2>2, <2>3
<1> HIDE DEF words
<1>2. \A i \in 1..ControlPacket : (i <= words \/ i - words \in 1..(n % access)) <=> i <= n
  BY <1>1
<1>3. ReadPacket(Blank, Packet(Cells), n) =
          [i \in 1..ControlPacket |->
              IF i <= words \/ i - words \in 1..(n % access) THEN Packet(Cells)[i] ELSE Blank[i]]
  BY DEF ReadPacket, words, Blank, Packet, Cells
<1>4. \A i \in 1..ControlPacket : Packet(Cells)[i] = i /\ Blank[i] = 0
  BY <1>1 DEF Packet, Blank, Cells
<1>5. Packet(n) = [i \in 1..ControlPacket |-> IF i <= n THEN i ELSE 0]
  BY DEF Packet, Cells
<1> QED
  BY <1>2, <1>3, <1>4, <1>5

\* What the hardware sends of a buffer is what was written to it.
LEMMA WriteWhole ==
    ASSUME access \in {2, 4}, NEW n \in 0..ControlPacket
    PROVE  SubSeq(WritePacket(Blank, Packet(Cells), n), 1, n) = SubSeq(Packet(Cells), 1, n)
<1> DEFINE a == WritePacket(Blank, Packet(Cells), n)
           b == Packet(Cells)
<1>1. n \in Nat /\ n \in Int /\ 1 \in Int /\ n <= ControlPacket /\ ControlPacket \in Nat
  BY PacketFacts
<1>2. n <= WriteFootprint(n)
  BY <1>1, AlignFacts DEF WriteFootprint
<1>3. \A i \in 1..n : i <= WriteFootprint(n) /\ i \in 1..ControlPacket
  <2>1. WriteFootprint(n) \in Nat
    BY <1>1, AlignFacts DEF WriteFootprint
  <2> QED
    BY <1>1, <1>2, <2>1
<1>4. \A i \in 1..n : a[i] = b[i] /\ b[i] \in Nat
  <2>1. DOMAIN Blank = 1..ControlPacket
    BY DEF Blank, Packet, Cells
  <2>2. \A i \in 1..n : a[i] = b[i]
    BY <1>3, <2>1 DEF WritePacket
  <2>3. \A i \in 1..n : b[i] = i
    BY <1>1, <1>3 DEF Packet, Cells
  <2> QED
    BY <2>2, <2>3
<1> HIDE DEF a, b
<1>5. /\ SubSeq(a, 1, n) \in Seq(Nat) /\ SubSeq(b, 1, n) \in Seq(Nat)
      /\ Len(SubSeq(a, 1, n)) = IF 1 <= n THEN n - 1 + 1 ELSE 0
      /\ Len(SubSeq(b, 1, n)) = IF 1 <= n THEN n - 1 + 1 ELSE 0
      /\ \A i \in 1..(n - 1 + 1) : SubSeq(a, 1, n)[i] = a[1 + i - 1]
      /\ \A i \in 1..(n - 1 + 1) : SubSeq(b, 1, n)[i] = b[1 + i - 1]
  BY <1>1, <1>4, SubSeqProperties
<1>6. /\ Len(SubSeq(a, 1, n)) = n /\ Len(SubSeq(b, 1, n)) = n
      /\ \A i \in 1..n : SubSeq(a, 1, n)[i] = SubSeq(b, 1, n)[i]
  BY <1>1, <1>4, <1>5
<1>7. SubSeq(a, 1, n) = SubSeq(b, 1, n)
  BY <1>5, <1>6, SeqEqual
<1> QED
  BY <1>7 DEF a, b

LEMMA PacketStep == PcdInv /\ PacketIntact /\ [PcdNext]_pcdVars => PacketIntact'
<1> SUFFICES ASSUME PcdInv, PacketIntact, [PcdNext]_pcdVars PROVE PacketIntact'
  OBVIOUS
<1>1. /\ access \in {2, 4} /\ ctr \subseteq Directions
      /\ \A d \in Directions : table[d].count \in 0..ControlPacket
  BY DEF PcdInv, StatusInv, PcdTypeOK, MemTypeOK, DescriptorType
<1>2. CASE UNCHANGED pcdVars
  BY <1>2 DEF pcdVars, PacketIntact
<1>3. ASSUME last'.t \notin {"received", "read"} PROVE PacketIntact'
  BY <1>3 DEF PacketIntact
<1>4. /\ Nothing.t = "none"
      /\ [Nothing EXCEPT !.t = "reset"].t = "reset"
      /\ \A d : [Nothing EXCEPT !.t = "transmitted", !.d = d].t = "transmitted"
  BY DEF Nothing
<1>5. ASSUME NEW n \in Numbers, HwTransmits(n) PROVE PacketIntact'
  <2> DEFINE d == <<n, "in">>
             bytes == SubSeq(WritePacket(Blank, Packet(Cells), table[d].count), 1, table[d].count)
  <2>1. /\ last' = [Nothing EXCEPT !.t = "read", !.d = d, !.bytes = bytes] /\ table' = table
        /\ d \in Directions
    BY <1>5 DEF HwTransmits, Directions
  <2>2. bytes = SubSeq(Packet(Cells), 1, table[d].count)
    BY <1>1, <2>1, WriteWhole
  <2> HIDE DEF bytes, d
  <2>3. last'.t = "read" /\ last'.d = d /\ last'.bytes = bytes
    BY <2>1 DEF Nothing
  <2>4. table'[last'.d].count = table[d].count
    BY <2>1, <2>3
  <2> QED
    BY <2>2, <2>3, <2>4 DEF PacketIntact, Packet, Cells
<1>6. CASE PullReceived
  <2> DEFINE d == Reported
             bytes == ReadPacket(Blank, Packet(Cells), table[d].count)
  <2>1. /\ last' = [t |-> "received", d |-> d, setup |-> d[1] = 0 /\ setup, bytes |-> bytes]
        /\ table' = table /\ d[2] = "out" /\ ctr # {}
    BY <1>6 DEF PullReceived
  <2>2. d \in Directions
    BY <1>1, <2>1, ReportedFacts
  <2>3. bytes = Packet(table[d].count)
    BY <1>1, <2>2, ReadWhole
  <2> HIDE DEF d, bytes
  <2>4. last'.t = "received" /\ last'.d = d /\ (last'.setup => d[1] = 0) /\ last'.bytes = bytes
    BY <2>1
  <2>5. d[1] = 0 => d = <<0, "out">>
    BY <2>1, <2>2 DEF Directions
  <2> QED
    BY <2>1, <2>3, <2>4, <2>5 DEF PacketIntact, Packet, Cells
<1>7. CASE Hardware
  <2>1. ASSUME HwReset \/ HwSetup \/ \E n \in Numbers, length \in Lengths : HwReceives(n, length)
        PROVE  last' = Nothing
    BY <2>1 DEF HwReset, HwSetup, HwReceives
  <2> QED
    BY <1>3, <1>4, <1>5, <1>7, <2>1 DEF Hardware
<1>8. CASE Driver
  <2>1. ASSUME EndStatus \/ ConfigureDevice \/ Connect \/ Disconnect
               \/ (\E d \in ControlPair : StallEndpoint(d))
               \/ (\E n \in Numbers : ReceivePacket(n) \/ \E length \in Lengths : TransmitPacket(n, length))
        PROVE  last' = Nothing
    BY <2>1 DEF EndStatus, ConfigureDevice, Connect, Disconnect, StallEndpoint, ReceivePacket,
                TransmitPacket
  <2>2. CASE PullEvent
    <3>1. CASE PullReset
      BY <1>3, <1>4, <3>1 DEF PullReset
    <3>2. CASE PullTransmitted
      BY <1>3, <1>4, <3>2 DEF PullTransmitted
    <3> QED
      BY <1>6, <2>2, <3>1, <3>2 DEF PullEvent
  <2> QED
    BY <1>3, <1>4, <1>8, <2>1, <2>2 DEF Driver
<1> QED
  BY <1>2, <1>7, <1>8 DEF PcdNext

\* Packets reach the stack and the host whole, with both access widths.
THEOREM PcdKeepsPackets == PcdSpec => []PacketIntact
<1>1. PcdInit => PacketIntact
  BY DEF PcdInit, PacketIntact, Nothing
<1> QED
  BY <1>1, PacketStep, PcdInvariant, PTL DEF PcdSpec

-----------------------------------------------------------------------------
(* The contract of a controller.                                           *)

\* A packet event of d waits to be reported; another may come.
Arrived(d)  == d \in ctr /\ ~(d = EpOut /\ setup)
Expected(d) == Live /\ Armed(d)

LEMMA LateNow ==
    \A d : /\ d \in upset => Late(d) = 0
           /\ d \notin upset /\ d \in owed => Late(d) = IF Arrived(d) /\ Expected(d) THEN 1 ELSE 0
           /\ d \notin upset /\ d \notin owed =>
                  Late(d) = (IF Arrived(d) THEN 1 ELSE 0) + (IF Expected(d) THEN 1 ELSE 0)
BY DEF Late, Arrived, Expected, EpOut

LEMMA LateNext ==
    \A d : /\ d \in upset' => Late(d)' = 0
           /\ d \notin upset' /\ d \in owed' =>
                  Late(d)' = IF Arrived(d)' /\ Expected(d)' THEN 1 ELSE 0
           /\ d \notin upset' /\ d \notin owed' =>
                  Late(d)' = (IF Arrived(d)' THEN 1 ELSE 0) + (IF Expected(d)' THEN 1 ELSE 0)
BY DEF Late, Arrived, Expected, EpOut

LEMMA LateNat == \A d : Late(d) \in Nat
BY LateNow

\* Nothing more is to come of d, or what was to come has.
LEMMA LateShrinks ==
    ASSUME NEW d, d \in upset => d \in upset', d \in owed => d \in owed',
           d \in upset' \/ (Arrived(d)' => Arrived(d)) \/ (Expected(d) /\ ~Expected(d)'),
           d \in upset' \/ (Expected(d)' => Expected(d) \/ (d \in owed' /\ d \notin owed))
    PROVE  Late(d)' \in 0..Late(d)
BY LateNow, LateNext

\* A call on d may have been cut off.
LEMMA LateGrows ==
    ASSUME NEW d, d \in upset => d \in upset',
           d \in upset' \/ ((Arrived(d)' => Arrived(d)) /\ (Expected(d)' => Expected(d)))
    PROVE  Late(d)' \in 0..(Late(d) + (IF d \in owed THEN 1 ELSE 0))
BY LateNow, LateNext

\* What the hardware does to a direction its packet moves: it is not armed after.
LEMMA MovedFacts ==
    ASSUME StatusInv, Live, op' = op, NEW S \in SUBSET Directions, upset' = CrossedBy(S),
           NEW d \in S, stat'[d] = Nak, stat[d] # Disabled
    PROVE  /\ d \in upset' \/ ~Armed(d)' \/ (Armed(d) /\ stat[d] # Valid)
<1> SUFFICES ASSUME d \notin upset', Armed(d)' PROVE Armed(d) /\ stat[d] # Valid
  OBVIOUS
<1>1. /\ stat[d] \in {Disabled, Stall, Nak, Valid}
      /\ op.read \in {Disabled, Stall, Nak, Valid} /\ op.to \in {Disabled, Stall, Nak, Valid}
  BY DEF StatusInv, PcdTypeOK
<1>2. op.on /\ op.d = d /\ op.read \in {Nak, op.to} /\ Flip(Nak, Flip(op.read, op.to)) = Valid
  BY StatusFacts DEF Armed, Written, CrossedBy
<1>3. op.read = Nak /\ op.to = Valid
  BY <1>1, <1>2 DEF Flip, Disabled, Stall, Nak, Valid
<1>4. stat[d] = Nak
  <2>1. CASE d \in ControlPair
    BY <1>2, <1>3, <2>1, DirectionFacts
       DEF StatusInv, ControlInv, OpInv, Pending, Crossed
  <2>2. CASE d \notin ControlPair
    BY <1>2, <2>2 DEF StatusInv, DataInv
  <2> QED
    BY <2>1, <2>2
<1> QED
  BY <1>2, <1>4, StatusFacts DEF Armed, Written

LEMMA HardwareLate ==
    ASSUME StatusInv, Hardware
    PROVE  /\ upset \subseteq upset' /\ UNCHANGED <<open, owed>>
           /\ last'.t \notin {"received", "transmitted", "reset"}
           /\ \A d \in Directions : Late(d)' \in 0..Late(d)
<1>1. CASE HwReset
  <2>1. /\ ~Live' /\ setup' = FALSE /\ UNCHANGED <<ctr, open, owed, op>>
        /\ upset' = IF EpOut \in ctr /\ setup THEN upset \cup {EpOut} ELSE upset
        /\ last' = Nothing
    BY <1>1 DEF HwReset, DriverUnchanged, EpOut, Live
  <2>2. \A d : ~Expected(d)' /\ (d \in upset' \/ (Arrived(d)' => Arrived(d)))
    BY <2>1 DEF Expected, Arrived
  <2> QED
    BY <2>1, <2>2, LateShrinks DEF Nothing
<1>2. CASE HwSetup
  <2>1. /\ Live /\ Live' /\ stat[EpOut] # Disabled /\ EpOut \notin ctr
        /\ stat' = [d \in Directions |-> IF d \in ControlPair THEN Nak ELSE stat[d]]
        /\ ctr' = ctr \cup {EpOut} /\ setup' = TRUE /\ upset' = CrossedBy(ControlPair)
        /\ UNCHANGED <<op, open, owed>> /\ last' = Nothing
    BY <1>2 DEF HwSetup, DriverUnchanged, Answering, Live, EpOut
  <2>2. \A d : Arrived(d)' => Arrived(d)
    BY <2>1 DEF Arrived
  <2>3. ASSUME NEW d \in Directions PROVE d \in upset' \/ (Expected(d)' => Expected(d))
    <3>1. CASE d \notin ControlPair
      BY <2>1, <2>3, <3>1 DEF Expected, Armed, Written
    <3>2. CASE d \in ControlPair
      <4> SUFFICES ASSUME d \notin upset', Armed(d)' PROVE Armed(d)
        BY <2>1 DEF Expected
      <4>1. stat'[d] = Nak
        BY <2>1, <3>2, DirectionFacts
      <4>2. /\ op.read \in {Disabled, Stall, Nak, Valid} /\ op.to \in {Disabled, Stall, Nak, Valid}
            /\ op.on /\ op.d = d /\ op.read \in {Nak, op.to} /\ Flip(Nak, Flip(op.read, op.to)) = Valid
        BY <2>1, <3>2, <4>1, StatusFacts DEF Armed, Written, CrossedBy, StatusInv, PcdTypeOK
      <4>3. op.read = Nak /\ op.to = Valid
        BY <4>2 DEF Flip, Disabled, Stall, Nak, Valid
      <4>4. stat[d] = Nak
        BY <2>1, <3>2, <4>2, <4>3, DirectionFacts DEF StatusInv, ControlInv, OpInv, Pending, Crossed
      <4> QED
        BY <2>1, <4>1, <4>2, <4>4 DEF Armed, Written
    <3> QED
      BY <3>1, <3>2
  <2>4. upset \subseteq upset'
    BY <2>1 DEF CrossedBy
  <2> QED
    BY <2>1, <2>2, <2>3, <2>4, LateShrinks DEF Nothing
<1>3. ASSUME NEW e \in Directions, Live, Live', stat[e] = Valid,
             stat' = [stat EXCEPT ![e] = Nak], ctr' = ctr \cup {e}, upset' = CrossedBy({e}),
             setup' = setup \/ (e = EpOut /\ EpOut \notin ctr),
             UNCHANGED <<op, open, owed>>
      PROVE  upset \subseteq upset' /\ \A d \in Directions : Late(d)' \in 0..Late(d)
  <2>1. upset \subseteq upset' /\ stat'[e] = Nak /\ \A d \in Directions : d # e => stat'[d] = stat[d]
    BY <1>3 DEF CrossedBy, StatusInv, PcdTypeOK
  <2>2. Expected(e) /\ (e \in upset' \/ ~Expected(e)')
    BY <1>3, <2>1, MovedFacts, StatusFacts DEF Expected, Armed
  <2>3. \A d \in Directions : d # e => /\ Arrived(d)' => Arrived(d)
                                       /\ Expected(d)' => Expected(d)
    BY <1>3, <2>1 DEF Arrived, Expected, Armed, Written
  <2>4. ASSUME NEW d \in Directions PROVE Late(d)' \in 0..Late(d)
    BY <1>3, <2>1, <2>2, <2>3, LateShrinks
  <2> QED
    BY <2>1, <2>4
<1>4. ASSUME NEW n \in Numbers, NEW length \in Lengths, HwReceives(n, length)
      PROVE  /\ upset \subseteq upset' /\ UNCHANGED <<open, owed>> /\ last'.t = "none"
             /\ \A d \in Directions : Late(d)' \in 0..Late(d)
  <2> DEFINE e == <<n, "out">>
  <2>1. /\ e \in Directions /\ Live /\ Live' /\ stat[e] = Valid /\ upset' = CrossedBy({e})
        /\ stat' = [stat EXCEPT ![e] = Nak] /\ ctr' = ctr \cup {e} /\ last' = Nothing
        /\ setup' = IF n = 0 /\ e \notin ctr THEN FALSE ELSE setup
        /\ UNCHANGED <<op, open, owed>>
    BY <1>4 DEF HwReceives, DriverUnchanged, Directions, HostTalks, Answering, Live
  <2>2. setup' = setup \/ (e = EpOut /\ EpOut \notin ctr)
    BY <2>1 DEF EpOut
  <2> HIDE DEF e
  <2> QED
    BY <1>3, <2>1, <2>2 DEF Nothing
<1>5. ASSUME NEW n \in Numbers, HwTransmits(n)
      PROVE  /\ upset \subseteq upset' /\ UNCHANGED <<open, owed>> /\ last'.t = "read"
             /\ \A d \in Directions : Late(d)' \in 0..Late(d)
  <2> DEFINE e == <<n, "in">>
  <2>1. /\ e \in Directions /\ Live /\ Live' /\ stat[e] = Valid /\ upset' = CrossedBy({e})
        /\ stat' = [stat EXCEPT ![e] = Nak] /\ ctr' = ctr \cup {e} /\ last'.t = "read"
        /\ UNCHANGED <<op, open, owed, setup>>
    BY <1>5 DEF HwTransmits, DriverUnchanged, Directions, HostTalks, Answering, Live, Nothing
  <2> HIDE DEF e
  <2> QED
    BY <1>3, <2>1
<1> QED
  BY <1>1, <1>2, <1>4, <1>5 DEF Hardware

\* The driver's calls, writes and events, for the calls that are late.
LEMMA CallLate ==
    ASSUME StatusInv, NEW c \in Directions, ~op.on, Live, Live', BeginStatus(c, Valid),
           c \notin owed, owed' = owed \cup {c}, UNCHANGED <<stat, ctr, setup, upset>>,
           NEW d \in Directions
    PROVE  Late(d)' \in 0..Late(d)
<1>1. op' = [on |-> TRUE, d |-> c, read |-> stat[c], to |-> Valid] /\ op'.on /\ op'.d = c
  BY DEF BeginStatus
<1>2. Arrived(d)' <=> Arrived(d)
  BY DEF Arrived
<1>3. d # c => (Expected(d)' => Expected(d))
  BY <1>1 DEF Expected, Armed
<1> QED
  BY <1>2, <1>3, LateShrinks

LEMMA StallLate ==
    ASSUME StatusInv, NEW c \in ControlPair, StallEndpoint(c), NEW d \in Directions
    PROVE  Late(d)' \in 0..(Late(d) + (IF d \in owed \cap {c} THEN 1 ELSE 0))
<1>1. /\ ~op.on /\ Live /\ Live' /\ op' = [on |-> TRUE, d |-> c, read |-> stat[c], to |-> Stall]
      /\ op'.on /\ op'.d = c /\ op'.read = stat[c] /\ op'.to = Stall /\ owed' = owed \ {c}
      /\ UNCHANGED <<stat, ctr, setup, upset>>
  BY DEF StallEndpoint, BeginStatus, Live
<1>2. Arrived(d)' <=> Arrived(d)
  BY <1>1 DEF Arrived
<1>3. Expected(d)' <=> Expected(d)
  <2>1. stat[c] \in {Disabled, Stall, Nak, Valid}
    BY DirectionFacts DEF StatusInv, PcdTypeOK
  <2>2. Written' = Stall
    BY <1>1, <2>1, FlipFacts DEF Written
  <2> QED
    BY <1>1, <2>2, StatusFacts DEF Expected, Armed
<1>4. CASE d = c
  <2>1. Late(d)' \in 0..(Late(d) + (IF d \in owed THEN 1 ELSE 0))
    BY <1>1, <1>2, <1>3, LateGrows
  <2> QED
    BY <1>4, <2>1
<1>5. CASE d # c
  <2>1. Late(d)' \in 0..Late(d)
    BY <1>1, <1>2, <1>3, <1>5, LateShrinks
  <2> QED
    BY <1>5, <2>1, LateNat
<1> QED
  BY <1>4, <1>5

LEMMA EndStatusLate ==
    ASSUME StatusInv, EndStatus, NEW d \in Directions PROVE Late(d)' \in 0..Late(d)
<1>1. /\ op.on /\ ~op'.on /\ stat' = [stat EXCEPT ![op.d] = Written]
      /\ UNCHANGED <<ctr, setup, owed, upset>> /\ (Live' <=> Live)
  BY DEF EndStatus, NoOp, Live
<1>2. Arrived(d)' <=> Arrived(d)
  BY <1>1 DEF Arrived
<1>3. Expected(d)' => Expected(d)
  BY <1>1 DEF Expected, Armed, StatusInv, PcdTypeOK
<1> QED
  BY <1>1, <1>2, <1>3, LateShrinks

LEMMA PullResetLate ==
    ASSUME StatusInv, ~op.on, PullReset, NEW d \in Directions
    PROVE  Late(d)' \in 0..(Late(d) + (IF d \in owed THEN 1 ELSE 0))
<1>1. /\ resetFlag /\ op' = op /\ setup' = setup
      /\ stat' = [e \in Directions |-> IF e \in ControlPair THEN Flip(stat[e], Nak) ELSE stat[e]]
      /\ ctr' = ctr \ ControlPair /\ owed' = {}
      /\ upset' = {e \in upset : stat'[e] = Valid}
  BY DEF PullReset, HandleReset
<1>2. stat[d] \in {Disabled, Stall, Nak, Valid} /\ upset \subseteq ControlPair
  BY DEF StatusInv, PcdTypeOK
<1>3. ~Armed(d)' <=> stat'[d] # Valid
  BY <1>1 DEF Armed
<1>4. CASE d \in ControlPair
  <2>1. stat'[d] = Valid => stat[d] = Stall
    BY <1>1, <1>2, <1>4 DEF Flip, Disabled, Stall, Nak, Valid
  <2>2. stat[d] = Stall => d \in owed \cup upset
    BY <1>1, <1>4 DEF StatusInv, ControlInv, OpInv
  <2>3. ~Arrived(d)'
    BY <1>1, <1>4 DEF Arrived
  <2>4. Expected(d)' => stat'[d] = Valid
    BY <1>3 DEF Expected
  <2>5. Late(d)' \in 0..(IF d \in owed THEN 1 ELSE 0)
    <3>1. CASE d \in upset'
      BY <3>1, LateNext
    <3>2. CASE d \notin upset'
      <4>1. Expected(d)' => d \in owed
        BY <1>1, <2>1, <2>2, <2>4, <3>2
      <4>2. d \notin owed'
        BY <1>1
      <4> QED
        BY <2>3, <3>2, <4>1, <4>2, LateNext
    <3> QED
      BY <3>1, <3>2
  <2>6. Late(d) \in Nat
    BY LateNow
  <2> QED
    BY <2>5, <2>6
<1>5. CASE d \notin ControlPair
  <2>1. ~Expected(d)'
    BY <1>1, <1>3, <1>5, StatusFacts DEF StatusInv, DataInv, Expected
  <2>2. Arrived(d)' <=> Arrived(d)
    BY <1>1, <1>5 DEF Arrived
  <2> QED
    BY <1>2, <1>5, <2>1, <2>2, LateGrows
<1> QED
  BY <1>4, <1>5

LEMMA ConfigureLate ==
    ASSUME StatusInv, MemTypeOK, ConfigureDevice, NEW d \in Directions
    PROVE  Late(d)' \in 0..(IF d \in ControlPair THEN Late(d) ELSE 0)
<1> DEFINE s == [stat |-> stat, ctr |-> ctr, buffer |-> buffer, table |-> table,
                 bufferPtr |-> bufferPtr]
           t == OpenAll(s)
<1>1. /\ ~op.on /\ Live /\ Live' /\ stat' = t.stat /\ ctr' = t.ctr
      /\ open' = Configured /\ owed' = owed \cap ControlPair
      /\ UNCHANGED <<setup, op, upset>>
  BY DEF ConfigureDevice, Live
<1>2. s \in Opening /\ s.stat = stat /\ s.ctr = ctr /\ access \in {2, 4}
  BY OpeningNow DEF MemTypeOK
<1> HIDE DEF s, t
<1>3. /\ \A e \in Configured : t.stat[e] = Nak
      /\ \A e \in Directions \ Configured : t.stat[e] = stat[e]
      /\ t.ctr = ctr \ Configured
  BY <1>2, Opened DEF t
<1>4. /\ open \subseteq Configured /\ ctr \ ControlPair \subseteq Configured
      /\ Configured \subseteq Directions \ ControlPair /\ upset \subseteq ControlPair
  BY DirectionFacts DEF StatusInv, PcdTypeOK, DataInv
<1>5. CASE d \in ControlPair
  <2>1. (Arrived(d)' <=> Arrived(d)) /\ (Expected(d)' <=> Expected(d)) /\ (d \in owed' <=> d \in owed)
    BY <1>1, <1>3, <1>4, <1>5 DEF Arrived, Expected, Armed
  <2> QED
    BY <1>1, <1>5, <2>1, LateShrinks
<1>6. CASE d \notin ControlPair
  <2>1. stat'[d] # Valid
    BY <1>1, <1>3, <1>4, <1>6, StatusFacts DEF StatusInv, DataInv
  <2>2. ~Arrived(d)' /\ ~Expected(d)' /\ d \notin owed'
    BY <1>1, <1>3, <1>4, <1>6, <2>1 DEF Arrived, Expected, Armed
  <2> QED
    BY <1>6, <2>2, LateNext
<1> QED
  BY <1>5, <1>6

\* An event of d is reported: d is owed one, or one was late, or d is upset.
LEMMA PulledLate ==
    ASSUME StatusInv, NEW c \in Directions, Arrived(c), ctr' = ctr \ {c}, owed' = owed \ {c},
           UNCHANGED <<stat, setup, op, resetFlag, enabled, upset>>
    PROVE  /\ c \in owed \/ Late(c) > 0 \/ c \in upset
           /\ \A d \in Directions : Late(d)' \in 0..Late(d)
           /\ c \notin owed \cup upset => Late(c)' < Late(c)
<1>1. \A d : /\ Expected(d)' <=> Expected(d)
             /\ d # c => (Arrived(d)' <=> Arrived(d))
  BY DEF Expected, Armed, Written, Arrived, Live
<1>2. ~Arrived(c)'
  BY DEF Arrived
<1>3. /\ c \in owed \/ Late(c) > 0 \/ c \in upset
      /\ Late(c)' \in 0..Late(c)
      /\ c \notin owed \cup upset => Late(c)' < Late(c)
  BY <1>1, <1>2, LateNow, LateNext
<1>4. ASSUME NEW d \in Directions, d # c PROVE Late(d)' \in 0..Late(d)
  BY <1>1, <1>4, LateShrinks
<1> QED
  BY <1>3, <1>4

\* A SETUP packet is reported: it cuts off the calls on the control endpoint.
LEMMA SetupLate ==
    ASSUME StatusInv, ctr' = ctr \ {EpOut}, setup, owed' = owed \ ControlPair,
           UNCHANGED <<stat, setup, op, resetFlag, enabled, upset>>, NEW d \in Directions
    PROVE  Late(d)' \in 0..(Late(d) + (IF d \in owed \cap ControlPair THEN 1 ELSE 0))
<1>1. (Expected(d)' <=> Expected(d)) /\ (Arrived(d)' => Arrived(d))
  BY DEF Expected, Armed, Written, Arrived, Live
<1>2. CASE d \in owed \cap ControlPair
  <2>1. Late(d)' \in 0..(Late(d) + (IF d \in owed THEN 1 ELSE 0))
    BY <1>1, LateGrows
  <2> QED
    BY <1>2, <2>1
<1>3. CASE d \notin owed \cap ControlPair
  <2>1. Late(d)' \in 0..Late(d)
    BY <1>1, <1>3, LateShrinks
  <2> QED
    BY <1>3, <2>1, LateNat
<1> QED
  BY <1>2, <1>3

LEMMA ContractStep ==
    PcdInv /\ PcdInv' /\ [PcdNext]_pcdVars => [Contract!ContractNext]_(Contract!contractVars)
<1> SUFFICES ASSUME PcdInv, PcdInv', [PcdNext]_pcdVars
             PROVE  [Contract!ContractNext]_(Contract!contractVars)
  OBVIOUS
<1> DEFINE late == [d \in Directions |-> Late(d)]
<1>1. /\ Contract!ControlDirections = ControlPair
      /\ StatusInv /\ MemTypeOK /\ upset \subseteq ControlPair /\ upset' \subseteq ControlPair
      /\ ctr \subseteq Directions
  BY DirectionFacts DEF Contract!ControlDirections, PcdInv, StatusInv, PcdTypeOK
<1>2. \A d \in Directions : late[d] = Late(d) /\ late'[d] = Late(d)'
  OBVIOUS
<1>3. CASE UNCHANGED pcdVars
  <2>1. PcdEvent' = PcdEvent /\ UNCHANGED <<open, owed, upset>>
    BY <1>3 DEF pcdVars, PcdEvent
  <2>2. late' = late
    BY <1>3 DEF pcdVars, Late, Live, Armed, Written
  <2> QED
    BY <2>1, <2>2 DEF Contract!contractVars
<1>4. ASSUME last'.t \notin {"received", "transmitted", "reset"} PROVE PcdEvent' = <<"none">>
  BY <1>4 DEF PcdEvent
<1>5. Nothing.t = "none"
  BY DEF Nothing
<1> HIDE DEF late
<1>6. ASSUME last'.t \notin {"received", "transmitted", "reset"}, UNCHANGED <<open, owed>>,
             upset \subseteq upset', \A d \in Directions : Late(d)' \in 0..Late(d)
      PROVE  Contract!ContractNext
  <2>1. \A d \in Directions : late'[d] \in 0..(late[d] + (IF d \in owed \cap {} THEN 1 ELSE 0))
    BY <1>2, <1>6, LateNat
  <2>2. Contract!CutOff({}) /\ Contract!UpsetGrows
    BY <1>1, <1>6, <2>1 DEF Contract!CutOff, Contract!UpsetGrows, late
  <2> QED
    BY <1>4, <1>6, <2>2 DEF Contract!ContractNext, Contract!NoEvent
<1>7. CASE Hardware
  BY <1>1, <1>6, <1>7, HardwareLate
<1>8. CASE EndStatus
  BY <1>1, <1>5, <1>6, <1>8, EndStatusLate DEF EndStatus
<1>9. ASSUME NEW d \in Directions, Callable(d), d \notin owed, BeginStatus(d, Valid),
             owed' = owed \cup {d}, last' = Nothing,
             UNCHANGED <<open, upset, stat, ctr, setup, resetFlag, enabled>>
      PROVE  Contract!ContractNext
  <2>1. d \in ControlPair \cup open /\ ~op.on /\ Live /\ Live'
    BY <1>9 DEF Callable, Live
  <2>2. \A e \in Directions : Late(e)' \in 0..Late(e)
    BY <1>1, <1>9, <2>1, CallLate
  <2>3. Contract!CallMade(d)
    BY <1>1, <1>2, <1>4, <1>5, <1>9, <2>1, <2>2 DEF Contract!CallMade, late
  <2> QED
    BY <2>3 DEF Contract!ContractNext
<1>10. ASSUME NEW n \in Numbers, ReceivePacket(n) PROVE Contract!ContractNext
  <2>1. <<n, "out">> \in Directions
    BY DEF Directions
  <2> QED
    BY <1>9, <1>10, <2>1 DEF ReceivePacket
<1>11. ASSUME NEW n \in Numbers, NEW length \in Lengths, TransmitPacket(n, length)
       PROVE  Contract!ContractNext
  <2>1. <<n, "in">> \in Directions
    BY DEF Directions
  <2> QED
    BY <1>9, <1>11, <2>1 DEF TransmitPacket
<1>12. ASSUME NEW d \in ControlPair, StallEndpoint(d) PROVE Contract!ContractNext
  <2>1. owed' = owed \ {d} /\ last' = Nothing /\ UNCHANGED <<open, upset>> /\ d \in Directions
    BY <1>12, DirectionFacts DEF StallEndpoint
  <2>2. Contract!CutOff({d})
    BY <1>1, <1>2, <1>12, <2>1, StallLate DEF Contract!CutOff, late
  <2> QED
    BY <1>1, <1>4, <1>5, <2>1, <2>2 DEF Contract!ContractNext, Contract!CallStalled
<1>13. CASE PullEvent /\ PullReset
  <2>1. PcdEvent' = <<"reset">>
    BY <1>13 DEF PullReset, PcdEvent, Nothing
  <2>2. open' = {} /\ owed' = {} /\ upset' \subseteq upset /\ ~op.on
    BY <1>13 DEF PullReset, PullEvent
  <2>3. Contract!CutOff(owed)
    BY <1>1, <1>2, <1>13, <2>2, PullResetLate DEF Contract!CutOff, late
  <2> QED
    BY <2>1, <2>2, <2>3 DEF Contract!ContractNext, Contract!ResetRaised
<1>14. ASSUME NEW d \in Directions, Arrived(d), ctr' = ctr \ {d}, owed' = owed \ {d},
              PcdEvent' = <<"packet", d>>,
              UNCHANGED <<open, upset, stat, setup, op, resetFlag, enabled>>
       PROVE  Contract!ContractNext
  <2>1. /\ d \in owed \/ Late(d) > 0 \/ d \in upset
        /\ \A e \in Directions : Late(e)' \in 0..Late(e)
        /\ d \notin owed \cup upset => Late(d)' < Late(d)
    BY <1>1, <1>14, PulledLate
  <2>2. Contract!EventRaised(d)
    BY <1>2, <1>14, <2>1 DEF Contract!EventRaised, late
  <2> QED
    BY <2>2 DEF Contract!ContractNext
<1>15. CASE PullReceived
  <2> DEFINE d == Reported
             isSetup == d[1] = 0 /\ setup
             bytes == ReadPacket(Blank, Packet(Cells), table[d].count)
  <2>1. /\ last' = [t |-> "received", d |-> d, setup |-> isSetup, bytes |-> bytes]
        /\ owed' = IF isSetup THEN owed \ ControlPair ELSE owed \ {d}
        /\ ctr' = ctr \ {d} /\ ctr # {} /\ d[2] = "out"
        /\ UNCHANGED <<open, upset, stat, setup, op, resetFlag, enabled>>
    BY <1>15 DEF PullReceived, ClearFlag
  <2>2. d \in Directions /\ d \in ctr
    BY <1>1, <2>1, ReportedFacts
  <2>3. d[1] = 0 <=> d = EpOut
    BY <2>1, <2>2, DirectionFacts DEF EpOut, Directions
  <2> HIDE DEF d, bytes
  <2>4. last'.t = "received" /\ last'.d = d /\ last'.setup = isSetup
    BY <2>1
  <2>5. CASE isSetup
    <3>1. PcdEvent' = <<"setup">>
      BY <2>4, <2>5 DEF PcdEvent
    <3>2. Contract!CutOff(ControlPair)
      BY <1>1, <1>2, <2>1, <2>3, <2>5, SetupLate DEF Contract!CutOff, late
    <3> QED
      BY <1>1, <2>1, <3>1, <3>2 DEF Contract!ContractNext, Contract!SetupRaised
  <2>6. CASE ~isSetup
    <3>1. PcdEvent' = <<"packet", d>>
      BY <2>4, <2>6 DEF PcdEvent
    <3>2. Arrived(d)
      BY <2>2, <2>3, <2>6 DEF Arrived
    <3> QED
      BY <1>14, <2>1, <2>2, <2>6, <3>1, <3>2
  <2> QED
    BY <2>5, <2>6
<1>16. CASE PullTransmitted
  <2> DEFINE d == Reported
  <2>1. /\ last' = [Nothing EXCEPT !.t = "transmitted", !.d = d] /\ owed' = owed \ {d}
        /\ ctr' = ctr \ {d} /\ ctr # {} /\ d[2] = "in"
        /\ UNCHANGED <<open, upset, stat, setup, op, resetFlag, enabled>>
    BY <1>16 DEF PullTransmitted, ClearFlag
  <2>2. d \in Directions /\ Arrived(d)
    BY <1>1, <2>1, ReportedFacts, DirectionFacts DEF Arrived
  <2> HIDE DEF d
  <2>3. PcdEvent' = <<"packet", d>>
    BY <2>1 DEF PcdEvent, Nothing
  <2> QED
    BY <1>14, <2>1, <2>2, <2>3
<1>17. CASE ConfigureDevice
  <2>1. last' = Nothing /\ open' = Configured /\ owed' = owed \cap ControlPair /\ upset' = upset
    BY <1>17 DEF ConfigureDevice
  <2>2. Configured \in SUBSET (Directions \ ControlPair)
    BY DirectionFacts
  <2>3. \A d \in Directions : late'[d] \in 0..(IF d \in ControlPair THEN late[d] ELSE 0)
    BY <1>1, <1>2, <1>17, ConfigureLate
  <2>4. Contract!EndpointsOpened
    BY <1>1, <1>4, <1>5, <2>1, <2>2, <2>3 DEF Contract!EndpointsOpened, late
  <2> QED
    BY <2>4 DEF Contract!ContractNext
<1>18. CASE Connect \/ Disconnect
  <2>1. /\ last' = Nothing /\ UNCHANGED <<open, owed, upset, stat, ctr, setup, op>>
        /\ Live' => Live
    BY <1>18 DEF Connect, Disconnect, Live
  <2>2. \A d : (Arrived(d)' => Arrived(d)) /\ (Expected(d)' => Expected(d))
    BY <2>1 DEF Arrived, Expected, Armed, Written
  <2>3. \A d \in Directions : Late(d)' \in 0..Late(d)
    BY <2>1, <2>2, LateShrinks
  <2> QED
    BY <1>5, <1>6, <2>1, <2>3
<1>19. CASE Driver
  BY <1>8, <1>10, <1>11, <1>12, <1>13, <1>15, <1>16, <1>17, <1>18, <1>19 DEF Driver, PullEvent
<1> QED
  BY <1>3, <1>7, <1>19 DEF PcdNext

\* The driver keeps the contract of a controller: a call is answered once at most,
\* no event comes without a call but those the contract names as late or of a
\* direction that is upset, and none outlives the opening of its endpoint.
THEOREM PcdKeepsContract == PcdSpec => ImplementsContract
<1>1. PcdInit => Contract!ContractInit
  <2> SUFFICES ASSUME PcdInit PROVE Contract!ContractInit
    OBVIOUS
  <2>1. \A d : Late(d) = 0
    BY DEF PcdInit, Late, Live
  <2> QED
    BY <2>1 DEF PcdInit, Contract!ContractInit, PcdEvent, Nothing
<1> QED
  BY <1>1, ContractStep, PcdInvariant, PTL
     DEF PcdSpec, ImplementsContract, Contract!ContractSpec
==============================================================================
