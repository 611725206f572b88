---------------------------- MODULE SerialPort_proof ----------------------------
(***************************************************************************)
(* A serial port loses, repeats and reorders nothing, keeps its contract   *)
(* with the controller within a configuration and tells the application of *)
(* every change, for every packet length, all queue capacities and every   *)
(* use of the port.                                                        *)
(***************************************************************************)
EXTENDS SerialPort, SequenceTheorems, FiniteSetTheorems, TLAPS

-----------------------------------------------------------------------------
(* The inductive invariant.  The receiving and the transmitting direction  *)
(* share only the link and the set of owed calls, and each has its half.   *)

\* The receiving direction.  An armed endpoint and a call still owed both mean
\* that no packet is held back.
RxInv ==
    /\ rxQueue \in Seq(Nat) /\ rxPacket \in Seq(Nat) /\ rxHead \in Nat
    /\ seen \in Seq(Nat) /\ appGot \in Seq(Nat) /\ hostSent \in Nat
    /\ out \in [status : {"closed", "nak", "armed", "full"}, data : Seq(Nat)]
    /\ link \in {"new", "reset", "configured"}
    /\ link # "configured" <=> out.status = "closed"
    /\ out.status \in {"armed", "full"} => rxPacket = << >>
    /\ "receive" \in owed => rxPacket = << >>
    /\ RxStream

TxTypeOK ==
    /\ txQueue \in Seq(Nat) /\ txHead \in Nat /\ txPacketLength \in Nat
    /\ txReady \in BOOLEAN /\ discardOnReset \in BOOLEAN
    /\ appWritten \in Nat /\ hostGot \in Seq(Nat)
    /\ in \in [status : {"closed", "nak", "ready", "sent"}, data : Seq(Nat)]
    /\ link \in {"new", "reset", "configured"}
    /\ link # "configured" <=> in.status = "closed"
    /\ in.status \in {"ready", "sent"} => txPacketLength \in 1..Len(txQueue)
    /\ "transmit" \in owed => ~txReady

\* The number of the last byte that has left the transmit queue for good.
Base == appWritten - Len(txQueue)

\* The queue holds the last bytes written; the head position counts the others
\* as long as no reset discarded any.
NumberedInv ==
    /\ Base \in Nat
    /\ \A i \in 1..Len(txQueue) : txQueue[i] = Base + i
    /\ ~discardOnReset => txHead = Base
    /\ appWritten = 0 => txHead = 0 /\ hostRead = {}

\* The host has read up to the packet it was given last.
ReadInv ==
    /\ \A i \in 1..(Len(hostGot) - 1) : hostGot[i + 1] = hostGot[i] + 1
    /\ link = "configured" /\ hostGot # << >> =>
           hostGot[Len(hostGot)] = Base + (IF in.status = "sent" THEN txPacketLength ELSE 0)
    /\ ~discardOnReset =>
           \E h \in Nat : /\ hostRead = 1..h /\ txHead <= h
                          /\ in.status = "sent" => txHead + txPacketLength <= h

TxInv == TxTypeOK /\ TxUnderway /\ NumberedInv /\ ReadInv

PortInv == RxInv /\ TxInv /\ EventsTell

-----------------------------------------------------------------------------
(* Sequences.                                                              *)

LEMMA AppendTwo == ASSUME NEW a, NEW b PROVE Append(<<a>>, b) = <<a, b>>
<1> DEFINE S == {a, b}
           s == Append(<<a>>, b)
           t == <<a, b>>
<1>1. <<a>> \in Seq(S) /\ b \in S /\ Len(<<a>>) = 1 /\ <<a>>[1] = a
  OBVIOUS
<1>2. s \in Seq(S) /\ Len(s) = 2 /\ s[1] = a /\ s[2] = b
  BY <1>1, AppendProperties
<1>3. t \in Seq(S) /\ Len(t) = 2 /\ t[1] = a /\ t[2] = b
  OBVIOUS
<1> HIDE DEF s, t, S
<1>4. s = t
  BY <1>2, <1>3, SeqEqual
<1> QED
  BY <1>4 DEF s, t

LEMMA SplitQueue ==
    ASSUME NEW q \in Seq(Nat), NEW n \in 0..Len(q)
    PROVE  /\ SubSeq(q, 1, n) \in Seq(Nat) /\ Len(SubSeq(q, 1, n)) = n
           /\ DropFirst(q, n) \in Seq(Nat) /\ Len(DropFirst(q, n)) = Len(q) - n
           /\ \A i \in 1..n : SubSeq(q, 1, n)[i] = q[i]
           /\ \A i \in 1..(Len(q) - n) : DropFirst(q, n)[i] = q[n + i]
           /\ SubSeq(q, 1, n) \o DropFirst(q, n) = q
<1>1. n \in Nat /\ Len(q) \in Nat
  OBVIOUS
<1>2. /\ SubSeq(q, 1, n) \in Seq(Nat) /\ Len(SubSeq(q, 1, n)) = n
      /\ \A i \in 1..n : SubSeq(q, 1, n)[i] = q[i]
  BY <1>1
<1>3. /\ DropFirst(q, n) \in Seq(Nat) /\ Len(DropFirst(q, n)) = Len(q) - n
      /\ \A i \in 1..(Len(q) - n) : DropFirst(q, n)[i] = q[n + i]
  BY <1>1 DEF DropFirst
<1>4. SubSeq(q, 1, n) \o DropFirst(q, n) = q
  <2>1. 1 \in 1..(Len(q) + 1) /\ n \in (1 - 1)..Len(q) /\ Len(q) \in n..Len(q)
    BY <1>1
  <2>2. SubSeq(q, 1, n) \o SubSeq(q, n + 1, Len(q)) = SubSeq(q, 1, Len(q))
    BY <2>1, ConcatAdjacentSubSeq
  <2> QED
    BY <2>2, SubSeqFull DEF DropFirst
<1> QED
  BY <1>2, <1>3, <1>4

LEMMA Associative == \A a, b, c \in Seq(Nat) : (a \o b) \o c = a \o (b \o c)
BY ConcatAssociative

LEMMA Concat ==
    ASSUME NEW a \in Seq(Nat), NEW b \in Seq(Nat)
    PROVE  /\ a \o b \in Seq(Nat) /\ Len(a \o b) = Len(a) + Len(b)
           /\ a \o << >> = a /\ << >> \o a = a /\ << >> \in Seq(Nat)
           /\ \A i \in 1..Len(a) : (a \o b)[i] = a[i]
           /\ \A i \in 1..Len(b) : (a \o b)[Len(a) + i] = b[i]
<1>1. /\ \A i \in 1..Len(a) : (a \o b)[i] = a[i]
      /\ \A i \in 1..Len(b) : (a \o b)[Len(a) + i] = b[i]
  OBVIOUS
<1>2. /\ a \o b \in Seq(Nat) /\ Len(a \o b) = Len(a) + Len(b)
      /\ a \o << >> = a /\ << >> \o a = a /\ << >> \in Seq(Nat)
  OBVIOUS
<1> QED
  BY <1>1, <1>2

\* The first n elements of q go to the application, whatever follows them.
LEMMA MoveOver ==
    ASSUME NEW a \in Seq(Nat), NEW q \in Seq(Nat), NEW p \in Seq(Nat), NEW n \in 0..Len(q)
    PROVE  (a \o SubSeq(q, 1, n)) \o (DropFirst(q, n) \o p) = a \o q \o p
<1> DEFINE s == SubSeq(q, 1, n)
           t == DropFirst(q, n)
<1>1. s \in Seq(Nat) /\ t \in Seq(Nat) /\ s \o t = q
  BY SplitQueue
<1> HIDE DEF s, t
<1>2. a \o s \in Seq(Nat)
  BY <1>1, Concat
<1>3. (a \o s) \o (t \o p) = ((a \o s) \o t) \o p
  BY <1>1, <1>2, Associative, Zenon
<1>4. (a \o s) \o t = a \o (s \o t)
  BY <1>1, Associative, ZenonT(30)
<1> QED
  BY <1>1, <1>3, <1>4 DEF s, t

LEMMA NumbersFacts ==
    ASSUME NEW k \in Nat, NEW n \in Nat
    PROVE  /\ Numbers(k, n) \in Seq(Nat) /\ Len(Numbers(k, n)) = n
           /\ \A i \in 1..n : Numbers(k, n)[i] = k + i
BY DEF Numbers

-----------------------------------------------------------------------------
(* The calls of a step and what the endpoints make of them.                *)

LEMMA IssuedBy ==
    /\ calls' = << >> => Issued = {}
    /\ calls' = <<Receive>> => Issued = {"receive"}
    /\ \A s : calls' = <<Transmit(s)>> => Issued = {"transmit"} /\ Last(calls').data = s
    /\ \A s : calls' = <<Receive, Transmit(s)>> =>
                  Issued = {"receive", "transmit"} /\ Last(calls').data = s
<1>1. calls' = << >> => Issued = {}
  BY DEF Issued
<1>2. calls' = <<Receive>> => Issued = {"receive"}
  BY DEF Issued, Receive
<1>3. ASSUME NEW s, calls' = <<Transmit(s)>> PROVE Issued = {"transmit"} /\ Last(calls').data = s
  BY <1>3 DEF Issued, Transmit, Last
<1>4. ASSUME NEW s, calls' = <<Receive, Transmit(s)>>
      PROVE  Issued = {"receive", "transmit"} /\ Last(calls').data = s
  BY <1>4 DEF Issued, Receive, Transmit, Last
<1> QED
  BY <1>1, <1>2, <1>3, <1>4

\* What transmitNextChunk() leaves behind.
LEMMA ChunkSent ==
    ASSUME NEW q \in Seq(Nat), NEW h \in Nat, NEW before \in {<< >>, <<Receive>>},
           TransmitNextChunk(q, h, before)
    PROVE  /\ Issued = (IF q = << >> THEN {} ELSE {"transmit"})
                       \cup (IF before = << >> THEN {} ELSE {"receive"})
           /\ txPacketLength' \in Nat /\ txReady' \in BOOLEAN
           /\ q # << >> => /\ txPacketLength' \in 1..Len(q) /\ txReady' = FALSE
                           /\ Last(calls').data = SubSeq(q, 1, txPacketLength')
           /\ q = << >> => txPacketLength' = 0 /\ txReady' = TRUE
<1>1. CASE q = << >>
  BY <1>1, IssuedBy DEF TransmitNextChunk
<1>2. CASE q # << >>
  <2> DEFINE len == Lesser(TxReadLimit(q, h), Packet)
  <2>1. /\ txPacketLength' = len /\ txReady' = FALSE
        /\ calls' = Append(before, Transmit(SubSeq(q, 1, len)))
    BY <1>2 DEF TransmitNextChunk
  <2>2. TxCapacity - (h % TxCapacity) \in Nat \ {0} /\ Packet \in Nat \ {0}
    BY SerialAssumption
  <2>3. Len(q) \in Nat \ {0}
    BY <1>2
  <2>4. len \in 1..Len(q)
    BY <2>2, <2>3 DEF Lesser, TxReadLimit
  <2> HIDE DEF len
  <2>5. CASE before = << >>
    <3>1. calls' = <<Transmit(SubSeq(q, 1, len))>>
      BY <2>1, <2>5
    <3>2. Issued = {"transmit"} /\ Last(calls').data = SubSeq(q, 1, len)
      BY <3>1, IssuedBy, Zenon
    <3>3. len \in Nat
      BY <2>3, <2>4
    <3> QED
      BY <1>2, <2>1, <2>4, <2>5, <3>2, <3>3
  <2>6. CASE before = <<Receive>>
    <3>1. calls' = <<Receive, Transmit(SubSeq(q, 1, len))>>
      BY <2>1, <2>6, AppendTwo
    <3>2. Issued = {"receive", "transmit"} /\ Last(calls').data = SubSeq(q, 1, len)
      BY <3>1, IssuedBy, Zenon
    <3>3. len \in Nat /\ before # << >>
      BY <2>3, <2>4, <2>6
    <3> QED
      BY <1>2, <2>1, <2>4, <3>2, <3>3
  <2> QED
    BY <2>5, <2>6
<1> QED
  BY <1>1, <1>2

\* What processPendingPacket() leaves behind.
LEMMA PendingMoved ==
    ASSUME NEW q \in Seq(Nat), rxPacket \in Seq(Nat), ProcessPendingPacket(q)
    PROVE  /\ rxQueue' \in Seq(Nat) /\ rxPacket' \in Seq(Nat)
           /\ rxQueue' \o rxPacket' = q \o rxPacket
           /\ \/ Issued = {} /\ UNCHANGED rxPacket
              \/ Issued = {"receive"} /\ rxPacket # << >> /\ rxPacket' = << >>
<1>1. CASE rxPacket # << >> /\ RxFree(q) >= Len(rxPacket)
  <2>1. rxQueue' = q \o rxPacket /\ rxPacket' = << >> /\ calls' = <<Receive>>
    BY <1>1 DEF ProcessPendingPacket
  <2>2. q \o rxPacket \in Seq(Nat) /\ (q \o rxPacket) \o << >> = q \o rxPacket
    BY Concat
  <2>3. << >> \in Seq(Nat)
    OBVIOUS
  <2> QED
    BY <1>1, <2>1, <2>2, <2>3, IssuedBy
<1>2. CASE ~(rxPacket # << >> /\ RxFree(q) >= Len(rxPacket))
  BY <1>2, IssuedBy DEF ProcessPendingPacket
<1> QED
  BY <1>1, <1>2

OutEndpoint == [status : {"closed", "nak", "armed", "full"}, data : Seq(Nat)]
InEndpoint  == [status : {"closed", "nak", "ready", "sent"}, data : Seq(Nat)]

LEMMA OutCarried ==
    ASSUME NEW o \in OutEndpoint, out' = OutAfter(o)
    PROVE  /\ out' \in OutEndpoint
           /\ out'.status = "closed" <=> o.status = "closed"
           /\ "receive" \notin Issued => out' = o
BY DEF OutAfter, OutEndpoint

LEMMA InCarried ==
    ASSUME NEW i \in InEndpoint, in' = InAfter(i)
    PROVE  /\ "transmit" \notin Issued => in' = i
           /\ i.status = "closed" => in' = i
           /\ "transmit" \in Issued /\ i.status # "closed" =>
                  in' = [status |-> "ready", data |-> Last(calls').data]
BY DEF InAfter, InEndpoint

\* A transmission issues no reception, and nothing while a packet is under way.
LEMMA TransmitIssues ==
    ASSUME NEW s \in Seq(Nat), txQueue \in Seq(Nat), txHead \in Nat, TransmitBytes(s)
    PROVE  Issued \subseteq {"transmit"} /\ UNCHANGED rxVars /\ (~txReady => Issued = {})
<1>1. CASE TxFree(txQueue) < Len(s) \/ ~txReady
  BY <1>1, IssuedBy DEF TransmitBytes
<1>2. CASE ~(TxFree(txQueue) < Len(s)) /\ txReady
  <2>1. TransmitNextChunk(txQueue \o s, txHead, << >>) /\ txQueue \o s \in Seq(Nat)
    BY <1>2 DEF TransmitBytes
  <2>2. Issued \subseteq {"transmit"}
    BY <2>1, ChunkSent
  <2>3. UNCHANGED rxVars
    BY DEF TransmitBytes
  <2> QED
    BY <1>2, <2>2, <2>3
<1> QED
  BY <1>1, <1>2

-----------------------------------------------------------------------------
(* The receiving direction.                                                *)

RxSame == /\ UNCHANGED <<rxVars, link, out, seen, appGot>>
          /\ hostSent' \in Nat /\ owed' \subseteq owed \cup {"transmit"}

LEMMA RxUndisturbed == ASSUME RxInv, RxSame PROVE RxInv'
BY DEF RxInv, RxSame, RxStream, rxVars

\* Bytes move to the application and the held packet moves up behind them.
LEMMA RxTaken ==
    ASSUME RxInv, NEW n \in 0..Len(rxQueue),
           ProcessPendingPacket(DropFirst(rxQueue, n)), rxHead' = rxHead + n,
           appGot' = appGot \o SubSeq(rxQueue, 1, n), UNCHANGED <<link, seen, hostSent>>,
           out' = OutAfter(out), owed' = owed \cup Issued
    PROVE  RxInv'
<1> DEFINE s == SubSeq(rxQueue, 1, n)
           t == DropFirst(rxQueue, n)
<1>0. appGot \in Seq(Nat) /\ rxQueue \in Seq(Nat) /\ rxPacket \in Seq(Nat)
  BY DEF RxInv
<1>1. /\ s \in Seq(Nat) /\ Len(s) = n /\ t \in Seq(Nat)
      /\ (appGot \o s) \o (t \o rxPacket) = appGot \o rxQueue \o rxPacket
  <2>1. s \in Seq(Nat) /\ Len(s) = n /\ t \in Seq(Nat)
    BY <1>0, SplitQueue
  <2>2. (appGot \o s) \o (t \o rxPacket) = appGot \o rxQueue \o rxPacket
    BY <1>0, MoveOver, Zenon
  <2> QED
    BY <2>1, <2>2
<1>2. /\ ProcessPendingPacket(t) /\ appGot' = appGot \o s
  OBVIOUS
<1> HIDE DEF s, t
<1>3. /\ rxQueue' \in Seq(Nat) /\ rxPacket' \in Seq(Nat) /\ rxQueue' \o rxPacket' = t \o rxPacket
      /\ \/ Issued = {} /\ UNCHANGED rxPacket
         \/ Issued = {"receive"} /\ rxPacket # << >> /\ rxPacket' = << >>
  BY <1>1, <1>2, PendingMoved DEF RxInv
<1>4. /\ appGot' \in Seq(Nat) /\ Len(appGot') = Len(appGot) + n
  <2>1. appGot \o s \in Seq(Nat) /\ Len(appGot \o s) = Len(appGot) + Len(s)
    BY <1>0, <1>1, Concat
  <2> QED
    BY <1>1, <1>2, <2>1
<1>5. appGot' \o rxQueue' \o rxPacket' = seen
  <2>1. appGot' \o rxQueue' \o rxPacket' = appGot' \o (rxQueue' \o rxPacket')
    BY <1>0, <1>3, <1>4, Associative, Zenon
  <2>2. appGot' \o (rxQueue' \o rxPacket') = appGot \o rxQueue \o rxPacket
    BY <1>1, <1>2, <1>3
  <2> QED
    BY <2>1, <2>2 DEF RxInv, RxStream
<1>6. rxHead' = Len(appGot') /\ rxHead' \in Nat
  BY <1>4 DEF RxInv, RxStream
<1>7. /\ out' \in OutEndpoint
      /\ out'.status = "closed" <=> out.status = "closed"
      /\ "receive" \notin Issued => out' = out
  BY OutCarried DEF RxInv, OutEndpoint
<1>8. /\ out'.status \in {"armed", "full"} => rxPacket' = << >>
      /\ "receive" \in owed' => rxPacket' = << >>
  BY <1>3, <1>7 DEF RxInv
<1>9. /\ link' \in {"new", "reset", "configured"} /\ seen' \in Seq(Nat) /\ hostSent' \in Nat
      /\ link' # "configured" <=> out'.status = "closed"
  BY <1>7 DEF RxInv
<1>10. /\ rxQueue' \in Seq(Nat) /\ rxPacket' \in Seq(Nat) /\ appGot' \in Seq(Nat)
  BY <1>3, <1>4
<1>11. RxStream'
  BY <1>5, <1>6 DEF RxStream
<1>12. out' \in [status : {"closed", "nak", "armed", "full"}, data : Seq(Nat)]
  BY <1>7 DEF OutEndpoint
<1> QED
  BY <1>6, <1>8, <1>9, <1>10, <1>11, <1>12 DEF RxInv

LEMMA RxReceived == ASSUME RxInv, ProcessReceived PROVE RxInv'
<1>1. /\ out.status = "full" /\ out.data \in Seq(Nat) /\ rxPacket = << >>
      /\ PacketReceived(out.data) /\ seen' = seen \o out.data
      /\ out' = OutAfter(Nak) /\ owed' = (owed \ {"receive"}) \cup Issued
      /\ UNCHANGED <<link, hostSent, appGot, rxHead>>
  BY DEF ProcessReceived, Carry, RxInv, PacketReceived
<1> DEFINE d == out.data
<1>2. d \in Seq(Nat) /\ PacketReceived(d) /\ seen' = seen \o d
  BY <1>1
<1> HIDE DEF d
<1>3. seen = appGot \o rxQueue /\ appGot \in Seq(Nat) /\ rxQueue \in Seq(Nat) /\ rxPacket = << >>
  <2>1. appGot \in Seq(Nat) /\ rxQueue \in Seq(Nat)
    BY DEF RxInv
  <2>2. appGot \o rxQueue \in Seq(Nat) /\ (appGot \o rxQueue) \o << >> = appGot \o rxQueue
    BY <2>1, Concat
  <2> QED
    BY <1>1, <2>1, <2>2 DEF RxInv, RxStream
<1>4. /\ rxQueue' \in Seq(Nat) /\ rxPacket' \in Seq(Nat) /\ rxQueue' \o rxPacket' = rxQueue \o d
      /\ "receive" \in Issued => rxPacket' = << >>
  <2>1. CASE Len(d) = 0 /\ calls' = <<Receive>> /\ UNCHANGED <<rxQueue, rxPacket>>
    <3>1. d = << >>
      BY <1>2, <2>1
    <3> QED
      BY <1>2, <1>3, <2>1, <3>1, Concat
  <2>2. CASE rxQueue' = rxQueue \o d /\ UNCHANGED rxPacket
    <3>1. rxQueue \o d \in Seq(Nat) /\ (rxQueue \o d) \o << >> = rxQueue \o d
      BY <1>2, <1>3, Concat
    <3> QED
      BY <1>3, <2>2, <3>1
  <2>3. CASE rxPacket' = d /\ calls' = << >> /\ UNCHANGED rxQueue
    BY <1>2, <1>3, <2>3, IssuedBy
  <2> QED
    BY <1>2, <2>1, <2>2, <2>3 DEF PacketReceived
<1>5. appGot \o rxQueue' \o rxPacket' = seen'
  <2>1. appGot \o rxQueue' \o rxPacket' = appGot \o (rxQueue' \o rxPacket')
    BY <1>3, <1>4, Associative, Zenon
  <2>2. (appGot \o rxQueue) \o d = appGot \o (rxQueue \o d)
    BY <1>2, <1>3, Associative, Zenon
  <2> QED
    BY <1>2, <1>3, <1>4, <2>1, <2>2
<1>6. seen' \in Seq(Nat)
  BY <1>2, Concat DEF RxInv
<1>7. Nak \in OutEndpoint /\ Nak.status = "nak"
  BY DEF Nak, OutEndpoint
<1>8. /\ out' \in OutEndpoint /\ out'.status # "closed"
      /\ "receive" \notin Issued => out' = Nak
  BY <1>1, <1>7, OutCarried
<1> QED
  BY <1>1, <1>4, <1>5, <1>6, <1>7, <1>8 DEF RxInv, RxStream, OutEndpoint

LEMMA RxConfigured == ASSUME RxInv, TxInv, Configure PROVE RxInv'
<1> DEFINE q == IF discardOnReset THEN << >> ELSE txQueue
           h == IF discardOnReset THEN 0 ELSE txHead
           before == IF rxPacket' = << >> THEN <<Receive>> ELSE << >>
<1>1. /\ TransmitNextChunk(q, h, before) /\ q \in Seq(Nat) /\ h \in Nat
      /\ before \in {<< >>, <<Receive>>}
  BY DEF Configure, Initialize, TxInv, TxTypeOK
<1> HIDE DEF q, h
<1>2. Issued = (IF q = << >> THEN {} ELSE {"transmit"})
               \cup (IF before = << >> THEN {} ELSE {"receive"})
  BY <1>1, ChunkSent
<1>3. "receive" \in Issued => rxPacket' = << >>
  BY <1>2
<1>4. Nak \in OutEndpoint /\ Nak.status = "nak"
  BY DEF Nak, OutEndpoint
<1>5. /\ out' = OutAfter(Nak) /\ owed' = Issued /\ link' = "configured" /\ UNCHANGED hostSent
  BY DEF Configure, Carry
<1>6. /\ out' \in OutEndpoint /\ out'.status # "closed"
      /\ "receive" \notin Issued => out' = Nak
  BY <1>4, <1>5, OutCarried
<1>7. CASE discardOnReset
  <2>1. /\ rxQueue' = << >> /\ rxHead' = 0 /\ rxPacket' = << >>
        /\ seen' = << >> /\ appGot' = << >>
    BY <1>7 DEF Configure, Initialize
  <2>2. << >> \in Seq(Nat) /\ << >> \o << >> \o << >> = << >> /\ Len(<< >>) = 0
    OBVIOUS
  <2> QED
    BY <1>4, <1>5, <1>6, <2>1, <2>2 DEF RxInv, RxStream, OutEndpoint
<1>8. CASE ~discardOnReset
  <2>1. UNCHANGED <<rxQueue, rxHead, rxPacket, seen, appGot>>
    BY <1>8 DEF Configure, Initialize, rxVars
  <2> QED
    BY <1>3, <1>4, <1>5, <1>6, <2>1 DEF RxInv, RxStream, OutEndpoint
<1> QED
  BY <1>7, <1>8

LEMMA RxSends == ASSUME RxInv, NEW n \in 0..Packet, HostSends(n) PROVE RxInv'
<1>1. n \in Nat /\ hostSent \in Nat
  BY SerialAssumption DEF RxInv
<1>2. Numbers(hostSent, n) \in Seq(Nat)
  BY <1>1, NumbersFacts
<1>3. /\ out' = [status |-> "full", data |-> Numbers(hostSent, n)] /\ out.status = "armed"
      /\ hostSent' \in Nat /\ UNCHANGED <<rxVars, link, owed, seen, appGot>>
  BY <1>1 DEF HostSends, serialVars
<1> QED
  BY <1>2, <1>3 DEF RxInv, RxStream, rxVars

LEMMA RxReset == ASSUME RxInv, BusReset PROVE RxInv'
<1>1. << >> \in Seq(Nat)
  OBVIOUS
<1>2. /\ out' = Closed /\ link' = "reset" /\ owed' = {}
      /\ UNCHANGED <<rxVars, seen, appGot, hostSent>>
  BY DEF BusReset, serialVars, streamVars
<1> QED
  BY <1>1, <1>2 DEF RxInv, RxStream, rxVars, Closed

-----------------------------------------------------------------------------
(* The transmitting direction.                                             *)

TxSame == /\ UNCHANGED <<txVars, discardOnReset, in, link, appWritten, hostGot, hostRead>>
          /\ owed' \subseteq owed \cup {"receive"}

LEMMA TxUndisturbed == ASSUME TxInv, TxSame PROVE TxInv'
<1>1. TxTypeOK'
  BY DEF TxInv, TxTypeOK, TxSame, txVars
<1>2. TxUnderway' /\ NumberedInv' /\ ReadInv'
  BY DEF TxInv, TxUnderway, NumberedInv, ReadInv, Base, TxSame, txVars
<1> QED
  BY <1>1, <1>2 DEF TxInv

\* A packet under way stays the head of a queue that grows at its tail.
LEMMA PrefixKept ==
    ASSUME NEW a \in Seq(Nat), NEW b \in Seq(Nat), NEW n \in 1..Len(a)
    PROVE  SubSeq(a \o b, 1, n) = SubSeq(a, 1, n)
<1>1. 1 \in 1..Len(a)
  OBVIOUS
<1> QED
  BY <1>1, SubSeqOfConcat1

LEMMA TxWritten == ASSUME TxInv, NEW n \in 1..TxCapacity, AppTransmit(n) PROVE TxInv'
<1> DEFINE s == Numbers(appWritten, n)
           q == txQueue \o s
<1>1. /\ txQueue \in Seq(Nat) /\ txHead \in Nat /\ appWritten \in Nat /\ n \in Nat \ {0}
      /\ Base \in Nat /\ Len(txQueue) \in Nat /\ appWritten = Base + Len(txQueue)
  <2>1. txQueue \in Seq(Nat) /\ Base \in Nat /\ txHead \in Nat /\ appWritten \in Nat
    BY DEF TxInv, TxTypeOK, NumberedInv
  <2>2. Len(txQueue) \in Nat
    BY <2>1
  <2>3. appWritten = Base + Len(txQueue)
    BY <2>1, <2>2 DEF Base
  <2> QED
    BY <2>1, <2>2, <2>3, SerialAssumption
<1>2. s \in Seq(Nat) /\ Len(s) = n /\ \A i \in 1..n : s[i] = appWritten + i
  BY <1>1, NumbersFacts
<1>3. /\ TransmitBytes(s) /\ in' = InAfter(in) /\ owed' = owed \cup Issued
      /\ appWritten' = IF TxFree(txQueue) < n THEN appWritten ELSE appWritten + n
      /\ UNCHANGED <<link, hostGot, hostRead, discardOnReset>>
  BY DEF AppTransmit, Carry, TransmitBytes
<1> HIDE DEF s
<1>4. /\ q \in Seq(Nat) /\ Len(q) = Len(txQueue) + n /\ q # << >>
      /\ \A i \in 1..Len(q) : q[i] = Base + i
  <2>1. /\ q \in Seq(Nat) /\ Len(q) = Len(txQueue) + n
        /\ \A i \in 1..Len(txQueue) : q[i] = txQueue[i]
        /\ \A i \in 1..n : q[Len(txQueue) + i] = s[i]
    BY <1>1, <1>2, Concat
  <2>2. \A i \in 1..Len(txQueue) : txQueue[i] = Base + i
    BY DEF TxInv, NumberedInv
  <2> HIDE DEF q
  <2>3. ASSUME NEW i \in 1..Len(q) PROVE q[i] = Base + i
    <3>1. CASE i <= Len(txQueue)
      BY <1>1, <2>1, <2>2, <3>1
    <3>2. CASE ~(i <= Len(txQueue))
      <4>1. i - Len(txQueue) \in 1..n
        BY <1>1, <2>1, <3>2
      <4>2. q[Len(txQueue) + (i - Len(txQueue))] = appWritten + (i - Len(txQueue))
        BY <1>2, <2>1, <4>1
      <4> QED
        BY <1>1, <4>2
    <3> QED
      BY <3>1, <3>2
  <2>4. q # << >>
    BY <1>1, <2>1
  <2> QED
    BY <2>1, <2>3, <2>4
<1>5. in \in InEndpoint
  BY DEF TxInv, TxTypeOK, InEndpoint
<1>6. CASE TxFree(txQueue) < n
  <2>1. UNCHANGED txVars /\ Issued = {} /\ appWritten' = appWritten
    BY <1>2, <1>3, <1>6, IssuedBy DEF TransmitBytes
  <2>2. in' = in
    BY <1>3, <1>5, <2>1, InCarried
  <2>3. TxSame
    BY <1>3, <2>1, <2>2 DEF TxSame
  <2> QED
    BY <2>3, TxUndisturbed
<1>7. CASE ~(TxFree(txQueue) < n)
  <2>1. txQueue' = q /\ txHead' = txHead /\ appWritten' = appWritten + n
    BY <1>2, <1>3, <1>7 DEF TransmitBytes
  <2>2. Base' = Base
    <3> DEFINE a == Len(txQueue)
    <3>1. appWritten' - Len(txQueue') = (Base + a + n) - (a + n)
      BY <1>1, <1>4, <2>1
    <3>2. a \in Nat /\ n \in Nat /\ Base \in Nat
      BY <1>1
    <3> HIDE DEF a
    <3>3. (Base + a + n) - (a + n) = Base
      BY <3>2
    <3> QED
      BY <3>1, <3>3 DEF Base
  <2> HIDE DEF q
  <2>3. NumberedInv'
    <3>1. Base' \in Nat /\ \A i \in 1..Len(txQueue') : txQueue'[i] = Base' + i
      BY <1>1, <1>4, <2>1, <2>2
    <3>2. ~discardOnReset' => txHead' = Base'
      BY <1>3, <2>1, <2>2 DEF TxInv, NumberedInv
    <3>3. appWritten' # 0
      BY <1>1, <2>1
    <3> QED
      BY <3>1, <3>2, <3>3 DEF NumberedInv
  <2>0. /\ txQueue' \in Seq(Nat) /\ txHead' \in Nat /\ appWritten' \in Nat
        /\ hostGot' \in Seq(Nat) /\ discardOnReset' \in BOOLEAN
        /\ link' \in {"new", "reset", "configured"}
    BY <1>1, <1>3, <1>4, <2>1 DEF TxInv, TxTypeOK
  <2>4. CASE txReady
    <3>1. TransmitNextChunk(q, txHead, << >>)
      BY <1>2, <1>3, <1>7, <2>4 DEF TransmitBytes, q
    <3>2. /\ Issued = {"transmit"} /\ txReady' = FALSE
          /\ txPacketLength' \in 1..Len(q) /\ txPacketLength' \in Nat
          /\ Last(calls').data = SubSeq(q, 1, txPacketLength')
      BY <1>1, <1>4, <3>1, ChunkSent
    <3>3. in.status \in {"closed", "nak"}
      BY <2>4, <1>5 DEF TxInv, TxUnderway, TxTypeOK, InEndpoint
    <3>4. CASE in.status = "closed"
      <4>1. in' = in /\ link # "configured"
        BY <1>3, <1>5, <3>4, InCarried DEF TxInv, TxTypeOK
      <4>2. TxTypeOK'
        <5>1. in' \in [status : {"closed", "nak", "ready", "sent"}, data : Seq(Nat)]
          BY <1>5, <4>1 DEF InEndpoint
        <5>2. link' # "configured" /\ in'.status = "closed"
          BY <1>3, <3>4, <4>1
        <5> QED
          BY <2>0, <3>2, <5>1, <5>2 DEF TxTypeOK
      <4>3. TxUnderway'
        BY <1>3, <4>1 DEF TxUnderway
      <4>4. ReadInv'
        BY <1>3, <2>1, <3>4, <4>1 DEF TxInv, ReadInv
      <4> QED
        BY <2>3, <4>2, <4>3, <4>4 DEF TxInv
    <3>5. CASE in.status = "nak"
      <4>1. in' = [status |-> "ready", data |-> SubSeq(q, 1, txPacketLength')]
        BY <1>3, <1>5, <3>2, <3>5, InCarried
      <4>2. /\ SubSeq(q, 1, txPacketLength') \in Seq(Nat)
            /\ SubSeq(q, 1, txPacketLength') # << >>
        <5>1. txPacketLength' \in 0..Len(q) /\ txPacketLength' > 0
          BY <1>4, <3>2
        <5> DEFINE m == txPacketLength'
        <5>2. m \in 0..Len(q) /\ m > 0
          BY <5>1
        <5> HIDE DEF m
        <5>3. SubSeq(q, 1, m) \in Seq(Nat) /\ Len(SubSeq(q, 1, m)) = m
          BY <1>4, <5>2, SplitQueue
        <5>4. SubSeq(q, 1, m) \in Seq(Nat) /\ SubSeq(q, 1, m) # << >>
          BY <5>2, <5>3
        <5> QED
          BY <5>4 DEF m
      <4>3. TxTypeOK'
        <5>1. /\ in' \in [status : {"closed", "nak", "ready", "sent"}, data : Seq(Nat)]
              /\ in'.status = "ready"
          BY <4>1, <4>2
        <5>2. link' = "configured"
          BY <1>3, <3>5 DEF TxInv, TxTypeOK
        <5>3. txPacketLength' \in 1..Len(txQueue')
          BY <2>1, <3>2
        <5> QED
          BY <2>0, <3>2, <5>1, <5>2, <5>3 DEF TxTypeOK
      <4>4. TxUnderway'
        <5>1. in'.data = SubSeq(txQueue', 1, txPacketLength') /\ in'.data # << >>
          BY <2>1, <4>1, <4>2
        <5>2. in'.status = "ready"
          BY <4>1
        <5> QED
          BY <3>2, <5>1, <5>2 DEF TxUnderway
      <4>5. ReadInv'
        BY <1>3, <2>1, <2>2, <3>5, <4>1 DEF TxInv, ReadInv
      <4> QED
        BY <2>3, <4>3, <4>4, <4>5 DEF TxInv
    <3> QED
      BY <3>3, <3>4, <3>5
  <2>5. CASE ~txReady
    <3>1. Issued = {} /\ UNCHANGED <<txPacketLength, txReady>>
      BY <1>2, <1>3, <1>7, <2>5, IssuedBy DEF TransmitBytes
    <3>2. in' = in
      BY <1>3, <1>5, <3>1, InCarried
    <3>3. TxTypeOK'
      <4>1. in.status \in {"ready", "sent"} => txPacketLength' \in 1..Len(q)
        BY <1>1, <1>4, <3>1 DEF TxInv, TxTypeOK
      <4> QED
        BY <1>1, <1>3, <1>4, <2>1, <3>1, <3>2, <4>1 DEF TxInv, TxTypeOK
    <3>4. TxUnderway'
      <4>1. ASSUME link = "configured", in.status \in {"ready", "sent"}
            PROVE  SubSeq(q, 1, txPacketLength) = SubSeq(txQueue, 1, txPacketLength)
        BY <1>1, <1>2, <4>1, PrefixKept DEF TxInv, TxTypeOK, q
      <4> QED
        BY <1>3, <2>1, <2>5, <3>1, <3>2, <4>1 DEF TxInv, TxUnderway
    <3>5. ReadInv'
      BY <1>3, <2>1, <2>2, <3>1, <3>2 DEF TxInv, ReadInv
    <3> QED
      BY <2>3, <3>3, <3>4, <3>5 DEF TxInv
  <2> QED
    BY <2>4, <2>5
<1> QED
  BY <1>6, <1>7

\* An idle endpoint is given the next chunk, or the queue is empty.
LEMMA TxChunk ==
    ASSUME NEW q \in Seq(Nat), NEW h \in Nat, NEW before \in {<< >>, <<Receive>>},
           TransmitNextChunk(q, h, before), txQueue' = q, in' = InAfter(Nak)
    PROVE  /\ in' \in InEndpoint /\ in'.status \in {"nak", "ready"}
           /\ txPacketLength' \in Nat /\ txReady' \in BOOLEAN
           /\ in'.status = "ready" => txPacketLength' \in 1..Len(q)
           /\ "transmit" \in Issued => ~txReady'
           /\ TxUnderway'
<1>1. Nak \in InEndpoint /\ Nak.status = "nak" /\ Nak = [status |-> "nak", data |-> << >>]
  BY DEF Nak, InEndpoint
<1>2. CASE q = << >>
  <2>1. "transmit" \notin Issued /\ txPacketLength' = 0 /\ txReady' = TRUE
    BY <1>2, ChunkSent
  <2>2. in' = Nak
    BY <1>1, <2>1, InCarried
  <2> QED
    BY <1>1, <1>2, <2>1, <2>2 DEF TxUnderway
<1>3. CASE q # << >>
  <2>1. /\ "transmit" \in Issued /\ txPacketLength' \in 1..Len(q) /\ txReady' = FALSE
        /\ Last(calls').data = SubSeq(q, 1, txPacketLength')
    BY <1>3, ChunkSent
  <2> DEFINE m == txPacketLength'
             d == SubSeq(q, 1, m)
  <2>2. m \in 0..Len(q) /\ m > 0 /\ m \in Nat
    BY <2>1
  <2> HIDE DEF m
  <2>3. d \in Seq(Nat) /\ Len(d) = m
    BY <2>2, SplitQueue
  <2>4. d # << >>
    BY <2>2, <2>3
  <2>5. in' = [status |-> "ready", data |-> d]
    BY <1>1, <2>1, InCarried DEF m
  <2> HIDE DEF d
  <2>6. /\ in' \in InEndpoint /\ in'.status = "ready" /\ in'.data = d
    BY <2>3, <2>5 DEF InEndpoint
  <2>7. TxUnderway'
    BY <2>1, <2>4, <2>6 DEF TxUnderway, d, m
  <2> QED
    BY <2>1, <2>2, <2>6, <2>7 DEF m
<1> QED
  BY <1>2, <1>3

LEMMA TxConfigured == ASSUME TxInv, Configure PROVE TxInv'
<1> DEFINE q == IF discardOnReset THEN << >> ELSE txQueue
           h == IF discardOnReset THEN 0 ELSE txHead
           before == IF rxPacket' = << >> THEN <<Receive>> ELSE << >>
<1>1. /\ TransmitNextChunk(q, h, before) /\ q \in Seq(Nat) /\ h \in Nat
      /\ before \in {<< >>, <<Receive>>}
  BY DEF Configure, Initialize, TxInv, TxTypeOK
<1>2. /\ txQueue' = q /\ txHead' = h /\ in' = InAfter(Nak) /\ owed' = Issued
      /\ link' = "configured" /\ hostGot' = << >>
      /\ UNCHANGED <<appWritten, hostRead, discardOnReset>>
  BY DEF Configure, Initialize, Carry
<1> HIDE DEF before
<1>3. /\ in' \in InEndpoint /\ in'.status \in {"nak", "ready"}
      /\ txPacketLength' \in Nat /\ txReady' \in BOOLEAN
      /\ in'.status = "ready" => txPacketLength' \in 1..Len(q)
      /\ "transmit" \in Issued => ~txReady'
      /\ TxUnderway'
  <2> HIDE DEF q, h
  <2> QED
    BY <1>1, <1>2, TxChunk
<1>4. TxTypeOK'
  <2>1. << >> \in Seq(Nat)
    OBVIOUS
  <2>2. /\ appWritten' \in Nat /\ discardOnReset' \in BOOLEAN
    BY <1>2 DEF TxInv, TxTypeOK
  <2>3. txPacketLength' \in Nat /\ in'.status # "closed"
    BY <1>3
  <2> HIDE DEF q, h
  <2> QED
    BY <1>1, <1>2, <1>3, <2>1, <2>2, <2>3 DEF TxTypeOK, InEndpoint
<1>5. CASE discardOnReset
  <2>1. txQueue' = << >> /\ txHead' = 0 /\ Len(txQueue') = 0 /\ hostGot' = << >>
    BY <1>2, <1>5
  <2>2. Base' = appWritten' /\ appWritten' \in Nat
    <3>1. appWritten \in Nat /\ appWritten - 0 = appWritten
      BY DEF TxInv, TxTypeOK
    <3> QED
      BY <1>2, <2>1, <3>1 DEF Base
  <2>3. NumberedInv'
    BY <1>2, <1>5, <2>1, <2>2 DEF TxInv, NumberedInv
  <2>4. ReadInv'
    BY <1>2, <1>5, <2>1 DEF ReadInv
  <2> QED
    BY <1>3, <1>4, <2>3, <2>4 DEF TxInv
<1>6. CASE ~discardOnReset
  <2>1. txQueue' = txQueue /\ txHead' = txHead /\ Base' = Base
    BY <1>2, <1>6 DEF Base
  <2>2. NumberedInv'
    BY <1>2, <2>1 DEF TxInv, NumberedInv
  <2>3. in'.status # "sent" /\ Len(hostGot') = 0
    BY <1>2, <1>3
  <2>4. ReadInv'
    BY <1>2, <1>6, <2>1, <2>3 DEF TxInv, ReadInv
  <2> QED
    BY <1>3, <1>4, <2>2, <2>4 DEF TxInv
<1> QED
  BY <1>5, <1>6

LEMMA TxCompleted == ASSUME TxInv, ProcessSent PROVE TxInv'
<1> DEFINE L == txPacketLength
           q == DropFirst(txQueue, L)
           h == txHead + L
<1>1. /\ in.status = "sent" /\ link = "configured" /\ in' = InAfter(Nak)
      /\ TransmitNextChunk(q, h, << >>) /\ txQueue' = q /\ txHead' = h
      /\ owed' = (owed \ {"transmit"}) \cup Issued
      /\ UNCHANGED <<link, appWritten, hostGot, hostRead, discardOnReset>>
  BY DEF ProcessSent, Carry, TransmitComplete, TxInv, TxTypeOK, streamVars
<1>2. /\ L \in 1..Len(txQueue) /\ L \in Nat /\ txQueue \in Seq(Nat) /\ Len(txQueue) \in Nat
      /\ txHead \in Nat /\ appWritten \in Nat /\ Base \in Nat
      /\ L \in 0..Len(txQueue)
  BY <1>1 DEF TxInv, TxTypeOK, NumberedInv
<1>3. /\ q \in Seq(Nat) /\ Len(q) = Len(txQueue) - L
      /\ \A i \in 1..(Len(txQueue) - L) : q[i] = txQueue[L + i]
  BY <1>2, SplitQueue
<1>4. h \in Nat
  BY <1>2
<1>5. /\ in' \in InEndpoint /\ in'.status \in {"nak", "ready"}
      /\ txPacketLength' \in Nat /\ txReady' \in BOOLEAN
      /\ in'.status = "ready" => txPacketLength' \in 1..Len(q)
      /\ "transmit" \in Issued => ~txReady'
      /\ TxUnderway'
  <2> HIDE DEF q, h
  <2> QED
    BY <1>1, <1>3, <1>4, TxChunk
<1>6. Base' = Base + L
  <2> DEFINE n == Len(txQueue)
  <2>1. Base' = appWritten - (n - L) /\ Base = appWritten - n /\ n \in Nat
    BY <1>1, <1>2, <1>3 DEF Base
  <2> HIDE DEF n, L
  <2> QED
    BY <1>2, <2>1
<1> HIDE DEF q
<1>7. TxTypeOK'
  <2>1. /\ appWritten' \in Nat /\ discardOnReset' \in BOOLEAN /\ hostGot' \in Seq(Nat)
    BY <1>1 DEF TxInv, TxTypeOK
  <2>2. link' = "configured" /\ in'.status # "closed" /\ txHead' \in Nat
    BY <1>1, <1>4, <1>5
  <2> QED
    BY <1>1, <1>3, <1>5, <2>1, <2>2 DEF TxTypeOK, InEndpoint
<1>8. NumberedInv'
  <2>1. ASSUME NEW i \in 1..Len(q) PROVE q[i] = Base + L + i
    <3>1. L + i \in 1..Len(txQueue) /\ q[i] = txQueue[L + i]
      BY <1>2, <1>3
    <3>2. txQueue[L + i] = Base + (L + i)
      BY <3>1 DEF TxInv, NumberedInv
    <3> QED
      BY <1>2, <3>1, <3>2
  <2>2. ~discardOnReset => h = Base + L
    BY DEF TxInv, NumberedInv
  <2>3. appWritten # 0
    BY <1>2 DEF Base
  <2> HIDE DEF h, L
  <2> QED
    BY <1>1, <1>2, <1>6, <2>1, <2>2, <2>3 DEF NumberedInv
<1>9. ReadInv'
  <2>1. hostGot # << >> => hostGot[Len(hostGot)] = Base + L
    BY <1>1 DEF TxInv, ReadInv
  <2>2. ~discardOnReset => \E k \in Nat : hostRead = 1..k /\ h <= k
    BY <1>1 DEF TxInv, ReadInv
  <2>3. \A i \in 1..(Len(hostGot) - 1) : hostGot[i + 1] = hostGot[i] + 1
    BY DEF TxInv, ReadInv
  <2>4. in'.status # "sent" /\ Base + L = Base + L + 0
    BY <1>2, <1>5
  <2> HIDE DEF h, L
  <2> QED
    BY <1>1, <1>6, <2>1, <2>2, <2>3, <2>4 DEF ReadInv
<1> QED
  BY <1>5, <1>7, <1>8, <1>9 DEF TxInv

LEMMA TxRead == ASSUME TxInv, HostReads PROVE TxInv'
<1> DEFINE L == txPacketLength
           d == SubSeq(txQueue, 1, L)
<1>1. /\ in.status = "ready" /\ link = "configured" /\ in' = [in EXCEPT !.status = "sent"]
      /\ hostGot' = hostGot \o in.data /\ hostRead' = hostRead \cup Range(in.data)
      /\ in.data = d /\ ~txReady
      /\ UNCHANGED <<link, txQueue, txHead, txPacketLength, txReady, discardOnReset,
                     appWritten, owed>>
  BY DEF HostReads, TxInv, TxTypeOK, TxUnderway, serialVars, txVars
<1>2. /\ L \in 1..Len(txQueue) /\ L \in Nat /\ L \in 0..Len(txQueue)
      /\ txQueue \in Seq(Nat) /\ Len(txQueue) \in Nat
      /\ txHead \in Nat /\ appWritten \in Nat /\ Base \in Nat /\ hostGot \in Seq(Nat)
      /\ Len(hostGot) \in Nat
  BY <1>1 DEF TxInv, TxTypeOK, NumberedInv
<1>3. /\ d \in Seq(Nat) /\ Len(d) = L
      /\ \A i \in 1..L : d[i] = Base + i
  <2>1. d \in Seq(Nat) /\ Len(d) = L /\ \A i \in 1..L : d[i] = txQueue[i]
    BY <1>2, SplitQueue
  <2>2. \A i \in 1..Len(txQueue) : txQueue[i] = Base + i
    BY DEF TxInv, NumberedInv
  <2> HIDE DEF d, L
  <2>3. ASSUME NEW i \in 1..L PROVE d[i] = Base + i
    <3>1. i \in 1..Len(txQueue) /\ d[i] = txQueue[i]
      BY <1>2, <2>1
    <3> QED
      BY <2>2, <3>1
  <2> QED
    BY <2>1, <2>3
<1> HIDE DEF d
<1>4. /\ hostGot \o d \in Seq(Nat) /\ Len(hostGot \o d) = Len(hostGot) + L
      /\ \A i \in 1..Len(hostGot) : (hostGot \o d)[i] = hostGot[i]
      /\ \A i \in 1..L : (hostGot \o d)[Len(hostGot) + i] = Base + i
  <2>1. /\ hostGot \o d \in Seq(Nat) /\ Len(hostGot \o d) = Len(hostGot) + Len(d)
        /\ \A i \in 1..Len(hostGot) : (hostGot \o d)[i] = hostGot[i]
        /\ \A i \in 1..Len(d) : (hostGot \o d)[Len(hostGot) + i] = d[i]
    BY <1>2, <1>3, Concat
  <2> QED
    BY <1>3, <2>1
<1>5. /\ in' \in [status : {"closed", "nak", "ready", "sent"}, data : Seq(Nat)]
      /\ in'.status = "sent" /\ in'.data = d
  BY <1>1, <1>3 DEF TxInv, TxTypeOK
<1>6. TxTypeOK'
  <2>1. /\ txReady' \in BOOLEAN /\ discardOnReset' \in BOOLEAN /\ ("transmit" \in owed' => ~txReady')
    BY <1>1 DEF TxInv, TxTypeOK
  <2>2. hostGot' \in Seq(Nat) /\ txPacketLength' \in Nat /\ txPacketLength' \in 1..Len(txQueue')
    BY <1>1, <1>2, <1>4
  <2> QED
    BY <1>1, <1>2, <1>5, <2>1, <2>2 DEF TxTypeOK
<1>7. TxUnderway'
  BY <1>1, <1>5 DEF TxInv, TxUnderway, d
<1>8. Base' = Base
  BY <1>1 DEF Base
<1>9. NumberedInv'
  <2>1. appWritten # 0
    BY <1>2 DEF Base
  <2> QED
    BY <1>1, <1>8, <2>1 DEF TxInv, NumberedInv
<1>10. ReadInv'
  <2> DEFINE g == hostGot \o d
             n == Len(hostGot)
  <2>1. /\ \A i \in 1..(n - 1) : hostGot[i + 1] = hostGot[i] + 1
        /\ hostGot # << >> => hostGot[n] = Base
    BY <1>1, <1>2 DEF TxInv, ReadInv
  <2>2. n > 0 => hostGot[n] = Base
    BY <1>2, <2>1
  <2>3. /\ g \in Seq(Nat) /\ Len(g) = n + L /\ n \in Nat
        /\ \A i \in 1..n : g[i] = hostGot[i]
        /\ \A i \in 1..L : g[n + i] = Base + i
    BY <1>2, <1>4
  <2>4. L \in Nat \ {0} /\ Base \in Nat
    BY <1>2
  <2> HIDE DEF g, n, L
  <2>5. ASSUME NEW i \in 1..(Len(g) - 1) PROVE g[i + 1] = g[i] + 1
    <3>1. CASE i < n
      BY <2>1, <2>3, <2>4, <3>1
    <3>2. CASE i = n
      BY <2>2, <2>3, <2>4, <3>2
    <3>3. CASE i > n
      <4>1. i - n \in 1..L /\ (i + 1) - n \in 1..L
        BY <2>3, <2>4, <3>3
      <4>2. g[n + (i - n)] = Base + (i - n) /\ g[n + ((i + 1) - n)] = Base + ((i + 1) - n)
        BY <2>3, <4>1
      <4>3. n + (i - n) = i /\ n + ((i + 1) - n) = i + 1 /\ Base + ((i + 1) - n) = Base + (i - n) + 1
        BY <2>3, <2>4
      <4> QED
        BY <4>2, <4>3
    <3> QED
      BY <2>3, <3>1, <3>2, <3>3
  <2>6. g[Len(g)] = Base + L
    BY <2>3, <2>4
  <2>7. ASSUME ~discardOnReset
        PROVE  \E k \in Nat : hostRead' = 1..k /\ txHead <= k /\ txHead + L <= k
    <3>1. PICK k \in Nat : hostRead = 1..k /\ txHead <= k
      BY <2>7 DEF TxInv, ReadInv
    <3>2. txHead = Base
      BY <2>7 DEF TxInv, NumberedInv
    <3>3. Range(d) = (Base + 1)..(Base + L)
      <4>1. DOMAIN d = 1..L
        BY <1>3 DEF L
      <4>2. \A x \in (Base + 1)..(Base + L) : x - Base \in 1..L /\ Base + (x - Base) = x
        BY <2>4
      <4>3. \A i \in 1..L : d[i] = Base + i
        BY <1>3 DEF L
      <4>4. \A i \in 1..L : Base + i \in (Base + 1)..(Base + L)
        BY <2>4
      <4>5. Range(d) = {d[i] : i \in 1..L}
        BY <4>1 DEF Range
      <4> QED
        BY <4>2, <4>3, <4>4, <4>5
    <3>4. hostRead' = 1..k \cup (Base + 1)..(Base + L)
      BY <1>1, <3>1, <3>3
    <3>5. CASE k >= Base + L
      <4>1. hostRead' = 1..k
        BY <2>4, <3>1, <3>2, <3>4, <3>5
      <4> QED
        BY <2>4, <3>1, <3>2, <3>5, <4>1
    <3>6. CASE ~(k >= Base + L)
      <4>1. hostRead' = 1..(Base + L)
        BY <2>4, <3>1, <3>2, <3>4, <3>6
      <4>2. Base + L \in Nat /\ Base <= Base + L
        BY <2>4
      <4> QED
        BY <3>2, <4>1, <4>2
    <3> QED
      BY <3>5, <3>6
  <2>8. /\ hostGot' = g /\ txPacketLength' = L /\ txHead' = txHead /\ discardOnReset' = discardOnReset
    BY <1>1 DEF g, L
  <2> QED
    BY <1>5, <1>8, <2>5, <2>6, <2>7, <2>8 DEF ReadInv
<1> QED
  BY <1>6, <1>7, <1>9, <1>10 DEF TxInv

LEMMA TxReset == ASSUME TxInv, BusReset PROVE TxInv'
<1>1. /\ in' = Closed /\ link' = "reset" /\ owed' = {}
      /\ UNCHANGED <<txVars, discardOnReset, appWritten, hostGot, hostRead>>
  BY DEF BusReset, serialVars, streamVars
<1>2. Closed \in InEndpoint /\ Closed.status = "closed"
  BY DEF Closed, InEndpoint
<1>3. TxTypeOK' /\ TxUnderway'
  BY <1>1, <1>2 DEF TxInv, TxTypeOK, TxUnderway, InEndpoint, txVars
<1>4. NumberedInv' /\ ReadInv'
  BY <1>1, <1>2 DEF TxInv, NumberedInv, ReadInv, Base, txVars
<1> QED
  BY <1>3, <1>4 DEF TxInv

LEMMA TxChosen == ASSUME TxInv, NEW v \in BOOLEAN, AppChooses(v) PROVE TxInv'
<1>1. /\ link = "new" /\ appWritten = 0 /\ discardOnReset' = v
      /\ UNCHANGED <<txVars, in, link, owed, appWritten, hostGot, hostRead>>
  BY DEF AppChooses, SetDiscardOnReset, streamVars
<1>2. TxTypeOK' /\ TxUnderway'
  BY <1>1 DEF TxInv, TxTypeOK, TxUnderway, txVars
<1>3. Base = 0 /\ txHead = 0 /\ hostRead = {}
  <2>1. Len(txQueue) \in Nat /\ 0 - Len(txQueue) \in Nat /\ txHead = 0 /\ hostRead = {}
    BY <1>1 DEF TxInv, TxTypeOK, NumberedInv, Base
  <2>2. Len(txQueue) = 0
    <3> DEFINE n == Len(txQueue)
    <3>1. n \in Nat /\ 0 - n \in Nat
      BY <2>1
    <3> HIDE DEF n
    <3> QED
      BY <3>1 DEF n
  <2> QED
    BY <1>1, <2>1, <2>2 DEF Base
<1>4. NumberedInv'
  BY <1>1, <1>3 DEF TxInv, NumberedInv, Base, txVars
<1>5. in.status = "closed" /\ hostRead = 1..0
  BY <1>1, <1>3 DEF TxInv, TxTypeOK
<1>6. ReadInv'
  BY <1>1, <1>3, <1>5 DEF TxInv, ReadInv, Base, txVars
<1> QED
  BY <1>2, <1>4, <1>6 DEF TxInv

-----------------------------------------------------------------------------
(* The events.                                                             *)

EventsSame == UNCHANGED <<pendingEvents, lineCoding, controlSignals, txHead, known>>

\* Every step that changes what the application may ask about adds the event
\* that tells of it, and only pulling the events removes one.
LEMMA EventsStep == ASSUME EventsTell, [PortNext]_portVars PROVE EventsTell'
<1> USE DEF EventsTell
<1>1. ASSUME EventsSame PROVE EventsTell'
  BY <1>1 DEF EventsSame
<1>2. ASSUME NEW n \in 1..TxCapacity, AppTransmit(n) PROVE EventsTell'
  BY <1>1, <1>2 DEF AppTransmit, TransmitBytes, EventsSame, txVars, lineVars
<1>3. ASSUME NEW n \in 1..RxCapacity, AppReceive(n) \/ AppDiscard(n) PROVE EventsTell'
  BY <1>1, <1>3
     DEF AppReceive, AppDiscard, ReceiveBytes, DiscardReceived, EventsSame, txVars, lineVars
<1>4. CASE AppPullEvents
  BY <1>4 DEF AppPullEvents, PullEvents, Known, txVars, lineVars
<1>5. ASSUME NEW v \in Options, AppChooses(v) PROVE EventsTell'
  BY <1>1, <1>5 DEF AppChooses, SetDiscardOnReset, EventsSame, txVars, lineVars
<1>6. CASE Configure
  BY <1>6 DEF Configure, Initialize, lineVars
<1>7. CASE ProcessReceived
  BY <1>7 DEF ProcessReceived, PacketReceived, txVars, lineVars
<1>8. CASE ProcessSent
  BY <1>8 DEF ProcessSent, TransmitComplete, lineVars
<1>9. ASSUME NEW r, NEW c, NEW s, Control(r, c, s) PROVE EventsTell'
  BY <1>9 DEF Control, HandleControl, txVars, lineVars
<1>10. ASSUME NEW n \in 0..Packet, HostSends(n) PROVE EventsTell'
  BY <1>1, <1>10 DEF HostSends, EventsSame, serialVars, txVars, lineVars
<1>11. CASE HostReads \/ BusReset
  BY <1>1, <1>11 DEF HostReads, BusReset, EventsSame, serialVars, txVars, lineVars
<1>12. CASE UNCHANGED portVars
  BY <1>1, <1>12 DEF EventsSame, portVars, serialVars, txVars, lineVars
<1> QED
  BY <1>2, <1>3, <1>4, <1>5, <1>6, <1>7, <1>8, <1>9, <1>10, <1>11, <1>12 DEF PortNext

-----------------------------------------------------------------------------
(* The invariant.                                                          *)

LEMMA PortInitial == PortInit => PortInv
<1> SUFFICES ASSUME PortInit PROVE PortInv
  OBVIOUS
<1>1. /\ rxQueue = << >> /\ rxPacket = << >> /\ rxHead = 0 /\ txQueue = << >> /\ txHead = 0
      /\ txPacketLength = 0 /\ txReady = FALSE /\ discardOnReset = TRUE /\ pendingEvents = {}
      /\ link = "new" /\ out = Closed /\ in = Closed /\ owed = {}
      /\ hostSent = 0 /\ appWritten = 0 /\ hostGot = << >> /\ hostRead = {}
      /\ seen = << >> /\ appGot = << >> /\ known = Known
  BY DEF PortInit, NewSerial
<1>2. << >> \in Seq(Nat) /\ Len(<< >>) = 0 /\ << >> \o << >> \o << >> = << >>
  OBVIOUS
<1>3. RxInv
  BY <1>1, <1>2 DEF RxInv, RxStream, Closed
<1>4. TxTypeOK /\ TxUnderway
  BY <1>1, <1>2 DEF TxTypeOK, TxUnderway, Closed
<1>5. Base = 0
  <2>1. Len(txQueue) = 0 /\ 0 - 0 = 0
    BY <1>1, <1>2
  <2> QED
    BY <1>1, <2>1 DEF Base
<1>6. NumberedInv /\ ReadInv
  BY <1>1, <1>2, <1>5 DEF NumberedInv, ReadInv
<1>7. EventsTell
  BY <1>1 DEF EventsTell, Known
<1> QED
  BY <1>3, <1>4, <1>6, <1>7 DEF PortInv, TxInv

\* Steps of the application that read, and what they leave alone.
LEMMA ReadingStep ==
    ASSUME RxInv, TxInv, NEW n \in 1..RxCapacity, AppReceive(n) \/ AppDiscard(n)
    PROVE  RxInv' /\ TxSame
<1>1. rxQueue \in Seq(Nat) /\ Len(rxQueue) \in Nat /\ n \in Nat /\ in \in InEndpoint
      /\ rxPacket \in Seq(Nat)
  BY SerialAssumption DEF RxInv, TxInv, TxTypeOK, InEndpoint
<1>2. /\ out' = OutAfter(out) /\ in' = InAfter(in) /\ owed' = owed \cup Issued
      /\ UNCHANGED <<link, hostSent, appWritten, hostGot, hostRead, seen, txVars, discardOnReset>>
  BY DEF AppReceive, AppDiscard, ReceiveBytes, DiscardReceived, Carry
<1>3. ASSUME Issued \subseteq {"receive"} PROVE TxSame
  BY <1>1, <1>2, <1>3, InCarried DEF TxSame
<1>4. ASSUME NEW k \in 0..Len(rxQueue), ProcessPendingPacket(DropFirst(rxQueue, k)),
             rxHead' = rxHead + k, appGot' = appGot \o SubSeq(rxQueue, 1, k)
      PROVE  RxInv' /\ TxSame
  <2>1. RxInv'
    BY <1>2, <1>4, RxTaken
  <2>2. DropFirst(rxQueue, k) \in Seq(Nat)
    BY <1>1, SplitQueue
  <2>3. Issued \subseteq {"receive"}
    BY <1>1, <1>4, <2>2, PendingMoved
  <2> QED
    BY <1>3, <2>1, <2>3
<1>5. CASE AppReceive(n)
  <2> DEFINE k == Lesser(n, Len(rxQueue))
  <2>1. k \in 0..Len(rxQueue)
    BY <1>1 DEF Lesser
  <2>2. /\ ProcessPendingPacket(DropFirst(rxQueue, k))
        /\ rxHead' = rxHead + k /\ appGot' = appGot \o SubSeq(rxQueue, 1, k)
    BY <1>5 DEF AppReceive, ReceiveBytes
  <2> HIDE DEF k
  <2> QED
    BY <1>4, <2>1, <2>2
<1>6. CASE AppDiscard(n) /\ Len(rxQueue) < n
  <2>1. calls' = << >> /\ UNCHANGED <<rxVars, appGot>>
    BY <1>6 DEF AppDiscard, DiscardReceived
  <2>2. Issued = {}
    BY <2>1, IssuedBy
  <2>3. out' = out
    BY <1>2, <2>2, OutCarried DEF RxInv, OutEndpoint
  <2>4. RxSame
    BY <1>2, <2>1, <2>2, <2>3 DEF RxSame, RxInv
  <2> QED
    BY <1>3, <2>2, <2>4, RxUndisturbed
<1>7. CASE AppDiscard(n) /\ ~(Len(rxQueue) < n)
  <2>1. n \in 0..Len(rxQueue)
    BY <1>1, <1>7
  <2>2. /\ ProcessPendingPacket(DropFirst(rxQueue, n))
        /\ rxHead' = rxHead + n /\ appGot' = appGot \o SubSeq(rxQueue, 1, n)
    BY <1>7 DEF AppDiscard, DiscardReceived
  <2> QED
    BY <1>4, <2>1, <2>2
<1> QED
  BY <1>5, <1>6, <1>7

\* Steps that touch neither direction.
LEMMA OtherStep ==
    ASSUME UNCHANGED <<rxVars, txVars, discardOnReset, link, out, in, owed, streamVars>>,
           hostSent \in Nat
    PROVE  RxSame /\ TxSame
BY DEF RxSame, TxSame, streamVars

LEMMA PortStep == PortInv /\ [PortNext]_portVars => PortInv'
<1> SUFFICES ASSUME PortInv, [PortNext]_portVars PROVE PortInv'
  OBVIOUS
<1>1. RxInv /\ TxInv /\ hostSent \in Nat
  BY DEF PortInv, RxInv
<1>2. ASSUME RxSame, TxSame PROVE RxInv' /\ TxInv'
  BY <1>1, <1>2, RxUndisturbed, TxUndisturbed
<1>3. EventsTell'
  BY EventsStep DEF PortInv
<1>4. ASSUME NEW n \in 1..TxCapacity, AppTransmit(n) PROVE RxInv' /\ TxInv'
  <2> DEFINE s == Numbers(appWritten, n)
  <2>1. /\ TransmitBytes(s) /\ out' = OutAfter(out) /\ owed' = owed \cup Issued
        /\ UNCHANGED <<link, hostSent, seen, appGot>>
    BY <1>4 DEF AppTransmit, Carry
  <2>2. s \in Seq(Nat) /\ txQueue \in Seq(Nat) /\ txHead \in Nat
    BY <1>1, SerialAssumption, NumbersFacts DEF TxInv, TxTypeOK
  <2> HIDE DEF s
  <2>3. Issued \subseteq {"transmit"} /\ UNCHANGED rxVars
    BY <2>1, <2>2, TransmitIssues
  <2>4. out' = out
    BY <1>1, <2>1, <2>3, OutCarried DEF RxInv, OutEndpoint
  <2>5. RxSame
    BY <1>1, <2>1, <2>3, <2>4 DEF RxSame
  <2> QED
    BY <1>1, <1>4, <2>5, RxUndisturbed, TxWritten
<1>5. ASSUME NEW n \in 1..RxCapacity, AppReceive(n) \/ AppDiscard(n) PROVE RxInv' /\ TxInv'
  BY <1>1, <1>5, ReadingStep, TxUndisturbed
<1>6. ASSUME AppPullEvents PROVE RxInv' /\ TxInv'
  BY <1>1, <1>2, <1>6, OtherStep DEF AppPullEvents, PullEvents
<1>7. ASSUME NEW v \in Options, AppChooses(v) PROVE RxInv' /\ TxInv'
  <2>1. RxSame
    BY <1>1, <1>7 DEF AppChooses, SetDiscardOnReset, RxSame, streamVars
  <2> QED
    BY <1>1, <1>7, <2>1, RxUndisturbed, TxChosen, PortAssumption
<1>8. ASSUME Configure PROVE RxInv' /\ TxInv'
  BY <1>1, <1>8, RxConfigured, TxConfigured
<1>9. ASSUME ProcessReceived PROVE RxInv' /\ TxInv'
  <2>1. /\ PacketReceived(out.data) /\ in' = InAfter(in)
        /\ owed' = (owed \ {"receive"}) \cup Issued
        /\ UNCHANGED <<link, txVars, discardOnReset, appWritten, hostGot, hostRead>>
    BY <1>9 DEF ProcessReceived, PacketReceived, Carry
  <2>2. Issued \subseteq {"receive"}
    BY <2>1, IssuedBy DEF PacketReceived
  <2>3. in' = in
    BY <1>1, <2>1, <2>2, InCarried DEF TxInv, TxTypeOK, InEndpoint
  <2>4. TxSame
    BY <2>1, <2>2, <2>3 DEF TxSame
  <2> QED
    BY <1>1, <1>9, <2>4, RxReceived, TxUndisturbed
<1>10. ASSUME ProcessSent PROVE RxInv' /\ TxInv'
  <2>1. /\ TransmitComplete /\ out' = OutAfter(out) /\ owed' = (owed \ {"transmit"}) \cup Issued
        /\ UNCHANGED <<link, hostSent, seen, appGot, rxVars>>
    BY <1>10 DEF ProcessSent, Carry, streamVars, TransmitComplete
  <2> DEFINE q == DropFirst(txQueue, txPacketLength)
             h == txHead + txPacketLength
  <2>2. TransmitNextChunk(q, h, << >>) /\ q \in Seq(Nat) /\ h \in Nat
    <3>1. /\ txPacketLength \in 1..Len(txQueue) /\ txQueue \in Seq(Nat) /\ txHead \in Nat
          /\ txPacketLength \in Nat
      BY <1>1, <1>10 DEF ProcessSent, TxInv, TxTypeOK
    <3>2. txPacketLength \in 0..Len(txQueue)
      BY <3>1
    <3> QED
      BY <2>1, <3>1, <3>2, SplitQueue DEF TransmitComplete
  <2> HIDE DEF q, h
  <2>3. Issued \subseteq {"transmit"}
    BY <2>2, ChunkSent
  <2>4. out' = out
    BY <1>1, <2>1, <2>3, OutCarried DEF RxInv, OutEndpoint
  <2>5. RxSame
    BY <1>1, <2>1, <2>3, <2>4 DEF RxSame
  <2> QED
    BY <1>1, <1>10, <2>5, RxUndisturbed, TxCompleted
<1>11. ASSUME NEW r, NEW c, NEW s, Control(r, c, s) PROVE RxInv' /\ TxInv'
  BY <1>1, <1>2, <1>11, OtherStep DEF Control, HandleControl
<1>12. ASSUME NEW n \in 0..Packet, HostSends(n) PROVE RxInv' /\ TxInv'
  <2>1. TxSame
    BY <1>12 DEF HostSends, TxSame, serialVars
  <2> QED
    BY <1>1, <1>12, <2>1, TxUndisturbed, RxSends
<1>13. ASSUME HostReads PROVE RxInv' /\ TxInv'
  <2>1. RxSame
    BY <1>1, <1>13 DEF HostReads, RxSame, serialVars
  <2> QED
    BY <1>1, <1>13, <2>1, RxUndisturbed, TxRead
<1>14. ASSUME BusReset PROVE RxInv' /\ TxInv'
  BY <1>1, <1>14, RxReset, TxReset
<1>15. ASSUME UNCHANGED portVars PROVE RxInv' /\ TxInv'
  BY <1>1, <1>2, <1>15, OtherStep DEF portVars, serialVars
<1>16. RxInv' /\ TxInv'
  BY <1>4, <1>5, <1>6, <1>7, <1>8, <1>9, <1>10, <1>11, <1>12, <1>13, <1>14, <1>15 DEF PortNext
<1> QED
  BY <1>3, <1>16 DEF PortInv

\* The two directions and the events stay in step, whatever the application, the
\* host and the bus do.
THEOREM PortInvariant == PortSpec => []PortInv
<1>1. PortInit => PortInv
  BY PortInitial
<1>2. PortInv /\ [PortNext]_portVars => PortInv'
  BY PortStep
<1> QED
  BY <1>1, <1>2, PTL DEF PortSpec

\* The application gets the bytes of the packets received, each once and in
\* order (usb-device-serial.hpp:44-61).
THEOREM PortReceives == PortSpec => []RxStream
<1>1. PortInv => RxStream
  BY DEF PortInv, RxInv
<1> QED
  BY <1>1, PortInvariant, PTL

\* The bytes the controller reads are still at the head of the queue, and no idle
\* endpoint leaves bytes waiting (function.cpp:272-294).
THEOREM PortTransmits == PortSpec => []TxUnderway
<1>1. PortInv => TxUnderway
  BY DEF PortInv, TxInv
<1> QED
  BY <1>1, PortInvariant, PTL

LEMMA HostReadsAll == ASSUME TxInv PROVE HostStream
<1>1. \A i \in 1..(Len(hostGot) - 1) : hostGot[i + 1] = hostGot[i] + 1
  BY DEF TxInv, ReadInv
<1>2. ASSUME ~discardOnReset
      PROVE  /\ hostRead = 1..Cardinality(hostRead) /\ txHead <= Cardinality(hostRead)
             /\ txQueue = Numbers(txHead, appWritten - txHead)
  <2>1. PICK h \in Nat : hostRead = 1..h /\ txHead <= h
    BY <1>2 DEF TxInv, ReadInv
  <2>2. Cardinality(1..h) = h
    <3>1. Cardinality(1..h) = IF 1 > h THEN 0 ELSE h - 1 + 1
      BY <2>1, FS_Interval
    <3> QED
      BY <2>1, <3>1
  <2>3. /\ txQueue \in Seq(Nat) /\ Len(txQueue) \in Nat /\ appWritten \in Nat /\ txHead \in Nat
        /\ txHead = Base /\ \A i \in 1..Len(txQueue) : txQueue[i] = Base + i
    BY <1>2 DEF TxInv, TxTypeOK, NumberedInv
  <2> DEFINE n == Len(txQueue)
  <2>4. appWritten - txHead = n
    <3>1. txHead = appWritten - n /\ n \in Nat
      BY <2>3 DEF Base
    <3> HIDE DEF n
    <3> QED
      BY <2>3, <3>1
  <2>5. /\ Numbers(txHead, n) \in Seq(Nat) /\ Len(Numbers(txHead, n)) = n
        /\ \A i \in 1..n : Numbers(txHead, n)[i] = txHead + i
    BY <2>3, NumbersFacts
  <2>6. txQueue = Numbers(txHead, n)
    <3> DEFINE t == Numbers(txHead, n)
    <3>1. t \in Seq(Nat) /\ Len(txQueue) = Len(t) /\ \A i \in 1..Len(txQueue) : txQueue[i] = t[i]
      BY <2>3, <2>5
    <3> HIDE DEF t
    <3>2. txQueue = t
      BY <2>3, <3>1, SeqEqual
    <3> QED
      BY <3>2 DEF t
  <2> QED
    BY <2>1, <2>2, <2>4, <2>6
<1> QED
  BY <1>1, <1>2 DEF HostStream

\* Between two resets the host reads consecutive bytes; when data survives
\* resets it misses none (usb-device-serial.hpp:86-87).
THEOREM PortHostReads == PortSpec => []HostStream
<1>1. PortInv => HostStream
  BY HostReadsAll DEF PortInv
<1> QED
  BY <1>1, PortInvariant, PTL

\* A change of line coding, control signals or transmit position since the
\* application pulled the events left one pending (function.cpp:175-186).
THEOREM PortTells == PortSpec => []EventsTell
<1>1. PortInv => EventsTell
  BY DEF PortInv
<1> QED
  BY <1>1, PortInvariant, PTL

\* A call on an endpoint is made only while none of that kind is owed.
LEMMA ContractStep == PortInv /\ [PortNext]_portVars => (link' = link => breaches' = breaches)
<1> SUFFICES ASSUME PortInv, [PortNext]_portVars, link' = link PROVE breaches' = breaches
  OBVIOUS
<1>1. /\ RxInv /\ TxInv /\ rxQueue \in Seq(Nat) /\ rxPacket \in Seq(Nat)
      /\ txQueue \in Seq(Nat) /\ txHead \in Nat /\ appWritten \in Nat
      /\ "receive" \in owed => rxPacket = << >>
      /\ "transmit" \in owed => ~txReady
  BY DEF PortInv, RxInv, TxInv, TxTypeOK
<1>2. ASSUME NEW n \in 1..TxCapacity, AppTransmit(n) PROVE breaches' = breaches
  <2> DEFINE s == Numbers(appWritten, n)
  <2>1. TransmitBytes(s) /\ breaches' = breaches \cup (owed \cap Issued)
    BY <1>2 DEF AppTransmit, Carry
  <2>2. s \in Seq(Nat)
    BY <1>1, SerialAssumption, NumbersFacts
  <2> HIDE DEF s
  <2>3. Issued \subseteq {"transmit"} /\ (~txReady => Issued = {})
    BY <1>1, <2>1, <2>2, TransmitIssues
  <2> QED
    BY <1>1, <2>1, <2>3
<1>3. ASSUME NEW n \in 1..RxCapacity, AppReceive(n) \/ AppDiscard(n) PROVE breaches' = breaches
  <2>1. breaches' = breaches \cup (owed \cap Issued)
    BY <1>3 DEF AppReceive, AppDiscard, Carry
  <2>2. ASSUME NEW k \in 0..Len(rxQueue), ProcessPendingPacket(DropFirst(rxQueue, k))
        PROVE  owed \cap Issued = {}
    <3>1. DropFirst(rxQueue, k) \in Seq(Nat)
      BY <1>1, SplitQueue
    <3>2. Issued = {} \/ (Issued = {"receive"} /\ rxPacket # << >>)
      BY <1>1, <2>2, <3>1, PendingMoved
    <3> QED
      BY <1>1, <3>2
  <2>3. CASE AppReceive(n)
    <3> DEFINE k == Lesser(n, Len(rxQueue))
    <3>1. k \in 0..Len(rxQueue)
      BY <1>1, SerialAssumption DEF Lesser
    <3>2. ProcessPendingPacket(DropFirst(rxQueue, k))
      BY <2>3 DEF AppReceive, ReceiveBytes
    <3> HIDE DEF k
    <3> QED
      BY <2>1, <2>2, <3>1, <3>2
  <2>4. CASE AppDiscard(n) /\ Len(rxQueue) < n
    <3>1. Issued = {}
      BY <2>4, IssuedBy DEF AppDiscard, DiscardReceived
    <3> QED
      BY <2>1, <3>1
  <2>5. CASE AppDiscard(n) /\ ~(Len(rxQueue) < n)
    <3>1. n \in 0..Len(rxQueue)
      BY <1>1, <2>5, SerialAssumption
    <3>2. ProcessPendingPacket(DropFirst(rxQueue, n))
      BY <2>5 DEF AppDiscard, DiscardReceived
    <3> QED
      BY <2>1, <2>2, <3>1, <3>2
  <2> QED
    BY <1>3, <2>3, <2>4, <2>5
<1>4. ASSUME ProcessReceived PROVE breaches' = breaches
  <2>1. Issued \subseteq {"receive"}
    BY <1>4, IssuedBy DEF ProcessReceived, PacketReceived
  <2> QED
    BY <1>4, <2>1 DEF ProcessReceived, Carry
<1>5. ASSUME ProcessSent PROVE breaches' = breaches
  <2> DEFINE q == DropFirst(txQueue, txPacketLength)
             h == txHead + txPacketLength
  <2>1. TransmitNextChunk(q, h, << >>) /\ q \in Seq(Nat) /\ h \in Nat
    <3>1. /\ txPacketLength \in 1..Len(txQueue) /\ txPacketLength \in Nat
      BY <1>1, <1>5 DEF ProcessSent, TxInv, TxTypeOK
    <3>2. txPacketLength \in 0..Len(txQueue)
      BY <1>1, <3>1
    <3> QED
      BY <1>1, <1>5, <3>1, <3>2, SplitQueue DEF ProcessSent, TransmitComplete
  <2> HIDE DEF q, h
  <2>2. Issued \subseteq {"transmit"}
    BY <2>1, ChunkSent
  <2> QED
    BY <1>5, <2>2 DEF ProcessSent, Carry
<1>6. CASE \/ AppPullEvents \/ HostReads \/ UNCHANGED portVars
           \/ \E v \in Options : AppChooses(v)
           \/ \E n \in 0..Packet : HostSends(n)
           \/ \E r \in {"SET_CONTROL_LINE_STATE", "GET_LINE_CODING", "SET_LINE_CODING"},
                 c \in load.codings, s \in load.lines : Control(r, c, s)
  BY <1>6 DEF AppPullEvents, HostReads, AppChooses, HostSends, Control, portVars
<1>7. ~Configure /\ ~BusReset
  BY DEF Configure, BusReset
<1> QED
  BY <1>2, <1>3, <1>4, <1>5, <1>6, <1>7 DEF PortNext

\* Within a configuration no endpoint is used twice without a callback in
\* between (function.hpp:36-37 and 49-50).
THEOREM PortContract == PortSpec => ContractKept
<1>1. PortInv /\ [PortNext]_portVars => [link' = link => breaches' = breaches]_portVars
  BY ContractStep
<1>2. PortSpec => [][PortNext]_portVars
  BY PTL DEF PortSpec
<1> QED
  BY <1>1, <1>2, PortInvariant, PTL DEF ContractKept
=============================================================================
