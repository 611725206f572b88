------------------------- MODULE ControlEndpoint_proof -------------------------
(***************************************************************************)
(* ControlEndpoint is safe for every packet size, every wLength and every  *)
(* order of events the peripheral controller may report; and it keeps the  *)
(* contract with its client.                                               *)
(***************************************************************************)
EXTENDS ControlClient, NaturalsInduction, WellFoundedInduction, TLAPS

SafeNote == Note \ {"nullDeref"}

\* The inductive invariant: which state needs which pointer, which direction
\* and how many bytes.
ControlInv ==
    /\ TypeOK
    /\ ServedInv
    /\ DirectionInv
    /\ DataStageInv
    /\ WholePackets
    /\ notes \in Seq(SafeNote)

Whole(d) == \E k \in 0..d : d = k * MaxPacket

\* A step into a state with the pointers and bytes that state needs.
LEMMA ServeSafe ==
    ASSUME NEW next \in SetupState, NEW isStreamed \in BOOLEAN,
           NEW told \in Seq(SafeNote), NEW pcd \in Seq(Call),
           setup' \in SetupPacket, dataLength' \in 0..setup'.wLength,
           next \in {"TX_MORE_DATA", "WAITING"} => isStreamed,
           next \in {"RX_DATA", "TX_STATUS"} => ~setup'.in,
           next \in {"TX_MORE_DATA", "TX_DATA", "RX_STATUS"} => setup'.in,
           next = "TX_STATUS" /\ isStreamed => dataLength' = setup'.wLength,
           next \in {"RX_DATA", "TX_MORE_DATA"} => dataLength' < setup'.wLength,
           next = "WAITING" /\ ~setup'.in => dataLength' < setup'.wLength,
           next \in {"TX_MORE_DATA", "WAITING"} /\ setup'.in => Whole(dataLength'),
           Serve(next, isStreamed, told, pcd)
    PROVE  ControlInv'
<1>1. told \in Seq(Note)
  BY DEF SafeNote
<1>2. setup'.wLength \in 0..MaxTransfer
  BY DEF SetupPacket
<1>3. TypeOK'
  BY <1>1, <1>2, ControlAssumption DEF TypeOK, Serve
<1>4. ServedInv' /\ DirectionInv' /\ notes' \in Seq(SafeNote)
  BY DEF ServedInv, DirectionInv, Serve
<1>5. DataStageInv'
  BY <1>2, ControlAssumption DEF DataStageInv, WholePackets, Serve
<1>6. WholePackets'
  BY DEF WholePackets, Whole, Serve
<1> QED
  BY <1>3, <1>4, <1>5, <1>6 DEF ControlInv

\* abortRequest() leaves nothing to be served.
LEMMA AbortSafe ==
    ASSUME NEW told \in Seq(SafeNote),
           setup' \in SetupPacket, dataLength' \in 0..setup'.wLength,
           AbortRequest(told)
    PROVE  ControlInv'
<1>1. told \in Seq(Note)
  BY DEF SafeNote
<1>2. setup'.wLength \in 0..MaxTransfer
  BY DEF SetupPacket
<1>3. Stall \in Seq(Call)
  BY ControlAssumption DEF Stall, Call
<1>4. TypeOK' /\ notes' \in Seq(SafeNote)
  <2>1. dataLength' \in 0..MaxTransfer
    BY <1>2, ControlAssumption
  <2>2. calls' \in Seq(Call) /\ notes' = told
    BY <1>3 DEF AbortRequest
  <2>3. state' \in SetupState /\ handler' \in BOOLEAN /\ streamer' \in BOOLEAN
    BY DEF AbortRequest, SetupState
  <2> QED
    BY <1>1, <2>1, <2>2, <2>3 DEF TypeOK
<1>5. ServedInv' /\ DirectionInv'
  BY DEF ServedInv, DirectionInv, AbortRequest
<1>6. DataStageInv'
  BY <1>2, ControlAssumption DEF DataStageInv, WholePackets, AbortRequest
<1>7. WholePackets'
  BY DEF WholePackets, AbortRequest
<1> QED
  BY <1>4, <1>5, <1>6, <1>7 DEF ControlInv

\* transmitPacket() never sends more than wLength in all, so that the 16-bit
\* difference wLength - dataLength does not wrap.
LEMMA TransmitSafe ==
    ASSUME NEW n \in 0..MaxPacket, NEW s \in SetupPacket, s.in,
           NEW d \in 0..s.wLength, Whole(d), NEW told \in Seq(SafeNote),
           setup' = s, TransmitPacket(n, d, s, told)
    PROVE  ControlInv'
<1> DEFINE len  == Smaller(n, s.wLength - d)
           next == IF d + len = s.wLength \/ len < MaxPacket THEN "TX_DATA" ELSE "TX_MORE_DATA"
<1>1. s.wLength \in Nat /\ s.wLength <= MaxTransfer
  BY ControlAssumption DEF SetupPacket
<1>2. len \in Nat /\ d + len <= s.wLength
  BY <1>1, ControlAssumption DEF Smaller
<1>3. << Transmit(len) >> \in Seq(Call)
  BY <1>1, <1>2, ControlAssumption DEF Transmit, Call
<1>4. dataLength' = d + len /\ Serve(next, TRUE, told, << Transmit(len) >>)
  BY DEF TransmitPacket
<1>5. next = "TX_MORE_DATA" => dataLength' < setup'.wLength
  BY <1>1, <1>2, <1>4
<1>8. next = "TX_MORE_DATA" => Whole(dataLength')
  <2> SUFFICES ASSUME next = "TX_MORE_DATA" PROVE Whole(dataLength')
    OBVIOUS
  <2>1. len = MaxPacket
    <3>1. len <= MaxPacket
      BY <1>1, ControlAssumption DEF Smaller
    <3> QED
      BY <3>1, <1>2, ControlAssumption
  <2>2. PICK k \in 0..d : d = k * MaxPacket
    BY DEF Whole
  <2>3. d + MaxPacket = (k + 1) * MaxPacket /\ k + 1 \in 0..(d + MaxPacket)
    BY <1>1, <2>2, ControlAssumption
  <2> QED
    BY <1>4, <2>1, <2>3 DEF Whole
<1> HIDE DEF len
<1>6. next \in {"TX_DATA", "TX_MORE_DATA"}
  OBVIOUS
<1>7. dataLength' \in 0..setup'.wLength
  BY <1>1, <1>2, <1>4
<1> HIDE DEF next
<1> QED
  BY <1>3, <1>4, <1>5, <1>6, <1>7, <1>8, ServeSafe DEF SetupState

LEMMA PulledSafe ==
    ASSUME NEW s \in SetupPacket, s.in, NEW d \in 0..s.wLength, Whole(d),
           NEW told \in Seq(SafeNote), setup' = s, StreamerPulled(d, s, told)
    PROVE  ControlInv'
<1>1. CASE \E n \in 0..MaxPacket : TransmitPacket(n, d, s, told)
  BY <1>1, TransmitSafe
<1>2. CASE Serve("WAITING", TRUE, told, << >>) /\ dataLength' = d
  <2>1. << >> \in Seq(Call)
    OBVIOUS
  <2> QED
    BY <1>2, <2>1, ServeSafe DEF SetupState
<1>3. CASE AbortRequest(told \o << "aborted" >>) /\ dataLength' = d
  <2>1. told \o << "aborted" >> \in Seq(SafeNote)
    BY DEF SafeNote, Note
  <2> QED
    BY <1>3, <2>1, AbortSafe
<1> QED
  BY <1>1, <1>2, <1>3 DEF StreamerPulled

LEMMA ReceiveNextSafe ==
    ASSUME NEW s \in SetupPacket, ~s.in, NEW d \in 0..s.wLength,
           NEW told \in Seq(SafeNote), setup' = s, StreamReceiveNext(d, s, told)
    PROVE  ControlInv'
<1>1. /\ << >> \in Seq(Call) /\ << Receive >> \in Seq(Call)
      /\ << Transmit(0) >> \in Seq(Call) /\ << Receive, Transmit(0) >> \in Seq(Call)
  BY ControlAssumption DEF Receive, Transmit, Call
<1>2. s.wLength \in Nat /\ d \in Nat /\ dataLength' = d
  BY ControlAssumption DEF SetupPacket, StreamReceiveNext
<1>3. CASE d < s.wLength /\ Serve("WAITING", TRUE, told, << >>)
  BY <1>1, <1>2, <1>3, ServeSafe DEF SetupState
<1>4. CASE d < s.wLength /\ Serve("RX_DATA", TRUE, told, << Receive >>)
  BY <1>1, <1>2, <1>4, ServeSafe DEF SetupState
<1>5. ASSUME NEW pcd \in Seq(Call), d >= s.wLength, Serve("TX_STATUS", TRUE, told, pcd)
      PROVE  ControlInv'
  <2>1. dataLength' = setup'.wLength /\ dataLength' \in 0..setup'.wLength /\ ~setup'.in
    BY <1>2, <1>5
  <2>2. "TX_STATUS" \in SetupState /\ TRUE \in BOOLEAN
    BY DEF SetupState
  <2> QED
    BY <1>5, <2>1, <2>2, ServeSafe
<1>7. CASE AbortRequest(told \o << "aborted" >>)
  <2>1. told \o << "aborted" >> \in Seq(SafeNote)
    BY DEF SafeNote, Note
  <2> QED
    BY <1>2, <1>7, <2>1, AbortSafe
<1> QED
  BY <1>1, <1>3, <1>4, <1>5, <1>7 DEF StreamReceiveNext

\* A one-shot request that is handled; it has a handler to be called through.
LEMMA HandleSafe ==
    ASSUME NEW next \in {"TX_DATA", "TX_STATUS"}, NEW told \in Seq(SafeNote),
           NEW pcd \in Seq(Call), setup' \in SetupPacket,
           dataLength' \in 0..setup'.wLength, setup'.in <=> next = "TX_DATA",
           HandleControl(TRUE, next, told, pcd)
    PROVE  ControlInv'
<1> DEFINE asked == told \o << "handleControl" >>
<1>1. asked \in Seq(SafeNote) /\ asked \o << "failed" >> \in Seq(SafeNote)
  BY DEF SafeNote, Note
<1>2. Serve(next, FALSE, asked, pcd) \/ AbortRequest(asked \o << "failed" >>)
  BY DEF HandleControl, Through
<1> HIDE DEF asked
<1>3. CASE Serve(next, FALSE, asked, pcd)
  BY <1>1, <1>3, ServeSafe DEF SetupState
<1>4. CASE AbortRequest(asked \o << "failed" >>)
  BY <1>1, <1>4, AbortSafe
<1> QED
  BY <1>2, <1>3, <1>4

LEMMA CompleteSafe ==
    ASSUME ControlInv, CompleteRequest, handler
    PROVE  ControlInv'
<1>1. notes' \in Seq(SafeNote) /\ notes' \in Seq(Note)
  <2>1. CASE streamer
    BY <2>1 DEF CompleteRequest, SafeNote, Note
  <2>2. CASE ~streamer
    BY <2>2 DEF CompleteRequest, Through, SafeNote, Note
  <2> QED
    BY <2>1, <2>2
<1>2. << Receive >> \in Seq(Call)
  BY ControlAssumption DEF Receive, Call
<1> QED
  BY <1>1, <1>2 DEF ControlInv, TypeOK, ServedInv, DirectionInv, DataStageInv, WholePackets,
                    CompleteRequest, SetupState

LEMMA IgnoredSafe ==
    ASSUME ControlInv, Ignored
    PROVE  ControlInv'
<1>1. notes' \in Seq(SafeNote) /\ notes' \in Seq(Note) /\ calls' \in Seq(Call)
  BY DEF Ignored
<1> QED
  BY <1>1 DEF ControlInv, TypeOK, ServedInv, DirectionInv, DataStageInv, WholePackets, Ignored

-----------------------------------------------------------------------------
(* setupReceived().                                                        *)

LEMMA AbandonedSafe == Abandoned \in Seq(SafeNote)
<1>1. << "aborted" >> \in Seq(SafeNote) /\ << "failed" >> \in Seq(SafeNote)
  BY DEF SafeNote, Note
<1>2. << >> \in Seq(SafeNote)
  OBVIOUS
<1> QED
  BY <1>1, <1>2 DEF Abandoned

LEMMA RefusedSafe ==
    ASSUME ControlInv, NEW s \in SetupPacket, NEW resolved \in BOOLEAN,
           RefusedSetup(s, resolved)
    PROVE  ControlInv'
<1> DEFINE told == IF resolved THEN << "refused", "failed" >> ELSE << >>
<1>a. << "refused", "failed" >> \in Seq(SafeNote) /\ << >> \in Seq(SafeNote)
  BY DEF SafeNote, Note
<1>b. told \in Seq(SafeNote)
  BY <1>a
<1>1. Abandoned \o told \in Seq(SafeNote)
  <2> HIDE DEF told
  <2> QED
    BY <1>b, AbandonedSafe
<1>2. setup' \in SetupPacket /\ dataLength' \in 0..setup'.wLength
  BY ControlAssumption DEF RefusedSetup, SetupPacket
<1> QED
  BY <1>1, <1>2, AbortSafe DEF RefusedSetup

LEMMA AcceptedSafe ==
    ASSUME ControlInv, NEW s \in SetupPacket, NEW r \in ControlRequest, AcceptedSetup(s, r)
    PROVE  ControlInv'
<1> DEFINE told == Abandoned \o << Acceptance(r) >>
<1>1. told \in Seq(SafeNote)
  BY AbandonedSafe DEF Acceptance, SafeNote, Note
<1>2. s.wLength \in Nat /\ s.wLength <= MaxTransfer /\ 0 \in 0..s.wLength /\ setup' = s
  BY ControlAssumption DEF SetupPacket, AcceptedSetup
<1>3. /\ told \o << "aborted" >> \in Seq(SafeNote)
      /\ told \o << "failed" >> \in Seq(SafeNote)
      /\ told \o << "transmitComplete" >> \in Seq(SafeNote)
      /\ told \o << "packetReceived" >> \in Seq(SafeNote)
  BY <1>1 DEF SafeNote, Note
<1>4. r.outbound \in BOOLEAN /\ r.streamed \in BOOLEAN
  BY DEF ControlRequest
<1>5. Valid(s, r) => s.in = r.outbound
  BY DEF Valid
<1> HIDE DEF told
<1>6. CASE /\ ~Valid(s, r)
           /\ AbortRequest(told \o << IF r.streamed THEN "aborted" ELSE "failed" >>)
           /\ dataLength' = 0
  <2>1. told \o << IF r.streamed THEN "aborted" ELSE "failed" >> \in Seq(SafeNote)
    BY <1>3
  <2> QED
    BY <1>2, <1>6, <2>1, AbortSafe
<1>7. CASE /\ Valid(s, r) /\ r.outbound /\ r.streamed
           /\ StreamerPulled(0, s, told \o << "transmitComplete" >>)
  <2>1. Whole(0)
    BY ControlAssumption DEF Whole
  <2> QED
    BY <1>2, <1>3, <1>5, <1>7, <2>1, PulledSafe
<1>8. CASE /\ Valid(s, r) /\ r.outbound /\ ~r.streamed /\ dataLength' = 0
           /\ \E n \in 0..MaxPacket :
                 HandleControl(TRUE, "TX_DATA", told, << Transmit(Smaller(n, s.wLength)) >>)
  <2>1. PICK n \in 0..MaxPacket :
           HandleControl(TRUE, "TX_DATA", told, << Transmit(Smaller(n, s.wLength)) >>)
    BY <1>8
  <2>2. << Transmit(Smaller(n, s.wLength)) >> \in Seq(Call)
    BY <1>2, ControlAssumption DEF Transmit, Call, Smaller
  <2> QED
    BY <1>1, <1>2, <1>5, <1>8, <2>1, <2>2, HandleSafe
<1>9. CASE /\ Valid(s, r) /\ ~r.outbound /\ s.wLength = 0 /\ r.streamed
           /\ StreamReceiveNext(0, s, told \o << "packetReceived" >>)
  BY <1>2, <1>3, <1>5, <1>9, ReceiveNextSafe
<1>10. CASE /\ Valid(s, r) /\ ~r.outbound /\ s.wLength = 0 /\ ~r.streamed /\ dataLength' = 0
            /\ HandleControl(TRUE, "TX_STATUS", told, << Transmit(0) >>)
  <2>1. << Transmit(0) >> \in Seq(Call)
    BY ControlAssumption DEF Transmit, Call
  <2> QED
    BY <1>1, <1>2, <1>5, <1>10, <2>1, HandleSafe
<1>11. CASE /\ Valid(s, r) /\ ~r.outbound /\ s.wLength > 0 /\ dataLength' = 0
            /\ Serve("RX_DATA", r.streamed, told, << Receive >>)
  <2>1. << Receive >> \in Seq(Call)
    BY ControlAssumption DEF Receive, Call
  <2>2. dataLength' < setup'.wLength
    BY <1>2, <1>11
  <2> QED
    BY <1>1, <1>2, <1>4, <1>5, <1>11, <2>1, <2>2, ServeSafe DEF SetupState
<1> QED
  BY <1>6, <1>7, <1>8, <1>9, <1>10, <1>11 DEF AcceptedSetup, told

-----------------------------------------------------------------------------
(* The other events.                                                       *)

LEMMA OutSafe ==
    ASSUME ControlInv, NEW length \in 0..MaxPacket, OutReceived(length)
    PROVE  ControlInv'
<1>1. /\ setup \in SetupPacket /\ setup.wLength \in Nat
      /\ dataLength \in 0..setup.wLength /\ length \in Nat
  BY ControlAssumption DEF ControlInv, TypeOK, DataStageInv, WholePackets, SetupPacket
<1>2. CASE state = "RX_STATUS" /\ CompleteRequest
  BY <1>2, CompleteSafe DEF ControlInv, ServedInv
<1>3. CASE state = "RX_DATA" /\ UNCHANGED <<setup, dataLength>> /\ AbortRequest(<< "aborted" >>)
  <2>1. << "aborted" >> \in Seq(SafeNote)
    BY DEF SafeNote, Note
  <2> QED
    BY <1>1, <1>3, <2>1, AbortSafe
<1>4. CASE /\ state = "RX_DATA" /\ UNCHANGED setup /\ dataLength + length <= setup.wLength
           /\ StreamReceiveNext(dataLength + length, setup, << "packetReceived" >>)
  <2>1. << "packetReceived" >> \in Seq(SafeNote)
    BY DEF SafeNote, Note
  <2>2. ~setup.in
    BY <1>4 DEF ControlInv, DirectionInv
  <2>3. dataLength + length \in 0..setup.wLength
    BY <1>1, <1>4
  <2> QED
    BY <1>1, <1>4, <2>1, <2>2, <2>3, ReceiveNextSafe
<1>5. CASE /\ state = "RX_DATA" /\ UNCHANGED <<setup, dataLength>>
           /\ HandleControl(handler, "TX_STATUS", << >>, << Transmit(0) >>)
  <2>1. << Transmit(0) >> \in Seq(Call)
    BY ControlAssumption DEF Transmit, Call
  <2>2. handler = TRUE /\ ~setup.in
    BY <1>5 DEF ControlInv, TypeOK, ServedInv, DirectionInv
  <2>3. HandleControl(TRUE, "TX_STATUS", << >>, << Transmit(0) >>)
    BY <1>5, <2>2
  <2>4. setup' \in SetupPacket /\ dataLength' \in 0..setup'.wLength /\ ~setup'.in
    BY <1>1, <1>5, <2>2
  <2>5. << >> \in Seq(SafeNote)
    OBVIOUS
  <2> QED
    BY <2>1, <2>3, <2>4, <2>5, HandleSafe
<1>6. CASE Ignored
  BY <1>6, IgnoredSafe
<1> QED
  BY <1>2, <1>3, <1>4, <1>5, <1>6 DEF OutReceived

LEMMA TransmitCompleteSafe ==
    ASSUME ControlInv, TransmitComplete
    PROVE  ControlInv'
<1>1. CASE state = "TX_STATUS" /\ CompleteRequest
  BY <1>1, CompleteSafe DEF ControlInv, ServedInv
<1>2. CASE /\ state = "TX_DATA" /\ state' = "RX_STATUS"
           /\ calls' = << Receive >> /\ notes' = << >>
           /\ UNCHANGED <<handler, streamer, setup, dataLength>>
  <2>1. calls' \in Seq(Call) /\ notes' \in Seq(Note) /\ notes' \in Seq(SafeNote)
    BY <1>2, ControlAssumption DEF Receive, Call
  <2> QED
    BY <1>2, <2>1 DEF ControlInv, TypeOK, ServedInv, DirectionInv, DataStageInv, WholePackets, SetupState
<1>3. CASE /\ state = "TX_MORE_DATA" /\ UNCHANGED setup
           /\ StreamerPulled(dataLength, setup, Through(streamer, "transmitComplete"))
  <2>1. Through(streamer, "transmitComplete") \in Seq(SafeNote)
    BY <1>3 DEF ControlInv, ServedInv, Through, SafeNote, Note
  <2>2. /\ setup.in /\ setup \in SetupPacket
        /\ dataLength \in 0..setup.wLength /\ Whole(dataLength)
    BY <1>3, ControlAssumption
       DEF ControlInv, TypeOK, DirectionInv, DataStageInv, WholePackets, Whole, SetupPacket
  <2> QED
    BY <1>3, <2>1, <2>2, PulledSafe
<1>4. CASE Ignored
  BY <1>4, IgnoredSafe
<1> QED
  BY <1>1, <1>2, <1>3, <1>4 DEF TransmitComplete

LEMMA ResetSafe ==
    ASSUME ControlInv, Reset
    PROVE  ControlInv'
<1>1. calls' \in Seq(Call) /\ notes' \in Seq(Note) /\ notes' \in Seq(SafeNote)
  <2>1. /\ << Receive >> \in Seq(Call) /\ << >> \in Seq(Note) /\ << >> \in Seq(SafeNote)
        /\ << "aborted" >> \in Seq(Note) /\ << "aborted" >> \in Seq(SafeNote)
    BY ControlAssumption DEF Receive, Call, SafeNote, Note
  <2> QED
    BY <2>1 DEF Reset
<1> QED
  BY <1>1 DEF ControlInv, TypeOK, ServedInv, DirectionInv, DataStageInv, WholePackets, Reset, SetupState

LEMMA StreamerSafe ==
    ASSUME ControlInv, StreamerActs
    PROVE  ControlInv'
<1>1. setup \in SetupPacket /\ setup.wLength \in Nat /\ dataLength \in 0..setup.wLength
  BY ControlAssumption DEF ControlInv, TypeOK, DataStageInv, WholePackets, SetupPacket
<1>2. ASSUME NEW n \in 0..MaxPacket, StreamerTransmits(n) PROVE ControlInv'
  <2>1. << >> \in Seq(SafeNote)
    OBVIOUS
  <2>2. Whole(dataLength)
    BY <1>2 DEF StreamerTransmits, ControlInv, WholePackets, Whole
  <2> QED
    BY <1>1, <1>2, <2>1, <2>2, TransmitSafe DEF StreamerTransmits
<1>3. CASE StreamerReceives
  <2>1. << >> \in Seq(SafeNote) /\ << Receive >> \in Seq(Call)
    BY ControlAssumption DEF Receive, Call
  <2>2. ~setup'.in /\ setup' = setup /\ dataLength' = dataLength /\ dataLength < setup.wLength
    BY <1>3 DEF StreamerReceives, ControlInv, DataStageInv
  <2>3. Serve("RX_DATA", TRUE, << >>, << Receive >>)
    BY <1>3 DEF StreamerReceives
  <2> QED
    BY <1>1, <2>1, <2>2, <2>3, ServeSafe DEF SetupState
<1>4. CASE StreamerAborts
  <2>1. << "aborted" >> \in Seq(SafeNote)
    BY DEF SafeNote, Note
  <2> QED
    BY <1>1, <1>4, <2>1, AbortSafe DEF StreamerAborts
<1> QED
  BY <1>2, <1>3, <1>4 DEF StreamerActs

-----------------------------------------------------------------------------

LEMMA ControlInit == Init => ControlInv
<1> SUFFICES ASSUME Init PROVE ControlInv
  OBVIOUS
<1>1. setup \in SetupPacket /\ setup.wLength = 0 /\ setup.in = FALSE
  BY ControlAssumption DEF Init, SetupPacket
<1>2. TypeOK
  <2>1. << >> \in Seq(Call) /\ << >> \in Seq(Note) /\ 0 \in 0..MaxTransfer
    BY ControlAssumption
  <2> QED
    BY <1>1, <2>1 DEF Init, TypeOK, SetupState
<1>3. ServedInv /\ DirectionInv
  BY DEF Init, ServedInv, DirectionInv
<1>4. DataStageInv
  BY <1>1 DEF Init, DataStageInv
<1>5. WholePackets
  BY DEF Init, WholePackets
<1> QED
  BY <1>2, <1>3, <1>4, <1>5 DEF Init, ControlInv

LEMMA ControlStep == ControlInv /\ [Next]_epVars => ControlInv'
<1> SUFFICES ASSUME ControlInv, [Next]_epVars PROVE ControlInv'
  OBVIOUS
<1>1. CASE MalformedSetup
  <2>1. setup' \in SetupPacket /\ dataLength' \in 0..setup'.wLength
    BY <1>1, ControlAssumption DEF MalformedSetup, ControlInv, TypeOK, SetupPacket
  <2> QED
    BY <1>1, <2>1, AbandonedSafe, AbortSafe DEF MalformedSetup
<1>2. ASSUME NEW s \in SetupPacket, SetupReceived(s) PROVE ControlInv'
  BY <1>2, RefusedSafe, AcceptedSafe DEF SetupReceived
<1>3. ASSUME NEW length \in 0..MaxPacket, OutReceived(length) PROVE ControlInv'
  BY <1>3, OutSafe
<1>4. CASE TransmitComplete
  BY <1>4, TransmitCompleteSafe
<1>5. CASE Reset
  BY <1>5, ResetSafe
<1>6. CASE StreamerActs
  BY <1>6, StreamerSafe
<1>7. CASE UNCHANGED epVars
  BY <1>7 DEF epVars, ControlInv, TypeOK, ServedInv, DirectionInv, DataStageInv, WholePackets
<1> QED
  BY <1>1, <1>2, <1>3, <1>4, <1>5, <1>6, <1>7 DEF Next

\* Every state of the endpoint satisfies the inductive invariant.
THEOREM ControlInvariant == Spec => []ControlInv
<1> QED
  BY ControlInit, ControlStep, PTL DEF Spec

\* The variables of ControlEndpointImpl keep their types; in particular
\* m_dataLength stays within the 16-bit range of wLength.
THEOREM ControlTypeCorrect == Spec => []TypeOK
<1>1. ControlInv => TypeOK
  BY DEF ControlInv
<1> QED
  BY <1>1, ControlInvariant, PTL

\* No handler calls through a null m_handler or m_streamer, whatever events
\* the peripheral controller reports and whenever it reports them.
THEOREM ControlNoNullDeref == Spec => []NoNullDeref
<1>1. ControlInv => NoNullDeref
  BY DEF ControlInv, NoNullDeref, SafeNote
<1> QED
  BY <1>1, ControlInvariant, PTL

\* An outbound data stage only goes on after whole packets.
THEOREM ControlWholePackets == Spec => []WholePackets
<1>1. ControlInv => WholePackets
  BY DEF ControlInv
<1> QED
  BY <1>1, ControlInvariant, PTL

\* The bytes moved always fit the stage the transfer is in.
THEOREM ControlDataStage == Spec => []DataStageInv
<1>1. ControlInv => DataStageInv
  BY DEF ControlInv
<1> QED
  BY <1>1, ControlInvariant, PTL

-----------------------------------------------------------------------------
(* The client follows the callbacks one by one.                            *)

Fold(c, told) == FoldLeft(ClientStep, c, told)

LEMMA Smallest ==
    ASSUME NEW T \in SUBSET Nat, T # {}
    PROVE  \E n \in T : \A m \in T : n <= m
<1>1. \E n \in T : \A m \in T : ~(<<m, n>> \in OpToRel(<, Nat))
  BY WFMin, NatLessThanWellFounded
<1>2. ASSUME NEW m \in Nat, NEW n \in Nat, m < n PROVE <<m, n>> \in OpToRel(<, Nat)
  BY <1>2 DEF OpToRel
<1>3. PICK n \in T : \A m \in T : ~(<<m, n>> \in OpToRel(<, Nat))
  BY <1>1
<1>4. ASSUME NEW m \in T PROVE n <= m
  <2>1. ~(m < n)
    BY <1>2, <1>3
  <2> QED
    BY <2>1
<1> QED
  BY <1>4

\* What the fold computes of each set of positions, when there is such a function.
FoldBody(c, told, f) ==
    [t \in SUBSET (DOMAIN told) |->
        IF t = {} THEN c ELSE ClientStep(f[t \ {Max(t)}], told[Max(t)])]

LEMMA GreatestOfPrefix ==
    ASSUME NEW n \in Nat, NEW t \in SUBSET (1..(n + 1)), n + 1 \in t
    PROVE  Max(t) = n + 1
<1>1. \A y \in t : n + 1 >= y
  OBVIOUS
<1>2. \A x \in t : (\A y \in t : x >= y) => x = n + 1
  OBVIOUS
<1> QED
  BY <1>1, <1>2 DEF Max

\* A function that satisfies the fold's equation exists.
LEMMA FoldExists ==
    ASSUME NEW c, NEW told, NEW n \in Nat, DOMAIN told = 1..n
    PROVE  \E f : f = FoldBody(c, told, f)
<1> DEFINE Eq(f, k) ==
        f = [t \in SUBSET (1..k) |->
                IF t = {} THEN c ELSE ClientStep(f[t \ {Max(t)}], told[Max(t)])]
           Bad == {k \in Nat : ~\E f : Eq(f, k)}
<1>1. \E f : Eq(f, 0)
  <2> DEFINE g == [t \in SUBSET (1..0) |-> c]
  <2>1. \A t \in SUBSET (1..0) : t = {}
    OBVIOUS
  <2>2. Eq(g, 0)
    BY <2>1
  <2> QED
    BY <2>2
<1>2. ASSUME NEW k \in Nat, \E f : Eq(f, k) PROVE \E f : Eq(f, k + 1)
  <2> PICK f : Eq(f, k)
    BY <1>2
  <2> DEFINE g == [t \in SUBSET (1..(k + 1)) |->
                      IF k + 1 \in t THEN ClientStep(f[t \ {k + 1}], told[k + 1]) ELSE f[t]]
  <2>1. ASSUME NEW t \in SUBSET (1..(k + 1))
        PROVE  g[t] = IF t = {} THEN c ELSE ClientStep(g[t \ {Max(t)}], told[Max(t)])
    <3>1. CASE k + 1 \in t
      <4>1. Max(t) = k + 1
        BY <3>1, GreatestOfPrefix
      <4>2. t \ {k + 1} \in SUBSET (1..(k + 1)) /\ k + 1 \notin t \ {k + 1}
        OBVIOUS
      <4>3. g[t \ {k + 1}] = f[t \ {k + 1}]
        BY <4>2
      <4>4. g[t] = ClientStep(f[t \ {k + 1}], told[k + 1])
        BY <3>1
      <4> HIDE DEF g
      <4> QED
        BY <3>1, <4>1, <4>3, <4>4
    <3>2. CASE k + 1 \notin t
      <4>1. t \in SUBSET (1..k)
        BY <3>2
      <4>2. f[t] = IF t = {} THEN c ELSE ClientStep(f[t \ {Max(t)}], told[Max(t)])
        BY <4>1, Zenon
      <4>3. g[t] = f[t]
        BY <3>2
      <4>4. g[t \ {Max(t)}] = f[t \ {Max(t)}]
        <5>1. t \ {Max(t)} \in SUBSET (1..(k + 1)) /\ k + 1 \notin t \ {Max(t)}
          BY <3>2
        <5> QED
          BY <5>1
      <4> HIDE DEF g
      <4> QED
        BY <4>2, <4>3, <4>4
    <3> QED
      BY <3>1, <3>2
  <2>2. g = [t \in SUBSET (1..(k + 1)) |-> g[t]]
    OBVIOUS
  <2>3. Eq(g, k + 1)
    <3> HIDE DEF g
    <3> QED
      BY <2>1, <2>2, Zenon
  <2> QED
    BY <2>3
<1> HIDE DEF Eq
<1>3. Bad = {}
  <2> SUFFICES ASSUME Bad # {} PROVE FALSE
    OBVIOUS
  <2>1. PICK k \in Bad : \A m \in Bad : k <= m
    BY Smallest
  <2>2. k # 0
    BY <2>1, <1>1
  <2>3. k - 1 \in Nat /\ k - 1 \notin Bad
    BY <2>1, <2>2
  <2> QED
    BY <2>1, <2>3, <1>2
<1>4. \E f : Eq(f, n)
  BY <1>3
<1> QED
  BY <1>4 DEF Eq, FoldBody

\* Runs(k, c, told): k lists where the client is after each callback of told.
Runs(k, c, told) ==
    /\ k[0] = c
    /\ \A i \in 1..Len(told) : k[i] = ClientStep(k[i - 1], told[i])

LEMMA FoldRuns ==
    ASSUME NEW S, NEW told \in Seq(S), NEW c
    PROVE  \E k : Runs(k, c, told) /\ Fold(c, told) = k[Len(told)]
<1> DEFINE n == Len(told)
<1>1. n \in Nat /\ DOMAIN told = 1..n
  OBVIOUS
<1>2. \E f : f = FoldBody(c, told, f)
  BY <1>1, FoldExists
<1> DEFINE it == CHOOSE f : f = FoldBody(c, told, f)
<1>3. it = FoldBody(c, told, it)
  BY <1>2
<1>4. Fold(c, told) = it[1..n]
  BY <1>1 DEF Fold, FoldLeft, MapThenFoldSet, FoldBody
<1> HIDE DEF it
<1> DEFINE k == [i \in 0..n |-> it[1..i]]
<1>5. \A t \in SUBSET (1..n) :
         it[t] = IF t = {} THEN c ELSE ClientStep(it[t \ {Max(t)}], told[Max(t)])
  BY <1>1, <1>3, Zenon DEF FoldBody
<1>6. k[0] = c
  <2>1. 1..0 = {} /\ {} \in SUBSET (1..n)
    OBVIOUS
  <2> QED
    BY <2>1, <1>5
<1>7. ASSUME NEW i \in 1..n PROVE k[i] = ClientStep(k[i - 1], told[i])
  <2>1. Max(1..i) = i
    <3>1. i - 1 \in Nat /\ (i - 1) + 1 = i /\ 1..i \in SUBSET (1..i) /\ i \in 1..i
      OBVIOUS
    <3> QED
      BY <3>1, GreatestOfPrefix
  <2>2. 1..i \in SUBSET (1..n) /\ 1..i # {} /\ (1..i) \ {i} = 1..(i - 1)
    <3>1. i \in Nat /\ n \in Nat /\ 1 <= i /\ i <= n
      BY <1>1
    <3> HIDE DEF n
    <3>2. 1..i \in SUBSET (1..n) /\ i \in 1..i
      BY <3>1
    <3>3. (1..i) \ {i} = 1..(i - 1)
      BY <3>1
    <3> QED
      BY <3>2, <3>3
  <2>3. it[1..i] = ClientStep(it[(1..i) \ {Max(1..i)}], told[Max(1..i)])
    BY <1>5, <2>2
  <2>4. k[i] = it[1..i] /\ k[i - 1] = it[1..(i - 1)]
    OBVIOUS
  <2> QED
    BY <2>1, <2>2, <2>3, <2>4
<1>8. Fold(c, told) = k[n]
  BY <1>1, <1>4
<1> HIDE DEF k
<1> QED
  BY <1>6, <1>7, <1>8 DEF Runs

\* Such a list is unique, as far as two sequences of callbacks agree.
LEMMA RunsUnique ==
    ASSUME NEW S, NEW a \in Seq(S), NEW b \in Seq(S), NEW c, NEW k, NEW l,
           Runs(k, c, a), Runs(l, c, b), Len(a) <= Len(b),
           \A i \in 1..Len(a) : a[i] = b[i]
    PROVE  k[Len(a)] = l[Len(a)]
<1> DEFINE Bad == {i \in 0..Len(a) : k[i] # l[i]}
<1>1. Bad = {}
  <2> SUFFICES ASSUME Bad # {} PROVE FALSE
    OBVIOUS
  <2>1. PICK i \in Bad : \A m \in Bad : i <= m
    <3>1. Bad \in SUBSET Nat
      OBVIOUS
    <3> QED
      BY <3>1, Smallest
  <2>2. i # 0
    BY <2>1 DEF Runs
  <2>3. i - 1 \in 0..Len(a) /\ i - 1 \notin Bad /\ i \in 1..Len(a) /\ i \in 1..Len(b)
    BY <2>1, <2>2
  <2>4. k[i] = ClientStep(k[i - 1], a[i]) /\ l[i] = ClientStep(l[i - 1], b[i])
    BY <2>3, Zenon DEF Runs
  <2> QED
    BY <2>1, <2>3, <2>4
<1> QED
  BY <1>1

\* No callback leaves the client where it is.
LEMMA FoldNone == ASSUME NEW c PROVE Fold(c, << >>) = c
<1>1. PICK k : Runs(k, c, << >>) /\ Fold(c, << >>) = k[Len(<< >>)]
  <2>1. << >> \in Seq(Note)
    OBVIOUS
  <2> QED
    BY <2>1, FoldRuns
<1> QED
  BY <1>1 DEF Runs

\* One callback more is one step more.
LEMMA FoldMore ==
    ASSUME NEW told \in Seq(Note), NEW n \in Note, NEW c
    PROVE  Fold(c, told \o << n >>) = ClientStep(Fold(c, told), n)
<1> DEFINE b == told \o << n >>
<1>1. b \in Seq(Note) /\ Len(b) = Len(told) + 1 /\ b[Len(told) + 1] = n
  OBVIOUS
<1>2. \A i \in 1..Len(told) : told[i] = b[i]
  OBVIOUS
<1> HIDE DEF b
<1>3. PICK k : Runs(k, c, told) /\ Fold(c, told) = k[Len(told)]
  BY FoldRuns
<1>4. PICK l : Runs(l, c, b) /\ Fold(c, b) = l[Len(b)]
  BY <1>1, FoldRuns
<1>5. k[Len(told)] = l[Len(told)]
  BY <1>1, <1>2, <1>3, <1>4, RunsUnique
<1>6. l[Len(b)] = ClientStep(l[Len(told)], n)
  <2>1. Len(b) \in 1..Len(b) /\ Len(b) - 1 = Len(told)
    BY <1>1
  <2> QED
    BY <1>1, <1>4, <2>1 DEF Runs
<1> QED
  BY <1>3, <1>4, <1>5, <1>6 DEF b

\* The first callback alone.
LEMMA FoldOne ==
    ASSUME NEW n \in Note, NEW c
    PROVE  Fold(c, << n >>) = ClientStep(c, n)
<1>1. << >> \in Seq(Note) /\ << >> \o << n >> = << n >>
  OBVIOUS
<1> QED
  BY <1>1, FoldMore, FoldNone

-----------------------------------------------------------------------------
(* Whom the stack owes a callback, from what the endpoint stores.          *)

\* A one-shot request is accepted, then handled; streamers have the direction
\* of the request; a request that is not streamed has one packet at most.
ClientInv ==
    /\ client \in {"none", "accepted", "handled", "sending", "receiving", "ended"}
    /\ client \in {"sending", "receiving"} <=> streamer
    /\ client = "none" <=> ~handler
    /\ client = "ended" => state = "IDLE"
    /\ client = "sending" => setup.in
    /\ client = "receiving" => ~setup.in
    /\ state = "RX_DATA" /\ ~streamer
         => client = "accepted" /\ setup.wLength <= MaxPacket /\ dataLength = 0
    /\ state \in {"TX_DATA", "RX_STATUS", "TX_STATUS"} /\ ~streamer => client = "handled"

LEMMA ClientMoves ==
    ASSUME ClientFollows, ~handler' \/ Fold(client, notes') # "none"
    PROVE  client' = Fold(client, notes')
BY DEF ClientFollows, Fold

LEMMA ClientStays ==
    ASSUME ClientFollows, notes' = << >>
    PROVE  client' = client
<1>1. notes' # << "aborted" >>
  OBVIOUS
<1> QED
  BY <1>1, FoldNone DEF ClientFollows, Fold

LEMMA ClientReset ==
    ASSUME ClientFollows, handler', notes' = << "aborted" >>, Fold(client, notes') = "none"
    PROVE  client' = "ended"
BY DEF ClientFollows, Fold

LEMMA ClientServed ==
    ASSUME NEW next \in SetupState, NEW isStreamed \in BOOLEAN, NEW told, NEW pcd,
           Serve(next, isStreamed, told, pcd), ClientFollows,
           Fold(client, told) \in {"accepted", "handled", "sending", "receiving"},
           Fold(client, told) \in {"sending", "receiving"} <=> isStreamed,
           Fold(client, told) = "sending" => setup'.in,
           Fold(client, told) = "receiving" => ~setup'.in,
           next = "RX_DATA" /\ ~isStreamed
             => /\ Fold(client, told) = "accepted"
                /\ setup'.wLength <= MaxPacket /\ dataLength' = 0,
           next \in {"TX_DATA", "RX_STATUS", "TX_STATUS"} /\ ~isStreamed
             => Fold(client, told) = "handled"
    PROVE  ClientInv' /\ client' = Fold(client, told)
<1>1. client' = Fold(client, told)
  BY ClientMoves DEF Serve
<1> QED
  BY <1>1 DEF ClientInv, Serve

LEMMA ClientAborted ==
    ASSUME NEW told, AbortRequest(told), ClientFollows, Fold(client, told) = "none"
    PROVE  ClientInv' /\ client' = "none"
<1>1. client' = "none"
  BY ClientMoves DEF AbortRequest
<1> QED
  BY <1>1 DEF ClientInv, AbortRequest

LEMMA ClientPulled ==
    ASSUME NEW s, s.in, NEW d, NEW told \in Seq(Note), setup' = s, StreamerPulled(d, s, told),
           ClientFollows, Fold(client, told) = "sending"
    PROVE  ClientInv'
<1>1. ASSUME NEW n \in 0..MaxPacket, TransmitPacket(n, d, s, told) PROVE ClientInv'
  <2> DEFINE pcd == << Transmit(Smaller(n, s.wLength - d)) >>
  <2>1. PICK next \in {"TX_DATA", "TX_MORE_DATA"} : Serve(next, TRUE, told, pcd)
    BY <1>1 DEF TransmitPacket
  <2> HIDE DEF pcd
  <2> QED
    BY <2>1, ClientServed DEF SetupState
<1>2. CASE Serve("WAITING", TRUE, told, << >>)
  BY <1>2, ClientServed DEF SetupState
<1>3. CASE AbortRequest(told \o << "aborted" >>)
  <2>1. Fold(client, told \o << "aborted" >>) = "none"
    BY FoldMore DEF ClientStep, Note
  <2> QED
    BY <1>3, <2>1, ClientAborted
<1> QED
  BY <1>1, <1>2, <1>3 DEF StreamerPulled

LEMMA ClientReceives ==
    ASSUME NEW s, ~s.in, NEW d, NEW told \in Seq(Note), setup' = s, StreamReceiveNext(d, s, told),
           ClientFollows, Fold(client, told) = "receiving"
    PROVE  ClientInv'
<1>1. ASSUME NEW next \in {"WAITING", "RX_DATA", "TX_STATUS"}, NEW pcd, Serve(next, TRUE, told, pcd)
      PROVE  ClientInv'
  BY <1>1, ClientServed DEF SetupState
<1>2. CASE AbortRequest(told \o << "aborted" >>)
  <2>1. Fold(client, told \o << "aborted" >>) = "none"
    BY FoldMore DEF ClientStep, Note
  <2> QED
    BY <1>2, <2>1, ClientAborted
<1> QED
  BY <1>1, <1>2 DEF StreamReceiveNext

LEMMA ClientHandles ==
    ASSUME NEW next \in {"TX_DATA", "TX_STATUS"}, NEW told \in Seq(Note), NEW pcd,
           HandleControl(TRUE, next, told, pcd), ClientFollows, Fold(client, told) = "accepted"
    PROVE  ClientInv'
<1> DEFINE asked == told \o << "handleControl" >>
<1>1. asked \in Seq(Note) /\ Fold(client, asked) = "handled"
  BY FoldMore DEF ClientStep, Note
<1>2. Fold(client, asked \o << "failed" >>) = "none"
  <2> HIDE DEF asked
  <2> QED
    BY <1>1, FoldMore DEF ClientStep, Note
<1>3. Serve(next, FALSE, asked, pcd) \/ AbortRequest(asked \o << "failed" >>)
  BY DEF HandleControl, Through
<1> HIDE DEF asked
<1>4. CASE Serve(next, FALSE, asked, pcd)
  BY <1>1, <1>4, ClientServed DEF SetupState
<1>5. CASE AbortRequest(asked \o << "failed" >>)
  BY <1>2, <1>5, ClientAborted
<1> QED
  BY <1>3, <1>4, <1>5

\* Before a new request is looked at, whoever is owed a callback gets it.
LEMMA ClientAbandoned ==
    ASSUME ControlInv, ClientInv
    PROVE  Abandoned \in Seq(Note) /\ Fold(client, Abandoned) = "none"
<1>1. Abandoned \in Seq(Note)
  <2>1. << "aborted" >> \in Seq(Note) /\ << "failed" >> \in Seq(Note) /\ << >> \in Seq(Note)
    BY DEF Note
  <2> QED
    BY <2>1 DEF Abandoned
<1>2. CASE streamer
  <2>1. Fold(client, << "aborted" >>) = ClientStep(client, "aborted")
    BY FoldOne DEF Note
  <2>2. client \in {"sending", "receiving"}
    BY <1>2 DEF ClientInv
  <2> QED
    BY <1>1, <1>2, <2>1, <2>2 DEF Abandoned, ClientStep
<1>3. CASE ~streamer /\ handler
  <2>1. Fold(client, << "failed" >>) = ClientStep(client, "failed")
    BY FoldOne DEF Note
  <2>2. client \in {"accepted", "handled", "ended"}
    BY <1>3 DEF ClientInv
  <2> QED
    BY <1>1, <1>3, <2>1, <2>2 DEF Abandoned, ClientStep
<1>4. CASE ~streamer /\ ~handler
  BY <1>1, <1>4, FoldNone DEF Abandoned, ClientInv
<1> QED
  BY <1>2, <1>3, <1>4

LEMMA ClientCompleted ==
    ASSUME ControlInv, ClientInv, CompleteRequest, ClientFollows,
           state \in {"RX_STATUS", "TX_STATUS"}
    PROVE  ClientInv' /\ client' = "none"
<1>1. client' = "none"
  <2>1. CASE streamer
    <3>1. Fold(client, << "completed" >>) = ClientStep(client, "completed")
      BY FoldOne DEF Note
    <3> QED
      BY <2>1, <3>1, ClientMoves DEF CompleteRequest, ClientInv, ClientStep
  <2>2. CASE ~streamer
    <3>1. Fold(client, << "succeeded" >>) = ClientStep(client, "succeeded")
      BY FoldOne DEF Note
    <3>2. handler
      BY DEF ControlInv, ServedInv
    <3>3. client = "handled"
      BY <2>2 DEF ClientInv
    <3>4. notes' = << "succeeded" >>
      BY <2>2, <3>2 DEF CompleteRequest, Through
    <3> QED
      BY <3>1, <3>3, <3>4, ClientMoves DEF ClientStep, CompleteRequest
  <2> QED
    BY <2>1, <2>2
<1> QED
  BY <1>1 DEF CompleteRequest, ClientInv

LEMMA ClientIgnores ==
    ASSUME ClientInv, Ignored, ClientFollows
    PROVE  ClientInv' /\ client' = client
<1>1. client' = client
  BY ClientStays DEF Ignored
<1> QED
  BY <1>1 DEF ClientInv, Ignored

LEMMA ClientAccepted ==
    ASSUME ControlInv, ClientInv, NEW s \in SetupPacket, NEW r \in ControlRequest,
           AcceptedSetup(s, r), ClientFollows
    PROVE  ClientInv'
<1> DEFINE told == Abandoned \o << Acceptance(r) >>
<1>1. /\ told \in Seq(Note)
      /\ Fold(client, told) = IF ~r.streamed THEN "accepted"
                              ELSE IF r.outbound THEN "sending" ELSE "receiving"
  <2>1. Acceptance(r) \in {"oneShot", "sending", "receiving"} /\ Acceptance(r) \in Note
    BY DEF Acceptance, Note
  <2>2. Fold(client, told) = ClientStep("none", Acceptance(r))
    BY <2>1, ClientAbandoned, FoldMore
  <2> QED
    BY <2>1, <2>2, ClientAbandoned DEF ClientStep, Acceptance
<1>2. r.outbound \in BOOLEAN /\ r.streamed \in BOOLEAN /\ setup' = s
  BY DEF ControlRequest, AcceptedSetup
<1>3. Valid(s, r) => s.in = r.outbound /\ (r.streamed \/ s.wLength <= MaxPacket)
  BY DEF Valid
<1> HIDE DEF told
<1>6. CASE /\ ~Valid(s, r)
           /\ AbortRequest(told \o << IF r.streamed THEN "aborted" ELSE "failed" >>)
  <2>1. Fold(client, told \o << IF r.streamed THEN "aborted" ELSE "failed" >>) = "none"
    BY <1>1, <1>2, FoldMore DEF ClientStep, Note
  <2> QED
    BY <1>6, <2>1, ClientAborted
<1>7. CASE /\ Valid(s, r) /\ r.outbound /\ r.streamed
           /\ StreamerPulled(0, s, told \o << "transmitComplete" >>)
  <2>1. /\ told \o << "transmitComplete" >> \in Seq(Note)
        /\ Fold(client, told \o << "transmitComplete" >>) = "sending"
    BY <1>1, <1>7, FoldMore DEF ClientStep, Note
  <2> QED
    BY <1>2, <1>3, <1>7, <2>1, ClientPulled
<1>8. ASSUME Valid(s, r), ~r.streamed, NEW next \in {"TX_DATA", "TX_STATUS"}, NEW pcd,
             HandleControl(TRUE, next, told, pcd)
      PROVE  ClientInv'
  BY <1>1, <1>8, ClientHandles
<1>9. CASE /\ Valid(s, r) /\ ~r.outbound /\ r.streamed
           /\ StreamReceiveNext(0, s, told \o << "packetReceived" >>)
  <2>1. /\ told \o << "packetReceived" >> \in Seq(Note)
        /\ Fold(client, told \o << "packetReceived" >>) = "receiving"
    BY <1>1, <1>9, FoldMore DEF ClientStep, Note
  <2> QED
    BY <1>2, <1>3, <1>9, <2>1, ClientReceives
<1>11. CASE /\ Valid(s, r) /\ ~r.outbound /\ dataLength' = 0
            /\ Serve("RX_DATA", r.streamed, told, << Receive >>)
  <2>1. "RX_DATA" \in SetupState
    BY DEF SetupState
  <2>2. Fold(client, told) = IF r.streamed THEN "receiving" ELSE "accepted"
    BY <1>1, <1>11
  <2> QED
    BY <1>2, <1>3, <1>11, <2>1, <2>2, ClientServed
<1> QED
  BY <1>6, <1>7, <1>8, <1>9, <1>11 DEF AcceptedSetup, told

LEMMA ClientSetUp ==
    ASSUME ControlInv, ClientInv, NEW s \in SetupPacket, SetupReceived(s), ClientFollows
    PROVE  ClientInv'
<1>1. ASSUME NEW resolved \in BOOLEAN, RefusedSetup(s, resolved) PROVE ClientInv'
  <2> DEFINE told == Abandoned \o (IF resolved THEN << "refused", "failed" >> ELSE << >>)
  <2>1. Fold(client, told) = "none"
    <3>1. CASE resolved
      <4> DEFINE asked == Abandoned \o << "refused" >>
      <4>1. asked \in Seq(Note) /\ Fold(client, asked) = "refused"
        BY ClientAbandoned, FoldMore DEF ClientStep, Note
      <4>2. told = asked \o << "failed" >>
        BY <3>1, ClientAbandoned
      <4> HIDE DEF asked, told
      <4> QED
        BY <4>1, <4>2, FoldMore DEF ClientStep, Note
    <3>2. CASE ~resolved
      <4>1. told = Abandoned
        BY <3>2, ClientAbandoned
      <4> QED
        BY <4>1, ClientAbandoned
    <3> QED
      BY <3>1, <3>2
  <2> QED
    BY <1>1, <2>1, ClientAborted DEF RefusedSetup
<1> QED
  BY <1>1, ClientAccepted DEF SetupReceived

LEMMA ClientTold ==
    ASSUME ControlInv, ClientInv, [Next /\ ClientFollows]_<<epVars, client>>
    PROVE  ClientInv'
<1>1. CASE MalformedSetup /\ ClientFollows
  BY <1>1, ClientAbandoned, ClientAborted DEF MalformedSetup
<1>2. ASSUME NEW s \in SetupPacket, SetupReceived(s), ClientFollows PROVE ClientInv'
  BY <1>2, ClientSetUp
<1>3. ASSUME NEW length \in 0..MaxPacket, OutReceived(length), ClientFollows PROVE ClientInv'
  <2>1. CASE state = "RX_STATUS" /\ CompleteRequest
    BY <1>3, <2>1, ClientCompleted
  <2>2. CASE state = "RX_DATA" /\ streamer /\ AbortRequest(<< "aborted" >>)
    <3>1. Fold(client, << "aborted" >>) = ClientStep(client, "aborted")
      BY FoldOne DEF Note
    <3> QED
      BY <1>3, <2>2, <3>1, ClientAborted DEF ClientInv, ClientStep
  <2>3. CASE /\ state = "RX_DATA" /\ streamer /\ UNCHANGED setup
             /\ StreamReceiveNext(dataLength + length, setup, << "packetReceived" >>)
    <3>1. Fold(client, << "packetReceived" >>) = ClientStep(client, "packetReceived")
      BY FoldOne DEF Note
    <3>2. ~setup.in /\ client = "receiving"
      BY <2>3 DEF ControlInv, DirectionInv, ClientInv
    <3>3. << "packetReceived" >> \in Seq(Note)
      BY DEF Note
    <3> QED
      BY <1>3, <2>3, <3>1, <3>2, <3>3, ClientReceives DEF ClientStep
  <2>4. CASE /\ state = "RX_DATA" /\ ~streamer
             /\ HandleControl(handler, "TX_STATUS", << >>, << Transmit(0) >>)
    <3>1. handler = TRUE /\ client = "accepted"
      BY <2>4 DEF ControlInv, TypeOK, ServedInv, ClientInv
    <3>2. HandleControl(TRUE, "TX_STATUS", << >>, << Transmit(0) >>)
      BY <2>4, <3>1
    <3>3. << >> \in Seq(Note)
      OBVIOUS
    <3> QED
      BY <1>3, <3>1, <3>2, <3>3, FoldNone, ClientHandles
  <2>5. CASE Ignored
    BY <1>3, <2>5, ClientIgnores
  <2> QED
    BY <1>3, <2>1, <2>2, <2>3, <2>4, <2>5 DEF OutReceived
<1>4. CASE TransmitComplete /\ ClientFollows
  <2>1. CASE state = "TX_STATUS" /\ CompleteRequest
    BY <1>4, <2>1, ClientCompleted
  <2>2. CASE /\ state = "TX_DATA" /\ state' = "RX_STATUS" /\ notes' = << >>
             /\ UNCHANGED <<handler, streamer, setup, dataLength>>
    <3>1. client' = client
      BY <1>4, <2>2, ClientStays
    <3> QED
      BY <2>2, <3>1 DEF ClientInv
  <2>3. CASE /\ state = "TX_MORE_DATA" /\ UNCHANGED setup
             /\ StreamerPulled(dataLength, setup, Through(streamer, "transmitComplete"))
    <3>1. streamer /\ setup.in
      BY <2>3 DEF ControlInv, ServedInv, DirectionInv
    <3>2. client = "sending"
      BY <3>1 DEF ClientInv
    <3>3. Through(streamer, "transmitComplete") = << "transmitComplete" >>
      BY <3>1 DEF Through
    <3>4. Fold(client, << "transmitComplete" >>) = "sending"
      BY <3>2, FoldOne DEF Note, ClientStep
    <3>5. << "transmitComplete" >> \in Seq(Note)
      BY DEF Note
    <3> QED
      BY <1>4, <2>3, <3>1, <3>3, <3>4, <3>5, ClientPulled
  <2>4. CASE Ignored
    BY <1>4, <2>4, ClientIgnores
  <2> QED
    BY <1>4, <2>1, <2>2, <2>3, <2>4 DEF TransmitComplete
<1>5. CASE Reset /\ ClientFollows
  <2>1. CASE streamer
    <3>1. Fold(client, << "aborted" >>) = ClientStep(client, "aborted")
      BY FoldOne DEF Note
    <3>2. handler
      BY <2>1 DEF ControlInv, ServedInv
    <3>3. client' = "ended"
      BY <1>5, <2>1, <3>1, <3>2, ClientReset DEF Reset, ClientInv, ClientStep
    <3> QED
      BY <1>5, <3>2, <3>3 DEF ClientInv, Reset
  <2>2. CASE ~streamer
    <3>1. client' = client
      BY <1>5, <2>2, ClientStays DEF Reset
    <3> QED
      BY <1>5, <2>2, <3>1 DEF ClientInv, Reset
  <2> QED
    BY <2>1, <2>2
<1>6. CASE StreamerActs /\ ClientFollows
  <2>1. << >> \in Seq(Note) /\ Fold(client, << >>) = client
    BY FoldNone
  <2>2. ASSUME NEW n \in 0..MaxPacket, StreamerTransmits(n) PROVE ClientInv'
    <3>1. client = "sending" /\ setup.in /\ setup' = setup
      BY <2>2 DEF StreamerTransmits, ClientInv
    <3>2. StreamerPulled(dataLength, setup, << >>)
      BY <2>2 DEF StreamerTransmits, StreamerPulled
    <3> QED
      BY <1>6, <2>1, <3>1, <3>2, ClientPulled
  <2>3. CASE StreamerReceives
    <3>1. client = "receiving" /\ ~setup.in /\ setup' = setup
      BY <2>3 DEF StreamerReceives, ClientInv
    <3>2. Serve("RX_DATA", TRUE, << >>, << Receive >>)
      BY <2>3 DEF StreamerReceives
    <3> QED
      BY <1>6, <2>1, <3>1, <3>2, ClientServed DEF SetupState
  <2>4. CASE StreamerAborts
    <3>1. Fold(client, << "aborted" >>) = ClientStep(client, "aborted")
      BY FoldOne DEF Note
    <3> QED
      BY <1>6, <2>4, <3>1, ClientAborted DEF StreamerAborts, ClientInv, ClientStep
  <2> QED
    BY <1>6, <2>2, <2>3, <2>4 DEF StreamerActs
<1>7. CASE UNCHANGED <<epVars, client>>
  BY <1>7 DEF epVars, ClientInv
<1> QED
  BY <1>1, <1>2, <1>3, <1>4, <1>5, <1>6, <1>7 DEF Next

LEMMA ClientStarts == Init /\ ClientInit => ClientInv
BY DEF Init, ClientInit, ClientInv

LEMMA ClientRemembered == ClientInv => ClientContract /\ NobodyForgotten
BY DEF ClientInv, ClientContract, NobodyForgotten

LEMMA ClientInvariant == ClientSpec => [](ControlInv /\ ClientInv)
<1>1. Init /\ ClientInit => ControlInv /\ ClientInv
  BY ControlInit, ClientStarts
<1>2. ControlInv /\ ClientInv /\ [Next /\ ClientFollows]_<<epVars, client>>
        => ControlInv' /\ ClientInv'
  <2>1. [Next /\ ClientFollows]_<<epVars, client>> => [Next]_epVars
    BY DEF epVars
  <2> QED
    BY <2>1, ControlStep, ClientTold
<1> QED
  BY <1>1, <1>2, PTL DEF ClientSpec

\* Whatever the peripheral controller reports, and whenever it does: handlers
\* and streamers are called in the order of control.hpp:80-163, and a request
\* that is accepted is ended before the next is looked at.  It is ended by one
\* call, except that the handler of a streamed request that a bus reset cut off
\* gets completeControl(.., false) after its streamer got aborted().
THEOREM ClientContractKept == ClientSpec => []ClientContract
BY ClientRemembered, ClientInvariant, PTL

\* The final callback a client waits for is never lost by the endpoint.
THEOREM ClientNeverForgotten == ClientSpec => []NobodyForgotten
BY ClientRemembered, ClientInvariant, PTL
=============================================================================
