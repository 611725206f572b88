------------------------ MODULE ControlTransfers_proof ------------------------
(***************************************************************************)
(* Control transfers against a host, and the standard requests among them. *)
(* Host and device agree on every transfer, for every packet size and      *)
(* every wLength; the standard handler does nothing the endpoint does not  *)
(* expect of a handler, and the host gets the right bytes, for every       *)
(* descriptor, serial number and order of events.                          *)
(***************************************************************************)
EXTENDS ControlBus, StandardReplies, ControlEndpoint_proof, SequenceTheorems

-----------------------------------------------------------------------------
(* ControlBus: what the endpoint's state says of the host's stage, with    *)
(* and without an event the stack has not pulled yet.                      *)

EventType == [t : {"reset", "setup", "badSetup", "out", "tx"},
              setup : SetupPacket, len : 0..MaxPacket, fin : BOOLEAN]
Stages == {"idle", "dataIn", "dataOut", "statusIn", "statusOut"}

BusTypeOK ==
    /\ rx \in {"nak", "valid", "stall"}
    /\ tx \in [status : {"nak", "valid", "stall"}, len : 0..MaxPacket]
    /\ events \in Seq(EventType)
    /\ host \in [stage : Stages, moved : Nat, req : SetupPacket]

Moved(n) == streamer => n = dataLength

\* No event is pending.
InStep ==
    /\ tx.status = "valid" <=> state \in {"TX_MORE_DATA", "TX_DATA", "TX_STATUS"}
    /\ rx = "stall" \/ tx.status = "stall"
         => rx = "stall" /\ tx.status = "stall" /\ state = "IDLE" /\ client = "none"
    /\ state = "IDLE" /\ rx # "stall" => host.stage = "idle"
    /\ state # "IDLE" => host.req = setup
    /\ state = "RX_DATA" =>
          rx = "valid" /\ host.stage = "dataOut" /\ host.moved = dataLength
    /\ state = "TX_MORE_DATA" =>
          host.stage = "dataIn" /\ tx.len = MaxPacket /\ host.moved + tx.len = dataLength
    /\ state = "TX_DATA" /\ ~ZeroLengthIn =>
          /\ host.stage = "dataIn"
          /\ tx.len < MaxPacket \/ host.moved + tx.len = setup.wLength
          /\ Moved(host.moved + tx.len)
    /\ state = "RX_STATUS" /\ ~ZeroLengthIn => host.stage = "statusOut" /\ Moved(host.moved)
    /\ state = "TX_STATUS" => host.stage = "statusIn" /\ Moved(host.moved)
    /\ state = "WAITING" /\ ~ZeroLengthIn =>
          /\ host.moved = dataLength /\ dataLength < setup.wLength
          /\ IF setup.in THEN host.stage = "dataIn" ELSE host.stage = "dataOut" /\ rx = "nak"
    /\ ZeroLengthIn /\ state \in {"TX_DATA", "WAITING"} => host.stage = "statusIn"
    /\ ZeroLengthIn /\ state = "RX_STATUS" => host.stage = "idle"

SetupPending(e) ==
    /\ e.t \in {"setup", "badSetup"} /\ ~e.fin
    /\ IF e.t = "setup"
       THEN host = [stage |-> FirstStage(e.setup), moved |-> 0, req |-> e.setup]
       ELSE host.stage = "idle"

TxPending ==
    IF events[1].fin
    THEN /\ state = "TX_STATUS" \/ (state = "TX_DATA" /\ ZeroLengthIn)
         /\ IF Len(events) = 1
            THEN /\ host.stage = "idle" /\ host.req = setup
                 /\ state = "TX_STATUS" => Moved(host.moved)
            ELSE SetupPending(events[2])
    ELSE /\ state \in {"TX_MORE_DATA", "TX_DATA"} /\ ~ZeroLengthIn
         /\ host.req = setup /\ Moved(host.moved)
         /\ IF Len(events) = 1
            THEN host.stage = IF state = "TX_DATA" THEN "statusOut" ELSE "dataIn"
            ELSE /\ state = "TX_DATA" /\ host.stage = "idle"
                 /\ events[2].t = "out" /\ events[2].fin

OutPending ==
    /\ host.req = setup
    /\ IF events[1].fin
       THEN state = "RX_STATUS" /\ host.stage = "idle" /\ ~ZeroLengthIn /\ Moved(host.moved)
       ELSE /\ state = "RX_DATA" /\ rx = "nak"
            /\ events[1].len = Smaller(MaxPacket, setup.wLength - dataLength)
            /\ host.moved = dataLength + events[1].len
            /\ host.stage = IF host.moved = setup.wLength THEN "statusIn" ELSE "dataOut"

Pending ==
    /\ Len(events) \in {1, 2} /\ tx.status = "nak" /\ rx # "stall"
    /\ events[1].t # "tx" => Len(events) = 1
    /\ CASE events[1].t = "tx"    -> TxPending
         [] events[1].t = "out"   -> OutPending
         [] events[1].t = "reset" -> host.stage = "idle" /\ ~events[1].fin
         [] OTHER                 -> SetupPending(events[1])

BInv ==
    /\ overwritten = FALSE
    /\ IF events = << >> THEN InStep ELSE Pending

BusInv == ControlInv /\ ClientInv /\ BusTypeOK /\ BInv

\* What a handler leaves when no event is pending after it.
Settled ==
    /\ InStep /\ overwritten = FALSE
    /\ rx \in {"nak", "valid", "stall"}
    /\ tx \in [status : {"nak", "valid", "stall"}, len : 0..MaxPacket]

HostType == [stage : Stages, moved : Nat, req : SetupPacket]

LEMMA SmallerFacts ==
    ASSUME NEW a \in Nat, NEW b \in Nat
    PROVE  /\ Smaller(a, b) \in Nat /\ Smaller(a, b) <= a /\ Smaller(a, b) <= b
           /\ Smaller(a, b) \in {a, b}
BY DEF Smaller

-----------------------------------------------------------------------------
(* What the controller makes of the calls of a handler.                    *)

LEMMA CommandNone ==
    ASSUME Command, calls' = << >>
    PROVE  rx' = rx /\ tx' = tx /\ overwritten' = overwritten
BY DEF Command, Made

LEMMA CommandReceive ==
    ASSUME Command, calls' = << Receive >>
    PROVE  rx' = "valid" /\ tx' = tx /\ overwritten' = overwritten
BY DEF Command, Made, Receive

LEMMA CommandTransmit ==
    ASSUME Command, NEW n, calls' = << Transmit(n) >>
    PROVE  /\ rx' = rx /\ tx' = [status |-> "valid", len |-> n]
           /\ overwritten' = (overwritten \/ tx.status = "valid")
BY DEF Command, Made, Transmit

LEMMA CommandBoth ==
    ASSUME Command, NEW n, calls' = << Receive, Transmit(n) >>
    PROVE  /\ rx' = "valid" /\ tx' = [status |-> "valid", len |-> n]
           /\ overwritten' = (overwritten \/ tx.status = "valid")
BY DEF Command, Made, Transmit, Receive

LEMMA CommandStall ==
    ASSUME Command, calls' = Stall
    PROVE  /\ rx' = "stall" /\ tx' = [status |-> "stall", len |-> 0]
           /\ overwritten' = overwritten
BY DEF Command, Made, Stall

-----------------------------------------------------------------------------
(* What the ways a handler ends leave host and controller with.            *)

LEMMA AbortedSettled ==
    ASSUME NEW told, AbortRequest(told), Command, ClientInv', overwritten = FALSE
    PROVE  Settled'
<1>1. calls' = Stall /\ state' = "IDLE" /\ client' = "none"
  BY DEF AbortRequest, ClientInv
<1>2. /\ rx' = "stall" /\ tx' = [status |-> "stall", len |-> 0]
      /\ overwritten' = overwritten
  BY <1>1, CommandStall
<1>3. 0 \in 0..MaxPacket
  BY ControlAssumption
<1> QED
  BY <1>1, <1>2, <1>3 DEF Settled, InStep

\* The host waits for what an outbound streamer has next.
LEMMA PulledSettled ==
    ASSUME NEW s \in SetupPacket, s.in, NEW d \in 0..s.wLength, NEW told, setup' = s,
           StreamerPulled(d, s, told), Command, ClientInv', overwritten = FALSE,
           tx.status = "nak", tx \in [status : {"nak", "valid", "stall"}, len : 0..MaxPacket],
           rx \in {"nak", "valid"},
           host' = host, host \in HostType, host.req = s,
           IF s.wLength = 0 THEN host.stage = "statusIn"
           ELSE host.stage = "dataIn" /\ host.moved = d /\ d < s.wLength
    PROVE  Settled'
<1>1. s.wLength \in Nat /\ d \in Nat /\ d <= s.wLength /\ (s.wLength = 0 => d = 0)
  BY ControlAssumption DEF SetupPacket
<1>2. ASSUME NEW n \in 0..MaxPacket, TransmitPacket(n, d, s, told) PROVE Settled'
  <2> DEFINE len == Smaller(n, s.wLength - d)
  <2>1. len \in 0..MaxPacket /\ len <= s.wLength - d
    <3>1. s.wLength - d \in Nat /\ n \in Nat /\ n <= MaxPacket
      BY <1>1, ControlAssumption
    <3>2. len \in Nat /\ len <= n /\ len <= s.wLength - d
      BY <3>1, SmallerFacts
    <3> HIDE DEF len
    <3> QED
      BY <3>1, <3>2, ControlAssumption
  <2>2. /\ calls' = << Transmit(len) >> /\ streamer' = TRUE /\ dataLength' = d + len
        /\ state' = IF d + len = s.wLength \/ len < MaxPacket THEN "TX_DATA" ELSE "TX_MORE_DATA"
    BY <1>2 DEF TransmitPacket, Serve
  <2> HIDE DEF len
  <2>3. /\ rx' = rx /\ tx' = [status |-> "valid", len |-> len]
        /\ overwritten' = FALSE
    BY <2>2, CommandTransmit
  <2>4. ZeroLengthIn' <=> s.wLength = 0
    BY DEF ZeroLengthIn
  <2>5. CASE s.wLength = 0
    <3>1. len = 0 /\ state' = "TX_DATA"
      BY <1>1, <2>1, <2>2, <2>5
    <3> QED
      BY <2>1, <2>3, <2>4, <2>5, <3>1 DEF Settled, InStep
  <2>6. CASE s.wLength # 0
    <3>1. state' = "TX_MORE_DATA" => len = MaxPacket
      BY <2>1, <2>2, ControlAssumption
    <3>2. state' = "TX_DATA" => len < MaxPacket \/ d + len = s.wLength
      BY <2>2
    <3>3. state' \in {"TX_DATA", "TX_MORE_DATA"} /\ host'.moved = d /\ tx'.len = len
      BY <2>2, <2>3, <2>6
    <3> QED
      BY <2>1, <2>2, <2>3, <2>4, <2>6, <3>1, <3>2, <3>3 DEF Settled, InStep, Moved
  <2> QED
    BY <2>5, <2>6
<1>3. CASE Serve("WAITING", TRUE, told, << >>) /\ dataLength' = d
  <2>1. calls' = << >> /\ state' = "WAITING"
    BY <1>3 DEF Serve
  <2>2. rx' = rx /\ tx' = tx /\ overwritten' = FALSE
    BY <2>1, CommandNone
  <2>3. ZeroLengthIn' <=> s.wLength = 0
    BY DEF ZeroLengthIn
  <2> QED
    BY <1>3, <2>1, <2>2, <2>3 DEF Settled, InStep
<1>4. CASE AbortRequest(told \o << "aborted" >>)
  BY <1>4, AbortedSettled
<1> QED
  BY <1>2, <1>3, <1>4 DEF StreamerPulled

\* The host has sent d bytes to an inbound streamer.
LEMMA ReceivedSettled ==
    ASSUME NEW s \in SetupPacket, ~s.in, NEW d \in 0..s.wLength, NEW told, setup' = s,
           StreamReceiveNext(d, s, told), Command, ClientInv', overwritten = FALSE,
           tx.status = "nak", tx \in [status : {"nak", "valid", "stall"}, len : 0..MaxPacket],
           rx \in {"nak", "valid"}, d < s.wLength => rx = "nak",
           host' = host, host \in HostType, host.req = s, host.moved = d,
           host.stage = IF d = s.wLength THEN "statusIn" ELSE "dataOut"
    PROVE  Settled'
<1>1. s.wLength \in Nat /\ d \in Nat /\ d <= s.wLength /\ dataLength' = d
  BY ControlAssumption DEF SetupPacket, StreamReceiveNext
<1>2. ~ZeroLengthIn'
  BY DEF ZeroLengthIn
<1>3. CASE d < s.wLength /\ Serve("WAITING", TRUE, told, << >>)
  <2>1. calls' = << >> /\ state' = "WAITING"
    BY <1>3 DEF Serve
  <2>2. rx' = rx /\ tx' = tx /\ overwritten' = FALSE
    BY <2>1, CommandNone
  <2> QED
    BY <1>1, <1>2, <1>3, <2>1, <2>2 DEF Settled, InStep
<1>4. CASE d < s.wLength /\ Serve("RX_DATA", TRUE, told, << Receive >>)
  <2>1. calls' = << Receive >> /\ state' = "RX_DATA"
    BY <1>4 DEF Serve
  <2>2. rx' = "valid" /\ tx' = tx /\ overwritten' = FALSE
    BY <2>1, CommandReceive
  <2> QED
    BY <1>1, <1>2, <1>4, <2>1, <2>2 DEF Settled, InStep
<1>5. ASSUME d >= s.wLength, NEW pcd \in {<< Transmit(0) >>, << Receive, Transmit(0) >>},
             Serve("TX_STATUS", TRUE, told, pcd)
      PROVE  Settled'
  <2>1. calls' = pcd /\ state' = "TX_STATUS" /\ d = s.wLength
    BY <1>1, <1>5 DEF Serve
  <2>2. /\ rx' \in {"nak", "valid"} /\ tx' = [status |-> "valid", len |-> 0]
        /\ overwritten' = FALSE
    BY <2>1, CommandTransmit, CommandBoth
  <2>3. 0 \in 0..MaxPacket
    BY ControlAssumption
  <2> QED
    BY <1>1, <1>2, <1>5, <2>1, <2>2, <2>3 DEF Settled, InStep, Moved
<1>6. CASE AbortRequest(told \o << "aborted" >>)
  BY <1>6, AbortedSettled
<1> QED
  BY <1>3, <1>4, <1>5, <1>6 DEF StreamReceiveNext

\* A one-shot request is handled, and the host waits for its last packet.
LEMMA HandledSettled ==
    ASSUME NEW s \in SetupPacket, setup' = s, NEW told, NEW next, NEW n \in 0..MaxPacket,
           IF s.in THEN next = "TX_DATA" /\ s.wLength <= MaxPacket
           ELSE next = "TX_STATUS" /\ n = 0,
           HandleControl(TRUE, next, told, << Transmit(Smaller(n, s.wLength)) >>),
           Command, ClientInv', overwritten = FALSE,
           tx.status = "nak", tx \in [status : {"nak", "valid", "stall"}, len : 0..MaxPacket],
           rx \in {"nak", "valid"},
           host' = host, host \in HostType, host.req = s,
           IF s.in /\ s.wLength > 0 THEN host.stage = "dataIn" /\ host.moved = 0
           ELSE host.stage = "statusIn"
    PROVE  Settled'
<1> DEFINE wanted == told \o Through(TRUE, "handleControl")
           len   == Smaller(n, s.wLength)
<1>1. s.wLength \in Nat /\ len \in 0..MaxPacket /\ len \in Nat
  BY ControlAssumption DEF SetupPacket, Smaller
<1>2. s.in => len < MaxPacket \/ len = s.wLength
  BY ControlAssumption DEF SetupPacket, Smaller
<1>3. ZeroLengthIn' <=> s.in /\ s.wLength = 0
  BY DEF ZeroLengthIn
<1>4. Serve(next, FALSE, wanted, << Transmit(len) >>) \/ AbortRequest(wanted \o << "failed" >>)
  BY DEF HandleControl
<1> HIDE DEF len, wanted
<1>5. CASE Serve(next, FALSE, wanted, << Transmit(len) >>)
  <2>1. calls' = << Transmit(len) >> /\ state' = next /\ streamer' = FALSE
    BY <1>5 DEF Serve
  <2>2. rx' = rx /\ tx' = [status |-> "valid", len |-> len] /\ overwritten' = FALSE
    BY <2>1, CommandTransmit
  <2>3. CASE s.in
    BY <1>1, <1>2, <1>3, <2>1, <2>2, <2>3 DEF Settled, InStep, Moved
  <2>4. CASE ~s.in
    BY <1>1, <1>3, <2>1, <2>2, <2>4 DEF Settled, InStep, Moved
  <2> QED
    BY <2>3, <2>4 DEF SetupPacket
<1>6. CASE AbortRequest(wanted \o << "failed" >>)
  BY <1>6, AbortedSettled
<1> QED
  BY <1>4, <1>5, <1>6

-----------------------------------------------------------------------------
(* Pulling an event.                                                       *)

LEMMA QueueFacts ==
    ASSUME BusTypeOK, events # << >>, Len(events) \in {1, 2}
    PROVE  /\ Head(events) = events[1] /\ events[1] \in EventType
           /\ Tail(events) \in Seq(EventType)
           /\ Len(events) = 1 => Tail(events) = << >>
           /\ Len(events) = 2 => /\ Tail(events) # << >> /\ Len(Tail(events)) = 1
                                 /\ Tail(events)[1] = events[2] /\ events[2] \in EventType
<1>1. events \in Seq(EventType) /\ Head(events) = events[1] /\ events[1] \in EventType
  BY DEF BusTypeOK
<1>2. Tail(events) \in Seq(EventType) /\ Len(Tail(events)) = Len(events) - 1
  BY <1>1
<1>3. Len(events) = 1 => Tail(events) = << >>
  <2> DEFINE rest == Tail(events)
  <2> SUFFICES ASSUME Len(events) = 1, rest # << >> PROVE FALSE
    OBVIOUS
  <2>1. rest \in Seq(EventType) /\ Len(rest) = 0
    BY <1>2
  <2> HIDE DEF rest
  <2>2. Len(rest) \in Nat \ {0}
    BY <2>1, EmptySeq
  <2> QED
    BY <2>1, <2>2
<1>4. ASSUME Len(events) = 2
      PROVE  Tail(events) # << >> /\ Tail(events)[1] = events[2] /\ events[2] \in EventType
  <2> DEFINE rest == Tail(events)
  <2>1. \A i \in 1..Len(rest) : rest[i] = events[i + 1]
    BY <1>1, HeadTailProperties
  <2>2. \A i \in 1..Len(events) : events[i] \in EventType
    BY <1>1, ElementOfSeq
  <2>3. Len(rest) = 1
    BY <1>2, <1>4
  <2> HIDE DEF rest
  <2>4. rest[1] = events[2]
    BY <2>1, <2>3
  <2>5. events[2] \in EventType
    BY <1>4, <2>2
  <2>6. rest # << >>
    BY <2>3
  <2> QED
    BY <2>4, <2>5, <2>6 DEF rest
<1> QED
  BY <1>1, <1>2, <1>3, <1>4

LEMMA SettledBus ==
    ASSUME Settled', events' = << >>, host' = host, BusTypeOK
    PROVE  BusTypeOK' /\ BInv'
<1>1. << >> \in Seq(EventType)
  OBVIOUS
<1> QED
  BY <1>1 DEF Settled, BusTypeOK, BInv

\* What is known of an event in the queue when it is pulled.
LEMMA PulledFacts ==
    ASSUME BusInv, events # << >>
    PROVE  /\ Pending /\ overwritten = FALSE /\ host \in HostType
           /\ Head(events) = events[1] /\ events[1] \in EventType
           /\ tx.status = "nak" /\ rx \in {"nak", "valid"}
           /\ tx \in [status : {"nak", "valid", "stall"}, len : 0..MaxPacket]
           /\ setup \in SetupPacket /\ setup.wLength \in Nat /\ dataLength \in Nat
           /\ dataLength <= setup.wLength
           /\ Len(events) \in {1, 2} /\ Tail(events) \in Seq(EventType)
<1>1. Pending /\ overwritten = FALSE
  BY DEF BusInv, BInv
<1>2. Len(events) \in {1, 2} /\ tx.status = "nak" /\ rx # "stall"
  BY <1>1 DEF Pending
<1>3. /\ setup \in SetupPacket /\ setup.wLength \in Nat /\ dataLength \in Nat
      /\ dataLength <= setup.wLength
  BY ControlAssumption DEF BusInv, ControlInv, TypeOK, DataStageInv, SetupPacket
<1>4. BusTypeOK
  BY DEF BusInv
<1> QED
  BY <1>1, <1>2, <1>3, <1>4, QueueFacts DEF BusTypeOK, HostType

LEMMA PullReset ==
    ASSUME BusInv, events # << >>, events[1].t = "reset", events' = Tail(events),
           Reset, Command, UNCHANGED host, ClientInv'
    PROVE  BusTypeOK' /\ BInv'
<1>1. Len(events) = 1 /\ host.stage = "idle"
  BY PulledFacts DEF Pending
<1>2. events' = << >>
  BY <1>1, PulledFacts, QueueFacts DEF BusInv
<1>3. rx' = "valid" /\ tx' = tx /\ overwritten' = overwritten /\ state' = "IDLE"
  BY CommandReceive DEF Reset
<1>4. Settled'
  BY <1>1, <1>3, PulledFacts DEF Settled, InStep
<1> QED
  BY <1>2, <1>4, SettledBus DEF BusInv

LEMMA PullBadSetup ==
    ASSUME BusInv, events # << >>, events[1].t = "badSetup", events' = Tail(events),
           MalformedSetup, Command, UNCHANGED host, ClientInv'
    PROVE  BusTypeOK' /\ BInv'
<1>1. events' = << >>
  BY PulledFacts, QueueFacts DEF BusInv, Pending
<1>2. Settled'
  BY PulledFacts, AbortedSettled DEF MalformedSetup
<1> QED
  BY <1>1, <1>2, SettledBus DEF BusInv

LEMMA PullSetup ==
    ASSUME BusInv, events # << >>, events[1].t = "setup", events' = Tail(events),
           SetupReceived(events[1].setup), Command, UNCHANGED host, ClientInv'
    PROVE  BusTypeOK' /\ BInv'
<1> DEFINE s == events[1].setup
<1>1. events' = << >>
  BY PulledFacts, QueueFacts DEF BusInv, Pending
<1>2. s \in SetupPacket /\ host.stage = FirstStage(s) /\ host.moved = 0 /\ host.req = s
  <2>1. SetupPending(events[1])
    BY PulledFacts DEF Pending
  <2> QED
    BY <2>1, PulledFacts DEF SetupPending, EventType
<1>3. SetupReceived(s)
  OBVIOUS
<1> HIDE DEF s
<1>4. s.wLength \in Nat /\ 0 \in 0..s.wLength /\ s.in \in BOOLEAN
  BY <1>2, ControlAssumption DEF SetupPacket
<1>5. ASSUME NEW resolved \in BOOLEAN, RefusedSetup(s, resolved) PROVE Settled'
  BY <1>5, PulledFacts, AbortedSettled DEF RefusedSetup
<1>6. ASSUME NEW r \in ControlRequest, AcceptedSetup(s, r) PROVE Settled'
  <2> DEFINE told == Abandoned \o << Acceptance(r) >>
  <2>1. setup' = s /\ r.outbound \in BOOLEAN /\ r.streamed \in BOOLEAN
    BY <1>6 DEF AcceptedSetup, ControlRequest
  <2>2. Valid(s, r) => s.in = r.outbound /\ (r.streamed \/ s.wLength <= MaxPacket)
    BY DEF Valid
  <2>3. host.stage = IF s.wLength = 0 THEN "statusIn" ELSE IF s.in THEN "dataIn" ELSE "dataOut"
    BY <1>2 DEF FirstStage
  <2> HIDE DEF told
  <2>4. ASSUME NEW note, AbortRequest(told \o note) PROVE Settled'
    BY <2>4, PulledFacts, AbortedSettled
  <2>5. CASE Valid(s, r) /\ r.outbound /\ StreamerPulled(0, s, told \o << "transmitComplete" >>)
    <3>1. IF s.wLength = 0 THEN host.stage = "statusIn"
          ELSE host.stage = "dataIn" /\ host.moved = 0 /\ 0 < s.wLength
      <4>1. s.in
        BY <2>2, <2>5
      <4> QED
        BY <1>2, <1>4, <2>3, <4>1
    <3> QED
      BY <1>2, <1>4, <2>1, <2>2, <2>5, <3>1, PulledFacts, PulledSettled
  <2>6. CASE /\ Valid(s, r) /\ r.outbound /\ ~r.streamed
             /\ \E n \in 0..MaxPacket :
                   HandleControl(TRUE, "TX_DATA", told, << Transmit(Smaller(n, s.wLength)) >>)
    <3>1. PICK n \in 0..MaxPacket :
             HandleControl(TRUE, "TX_DATA", told, << Transmit(Smaller(n, s.wLength)) >>)
      BY <2>6
    <3>2. s.in /\ s.wLength <= MaxPacket
      BY <2>2, <2>6
    <3>3. IF s.in /\ s.wLength > 0 THEN host.stage = "dataIn" /\ host.moved = 0
          ELSE host.stage = "statusIn"
      BY <1>2, <1>4, <2>3, <3>2
    <3> QED
      BY <1>2, <2>1, <3>1, <3>2, <3>3, PulledFacts, HandledSettled
  <2>7. CASE /\ Valid(s, r) /\ ~r.outbound /\ s.wLength = 0
             /\ StreamReceiveNext(0, s, told \o << "packetReceived" >>)
    <3>1. ~s.in /\ host.stage = (IF 0 = s.wLength THEN "statusIn" ELSE "dataOut") /\ ~(0 < s.wLength)
      BY <2>2, <2>3, <2>7
    <3> QED
      BY <1>2, <1>4, <2>1, <2>7, <3>1, PulledFacts, ReceivedSettled
  <2>8. CASE /\ Valid(s, r) /\ ~r.outbound /\ s.wLength = 0
             /\ HandleControl(TRUE, "TX_STATUS", told, << Transmit(0) >>)
    <3>1. ~s.in /\ host.stage = "statusIn" /\ Smaller(0, s.wLength) = 0 /\ 0 \in 0..MaxPacket
      BY <2>2, <2>3, <2>8, ControlAssumption DEF Smaller
    <3>2. HandleControl(TRUE, "TX_STATUS", told, << Transmit(Smaller(0, s.wLength)) >>)
      BY <2>8, <3>1
    <3> QED
      BY <1>2, <2>1, <3>1, <3>2, PulledFacts, HandledSettled
  <2>9. CASE /\ Valid(s, r) /\ ~r.outbound /\ s.wLength > 0 /\ dataLength' = 0
             /\ Serve("RX_DATA", r.streamed, told, << Receive >>)
    <3>1. calls' = << Receive >> /\ state' = "RX_DATA"
      BY <2>9 DEF Serve
    <3>2. rx' = "valid" /\ tx' = tx /\ overwritten' = overwritten
      BY <3>1, CommandReceive
    <3>3. ~s.in /\ host.stage = "dataOut" /\ ~ZeroLengthIn'
      BY <1>4, <2>1, <2>2, <2>3, <2>9 DEF ZeroLengthIn
    <3> QED
      BY <1>2, <2>1, <2>9, <3>1, <3>2, <3>3, PulledFacts DEF Settled, InStep
  <2> QED
    BY <1>6, <2>4, <2>5, <2>6, <2>7, <2>8, <2>9 DEF AcceptedSetup, told
<1>7. Settled'
  BY <1>3, <1>5, <1>6 DEF SetupReceived
<1> QED
  BY <1>1, <1>7, SettledBus DEF BusInv

LEMMA PullOut ==
    ASSUME BusInv, events # << >>, events[1].t = "out", events' = Tail(events),
           OutReceived(events[1].len), Command, UNCHANGED host, ClientInv'
    PROVE  BusTypeOK' /\ BInv'
<1> DEFINE length == events[1].len
<1>1. Len(events) = 1 /\ OutPending /\ host.req = setup
  BY PulledFacts DEF Pending, OutPending
<1>2. events' = << >>
  BY <1>1, PulledFacts, QueueFacts DEF BusInv
<1>3. length \in 0..MaxPacket /\ length \in Nat /\ MaxPacket \in Nat
  BY PulledFacts, ControlAssumption DEF EventType
<1>4. CASE events[1].fin
  <2>1. state = "RX_STATUS" /\ host.stage = "idle"
    BY <1>1, <1>4 DEF OutPending
  <2>2. calls' = << Receive >> /\ state' = "IDLE"
    BY <2>1 DEF OutReceived, CompleteRequest
  <2>3. rx' = "valid" /\ tx' = tx /\ overwritten' = overwritten
    BY <2>2, CommandReceive
  <2>4. Settled'
    BY <2>1, <2>2, <2>3, PulledFacts DEF Settled, InStep
  <2> QED
    BY <1>2, <2>4, SettledBus DEF BusInv
<1>5. CASE ~events[1].fin
  <2> DEFINE d == dataLength + length
  <2>1. /\ state = "RX_DATA" /\ rx = "nak" /\ host.moved = d
        /\ length = Smaller(MaxPacket, setup.wLength - dataLength)
        /\ host.stage = IF d = setup.wLength THEN "statusIn" ELSE "dataOut"
    BY <1>1, <1>5 DEF OutPending
  <2>2. setup.wLength - dataLength \in Nat
    BY PulledFacts
  <2>3. d \in 0..setup.wLength
    <3>1. length <= setup.wLength - dataLength
      BY <1>3, <2>1, <2>2, SmallerFacts
    <3> QED
      BY <1>3, <3>1, PulledFacts
  <2>4. ~setup.in /\ setup' = setup
    BY <2>1 DEF BusInv, ControlInv, DirectionInv, OutReceived
  <2> HIDE DEF d
  <2>5. CASE AbortRequest(<< "aborted" >>)
    BY <1>2, <2>5, PulledFacts, AbortedSettled, SettledBus DEF BusInv
  <2>6. CASE StreamReceiveNext(d, setup, << "packetReceived" >>)
    <3>1. Settled'
      BY <1>1, <2>1, <2>3, <2>4, <2>6, PulledFacts, ReceivedSettled
    <3> QED
      BY <1>2, <3>1, SettledBus DEF BusInv
  <2>7. CASE ~streamer /\ HandleControl(handler, "TX_STATUS", << >>, << Transmit(0) >>)
    <3>1. handler = TRUE /\ setup.wLength <= MaxPacket /\ dataLength = 0
      BY <2>1, <2>7 DEF BusInv, ControlInv, TypeOK, ServedInv, ClientInv
    <3>2. d = setup.wLength
      BY <1>3, <2>1, <3>1, PulledFacts DEF Smaller, d
    <3>3. Smaller(0, setup.wLength) = 0 /\ 0 \in 0..MaxPacket
      BY PulledFacts, ControlAssumption DEF Smaller
    <3>4. HandleControl(TRUE, "TX_STATUS", << >>, << Transmit(Smaller(0, setup.wLength)) >>)
      BY <2>7, <3>1, <3>3
    <3>5. Settled'
      BY <1>1, <2>1, <2>4, <3>2, <3>3, <3>4, PulledFacts, HandledSettled
    <3> QED
      BY <1>2, <3>5, SettledBus DEF BusInv
  <2> QED
    BY <2>1, <2>5, <2>6, <2>7 DEF OutReceived, d
<1> QED
  BY <1>4, <1>5, PulledFacts DEF EventType

\* The IN packet of a status stage: the request is over, and if the host has
\* begun the next one, its SETUP packet is what is left in the queue.
LEMMA PullTxFin ==
    ASSUME BusInv, events # << >>, events[1].t = "tx", events[1].fin, events' = Tail(events),
           TransmitComplete, Command, UNCHANGED host, ClientInv'
    PROVE  BusTypeOK' /\ BInv'
<1>1. TxPending
  BY PulledFacts DEF Pending
<1>2. state = "TX_STATUS" \/ (state = "TX_DATA" /\ ZeroLengthIn)
  BY <1>1 DEF TxPending
<1>3. /\ calls' = << Receive >>
      /\ state' = IF state = "TX_STATUS" THEN "IDLE" ELSE "RX_STATUS"
      /\ setup' = setup
  BY <1>2 DEF TransmitComplete, CompleteRequest
<1>4. rx' = "valid" /\ tx' = tx /\ overwritten' = FALSE
  BY <1>3, CommandReceive, PulledFacts
<1>5. CASE Len(events) = 1
  <2>1. events' = << >>
    BY <1>5, PulledFacts, QueueFacts DEF BusInv
  <2>2. host.stage = "idle" /\ host.req = setup
    BY <1>1, <1>5 DEF TxPending
  <2>3. ZeroLengthIn' <=> ZeroLengthIn
    BY <1>3 DEF ZeroLengthIn
  <2>4. Settled'
    BY <1>2, <1>3, <1>4, <2>2, <2>3, PulledFacts DEF Settled, InStep
  <2> QED
    BY <2>1, <2>4, SettledBus DEF BusInv
<1>6. CASE Len(events) = 2
  <2>1. /\ events' # << >> /\ Len(events') = 1 /\ events'[1] = events[2]
        /\ events' \in Seq(EventType)
    BY <1>6, PulledFacts, QueueFacts DEF BusInv
  <2>2. SetupPending(events[2])
    BY <1>1, <1>6 DEF TxPending
  <2> QED
    BY <1>4, <2>1, <2>2, PulledFacts DEF SetupPending, Pending, BInv, BusTypeOK, HostType
<1> QED
  BY <1>5, <1>6, PulledFacts

\* An IN packet of a data stage.
LEMMA PullTxData ==
    ASSUME BusInv, events # << >>, events[1].t = "tx", ~events[1].fin, events' = Tail(events),
           TransmitComplete, Command, UNCHANGED host, ClientInv'
    PROVE  BusTypeOK' /\ BInv'
<1>1. TxPending
  BY PulledFacts DEF Pending
<1>2. /\ state \in {"TX_MORE_DATA", "TX_DATA"} /\ ~ZeroLengthIn
      /\ host.req = setup /\ Moved(host.moved)
  BY <1>1 DEF TxPending
<1>3. CASE state = "TX_DATA"
  <2>1. /\ calls' = << Receive >> /\ state' = "RX_STATUS"
        /\ UNCHANGED <<setup, streamer, dataLength>>
    BY <1>3 DEF TransmitComplete
  <2>2. rx' = "valid" /\ tx' = tx /\ overwritten' = FALSE
    BY <2>1, CommandReceive, PulledFacts
  <2>3. ~ZeroLengthIn' /\ Moved(host.moved)'
    BY <1>2, <2>1 DEF ZeroLengthIn, Moved
  <2>4. CASE Len(events) = 1
    <3>1. events' = << >>
      BY <2>4, PulledFacts, QueueFacts DEF BusInv
    <3>2. host.stage = "statusOut"
      BY <1>1, <1>3, <2>4 DEF TxPending
    <3>3. Settled'
      BY <1>2, <2>1, <2>2, <2>3, <3>2, PulledFacts DEF Settled, InStep
    <3> QED
      BY <3>1, <3>3, SettledBus DEF BusInv
  <2>5. CASE Len(events) = 2
    <3>1. /\ events' # << >> /\ Len(events') = 1 /\ events'[1] = events[2]
          /\ events' \in Seq(EventType)
      BY <2>5, PulledFacts, QueueFacts DEF BusInv
    <3>2. host.stage = "idle" /\ events[2].t = "out" /\ events[2].fin
      BY <1>1, <2>5 DEF TxPending
    <3>3. OutPending'
      BY <1>2, <2>1, <2>3, <3>1, <3>2 DEF OutPending
    <3> QED
      BY <2>2, <3>1, <3>2, <3>3, PulledFacts DEF Pending, BInv, BusTypeOK, HostType
  <2> QED
    BY <2>4, <2>5, PulledFacts
<1>4. CASE state = "TX_MORE_DATA"
  <2>1. Len(events) = 1 /\ host.stage = "dataIn"
    BY <1>1, <1>4, PulledFacts DEF TxPending
  <2>2. events' = << >>
    BY <2>1, PulledFacts, QueueFacts DEF BusInv
  <2>3. streamer /\ setup.in /\ dataLength < setup.wLength
    BY <1>4 DEF BusInv, ControlInv, ServedInv, DirectionInv, DataStageInv
  <2>4. host.moved = dataLength /\ dataLength \in 0..setup.wLength /\ setup.wLength # 0
    BY <1>2, <2>3, PulledFacts DEF Moved
  <2>5. setup' = setup /\ StreamerPulled(dataLength, setup, Through(streamer, "transmitComplete"))
    BY <1>4 DEF TransmitComplete
  <2>6. Settled'
    BY <1>2, <2>1, <2>3, <2>4, <2>5, PulledFacts, PulledSettled
  <2> QED
    BY <2>2, <2>6, SettledBus DEF BusInv
<1> QED
  BY <1>2, <1>3, <1>4

LEMMA PullSafe ==
    ASSUME BusInv, Pull, ControlInv', ClientInv'
    PROVE  BusInv'
<1>1. /\ events # << >> /\ events' = Tail(events) /\ Dispatch(events[1])
      /\ Command /\ UNCHANGED host
  BY PulledFacts DEF Pull, Device
<1>2. BusTypeOK' /\ BInv'
  BY <1>1, PullReset, PullBadSetup, PullSetup, PullOut, PullTxFin, PullTxData DEF Dispatch
<1> QED
  BY <1>2 DEF BusInv

LEMMA StreamerBus ==
    ASSUME BusInv, Streamer, ControlInv', ClientInv'
    PROVE  BusInv'
<1>1. events = << >> /\ events' = << >> /\ InStep /\ overwritten = FALSE /\ BusTypeOK
      /\ Command /\ StreamerActs /\ host' = host /\ host \in HostType
  BY DEF Streamer, BusInv, BInv, Device, BusTypeOK, HostType
<1>2. /\ setup \in SetupPacket /\ setup.wLength \in Nat /\ dataLength \in Nat
      /\ dataLength \in 0..setup.wLength
  BY ControlAssumption DEF BusInv, ControlInv, TypeOK, DataStageInv, SetupPacket
<1>3. ASSUME state = "WAITING" PROVE tx.status = "nak" /\ rx \in {"nak", "valid"} /\ host.req = setup
  BY <1>1, <1>3 DEF InStep, BusTypeOK
<1>4. ASSUME NEW n \in 0..MaxPacket, StreamerTransmits(n) PROVE Settled'
  <2>1. /\ state = "WAITING" /\ setup.in /\ setup' = setup
        /\ StreamerPulled(dataLength, setup, << >>)
    BY <1>4 DEF StreamerTransmits, StreamerPulled
  <2>2. IF setup.wLength = 0 THEN host.stage = "statusIn"
        ELSE host.stage = "dataIn" /\ host.moved = dataLength /\ dataLength < setup.wLength
    BY <1>1, <2>1 DEF InStep, ZeroLengthIn
  <2> QED
    BY <1>1, <1>2, <1>3, <2>1, <2>2, PulledSettled DEF BusTypeOK
<1>5. ASSUME StreamerReceives PROVE Settled'
  <2>1. /\ state = "WAITING" /\ ~setup.in /\ UNCHANGED <<setup, dataLength>>
        /\ calls' = << Receive >> /\ state' = "RX_DATA"
    BY <1>5 DEF StreamerReceives, Serve
  <2>2. rx' = "valid" /\ tx' = tx /\ overwritten' = FALSE
    BY <1>1, <2>1, CommandReceive
  <2>3. host.moved = dataLength /\ host.stage = "dataOut" /\ ~ZeroLengthIn'
    BY <1>1, <2>1 DEF InStep, ZeroLengthIn
  <2> QED
    BY <1>1, <1>3, <2>1, <2>2, <2>3 DEF Settled, InStep, BusTypeOK
<1>6. ASSUME StreamerAborts PROVE Settled'
  BY <1>1, <1>6, AbortedSettled DEF StreamerAborts
<1>7. Settled'
  BY <1>1, <1>4, <1>5, <1>6 DEF StreamerActs
<1> QED
  BY <1>1, <1>7, SettledBus DEF BusInv

-----------------------------------------------------------------------------
(* The host.                                                               *)

LEMMA QueuedFacts ==
    ASSUME BusInv, events # << >>
    PROVE  /\ Answering => events[1].t \in {"tx", "out"}
           /\ ~Queued("out") => events[1].t # "out"
           /\ ~Queued("reset") => events[1].t # "reset"
           /\ Answering /\ Len(events) = 2 => events[2].t = "out"
<1>1. 1 \in 1..Len(events) /\ Len(events) \in {1, 2} /\ events[1] \in EventType
  BY PulledFacts
<1>2. Len(events) = 2 => events[2] \in EventType /\ 2 \in 1..Len(events)
  BY PulledFacts, QueueFacts DEF BusInv
<1>3. Len(events) = 2 => events[2].t \in {"setup", "badSetup", "out"}
  BY PulledFacts DEF Pending, TxPending, SetupPending
<1> QED
  BY <1>1, <1>2, <1>3 DEF Answering, Queued, EventType

LEMMA HostKeeps ==
    ASSUME BusInv, HostStep
    PROVE  /\ ControlInv' /\ ClientInv'
           /\ UNCHANGED <<state, handler, streamer, setup, dataLength, client, overwritten>>
BY DEF BusInv, HostStep, ControlInv, TypeOK, ServedInv, DirectionInv, DataStageInv, WholePackets, ClientInv

LEMMA AppendFacts ==
    ASSUME BusTypeOK, NEW e \in EventType, events' = Append(events, e)
    PROVE  /\ events' \in Seq(EventType) /\ events' # << >> /\ Len(events') = Len(events) + 1
           /\ events = << >> => events'[1] = e
           /\ Len(events) = 1 => events'[1] = events[1] /\ events'[2] = e
<1>1. events \in Seq(EventType)
  BY DEF BusTypeOK
<1> QED
  BY <1>1

LEMMA HostSetupSafe ==
    ASSUME BusInv, NEW t \in {"setup", "badSetup"}, NEW s \in SetupPacket, NEW stage,
           stage = IF t = "setup" THEN FirstStage(s) ELSE "idle",
           HostSetup(t, s, stage)
    PROVE  BusInv'
<1> DEFINE e == Event(t, s, 0, FALSE)
<1>1. e \in EventType /\ e.t = t /\ e.setup = s /\ e.fin = FALSE
  BY ControlAssumption DEF Event, EventType
<1>2. /\ Answering /\ ~Queued("out") /\ host.stage = "idle"
      /\ rx' = "nak" /\ tx' = Quiet /\ events' = Append(events, e)
      /\ host' = [stage |-> stage, moved |-> 0, req |-> s] /\ HostStep
  BY DEF HostSetup
<1> HIDE DEF e
<1>3. stage \in Stages
  BY DEF FirstStage, Stages
<1>4. BusTypeOK /\ overwritten = FALSE
  BY DEF BusInv, BInv
<1>5. BusTypeOK'
  <2>1. Quiet \in [status : {"nak", "valid", "stall"}, len : 0..MaxPacket]
    BY ControlAssumption DEF Quiet
  <2> QED
    BY <1>1, <1>2, <1>3, <1>4, <2>1, AppendFacts DEF BusTypeOK
<1>6. ASSUME NEW f, f = e PROVE SetupPending(f)'
  BY <1>1, <1>2, <1>6 DEF SetupPending
<1>7. CASE events = << >>
  <2>1. events' # << >> /\ Len(events') = 1 /\ events'[1] = e
    BY <1>1, <1>2, <1>4, <1>7, AppendFacts
  <2>2. SetupPending(events[1])'
    BY <1>1, <1>2, <2>1 DEF SetupPending
  <2>3. BInv'
    BY <1>1, <1>2, <1>4, <2>1, <2>2, HostKeeps DEF BInv, Pending, Quiet
  <2> QED
    BY <1>2, <1>5, <2>3, HostKeeps DEF BusInv
<1>8. CASE events # << >>
  <2>1. events[1].t = "tx" /\ Len(events) \in {1, 2} /\ Pending
    BY <1>2, <1>8, PulledFacts, QueuedFacts
  <2>2. Len(events) = 1
    BY <1>2, <1>8, <2>1, QueuedFacts DEF Queued
  <2>3. TxPending
    BY <2>1 DEF Pending
  <2>4. events[1].fin /\ (state = "TX_STATUS" \/ (state = "TX_DATA" /\ ZeroLengthIn))
    BY <1>2, <2>2, <2>3 DEF TxPending
  <2>5. events' # << >> /\ Len(events') = 2 /\ events'[1] = events[1] /\ events'[2] = e
    BY <1>1, <1>2, <1>4, <2>2, AppendFacts
  <2>6. SetupPending(events[2])'
    BY <1>1, <1>2, <2>5 DEF SetupPending
  <2>7. TxPending'
    BY <1>2, <2>4, <2>5, <2>6, HostKeeps DEF TxPending, ZeroLengthIn
  <2>8. BInv'
    BY <1>2, <1>4, <2>1, <2>5, <2>7, HostKeeps DEF BInv, Pending, Quiet
  <2> QED
    BY <1>2, <1>5, <2>8, HostKeeps DEF BusInv
<1> QED
  BY <1>7, <1>8

LEMMA HostInSafe ==
    ASSUME BusInv, HostIn
    PROVE  BusInv'
<1> DEFINE e     == Event("tx", NoSetup, 0, host.stage = "statusIn")
           moved == host.moved + tx.len
           done  == tx.len < MaxPacket \/ moved >= host.req.wLength
<1>1. /\ Answering /\ tx.status = "valid" /\ host.stage \in {"dataIn", "statusIn"}
      /\ tx' = Quiet /\ rx' = rx /\ events' = Append(events, e) /\ HostStep
  BY DEF HostIn
<1>2. /\ host.stage = "statusIn" => host' = [host EXCEPT !.stage = "idle"]
      /\ host.stage = "dataIn"
           => host' = [host EXCEPT !.moved = moved, !.stage = IF done THEN "statusOut" ELSE "dataIn"]
  BY <1>1 DEF HostIn
<1>3. e \in EventType /\ e.t = "tx" /\ (e.fin <=> host.stage = "statusIn")
  <2>1. e \in EventType
    BY ControlAssumption DEF Event, EventType, NoSetup, SetupPacket
  <2>2. e.t = "tx" /\ (e.fin <=> host.stage = "statusIn")
    BY DEF Event
  <2> QED
    BY <2>1, <2>2
<1> HIDE DEF e, done
<1>4. BusTypeOK /\ overwritten = FALSE
  BY DEF BusInv, BInv
<1>5. events = << >> /\ InStep
  <2>1. events = << >>
    BY <1>1, PulledFacts
  <2> QED
    BY <2>1 DEF BusInv, BInv
<1>6. host \in HostType /\ tx.len \in 0..MaxPacket /\ moved \in Nat /\ host.moved \in Nat
  BY <1>4, ControlAssumption DEF BusTypeOK, HostType
<1>7. BusTypeOK'
  <2>1. Quiet \in [status : {"nak", "valid", "stall"}, len : 0..MaxPacket]
    BY ControlAssumption DEF Quiet
  <2>2. host' \in HostType
    BY <1>1, <1>2, <1>6 DEF HostType, Stages
  <2> QED
    BY <1>1, <1>3, <1>4, <2>1, <2>2, AppendFacts DEF BusTypeOK, HostType
<1>8. events' # << >> /\ Len(events') = 1 /\ events'[1] = e
  BY <1>1, <1>3, <1>4, <1>5, AppendFacts
<1>9. /\ state \in {"TX_MORE_DATA", "TX_DATA", "TX_STATUS"} /\ host.req = setup /\ rx # "stall"
  BY <1>1, <1>5 DEF InStep
<1>10. /\ setup \in SetupPacket /\ setup.wLength \in Nat /\ dataLength \in Nat
       /\ dataLength <= setup.wLength
  BY ControlAssumption DEF BusInv, ControlInv, TypeOK, DataStageInv, SetupPacket
<1>11. CASE host.stage = "statusIn"
  <2>1. e.fin /\ host'.stage = "idle" /\ host'.moved = host.moved /\ host'.req = setup
    BY <1>2, <1>3, <1>6, <1>9, <1>11 DEF HostType
  <2>2. state = "TX_STATUS" \/ (state = "TX_DATA" /\ ZeroLengthIn)
    BY <1>5, <1>9, <1>11 DEF InStep
  <2>3. state = "TX_STATUS" => Moved(host.moved)
    BY <1>5 DEF InStep
  <2>4. TxPending'
    BY <1>1, <1>8, <2>1, <2>2, <2>3, HostKeeps DEF TxPending, ZeroLengthIn, Moved
  <2>5. BInv'
    BY <1>1, <1>3, <1>4, <1>8, <1>9, <2>4, HostKeeps DEF BInv, Pending, Quiet
  <2> QED
    BY <1>1, <1>7, <2>5, HostKeeps DEF BusInv
<1>12. CASE host.stage = "dataIn"
  <2>1. /\ ~e.fin /\ host'.stage = (IF done THEN "statusOut" ELSE "dataIn")
        /\ host'.moved = moved /\ host'.req = setup
    BY <1>2, <1>3, <1>6, <1>9, <1>12 DEF HostType
  <2>2. state \in {"TX_MORE_DATA", "TX_DATA"} /\ ~ZeroLengthIn
    <3>1. state # "TX_STATUS"
      BY <1>5, <1>12 DEF InStep
    <3>2. state = "TX_MORE_DATA" => ~ZeroLengthIn
      BY <1>10 DEF BusInv, ControlInv, DataStageInv, ZeroLengthIn
    <3>3. state = "TX_DATA" => ~ZeroLengthIn
      BY <1>5, <1>12 DEF InStep
    <3> QED
      BY <1>9, <3>1, <3>2, <3>3
  <2>3. Moved(moved)
    BY <1>5, <2>2 DEF InStep, Moved
  <2>4. CASE state = "TX_MORE_DATA"
    <3>1. tx.len = MaxPacket /\ moved = dataLength /\ dataLength < setup.wLength
      BY <1>5, <2>4 DEF InStep, BusInv, ControlInv, DataStageInv
    <3>2. ~done
      BY <1>9, <1>10, <3>1, ControlAssumption DEF done
    <3>3. TxPending'
      BY <1>1, <1>8, <2>1, <2>2, <2>3, <2>4, <3>2, HostKeeps DEF TxPending, ZeroLengthIn, Moved
    <3>4. BInv'
      BY <1>1, <1>3, <1>4, <1>8, <1>9, <3>3, HostKeeps DEF BInv, Pending, Quiet
    <3> QED
      BY <1>1, <1>7, <3>4, HostKeeps DEF BusInv
  <2>5. CASE state = "TX_DATA"
    <3>1. tx.len < MaxPacket \/ moved = setup.wLength
      BY <1>5, <2>2, <2>5 DEF InStep
    <3>2. done
      BY <1>6, <1>9, <1>10, <3>1 DEF done
    <3>3. TxPending'
      BY <1>1, <1>8, <2>1, <2>2, <2>3, <2>5, <3>2, HostKeeps DEF TxPending, ZeroLengthIn, Moved
    <3>4. BInv'
      BY <1>1, <1>3, <1>4, <1>8, <1>9, <3>3, HostKeeps DEF BInv, Pending, Quiet
    <3> QED
      BY <1>1, <1>7, <3>4, HostKeeps DEF BusInv
  <2> QED
    BY <2>2, <2>4, <2>5
<1> QED
  BY <1>1, <1>11, <1>12

LEMMA HostMoved ==
    ASSUME NEW h \in HostType, NEW n \in Nat, NEW next \in Stages
    PROVE  LET g == [h EXCEPT !.moved = @ + n, !.stage = next]
           IN  /\ g.moved = h.moved + n /\ g.stage = next /\ g.req = h.req /\ g \in HostType
<1> DEFINE m == h.moved + n
           g == [h EXCEPT !.moved = m, !.stage = next]
<1>1. m \in Nat /\ h.moved \in Nat
  BY DEF HostType
<1>2. [h EXCEPT !.moved = @ + n, !.stage = next] = g
  BY DEF HostType
<1> HIDE DEF m
<1>3. g.moved = m /\ g.stage = next /\ g.req = h.req /\ g \in HostType
  BY <1>1 DEF HostType
<1> HIDE DEF g
<1> QED
  BY <1>2, <1>3 DEF m

LEMMA HostOutSafe ==
    ASSUME BusInv, HostOut
    PROVE  BusInv'
<1> DEFINE left == host.req.wLength - host.moved
           len  == IF host.stage = "statusOut" THEN 0 ELSE Smaller(MaxPacket, left)
           e    == Event("out", NoSetup, len, host.stage = "statusOut")
<1>1. /\ Answering /\ rx = "valid" /\ host.stage \in {"dataOut", "statusOut"}
      /\ tx' = tx /\ rx' = "nak" /\ events' = Append(events, e) /\ HostStep
  BY DEF HostOut
<1>2. /\ host.stage = "statusOut" => host' = [host EXCEPT !.stage = "idle"]
      /\ host.stage = "dataOut"
           => host' = [host EXCEPT !.moved = @ + len,
                                   !.stage = IF len = left THEN "statusIn" ELSE "dataOut"]
  BY <1>1 DEF HostOut
<1>3. e.t = "out" /\ (e.fin <=> host.stage = "statusOut") /\ e.len = len
  BY DEF Event
<1>4. len \in 0..MaxPacket => e \in EventType
  BY ControlAssumption DEF Event, EventType, NoSetup, SetupPacket
<1> HIDE DEF e
<1>5. BusTypeOK /\ overwritten = FALSE /\ host \in HostType /\ host.moved \in Nat
  BY DEF BusInv, BInv, BusTypeOK, HostType
<1>6. /\ setup \in SetupPacket /\ setup.wLength \in Nat /\ dataLength \in Nat
      /\ dataLength <= setup.wLength
  BY ControlAssumption DEF BusInv, ControlInv, TypeOK, DataStageInv, SetupPacket
<1>7. CASE events # << >>
  <2>1. Pending /\ tx.status = "nak" /\ Len(events) \in {1, 2}
    BY <1>7, PulledFacts
  <2>2. events[1].t # "out"
    BY <1>1, <2>1 DEF Pending, OutPending
  <2>3. events[1].t = "tx" /\ TxPending
    BY <1>1, <1>7, <2>1, <2>2, QueuedFacts DEF Pending
  <2>4. ~events[1].fin /\ Len(events) = 1
    BY <1>1, <1>7, <2>1, <2>3, QueuedFacts DEF TxPending, SetupPending
  <2>5. /\ state = "TX_DATA" /\ host.stage = "statusOut" /\ ~ZeroLengthIn
        /\ host.req = setup /\ Moved(host.moved)
    BY <1>1, <2>3, <2>4 DEF TxPending
  <2>6. len = 0 /\ e.fin /\ e \in EventType
    BY <1>3, <1>4, <2>5, ControlAssumption
  <2>7. host' = [host EXCEPT !.stage = "idle"]
    BY <1>2, <2>5
  <2>8. /\ events' # << >> /\ Len(events') = 2 /\ events'[1] = events[1] /\ events'[2] = e
        /\ events' \in Seq(EventType)
    BY <1>1, <1>5, <2>4, <2>6, AppendFacts
  <2>9. host' \in HostType /\ host'.stage = "idle" /\ host'.moved = host.moved /\ host'.req = setup
    BY <1>5, <2>5, <2>7 DEF HostType, Stages
  <2>10. TxPending'
    BY <1>1, <1>3, <2>4, <2>5, <2>6, <2>8, <2>9, HostKeeps DEF TxPending, ZeroLengthIn, Moved
  <2>11. BInv' /\ BusTypeOK'
    BY <1>1, <1>5, <2>1, <2>3, <2>8, <2>9, <2>10, HostKeeps DEF BInv, Pending, BusTypeOK, HostType
  <2> QED
    BY <1>1, <2>11, HostKeeps DEF BusInv
<1>8. CASE events = << >>
  <2>1. InStep
    BY <1>8 DEF BusInv, BInv
  <2>2. host.req = setup /\ tx.status = "nak"
    BY <1>1, <1>5, <2>1 DEF InStep, BusTypeOK
  <2>3. CASE host.stage = "statusOut"
    <3>1. state = "RX_STATUS" /\ ~ZeroLengthIn /\ Moved(host.moved)
      BY <1>1, <2>1, <2>3, <1>5 DEF InStep, BusInv, ControlInv, TypeOK, SetupState
    <3>2. len = 0 /\ e.fin /\ e \in EventType
      BY <1>3, <1>4, <2>3, ControlAssumption
    <3>3. host' = [host EXCEPT !.stage = "idle"]
      BY <1>2, <2>3
    <3>4. /\ events' # << >> /\ Len(events') = 1 /\ events'[1] = e /\ events' \in Seq(EventType)
      BY <1>1, <1>5, <1>8, <3>2, AppendFacts
    <3>5. host' \in HostType /\ host'.stage = "idle" /\ host'.moved = host.moved /\ host'.req = setup
      BY <1>5, <2>2, <3>3 DEF HostType, Stages
    <3>6. OutPending'
      BY <1>1, <3>1, <3>2, <3>4, <3>5, HostKeeps DEF OutPending, ZeroLengthIn, Moved
    <3>7. BInv' /\ BusTypeOK'
      BY <1>1, <1>3, <1>5, <2>2, <3>4, <3>5, <3>6, HostKeeps
         DEF BInv, Pending, BusTypeOK, HostType
    <3> QED
      BY <1>1, <3>7, HostKeeps DEF BusInv
  <2>4. CASE host.stage = "dataOut"
    <3>1. state = "RX_DATA" /\ host.moved = dataLength
      BY <1>1, <1>5, <2>1, <2>4 DEF InStep, BusInv, ControlInv, TypeOK, SetupState
    <3>2. left \in Nat /\ left = setup.wLength - dataLength
      BY <1>6, <2>2, <3>1
    <3>3. len = Smaller(MaxPacket, left) /\ len \in 0..MaxPacket /\ len <= left /\ len \in Nat
      <4>1. len = Smaller(MaxPacket, left)
        BY <2>4
      <4> HIDE DEF left, len
      <4> QED
        BY <3>2, <4>1, SmallerFacts, ControlAssumption
    <3>4. e \in EventType /\ ~e.fin
      BY <1>3, <1>4, <2>4, <3>3
    <3>5. host' = [host EXCEPT !.moved = @ + len,
                               !.stage = IF len = left THEN "statusIn" ELSE "dataOut"]
      BY <1>2, <2>4
    <3>6. /\ events' # << >> /\ Len(events') = 1 /\ events'[1] = e /\ events' \in Seq(EventType)
      BY <1>1, <1>5, <1>8, <3>4, AppendFacts
    <3> HIDE DEF left, len
    <3>7. /\ host' \in HostType /\ host'.moved = dataLength + len /\ host'.req = setup
          /\ host'.stage = IF len = left THEN "statusIn" ELSE "dataOut"
      <4> DEFINE next == IF len = left THEN "statusIn" ELSE "dataOut"
      <4>1. host' = [host EXCEPT !.moved = @ + len, !.stage = next]
        BY <3>5
      <4>2. next \in Stages
        BY DEF Stages
      <4> HIDE DEF next
      <4>3. /\ host'.moved = host.moved + len /\ host'.stage = next /\ host'.req = host.req
            /\ host' \in HostType
        <5> DEFINE g == [host EXCEPT !.moved = @ + len, !.stage = next]
        <5>1. /\ g.moved = host.moved + len /\ g.stage = next /\ g.req = host.req
              /\ g \in HostType
          <6>1. host \in HostType /\ len \in Nat /\ next \in Stages
            BY <1>5, <3>3, <4>2
          <6> QED
            BY <6>1, HostMoved, Zenon
        <5>2. host' = g
          BY <4>1
        <5> HIDE DEF g
        <5> QED
          BY <5>1, <5>2
      <4> QED
        BY <2>2, <3>1, <4>3 DEF next
    <3>8. host'.moved = setup.wLength <=> len = left
      BY <1>6, <3>2, <3>3, <3>7
    <3>9. OutPending'
      <4>1. /\ state' = state /\ setup' = setup /\ dataLength' = dataLength /\ rx' = "nak"
        BY <1>1, HostKeeps
      <4>2. events[1]'.len = len /\ ~events[1]'.fin
        BY <1>3, <3>4, <3>6
      <4>3. events[1]'.len = Smaller(MaxPacket, setup'.wLength - dataLength')
        BY <3>2, <3>3, <4>1, <4>2
      <4> QED
        BY <3>1, <3>7, <3>8, <4>1, <4>2, <4>3 DEF OutPending
    <3>10. BInv' /\ BusTypeOK'
      BY <1>1, <1>3, <1>5, <2>2, <3>6, <3>7, <3>9, HostKeeps
         DEF BInv, Pending, BusTypeOK, HostType
    <3> QED
      BY <1>1, <3>10, HostKeeps DEF BusInv
  <2> QED
    BY <1>1, <2>3, <2>4
<1> QED
  BY <1>7, <1>8

LEMMA StalledFacts ==
    ASSUME BusInv, HostStalled
    PROVE  events = << >> /\ state = "IDLE" /\ rx = "stall" /\ client = "none"
<1>1. rx = "stall" \/ tx.status = "stall"
  BY DEF HostStalled
<1>2. events = << >>
  BY <1>1, PulledFacts
<1> QED
  BY <1>1, <1>2 DEF BusInv, BInv, InStep

LEMMA HostStalledSafe ==
    ASSUME BusInv, HostStalled
    PROVE  BusInv'
<1>1. /\ host' = [host EXCEPT !.stage = "idle"] /\ UNCHANGED <<rx, tx, events>> /\ HostStep
  BY DEF HostStalled
<1>2. BusTypeOK /\ overwritten = FALSE /\ events = << >> /\ InStep
  BY StalledFacts DEF BusInv, BInv
<1>3. BusTypeOK'
  BY <1>1, <1>2 DEF BusTypeOK, Stages
<1>4. InStep'
  BY <1>1, <1>2, StalledFacts, HostKeeps DEF InStep
<1> QED
  BY <1>1, <1>2, <1>3, <1>4, HostKeeps DEF BusInv, BInv

LEMMA HostResetSafe ==
    ASSUME BusInv, HostReset
    PROVE  BusInv'
<1> DEFINE e == Event("reset", NoSetup, 0, FALSE)
<1>1. /\ rx' = "nak" /\ tx' = Quiet /\ events' = << e >>
      /\ host' = [host EXCEPT !.stage = "idle"] /\ HostStep
  BY DEF HostReset
<1>2. e \in EventType /\ e.t = "reset" /\ ~e.fin
  BY ControlAssumption DEF Event, EventType, NoSetup, SetupPacket
<1> HIDE DEF e
<1>3. BusTypeOK /\ overwritten = FALSE
  BY DEF BusInv, BInv
<1>4. Quiet \in [status : {"nak", "valid", "stall"}, len : 0..MaxPacket] /\ Quiet.status = "nak"
  BY ControlAssumption DEF Quiet
<1>5. events' \in Seq(EventType) /\ events' # << >> /\ Len(events') = 1 /\ events'[1] = e
  BY <1>1, <1>2
<1>6. host'.stage = "idle" /\ host' \in HostType
  BY <1>1, <1>3 DEF BusTypeOK, HostType, Stages
<1>7. BusTypeOK' /\ BInv'
  BY <1>1, <1>2, <1>3, <1>4, <1>5, <1>6, HostKeeps DEF BusTypeOK, HostType, BInv, Pending
<1> QED
  BY <1>1, <1>7, HostKeeps DEF BusInv

-----------------------------------------------------------------------------
(* The invariant of the whole bus.                                         *)

\* On the bus the endpoint makes only steps of ControlEndpoint, and its client
\* follows them.
LEMMA EndpointMoves ==
    ASSUME BusInv, Pull \/ Streamer
    PROVE  Next /\ ClientFollows
<1>1. CASE Streamer
  BY <1>1 DEF Streamer, Device, Next
<1>2. CASE Pull
  <2>1. Dispatch(events[1]) /\ events[1].setup \in SetupPacket /\ events[1].len \in 0..MaxPacket
    BY <1>2, PulledFacts DEF Pull, EventType
  <2> QED
    BY <1>2, <2>1 DEF Dispatch, Next, Pull, Device
<1> QED
  BY <1>1, <1>2

LEMMA BusStarts == BusInit => BusInv
<1> SUFFICES ASSUME BusInit PROVE BusInv
  OBVIOUS
<1>1. ControlInv /\ ClientInv
  BY ControlInit, ClientStarts DEF BusInit
<1>2. NoSetup \in SetupPacket /\ 0 \in 0..MaxPacket
  BY ControlAssumption DEF NoSetup, SetupPacket
<1>3. Event("reset", NoSetup, 0, FALSE) \in EventType
  BY <1>2 DEF Event, EventType
<1>4. BusTypeOK
  <2>1. events \in Seq(EventType)
    <3> DEFINE e == Event("reset", NoSetup, 0, FALSE)
    <3>1. e \in EventType /\ events = << e >>
      BY <1>3 DEF BusInit
    <3> HIDE DEF e
    <3> QED
      BY <3>1
  <2>2. rx = "nak" /\ tx \in [status : {"nak", "valid", "stall"}, len : 0..MaxPacket]
    BY <1>2 DEF BusInit, Quiet
  <2>3. host \in [stage : Stages, moved : Nat, req : SetupPacket]
    BY <1>2 DEF BusInit, Stages
  <2> QED
    BY <2>1, <2>2, <2>3 DEF BusTypeOK
<1>5. BInv
  <2>1. /\ events # << >> /\ Len(events) = 1 /\ events[1].t = "reset" /\ ~events[1].fin
    BY DEF BusInit, Event
  <2> QED
    BY <2>1 DEF BusInit, BInv, Pending, Quiet
<1> QED
  BY <1>1, <1>4, <1>5 DEF BusInv

LEMMA BusStep == BusInv /\ [BusNext]_busVars => BusInv'
<1> SUFFICES ASSUME BusInv, [BusNext]_busVars PROVE BusInv'
  OBVIOUS
<1>1. CASE Pull \/ Streamer
  <2>1. ControlInv' /\ ClientInv'
    <3>1. Next /\ ClientFollows
      BY <1>1, EndpointMoves
    <3> QED
      BY <3>1, ControlStep, ClientTold DEF BusInv
  <2> QED
    BY <1>1, <2>1, PullSafe, StreamerBus
<1>2. ASSUME NEW s \in [in : BOOLEAN, wLength : HostLengths],
             HostSetup("setup", s, FirstStage(s))
      PROVE  BusInv'
  <2>1. s \in SetupPacket
    BY BusAssumption DEF SetupPacket
  <2> QED
    BY <1>2, <2>1, HostSetupSafe
<1>3. CASE HostSetup("badSetup", NoSetup, "idle")
  <2>1. NoSetup \in SetupPacket
    BY ControlAssumption DEF NoSetup, SetupPacket
  <2> QED
    BY <1>3, <2>1, HostSetupSafe
<1>4. CASE HostMoves
  BY <1>4, HostInSafe, HostOutSafe, HostStalledSafe DEF HostMoves
<1>5. CASE HostReset
  BY <1>5, HostResetSafe
<1>6. CASE UNCHANGED busVars
  <2>1. UNCHANGED epVars /\ UNCHANGED <<client, rx, tx, events, host, overwritten>>
    BY <1>6 DEF busVars, epVars
  <2>2. ControlInv' /\ ClientInv'
    BY <2>1, ControlStep DEF BusInv, ClientInv, epVars
  <2>3. BusTypeOK'
    BY <2>1 DEF BusInv, BusTypeOK
  <2>4. BInv'
    <3>1. InStep => InStep'
      BY <2>1 DEF epVars, InStep, ZeroLengthIn, Moved
    <3>2. Pending => Pending'
      <4>1. TxPending => TxPending'
        BY <2>1 DEF epVars, TxPending, ZeroLengthIn, Moved, SetupPending
      <4>2. OutPending => OutPending'
        BY <2>1 DEF epVars, OutPending, ZeroLengthIn, Moved
      <4>3. SetupPending(events[1]) => SetupPending(events[1])'
        BY <2>1 DEF SetupPending
      <4> QED
        BY <2>1, <4>1, <4>2, <4>3 DEF Pending
    <3> QED
      BY <2>1, <3>1, <3>2 DEF BusInv, BInv
  <2> QED
    BY <2>2, <2>3, <2>4 DEF BusInv
<1> QED
  BY <1>1, <1>2, <1>3, <1>4, <1>5, <1>6 DEF BusNext

\* Host, controller, endpoint and client stay in step.
THEOREM BusInvariant == BusSpec => []BusInv
BY BusStarts, BusStep, PTL DEF BusSpec

\* transmitPacket() is never called while the IN endpoint is still armed.
THEOREM BusNoOverwrite == BusSpec => []NoOverwrite
<1>1. BusInv => NoOverwrite
  BY DEF BusInv, BInv, NoOverwrite
<1> QED
  BY <1>1, BusInvariant, PTL

\* When the host sees a STALL, no request is being served.
THEOREM BusStallBelongs == BusSpec => StallBelongs
<1>1. BusInv /\ [BusNext]_busVars => [HostStalled => client = "none"]_busVars
  BY StalledFacts
<1>2. BusSpec => [][BusNext]_busVars
  BY PTL DEF BusSpec
<1> QED
  BY <1>1, <1>2, BusInvariant, PTL DEF StallBelongs

\* Handlers and streamers are called in the order ClientContract describes,
\* whatever the host does.
THEOREM BusClientContract == BusSpec => []ClientContract
<1>1. BusInv => ClientContract
  BY ClientRemembered DEF BusInv
<1> QED
  BY <1>1, BusInvariant, PTL

\* No client is forgotten, whatever the host does.
THEOREM BusClientRemembered == BusSpec => []NobodyForgotten
<1>1. BusInv => NobodyForgotten
  BY ClientRemembered DEF BusInv
<1> QED
  BY <1>1, BusInvariant, PTL

-----------------------------------------------------------------------------
(* Agreement of host and application.                                      *)

Plain == Note \ {"succeeded", "completed"}

LEMMA PlainFails == ASSUME notes' \in Seq(Plain) PROVE ~Success
BY DEF Success, Plain

LEMMA PlainFacts ==
    ASSUME NEW told \in Seq(Plain), NEW n \in Plain
    PROVE  told \o << n >> \in Seq(Plain)
OBVIOUS

LEMMA PulledPlain ==
    ASSUME NEW told \in Seq(Plain), NEW d, NEW s, StreamerPulled(d, s, told)
    PROVE  notes' \in Seq(Plain)
<1>1. "aborted" \in Plain
  BY DEF Plain, Note
<1> QED
  BY <1>1, PlainFacts DEF StreamerPulled, TransmitPacket, Serve, AbortRequest

LEMMA ReceivedPlain ==
    ASSUME NEW told \in Seq(Plain), NEW d, NEW s, StreamReceiveNext(d, s, told)
    PROVE  notes' \in Seq(Plain)
<1>1. "aborted" \in Plain
  BY DEF Plain, Note
<1> QED
  BY <1>1, PlainFacts DEF StreamReceiveNext, Serve, AbortRequest

LEMMA HandledPlain ==
    ASSUME NEW told \in Seq(Plain), NEW next, NEW pcd, HandleControl(TRUE, next, told, pcd)
    PROVE  notes' \in Seq(Plain)
<1> DEFINE wanted == told \o << "handleControl" >>
<1>1. "handleControl" \in Plain /\ "failed" \in Plain
  BY DEF Plain, Note
<1>2. wanted \in Seq(Plain)
  BY <1>1, PlainFacts
<1>3. notes' = wanted \/ notes' = wanted \o << "failed" >>
  BY DEF HandleControl, Through, Serve, AbortRequest
<1> HIDE DEF wanted
<1> QED
  BY <1>1, <1>2, <1>3, PlainFacts

LEMMA AbandonedPlain == Abandoned \in Seq(Plain)
<1>1. << "aborted" >> \in Seq(Plain) /\ << "failed" >> \in Seq(Plain) /\ << >> \in Seq(Plain)
  BY DEF Plain, Note
<1> QED
  BY <1>1 DEF Abandoned

LEMMA SetupPlain ==
    ASSUME NEW s, SetupReceived(s)
    PROVE  notes' \in Seq(Plain)
<1>1. ASSUME NEW resolved \in BOOLEAN, RefusedSetup(s, resolved) PROVE notes' \in Seq(Plain)
  <2>1. /\ Abandoned \o << "refused", "failed" >> \in Seq(Plain)
        /\ Abandoned \o << >> \in Seq(Plain)
    <3>1. << "refused", "failed" >> \in Seq(Plain) /\ << >> \in Seq(Plain)
      BY DEF Plain, Note
    <3> QED
      BY <3>1, AbandonedPlain
  <2> QED
    BY <1>1, <2>1 DEF RefusedSetup, AbortRequest
<1>2. ASSUME NEW r \in ControlRequest, AcceptedSetup(s, r) PROVE notes' \in Seq(Plain)
  <2> DEFINE told == Abandoned \o << Acceptance(r) >>
  <2>1. told \in Seq(Plain)
    <3>1. Acceptance(r) \in Plain
      BY DEF Acceptance, Plain, Note
    <3> QED
      BY <3>1, AbandonedPlain, PlainFacts
  <2> HIDE DEF told
  <2>2. /\ told \o << "aborted" >> \in Seq(Plain) /\ told \o << "failed" >> \in Seq(Plain)
        /\ told \o << "transmitComplete" >> \in Seq(Plain)
        /\ told \o << "packetReceived" >> \in Seq(Plain)
    BY <2>1, PlainFacts DEF Plain, Note
  <2>3. CASE AbortRequest(told \o << IF r.streamed THEN "aborted" ELSE "failed" >>)
    BY <2>2, <2>3 DEF AbortRequest
  <2>4. CASE StreamerPulled(0, s, told \o << "transmitComplete" >>)
    BY <2>2, <2>4, PulledPlain
  <2>5. ASSUME NEW next, NEW pcd, HandleControl(TRUE, next, told, pcd) PROVE notes' \in Seq(Plain)
    BY <2>1, <2>5, HandledPlain
  <2>6. CASE StreamReceiveNext(0, s, told \o << "packetReceived" >>)
    BY <2>2, <2>6, ReceivedPlain
  <2>7. CASE Serve("RX_DATA", r.streamed, told, << Receive >>)
    BY <2>1, <2>7 DEF Serve
  <2> QED
    BY <1>2, <2>3, <2>4, <2>5, <2>6, <2>7 DEF AcceptedSetup, told
<1> QED
  BY <1>1, <1>2 DEF SetupReceived

\* Only pulling an event takes one from the queue.
LEMMA OnlyPull ==
    ASSUME BusInv, [BusNext]_busVars, Pulled
    PROVE  Pull
<1> DEFINE rest == Tail(events)
<1>1. /\ events # << >> /\ events' = rest /\ events \in Seq(EventType)
      /\ Len(rest) = Len(events) - 1 /\ Len(events) \in Nat
  <2>1. events # << >> /\ events' = rest /\ events \in Seq(EventType)
    BY DEF Pulled, BusInv, BusTypeOK
  <2> QED
    BY <2>1
<1>2. Len(events) = 2 => rest[1] = events[2]
  BY <1>1, QueueFacts DEF BusInv
<1> HIDE DEF rest
<1>3. ASSUME NEW e, events' = Append(events, e) PROVE FALSE
  <2>1. Len(rest) = Len(events) + 1
    BY <1>1, <1>3
  <2> QED
    BY <1>1, <2>1
<1>4. ASSUME events' = events PROVE FALSE
  BY <1>1, <1>4
<1>5. ~HostReset
  <2> SUFFICES ASSUME HostReset PROVE FALSE
    OBVIOUS
  <2>1. ~Queued("reset") /\ rest = << Event("reset", NoSetup, 0, FALSE) >>
    BY <1>1 DEF HostReset
  <2>2. Len(rest) = 1 /\ rest[1].t = "reset"
    BY <2>1 DEF Event
  <2>3. Len(events) = 2
    <3> DEFINE n == Len(events)
               m == Len(rest)
    <3>1. n \in Nat /\ m = n - 1 /\ m = 1
      BY <1>1, <2>2
    <3> HIDE DEF n, m
    <3>2. n = 2
      BY <3>1
    <3> QED
      BY <3>2 DEF n
  <2>4. 2 \in 1..Len(events) /\ events[2].t = "reset"
    BY <1>2, <2>2, <2>3
  <2> QED
    BY <2>1, <2>4 DEF Queued
<1>6. ~Streamer
  BY <1>1 DEF Streamer
<1>7. ~HostMoves
  BY <1>3, <1>4 DEF HostMoves, HostIn, HostOut, HostStalled
<1>8. \A t, s, stage : ~HostSetup(t, s, stage)
  BY <1>3 DEF HostSetup
<1>9. ~UNCHANGED busVars
  BY <1>4 DEF busVars
<1> QED
  BY <1>5, <1>6, <1>7, <1>8, <1>9 DEF BusNext

LEMMA PullAgrees ==
    ASSUME BusInv, Pull, ~ZeroLengthIn
    PROVE  /\ Success <=> Head(events).fin /\ client \notin {"none", "ended"}
           /\ Success /\ streamer /\ events' = << >> /\ host.stage = "idle"
                => dataLength = host.moved
<1>1. /\ events # << >> /\ events' = Tail(events) /\ Dispatch(events[1])
  BY PulledFacts DEF Pull
<1>2. Pending /\ Head(events) = events[1]
  BY <1>1, PulledFacts
<1>3. CASE events[1].t = "reset"
  <2>1. << "aborted" >> \in Seq(Plain) /\ << >> \in Seq(Plain)
    BY DEF Plain, Note
  <2>2. notes' \in Seq(Plain) /\ ~events[1].fin
    BY <1>1, <1>2, <1>3, <2>1 DEF Dispatch, Reset, Pending
  <2> QED
    BY <1>2, <2>2, PlainFails
<1>4. CASE events[1].t \in {"setup", "badSetup"}
  <2>1. notes' \in Seq(Plain)
    BY <1>1, <1>4, SetupPlain, AbandonedPlain DEF Dispatch, MalformedSetup, AbortRequest
  <2>2. ~events[1].fin
    BY <1>2, <1>4 DEF Pending, SetupPending
  <2> QED
    BY <1>2, <2>1, <2>2, PlainFails
<1>5. ASSUME CompleteRequest, state \in {"RX_STATUS", "TX_STATUS"} PROVE Success /\ client \notin {"none", "ended"}
  <2>1. handler
    BY <1>5 DEF BusInv, ControlInv, ServedInv
  <2>2. notes' = << "completed" >> \/ notes' = << "succeeded" >>
    BY <1>5, <2>1 DEF CompleteRequest, Through
  <2>3. Success
    BY <2>2 DEF Success
  <2>4. client \notin {"none", "ended"}
    BY <1>5 DEF BusInv, ClientInv
  <2> QED
    BY <2>3, <2>4
<1>6. CASE events[1].t = "out"
  <2>1. OutPending /\ OutReceived(events[1].len)
    BY <1>1, <1>2, <1>6 DEF Dispatch, Pending
  <2>2. CASE events[1].fin
    <3>1. state = "RX_STATUS" /\ Moved(host.moved)
      BY <2>1, <2>2 DEF OutPending
    <3>2. CompleteRequest
      BY <2>1, <3>1 DEF OutReceived
    <3> QED
      BY <1>2, <1>5, <2>2, <3>1, <3>2 DEF Moved
  <2>3. CASE ~events[1].fin
    <3>1. state = "RX_DATA" /\ handler = TRUE
      BY <2>1, <2>3 DEF OutPending, BusInv, ControlInv, ServedInv, TypeOK
    <3>2. /\ << "aborted" >> \in Seq(Plain) /\ << >> \in Seq(Plain)
          /\ << "packetReceived" >> \in Seq(Plain)
      BY DEF Plain, Note
    <3>3. notes' \in Seq(Plain)
      <4>1. CASE AbortRequest(<< "aborted" >>)
        BY <3>2, <4>1 DEF AbortRequest
      <4>2. CASE StreamReceiveNext(dataLength + events[1].len, setup, << "packetReceived" >>)
        BY <3>2, <4>2, ReceivedPlain
      <4>3. CASE HandleControl(handler, "TX_STATUS", << >>, << Transmit(0) >>)
        <5>1. HandleControl(TRUE, "TX_STATUS", << >>, << Transmit(0) >>)
          BY <3>1, <4>3
        <5> QED
          BY <3>2, <5>1, HandledPlain
      <4> QED
        BY <2>1, <3>1, <4>1, <4>2, <4>3 DEF OutReceived
    <3> QED
      BY <1>2, <2>3, <3>3, PlainFails
  <2> QED
    BY <2>2, <2>3
<1>7. CASE events[1].t = "tx"
  <2>1. TxPending /\ TransmitComplete
    BY <1>1, <1>2, <1>7 DEF Dispatch, Pending
  <2>2. CASE events[1].fin
    <3>1. state = "TX_STATUS" /\ CompleteRequest
      BY <2>1, <2>2 DEF TxPending, TransmitComplete
    <3>2. events' = << >> => Moved(host.moved)
      <4>1. Len(events) \in {1, 2} /\ (Len(events) = 2 => Tail(events) # << >>)
        BY <1>1, PulledFacts, QueueFacts DEF BusInv
      <4> QED
        BY <1>1, <2>1, <2>2, <3>1, <4>1 DEF TxPending
    <3> QED
      BY <1>2, <1>5, <2>2, <3>1, <3>2 DEF Moved
  <2>3. CASE ~events[1].fin
    <3>1. state \in {"TX_MORE_DATA", "TX_DATA"}
      BY <2>1, <2>3 DEF TxPending
    <3>2. << "transmitComplete" >> \in Seq(Plain) /\ << >> \in Seq(Plain)
      BY DEF Plain, Note
    <3>3. CASE state = "TX_DATA"
      <4>1. notes' \in Seq(Plain)
        BY <2>1, <3>2, <3>3 DEF TransmitComplete
      <4> QED
        BY <1>2, <2>3, <4>1, PlainFails
    <3>4. CASE state = "TX_MORE_DATA"
      <4>1. streamer
        BY <3>4 DEF BusInv, ControlInv, ServedInv
      <4>2. StreamerPulled(dataLength, setup, << "transmitComplete" >>)
        BY <2>1, <3>4, <4>1 DEF TransmitComplete, Through
      <4>3. notes' \in Seq(Plain)
        BY <3>2, <4>2, PulledPlain
      <4> QED
        BY <1>2, <2>3, <4>3, PlainFails
    <3> QED
      BY <3>1, <3>3, <3>4
  <2> QED
    BY <2>2, <2>3
<1>8. events[1].t \in {"reset", "setup", "badSetup", "out", "tx"}
  BY <1>1, PulledFacts DEF EventType
<1> QED
  BY <1>3, <1>4, <1>6, <1>7, <1>8

\* Success is told to the application exactly when the host has ended the
\* status stage of a request not aborted before, and both have moved the same
\* number of bytes.
THEOREM BusAgreement == BusSpec => Agreement
<1>1. BusInv /\ [BusNext]_busVars
        => [Pulled /\ ~ZeroLengthIn
              => /\ Success <=> Head(events).fin /\ client \notin {"none", "ended"}
                 /\ Success /\ streamer /\ events' = << >> /\ host.stage = "idle"
                      => dataLength = host.moved]_busVars
  BY OnlyPull, PullAgrees
<1>2. BusSpec => [][BusNext]_busVars
  BY PTL DEF BusSpec
<1> QED
  BY <1>1, <1>2, BusInvariant, PTL DEF Agreement

\* With a host and a controller that keep their side, the endpoint makes no step
\* that ControlEndpoint does not have: what is proved of Spec holds on the bus.
THEOREM BusEndpoint == BusSpec => Spec
<1>1. BusInit => Init
  BY DEF BusInit
<1>2. BusInv /\ [BusNext]_busVars => [Next]_epVars
  <2> SUFFICES ASSUME BusInv, [BusNext]_busVars PROVE [Next]_epVars
    OBVIOUS
  <2>1. CASE Pull \/ Streamer
    BY <2>1, EndpointMoves
  <2>2. CASE HostStep
    BY <2>2 DEF HostStep, epVars
  <2>3. CASE UNCHANGED busVars
    BY <2>3 DEF busVars, epVars
  <2> QED
    BY <2>1, <2>2, <2>3
       DEF BusNext, HostSetup, HostMoves, HostIn, HostOut, HostStalled, HostReset
<1>3. BusSpec => BusInit /\ [][BusNext]_busVars
  BY PTL DEF BusSpec
<1> QED
  BY <1>1, <1>2, <1>3, BusInvariant, PTL DEF Spec

-----------------------------------------------------------------------------
(* StandardReplies.                                                        *)

\* m_streamer, and where it has to be when d bytes of the reply are sent.
ReaderType == [rest : Seq(Nat), next : Nat \ {0}, first : BOOLEAN]

Ready(q, m, d) ==
    IF q = "serial"
    THEN IF m.first THEN d = 0 /\ m.next = 1 ELSE d = 2 * m.next
    ELSE /\ q \in DOMAIN Descriptor /\ d <= Len(Descriptor[q])
         /\ m.rest = SubSeq(Descriptor[q], d + 1, Len(Descriptor[q]))

\* What a streamer reads: a descriptor, or the string and the memory behind it, as
\* far as the host may ask; and what handleControl() answers.
Source(q) ==
    CASE q \in DOMAIN Descriptor -> Descriptor[q]
      [] q = "serial" -> Header \o Wide(1, MaxTransfer)
      [] OTHER -> OneShotReply(q)

\* The first bytes of w, and as many.
StartOf(s, w) == /\ s \in Seq(Nat) /\ Len(s) <= Len(w)
                 /\ \A i \in 1..Len(s) : s[i] = w[i]

\* While a standard reply is on its way, what left of it is right and the
\* streamer is where the endpoint believes it to be.
Underway ==
    asked # "other" /\ state \in {"TX_MORE_DATA", "TX_DATA", "RX_STATUS"} =>
        /\ StartOf(sent, Source(asked))
        /\ asked \in Streamed => dataLength = Len(sent)
        /\ state # "TX_MORE_DATA" => Len(sent) = Smaller(setup.wLength, Len(Source(asked)))
        /\ state = "TX_MORE_DATA" => /\ asked \in Streamed
                                     /\ dataLength = Len(sent)
                                     /\ Ready(asked, m_streamer, Len(sent))

RepliesInv ==
    /\ ControlInv
    /\ asked \in Request \cup {"other"}
    /\ m_streamer \in ReaderType
    /\ Underway

-----------------------------------------------------------------------------
(* The replies and the streamers.                                          *)

LEMMA SmallerIs ==
    ASSUME NEW a \in Int, NEW b \in Int
    PROVE  /\ Smaller(a, b) \in {a, b} /\ Smaller(a, b) <= a /\ Smaller(a, b) <= b
BY DEF Smaller

LEMMA WideIs ==
    ASSUME NEW from \in Nat \ {0}, NEW n \in Nat
    PROVE  /\ Wide(from, n) \in Seq(Nat) /\ Len(Wide(from, n)) = 2 * n
           /\ \A k \in 1..(2 * n) :
                  Wide(from, n)[k] = IF k % 2 = 1 THEN Character(from + k \div 2) ELSE 0
<1>1. \A i \in Nat \ {0} : Character(i) \in Nat
  <2> SUFFICES ASSUME NEW i \in Nat \ {0} PROVE Character(i) \in Nat
    OBVIOUS
  <2>1. Len(Serial) \in Nat /\ (i <= Len(Serial) => Serial[i] \in Nat)
    BY RepliesAssumption, LenProperties, ElementOfSeq
  <2> QED
    BY <2>1 DEF Character
<1>2. \A k \in 1..(2 * n) : (IF k % 2 = 1 THEN Character(from + k \div 2) ELSE 0) \in Nat
  <2> SUFFICES ASSUME NEW k \in 1..(2 * n), k % 2 = 1
               PROVE  Character(from + k \div 2) \in Nat
    OBVIOUS
  <2>1. from + k \div 2 \in Nat \ {0}
    OBVIOUS
  <2> QED
    BY <1>1, <2>1
<1>3. Wide(from, n) \in [1..(2 * n) -> Nat] /\ 2 * n \in Nat
  BY <1>2 DEF Wide
<1>4. Wide(from, n) \in Seq(Nat)
  BY <1>3, SeqDef
<1>5. Len(Wide(from, n)) = 2 * n
  BY <1>3, <1>4, LenProperties
<1> QED
  BY <1>4, <1>5 DEF Wide

LEMMA WideFromOne ==
    ASSUME NEW n \in Nat
    PROVE  /\ Wide(1, n) \in Seq(Nat) /\ Len(Wide(1, n)) = 2 * n
           /\ \A k \in 1..(2 * n) :
                  Wide(1, n)[k] = IF k % 2 = 1 THEN Character(1 + k \div 2) ELSE 0
<1>1. 1 \in Nat \ {0}
  OBVIOUS
<1> QED
  BY <1>1, WideIs

\* The string from its second packet on.
LEMMA StreamerMoves ==
    ASSUME NEW m \in ReaderType, NEW n \in Nat \ {0}, NEW a,
           a = [m EXCEPT !.next = n, !.first = FALSE]
    PROVE  a \in ReaderType /\ a.next = n /\ a.first = FALSE
BY DEF ReaderType

LEMMA HeaderIs == Header \in Seq(Nat) /\ Len(Header) = 2
<1>1. Len(Serial) \in Nat
  BY RepliesAssumption, LenProperties
<1> QED
  BY <1>1 DEF Header

\* A reply is a sequence, and a descriptor or string longer than the host can ask.
LEMMA ReplyIs ==
    ASSUME NEW q \in Request
    PROVE  /\ Source(q) \in Seq(Nat)
           /\ q \in DOMAIN Descriptor => Source(q) = Descriptor[q]
           /\ q = "serial" => /\ Source(q) = Header \o Wide(1, MaxTransfer)
                              /\ Len(Source(q)) = 2 + 2 * MaxTransfer
           /\ q \notin Streamed => Source(q) = OneShotReply(q)
<1>1. MaxTransfer \in Nat
  BY ControlAssumption
<1>2. "serial" \notin DOMAIN Descriptor /\ DOMAIN Descriptor = {"device", "config", "string"}
  BY RepliesAssumption
<1>3. /\ Header \o Wide(1, MaxTransfer) \in Seq(Nat)
      /\ Len(Header \o Wide(1, MaxTransfer)) = 2 + 2 * MaxTransfer
  <2> DEFINE wide == Wide(1, MaxTransfer)
  <2>1. wide \in Seq(Nat) /\ Len(wide) = 2 * MaxTransfer
    BY <1>1, WideIs
  <2> HIDE DEF wide
  <2>2. Header \o wide \in Seq(Nat) /\ Len(Header \o wide) = Len(Header) + Len(wide)
    BY <2>1, HeaderIs, ConcatProperties
  <2>3. Len(Header \o wide) = 2 + 2 * MaxTransfer
    BY <2>1, <2>2, HeaderIs
  <2> QED
    BY <2>2, <2>3 DEF wide
<1>4. OneShotReply(q) \in Seq(Nat)
  BY DEF OneShotReply
<1>5. \A d \in DOMAIN Descriptor : Descriptor[d] \in Seq(Nat)
  BY RepliesAssumption
<1>6. CASE q \in DOMAIN Descriptor
  BY <1>2, <1>5, <1>6 DEF Source, Streamed
<1>7. CASE q = "serial"
  BY <1>2, <1>3, <1>7 DEF Source, Streamed
<1>8. CASE q \notin DOMAIN Descriptor /\ q # "serial"
  BY <1>4, <1>8 DEF Source, Streamed
<1> QED
  BY <1>6, <1>7, <1>8

\* A streamer that is set up is ready for the first byte.
LEMMA PreparedReady ==
    ASSUME NEW q \in Request
    PROVE  Prepared(q) \in ReaderType /\ (q \in Streamed => Ready(q, Prepared(q), 0))
<1>1. DOMAIN Descriptor = {"device", "config", "string"}
  BY RepliesAssumption
<1>2. CASE q \in DOMAIN Descriptor
  <2> DEFINE d == Descriptor[q]
  <2>1. d \in Seq(Nat) /\ Len(d) \in Nat /\ SubSeq(d, 1, LengthIn(q, d)) = d
    BY <1>2, RepliesAssumption, LengthAssumption, SubSeqFull, LenProperties
  <2>2. Prepared(q) = [rest |-> d, next |-> 1, first |-> TRUE]
    BY <1>2, <2>1 DEF Prepared
  <2>3. d = SubSeq(d, 0 + 1, Len(d))
    BY <2>1, SubSeqFull
  <2> QED
    BY <1>1, <1>2, <2>1, <2>2, <2>3 DEF ReaderType, Ready
<1>3. CASE q \notin DOMAIN Descriptor
  BY <1>1, <1>3 DEF Prepared, ReaderType, Ready, Streamed
<1> QED
  BY <1>2, <1>3

\* What a descriptor's streamer offers is the next packet of the descriptor.
LEMMA BytesNext ==
    ASSUME NEW q \in DOMAIN Descriptor, NEW m \in ReaderType, NEW d \in Nat, Ready(q, m, d)
    PROVE  LET w == Descriptor[q]
               p == BytePacket(m)
           IN  /\ p \in Seq(Nat) /\ Len(p) = Smaller(Len(w) - d, MaxPacket)
               /\ \A i \in 1..Len(p) : p[i] = w[d + i]
               /\ After(q, m) \in ReaderType
               /\ Ready(q, After(q, m), d + Len(p))
<1> DEFINE w == Descriptor[q]
           l == Len(w)
           r == m.rest
           n == Smaller(Len(r), MaxPacket)
           p == BytePacket(m)
<1>1. q # "serial" /\ w \in Seq(Nat) /\ l \in Nat /\ MaxPacket \in Nat \ {0}
  BY RepliesAssumption, ControlAssumption, LenProperties
<1>2. r = SubSeq(w, d + 1, l) /\ d <= l
  BY <1>1 DEF Ready
<1>3. \A i \in 1..l : w[i] \in Nat
  BY <1>1, ElementOfSeq
<1>4. \A i \in (d + 1)..l : w[i] \in Nat
  BY <1>1, <1>3
<1>5. /\ r \in Seq(Nat) /\ Len(r) = l - d
      /\ \A i \in 1..(l - d) : r[i] = w[d + i]
  <2>1. /\ r \in Seq(Nat)
        /\ Len(r) = IF d + 1 <= l THEN l - (d + 1) + 1 ELSE 0
        /\ \A i \in 1..(l - (d + 1) + 1) : r[i] = w[(d + 1) + i - 1]
    BY <1>1, <1>2, <1>4, SubSeqProperties
  <2> HIDE DEF l, r, w
  <2> QED
    BY <1>1, <1>2, <2>1
<1> HIDE DEF l, r, w, n, p
<1>6. n = Smaller(l - d, MaxPacket) /\ n \in 0..(l - d) /\ n \in Nat
  <2>1. l - d \in Nat /\ n = Smaller(l - d, MaxPacket)
    BY <1>1, <1>2, <1>5 DEF n
  <2> QED
    BY <1>1, <2>1 DEF Smaller
<1>7. \A i \in 1..(l - d) : r[i] \in Nat
  BY <1>1, <1>2, <1>4, <1>5
<1>8. p = SubSeq(r, 1, n)
  BY DEF p, n, r, BytePacket
<1>9. /\ p \in Seq(Nat) /\ Len(p) = n
      /\ \A i \in 1..n : p[i] = r[i]
  <2>1. \A i \in 1..n : r[i] \in Nat
    BY <1>1, <1>6, <1>7
  <2>2. /\ SubSeq(r, 1, n) \in Seq(Nat)
        /\ Len(SubSeq(r, 1, n)) = IF 1 <= n THEN n - 1 + 1 ELSE 0
        /\ \A i \in 1..(n - 1 + 1) : SubSeq(r, 1, n)[i] = r[1 + i - 1]
    BY <1>6, <2>1, SubSeqProperties
  <2> QED
    BY <1>6, <1>8, <2>2
<1>10. \A i \in 1..n : p[i] = w[d + i]
  <2> SUFFICES ASSUME NEW i \in 1..n PROVE p[i] = w[d + i]
    OBVIOUS
  <2>1. i \in 1..(l - d)
    BY <1>1, <1>6
  <2> QED
    BY <1>5, <1>9, <2>1
<1>11. SubSeq(r, n + 1, l - d) \in Seq(Nat) /\ SubSeq(r, n + 1, l - d) = SubSeq(w, d + n + 1, l)
  <2> DEFINE a == SubSeq(r, n + 1, l - d)
             b == SubSeq(w, d + n + 1, l)
  <2>1. \A i \in (n + 1)..(l - d) : r[i] \in Nat
    BY <1>1, <1>6, <1>7
  <2>2. \A i \in (d + n + 1)..l : w[i] \in Nat
    BY <1>1, <1>3, <1>6
  <2>3. /\ a \in Seq(Nat)
        /\ Len(a) = IF n + 1 <= l - d THEN (l - d) - (n + 1) + 1 ELSE 0
        /\ \A i \in 1..((l - d) - (n + 1) + 1) : a[i] = r[(n + 1) + i - 1]
    <3>1. n + 1 \in Int /\ l - d \in Int
      BY <1>1, <1>6
    <3> QED
      BY <2>1, <3>1, SubSeqProperties
  <2>4. /\ b \in Seq(Nat)
        /\ Len(b) = IF d + n + 1 <= l THEN l - (d + n + 1) + 1 ELSE 0
        /\ \A i \in 1..(l - (d + n + 1) + 1) : b[i] = w[(d + n + 1) + i - 1]
    BY <1>1, <1>6, <2>2, SubSeqProperties
  <2> HIDE DEF a, b
  <2>5. Len(a) = l - d - n /\ Len(b) = l - d - n
    BY <1>1, <1>6, <2>3, <2>4
  <2>6. \A i \in 1..Len(a) : a[i] = b[i]
    <3> SUFFICES ASSUME NEW i \in 1..Len(a) PROVE a[i] = b[i]
      OBVIOUS
    <3>1. /\ i \in 1..((l - d) - (n + 1) + 1) /\ i \in 1..(l - (d + n + 1) + 1)
          /\ n + i \in 1..(l - d)
          /\ (n + 1) + i - 1 = n + i /\ (d + n + 1) + i - 1 = d + (n + i)
      <4> DEFINE k == Len(a)
      <4>1. k = l - d - n /\ i \in 1..k
        BY <2>5
      <4>2. l \in Int /\ d \in Int /\ n \in Int /\ n >= 0 /\ k \in Int
        BY <1>1, <1>6, <4>1
      <4> HIDE DEF k
      <4>3. i \in Int /\ 1 <= i /\ i <= k
        BY <4>1, <4>2
      <4>4. (l - d) - (n + 1) + 1 = k /\ l - (d + n + 1) + 1 = k /\ l - d = k + n
        BY <4>1, <4>2
      <4>5. n + i \in 1..(k + n)
        BY <4>2, <4>3
      <4>6. (n + 1) + i - 1 = n + i /\ (d + n + 1) + i - 1 = d + (n + i)
        BY <4>2, <4>3
      <4> QED
        BY <4>1, <4>4, <4>5, <4>6
    <3>2. a[i] = r[n + i] /\ b[i] = w[d + (n + i)]
      BY <2>3, <2>4, <3>1
    <3> QED
      BY <1>5, <3>1, <3>2
  <2>7. a = b
    BY <2>3, <2>4, <2>5, <2>6, SeqEqual
  <2> QED
    BY <2>3, <2>7 DEF a, b
<1>12. After(q, m) = [m EXCEPT !.rest = SubSeq(r, n + 1, l - d)]
  BY <1>1, <1>5, <1>9 DEF After, p, r
<1>13. After(q, m) \in ReaderType /\ After(q, m).rest = SubSeq(w, (d + n) + 1, l)
  BY <1>11, <1>12 DEF ReaderType
<1>14. Ready(q, After(q, m), d + n)
  BY <1>1, <1>6, <1>13 DEF Ready, w, l
<1> QED
  BY <1>6, <1>9, <1>10, <1>13, <1>14 DEF w, l, p

LEMMA EvenPacket == \E h \in Nat \ {0, 1} : MaxPacket = 2 * h
<1>1. MaxPacket \in Nat /\ MaxPacket % 2 = 0 /\ MaxPacket > 2
  BY ControlAssumption, RepliesAssumption
<1>2. MaxPacket = 2 * (MaxPacket \div 2) /\ MaxPacket \div 2 \in Nat \ {0, 1}
  BY <1>1
<1> QED
  BY <1>2

\* What the serial number's streamer offers is a full packet of the string.
LEMMA CharactersNext ==
    ASSUME NEW m \in ReaderType, NEW d \in Nat, Ready("serial", m, d)
    PROVE  LET w == Source("serial")
               p == StringPacket(m)
           IN  /\ p \in Seq(Nat) /\ Len(p) = MaxPacket
               /\ \A i \in 1..Len(p) : d + i <= Len(w) => p[i] = w[d + i]
               /\ After("serial", m) \in ReaderType
               /\ Ready("serial", After("serial", m), d + Len(p))
<1> DEFINE w == Source("serial")
           p == StringPacket(m)
           wide == Wide(1, MaxTransfer)
<1>1. PICK h \in Nat \ {0, 1} : MaxPacket = 2 * h
  BY EvenPacket
<1>2. m.next \in Nat \ {0} /\ m.first \in BOOLEAN
  BY DEF ReaderType
<1>3. w = Header \o wide /\ Header \in Seq(Nat) /\ Len(Header) = 2
  BY ReplyIs, HeaderIs DEF Request
<1>4. /\ MaxTransfer \in Nat /\ wide \in Seq(Nat) /\ Len(wide) = 2 * MaxTransfer
      /\ \A k \in 1..(2 * MaxTransfer) :
             wide[k] = IF k % 2 = 1 THEN Character(1 + k \div 2) ELSE 0
  BY ControlAssumption, WideFromOne
<1> HIDE DEF wide
<1>5. /\ Len(w) = 2 + 2 * MaxTransfer
      /\ \A j \in 1..(2 + 2 * MaxTransfer) : w[j] = IF j <= 2 THEN Header[j] ELSE wide[j - 2]
  <2>1. /\ Len(Header \o wide) = Len(Header) + Len(wide)
        /\ \A j \in 1..(Len(Header) + Len(wide)) :
              (Header \o wide)[j] = IF j <= Len(Header) THEN Header[j] ELSE wide[j - Len(Header)]
    BY <1>3, <1>4, ConcatProperties
  <2> HIDE DEF w
  <2> QED
    BY <1>3, <1>4, <2>1
<1> HIDE DEF w, p
<1>6. \A j \in 3..Len(w) : w[j] = IF j % 2 = 1 THEN Character(j \div 2) ELSE 0
  <2> SUFFICES ASSUME NEW j \in 3..Len(w)
               PROVE  w[j] = IF j % 2 = 1 THEN Character(j \div 2) ELSE 0
    OBVIOUS
  <2>1. /\ j - 2 \in 1..(2 * MaxTransfer) /\ j \in 1..(2 + 2 * MaxTransfer) /\ ~(j <= 2)
        /\ (j - 2) % 2 = j % 2 /\ 1 + (j - 2) \div 2 = j \div 2
    BY <1>4, <1>5
  <2> QED
    BY <1>4, <1>5, <2>1
<1>7. CASE m.first
  <2> DEFINE x == Wide(1, h - 1)
  <2>1. d = 0 /\ m.next = 1
    BY <1>7 DEF Ready
  <2>2. p = Header \o x
    <3>1. (MaxPacket - Len(Header)) \div 2 = h - 1
      BY <1>1, <1>3
    <3> QED
      BY <1>7, <2>1, <3>1 DEF p, StringPacket
  <2>3. /\ x \in Seq(Nat) /\ Len(x) = 2 * (h - 1)
        /\ \A k \in 1..(2 * (h - 1)) : x[k] = IF k % 2 = 1 THEN Character(1 + k \div 2) ELSE 0
    <3>1. h - 1 \in Nat
      OBVIOUS
    <3> QED
      BY <3>1, WideFromOne
  <2> HIDE DEF x
  <2>4. /\ p \in Seq(Nat) /\ Len(p) = 2 + Len(x)
        /\ \A j \in 1..(2 + Len(x)) : p[j] = IF j <= 2 THEN Header[j] ELSE x[j - 2]
    <3>1. /\ Header \o x \in Seq(Nat) /\ Len(Header \o x) = Len(Header) + Len(x)
          /\ \A j \in 1..(Len(Header) + Len(x)) :
                (Header \o x)[j] = IF j <= Len(Header) THEN Header[j] ELSE x[j - Len(Header)]
      BY <1>3, <2>3, ConcatProperties
    <3> QED
      BY <1>3, <2>2, <3>1
  <2>5. Len(p) = MaxPacket
    BY <1>1, <2>3, <2>4
  <2>6. ASSUME NEW i \in 1..Len(p), d + i <= Len(w) PROVE p[i] = w[d + i]
    <3>1. i \in 1..(2 + Len(x)) /\ d + i = i /\ i <= 2 + 2 * MaxTransfer
      BY <1>5, <2>1, <2>4, <2>6
    <3>2. CASE i <= 2
      BY <1>4, <1>5, <2>4, <3>1, <3>2
    <3>3. CASE i > 2
      <4>1. /\ i - 2 \in 1..(2 * (h - 1)) /\ ~(i <= 2) /\ i \in 3..Len(w)
            /\ (i - 2) % 2 = i % 2 /\ 1 + (i - 2) \div 2 = i \div 2
        BY <1>4, <1>5, <2>3, <3>1, <3>3
      <4>2. p[i] = x[i - 2]
        BY <2>4, <3>1, <4>1
      <4> QED
        BY <1>6, <2>3, <3>1, <4>1, <4>2
    <3> QED
      BY <3>1, <3>2, <3>3
  <2>7. After("serial", m) = [m EXCEPT !.next = h, !.first = FALSE]
    <3>1. 1 + (MaxPacket - 2) \div 2 = h
      BY <1>1
    <3> QED
      BY <1>7, <2>1, <3>1 DEF After, ReaderType
  <2>8. After("serial", m) \in ReaderType /\ Ready("serial", After("serial", m), d + MaxPacket)
    <3>1. After("serial", m) \in ReaderType /\ After("serial", m).next = h
          /\ After("serial", m).first = FALSE
      <4>1. h \in Nat \ {0}
        OBVIOUS
      <4> QED
        BY <2>7, <4>1, StreamerMoves
    <3>2. d + MaxPacket = 2 * h
      BY <1>1, <2>1
    <3> QED
      BY <3>1, <3>2 DEF Ready
  <2> QED
    BY <2>4, <2>5, <2>6, <2>8 DEF w, p
<1>8. CASE ~m.first
  <2> DEFINE x == Wide(m.next, h)
  <2>1. d = 2 * m.next
    BY <1>8 DEF Ready
  <2>2. p = x
    <3>1. << >> \o x = x /\ x \in Seq(Nat)
      BY <1>2, WideIs, ConcatEmptySeq
    <3>2. (MaxPacket - Len(<< >>)) \div 2 = h
      BY <1>1, EmptySeq
    <3> QED
      BY <1>8, <3>1, <3>2 DEF p, StringPacket
  <2>3. /\ p \in Seq(Nat) /\ Len(p) = 2 * h
        /\ \A k \in 1..(2 * h) :
               p[k] = IF k % 2 = 1 THEN Character(m.next + k \div 2) ELSE 0
    BY <1>2, <2>2, WideIs
  <2>4. ASSUME NEW i \in 1..Len(p), d + i <= Len(w) PROVE p[i] = w[d + i]
    <3> DEFINE n == m.next
    <3>1. n \in Nat \ {0} /\ d = 2 * n /\ i \in 1..(2 * h)
      BY <1>2, <2>1, <2>3
    <3> HIDE DEF n
    <3>2. /\ d + i \in 3..Len(w)
          /\ (d + i) % 2 = i % 2 /\ (d + i) \div 2 = n + i \div 2
      BY <1>4, <1>5, <2>4, <3>1
    <3>3. p[i] = IF i % 2 = 1 THEN Character(n + i \div 2) ELSE 0
      BY <2>3, <3>1 DEF n
    <3> QED
      BY <1>6, <3>2, <3>3
  <2>5. After("serial", m) = [m EXCEPT !.next = @ + h, !.first = FALSE]
    <3>1. MaxPacket \div 2 = h
      BY <1>1
    <3> QED
      BY <1>8, <3>1 DEF After, ReaderType
  <2>6. After("serial", m) \in ReaderType /\ Ready("serial", After("serial", m), d + MaxPacket)
    <3> DEFINE n == m.next
               a == After("serial", m)
    <3>1. a \in ReaderType /\ a.next = n + h /\ a.first = FALSE
      <4>1. a = [m EXCEPT !.next = n + h, !.first = FALSE]
        BY <2>5
      <4>2. n + h \in Nat \ {0}
        BY <1>2
      <4> QED
        BY <4>1, <4>2, StreamerMoves
    <3> HIDE DEF a, n
    <3>2. n \in Nat /\ d = 2 * n /\ d + MaxPacket = 2 * (n + h)
      BY <1>1, <1>2, <2>1 DEF n
    <3> QED
      BY <3>1, <3>2 DEF Ready, a
  <2>7. Len(p) = MaxPacket
    BY <1>1, <2>3
  <2> QED
    BY <2>3, <2>4, <2>6, <2>7 DEF w, p
<1> QED
  BY <1>2, <1>7, <1>8

\* Either way: a packet's worth of the reply, and a short packet ends it.
LEMMA PacketNext ==
    ASSUME NEW q \in Streamed, NEW m \in ReaderType, NEW d \in Nat, Ready(q, m, d)
    PROVE  LET w == Source(q)
               p == Packet(q, m)
           IN  /\ p \in Seq(Nat) /\ Len(p) \in 0..MaxPacket
               /\ \A i \in 1..Len(p) : d + i <= Len(w) => p[i] = w[d + i]
               /\ After(q, m) \in ReaderType
               /\ Len(p) = MaxPacket => Ready(q, After(q, m), d + Len(p))
               /\ Len(w) \in Nat
               /\ IF q = "serial" THEN Len(p) = MaxPacket /\ MaxTransfer < Len(w)
                  ELSE d <= Len(w) /\ Len(p) = Smaller(Len(w) - d, MaxPacket)
<1>1. q \in Request /\ DOMAIN Descriptor = {"device", "config", "string"}
  BY RepliesAssumption DEF Streamed, Request
<1>2. MaxPacket \in Nat /\ MaxTransfer \in Nat
  BY ControlAssumption
<1>3. CASE q = "serial"
  <2> DEFINE p == StringPacket(m)
             w == Source("serial")
  <2>1. /\ p \in Seq(Nat) /\ Len(p) = MaxPacket
        /\ \A i \in 1..Len(p) : d + i <= Len(w) => p[i] = w[d + i]
        /\ After("serial", m) \in ReaderType
        /\ Ready("serial", After("serial", m), d + Len(p))
    BY <1>3, CharactersNext
  <2>2. Len(w) = 2 + 2 * MaxTransfer
    BY <1>1, <1>3, ReplyIs
  <2>3. Packet(q, m) = p
    BY <1>3 DEF Packet
  <2> HIDE DEF p, w
  <2>4. Len(w) \in Nat /\ MaxTransfer < Len(w) /\ Len(p) \in 0..MaxPacket
    BY <1>2, <2>1, <2>2
  <2> QED
    BY <1>3, <2>1, <2>3, <2>4 DEF w
<1>4. CASE q # "serial"
  <2> DEFINE p == BytePacket(m)
             w == Descriptor[q]
  <2>1. q \in DOMAIN Descriptor /\ w \in Seq(Nat)
    BY <1>1, <1>4, RepliesAssumption DEF Streamed
  <2>2. /\ p \in Seq(Nat) /\ Len(p) = Smaller(Len(w) - d, MaxPacket)
        /\ \A i \in 1..Len(p) : p[i] = w[d + i]
        /\ After(q, m) \in ReaderType
        /\ Ready(q, After(q, m), d + Len(p))
    BY <2>1, BytesNext
  <2>3. Packet(q, m) = p /\ Source(q) = w
    BY <1>1, <1>4, <2>1, ReplyIs DEF Packet
  <2>4. d <= Len(w) /\ Len(w) \in Nat
    BY <1>4, <2>1, LenProperties DEF Ready
  <2> HIDE DEF p, w
  <2>5. Len(p) \in 0..MaxPacket
    BY <1>2, <2>2, <2>4 DEF Smaller
  <2> QED
    BY <1>4, <2>2, <2>3, <2>4, <2>5
<1> QED
  BY <1>3, <1>4

\* A sequence continued with what follows next in w.
LEMMA GrowsRight ==
    ASSUME NEW w \in Seq(Nat), NEW before, StartOf(before, w),
           NEW p \in Seq(Nat), NEW n \in 0..Len(p), Len(before) + n <= Len(w),
           \A i \in 1..n : p[i] = w[Len(before) + i]
    PROVE  LET t == before \o SubSeq(p, 1, n)
           IN  StartOf(t, w) /\ Len(t) = Len(before) + n
<1> DEFINE d == Len(before)
           c == SubSeq(p, 1, n)
           t == before \o c
<1>1. before \in Seq(Nat) /\ d \in Nat /\ \A i \in 1..d : before[i] = w[i]
  BY LenProperties DEF StartOf
<1>2. Len(p) \in Nat /\ Len(w) \in Nat /\ n \in Nat
  BY LenProperties
<1>3. /\ c \in Seq(Nat) /\ Len(c) = n /\ \A i \in 1..n : c[i] = p[i]
  <2>1. \A i \in 1..n : p[i] \in Nat
    <3> SUFFICES ASSUME NEW i \in 1..n PROVE p[i] \in Nat
      OBVIOUS
    <3>1. i \in 1..Len(p)
      BY <1>2
    <3> QED
      BY <3>1, ElementOfSeq
  <2>2. /\ c \in Seq(Nat) /\ Len(c) = IF 1 <= n THEN n - 1 + 1 ELSE 0
        /\ \A i \in 1..(n - 1 + 1) : c[i] = p[1 + i - 1]
    BY <1>2, <2>1, SubSeqProperties
  <2> HIDE DEF c
  <2> QED
    BY <1>2, <2>2
<1> HIDE DEF c
<1>4. /\ t \in Seq(Nat) /\ Len(t) = d + Len(c)
      /\ \A i \in 1..(d + Len(c)) : t[i] = IF i <= d THEN before[i] ELSE c[i - d]
  BY <1>1, <1>3, ConcatProperties
<1> HIDE DEF t
<1>5. ASSUME NEW i \in 1..(d + n) PROVE t[i] = w[i]
  <2>1. t[i] = IF i <= d THEN before[i] ELSE c[i - d]
    BY <1>3, <1>4
  <2>2. CASE i <= d
    BY <1>1, <2>1, <2>2
  <2>3. CASE i > d
    <3> DEFINE j == i - d
    <3>1. j \in 1..n /\ d + j = i /\ ~(i <= d)
      BY <1>1, <1>2, <2>3
    <3> HIDE DEF j
    <3>2. c[j] = w[d + j]
      BY <1>3, <3>1
    <3> QED
      BY <2>1, <3>1, <3>2 DEF j
  <2> QED
    BY <1>1, <1>2, <2>2, <2>3
<1> HIDE DEF d
<1>6. Len(t) = d + n /\ d + n <= Len(w)
  BY <1>3, <1>4 DEF d
<1>7. StartOf(t, w)
  BY <1>4, <1>5, <1>6 DEF StartOf
<1> QED
  BY <1>6, <1>7 DEF t, c, d

-----------------------------------------------------------------------------
(* The steps.                                                              *)

\* transmitComplete() of a standard streamer keeps the reply right.
LEMMA StreamRight ==
    ASSUME NEW q \in Streamed, NEW m \in ReaderType, NEW s \in SetupPacket,
           NEW d \in 0..s.wLength, NEW before, StartOf(before, Source(q)),
           Len(before) = d, Ready(q, m, d), NEW told,
           Stream(q, m, d, s, told, before), asked' = q, setup' = s
    PROVE  Underway' /\ m_streamer' \in ReaderType
<1> DEFINE w == Source(q)
           p == Packet(q, m)
           k == s.wLength
           n == Smaller(Len(p), k - d)
           t == before \o SubSeq(p, 1, n)
           l == Len(w)
           j == Len(p)
<1>1. k \in 0..MaxTransfer /\ MaxTransfer \in Nat /\ MaxPacket \in Nat \ {0}
  BY ControlAssumption DEF SetupPacket
<1>2. d \in Nat /\ d <= k
  BY <1>1
<1>3. /\ p \in Seq(Nat) /\ j \in 0..MaxPacket
      /\ \A i \in 1..j : d + i <= l => p[i] = w[d + i]
      /\ After(q, m) \in ReaderType
      /\ j = MaxPacket => Ready(q, After(q, m), d + j)
      /\ l \in Nat
      /\ IF q = "serial" THEN j = MaxPacket /\ MaxTransfer < l
         ELSE d <= l /\ j = Smaller(l - d, MaxPacket)
  BY <1>2, PacketNext
<1>4. w \in Seq(Nat)
  BY ReplyIs DEF Streamed, Request
<1>5. /\ sent' = t /\ m_streamer' = After(q, m) /\ dataLength' = d + n
      /\ state' = IF d + n = k \/ n < MaxPacket THEN "TX_DATA" ELSE "TX_MORE_DATA"
  BY DEF Stream, TransmitPacket, Serve
<1> HIDE DEF w, p, k, l, j, n, t
<1>6. n = Smaller(j, k - d)
  BY DEF n, j
<1>7. /\ n \in 0..j /\ d + n <= k /\ (n = j \/ d + n = k)
  BY <1>1, <1>2, <1>3, <1>6 DEF Smaller
<1>8. d + n <= l /\ (n < MaxPacket => d + n = k \/ d + n = l)
  <2>1. CASE q = "serial"
    BY <1>1, <1>2, <1>3, <1>7, <2>1
  <2>2. CASE q # "serial"
    BY <1>1, <1>2, <1>3, <1>7, <2>2 DEF Smaller
  <2> QED
    BY <2>1, <2>2
<1>9. \A i \in 1..n : p[i] = w[d + i]
  <2> SUFFICES ASSUME NEW i \in 1..n PROVE p[i] = w[d + i]
    OBVIOUS
  <2>1. i \in 1..j /\ d + i <= l
    BY <1>1, <1>2, <1>3, <1>7, <1>8
  <2> QED
    BY <1>3, <2>1
<1>10. StartOf(t, w) /\ Len(t) = d + n
  <2>1. StartOf(before, w) /\ n \in 0..Len(p) /\ Len(before) + n <= Len(w)
        /\ \A i \in 1..n : p[i] = w[Len(before) + i]
    BY <1>7, <1>8, <1>9 DEF w, j, l
  <2> QED
    BY <1>3, <1>4, <2>1, GrowsRight DEF t
<1>11. state' # "TX_MORE_DATA" => Len(t) = Smaller(k, l)
  BY <1>1, <1>2, <1>3, <1>5, <1>7, <1>8, <1>10 DEF Smaller
<1>12. state' = "TX_MORE_DATA" => Ready(q, After(q, m), Len(t))
  <2> SUFFICES ASSUME state' = "TX_MORE_DATA" PROVE Ready(q, After(q, m), Len(t))
    OBVIOUS
  <2>1. ~(n < MaxPacket)
    BY <1>5
  <2>2. n = MaxPacket /\ j = n
    BY <1>1, <1>3, <1>7, <2>1
  <2> QED
    BY <1>3, <1>10, <2>2
<1>13. sent' = t /\ Source(q) = w /\ setup'.wLength = k
  BY <1>5 DEF w, k
<1> QED
  BY <1>3, <1>5, <1>10, <1>11, <1>12, <1>13 DEF Underway, l

\* What the streamer offers is what ControlEndpoint lets a streamer do.
LEMMA StreamAllowed ==
    ASSUME NEW q, NEW m, NEW d, NEW s, NEW told, NEW before,
           Len(Packet(q, m)) \in 0..MaxPacket, Stream(q, m, d, s, told, before)
    PROVE  StreamerPulled(d, s, told)
BY DEF Stream, StreamerPulled

\* The reply of handleControl() fits the control buffer.
LEMMA OneShotFits ==
    ASSUME NEW q
    PROVE  OneShotReply(q) \in Seq(Nat) /\ Len(OneShotReply(q)) \in 0..MaxPacket
<1>1. MaxPacket \in Nat /\ MaxPacket > 2
  BY ControlAssumption, RepliesAssumption
<1>2. OneShotReply(q) \in {<< >>, << 0 >>, << 2 >>, << 1, 0 >>}
  BY DEF OneShotReply
<1>3. \A r \in {<< >>, << 0 >>, << 2 >>, << 1, 0 >>} : r \in Seq(Nat) /\ Len(r) \in {0, 1, 2}
  <2>1. << >> \in Seq(Nat) /\ Len(<< >>) = 0
    BY EmptySeq
  <2>2. << 0 >> \in Seq(Nat) /\ Len(<< 0 >>) = 1
    OBVIOUS
  <2>3. << 2 >> \in Seq(Nat) /\ Len(<< 2 >>) = 1
    OBVIOUS
  <2>4. << 1, 0 >> \in Seq(Nat) /\ Len(<< 1, 0 >>) = 2
    OBVIOUS
  <2> QED
    BY <2>1, <2>2, <2>3, <2>4
<1>4. {0, 1, 2} \subseteq 0..MaxPacket
  BY <1>1
<1> QED
  BY <1>2, <1>3, <1>4

\* A short reply is cut where the host's request ends.
LEMMA AnswerRight ==
    ASSUME NEW q \in Request \ (Streamed \cup Refused), NEW s \in SetupPacket, NEW told,
           Answer(q, s, told), asked' = q, setup' = s
    PROVE  Underway' /\ m_streamer' \in ReaderType
<1> DEFINE w == Source(q)
           k == s.wLength
           n == Smaller(Len(w), k)
           t == SubSeq(w, 1, n)
           l == Len(w)
<1>1. w = OneShotReply(q) /\ w \in Seq(Nat) /\ l \in Nat /\ k \in Nat
  BY ReplyIs, ControlAssumption, LenProperties DEF SetupPacket
<1>2. /\ state' = "TX_DATA" /\ dataLength' = 0 /\ sent' = t /\ m_streamer' = Idle
  BY <1>1 DEF Answer, Serve
<1>3. Idle \in ReaderType
  BY PreparedReady DEF Idle, Request
<1> HIDE DEF w, k, n, t
<1>4. n \in 0..l /\ n = Smaller(k, l) /\ l \in Nat
  BY <1>1 DEF n, Smaller
<1>5. t \in Seq(Nat) /\ Len(t) = n /\ \A i \in 1..n : t[i] = w[i]
  <2>1. \A i \in 1..n : w[i] \in Nat
    BY <1>1, <1>4, ElementOfSeq
  <2> HIDE DEF l
  <2>2. /\ t \in Seq(Nat) /\ Len(t) = IF 1 <= n THEN n - 1 + 1 ELSE 0
        /\ \A i \in 1..(n - 1 + 1) : t[i] = w[1 + i - 1]
    BY <1>4, <2>1, SubSeqProperties DEF t
  <2> QED
    BY <1>4, <2>2
<1> HIDE DEF l
<1>6. StartOf(t, w)
  BY <1>4, <1>5 DEF StartOf, l
<1>7. Source(q) = w /\ setup'.wLength = k
  BY DEF w, k
<1> QED
  BY <1>2, <1>3, <1>4, <1>5, <1>6, <1>7 DEF Underway, l

LEMMA AcceptsWell ==
    ASSUME NEW q \in Request PROVE SetupControl(q) \in ControlRequest
<1>1. {0, 1, 2, MaxTransfer} \subseteq 0..MaxTransfer
  BY ControlAssumption, RepliesAssumption
<1> QED
  BY <1>1 DEF SetupControl, ControlRequest

\* setupReceived() with the standard handler.
LEMMA StandardSetupStep ==
    ASSUME RepliesInv, NEW q \in Request, NEW s \in SetupPacket, StandardSetup(q, s)
    PROVE  SetupReceived(s) /\ Underway' /\ m_streamer' \in ReaderType
<1> DEFINE r == SetupControl(q)
           told == Abandoned \o << Acceptance(r) >>
<1>1. r \in ControlRequest /\ asked' = q
  BY AcceptsWell DEF StandardSetup
<1>2. Idle \in ReaderType
  BY PreparedReady DEF Idle, Request
<1>3. CASE q \in Refused /\ RefusedSetup(s, TRUE) /\ NothingSent
  <2>1. SetupReceived(s)
    BY <1>3 DEF SetupReceived
  <2>2. state' = "IDLE" /\ m_streamer' = Idle
    BY <1>3 DEF RefusedSetup, AbortRequest, NothingSent
  <2> QED
    BY <1>2, <2>1, <2>2 DEF Underway
<1>4. CASE /\ q \in Streamed /\ Valid(s, r) /\ setup' = s
           /\ Stream(q, Prepared(q), 0, s, told \o << "transmitComplete" >>, << >>)
  <2>1. r.outbound /\ r.streamed
    BY <1>4 DEF SetupControl
  <2>2. Prepared(q) \in ReaderType /\ Ready(q, Prepared(q), 0)
    BY <1>4, PreparedReady
  <2>3. Len(Packet(q, Prepared(q))) \in 0..MaxPacket
    BY <1>4, <2>2, PacketNext
  <2>4. StreamerPulled(0, s, told \o << "transmitComplete" >>)
    BY <1>4, <2>3, StreamAllowed
  <2>5. AcceptedSetup(s, r)
    BY <1>4, <2>1, <2>4 DEF AcceptedSetup
  <2>6. StartOf(<< >>, Source(q)) /\ Len(<< >>) = 0
    <3>1. Source(q) \in Seq(Nat)
      BY ReplyIs
    <3>2. Len(Source(q)) \in Nat
      BY <3>1, LenProperties
    <3>3. << >> \in Seq(Nat) /\ Len(<< >>) = 0
      BY EmptySeq
    <3> QED
      BY <3>2, <3>3 DEF StartOf
  <2>7. 0 \in 0..s.wLength
    BY ControlAssumption DEF SetupPacket
  <2>8. Underway' /\ m_streamer' \in ReaderType
    BY <1>1, <1>4, <2>2, <2>6, <2>7, StreamRight
  <2> QED
    BY <1>1, <2>5, <2>8 DEF SetupReceived
<1>5. CASE /\ q \notin Streamed \cup Refused /\ Valid(s, r) /\ r.outbound /\ setup' = s
           /\ Answer(q, s, told)
  <2> DEFINE n == Len(OneShotReply(q))
  <2>1. ~r.streamed
    BY <1>5 DEF SetupControl
  <2>2. n \in 0..MaxPacket
    BY OneShotFits
  <2>3. dataLength' = 0 /\ Serve("TX_DATA", FALSE, told \o << "handleControl" >>,
                                 << Transmit(Smaller(n, s.wLength)) >>)
    BY <1>5 DEF Answer
  <2> HIDE DEF n
  <2>4. HandleControl(TRUE, "TX_DATA", told, << Transmit(Smaller(n, s.wLength)) >>)
    BY <2>3 DEF HandleControl, Through
  <2>5. AcceptedSetup(s, r)
    BY <1>5, <2>1, <2>2, <2>3, <2>4 DEF AcceptedSetup
  <2>6. Underway' /\ m_streamer' \in ReaderType
    BY <1>1, <1>5, AnswerRight
  <2> QED
    BY <1>1, <2>5, <2>6 DEF SetupReceived
<1>6. CASE /\ q \notin Refused /\ (Valid(s, r) => ~r.outbound)
           /\ AcceptedSetup(s, r) /\ NothingSent
  <2>1. state' \notin {"TX_MORE_DATA", "TX_DATA", "RX_STATUS"}
    BY <1>6 DEF AcceptedSetup, AbortRequest, StreamReceiveNext, HandleControl, Serve
  <2> QED
    BY <1>1, <1>2, <1>6, <2>1 DEF SetupReceived, Underway, NothingSent
<1> QED
  BY <1>3, <1>4, <1>5, <1>6 DEF StandardSetup

\* setupReceived() with any other handler, or none.
LEMMA OtherSetupStep ==
    ASSUME RepliesInv, OtherSetup
    PROVE  /\ MalformedSetup \/ \E s \in SetupPacket : SetupReceived(s)
           /\ Underway' /\ m_streamer' \in ReaderType
<1>1. m_streamer' \in ReaderType
  BY PreparedReady DEF Idle, Request, OtherSetup, NothingSent
<1>2. Underway'
  BY DEF Underway, OtherSetup
<1>3. OtherLengths \subseteq 0..MaxTransfer
  BY RepliesAssumption
<1>4. [in : BOOLEAN, wLength : OtherLengths] \subseteq SetupPacket
  BY <1>3 DEF SetupPacket
<1>5. [streamed : BOOLEAN, outbound : BOOLEAN, maxLength : OtherLengths] \subseteq ControlRequest
  BY <1>3 DEF ControlRequest
<1>6. MalformedSetup \/ \E s \in SetupPacket : SetupReceived(s)
  BY <1>4, <1>5 DEF OtherSetup, SetupReceived
<1> QED
  BY <1>1, <1>2, <1>6

\* transmitComplete().
LEMMA StandardTransmitStep ==
    ASSUME RepliesInv, StandardTransmitComplete
    PROVE  TransmitComplete /\ Underway' /\ m_streamer' \in ReaderType
<1>1. asked' = asked /\ setup \in SetupPacket /\ m_streamer \in ReaderType
  BY DEF StandardTransmitComplete, RepliesInv, ControlInv, TypeOK
<1>2. CASE state = "TX_MORE_DATA" /\ asked # "other"
  <2> DEFINE told == Through(streamer, "transmitComplete")
  <2>1. /\ Stream(asked, m_streamer, dataLength, setup, told, sent) /\ setup' = setup
    BY <1>2 DEF StandardTransmitComplete
  <2>2. /\ asked \in Streamed /\ StartOf(sent, Source(asked)) /\ dataLength = Len(sent)
        /\ Ready(asked, m_streamer, dataLength)
    BY <1>2 DEF RepliesInv, Underway
  <2>3. dataLength \in 0..setup.wLength /\ dataLength \in Nat
    BY ControlAssumption DEF RepliesInv, ControlInv, TypeOK, DataStageInv, SetupPacket
  <2>4. Len(Packet(asked, m_streamer)) \in 0..MaxPacket
    BY <1>1, <2>2, <2>3, PacketNext
  <2>5. StreamerPulled(dataLength, setup, told)
    BY <2>1, <2>4, StreamAllowed
  <2>6. TransmitComplete
    BY <1>2, <2>1, <2>5 DEF TransmitComplete
  <2>7. Underway' /\ m_streamer' \in ReaderType
    BY <1>1, <2>1, <2>2, <2>3, StreamRight
  <2> QED
    BY <2>6, <2>7
<1>3. CASE ~(state = "TX_MORE_DATA" /\ asked # "other")
  <2>1. TransmitComplete /\ UNCHANGED <<m_streamer, sent>>
    BY <1>3 DEF StandardTransmitComplete
  <2>2. \/ state' = "IDLE" \/ asked = "other"
        \/ /\ state = "TX_DATA" /\ state' = "RX_STATUS"
           /\ UNCHANGED <<setup, dataLength>>
        \/ UNCHANGED <<state, setup, dataLength>>
    BY <1>3, <2>1 DEF TransmitComplete, CompleteRequest, Ignored
  <2>3. Underway'
    <3> SUFFICES ASSUME asked # "other" PROVE Underway'
      BY <1>1 DEF Underway
    <3> QED
      BY <1>1, <1>3, <2>1, <2>2 DEF Underway, RepliesInv
  <2> QED
    BY <1>1, <2>1, <2>3
<1> QED
  BY <1>2, <1>3

-----------------------------------------------------------------------------
(* The theorems.                                                           *)

LEMMA RepliesStart == RepliesInit => RepliesInv
<1> SUFFICES ASSUME RepliesInit PROVE RepliesInv
  OBVIOUS
<1>1. ControlInv
  BY ControlInit DEF RepliesInit
<1>2. m_streamer \in ReaderType
  BY PreparedReady DEF Idle, Request, RepliesInit
<1> QED
  BY <1>1, <1>2 DEF RepliesInv, RepliesInit, Underway

\* Every step is one the endpoint may take with any handler.
LEMMA RepliesStep ==
    ASSUME RepliesInv, RepliesNext
    PROVE  Next /\ RepliesInv'
<1>1. Next /\ Underway' /\ m_streamer' \in ReaderType /\ asked' \in Request \cup {"other"}
  <2>1. CASE \E q \in Request, s \in SetupPacket : StandardSetup(q, s)
    <3>1. PICK q \in Request : \E s \in SetupPacket : StandardSetup(q, s)
      BY <2>1
    <3>2. PICK s \in SetupPacket : StandardSetup(q, s)
      BY <3>1
    <3>3. asked' = q
      BY <3>2 DEF StandardSetup
    <3> QED
      BY <3>2, <3>3, StandardSetupStep DEF Next
  <2>2. CASE OtherSetup
    <3>1. asked' = "other"
      BY <2>2 DEF OtherSetup
    <3> QED
      BY <2>2, <3>1, OtherSetupStep DEF Next
  <2>3. CASE StandardTransmitComplete
    <3>1. asked' = asked
      BY <2>3 DEF StandardTransmitComplete
    <3> QED
      BY <2>3, <3>1, StandardTransmitStep DEF Next, RepliesInv
  <2>4. CASE /\ \/ \E length \in 0..MaxPacket : OutReceived(length)
                \/ Reset
                \/ asked = "other" /\ StreamerActs
             /\ UNCHANGED <<asked, m_streamer, sent>>
    <3>1. Next
      BY <2>4 DEF Next
    <3>2. CASE asked = "other"
      BY <2>4, <3>1, <3>2 DEF RepliesInv, Underway
    <3>3. CASE \E length \in 0..MaxPacket : OutReceived(length)
      <4>1. \/ state' \in {"IDLE", "WAITING", "RX_DATA", "TX_STATUS"}
            \/ UNCHANGED <<state, setup, dataLength>>
        BY <3>3 DEF OutReceived, CompleteRequest, AbortRequest, StreamReceiveNext,
                    HandleControl, Serve, Ignored
      <4> QED
        BY <2>4, <3>1, <4>1 DEF RepliesInv, Underway
    <3>4. CASE Reset
      BY <2>4, <3>1, <3>4 DEF RepliesInv, Underway, Reset
    <3> QED
      BY <2>4, <3>2, <3>3, <3>4
  <2> QED
    BY <2>1, <2>2, <2>3, <2>4 DEF RepliesNext
<1>2. ControlInv'
  BY <1>1, ControlStep DEF RepliesInv
<1> QED
  BY <1>1, <1>2 DEF RepliesInv

LEMMA RepliesStutter ==
    ASSUME RepliesInv, UNCHANGED replyVars
    PROVE  RepliesInv' /\ UNCHANGED epVars
<1>1. UNCHANGED epVars
  BY DEF replyVars, epVars
<1>2. ControlInv'
  BY <1>1, ControlStep DEF RepliesInv
<1> QED
  BY <1>1, <1>2 DEF RepliesInv, replyVars, Underway

\* What is left of a reply is right, and its streamer is where the endpoint
\* believes it to be.
THEOREM RepliesInvariant == RepliesSpec => []RepliesInv
<1>1. RepliesInv /\ [RepliesNext]_replyVars => RepliesInv'
  BY RepliesStep, RepliesStutter
<1> QED
  BY <1>1, RepliesStart, PTL DEF RepliesSpec

\* With the standard handler behind it the endpoint does nothing that it would
\* not do with the handlers ControlEndpoint assumes.
THEOREM RepliesKeepTheRules == RepliesSpec => KeepsTheRules
<1>1. RepliesInit => Init
  BY DEF RepliesInit
<1>2. RepliesInv /\ [RepliesNext]_replyVars => [Next]_epVars
  BY RepliesStep, RepliesStutter
<1> QED
  BY <1>1, <1>2, RepliesInvariant, PTL DEF RepliesSpec, KeepsTheRules, Spec

\* So no handler is called through a null pointer, ...
THEOREM RepliesNoNullDeref == RepliesSpec => []NoNullDeref
BY RepliesKeepTheRules, ControlNoNullDeref, PTL DEF KeepsTheRules

\* ... the bytes moved fit the stage of the transfer, ...
THEOREM RepliesDataStage == RepliesSpec => []DataStageInv
BY RepliesKeepTheRules, ControlDataStage, PTL DEF KeepsTheRules

\* ... only whole packets are followed by others, ...
THEOREM RepliesWholePackets == RepliesSpec => []WholePackets
BY RepliesKeepTheRules, ControlWholePackets, PTL DEF KeepsTheRules

\* ... and each handler hears of its request in the promised order.
THEOREM RepliesClient == RepliesSpec => ClientSpec
<1>1. RepliesInit => Init /\ ClientInit
  BY DEF RepliesInit
<1>2. RepliesInv /\ [RepliesNext]_replyVars => [Next /\ ClientFollows]_<<epVars, client>>
  <2>1. ASSUME RepliesInv, RepliesNext PROVE Next /\ ClientFollows
    BY <2>1, RepliesStep DEF RepliesNext
  <2>2. ASSUME RepliesInv, UNCHANGED replyVars PROVE UNCHANGED <<epVars, client>>
    BY <2>2, RepliesStutter DEF replyVars
  <2> QED
    BY <2>1, <2>2
<1> QED
  BY <1>1, <1>2, RepliesInvariant, PTL DEF RepliesSpec, ClientSpec

\* Every request accepted is ended before the next is looked at, and in order, ...
THEOREM RepliesClientContract == RepliesSpec => []ClientContract
BY RepliesClient, ClientContractKept, PTL

\* ... and nobody is left waiting for it.
THEOREM RepliesClientRemembered == RepliesSpec => []NobodyForgotten
BY RepliesClient, ClientNeverForgotten, PTL

\* The string descriptor of the first n characters from m_serialNumber on.
LEMMA StringIs ==
    ASSUME NEW n \in Nat, NEW text, text = Header \o Wide(1, n)
    PROVE  /\ Len(text) = 2 + 2 * n
           /\ \A i \in 1..(2 + 2 * n) :
                  text[i] =
                      IF i <= 2 THEN Header[i]
                      ELSE IF (i - 2) % 2 = 1 THEN Character(1 + (i - 2) \div 2) ELSE 0
<1> DEFINE wide == Wide(1, n)
           h == Header
<1>1. /\ wide \in Seq(Nat) /\ Len(wide) = 2 * n
      /\ \A k \in 1..(2 * n) : wide[k] = IF k % 2 = 1 THEN Character(1 + k \div 2) ELSE 0
  BY WideFromOne
<1>2. h \in Seq(Nat) /\ Len(h) = 2
  BY HeaderIs
<1> HIDE DEF wide, h
<1>3. /\ Len(h \o wide) = Len(h) + Len(wide)
      /\ \A j \in 1..(Len(h) + Len(wide)) :
             (h \o wide)[j] = IF j <= Len(h) THEN h[j] ELSE wide[j - Len(h)]
  BY <1>1, <1>2, ConcatProperties
<1>4. /\ Len(h \o wide) = 2 + 2 * n
      /\ \A j \in 1..(2 + 2 * n) : (h \o wide)[j] = IF j <= 2 THEN h[j] ELSE wide[j - 2]
  BY <1>1, <1>2, <1>3
<1>5. \A i \in 1..(2 + 2 * n) : i <= 2 \/ i - 2 \in 1..(2 * n)
  OBVIOUS
<1> QED
  BY <1>1, <1>4, <1>5 DEF wide, h

\* The serial number and what is read behind it have their first bytes in common.
LEMMA SerialStarts ==
    LET w == Source("serial")
        r == WholeReply("serial")
    IN  /\ Len(w) = 2 + 2 * MaxTransfer /\ Len(r) \in Nat
        /\ \A i \in 1..Len(w) : i <= Len(r) => w[i] = r[i]
<1>1. MaxTransfer \in Nat /\ Len(Serial) \in Nat
  BY ControlAssumption, RepliesAssumption, LenProperties
<1>2. "serial" \in Request
  BY DEF Request
<1>3. Source("serial") = Header \o Wide(1, MaxTransfer)
  BY <1>2, ReplyIs
<1>4. WholeReply("serial") = Header \o Wide(1, Len(Serial))
  BY DEF WholeReply
<1> DEFINE w == Source("serial")
           r == WholeReply("serial")
<1>5. w = Header \o Wide(1, MaxTransfer)
  BY <1>3
<1>6. r = Header \o Wide(1, Len(Serial))
  BY <1>4
<1> HIDE DEF w, r
<1>7. /\ Len(w) = 2 + 2 * MaxTransfer
      /\ \A i \in 1..(2 + 2 * MaxTransfer) :
             w[i] = IF i <= 2 THEN Header[i]
                    ELSE IF (i - 2) % 2 = 1 THEN Character(1 + (i - 2) \div 2) ELSE 0
  BY <1>1, <1>5, StringIs
<1>8. /\ Len(r) = 2 + 2 * Len(Serial)
      /\ \A i \in 1..(2 + 2 * Len(Serial)) :
             r[i] = IF i <= 2 THEN Header[i]
                    ELSE IF (i - 2) % 2 = 1 THEN Character(1 + (i - 2) \div 2) ELSE 0
  BY <1>1, <1>6, StringIs
<1>9. Len(r) \in Nat /\ \A i \in 1..Len(w) : i <= Len(r) => w[i] = r[i]
  BY <1>1, <1>7, <1>8
<1> QED
  BY <1>7, <1>9 DEF w, r

\* The host gets every descriptor from its first byte, nothing twice and nothing
\* left out, as much of it as it asked for; and nothing after it, unless it is
\* the serial number.
THEOREM RepliesRight == RepliesSpec => []ReplyRight
<1>1. RepliesInv => ReplyRight
  <2> SUFFICES ASSUME RepliesInv, Replying
               PROVE  ReplyRight
    BY DEF ReplyRight
  <2> DEFINE w == Source(asked)
             r == WholeReply(asked)
  <2>1. /\ asked \in Streamed /\ asked \in Request /\ asked # "other"
        /\ StartOf(sent, w) /\ dataLength = Len(sent)
        /\ state # "TX_MORE_DATA" => Len(sent) = Smaller(setup.wLength, Len(w))
    BY DEF RepliesInv, Underway, Replying, Streamed, Request
  <2>2. Len(sent) \in Nat /\ Len(sent) <= Len(w) /\ \A i \in 1..Len(sent) : sent[i] = w[i]
    BY <2>1, LenProperties DEF StartOf
  <2>3. setup.wLength \in 0..MaxTransfer /\ MaxTransfer \in Nat
    BY ControlAssumption DEF RepliesInv, ControlInv, TypeOK, SetupPacket
  <2>4. CASE asked # "serial"
    <3>1. w = r /\ w \in Seq(Nat)
      BY <2>1, <2>4, ReplyIs, RepliesAssumption DEF WholeReply, Streamed
    <3>2. Len(r) \in Nat
      BY <3>1, LenProperties
    <3>3. \A i \in 1..Smaller(Len(sent), Len(r)) : sent[i] = r[i]
      BY <2>2, <3>1, <3>2 DEF Smaller
    <3> QED
      BY <2>1, <2>2, <2>4, <3>1, <3>3 DEF ReplyRight
  <2>5. CASE asked = "serial"
    <3>1. /\ Len(w) = 2 + 2 * MaxTransfer /\ Len(r) \in Nat
          /\ \A i \in 1..Len(w) : i <= Len(r) => w[i] = r[i]
      BY <2>5, SerialStarts
    <3>2. \A i \in 1..Smaller(Len(sent), Len(r)) : sent[i] = r[i]
      BY <2>2, <2>3, <3>1 DEF Smaller
    <3>3. Smaller(setup.wLength, Len(w)) = setup.wLength
      BY <2>3, <3>1 DEF Smaller
    <3> QED
      BY <2>1, <2>5, <3>2, <3>3 DEF ReplyRight
  <2> QED
    BY <2>4, <2>5
<1> QED
  BY <1>1, RepliesInvariant, PTL
=============================================================================
