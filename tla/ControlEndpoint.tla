--------------------------- MODULE ControlEndpoint ---------------------------
(***************************************************************************)
(* The control transfer state machine ControlEndpointImpl                  *)
(* (src/usb/device-base/src/control-endpoint.cpp).  Every handler of the   *)
(* class is one action.  The peripheral controller, the host behind it and *)
(* the request handlers are the environment: here they do anything, in any *)
(* order; module ControlBus restricts them to what a bus really does.      *)
(*                                                                         *)
(* The two outputs of a handler are the calls it makes on the peripheral   *)
(* controller and the callbacks it makes into the application.  Both are   *)
(* kept for the last step only.                                            *)
(***************************************************************************)
EXTENDS Naturals, Sequences

CONSTANTS
    MaxPacket,      \* UB_USBD_MAX_CONTROL_PACKET
    MaxTransfer,    \* the largest wLength: 65535 in the code
    Eager           \* streamers ask for another packet even after the last one

ASSUME ControlAssumption ==
    /\ MaxPacket \in Nat \ {0}
    /\ MaxTransfer \in Nat
    /\ Eager \in BOOLEAN

VARIABLES
    state,          \* m_state
    handler,        \* m_handler # nullptr
    streamer,       \* m_streamer # nullptr
    setup,          \* m_setup: direction bit and wLength
    dataLength,     \* m_dataLength
    calls,          \* calls made on the peripheral controller by the last step
    notes           \* callbacks made into the application by the last step

epVars == <<state, handler, streamer, setup, dataLength, calls, notes>>

SetupState == {"IDLE", "TX_MORE_DATA", "TX_DATA", "RX_DATA",
               "TX_STATUS", "RX_STATUS", "WAITING"}

SetupPacket == [in : BOOLEAN, wLength : 0..MaxTransfer]

\* What setupControl() leaves in the request it accepts.
ControlRequest == [streamed : BOOLEAN, outbound : BOOLEAN, maxLength : 0..MaxTransfer]

Call == [op : {"receive", "transmit", "stallIn", "stallOut"}, len : 0..MaxTransfer]

Note == {"oneShot", "sending", "receiving",                 \* request accepted
         "refused",                                         \* or not: setupControl()
         "handleControl", "packetReceived", "transmitComplete",
         "succeeded", "failed",                             \* completeControl(..)
         "completed", "aborted",                            \* of the streamer
         "nullDeref"}                                       \* call through nullptr

Receive     == [op |-> "receive", len |-> 0]
Transmit(n) == [op |-> "transmit", len |-> n]
Stall       == << [op |-> "stallIn", len |-> 0], [op |-> "stallOut", len |-> 0] >>

Smaller(a, b) == IF a <= b THEN a ELSE b

\* A virtual call through m_handler or m_streamer.
Through(pointer, callback) == << IF pointer THEN callback ELSE "nullDeref" >>

Init ==
    /\ state = "IDLE" /\ handler = FALSE /\ streamer = FALSE
    /\ setup = [in |-> FALSE, wLength |-> 0]
    /\ dataLength = 0
    /\ calls = << >> /\ notes = << >>

-----------------------------------------------------------------------------
(* Ways a handler ends: "told" are the callbacks made before.              *)

\* The state the endpoint is in once a request is being served.
Serve(next, isStreamed, told, pcd) ==
    /\ state' = next /\ handler' = TRUE /\ streamer' = isStreamed
    /\ notes' = told /\ calls' = pcd

\* Who is told that the current request is over before a new one is looked at.
Abandoned == IF streamer THEN << "aborted" >>
             ELSE IF handler THEN << "failed" >> ELSE << >>

\* Mutant of AbortRequest: nobody is told.
AbortSilently(told) ==
    /\ state' = "IDLE" /\ handler' = FALSE /\ streamer' = FALSE
    /\ notes' = << >> /\ calls' = Stall

\* abortRequest(), once whoever served the request is told.
AbortRequest(told) ==
    /\ state' = "IDLE" /\ handler' = FALSE /\ streamer' = FALSE
    /\ notes' = told /\ calls' = Stall

\* Mutant of TransmitPacket: m_state is left at WAITING.
TransmitKeepingState(n, d, s, told) ==
    LET len == Smaller(n, s.wLength - d)
    IN  /\ Serve("WAITING", TRUE, told, << Transmit(len) >>)
        /\ dataLength' = d + len

\* Mutant of TransmitPacket: only wLength ends the data stage, not a short packet.
TransmitIgnoringShort(n, d, s, told) ==
    LET len == Smaller(n, s.wLength - d)
    IN  /\ Serve(IF d + len = s.wLength THEN "TX_DATA" ELSE "TX_MORE_DATA",
                 TRUE, told, << Transmit(len) >>)
        /\ dataLength' = d + len

\* transmitPacket(): n bytes offered by the streamer when d are already sent.
TransmitPacket(n, d, s, told) ==
    LET len  == Smaller(n, s.wLength - d)
        last == d + len = s.wLength \/ len < MaxPacket
    IN  /\ Serve(IF last THEN "TX_DATA" ELSE "TX_MORE_DATA", TRUE, told, << Transmit(len) >>)
        /\ dataLength' = d + len

\* What an outbound streamer may do from inside transmitComplete().
StreamerPulled(d, s, told) ==
    \/ \E n \in 0..MaxPacket : TransmitPacket(n, d, s, told)
    \/ /\ Serve("WAITING", TRUE, told, << >>)               \* answers later
       /\ dataLength' = d
    \/ /\ AbortRequest(told \o << "aborted" >>)
       /\ dataLength' = d

\* Mutant of StreamReceiveNext: the last packet is not recognised as the last.
ReceiveOnePacketMore(d, s, told) ==
    /\ dataLength' = d
    /\ \/ /\ d <= s.wLength
          /\ \/ Serve("WAITING", TRUE, told, << >>)
             \/ Serve("RX_DATA", TRUE, told, << Receive >>)
       \/ /\ d > s.wLength
          /\ Serve("TX_STATUS", TRUE, told, << Transmit(0) >>)
       \/ AbortRequest(told \o << "aborted" >>)

\* streamReceiveNext() and its callers: d bytes are received, the last packet
\* included, and the streamer reacts from inside packetReceived().
StreamReceiveNext(d, s, told) ==
    /\ dataLength' = d
    /\ \/ /\ d < s.wLength
          /\ \/ Serve("WAITING", TRUE, told, << >>)         \* answers later
             \/ Serve("RX_DATA", TRUE, told, << Receive >>)
       \/ /\ d >= s.wLength
          /\ \/ Serve("TX_STATUS", TRUE, told, << Transmit(0) >>)
             \/ Eager /\ Serve("TX_STATUS", TRUE, told, << Receive, Transmit(0) >>)
       \/ AbortRequest(told \o << "aborted" >>)

\* handleControl() of a one-shot request: it throws, or answers.
HandleControl(present, next, told, pcd) ==
    LET asked == told \o Through(present, "handleControl")
    IN  \/ Serve(next, FALSE, asked, pcd)
        \/ AbortRequest(asked \o << "failed" >>)

CompleteRequest ==
    /\ notes' = IF streamer THEN << "completed" >> ELSE Through(handler, "succeeded")
    /\ state' = "IDLE" /\ handler' = FALSE /\ streamer' = FALSE
    /\ calls' = << Receive >>
    /\ UNCHANGED <<setup, dataLength>>

Ignored == calls' = << >> /\ notes' = << >>
           /\ UNCHANGED <<state, handler, streamer, setup, dataLength>>

-----------------------------------------------------------------------------
(* setupReceived().                                                        *)

\* Length other than 8: E_INVALID_SETUP_LENGTH.
MalformedSetup ==
    /\ AbortRequest(Abandoned)
    /\ dataLength' = 0
    /\ UNCHANGED setup

\* resolveControl() finds no handler, or setupControl() does not accept.
RefusedSetup(s, resolved) ==
    /\ AbortRequest(Abandoned \o (IF resolved THEN << "refused", "failed" >> ELSE << >>))
    /\ dataLength' = 0
    /\ setup' = s

Acceptance(r) == IF ~r.streamed THEN "oneShot"
                 ELSE IF r.outbound THEN "sending" ELSE "receiving"

Valid(s, r) == /\ s.in = r.outbound
               /\ s.wLength <= r.maxLength
               /\ r.streamed \/ s.wLength <= MaxPacket

AcceptedSetup(s, r) ==
    LET told == Abandoned \o << Acceptance(r) >>
    IN  /\ setup' = s
        /\ \/ /\ ~Valid(s, r)
              /\ AbortRequest(told \o << IF r.streamed THEN "aborted" ELSE "failed" >>)
              /\ dataLength' = 0
           \/ /\ Valid(s, r) /\ r.outbound /\ r.streamed
              /\ StreamerPulled(0, s, told \o << "transmitComplete" >>)
           \/ /\ Valid(s, r) /\ r.outbound /\ ~r.streamed
              /\ dataLength' = 0
              /\ \E n \in 0..MaxPacket :
                    HandleControl(TRUE, "TX_DATA", told, << Transmit(Smaller(n, s.wLength)) >>)
           \/ /\ Valid(s, r) /\ ~r.outbound /\ s.wLength = 0 /\ r.streamed
              /\ StreamReceiveNext(0, s, told \o << "packetReceived" >>)
           \/ /\ Valid(s, r) /\ ~r.outbound /\ s.wLength = 0 /\ ~r.streamed
              /\ dataLength' = 0
              /\ HandleControl(TRUE, "TX_STATUS", told, << Transmit(0) >>)
           \/ /\ Valid(s, r) /\ ~r.outbound /\ s.wLength > 0
              /\ dataLength' = 0
              /\ Serve("RX_DATA", r.streamed, told, << Receive >>)

SetupReceived(s) ==
    \/ \E resolved \in BOOLEAN : RefusedSetup(s, resolved)
    \/ \E r \in ControlRequest : AcceptedSetup(s, r)

-----------------------------------------------------------------------------
(* The other events of the peripheral controller.                          *)

\* An OUT packet that is not a SETUP packet.
OutReceived(length) ==
    \/ /\ state = "RX_STATUS"
       /\ CompleteRequest
    \/ /\ state = "RX_DATA" /\ UNCHANGED setup
       /\ \/ /\ streamer /\ dataLength + length > setup.wLength   \* E_CONTROL_DATA_TOO_LONG
             /\ AbortRequest(<< "aborted" >>)
             /\ UNCHANGED dataLength
          \/ /\ streamer /\ dataLength + length <= setup.wLength
             /\ StreamReceiveNext(dataLength + length, setup, << "packetReceived" >>)
          \/ /\ ~streamer
             /\ HandleControl(handler, "TX_STATUS", << >>, << Transmit(0) >>)
             /\ UNCHANGED dataLength
    \/ /\ state \notin {"RX_STATUS", "RX_DATA"}
       /\ Ignored

\* Mutant of TransmitComplete: the request is over with its last data packet.
TransmitSkippingStatus ==
    \/ /\ state \in {"TX_STATUS", "TX_DATA"}
       /\ CompleteRequest
    \/ /\ state = "TX_MORE_DATA"
       /\ StreamerPulled(dataLength, setup, Through(streamer, "transmitComplete"))
       /\ UNCHANGED setup

\* Mutant of TransmitComplete: the status packet of the host is not awaited.
TransmitNotArmingStatus ==
    \/ /\ state = "TX_STATUS"
       /\ CompleteRequest
    \/ /\ state = "TX_DATA"
       /\ state' = "RX_STATUS" /\ calls' = << >> /\ notes' = << >>
       /\ UNCHANGED <<handler, streamer, setup, dataLength>>
    \/ /\ state = "TX_MORE_DATA"
       /\ StreamerPulled(dataLength, setup, Through(streamer, "transmitComplete"))
       /\ UNCHANGED setup

TransmitComplete ==
    \/ /\ state = "TX_STATUS"
       /\ CompleteRequest
    \/ /\ state = "TX_DATA"
       /\ state' = "RX_STATUS" /\ calls' = << Receive >> /\ notes' = << >>
       /\ UNCHANGED <<handler, streamer, setup, dataLength>>
    \/ /\ state = "TX_MORE_DATA"
       /\ StreamerPulled(dataLength, setup, Through(streamer, "transmitComplete"))
       /\ UNCHANGED setup
    \/ /\ state \notin {"TX_STATUS", "TX_DATA", "TX_MORE_DATA"}
       /\ Ignored

\* Mutant of Reset: m_state survives a bus reset.
ResetKeepingState ==
    /\ streamer' = FALSE
    /\ notes' = IF streamer THEN << "aborted" >> ELSE << >>
    /\ calls' = << Receive >>
    /\ UNCHANGED <<state, handler, setup, dataLength>>

\* Mutant of Reset: the streamer is dropped without being told.
ResetSilently ==
    /\ state' = "IDLE" /\ streamer' = FALSE
    /\ notes' = << >> /\ calls' = << Receive >>
    /\ UNCHANGED <<handler, setup, dataLength>>

\* Mutant of Reset: m_streamer keeps its value too.
ResetKeepingStreamer ==
    /\ state' = "IDLE"
    /\ notes' = IF streamer THEN << "aborted" >> ELSE << >>
    /\ calls' = << Receive >>
    /\ UNCHANGED <<handler, streamer, setup, dataLength>>

\* reset(): bus reset, and USBDevice::stop().  m_handler keeps its value.
Reset ==
    /\ state' = "IDLE" /\ streamer' = FALSE
    /\ notes' = IF streamer THEN << "aborted" >> ELSE << >>
    /\ calls' = << Receive >>
    /\ UNCHANGED <<handler, setup, dataLength>>

-----------------------------------------------------------------------------
(* Calls a streamer makes on its own, after it deferred its answer.        *)

StreamerTransmits(n) ==
    /\ streamer /\ state = "WAITING" /\ setup.in
    /\ TransmitPacket(n, dataLength, setup, << >>)
    /\ UNCHANGED setup

StreamerReceives ==
    /\ streamer /\ state = "WAITING" /\ ~setup.in
    /\ Serve("RX_DATA", TRUE, << >>, << Receive >>)
    /\ UNCHANGED <<setup, dataLength>>

StreamerAborts ==
    /\ streamer
    /\ AbortRequest(<< "aborted" >>)
    /\ UNCHANGED <<setup, dataLength>>

StreamerActs ==
    \/ \E n \in 0..MaxPacket : StreamerTransmits(n)
    \/ StreamerReceives
    \/ StreamerAborts

Next ==
    \/ MalformedSetup
    \/ \E s \in SetupPacket : SetupReceived(s)
    \/ \E length \in 0..MaxPacket : OutReceived(length)
    \/ TransmitComplete
    \/ Reset
    \/ StreamerActs

Spec == Init /\ [][Next]_epVars

-----------------------------------------------------------------------------
(* Invariants.  They hold whatever the peripheral controller reports.      *)

\* Every variable keeps its type.
TypeOK ==
    /\ state \in SetupState
    /\ handler \in BOOLEAN /\ streamer \in BOOLEAN
    /\ setup \in SetupPacket
    /\ dataLength \in 0..MaxTransfer
    /\ calls \in Seq(Call)
    /\ notes \in Seq(Note)

\* No handler dereferences m_handler or m_streamer when it is null
\* (control-endpoint.cpp:157, 180-183, 234: no test precedes those calls).
NoNullDeref == \A i \in 1..Len(notes) : notes[i] # "nullDeref"

\* A request in progress has the handler and streamer its state needs.
ServedInv ==
    /\ state # "IDLE" => handler
    /\ state \in {"TX_MORE_DATA", "WAITING"} => streamer
    /\ streamer => handler

\* Each state belongs to one direction of the request's data stage.
DirectionInv ==
    /\ state \in {"RX_DATA", "TX_STATUS"} => ~setup.in
    /\ state \in {"TX_MORE_DATA", "TX_DATA", "RX_STATUS"} => setup.in

\* Bytes moved and stage of the transfer agree: the 16-bit subtraction
\* wLength - dataLength never wraps, an inbound streamed request reaches its
\* status stage only with all of wLength, and a data stage is continued only
\* while something is left.
DataStageInv ==
    /\ dataLength <= setup.wLength
    /\ state = "TX_STATUS" /\ streamer => dataLength = setup.wLength
    /\ state \in {"RX_DATA", "TX_MORE_DATA"} => dataLength < setup.wLength
    /\ state = "WAITING" /\ ~setup.in => dataLength < setup.wLength

\* An outbound data stage that goes on has moved whole packets only: a packet
\* shorter than MaxPacket always ends it (control.hpp:42-45).
WholePackets ==
    state \in {"TX_MORE_DATA", "WAITING"} /\ setup.in
        => \E k \in 0..dataLength : dataLength = k * MaxPacket
=============================================================================
