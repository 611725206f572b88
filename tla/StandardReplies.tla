--------------------------- MODULE StandardReplies ---------------------------
(***************************************************************************)
(* StandardControlHandler (src/usb/device-base/src/control-handler.cpp) as *)
(* one more client of the control endpoint: what it makes of each standard *)
(* request, its two streamers, and the bytes that leave for the host.      *)
(* Requests of classes and functions are served in between by handlers     *)
(* that do anything.  As in ControlEndpoint the peripheral controller may  *)
(* report any event at any time: SETUP packets that overtake completions,  *)
(* requests given up half way, bus resets.                                 *)
(*                                                                         *)
(* What the requests do to the device itself is in module UsbDevice.       *)
(***************************************************************************)
EXTENDS ControlClient

CONSTANTS
    Descriptor,     \* the descriptors of the static configuration, by name
    Serial,         \* m_serialNumber, without its terminator
    OtherLengths    \* wLength and maxLength of the other requests considered

ASSUME RepliesAssumption ==
    /\ MaxPacket % 2 = 0 /\ MaxPacket > 2
    /\ MaxTransfer >= 2
    /\ OtherLengths \subseteq 0..MaxTransfer
    /\ {"device", "config", "string"} = DOMAIN Descriptor
    /\ \A q \in DOMAIN Descriptor : Descriptor[q] \in Seq(Nat)
    /\ Serial \in Seq(Nat)

VARIABLES
    asked,          \* the standard request in progress, "other" for all others
    m_streamer,     \* what the streamer has left, and where it is
    sent            \* bytes handed to the controller in this data stage

replyVars == <<state, handler, streamer, setup, dataLength, calls, notes,
               client, asked, m_streamer, sent>>

Request == {"device", "config", "string", "serial",         \* GET_DESCRIPTOR
            "absent",                                       \* of one there is not
            "getConfiguration", "getInterface", "getStatus",
            "setAddress", "setConfiguration", "setInterface",
            "halt", "badFeature", "unknown"}

Streamed == {"device", "config", "string", "serial"}
Refused  == {"absent", "badFeature", "unknown"}

\* setupControl(), for the requests it accepts.
SetupControl(q) ==
    [streamed  |-> q \in Streamed,
     outbound  |-> q \in Streamed \cup {"getConfiguration", "getInterface", "getStatus"},
     maxLength |-> CASE q \in Streamed -> MaxTransfer
                     [] q \in {"getConfiguration", "getInterface"} -> 1
                     [] q = "getStatus" -> 2
                     [] OTHER -> 0]

-----------------------------------------------------------------------------
(* The streamers.                                                          *)

\* Memory behind m_serialNumber: the string, its terminator, other data.
Character(i) == CASE i <= Len(Serial) -> Serial[i]
                  [] i = Len(Serial) + 1 -> 0
                  [] OTHER -> 999

\* The n characters of the string from one on, in UTF-16.
Wide(from, n) ==
    [k \in 1..(2 * n) |-> IF k % 2 = 1 THEN Character(from + k \div 2) ELSE 0]

Header == << (2 + 2 * Len(Serial)) % 256, 3 >>

\* setRegularDescriptor() and setConfigDescriptor(): bLength, wTotalLength.
LengthIn(q, d) == IF q = "config" THEN d[3] + 256 * d[4] ELSE d[1]

\* The descriptor compiler writes the length of a descriptor into the
\* descriptor: serialize() into bLength, DescriptorState into wTotalLength.
ASSUME LengthAssumption ==
    \A q \in DOMAIN Descriptor : LengthIn(q, Descriptor[q]) = Len(Descriptor[q])

\* A streamer at its start.
Prepared(q) == [rest  |-> IF q \in DOMAIN Descriptor
                          THEN SubSeq(Descriptor[q], 1, LengthIn(q, Descriptor[q])) ELSE << >>,
                next  |-> 1,
                first |-> TRUE]

\* Mutant of BytePacket: not limited to a packet.
ByteAll(m) == m.rest

\* ByteStreamer::transmitComplete(): what it offers, and what is left.
BytePacket(m) == SubSeq(m.rest, 1, Smaller(Len(m.rest), MaxPacket))

\* StringStreamer::transmitComplete(): it fills the packet, the end of the
\* string notwithstanding.
StringPacket(m) ==
    LET start == IF m.first THEN Header ELSE << >>
        count == (MaxPacket - Len(start)) \div 2
    IN  start \o Wide(m.next, count)

Packet(q, m) == IF q = "serial" THEN StringPacket(m) ELSE BytePacket(m)

\* Mutant of After: the first packet counts as if it had no header.
AfterHeader(q, m) ==
    IF q = "serial" THEN [m EXCEPT !.next = @ + MaxPacket \div 2, !.first = FALSE]
    ELSE [m EXCEPT !.rest = SubSeq(@, Len(BytePacket(m)) + 1, Len(@))]

\* What a streamer has left once it handed out its packet.
After(q, m) ==
    IF q = "serial"
    THEN [m EXCEPT !.next = @ + (IF m.first THEN MaxPacket - 2 ELSE MaxPacket) \div 2,
                   !.first = FALSE]
    ELSE [m EXCEPT !.rest = SubSeq(@, Len(BytePacket(m)) + 1, Len(@))]

Idle == Prepared("unknown")
NothingSent == sent' = << >> /\ m_streamer' = Idle

\* The reply handleControl() puts into the control buffer, of a configured device.
OneShotReply(q) == CASE q = "getStatus" -> << 1, 0 >>
                     [] q = "getConfiguration" -> << 2 >>
                     [] q = "getInterface" -> << 0 >>
                     [] OTHER -> << >>

-----------------------------------------------------------------------------
(* The endpoint, with the standard handler behind it.                      *)

\* The streamer hands the endpoint its next packet from inside transmitComplete().
Stream(q, m, d, s, told, before) ==
    LET p == Packet(q, m)
    IN  /\ TransmitPacket(Len(p), d, s, told)
        /\ sent' = before \o SubSeq(p, 1, Smaller(Len(p), s.wLength - d))
        /\ m_streamer' = After(q, m)

\* handleControl() fills the buffer, and the endpoint sends no more than asked.
Answer(q, s, told) ==
    LET p == OneShotReply(q)
        n == Smaller(Len(p), s.wLength)
    IN  /\ Serve("TX_DATA", FALSE, told \o << "handleControl" >>, << Transmit(n) >>)
        /\ dataLength' = 0 /\ sent' = SubSeq(p, 1, n) /\ m_streamer' = Idle

\* A SETUP packet for the standard handler.
StandardSetup(q, s) ==
    LET r    == SetupControl(q)
        told == Abandoned \o << Acceptance(r) >>
    IN  /\ asked' = q
        /\ \/ /\ q \in Refused
              /\ RefusedSetup(s, TRUE) /\ NothingSent
           \/ /\ q \in Streamed /\ Valid(s, r) /\ setup' = s
              /\ Stream(q, Prepared(q), 0, s, told \o << "transmitComplete" >>, << >>)
           \/ /\ q \notin Streamed \cup Refused /\ Valid(s, r) /\ r.outbound /\ setup' = s
              /\ Answer(q, s, told)
           \/ /\ q \notin Refused /\ (Valid(s, r) => ~r.outbound)
              /\ AcceptedSetup(s, r) /\ NothingSent
              /\ Valid(s, r) /\ q # "setConfiguration" => state' # "IDLE"     \* does not throw

\* A SETUP packet nobody or another handler answers.
OtherSetup ==
    /\ \/ MalformedSetup
       \/ \E s \in [in : BOOLEAN, wLength : OtherLengths] :
              \/ \E resolved \in BOOLEAN : RefusedSetup(s, resolved)
              \/ \E r \in [streamed : BOOLEAN, outbound : BOOLEAN, maxLength : OtherLengths] :
                     AcceptedSetup(s, r)
    /\ asked' = "other" /\ NothingSent

StandardTransmitComplete ==
    /\ UNCHANGED asked
    /\ IF state = "TX_MORE_DATA" /\ asked # "other"
       THEN /\ Stream(asked, m_streamer, dataLength, setup,
                      Through(streamer, "transmitComplete"), sent)
            /\ UNCHANGED setup
       ELSE TransmitComplete /\ UNCHANGED <<m_streamer, sent>>

RepliesInit == /\ Init /\ ClientInit
               /\ asked = "other" /\ m_streamer = Idle /\ sent = << >>

RepliesNext ==
    /\ \/ \E q \in Request, s \in SetupPacket : StandardSetup(q, s)
       \/ OtherSetup
       \/ StandardTransmitComplete
       \/ /\ \/ \E length \in 0..MaxPacket : OutReceived(length)
             \/ Reset
             \/ asked = "other" /\ StreamerActs
          /\ UNCHANGED <<asked, m_streamer, sent>>
    /\ ClientFollows

RepliesSpec == RepliesInit /\ [][RepliesNext]_replyVars

-----------------------------------------------------------------------------
(* Properties.                                                             *)

\* The descriptor a request is for: of the serial number, as long as its bLength.
WholeReply(q) ==
    IF q = "serial" THEN Header \o Wide(1, Len(Serial)) ELSE Descriptor[q]

Replying == asked \in Streamed /\ state \in {"TX_MORE_DATA", "TX_DATA", "RX_STATUS"}

\* The host gets the descriptor from its first byte, nothing twice and nothing
\* left out, and when the data stage is over as much of it as it asked for, all
\* of it when it asked for more: also when the descriptor ends at a packet
\* boundary, and whatever request was cut off before.  Nothing follows it, except
\* the serial number: what follows that up to wLength is memory behind the string
\* (control-handler.cpp:65-71).
ReplyRight ==
    Replying =>
        LET reply == WholeReply(asked)
        IN  /\ dataLength = Len(sent)
            /\ \A i \in 1..Smaller(Len(sent), Len(reply)) : sent[i] = reply[i]
            /\ asked # "serial" => Len(sent) <= Len(reply)
            /\ state # "TX_MORE_DATA" =>
                   \/ Len(sent) = setup.wLength
                   \/ asked # "serial" /\ Len(sent) = Smaller(setup.wLength, Len(reply))

\* A string descriptor ends with its last character, as the last packet of a
\* transfer shows it (control.hpp:42-45: "Therefore, only last packet could have
\* length less than `packetLength()`. [..] If complete payload fits full-length
\* packets exactly, it must be terminated by an additional zero-length packet.").
StringEnds == Replying => Len(sent) <= Len(WholeReply(asked))

\* The standard handler keeps the rules control.hpp:39-50 and 99-110 sets for
\* handlers and streamers: with it the endpoint does nothing it would not do
\* with the handlers ControlEndpoint assumes, so what is proved of them holds.
KeepsTheRules == Spec
=============================================================================
