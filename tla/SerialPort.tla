------------------------------- MODULE SerialPort -------------------------------
(***************************************************************************)
(* A serial function between an application and a host: SerialFunction,    *)
(* its two bulk endpoints in a controller that keeps the contract of       *)
(* pcd-interface.hpp, bus resets, and a host that sends and polls.  Host   *)
(* and controller are not under src/.                                      *)
(*                                                                         *)
(* Bytes are numbered in the order their writer produces them, so every    *)
(* stream is a sequence of naturals.                                       *)
(***************************************************************************)
EXTENDS SerialFunction, SequencesExt, FiniteSetsExt

CONSTANTS
    Loads,          \* the uses of the port that are considered, each with its bounds:
                    \*   written, sent   bytes the application writes, the host sends
                    \*   resets          bus resets
                    \*   codings, lines  line codings and line states the host sets
                    \*   polls           the application uses pullEvents()
    Options         \* values the application gives setDiscardOnReset()

ASSUME PortAssumption ==
    /\ Options \subseteq BOOLEAN
    /\ \A l \in Loads :
           /\ l.written \in Nat /\ l.sent \in Nat /\ l.resets \in Nat
           /\ l.codings \subseteq Coding /\ l.lines \subseteq Signals /\ l.polls \in BOOLEAN

VARIABLES
    load,           \* the use of the port in this behaviour
    link,           \* "new", "reset" (not configured) or "configured"
    out,            \* bulk OUT endpoint: status and the packet received
    in,             \* bulk IN endpoint: status and the packet to send
    resets,         \* bus resets so far
    owed,           \* calls of the function not yet answered by a callback
    breaches,       \* calls made while still owed
    hostSent,       \* number of bytes the host has sent
    appWritten,     \* number of bytes transmit() has taken
    hostGot,        \* bytes the host read since the device was configured
    hostRead,       \* the bytes the host ever read
    seen,           \* bytes given to packetReceived() since the queues were empty
    appGot,         \* bytes the application took since then
    known           \* what the application knew when it last pulled the events

streamVars == <<hostSent, appWritten, hostGot, hostRead, seen, appGot>>
portVars == <<load, serialVars, link, out, in, resets, owed, breaches, streamVars, known>>

Closed == [status |-> "closed", data |-> << >>]
Nak    == [status |-> "nak", data |-> << >>]

Numbers(from, n) == [i \in 1..n |-> from + i]

Known == [coding |-> lineCoding, signals |-> controlSignals, sent |-> txHead]

PortInit ==
    /\ load \in Loads
    /\ \E c \in load.codings, s \in load.lines : NewSerial(c, s)
    /\ link = "new" /\ out = Closed /\ in = Closed
    /\ resets = 0 /\ owed = {} /\ breaches = {}
    /\ hostSent = 0 /\ appWritten = 0 /\ hostGot = << >> /\ hostRead = {}
    /\ seen = << >> /\ appGot = << >>
    /\ known = Known

-----------------------------------------------------------------------------
(* The endpoints carry out the calls.  A call on a closed endpoint is lost. *)

Issued == {calls'[i].op : i \in DOMAIN calls'}

OutAfter(e) ==
    IF "receive" \in Issued /\ e.status # "closed"
    THEN [status |-> "armed", data |-> << >>] ELSE e

\* A method transmits as the last thing it does.
InAfter(e) ==
    IF "transmit" \in Issued /\ e.status # "closed"
    THEN [status |-> "ready", data |-> Last(calls').data] ELSE e

\* The function made its calls: the endpoints start from o and i, and "left" are
\* the earlier calls that no callback has answered yet.
Carry(o, i, left) ==
    /\ out' = OutAfter(o) /\ in' = InAfter(i)
    /\ owed' = (IF link' = link THEN left ELSE {}) \cup Issued
    /\ breaches' = breaches \cup (left \cap Issued)

-----------------------------------------------------------------------------
(* The application.                                                        *)

AppTransmit(n) ==
    /\ appWritten + n <= load.written
    /\ TransmitBytes(Numbers(appWritten, n))
    /\ appWritten' = IF TxFree(txQueue) < n THEN appWritten ELSE appWritten + n
    /\ UNCHANGED link /\ Carry(out, in, owed)
    /\ UNCHANGED <<resets, hostSent, hostGot, hostRead, seen, appGot, known>>

AppReceive(n) ==
    /\ ReceiveBytes(n)
    /\ appGot' = appGot \o SubSeq(rxQueue, 1, Lesser(n, Len(rxQueue)))
    /\ UNCHANGED link /\ Carry(out, in, owed)
    /\ UNCHANGED <<resets, hostSent, appWritten, hostGot, hostRead, seen, known>>

AppDiscard(n) ==
    /\ DiscardReceived(n)
    /\ appGot' = IF Len(rxQueue) < n THEN appGot ELSE appGot \o SubSeq(rxQueue, 1, n)
    /\ UNCHANGED link /\ Carry(out, in, owed)
    /\ UNCHANGED <<resets, hostSent, appWritten, hostGot, hostRead, seen, known>>

AppPullEvents ==
    /\ load.polls /\ pendingEvents # {}
    /\ PullEvents
    /\ known' = Known
    /\ UNCHANGED <<link, out, in, resets, owed, breaches, streamVars>>

\* The option is set before the port is used.
AppChooses(value) ==
    /\ link = "new" /\ appWritten = 0
    /\ SetDiscardOnReset(value)
    /\ UNCHANGED <<link, out, in, resets, owed, breaches, streamVars, known>>

-----------------------------------------------------------------------------
(* The stack.                                                              *)

\* SET_CONFIGURATION after a reset opens the endpoints and calls initialize().
Configure ==
    /\ link \in {"new", "reset"}
    /\ Initialize
    /\ link' = "configured"
    /\ Carry(Nak, Nak, owed)
    /\ hostGot' = << >>
    /\ IF discardOnReset THEN seen' = << >> /\ appGot' = << >> ELSE UNCHANGED <<seen, appGot>>
    /\ UNCHANGED <<resets, hostSent, appWritten, hostRead, known>>

ProcessReceived ==
    /\ out.status = "full"
    /\ PacketReceived(out.data)
    /\ seen' = seen \o out.data
    /\ UNCHANGED link /\ Carry(Nak, in, owed \ {"receive"})
    /\ UNCHANGED <<resets, hostSent, appWritten, hostGot, hostRead, appGot, known>>

ProcessSent ==
    /\ in.status = "sent"
    /\ TransmitComplete
    /\ UNCHANGED link /\ Carry(out, Nak, owed \ {"transmit"})
    /\ UNCHANGED <<resets, streamVars, known>>

\* A class request of the host, received and completed.
Control(request, coding, signals) ==
    /\ link = "configured"
    /\ HandleControl(request, coding, signals)
    /\ UNCHANGED <<link, out, in, resets, owed, breaches, streamVars, known>>

-----------------------------------------------------------------------------
(* The host.                                                               *)

HostSends(n) ==
    /\ out.status = "armed" /\ hostSent + n <= load.sent
    /\ out' = [status |-> "full", data |-> Numbers(hostSent, n)]
    /\ hostSent' = hostSent + n
    /\ UNCHANGED <<serialVars, link, in, resets, owed, breaches, appWritten, hostGot,
                   hostRead, seen, appGot, known>>

HostReads ==
    /\ in.status = "ready"
    /\ in' = [in EXCEPT !.status = "sent"]
    /\ hostGot' = hostGot \o in.data
    /\ hostRead' = hostRead \cup Range(in.data)
    /\ UNCHANGED <<serialVars, link, out, resets, owed, breaches, hostSent, appWritten,
                   seen, appGot, known>>

\* A bus reset closes the endpoints; events that were not pulled are lost.
BusReset ==
    /\ link = "configured" /\ resets < load.resets
    /\ link' = "reset" /\ resets' = resets + 1
    /\ out' = Closed /\ in' = Closed /\ owed' = {}
    /\ UNCHANGED <<serialVars, breaches, streamVars, known>>

-----------------------------------------------------------------------------

PortNext ==
    /\ UNCHANGED load
    /\ \/ \E n \in 1..TxCapacity : AppTransmit(n)
       \/ \E n \in 1..RxCapacity : AppReceive(n) \/ AppDiscard(n)
       \/ AppPullEvents
       \/ \E v \in Options : AppChooses(v)
       \/ Configure \/ ProcessReceived \/ ProcessSent
       \/ \E r \in {"SET_CONTROL_LINE_STATE", "GET_LINE_CODING", "SET_LINE_CODING"},
             c \in load.codings, s \in load.lines : Control(r, c, s)
       \/ \E n \in 0..Packet : HostSends(n)
       \/ HostReads
       \/ BusReset

\* Events are processed, the host configures the device and reads what is
\* ready, and the application goes on reading.
PortFairness ==
    /\ WF_portVars(UNCHANGED load /\ Configure)
    /\ WF_portVars(UNCHANGED load /\ ProcessReceived)
    /\ WF_portVars(UNCHANGED load /\ ProcessSent)
    /\ WF_portVars(UNCHANGED load /\ HostReads)
    /\ WF_portVars(UNCHANGED load /\ \E n \in 1..RxCapacity : AppReceive(n))

PortSpec == PortInit /\ [][PortNext]_portVars /\ PortFairness

-----------------------------------------------------------------------------
(* Properties.                                                             *)

\* The application gets the bytes of the packets received, each once and in
\* order, and receiveHeadPos() and receiveTailPos() count them, those of a held
\* packet included (usb-device-serial.hpp:44-61).
RxStream ==
    /\ appGot \o rxQueue \o rxPacket = seen
    /\ rxHead = Len(appGot)

\* The bytes under way are still at the head of the transmit queue, where the
\* controller reads them, and no idle endpoint leaves queued bytes waiting.
TxUnderway ==
    link = "configured" =>
        /\ in.status \in {"ready", "sent"} =>
              /\ in.data = SubSeq(txQueue, 1, txPacketLength) /\ in.data # << >>
              /\ ~txReady
        /\ in.status = "nak" => txReady /\ txQueue = << >>

\* Between two resets the host reads consecutive bytes.  When data survives
\* resets it misses no byte, and transmitHeadPos() counts only bytes that the
\* host has read (usb-device-serial.hpp:86-87).
HostStream ==
    /\ \A i \in 1..(Len(hostGot) - 1) : hostGot[i + 1] = hostGot[i] + 1
    /\ ~discardOnReset =>
           /\ hostRead = 1..Cardinality(hostRead)
           /\ txHead <= Cardinality(hostRead)
           /\ txQueue = Numbers(txHead, appWritten - txHead)

\* Within a configuration no endpoint is used twice without a callback in
\* between (function.hpp:36-37 and 49-50).
ContractKept ==
    [][link' = link => breaches' = breaches]_portVars

\* A change of the line coding or the control signals, and progress of the
\* transmission, since the application last pulled the events left an event
\* pending.  (Received data is not among them: a packet held back that
\* processPendingPacket() moves to the queue raises no EV_DATA_RX.)
EventsTell ==
    /\ lineCoding # known.coding => "coding" \in pendingEvents
    /\ controlSignals # known.signals => "signals" \in pendingEvents
    /\ txHead # known.sent => pendingEvents \cap {"tx", "reset"} # {}

\* Everything queued for transmission leaves the queue.
TxDrains == txQueue # << >> ~> txQueue = << >>

\* A packet that is held back reaches the receive queue.
HeldPacketMoves == rxPacket # << >> ~> rxPacket = << >>

\* While the application reads, the endpoint is armed again and again: the host
\* is never shut out.
HostAdmitted == []<>(out.status = "armed" \/ link # "configured")
-----------------------------------------------------------------------------
(* What comments say and the code does not do.                             *)

\* "Functions must never call `transmitPacket` twice on same endpoint without
\* receiving `transmitComplete` callback" (function.hpp:49-50), and the same of
\* receivePacket (36-37).
CalledOnce == breaches = {}
=============================================================================
