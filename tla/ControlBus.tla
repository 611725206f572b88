------------------------------ MODULE ControlBus ------------------------------
(***************************************************************************)
(* Control transfers end to end: the state machine of ControlEndpoint, a   *)
(* peripheral controller that keeps the contract of pcd-interface.hpp, and *)
(* a host that drives transfers through their SETUP, data and status       *)
(* stages.  The host and the controller are not under src/: they are       *)
(* modelled from what the stack may assume of them.                        *)
(*                                                                         *)
(* The controller queues its events in order and, between the SETUP packet *)
(* it received and the pull of that event, answers no other token.  The    *)
(* host ends each transfer before the next, unless it resets the bus; what *)
(* the endpoint does for a host that gives up is in StandardReplies.       *)
(***************************************************************************)
EXTENDS ControlClient

CONSTANT HostLengths        \* wLength of the requests the host makes

ASSUME BusAssumption == HostLengths \subseteq 0..MaxTransfer

VARIABLES
    rx,             \* EP0 OUT of the controller
    tx,             \* EP0 IN of the controller, with the length it holds
    events,         \* events raised and not yet pulled
    host,           \* the host's view of its current transfer
    overwritten     \* a packet the host might be reading was written over

pcdVars  == <<rx, tx, overwritten>>
busVars  == <<state, handler, streamer, setup, dataLength, calls, notes,
              client, rx, tx, events, host, overwritten>>

Event(t, s, len, fin) == [t |-> t, setup |-> s, len |-> len, fin |-> fin]
NoSetup == [in |-> FALSE, wLength |-> 0]
Quiet   == [status |-> "nak", len |-> 0]

BusInit ==
    /\ Init /\ ClientInit
    /\ rx = "nak" /\ tx = Quiet
    /\ events = << Event("reset", NoSetup, 0, FALSE) >>     \* connect(), then bus reset
    /\ host = [stage |-> "idle", moved |-> 0, req |-> NoSetup]
    /\ overwritten = FALSE

-----------------------------------------------------------------------------
(* The controller carries out the calls a handler made.                    *)

Made(op) == \E i \in 1..Len(calls') : calls'[i].op = op

Command ==
    /\ rx' = CASE Made("receive")  -> "valid"
               [] Made("stallOut") -> "stall"
               [] OTHER            -> rx
    /\ \/ \E i \in 1..Len(calls') :
              /\ calls'[i].op = "transmit"
              /\ tx' = [status |-> "valid", len |-> calls'[i].len]
              /\ overwritten' = (overwritten \/ tx.status = "valid")
       \/ /\ ~Made("transmit")
          /\ tx' = IF Made("stallIn") THEN [status |-> "stall", len |-> 0] ELSE tx
          /\ UNCHANGED overwritten

Device == Command /\ ClientFollows /\ UNCHANGED host

-----------------------------------------------------------------------------
(* USBDevice::processEvents(): one pulled event, dispatched.               *)

Dispatch(e) ==
    \/ e.t = "reset" /\ Reset
    \/ e.t = "setup" /\ SetupReceived(e.setup)
    \/ e.t = "badSetup" /\ MalformedSetup
    \/ e.t = "out" /\ OutReceived(e.len)
    \/ e.t = "tx" /\ TransmitComplete

Pull ==
    /\ events # << >>
    /\ events' = Tail(events)
    /\ Dispatch(Head(events))
    /\ Device

\* The application uses a streamer only when no event is pending; nothing in
\* the stack makes it.
Streamer == events = << >> /\ StreamerActs /\ Device /\ UNCHANGED events

-----------------------------------------------------------------------------
(* The host.                                                               *)

Queued(t) == \E i \in 1..Len(events) : events[i].t = t
Answering == ~Queued("reset") /\ ~Queued("setup") /\ ~Queued("badSetup")

HostStep == UNCHANGED <<state, handler, streamer, setup, dataLength, calls, notes,
                        client, overwritten>>

FirstStage(s) == IF s.wLength = 0 THEN "statusIn"
                 ELSE IF s.in THEN "dataIn" ELSE "dataOut"

\* A SETUP packet is accepted whatever the endpoint's state, unless the last
\* received packet is still unread, and it returns both directions to NAK.
HostSetup(t, s, stage) ==
    /\ Answering /\ ~Queued("out")
    /\ host.stage = "idle"
    /\ rx' = "nak" /\ tx' = Quiet
    /\ host' = [stage |-> stage, moved |-> 0, req |-> s]
    /\ events' = Append(events, Event(t, s, 0, FALSE))
    /\ HostStep

HostIn ==
    /\ Answering /\ tx.status = "valid"
    /\ host.stage \in {"dataIn", "statusIn"}
    /\ tx' = Quiet
    /\ LET moved == host.moved + tx.len
           done  == tx.len < MaxPacket \/ moved >= host.req.wLength
       IN  IF host.stage = "statusIn"
           THEN host' = [host EXCEPT !.stage = "idle"]
           ELSE host' = [host EXCEPT !.moved = moved,
                                     !.stage = IF done THEN "statusOut" ELSE "dataIn"]
    /\ events' = Append(events, Event("tx", NoSetup, 0, host.stage = "statusIn"))
    /\ UNCHANGED rx
    /\ HostStep

HostOut ==
    /\ Answering /\ rx = "valid"
    /\ host.stage \in {"dataOut", "statusOut"}
    /\ rx' = "nak"
    /\ LET left == host.req.wLength - host.moved
           len  == IF host.stage = "statusOut" THEN 0 ELSE Smaller(MaxPacket, left)
       IN  /\ events' = Append(events, Event("out", NoSetup, len, host.stage = "statusOut"))
           /\ IF host.stage = "statusOut"
              THEN host' = [host EXCEPT !.stage = "idle"]
              ELSE host' = [host EXCEPT !.moved = @ + len,
                                        !.stage = IF len = left THEN "statusIn" ELSE "dataOut"]
    /\ UNCHANGED tx
    /\ HostStep

HostStalled ==
    /\ Answering
    /\ \/ host.stage \in {"dataIn", "statusIn"} /\ tx.status = "stall"
       \/ host.stage \in {"dataOut", "statusOut"} /\ rx = "stall"
    /\ host' = [host EXCEPT !.stage = "idle"]
    /\ UNCHANGED <<rx, tx, events>>
    /\ HostStep

\* A bus reset closes the endpoints; events not pulled yet are lost.
HostReset ==
    /\ ~Queued("reset")
    /\ rx' = "nak" /\ tx' = Quiet
    /\ events' = << Event("reset", NoSetup, 0, FALSE) >>
    /\ host' = [host EXCEPT !.stage = "idle"]
    /\ HostStep

HostMoves == HostIn \/ HostOut \/ HostStalled

BusNext ==
    \/ Pull
    \/ Streamer
    \/ \E s \in [in : BOOLEAN, wLength : HostLengths] : HostSetup("setup", s, FirstStage(s))
    \/ HostSetup("badSetup", NoSetup, "idle")
    \/ HostMoves
    \/ HostReset

\* Pending events are pulled, the host goes on with its transfer, and a
\* streamer that deferred its answer gives it.
BusFairness ==
    /\ WF_busVars(Pull)
    /\ WF_busVars(HostMoves)
    /\ WF_busVars(state = "WAITING" /\ Streamer)

BusSpec == BusInit /\ [][BusNext]_busVars /\ BusFairness

-----------------------------------------------------------------------------
(* Properties.                                                             *)

\* A packet the host may be reading is never overwritten: transmitPacket() is
\* not called while the IN endpoint is still armed.
NoOverwrite == ~overwritten

Pulled  == events # << >> /\ events' = Tail(events)
Success == \E i \in 1..Len(notes') : notes'[i] \in {"succeeded", "completed"}

\* A transfer of no data with the direction bit set: the host ends it with an
\* IN status packet, the endpoint waits for an OUT one.
ZeroLengthIn == setup.in /\ setup.wLength = 0

\* The application is told of success exactly when the host has seen the whole
\* transfer, status stage included, of a request that was not aborted before;
\* and then host and streamer have moved the same number of bytes.
Agreement ==
    [][Pulled /\ ~ZeroLengthIn
         => /\ Success <=> Head(events).fin /\ client \notin {"none", "ended"}
            /\ Success /\ streamer /\ events' = << >> /\ host.stage = "idle"
                 => dataLength = host.moved]_busVars

\* The host is stalled for the request it made, never for an earlier one: no
\* request is being served when it sees a STALL.
StallBelongs ==
    [][HostStalled => client = "none"]_busVars

\* Host and device never wait for each other: a transfer of a host that does
\* not give up is completed or stalled, and every streamer is released:
\* completed or aborted, also by a bus reset.
TransferEnds ==
    /\ host.stage # "idle" ~> host.stage = "idle"
    /\ client \in {"sending", "receiving"} /\ ~ZeroLengthIn
           ~> client \notin {"sending", "receiving"}
=============================================================================
