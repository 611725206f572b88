------------------------------ MODULE MCControl ------------------------------
(***************************************************************************)
(* The control endpoint twice, for one run of TLC: between a bus and any   *)
(* handlers, and with the standard handler behind it and any events before *)
(* it.  A behaviour is about one of the two.                               *)
(***************************************************************************)
EXTENDS ControlBus, StandardReplies

VARIABLE used       \* what this behaviour is about

controlVars == <<busVars, asked, m_streamer, sent, used>>

ControlInit ==
    /\ BusInit /\ RepliesInit
    /\ used \in {"bus", "replies"}

ControlNext ==
    /\ UNCHANGED used
    /\ \/ used = "bus" /\ BusNext /\ UNCHANGED <<asked, m_streamer, sent>>
       \/ used = "replies" /\ RepliesNext /\ UNCHANGED <<rx, tx, events, host, overwritten>>

\* The fairness of BusSpec.
ControlSpec ==
    /\ ControlInit /\ [][ControlNext]_controlVars
    /\ used = "bus" => BusFairness

\* TransferEnds, of the bus.
BusTransferEnds == used = "bus" => TransferEnds

\* The first byte of a descriptor is its length, of the configuration the third.
MCDescriptor == [device |-> << 5, 1, 12, 13, 14 >>,
                 config |-> << 2, 2, 8, 0, 25, 26, 27, 28 >>,
                 string |-> << 2, 3 >>]

MCSerial == << 101, 102 >>
=============================================================================
