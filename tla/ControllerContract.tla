-------------------------- MODULE ControllerContract --------------------------
(***************************************************************************)
(* What the stack may rely on of a peripheral controller (pcd-interface    *)
(* .hpp): each receivePacket() and transmitPacket() is answered by at most *)
(* one event, no event comes without a call, a SETUP packet or a stall     *)
(* cuts off what the control endpoint was asked for, and a bus reset       *)
(* closes the data endpoints.                                              *)
(*                                                                         *)
(* The interface says more than this.  It knows no event that answers a    *)
(* call the stack no longer waits for: here one may come, once, until the  *)
(* endpoint is opened again ("late").  And the control endpoint's events   *)
(* always answer calls: here those of a direction a controller has lost    *)
(* track of need not, until a reset sets it right ("upset").               *)
(***************************************************************************)
EXTENDS Naturals

CONSTANT Directions         \* <<endpoint number, "in" or "out">>

VARIABLES
    open,                   \* data endpoints that are open
    owed,                   \* directions with a call not answered yet
    late,                   \* number of calls cut off that may still be answered
    upset,                  \* control directions of which any event may come
    event                   \* the event of the last step, if any

contractVars == <<open, owed, late, upset, event>>
ControlDirections == {d \in Directions : d[1] = 0}

ContractInit ==
    /\ open = {} /\ owed = {} /\ late = [d \in Directions |-> 0] /\ upset = {}
    /\ event = << "none" >>

\* Calls are cut off; those cut off before may be forgotten.
CutOff(calls) ==
    /\ owed' = owed \ calls
    /\ \A d \in Directions : late'[d] \in 0..(late[d] + (IF d \in owed \cap calls THEN 1 ELSE 0))

UpsetGrows == upset \subseteq upset' /\ upset' \subseteq ControlDirections

CallMade(d) ==
    /\ d \in ControlDirections \cup open /\ d \notin owed
    /\ owed' = owed \cup {d}
    /\ \A e \in Directions : late'[e] \in 0..late[e]
    /\ event' = << "none" >> /\ UNCHANGED <<open, upset>>

CallStalled(d) ==
    /\ d \in ControlDirections /\ CutOff({d})
    /\ event' = << "none" >> /\ UNCHANGED <<open, upset>>

\* EV_PACKET_RECEIVED or EV_TRANSMIT_COMPLETE.
EventRaised(d) ==
    /\ d \in owed \/ late[d] > 0 \/ d \in upset
    /\ owed' = owed \ {d}
    /\ \A e \in Directions : late'[e] \in 0..late[e]
    /\ d \notin owed \cup upset => late'[d] < late[d]
    /\ event' = << "packet", d >> /\ UNCHANGED <<open, upset>>

SetupRaised ==
    /\ CutOff(ControlDirections)
    /\ event' = << "setup" >> /\ UNCHANGED <<open, upset>>

ResetRaised ==
    /\ open' = {} /\ CutOff(owed) /\ upset' \subseteq upset
    /\ event' = << "reset" >>

\* Nothing that happened before is reported of the data endpoints from here on.
EndpointsOpened ==
    /\ \E s \in SUBSET (Directions \ ControlDirections) : open' = s
    /\ owed' = owed \cap ControlDirections
    /\ \A d \in Directions : late'[d] \in 0..(IF d \in ControlDirections THEN late[d] ELSE 0)
    /\ event' = << "none" >> /\ UNCHANGED upset

NoEvent == event' = << "none" >> /\ CutOff({}) /\ UpsetGrows /\ UNCHANGED open

ContractNext ==
    \/ \E d \in Directions : CallMade(d) \/ CallStalled(d) \/ EventRaised(d)
    \/ SetupRaised \/ ResetRaised \/ EndpointsOpened \/ NoEvent

ContractSpec == ContractInit /\ [][ContractNext]_contractVars
=============================================================================
