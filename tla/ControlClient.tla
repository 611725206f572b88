---------------------------- MODULE ControlClient ----------------------------
(***************************************************************************)
(* The client of the control endpoint: the handler or streamer of the      *)
(* request in progress, as the callbacks it gets show it.  "client" is     *)
(* read off the callbacks of each step and decides nothing; modules that   *)
(* extend this one conjoin ClientFollows to every step of the endpoint.    *)
(***************************************************************************)
EXTENDS ControlEndpoint, SequencesExt

VARIABLE client     \* whom the stack owes a callback

ClientInit == client = "none"

\* The order of callbacks of control.hpp:80-163, as an automaton.
ClientStep(c, n) ==
    CASE n = "oneShot"   /\ c = "none"                         -> "accepted"
      [] n = "sending"   /\ c = "none"                         -> "sending"
      [] n = "receiving" /\ c = "none"                         -> "receiving"
      [] n = "refused"   /\ c = "none"                         -> "refused"
      [] n = "handleControl" /\ c = "accepted"                 -> "handled"
      [] n = "transmitComplete" /\ c = "sending"               -> c
      [] n = "packetReceived" /\ c = "receiving"               -> c
      [] n = "succeeded" /\ c = "handled"                      -> "none"
      [] n \in {"completed", "aborted"} /\ c \in {"sending", "receiving"} -> "none"
      [] n = "failed" /\ c \in {"refused", "accepted", "handled", "ended"} -> "none"
      [] OTHER                                                 -> "broken"

\* reset() tells a streamer that its request is over and keeps the handler
\* (control-endpoint.cpp:23-26); nothing else that aborts a request does.  The
\* client is "ended" until the next SETUP packet reaches the handler (49-51).
ClientFollows ==
    client' = LET c == FoldLeft(ClientStep, client, notes')
              IN  IF c = "none" /\ notes' = << "aborted" >> /\ handler' THEN "ended" ELSE c

\* The endpoint, whatever events it is given, and its client.
ClientSpec == Init /\ ClientInit /\ [][Next /\ ClientFollows]_<<epVars, client>>

\* Handlers and streamers are called in the order of control.hpp:80-163, whatever
\* SETUP packets, resets, stalls and late answers get between.  A request that
\* is accepted is ended before the next is looked at: by one call, or, when it
\* was streamed and a bus reset cut it off, by aborted() of its streamer and then
\* once more by completeControl(.., false) of its handler.  A handler that
\* refuses a request is told of its failure too.
ClientContract == client # "broken"

\* The endpoint has not forgotten a client it still owes the final callback.
NobodyForgotten ==
    /\ client \in {"sending", "receiving"} <=> streamer
    /\ client \in {"accepted", "handled", "ended"} <=> handler /\ ~streamer
    /\ client = "ended" => state = "IDLE"
=============================================================================
