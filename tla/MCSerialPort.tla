----------------------------- MODULE MCSerialPort -----------------------------
(* Uses of the serial port for TLC.                                        *)
EXTENDS SerialPort

CONSTANTS c0, c1

Use(w, s, r) == [written |-> w, sent |-> s, resets |-> r,
                 codings |-> {c0}, lines |-> {c0}, polls |-> FALSE]

\* Transmission through a ring that is filled twice, reception with packets held
\* back, and an application that waits for events while the line changes.
MCLoads == { Use(6, 0, 2), Use(0, 7, 2),
             [Use(2, 0, 1) EXCEPT !.codings = Coding, !.lines = Signals, !.polls = TRUE] }

\* For a receive buffer of one packet, and for calls around a bus reset.
MCOnePacket == { Use(0, 3, 0) }
MCReopened  == { Use(2, 4, 1) }
=============================================================================
