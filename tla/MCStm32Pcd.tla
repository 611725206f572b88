------------------------------ MODULE MCStm32Pcd ------------------------------
(* Values of the constants of Stm32Pcd for TLC.                            *)
EXTENDS Stm32Pcd

\* One endpoint number in both directions: packets the block encoding takes
\* for small, one of a length that is no multiple of an access.
MCConfig == << [num |-> 1, in |-> FALSE, maxPacket |-> 16],
               [num |-> 1, in |-> TRUE, maxPacket |-> 15] >>
=============================================================================
