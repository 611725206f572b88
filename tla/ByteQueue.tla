------------------------------- MODULE ByteQueue -------------------------------
(***************************************************************************)
(* What ub::CircularBuffer promises (fifo.hpp): a queue of bytes of        *)
(* limited length that loses, repeats and reorders nothing, and a counter  *)
(* of the bytes taken from it, kept in a machine word.                     *)
(***************************************************************************)
EXTENDS Naturals, Sequences

CONSTANTS
    Byte,           \* byte values
    MaxCapacity,    \* the longest storage buffer
    Word            \* number of values of a size_t

VARIABLES
    queue,          \* bytes written and not yet read, oldest first
    limit,          \* the most bytes the queue may hold
    popped,         \* headPosition()
    out             \* the bytes handed out by the last step

queueVars == <<queue, limit, popped, out>>

QueueInit ==
    /\ queue = << >> /\ popped = 0 /\ out = << >>
    /\ limit \in 0..(MaxCapacity - 1)

Push(s) ==
    /\ Len(queue) + Len(s) <= limit
    /\ queue' = queue \o s
    /\ out' = << >>
    /\ UNCHANGED <<limit, popped>>

Take(n) ==
    /\ queue' = SubSeq(queue, n + 1, Len(queue))
    /\ popped' = (popped + n) % Word
    /\ UNCHANGED limit

Pop(n)  == Take(n) /\ out' = SubSeq(queue, 1, n)
Drop(n) == Take(n) /\ out' = << >>

Clear ==
    /\ queue' = << >> /\ popped' = 0 /\ out' = << >>
    /\ UNCHANGED limit

Rebase(l) ==
    /\ popped' = (popped + Len(queue)) % Word
    /\ queue' = << >> /\ out' = << >>
    /\ limit' = l

QueueNext ==
    \/ \E n \in 0..MaxCapacity : \E s \in [1..n -> Byte] : Push(s)
    \/ \E n \in 0..Len(queue) : Pop(n) \/ Drop(n)
    \/ Clear
    \/ \E l \in 0..(MaxCapacity - 1) : Rebase(l)

QueueSpec == QueueInit /\ [][QueueNext]_queueVars
=============================================================================
