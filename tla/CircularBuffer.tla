----------------------------- MODULE CircularBuffer -----------------------------
(***************************************************************************)
(* ub::CircularBuffer (src/utilities/src/fifo.cpp): the ring behind the    *)
(* serial function's queues.  One byte of the storage is never used, so    *)
(* that equal pointers mean an empty ring.                                 *)
(*                                                                         *)
(* The two copying calls are loops: one iteration is one action, and "job" *)
(* is the call in progress.  Callers keep the documented preconditions: no *)
(* more than freeBytes() is written, no more than pendingBytes() read.     *)
(***************************************************************************)
EXTENDS Integers, Sequences

CONSTANTS Byte, MaxCapacity, Word

ASSUME BufferAssumption ==
    /\ MaxCapacity \in Nat \ {0}
    /\ Word \in Nat /\ Word > 2 * MaxCapacity
    /\ Byte # {}

VARIABLES
    buffer,         \* the storage m_buffer points to
    capacity,       \* m_capacity
    rdPtr,          \* m_rdPtr
    wrPtr,          \* m_wrPtr
    headPos,        \* m_headPos
    job,            \* copying call in progress: bytes still to write or to read
    out             \* the bytes copied out by the last step

bufVars == <<buffer, capacity, rdPtr, wrPtr, headPos, job, out>>

\* At most MaxCapacity bytes.
ShortSeq == UNION {[1..n -> Byte] : n \in 0..MaxCapacity}

Idle       == [op |-> "idle", rest |-> << >>, left |-> 0]
Writing(s) == IF s = << >> THEN Idle ELSE [op |-> "write", rest |-> s, left |-> 0]
Reading(n) == IF n = 0 THEN Idle ELSE [op |-> "read", rest |-> << >>, left |-> n]

Least(a, b) == IF a <= b THEN a ELSE b

-----------------------------------------------------------------------------
(* Queries.                                                                *)

PendingBytes == IF rdPtr <= wrPtr THEN wrPtr - rdPtr
                ELSE capacity + wrPtr - rdPtr

FreeBytes == (IF rdPtr <= wrPtr THEN capacity - wrPtr + rdPtr - 1
              ELSE rdPtr - wrPtr - 1) % Word

\* Mutant of WriteLimit: a byte is kept free at the end of the storage as well.
WriteLimitShort == IF wrPtr < rdPtr THEN rdPtr - wrPtr - 1 ELSE capacity - 1 - wrPtr

WriteLimit == CASE wrPtr < rdPtr                -> rdPtr - wrPtr - 1
                [] wrPtr >= rdPtr /\ rdPtr = 0  -> capacity - 1 - wrPtr
                [] wrPtr >= rdPtr /\ rdPtr # 0  -> capacity - wrPtr

ReadLimit == IF rdPtr > wrPtr THEN capacity - rdPtr ELSE wrPtr - rdPtr

\* How readBytes(n) and writeBytes(n) bring a pointer back into the storage.
Wrap(p) == IF p >= capacity THEN p - capacity ELSE p

\* n bytes of the storage from position p on, across its end.
Stored(p, n) == [i \in 1..n |-> buffer[Wrap(p + i - 1)]]

\* The storage with s put at position p, across its end.
Store(p, s) == [a \in DOMAIN buffer |->
                  IF a >= p /\ a < p + Len(s) THEN s[a - p + 1]
                  ELSE IF a + capacity < p + Len(s) THEN s[a + capacity - p + 1]
                  ELSE buffer[a]]

Pending == Stored(rdPtr, PendingBytes)

-----------------------------------------------------------------------------
(* Operations.                                                             *)

BufInit ==
    /\ capacity \in 1..MaxCapacity
    /\ buffer \in [0..(capacity - 1) -> Byte]
    /\ rdPtr = 0 /\ wrPtr = 0 /\ headPos = 0
    /\ job = Idle /\ out = << >>

SetBuffer(length) ==
    /\ job = Idle
    /\ headPos' = (headPos + PendingBytes) % Word
    /\ capacity' = length
    /\ buffer' \in [0..(length - 1) -> Byte]
    /\ rdPtr' = 0 /\ wrPtr' = 0
    /\ out' = << >> /\ UNCHANGED job

\* Mutant of ResetBuffer: the position counter survives.
ResetKeepingPos ==
    /\ job = Idle
    /\ rdPtr' = 0 /\ wrPtr' = 0 /\ out' = << >>
    /\ UNCHANGED <<buffer, capacity, headPos, job>>

ResetBuffer ==
    /\ job = Idle
    /\ headPos' = 0 /\ rdPtr' = 0 /\ wrPtr' = 0
    /\ out' = << >> /\ UNCHANGED <<buffer, capacity, job>>

\* readBytes(n), which only moves the head.
ReadBytes(n) ==
    /\ rdPtr' = Wrap(rdPtr + n)
    /\ headPos' = (headPos + n) % Word
    /\ UNCHANGED <<buffer, capacity, wrPtr>>

\* writeBytes(n) after the bytes s were put where writePtr() points.
WriteBytes(s) ==
    /\ buffer' = Store(wrPtr, s)
    /\ wrPtr' = Wrap(wrPtr + Len(s))
    /\ out' = << >>
    /\ UNCHANGED <<capacity, rdPtr, headPos>>

\* Zero-copy use: the caller fills or reads the storage itself.
Discard(n) == /\ job = Idle /\ n <= PendingBytes
              /\ ReadBytes(n) /\ out' = << >> /\ UNCHANGED job

Commit(s)  == /\ job = Idle /\ Len(s) <= FreeBytes
              /\ WriteBytes(s) /\ UNCHANGED job

\* writeBytes(buffer, n) and readBytes(buffer, n): the call, and one iteration.
CallWrite(s) == /\ job = Idle /\ Len(s) <= FreeBytes
                /\ job' = Writing(s) /\ out' = << >>
                /\ UNCHANGED <<buffer, capacity, rdPtr, wrPtr, headPos>>

CallRead(n) == /\ job = Idle /\ n <= PendingBytes
               /\ job' = Reading(n) /\ out' = << >>
               /\ UNCHANGED <<buffer, capacity, rdPtr, wrPtr, headPos>>

WriteChunk ==
    /\ job.op = "write"
    /\ LET len == Least(WriteLimit, Len(job.rest))
       IN  /\ WriteBytes(SubSeq(job.rest, 1, len))
           /\ job' = Writing(SubSeq(job.rest, len + 1, Len(job.rest)))

ReadChunk ==
    /\ job.op = "read"
    /\ LET len == Least(ReadLimit, job.left)
       IN  /\ ReadBytes(len)
           /\ out' = [i \in 1..len |-> buffer[rdPtr + i - 1]]
           /\ job' = Reading(job.left - len)

BufNext ==
    \/ \E length \in 1..MaxCapacity : SetBuffer(length)
    \/ ResetBuffer
    \/ \E n \in 0..MaxCapacity : Discard(n) \/ CallRead(n)
    \/ \E s \in ShortSeq : Commit(s) \/ CallWrite(s)
    \/ WriteChunk
    \/ ReadChunk

\* A copying call that was made runs to its end.
BufSpec == BufInit /\ [][BufNext]_bufVars /\ WF_bufVars(WriteChunk \/ ReadChunk)

-----------------------------------------------------------------------------
(* Properties.                                                             *)

\* Both pointers stay inside the storage.
BufTypeOK ==
    /\ capacity \in 1..MaxCapacity
    /\ buffer \in [0..(capacity - 1) -> Byte]
    /\ rdPtr \in 0..(capacity - 1) /\ wrPtr \in 0..(capacity - 1)
    /\ headPos \in 0..(Word - 1)

\* Every byte of the storage but one is either pending or free.
Conservation == PendingBytes + FreeBytes = capacity - 1

\* The contiguous regions offered to memcpy and to zero-copy callers lie inside
\* the storage and inside the pending and free bytes.
RegionsInv ==
    /\ ReadLimit <= PendingBytes /\ rdPtr + ReadLimit <= capacity
    /\ WriteLimit <= FreeBytes /\ wrPtr + WriteLimit <= capacity

\* A copying loop always finds room or data for what it still has to copy: no
\* iteration copies nothing.
LoopInv ==
    /\ job.op = "write" => Len(job.rest) <= FreeBytes /\ WriteLimit > 0
    /\ job.op = "read" => job.left <= PendingBytes /\ ReadLimit > 0

\* A copying call takes at most two iterations: one that leaves something to
\* copy has just crossed the end of the storage, which happens once per call.
AtMostTwoChunks ==
    [][/\ WriteChunk /\ job' # Idle => wrPtr # 0 /\ wrPtr' = 0
       /\ ReadChunk /\ job' # Idle => rdPtr # 0 /\ rdPtr' = 0]_bufVars

\* Every copying call returns.
CallsReturn == job # Idle ~> job = Idle

\* The ring is the queue of ByteQueue.
Queue == INSTANCE ByteQueue WITH
    queue <- Pending, limit <- capacity - 1, popped <- headPos
ImplementsQueue == Queue!QueueSpec
=============================================================================
