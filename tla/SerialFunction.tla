----------------------------- MODULE SerialFunction -----------------------------
(***************************************************************************)
(* ub::usbd::SerialFunction (device-serial/src/function.cpp): a CDC ACM    *)
(* serial port between the application's two byte queues and a pair of     *)
(* bulk endpoints.                                                         *)
(*                                                                         *)
(* One operator per method.  The queues are CircularBuffers, taken here as *)
(* the byte queues CircularBuffer implements; only the contiguous limit of *)
(* the transmit queue needs the read pointer, which is the head position   *)
(* modulo the capacity.  "calls" holds the calls a method made to its      *)
(* FunctionHost.  m_rxPacket matters only while it holds a packet that did *)
(* not fit: rxPacket is that packet, m_rxPacketLength its length.          *)
(***************************************************************************)
EXTENDS Integers, Sequences

CONSTANTS
    Packet,         \* UB_USBD_SERIAL_PACKET_LENGTH
    RxCapacity,     \* length given to setReceiveBuffer()
    TxCapacity,     \* length given to setTransmitBuffer()
    Coding,         \* line codings a host sets
    Signals         \* states of the control lines

ASSUME SerialAssumption ==
    /\ Packet \in Nat \ {0}
    /\ RxCapacity \in Nat \ {0} /\ TxCapacity \in Nat \ {0}

VARIABLES
    rxQueue, rxHead,        \* m_rxQueue and its head position
    txQueue, txHead,        \* m_txQueue and its head position
    rxPacket,               \* the packet held back in m_rxPacket
    txPacketLength,         \* m_txPacketLength
    txReady,                \* m_txReady
    pendingEvents,          \* m_pendingEvents
    lineCoding,             \* m_lineCoding
    controlSignals,         \* m_controlSignals
    discardOnReset,         \* m_discardOnReset
    calls                   \* calls made by the last step, in order

rxVars     == <<rxQueue, rxHead, rxPacket>>
txVars     == <<txQueue, txHead, txPacketLength, txReady>>
lineVars   == <<lineCoding, controlSignals>>
serialVars == <<rxVars, txVars, pendingEvents, lineVars, discardOnReset, calls>>

Receive    == [op |-> "receive", data |-> << >>]
Transmit(s) == [op |-> "transmit", data |-> s]

Lesser(a, b) == IF a <= b THEN a ELSE b
DropFirst(q, n) == SubSeq(q, n + 1, Len(q))

\* freeBytes() of the receive queue when it holds q, and of the transmit queue.
RxFree(q) == RxCapacity - 1 - Len(q)
TxFree(q) == TxCapacity - 1 - Len(q)

\* readLimit() of the transmit queue when it holds q and its head is at position h.
TxReadLimit(q, h) == Lesser(Len(q), TxCapacity - (h % TxCapacity))

NewSerial(coding, signals) ==
    /\ rxQueue = << >> /\ rxHead = 0 /\ txQueue = << >> /\ txHead = 0
    /\ rxPacket = << >> /\ txPacketLength = 0 /\ txReady = FALSE
    /\ pendingEvents = {} /\ lineCoding = coding /\ controlSignals = signals
    /\ discardOnReset = TRUE /\ calls = << >>

-----------------------------------------------------------------------------
(* Helpers of the class.                                                   *)

\* Mutant of ProcessPendingPacket: the packet stays held after it was queued.
ProcessPendingPacketAgain(q) ==
    IF rxPacket # << >> /\ RxFree(q) >= Len(rxPacket)
    THEN rxQueue' = q \o rxPacket /\ rxPacket' = rxPacket /\ calls' = <<Receive>>
    ELSE rxQueue' = q /\ calls' = << >> /\ UNCHANGED rxPacket

\* processPendingPacket() when the receive queue holds q: the held packet moves
\* to the queue once it fits, and the endpoint is armed again.
ProcessPendingPacket(q) ==
    IF rxPacket # << >> /\ RxFree(q) >= Len(rxPacket)
    THEN rxQueue' = q \o rxPacket /\ rxPacket' = << >> /\ calls' = <<Receive>>
    ELSE rxQueue' = q /\ calls' = << >> /\ UNCHANGED rxPacket

\* Mutant of TransmitNextChunk: an emptied queue does not make it ready.
TransmitNextChunkBusy(q, h, before) ==
    LET len == Lesser(TxReadLimit(q, h), Packet)
    IN  IF q # << >>
        THEN /\ txPacketLength' = len /\ txReady' = FALSE
             /\ calls' = Append(before, Transmit(SubSeq(q, 1, len)))
        ELSE txPacketLength' = 0 /\ UNCHANGED txReady /\ calls' = before

\* transmitNextChunk() when the transmit queue holds q with its head at h, after
\* the calls "before".
TransmitNextChunk(q, h, before) ==
    LET len == Lesser(TxReadLimit(q, h), Packet)
    IN  IF q # << >>
        THEN /\ txPacketLength' = len /\ txReady' = FALSE
             /\ calls' = Append(before, Transmit(SubSeq(q, 1, len)))
        ELSE txPacketLength' = 0 /\ txReady' = TRUE /\ calls' = before

-----------------------------------------------------------------------------
(* Calls of the application.                                               *)

\* Mutant of ReceiveBytes: a packet that fits now is left where it is.
ReceiveBytesOnly(n) ==
    LET len == Lesser(n, Len(rxQueue))
    IN  /\ rxQueue' = DropFirst(rxQueue, len) /\ calls' = << >> /\ UNCHANGED rxPacket
        /\ rxHead' = rxHead + len
        /\ UNCHANGED <<txVars, pendingEvents, lineVars, discardOnReset>>

ReceiveBytes(n) ==
    LET len == Lesser(n, Len(rxQueue))
    IN  /\ ProcessPendingPacket(DropFirst(rxQueue, len))
        /\ rxHead' = rxHead + len
        /\ UNCHANGED <<txVars, pendingEvents, lineVars, discardOnReset>>

DiscardReceived(n) ==
    /\ IF Len(rxQueue) < n
       THEN calls' = << >> /\ UNCHANGED rxVars
       ELSE ProcessPendingPacket(DropFirst(rxQueue, n)) /\ rxHead' = rxHead + n
    /\ UNCHANGED <<txVars, pendingEvents, lineVars, discardOnReset>>

\* Mutant of TransmitBytes: the queue is sent again though a packet is under way.
TransmitBytesAlways(s) ==
    /\ IF TxFree(txQueue) < Len(s)
       THEN calls' = << >> /\ UNCHANGED txVars
       ELSE /\ txQueue' = txQueue \o s /\ UNCHANGED txHead
            /\ TransmitNextChunk(txQueue \o s, txHead, << >>)
    /\ UNCHANGED <<rxVars, pendingEvents, lineVars, discardOnReset>>

TransmitBytes(s) ==
    /\ IF TxFree(txQueue) < Len(s)
       THEN calls' = << >> /\ UNCHANGED txVars
       ELSE /\ txQueue' = txQueue \o s /\ UNCHANGED txHead
            /\ IF txReady
               THEN TransmitNextChunk(txQueue \o s, txHead, << >>)
               ELSE calls' = << >> /\ UNCHANGED <<txPacketLength, txReady>>
    /\ UNCHANGED <<rxVars, pendingEvents, lineVars, discardOnReset>>

PullEvents ==
    /\ pendingEvents' = {} /\ calls' = << >>
    /\ UNCHANGED <<rxVars, txVars, lineVars, discardOnReset>>

SetDiscardOnReset(value) ==
    /\ discardOnReset' = value /\ calls' = << >>
    /\ UNCHANGED <<rxVars, txVars, pendingEvents, lineVars>>

-----------------------------------------------------------------------------
(* Callbacks of the stack.                                                 *)

\* Mutant of Initialize: what was queued is not sent after a reset.
InitializeSilently ==
    /\ pendingEvents' = pendingEvents \cup {"reset"}
    /\ IF discardOnReset
       THEN /\ rxQueue' = << >> /\ rxHead' = 0 /\ txQueue' = << >> /\ txHead' = 0
            /\ rxPacket' = << >> /\ txReady' = TRUE /\ txPacketLength' = 0
       ELSE UNCHANGED <<rxVars, txVars>>
    /\ calls' = IF rxPacket' = << >> THEN <<Receive>> ELSE << >>
    /\ UNCHANGED <<lineVars, discardOnReset>>

Initialize ==
    /\ pendingEvents' = pendingEvents \cup {"reset"}
    /\ LET q == IF discardOnReset THEN << >> ELSE txQueue
           h == IF discardOnReset THEN 0 ELSE txHead
       IN  /\ IF discardOnReset
              THEN rxQueue' = << >> /\ rxHead' = 0 /\ rxPacket' = << >>
              ELSE UNCHANGED rxVars
           /\ txQueue' = q /\ txHead' = h
           /\ TransmitNextChunk(q, h, IF rxPacket' = << >> THEN <<Receive>> ELSE << >>)
    /\ UNCHANGED <<lineVars, discardOnReset>>

\* Mutant of PacketReceived: an empty packet is taken for the end of the stream.
PacketReceivedStopping(s) ==
    /\ IF RxFree(rxQueue) >= Len(s)
       THEN /\ rxQueue' = rxQueue \o s
            /\ pendingEvents' = IF s = << >> THEN pendingEvents ELSE pendingEvents \cup {"rx"}
            /\ calls' = IF s = << >> THEN << >> ELSE <<Receive>>
            /\ UNCHANGED rxPacket
       ELSE rxPacket' = s /\ calls' = << >> /\ UNCHANGED <<rxQueue, pendingEvents>>
    /\ UNCHANGED <<rxHead, txVars, lineVars, discardOnReset>>

PacketReceived(s) ==
    /\ \/ /\ Len(s) = 0
          /\ calls' = <<Receive>> /\ UNCHANGED <<rxQueue, rxPacket, pendingEvents>>
       \/ /\ Len(s) > 0 /\ RxFree(rxQueue) >= Len(s)
          /\ rxQueue' = rxQueue \o s /\ UNCHANGED rxPacket
          /\ pendingEvents' = pendingEvents \cup {"rx"}
          /\ calls' = <<Receive>>
       \/ /\ Len(s) > 0 /\ RxFree(rxQueue) < Len(s)
          /\ rxPacket' = s /\ calls' = << >> /\ UNCHANGED <<rxQueue, pendingEvents>>
    /\ UNCHANGED <<rxHead, txVars, lineVars, discardOnReset>>

\* Mutant of TransmitComplete: a whole packet is taken for sent.
TransmitCompleteWhole ==
    LET q == DropFirst(txQueue, Packet)
        h == txHead + Packet
    IN  /\ txQueue' = q /\ txHead' = h
        /\ pendingEvents' = pendingEvents \cup {"tx"}
        /\ TransmitNextChunk(q, h, << >>)
        /\ UNCHANGED <<rxVars, lineVars, discardOnReset>>

\* Mutant of TransmitComplete: the application is not told.
TransmitCompleteSilently ==
    LET q == DropFirst(txQueue, txPacketLength)
        h == txHead + txPacketLength
    IN  /\ txQueue' = q /\ txHead' = h
        /\ TransmitNextChunk(q, h, << >>)
        /\ UNCHANGED <<rxVars, pendingEvents, lineVars, discardOnReset>>

TransmitComplete ==
    LET q == DropFirst(txQueue, txPacketLength)
        h == txHead + txPacketLength
    IN  /\ txQueue' = q /\ txHead' = h
        /\ pendingEvents' = pendingEvents \cup {"tx"}
        /\ TransmitNextChunk(q, h, << >>)
        /\ UNCHANGED <<rxVars, lineVars, discardOnReset>>

\* A class request that setupControl() accepted.
HandleControl(request, coding, signals) ==
    /\ \/ /\ request = "SET_CONTROL_LINE_STATE"
          /\ controlSignals' = signals /\ UNCHANGED lineCoding
          /\ pendingEvents' = pendingEvents \cup {"signals"}
       \/ /\ request = "GET_LINE_CODING" /\ UNCHANGED <<lineVars, pendingEvents>>
       \/ /\ request = "SET_LINE_CODING"
          /\ lineCoding' = coding /\ UNCHANGED controlSignals
          /\ pendingEvents' = pendingEvents \cup {"coding"}
    /\ calls' = << >>
    /\ UNCHANGED <<rxVars, txVars, discardOnReset>>
=============================================================================
