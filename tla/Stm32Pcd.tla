------------------------------- MODULE Stm32Pcd -------------------------------
(***************************************************************************)
(* STM32USBPeripheral (src/stm32/usb-device/src): the driver of the        *)
(* full-speed USB peripheral, over the peripheral itself.                  *)
(*                                                                         *)
(* The status bits of an endpoint register toggle where a one is written   *)
(* to them.  The driver reads the register and writes the difference to    *)
(* the status it wants; between the two the hardware goes on.  That read   *)
(* and that write are two steps here, all else the driver does is one: no  *)
(* other access depends on bits the hardware may change meanwhile.         *)
(*                                                                         *)
(* The hardware and the host are modelled from the registers pcd_fs.hpp    *)
(* names; the stack keeps the contract of pcd-interface.hpp.               *)
(***************************************************************************)
EXTENDS Naturals, Sequences

CONSTANTS
    Accesses,       \* UB_USBD_FS_SRAM_ACCESS / 8 of the builds considered
    Config,         \* targetData: sequence of [num, in, maxPacket]
    ControlPacket,  \* UB_USBD_MAX_CONTROL_PACKET
    TableLength,    \* USB_BUFFER_TABLE_LEN
    MemoryLength,   \* size of the packet memory
    Lengths         \* lengths of the packets that are sent

ASSUME PcdAssumption ==
    /\ Accesses \subseteq {2, 4}
    /\ Config \in Seq([num : 1..7, in : BOOLEAN, maxPacket : Nat \ {0}])
    /\ ControlPacket \in {8, 16, 32, 64}
    /\ TableLength \in Nat /\ TableLength % 4 = 0
    /\ MemoryLength \in Nat /\ TableLength + 2 * ControlPacket <= MemoryLength
    /\ Lengths \subseteq 0..ControlPacket

Numbers    == {0} \cup {Config[i].num : i \in 1..Len(Config)}
Directions == Numbers \X {"in", "out"}
Direction(c) == <<c.num, IF c.in THEN "in" ELSE "out">>
Configured == {Direction(Config[i]) : i \in 1..Len(Config)}
ControlPair    == {<<0, "in">>, <<0, "out">>}

VARIABLES
    access,         \* the build's access width
    stat,           \* EPnR.STAT_TX and STAT_RX
    ctr,            \* directions whose EPnR.CTR_TX or CTR_RX is set
    setup,          \* EP0R.SETUP
    table,          \* the buffer descriptors: what the hardware uses
    buffer,         \* m_in and m_out: what the driver uses
    bufferPtr,      \* m_bufferPtr
    resetFlag,      \* ISTR.RESET
    enabled,        \* DADDR.EF
    attached,       \* BCDR.DPPU
    op,             \* a status write of which only the read is done
    open, owed,     \* endpoints the stack has opened, calls it has made
    phase,          \* of the stack on the control endpoint
    talk,           \* what the host talks to since the reset
    last,           \* what was delivered by the last step
    upset           \* history: control directions the driver has lost track of

pcdVars == <<access, stat, ctr, setup, table, buffer, bufferPtr, resetFlag,
             enabled, attached, op, open, owed, phase, talk, last, upset>>

-----------------------------------------------------------------------------
(* Register fields and lengths.                                            *)

Disabled == 0
Stall    == 1
Nak      == 2
Valid    == 3

\* Two-bit exclusive or: what writing y to bits that toggle makes of x.
Flip(x, y) == 2 * ((x \div 2 + y \div 2) % 2) + ((x + y) % 2)

\* usbd_alignLength() of the build, and usbd_alignReceiveLength().
AlignLength(n)        == ((n + access - 1) \div access) * access
AlignReceiveLength(n) == IF n >= 64 THEN ((n + 31) \div 32) * 32 ELSE n

\* usbd_encodeReceiveLength(): BL_SIZE in bit 5, NUM_BLOCK below it.
EncodeReceiveLength(n) == IF n >= 64 THEN 32 + (n \div 32 - 1) ELSE n \div 2 - 1

\* What the hardware takes such a field for (reference manual).
Capacity(blocks) == IF blocks >= 32 THEN (blocks - 32 + 1) * 32 ELSE blocks * 2

\* Mutant of ReadPacket: copies whole words.
ReadWholeWords(dst, src, n) ==
    [i \in DOMAIN dst |-> IF i <= AlignLength(n) THEN src[i] ELSE dst[i]]

\* usbd_readPacket(): whole words, then the tail byte by byte.
ReadPacket(dst, src, n) ==
    LET words == (n \div access) * access
    IN  [i \in DOMAIN dst |->
            IF i <= words \/ i - words \in 1..(n % access) THEN src[i] ELSE dst[i]]

\* The bytes usbd_writePacket() writes: with 32-bit accesses the tail is a
\* whole word, with 16-bit ones a byte.
WriteFootprint(n) == IF access = 2 THEN n ELSE AlignLength(n)

WritePacket(dst, src, n) ==
    [i \in DOMAIN dst |-> IF i <= WriteFootprint(n) THEN src[i] ELSE dst[i]]

\* Packets are the bytes 1, 2, 3 ...; memory that is not part of one holds 0.
Cells     == ControlPacket
Packet(n) == [i \in 1..Cells |-> IF i <= n THEN i ELSE 0]
Blank     == Packet(0)

Nothing == [t |-> "none", d |-> <<0, "out">>, setup |-> FALSE, bytes |-> << >>]
NoOp    == [on |-> FALSE, d |-> <<0, "out">>, read |-> Disabled, to |-> Disabled]
Quiet   == [ctl |-> FALSE, data |-> FALSE]

\* After initialize(): nothing set up until the first bus reset.
PcdInit ==
    /\ access \in Accesses
    /\ stat = [d \in Directions |-> Disabled]
    /\ ctr = {} /\ setup = FALSE
    /\ table = [d \in Directions |-> [addr |-> 0, blocks |-> 0, count |-> 0]]
    /\ buffer = [d \in Directions |-> [offset |-> 0, length |-> 0]]
    /\ bufferPtr = 0
    /\ resetFlag = FALSE /\ enabled = FALSE /\ attached = FALSE
    /\ op = NoOp /\ open = {} /\ owed = {} /\ phase = "idle" /\ talk = Quiet /\ last = Nothing
    /\ upset = {}

-----------------------------------------------------------------------------
(* The hardware and the host.                                              *)

DriverUnchanged == UNCHANGED <<access, buffer, bufferPtr, attached, op, open, owed, phase>>

\* Directions whose status the hardware changed between the driver's read and
\* write of it, where the write was to turn a status other than NAK into another:
\* it makes something else of the NAK it finds.
CrossedBy(changed) ==
    upset \cup {d \in changed : op.on /\ op.d = d /\ op.read \notin {Nak, op.to}}

Answering == attached /\ enabled /\ ~resetFlag

\* The host resets the bus: registers are cleared, except for the flags of
\* packets already transferred.  An unread SETUP packet is no longer one.
HwReset ==
    /\ attached
    /\ stat' = [d \in Directions |-> Disabled]
    /\ setup' = FALSE /\ resetFlag' = TRUE /\ enabled' = FALSE
    /\ upset' = IF <<0, "out">> \in ctr /\ setup THEN upset \cup {<<0, "out">>} ELSE upset
    /\ talk' = Quiet /\ last' = Nothing
    /\ UNCHANGED <<ctr, table>> /\ DriverUnchanged

\* A SETUP packet is taken in any state but DISABLED, unless the packet before
\* it is unread, and puts both directions to NAK.
HwSetup ==
    /\ Answering /\ stat[<<0, "out">>] # Disabled /\ <<0, "out">> \notin ctr
    /\ stat' = [d \in Directions |-> IF d \in ControlPair THEN Nak ELSE stat[d]]
    /\ ctr' = ctr \cup {<<0, "out">>} /\ setup' = TRUE
    /\ table' = [table EXCEPT ![<<0, "out">>].count = 8]
    /\ talk' = [talk EXCEPT !.ctl = TRUE]
    /\ last' = Nothing /\ upset' = CrossedBy(ControlPair)
    /\ UNCHANGED <<resetFlag, enabled>> /\ DriverUnchanged

HostTalks(n) == Answering /\ IF n = 0 THEN talk.ctl ELSE talk.data

\* An OUT packet the buffer has room for; a longer one is not acknowledged.  An
\* armed endpoint takes it over a packet that is unread; SETUP keeps its value
\* until that is read.
HwReceives(n, length) ==
    LET d == <<n, "out">>
    IN  /\ HostTalks(n) /\ stat[d] = Valid /\ length <= Capacity(table[d].blocks)
        /\ stat' = [stat EXCEPT ![d] = Nak]
        /\ ctr' = ctr \cup {d}
        /\ setup' = IF n = 0 /\ d \notin ctr THEN FALSE ELSE setup
        /\ table' = [table EXCEPT ![d].count = length]
        /\ last' = Nothing /\ upset' = CrossedBy({d})
        /\ UNCHANGED <<resetFlag, enabled, talk>> /\ DriverUnchanged

\* The host reads a packet and acknowledges it.
HwTransmits(n) ==
    LET d == <<n, "in">>
        memory == WritePacket(Blank, Packet(Cells), table[d].count)
    IN  /\ HostTalks(n) /\ stat[d] = Valid
        /\ stat' = [stat EXCEPT ![d] = Nak]
        /\ ctr' = ctr \cup {d}
        /\ last' = [Nothing EXCEPT !.t = "read", !.d = d,
                                   !.bytes = SubSeq(memory, 1, table[d].count)]
        /\ upset' = CrossedBy({d})
        /\ UNCHANGED <<setup, table, resetFlag, enabled, talk>> /\ DriverUnchanged

Hardware ==
    \/ HwReset \/ HwSetup
    \/ \E n \in Numbers : HwTransmits(n) \/ \E length \in Lengths : HwReceives(n, length)

-----------------------------------------------------------------------------
(* The driver.                                                             *)

\* Mutant of BeginStatus: reads the status of the other direction.
BeginStatusSwapped(d, status) ==
    op' = [on |-> TRUE, d |-> d, to |-> status,
           read |-> stat[<<d[1], IF d[2] = "in" THEN "out" ELSE "in">>]]

\* usbd_setEndpointStatus(), its read and its write.
BeginStatus(d, status) == op' = [on |-> TRUE, d |-> d, read |-> stat[d], to |-> status]

\* Mutant of EndStatus: the status is written as if its bits did not toggle.
EndStatusPlainly ==
    /\ op.on /\ op' = NoOp
    /\ stat' = [stat EXCEPT ![op.d] = Flip(@, op.to)]
    /\ last' = Nothing
    /\ UNCHANGED <<access, ctr, setup, table, buffer, bufferPtr, resetFlag,
                   enabled, attached, open, owed, phase, talk, upset>>

\* What the write makes of the status it finds.
Written == Flip(stat[op.d], Flip(op.read, op.to))

EndStatus ==
    /\ op.on /\ op' = NoOp
    /\ stat' = [stat EXCEPT ![op.d] = Written]
    /\ last' = Nothing
    /\ UNCHANGED <<access, ctr, setup, table, buffer, bufferPtr, resetFlag,
                   enabled, attached, open, owed, phase, talk, upset>>

\* The stack calls when no other call is under way: on the data endpoints it
\* has opened, and on the control endpoint to arm it after a reset and to serve
\* a request it has not refused, whatever the host has sent meanwhile.  Not
\* modelled are calls between a bus reset and its event, when the registers have
\* lost their endpoint numbers.
Callable(d) ==
    /\ ~op.on /\ enabled /\ ~resetFlag
    /\ IF d \in ControlPair THEN phase \in {"reset", "request"}
       ELSE phase # "reset" /\ d \in open

ReceivePacket(n) ==
    /\ Callable(<<n, "out">>) /\ <<n, "out">> \notin owed
    /\ BeginStatus(<<n, "out">>, Valid)
    /\ owed' = owed \cup {<<n, "out">>}
    /\ phase' = IF phase = "reset" THEN "idle" ELSE phase
    /\ last' = Nothing
    /\ UNCHANGED <<access, stat, ctr, setup, table, buffer, bufferPtr, resetFlag,
                   enabled, attached, open, talk, upset>>

TransmitPacket(n, offered) ==
    LET d      == <<n, "in">>
        length == IF offered <= buffer[d].length THEN offered ELSE buffer[d].length
    IN  /\ Callable(d) /\ d \notin owed /\ phase # "reset"
        /\ table' = [table EXCEPT ![d] = [addr |-> buffer[d].offset, blocks |-> 0,
                                          count |-> length]]
        /\ BeginStatus(d, Valid)
        /\ owed' = owed \cup {d}
        /\ last' = Nothing
        /\ UNCHANGED <<access, stat, ctr, setup, buffer, bufferPtr, resetFlag,
                       enabled, attached, open, phase, talk, upset>>

\* stallEndpoint(address, true) on the control endpoint, as abortRequest() calls
\* it, for IN and then for OUT.  A packet armed there is taken back.
StallEndpoint(d) ==
    /\ ~op.on /\ enabled /\ ~resetFlag
    /\ \/ d = <<0, "in">> /\ phase = "request" /\ phase' = "refusing"
       \/ d = <<0, "out">> /\ phase = "refusing" /\ phase' = "halted"
    /\ BeginStatus(d, Stall)
    /\ owed' = owed \ {d}
    /\ last' = Nothing
    /\ UNCHANGED <<access, stat, ctr, setup, table, buffer, bufferPtr, resetFlag,
                   enabled, attached, open, talk, upset>>

\* handleReset().
ControlRxLength == AlignReceiveLength(AlignLength(ControlPacket))

HandleReset ==
    /\ table' = [table EXCEPT ![<<0, "out">>] =
                    [addr |-> TableLength, blocks |-> EncodeReceiveLength(ControlRxLength),
                     count |-> 0]]
    /\ buffer' = [buffer EXCEPT
                    ![<<0, "out">>] = [offset |-> TableLength, length |-> ControlPacket],
                    ![<<0, "in">>]  = [offset |-> TableLength + ControlRxLength,
                                       length |-> ControlPacket]]
    /\ bufferPtr' = TableLength + ControlRxLength + AlignLength(ControlPacket)
    /\ stat' = [d \in Directions |-> IF d \in ControlPair THEN Flip(stat[d], Nak) ELSE stat[d]]
    /\ ctr' = ctr \ ControlPair
    /\ enabled' = TRUE

PullReset ==
    /\ resetFlag /\ resetFlag' = FALSE
    /\ HandleReset
    /\ open' = {} /\ owed' = {}
    /\ upset' = {d \in upset : stat'[d] = Valid}
    /\ phase' = "reset"
    /\ last' = [Nothing EXCEPT !.t = "reset"]
    /\ UNCHANGED <<access, setup, attached, op, talk>>

\* The endpoint ISTR names: the lowest one, and its OUT packet first.
Reported ==
    LET n == CHOOSE m \in Numbers : /\ {<<m, "in">>, <<m, "out">>} \cap ctr # {}
                                    /\ \A k \in 0..(m - 1) : <<k, "in">> \notin ctr
                                                          /\ <<k, "out">> \notin ctr
    IN  IF <<n, "out">> \in ctr THEN <<n, "out">> ELSE <<n, "in">>

\* usbd_clearEndpointFlag().
ClearFlag(d) == ctr' = ctr \ {d}

PullReceived ==
    /\ ~resetFlag /\ ctr # {} /\ Reported[2] = "out"
    /\ LET d == Reported
           isSetup == d[1] = 0 /\ setup
       IN  /\ last' = [t |-> "received", d |-> d, setup |-> isSetup,
                       bytes |-> ReadPacket(Blank, Packet(Cells), table[d].count)]
           /\ ClearFlag(d)
           /\ owed' = IF isSetup THEN owed \ ControlPair ELSE owed \ {d}
           /\ phase' = IF isSetup THEN "request" ELSE phase
    /\ UNCHANGED <<access, stat, setup, table, buffer, bufferPtr, resetFlag, enabled,
                   attached, op, open, talk, upset>>

PullTransmitted ==
    /\ ~resetFlag /\ ctr # {} /\ Reported[2] = "in"
    /\ ClearFlag(Reported)
    /\ owed' = owed \ {Reported}
    /\ last' = [Nothing EXCEPT !.t = "transmitted", !.d = Reported]
    /\ UNCHANGED <<access, stat, setup, table, buffer, bufferPtr, resetFlag, enabled,
                   attached, op, open, phase, talk, upset>>

\* pullEvent().  The stack first finishes what it does after a reset and to
\* refuse a request, unless there is another reset.
PullEvent ==
    /\ ~op.on /\ attached /\ (phase \in {"reset", "refusing"} => resetFlag)
    /\ PullReset \/ PullReceived \/ PullTransmitted

\* Mutant of OpenEndpoint: the pointer moves by the length before alignment.
OpenUnaligned(s, c) ==
    LET d == Direction(c)
    IN  [s EXCEPT
            !.stat[d]   = Flip(@, Flip(@, Nak)),
            !.ctr       = @ \ {d},
            !.buffer[d] = [offset |-> s.bufferPtr, length |-> c.maxPacket],
            !.bufferPtr = @ + c.maxPacket]

\* Mutant of OpenEndpoint: both flags are written as ones.
OpenKeepingFlags(s, c) ==
    LET d == Direction(c)
    IN  [s EXCEPT
            !.stat[d]   = Flip(@, Flip(@, Nak)),
            !.buffer[d] = [offset |-> s.bufferPtr, length |-> c.maxPacket],
            !.table[d]  = IF c.in THEN @
                          ELSE [addr |-> s.bufferPtr, count |-> 0,
                                blocks |-> EncodeReceiveLength(AlignLength(c.maxPacket))],
            !.bufferPtr = @ + AlignLength(c.maxPacket)]

\* One endpoint of openEndpoint(), on the part of the state it changes: status
\* NAK and flag cleared for its direction, the other direction as it was.  (The
\* length of an OUT buffer is not kept in the code; here it says what was asked.)
OpenEndpoint(s, c) ==
    LET d       == Direction(c)
        aligned == AlignLength(c.maxPacket)
        length  == IF c.in THEN aligned ELSE AlignReceiveLength(aligned)
    IN  [s EXCEPT
            !.stat[d]   = Flip(@, Flip(@, Nak)),
            !.ctr       = @ \ {d},
            !.buffer[d] = [offset |-> s.bufferPtr, length |-> c.maxPacket],
            !.table[d]  = IF c.in THEN @
                          ELSE [addr |-> s.bufferPtr, count |-> 0,
                                blocks |-> EncodeReceiveLength(length)],
            !.bufferPtr = @ + length]

OpenAll(s) ==
    LET opened[i \in 0..Len(Config)] ==
            IF i = 0 THEN s ELSE OpenEndpoint(opened[i - 1], Config[i])
    IN  opened[Len(Config)]

\* configureDevice(), while the buffers fit the packet memory, which the code
\* does not check.  It is called for a SET_CONFIGURATION request.  The request may
\* still fail in a function: then the host leaves the data endpoints alone and
\* the stack configures the device again when it is asked to.
ConfigureDevice ==
    /\ ~op.on /\ enabled /\ ~resetFlag /\ ~talk.data /\ phase = "request"
    /\ LET s == OpenAll([stat |-> stat, ctr |-> ctr, buffer |-> buffer, table |-> table,
                         bufferPtr |-> bufferPtr])
       IN  /\ s.bufferPtr <= MemoryLength
           /\ stat' = s.stat /\ ctr' = s.ctr /\ buffer' = s.buffer
           /\ table' = s.table /\ bufferPtr' = s.bufferPtr
    /\ open' = Configured /\ owed' = owed \cap ControlPair
    /\ \E succeeded \in BOOLEAN : talk' = [talk EXCEPT !.data = succeeded]
    /\ last' = Nothing
    /\ UNCHANGED <<access, setup, resetFlag, enabled, attached, op, phase, upset>>

Connect ==
    /\ ~attached /\ attached' = TRUE /\ last' = Nothing
    /\ UNCHANGED <<access, stat, ctr, setup, table, buffer, bufferPtr, resetFlag, enabled,
                   op, open, owed, phase, talk, upset>>

\* disconnect(): the flags of packets already transferred stay, the rest is
\* forgotten with the address.
Disconnect ==
    /\ attached /\ ~op.on
    /\ attached' = FALSE /\ enabled' = FALSE /\ resetFlag' = FALSE
    /\ talk' = Quiet /\ last' = Nothing
    /\ UNCHANGED <<access, stat, ctr, setup, table, buffer, bufferPtr, op, open, owed, phase,
                   upset>>

Driver ==
    \/ EndStatus
    \/ \E n \in Numbers : ReceivePacket(n) \/ \E length \in Lengths : TransmitPacket(n, length)
    \/ \E d \in ControlPair : StallEndpoint(d)
    \/ PullEvent \/ ConfigureDevice \/ Connect \/ Disconnect

PcdNext == Hardware \/ Driver
PcdSpec == PcdInit /\ [][PcdNext]_pcdVars

-----------------------------------------------------------------------------
(* Properties.                                                             *)

PcdEvent ==
    CASE last.t = "received" /\ last.setup  -> << "setup" >>
      [] last.t = "received" /\ ~last.setup -> << "packet", last.d >>
      [] last.t = "transmitted"             -> << "packet", last.d >>
      [] last.t = "reset"                   -> << "reset" >>
      [] OTHER                              -> << "none" >>

\* A direction that is armed, or that the write under way arms.
Armed(d) == stat[d] = Valid \/ (op.on /\ op.d = d /\ Written = Valid)

Live == enabled /\ ~resetFlag

\* Of the packet events the driver has still to report of a direction, those that
\* answer no call the stack waits for.
Late(d) ==
    LET arrived  == d \in ctr /\ ~(d = <<0, "out">> /\ setup)
        expected == Live /\ Armed(d)
    IN  IF d \in upset THEN 0
        ELSE IF d \in owed THEN (IF arrived /\ expected THEN 1 ELSE 0)
        ELSE (IF arrived THEN 1 ELSE 0) + (IF expected THEN 1 ELSE 0)

\* Each call is answered by one event at most, also if a SETUP packet, a stall or
\* a bus reset has cut it off, no event comes without a call, and none of what
\* was called before an endpoint was opened again (pullEvent(), openEndpoint()).
Contract == INSTANCE ControllerContract
                WITH event <- PcdEvent, late <- [d \in Directions |-> Late(d)]
ImplementsContract == Contract!ContractSpec

\* No call is forgotten: an endpoint with a call not answered yet is armed, is
\* about to be armed, or has its event pending; and no other open endpoint is.
\* On the control endpoint a SETUP packet may have come instead.  It fails as soon
\* as a status is written that the hardware changed after it was read
\* (pcd_fs.cpp:35-38).
NothingForgotten ==
    Live =>
        /\ \A d \in open : d \in owed <=> Armed(d) \/ d \in ctr
        /\ \A d \in open : ~(Armed(d) /\ d \in ctr)
        /\ \A d \in owed \cap ControlPair :
               Armed(d) \/ d \in ctr \/ (<<0, "out">> \in ctr /\ setup)

\* Once a reset is processed and the stack has armed it, the control endpoint
\* hears SETUP packets, unless a packet has come just while the driver turned
\* its status from VALID to STALL or back (pcd_fs.cpp:35-38).
Deaf == Live /\ phase # "reset" /\ ~op.on /\ stat[<<0, "out">>] = Disabled

ControlAlive == Deaf => <<0, "out">> \in upset

\* "Control endpoint is assumed to be always open" (pcd-interface.hpp:37-38): the
\* same without the exception, which the driver does not keep.
ControlAlwaysOpen == ~Deaf

\* "USB stack assumes that PCD only triggers this event for endpoints which have
\* been explicitly opened", and a reset closes them (pcd-interface.hpp:36-39, 49-52).
\* handleReset() leaves the flags of the data endpoints as they are.
OnlyOpenReport ==
    last.t \in {"received", "transmitted"} => last.d \in open \cup ControlPair

\* What the stack finds in its buffer is the packet the host sent, and beyond
\* it the buffer is as it was; what the host reads is what the stack wrote.
PacketIntact ==
    /\ last.t = "received" =>
           last.bytes = Packet(table[last.d].count) /\ (last.setup => last.d = <<0, "out">>)
    /\ last.t = "read" => last.bytes = SubSeq(Packet(Cells), 1, table[last.d].count)

\* The packet buffers lie apart, behind the descriptor table, in the memory and
\* on boundaries the accesses need; the hardware receives where the driver
\* reads, and neither writes outside the buffer.
InUse == open \cup (IF buffer[<<0, "out">>].length > 0 THEN ControlPair ELSE {})

Extent(d) == AlignLength(buffer[d].length)

Apart(d, e) == \/ buffer[d].offset + Extent(d) <= buffer[e].offset
               \/ buffer[e].offset + Extent(e) <= buffer[d].offset

BuffersApart ==
    \A d \in InUse :
        /\ buffer[d].offset >= TableLength /\ buffer[d].offset + Extent(d) <= MemoryLength
        /\ buffer[d].offset % access = 0
        /\ \A e \in InUse \ {d} : Apart(d, e)
        /\ IF d[2] = "out"
           THEN /\ table[d].addr = buffer[d].offset
                /\ \A e \in InUse \ {d} :
                       \/ table[d].addr + Capacity(table[d].blocks) <= buffer[e].offset
                       \/ buffer[e].offset < table[d].addr
           ELSE stat[d] = Valid => WriteFootprint(table[d].count) <= Extent(d)

\* A packet of the configured maximum size is received (pcd-interface.hpp:156:
\* "USB peripheral is expected to receive next packet's data into a supplied
\* buffer (up to a configured maximum packet size for the endpoint)").
ReceivesFullPacket ==
    \A d \in InUse : d[2] = "out" => Capacity(table[d].blocks) >= buffer[d].length
=============================================================================
