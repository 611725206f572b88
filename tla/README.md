# Formal models of microbits

microbits is a set of C++ libraries for small microcontrollers: a USB device
stack with a serial-port function, a driver for the STM32 full-speed USB
peripheral, byte FIFOs and status codes, and a cryptographic library.  A Java
tool, the USB descriptor compiler, generates the tables the stack is built with.

This directory holds TLA+ models of the parts that carry state and interleave
and of the algorithms whose boundaries are hard to test, TLC configurations that
check them on small instances, and proofs that TLAPS checks for every value of
the constants.  Paths below are relative to the
repository; `device-base` stands for `src/usb/device-base`.

Contents: 1 system, 2 modules and runs at a glance, 3 modules in detail,
4 checks and bounds, 5 proofs, 6 disagreements found, 7 not modelled, 8 plan,
9 how to run.

## 1. The system

### 1.1 Components

| Component | Source | State it keeps | Operations |
|---|---|---|---|
| Control endpoint | `device-base/src/control-endpoint.cpp` | `m_state`, `m_handler`, `m_streamer`, `m_setup`, `m_dataLength`, the control buffer | `reset`, `packetReceived` (SETUP and OUT), `transmitComplete`; streamers call `receivePacket`, `transmitPacket`, `abortRequest` |
| USB device | `device-base/src/usb-device.cpp` | configuration state, active mapping, the logic object of each function | `registerFunction`, `initialize`, `start`, `stop`, `processEvents`; internally `resolveControl`, `setConfigured` and the functions' host |
| Standard requests | `device-base/src/control-handler.cpp` | `m_func`, one streamer | `setupControl`, `handleControl`, `completeControl`; byte and string streamers |
| Endpoint mapper | `device-base/src/endpoint-mapper.cpp` | none (generated tables) | three translations between bus numbers and logical numbers |
| Serial function | `src/usb/device-serial/src/function.cpp` | two rings, the packet held back, `m_txReady`, pending events, line parameters | application calls (`receive`, `transmit`, `pullEvents` ...) and stack callbacks (`initialize`, `packetReceived`, `transmitComplete`, control) |
| Byte FIFO | `src/utilities/src/fifo.cpp` | storage, two pointers, position counter | `setBuffer`, `reset`, queries, `readBytes`, `writeBytes` with and without copying |
| STM32 peripheral | `src/stm32/usb-device/src/pcd_fs*.cpp` | endpoint registers, packet memory, buffer pointers | the `PeripheralController` interface |
| Descriptor compiler | `tools/usb-descriptor-compiler` | allocation of endpoints, interfaces, strings | `run`: allocate, number, print, check |
| Hashes and sponges | `src/crypto/src/hash`, `hmac.hpp` | block or sponge buffer, position, length | update, finish, squeeze; HMAC, KMAC |
| Ciphers | `src/crypto/src/cipher` | counter block, key stream, position | init, process in pieces |
| Random generator | `src/crypto/src/random.cpp` | key, counter, stream buffer | `pushEntropy`, `generate` |
| Edwards curves | `src/crypto/src/edwards` | none beyond a call (points and field elements are values) | field and point arithmetic, key exchange, sign and verify |
| Utilities | `src/utilities/src` | status words | CRC-32, error codes |

### 1.2 How they interact

Everything on the device runs from `USBDevice::processEvents()`, which the
application calls from an interrupt or a task, and from the application's own
calls into a function.  The documentation asks for mutual exclusion between the
two (`ub/usb-device.hpp:76-78`), so one call is one atomic step; interleaving
happens *between* calls, and between the device and the hardware, which goes on
by itself.

    host <-bus-> peripheral controller -events-> USBDevice -> ControlEndpointImpl -> handlers, streamers
                         ^                          |    \-> functions (SerialFunction) <- application
                         '------- calls ------------+-----------'

* The controller queues events (reset, packet received, transmission complete)
  that the device *pulls*: by the time one is processed the bus has moved on.
* The stack arms endpoints (`receivePacket`, `transmitPacket`) and owes or is
  owed exactly one event for each.
* A bus reset closes all data endpoints in hardware at once; the stack learns of
  it later, and the functions only when they are configured again.
* A streamer may answer within the callback that asks it, or later from the
  application.
* Function calls and events are translated by tables the compiler generated.

### 1.3 What is hard here

* **Order of events.**  SETUP packets may interrupt any stage of a transfer;
  completions, resets and late answers may arrive in any state.
* **Lost work.**  Bus resets drop events and armed packets between any two
  steps; what the functions keep must still be consistent.
* **Both sides waiting.**  Zero-length packets, short packets and requests that
  are an exact multiple of the packet size decide who speaks next.
* **Stale references.**  `m_handler`, `m_streamer`, `m_activeMapping`, the
  logic pointers and `m_func` are set in one step and used in another.
* **Boundaries.**  Full and empty rings, pointers at the end of the storage,
  word-size counters, tables with padding.

There is no persistent state and there are no threads of the stack's own, so
crash recovery and data races in the memory-model sense do not arise.  The
hazards are listed line by line in `PROJECT.json`.

### 1.4 What makes each component correct

* *Control endpoint*: every accepted request is ended, once and before the next; no call through a null pointer; both sides agree on length, outcome
  and end of every transfer.
* *USB device and standard requests*: host and device agree on address and
  configuration; no call to a function that has no logic object; callbacks
  answer calls of the same configuration; nobody waits for an event that cannot
  come.
* *Serial function*: both byte streams arrive complete and in order, also across
  resets; nothing queued waits for ever; a full buffer never shuts the host out;
  events tell the application of changes.
* *FIFO*: a bounded byte queue.
* *Peripheral driver*: each call is answered by one event, whatever the hardware
  does between two accesses; buffers do not overlap.
* *Standard replies*: exactly the bytes asked for, in order, also at packet
  boundaries and after a request was cut off.
* *Hashes, ciphers, generator*: the result depends on the bytes, not on the
  pieces they came in nor on what the object did before; output is never kept.
* *Curves*: a register stands for the exact result, the formulas hold for every operand, and a
  signature is accepted exactly if its maker had the key.
* *Mapper and compiler*: a round trip between the bus numbers and the functions'
  own, on hardware whose constraints are respected.

## 2. Modules and runs

| Module | What it is | Composes |
|---|---|---|
| `ControlEndpoint` | the control state machine in an environment that does anything | - |
| `ControlClient` | the promises of `control.hpp` to handlers and streamers, as an automaton over the callbacks | extends `ControlEndpoint` |
| `StandardReplies` | the standard handler with its streamers, bytes included, among other handlers | extends `ControlClient`, refines `ControlEndpoint` |
| `ControlBus` | the endpoint between a controller, a host and an application | extends `ControlClient` |
| `ControlEndpoint_proof` | theorems about `ControlEndpoint` and `ControlClient` | extends `ControlClient` |
| `ControlTransfers_proof` | theorems about `ControlBus` and `StandardReplies`, with the refinements of `ControlEndpoint` | extends them and `ControlEndpoint_proof` |
| `ControllerContract` | what `pcd-interface.hpp` asks of a controller | - |
| `Stm32Pcd` | the STM32 driver over the registers and the packet memory | refines `ControllerContract` |
| `Stm32Pcd_proof` | theorems, with the refinement | extends it |
| `ByteQueue` | what a FIFO promises | - |
| `CircularBuffer` | the ring | refines `ByteQueue` |
| `SerialFunction` | the methods of the serial function as operators | uses the queue `CircularBuffer` implements |
| `SerialPort` | the function between application, endpoints and host | extends `SerialFunction` |
| `SerialPort_proof` | theorems | extends it |
| `EndpointMapper` | the run-time translations, and what the device needs of their tables | - |
| `EndpointAllocator` | the compiler's allocation and its tables | extends `EndpointMapper` |
| `EndpointAllocator_proof` | theorems, among them what `UsbDevice` assumes of the tables | extends it |
| `UsbDevice` | device, standard requests, dispatch, functions, host | extends `EndpointMapper` |
| `UsbDevice_proof` | theorems | extends it |
| `SymbolicBytes` | bytes as sets of named tokens under exclusive or | - |
| `BlockHash` | SHA-2 and HMAC | extends `SymbolicBytes` |
| `Sponge` | Keccak sponge, SHA-3, SHAKE, KMAC | extends `SymbolicBytes` |
| `StreamCipher` | ChaCha20 and AES-CTR | extends `SymbolicBytes` |
| `SecureRandom` | the random generator | extends `SymbolicBytes` |
| `Libraries_proof` | theorems about the ring, with its refinement, and about the four modules above | extends all five |
| `PrimeFields` | `F25519`, `F448` and `Fp8`, word by word | - |
| `PrimeFields_proof` | theorems about the fields | extends it |
| `EdwardsPoints` | points of both curves against the group law | residues of `PrimeFields` |
| `KeyExchange` | `x25519` and `x448` | extends `EdwardsPoints` |
| `Signatures` | `ed25519` and `ed448` | extends `KeyExchange` |
| `MC...` | values of the constants for TLC; `MCControl`, `MCDevice` and `MCLibraries` put modules side by side | extend the above |

| Run | Module / cfg | Expected | Question |
|---|---|---|---|
| `control` | `MCControl`, `Control.cfg` | pass | Do pointers, byte counts, promises and replies hold under *every* order of events, and do a well-behaved host and the device always agree, and end? |
| `control_serial` | `MCControl`, `Control_serial.cfg` | violation | Finding 4 |
| `serial_port` | `MCSerialPort`, `SerialPort.cfg` | pass | Both byte streams, events and progress |
| `serial_onepacket` | `MCSerialPort`, `SerialPort_onepacket.cfg` | violation | Finding 1 |
| `serial_reopened` | `MCSerialPort`, `SerialPort_reopened.cfg` | violation | Finding 2 |
| `device` | `MCDevice`, `Device.cfg` | pass | Do generated tables and run-time translation invert each other; address, configuration and callbacks across resets, failures and speeds; does the STM32 driver keep its contract over hardware that moves between its accesses? |
| `usb_device_halt` | `MCUsbDevice`, `UsbDevice_halt.cfg` | violation | Finding 3 |
| `stm32_capacity` | `MCStm32Pcd`, `Stm32Pcd_capacity.cfg` | violation | Finding 5 |
| `stm32_deaf` | `MCStm32Pcd`, `Stm32Pcd_deaf.cfg` | violation | Finding 6 |
| `stm32_closed` | `MCStm32Pcd`, `Stm32Pcd_closed.cfg` | violation | Finding 7 |
| `libraries` | `MCLibraries`, `Libraries.cfg` | pass | Crypto and ring against whole-message, group-law and queue definitions |
| `libraries_carry` | `MCLibraries`, `Libraries_carry.cfg` | violation | Finding 8 |

In every module the definitions called *Mutant of X* are plausible bugs of `X`;
nothing uses them, and `PROJECT.json` says which property detects each when it
takes the place of `X`.

## 3. The models and the code

### 3.1 ControlEndpoint and ControlClient

One action per handler of `ControlEndpointImpl`: `SetupReceived` and
`MalformedSetup` (packetReceived with `setup`), `OutReceived`,
`TransmitComplete`, `Reset`, and the streamer's late calls (`StreamerActs`).
`state`, `handler`, `streamer`, `setup` and `dataLength` are the members of the
class; pointers are kept as "null or not".  A handler's effects on others are
two output variables of the last step: `calls` on the controller and `notes` to
handlers and streamers, in code order.  A call through a null pointer is the
note `nullDeref`.

Abstracted: the contents of buffers and of SETUP packets other than direction
and `wLength` (malformed packets are one input); what handlers answer is any
`ControlRequest`; lengths are bounded by `MaxTransfer`.  A streamer asked for a
packet may answer with any length, defer, or abort; `Eager` adds streamers that
go on after the end.

`ControlClient` reads off the notes whom the stack owes a callback (`client`);
it decides nothing and is conjoined to every step by the modules that extend it.
A request ends with one call, except in one case: `reset()` aborts the streamer
of a request and keeps `m_handler` (`control-endpoint.cpp:23-26`), so the next
SETUP packet ends that request again (49-51).  From the reset on `client` is
"ended", which is the only value in which a second ending is taken; anywhere
else it makes `client` "broken".

### 3.2 StandardReplies

`StandardControlHandler` as one more client in the environment of
`ControlEndpoint`: `SetupControl` is the table of `setupControl()`, and `Stream`
and `Answer` carry the bytes that the byte streamer, the string streamer and
`handleControl()` put into the control buffer.  `m_streamer` is what the streamer
has left; `sent` collects the bytes handed to the controller since the data
stage began.  Requests of functions are served in between by handlers that do
anything, so the static handler meets every state another one leaves behind, and
a host may give up a transfer anywhere.

The string streamer has no end: for a `wLength` above `bLength` it goes on with
the terminator and whatever follows it, and only the endpoint cuts it
(`control-handler.cpp:49-74`).  `WholeReply` is the descriptor alone, as long as
its `bLength` says (`Wide` is the text in UTF-16).  `ReplyRight` compares what
is sent with it and says nothing of what follows the serial number; `StringEnds`
says that nothing does, and is not so (finding 4).  What the bytes behind the
terminator are is not modelled.

How long a descriptor is the handler reads from the descriptor itself,
`bLength` or `wTotalLength`.  `LengthAssumption` says these fields tell the
truth, as `DescriptorSerializer.java:50-61` and `DescriptorState.java:163-184`
write them.

`KeepsTheRules` is the refinement: with the bytes hidden, `RepliesSpec`
implements the `Spec` of `ControlEndpoint`, so the theorems of section 5.1 hold
of the endpoint with its standard handler.

### 3.3 ControlBus

Adds EP0 of a controller (`rx`, `tx`), its event queue, and a host that walks
through SETUP, data and status stages and may reset the bus at any point.  Rules
of USB modelled: a SETUP packet is accepted in any state and returns both
directions to NAK; while a received packet is unread the controller answers no
other token.  The host ends a transfer before it begins the next, unless it
resets the bus; a host that gives up transfers is `StandardReplies`' environment.

An application answers a deferred streamer only when no event is pending
(`Streamer`).  Otherwise a late answer may hit the *next* request: the stack
cannot tell the two apart.  This is a precondition on the application, stated
here because no document states it.  `ZeroLengthIn` requests (direction IN,
`wLength` 0) are excluded from `Agreement` and from the second half of
`BusTransferEnds`: the endpoint waits for an OUT status stage while the host sends
an IN one, and the next SETUP packet then reports a failure.  Hosts normally send
such requests with direction OUT.

`MCControl` puts `ControlBus` and `StandardReplies` side by side for TLC: a
behaviour is about one of the two (`used`).

### 3.4 ControllerContract and Stm32Pcd

`ControllerContract` is what the stack may rely on: a call at a time for each
direction (`owed`), at most one event for each call, a SETUP packet or a stall
cutting off what EP0 was asked for, a reset cutting off everything and closing
data endpoints, nothing of before reported once an endpoint is opened again.

`pcd-interface.hpp:36-55` says more, and the driver does not keep it.  The
contract names the two places where it has to be weaker.  *late*: a call that
was cut off may still get its event, once, until its endpoint is opened again.
*upset*: of a control direction whose status a packet changed between the read
and the write, any event may come until a reset sets it right.  The runs
`stm32_closed` and `stm32_deaf` show what the documented words exclude.

`Stm32Pcd` models registers: the status bits `stat`, the completion flags `ctr`,
`setup`, the buffer descriptors `table`, and the driver's own `buffer` and
`bufferPtr`.  Status bits *toggle* where a one is written, so
`usbd_setEndpointStatus()` reads the register, computes the difference to the
status it wants and writes that (`pcd_fs.cpp:31-39`).  These are two steps: a
call ends in `BeginStatus`, the read, and `EndStatus` is the write (`op` in
between); the hardware moves between them: it receives, transmits, resets, and
takes a SETUP packet whatever the driver is doing.  `upset` is a history variable:
it collects the directions in which a packet came between the read and the write
of a status that was neither NAK nor the one wanted, where the write makes
something else of the NAK it finds.  Everything else the driver does in a
call touches bits the hardware leaves alone, and is one step.  `PullEvent` has
the priority of the code: reset, then the endpoint and direction the hardware
reports.  Packet memory is read and written in units of the build's access
width (`access`), and sizes are rounded as
`usbd_alignLength` and `usbd_encodeReceiveLength` do.

The stack above the driver is any that keeps the order of `control-endpoint.cpp`
(`phase`): it arms EP0 after a reset, serves a request with calls in any order
and at any time, also when the hardware has already taken the next SETUP packet,
and refuses one by stalling IN and then OUT, also after it has armed OUT, as a
streamer's abort does (`control-endpoint.cpp:188-220`).  Not modelled are calls
between a bus reset and its event, `stallEndpoint()` of data endpoints (its
effect on an armed one is in `UsbDevice`, finding 3) and `setAddress()`.
`ConfigureDevice` may be repeated, and is taken only while the memory has room,
since the code does not compare `m_bufferPtr` with anything.

### 3.5 CircularBuffer and ByteQueue

`buffer`, `capacity`, `rdPtr`, `wrPtr`, `headPos` are the members.  The two
copying calls are loops in the code: the call and each iteration are separate
actions with `job` the call in progress, so that termination is a property and
not an assumption.  `Discard` and `Commit` are the zero-copy use.  Arithmetic is
modulo `Word`; `FreeBytes` is the code's expression with its wrap.  Callers keep
the documented preconditions (write at most `freeBytes()`, read at most
`pendingBytes()`), and `setBuffer()` has been given at least one byte: before
it, `freeBytes()` of capacity 0 is `SIZE_MAX`.

`ByteQueue` is the promise: push, take, clear and rebase on a plain sequence,
with a counter.  The refinement maps `queue` to the bytes from `rdPtr` round to
`wrPtr`.

### 3.6 SerialFunction and SerialPort

`SerialFunction` has one operator per method, over the members of the class with
the two rings as sequences.  That step is justified by `CircularBuffer`'s
theorem; the one thing a plain queue does not show, the contiguous `readLimit()`
that cuts a packet at the end of the storage, is computed from the head position
(`TxReadLimit`).  `calls` holds calls made to the function's host.

`SerialPort` adds the two bulk endpoints, bus resets, configuration, a host that
sends packets of any length up to `Packet` and reads what is ready, and an
application that reads, discards, writes, pulls events and sets
`setDiscardOnReset()` before use.  Bytes are numbered in the order they are
written, so that loss, repetition and reordering all show in a sequence of
naturals.  A call on a closed endpoint is lost.  `load` is the use a behaviour
makes of the port: how many bytes in each direction, how many resets, and
whether codings and signals change; it is chosen at the start.  Line coding and
control signals are one value each.

### 3.7 EndpointMapper and EndpointAllocator

`EndpointMapper` has the three functions of `endpoint-mapper.cpp` over tables of
bytes: upper half the function plus one, lower half the logical number, zero for
nothing.  `toLogicalInterface()` admits one index past its table
(`physical > UB_USBD_MAX_INTERFACES`); it reads the byte that follows the table
in the structure, the first of `funcInterfaceBase`, which is always 0 and so is
taken for "not mapped".  The model reads that byte, and `RoundTrip` shows that
the index is harmless as long as function 0 comes first.

`EndpointAllocator` adds endpoints one at a time for each function
(`AddEndpoint`), in logical order numbers the interfaces, and builds the tables
as `DescriptorCodeGenerator` prints them and as a C compiler pads them.
`RejectEndpoint` and `Build` are the ways compilation fails: unacceptable
definitions, no endpoint left, gaps in logical addresses (which the printer
cannot print), more than two buffers, limits of the build exceeded.
Packet sizes are not modelled here.  A number that does not fit the byte of its
table is no initializer a C++ compiler takes (`FitByte`).

A table entry has four bits for a logical number, and the code joins it to the
function's by `|` (`Or`).  The build checks that endpoints fit
(`UB_USBD_MAX_FUNC_ENDPOINTS`); nothing checks interfaces, so a function may have
any number of them here, the entry of a 17th is what the `|` makes of it, and
what is said of interfaces is said for functions with at most sixteen
(`FewInterfaces`).

`LeadsBack` in `EndpointMapper` is what the device needs of its tables:
`UsbDevice` assumes it, `EndpointAllocator_proof` proves it of every build, of
interfaces under `FewInterfaces`.

### 3.8 UsbDevice

State: `configured`, `mapping`, `logic` (functions whose logic pointer is set),
`ctl` (handler, stage and request of the control endpoint), `func`
(`m_func`), the controller's data endpoints `ep`, EP0 and `address`, queued
events, the functions' own view of what they wait for (`view`), and the host.
`Start`, `Stop` and `ProcessEvent` are the calls of the application;
`ProcessEvent` processes one event by the branch `processEvents()` takes:
reset, SETUP (resolution, standard or function handler, completion of the
previous request), OUT data, status, data endpoint.  `FunctionUses` is a call a
function makes from the application; the calls a function makes within
`initialize()` are chosen in `SetConfigured`.

The control endpoint is taken at the granularity established by `ControlBus`: a
SETUP packet, at most one data packet, and the end of the status stage.
`SetConfigured(n, ...)` has `n` functions initialize; if `n` is not all of them
function `n` fails, its logic pointer becomes null and the request is stalled.
Opening an endpoint discards what it had to report, as `openEndpoint()` does by
writing the completion flag of its direction.

The request of the host is one of: SET_ADDRESS, SET_CONFIGURATION,
GET_CONFIGURATION, GET_STATUS, the endpoint halt feature, and class requests to
the device, to every interface number up to one past the table, and to every
endpoint.  The halt feature is a separate constant (`Halts`), since it breaks
`PromiseKept` (finding 3).  The specification has no fairness and claims no
liveness: that is in the control endpoint and the functions, checked above.

`MCDevice` puts `EndpointAllocator`, `UsbDevice` and `Stm32Pcd` side by side for
TLC: a behaviour is about one of the three (`used`).

### 3.9 Crypto

*Symbolic bytes.*  Block functions (SHA-2 compression, Keccak-f, the ChaCha20
and AES block) are taken to be functions of all they read: the bytes they yield
are tokens that name their input, a byte is a set of tokens, and exclusive or is
the symmetric difference.  Two results agree exactly when the code computes them
from the same bytes in the same places, which is what the code around a block
function can get wrong.  Blocks are of 3 to 8 bytes, all else is as in the code:
buffers, positions, padding, the clearing of what is left.

*Objects used in pieces.*  `BlockHash`, `Sponge`, `StreamCipher` and
`SecureRandom` each drive one object through any sequence of its calls with
pieces of several lengths, and use it again; after every call the result is
compared with a definition on the whole message.  A loop over the data is one
operator for its round (`UpdateRound`, `ConsumeRound`, `ProduceRound`,
`ChaChaRound`, `AesRound`, `PushRound`, `GenerateRound`) and a function that
applies it as often as there are bytes or words: a round moves at least one, and
changes nothing when none is left.  `SymbolicBytes` has the places bytes are
moved to; the counters of bytes in the hashes are natural numbers, for which the
length field has room (`Trailer >= 5`, a count of bytes below 2^32 in bits).  A
SHA-3 digest may be longer than the rate: `sha3::finish()` then copies bytes from
behind it, which are no output of the function, and `SpongeRight` speaks of the
bytes within the rate.  An `init()` of AES-CTR with a key of a wrong length is
`AesReject`.

*Fields.*  `PrimeFields` is the word algorithms, with the size and number of the
words as constants: `register` is the register as the code holds it, `exact` the
residue it stands for.  A loop that carries is `Rippled`, whose `Carry` counts up
from the lowest place; loops over bits and over the codes of an exponent count
the same way (`LoadBits`, `MulBits`, `Codes`).  `F25519::mul` accumulates a
column in the order of the code's inner loops; the model has the column's sum.
`F448::add()` ignores the carry its reduction returns: the model has the words
that are left, `lost` says that a sum was too large for them (`TooLarge`), and a
behaviour ends there.

*Curves.*  `EdwardsPoints` has the formulas, loading and storing of both point
classes over primes of the code's residues (5 modulo 8 and 3 modulo 4), on which
square roots are found the same way, and compares every result with the affine
group law.  A field element is its residue, as `FieldRight` allows, but where the
code reads bits of a value it has not normalized: the root in `load()`
(`ed25519.cpp:82-87`, `ed448.cpp:84-103`) and what `ed448_pt::store()` writes
(69).  There a residue below `tiny` may have the prime added (`Held`: 19 and
2^224 + 1 in the code), both outcomes are steps, and `LoadedAs` and `StoredAs` say
which points may come of it: one with a small x as its negative, one of ed448
with a small y not at all.  A sum of ed448 that loses its second carry has no
residue to stand for and is left to `PrimeFields`.  `KeyExchange` is the Montgomery ladder of `eddh.cpp`.  `Signatures`
has a hash that is any function: its values are chosen when asked for, so that
colliding and extreme digests occur.  A verifier is given a signature as made or
changed in one place; among the R it is given are those `load()` takes though
`store()` does not make them: x = 0 with an odd parity, and with ed25519 a y
above the prime.

`MCLibraries` puts these and `CircularBuffer` side by side: they share no
state, and each behaviour uses one of them (`used`) and leaves the others alone.
One run takes the place of eight.

## 4. What the checks show

### 4.1 Properties

`control`: `NoNullDeref` (no handler calls through a pointer that was cleared);
`DataStageInv` (`wLength - m_dataLength` never wraps, bytes moved fit the stage);
`WholePackets` (an outbound data stage continues only after full packets);
`ClientContract` (callbacks in the promised order, each accepted request ended
before the next, by one call or by the two of a reset, 3.1); `NobodyForgotten`;
`ReplyRight` (the bytes of descriptors); `KeepsTheRules` (refinement); and on the
bus `NoOverwrite` (an armed packet is not replaced while the host may
read it); `Agreement` (the application hears of success exactly when the host
has seen the whole transfer, and both count the same bytes); `StallBelongs` (a
stall is for the request the host made); `BusTransferEnds` (liveness: transfers end
and streamers are released).

`serial_port`: `TxUnderway` (the packet under way is the head of the queue; an
idle endpoint leaves nothing waiting); `HostStream` and `RxStream` (each byte
once and in order, nothing lost across resets when data is retained);
`ContractKept` (no endpoint used twice without a callback); `EventsTell` (coding,
signals and progress of transmission leave an event pending; received data is
not among them, since a held packet that `processPendingPacket()` moves to the
queue raises none); and the liveness properties `TxDrains`, `HeldPacketMoves`, `HostAdmitted`.

`device`, the compiler: `HardwareInv` (what the hardware cannot do is not asked
of it) and `RoundTrip`, which runs the generated tables through the run-time
functions in both directions, for endpoints and interfaces.  The device:
`NoNullLogic`; `CallbackOwed` (a callback answers a call of this
configuration); `PromiseKept` (what a function waits for can still come);
`HostAgrees` (on address and configuration).  The driver: `NothingForgotten` (a
call not answered is armed, about to be armed or has its flag set, or a SETUP
packet has come in its place; fails as soon as a status is written that the
hardware has changed since it was read); `ControlAlive` (EP0 hears SETUP packets
unless it is upset); `PacketIntact` (bytes and buffer bounds); `BuffersApart`;
`ImplementsContract` (refinement).

`libraries`: `HashRight`, `SpongeRight`, `CipherRight`, `OutputApart` (what was
given out is nowhere left in the generator and never given twice), `FieldRight`,
`PointRight`, `SecretRight`, `SignatureRight`, and for the ring `ImplementsQueue`
and `CallsReturn` (liveness).

### 4.2 Bounds, and why they suffice

| Run | Bounds | Why |
|---|---|---|
| `control` | packets of 4, `wLength` up to 9, descriptors of one packet and a byte and of two packets, other lengths 0, 4, 5; a host on the bus asks for 0, 3, 4 and 8 bytes, of streamers that may go on after the end (`Eager`) | none, short, full, exact multiple, one more; any event in any state; a reset at every point |
| `serial_port` | packets of 2, rings of 5 and 4; three uses: 6 bytes written with 2 resets; 7 received with 2 resets; 2 written with a reset, two codings and signals, polling | the transmit ring fills, wraps and cuts a packet at its end; more packets arrive than fit and one is held at every position; every event source, changes before and after a pull |
| `device` | compiler: two functions, logical addresses {0, 1}, buffers 1-3, one or two interfaces each, 2-3 endpoints a direction, three feature sets | every constraint meets every other, allocation runs out, limits are exceeded |
| | device: two functions, two speeds whose mappings differ, two resets, one address | the two speeds give one function another number; resets twice, so that old state meets a new configuration |
| | driver: accesses of 4 bytes, one endpoint number in both directions with 16 and 15 bytes, packets of 5 bytes, 256 bytes of memory | an odd length with its tail; rounding of 15; memory for one repeated configuration |
| `libraries` | blocks of 8 (hash), 8 (sponge, rates 4 and 6) and 3 bytes (ciphers); pieces of 0, 1, below, at and above a block; messages up to 40 bytes, three uses; counters of base 3 | every position of padding, length and carry, twice over |
| | fields of 3 words of 4 bits, 4 words of 2, 3 bytes of 2; operands at the modulus, twice it and the top | every first operand of those widths |
| | curves over 29 and 23, all points, scalars of 8 bits | every pair of points: equal, opposite, of small order |
| | ring of capacity up to 4, two byte values, word of 9 | every relation of two pointers; `Word > 2 * MaxCapacity` as on every machine; the counter wraps |

Resets, bytes, messages, draws and blocks are counted in the guards of the
actions that make them, with the constants named above; nothing else is bounded
artificially.  `Libraries.cfg` turns the deadlock check off because a hash, a
sponge, a generator or a cipher that has reached its bound has no next call.  All
other passing runs check deadlock; the compiler, which stops, has a step that
changes nothing (`Done` in `MCDevice`).

What the bounds of `device` leave to the proofs: the driver with accesses of two
bytes, and functions with many interfaces.

### 4.3 Fairness

* `BusSpec` (and `ControlSpec` where it is about the bus): weak fairness of `Pull` (the application calls `processEvents()`
  when interrupted, and its loop runs until no event is left, `usb-device.cpp:56`),
  of the host's own moves (a host that started a transfer polls it, USB 2.0), and
  of a streamer that deferred its answer, which its contract obliges to answer.
* `LibrarySpec`: weak fairness of the ring's loop iterations, as `BufSpec` has
  it: a call that was made runs.
* `PortSpec`: weak fairness of configuration, of event processing and of the
  host reading what is ready; and of the application reading *something*.  The
  last is what `HeldPacketMoves` and `HostAdmitted` are about: they do not hold
  of an application that never reads.  `TxDrains` needs no fairness of the
  application.

Nothing is assumed fair that waits for a condition which comes and goes, so
strong fairness is nowhere needed.

## 5. What is proved

TLAPS checks each theorem for every value of the constants that satisfies the
`ASSUME` of the module; TLC evaluates those assumptions in the runs.

### 5.1 ControlEndpoint (`ControlEndpoint_proof`)

Assumption: `ControlAssumption` (packet size positive, `MaxTransfer` natural).
Theorems: `ControlTypeCorrect`, `ControlNoNullDeref`, `ControlDataStage`,
`ControlWholePackets`.

None of the four is inductive.  `NoNullDeref` needs to know which pointer each
state uses; `DataStageInv` needs the direction of the request.  The inductive
invariant `ControlInv` joins the type invariant with
`ServedInv` (states that call a streamer have one, states that call a handler
have one), `DirectionInv` (states of a direction belong to requests of that
direction), `DataStageInv`, `WholePackets` and the absence of `nullDeref` among
the notes.  The proof has one lemma for each way a handler ends (`ServeSafe`,
`AbortSafe`, `TransmitSafe`, `CompleteSafe` ...) and one for each handler, and
the theorem combines them over the disjuncts of `Next`.

`ClientSpec` is the same environment with the record `client` of who is owed a
callback.  `ClientContractKept` and `ClientNeverForgotten` say that callbacks
come in the promised order and that whoever accepted a request is told its end:
once, and a second time only after a bus reset has cut off a streamed request.
`client` alone does not say why.  The invariant `ClientInv` relates it to the
endpoint's state: a client sends or receives exactly while there is a streamer,
and in the states that end a request without one its handler has handled it.

### 5.2 StandardReplies (`ControlTransfers_proof`)

Assumptions: `RepliesAssumption` (packets of an even length above 2, as 8 to 64
are; descriptors and the serial number are byte sequences of any length) and
`LengthAssumption`.  Theorems: `RepliesKeepTheRules`, the refinement of
`ControlEndpoint`, step by step; `RepliesClient`, that of `ClientSpec`, through
which 5.1 holds of the endpoint with its standard handler; and `RepliesRight`:
the host gets the first `wLength` bytes of each descriptor, in order, for every
packet size and length, and nothing behind it unless it is the serial number's.

`ReplyRight` speaks of a completed data stage only.  `Underway`, in the
inductive invariant `RepliesInv`, says what holds before: what has been sent is
the start of the reply, and the streamer stands where the endpoint believes it
to (`Ready`).  For the string that relation is between bytes sent and characters
taken, and it is off by the header until the first packet is out.

### 5.3 ControlBus (`ControlTransfers_proof`)

No assumption beyond `ControlAssumption`.  Theorems: `BusNoOverwrite`,
`BusAgreement`, `BusStallBelongs`, `BusEndpoint` (the endpoint on a bus is the
endpoint of 5.1), and with it `BusClientContract` and `BusClientRemembered`, with
the second ending of 5.1 as there.

Host and endpoint see the same transfer at different times, and the inductive
invariant `BusInv` says how far apart they may be: with no event pending
(`InStep`) the state of the endpoint determines the stage of the host and both
have counted the same bytes; otherwise (`Pending`) the queue holds one event, or
a completion and what the host did next, and the host is ahead by exactly those.
TLC was given `BusInv` as an initial condition on small instances to see that it
is inductive before it was proved.

### 5.4 CircularBuffer (`Libraries_proof`)

Assumption: `BufferAssumption` (`Word > 2 * MaxCapacity`: no intermediate
expression of `freeBytes()` overflows; true of every `size_t`).
Theorems: `BufferInvariant`, `BufferTypeCorrect`, `BufferConserves`,
`BufferRegions`, `BufferLoops`, `BufferTwoChunks` and `BufferImplementsQueue`.

The inductive invariant is `BufInv`: pointers inside the storage, and a copying
call in progress has bytes left that fit what is free (or pending).  The second
half is what makes the loops safe: without it an iteration could copy nothing.
`HeadMoves` and `TailMoves` say what moving a pointer does to both counts, over
the four relations of the pointers to each other and to the end.  The refinement
shows that each action is a `Push`, `Pop`, `Drop`, `Clear`, `Rebase` or a
stutter of `ByteQueue`; its core is that `Store` at the write pointer appends to
`Pending`, and a `SubSeq` of `Pending` is what moving the read pointer leaves.
`ImplementsQueue` is a property of the run `libraries`; the others are steps on
the way to it and are not checked by a run of their own.

### 5.5 SerialPort (`SerialPort_proof`)

Assumptions: `SerialAssumption` (packet and ring sizes positive) and
`PortAssumption` (any loads).  Theorems: `PortReceives` (`RxStream`),
`PortTransmits` (`TxUnderway`), `PortHostReads` (`HostStream`), `PortTells`
(`EventsTell`: coding, signals and transmission, not received data),
`PortContract` (`ContractKept`): for every packet length, every
capacity and every use of the port.

The two directions share the link and the owed calls and have an invariant each.
`RxInv`: an armed or full endpoint, and equally a receive call still owed, means
that no packet is held back, which is why a packet arriving never overwrites
one.  `TxInv`: the queue holds the last bytes written, numbered without a gap
(`NumberedInv`); a packet under way is its head; and the host has read up to that
packet or just behind it (`ReadInv`), which covers a reset between the
acknowledge and `transmitComplete()`.

### 5.6 EndpointAllocator (`EndpointAllocator_proof`)

Assumptions: `MapperAssumption` (the limits `config.hpp` checks) and
`AllocatorAssumption` (at most 16 endpoint numbers a direction; any number of
interfaces).  Theorems: `AllocHardware` (`HardwareInv`), `AllocRoundTrip`
(`RoundTrip`) and `AllocServesDevice`: in a build every table entry fits its byte
and, unless a function has more than sixteen interfaces, the tables are such as
`DeviceAssumption` of `UsbDevice` asks for.  That joins the two halves: what 5.7
assumes, the compiler guarantees, up to that one limit, which nothing checks.

The inductive invariant `AllocInv`: a double-buffered endpoint has made the
other direction of its number invalid (`DoubleInv`) and types agree
(`SameTypeInv`); the functions' endpoints and the hardware's are inverse to each
other (`PlacesInv`); interfaces follow each other from the base of their function
(`InterfacesInv`).  `AddressLeads` computes what
the run-time translation makes of any address over the generated tables.

### 5.7 UsbDevice (`UsbDevice_proof`)

Assumption: `DeviceAssumption`: the tables of each speed lead back.  Theorems:
`DevLogicExists` (`NoNullLogic`), `DevCallsBack` (`CallbackOwed`), `DevAgrees`
(`HostAgrees`), and `DevKeepsPromise` (`PromiseKept`) where the host halts no
endpoint: with halts it is false (finding 3).

The inductive invariant `DevInv` has one part per question.  `QueueInv`: a reset
waits alone, and of EP0's events only a completion can wait together with the
next SETUP packet, before it.  `OpenInv`: open endpoints belong to the current
speed, under whose mapping they were opened.  `LogicInv`: whoever may be called
has its logic.  `OwedInv`: an endpoint is armed or has one event under way, never
both.  `RequestInv`: where host and device are in a request, and the address that
one of them has still to take over.  `ConfigInv`: the host counts on a
configuration only when the device has it.

### 5.8 Stm32Pcd (`Stm32Pcd_proof`)

Assumption: `PcdAssumption`: any table of endpoints with numbers 1 to 7 and
positive packet sizes, control packets of 8 to 64 bytes, packet memory that holds
the table and the two control buffers, both access widths.  Theorems:
`PcdForgetsNothing` (`NothingForgotten`), `PcdHearsSetup` (`ControlAlive`: EP0
is not disabled unless it is upset; that it may be then is finding 6),
`PcdKeepsPackets` (`PacketIntact`), `PcdKeepsApart` (`BuffersApart`) and
`PcdKeepsContract`, the refinement of `ControllerContract`.

The inductive invariant has two halves.  `StatusInv` says what the driver may
rely on between the read and the write of a status: the value read still stands
for a data endpoint, which the hardware leaves alone unless it is valid; for the
control endpoint it stands or a packet has come since and left NAK, of which the
write makes what was wanted or the direction is upset (`OpInv`, `EnabledInv`).
`MemInv` says that the buffers in use lie below
`bufferPtr`, apart in both views of them: the driver's rounded length and the
hardware's `Capacity`.  That the capacity of no buffer reaches the next one is
arithmetic on the block sizes (`EncodeReceiveLength`), proved for every length.

### 5.9 Hashes, sponges, ciphers and the generator (`Libraries_proof`)

The theorems `HashRightTheorem`, `SpongeRightTheorem`, `CipherRightTheorem` and
`OutputApartTheorem` say for every block size, rate, key, cut of the text and
order of calls what the run `libraries` shows for a few.  Each rests on an
invariant that ties the object to the whole text so far (`HashInvTheorem`,
`SpongeInvTheorem`, `CipherInvTheorem`, `RandomInvTheorem`), and each loop on two
lemmas: the equations of its rounds have a solution (`...Loop`, a least
counterexample), and a round keeps a relation to the text while moving at least
one byte, so that none is left after as many rounds as there are bytes.

* *Hash* (`BlockHashAssumption`: the length field has at least five bytes and
  leaves room in a block, the digest fits one).  `Absorbed(h, m, n)`: the
  context has compressed the whole blocks in the first n bytes of m, the rest is
  at the front of its buffer, and the count is n; what is behind the rest is
  arbitrary, which is what an update after an update leaves.  A finish pads as
  FIPS 180-4 does although the code decides between one block and two: `GapFacts`
  shows that the number of zeros is the only one below a block that ends the text
  at a whole block.  The key of an HMAC is masked in place with `I_PAD` and later
  with `I_PAD ^ O_PAD`; that this is `O_PAD` on the key itself is the algebra of
  exclusive or (`OuterKeyIs`).
* *Sponge* (`RateAssumption`: a rate is left and lies inside the state, a digest
  has a byte, the framed names of KMAC are shorter than a block).  Of a SHA-3
  digest longer than the rate the theorem has the bytes within the rate.
  `Sunk(t, l, r)` is the sponge that took l bytes of t: whole blocks permuted,
  the rest in the state, `ptr` behind it.  `ConsumeIs` says that `consume()`
  leads from one to the next, `NextBlockIs` and `KeyedIs` that the
  two paddings of `kmac::init()` are bytepad, also when the key ends a block and
  has been permuted already.  `FinishSpongeIs` covers the suffix in the last byte
  of a block, which then holds both.  `Spent(blocks, r, n)` is the sponge after n
  bytes of output; `ProduceIs` shows that `produce()` gives the next ones, so
  output drawn in pieces is the output drawn at once (`AnswerContinued`).
* *Cipher* (`CipherAssumption`).  `Ready`: counter, stream buffer and position
  are those of the number of bytes done.  The counter of AES-CTR is an array of
  digits incremented by a loop with a carry: `IncrementedIs` finds the quotients
  it computes, `DigitsOfValue` the number the digits stand for, by Horner's rule,
  so that the n-th block has the nonce plus n modulo `Base ^ CipherBlock`.
* *Generator* (`RandomAssumption`).  Each block made leaves in the first word of
  the key a token that names the state it was made from (`KeyInv`); no such
  state holds its own token, so a state about to be used has not been used
  (`FreshSeed`), and its words are new.  The block counter plays no part: the
  argument holds when it has come round.  `GivenInv` adds that a word given out
  is a token of a state that was used and is nowhere in the key.

What these theorems take as given is the symbolic reading of block functions:
different inputs yield different tokens.  It is the reading the run checks.

### 5.10 Prime fields (`PrimeFields_proof`)

Assumption: `FieldAssumption`.  For `F25519` it bounds the small constant: the
carry out of a product, folded twice, stays below the modulus
(`4 * C * C * Words25519 * Base25519 + 3 * C <= P25519`; with 19, 8 words and
2^32 the left side is below 2^46).  For `F448` the number of words is even and a
word has more than one bit.  For `Fp8` a modulus leaves the top bit of the number
free, as the group orders in `ed25519.cpp` and `ed448.cpp` do.  TLC evaluates
it in the run `libraries`.

Theorem `FieldRightTheorem`: after any sequence of loads, additions,
subtractions, negations, multiplications and the two powers, the register stands
for the exact result, and normalizing it gives that result, until a sum of F448
reaches `Range448 + P448` (`TooLarge`), of which nothing is said.  For the code
this means that no carry is lost between the words of 32 bits, nor at the top but
for those sums, and that a register in the gap between the modulus and the end of
its words is handled by every operation: cases that random test vectors do not
meet.

The invariant `FieldInv` says of each field what its next operation relies on: a
register of `F25519` is congruent to the result and, once worked on, below 2p;
one of `F448` is congruent and anything that fits its words; one of `Fp8` is the
result.  The argument is in four layers.

* *Words* (`RippleFacts`): a carry chain loses nothing, the words kept and the
  last carry are the value of the sums that went in, negative carries included.
  `Val` is the value of words, defined as the loops count; `WordsAre`, `Digits`
  and `ValRange` say that numbers in range and words in range correspond.
* *Operations*, each up to congruence and with its range: `AddIs25`, `SubIs25`,
  `MulIs25`, `NormalizeIs25`; `AddIs44`, `NegIs44`, `LoadIs44`, `MulIs44`,
  `NormalizeIs44`; `AddIs8`, `MulIs8`, `LoadIs8`.  `ReduceSingleIs` is why one
  small reduction is enough for `F25519`, `FoldedIs` and `FoldBound` why two big
  reductions and two small ones are for `F448`.  `SubIs25` needs the subtrahend
  below 2p, which every reduction of the code leaves; `AddIs44` a sum that is not
  `TooLarge`, which nothing in the code ensures (finding 8).
* *Products*: a multiplication is a sum of rows, and the columns of words times
  rows have the value of the product (`Columns`, `Linear`).
* *Powers*: `Power29` and `Power26` take an exponent through `bigint_pow_rle()`
  code by code, one that ends in each of its two registers.  The exponents are
  those of the model, which have the shape of the code's (runs of ones, single
  zeros, an even and an odd number of zeros) and fewer bits.

### 5.11 Only model-checked

Liveness under fairness and `ENABLED` are outside the prover and stay with TLC:
`BusTransferEnds`, `CallsReturn`, `TxDrains`, `HeldPacketMoves`, `HostAdmitted`.
So do the points of the curves: `PointRight`, `SecretRight` and
`SignatureRight`.  They need the group law (associativity, the order of a point),
which is a fact about the curve and not about the code, and nonlinear arithmetic
modulo a prime, for which no prover here has a procedure.  The operands of the
run are all points of small curves.

Induction over data is out of reach as such (the induction theorems of the
library take an operator as parameter).  Where the proofs need it they take a
least counterexample (`WFMin` of `WellFoundedInduction`), which has no such
parameter: the lemma `Induction` of `Libraries_proof` and `PrimeFields_proof` is
stated over a set.

All other properties of the passing runs are theorems.

## 6. Where code and documentation disagree

1. **A receive buffer of exactly one packet** (`serial_onepacket`).
   `usb-device-serial.hpp:25` asks for a length "sufficient to hold single
   packet"; the ring keeps one byte free, so a full packet never fits, is held
   for ever, and the endpoint is never armed again.
2. **Use of a closed endpoint** (`serial_reopened`).  Functions are not told of a
   reset.  Until the next SET_CONFIGURATION `transmit()` still calls
   `transmitPacket()`, and `initialize()` calls it again with no callback in
   between, which `function.hpp:49` says must never happen.
3. **Clearing a halt forgets a packet** (`usb_device_halt`).
   `stallEndpoint(address, false)` sets NAK whatever the endpoint was doing
   (`pcd_fs.cpp:157`).  A packet that was armed is dropped, its event never
   comes, and a function that keeps its contract waits for ever;
   `pcd-interface.hpp:38` promises one event for each call.  Hosts clear the halt
   of bulk endpoints routinely to reset data toggles.
4. **A string without an end** (`control_serial`).  The string streamer fills
   every packet and never looks at its length (`control-handler.cpp:65-71`), so a
   host that asks for more than the serial number's descriptor gets its terminator
   and the memory behind it; `control.hpp:42-47` describes the short or empty
   packet that ends a shorter reply.
5. **Room for a packet** (`stm32_capacity`).  `usbd_encodeReceiveLength()`
   subtracts one from the number of two-byte blocks, which the hardware counts
   from one; for sizes below 64 the buffer is two bytes shorter than the packet
   `pcd-interface.hpp:156` says is received.
6. **A deaf control endpoint** (`stm32_deaf`).  A SETUP packet between the read
   and the write of a status (`pcd_fs.cpp:35-38`) turns VALID into NAK, and the
   write that was to make VALID a STALL makes NAK DISABLED, in which EP0 ignores
   SETUP packets until the next bus reset; `pcd-interface.hpp:37-38`: "Control
   endpoint is assumed to be always open".  A streamer that aborts after it has
   asked for a packet gets the stack there.
7. **Events of closed endpoints** (`stm32_closed`).  A reset leaves the flags of
   data endpoints as they are (`handleReset()`, `pcd_fs.cpp:227-253`), and
   `pullEvent()` reports them after EV_RESET; `pcd-interface.hpp:36-37`: "only
   triggers this event for endpoints which have been explicitly opened".
   `UsbDevice` takes the interface at its word: a reset drops these events there.
8. **A lost carry** (`libraries_carry`).  `F448::add()` ignores the carry of its
   reduction (`f448.cpp:84`): of two operands in the gap above the modulus the sum
   may be short of 2^448.  `test/edwards/f448_test_gen.py` pairs such operands
   (29, 38-42) and expects the exact sum (77); `ed448.cpp:151-152` and `177` add
   two values that multiplications have left unreduced.

### Observations

Met while reading, not checked by a run of their own.

*Driver and hardware.*
* SET_FEATURE(ENDPOINT_HALT) on an armed data endpoint races with a packet as
  the abort of finding 6 does, and leaves the endpoint disabled.
* `receivePacket(0)` while the next SETUP packet is unread arms EP0 over it
  (`pcd_fs.cpp:139`), and the next packet takes the place of the unread one.
* A call on an endpoint that is still armed for one that was cut off gets that
  one's event (`late`).
* Clearing a halt does not reset the data toggle.
* `m_bufferPtr` grows with each `configureDevice()` until the next reset and is
  never compared with the size of the packet memory.
* Completion flags survive disconnection too (`pcd-interface.hpp:136`).  A received packet is reported before an older
  completion of the other direction.
* An IN event carries `EP_IN | endpoint` although `pcd-interface.hpp:47`
  describes the number alone.  The 16-bit `usbd_setRxDescriptor` names an
  undefined `count` (`pcd_fs.hpp:67-70`).

*Stack.*
* A streamed request that a bus reset cuts off is ended twice, by `aborted()` of
  its streamer in `reset()` (`control-endpoint.cpp:23-26`) and by
  `completeControl(.., false)` of its handler at the next SETUP packet (49-51).
* GET_CONFIGURATION reports the internal enumeration, 2 when configured and 1
  when deconfigured (`control-handler.cpp:265`), where line 27 says "Get index of
  currently active configuration" and the only configuration has number 1.
* `usb-device-serial.hpp:34` calls FIFOs that are kept on a reset the default;
  the constructor sets `m_discardOnReset` (line 22).
* GET_CONFIGURATION with `wLength` 2 is stalled.
* `stop()` does not reset the functions although `usb-device.hpp:68` says so.
* `registerFunction()` silently drops functions beyond `UB_USBD_MAX_FUNCTIONS`
  (`usb-device.cpp:8`), and `initialize()` then passes if the count equals the
  configured one.
* `toLogicalInterface()` admits one index too many.
* A held packet that reaches the queue raises no `EV_DATA_RX`.

*Compiler.*
* A gap in a function's logical endpoint addresses ends with a null pointer at
  `DescriptorCodeGenerator.java:245`, although `EndpointAllocation.java:126`
  describes such gaps as allowed.
* The number of a function's 17th interface does not fit its half of a table
  entry and is or-ed into the half that names the function
  (`DescriptorCodeGenerator.java:219`): its requests reach another function, or
  the first interface of its own.  Nothing checks for it.
* `GenericTargetGenerator.java:110` prints the double-buffer flag as 2 where
  `static-config.hpp` reads 1.

*Crypto.*
* `secure_random`'s carry loop increments the same word each time round, so the
  second counter word never changes and a wrap leaves the first at 1.
* Point encodings take parity, and on curve 448 also y, from values that may not
  be normalized (`ed25519.cpp:82-87`, `ed448.cpp:69`, `84-103`).  A root below 19
  may have the prime added when its lowest bit is read, and `load()` then takes
  the point for its negative: compiled, the code does so for x = 7, 14, 15, 16 and
  others, which `test/edwards/ed25519.cpp` expects to store as they were loaded.
  ed448 may store a y below 2^224 + 1 unreduced, which its `load()` refuses.
  Such points are rarer than one in 2^220.
* A point with x = 0 is accepted with either parity bit, and ed25519 accepts a y
  that is not below p.
* `x25519` does not mask the top bit of a public key.
* `ed448` verification tests the byte after R where the last byte of S was meant
  (`eddsa448.cpp:140-146`); the next test makes it harmless, as `SignatureRight`
  shows.
* A SHA-3 digest longer than the rate (`sha3.hpp:49` takes any length) is
  continued with bytes of the state behind the rate (`sha3_sha3.cpp:34-35`).
* SHA-3 and SHAKE objects whose variant was never set have rate 0, and their
  update does not return.  An `hmac` object must be initialized again after
  `finish()`.  ChaCha20's 32-bit block counter wraps.

## 7. What is not modelled

* `registerFunction()` and `initialize()` of the device: straight-line setup
  before anything runs.
* Suspend and wake-up events: `processEvents()` ignores them.
* The arithmetic of block functions and the AES key schedule: tables and rounds
  that test vectors cover better than a model checker can.
* The timing of the crypto code: nothing here is about side channels.
* Status codes and CRC-32: no order of events and no boundary that a test
  vector does not reach.
* Events of closed endpoints after EV_RESET (finding 7) in `UsbDevice` and
  `SerialPort`, whose controller keeps the documented contract.
* In `Stm32Pcd` calls between a bus reset and its event, `stallEndpoint()` of data
  endpoints and `setAddress()`; IN requests of length 0 in `ControlBus` (`ZeroLengthIn`), a SET_LINE_CODING
  whose data stage is shorter than its seven bytes.
* Specification parsing, descriptor layout and code formatting in the compiler:
  text processing without state; its plugins are tables of constants.
* Build scripts and test generators.
* Builds without resource mapping (`UB_USBD_HAVE_RESOURCE_MAPPING` off), where
  the translations are the identity.

## 8. Plan

All modules of the plan are written and checked, and every safety property of
the passing runs is proved (section 5) except those that rest on the group law of
the curves.  What is left:

1. `SerialFunction` over `CircularBuffer` itself in place of the queue it
   implements, as a refinement.
2. `registerFunction()` and `initialize()` as actions of `UsbDevice`.
3. The exponents of the code in place of the short ones of `Raised`: `Codes` for
   any code string, with the exponent computed from it.

## 9. Running

    tlc -workers 2 -config Control.cfg MCControl
    tlc -workers 2 -config Device.cfg MCDevice
    tlc -workers 2 -config Libraries.cfg MCLibraries
    tlapm Libraries_proof.tla
    tlapm Stm32Pcd_proof.tla
    tlapm PrimeFields_proof.tla

Each passing run takes less than four minutes on two workers; each proof module
takes a few minutes from nothing.
