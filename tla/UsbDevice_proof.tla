---------------------------- MODULE UsbDevice_proof ----------------------------
(***************************************************************************)
(* The device never calls a function before its logic exists, answers only *)
(* calls that are owed, keeps its promise to answer and agrees with its    *)
(* host, for any number of functions and endpoints, any speeds and any     *)
(* tables that lead back.                                                  *)
(***************************************************************************)
EXTENDS UsbDevice, SequenceTheorems, WellFoundedInduction, TLAPS

-----------------------------------------------------------------------------
(* The inductive invariant.                                                *)

EventType ==
    [kind : {"reset", "setup", "ctlOut", "status", "data"}, speed : Speeds \cup {"none"},
     addr : {0} \cup DataAddresses, req : Requests]

DevTypeOK ==
    /\ connected \in BOOLEAN
    /\ speed \in Speeds \cup {"none"} /\ mapping \in Speeds \cup {"none"}
    /\ configured \in {"RESET", "DECONFIGURED", "CONFIGURED"} /\ logic \subseteq Functions
    /\ ctl.handler \in Handlers /\ ctl.stage \in {"idle", "data", "status"}
    /\ ctl = InStage(ctl.handler, ctl.stage, ctl.req, ctl.reply) /\ ctl.req \in Requests
    /\ ep \in [DataAddresses -> {"closed", "nak", "armed", "stall"}]
    /\ ep0 \in {"nak", "receive", "status", "stall"}
    /\ events \in Seq(EventType)
    /\ view \in [Functions -> [Logicals -> {"idle", "waiting"}]]
    /\ host.stage \in {"detached", "idle", "busy"} /\ host.req \in Requests
    /\ host = [stage |-> host.stage, req |-> host.req,
               address |-> host.address, config |-> host.config]

Entries == 1..Len(events)

\* The device answers its host: the reset has been processed.
Ready == host.stage # "detached" /\ ~Pending("reset")

\* A reset waits alone, and of the events of the control endpoint only the end of
\* a request can wait together with the next SETUP packet, before it.
QueueInv ==
    /\ host.stage # "detached" => connected
    /\ events # << >> => host.stage # "detached"
    /\ \A i \in Entries : events[i].kind = "reset" =>
           /\ Len(events) = 1 /\ events[i].speed \in Speeds
           /\ host.stage = "idle" /\ ep0 = "nak" /\ host.config = 0
    /\ \A i, j \in Entries : i < j /\ events[i].kind # "data" /\ events[j].kind # "data" =>
           events[i].kind = "status" /\ events[j].kind = "setup"

\* Only endpoints of the current speed are open, under the mapping of that speed.
OpenInv ==
    /\ Ready => speed \in Speeds /\ mapping = speed
    /\ \A a \in DataAddresses : ep[a] # "closed" => Ready /\ a \in OpenedAt[speed]
    /\ \A i \in Entries : events[i].kind = "data" => events[i].addr \in OpenedAt[speed]

\* Who may be called.
LogicInv ==
    /\ configured # "RESET" => logic = Functions
    /\ ctl.handler \in Functions => ctl.handler \in logic
    /\ ctl.stage = "data" => ctl.handler \in Functions /\ ctl.req.data
    /\ Ready /\ configured # "RESET" => \A a \in OpenedAt[speed] : ep[a] # "closed"

\* The function an open address belongs to has handed it over.
Given(a) ==
    LET to == ToLogicalEndpoint(a, MappingAt[speed])
    IN  to.fn \in logic /\ view[to.fn][EpNum(to.value)] = "waiting"

\* An endpoint is either armed or has one event under way, and in both cases its
\* function is waiting for it.
OwedInv ==
    /\ \A a \in DataAddresses : ep[a] = "armed" =>
           /\ Given(a)
           /\ \A i \in Entries : ~(events[i].kind = "data" /\ events[i].addr = a)
    /\ \A i \in Entries : events[i].kind = "data" =>
           events[i] = DataEvent(events[i].addr) /\ Given(events[i].addr)
    /\ \A i, j \in Entries : i # j /\ events[i].kind = "data" /\ events[j].kind = "data" =>
           events[i].addr # events[j].addr

SetsAddress == ctl.handler = StdHandler /\ func = "setAddress"

\* Where the host is in its request and where the device is, and the address one
\* of them has still to take over.
RequestInv ==
    /\ ctl.stage = "status" => (ctl.req.op = "setAddress" <=> SetsAddress)
    /\ host.stage # "detached" =>
        /\ Pending("status") =>
               /\ ctl.stage = "status" /\ (host.stage = "idle" \/ Pending("setup"))
               /\ host.address = IF SetsAddress THEN ctl.req.value ELSE address
        /\ ~Pending("status") => address = host.address
        /\ Pending("setup") => host.stage = "busy" /\ address = host.address /\ ep0 = "nak"
        /\ \A i \in Entries : events[i].kind = "setup" => events[i].req = host.req
        /\ Pending("ctlOut") => host.stage = "busy" /\ ctl.stage = "data" /\ ctl.req = host.req
                                /\ ep0 = "nak"
        /\ host.stage = "idle" => ep0 \in {"nak", "stall"}
        /\ host.stage = "busy" /\ ep0 = "receive" => ctl.stage = "data" /\ ctl.req = host.req
        /\ host.stage = "busy" /\ ep0 = "status" => ctl.stage = "status" /\ ctl.req = host.req

\* The host counts on a configuration only when the device has it.
ConfigInv ==
    /\ Ready /\ host.config # 0 => configured = "CONFIGURED"
    /\ host.stage = "busy" /\ host.req.op = "setConfiguration" => host.config = 0
    /\ host.stage = "busy" /\ ep0 = "status" /\ host.req.op = "setConfiguration"
           /\ host.req.value # 0 => configured = "CONFIGURED"

DevInv == DevTypeOK /\ QueueInv /\ OpenInv /\ LogicInv /\ OwedInv /\ RequestInv /\ ConfigInv

\* Where no endpoint is halted, what a function handed over is not lost.
PromiseInv ==
    Ready /\ configured # "RESET" =>
        \A f \in Functions, l \in Logicals : view[f][l] = "waiting" =>
            LET a == ToPhysicalEndpoint(f, l, MappingAt[speed])
            IN  /\ a \in OpenedAt[speed]
                /\ \/ ep[a] \in {"armed", "stall"}
                   \/ \E i \in Entries : events[i] = DataEvent(a)

-----------------------------------------------------------------------------
(* Natural numbers and the queue of events.                                *)

LEMMA Smallest ==
    ASSUME NEW T \in SUBSET Nat, T # {}
    PROVE  \E n \in T : \A m \in T : n <= m
<1>1. \E n \in T : \A m \in T : ~(<<m, n>> \in OpToRel(<, Nat))
  BY WFMin, NatLessThanWellFounded
<1>2. ASSUME NEW m \in Nat, NEW n \in Nat, m < n PROVE <<m, n>> \in OpToRel(<, Nat)
  BY <1>2 DEF OpToRel
<1>3. PICK n \in T : \A m \in T : ~(<<m, n>> \in OpToRel(<, Nat))
  BY <1>1
<1>4. ASSUME NEW m \in T PROVE n <= m
  <2>1. ~(m < n)
    BY <1>2, <1>3
  <2> QED
    BY <2>1
<1> QED
  BY <1>4

\* When all that is left are events of endpoints that are opened, none is left.
LEMMA AllCleared ==
    ASSUME NEW S, NEW rest \in Seq(S),
           \A i \in 1..Len(rest) : rest[i].kind = "data" /\ rest[i].addr \in OpenedAt[speed]
    PROVE  OpenEndpoints(rest) = << >>
<1> DEFINE N == 0..Len(rest)
           Body(f) == [i \in N |->
               IF i = 0 THEN << >>
               ELSE IF rest[i].kind = "data" /\ rest[i].addr \in OpenedAt[speed]
                    THEN f[i - 1] ELSE Append(f[i - 1], rest[i])]
           k == CHOOSE f : f = Body(f)
           w == [i \in N |-> << >>]
<1>1. OpenEndpoints(rest) = k[Len(rest)]
  BY DEF OpenEndpoints
<1>2. w = Body(w)
  <2>1. \A i \in N : i # 0 => i \in 1..Len(rest) /\ i - 1 \in N
    OBVIOUS
  <2>2. \A i \in N : Body(w)[i] = << >>
    BY <2>1
  <2> QED
    BY <2>2
<1> HIDE DEF Body, w
<1>3. k = Body(k)
  BY <1>2, Zenon
<1> HIDE DEF k
<1>4. k[0] = << >> /\ \A i \in 1..Len(rest) : k[i] = k[i - 1]
  BY <1>3 DEF Body
<1> DEFINE T == {i \in N : k[i] # << >>}
<1>5. T \in SUBSET Nat
  OBVIOUS
<1>6. ASSUME T # {} PROVE FALSE
  <2>1. PICK n \in T : \A m \in T : n <= m
    BY <1>5, <1>6, Smallest
  <2>2. n # 0 /\ n \in N
    BY <1>4, <2>1
  <2>3. n - 1 \in N /\ n \in 1..Len(rest) /\ ~(n <= n - 1)
    BY <2>2
  <2>4. k[n - 1] = << >>
    BY <2>1, <2>3
  <2> QED
    BY <1>4, <2>1, <2>3, <2>4
<1> QED
  BY <1>1, <1>6

LEMMA QueueAppend ==
    ASSUME NEW e \in EventType, events \in Seq(EventType), events' = Append(events, e)
    PROVE  /\ events' \in Seq(EventType) /\ events' # << >>
           /\ Len(events) \in Nat /\ Len(events') = Len(events) + 1
           /\ \A i \in Entries : i \in Entries' /\ events'[i] = events[i]
           /\ events'[Len(events')] = e
           /\ \A i \in Entries' : i \notin Entries => i = Len(events')
           /\ \A k : Pending(k)' <=> Pending(k) \/ e.kind = k
<1>1. /\ events' \in Seq(EventType) /\ events' # << >>
      /\ Len(events) \in Nat /\ Len(events') = Len(events) + 1
      /\ \A i \in Entries : events'[i] = events[i]
      /\ events'[Len(events) + 1] = e
  BY AppendProperties DEF Entries
<1>2. /\ \A i \in Entries : i \in Entries'
      /\ \A i \in Entries' : i \notin Entries => i = Len(events')
      /\ Len(events') \in Entries'
  BY <1>1 DEF Entries
<1>3. events'[Len(events')] = e
  BY <1>1
<1>4. \A k : Pending(k)' <=> Pending(k) \/ e.kind = k
  BY <1>1, <1>2, <1>3 DEF Pending, Entries
<1> QED
  BY <1>1, <1>2, <1>3, <1>4

LEMMA QueueTail ==
    ASSUME events \in Seq(EventType), events # << >>
    PROVE  /\ Head(events) = events[1] /\ events[1] \in EventType /\ 1 \in Entries
           /\ Len(events) \in Nat
           /\ Tail(events) \in Seq(EventType) /\ Len(Tail(events)) = Len(events) - 1
           /\ \A i \in 1..Len(Tail(events)) : Tail(events)[i] = events[i + 1] /\ i + 1 \in Entries
BY HeadTailProperties DEF Entries

-----------------------------------------------------------------------------
(* Tables and requests.                                                    *)

LEMMA TableFacts ==
    ASSUME NEW s \in Speeds
    PROVE  /\ OpenedAt[s] \subseteq DataAddresses
           /\ \A a \in DataAddresses :
                  LET to == ToLogicalEndpoint(a, MappingAt[s])
                  IN  /\ to.present = (a \in OpenedAt[s])
                      /\ a \in OpenedAt[s] =>
                             /\ to.fn \in Functions /\ EpNum(to.value) \in Logicals
                             /\ ToPhysicalEndpoint(to.fn, EpNum(to.value), MappingAt[s]) = a
           /\ \A f \in Functions, l \in Logicals :
                  LET a  == ToPhysicalEndpoint(f, l, MappingAt[s])
                      to == ToLogicalEndpoint(a, MappingAt[s])
                  IN  a # 0 => a \in OpenedAt[s] /\ to.fn = f /\ EpNum(to.value) = l
           /\ \A n \in 0..MaxInterfaces :
                  LET to == ToLogicalInterface(n, MappingAt[s]) IN to.present => to.fn \in Functions
<1>1. LeadsBack(MappingAt[s], OpenedAt[s])
  BY DeviceAssumption
<1>2. OpenedAt[s] \subseteq DataAddresses
  BY DEF DataAddresses
<1>3. DataAddresses \subseteq (0..15) \cup (128..143)
  BY DeviceAssumption DEF DataAddresses
<1> QED
  BY <1>1, <1>2, <1>3 DEF LeadsBack

LEMMA AddressFacts == 0 \notin DataAddresses
BY DeviceAssumption DEF DataAddresses

LEMMA RequestFacts ==
    ASSUME NEW r \in Requests
    PROVE  /\ r.data => r.type = "class"
           /\ r.type = "class" <=> r.op = "class"
           /\ r.type = "class" \/ r.type = "standard"
           /\ r.type = "standard" => ~r.data
           /\ r.recipient = "endpoint" => r.index \in DataAddresses
           /\ r.recipient = "interface" => r.type = "class" /\ r.index \in 0..MaxInterfaces
           /\ r.op \in {"setAddress", "setConfiguration"} => r.recipient = "device"
           /\ r.op \in {"setHalt", "clearHalt"} => Halts
BY DEF Requests, StandardRequests, ClassRequests, Request, NoRequest

LEMMA NoRequestFacts == NoRequest \in Requests /\ Idle.req = NoRequest /\ Idle.handler = NoHandler
                        /\ Idle.stage = "idle" /\ NoRequest.op = "getStatus"
BY DEF Requests, StandardRequests, NoRequest, Idle, InStage, Request

LEMMA HandlerFacts ==
    /\ StdHandler \notin Functions /\ NoHandler \notin Functions /\ NoHandler # StdHandler
    /\ StdHandler \in Handlers /\ NoHandler \in Handlers /\ Functions \subseteq Handlers
BY MapperAssumption DEF StdHandler, NoHandler, Handlers, Functions

\* Standard requests go to the standard handler or to nobody, other requests to a
\* function of a configured device or to nobody.
LEMMA Resolved ==
    ASSUME mapping \in Speeds, NEW r \in Requests, NEW h \in ResolveControl(r)
    PROVE  /\ h \in Handlers
           /\ h = StdHandler => r.type = "standard"
           /\ h \in Functions => r.type = "class" /\ configured = "CONFIGURED"
           /\ h \notin {StdHandler, NoHandler} => h \in Functions
           /\ r.op \in {"setAddress", "setConfiguration"} => h = StdHandler
<1>1. CASE r.type = "standard"
  <2>1. h \in {NoHandler, StdHandler}
    BY <1>1 DEF ResolveControl
  <2>2. r.op \in {"setAddress", "setConfiguration"} => h = StdHandler
    BY <1>1, RequestFacts DEF ResolveControl
  <2> QED
    BY <1>1, <2>1, <2>2, HandlerFacts
<1>2. CASE r.type = "class"
  <2>1. \A to : to.present => HandlerOf(to) = to.fn
    BY DEF HandlerOf
  <2>2. \A to : ~to.present => HandlerOf(to) = NoHandler
    BY DEF HandlerOf
  <2>3. r.recipient = "endpoint" =>
            HandlerOf(ToLogicalEndpoint(r.index, Active)) \in Functions \cup {NoHandler}
    <3> DEFINE to == ToLogicalEndpoint(r.index, Active)
    <3>1. r.recipient = "endpoint" => (to.present => to.fn \in Functions)
      BY RequestFacts, TableFacts DEF Active
    <3> HIDE DEF to
    <3> QED
      BY <2>1, <2>2, <3>1 DEF to
  <2>4. r.recipient = "interface" =>
            HandlerOf(ToLogicalInterface(r.index, Active)) \in Functions \cup {NoHandler}
    <3> DEFINE to == ToLogicalInterface(r.index, Active)
    <3>1. r.recipient = "interface" => (to.present => to.fn \in Functions)
      BY RequestFacts, TableFacts DEF Active
    <3> HIDE DEF to
    <3> QED
      BY <2>1, <2>2, <3>1 DEF to
  <2>5. r.op = "class"
    BY <1>2, RequestFacts
  <2>6. r.recipient \in {"device", "endpoint", "interface"}
    BY DEF Requests, StandardRequests, ClassRequests, Request, NoRequest
  <2>7. h \in Functions \cup {NoHandler} /\ (h \in Functions => configured = "CONFIGURED")
    BY <1>2, <2>3, <2>4, <2>6, HandlerFacts DEF ResolveControl
  <2> QED
    BY <1>2, <2>5, <2>7, HandlerFacts
<1> QED
  BY <1>1, <1>2, RequestFacts

-----------------------------------------------------------------------------
(* What processing a SETUP packet comes to.                                *)

Initialized(r, rest) ==
    /\ r.value # 0 /\ configured = "RESET"
    /\ \E n \in 0..MaxFunctions :
           /\ \E armed \in FirstUses(n) : SetConfigured(n, armed, rest)
           /\ configured' = IF n = MaxFunctions THEN "CONFIGURED" ELSE configured
           /\ (ep0' = "status") = (n = MaxFunctions)

Reconfigured(r, rest) ==
    /\ ~(r.value # 0 /\ configured = "RESET")
    /\ configured' = IF r.value # 0 THEN "CONFIGURED"
                     ELSE IF configured = "CONFIGURED" THEN "DECONFIGURED" ELSE configured
    /\ events' = rest /\ UNCHANGED <<logic, ep, view>>

SetupEffect(r, rest) ==
    \/ /\ events' = rest /\ Keep
       /\ r.op = "setConfiguration" => ep0' = "stall"
    \/ r.op = "setConfiguration" /\ (Initialized(r, rest) \/ Reconfigured(r, rest))
    \/ r.op \in {"setHalt", "clearHalt"} /\ SetStall(r, rest)

SetupAnswer(r) ==
    \/ ep0' = "stall" /\ ctl' = Idle
    \/ \E h \in Functions : /\ configured = "CONFIGURED" /\ r.type = "class" /\ r.data
                            /\ ep0' = "receive" /\ ctl' = InStage(h, "data", r, 0)
    \/ \E h \in Functions : /\ configured = "CONFIGURED" /\ r.type = "class"
                            /\ ep0' = "status" /\ ctl' = InStage(h, "status", r, Reply(r))
    \/ /\ r.type = "standard" /\ func' = ControlFunc(r)
       /\ ep0' = "status" /\ ctl' = InStage(StdHandler, "status", r, Reply(r))

LEMMA SetupComesTo ==
    ASSUME mapping \in Speeds, NEW r \in Requests, NEW rest, Setup(r, rest)
    PROVE  /\ SetupAnswer(r) /\ SetupEffect(r, rest)
           /\ UNCHANGED <<speed, mapping, address>>
<1>1. UNCHANGED <<speed, mapping, address>>
  BY DEF Setup, CompleteControl
<1>2. PICK h \in ResolveControl(r) :
         /\ func' = IF h = StdHandler THEN ControlFunc(r) ELSE func
         /\ \/ /\ h = NoHandler \/ (h \in Functions /\ r.recipient # "device")
               /\ ep0' = "stall" /\ ctl' = Idle /\ events' = rest /\ Keep
            \/ /\ h # NoHandler /\ r.data
               /\ ep0' = "receive" /\ ctl' = InStage(h, "data", r, 0)
               /\ events' = rest /\ Keep
            \/ /\ h # NoHandler /\ ~r.data
               /\ Handle(h, r, rest)
  BY DEF Setup
<1>3. /\ h = StdHandler => r.type = "standard"
      /\ h \in Functions => r.type = "class" /\ configured = "CONFIGURED"
      /\ h \notin {StdHandler, NoHandler} => h \in Functions
      /\ r.op \in {"setAddress", "setConfiguration"} => h = StdHandler
  BY Resolved
<1>4. /\ r.data => r.type = "class"
      /\ r.type = "class" <=> r.op = "class"
      /\ r.type = "standard" => ~r.data
  BY RequestFacts
<1>5. CASE ep0' = "stall" /\ ctl' = Idle /\ events' = rest /\ Keep
  BY <1>1, <1>5 DEF SetupAnswer, SetupEffect
<1>6. CASE h # NoHandler /\ r.data /\ ep0' = "receive" /\ ctl' = InStage(h, "data", r, 0)
           /\ events' = rest /\ Keep
  <2>1. h \in Functions /\ r.op # "setConfiguration"
    BY <1>3, <1>4, <1>6
  <2> QED
    BY <1>1, <1>3, <1>4, <1>6, <2>1 DEF SetupAnswer, SetupEffect
<1>7. CASE h # NoHandler /\ ~r.data /\ Handle(h, r, rest)
  <2>1. PICK ok \in BOOLEAN :
           /\ HandleControl(h, r, ok, rest)
           /\ ep0' = IF ok THEN "status" ELSE "stall"
           /\ ctl' = IF ok THEN InStage(h, "status", r, Reply(r)) ELSE Idle
    BY <1>7 DEF Handle
  <2>2. SetupAnswer(r)
    <3>1. CASE ~ok
      BY <2>1, <3>1 DEF SetupAnswer
    <3>2. CASE ok /\ h \in Functions
      BY <1>3, <2>1, <3>2 DEF SetupAnswer
    <3>3. CASE ok /\ h = StdHandler
      BY <1>2, <1>3, <2>1, <3>3 DEF SetupAnswer
    <3> QED
      BY <1>3, <1>7, <3>1, <3>2, <3>3
  <2>3. SetupEffect(r, rest)
    <3>1. CASE h # StdHandler
      BY <1>3, <2>1, <3>1 DEF SetupEffect, HandleControl
    <3>2. CASE h = StdHandler /\ r.op = "setConfiguration"
      <4>1. SetConfiguration(r.value, ok, rest)
        BY <2>1, <3>2 DEF HandleControl
      <4>2. CASE r.value # 0 /\ configured = "RESET"
        <5>1. \E n \in 0..MaxFunctions :
                /\ ok = (n = MaxFunctions)
                /\ \E armed \in FirstUses(n) : SetConfigured(n, armed, rest)
                /\ configured' = IF ok THEN "CONFIGURED" ELSE configured
          BY <4>1, <4>2 DEF SetConfiguration
        <5>2. (ep0' = "status") = ok
          BY <2>1
        <5>3. Initialized(r, rest)
          BY <4>2, <5>1, <5>2 DEF Initialized
        <5> QED
          BY <3>2, <5>3 DEF SetupEffect
      <4>3. CASE ~(r.value # 0 /\ configured = "RESET")
        BY <3>2, <4>1, <4>3 DEF SetupEffect, SetConfiguration, Reconfigured
      <4> QED
        BY <4>2, <4>3
    <3>3. CASE h = StdHandler /\ r.op \in {"setHalt", "clearHalt"}
      <4>1. SetStall(r, rest)
        BY <2>1, <3>3 DEF HandleControl
      <4> QED
        BY <3>3, <4>1 DEF SetupEffect
    <3>4. CASE h = StdHandler /\ r.op \notin {"setConfiguration", "setHalt", "clearHalt"}
      <4>1. events' = rest /\ Keep
        BY <2>1, <3>4 DEF HandleControl
      <4> QED
        BY <3>4, <4>1 DEF SetupEffect
    <3> QED
      BY <3>1, <3>2, <3>3, <3>4
  <2> QED
    BY <1>1, <2>2, <2>3
<1> QED
  BY <1>2, <1>5, <1>6, <1>7

-----------------------------------------------------------------------------
(* What an event leaves in the queue when it is taken off it.              *)

LEMMA EventKinds ==
    ASSUME DevTypeOK
    PROVE  \A i \in Entries : /\ events[i] \in EventType
                             /\ events[i].kind \in {"reset", "setup", "ctlOut", "status", "data"}
<1>1. \A i \in Entries : events[i] \in EventType
  BY DEF DevTypeOK, Entries
<1> QED
  BY <1>1 DEF EventType

LEMMA HeadTaken ==
    ASSUME DevTypeOK, QueueInv, events # << >>
    PROVE  LET e == events[1]
           IN  /\ Head(events) = e /\ e \in EventType /\ 1 \in Entries
               /\ Pending(e.kind) /\ host.stage # "detached" /\ connected
               /\ e.kind # "reset" => ~Pending("reset")
               /\ e.kind = "status" \/ e.kind = "data" \/ \A k : Pending(k) => k \in {e.kind, "data"}
<1>1. /\ Head(events) = events[1] /\ events[1] \in EventType /\ 1 \in Entries /\ Len(events) \in Nat
  BY QueueTail DEF DevTypeOK
<1>2. Pending(events[1].kind) /\ host.stage # "detached" /\ connected
  BY <1>1 DEF Pending, Entries, QueueInv
<1>3. events[1].kind # "reset" => ~Pending("reset")
  <2>1. ASSUME NEW i \in Entries, events[i].kind = "reset" PROVE i = 1
    BY <1>1, <2>1 DEF QueueInv, Entries
  <2> QED
    BY <2>1 DEF Pending, Entries
<1>4. events[1].kind = "status" \/ events[1].kind = "data"
         \/ \A k : Pending(k) => k \in {events[1].kind, "data"}
  <2>1. ASSUME NEW i \in Entries, i # 1, events[1].kind # "data", events[i].kind # "data"
        PROVE  events[1].kind = "status"
    <3>1. 1 < i
      BY <1>1, <2>1 DEF Entries
    <3> QED
      BY <1>1, <2>1, <3>1 DEF QueueInv
  <2> QED
    BY <2>1 DEF Pending, Entries
<1> QED
  BY <1>1, <1>2, <1>3, <1>4

LEMMA TailLeft ==
    ASSUME DevTypeOK, QueueInv, events # << >>, events' = Tail(events)
    PROVE  /\ events' \in Seq(EventType) /\ Len(events') \in Nat
           /\ \A i \in Entries' : i + 1 \in Entries /\ events'[i] = events[i + 1]
           /\ \A k : Pending(k)' => Pending(k)
           /\ \A k : k # events[1].kind => (Pending(k) => Pending(k)')
           /\ ~Pending("reset")'
           /\ \A i, j \in Entries' : i < j /\ events'[i].kind # "data" /\ events'[j].kind # "data" =>
                  events'[i].kind = "status" /\ events'[j].kind = "setup"
           /\ events[1].kind \in {"setup", "ctlOut"} =>
                  \A i \in Entries' : events'[i].kind = "data"
           /\ events[1].kind = "status" => ~Pending("status")' /\ ~Pending("ctlOut")'
<1>1. /\ events[1] \in EventType /\ 1 \in Entries /\ Len(events) \in Nat
      /\ Tail(events) \in Seq(EventType) /\ Len(Tail(events)) = Len(events) - 1
      /\ \A i \in 1..Len(Tail(events)) : Tail(events)[i] = events[i + 1] /\ i + 1 \in Entries
  BY QueueTail DEF DevTypeOK
<1>2. /\ events' \in Seq(EventType) /\ Len(events') \in Nat /\ Len(events') = Len(events) - 1
      /\ \A i \in Entries' : i + 1 \in Entries /\ events'[i] = events[i + 1] /\ i \in Nat \ {0}
  BY <1>1 DEF Entries
<1>3. \A k : Pending(k)' => Pending(k)
  BY <1>2 DEF Pending, Entries
<1>4. ASSUME NEW k, k # events[1].kind, Pending(k) PROVE Pending(k)'
  <2>1. PICK i \in Entries : events[i].kind = k
    BY <1>4 DEF Pending, Entries
  <2>2. i # 1 /\ i - 1 \in Entries' /\ (i - 1) + 1 = i
    BY <1>1, <1>2, <1>4, <2>1 DEF Entries
  <2>3. events'[i - 1] = events[i]
    BY <1>2, <2>2
  <2> QED
    BY <2>1, <2>2, <2>3 DEF Pending, Entries
<1>5. ~Pending("reset")'
  <2>1. ASSUME NEW i \in Entries', events'[i].kind = "reset" PROVE FALSE
    <3>1. Len(events) = 1
      BY <1>2, <2>1 DEF QueueInv
    <3> QED
      BY <1>2, <3>1 DEF Entries
  <2> QED
    BY <2>1 DEF Pending, Entries
<1>6. ASSUME NEW i \in Entries', NEW j \in Entries', i < j,
             events'[i].kind # "data", events'[j].kind # "data"
      PROVE  events'[i].kind = "status" /\ events'[j].kind = "setup"
  <2>1. i \in Nat \ {0} /\ i + 1 \in Entries /\ events'[i] = events[i + 1]
    BY <1>2
  <2>2. j \in Nat \ {0} /\ j + 1 \in Entries /\ events'[j] = events[j + 1]
    BY <1>2
  <2>3. i + 1 < j + 1
    BY <1>6, <2>1, <2>2
  <2> QED
    BY <1>6, <2>1, <2>2, <2>3 DEF QueueInv
<1>7. ASSUME NEW i \in Entries', events'[i].kind # "data", events[1].kind # "data"
      PROVE  events[1].kind = "status" /\ events'[i].kind = "setup"
  <2>1. i \in Nat \ {0} /\ i + 1 \in Entries /\ events'[i] = events[i + 1]
    BY <1>2
  <2>2. 1 < i + 1
    BY <2>1
  <2> QED
    BY <1>1, <1>7, <2>1, <2>2 DEF QueueInv
<1>8. events[1].kind \in {"setup", "ctlOut"} => \A i \in Entries' : events'[i].kind = "data"
  BY <1>7
<1>9. events[1].kind = "status" => ~Pending("status")' /\ ~Pending("ctlOut")'
  BY <1>7 DEF Pending, Entries
<1> QED
  BY <1>2, <1>3, <1>4, <1>5, <1>6, <1>8, <1>9

-----------------------------------------------------------------------------
(* Start, stop and reset.                                                  *)

DevVars == <<connected, speed, mapping, configured, logic, ctl, func,
             ep, ep0, address, events, view, host>>

LEMMA DevStutters == ASSUME DevInv, UNCHANGED DevVars PROVE DevInv'
<1>1. DevTypeOK'
  BY DEF DevInv, DevTypeOK, DevVars, InStage
<1>2. QueueInv' /\ OpenInv'
  BY DEF DevInv, QueueInv, OpenInv, Ready, Pending, Entries, DevVars
<1>3. LogicInv' /\ ConfigInv'
  BY DEF DevInv, LogicInv, ConfigInv, Ready, Pending, DevVars
<1>4. OwedInv'
  BY DEF DevInv, OwedInv, Given, Entries, DevVars, DataEvent, Event
<1>5. RequestInv'
  BY DEF DevInv, RequestInv, SetsAddress, Pending, Entries, DevVars
<1> QED
  BY <1>1, <1>2, <1>3, <1>4, <1>5 DEF DevInv

LEMMA StartStep == ASSUME DevInv, Start PROVE DevInv'
<1>1. /\ ~connected /\ connected' = TRUE
      /\ UNCHANGED <<stackVars, ep, ep0, address, events, view, host>>
  BY DEF Start
<1>2. host.stage = "detached" /\ events = << >>
  BY <1>1 DEF DevInv, QueueInv
<1>3. DevTypeOK'
  BY <1>1 DEF DevInv, DevTypeOK, stackVars, InStage
<1>4. QueueInv' /\ OpenInv'
  BY <1>1 DEF DevInv, QueueInv, OpenInv, Ready, Pending, Entries, stackVars
<1>5. LogicInv' /\ ConfigInv'
  BY <1>1 DEF DevInv, LogicInv, ConfigInv, Ready, Pending, stackVars
<1>6. OwedInv'
  BY <1>1 DEF DevInv, OwedInv, Given, Entries, stackVars, DataEvent, Event
<1>7. RequestInv'
  BY <1>1 DEF DevInv, RequestInv, SetsAddress, Pending, Entries, stackVars
<1> QED
  BY <1>3, <1>4, <1>5, <1>6, <1>7 DEF DevInv

LEMMA StopStep == ASSUME DevInv, Stop PROVE DevInv'
<1>1. /\ connected' = FALSE /\ speed' = "none" /\ ctl' = [ctl EXCEPT !.stage = "idle"]
      /\ ep' = [a \in DataAddresses |-> "closed"] /\ ep0' = "nak" /\ address' = 0
      /\ events' = << >> /\ host' = Detached
      /\ UNCHANGED <<mapping, configured, logic, func, view>>
  BY DEF Stop
<1>2. /\ Detached.stage = "detached" /\ Detached.req = NoRequest /\ Detached.config = 0
      /\ NoRequest \in Requests
      /\ Detached = [stage |-> Detached.stage, req |-> Detached.req,
                     address |-> Detached.address, config |-> Detached.config]
  BY NoRequestFacts DEF Detached
<1>3. /\ ctl'.handler = ctl.handler /\ ctl'.stage = "idle" /\ ctl'.req = ctl.req
      /\ ctl' = InStage(ctl'.handler, ctl'.stage, ctl'.req, ctl'.reply)
  BY <1>1 DEF DevInv, DevTypeOK, InStage
<1>4. << >> \in Seq(EventType) /\ Len(<< >>) = 0 /\ Entries' = {}
  BY <1>1 DEF Entries
<1>5. DevTypeOK'
  BY <1>1, <1>2, <1>3, <1>4 DEF DevInv, DevTypeOK
<1>6. QueueInv' /\ OpenInv'
  BY <1>1, <1>2, <1>4 DEF QueueInv, OpenInv, Ready, Pending, Entries
<1>7. LogicInv' /\ ConfigInv'
  BY <1>1, <1>2, <1>3 DEF DevInv, LogicInv, ConfigInv, Ready
<1>8. OwedInv' /\ RequestInv'
  BY <1>1, <1>2, <1>3, <1>4 DEF OwedInv, RequestInv
<1> QED
  BY <1>5, <1>6, <1>7, <1>8 DEF DevInv

LEMMA BusResetStep == ASSUME DevInv, NEW s \in Speeds, BusReset(s) PROVE DevInv'
<1>1. /\ connected /\ ep' = [a \in DataAddresses |-> "closed"] /\ ep0' = "nak" /\ address' = 0
      /\ events' = << ResetEvent(s) >> /\ host' = [Detached EXCEPT !.stage = "idle"]
      /\ UNCHANGED <<connected, speed, mapping, configured, logic, ctl, func, view>>
  BY DEF BusReset, BusStep, stackVars
<1>2. /\ host'.stage = "idle" /\ host'.req = NoRequest /\ host'.config = 0 /\ host'.address = 0
      /\ NoRequest \in Requests
      /\ host' = [stage |-> host'.stage, req |-> host'.req,
                  address |-> host'.address, config |-> host'.config]
  BY <1>1, NoRequestFacts DEF Detached
<1>3. /\ ResetEvent(s) \in EventType /\ ResetEvent(s).kind = "reset" /\ ResetEvent(s).speed = s
  BY NoRequestFacts DEF ResetEvent, Event, EventType
<1>4. /\ events' \in Seq(EventType) /\ Len(events') = 1 /\ Entries' = {1}
      /\ events'[1] = ResetEvent(s)
  BY <1>1, <1>3 DEF Entries
<1>5. \A k : Pending(k)' <=> k = "reset"
  BY <1>3, <1>4 DEF Pending, Entries
<1>6. DevTypeOK'
  BY <1>1, <1>2, <1>4 DEF DevInv, DevTypeOK, InStage
<1>7. QueueInv' /\ OpenInv'
  BY <1>1, <1>2, <1>3, <1>4, <1>5 DEF QueueInv, OpenInv, Ready
<1>8. LogicInv' /\ ConfigInv'
  BY <1>1, <1>2, <1>5 DEF DevInv, LogicInv, ConfigInv, Ready
<1>9. OwedInv'
  BY <1>1, <1>3, <1>4 DEF OwedInv
<1>10. RequestInv'
  BY <1>1, <1>2, <1>3, <1>4, <1>5 DEF DevInv, RequestInv, SetsAddress
<1> QED
  BY <1>6, <1>7, <1>8, <1>9, <1>10 DEF DevInv

LEMMA ResetProcessed ==
    ASSUME DevInv, events # << >>, events[1].kind = "reset",
           ProcessReset(events[1].speed), events' = Tail(events), UNCHANGED <<connected, host>>
    PROVE  DevInv'
<1>1. /\ Len(events) = 1 /\ events[1].speed \in Speeds /\ host.stage = "idle" /\ ep0 = "nak"
      /\ host.config = 0 /\ Pending("reset") /\ connected
  BY HeadTaken DEF DevInv, QueueInv
<1>2. /\ events' \in Seq(EventType) /\ Len(events') = 0 /\ Entries' = {}
  <2>1. Tail(events) \in Seq(EventType) /\ Len(Tail(events)) = Len(events) - 1
    BY QueueTail DEF DevInv, DevTypeOK
  <2> QED
    BY <1>1, <2>1 DEF Entries
<1>3. \A k : ~Pending(k)'
  BY <1>2 DEF Pending
<1>4. /\ speed' = events[1].speed /\ mapping' = events[1].speed /\ configured' = "RESET"
      /\ ctl' = [ctl EXCEPT !.stage = "idle"]
      /\ UNCHANGED <<connected, host, logic, func, ep, ep0, address, view>>
  BY DEF ProcessReset
<1>5. /\ ctl'.handler = ctl.handler /\ ctl'.stage = "idle" /\ ctl'.req = ctl.req
      /\ ctl' = InStage(ctl'.handler, ctl'.stage, ctl'.req, ctl'.reply)
  BY <1>4 DEF DevInv, DevTypeOK, InStage
<1>6. \A a \in DataAddresses : ep[a] = "closed"
  BY <1>1 DEF DevInv, OpenInv, Ready
<1>7. DevTypeOK'
  BY <1>1, <1>2, <1>4, <1>5 DEF DevInv, DevTypeOK
<1>8. QueueInv' /\ OpenInv'
  BY <1>1, <1>2, <1>3, <1>4, <1>6 DEF QueueInv, OpenInv, Ready
<1>9. LogicInv' /\ ConfigInv'
  BY <1>1, <1>4, <1>5 DEF DevInv, LogicInv, ConfigInv
<1>10. OwedInv'
  BY <1>2, <1>4, <1>6 DEF OwedInv
<1>11. address = host.address
  <2>1. \A k : Pending(k) => k = "reset"
    BY <1>1 DEF Pending
  <2> QED
    BY <1>1, <2>1 DEF DevInv, RequestInv
<1>12. RequestInv'
  BY <1>1, <1>2, <1>3, <1>4, <1>5, <1>11 DEF RequestInv
<1> QED
  BY <1>7, <1>8, <1>9, <1>10, <1>12 DEF DevInv

-----------------------------------------------------------------------------
(* The host.                                                               *)

LEMMA AppendedQueue ==
    ASSUME DevInv, NEW e \in EventType, events' = Append(events, e), e.kind # "reset",
           host.stage # "detached", UNCHANGED <<connected>>, host'.stage # "detached",
           ~Pending("reset"),
           e.kind = "data" \/ \A i \in Entries :
               events[i].kind = "data" \/ (events[i].kind = "status" /\ e.kind = "setup")
    PROVE  QueueInv'
<1>1. /\ Len(events) \in Nat /\ Len(events') = Len(events) + 1
      /\ \A i \in Entries : i \in Entries' /\ events'[i] = events[i]
      /\ events'[Len(events')] = e
      /\ \A i \in Entries' : i \notin Entries => i = Len(events')
  BY QueueAppend DEF DevInv, DevTypeOK
<1>2. \A i \in Entries' : events'[i].kind # "reset"
  BY <1>1 DEF Pending, Entries
<1>3. ASSUME NEW i \in Entries', NEW j \in Entries', i < j,
             events'[i].kind # "data", events'[j].kind # "data"
      PROVE  events'[i].kind = "status" /\ events'[j].kind = "setup"
  <2>1. i \in Entries
    BY <1>1, <1>3 DEF Entries
  <2>2. CASE j \in Entries
    BY <1>1, <1>3, <2>1, <2>2 DEF DevInv, QueueInv
  <2>3. CASE j \notin Entries
    BY <1>1, <1>3, <2>1, <2>3
  <2> QED
    BY <2>2, <2>3
<1> QED
  BY <1>2, <1>3 DEF DevInv, QueueInv

\* An event of the control endpoint changes nothing about the others.
LEMMA ControlAppended ==
    ASSUME DevInv, NEW e \in EventType, events' = Append(events, e),
           e.kind \in {"setup", "ctlOut", "status"},
           UNCHANGED <<speed, mapping, configured, logic, ctl, ep, view>>,
           host.stage # "detached", host'.stage # "detached"
    PROVE  OpenInv' /\ LogicInv' /\ OwedInv'
<1>1. /\ Len(events) \in Nat /\ Len(events') = Len(events) + 1
      /\ \A i \in Entries : i \in Entries' /\ events'[i] = events[i]
      /\ events'[Len(events')] = e
      /\ \A i \in Entries' : i \notin Entries => i = Len(events')
      /\ \A k : Pending(k)' <=> Pending(k) \/ e.kind = k
  BY QueueAppend DEF DevInv, DevTypeOK
<1>2. Ready' <=> Ready
  BY <1>1 DEF Ready
<1>3. \A i \in Entries' : events'[i].kind = "data" => i \in Entries /\ events'[i] = events[i]
  BY <1>1
<1>4. OpenInv'
  BY <1>2, <1>3 DEF DevInv, OpenInv
<1>5. LogicInv'
  BY <1>2 DEF DevInv, LogicInv
<1>6. \A a : Given(a)' <=> Given(a)
  BY DEF Given
<1>7. OwedInv'
  <2>1. \A a \in DataAddresses : ep'[a] = "armed" =>
           /\ Given(a)'
           /\ \A i \in Entries' : ~(events'[i].kind = "data" /\ events'[i].addr = a)
    BY <1>3, <1>6 DEF DevInv, OwedInv
  <2>2. \A i \in Entries' : events'[i].kind = "data" =>
           (events[i] = DataEvent(events[i].addr) /\ Given(events[i].addr))'
    BY <1>3, <1>6 DEF DevInv, OwedInv
  <2>3. \A i, j \in Entries' : i # j /\ events'[i].kind = "data" /\ events'[j].kind = "data" =>
           events'[i].addr # events'[j].addr
    <3> SUFFICES ASSUME NEW i \in Entries', NEW j \in Entries', i # j,
                        events'[i].kind = "data", events'[j].kind = "data"
                 PROVE  events'[i].addr # events'[j].addr
      OBVIOUS
    <3>1. /\ i \in Entries /\ events'[i] = events[i]
          /\ j \in Entries /\ events'[j] = events[j]
      BY <1>3
    <3> QED
      BY <3>1 DEF DevInv, OwedInv
  <2> QED
    BY <2>1, <2>2, <2>3 DEF OwedInv
<1> QED
  BY <1>4, <1>5, <1>7

LEMMA HostSetupStep == ASSUME DevInv, NEW r \in Requests, HostSetup(r) PROVE DevInv'
<1> DEFINE e == ControlEvent("setup", r)
<1>1. /\ host.stage \in {"idle", "busy"} /\ address = host.address
      /\ ~Pending("reset") /\ ~Pending("setup") /\ ~Pending("ctlOut")
      /\ ep0' = "nak" /\ events' = Append(events, e)
      /\ UNCHANGED <<connected, speed, mapping, configured, logic, ctl, func, view, ep, address>>
  BY DEF HostSetup, BusStep, stackVars
<1>2. /\ host'.stage = "busy" /\ host'.req = r /\ host'.address = host.address
      /\ host'.config = IF r.op = "setConfiguration" THEN 0 ELSE host.config
      /\ host' = [stage |-> host'.stage, req |-> host'.req,
                  address |-> host'.address, config |-> host'.config]
  BY DEF HostSetup, DevInv, DevTypeOK
<1>3. e \in EventType /\ e.kind = "setup" /\ e.req = r
  BY DEF ControlEvent, Event, EventType
<1> HIDE DEF e
<1>4. /\ events' \in Seq(EventType)
      /\ \A i \in Entries : i \in Entries' /\ events'[i] = events[i]
      /\ events'[Len(events')] = e
      /\ \A i \in Entries' : i \notin Entries => i = Len(events')
      /\ \A k : Pending(k)' <=> Pending(k) \/ e.kind = k
  BY <1>1, <1>3, QueueAppend DEF DevInv, DevTypeOK
<1>5. DevTypeOK'
  BY <1>1, <1>2, <1>4 DEF DevInv, DevTypeOK, InStage
<1>6. \A i \in Entries : events[i].kind \in {"data", "status"}
  BY <1>1, EventKinds DEF Pending, Entries, DevInv
<1>7. QueueInv'
  BY <1>1, <1>2, <1>3, <1>6, AppendedQueue
<1>8. OpenInv' /\ LogicInv' /\ OwedInv'
  BY <1>1, <1>2, <1>3, ControlAppended
<1>9. RequestInv'
  <2>1. ctl'.stage = "status" => (ctl'.req.op = "setAddress" <=> SetsAddress')
    BY <1>1 DEF DevInv, RequestInv, SetsAddress
  <2>2. Pending("status") => /\ ctl.stage = "status"
                             /\ host.address = IF SetsAddress THEN ctl.req.value ELSE address
    BY <1>1 DEF DevInv, RequestInv
  <2>3. Pending("status")' <=> Pending("status")
    BY <1>3, <1>4
  <2>4. Pending("setup")' /\ ~Pending("ctlOut")'
    BY <1>1, <1>3, <1>4
  <2>5. \A i \in Entries' : events'[i].kind = "setup" => events'[i].req = r
    BY <1>3, <1>4, <1>6
  <2> QED
    BY <1>1, <1>2, <2>1, <2>2, <2>3, <2>4, <2>5 DEF RequestInv, SetsAddress
<1>10. ConfigInv'
  <2>1. Ready' <=> Ready
    BY <1>1, <1>2, <1>3, <1>4 DEF Ready
  <2> QED
    BY <1>1, <1>2, <2>1 DEF DevInv, ConfigInv
<1> QED
  BY <1>5, <1>7, <1>8, <1>9, <1>10 DEF DevInv

LEMMA HostSendsDataStep == ASSUME DevInv, HostSendsData PROVE DevInv'
<1> DEFINE e == ControlEvent("ctlOut", NoRequest)
<1>1. /\ host.stage = "busy" /\ ep0 = "receive"
      /\ ep0' = "nak" /\ events' = Append(events, e)
      /\ UNCHANGED <<connected, speed, mapping, configured, logic, ctl, func, view, ep, address,
                     host>>
  BY DEF HostSendsData, BusStep, stackVars
<1>2. e \in EventType /\ e.kind = "ctlOut"
  BY NoRequestFacts DEF ControlEvent, Event, EventType
<1> HIDE DEF e
<1>3. /\ events' \in Seq(EventType)
      /\ \A i \in Entries : i \in Entries' /\ events'[i] = events[i]
      /\ events'[Len(events')] = e
      /\ \A i \in Entries' : i \notin Entries => i = Len(events')
      /\ \A k : Pending(k)' <=> Pending(k) \/ e.kind = k
  BY <1>1, <1>2, QueueAppend DEF DevInv, DevTypeOK
<1>4. ctl.stage = "data" /\ ctl.req = host.req
  BY <1>1 DEF DevInv, RequestInv
<1>5. ~Pending("reset") /\ ~Pending("setup") /\ ~Pending("ctlOut") /\ ~Pending("status")
  BY <1>1, <1>4 DEF DevInv, RequestInv, QueueInv, Pending, Entries
<1>6. DevTypeOK'
  BY <1>1, <1>3 DEF DevInv, DevTypeOK, InStage
<1>7. \A i \in Entries : events[i].kind = "data"
  BY <1>5, EventKinds DEF Pending, Entries, DevInv
<1>8. QueueInv'
  BY <1>1, <1>2, <1>5, <1>7, AppendedQueue
<1>9. OpenInv' /\ LogicInv' /\ OwedInv'
  BY <1>1, <1>2, ControlAppended
<1>10. RequestInv'
  <2>1. ctl'.stage = "status" => (ctl'.req.op = "setAddress" <=> SetsAddress')
    BY <1>1 DEF DevInv, RequestInv, SetsAddress
  <2>2. ~Pending("status")' /\ ~Pending("setup")'
    BY <1>2, <1>3, <1>5
  <2>3. \A i \in Entries' : events'[i].kind # "setup"
    BY <1>2, <1>3, <1>7
  <2>4. address = host.address
    BY <1>1, <1>5 DEF DevInv, RequestInv
  <2> QED
    BY <1>1, <1>4, <2>1, <2>2, <2>3, <2>4 DEF RequestInv, SetsAddress
<1>11. ConfigInv'
  <2>1. Ready' <=> Ready
    BY <1>1, <1>2, <1>3 DEF Ready
  <2> QED
    BY <1>1, <2>1 DEF DevInv, ConfigInv
<1> QED
  BY <1>6, <1>8, <1>9, <1>10, <1>11 DEF DevInv

LEMMA HostSeesStallStep == ASSUME DevInv, HostSeesStall PROVE DevInv'
<1>1. /\ host.stage = "busy" /\ ep0 = "stall"
      /\ UNCHANGED <<connected, speed, mapping, configured, logic, ctl, func, view, ep, ep0,
                     address, events>>
  BY DEF HostSeesStall, BusStep, stackVars
<1>2. /\ host'.stage = "idle" /\ host'.req = NoRequest /\ host'.address = host.address
      /\ host'.config = host.config /\ NoRequest \in Requests
      /\ host' = [stage |-> host'.stage, req |-> host'.req,
                  address |-> host'.address, config |-> host'.config]
  BY NoRequestFacts DEF HostSeesStall, DevInv, DevTypeOK
<1>3. ~Pending("setup") /\ ~Pending("ctlOut") /\ ~Pending("reset") /\ ~Pending("status")
  BY <1>1 DEF DevInv, RequestInv, QueueInv, Pending, Entries
<1>4. DevTypeOK'
  BY <1>1, <1>2 DEF DevInv, DevTypeOK, InStage
<1>5. (\A k : Pending(k)' <=> Pending(k)) /\ Entries' = Entries
  BY <1>1 DEF Pending, Entries
<1>6. Ready' <=> Ready
  BY <1>1, <1>2, <1>5 DEF Ready
<1>7. QueueInv'
  BY <1>1, <1>2, <1>3, <1>5 DEF DevInv, QueueInv, Pending, Entries
<1>8. OpenInv' /\ LogicInv'
  BY <1>1, <1>5, <1>6 DEF DevInv, OpenInv, LogicInv
<1>9. OwedInv'
  BY <1>1, <1>5 DEF DevInv, OwedInv, Given, DataEvent, Event
<1>10. RequestInv'
  <2>1. \A i \in Entries : events[i].kind # "setup"
    BY <1>3 DEF Pending, Entries
  <2> QED
    BY <1>1, <1>2, <1>3, <1>5, <2>1 DEF DevInv, RequestInv, SetsAddress
<1>11. ConfigInv'
  BY <1>1, <1>2, <1>6, NoRequestFacts DEF DevInv, ConfigInv
<1> QED
  BY <1>4, <1>7, <1>8, <1>9, <1>10, <1>11 DEF DevInv

LEMMA HostSeesStatusStep == ASSUME DevInv, HostSeesStatus PROVE DevInv'
<1> DEFINE e == ControlEvent("status", NoRequest)
<1>1. /\ host.stage = "busy" /\ ep0 = "status"
      /\ ep0' = "nak" /\ events' = Append(events, e)
      /\ UNCHANGED <<connected, speed, mapping, configured, logic, ctl, func, view, ep, address>>
  BY DEF HostSeesStatus, BusStep, stackVars
<1>2. /\ host'.stage = "idle" /\ host'.req = NoRequest /\ NoRequest \in Requests
      /\ host'.address = IF host.req.op = "setAddress" THEN host.req.value ELSE host.address
      /\ host'.config = IF host.req.op = "setConfiguration" THEN host.req.value ELSE host.config
      /\ host' = [stage |-> host'.stage, req |-> host'.req,
                  address |-> host'.address, config |-> host'.config]
  BY NoRequestFacts DEF HostSeesStatus, DevInv, DevTypeOK
<1>3. e \in EventType /\ e.kind = "status"
  BY NoRequestFacts DEF ControlEvent, Event, EventType
<1> HIDE DEF e
<1>4. /\ events' \in Seq(EventType)
      /\ \A i \in Entries : i \in Entries' /\ events'[i] = events[i]
      /\ events'[Len(events')] = e
      /\ \A i \in Entries' : i \notin Entries => i = Len(events')
      /\ \A k : Pending(k)' <=> Pending(k) \/ e.kind = k
  BY <1>1, <1>3, QueueAppend DEF DevInv, DevTypeOK
<1>5. ctl.stage = "status" /\ ctl.req = host.req
  BY <1>1 DEF DevInv, RequestInv
<1>6. ~Pending("reset") /\ ~Pending("setup") /\ ~Pending("ctlOut") /\ ~Pending("status")
  BY <1>1, <1>5 DEF DevInv, RequestInv, QueueInv, Pending, Entries
<1>7. DevTypeOK'
  BY <1>1, <1>2, <1>4 DEF DevInv, DevTypeOK, InStage
<1>8. \A i \in Entries : events[i].kind = "data"
  BY <1>6, EventKinds DEF Pending, Entries, DevInv
<1>9. QueueInv'
  BY <1>1, <1>2, <1>3, <1>6, <1>8, AppendedQueue
<1>10. OpenInv' /\ LogicInv' /\ OwedInv'
  BY <1>1, <1>2, <1>3, ControlAppended
<1>11. RequestInv'
  <2>1. ctl.req.op = "setAddress" <=> SetsAddress
    BY <1>5 DEF DevInv, RequestInv
  <2>2. Pending("status")' /\ ~Pending("setup")' /\ ~Pending("ctlOut")'
    BY <1>3, <1>4, <1>6
  <2>3. \A i \in Entries' : events'[i].kind # "setup"
    BY <1>3, <1>4, <1>8
  <2>4. address = host.address
    BY <1>1, <1>6 DEF DevInv, RequestInv
  <2>5. host'.address = IF SetsAddress THEN ctl.req.value ELSE address
    BY <1>2, <1>5, <2>1, <2>4
  <2> QED
    BY <1>1, <1>2, <1>5, <2>1, <2>2, <2>3, <2>5 DEF RequestInv, SetsAddress
<1>12. ConfigInv'
  <2>1. Ready' <=> Ready
    BY <1>1, <1>2, <1>3, <1>4 DEF Ready
  <2>2. host'.config # 0 /\ Ready => configured = "CONFIGURED"
    BY <1>1, <1>2 DEF DevInv, ConfigInv
  <2> QED
    BY <1>1, <1>2, <2>1, <2>2, NoRequestFacts DEF ConfigInv
<1> QED
  BY <1>7, <1>9, <1>10, <1>11, <1>12 DEF DevInv

LEMMA HostMovesDataStep == ASSUME DevInv, NEW a \in DataAddresses, HostMovesData(a) PROVE DevInv'
<1> DEFINE e == DataEvent(a)
<1>1. /\ host.stage # "detached" /\ ep[a] = "armed"
      /\ ep' = [ep EXCEPT ![a] = "nak"] /\ events' = Append(events, e)
      /\ UNCHANGED <<connected, speed, mapping, configured, logic, ctl, func, view, ep0, address,
                     host>>
  BY DEF HostMovesData, BusStep, stackVars
<1>2. e \in EventType /\ e.kind = "data" /\ e.addr = a /\ e = DataEvent(e.addr)
  BY NoRequestFacts DEF DataEvent, Event, EventType
<1> HIDE DEF e
<1>3. /\ events' \in Seq(EventType) /\ events' # << >>
      /\ \A i \in Entries : i \in Entries' /\ events'[i] = events[i]
      /\ events'[Len(events')] = e
      /\ \A i \in Entries' : i \notin Entries => i = Len(events')
      /\ \A k : Pending(k)' <=> Pending(k) \/ e.kind = k
  BY <1>1, <1>2, QueueAppend DEF DevInv, DevTypeOK
<1>4. Ready /\ a \in OpenedAt[speed]
  BY <1>1 DEF DevInv, OpenInv
<1>5. Ready' <=> Ready
  BY <1>1, <1>2, <1>3 DEF Ready
<1>6. \A b \in DataAddresses : ep'[b] = IF b = a THEN "nak" ELSE ep[b]
  BY <1>1 DEF DevInv, DevTypeOK
<1>7. ep' \in [DataAddresses -> {"closed", "nak", "armed", "stall"}]
  BY <1>1 DEF DevInv, DevTypeOK
<1>8. DevTypeOK'
  BY <1>1, <1>3, <1>7 DEF DevInv, DevTypeOK, InStage
<1>9. QueueInv'
  BY <1>1, <1>2, <1>4, AppendedQueue DEF Ready
<1>10. OpenInv'
  <2>1. \A b \in DataAddresses : ep'[b] # "closed" => Ready' /\ b \in OpenedAt[speed']
    BY <1>1, <1>4, <1>5, <1>6 DEF DevInv, OpenInv
  <2>2. \A i \in Entries' : events'[i].kind = "data" => events'[i].addr \in OpenedAt[speed']
    BY <1>1, <1>2, <1>3, <1>4 DEF DevInv, OpenInv
  <2>3. Ready' => speed' \in Speeds /\ mapping' = speed'
    BY <1>1, <1>5 DEF DevInv, OpenInv
  <2> QED
    BY <2>1, <2>2, <2>3 DEF OpenInv
<1>11. LogicInv'
  <2>1. Ready' /\ configured' # "RESET" => \A b \in OpenedAt[speed'] : ep'[b] # "closed"
    <3>1. \A b \in OpenedAt[speed] : b \in DataAddresses
      BY <1>4, TableFacts DEF DevInv, OpenInv
    <3> QED
      BY <1>1, <1>5, <1>6, <3>1 DEF DevInv, LogicInv
  <2> QED
    BY <1>1, <2>1 DEF DevInv, LogicInv
<1>12. OwedInv'
  <2>1. \A b : Given(b)' <=> Given(b)
    BY <1>1 DEF Given
  <2>2. Given(a) /\ \A i \in Entries : ~(events[i].kind = "data" /\ events[i].addr = a)
    BY <1>1 DEF DevInv, OwedInv
  <2>3. \A b \in DataAddresses : ep'[b] = "armed" =>
           /\ Given(b)'
           /\ \A i \in Entries' : ~(events'[i].kind = "data" /\ events'[i].addr = b)
    <3> SUFFICES ASSUME NEW b \in DataAddresses, ep'[b] = "armed"
                 PROVE  /\ Given(b)'
                        /\ \A i \in Entries' : ~(events'[i].kind = "data" /\ events'[i].addr = b)
      OBVIOUS
    <3>1. b # a /\ ep[b] = "armed"
      BY <1>6
    <3> QED
      BY <1>2, <1>3, <2>1, <3>1 DEF DevInv, OwedInv
  <2>4. \A i \in Entries' : events'[i].kind = "data" =>
           (events[i] = DataEvent(events[i].addr) /\ Given(events[i].addr))'
    <3> SUFFICES ASSUME NEW i \in Entries', events'[i].kind = "data"
                 PROVE  (events[i] = DataEvent(events[i].addr) /\ Given(events[i].addr))'
      OBVIOUS
    <3>1. CASE i \in Entries
      BY <1>3, <2>1, <3>1 DEF DevInv, OwedInv
    <3>2. CASE i \notin Entries
      <4>1. events'[i] = e
        BY <1>3, <3>2
      <4> QED
        BY <1>2, <2>1, <2>2, <4>1
    <3> QED
      BY <3>1, <3>2
  <2>5. \A i, j \in Entries' : i # j /\ events'[i].kind = "data" /\ events'[j].kind = "data" =>
           events'[i].addr # events'[j].addr
    <3> SUFFICES ASSUME NEW i \in Entries', NEW j \in Entries', i # j,
                        events'[i].kind = "data", events'[j].kind = "data"
                 PROVE  events'[i].addr # events'[j].addr
      OBVIOUS
    <3>1. CASE i \in Entries /\ j \in Entries
      BY <1>3, <3>1 DEF DevInv, OwedInv
    <3>2. CASE i \in Entries /\ j \notin Entries
      BY <1>2, <1>3, <2>2, <3>2
    <3>3. CASE i \notin Entries /\ j \in Entries
      BY <1>2, <1>3, <2>2, <3>3
    <3>4. CASE i \notin Entries /\ j \notin Entries
      BY <1>3, <3>4
    <3> QED
      BY <3>1, <3>2, <3>3, <3>4
  <2> QED
    BY <2>3, <2>4, <2>5 DEF OwedInv
<1>13. RequestInv' /\ ConfigInv'
  <2>1. \A k : k # "data" => (Pending(k)' <=> Pending(k))
    BY <1>2, <1>3
  <2>2. \A i \in Entries' : events'[i].kind = "setup" => i \in Entries /\ events'[i] = events[i]
    BY <1>2, <1>3
  <2>3. RequestInv'
    BY <1>1, <2>1, <2>2 DEF DevInv, RequestInv, SetsAddress
  <2>4. ConfigInv'
    BY <1>1, <1>5 DEF DevInv, ConfigInv
  <2> QED
    BY <2>3, <2>4
<1> QED
  BY <1>8, <1>9, <1>10, <1>11, <1>12, <1>13 DEF DevInv

-----------------------------------------------------------------------------
(* Taking an event off the queue.                                          *)

LEMMA ReadyNow ==
    ASSUME DevInv, events # << >>, events[1].kind # "reset"
    PROVE  /\ Ready /\ speed \in Speeds /\ mapping = speed
           /\ host.stage # "detached" /\ connected /\ ~Pending("reset")
           /\ \A i \in Entries : events[i].kind = "data" =>
                  events[i].addr \in OpenedAt[speed] /\ events[i].addr \in DataAddresses
<1>1. host.stage # "detached" /\ connected /\ ~Pending("reset")
  BY HeadTaken DEF DevInv
<1>2. Ready /\ speed \in Speeds /\ mapping = speed
  BY <1>1 DEF DevInv, OpenInv, Ready
<1>3. OpenedAt[speed] \subseteq DataAddresses
  BY <1>2, TableFacts
<1> QED
  BY <1>1, <1>2, <1>3 DEF DevInv, OpenInv

LEMMA QueueLeft ==
    ASSUME DevInv, events # << >>, events[1].kind # "reset", events' = Tail(events),
           UNCHANGED <<connected, host>>
    PROVE  QueueInv' /\ Ready'
<1>1. host.stage # "detached" /\ connected
  BY ReadyNow
<1>2. /\ ~Pending("reset")'
      /\ \A i, j \in Entries' : i < j /\ events'[i].kind # "data" /\ events'[j].kind # "data" =>
             events'[i].kind = "status" /\ events'[j].kind = "setup"
  BY TailLeft DEF DevInv
<1>3. \A i \in Entries' : events'[i].kind # "reset"
  BY <1>2 DEF Pending, Entries
<1> QED
  BY <1>1, <1>2, <1>3 DEF QueueInv, Ready

LEMMA OpenLeft ==
    ASSUME DevInv, events # << >>, events[1].kind # "reset", events' = Tail(events),
           UNCHANGED <<connected, host, speed, mapping>>,
           \A a \in DataAddresses : ep'[a] # "closed" => ep[a] # "closed"
    PROVE  OpenInv'
<1>1. Ready' /\ speed \in Speeds /\ mapping = speed
  BY QueueLeft, ReadyNow
<1>2. \A i \in Entries' : i + 1 \in Entries /\ events'[i] = events[i + 1]
  BY TailLeft DEF DevInv
<1>3. \A i \in Entries' : events'[i].kind = "data" => events'[i].addr \in OpenedAt[speed']
  BY <1>2 DEF DevInv, OpenInv
<1> QED
  BY <1>1, <1>3 DEF DevInv, OpenInv

LEMMA OwedLeft ==
    ASSUME DevInv, events # << >>, events' = Tail(events), UNCHANGED <<speed, logic, view>>,
           \A a \in DataAddresses : ep'[a] = "armed" => ep[a] = "armed"
    PROVE  OwedInv'
<1>1. \A i \in Entries' : i \in Nat /\ i + 1 \in Entries /\ events'[i] = events[i + 1]
  BY TailLeft DEF DevInv, Entries
<1>2. \A a : Given(a)' <=> Given(a)
  BY DEF Given
<1>3. \A a \in DataAddresses : ep'[a] = "armed" =>
          /\ Given(a)'
          /\ \A i \in Entries' : ~(events'[i].kind = "data" /\ events'[i].addr = a)
  BY <1>1, <1>2 DEF DevInv, OwedInv
<1>4. \A i \in Entries' : events'[i].kind = "data" =>
          (events[i] = DataEvent(events[i].addr) /\ Given(events[i].addr))'
  BY <1>1, <1>2 DEF DevInv, OwedInv
<1>5. ASSUME NEW i \in Entries', NEW j \in Entries', i # j,
             events'[i].kind = "data", events'[j].kind = "data"
      PROVE  events'[i].addr # events'[j].addr
  <2>1. i \in Nat /\ i + 1 \in Entries /\ events'[i] = events[i + 1]
    BY <1>1
  <2>2. j \in Nat /\ j + 1 \in Entries /\ events'[j] = events[j + 1]
    BY <1>1
  <2>3. i + 1 # j + 1
    BY <1>5, <2>1, <2>2
  <2> QED
    BY <1>5, <2>1, <2>2, <2>3 DEF DevInv, OwedInv
<1> QED
  BY <1>3, <1>4, <1>5 DEF OwedInv

LEMMA ControlDataStep ==
    ASSUME DevInv, events # << >>, events[1].kind = "ctlOut", ControlData(Tail(events)),
           UNCHANGED <<connected, host>>
    PROVE  DevInv'
<1>1. /\ host.stage = "busy" /\ ctl.stage = "data" /\ ctl.req = host.req
      /\ ctl.handler \in Functions /\ ctl.req.data /\ ctl.req \in Requests
      /\ \A k : Pending(k) => k \in {"ctlOut", "data"}
  BY HeadTaken DEF DevInv, DevTypeOK, RequestInv, LogicInv
<1>2. ctl.req.op = "class"
  BY <1>1, RequestFacts
<1>3. PICK ok \in BOOLEAN :
         /\ events' = Tail(events) /\ Keep
         /\ ep0' = IF ok THEN "status" ELSE "stall"
         /\ ctl' = IF ok THEN InStage(ctl.handler, "status", ctl.req, Reply(ctl.req)) ELSE Idle
  <2>1. PICK ok \in BOOLEAN :
           /\ HandleControl(ctl.handler, ctl.req, ok, Tail(events))
           /\ ep0' = IF ok THEN "status" ELSE "stall"
           /\ ctl' = IF ok THEN InStage(ctl.handler, "status", ctl.req, Reply(ctl.req)) ELSE Idle
    BY <1>1 DEF ControlData, Handle
  <2>2. ctl.handler # StdHandler
    BY <1>1, HandlerFacts
  <2>3. events' = Tail(events) /\ Keep
    BY <1>2, <2>1, <2>2 DEF HandleControl
  <2> QED
    BY <2>1, <2>3
<1>4. UNCHANGED <<speed, mapping, func, address, configured, logic, ep, view, connected, host>>
  BY <1>3 DEF ControlData, Keep
<1>5. /\ ctl'.handler = ctl.handler \/ ctl'.handler = NoHandler
      /\ \/ /\ ctl'.stage = "status" /\ ctl'.handler = ctl.handler
            /\ ctl'.req = ctl.req /\ ep0' = "status"
         \/ ctl'.stage = "idle" /\ ep0' = "stall"
      /\ ctl' = InStage(ctl'.handler, ctl'.stage, ctl'.req, ctl'.reply) /\ ctl'.req \in Requests
  BY <1>1, <1>3, NoRequestFacts DEF InStage, Idle
<1>6. /\ events' \in Seq(EventType)
      /\ \A k : Pending(k)' => Pending(k)
      /\ \A i \in Entries' : events'[i].kind = "data"
  BY <1>3, TailLeft DEF DevInv
<1>7. DevTypeOK'
  BY <1>1, <1>4, <1>5, <1>6, HandlerFacts DEF DevInv, DevTypeOK
<1>8. QueueInv' /\ OpenInv' /\ OwedInv' /\ Ready'
  BY <1>3, <1>4, QueueLeft, OpenLeft, OwedLeft
<1>9. Ready
  BY ReadyNow
<1>10. LogicInv'
  BY <1>4, <1>5, <1>8, <1>9, HandlerFacts DEF DevInv, LogicInv
<1>11. \A k : k # "data" => ~Pending(k)'
  BY <1>6 DEF Pending, Entries
<1>12. address = host.address
  BY <1>1 DEF DevInv, RequestInv
<1>13. RequestInv'
  BY <1>1, <1>2, <1>4, <1>5, <1>6, <1>11, <1>12, HandlerFacts DEF RequestInv, SetsAddress
<1>14. ConfigInv'
  BY <1>1, <1>2, <1>4, <1>9 DEF DevInv, ConfigInv
<1> QED
  BY <1>7, <1>8, <1>10, <1>13, <1>14 DEF DevInv

LEMMA ControlStatusStep ==
    ASSUME DevInv, events # << >>, events[1].kind = "status", ControlStatus(Tail(events)),
           UNCHANGED <<connected, host>>
    PROVE  DevInv'
<1>1. Pending("status") /\ Ready /\ host.stage # "detached"
  BY HeadTaken, ReadyNow DEF DevInv
<1>2. /\ ctl.stage = "status" /\ (host.stage = "idle" \/ Pending("setup"))
      /\ host.address = IF SetsAddress THEN ctl.req.value ELSE address
  BY <1>1 DEF DevInv, RequestInv
<1>3. /\ events' = Tail(events) /\ ctl' = Idle
      /\ address' = host.address
      /\ UNCHANGED <<speed, mapping, func, ep0, configured, logic, ep, view, connected, host>>
  BY <1>2 DEF ControlStatus, CompleteControl, SetsAddress, Keep
<1>4. /\ events' \in Seq(EventType)
      /\ \A k : Pending(k)' => Pending(k)
      /\ ~Pending("status")' /\ ~Pending("ctlOut")'
      /\ \A i \in Entries' : i + 1 \in Entries /\ events'[i] = events[i + 1]
  BY <1>3, TailLeft DEF DevInv
<1>5. ctl'.handler = NoHandler /\ ctl'.stage = "idle" /\ ctl'.req \in Requests
      /\ ctl' = InStage(ctl'.handler, ctl'.stage, ctl'.req, ctl'.reply)
  BY <1>3, NoRequestFacts DEF InStage, Idle
<1>6. DevTypeOK'
  BY <1>3, <1>4, <1>5, HandlerFacts DEF DevInv, DevTypeOK
<1>7. QueueInv' /\ OpenInv' /\ OwedInv' /\ Ready'
  BY <1>3, QueueLeft, OpenLeft, OwedLeft
<1>8. LogicInv'
  BY <1>1, <1>3, <1>5, <1>7, HandlerFacts DEF DevInv, LogicInv
<1>9. RequestInv'
  <2>1. Pending("setup")' => host.stage = "busy" /\ ep0 = "nak"
    BY <1>1, <1>4 DEF DevInv, RequestInv
  <2>2. \A i \in Entries' : events'[i].kind = "setup" => events'[i].req = host.req
    BY <1>1, <1>4 DEF DevInv, RequestInv
  <2>3. host.stage = "busy" => ep0 \notin {"receive", "status"}
    BY <1>1, <1>2 DEF DevInv, RequestInv
  <2>4. host.stage = "idle" => ep0 \in {"nak", "stall"}
    BY <1>1 DEF DevInv, RequestInv
  <2> QED
    BY <1>3, <1>4, <1>5, <2>1, <2>2, <2>3, <2>4 DEF RequestInv
<1>10. ConfigInv'
  BY <1>1, <1>3 DEF DevInv, ConfigInv
<1> QED
  BY <1>6, <1>7, <1>8, <1>9, <1>10 DEF DevInv

\* The function an event is about, which is waiting for it.
LEMMA DataOwner ==
    ASSUME DevInv, events # << >>, events[1].kind = "data"
    PROVE  LET a == events[1].addr
               to == ToLogicalEndpoint(a, MappingAt[speed])
           IN  /\ a \in OpenedAt[speed] /\ a \in DataAddresses /\ Owner(a) = to /\ to.present
               /\ to.fn \in logic /\ to.fn \in Functions /\ EpNum(to.value) \in Logicals
               /\ view[to.fn][EpNum(to.value)] = "waiting"
               /\ \A b \in DataAddresses : b # a /\ b \in OpenedAt[speed] =>
                      LET other == ToLogicalEndpoint(b, MappingAt[speed])
                      IN  ~(other.fn = to.fn /\ EpNum(other.value) = EpNum(to.value))
<1> DEFINE a == events[1].addr
           To(b) == ToLogicalEndpoint(b, MappingAt[speed])
<1>1. 1 \in Entries /\ speed \in Speeds /\ mapping = speed /\ a \in OpenedAt[speed]
      /\ a \in DataAddresses
  BY HeadTaken, ReadyNow DEF DevInv
<1>2. Owner(a) = To(a)
  BY <1>1 DEF Owner, Active
<1>3. \A b \in DataAddresses : b \in OpenedAt[speed] =>
          /\ To(b).present /\ To(b).fn \in Functions /\ EpNum(To(b).value) \in Logicals
          /\ ToPhysicalEndpoint(To(b).fn, EpNum(To(b).value), MappingAt[speed]) = b
  BY <1>1, TableFacts
<1>4. To(a).fn \in logic /\ view[To(a).fn][EpNum(To(a).value)] = "waiting"
  BY <1>1 DEF DevInv, OwedInv, Given
<1> HIDE DEF a, To
<1>5. \A b \in DataAddresses : b # a /\ b \in OpenedAt[speed] =>
          ~(To(b).fn = To(a).fn /\ EpNum(To(b).value) = EpNum(To(a).value))
  BY <1>1, <1>3
<1> QED
  BY <1>1, <1>2, <1>3, <1>4, <1>5 DEF a, To

LEMMA DataCompletedStep ==
    ASSUME DevInv, events # << >>, events[1].kind = "data",
           DataCompleted(events[1].addr, Tail(events)), UNCHANGED <<connected, host>>
    PROVE  DevInv'
<1> DEFINE a  == events[1].addr
           To(b) == ToLogicalEndpoint(b, MappingAt[speed])
           f  == To(a).fn
           l  == EpNum(To(a).value)
<1>1. /\ a \in OpenedAt[speed] /\ a \in DataAddresses /\ Owner(a) = To(a) /\ To(a).present
      /\ f \in logic /\ f \in Functions /\ l \in Logicals /\ view[f][l] = "waiting"
      /\ \A b \in DataAddresses : b # a /\ b \in OpenedAt[speed] =>
             ~(To(b).fn = f /\ EpNum(To(b).value) = l)
  BY DataOwner
<1>2. /\ events' = Tail(events) /\ view' = [view EXCEPT ![f][l] = "idle"]
      /\ UNCHANGED <<connected, host, speed, mapping, configured, logic, ctl, func, ep, ep0, address>>
  BY <1>1 DEF DataCompleted, stackVars
<1>3. /\ events' \in Seq(EventType)
      /\ \A i \in Entries' : i \in Nat \ {0} /\ i + 1 \in Entries /\ events'[i] = events[i + 1]
      /\ \A k : k # "data" => (Pending(k)' <=> Pending(k))
  BY <1>2, TailLeft DEF DevInv, Entries
<1>4. Ready /\ Ready' /\ 1 \in Entries /\ speed \in Speeds
      /\ \A i \in Entries : events[i].kind = "data" =>
             events[i].addr \in OpenedAt[speed] /\ events[i].addr \in DataAddresses
  BY <1>2, ReadyNow, QueueLeft, HeadTaken DEF DevInv
<1> HIDE DEF a, To, f, l
<1>5. view' \in [Functions -> [Logicals -> {"idle", "waiting"}]]
  BY <1>1, <1>2 DEF DevInv, DevTypeOK
<1>6. DevTypeOK'
  BY <1>2, <1>3, <1>5 DEF DevInv, DevTypeOK, InStage
<1>7. QueueInv' /\ OpenInv'
  BY <1>2, QueueLeft, OpenLeft
<1>8. LogicInv' /\ ConfigInv'
  BY <1>2, <1>4 DEF DevInv, LogicInv, ConfigInv
<1>9. OwedInv'
  <2>1. ASSUME NEW b \in DataAddresses, b # a, b \in OpenedAt[speed], Given(b) PROVE Given(b)'
    <3>1. To(b).fn \in Functions /\ EpNum(To(b).value) \in Logicals
      BY <1>4, <2>1, TableFacts DEF To
    <3>2. view'[To(b).fn][EpNum(To(b).value)] = view[To(b).fn][EpNum(To(b).value)]
      BY <1>1, <1>2, <2>1, <3>1 DEF DevInv, DevTypeOK
    <3> QED
      BY <1>2, <2>1, <3>2 DEF Given, To
  <2>2. \A b \in DataAddresses : ep'[b] = "armed" =>
            /\ Given(b)'
            /\ \A i \in Entries' : ~(events'[i].kind = "data" /\ events'[i].addr = b)
    <3> SUFFICES ASSUME NEW b \in DataAddresses, ep'[b] = "armed"
                 PROVE  /\ Given(b)'
                        /\ \A i \in Entries' : ~(events'[i].kind = "data" /\ events'[i].addr = b)
      OBVIOUS
    <3>1. ep[b] = "armed" /\ b \in OpenedAt[speed]
      BY <1>2 DEF DevInv, OpenInv
    <3>2. Given(b) /\ b # a /\ \A i \in Entries : ~(events[i].kind = "data" /\ events[i].addr = b)
      BY <1>4, <3>1 DEF DevInv, OwedInv, a
    <3> QED
      BY <1>3, <2>1, <3>1, <3>2
  <2>3. \A i \in Entries' : events'[i].kind = "data" =>
            (events[i] = DataEvent(events[i].addr) /\ Given(events[i].addr))'
    <3> SUFFICES ASSUME NEW i \in Entries', events'[i].kind = "data"
                 PROVE  (events[i] = DataEvent(events[i].addr) /\ Given(events[i].addr))'
      OBVIOUS
    <3>1. i \in Nat \ {0} /\ i + 1 \in Entries /\ events'[i] = events[i + 1]
      BY <1>3
    <3>2. i + 1 # 1
      BY <3>1
    <3>3. events[i + 1].addr # a
      BY <1>4, <3>1, <3>2 DEF DevInv, OwedInv, a
    <3>4. /\ events[i + 1] = DataEvent(events[i + 1].addr) /\ Given(events[i + 1].addr)
          /\ events[i + 1].addr \in OpenedAt[speed] /\ events[i + 1].addr \in DataAddresses
      BY <1>4, <3>1 DEF DevInv, OwedInv
    <3>5. (Given(events[i].addr))'
      BY <2>1, <3>1, <3>3, <3>4
    <3> QED
      BY <3>1, <3>4, <3>5
  <2>4. \A i, j \in Entries' : i # j /\ events'[i].kind = "data" /\ events'[j].kind = "data" =>
            events'[i].addr # events'[j].addr
    <3> SUFFICES ASSUME NEW i \in Entries', NEW j \in Entries', i # j,
                        events'[i].kind = "data", events'[j].kind = "data"
                 PROVE  events'[i].addr # events'[j].addr
      OBVIOUS
    <3>1. i \in Nat \ {0} /\ i + 1 \in Entries /\ events'[i] = events[i + 1]
      BY <1>3
    <3>2. j \in Nat \ {0} /\ j + 1 \in Entries /\ events'[j] = events[j + 1]
      BY <1>3
    <3>3. i + 1 # j + 1
      BY <3>1, <3>2
    <3> QED
      BY <3>1, <3>2, <3>3 DEF DevInv, OwedInv
  <2> QED
    BY <2>2, <2>3, <2>4 DEF OwedInv
<1>10. RequestInv'
  BY <1>2, <1>3 DEF DevInv, RequestInv, SetsAddress
<1> QED
  BY <1>6, <1>7, <1>8, <1>9, <1>10 DEF DevInv

LEMMA FunctionUsesStep ==
    ASSUME DevInv, NEW f \in Functions, NEW l \in Logicals, FunctionUses(f, l)
    PROVE  DevInv'
<1> DEFINE a == ToPhysicalEndpoint(f, l, Active)
           To(b) == ToLogicalEndpoint(b, MappingAt[speed])
<1>1. /\ f \in logic /\ view[f][l] = "idle" /\ a \in DataAddresses
      /\ ep' = [ep EXCEPT ![a] = IF @ = "closed" THEN "closed" ELSE "armed"]
      /\ view' = [view EXCEPT ![f][l] = "waiting"]
      /\ UNCHANGED <<connected, speed, mapping, configured, logic, ctl, func, ep0, address,
                     events, host>>
  BY DEF FunctionUses, stackVars
<1>2. Ready => speed \in Speeds /\ a \in OpenedAt[speed] /\ To(a).fn = f /\ EpNum(To(a).value) = l
  <2>1. Ready => speed \in Speeds /\ mapping = speed
    BY DEF DevInv, OpenInv
  <2>2. a # 0
    BY <1>1, AddressFacts
  <2> QED
    BY <2>1, <2>2, TableFacts DEF Active
<1> HIDE DEF a, To
<1>3. /\ (\A k : Pending(k)' <=> Pending(k)) /\ Entries' = Entries
      /\ Ready' <=> Ready
  BY <1>1 DEF Pending, Entries, Ready
<1>4. \A b \in DataAddresses : /\ ep'[b] = "closed" <=> ep[b] = "closed"
                               /\ ep'[b] = "armed" => ep[b] = "armed" \/ b = a
  BY <1>1 DEF DevInv, DevTypeOK
<1>5. /\ ep' \in [DataAddresses -> {"closed", "nak", "armed", "stall"}]
      /\ view' \in [Functions -> [Logicals -> {"idle", "waiting"}]]
  BY <1>1 DEF DevInv, DevTypeOK
<1>6. DevTypeOK'
  BY <1>1, <1>5 DEF DevInv, DevTypeOK, InStage
<1>7. QueueInv' /\ OpenInv'
  BY <1>1, <1>3, <1>4 DEF DevInv, QueueInv, OpenInv
<1>8. LogicInv'
  <2>1. Ready => \A b \in OpenedAt[speed] : b \in DataAddresses
    BY <1>2, TableFacts
  <2> QED
    BY <1>1, <1>3, <1>4, <2>1 DEF DevInv, LogicInv
<1>9. ConfigInv'
  BY <1>1, <1>3 DEF DevInv, ConfigInv
<1>10. RequestInv'
  BY <1>1, <1>3 DEF DevInv, RequestInv, SetsAddress
<1>11. OwedInv'
  <2>1. ASSUME NEW b, Given(b), To(b).fn \in Functions, EpNum(To(b).value) \in Logicals
        PROVE  Given(b)'
    <3>1. view'[To(b).fn][EpNum(To(b).value)] = "waiting"
      BY <1>1, <2>1 DEF DevInv, DevTypeOK, Given, To
    <3> QED
      BY <1>1, <2>1, <3>1 DEF Given, To
  <2>2. Ready => \A b \in DataAddresses : b \in OpenedAt[speed] =>
            To(b).fn \in Functions /\ EpNum(To(b).value) \in Logicals
    BY <1>2, TableFacts DEF To
  <2>3. \A b \in DataAddresses : ep'[b] = "armed" =>
            /\ Given(b)'
            /\ \A i \in Entries' : ~(events'[i].kind = "data" /\ events'[i].addr = b)
    <3> SUFFICES ASSUME NEW b \in DataAddresses, ep'[b] = "armed"
                 PROVE  /\ Given(b)'
                        /\ \A i \in Entries' : ~(events'[i].kind = "data" /\ events'[i].addr = b)
      OBVIOUS
    <3>1. Ready /\ b \in OpenedAt[speed]
      BY <1>4 DEF DevInv, OpenInv
    <3>2. CASE ep[b] = "armed"
      BY <1>1, <1>3, <2>1, <2>2, <3>1, <3>2 DEF DevInv, OwedInv
    <3>3. CASE b = a
      <4>1. ~Given(a)
        BY <1>1, <1>2, <3>1 DEF Given, To
      <4>2. \A i \in Entries : ~(events[i].kind = "data" /\ events[i].addr = a)
        BY <4>1 DEF DevInv, OwedInv
      <4>3. view'[f][l] = "waiting"
        BY <1>1 DEF DevInv, DevTypeOK
      <4>4. To(b).fn = f /\ EpNum(To(b).value) = l
        BY <1>2, <3>1, <3>3
      <4>5. Given(b)'
        BY <1>1, <4>3, <4>4 DEF Given, To
      <4> QED
        BY <1>1, <1>3, <3>3, <4>2, <4>5
    <3> QED
      BY <1>4, <3>2, <3>3
  <2>4. \A i \in Entries' : events'[i].kind = "data" =>
            (events[i] = DataEvent(events[i].addr) /\ Given(events[i].addr))'
    <3> SUFFICES ASSUME NEW i \in Entries, events[i].kind = "data"
                 PROVE  (events[i] = DataEvent(events[i].addr) /\ Given(events[i].addr))'
      BY <1>1, <1>3
    <3>1. /\ events[i] = DataEvent(events[i].addr) /\ Given(events[i].addr)
          /\ events[i].addr \in OpenedAt[speed]
      BY DEF DevInv, OwedInv, OpenInv
    <3>2. Ready
      BY DEF DevInv, QueueInv, Ready, Pending, Entries
    <3>3. events[i].addr \in DataAddresses
      BY <1>2, <3>1, <3>2, TableFacts
    <3>4. Given(events[i].addr)'
      BY <1>1, <2>1, <2>2, <3>1, <3>2, <3>3
    <3> QED
      BY <1>1, <3>1, <3>4
  <2>5. \A i, j \in Entries' : i # j /\ events'[i].kind = "data" /\ events'[j].kind = "data" =>
            events'[i].addr # events'[j].addr
    BY <1>1, <1>3 DEF DevInv, OwedInv
  <2> QED
    BY <2>3, <2>4, <2>5 DEF OwedInv
<1> QED
  BY <1>6, <1>7, <1>8, <1>9, <1>10, <1>11 DEF DevInv

-----------------------------------------------------------------------------
(* Processing a SETUP packet.                                              *)

\* The functions have been initialized, or some of them.
LEMMA Configured ==
    ASSUME DevInv, speed \in Speeds, mapping = speed, configured = "RESET",
           NEW n \in 0..MaxFunctions, NEW armed \in FirstUses(n), NEW rest,
           SetConfigured(n, armed, rest)
    PROVE  /\ logic' \subseteq Functions
           /\ n = MaxFunctions => logic' = Functions
           /\ ep' \in [DataAddresses -> {"closed", "nak", "armed", "stall"}]
           /\ view' \in [Functions -> [Logicals -> {"idle", "waiting"}]]
           /\ \A a \in OpenedAt[speed] : a \in DataAddresses /\ ep'[a] # "closed"
           /\ \A a \in DataAddresses : ep'[a] # "closed" => a \in OpenedAt[speed] \/ ep[a] # "closed"
           /\ \A a \in DataAddresses : ep'[a] = "armed" /\ a \in OpenedAt[speed] =>
                  LET to == ToLogicalEndpoint(a, MappingAt[speed])
                  IN  to.fn \in logic' /\ view'[to.fn][EpNum(to.value)] = "waiting"
           /\ n = MaxFunctions =>
                  \A f \in Functions, l \in Logicals : view'[f][l] = "waiting" =>
                      LET a == ToPhysicalEndpoint(f, l, MappingAt[speed])
                      IN  a \in OpenedAt[speed] /\ ep'[a] = "armed"
<1> DEFINE To(a) == ToLogicalEndpoint(a, MappingAt[speed])
           At(f, l) == ToPhysicalEndpoint(f, l, MappingAt[speed])
<1>1. /\ logic' = (logic \ {n}) \cup 0..(n - 1)
      /\ view' = [f \in Functions |->
             IF f >= n THEN view[f]
             ELSE [l \in Logicals |-> IF <<f, l>> \in armed THEN "waiting" ELSE "idle"]]
      /\ ep' = [a \in DataAddresses |->
             IF a \notin OpenedAt[speed] THEN ep[a]
             ELSE IF Named(a, armed) THEN "armed" ELSE "nak"]
  BY DEF SetConfigured
<1>2. /\ armed \subseteq (0..(n - 1)) \X Logicals
      /\ \A use \in armed : At(use[1], use[2]) \in OpenedAt[speed]
  BY DEF FirstUses, Active
<1>3. /\ OpenedAt[speed] \subseteq DataAddresses
      /\ \A a \in OpenedAt[speed] : To(a).present
      /\ \A f \in Functions, l \in Logicals : At(f, l) # 0 =>
             To(At(f, l)).fn = f /\ EpNum(To(At(f, l)).value) = l
  <2>1. OpenedAt[speed] \subseteq DataAddresses
    BY TableFacts
  <2>2. \A a \in OpenedAt[speed] : To(a).present
    BY <2>1, TableFacts
  <2>3. ASSUME NEW f \in Functions, NEW l \in Logicals, At(f, l) # 0
        PROVE  To(At(f, l)).fn = f /\ EpNum(To(At(f, l)).value) = l
    BY <2>3, TableFacts
  <2> QED
    BY <2>1, <2>2, <2>3
<1>4. \A a : Named(a, armed) <=> To(a).present /\ <<To(a).fn, EpNum(To(a).value)>> \in armed
  BY DEF Named, Owner, Active
<1> HIDE DEF To, At
<1>5. MaxFunctions \in Nat /\ n \in Nat /\ n <= MaxFunctions /\ Functions = 0..(MaxFunctions - 1)
  BY MapperAssumption DEF Functions
<1>6. logic' \subseteq Functions
  BY <1>1, <1>5 DEF DevInv, DevTypeOK
<1>7. n = MaxFunctions => logic' = Functions
  BY <1>1, <1>5, <1>6
<1>8. /\ ep' \in [DataAddresses -> {"closed", "nak", "armed", "stall"}]
      /\ view' \in [Functions -> [Logicals -> {"idle", "waiting"}]]
  BY <1>1 DEF DevInv, DevTypeOK
<1>9. \A a \in OpenedAt[speed] : a \in DataAddresses /\ ep'[a] # "closed"
  BY <1>1, <1>3
<1>10. \A a \in DataAddresses : ep'[a] # "closed" => a \in OpenedAt[speed] \/ ep[a] # "closed"
  BY <1>1
<1>11. ASSUME NEW a \in DataAddresses, ep'[a] = "armed", a \in OpenedAt[speed]
       PROVE  To(a).fn \in logic' /\ view'[To(a).fn][EpNum(To(a).value)] = "waiting"
  <2>1. <<To(a).fn, EpNum(To(a).value)>> \in armed
    BY <1>1, <1>4, <1>11
  <2>2. To(a).fn \in 0..(n - 1) /\ EpNum(To(a).value) \in Logicals
    BY <1>2, <2>1
  <2>3. To(a).fn \in Functions /\ ~(To(a).fn >= n) /\ To(a).fn \in logic'
    BY <1>1, <1>5, <2>2
  <2> QED
    BY <1>1, <2>1, <2>2, <2>3
<1>12. ASSUME n = MaxFunctions, NEW f \in Functions, NEW l \in Logicals, view'[f][l] = "waiting"
       PROVE  At(f, l) \in OpenedAt[speed] /\ ep'[At(f, l)] = "armed"
  <2>1. ~(f >= n)
    BY <1>5, <1>12
  <2>2. <<f, l>> \in armed
    BY <1>1, <1>12, <2>1
  <2>3. At(f, l) \in OpenedAt[speed]
    BY <1>2, <2>2
  <2>4. At(f, l) # 0
    BY <1>3, <2>3, AddressFacts
  <2>5. Named(At(f, l), armed)
    BY <1>3, <1>4, <2>2, <2>3, <2>4
  <2> QED
    BY <1>1, <1>3, <2>3, <2>5
<1> QED
  BY <1>6, <1>7, <1>8, <1>9, <1>10, <1>11, <1>12 DEF To, At

LEMMA SetupStep ==
    ASSUME DevInv, events # << >>, events[1].kind = "setup",
           Setup(events[1].req, Tail(events)), UNCHANGED <<connected, host>>
    PROVE  DevInv'
<1> DEFINE r == events[1].req
           rest == Tail(events)
<1>1. /\ host.stage = "busy" /\ r = host.req /\ r \in Requests /\ address = host.address
      /\ ~Pending("status")
  BY HeadTaken DEF DevInv, RequestInv, EventType
<1>2. /\ Ready /\ speed \in Speeds /\ mapping = speed /\ ~Pending("reset")
      /\ host.stage # "detached" /\ connected
  BY ReadyNow
<1>3. /\ rest \in Seq(EventType)
      /\ \A i \in 1..Len(rest) : rest[i] = events[i + 1] /\ i + 1 \in Entries
  BY QueueTail DEF DevInv, DevTypeOK
<1>4. /\ SetupAnswer(r) /\ SetupEffect(r, rest)
      /\ UNCHANGED <<speed, mapping, address>>
  BY <1>1, <1>2, SetupComesTo
<1>5. \A i \in 1..Len(rest) : rest[i].kind = "data" /\ rest[i].addr \in OpenedAt[speed]
  <2>1. ASSUME NEW i \in 1..Len(rest) PROVE rest[i].kind = "data"
    <3>1. i \in Nat /\ i + 1 \in Entries /\ rest[i] = events[i + 1]
      BY <1>3
    <3>2. 1 \in Entries /\ 1 < i + 1
      BY <3>1, HeadTaken DEF DevInv, Entries
    <3> QED
      BY <3>1, <3>2 DEF DevInv, QueueInv
  <2> QED
    BY <1>3, <2>1 DEF DevInv, OpenInv
<1>6. OpenEndpoints(rest) = << >>
  BY <1>3, <1>5, AllCleared
<1> HIDE DEF rest, r
<1>7. events' = rest \/ events' = << >>
  BY <1>4, <1>6 DEF SetupEffect, SetStall, Initialized, Reconfigured, SetConfigured
<1>8. /\ events' \in Seq(EventType)
      /\ \A i \in Entries' : events'[i].kind = "data" /\ events'[i].addr \in OpenedAt[speed]
  <2>1. CASE events' = rest
    BY <1>3, <1>5, <2>1 DEF Entries
  <2>2. CASE events' = << >>
    BY <2>2 DEF Entries
  <2> QED
    BY <1>7, <2>1, <2>2
<1>9. \A k : k # "data" => ~Pending(k)'
  BY <1>8 DEF Pending, Entries
<1>10. Ready' /\ QueueInv'
  BY <1>2, <1>8, <1>9 DEF Ready, QueueInv
<1>11. /\ ctl' = InStage(ctl'.handler, ctl'.stage, ctl'.req, ctl'.reply)
       /\ ctl'.req \in Requests /\ ctl'.handler \in Handlers
       /\ ctl'.stage \in {"idle", "data", "status"} /\ ep0' \in {"nak", "receive", "status", "stall"}
       /\ ctl'.handler \in Functions => configured = "CONFIGURED" /\ r.op = "class"
       /\ ctl'.stage = "data" => ctl'.handler \in Functions /\ ctl'.req.data
       /\ ctl'.stage = "status" => (ctl'.req.op = "setAddress" <=> SetsAddress')
       /\ ep0' = "receive" => ctl'.stage = "data" /\ ctl'.req = r
       /\ ep0' = "status" => ctl'.stage = "status" /\ ctl'.req = r
  <2>1. r.type = "class" <=> r.op = "class"
    BY <1>1, RequestFacts
  <2>2. CASE ep0' = "stall" /\ ctl' = Idle
    BY <2>2, NoRequestFacts, HandlerFacts DEF Idle, InStage
  <2>3. CASE \E h \in Functions : /\ configured = "CONFIGURED" /\ r.type = "class" /\ r.data
                                  /\ ep0' = "receive" /\ ctl' = InStage(h, "data", r, 0)
    BY <1>1, <2>1, <2>3, HandlerFacts DEF InStage
  <2>4. CASE \E h \in Functions : /\ configured = "CONFIGURED" /\ r.type = "class"
                                  /\ ep0' = "status" /\ ctl' = InStage(h, "status", r, Reply(r))
    BY <1>1, <2>1, <2>4, HandlerFacts DEF InStage, SetsAddress
  <2>5. CASE /\ r.type = "standard" /\ func' = ControlFunc(r)
             /\ ep0' = "status" /\ ctl' = InStage(StdHandler, "status", r, Reply(r))
    <3>1. func' = "setAddress" <=> r.op = "setAddress"
      BY <2>5 DEF ControlFunc
    <3> QED
      BY <1>1, <2>5, <3>1, HandlerFacts DEF InStage, SetsAddress
  <2> QED
    BY <1>4, <2>2, <2>3, <2>4, <2>5 DEF SetupAnswer
<1>12. RequestInv'
  <2>1. \A i \in Entries' : events'[i].kind # "setup"
    BY <1>8
  <2> QED
    BY <1>1, <1>4, <1>9, <1>11, <2>1 DEF RequestInv
<1>13. /\ configured' \in {"RESET", "DECONFIGURED", "CONFIGURED"} /\ logic' \subseteq Functions
       /\ ep' \in [DataAddresses -> {"closed", "nak", "armed", "stall"}]
       /\ view' \in [Functions -> [Logicals -> {"idle", "waiting"}]]
       /\ configured' # "RESET" => logic' = Functions
       /\ ctl'.handler \in Functions => logic' = logic
       /\ configured' # "RESET" => \A a \in OpenedAt[speed] : ep'[a] # "closed"
       /\ OpenInv' /\ OwedInv'
       /\ r.op # "setConfiguration" => configured' = configured
       /\ r.op = "setConfiguration" /\ r.value # 0 /\ ep0' = "status" => configured' = "CONFIGURED"
  <2>1. /\ configured \in {"RESET", "DECONFIGURED", "CONFIGURED"} /\ logic \subseteq Functions
        /\ configured # "RESET" => logic = Functions
        /\ configured # "RESET" => \A a \in OpenedAt[speed] : ep[a] # "closed"
    BY <1>2 DEF DevInv, DevTypeOK, LogicInv
  <2>2. CASE events' = rest /\ Keep /\ (r.op = "setConfiguration" => ep0' = "stall")
    <3>1. UNCHANGED <<configured, logic, ep, view>>
      BY <2>2 DEF Keep
    <3>2. OpenInv' /\ OwedInv'
      BY <1>4, <2>2, <3>1, OpenLeft, OwedLeft DEF rest
    <3> QED
      BY <2>1, <2>2, <3>1, <3>2 DEF DevInv, DevTypeOK
  <2>3. CASE r.op = "setConfiguration" /\ Initialized(r, rest)
    <3>1. PICK n \in 0..MaxFunctions :
             /\ \E armed \in FirstUses(n) : SetConfigured(n, armed, rest)
             /\ configured' = IF n = MaxFunctions THEN "CONFIGURED" ELSE configured
             /\ (ep0' = "status") = (n = MaxFunctions)
      BY <2>3 DEF Initialized
    <3>2. PICK armed \in FirstUses(n) : SetConfigured(n, armed, rest)
      BY <3>1
    <3>3. configured = "RESET" /\ events' = << >>
      BY <1>6, <2>3, <3>2 DEF Initialized, SetConfigured
    <3>4. /\ logic' \subseteq Functions
          /\ n = MaxFunctions => logic' = Functions
          /\ ep' \in [DataAddresses -> {"closed", "nak", "armed", "stall"}]
          /\ view' \in [Functions -> [Logicals -> {"idle", "waiting"}]]
          /\ \A a \in OpenedAt[speed] : a \in DataAddresses /\ ep'[a] # "closed"
          /\ \A a \in DataAddresses : ep'[a] # "closed" => a \in OpenedAt[speed] \/ ep[a] # "closed"
          /\ \A a \in DataAddresses : ep'[a] = "armed" /\ a \in OpenedAt[speed] =>
                 LET to == ToLogicalEndpoint(a, MappingAt[speed])
                 IN  to.fn \in logic' /\ view'[to.fn][EpNum(to.value)] = "waiting"
      BY <1>2, <3>2, <3>3, Configured
    <3>5. Entries' = {}
      BY <3>3 DEF Entries
    <3>6. OpenInv'
      BY <1>2, <1>4, <1>10, <3>4, <3>5 DEF DevInv, OpenInv
    <3>7. \A a \in DataAddresses : ep'[a] = "armed" => a \in OpenedAt[speed]
      BY <3>4 DEF DevInv, OpenInv
    <3>8. OwedInv'
      BY <1>4, <3>4, <3>5, <3>7 DEF OwedInv, Given
    <3>9. ctl'.handler \notin Functions
      BY <1>11, <2>3
    <3> QED
      BY <2>3, <3>1, <3>3, <3>4, <3>6, <3>8, <3>9
  <2>4. CASE r.op = "setConfiguration" /\ Reconfigured(r, rest)
    <3>1. /\ events' = rest /\ UNCHANGED <<logic, ep, view>>
          /\ configured' = IF r.value # 0 THEN "CONFIGURED"
                           ELSE IF configured = "CONFIGURED" THEN "DECONFIGURED" ELSE configured
          /\ r.value # 0 => configured # "RESET"
      BY <2>4 DEF Reconfigured
    <3>2. OpenInv' /\ OwedInv'
      BY <1>4, <3>1, OpenLeft, OwedLeft DEF rest
    <3> QED
      BY <2>1, <2>4, <3>1, <3>2 DEF DevInv, DevTypeOK
  <2>5. CASE r.op \in {"setHalt", "clearHalt"} /\ SetStall(r, rest)
    <3>1. /\ events' = rest /\ UNCHANGED <<configured, logic, view>>
          /\ ep' = [a \in DataAddresses |->
                 IF a # r.index \/ ep[a] = "closed" THEN ep[a]
                 ELSE IF r.op = "setHalt" THEN "stall" ELSE "nak"]
      BY <2>5 DEF SetStall
    <3>2. /\ ep' \in [DataAddresses -> {"closed", "nak", "armed", "stall"}]
          /\ \A a \in DataAddresses : /\ ep'[a] = "closed" <=> ep[a] = "closed"
                                      /\ ep'[a] = "armed" => ep[a] = "armed"
      BY <3>1 DEF DevInv, DevTypeOK
    <3>3. OpenInv' /\ OwedInv'
      BY <1>4, <3>1, <3>2, OpenLeft, OwedLeft DEF rest
    <3>4. \A a \in OpenedAt[speed] : a \in DataAddresses
      BY <1>2, TableFacts
    <3> QED
      BY <2>1, <2>5, <3>1, <3>2, <3>3, <3>4 DEF DevInv, DevTypeOK
  <2> QED
    BY <1>4, <2>2, <2>3, <2>4, <2>5 DEF SetupEffect
<1>14. DevTypeOK'
  BY <1>4, <1>8, <1>11, <1>13 DEF DevInv, DevTypeOK
<1>15. LogicInv'
  BY <1>4, <1>11, <1>13 DEF DevInv, LogicInv
<1>16. ConfigInv'
  <2>1. host.config # 0 => configured = "CONFIGURED" /\ r.op # "setConfiguration"
    BY <1>1, <1>2 DEF DevInv, ConfigInv
  <2>2. r.op = "setConfiguration" => host.config = 0
    BY <1>1 DEF DevInv, ConfigInv
  <2> QED
    BY <1>1, <1>13, <2>1, <2>2 DEF ConfigInv
<1> QED
  BY <1>10, <1>12, <1>13, <1>14, <1>15, <1>16 DEF DevInv

-----------------------------------------------------------------------------
(* Every step.                                                             *)

LEMMA DevBegins == DevInit => DevInv
<1> SUFFICES ASSUME DevInit PROVE DevInv
  OBVIOUS
<1>1. /\ host = Detached /\ Detached.stage = "detached" /\ Detached.req = NoRequest
      /\ Detached = [stage |-> Detached.stage, req |-> Detached.req,
                     address |-> Detached.address, config |-> Detached.config]
  BY DEF DevInit, Detached
<1>2. /\ ctl.handler = NoHandler /\ ctl.stage = "idle" /\ ctl.req = NoRequest
      /\ ctl = InStage(ctl.handler, ctl.stage, ctl.req, ctl.reply)
  BY DEF DevInit, Idle, InStage
<1>3. events = << >> /\ events \in Seq(EventType) /\ Entries = {}
  BY DEF DevInit, Entries
<1>4. DevTypeOK
  BY <1>1, <1>2, <1>3, HandlerFacts, NoRequestFacts DEF DevInit, DevTypeOK
<1>5. QueueInv /\ OpenInv
  BY <1>1, <1>3 DEF DevInit, QueueInv, OpenInv, Ready
<1>6. LogicInv /\ ConfigInv
  BY <1>1, <1>2, HandlerFacts DEF DevInit, LogicInv, ConfigInv, Ready
<1>7. OwedInv /\ RequestInv
  BY <1>1, <1>2, <1>3 DEF DevInit, OwedInv, RequestInv
<1> QED
  BY <1>4, <1>5, <1>6, <1>7 DEF DevInv

\* What ProcessEvent does, one disjunct per kind of event.
LEMMA Processes ==
    ASSUME DevTypeOK, ProcessEvent
    PROVE  /\ events # << >> /\ UNCHANGED <<connected, host>>
           /\ \/ events[1].kind = "reset" /\ ProcessReset(events[1].speed) /\ events' = Tail(events)
              \/ events[1].kind = "setup" /\ Setup(events[1].req, Tail(events))
              \/ events[1].kind = "ctlOut" /\ ControlData(Tail(events))
              \/ events[1].kind = "status" /\ ControlStatus(Tail(events))
              \/ events[1].kind = "data" /\ DataCompleted(events[1].addr, Tail(events))
<1>1. events # << >> /\ UNCHANGED <<connected, host>>
  BY DEF ProcessEvent
<1>2. Head(events) = events[1] /\ events[1].kind \in {"reset", "setup", "ctlOut", "status", "data"}
  BY <1>1, QueueTail, EventKinds DEF DevTypeOK
<1>3. CASE events[1].kind = "reset"
  BY <1>1, <1>2, <1>3 DEF ProcessEvent
<1>4. CASE events[1].kind = "setup"
  BY <1>1, <1>2, <1>4 DEF ProcessEvent
<1>5. CASE events[1].kind = "ctlOut"
  BY <1>1, <1>2, <1>5 DEF ProcessEvent
<1>6. CASE events[1].kind = "status"
  BY <1>1, <1>2, <1>6 DEF ProcessEvent
<1>7. CASE events[1].kind = "data"
  BY <1>1, <1>2, <1>7 DEF ProcessEvent
<1> QED
  BY <1>2, <1>3, <1>4, <1>5, <1>6, <1>7

LEMMA ProcessEventStep == ASSUME DevInv, ProcessEvent PROVE DevInv'
BY Processes, ResetProcessed, SetupStep, ControlDataStep, ControlStatusStep, DataCompletedStep
   DEF DevInv

LEMMA DevStep == ASSUME DevInv, [DevNext]_vars PROVE DevInv'
<1>1. CASE Start
  BY <1>1, StartStep
<1>2. CASE Stop
  BY <1>2, StopStep
<1>3. CASE ProcessEvent
  BY <1>3, ProcessEventStep
<1>4. CASE \E f \in Functions, l \in Logicals : FunctionUses(f, l)
  BY <1>4, FunctionUsesStep
<1>5. CASE HostNext
  BY <1>5, BusResetStep, HostSetupStep, HostSendsDataStep, HostSeesStallStep, HostSeesStatusStep,
     HostMovesDataStep DEF HostNext
<1>6. CASE UNCHANGED vars
  BY <1>6, DevStutters DEF vars, DevVars
<1> QED
  BY <1>1, <1>2, <1>3, <1>4, <1>5, <1>6 DEF DevNext

-----------------------------------------------------------------------------
(* Calls.                                                                  *)

\* Functions are called through "logic" for requests, or for an event they wait for.
LEMMA Calls ==
    ASSUME DevInv, ProcessEvent
    PROVE  \A u \in upcalls' : /\ u.fn \in logic
                               /\ u.ep # ControlCall => view[u.fn][u.ep] = "waiting"
<1>1. \A f : Control(f).fn = f /\ Control(f).ep = ControlCall
  BY DEF Control
<1>2. \A u \in CompletionCall : u.fn \in logic /\ u.ep = ControlCall
  BY <1>1 DEF CompletionCall, DevInv, LogicInv
<1>3. CASE events # << >> /\ events[1].kind = "setup" /\ Setup(events[1].req, Tail(events))
  <2>1. PICK h \in ResolveControl(events[1].req) :
           upcalls' = CompletionCall \cup {Control(f) : f \in Asked(events[1].req, h)}
    BY <1>3 DEF Setup
  <2>2. \A f \in Asked(events[1].req, h) : f \in Functions /\ configured = "CONFIGURED"
    BY DEF Asked
  <2>3. configured = "CONFIGURED" => logic = Functions
    BY DEF DevInv, LogicInv
  <2> QED
    BY <1>1, <1>2, <2>1, <2>2, <2>3
<1>4. CASE ControlData(Tail(events)) \/ ControlStatus(Tail(events))
  BY <1>2, <1>4 DEF ControlData, ControlStatus
<1>5. CASE events # << >> /\ events[1].kind = "data"
           /\ DataCompleted(events[1].addr, Tail(events))
  BY <1>5, DataOwner DEF DataCompleted
<1>6. CASE ProcessReset(events[1].speed)
  BY <1>6 DEF ProcessReset
<1> QED
  BY <1>3, <1>4, <1>5, <1>6, Processes DEF DevInv

LEMMA CallStep ==
    ASSUME DevInv, [DevNext]_vars
    PROVE  /\ [\A u \in upcalls' : u.fn \in logic]_vars
           /\ [\A u \in upcalls' : u.ep # ControlCall => view[u.fn][u.ep] = "waiting"]_vars
<1>1. CASE ProcessEvent
  BY <1>1, Calls
<1>2. CASE Start \/ Stop
  BY <1>2 DEF Start, Stop
<1>3. CASE \E f \in Functions, l \in Logicals : FunctionUses(f, l)
  BY <1>3 DEF FunctionUses
<1>4. CASE HostNext
  BY <1>4 DEF HostNext, BusReset, HostSetup, HostSendsData, HostSeesStall, HostSeesStatus,
     HostMovesData, BusStep
<1>5. CASE UNCHANGED vars
  BY <1>5
<1> QED
  BY <1>1, <1>2, <1>3, <1>4, <1>5 DEF DevNext

-----------------------------------------------------------------------------
(* Promises.                                                               *)

LEMMA PromiseLeft ==
    ASSUME DevInv, PromiseInv, events # << >>, events[1].kind \notin {"reset", "data"},
           events' = Tail(events), UNCHANGED <<connected, host, speed, mapping, ep, view>>,
           configured' # "RESET" => configured # "RESET"
    PROVE  PromiseInv'
<1>1. Ready
  BY ReadyNow
<1>2. \A i \in Entries : i # 1 => \E j \in Entries' : events'[j] = events[i]
  <2>1. ASSUME NEW i \in Entries, i # 1 PROVE \E j \in Entries' : events'[j] = events[i]
    <3>1. /\ Len(events) \in Nat /\ Len(Tail(events)) = Len(events) - 1
          /\ \A j \in 1..Len(Tail(events)) : Tail(events)[j] = events[j + 1]
      BY QueueTail DEF DevInv, DevTypeOK
    <3>2. i - 1 \in 1..Len(Tail(events)) /\ (i - 1) + 1 = i
      BY <2>1, <3>1 DEF Entries
    <3>3. Tail(events)[i - 1] = events[i]
      BY <3>1, <3>2
    <3> QED
      BY <3>2, <3>3 DEF Entries
  <2> QED
    BY <2>1
<1>3. \A a : DataEvent(a).kind = "data"
  BY DEF DataEvent, Event
<1>4. \A a : (\E i \in Entries : events[i] = DataEvent(a)) =>
             \E i \in Entries' : events'[i] = DataEvent(a)
  BY <1>2, <1>3
<1> HIDE DEF DataEvent
<1> QED
  BY <1>1, <1>4 DEF PromiseInv

LEMMA PromiseSetup ==
    ASSUME ~Halts, DevInv, PromiseInv, events # << >>, events[1].kind = "setup",
           Setup(events[1].req, Tail(events)), UNCHANGED <<connected, host>>
    PROVE  PromiseInv'
<1> DEFINE r == events[1].req
           rest == Tail(events)
<1>1. r \in Requests /\ speed \in Speeds /\ mapping = speed
  BY HeadTaken, ReadyNow DEF DevInv, EventType
<1>2. SetupEffect(r, rest) /\ UNCHANGED <<speed, mapping>>
  BY <1>1, SetupComesTo
<1>3. CASE events' = rest /\ Keep
  BY <1>2, <1>3, PromiseLeft DEF Keep
<1>4. CASE Initialized(r, rest)
  <2>1. PICK n \in 0..MaxFunctions :
           /\ \E armed \in FirstUses(n) : SetConfigured(n, armed, rest)
           /\ configured' = IF n = MaxFunctions THEN "CONFIGURED" ELSE configured
    BY <1>4 DEF Initialized
  <2>2. PICK armed \in FirstUses(n) : SetConfigured(n, armed, rest)
    BY <2>1
  <2>3. configured = "RESET"
    BY <1>4 DEF Initialized
  <2>4. n = MaxFunctions =>
           \A f \in Functions, l \in Logicals : view'[f][l] = "waiting" =>
               LET a == ToPhysicalEndpoint(f, l, MappingAt[speed])
               IN  a \in OpenedAt[speed] /\ ep'[a] = "armed"
    BY <1>1, <2>2, <2>3, Configured
  <2> QED
    BY <1>2, <2>1, <2>3, <2>4 DEF PromiseInv
<1>5. CASE Reconfigured(r, rest)
  <2>1. events' = rest /\ UNCHANGED <<ep, view>> /\ (configured' # "RESET" => configured # "RESET")
    BY <1>5 DEF Reconfigured
  <2> QED
    BY <1>2, <2>1, PromiseLeft
<1>6. r.op \notin {"setHalt", "clearHalt"}
  BY <1>1, RequestFacts
<1> QED
  BY <1>2, <1>3, <1>4, <1>5, <1>6 DEF SetupEffect

LEMMA PromiseData ==
    ASSUME DevInv, PromiseInv, events # << >>, events[1].kind = "data",
           DataCompleted(events[1].addr, Tail(events)), UNCHANGED <<connected, host>>
    PROVE  PromiseInv'
<1> DEFINE a  == events[1].addr
           To(b) == ToLogicalEndpoint(b, MappingAt[speed])
           At(f, l) == ToPhysicalEndpoint(f, l, MappingAt[speed])
           fn == To(a).fn
           ln == EpNum(To(a).value)
<1>1. /\ Owner(a) = To(a) /\ To(a).present /\ fn \in Functions /\ ln \in Logicals
  BY DataOwner DEF DevInv
<1>2. /\ events' = Tail(events) /\ view' = [view EXCEPT ![fn][ln] = "idle"]
      /\ UNCHANGED <<speed, mapping, configured, ep>>
  BY <1>1 DEF DataCompleted, stackVars
<1>3. Ready /\ speed \in Speeds
  BY ReadyNow
<1>4. \A f \in Functions, l \in Logicals :
          /\ view'[f][l] = "waiting" => view[f][l] = "waiting" /\ ~(f = fn /\ l = ln)
          /\ At(f, l) \in OpenedAt[speed] => To(At(f, l)).fn = f /\ EpNum(To(At(f, l)).value) = l
  <2>1. \A f \in Functions, l \in Logicals :
          view'[f][l] = "waiting" => view[f][l] = "waiting" /\ ~(f = fn /\ l = ln)
    BY <1>1, <1>2 DEF DevInv, DevTypeOK
  <2>2. 0 \notin OpenedAt[speed]
    BY <1>3, TableFacts, AddressFacts
  <2>3. \A f \in Functions, l \in Logicals :
          At(f, l) \in OpenedAt[speed] => To(At(f, l)).fn = f /\ EpNum(To(At(f, l)).value) = l
    BY <1>3, <2>2, TableFacts
  <2> QED
    BY <2>1, <2>3
<1>5. \A i \in Entries : i # 1 => \E j \in Entries' : events'[j] = events[i]
  <2>1. ASSUME NEW i \in Entries, i # 1 PROVE \E j \in Entries' : events'[j] = events[i]
    <3>1. /\ Len(events) \in Nat /\ Len(Tail(events)) = Len(events) - 1
          /\ \A j \in 1..Len(Tail(events)) : Tail(events)[j] = events[j + 1]
      BY QueueTail DEF DevInv, DevTypeOK
    <3>2. i - 1 \in 1..Len(Tail(events)) /\ (i - 1) + 1 = i
      BY <2>1, <3>1 DEF Entries
    <3>3. Tail(events)[i - 1] = events[i]
      BY <3>1, <3>2
    <3> QED
      BY <1>2, <3>2, <3>3 DEF Entries
  <2> QED
    BY <2>1
<1>6. \A b : events[1] = DataEvent(b) => b = a
  BY DEF DataEvent, Event
<1>7. SUFFICES ASSUME Ready', configured' # "RESET",
                      NEW f \in Functions, NEW l \in Logicals, view'[f][l] = "waiting"
               PROVE  /\ At(f, l) \in OpenedAt[speed]
                      /\ \/ ep[At(f, l)] \in {"armed", "stall"}
                         \/ \E j \in Entries' : events'[j] = DataEvent(At(f, l))
  BY <1>2 DEF PromiseInv, DataEvent, Event
<1>8. /\ At(f, l) \in OpenedAt[speed]
      /\ ep[At(f, l)] \in {"armed", "stall"} \/ \E i \in Entries : events[i] = DataEvent(At(f, l))
  BY <1>2, <1>3, <1>4, <1>7 DEF PromiseInv
<1>9. At(f, l) # a
  BY <1>4, <1>7, <1>8
<1> QED
  BY <1>5, <1>6, <1>8, <1>9

LEMMA PromiseUses ==
    ASSUME DevInv, PromiseInv, NEW f \in Functions, NEW l \in Logicals, FunctionUses(f, l)
    PROVE  PromiseInv'
<1> DEFINE a == ToPhysicalEndpoint(f, l, Active)
           At(g, k) == ToPhysicalEndpoint(g, k, MappingAt[speed])
<1>1. /\ a \in DataAddresses
      /\ ep' = [ep EXCEPT ![a] = IF @ = "closed" THEN "closed" ELSE "armed"]
      /\ view' = [view EXCEPT ![f][l] = "waiting"]
      /\ UNCHANGED <<speed, mapping, configured, events, host>>
  BY DEF FunctionUses, stackVars
<1>2. SUFFICES ASSUME Ready, configured # "RESET",
                      NEW g \in Functions, NEW k \in Logicals, view'[g][k] = "waiting"
               PROVE  /\ At(g, k) \in OpenedAt[speed]
                      /\ \/ ep'[At(g, k)] \in {"armed", "stall"}
                         \/ \E i \in Entries : events[i] = DataEvent(At(g, k))
  BY <1>1 DEF PromiseInv, Ready, Pending, Entries, DataEvent, Event
<1>3. speed \in Speeds /\ mapping = speed /\ a = At(f, l)
  BY <1>2 DEF DevInv, OpenInv, Active
<1>4. OpenedAt[speed] \subseteq DataAddresses /\ a \in OpenedAt[speed]
  BY <1>1, <1>3, TableFacts, AddressFacts
<1>5. \A b \in DataAddresses :
          \/ ep'[b] = ep[b]
          \/ b = a /\ ep'[b] = "armed"
          \/ ep'[b] = "closed" /\ ep[b] = "closed"
  BY <1>1 DEF DevInv, DevTypeOK
<1>6. CASE g = f /\ k = l
  <2>1. ep[a] # "closed"
    BY <1>2, <1>4 DEF DevInv, LogicInv
  <2> QED
    BY <1>1, <1>3, <1>4, <1>5, <1>6, <2>1 DEF DevInv, DevTypeOK
<1>7. CASE ~(g = f /\ k = l)
  <2>1. view[g][k] = "waiting"
    BY <1>1, <1>2, <1>7 DEF DevInv, DevTypeOK
  <2>2. /\ At(g, k) \in OpenedAt[speed]
        /\ ep[At(g, k)] \in {"armed", "stall"} \/ \E i \in Entries : events[i] = DataEvent(At(g, k))
    BY <1>2, <2>1 DEF PromiseInv
  <2> QED
    BY <1>4, <1>5, <2>2
<1> QED
  BY <1>6, <1>7

LEMMA PromiseHost == ASSUME DevInv, PromiseInv, HostNext PROVE PromiseInv'
<1>1. CASE \E s \in Speeds : BusReset(s)
  <2>1. PICK s \in Speeds : events' = << ResetEvent(s) >>
    BY <1>1 DEF BusReset
  <2>2. ResetEvent(s).kind = "reset"
    BY DEF ResetEvent, Event
  <2>3. Pending("reset")'
    BY <2>1, <2>2 DEF Pending
  <2> QED
    BY <2>3 DEF PromiseInv, Ready
<1>2. ASSUME NEW e \in EventType, events' = Append(events, e), e.kind # "reset",
             UNCHANGED <<speed, configured, view>>, host.stage # "detached",
             \A a \in DataAddresses : ep'[a] = ep[a] \/ e = DataEvent(a)
      PROVE  PromiseInv'
  <2>1. /\ \A i \in Entries : i \in Entries' /\ events'[i] = events[i]
        /\ events'[Len(events')] = e /\ Len(events') \in Entries'
        /\ \A k : Pending(k)' <=> Pending(k) \/ e.kind = k
    BY <1>2, QueueAppend DEF DevInv, DevTypeOK, Entries
  <2>2. Ready' => Ready
    BY <1>2, <2>1 DEF Ready
  <2>3. \A a : (\E i \in Entries : events[i] = DataEvent(a)) \/ e = DataEvent(a) =>
               \E i \in Entries' : events'[i] = DataEvent(a)
    BY <2>1
  <2>4. Ready => \A a \in OpenedAt[speed] : a \in DataAddresses
    BY TableFacts DEF DevInv, OpenInv
  <2> HIDE DEF DataEvent
  <2> QED
    BY <1>2, <2>2, <2>3, <2>4 DEF PromiseInv
<1>3. ASSUME NEW r \in Requests, HostSetup(r) PROVE PromiseInv'
  <2>1. ControlEvent("setup", r) \in EventType /\ ControlEvent("setup", r).kind = "setup"
    BY DEF ControlEvent, Event, EventType
  <2> QED
    BY <1>2, <1>3, <2>1 DEF HostSetup, BusStep, stackVars
<1>4. CASE HostSendsData
  <2>1. ControlEvent("ctlOut", NoRequest) \in EventType
        /\ ControlEvent("ctlOut", NoRequest).kind = "ctlOut"
    BY NoRequestFacts DEF ControlEvent, Event, EventType
  <2> QED
    BY <1>2, <1>4, <2>1 DEF HostSendsData, BusStep, stackVars
<1>5. CASE HostSeesStatus
  <2>1. ControlEvent("status", NoRequest) \in EventType
        /\ ControlEvent("status", NoRequest).kind = "status"
    BY NoRequestFacts DEF ControlEvent, Event, EventType
  <2> QED
    BY <1>2, <1>5, <2>1 DEF HostSeesStatus, BusStep, stackVars
<1>6. ASSUME NEW a \in DataAddresses, HostMovesData(a) PROVE PromiseInv'
  <2>1. DataEvent(a) \in EventType /\ DataEvent(a).kind = "data"
    BY NoRequestFacts DEF DataEvent, Event, EventType
  <2>2. \A b \in DataAddresses : ep'[b] = ep[b] \/ DataEvent(a) = DataEvent(b)
    BY <1>6 DEF HostMovesData, DevInv, DevTypeOK
  <2> QED
    BY <1>2, <1>6, <2>1, <2>2 DEF HostMovesData, BusStep, stackVars
<1>7. CASE HostSeesStall
  <2>1. UNCHANGED <<speed, configured, view, ep, events>> /\ host.stage # "detached"
    BY <1>7 DEF HostSeesStall, BusStep, stackVars
  <2> QED
    BY <2>1 DEF PromiseInv, Ready, Pending, Entries, DataEvent, Event
<1> QED
  BY <1>1, <1>3, <1>4, <1>5, <1>6, <1>7 DEF HostNext

LEMMA PromiseStep == ASSUME ~Halts, DevInv, PromiseInv, [DevNext]_vars PROVE PromiseInv'
<1>1. CASE Start
  <2>1. host.stage = "detached" /\ host' = host
    BY <1>1 DEF Start, DevInv, QueueInv
  <2> QED
    BY <2>1 DEF PromiseInv, Ready
<1>2. CASE Stop
  BY <1>2 DEF Stop, Detached, PromiseInv, Ready
<1>3. CASE ProcessEvent
  <2>1. events # << >> /\ UNCHANGED <<connected, host>>
    BY <1>3, Processes DEF DevInv
  <2>2. CASE ProcessReset(events[1].speed)
    BY <2>2 DEF ProcessReset, PromiseInv
  <2>3. CASE events[1].kind = "setup" /\ Setup(events[1].req, Tail(events))
    BY <2>1, <2>3, PromiseSetup
  <2>4. CASE events[1].kind = "ctlOut" /\ ControlData(Tail(events))
    <3>1. /\ ctl.stage = "data" /\ ctl.req.op = "class" /\ ctl.handler \in Functions
      <4>1. ctl.stage = "data" /\ ctl.handler \in Functions /\ ctl.req.data /\ ctl.req \in Requests
        BY <2>1, <2>4, HeadTaken DEF DevInv, DevTypeOK, RequestInv, LogicInv
      <4> QED
        BY <4>1, RequestFacts
    <3>2. \E ok \in BOOLEAN : HandleControl(ctl.handler, ctl.req, ok, Tail(events))
      BY <2>4, <3>1 DEF ControlData, Handle
    <3>3. ctl.handler # StdHandler
      BY <3>1, HandlerFacts
    <3>4. events' = Tail(events) /\ Keep
      BY <3>1, <3>2, <3>3 DEF HandleControl
    <3>5. UNCHANGED <<speed, mapping>>
      BY <2>4 DEF ControlData
    <3> QED
      BY <2>1, <2>4, <3>4, <3>5, PromiseLeft DEF Keep
  <2>5. CASE events[1].kind = "status" /\ ControlStatus(Tail(events))
    BY <2>1, <2>5, PromiseLeft DEF ControlStatus, Keep
  <2>6. CASE events[1].kind = "data" /\ DataCompleted(events[1].addr, Tail(events))
    BY <2>1, <2>6, PromiseData
  <2> QED
    BY <1>3, <2>2, <2>3, <2>4, <2>5, <2>6, Processes DEF DevInv
<1>4. CASE \E f \in Functions, l \in Logicals : FunctionUses(f, l)
  BY <1>4, PromiseUses
<1>5. CASE HostNext
  BY <1>5, PromiseHost
<1>6. CASE UNCHANGED vars
  BY <1>6 DEF vars, PromiseInv, Ready, Pending, Entries, DataEvent, Event
<1> QED
  BY <1>1, <1>2, <1>3, <1>4, <1>5, <1>6 DEF DevNext

-----------------------------------------------------------------------------
(* The results.                                                            *)

\* Through every order of requests, resets, stops and events, the device's state,
\* its queue and the host's request stay as DevInv says.
THEOREM DevInvariant == DevSpec => []DevInv
<1>1. DevInit => DevInv
  BY DevBegins
<1>2. DevInv /\ [DevNext]_vars => DevInv'
  BY DevStep
<1> QED
  BY <1>1, <1>2, PTL DEF DevSpec

\* Host and device agree on the address and on the configuration
\* (control-handler.cpp: completeControl(); usb-device.cpp: setConfiguration()).
THEOREM DevAgrees == DevSpec => []HostAgrees
<1>1. DevInv => AddressAgrees
  BY DEF DevInv, RequestInv, AddressAgrees, Attached
<1>2. DevInv => ConfigurationAgrees
  <2> SUFFICES ASSUME DevInv, Attached, host.config # 0
               PROVE  configured = "CONFIGURED" /\ logic = Functions
                      /\ \A a \in OpenedAt[speed] : ep[a] # "closed"
    BY DEF ConfigurationAgrees
  <2>1. Ready
    BY DEF Attached, Ready
  <2>2. configured = "CONFIGURED"
    BY <2>1 DEF DevInv, ConfigInv
  <2> QED
    BY <2>1, <2>2 DEF DevInv, LogicInv
<1>3. DevInv => HostAgrees
  BY <1>1, <1>2 DEF HostAgrees
<1> QED
  BY <1>3, DevInvariant, PTL

\* No function is called before its logic object exists (usb-device.cpp:95, 110, 134).
THEOREM DevLogicExists == DevSpec => NoNullLogic
<1>1. DevInv /\ [DevNext]_vars => [\A u \in upcalls' : u.fn \in logic]_vars
  BY CallStep
<1>2. DevSpec => [][DevNext]_vars
  BY PTL DEF DevSpec
<1> QED
  BY <1>1, <1>2, DevInvariant, PTL DEF NoNullLogic

\* Every packetReceived() and transmitComplete() answers a call that is owed.
THEOREM DevCallsBack == DevSpec => CallbackOwed
<1>1. DevInv /\ [DevNext]_vars =>
          [\A u \in upcalls' : u.ep # ControlCall => view[u.fn][u.ep] = "waiting"]_vars
  BY CallStep
<1>2. DevSpec => [][DevNext]_vars
  BY PTL DEF DevSpec
<1> QED
  BY <1>1, <1>2, DevInvariant, PTL DEF CallbackOwed

\* As long as the host halts no endpoint, a configured device loses none of the
\* calls its functions wait for (pcd-interface.hpp:38-39 and 51-52).
THEOREM DevKeepsPromise == ~Halts => (DevSpec => []PromiseKept)
<1> SUFFICES ASSUME ~Halts PROVE DevSpec => []PromiseKept
  OBVIOUS
<1>1. DevInit => PromiseInv
  BY DEF DevInit, PromiseInv
<1>2. DevInv /\ PromiseInv /\ [DevNext]_vars => PromiseInv'
  BY PromiseStep
<1>3. DevInv /\ PromiseInv => PromiseKept
  <2> SUFFICES ASSUME DevInv, PromiseInv, Attached, configured = "CONFIGURED",
                      NEW f \in Functions, NEW l \in Logicals, view[f][l] = "waiting"
               PROVE  LET a == ToPhysicalEndpoint(f, l, Active)
                      IN  \/ ep[a] \in {"armed", "stall"}
                          \/ DataEvent(a) \in {events[i] : i \in 1..Len(events)}
    BY DEF PromiseKept
  <2>1. Ready
    BY DEF Attached, Ready
  <2>2. mapping = speed
    BY <2>1 DEF DevInv, OpenInv
  <2> QED
    BY <2>1, <2>2 DEF PromiseInv, Active, Entries
<1> QED
  BY <1>1, <1>2, <1>3, DevInvariant, PTL DEF DevSpec

=============================================================================
