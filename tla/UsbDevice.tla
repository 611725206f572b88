------------------------------- MODULE UsbDevice -------------------------------
(***************************************************************************)
(* ub::usbd::USBDevice: its configuration state, the standard requests     *)
(* that change it, the dispatch of requests and endpoint events to the     *)
(* registered functions, and starting and stopping, between a host, a      *)
(* peripheral controller and functions that keep their contract.           *)
(*                                                                         *)
(* The control endpoint is taken at the granularity of ControlBus: a SETUP *)
(* packet, at most one data packet, and the end of the status stage.       *)
(***************************************************************************)
EXTENDS EndpointMapper, FiniteSets, Sequences

CONSTANTS
    Speeds,         \* link speeds with a configuration of their own
    MappingAt,      \* the generated mapping of each speed
    OpenedAt,       \* addresses of the data endpoints at each speed
    Addresses,      \* bus addresses the host hands out
    MaxResets,      \* bus resets
    GiveUp,         \* the host may drop a request and start another
    Halts,          \* the host halts endpoints and clears the halt
    Failures        \* functions may fail to initialize or to handle a request

ASSUME DeviceAssumption ==
    /\ MappingAt \in [Speeds -> Mapping]
    /\ \A s \in Speeds : OpenedAt[s] \subseteq (1..15) \cup (129..143)
    /\ \A s \in Speeds : LeadsBack(MappingAt[s], OpenedAt[s])
    /\ "none" \notin Speeds /\ 0 \notin Addresses /\ MaxResets \in Nat
    /\ GiveUp \in BOOLEAN /\ Halts \in BOOLEAN /\ Failures \in BOOLEAN

VARIABLES
    connected,      \* between start() and stop()
    speed,          \* m_control.m_speed
    mapping,        \* the speed m_activeMapping belongs to
    configured,     \* m_configured
    logic,          \* functions whose logic pointer is set
    ctl,            \* m_handler, state, m_setup and reply of the control endpoint
    func,           \* m_func of the standard handler
    upcalls,        \* function methods called through "logic" in the last step
    ep, ep0,        \* data endpoints and control endpoint of the controller
    address,        \* the bus address the controller answers to
    events,         \* what pullEvent() will report
    view,           \* the functions' own record of their endpoints
    host,           \* the host's view of the device
    resets

stackVars == <<speed, mapping, configured, logic, ctl, func>>
vars == <<connected, speed, mapping, configured, logic, ctl, func, upcalls,
          ep, ep0, address, events, view, host, resets>>

DataAddresses == UNION {OpenedAt[s] : s \in Speeds}
StdHandler    == MaxFunctions
NoHandler     == MaxFunctions + 1
Handlers      == 0..NoHandler
ControlCall   == MaxFuncEndpoints

Request(t, r, o, v, i, d) ==
    [type |-> t, recipient |-> r, op |-> o, value |-> v, index |-> i, data |-> d]

NoRequest == Request("standard", "device", "getStatus", 0, 0, FALSE)

StandardRequests ==
    {NoRequest}
    \cup {Request("standard", "device", "setAddress", a, 0, FALSE) : a \in Addresses}
    \cup {Request("standard", "device", "setConfiguration", c, 0, FALSE) : c \in {0, 1}}
    \cup {Request("standard", "device", "getConfiguration", 0, 0, FALSE)}
    \cup (IF Halts THEN {Request("standard", "endpoint", o, 0, a, FALSE) :
                            o \in {"setHalt", "clearHalt"}, a \in DataAddresses}
          ELSE {})

ClassRequests ==
    {Request("class", "device", "class", 0, 0, d) : d \in BOOLEAN}
    \cup {Request("class", "interface", "class", 0, n, FALSE) : n \in 0..MaxInterfaces}
    \cup {Request("class", "endpoint", "class", 0, a, FALSE) : a \in DataAddresses}

Requests == StandardRequests \cup ClassRequests

Event(k, s, a, r) == [kind |-> k, speed |-> s, addr |-> a, req |-> r]
ResetEvent(s) == Event("reset", s, 0, NoRequest)
DataEvent(a)  == Event("data", "none", a, NoRequest)
ControlEvent(k, r) == Event(k, "none", 0, r)

InStage(h, s, q, r) == [handler |-> h, stage |-> s, req |-> q, reply |-> r]
Idle == InStage(NoHandler, "idle", NoRequest, 0)
Detached == [stage |-> "detached", req |-> NoRequest, address |-> 0, config |-> 0]

\* initialize() has succeeded, start() has not been called.
DevInit ==
    /\ connected = FALSE
    /\ speed = "none" /\ mapping = "none"
    /\ configured = "RESET" /\ logic = {}
    /\ ctl = Idle /\ func = "default" /\ upcalls = {}
    /\ ep = [a \in DataAddresses |-> "closed"] /\ ep0 = "nak" /\ address = 0
    /\ events = << >>
    /\ view = [f \in Functions |-> [l \in Logicals |-> "idle"]]
    /\ host = Detached /\ resets = 0

-----------------------------------------------------------------------------
(* Start, stop, reset.                                                     *)

Start ==
    /\ ~connected /\ connected' = TRUE
    /\ upcalls' = {}
    /\ UNCHANGED <<stackVars, ep, ep0, address, events, view, host, resets>>

\* m_control.reset(NONE) forgets the stage of a request, not its handler.
Stop ==
    /\ connected /\ connected' = FALSE
    /\ speed' = "none" /\ ctl' = [ctl EXCEPT !.stage = "idle"]
    /\ ep' = [a \in DataAddresses |-> "closed"] /\ ep0' = "nak" /\ address' = 0
    /\ events' = << >> /\ host' = Detached /\ upcalls' = {}
    /\ UNCHANGED <<mapping, configured, logic, func, view, resets>>

\* Mutant of ProcessReset: the configuration state survives.
ProcessResetConfigured(s) ==
    /\ speed' = s /\ mapping' = s
    /\ ctl' = [ctl EXCEPT !.stage = "idle"]
    /\ upcalls' = {}
    /\ UNCHANGED <<configured, logic, func, ep, ep0, address, view>>

ProcessReset(s) ==
    /\ speed' = s /\ mapping' = s
    /\ configured' = "RESET"
    /\ ctl' = [ctl EXCEPT !.stage = "idle"]
    /\ upcalls' = {}
    /\ UNCHANGED <<logic, func, ep, ep0, address, view>>

-----------------------------------------------------------------------------
(* Requests: which handler serves them.                                    *)

Active == MappingAt[mapping]

ValidateEndpoint(index) ==
    EpNum(index) = 0 \/ (index <= 255 /\ ToLogicalEndpoint(index, Active).present)

HandlerOf(to) == IF to.present THEN to.fn ELSE NoHandler

\* Of the functions asked in turn, any may be the first that accepts a request
\* to the device.
ResolveControl(req) ==
    IF req.recipient = "endpoint" /\ ~ValidateEndpoint(req.index) THEN {NoHandler}
    ELSE IF req.type = "standard" THEN {StdHandler}
    ELSE IF configured # "CONFIGURED" THEN {NoHandler}
    ELSE CASE req.recipient = "device"    -> Functions \cup {NoHandler}
           [] req.recipient = "endpoint"  -> {HandlerOf(ToLogicalEndpoint(req.index, Active))}
           [] req.recipient = "interface" -> {HandlerOf(ToLogicalInterface(req.index, Active))}

Control(f) == [fn |-> f, ep |-> ControlCall]

\* Functions whose setupControl() the resolution of a request to h reaches.
Asked(req, h) ==
    IF req.type = "standard" \/ configured # "CONFIGURED" THEN {}
    ELSE IF req.recipient = "device" THEN {f \in Functions : f <= h}
    ELSE {h} \cap Functions

\* StandardControlHandler::setupControl(): m_func, and the requests it accepts.
ControlFunc(req) == CASE req.op = "setAddress" -> "setAddress"
                      [] req.op \in {"setHalt", "clearHalt"} -> "setStall"
                      [] req.op = "getStatus" -> "getStatus"
                      [] OTHER -> "default"

\* Mutant of CompleteControl: a request that failed sets the address too.
CompleteControlFailed(success) ==
    address' = IF ctl.handler = StdHandler /\ func = "setAddress" THEN ctl.req.value ELSE address

\* StandardControlHandler::completeControl().
CompleteControl(success) ==
    address' = IF success /\ ctl.handler = StdHandler /\ func = "setAddress"
               THEN ctl.req.value ELSE address

CompletionCall == {Control(f) : f \in {ctl.handler} \cap Functions}

-----------------------------------------------------------------------------
(* Requests: what handling one does.                                       *)

Keep == UNCHANGED <<configured, logic, ep, view>>

Owner(a) == ToLogicalEndpoint(a, Active)
Named(a, pairs) == Owner(a).present /\ <<Owner(a).fn, EpNum(Owner(a).value)>> \in pairs

\* Mutant of OpenEndpoints: what the endpoint had to report stays.
OpenEndpointsReporting(rest) == rest

\* Opening an endpoint clears what it had to report.
OpenEndpoints(rest) ==
    LET cleared(e) == e.kind = "data" /\ e.addr \in OpenedAt[speed]
        kept[i \in 0..Len(rest)] ==
            IF i = 0 THEN << >>
            ELSE IF cleared(rest[i]) THEN kept[i - 1] ELSE Append(kept[i - 1], rest[i])
    IN  kept[Len(rest)]

\* Functions 0..n-1 initialize and use the endpoints of "armed", function n
\* fails, if there is one.
SetConfigured(n, armed, rest) ==
    /\ logic' = (logic \ {n}) \cup 0..(n - 1)
    /\ view' = [f \in Functions |->
           IF f >= n THEN view[f]
           ELSE [l \in Logicals |-> IF <<f, l>> \in armed THEN "waiting" ELSE "idle"]]
    /\ ep' = [a \in DataAddresses |->
           IF a \notin OpenedAt[speed] THEN ep[a]
           ELSE IF Named(a, armed) THEN "armed" ELSE "nak"]
    /\ events' = OpenEndpoints(rest)

FirstUses(n) ==
    SUBSET {use \in (0..(n - 1)) \X Logicals :
                ToPhysicalEndpoint(use[1], use[2], Active) \in OpenedAt[speed]}

\* Mutant of SetConfiguration: the state changes before the functions are
\* initialized.
SetConfigurationFirst(c, ok, rest) ==
    IF c # 0 /\ configured = "RESET"
    THEN \E n \in 0..MaxFunctions :
            /\ ok = (n = MaxFunctions)
            /\ \E armed \in FirstUses(n) : SetConfigured(n, armed, rest)
            /\ configured' = "CONFIGURED"
    ELSE /\ ok /\ events' = rest
         /\ configured' = IF c # 0 THEN "CONFIGURED"
                          ELSE IF configured = "CONFIGURED" THEN "DECONFIGURED"
                          ELSE configured
         /\ UNCHANGED <<logic, ep, view>>

SetConfiguration(c, ok, rest) ==
    IF c # 0 /\ configured = "RESET"
    THEN \E n \in 0..MaxFunctions :
            /\ ok = (n = MaxFunctions)
            /\ \E armed \in FirstUses(n) : SetConfigured(n, armed, rest)
            /\ configured' = IF ok THEN "CONFIGURED" ELSE configured
    ELSE /\ ok /\ events' = rest
         /\ configured' = IF c # 0 THEN "CONFIGURED"
                          ELSE IF configured = "CONFIGURED" THEN "DECONFIGURED"
                          ELSE configured
         /\ UNCHANGED <<logic, ep, view>>

SetStall(req, rest) ==
    /\ ep' = [a \in DataAddresses |->
           IF a # req.index \/ ep[a] = "closed" THEN ep[a] ELSE IF req.op = "setHalt" THEN "stall" ELSE "nak"]
    /\ events' = rest
    /\ UNCHANGED <<configured, logic, view>>

\* "rest": the events behind the one being processed.
HandleControl(h, req, ok, rest) ==
    CASE h # StdHandler               -> (ok \/ Failures) /\ events' = rest /\ Keep
      [] req.op = "setConfiguration"  -> (ok \/ Failures) /\ SetConfiguration(req.value, ok, rest)
      [] req.op \in {"setHalt", "clearHalt"} -> ok /\ SetStall(req, rest)
      [] OTHER                        -> ok /\ events' = rest /\ Keep

\* The values of CfgState, and the configuration GET_CONFIGURATION reports.
CfgState == [RESET |-> 0, DECONFIGURED |-> 1, CONFIGURED |-> 2]
Reply(req) == IF req.op = "getConfiguration" THEN CfgState[configured] ELSE 0

Handle(h, req, rest) ==
    \E ok \in BOOLEAN :
        /\ HandleControl(h, req, ok, rest)
        /\ ep0' = IF ok THEN "status" ELSE "stall"
        /\ ctl' = IF ok THEN InStage(h, "status", req, Reply(req)) ELSE Idle

-----------------------------------------------------------------------------
(* processEvents(), one event at a time.                                   *)

\* A SETUP packet first ends the request before it.
Setup(req, rest) ==
    /\ CompleteControl(FALSE)
    /\ \E h \in ResolveControl(req) :
         /\ upcalls' = CompletionCall \cup {Control(f) : f \in Asked(req, h)}
         /\ func' = IF h = StdHandler THEN ControlFunc(req) ELSE func
         /\ \/ \* unresolved, or rejected by the handler
               /\ h = NoHandler \/ (h \in Functions /\ req.recipient # "device")
               /\ ep0' = "stall" /\ ctl' = Idle /\ events' = rest /\ Keep
            \/ /\ h # NoHandler /\ req.data
               /\ ep0' = "receive" /\ ctl' = InStage(h, "data", req, 0)
               /\ events' = rest /\ Keep
            \/ /\ h # NoHandler /\ ~req.data
               /\ Handle(h, req, rest)
    /\ UNCHANGED <<speed, mapping>>

ControlData(rest) ==
    /\ upcalls' = IF ctl.stage = "data" THEN CompletionCall ELSE {}
    /\ IF ctl.stage = "data" THEN Handle(ctl.handler, ctl.req, rest)
       ELSE events' = rest /\ Keep /\ UNCHANGED <<ep0, ctl>>
    /\ UNCHANGED <<speed, mapping, func, address>>

ControlStatus(rest) ==
    /\ events' = rest
    /\ IF ctl.stage = "status"
       THEN /\ CompleteControl(TRUE)
            /\ upcalls' = CompletionCall
            /\ ctl' = Idle
       ELSE upcalls' = {} /\ UNCHANGED <<address, ctl>>
    /\ Keep /\ UNCHANGED <<speed, mapping, func, ep0>>

\* packetReceived() or transmitComplete() of the function the endpoint is
\* mapped to, which then has its endpoint back.
DataCompleted(a, rest) ==
    /\ events' = rest
    /\ IF Owner(a).present
       THEN LET f == Owner(a).fn
                l == EpNum(Owner(a).value)
            IN  /\ upcalls' = {[fn |-> f, ep |-> l]}
                /\ view' = [view EXCEPT ![f][l] = "idle"]
       ELSE upcalls' = {} /\ view' = view
    /\ UNCHANGED <<stackVars, ep, ep0, address>>

ProcessEvent ==
    /\ connected /\ events # << >>
    /\ LET e    == Head(events)
           rest == Tail(events)
       IN  CASE e.kind = "reset"  -> ProcessReset(e.speed) /\ events' = rest
             [] e.kind = "setup"  -> Setup(e.req, rest)
             [] e.kind = "ctlOut" -> ControlData(rest)
             [] e.kind = "status" -> ControlStatus(rest)
             [] e.kind = "data"   -> DataCompleted(e.addr, rest)
    /\ UNCHANGED <<connected, host, resets>>

-----------------------------------------------------------------------------
(* A function hands an endpoint to the controller, and knows when it may.  *)

FunctionUses(f, l) ==
    /\ f \in logic /\ view[f][l] = "idle"
    /\ LET a == ToPhysicalEndpoint(f, l, Active)
       IN  /\ a \in DataAddresses
           /\ ep' = [ep EXCEPT ![a] = IF @ = "closed" THEN "closed" ELSE "armed"]
    /\ view' = [view EXCEPT ![f][l] = "waiting"]
    /\ upcalls' = {}
    /\ UNCHANGED <<connected, stackVars, ep0, address, events, host, resets>>

-----------------------------------------------------------------------------
(* The bus.                                                                *)

BusStep == upcalls' = {} /\ UNCHANGED <<connected, stackVars, view>>

BusReset(s) ==
    /\ connected /\ resets < MaxResets
    /\ resets' = resets + 1
    /\ ep' = [a \in DataAddresses |-> "closed"] /\ ep0' = "nak" /\ address' = 0
    /\ events' = << ResetEvent(s) >>
    /\ host' = [Detached EXCEPT !.stage = "idle"]
    /\ BusStep

Pending(kind) == \E i \in 1..Len(events) : events[i].kind = kind

\* A request whose outcome the host does not know leaves it unsure of the
\* configuration.
HostSetup(req) ==
    /\ host.stage = "idle" \/ (GiveUp /\ host.stage = "busy")
    /\ address = host.address
    /\ ~Pending("reset") /\ ~Pending("setup") /\ ~Pending("ctlOut")
    /\ req.op = "setAddress" => host.config = 0
    /\ ep0' = "nak"
    /\ events' = Append(events, ControlEvent("setup", req))
    /\ host' = [host EXCEPT !.stage = "busy", !.req = req,
                            !.config = IF req.op = "setConfiguration" THEN 0 ELSE @]
    /\ BusStep /\ UNCHANGED <<ep, address, resets>>

HostSendsData ==
    /\ host.stage = "busy" /\ ep0 = "receive"
    /\ ep0' = "nak"
    /\ events' = Append(events, ControlEvent("ctlOut", NoRequest))
    /\ BusStep /\ UNCHANGED <<ep, address, host, resets>>

HostSeesStall ==
    /\ host.stage = "busy" /\ ep0 = "stall"
    /\ host' = [host EXCEPT !.stage = "idle", !.req = NoRequest]
    /\ BusStep /\ UNCHANGED <<ep, ep0, address, events, resets>>

HostSeesStatus ==
    /\ host.stage = "busy" /\ ep0 = "status"
    /\ ep0' = "nak"
    /\ events' = Append(events, ControlEvent("status", NoRequest))
    /\ host' = [host EXCEPT !.stage = "idle", !.req = NoRequest,
           !.address = IF host.req.op = "setAddress" THEN host.req.value ELSE @,
           !.config = IF host.req.op = "setConfiguration" THEN host.req.value ELSE @]
    /\ BusStep /\ UNCHANGED <<ep, address, resets>>

HostMovesData(a) ==
    /\ host.stage # "detached" /\ ep[a] = "armed"
    /\ ep' = [ep EXCEPT ![a] = "nak"]
    /\ events' = Append(events, DataEvent(a))
    /\ BusStep /\ UNCHANGED <<ep0, address, host, resets>>

HostNext ==
    \/ \E s \in Speeds : BusReset(s)
    \/ \E req \in Requests : HostSetup(req)
    \/ HostSendsData \/ HostSeesStall \/ HostSeesStatus
    \/ \E a \in DataAddresses : HostMovesData(a)

DevNext ==
    \/ Start \/ Stop
    \/ ProcessEvent
    \/ \E f \in Functions, l \in Logicals : FunctionUses(f, l)
    \/ HostNext

DevSpec == DevInit /\ [][DevNext]_vars

-----------------------------------------------------------------------------
(* Properties.                                                             *)

\* No function is called before its logic object exists: not after another
\* function failed to initialize, not by an event of an endpoint the failed
\* configuration opened, not by a request to the device (usb-device.cpp:95, 110, 134).
NoNullLogic == [][\A u \in upcalls' : u.fn \in logic]_vars

\* packetReceived() and transmitComplete() answer a call the function made on
\* that endpoint and that has not been answered: bus resets, a second
\* SET_CONFIGURATION and a change of speed, with another mapping, included.
CallbackOwed ==
    [][\A u \in upcalls' : u.ep # ControlCall => view[u.fn][u.ep] = "waiting"]_vars

Attached == connected /\ host.stage # "detached" /\ ~Pending("reset")

\* While the device is configured, an endpoint that a function handed over is
\* still with the controller or its event is on the way
\* (pcd-interface.hpp:38-39 and 51-52).
PromiseKept ==
    Attached /\ configured = "CONFIGURED" =>
        \A f \in Functions, l \in Logicals : view[f][l] = "waiting" =>
            LET a == ToPhysicalEndpoint(f, l, Active)
            IN  \/ ep[a] \in {"armed", "stall"}
                \/ DataEvent(a) \in {events[i] : i \in 1..Len(events)}

\* The address changes when the status stage of SET_ADDRESS has been
\* acknowledged, and never for a request that was dropped, failed or overtaken:
\* host and device always find each other.
AddressAgrees == Attached /\ ~Pending("status") => address = host.address

\* A device whose host has seen SET_CONFIGURATION succeed is configured, with
\* all its functions and endpoints.
ConfigurationAgrees ==
    Attached /\ host.config # 0 =>
        /\ configured = "CONFIGURED" /\ logic = Functions
        /\ \A a \in OpenedAt[speed] : ep[a] # "closed"

\* Host and device have the same idea of the device's state.
HostAgrees == AddressAgrees /\ ConfigurationAgrees

=============================================================================
