--------------------------- MODULE EndpointAllocator ---------------------------
(***************************************************************************)
(* The descriptor compiler from the endpoints and interfaces its functions *)
(* ask for to the tables the device is built with: EndpointAllocator and   *)
(* DescriptorState hand out physical numbers, DescriptorCodeGenerator and  *)
(* GenericTargetGenerator print them, and the checks the generated file    *)
(* carries compare them with the limits of the build (EndpointMapper).     *)
(*                                                                         *)
(* A function's endpoints are taken one at a time; that the code validates *)
(* the whole list first makes no difference to what it produces.           *)
(***************************************************************************)
EXTENDS EndpointMapper, FiniteSets, FiniteSetsExt, Sequences

CONSTANTS
    Targets,        \* TargetProperties: numbers of endpoints and features
    Types,          \* endpoint types other than CONTROL
    Requested,      \* logical addresses a function may ask for
    Buffers,        \* values of numBuffers
    Interfaces      \* numbers of interfaces a function may have

InOut == {"in", "out"}
Reverse(d) == IF d = "in" THEN "out" ELSE "in"
Features   == {"sameType", "doubleExplicit", "doubleUnidirectional"}

Definitions == [ logical : Requested, dir : InOut,
                 type : Types \cup {"control"}, buffers : Buffers ]

ASSUME AllocatorAssumption ==
    /\ Targets \subseteq [in : 1..16, out : 1..16, features : SUBSET Features]
    /\ "control" \notin Types /\ "none" \notin Types
    /\ Requested \subseteq Nat /\ Buffers \subseteq Nat \ {0} /\ Interfaces \subseteq Nat

VARIABLES
    target,         \* the properties of the hardware
    slots,          \* AllocState of every endpoint, by direction and number
    functions,      \* physical endpoint of a function's logical addresses
    current,        \* the function whose endpoints or interfaces are handled
    physical,       \* function and logical number of every interface
    bases,          \* first interface of the functions handled so far
    stage

allocVars == <<target, slots, functions, current, physical, bases, stage>>

Slot(st, ty, f, l, b) == [status |-> st, type |-> ty, fn |-> f, logical |-> l, buffers |-> b]
Free == Slot("free", "none", 0, 0, 1)
ControlSlot == Slot("control", "control", 0, 0, 1)
Invalid == [Free EXCEPT !.status = "invalid"]

CreateEndpoints(count) == [i \in 0..(count - 1) |-> IF i = 0 THEN ControlSlot ELSE Free]

AllocInit ==
    /\ target \in Targets
    /\ slots = [d \in InOut |-> CreateEndpoints(target[d])]
    /\ functions = [f \in Functions |-> << >>]
    /\ current = 0
    /\ physical = << >> /\ bases = << >>
    /\ stage = "endpoints"

Fail == stage' = "failed" /\ UNCHANGED <<target, slots, functions, current, physical, bases>>

-----------------------------------------------------------------------------
(* Endpoints.                                                              *)

Has(feature) == feature \in target.features
Single(def) == ~Has("doubleUnidirectional") \/ def.buffers = 1

\* Whether an endpoint fits number i, given what uses the other direction of it.
Fits(def, i) ==
    /\ slots[def.dir][i].status = "free"
    /\ i \in DOMAIN slots[Reverse(def.dir)] =>
         LET rev == slots[Reverse(def.dir)][i]
         IN  /\ Has("sameType") /\ rev.status # "free"
                  => rev.status = "data" /\ rev.type = def.type
             /\ Single(def) \/ rev.status = "free"

Candidates(def) == {i \in DOMAIN slots[def.dir] : Fits(def, i)}

\* validateEndpoints(), and the first test of addEndpoint().
Acceptable(def) ==
    /\ def.logical \notin DOMAIN functions[current]
    /\ def.type # "control"
    /\ ~(Has("doubleExplicit") /\ def.buffers > 2)

\* Mutant of Allocated: the other direction of a double-buffered endpoint stays
\* available.
AllocatedSharing(def, i) ==
    [slots EXCEPT ![def.dir][i] = Slot("data", def.type, current, def.logical, def.buffers)]

Allocated(def, i) ==
    LET rev == Reverse(def.dir)
        new == Slot("data", def.type, current, def.logical, def.buffers)
    IN  [d \in InOut |->
            IF d = def.dir THEN [slots[d] EXCEPT ![i] = new]
            ELSE IF ~Single(def) /\ i \in DOMAIN slots[rev] THEN [slots[d] EXCEPT ![i] = Invalid]
            ELSE slots[d]]

AddEndpoint(def) ==
    /\ stage = "endpoints"
    /\ Acceptable(def) /\ Candidates(def) # {}
    /\ LET i == Min(Candidates(def))
       IN  /\ slots' = Allocated(def, i)
           /\ functions' = [functions EXCEPT ![current] =
                  [l \in DOMAIN @ \cup {def.logical} |->
                      IF l = def.logical THEN [dir |-> def.dir, number |-> i] ELSE @[l]]]
    /\ UNCHANGED <<target, current, physical, bases, stage>>

RejectEndpoint(def) ==
    /\ stage = "endpoints"
    /\ ~Acceptable(def) \/ Candidates(def) = {}
    /\ Fail

LastFunction == current = MaxFunctions - 1

NextFunction ==
    /\ stage = "endpoints"
    /\ IF LastFunction THEN current' = 0 /\ stage' = "interfaces"
                       ELSE current' = current + 1 /\ stage' = stage
    /\ UNCHANGED <<target, slots, functions, physical, bases>>

-----------------------------------------------------------------------------
(* Interfaces: sorted, a function's logical numbers are 0, 1, ...          *)

Numbered(f, count) == [k \in 1..count |-> [fn |-> f, logical |-> k - 1]]

AllocateInterfaces(count) ==
    /\ stage = "interfaces"
    /\ bases' = Append(bases, Len(physical))
    /\ physical' = physical \o Numbered(current, count)
    /\ IF LastFunction THEN current' = 0 /\ stage' = "print"
                       ELSE current' = current + 1 /\ stage' = stage
    /\ UNCHANGED <<target, slots, functions>>

-----------------------------------------------------------------------------
(* The generated tables.  The compiler that builds the device pads every   *)
(* array with zeros.                                                       *)

LogicalCount(f) == IF functions[f] = << >> THEN 0 ELSE Max(DOMAIN functions[f]) + 1

NumEndpoints(d) == 1 + Max({i \in DOMAIN slots[d] : slots[d][i].status \in {"control", "data"}})

EndpointAddress(ep) == ep.number + (IF ep.dir = "in" THEN EP_IN ELSE 0)

\* The bits of either of two numbers, the first of four bits.
HasBit(n, k) == (n \div 2^k) % 2 = 1
Or(a, b) ==
    IF b = 0 THEN a
    ELSE SumSet({2^k : k \in {j \in 0..3 : HasBit(a, j) \/ HasBit(b, j)}}) + 16 * (b \div 16)

\* Mutant of TableEntry: the function's index is not moved off zero.
TableEntryFromZero(f, logical) == 16 * Or(f, logical \div 16) + (logical % 16)

\* ((f + 1) << 4) | logical: four bits for a logical number, and one of 16 or
\* more runs into the function's.  The build checks that of endpoints
\* (UB_USBD_MAX_FUNC_ENDPOINTS), but not that of interfaces.
TableEntry(f, logical) == 16 * Or(f + 1, logical \div 16) + (logical % 16)

EndpointTable(d, length) ==
    [i \in 0..(length - 1) |->
        IF i < NumEndpoints(d) /\ slots[d][i].status = "data"
        THEN TableEntry(slots[d][i].fn, slots[d][i].logical) ELSE 0]

Tables ==
    [ in |-> EndpointTable("in", MaxIn),
      out |-> EndpointTable("out", MaxOut),
      funcEndpoints |-> [f \in Functions |-> [l \in 0..(MaxFuncEndpoints - 1) |->
          IF l \in DOMAIN functions[f] THEN EndpointAddress(functions[f][l]) ELSE 0]],
      interfaces |-> [n \in 0..(MaxInterfaces - 1) |->
          IF n < Len(physical) THEN TableEntry(physical[n + 1].fn, physical[n + 1].logical)
          ELSE 0],
      funcInterfaceBase |-> [f \in Functions |-> bases[f + 1]] ]

\* The endpoints configureDevice() opens.
Opened == UNION {{EndpointAddress([dir |-> d, number |-> i]) :
                     i \in {n \in DOMAIN slots[d] : slots[d][n].status = "data"}} :
                 d \in InOut}

\* A gap in the logical addresses has no direction to print, and a build has
\* two buffers at most.
Printable ==
    /\ \A f \in Functions : DOMAIN functions[f] = 0..(LogicalCount(f) - 1)
    /\ \A d \in InOut : \A i \in DOMAIN slots[d] :
           slots[d][i].status = "data" => slots[d][i].buffers \in {1, 2}

\* A number that does not fit its byte no initializer of the tables takes.
FitByte ==
    /\ \A n \in 1..Len(physical) : TableEntry(physical[n].fn, physical[n].logical) \in Byte
    /\ \A k \in 1..Len(bases) : bases[k] \in Byte

ConfigChecks ==
    /\ NumEndpoints("in") <= MaxIn /\ NumEndpoints("out") <= MaxOut
    /\ \A f \in Functions : LogicalCount(f) <= MaxFuncEndpoints
    /\ Len(physical) <= MaxInterfaces

Build ==
    /\ stage = "print"
    /\ stage' = IF Printable /\ FitByte /\ ConfigChecks THEN "built" ELSE "failed"
    /\ UNCHANGED <<target, slots, functions, current, physical, bases>>

AllocNext ==
    \/ \E def \in Definitions : AddEndpoint(def) \/ RejectEndpoint(def)
    \/ NextFunction
    \/ \E count \in Interfaces : AllocateInterfaces(count)
    \/ Build

AllocSpec == AllocInit /\ [][AllocNext]_allocVars

-----------------------------------------------------------------------------
(* Properties.                                                             *)

\* What the hardware cannot do is never asked of it (TargetFeature.java): both
\* directions of a number have one type, and a double-buffered endpoint leaves
\* the other direction of its number unused.
HardwareInv ==
    \A i \in DOMAIN slots["in"] \cap DOMAIN slots["out"] :
        LET a == slots["in"][i]
            b == slots["out"][i]
        IN  a.status = "data" /\ b.status = "data" =>
                /\ Has("sameType") => a.type = b.type
                /\ Has("doubleUnidirectional") => a.buffers = 1 /\ b.buffers = 1

\* The address the host reads in the descriptor of a function's endpoint leads
\* an event back to that function under its own number, the function's calls
\* reach that address, it has been opened, and no other address leads anywhere.
EndpointsLeadBack ==
    /\ \A f \in Functions : \A l \in DOMAIN functions[f] :
           LET addr == EndpointAddress(functions[f][l])
               back == ToLogicalEndpoint(addr, Tables)
           IN  /\ ToPhysicalEndpoint(f, l, Tables) = addr
               /\ addr \in Opened
               /\ back.present /\ back.fn = f /\ EpNum(back.value) = l
               /\ IsIn(back.value) = IsIn(addr)
    /\ \A addr \in (0..15) \cup (128..143) :
           LET to == ToLogicalEndpoint(addr, Tables)
           IN  to.present = (addr \in Opened)
               /\ to.present => functions[to.fn][EpNum(to.value)]
                       = [dir |-> IF IsIn(addr) THEN "in" ELSE "out", number |-> EpNum(addr)]

\* A request to an interface reaches the function that put the interface into
\* its descriptors (DescriptorResources.interfaceNumber), with the number it
\* knows the interface by; and where several functions share the device, a
\* request to any other number reaches nobody.
InterfacesLeadBack ==
    /\ \A n \in 0..(Len(physical) - 1) : ToLogicalInterface(n, Tables).present
    /\ MaxFunctions > 1 => \A n \in 0..255 :
           LET to == ToLogicalInterface(n, Tables)
           IN  to.present => /\ n < Len(physical)
                             /\ bases[to.fn + 1] + to.value = n

\* The build does not check this: no function has more than sixteen interfaces.
FewInterfaces == \A n \in 1..Len(physical) : physical[n].logical < 16

\* What the compiler generates is a "bidirectional mapping"
\* (static-config.hpp:78): of endpoints always, of interfaces as long as no
\* function has more than sixteen.
RoundTrip ==
    stage = "built" => EndpointsLeadBack /\ (FewInterfaces => InterfacesLeadBack)

=============================================================================
