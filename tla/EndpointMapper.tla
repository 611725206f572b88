---------------------------- MODULE EndpointMapper ----------------------------
(***************************************************************************)
(* The translation between the endpoint and interface numbers of the bus   *)
(* and the logical numbers of the functions (endpoint-mapper.cpp), over    *)
(* the tables the descriptor compiler generates.  A table entry is a byte: *)
(* the function's index plus one in the upper half, the logical number in  *)
(* the lower one, and zero where nothing is mapped.                        *)
(***************************************************************************)
EXTENDS Naturals

CONSTANTS
    MaxIn, MaxOut,          \* UB_USBD_MAX_IN_ENDPOINTS, UB_USBD_MAX_OUT_ENDPOINTS
    MaxFunctions,           \* UB_USBD_MAX_FUNCTIONS
    MaxFuncEndpoints,       \* UB_USBD_MAX_FUNC_ENDPOINTS
    MaxInterfaces           \* UB_USBD_MAX_INTERFACES

\* config.hpp checks these limits when it is compiled.
ASSUME MapperAssumption ==
    /\ MaxIn \in 1..16 /\ MaxOut \in 1..16
    /\ MaxFunctions \in 1..15 /\ MaxFuncEndpoints \in 1..16
    /\ MaxInterfaces \in Nat \ {0}

Byte        == 0..255
EP_IN       == 128
IsIn(addr)  == addr >= EP_IN
EpNum(addr) == addr % 16

Functions == 0..(MaxFunctions - 1)
Logicals  == 0..(MaxFuncEndpoints - 1)

Mapping == [ in            : [0..(MaxIn - 1) -> Byte],
             out           : [0..(MaxOut - 1) -> Byte],
             funcEndpoints : [Functions -> [0..(MaxFuncEndpoints - 1) -> Byte]],
             interfaces    : [0..(MaxInterfaces - 1) -> Byte],
             funcInterfaceBase : [Functions -> Byte] ]

NotMapped == [present |-> FALSE, fn |-> 0, value |-> 0]
Mapped(f, v) == [present |-> TRUE, fn |-> f, value |-> v]

TransformMapping(entry, extra) ==
    IF entry \div 16 = 0 THEN NotMapped
    ELSE Mapped((entry \div 16) - 1, (entry % 16) + extra)

ToLogicalEndpoint(addr, mapping) ==
    LET table == IF IsIn(addr) THEN mapping.in ELSE mapping.out
    IN  IF EpNum(addr) \in DOMAIN table
        THEN TransformMapping(table[EpNum(addr)], IF IsIn(addr) THEN EP_IN ELSE 0)
        ELSE NotMapped

Unmapped == 255

ToPhysicalEndpoint(f, logical, mapping) ==
    IF logical >= MaxFuncEndpoints THEN Unmapped ELSE mapping.funcEndpoints[f][logical]

\* The bounds check lets one index past the array through, which reads the byte
\* that follows it in the structure: the first of funcInterfaceBase.
ToLogicalInterface(number, mapping) ==
    CASE number > MaxInterfaces -> NotMapped
      [] MaxFunctions = 1 -> Mapped(0, number)
      [] MaxFunctions > 1 /\ number = MaxInterfaces ->
             TransformMapping(mapping.funcInterfaceBase[0], 0)
      [] OTHER -> TransformMapping(mapping.interfaces[number], 0)

\* What the device needs of its tables, and the descriptor compiler gives it
\* (EndpointAllocator), "opened" being the addresses configureDevice() opens:
\* exactly these lead to a function, each to a number of its own that leads back,
\* and any other number of a function leads to the zero of the padding.
LeadsBack(tables, opened) ==
    /\ \A a \in (0..15) \cup (128..143) :
           LET to == ToLogicalEndpoint(a, tables)
           IN  /\ to.present = (a \in opened)
               /\ to.present => /\ to.fn \in Functions /\ EpNum(to.value) \in Logicals
                                /\ ToPhysicalEndpoint(to.fn, EpNum(to.value), tables) = a
    /\ \A f \in Functions, l \in Logicals :
           LET a  == ToPhysicalEndpoint(f, l, tables)
               to == ToLogicalEndpoint(a, tables)
           IN  a # 0 => a \in opened /\ to.fn = f /\ EpNum(to.value) = l
    /\ \A n \in 0..MaxInterfaces :
           LET to == ToLogicalInterface(n, tables) IN to.present => to.fn \in Functions

=============================================================================
