------------------------------- MODULE MCDevice -------------------------------
(***************************************************************************)
(* A device from its tables down, for one run of TLC: the compiler that    *)
(* generates them, the device that is built with them, and the driver of   *)
(* the peripheral below it.  A behaviour is about one of the three.        *)
(***************************************************************************)
EXTENDS MCUsbDevice, MCStm32Pcd, EndpointAllocator

\* Up to three endpoints a direction, with few features and with every one.
SmallTargets ==
    {[in |-> 3, out |-> 3, features |-> f] : f \in {{"sameType"}, Features}}
    \cup {[in |-> 2, out |-> 3, features |-> {"doubleUnidirectional"}]}

VARIABLE used       \* what this behaviour is about

allVars == <<allocVars, vars, pcdVars, used>>

AllInit ==
    /\ AllocInit /\ DevInit /\ PcdInit
    /\ used \in {"compiler", "device", "driver"}
    /\ used # "compiler" => target = CHOOSE t \in Targets : TRUE

\* The compiler is done when it has built its tables or failed.
Done == stage \in {"built", "failed"} /\ UNCHANGED allocVars

AllNext ==
    /\ UNCHANGED used
    /\ \/ used = "compiler" /\ (AllocNext \/ Done) /\ UNCHANGED <<vars, pcdVars>>
       \/ used = "device" /\ DevNext /\ UNCHANGED <<allocVars, pcdVars>>
       \/ used = "driver" /\ PcdNext /\ UNCHANGED <<allocVars, vars>>

AllSpec == AllInit /\ [][AllNext]_allVars
=============================================================================
