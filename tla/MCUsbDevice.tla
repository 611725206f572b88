----------------------------- MODULE MCUsbDevice -----------------------------
(***************************************************************************)
(* Two functions with one data endpoint each: an OUT endpoint whose number *)
(* depends on the speed, and an IN endpoint.                               *)
(***************************************************************************)
EXTENDS UsbDevice, TLC

SmallTables(in, out, funcs) ==
    [ in |-> in, out |-> out,
      funcEndpoints |-> [f \in Functions |-> [l \in Logicals |-> IF l = 0 THEN funcs[f + 1] ELSE 0]],
      interfaces |-> [n \in 0..(MaxInterfaces - 1) |-> IF n < 2 THEN 16 * (n + 1) ELSE 0],
      funcInterfaceBase |-> (0 :> 0 @@ 1 :> 1) ]

SmallMappings ==
    [ full |-> SmallTables(0 :> 0 @@ 1 :> 32 @@ 2 :> 0, 0 :> 0 @@ 1 :> 16 @@ 2 :> 0, <<1, 129>>),
      high |-> SmallTables(0 :> 0 @@ 1 :> 32 @@ 2 :> 0, 0 :> 0 @@ 1 :> 0 @@ 2 :> 16, <<2, 129>>) ]

SmallEndpoints == [ full |-> {1, 129}, high |-> {2, 129} ]

=============================================================================
