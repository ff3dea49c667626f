------------------------- MODULE MCCapacityHandler -------------------------
(* Two BATs whose cps differ; ten cps are one unit of the delta. *)
EXTENDS CapacityHandler, TLC

CONSTANTS b1, b2

MCBats == {b1, b2}
MCInitial == (b1 :> 10) @@ (b2 :> 20)
MCUp == (b1 :> 20) @@ (b2 :> 30)
MCDown == (b1 :> 10) @@ (b2 :> 10)
=============================================================================
