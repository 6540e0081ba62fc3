----------------------------- MODULE MCNetstate -----------------------------
(* Two uplinks on both platforms; three calls, among which one kernel       *)
(* operation fails, the defaults move, the monitor is cut off or awl is killed.*)
EXTENDS Netstate
=============================================================================
