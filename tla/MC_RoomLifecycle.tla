--------------------------- MODULE MC_RoomLifecycle ---------------------------
(***************************************************************************)
(* RoomLifecycle for TLC.  The orchestrator works on one room at a time,   *)
(* so one room meets every interleaving of one step with the web, the      *)
(* cluster and faults.                                                     *)
(***************************************************************************)
EXTENDS RoomLifecycle
=============================================================================
