--------------------------- MODULE MC_SlotControl ---------------------------
(***************************************************************************)
(* One slot of one room, for TLC.  Helpers are interchangeable, but no run *)
(* uses symmetry: most of them check liveness.                             *)
(***************************************************************************)
EXTENDS SlotControl
=============================================================================
