-------------------------- MODULE MC_PortAllocator --------------------------
(***************************************************************************)
(* Rooms are interchangeable model values in every formula of the module;  *)
(* pairs are not, because a configured range tells them apart.             *)
(***************************************************************************)
EXTENDS PortAllocator, TLC

RoomSymmetry == Permutations(Rooms)
=============================================================================
