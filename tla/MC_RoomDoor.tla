----------------------------- MODULE MC_RoomDoor -----------------------------
(* One room's door for TLC; the requests served at a time are interchangeable. *)
EXTENDS RoomDoor, TLC

Interchangeable == Permutations(Handlers)
=============================================================================
