------------------------------ MODULE MC_Claims ------------------------------
(***************************************************************************)
(* One room's staff and slots, for TLC.  MaxRequests bounds everything     *)
(* that people do; the requests served at a time are interchangeable.      *)
(***************************************************************************)
EXTENDS Claims, TLC

Interchangeable == Permutations(Handlers) \cup Permutations(Jobs)
=============================================================================
