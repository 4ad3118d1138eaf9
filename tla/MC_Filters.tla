----------------------------- MODULE MC_Filters -----------------------------
(* Filters for TLC. *)
EXTENDS Filters, TLC

Interchangeable == Permutations(Handlers) \cup Permutations(Rules)
=============================================================================
