------------------------------- MODULE MC_Fleet -------------------------------
(* Two rooms for TLC: every order of two requests, and a pace of one. *)
EXTENDS Fleet

TwoRooms == 1..2
=============================================================================
