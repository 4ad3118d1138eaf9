----------------------------- MODULE RoomPromise ------------------------------
(***************************************************************************)
(* What a room promises, whatever it takes to keep it: which definition    *)
(* its one Deployment runs, where its save directory is, and whether it is *)
(* known at all.  One definition is never rolled into another, because two *)
(* pods may not share the directory (steps.rs:777); nothing runs over data *)
(* that is being put away; and a room that is forgotten stays so and runs  *)
(* nothing.  RoomLifecycle implements it.                                  *)
(***************************************************************************)
CONSTANTS
    Rooms,
    Definitions,    \* what a Deployment may run
    Nothing         \* no Deployment

VARIABLES
    known,  \* the room has a row
    runs,   \* the definition its Deployment runs
    data    \* its directory

promised == <<known, runs, data>>

Init ==
    /\ known = [r \in Rooms |-> TRUE]
    /\ runs = [r \in Rooms |-> Nothing]
    /\ data = [r \in Rooms |-> "absent"]

Serve(r, definition) ==
    /\ known[r] /\ runs[r] = Nothing
    /\ runs' = [runs EXCEPT ![r] = definition]
    /\ UNCHANGED <<known, data>>

Cease(r) ==
    /\ runs[r] # Nothing
    /\ runs' = [runs EXCEPT ![r] = Nothing]
    /\ UNCHANGED <<known, data>>

\* A directory is made, or lost under everybody's feet.
Supply(r) ==
    /\ known[r]
    /\ data' = [data EXCEPT ![r] = "present"]
    /\ UNCHANGED <<known, runs>>

Lose(r) ==
    /\ data[r] = "present"
    /\ data' = [data EXCEPT ![r] = "absent"]
    /\ UNCHANGED <<known, runs>>

PutAway(r) ==
    /\ data[r] = "present" /\ runs[r] = Nothing
    /\ data' = [data EXCEPT ![r] = "trashed"]
    /\ UNCHANGED <<known, runs>>

Forget(r) ==
    /\ known[r] /\ runs[r] = Nothing
    /\ known' = [known EXCEPT ![r] = FALSE]
    /\ UNCHANGED <<runs, data>>

Next ==
    \E r \in Rooms :
        \/ \E definition \in Definitions : Serve(r, definition)
        \/ Cease(r) \/ Supply(r) \/ Lose(r) \/ PutAway(r) \/ Forget(r)

Spec == Init /\ [][Next]_promised
=============================================================================
