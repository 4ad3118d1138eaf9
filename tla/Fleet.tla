-------------------------------- MODULE Fleet --------------------------------
(***************************************************************************)
(* The loop over the whole fleet: when it looks (main.rs), what it does    *)
(* about all the rooms it sees at once (the second half of plan.rs), and   *)
(* how the requests for a restart drain.  A full pass runs once an         *)
(* interval; in between, while anything is on its way, short convergence   *)
(* passes run.                                                             *)
(*                                                                         *)
(* What is decided about one room is Planner's StepFor.  A step is one     *)
(* action here, done or not: RoomLifecycle takes it apart.  Deployments    *)
(* are of the current definition, no room is idle enough to be reaped and  *)
(* none is old enough to have run into a deadline.                         *)
(***************************************************************************)
EXTENDS Planner, Sequences

CONSTANTS
    Rooms,        \* their ids
    Interval,     \* PUNA_RECONCILE_INTERVAL, in PUNA_CONVERGE_INTERVALs
    MaxFaults     \* bound: skipped and failed steps, failed passes and pods

ASSUME FleetAssumption ==
    /\ Rooms \subseteq Nat
    /\ Interval \in Nat \ {0} /\ MaxFaults \in Nat

VARIABLES
    room,      \* the rooms rows
    dep,       \* the rooms' Deployments
    line,      \* the pending requests for a restart, by redeploy_requested_at
    loop,      \* where the loop is, and how long until the next full pass is due
    plan,      \* what is left of the plan of the pass under way
    unready,   \* history: full passes in a row that saw a running room not ready
    since,     \* history: since the last full pass began, rooms recreated and rooms asked of
    faults     \* faults left

vars == <<room, dep, line, loop, plan, unready, since, faults>>

NoPlan == [r \in Rooms |-> NoStep]

TypeOK ==
    /\ room \in [Rooms -> [state : {"idle", "stopping"} \cup Live,
                           desired : {"running", "stopped"}, notReady : 0..DegradedSweeps]]
    /\ dep \in [Rooms -> {"none", "unready", "ready", "deleting"}]
    /\ line \in Seq(Rooms) /\ \A i, j \in 1..Len(line) : line[i] = line[j] => i = j
    /\ loop \in [at : {"awake", "pass", "converging", "resting", "failed"},
                 left : 0..Interval, pending : BOOLEAN]
    /\ plan \in [Rooms -> Steps \cup {NoStep}]
    /\ unready \in [Rooms -> 0..DegradedSweeps]
    /\ since \in [recreated : Nat, asked : SUBSET Rooms]
    /\ faults \in 0..MaxFaults

Init ==
    /\ room = [r \in Rooms |-> [state |-> "running", desired |-> "running", notReady |-> 0]]
    /\ dep = [r \in Rooms |-> "ready"]
    /\ line = <<>>
    /\ loop = [at |-> "awake", left |-> 0, pending |-> FALSE]
    /\ plan = NoPlan
    /\ unready = [r \in Rooms |-> 0]
    /\ since = [recreated |-> 0, asked |-> {}]
    /\ faults = MaxFaults

(***************************************************************************)
(* What a pass sees, and what it plans.                                    *)
(***************************************************************************)
InLine(r) == \E i \in 1..Len(line) : line[i] = r

View(r) == [state |-> room[r].state, desired |-> room[r].desired, redeploy |-> InLine(r),
            notReady |-> room[r].notReady, hash |-> 1, rendersAs |-> 1, age |-> 0,
            abandoned |-> FALSE, retry |-> "none"]

Observed(r) == [here |-> dep[r] # "none", hash |-> 1, deleting |-> dep[r] = "deleting",
                ready |-> dep[r] = "ready"]

Wanted(full, r) ==
    LET step == StepFor(View(r), Observed(r)) IN IF AllowedIn(full, step) THEN step ELSE NoStep

\* Mutant: rooms are restarted in the order of their ids.
LowerId(q, r) == q < r

\* Sorted by redeploy_requested_at.
Earlier(q, r) == \E i, j \in 1..Len(line) : i < j /\ line[i] = q /\ line[j] = r

\* The oldest MaxRecreates of the restarts go ahead; the rest are deferred.
Deferred(full, r) ==
    /\ Wanted(full, r) = "Recreate"
    /\ Cardinality({q \in Rooms : Wanted(full, q) = "Recreate" /\ Earlier(q, r)}) >= MaxRecreates

Plan(full) == [r \in Rooms |-> IF Deferred(full, r) THEN NoStep ELSE Wanted(full, r)]

\* Mutant: a restart is over once the Deployment is deleted.
RestartIsOver(step) == step \in {"Start", "Stop", "MarkIdle"}

\* leaves_work_pending.
LeavesWorkPending(step) == step \in {"Start", "Recreate", "Stop", "MarkIdle"}

\* A room between two states at rest, as its row shows it.
MidFlight(r) ==
    \/ room[r].state \in {"starting", "stopping"}
    \/ room[r].state = "idle" /\ room[r].desired = "running"

\* converging, over the rows and the list of Deployments.
Converging == \E r \in Rooms : MidFlight(r) \/ dep[r] = "deleting"

(***************************************************************************)
(* The loop.                                                               *)
(***************************************************************************)

\* Mutant: every pass puts the next full one off.
StampEveryPass(full) == Interval

\* last_reconcile moves with full passes only.
Stamp(full) == IF full THEN Interval ELSE loop.left

CountUnready(full) ==
    [r \in Rooms |->
        IF room[r].state # "running" \/ (dep[r] = "ready" /\ room[r].notReady = 0) THEN 0
        ELSE IF full /\ dep[r] # "ready" /\ unready[r] < DegradedSweeps THEN unready[r] + 1
        ELSE unready[r]]

BeginPass ==
    /\ loop.at = "awake"
    /\ LET full == loop.left = 0 IN
       /\ plan' = Plan(full)
       /\ loop' = [at |-> "pass", left |-> Stamp(full),
                   pending |-> Converging \/ \E r \in Rooms : LeavesWorkPending(Plan(full)[r])]
       /\ unready' = CountUnready(full)
       /\ since' = [recreated |-> IF full THEN 0 ELSE since.recreated, asked |-> {}]
    /\ UNCHANGED <<room, dep, line, faults>>

\* The pass cannot read the cluster or the rows, or loses the lock on its way:
\* nothing is known, so the next look is the next full pass.
PassFails ==
    /\ loop.at = "pass" /\ faults > 0
    /\ faults' = faults - 1
    /\ plan' = NoPlan
    /\ loop' = [loop EXCEPT !.at = "failed", !.pending = FALSE]
    /\ UNCHANGED <<room, dep, line, unready, since>>

\* A pass may take until the next full one is due.
EndPass ==
    /\ loop.at = "pass" /\ plan = NoPlan
    /\ \E left \in {0, loop.left} :
        loop' = [at |-> IF loop.pending THEN "converging" ELSE "resting",
                 left |-> left, pending |-> FALSE]
    /\ UNCHANGED <<room, dep, line, plan, unready, since, faults>>

\* It sleeps for a converge interval, or until the next full pass is due, the
\* shorter of the two.
Wake ==
    /\ loop.at \in {"converging", "resting", "failed"}
    /\ loop' = [loop EXCEPT !.at = "awake",
                            !.left = IF loop.at = "converging" /\ @ > 0 THEN @ - 1 ELSE 0]
    /\ UNCHANGED <<room, dep, line, plan, unready, since, faults>>

(***************************************************************************)
(* The steps, each taken as it was planned.                                *)
(***************************************************************************)
Takes(r, step) ==
    /\ plan[r] = step
    /\ plan' = [plan EXCEPT ![r] = NoStep]
    /\ UNCHANGED <<loop, faults>>

Moves(r, state) == room' = [room EXCEPT ![r].state = state, ![r].notReady = 0]
Place(r) == CHOOSE i \in 1..Len(line) : line[i] = r
Satisfied(r) ==
    line' = IF InLine(r)
            THEN SubSeq(line, 1, Place(r) - 1) \o SubSeq(line, Place(r) + 1, Len(line))
            ELSE line
Deletes(r) == dep' = [dep EXCEPT ![r] = IF @ = "none" THEN @ ELSE "deleting"]

\* A start that finds the last Deployment still going leaves it to a later pass.
Start(r) ==
    /\ Takes(r, "Start")
    /\ IF dep[r] = "deleting" THEN UNCHANGED <<room, dep, line>>
       ELSE /\ dep' = [dep EXCEPT ![r] = IF @ = "none" THEN "unready" ELSE @]
            /\ Moves(r, "starting")
            /\ Satisfied(r)
    /\ UNCHANGED <<unready, since>>

Recreate(r) ==
    /\ Takes(r, "Recreate")
    /\ Deletes(r) /\ Moves(r, "idle") /\ Satisfied(r)
    /\ since' = [since EXCEPT !.recreated = @ + 1]
    /\ UNCHANGED unready

Stop(r) ==
    /\ Takes(r, "Stop")
    /\ Deletes(r)
    /\ room' = [room EXCEPT ![r].state = "stopping"]
    /\ UNCHANGED <<line, unready, since>>

MarkIdle(r) ==
    /\ Takes(r, "MarkIdle")
    /\ Moves(r, "idle")
    /\ UNCHANGED <<dep, line, unready, since>>

MarkRunning(r) ==
    /\ Takes(r, "MarkRunning")
    /\ Moves(r, "running")
    /\ unready' = [unready EXCEPT ![r] = 0]
    /\ UNCHANGED <<dep, line, since>>

\* bump_not_ready, for both.
NotReady(r) ==
    /\ Takes(r, "NotReady") \/ Takes(r, "MarkDegraded")
    /\ room' = [room EXCEPT ![r].notReady = @ + 1,
                            ![r].state = IF plan[r] = "MarkDegraded" THEN "degraded" ELSE @]
    /\ UNCHANGED <<dep, line, unready, since>>

\* Somebody else holds the room's lock, or the step errors before it does anything.
StepSkipped(r) ==
    /\ plan[r] # NoStep /\ faults > 0
    /\ faults' = faults - 1
    /\ plan' = [plan EXCEPT ![r] = NoStep]
    /\ UNCHANGED <<room, dep, line, loop, unready, since>>

Step(r) ==
    \/ Start(r) \/ Recreate(r) \/ Stop(r) \/ MarkIdle(r) \/ MarkRunning(r) \/ NotReady(r)

(***************************************************************************)
(* Everybody else.                                                         *)
(***************************************************************************)
World == UNCHANGED <<loop, plan, unready, faults>>

\* request_state.  Nothing in the repository notifies the channel the loop
\* listens on, so nobody is woken.
RequestState(r, desired) ==
    /\ room[r].desired # desired
    /\ room' = [room EXCEPT ![r].desired = desired]
    /\ since' = [since EXCEPT !.asked = @ \cup {r}]
    /\ World /\ UNCHANGED <<dep, line>>

\* Mutant: a second request for the same room is a request like any other.
RequestTwice(r) ==
    /\ line' = Append(line, r)
    /\ World /\ UNCHANGED <<room, dep, since>>

\* request_redeploy: a pending request keeps its place.  (Those of one statement
\* share a timestamp and go by id, as if made one by one in that order.)
RequestRedeploy(r) ==
    /\ ~InLine(r)
    /\ line' = Append(line, r)
    /\ World /\ UNCHANGED <<room, dep, since>>

PodReady(r) ==
    /\ dep[r] = "unready"
    /\ dep' = [dep EXCEPT ![r] = "ready"]
    /\ World /\ UNCHANGED <<room, line, since>>

PodFails(r) ==
    /\ dep[r] = "ready" /\ faults > 0
    /\ faults' = faults - 1
    /\ dep' = [dep EXCEPT ![r] = "unready"]
    /\ UNCHANGED <<room, line, loop, plan, unready, since>>

Collect(r) ==
    /\ dep[r] = "deleting"
    /\ dep' = [dep EXCEPT ![r] = "none"]
    /\ World /\ UNCHANGED <<room, line, since>>

Loop == BeginPass \/ EndPass \/ Wake \/ \E r \in Rooms : Step(r)
Fault == PassFails \/ \E r \in Rooms : StepSkipped(r)
Outside == \E r \in Rooms :
    \/ \E desired \in {"running", "stopped"} : RequestState(r, desired)
    \/ RequestRedeploy(r) \/ PodReady(r) \/ PodFails(r) \/ Collect(r)

Next == Loop \/ Fault \/ Outside

\* The loop goes on, and a deletion once accepted is carried out.
Fairness == WF_vars(Loop) /\ \A r \in Rooms : WF_vars(Collect(r))

Spec == Init /\ [][Next]_vars /\ Fairness

-----------------------------------------------------------------------------
(***************************************************************************)
(* Properties.                                                             *)
(***************************************************************************)

\* However often the loop looks, no more rooms go down for a restart between
\* two full passes than the pace allows: the cap is per pass, and the pace is
\* meant per interval (plan.rs:371-376).
RestartsArePaced == since.recreated <= MaxRecreates

\* A room is called degraded only after full passes, one short of the number,
\* each saw it without a ready replica and none marked it running again:
\* convergence passes never count (plan.rs:383-385).  One short, since the last
\* may be a convergence pass, which takes MarkDegraded.
DegradedTakesSweeps ==
    [][\A r \in Rooms : room[r].state = "running" /\ room'[r].state = "degraded"
            => unready[r] + 1 >= DegradedSweeps]_vars

\* The loop goes back to its long interval only when nothing it knew of is
\* under way (plan.rs:239-240), however its passes and steps overlapped with
\* the rooms; a room asked for since it looked, and a pass that failed, are the
\* exceptions.
NothingLeftInFlight ==
    loop.at = "resting" => \A r \in Rooms \ since.asked : ~MidFlight(r)

\* "A room cannot be starved by later requests arriving" (plan.rs:402): a room
\* that stays wanted is restarted, though others are asked for without end.
NoRequestStarves ==
    \A r \in Rooms : []<>(~InLine(r) \/ room[r].desired = "stopped")

\* Convergence never puts off the full pass, and with it the sweep, the probe
\* and the hourly lane (main.rs:205-208).
FullPassesKeepComing == []<>(loop.left = 0)
=============================================================================
