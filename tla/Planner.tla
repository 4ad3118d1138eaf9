------------------------------- MODULE Planner -------------------------------
(***************************************************************************)
(* The pure half of the reconciler: plan.rs.  A view of one room and one   *)
(* observed Deployment go in, at most one step comes out.  There is no     *)
(* state here; RoomLifecycle supplies the views, and a stale view is a     *)
(* stale argument.                                                         *)
(*                                                                         *)
(* Wall-clock ages are counted in units of the constants below.  A spec    *)
(* hash is a positive number, the revision of the definition it was        *)
(* rendered from, and None (0) is SQL's NULL.                              *)
(***************************************************************************)
EXTENDS Naturals, FiniteSets

CONSTANTS
    VanishGrace,     \* VANISH_GRACE: how long an absent Deployment is doubted
    StopDeadline,    \* STOP_DEADLINE: how long a stop may take before it is repeated
    StartDeadline,   \* START_DEADLINE: how long a start may take before it fails
    DegradedSweeps,  \* DEGRADED_SWEEPS: full passes without a ready replica
    MaxRecreates,    \* max_recreates_per_tick: the pace of redeploys
    ReapsIdleRooms   \* whether an idle timeout is configured (zero disables it)

MaxReaps == 1

ASSUME PlannerAssumption ==
    /\ VanishGrace \in Nat
    /\ StopDeadline \in Nat
    /\ StartDeadline \in Nat
    /\ DegradedSweeps \in Nat \ {0}
    /\ MaxRecreates \in Nat
    /\ ReapsIdleRooms \in BOOLEAN

None == 0

States == {"provisioning", "idle", "starting", "running", "degraded",
           "stopping", "failed", "deleting", "integrity_fault"}
Live == {"starting", "running", "degraded"}
DesiredStates == {"running", "stopped", "closed", "deleted"}
AtRest == {"stopped", "closed"}

\* retry_after against the clock: absent, in the future, or reached.
RetryStates == {"none", "waiting", "due"}

Steps == {"Provision", "Start", "Recreate", "MarkRunning", "NotReady",
          "MarkDegraded", "MarkIdle", "Stop", "Retry", "Delete", "FailStart",
          "Reap"}
NoStep == "NoStep"

\* What the cluster reports of a room's one Deployment.
Absent == [here |-> FALSE, hash |-> None, deleting |-> FALSE, ready |-> FALSE]

(***************************************************************************)
(* Decisions about one room v with observed Deployment d.                  *)
(***************************************************************************)

\* `abandoned`: unpinned, and quiet for longer than the timeout as far as a
\* fresh https probe can tell (a probe that could not answer never says so).
ShouldReap(v) == ReapsIdleRooms /\ v.abandoned

\* Mutant: only a changed definition is retried.
MayRetryIfChanged(v) == v.rendersAs # None /\ v.hash # None /\ v.rendersAs # v.hash

\* A failed room whose definition now renders differently, or whose backoff
\* has been reached.
MayRetry(v) ==
    \/ v.rendersAs # None /\ v.hash # None /\ v.rendersAs # v.hash
    \/ v.retry = "due"

IdleStep(v, d) ==
    IF v.desired = "running" /\ ~d.deleting THEN "Start" ELSE NoStep

FailedStep(v) ==
    IF v.desired = "running" /\ MayRetry(v) THEN "Retry" ELSE NoStep

\* Mutant: the deadline is looked at before the Deployment.
StopAgainFirst(v, d) ==
    IF v.age > StopDeadline THEN "Stop"
    ELSE IF ~d.here THEN "MarkIdle" ELSE NoStep

StoppingStep(v, d) ==
    IF ~d.here THEN "MarkIdle"
    ELSE IF v.age > StopDeadline THEN "Stop" ELSE NoStep

\* No ready replica: count the pass, or call the room degraded.
UnreadyStep(v) ==
    CASE v.state = "starting" -> IF v.age > StartDeadline THEN "FailStart" ELSE NoStep
      [] v.state = "running" ->
            IF v.notReady + 1 >= DegradedSweeps THEN "MarkDegraded" ELSE "NotReady"
      [] OTHER -> NoStep

LiveStep(v, d) ==
    CASE v.desired \in AtRest -> "Stop"
      [] v.desired \notin AtRest /\ ~d.here ->
            IF v.age > VanishGrace THEN "MarkIdle" ELSE NoStep
      [] v.desired \notin AtRest /\ d.here ->
            IF v.redeploy THEN "Recreate"
            ELSE IF v.state = "running" /\ ShouldReap(v) THEN "Reap"
            ELSE IF d.hash # v.hash THEN "Recreate"
            ELSE IF ~d.ready THEN UnreadyStep(v)
            ELSE IF v.state = "running" /\ v.notReady = 0 THEN NoStep
            ELSE "MarkRunning"

\* Mutant: a room in integrity_fault is started like an idle one.
FaultedLikeIdle(v, d) ==
    CASE v.state = "provisioning" -> "Provision"
      [] v.state \in {"idle", "integrity_fault"} -> IdleStep(v, d)
      [] v.state = "failed" -> FailedStep(v)
      [] v.state = "stopping" -> StoppingStep(v, d)
      [] v.state \in Live -> LiveStep(v, d)
      [] OTHER -> NoStep

\* The transition table; nothing leaves integrity_fault or deleting by itself.
StateStep(v, d) ==
    CASE v.state = "provisioning" -> "Provision"
      [] v.state = "idle" -> IdleStep(v, d)
      [] v.state = "failed" -> FailedStep(v)
      [] v.state = "stopping" -> StoppingStep(v, d)
      [] v.state \in Live -> LiveStep(v, d)
      [] OTHER -> NoStep

\* Mutant: integrity_fault outranks deletion.
FaultOutranksDelete(v, d) ==
    IF v.desired = "deleted" /\ v.state # "integrity_fault"
    THEN "Delete" ELSE StateStep(v, d)

\* Deletion outranks every state.
StepFor(v, d) == IF v.desired = "deleted" THEN "Delete" ELSE StateStep(v, d)

(***************************************************************************)
(* Decisions about a pass.                                                 *)
(***************************************************************************)

\* Mutants: a convergence pass may restart rooms; it may count unready ones.
AllowedUncounted(full, step) == full \/ step # "NotReady"
AllowedUnpaced(full, step) == full \/ step \notin {"Recreate", "Reap"}

\* A step whose meaning depends on how often it is taken belongs to the full
\* pass: a convergence pass takes none of these.
FullPassOnly == {"Recreate", "NotReady", "Reap"}

AllowedIn(full, step) == full \/ step \notin FullPassOnly

\* `chosen` is what is left of the actions `wanted` once the pass's budget for
\* `step` is spent.  Which of the candidates win (the oldest request, the room
\* quiet the longest) is left open.
Paced(chosen, wanted, step, budget) ==
    LET all == {a \in wanted : a.step = step}
        kept == {a \in chosen : a.step = step}
    IN Cardinality(kept) = IF Cardinality(all) < budget THEN Cardinality(all) ELSE budget

Plans(wanted) ==
    {chosen \in SUBSET wanted :
        /\ {a \in wanted : a.step \notin {"Recreate", "Reap"}} \subseteq chosen
        /\ Paced(chosen, wanted, "Recreate", MaxRecreates)
        /\ Paced(chosen, wanted, "Reap", MaxReaps)}
=============================================================================
