---------------------------- MODULE RoomLifecycle ----------------------------
(***************************************************************************)
(* One elected orchestrator converging rooms onto the cluster: reconcile's *)
(* pass, every step of steps.rs with the object ordering of apply.rs, the  *)
(* web tier writing requests into the same rows, and the cluster moving on *)
(* its own.  A step is a sequence of database and API calls with no lock   *)
(* held across them, so each call is an action of its own and the web, the *)
(* cluster, an error or a crash may land between any two.                  *)
(*                                                                         *)
(* Left out: names, passwords and addresses (a definition is its revision, *)
(* `rev`), ports (a reservation is held or not: see PortAllocator),        *)
(* advertised_*, failure_count, last_error, room_events and metrics, none  *)
(* of which the planner reads.                                             *)
(***************************************************************************)
EXTENDS Planner

CONSTANTS
    Rooms,        \* the rooms of one environment
    NoRoom,       \* no room is being worked on
    Requests,     \* bound: the desired states people ask for
    MaxRev,       \* bound: revisions of a room's definition
    MaxAge,       \* bound: ages are told apart up to here
    MaxFaults,    \* bound: crashes, failed calls, lost pods and directories
    MaxAsks,      \* bound: redeploy requests
    MaxRanges     \* bound: times the configured port range is narrowed

ASSUME LifecycleAssumption ==
    /\ NoRoom \notin Rooms
    /\ Requests \subseteq DesiredStates
    /\ MaxRev \in Nat \ {0}
    /\ MaxAge \in Nat
    /\ StartDeadline < MaxAge /\ StopDeadline < MaxAge /\ VanishGrace < MaxAge
    /\ MaxFaults \in Nat /\ MaxAsks \in Nat /\ MaxRanges \in Nat

VARIABLES
    row,      \* rooms: the database row of each room
    dir,      \* the room directory on the shared volume
    dep,      \* the room's Deployment, as a `get` reads it
    secret,   \* the room's Secret, and whether the Deployment owns it
    svc,      \* the room's Service, and what the load balancer answered
    cache,    \* the Deployments as a `list` reads them: a watch cache
    pc,       \* where the orchestrator is
    full,     \* whether the pass is a full one
    snap,     \* the snapshot this pass planned from
    queue,    \* actions planned and not yet taken
    cur,      \* the room being worked on
    rendered, \* the revision this start rendered
    stranded, \* live rooms whose pair this process has just given up
    budget,   \* what is left of the bounds
    asked     \* history: the last redeploy request of each room, made or lost

world == <<dir, dep, secret, svc, cache>>
loop == <<pc, full, snap, queue, cur, rendered, stranded>>
vars == <<row, world, loop, budget, asked>>

(***************************************************************************)
(* Types.                                                                  *)
(***************************************************************************)
Revs == 1..MaxRev
Hashes == {None} \cup Revs
Ages == 0..MaxAge

Row == [state : States \cup {"gone"}, desired : DesiredStates, hash : Hashes,
        rev : Revs, reserved : BOOLEAN, redeploy : BOOLEAN, age : Ages,
        retry : RetryStates, notReady : 0..DegradedSweeps,
        abandoned : BOOLEAN]
Deployment == [here : BOOLEAN, hash : Hashes, deleting : BOOLEAN, ready : BOOLEAN]

\* The calls of each step, in order.
ProvisionPcs == {"provision", "provisioned"}
BeforeRender == {"alloc", "render"}
AfterRender == {"secret", "get", "create", "record", "own", "service", "address",
                "converged"}
StartPcs == BeforeRender \cup AfterRender \cup {"consume"}
UndoPcs == {"dropStale", "clear", "mismatch", "taken"}
FailPcs == {"failDel", "failMark", "failRetry"}
StopPcs == {"stop", "stopMark", "recreate", "recreateClear"}
DeletePcs == {"teardown", "dropSecret", "checkGone", "trash", "dropRow"}
StepPcs == ProvisionPcs \cup StartPcs \cup UndoPcs \cup FailPcs \cup StopPcs
             \cup DeletePcs
Pcs == {"down", "restart", "rest", "snapped", "act", "tail"} \cup StepPcs

Actions == [room : Rooms, step : Steps]
Budgets == [faults : 0..MaxFaults, asks : 0..MaxAsks, ranges : 0..MaxRanges]
\* The revision a request was made for, whether it landed inside a start, and
\* whether the one for a pair given up since was lost.
Asks == [rev : Hashes, midStart : BOOLEAN, lost : BOOLEAN]

TypeOK ==
    /\ row \in [Rooms -> Row]
    /\ dir \in [Rooms -> {"absent", "present", "trashed"}]
    /\ dep \in [Rooms -> Deployment]
    /\ secret \in [Rooms -> {"none", "unowned", "owned"}]
    /\ svc \in [Rooms -> {"none", "pending", "ours", "wrong", "taken", "refused"}]
    /\ cache \in [Rooms -> Deployment]
    /\ pc \in Pcs
    /\ full \in BOOLEAN
    /\ snap \in [Rooms -> Deployment]
    /\ queue \in SUBSET Actions
    /\ cur \in Rooms \cup {NoRoom}
    /\ rendered \in Hashes
    /\ stranded \in SUBSET Rooms
    /\ budget \in Budgets
    /\ asked \in [Rooms -> Asks]

\* A room as the web tier inserts it: at rest, nothing on disk or in the cluster.
NewRow == [state |-> "provisioning", desired |-> "running", hash |-> None, rev |-> 1,
           reserved |-> FALSE, redeploy |-> FALSE, age |-> 0, retry |-> "none",
           notReady |-> 0, abandoned |-> FALSE]
GoneRow == [NewRow EXCEPT !.state = "gone", !.desired = "deleted"]

Init ==
    /\ row = [r \in Rooms |-> NewRow]
    /\ dir = [r \in Rooms |-> "absent"]
    /\ dep = [r \in Rooms |-> Absent]
    /\ secret = [r \in Rooms |-> "none"]
    /\ svc = [r \in Rooms |-> "none"]
    /\ cache = [r \in Rooms |-> Absent]
    /\ pc = "down"
    /\ full = FALSE
    /\ snap = [r \in Rooms |-> Absent]
    /\ queue = {}
    /\ cur = NoRoom
    /\ rendered = None
    /\ stranded = {}
    /\ budget = [faults |-> MaxFaults, asks |-> MaxAsks, ranges |-> MaxRanges]
    /\ asked = [r \in Rooms |-> [rev |-> None, midStart |-> FALSE, lost |-> FALSE]]

(***************************************************************************)
(* Statements and calls the steps share.  An UPDATE by id touches nothing  *)
(* when the row is gone.                                                   *)
(***************************************************************************)
HasRow(r) == row[r].state # "gone"

Update(r, new) == row' = IF HasRow(r) THEN [row EXCEPT ![r] = new] ELSE row

\* state and state_changed_at, which every statement writes together.
Moved(old, state) == [old EXCEPT !.state = state, !.age = 0]

\* clear_deployment: back to idle, forgetting the Deployment; the reservation stays.
Cleared(old) == [Moved(old, "idle") EXCEPT !.hash = None, !.notReady = 0, !.abandoned = FALSE]

\* Deletion is foreground: the object stays, marked, until its pod is gone.
DeleteDeployment(r) ==
    dep' = IF dep[r].here
           THEN [dep EXCEPT ![r] = [@ EXCEPT !.deleting = TRUE, !.ready = FALSE]]
           ELSE dep

Goto(next) == pc' = next /\ UNCHANGED <<full, snap, queue, cur, rendered, stranded>>
Done == /\ pc' = "act" /\ cur' = NoRoom /\ rendered' = None
        /\ UNCHANGED <<full, snap, queue, stranded>>

Spend(what) == budget[what] > 0 /\ budget' = [budget EXCEPT ![what] = @ - 1]

(***************************************************************************)
(* The pass: list the cluster, read the rows, plan, act, then (full passes *)
(* only) look for missing directories.                                     *)
(***************************************************************************)

\* The lock is taken, and ensure_range finds every reservation inside the range.
Acquire ==
    /\ pc = "down"
    /\ Goto("rest")
    /\ UNCHANGED <<row, world, budget, asked>>

\* The lock is taken under a range that leaves out the pairs of `outside`.  Those
\* reservations go, live rooms' included, and as the pair is part of what a room
\* renders to, so does the definition it ran.  Which of them were live was read
\* first, and nobody else moves a state or a reservation in between.
NarrowRange(outside) ==
    /\ pc = "down"
    /\ outside # {}
    /\ \A r \in outside : row[r].reserved /\ row[r].rev < MaxRev
    /\ Spend("ranges")
    /\ row' = [r \in Rooms |->
                 IF r \in outside THEN [row[r] EXCEPT !.reserved = FALSE, !.rev = @ + 1]
                 ELSE row[r]]
    /\ stranded' = {r \in outside : row[r].state \in Live}
    /\ pc' = "restart"
    /\ UNCHANGED <<world, full, snap, queue, cur, rendered, asked>>

\* Mutant: the live rooms are looked up by reservations that are gone by then.
RestartNobody ==
    /\ pc = "restart"
    /\ stranded' = {}
    /\ pc' = "rest"
    /\ UNCHANGED <<row, world, full, snap, queue, cur, rendered, budget, asked>>

\* The last statement of ensure_range asks for a restart of the live ones, so
\* that they come up on a pair inside the range.
RestartStranded ==
    /\ pc = "restart"
    /\ row' = [r \in Rooms |->
                 IF r \in stranded THEN [row[r] EXCEPT !.redeploy = TRUE] ELSE row[r]]
    /\ asked' = [r \in Rooms |->
                   IF r \in stranded
                   THEN [asked[r] EXCEPT !.rev = row[r].rev, !.midStart = FALSE]
                   ELSE asked[r]]
    /\ stranded' = {}
    /\ pc' = "rest"
    /\ UNCHANGED <<world, full, snap, queue, cur, rendered, budget>>

\* The list is served from the watch cache.
Snapshot(kind) ==
    /\ pc = "rest"
    /\ pc' = "snapped" /\ full' = kind /\ snap' = cache
    /\ UNCHANGED <<row, world, queue, cur, rendered, stranded, budget, asked>>

\* load_views, with the hash a waiting failed room would render to now.
View(r) ==
    LET x == row[r]
        waiting == x.state = "failed" /\ x.desired = "running" /\ x.retry # "due"
    IN [state |-> x.state, desired |-> x.desired, hash |-> x.hash,
        rendersAs |-> IF full /\ waiting /\ x.reserved THEN x.rev ELSE None,
        age |-> x.age, retry |-> x.retry, notReady |-> x.notReady,
        redeploy |-> x.redeploy, abandoned |-> x.abandoned]

StepOf(r) == StepFor(View(r), snap[r])

Wanted ==
    {[room |-> r, step |-> StepOf(r)] :
        r \in {x \in Rooms : /\ HasRow(x)
                             /\ StepOf(x) # NoStep
                             /\ AllowedIn(full, StepOf(x))}}

Plan ==
    /\ pc = "snapped"
    /\ queue' \in Plans(Wanted)
    /\ pc' = "act"
    /\ snap' = [r \in Rooms |-> Absent]
    /\ UNCHANGED <<row, world, full, cur, rendered, stranded, budget, asked>>

EndOfActions ==
    /\ pc = "act" /\ queue = {}
    /\ Goto(IF full THEN "tail" ELSE "rest")
    /\ UNCHANGED <<row, world, budget, asked>>

\* A row that says the room was provisioned over a directory that is not there.
Faulty(r) ==
    /\ row[r].state \notin {"provisioning", "deleting", "integrity_fault", "gone"}
    /\ row[r].desired # "deleted"
    /\ dir[r] # "present"

DetectIntegrityFaults ==
    /\ pc = "tail"
    /\ row' = [r \in Rooms |->
                 IF Faulty(r) THEN Moved(row[r], "integrity_fault") ELSE row[r]]
    /\ Goto("rest")
    /\ UNCHANGED <<world, budget, asked>>

\* Take one planned action off the queue.
Taking(r, step) ==
    /\ pc = "act"
    /\ [room |-> r, step |-> step] \in queue
    /\ queue' = queue \ {[room |-> r, step |-> step]}

\* A step that is one statement.
TakesStatement(r, step, new) ==
    /\ Taking(r, step)
    /\ Update(r, new)
    /\ UNCHANGED <<world, pc, full, snap, cur, rendered, stranded, budget, asked>>

MarkRunning(r) ==
    TakesStatement(r, "MarkRunning",
         [Moved(row[r], "running") EXCEPT !.notReady = 0, !.retry = "none"])

NotReady(r) ==
    TakesStatement(r, "NotReady", [row[r] EXCEPT !.notReady = @ + 1])

MarkDegraded(r) ==
    TakesStatement(r, "MarkDegraded",
         [Moved(row[r], "degraded") EXCEPT !.notReady = @ + 1])

MarkIdle(r) ==
    TakesStatement(r, "MarkIdle", Cleared(row[r]))

Retry(r) ==
    TakesStatement(r, "Retry",
         IF row[r].state = "failed"
         THEN [Moved(row[r], "idle") EXCEPT !.retry = "none"] ELSE row[r])

Reap(r) ==
    TakesStatement(r, "Reap",
         IF row[r].desired = "running"
         THEN [row[r] EXCEPT !.desired = "stopped"] ELSE row[r])

\* A step that is a sequence of calls begins at the first of them.
FirstCall == [Provision |-> "provision", Start |-> "alloc", Recreate |-> "recreate",
              Stop |-> "stop", Delete |-> "teardown", FailStart |-> "failDel"]

Begin(r, step) ==
    /\ Taking(r, step)
    /\ pc' = FirstCall[step] /\ cur' = r
    /\ UNCHANGED <<row, world, full, snap, rendered, stranded, budget, asked>>

Take ==
    \E r \in Rooms :
        \/ MarkRunning(r)
        \/ NotReady(r)
        \/ MarkDegraded(r)
        \/ MarkIdle(r)
        \/ Retry(r)
        \/ Reap(r)
        \/ \E step \in DOMAIN FirstCall : Begin(r, step)

(***************************************************************************)
(* The calls of each step.  r is the room being worked on.                 *)
(***************************************************************************)
At(r, call) == pc = call /\ cur = r

\* A statement on the row, after which the step goes on at `next`.
Writes(r, call, new, next) ==
    /\ At(r, call)
    /\ Update(r, new)
    /\ Goto(next)
    /\ UNCHANGED <<world, budget, asked>>

\* Provision: the directory, then the row, never the reverse.
ProvisionDir(r) ==
    /\ At(r, "provision")
    /\ dir' = [dir EXCEPT ![r] = "present"]
    /\ Goto("provisioned")
    /\ UNCHANGED <<row, dep, secret, svc, cache, budget, asked>>

ProvisionRow(r) ==
    /\ At(r, "provisioned")
    /\ Update(r, IF row[r].state = "provisioning" THEN Moved(row[r], "idle") ELSE row[r])
    /\ Done
    /\ UNCHANGED <<world, budget, asked>>

\* Start.  A room that has a pair keeps it; one that has none may find none.
Allocate(r) ==
    /\ At(r, "alloc")
    /\ Update(r, [row[r] EXCEPT !.reserved = TRUE])
    /\ asked' = [asked EXCEPT ![r].lost = FALSE]
    /\ Goto("render")
    /\ UNCHANGED <<world, budget>>

AllocateFails(r) ==
    /\ At(r, "alloc")
    /\ Spend("faults")
    /\ Goto("failDel")
    /\ UNCHANGED <<row, world, asked>>

Render(r) ==
    /\ At(r, "render")
    /\ IF HasRow(r)
       THEN /\ pc' = "secret" /\ rendered' = row[r].rev
            /\ UNCHANGED <<full, snap, queue, cur, stranded>>
       ELSE Done
    /\ UNCHANGED <<row, world, budget, asked>>

\* Applied before the Deployment exists, and so without an owner.
ApplySecret(r) ==
    /\ At(r, "secret")
    /\ secret' = [secret EXCEPT ![r] = "unowned"]
    /\ Goto("get")
    /\ UNCHANGED <<row, dir, dep, svc, cache, budget, asked>>

\* Mutant: an adopted Deployment is not written down.
AdoptUnrecorded(r) ==
    /\ At(r, "get")
    /\ CASE ~dep[r].here -> Goto("create")
         [] dep[r].here /\ dep[r].deleting -> Done
         [] dep[r].here /\ ~dep[r].deleting ->
                Goto(IF dep[r].hash = rendered THEN "own" ELSE "dropStale")
    /\ UNCHANGED <<row, world, budget, asked>>

\* Mutant: any Deployment of the room's name is adopted, whatever it runs.
AdoptAnything(r) ==
    /\ At(r, "get")
    /\ CASE ~dep[r].here -> Goto("create")
         [] dep[r].here /\ dep[r].deleting -> Done
         [] dep[r].here /\ ~dep[r].deleting -> Goto("record")
    /\ UNCHANGED <<row, world, budget, asked>>

\* The `get` that decides: wait for a dying one, adopt a matching one, replace
\* any other, create where there is none.
GetDeployment(r) ==
    /\ At(r, "get")
    /\ CASE ~dep[r].here -> Goto("create")
         [] dep[r].here /\ dep[r].deleting -> Done
         [] dep[r].here /\ ~dep[r].deleting ->
                Goto(IF dep[r].hash = rendered THEN "record" ELSE "dropStale")
    /\ UNCHANGED <<row, world, budget, asked>>

CreateDeployment(r) ==
    /\ At(r, "create")
    /\ dep' = IF dep[r].here THEN dep      \* AlreadyExists: its uid is read back
              ELSE [dep EXCEPT ![r] = [here |-> TRUE, hash |-> rendered,
                                       deleting |-> FALSE, ready |-> FALSE]]
    /\ Goto("record")
    /\ UNCHANGED <<row, dir, secret, svc, cache, budget, asked>>

\* The uid and the hash are written down before anything is owned by them.
Record(r) == Writes(r, "record", [row[r] EXCEPT !.hash = rendered], "own")

OwnSecret(r) ==
    /\ At(r, "own")
    /\ secret' = [secret EXCEPT ![r] = "owned"]
    /\ Goto("service")
    /\ UNCHANGED <<row, dir, dep, svc, cache, budget, asked>>

EnsureService(r) ==
    /\ At(r, "service")
    /\ svc' = [svc EXCEPT ![r] = IF @ = "none" THEN "pending" ELSE @]
    /\ Goto("address")
    /\ UNCHANGED <<row, dir, dep, secret, cache, budget, asked>>

\* A wrong address or a refusal deletes the Deployment at once, and the Service
\* with it; a pending answer leaves everything and the room idle.
ReadAddress(r) ==
    /\ At(r, "address")
    /\ IF svc[r] \in {"wrong", "taken", "refused"} THEN DeleteDeployment(r) ELSE UNCHANGED dep
    /\ CASE svc[r] = "ours" -> Goto("converged")
         [] svc[r] = "wrong" -> Goto("mismatch")
         [] svc[r] = "taken" -> Goto("taken")
         [] svc[r] = "refused" -> Goto("failDel")
         [] svc[r] \in {"pending", "none"} -> Done
    /\ UNCHANGED <<row, dir, secret, svc, cache, budget, asked>>

Converged(r) == Writes(r, "converged", Moved(row[r], "starting"), "consume")

\* clear_redeploy_request, the last call of a start and of a recreate: whatever
\* request the row holds by now is taken as satisfied.
ConsumeRedeploy(r) ==
    /\ At(r, "consume")
    /\ Update(r, [row[r] EXCEPT !.redeploy = FALSE])
    /\ Done
    /\ UNCHANGED <<world, budget, asked>>

\* The pair is quarantined, which unbinds it from the room.
QuarantineMismatch(r) == Writes(r, "mismatch", [row[r] EXCEPT !.reserved = FALSE], "clear")
QuarantineTaken(r) == Writes(r, "taken", [row[r] EXCEPT !.reserved = FALSE], "failDel")

\* Mutant: a Deployment of an older definition is rolled over to the new one.
RollStaleDeployment(r) ==
    /\ At(r, "dropStale")
    /\ dep' = [dep EXCEPT ![r].hash = rendered]
    /\ Goto("record")
    /\ UNCHANGED <<row, dir, secret, svc, cache, budget, asked>>

DropStaleDeployment(r) ==
    /\ At(r, "dropStale")
    /\ DeleteDeployment(r)
    /\ Goto("clear")
    /\ UNCHANGED <<row, dir, secret, svc, cache, budget, asked>>

ClearDeployment(r) ==
    /\ At(r, "clear")
    /\ Update(r, Cleared(row[r]))
    /\ Done
    /\ UNCHANGED <<world, budget, asked>>

\* Failing: the Deployment goes first (an error there is logged and ignored),
\* then the state, then, in a statement of its own, when to try again.
FailDelete(r) ==
    /\ At(r, "failDel")
    /\ Goto("failMark")
    /\ \/ DeleteDeployment(r) /\ UNCHANGED budget
       \/ UNCHANGED dep /\ Spend("faults")
    /\ UNCHANGED <<row, dir, secret, svc, cache, asked>>

FailMark(r) == Writes(r, "failMark", Moved(row[r], "failed"), "failRetry")

FailRetryAfter(r) ==
    /\ At(r, "failRetry")
    /\ Update(r, [row[r] EXCEPT !.retry = "waiting"])
    /\ Done
    /\ UNCHANGED <<world, budget, asked>>

\* Stop and Recreate: delete, then move the row.
StopDelete(r) ==
    /\ At(r, "stop")
    /\ DeleteDeployment(r)
    /\ Goto("stopMark")
    /\ UNCHANGED <<row, dir, secret, svc, cache, budget, asked>>

StopMark(r) ==
    /\ At(r, "stopMark")
    /\ Update(r, Moved(row[r], "stopping"))
    /\ Done
    /\ UNCHANGED <<world, budget, asked>>

RecreateDelete(r) ==
    /\ At(r, "recreate")
    /\ DeleteDeployment(r)
    /\ Goto("recreateClear")
    /\ UNCHANGED <<row, dir, secret, svc, cache, budget, asked>>

RecreateClear(r) ==
    /\ At(r, "recreateClear")
    /\ Update(r, Cleared(row[r]))
    /\ Goto("consume")
    /\ UNCHANGED <<world, budget, asked>>

\* Delete: the objects go, and only a `get` that finds no Deployment lets the
\* directory move and the row be dropped.
TeardownDeployment(r) ==
    /\ At(r, "teardown")
    /\ DeleteDeployment(r)
    /\ Goto("dropSecret")
    /\ UNCHANGED <<row, dir, secret, svc, cache, budget, asked>>

\* Mutant: the owner reference is trusted to take the Secret along.
TeardownKeepsSecret(r) ==
    /\ At(r, "dropSecret")
    /\ Goto("checkGone")
    /\ UNCHANGED <<row, world, budget, asked>>

TeardownSecret(r) ==
    /\ At(r, "dropSecret")
    /\ secret' = [secret EXCEPT ![r] = "none"]
    /\ Goto("checkGone")
    /\ UNCHANGED <<row, dir, dep, svc, cache, budget, asked>>

\* Mutant: the accepted deletion is taken for a finished one.
TrashAtOnce(r) ==
    /\ At(r, "checkGone")
    /\ Goto("trash")
    /\ UNCHANGED <<row, world, budget, asked>>

CheckGone(r) ==
    /\ At(r, "checkGone")
    /\ IF dep[r].here
       THEN /\ Update(r, IF row[r].state = "deleting" THEN row[r]
                         ELSE Moved(row[r], "deleting"))
            /\ Done
       ELSE UNCHANGED row /\ Goto("trash")
    /\ UNCHANGED <<world, budget, asked>>

TrashDir(r) ==
    /\ At(r, "trash")
    /\ dir' = [dir EXCEPT ![r] = IF @ = "present" THEN "trashed" ELSE @]
    /\ Goto("dropRow")
    /\ UNCHANGED <<row, dep, secret, svc, cache, budget, asked>>

DropRow(r) ==
    /\ At(r, "dropRow")
    /\ Update(r, GoneRow)
    /\ Done
    /\ UNCHANGED <<world, budget, asked>>

ProvisionCalls(r) == ProvisionDir(r) \/ ProvisionRow(r)
StartCalls(r) ==
    \/ Allocate(r) \/ Render(r) \/ ApplySecret(r) \/ GetDeployment(r)
    \/ CreateDeployment(r) \/ Record(r) \/ OwnSecret(r) \/ EnsureService(r)
    \/ ReadAddress(r) \/ Converged(r) \/ ConsumeRedeploy(r)
UndoCalls(r) ==
    \/ QuarantineMismatch(r) \/ QuarantineTaken(r)
    \/ DropStaleDeployment(r) \/ ClearDeployment(r)
FailCalls(r) == FailDelete(r) \/ FailMark(r) \/ FailRetryAfter(r)
StopCalls(r) == StopDelete(r) \/ StopMark(r) \/ RecreateDelete(r) \/ RecreateClear(r)
DeleteCalls(r) ==
    \/ TeardownDeployment(r) \/ TeardownSecret(r) \/ CheckGone(r)
    \/ TrashDir(r) \/ DropRow(r)

Calls == \E r \in Rooms :
    /\ cur = r
    /\ \/ pc \in ProvisionPcs /\ ProvisionCalls(r)
       \/ pc \in StartPcs /\ StartCalls(r)
       \/ pc \in UndoPcs /\ UndoCalls(r)
       \/ pc \in FailPcs /\ FailCalls(r)
       \/ pc \in StopPcs /\ StopCalls(r)
       \/ pc \in DeletePcs /\ DeleteCalls(r)

\* A call that errors ends its step with nothing further done.
StepErrors ==
    /\ pc \in StepPcs
    /\ Spend("faults")
    /\ Done
    /\ UNCHANGED <<row, world, asked>>

\* An error of a start that no retry would cure fails the room instead.
StartErrorsFatally ==
    /\ pc \in (AfterRender \cup {"render", "dropStale"}) \ {"record", "converged"}
    /\ Spend("faults")
    /\ Goto("failDel")
    /\ UNCHANGED <<row, world, asked>>

\* The process dies, or loses its lock and restarts: the plan is forgotten, and
\* so are the rooms found stranded, which the deleted reservations no longer tell.
Crash ==
    /\ pc # "down"
    /\ Spend("faults")
    /\ pc' = "down" /\ cur' = NoRoom /\ rendered' = None /\ full' = FALSE
    /\ queue' = {} /\ snap' = [r \in Rooms |-> Absent] /\ stranded' = {}
    /\ asked' = [r \in Rooms |->
                   IF r \in stranded THEN [asked[r] EXCEPT !.lost = TRUE] ELSE asked[r]]
    /\ UNCHANGED <<row, world>>

(***************************************************************************)
(* Everybody else.                                                         *)
(***************************************************************************)

\* request_state, from the web tier or an operator.
RequestState(r, desired) ==
    /\ HasRow(r) /\ row[r].desired # desired
    /\ row' = [row EXCEPT ![r].desired = desired]
    /\ UNCHANGED <<world, loop, budget, asked>>

\* Options, passwords, slot_auth or the image: what a render would produce.
EditDefinition(r) ==
    /\ HasRow(r) /\ row[r].rev < MaxRev
    /\ row' = [row EXCEPT ![r].rev = @ + 1]
    /\ UNCHANGED <<world, loop, budget, asked>>

\* Whether a start of r has rendered and has not yet consumed the request.
MidStart(r) ==
    /\ cur = r
    /\ \/ pc \in AfterRender
       \/ pc = "consume" /\ row[r].state = "starting"

RequestRedeploy(r) ==
    /\ HasRow(r)
    /\ Spend("asks")
    /\ row' = [row EXCEPT ![r].redeploy = TRUE]
    /\ asked' = [asked EXCEPT ![r] = [@ EXCEPT !.rev = row[r].rev, !.midStart = MidStart(r)]]
    /\ UNCHANGED <<world, loop>>

\* The prober's readings and the pin: quiet past the timeout and unpinned, or
\* somebody spoke, or the probe can no longer tell, or somebody pinned the room.
QuietChanges(r) ==
    /\ ReapsIdleRooms /\ row[r].state = "running"
    /\ row' = [row EXCEPT ![r].abandoned = ~@]
    /\ UNCHANGED <<world, loop, budget, asked>>

PodReady(r) ==
    /\ dep[r].here /\ ~dep[r].deleting /\ ~dep[r].ready
    /\ dep' = [dep EXCEPT ![r].ready = TRUE]
    /\ UNCHANGED <<row, dir, secret, svc, cache, loop, budget, asked>>

PodFails(r) ==
    /\ dep[r].ready
    /\ Spend("faults")
    /\ dep' = [dep EXCEPT ![r].ready = FALSE]
    /\ UNCHANGED <<row, dir, secret, svc, cache, loop, asked>>

HandDelete(r) ==
    /\ dep[r].here /\ ~dep[r].deleting
    /\ Spend("faults")
    /\ DeleteDeployment(r)
    /\ UNCHANGED <<row, dir, secret, svc, cache, loop, asked>>

\* A foreground deletion completes: pod, dependents and the object are gone.
\* (A dependent created for an owner that is already gone is collected too.)
Collect(r) ==
    /\ \/ dep[r].deleting
       \/ ~dep[r].here /\ (secret[r] = "owned" \/ svc[r] # "none")
    /\ dep' = [dep EXCEPT ![r] = Absent]
    /\ secret' = [secret EXCEPT ![r] = IF @ = "owned" THEN "none" ELSE @]
    /\ svc' = [svc EXCEPT ![r] = "none"]
    /\ UNCHANGED <<row, dir, cache, loop, budget, asked>>

CacheCatchesUp ==
    /\ cache # dep /\ cache' = dep
    /\ UNCHANGED <<row, dir, dep, secret, svc, loop, budget, asked>>

AddressGranted(r) ==
    /\ svc[r] = "pending"
    /\ svc' = [svc EXCEPT ![r] = "ours"]
    /\ UNCHANGED <<row, dir, dep, secret, cache, loop, budget, asked>>

AddressDenied(r) ==
    /\ svc[r] = "pending"
    /\ Spend("faults")
    /\ \E answer \in {"wrong", "taken", "refused"} : svc' = [svc EXCEPT ![r] = answer]
    /\ UNCHANGED <<row, dir, dep, secret, cache, loop, asked>>

DirectoryLost(r) ==
    /\ dir[r] = "present"
    /\ Spend("faults")
    /\ dir' = [dir EXCEPT ![r] = "absent"]
    /\ UNCHANGED <<row, dep, secret, svc, cache, loop, asked>>

\* One unit of time, in which the watch cache has caught up.  An age is counted
\* in the states whose age is ever read.
CanAge(r) == row[r].state \in Live \cup {"stopping"} /\ row[r].age < MaxAge

TimePasses ==
    /\ cache = dep
    /\ \E r \in Rooms : CanAge(r)
    /\ row' = [r \in Rooms |->
                 IF CanAge(r) THEN [row[r] EXCEPT !.age = @ + 1] ELSE row[r]]
    /\ UNCHANGED <<world, loop, budget, asked>>

BackoffElapses(r) ==
    /\ row[r].retry = "waiting"
    /\ row' = [row EXCEPT ![r].retry = "due"]
    /\ UNCHANGED <<world, loop, budget, asked>>

Web == \E r \in Rooms :
    \/ \E desired \in Requests : RequestState(r, desired)
    \/ EditDefinition(r) \/ RequestRedeploy(r) \/ QuietChanges(r)

Environment ==
    \/ \E r \in Rooms :
        \/ PodReady(r) \/ PodFails(r) \/ HandDelete(r) \/ Collect(r)
        \/ AddressGranted(r) \/ AddressDenied(r) \/ DirectoryLost(r)
        \/ BackoffElapses(r)
    \/ CacheCatchesUp
    \/ TimePasses

Lock == Acquire \/ (\E outside \in SUBSET Rooms : NarrowRange(outside)) \/ RestartStranded
Pass == Lock \/ (\E kind \in BOOLEAN : Snapshot(kind)) \/ Plan \/ Take
          \/ EndOfActions \/ DetectIntegrityFaults \/ Calls
Errors == (\E r \in Rooms : AllocateFails(r)) \/ StepErrors \/ StartErrorsFatally \/ Crash

Next == Pass \/ Errors \/ Web \/ Environment

(***************************************************************************)
(* The loop keeps running and a full pass keeps coming round; the cluster  *)
(* and the clock keep moving.  Nothing is assumed of people or of faults.  *)
(***************************************************************************)
Fairness ==
    /\ WF_vars(Pass)
    /\ SF_vars(Snapshot(TRUE))
    /\ WF_vars(CacheCatchesUp)
    /\ WF_vars(TimePasses)
    /\ \A r \in Rooms :
        /\ WF_vars(PodReady(r))
        /\ WF_vars(Collect(r))
        /\ WF_vars(AddressGranted(r))
        /\ WF_vars(BackoffElapses(r))

Spec == Init /\ [][Next]_vars
FairSpec == Spec /\ Fairness

(***************************************************************************)
(* Safety.                                                                 *)
(***************************************************************************)

\* A deleted room leaves nothing behind: once its row is gone there is no
\* Deployment and no Secret under its name, whatever errors and restarts the
\* deletion went through (steps.rs delete, apply.rs teardown_room).
DeletedLeavesNothing ==
    \A r \in Rooms : ~HasRow(r) => ~dep[r].here /\ secret[r] = "none"

\* A live room is one whose Deployment was written down, and whose port pair is
\* its own unless a restart onto another one is pending: start records before it
\* advertises, quarantine and clear_deployment never leave a room live behind
\* them, a request stays until a start has allocated, and a range that moves
\* away from under a live room queues one (apply.rs, steps.rs, port.rs).  The
\* room whose request a dying ensure_range never wrote is excepted.
LiveIsBacked ==
    \A r \in Rooms : row[r].state \in Live =>
        /\ row[r].hash # None
        /\ row[r].reserved \/ row[r].redeploy \/ r \in stranded \/ asked[r].lost

\* Once nothing is pending on a room whose Deployment is up, that Deployment
\* runs at least the definition the last redeploy request was made for, unless
\* the request landed inside a start that had already rendered (steps.rs:
\* every step that clears a request leaves the fresh spec behind).
Settled(r) ==
    /\ row[r].state \in Live /\ ~row[r].redeploy
    /\ dep[r].here /\ ~dep[r].deleting
QuietRequestHonoured ==
    \A r \in Rooms : Settled(r) /\ ~asked[r].midStart => dep[r].hash >= asked[r].rev

\* The same with no exception: what plan.rs and clear_redeploy_request say.
EveryRequestHonoured ==
    \A r \in Rooms : Settled(r) => dep[r].hash >= asked[r].rev

\* The room directory is moved to the trash only when the Deployment, and so
\* the pod that writes to it, is gone (steps.rs delete).
TrashOnlyWhenPodGone ==
    [][\A r \in Rooms : dir[r] = "present" /\ dir'[r] = "trashed" => ~dep[r].here]_vars

\* A room in integrity_fault never comes back by itself: only a deletion
\* moves it (plan.rs: never auto-repaired, in any direction).
IntegrityFaultSticks ==
    [][\A r \in Rooms : row[r].state = "integrity_fault" =>
          row'[r].state \in {"integrity_fault", "deleting", "gone"}]_vars

\* Through every error, crash and hand deletion, what a room runs, where its
\* data is and whether it is known move as RoomPromise says.
Promise == INSTANCE RoomPromise WITH
    Definitions <- Revs,
    Nothing <- None,
    known <- [r \in Rooms |-> HasRow(r)],
    runs <- [r \in Rooms |-> IF dep[r].here THEN dep[r].hash ELSE None],
    data <- dir
PromiseKept == Promise!Spec

(***************************************************************************)
(* Liveness, under FairSpec.                                               *)
(***************************************************************************)

\* Failed, with neither a time to try again nor a definition it has not run:
\* plan.rs waits for an operator.  Every failed start has no such time between
\* the two statements that fail a room, which is not counted: only a fault
\* between them parks it.
Parked(r) ==
    /\ row[r].state = "failed" /\ row[r].retry = "none"
    /\ ~(row[r].reserved /\ row[r].hash \notin {None, row[r].rev})
    /\ ~At(r, "failRetry")
OutOfReach(r) == row[r].state \in {"gone", "deleting", "integrity_fault"}

\* A start that ran out its deadline is about to be failed.
TimesOut(r) == At(r, "failDel") /\ row[r].state = "starting"

\* A room somebody wants running comes up, through errors, refusals, lost pods,
\* a changed definition and restarts, unless the request is withdrawn, the room
\* is parked, or its pod misses the deadline of one start after the other for
\* ever: to fail and try again is not to come up (plan.rs, steps.rs).
WantedRoomComesUp ==
    \A r \in Rooms :
        <>[]~TimesOut(r) =>
            ((row[r].desired = "running" /\ ~OutOfReach(r))
                ~> \/ row[r].state = "running"
                   \/ row[r].desired # "running"
                   \/ Parked(r) \/ OutOfReach(r))

\* A live room asked to stop leaves the live and stopping states.
StopCompletes ==
    \A r \in Rooms :
        (row[r].state \in Live /\ row[r].desired \in AtRest)
            ~> \/ row[r].desired \notin AtRest
               \/ row[r].state \notin Live \cup {"stopping"}

\* A deletion finishes from every state, integrity_fault and failed included.
DeleteCompletes ==
    \A r \in Rooms : (row[r].desired = "deleted") ~> (~HasRow(r) \/ row[r].desired # "deleted")
=============================================================================
