------------------------------- MODULE RoomDoor -------------------------------
(***************************************************************************)
(* What a room demands at its door: its password mode, the room-wide or    *)
(* the slots' passwords and the remote-admin password.  pahoa reads them   *)
(* from its environment when its container starts and never again, so a    *)
(* change must reach the row, the Secret and a fresh container, carried by *)
(* the web handlers that write the row and ask for a restart (rooms.rs),   *)
(* by the steps that carry the restart out (steps.rs, apply.rs) and by the *)
(* sweep that refreshes Secrets (sweep.rs).                                *)
(*                                                                         *)
(* A handler, a start and a refresh are sequences of statements and calls, *)
(* each an action.  Every password set is a new number; the passwords of   *)
(* all the slots are set and cleared together and count as one.  A slot's  *)
(* own rotation, which a running room is told, is in SlotControl; the port *)
(* and the failures of an address are in PortAllocator.                    *)
(***************************************************************************)
EXTENDS Naturals, FiniteSets

CONSTANTS
    Handlers,       \* requests served at a time
    MaxKeys,        \* bound: passwords ever set
    MaxRequests,    \* bound: requests made of the room
    MaxFaults       \* bound: crashes, failed calls and dead containers

ASSUME DoorAssumption ==
    /\ MaxKeys \in Nat \ {0} /\ MaxRequests \in Nat /\ MaxFaults \in Nat

VARIABLES
    row,        \* the rooms row, and the passwords in room_slots
    minted,     \* the newest password
    secret,     \* the room's Secret
    dep,        \* its Deployment
    pod,        \* the environment its container was started with
    rec,        \* the step or refresh the orchestrator is in, and what it has read
    task,       \* what each handler is doing, and what its guard read
    missed,     \* history: what has kept a change from the next restart
    budget      \* requests and faults left

vars == <<row, minted, secret, dep, pod, rec, task, missed, budget>>

Modes == {"none", "room", "perSlot"}
NoKey == 0
Keys == 0..MaxKeys
Live == {"starting", "running"}

Row == [state : Live \cup {"idle", "stopping", "failed"}, desired : {"running", "stopped"},
        mode : Modes, key : Keys, slotKey : Keys, admin : Keys,
        redeploy : BOOLEAN, stale : BOOLEAN]

\* SecretData, without the admin token, which never changes.
Env == [mode : Modes, key : Keys, admin : Keys]
NoEnv == [mode |-> "absent", key |-> NoKey, admin |-> NoKey]

\* What a render reads in three statements: rooms, its secrets, its slots.
Reading == [mode : Modes, key : Keys, admin : Keys, slotKey : Keys]
NothingRead == [mode |-> "none", key |-> NoKey, admin |-> NoKey, slotKey |-> NoKey]

StartCalls == {"secrets", "slots", "apply", "get", "own", "address", "starting", "consume"}
OtherCalls == {"fail", "recreate", "stop", "sweepSecrets", "sweepSlots", "sweepApply",
               "sweepMark"}

Task == [at : {"rest", "mode", "admin", "stale", "redeploy", "rotate"}, mode : Modes,
         wants : BOOLEAN, seenMode : Modes, seenLive : BOOLEAN, changed : BOOLEAN]
NoTask == [at |-> "rest", mode |-> "none", wants |-> FALSE, seenMode |-> "none",
           seenLive |-> FALSE, changed |-> FALSE]

Built(read) == [mode |-> read.mode, admin |-> read.admin,
                key |-> IF read.mode = "perSlot" THEN read.slotKey ELSE read.key]

\* Mutant: the map is built from whatever slots have a password.
NeverRefuses(read) == FALSE

\* build: per-slot mode without every slot's password.
Refuses(read) == read.mode = "perSlot" /\ read.slotKey = NoKey

\* Everything the hash covers: slot passwords can be told to a running room.
Hashed(env) == IF env.mode = "perSlot" THEN [env EXCEPT !.key = NoKey] ELSE env

\* What the row asks for, were it rendered at once.
Wanted == Built([mode |-> row.mode, key |-> row.key, admin |-> row.admin,
                 slotKey |-> row.slotKey])

\* The row's password is there just when its mode wants one, a CHECK of the table.
TypeOK ==
    /\ row \in Row /\ (row.mode = "room" <=> row.key # NoKey)
    /\ minted \in Keys
    /\ secret \in Env \cup {NoEnv}
    /\ dep \in [here : BOOLEAN, deleting : BOOLEAN, hash : Env]
    /\ pod \in Env \cup {NoEnv}
    /\ rec \in [at : {"rest"} \cup StartCalls \cup OtherCalls, read : Reading]
    /\ task \in [Handlers -> Task]
    /\ missed \subseteq {"stale", "crossed", "died", "torn"}
    /\ budget \in [requests : 0..MaxRequests, faults : 0..MaxFaults]

NoDeployment == [here |-> FALSE, deleting |-> FALSE, hash |-> Built(NothingRead)]

Init ==
    /\ \E mode \in Modes :
        row = [state |-> "idle", desired |-> "running", mode |-> mode,
               key |-> IF mode = "room" THEN 1 ELSE NoKey,
               slotKey |-> IF mode = "perSlot" THEN 1 ELSE NoKey,
               admin |-> NoKey, redeploy |-> FALSE, stale |-> TRUE]
    /\ minted = IF row.mode = "none" THEN NoKey ELSE 1
    /\ secret = NoEnv
    /\ dep = NoDeployment
    /\ pod = NoEnv
    /\ rec = [at |-> "rest", read |-> NothingRead]
    /\ task = [h \in Handlers |-> NoTask]
    /\ missed = {}
    /\ budget = [requests |-> MaxRequests, faults |-> MaxFaults]

Spend(what) == budget[what] > 0 /\ budget' = [budget EXCEPT ![what] = @ - 1]

\* A start has read the row and has not taken the room live.
UnderWay == rec.at \in StartCalls

(***************************************************************************)
(* The restart form and the rotate button.                                 *)
(***************************************************************************)
Reply(h) == task' = [task EXCEPT ![h] = NoTask]
Turn(h, next) == task' = [task EXCEPT ![h].at = next]
Webbing == UNCHANGED <<secret, dep, pod, rec>>

\* request_state, from the room page.
RequestState(desired) ==
    /\ row.desired # desired
    /\ Spend("requests")
    /\ row' = [row EXCEPT !.desired = desired]
    /\ Webbing /\ UNCHANGED <<minted, task, missed>>

\* RoomAccess reads the row once; the rest of the request goes by that.
Ask(h, at, mode, wants) ==
    /\ task[h].at = "rest"
    /\ Spend("requests")
    /\ task' = [task EXCEPT ![h] =
                  [at |-> at, mode |-> mode, wants |-> wants, seenMode |-> row.mode,
                   seenLive |-> row.state \in Live, changed |-> FALSE]]
    /\ Webbing /\ UNCHANGED <<row, minted, missed>>

\* set_slot_auth: one transaction over the room and its slots.
SetSlotAuth(h) ==
    /\ task[h].at = "mode"
    /\ IF task[h].mode # task[h].seenMode
       THEN /\ minted < MaxKeys
            /\ minted' = minted + 1
            /\ row' = [row EXCEPT
                  !.mode = task[h].mode,
                  !.key = IF task[h].mode = "room" THEN minted + 1 ELSE NoKey,
                  !.slotKey = IF task[h].mode = "perSlot" THEN minted + 1 ELSE NoKey]
            /\ task' = [task EXCEPT ![h].at = "admin", ![h].changed = TRUE]
       ELSE Turn(h, "admin") /\ UNCHANGED <<row, minted>>
    /\ Webbing /\ UNCHANGED <<missed, budget>>

\* has_server_password and set_server_password; a form that changes nothing
\* ends here.  (Only this form sets it, and both answers of a race are asked
\* for by somebody, so the read and the write are one step.)
SetServerPassword(h) ==
    /\ task[h].at = "admin"
    /\ IF (row.admin # NoKey) # task[h].wants
       THEN /\ minted < MaxKeys
            /\ minted' = minted + 1
            /\ row' = [row EXCEPT !.admin = IF task[h].wants THEN minted + 1 ELSE NoKey]
            /\ Turn(h, "stale")
       ELSE /\ IF task[h].changed THEN Turn(h, "stale") ELSE Reply(h)
            /\ UNCHANGED <<row, minted>>
    /\ Webbing /\ UNCHANGED <<missed, budget>>

MarkSecretStale(h) ==
    /\ task[h].at = "stale"
    /\ row' = [row EXCEPT !.stale = TRUE]
    /\ Turn(h, "redeploy")
    /\ Webbing /\ UNCHANGED <<minted, missed, budget>>

\* Mutant: a room that was not up when the form was sent is not asked.
AskIfSeenLive(h) ==
    /\ task[h].at = "redeploy"
    /\ row' = [row EXCEPT !.redeploy = @ \/ task[h].seenLive]
    /\ Reply(h)
    /\ Webbing /\ UNCHANGED <<minted, missed, budget>>

RequestRedeploy(h) ==
    /\ task[h].at = "redeploy"
    /\ row' = [row EXCEPT !.redeploy = TRUE]
    /\ Reply(h)
    /\ Webbing /\ UNCHANGED <<minted, missed, budget>>

\* Mutant: the mode is checked by the guard, not by the statement.
RotateAsRead(h) ==
    /\ task[h].at = "rotate"
    /\ IF task[h].seenMode = "room"
       THEN /\ minted < MaxKeys
            /\ minted' = minted + 1
            /\ row' = [row EXCEPT !.key = minted + 1]
            /\ IF task[h].seenLive THEN Turn(h, "redeploy") ELSE Reply(h)
       ELSE Reply(h) /\ UNCHANGED <<row, minted>>
    /\ Webbing /\ UNCHANGED <<missed, budget>>

\* rotate_password; a redeploy follows if the guard saw the room up.
RotatePassword(h) ==
    /\ task[h].at = "rotate"
    /\ IF row.mode = "room"
       THEN /\ minted < MaxKeys
            /\ minted' = minted + 1
            /\ row' = [row EXCEPT !.key = minted + 1]
            /\ IF task[h].seenLive THEN Turn(h, "redeploy") ELSE Reply(h)
            /\ missed' = missed \cup
                  (IF ~task[h].seenLive /\ (UnderWay \/ row.state \in Live) THEN {"stale"} ELSE {})
       ELSE Reply(h) /\ UNCHANGED <<row, minted, missed>>
    /\ Webbing /\ UNCHANGED budget

\* The request fails or the web tier goes away; what it wrote stays.
HandlerDies(h) ==
    /\ task[h].at # "rest"
    /\ Spend("faults")
    /\ Reply(h)
    /\ missed' = missed \cup
          (IF task[h].changed \/ task[h].at \in {"stale", "redeploy"} THEN {"died"} ELSE {})
    /\ Webbing /\ UNCHANGED <<row, minted>>

(***************************************************************************)
(* A start, call by call.                                                  *)
(***************************************************************************)
Resting(next) == rec' = [at |-> next, read |-> NothingRead]
On(next) == rec' = [rec EXCEPT !.at = next]
Reads(next, read) == rec' = [at |-> next, read |-> read]
Moves(state) == row' = [row EXCEPT !.state = state]
DeleteDeployment == dep' = IF dep.here THEN [dep EXCEPT !.deleting = TRUE] ELSE dep

\* What the web and the cluster keep while the orchestrator takes a step.
Reconciling == UNCHANGED <<minted, pod, task, budget>>

RoomRead == [NothingRead EXCEPT !.mode = row.mode, !.key = row.key]

StartReadsRoom ==
    /\ rec.at = "rest"
    /\ row.state = "idle" /\ row.desired = "running" /\ ~dep.deleting
    /\ Reads("secrets", RoomRead)
    /\ missed' = missed \cap {"torn"}
    /\ Reconciling /\ UNCHANGED <<row, secret, dep>>

StartReadsSecrets ==
    /\ rec.at = "secrets"
    /\ Reads("slots", [rec.read EXCEPT !.admin = row.admin])
    /\ Reconciling /\ UNCHANGED <<row, secret, dep, missed>>

\* The last of the reads, and build on what they brought together.
StartReadsSlots ==
    /\ rec.at = "slots"
    /\ LET read == [rec.read EXCEPT !.slotKey = row.slotKey] IN
       Reads(IF Refuses(read) THEN "fail" ELSE "apply", read)
    /\ Reconciling /\ UNCHANGED <<row, secret, dep, missed>>

ApplySecret ==
    /\ rec.at = "apply"
    /\ secret' = Built(rec.read)
    /\ On("get")
    /\ Reconciling /\ UNCHANGED <<row, dep, missed>>

\* A dying Deployment is waited for, a matching one adopted, any other deleted
\* and left to the next pass, and a missing one created.
GetDeployment ==
    /\ rec.at = "get"
    /\ LET hash == Hashed(Built(rec.read)) IN
       \/ dep.deleting /\ Resting("rest") /\ UNCHANGED dep
       \/ dep.here /\ ~dep.deleting /\ dep.hash = hash /\ On("own") /\ UNCHANGED dep
       \/ dep.here /\ ~dep.deleting /\ dep.hash # hash /\ Resting("rest") /\ DeleteDeployment
       \/ ~dep.here /\ On("own") /\ dep' = [here |-> TRUE, deleting |-> FALSE, hash |-> hash]
    /\ Reconciling /\ UNCHANGED <<row, secret, missed>>

OwnSecret ==
    /\ rec.at = "own"
    /\ secret' = Built(rec.read)
    /\ On("address")
    /\ Reconciling /\ UNCHANGED <<row, dep, missed>>

\* An address that is not there yet leaves the room idle with its objects up.
ReadAddress ==
    /\ rec.at = "address"
    /\ On("starting") \/ Resting("rest")
    /\ Reconciling /\ UNCHANGED <<row, secret, dep, missed>>

MarkStarting ==
    /\ rec.at = "starting"
    /\ Moves("starting")
    /\ On("consume")
    /\ Reconciling /\ UNCHANGED <<secret, dep, missed>>

\* Whatever was asked for while this start was under way counts as done.
ConsumeRedeploy ==
    /\ rec.at = "consume"
    /\ row' = [row EXCEPT !.redeploy = FALSE]
    /\ Resting("rest")
    /\ missed' = missed \cup
          (IF row.redeploy /\ row.state = "starting" /\ Hashed(Wanted) # Hashed(Built(rec.read))
           THEN {"crossed"} ELSE {})
    /\ Reconciling /\ UNCHANGED <<secret, dep>>

Fail ==
    /\ rec.at = "fail"
    /\ DeleteDeployment
    /\ Moves("failed")
    /\ Resting("rest")
    /\ Reconciling /\ UNCHANGED <<secret, missed>>

StartStep ==
    \/ StartReadsRoom \/ StartReadsSecrets \/ StartReadsSlots \/ ApplySecret
    \/ GetDeployment \/ OwnSecret \/ ReadAddress \/ MarkStarting \/ ConsumeRedeploy \/ Fail

(***************************************************************************)
(* The other steps the planner takes of such a room.                       *)
(***************************************************************************)
Retry ==
    /\ rec.at = "rest" /\ row.state = "failed" /\ row.desired = "running"
    /\ Moves("idle")
    /\ Reconciling /\ UNCHANGED <<secret, dep, rec, missed>>

MarkRunning ==
    /\ rec.at = "rest" /\ row.state = "starting" /\ row.desired = "running"
    /\ ~row.redeploy /\ pod # NoEnv
    /\ Moves("running")
    /\ Reconciling /\ UNCHANGED <<secret, dep, rec, missed>>

\* The Deployment of a live room is gone, or a stop is over.
MarkIdle ==
    /\ rec.at = "rest" /\ ~dep.here
    /\ row.state = "stopping" \/ (row.state \in Live /\ row.desired = "running")
    /\ Moves("idle")
    /\ Reconciling /\ UNCHANGED <<secret, dep, rec, missed>>

\* recreate and stop: delete, then move the row; recreate then clears the
\* request.
BeginStop(call) ==
    /\ rec.at = "rest" /\ row.state \in Live
    /\ DeleteDeployment
    /\ Resting(call)
    /\ Reconciling /\ UNCHANGED <<row, secret, missed>>

Recreate == row.desired = "running" /\ row.redeploy /\ dep.here /\ BeginStop("recreate")
Stop == row.desired = "stopped" /\ BeginStop("stop")

ClearDeployment ==
    /\ rec.at = "recreate"
    /\ Moves("idle")
    /\ On("consume")
    /\ Reconciling /\ UNCHANGED <<secret, dep, missed>>

MarkStopping ==
    /\ rec.at = "stop"
    /\ Moves("stopping")
    /\ Resting("rest")
    /\ Reconciling /\ UNCHANGED <<secret, dep, missed>>

(***************************************************************************)
(* The sweep's refresh of a live room's Secret, once its mark is cleared   *)
(* or an hour old.                                                         *)
(***************************************************************************)
SweepReadsRoom ==
    /\ rec.at = "rest" /\ row.state \in Live /\ row.stale /\ dep.here
    /\ Reads("sweepSecrets", RoomRead)
    /\ Reconciling /\ UNCHANGED <<row, secret, dep, missed>>

SweepReadsSecrets ==
    /\ rec.at = "sweepSecrets"
    /\ Reads("sweepSlots", [rec.read EXCEPT !.admin = row.admin])
    /\ Reconciling /\ UNCHANGED <<row, secret, dep, missed>>

\* A room whose passwords are incomplete keeps the Secret it has.
SweepReadsSlots ==
    /\ rec.at = "sweepSlots"
    /\ LET read == [rec.read EXCEPT !.slotKey = row.slotKey] IN
       IF Refuses(read) THEN Resting("rest") ELSE Reads("sweepApply", read)
    /\ Reconciling /\ UNCHANGED <<row, secret, dep, missed>>

SweepApplies ==
    /\ rec.at = "sweepApply"
    /\ secret' = Built(rec.read)
    /\ On("sweepMark")
    /\ Reconciling /\ UNCHANGED <<row, dep, missed>>

MarkSecretSynced ==
    /\ rec.at = "sweepMark"
    /\ row' = [row EXCEPT !.stale = FALSE]
    /\ Resting("rest")
    /\ Reconciling /\ UNCHANGED <<secret, dep, missed>>

Sweep ==
    \/ SweepReadsRoom \/ SweepReadsSecrets \/ SweepReadsSlots \/ SweepApplies
    \/ MarkSecretSynced

\* A call fails, or the process dies: the step ends where it is.
StepEnds ==
    /\ rec.at # "rest"
    /\ Spend("faults")
    /\ Resting("rest")
    /\ UNCHANGED <<row, minted, secret, dep, pod, task, missed>>

(***************************************************************************)
(* The cluster, and the clock.                                             *)
(***************************************************************************)
Outside == UNCHANGED <<minted, rec, task>>

ContainerStarts ==
    /\ dep.here /\ ~dep.deleting /\ pod = NoEnv /\ secret # NoEnv
    /\ pod' = secret
    /\ missed' = (missed \ {"torn"}) \cup (IF Hashed(secret) # dep.hash THEN {"torn"} ELSE {})
    /\ Outside /\ UNCHANGED <<row, secret, dep, budget>>

ContainerDies ==
    /\ pod # NoEnv
    /\ Spend("faults")
    /\ pod' = NoEnv
    /\ Outside /\ UNCHANGED <<row, secret, dep, missed>>

Collect ==
    /\ dep.deleting
    /\ dep' = NoDeployment /\ pod' = NoEnv /\ secret' = NoEnv
    /\ Outside /\ UNCHANGED <<row, missed, budget>>

HourPasses ==
    /\ ~row.stale
    /\ row' = [row EXCEPT !.stale = TRUE]
    /\ Outside /\ UNCHANGED <<secret, dep, pod, missed, budget>>

Web ==
    \/ \E desired \in {"running", "stopped"} : RequestState(desired)
    \/ \E h \in Handlers :
        \/ \E mode \in Modes, wants \in BOOLEAN : Ask(h, "mode", mode, wants)
        \/ Ask(h, "rotate", "none", FALSE)
        \/ SetSlotAuth(h) \/ SetServerPassword(h) \/ MarkSecretStale(h)
        \/ RequestRedeploy(h) \/ RotatePassword(h) \/ HandlerDies(h)

Orchestrator ==
    \/ StartStep \/ Retry \/ MarkRunning \/ MarkIdle \/ Recreate \/ Stop
    \/ ClearDeployment \/ MarkStopping \/ Sweep \/ StepEnds

Cluster == ContainerStarts \/ ContainerDies \/ Collect \/ HourPasses

Next == Web \/ Orchestrator \/ Cluster

Spec == Init /\ [][Next]_vars

-----------------------------------------------------------------------------
(***************************************************************************)
(* Properties.                                                             *)
(***************************************************************************)

\* "A partial map locks players out" (secret.rs:15): whatever a render read on
\* either side of a change, neither the Secret nor a container is ever in a mode
\* without that mode's passwords, nor out of it with them.
DoorIsWhole ==
    \A env \in {secret, pod} : env.mode \in {"none", "absent"} <=> env.key = NoKey

\* Nothing is under way for the room, and its container has started.
Settled ==
    /\ rec.at = "rest" /\ \A h \in Handlers : task[h].at = "rest"
    /\ row.state \in Live /\ ~row.redeploy
    /\ dep.here /\ ~dep.deleting /\ pod # NoEnv

\* "Every transition is a restart" (room.rs:1508): a settled room demands what
\* its row says.  It fails to only for four reasons: the request that made the
\* change died before asking for the restart, it was asked for inside a start
\* that had already read the row, the rotation thought the room was down, or a
\* start died between the Secret and the Deployment.
RoomDemandsItsRow == Settled /\ missed = {} => Hashed(pod) = Hashed(Wanted)
=============================================================================
