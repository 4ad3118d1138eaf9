----------------------------- MODULE SlotControl -----------------------------
(***************************************************************************)
(* One room's slot, seen by the helpers who change its password or lock    *)
(* it.  What they ask is written to the slot's row, and from there has to  *)
(* reach the room's Secret, which a container reads once, when it starts,  *)
(* and the running room itself.  Four parties carry it, each reading       *)
(* before it writes: the web tier (console.rs), the command dispatcher     *)
(* (dispatch.rs), the reconciler's start and mark_running (steps.rs), and  *)
(* its Secret refresh (sweep.rs).                                          *)
(*                                                                         *)
(* Passwords are numbered in the order they were generated.  A room that   *)
(* stays up keeps its last one; it keeps a lock in room.save, across       *)
(* restarts.  A room is only as detailed as its slot needs: the start      *)
(* sequence is its three calls that touch the Secret or the pod, and       *)
(* RoomLifecycle has the rest.                                             *)
(***************************************************************************)
EXTENDS Naturals, Sequences

CONSTANTS
    Helpers,
    Asks,           \* the commands they may ask for
    MaxAsks,        \* bound: commands asked for
    MaxStarts,      \* bound: starts of the room
    MaxFaults       \* bound: failed calls, crashes, lost saves

ASSUME SlotAssumption ==
    /\ Asks \subseteq {"rotate", "lock", "unlock"}
    /\ MaxAsks \in Nat /\ MaxStarts \in Nat /\ MaxFaults \in Nat

VARIABLES
    state,      \* rooms.state
    slot,       \* room_slots: the password and whether it is locked
    synced,     \* rooms.secret_synced_at: never (NULL), fresh, or over an hour old
    secret,     \* the password in the room's Secret
    pod,        \* its pod, the password it accepts, and the lock in its save
    cmds,       \* room_commands, in the order of requested_at
    helper,     \* a helper's request to the web tier
    disp,       \* the dispatcher and the command it has claimed
    rec,        \* the reconciler, and what the step it is in has read
    lapse,      \* a lock is known to have missed the room since they were read
    budget

vars == <<state, slot, synced, secret, pod, cmds, helper, disp, rec, lapse, budget>>

Live == {"starting", "running", "degraded"}
Passwords == 0..MaxAsks
CommandStates == {"pending", "running", "ok", "failed", "rejected"}
Finished == {"ok", "failed", "rejected"}

NoRequest == [at |-> "rest", ask |-> "lock", seen |-> "idle"]
NoCommand == [at |-> "rest", cmd |-> 0, pw |-> 0, out |-> "ok"]
Resting == [at |-> "rest", pw |-> 0]

Questions == {"rotate", "lock", "unlock"}
RoomStates == Live \cup {"idle", "stopping"}
Slot == [pw : Passwords, locked : BOOLEAN]
Pod == [at : {"none", "created", "booting", "up"}, pw : Passwords, locked : BOOLEAN]
Command == [ask : Questions, state : CommandStates]
Request == [at : {"rest", "write", "mark", "readback", "enqueue"}, ask : Questions,
            seen : RoomStates]
Errand == [at : {"rest", "check", "read", "owner", "secret", "synced", "push", "finish"},
           cmd : Nat, pw : Passwords, out : Finished]
Pass == [at : {"rest", "secret", "create", "own", "address", "stop",
               "locks", "relock", "sweepApply", "sweepMark"}, pw : Passwords]
Budget == [asks : 0..MaxAsks, starts : 0..MaxStarts, faults : 0..MaxFaults]

TypeOK ==
    /\ state \in RoomStates
    /\ slot \in Slot
    /\ synced \in {"never", "fresh", "aged"}
    /\ secret \in Passwords
    /\ pod \in Pod
    /\ cmds \in Seq(Command)
    /\ helper \in [Helpers -> Request]
    /\ disp \in Errand
    /\ rec \in Pass
    /\ lapse \in BOOLEAN
    /\ budget \in Budget

\* A room at rest, whose save agrees with its row.
Init ==
    /\ state = "idle"
    /\ \E locked \in BOOLEAN :
          /\ slot = [pw |-> 0, locked |-> locked]
          /\ pod = [at |-> "none", pw |-> 0, locked |-> locked]
    /\ synced = "never"
    /\ secret = 0
    /\ cmds = <<>>
    /\ helper = [h \in Helpers |-> NoRequest]
    /\ disp = NoCommand
    /\ rec = Resting
    /\ lapse = FALSE
    /\ budget = [asks |-> MaxAsks, starts |-> MaxStarts, faults |-> MaxFaults]

Spend(what) == budget[what] > 0 /\ budget' = [budget EXCEPT ![what] = @ - 1]
Locking(ask) == ask \in {"lock", "unlock"}
Open(c) == cmds[c].state \in {"pending", "running"}
LockPending ==
    \/ \E c \in DOMAIN cmds : Open(c) /\ Locking(cmds[c].ask)
    \/ \E h \in Helpers : helper[h].at = "enqueue" /\ Locking(helper[h].ask)

(***************************************************************************)
(* The web tier: one request of a helper, statement by statement.          *)
(***************************************************************************)
Reply(h) == helper' = [helper EXCEPT ![h] = NoRequest]
Goto(h, next) == helper' = [helper EXCEPT ![h].at = next]

\* The request guard has read the room; a rotation of a room in transition
\* is refused before anything is written.
Ask(h, ask) ==
    /\ helper[h] = NoRequest
    /\ ask = "rotate" => state \in {"running", "idle"}
    /\ Spend("asks")
    /\ helper' = [helper EXCEPT ![h].at = "write", ![h].ask = ask,
                     ![h].seen = IF ask = "rotate" THEN state ELSE "idle"]
    /\ UNCHANGED <<state, slot, synced, secret, pod, cmds, disp, rec, lapse>>

WriteRotation(h) ==
    /\ helper[h].at = "write" /\ helper[h].ask = "rotate"
    /\ slot.pw < MaxAsks
    /\ slot' = [slot EXCEPT !.pw = @ + 1]
    /\ Goto(h, "mark")
    /\ UNCHANGED <<state, synced, secret, pod, cmds, disp, rec, lapse, budget>>

MarkSecretStale(h) ==
    /\ helper[h].at = "mark"
    /\ synced' = "never"
    /\ helper' = IF helper[h].seen = "running"
                 THEN [helper EXCEPT ![h] = [NoRequest EXCEPT !.at = "enqueue", !.ask = "rotate"]]
                 ELSE [helper EXCEPT ![h].at = "readback"]
    /\ UNCHANGED <<state, slot, secret, pod, cmds, disp, rec, lapse, budget>>

\* The page says Stored if the room is where the guard saw it, Uncertain if it
\* has moved, and does no more.
ReadBack(h) ==
    /\ helper[h].at = "readback"
    /\ Reply(h)
    /\ UNCHANGED <<state, slot, synced, secret, pod, cmds, disp, rec, lapse, budget>>

\* Two requests that overtake each other between the row and the queue leave
\* the commands in an order other than the rows were written in.
WriteLock(h) ==
    /\ helper[h].at = "write" /\ Locking(helper[h].ask)
    /\ slot' = [slot EXCEPT !.locked = (helper[h].ask = "lock")]
    /\ lapse' = (lapse \/ \E g \in Helpers \ {h} : helper[g].at = "enqueue" /\ Locking(helper[g].ask))
    /\ Goto(h, "enqueue")
    /\ UNCHANGED <<state, synced, secret, pod, cmds, disp, rec, budget>>

\* The wait that follows ends with an answer or without, and changes nothing.
Enqueue(h) ==
    /\ helper[h].at = "enqueue"
    /\ cmds' = Append(cmds, [ask |-> helper[h].ask, state |-> "pending"])
    /\ Reply(h)
    /\ UNCHANGED <<state, slot, synced, secret, pod, disp, rec, lapse, budget>>

\* The request dies between two of its statements.
RequestDies(h) ==
    /\ helper[h].at \in {"mark", "enqueue"}
    /\ Spend("faults")
    /\ lapse' = (lapse \/ Locking(helper[h].ask))
    /\ Reply(h)
    /\ UNCHANGED <<state, slot, synced, secret, pod, cmds, disp, rec>>

Helper(h) ==
    \/ \E ask \in Asks : Ask(h, ask)
    \/ WriteRotation(h) \/ MarkSecretStale(h) \/ ReadBack(h)
    \/ WriteLock(h) \/ Enqueue(h) \/ RequestDies(h)

(***************************************************************************)
(* The dispatcher: claim, carry out, record.  Recovery and draining are    *)
(* one task, so neither runs inside the other.                             *)
(***************************************************************************)
Step(next) == disp' = [disp EXCEPT !.at = next]
Outcome(out) == disp' = [disp EXCEPT !.at = "finish", !.out = out, !.pw = 0]
Claimed == cmds[disp.cmd].ask
Dispatching == UNCHANGED <<state, slot, helper, rec>>

\* Mutant: the stale sweep runs beside the command it may be failing.
RecoverBeside(c) ==
    /\ c \in DOMAIN cmds /\ cmds[c].state = "running"
    /\ cmds' = [cmds EXCEPT ![c].state = "failed"]
    /\ lapse' = (lapse \/ Locking(cmds[c].ask))
    /\ Dispatching /\ UNCHANGED <<synced, secret, pod, disp, budget>>

\* Mutant: it looks for stale rows among those nobody has claimed.
RecoverUnclaimed(c) ==
    /\ disp.at = "rest"
    /\ c \in DOMAIN cmds /\ cmds[c].state = "pending"
    /\ cmds' = [cmds EXCEPT ![c].state = "failed"]
    /\ lapse' = (lapse \/ Locking(cmds[c].ask))
    /\ Dispatching /\ UNCHANGED <<synced, secret, pod, disp, budget>>

\* fail_stale: a row left running for over two minutes is nobody's.
Recover(c) ==
    /\ disp.at = "rest"
    /\ c \in DOMAIN cmds /\ cmds[c].state = "running"
    /\ cmds' = [cmds EXCEPT ![c].state = "failed"]
    /\ lapse' = (lapse \/ Locking(cmds[c].ask))
    /\ Dispatching /\ UNCHANGED <<synced, secret, pod, disp, budget>>

Oldest(c) ==
    /\ c \in DOMAIN cmds /\ cmds[c].state = "pending"
    /\ \A d \in 1..(c - 1) : cmds[d].state # "pending"

Claim(c) ==
    /\ disp.at = "rest" /\ Oldest(c)
    /\ cmds' = [cmds EXCEPT ![c].state = "running"]
    /\ disp' = [NoCommand EXCEPT !.at = "check", !.cmd = c]
    /\ Dispatching /\ UNCHANGED <<synced, secret, pod, lapse, budget>>

\* A row this build cannot read is marked running all the same, and dropped.
ClaimUnreadable(c) ==
    /\ disp.at = "rest" /\ Oldest(c)
    /\ Spend("faults")
    /\ cmds' = [cmds EXCEPT ![c].state = "running"]
    /\ Dispatching /\ UNCHANGED <<synced, secret, pod, disp, lapse>>

CheckReachable ==
    /\ disp.at = "check"
    /\ IF state # "running" THEN Outcome("rejected")
       ELSE Step(IF Claimed = "rotate" THEN "read" ELSE "push")
    /\ Dispatching /\ UNCHANGED <<synced, secret, pod, cmds, lapse, budget>>

ReadSlots ==
    /\ disp.at = "read"
    /\ disp' = [disp EXCEPT !.at = "owner", !.pw = slot.pw]
    /\ Dispatching /\ UNCHANGED <<synced, secret, pod, cmds, lapse, budget>>

FindOwner ==
    /\ disp.at = "owner"
    /\ IF pod.at = "none" THEN Outcome("failed") ELSE Step("secret")
    /\ Dispatching /\ UNCHANGED <<synced, secret, pod, cmds, lapse, budget>>

ApplySecret ==
    /\ disp.at = "secret"
    /\ secret' = disp.pw
    /\ Step("synced")
    /\ Dispatching /\ UNCHANGED <<synced, pod, cmds, lapse, budget>>

MarkSecretSynced ==
    /\ disp.at = "synced"
    /\ synced' = "fresh"
    /\ Step("push")
    /\ Dispatching /\ UNCHANGED <<secret, pod, cmds, lapse, budget>>

\* What the room accepts after a call of the claimed command has reached it.
Pushed ==
    IF Claimed = "rotate" THEN [pod EXCEPT !.pw = disp.pw]
    ELSE [pod EXCEPT !.locked = (Claimed = "lock")]

Push ==
    /\ disp.at = "push"
    /\ IF pod.at = "up" THEN pod' = Pushed /\ Outcome("ok")
       ELSE UNCHANGED pod /\ Outcome("failed")
    /\ Dispatching /\ UNCHANGED <<synced, secret, cmds, lapse, budget>>

\* A call fails; the push may have reached the room all the same.
CallFails ==
    /\ disp.at \in {"owner", "secret", "synced", "push"}
    /\ Spend("faults")
    /\ \/ UNCHANGED pod
       \/ disp.at = "push" /\ pod.at = "up" /\ pod' = Pushed
    /\ Outcome("failed")
    /\ Dispatching /\ UNCHANGED <<synced, secret, cmds, lapse>>

Finish ==
    /\ disp.at = "finish"
    /\ cmds' = [cmds EXCEPT ![disp.cmd].state = disp.out]
    /\ lapse' = (lapse \/ (disp.out = "failed" /\ Locking(Claimed)))
    /\ disp' = NoCommand
    /\ Dispatching /\ UNCHANGED <<synced, secret, pod, budget>>

FinishFails ==
    /\ disp.at = "finish"
    /\ Spend("faults")
    /\ disp' = NoCommand
    /\ Dispatching /\ UNCHANGED <<synced, secret, pod, cmds, lapse>>

Carry ==
    \/ CheckReachable \/ ReadSlots \/ FindOwner \/ ApplySecret
    \/ MarkSecretSynced \/ Push \/ Finish
Settle(c) == Recover(c) \/ Claim(c)
Dispatcher ==
    \/ Carry \/ CallFails \/ FinishFails
    \/ \E c \in DOMAIN cmds : Settle(c) \/ ClaimUnreadable(c)

(***************************************************************************)
(* The reconciler: one task, so a start, a transition and a refresh never  *)
(* overlap each other; the web tier and the dispatcher run beside it.      *)
(***************************************************************************)
Then(next) == rec' = [rec EXCEPT !.at = next]
Reconciling == UNCHANGED <<slot, cmds, helper, disp>>

\* The row is rendered before the first call to the cluster.
StartRender ==
    /\ rec.at = "rest" /\ state = "idle"
    /\ Spend("starts")
    /\ rec' = [at |-> "secret", pw |-> slot.pw]
    /\ Reconciling /\ UNCHANGED <<state, synced, secret, pod, lapse>>

StartSecret ==
    /\ rec.at = "secret"
    /\ secret' = rec.pw
    /\ Then("create")
    /\ Reconciling /\ UNCHANGED <<state, synced, pod, lapse, budget>>

\* A pod of an earlier pass is adopted: a password is not in the spec hash.
StartCreate ==
    /\ rec.at = "create"
    /\ pod' = IF pod.at = "none" THEN [pod EXCEPT !.at = "created"] ELSE pod
    /\ Then("own")
    /\ Reconciling /\ UNCHANGED <<state, synced, secret, lapse, budget>>

StartOwn ==
    /\ rec.at = "own"
    /\ secret' = rec.pw
    /\ rec' = [Resting EXCEPT !.at = "address"]
    /\ Reconciling /\ UNCHANGED <<state, synced, pod, lapse, budget>>

\* The address is the room's, or is not assigned yet and the room stays idle.
StartEnds ==
    /\ rec.at = "address"
    /\ state' \in {"starting", "idle"}
    /\ rec' = Resting
    /\ Reconciling /\ UNCHANGED <<synced, secret, pod, lapse, budget>>

\* Mutant: a room back from degraded is taken to have kept its locks.
MarkRunningTrusting ==
    /\ rec.at = "rest" /\ state \in {"starting", "degraded"} /\ pod.at = "up"
    /\ state' = "running"
    /\ rec' = IF state = "starting" THEN [rec EXCEPT !.at = "locks"] ELSE Resting
    /\ Reconciling /\ UNCHANGED <<synced, secret, pod, lapse, budget>>

MarkRunning ==
    /\ rec.at = "rest" /\ state \in {"starting", "degraded"} /\ pod.at = "up"
    /\ state' = "running"
    /\ Then("locks")
    /\ Reconciling /\ UNCHANGED <<synced, secret, pod, lapse, budget>>

\* reapply_locks asserts the slots that are locked, and says nothing of the
\* others.  Reading them makes good what had missed the room before.
ReadLocks ==
    /\ rec.at = "locks"
    /\ rec' = IF slot.locked THEN [rec EXCEPT !.at = "relock"] ELSE Resting
    /\ lapse' = (lapse /\ LockPending)
    /\ Reconciling /\ UNCHANGED <<state, synced, secret, pod, budget>>

Relock ==
    /\ rec.at = "relock"
    /\ \/ /\ pod.at = "up"
          /\ pod' = [pod EXCEPT !.locked = TRUE]
          /\ UNCHANGED <<lapse, budget>>
       \/ /\ pod.at = "up" /\ Spend("faults")
          /\ lapse' = TRUE
          /\ UNCHANGED pod
       \/ /\ pod.at # "up"
          /\ lapse' = TRUE
          /\ UNCHANGED <<pod, budget>>
    /\ rec' = Resting
    /\ Reconciling /\ UNCHANGED <<state, synced, secret>>

MarkDegraded ==
    /\ rec.at = "rest" /\ state = "running" /\ pod.at # "up"
    /\ state' = "degraded"
    /\ Reconciling /\ UNCHANGED <<synced, secret, pod, rec, lapse, budget>>

\* The Secret goes with the Deployment; the next start writes it before any
\* container can read it.
StopDelete ==
    /\ rec.at = "rest" /\ state \in Live
    /\ pod' = [pod EXCEPT !.at = "none"]
    /\ Then("stop")
    /\ Reconciling /\ UNCHANGED <<state, synced, secret, lapse, budget>>

\* A stop leaves the room stopping, a recreate idle.
StopMark ==
    /\ rec.at = "stop"
    /\ state' \in {"stopping", "idle"}
    /\ rec' = Resting
    /\ Reconciling /\ UNCHANGED <<synced, secret, pod, lapse, budget>>

MarkIdle ==
    /\ rec.at = "rest" /\ pod.at = "none"
    /\ state \in Live \cup {"stopping"}
    /\ state' = "idle"
    /\ Reconciling /\ UNCHANGED <<synced, secret, pod, rec, lapse, budget>>

\* Mutant: only a mark makes a Secret stale, and never its age.
StaleByMark == state \in Live /\ synced = "never"

\* stale_secret_rooms: NULL, or an hour old.
Stale == state \in Live /\ synced \in {"never", "aged"}

SweepRead ==
    /\ rec.at = "rest" /\ Stale /\ pod.at # "none"
    /\ rec' = [at |-> "sweepApply", pw |-> slot.pw]
    /\ Reconciling /\ UNCHANGED <<state, synced, secret, pod, lapse, budget>>

SweepApply ==
    /\ rec.at = "sweepApply"
    /\ secret' = rec.pw
    /\ rec' = [Resting EXCEPT !.at = "sweepMark"]
    /\ Reconciling /\ UNCHANGED <<state, synced, pod, lapse, budget>>

SweepMark ==
    /\ rec.at = "sweepMark"
    /\ synced' = "fresh"
    /\ rec' = Resting
    /\ Reconciling /\ UNCHANGED <<state, secret, pod, lapse, budget>>

SweepFails ==
    /\ rec.at \in {"sweepApply", "sweepMark"}
    /\ Spend("faults")
    /\ rec' = Resting
    /\ Reconciling /\ UNCHANGED <<state, synced, secret, pod, lapse>>

StepOn ==
    \/ StartSecret \/ StartCreate \/ StartOwn \/ StartEnds \/ ReadLocks \/ Relock
    \/ StopMark \/ SweepApply \/ SweepMark
Reconciler ==
    \/ StepOn \/ StartRender \/ MarkRunning \/ MarkDegraded \/ StopDelete \/ MarkIdle
    \/ SweepRead \/ SweepFails

\* The process dies, or loses the lock: both of its tasks end where they are.
OrchestratorDies ==
    /\ disp.at # "rest" \/ rec.at # "rest"
    /\ Spend("faults")
    /\ disp' = NoCommand /\ rec' = Resting
    /\ lapse' = (lapse \/ rec.at \in {"locks", "relock"})
    /\ UNCHANGED <<state, slot, synced, secret, pod, cmds, helper>>

(***************************************************************************)
(* The room, and the clock.                                                *)
(***************************************************************************)
Outside == UNCHANGED <<state, slot, secret, cmds, helper, disp, rec, lapse>>

ContainerStarts ==
    /\ pod.at = "created"
    /\ pod' = [pod EXCEPT !.at = "booting", !.pw = secret]
    /\ Outside /\ UNCHANGED <<synced, budget>>

ContainerReady ==
    /\ pod.at = "booting"
    /\ pod' = [pod EXCEPT !.at = "up"]
    /\ Outside /\ UNCHANGED <<synced, budget>>

ContainerDies ==
    /\ pod.at \in {"booting", "up"}
    /\ Spend("faults")
    /\ pod' = [pod EXCEPT !.at = "created"]
    /\ Outside /\ UNCHANGED synced

SaveLost ==
    /\ pod.at = "none" /\ pod.locked
    /\ Spend("faults")
    /\ pod' = [pod EXCEPT !.locked = FALSE]
    /\ Outside /\ UNCHANGED synced

HourPasses ==
    /\ synced = "fresh"
    /\ synced' = "aged"
    /\ Outside /\ UNCHANGED <<pod, budget>>

Room == ContainerStarts \/ ContainerReady \/ ContainerDies \/ SaveLost

Next ==
    \/ \E h \in Helpers : Helper(h)
    \/ Dispatcher \/ Reconciler \/ OrchestratorDies
    \/ Room \/ HourPasses

Spec == Init /\ [][Next]_vars

(***************************************************************************)
(* Fairness: the dispatcher polls every five seconds and a full pass       *)
(* sweeps, each step of either is taken, a container starts, time passes.  *)
(* A helper, a start and a stop are nobody's duty.                         *)
(***************************************************************************)
FairSpec ==
    /\ Spec
    /\ WF_vars(Carry) /\ WF_vars(\E c \in DOMAIN cmds : Settle(c))
    /\ WF_vars(StepOn) /\ WF_vars(SweepRead)
    /\ WF_vars(HourPasses)

-----------------------------------------------------------------------------
(***************************************************************************)
(* Properties.                                                             *)
(***************************************************************************)
Settled ==
    /\ \A c \in DOMAIN cmds : ~Open(c)
    /\ \A h \in Helpers : helper[h] = NoRequest
    /\ rec.at \notin {"locks", "relock"}

\* A slot Puna holds locked is barred from the running room once nothing is
\* in flight, whichever of the queue and mark_running was to carry the lock
\* and whatever the save forgot (steps.rs:870), unless a call that failed, a
\* crash or two crossing requests are known to have kept it from the room.
LockedSlotIsBarred ==
    state = "running" /\ pod.at = "up" /\ slot.locked /\ Settled /\ ~lapse => pod.locked

\* Through the deaths, the lost answers and the stale sweep, commands are taken
\* one at a time, oldest first and once each, and one that has its outcome
\* keeps it (command.rs:1113, command.rs:1330).
InHand == IF disp.at = "rest" THEN 0 ELSE disp.cmd
Queue == INSTANCE CommandQueue WITH
    Asks <- Questions, Answers <- Finished, queue <- cmds, hand <- InHand
QueueIsKept == Queue!Spec

\* Every command asked for ends, though the dispatcher that claimed it dies
\* or cannot record what became of it (dispatch.rs:95, command.rs:1330).
CommandsEnd ==
    \A c \in 1..MaxAsks :
        c \in DOMAIN cmds /\ Open(c) ~> c \in DOMAIN cmds /\ ~Open(c)

\* While the room is up, a rotated password reaches its Secret, though the
\* mark that asks for it is lost, or is overwritten by a refresh that read
\* the row before the rotation (sweep.rs:208).
Deployed == state \in Live /\ pod.at # "none"
SecretCatchesUp ==
    Deployed /\ secret # slot.pw ~> secret = slot.pw \/ ~Deployed
=============================================================================
