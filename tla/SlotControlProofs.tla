-------------------------- MODULE SlotControlProofs --------------------------
(***************************************************************************)
(* Type correctness of SlotControl, that it implements CommandQueue, and   *)
(* that a locked slot is barred from the running room, for any number of   *)
(* helpers, commands, starts and faults.                                   *)
(*                                                                         *)
(* The last one rests on who carries a lock: as long as no lapse is known, *)
(* either the room has it, or a command that will yet assert it is in the  *)
(* queue, and no command that would lift it comes after.                   *)
(***************************************************************************)
EXTENDS SlotControl, SequenceTheorems, TLAPS

Enqueuing(h) == helper[h].at = "enqueue" /\ Locking(helper[h].ask)

\* A command that may still change what the room does.
Able(c) == cmds[c].state = "pending" \/ (disp.cmd = c /\ disp.at \in {"check", "push"})

\* One that has not, and if it never does will end as failed.
Undelivered(c) == Open(c) /\ ~(disp.at = "finish" /\ disp.cmd = c /\ disp.out # "failed")

ClaimInv ==
    disp.at # "rest" =>
        /\ disp.cmd \in DOMAIN cmds /\ cmds[disp.cmd].state = "running"
        /\ disp.at \in {"read", "owner", "secret", "synced"} => Claimed = "rotate"

QueueInv ==
    /\ \A c, d \in DOMAIN cmds :
          c < d /\ cmds[c].state = "pending" => cmds[d].state = "pending"
    /\ disp.at # "rest" => \A d \in DOMAIN cmds : d > disp.cmd => cmds[d].state = "pending"

StartInv == rec.at \in {"secret", "create", "own", "address"} => state = "idle"

RequestInv ==
    ~lapse =>
        /\ \A h \in Helpers : Enqueuing(h) => (helper[h].ask = "lock") = slot.locked
        /\ \A g, h \in Helpers : Enqueuing(g) /\ Enqueuing(h) => g = h

\* What the row says has been handed to the queue.
Handed == ~lapse /\ slot.locked /\ \A h \in Helpers : ~Enqueuing(h)

OrderInv ==
    Handed => \A c \in DOMAIN cmds : Able(c) /\ cmds[c].ask = "unlock" =>
        \E d \in DOMAIN cmds : d > c /\ cmds[d].state = "pending" /\ cmds[d].ask = "lock"

Due == state = "running" /\ pod.at # "none" /\ rec.at \notin {"locks", "relock"}
Carried == pod.locked \/ \E c \in DOMAIN cmds : cmds[c].ask = "lock" /\ Undelivered(c)
LockInv == Handed /\ Due => Carried

IInv == TypeOK /\ ClaimInv /\ QueueInv /\ StartInv /\ RequestInv /\ OrderInv /\ LockInv

-----------------------------------------------------------------------------
(***************************************************************************)
(* The queue: what appending a command and restating one leave behind.     *)
(***************************************************************************)
Grown(c) ==
    /\ cmds' \in Seq(Command)
    /\ DOMAIN cmds' = DOMAIN cmds \cup {c}
    /\ c \in Nat
    /\ \A d \in DOMAIN cmds : d < c /\ d \in DOMAIN cmds' /\ cmds'[d] = cmds[d]
    /\ cmds'[c].state = "pending"

\* A command is added behind all the others, pending, and they stay as they are.
LEMMA EnqueueGrows ==
    ASSUME TypeOK, NEW h \in Helpers, Enqueue(h)
    PROVE  \E c \in Nat : Grown(c) /\ cmds'[c].ask = helper[h].ask
<1> DEFINE new == [ask |-> helper[h].ask, state |-> "pending"]
<1>1. cmds \in Seq(Command) /\ new \in Command
  BY DEF TypeOK, Command, CommandStates, Request
<1>2. cmds' = Append(cmds, new)
  BY DEF Enqueue
<1> HIDE DEF new
<1>3. Len(cmds) \in Nat /\ DOMAIN cmds = 1..Len(cmds)
  BY <1>1, LenProperties
<1>4. /\ cmds' \in Seq(Command)
      /\ Len(cmds') = Len(cmds) + 1
      /\ \A i \in 1..Len(cmds) : cmds'[i] = cmds[i]
      /\ cmds'[Len(cmds) + 1] = new
  BY <1>1, <1>2, AppendProperties
<1>5. DOMAIN cmds' = 1..(Len(cmds) + 1)
  BY <1>4, LenProperties
<1>6. Grown(Len(cmds) + 1)
  BY <1>3, <1>4, <1>5 DEF Grown, new
<1> QED
  BY <1>3, <1>4, <1>6 DEF new

Restated(c, s) ==
    /\ cmds' \in Seq(Command)
    /\ DOMAIN cmds' = DOMAIN cmds
    /\ \A d \in DOMAIN cmds :
          /\ cmds'[d].ask = cmds[d].ask
          /\ cmds'[d].state = IF d = c THEN s ELSE cmds[d].state

\* Writing one command's state changes nothing else of the queue.
LEMMA RestateKeeps ==
    ASSUME TypeOK, NEW c \in DOMAIN cmds, NEW s \in CommandStates,
           cmds' = [cmds EXCEPT ![c].state = s]
    PROVE  Restated(c, s)
<1> DEFINE new == [cmds[c] EXCEPT !.state = s]
<1>1. cmds \in Seq(Command)
  BY DEF TypeOK, Command
<1>2. Len(cmds) \in Nat /\ DOMAIN cmds = 1..Len(cmds) /\ cmds[c] \in Command
  BY <1>1, LenProperties
<1>3. new \in Command /\ new.ask = cmds[c].ask /\ new.state = s
  BY <1>2 DEF Command
<1>4. cmds' = [cmds EXCEPT ![c] = new]
  OBVIOUS
<1> HIDE DEF new
<1>5. /\ cmds' \in Seq(Command)
      /\ Len(cmds') = Len(cmds)
      /\ \A d \in 1..Len(cmds) : cmds'[d] = IF d = c THEN new ELSE cmds[d]
  BY <1>1, <1>2, <1>3, <1>4, ExceptSeq
<1>6. DOMAIN cmds' = DOMAIN cmds
  BY <1>2, <1>5, LenProperties
<1> QED
  BY <1>2, <1>3, <1>5, <1>6 DEF Restated

LEMMA QueueTypes ==
    ASSUME TypeOK
    PROVE  /\ DOMAIN cmds \subseteq Nat \ {0}
           /\ \A c \in DOMAIN cmds : cmds[c].state \in CommandStates
           /\ \A c \in DOMAIN cmds : cmds[c].ask \in Questions
<1>1. cmds \in Seq(Command)
  BY DEF TypeOK, Command
<1>2. DOMAIN cmds = 1..Len(cmds) /\ Len(cmds) \in Nat
  BY <1>1, LenProperties
<1>3. \A c \in DOMAIN cmds : cmds[c] \in Command
  BY <1>1, <1>2
<1>4. DOMAIN cmds \subseteq Nat \ {0}
  BY <1>2
<1> QED
  BY <1>3, <1>4 DEF Command

(***************************************************************************)
(* Types.                                                                  *)
(***************************************************************************)
LEMMA SpendType ==
    ASSUME TypeOK, NEW what \in {"asks", "starts", "faults"}, Spend(what)
    PROVE  budget' \in Budget
<1>1. /\ budget \in Budget /\ budget[what] > 0
      /\ budget' = [budget EXCEPT ![what] = @ - 1]
  BY DEF TypeOK, Spend
<1>2. CASE what = "asks"
  BY <1>1, <1>2, SlotAssumption DEF Budget
<1>3. CASE what = "starts"
  BY <1>1, <1>3, SlotAssumption DEF Budget
<1>4. CASE what = "faults"
  BY <1>1, <1>4, SlotAssumption DEF Budget
<1> QED
  BY <1>2, <1>3, <1>4

LEMMA ZeroPassword == 0 \in Passwords
BY SlotAssumption DEF Passwords

LEMMA InitType == Init => TypeOK
<1> SUFFICES ASSUME Init PROVE TypeOK
  OBVIOUS
<1>1. slot \in Slot /\ pod \in Pod
  BY ZeroPassword DEF Init, Slot, Pod
<1>2. helper \in [Helpers -> Request] /\ disp \in Errand /\ rec \in Pass
  BY ZeroPassword DEF Init, Request, Errand, Pass, NoRequest, NoCommand, Resting, Questions,
                      RoomStates, Finished
<1>3. budget \in Budget
  BY SlotAssumption DEF Init, Budget
<1>4. cmds \in Seq(Command)
  BY DEF Init
<1> QED
  BY <1>1, <1>2, <1>3, <1>4, ZeroPassword DEF Init, TypeOK, RoomStates

LEMMA HelperType ==
    ASSUME TypeOK, NEW h \in Helpers, Helper(h)
    PROVE  TypeOK'
<1> USE ZeroPassword
<1>1. ASSUME NEW ask \in Asks, Ask(h, ask) PROVE TypeOK'
  <2>1. ask \in Questions
    BY SlotAssumption DEF Questions
  <2>2. helper' \in [Helpers -> Request]
    BY <1>1, <2>1 DEF TypeOK, Ask, Request, RoomStates, NoRequest
  <2> QED
    BY <1>1, <2>2, SpendType DEF TypeOK, Ask
<1>2. CASE WriteRotation(h)
  <2>1. slot.pw + 1 \in Passwords
    BY <1>2, SlotAssumption DEF TypeOK, WriteRotation, Passwords, Slot
  <2> QED
    BY <1>2, <2>1 DEF TypeOK, WriteRotation, Goto, Request, Slot
<1>3. CASE MarkSecretStale(h)
  BY <1>3 DEF TypeOK, MarkSecretStale, Request, NoRequest, Questions, RoomStates
<1>4. CASE ReadBack(h)
  BY <1>4 DEF TypeOK, ReadBack, Reply, NoRequest, Request, Questions, RoomStates
<1>5. CASE WriteLock(h)
  BY <1>5 DEF TypeOK, WriteLock, Goto, Request, Slot
<1>6. CASE Enqueue(h)
  <2>1. cmds' \in Seq(Command)
    BY <1>6, EnqueueGrows DEF Grown
  <2> QED
    BY <1>6, <2>1 DEF TypeOK, Enqueue, Reply, NoRequest, Request, Questions, RoomStates
<1>7. CASE RequestDies(h)
  BY <1>7, SpendType DEF TypeOK, RequestDies, Reply, NoRequest, Request, Questions, RoomStates
<1> QED
  BY <1>1, <1>2, <1>3, <1>4, <1>5, <1>6, <1>7 DEF Helper

LEMMA RestateType ==
    ASSUME NEW c, NEW s, Restated(c, s)
    PROVE  cmds' \in Seq(Command)
BY DEF Restated

LEMMA DispatcherType ==
    ASSUME TypeOK, ClaimInv, Dispatcher
    PROVE  TypeOK'
<1> USE ZeroPassword DEF Dispatching, Errand, Finished
<1>1. CASE CheckReachable
  BY <1>1 DEF TypeOK, CheckReachable, Outcome, Step
<1>2. CASE ReadSlots
  BY <1>2 DEF TypeOK, ReadSlots, Slot
<1>3. CASE FindOwner
  BY <1>3 DEF TypeOK, FindOwner, Outcome, Step
<1>4. CASE ApplySecret
  BY <1>4 DEF TypeOK, ApplySecret, Step
<1>5. CASE MarkSecretSynced
  BY <1>5 DEF TypeOK, MarkSecretSynced, Step
<1>6. CASE Push
  BY <1>6 DEF TypeOK, Push, Pushed, Pod, Outcome
<1>7. CASE Finish
  <2>1. disp.out \in CommandStates /\ disp.cmd \in DOMAIN cmds
    BY <1>7 DEF Finish, TypeOK, ClaimInv, CommandStates
  <2>2. Restated(disp.cmd, disp.out)
    BY <1>7, <2>1, RestateKeeps DEF Finish
  <2> QED
    BY <1>7, <2>2, RestateType DEF TypeOK, Finish, NoCommand
<1>8. CASE CallFails
  BY <1>8, SpendType DEF TypeOK, CallFails, Pushed, Pod, Outcome
<1>9. CASE FinishFails
  BY <1>9, SpendType DEF TypeOK, FinishFails, NoCommand
<1>10. ASSUME NEW c \in DOMAIN cmds, Recover(c) PROVE TypeOK'
  <2>1. Restated(c, "failed")
    BY <1>10, RestateKeeps DEF Recover, CommandStates
  <2> QED
    BY <1>10, <2>1, RestateType DEF TypeOK, Recover
<1>11. ASSUME NEW c \in DOMAIN cmds, Claim(c) PROVE TypeOK'
  <2>1. Restated(c, "running") /\ c \in Nat
    BY <1>11, RestateKeeps, QueueTypes DEF Claim, CommandStates
  <2> QED
    BY <1>11, <2>1, RestateType DEF TypeOK, Claim, NoCommand
<1>12. ASSUME NEW c \in DOMAIN cmds, ClaimUnreadable(c) PROVE TypeOK'
  <2>1. Restated(c, "running")
    BY <1>12, RestateKeeps DEF ClaimUnreadable, CommandStates
  <2> QED
    BY <1>12, <2>1, RestateType, SpendType DEF TypeOK, ClaimUnreadable
<1> QED
  BY <1>1, <1>2, <1>3, <1>4, <1>5, <1>6, <1>7, <1>8, <1>9, <1>10, <1>11, <1>12
  DEF Dispatcher, Carry, Settle

LEMMA ReconcilerType ==
    ASSUME TypeOK, Reconciler
    PROVE  TypeOK'
<1> USE ZeroPassword DEF Reconciling, Then, Resting, Pass
<1>1. CASE StartSecret
  BY <1>1 DEF TypeOK, StartSecret
<1>2. CASE StartCreate
  BY <1>2 DEF TypeOK, StartCreate, Pod
<1>3. CASE StartOwn
  BY <1>3 DEF TypeOK, StartOwn
<1>4. CASE StartEnds
  BY <1>4 DEF TypeOK, StartEnds, RoomStates, Live
<1>5. CASE ReadLocks
  BY <1>5 DEF TypeOK, ReadLocks
<1>6. CASE Relock
  BY <1>6, SpendType DEF TypeOK, Relock, Pod
<1>7. CASE StopMark
  BY <1>7 DEF TypeOK, StopMark, RoomStates, Live
<1>8. CASE SweepApply
  BY <1>8 DEF TypeOK, SweepApply
<1>9. CASE SweepMark
  BY <1>9 DEF TypeOK, SweepMark
<1>10. CASE StartRender
  BY <1>10, SpendType DEF TypeOK, StartRender, Slot
<1>11. CASE MarkRunning
  BY <1>11 DEF TypeOK, MarkRunning, RoomStates, Live
<1>12. CASE MarkDegraded
  BY <1>12 DEF TypeOK, MarkDegraded, RoomStates, Live
<1>13. CASE StopDelete
  BY <1>13 DEF TypeOK, StopDelete, Pod
<1>14. CASE MarkIdle
  BY <1>14 DEF TypeOK, MarkIdle, RoomStates, Live
<1>15. CASE SweepRead
  BY <1>15 DEF TypeOK, SweepRead, Slot
<1>16. CASE SweepFails
  BY <1>16, SpendType DEF TypeOK, SweepFails
<1> QED
  BY <1>1, <1>2, <1>3, <1>4, <1>5, <1>6, <1>7, <1>8,
     <1>9, <1>10, <1>11, <1>12, <1>13, <1>14, <1>15, <1>16
  DEF Reconciler, StepOn

LEMMA RestType ==
    ASSUME TypeOK, OrchestratorDies \/ Room \/ HourPasses
    PROVE  TypeOK'
<1> USE ZeroPassword DEF Outside
<1>1. CASE OrchestratorDies
  BY <1>1, SpendType DEF TypeOK, OrchestratorDies, NoCommand, Resting, Errand, Pass, Finished
<1>2. CASE ContainerStarts
  BY <1>2 DEF TypeOK, ContainerStarts, Pod
<1>3. CASE ContainerReady
  BY <1>3 DEF TypeOK, ContainerReady, Pod
<1>4. CASE ContainerDies
  BY <1>4, SpendType DEF TypeOK, ContainerDies, Pod
<1>5. CASE SaveLost
  BY <1>5, SpendType DEF TypeOK, SaveLost, Pod
<1>6. CASE HourPasses
  BY <1>6 DEF TypeOK, HourPasses
<1> QED
  BY <1>1, <1>2, <1>3, <1>4, <1>5, <1>6 DEF Room

LEMMA TypeNext ==
    ASSUME TypeOK, ClaimInv, [Next]_vars
    PROVE  TypeOK'
<1>1. CASE UNCHANGED vars
  BY <1>1 DEF TypeOK, vars
<1> QED
  BY <1>1, HelperType, DispatcherType, ReconcilerType, RestType DEF Next

(***************************************************************************)
(* The queue and the dispatcher's claim on it.                             *)
(***************************************************************************)
\* A step of a command the dispatcher goes on with.
GoesOn ==
    /\ disp.at # "rest" /\ disp'.at # "rest" /\ disp'.cmd = disp.cmd
    /\ disp'.at \in {"read", "owner", "secret", "synced"} => Claimed = "rotate"
    /\ disp'.at \in {"check", "push"} => disp.at \in {"check", "push"} \/ Claimed = "rotate"
    /\ disp'.at = "finish" => disp'.out = "failed" \/ state # "running" \/ Push
    /\ cmds' = cmds

\* One that leaves its command running.
Drops == cmds' = cmds /\ disp' = NoCommand

LEMMA QueueSteps ==
    ASSUME TypeOK, ClaimInv, [Next]_vars
    PROVE  \/ cmds' = cmds /\ disp' = disp
           \/ \E h \in Helpers : Enqueue(h)
           \/ GoesOn \/ Drops \/ Finish
           \/ \E c \in DOMAIN cmds : Recover(c) \/ Claim(c) \/ ClaimUnreadable(c)
<1> USE DEF Outcome, Step, GoesOn, Drops
<1>1. CASE UNCHANGED vars
  BY <1>1 DEF vars
<1>2. ASSUME NEW h \in Helpers, Helper(h), ~Enqueue(h) PROVE cmds' = cmds /\ disp' = disp
  BY <1>2 DEF Helper, Ask, WriteRotation, MarkSecretStale, ReadBack, WriteLock, RequestDies
<1>3. CASE CheckReachable \/ ReadSlots \/ FindOwner
  <2>1. disp \in Errand
    BY DEF TypeOK
  <2> QED
    BY <1>3, <2>1 DEF CheckReachable, ReadSlots, FindOwner, ClaimInv, Errand
<1>4. CASE ApplySecret \/ MarkSecretSynced \/ Push \/ CallFails
  <2>1. disp \in Errand
    BY DEF TypeOK
  <2> QED
    BY <1>4, <2>1 DEF ApplySecret, MarkSecretSynced, Push, CallFails, ClaimInv, Errand
<1>5. CASE FinishFails \/ OrchestratorDies
  BY <1>5 DEF FinishFails, OrchestratorDies
<1>6. CASE Reconciler
  BY <1>6 DEF Reconciler, Reconciling, StepOn, StartSecret, StartCreate, StartOwn, StartEnds,
              ReadLocks, Relock, StopMark, SweepApply, SweepMark, StartRender, MarkRunning,
              MarkDegraded, StopDelete, MarkIdle, SweepRead, SweepFails
<1>7. CASE Room \/ HourPasses
  BY <1>7 DEF Room, Outside, ContainerStarts, ContainerReady, ContainerDies, SaveLost, HourPasses
<1> QED
  BY <1>1, <1>2, <1>3, <1>4, <1>5, <1>6, <1>7 DEF Next, Dispatcher, Carry, Settle

LEMMA QueueNext ==
    ASSUME TypeOK, ClaimInv, QueueInv, [Next]_vars
    PROVE  ClaimInv' /\ QueueInv'
<1>0. DOMAIN cmds \subseteq Nat \ {0}
  BY QueueTypes
<1>1. CASE cmds' = cmds /\ disp' = disp
  BY <1>1 DEF ClaimInv, QueueInv, Claimed
<1>2. ASSUME NEW h \in Helpers, Enqueue(h) PROVE ClaimInv' /\ QueueInv'
  <2>1. disp' = disp
    BY <1>2 DEF Enqueue
  <2>2. PICK c \in Nat : Grown(c)
    BY <1>2, EnqueueGrows
  <2>3. ClaimInv'
    BY <2>1, <2>2 DEF ClaimInv, Grown, Claimed
  <2>4. QueueInv'
    BY <2>1, <2>2, <1>0 DEF QueueInv, Grown, ClaimInv
  <2> QED
    BY <2>3, <2>4
<1>3. CASE GoesOn
  BY <1>3 DEF GoesOn, ClaimInv, QueueInv, Claimed
<1>4. CASE Drops
  BY <1>4 DEF Drops, NoCommand, ClaimInv, QueueInv
<1>5. CASE Finish
  <2>1. disp.out \in Finished /\ disp.cmd \in DOMAIN cmds /\ cmds[disp.cmd].state = "running"
    BY <1>5 DEF Finish, TypeOK, ClaimInv, Errand
  <2>2. Restated(disp.cmd, disp.out)
    BY <1>5, <2>1, RestateKeeps DEF Finish, Finished, CommandStates
  <2>3. disp'.at = "rest"
    BY <1>5 DEF Finish, NoCommand
  <2> QED
    BY <2>1, <2>2, <2>3 DEF ClaimInv, QueueInv, Restated, Finished
<1>6. ASSUME NEW c \in DOMAIN cmds, Recover(c) PROVE ClaimInv' /\ QueueInv'
  <2>1. Restated(c, "failed") /\ cmds[c].state = "running" /\ disp.at = "rest" /\ disp' = disp
    BY <1>6, RestateKeeps DEF Recover, CommandStates
  <2> QED
    BY <2>1 DEF ClaimInv, QueueInv, Restated
<1>7. ASSUME NEW c \in DOMAIN cmds, Oldest(c), Restated(c, "running"),
             disp'.at # "rest" => disp'.cmd = c /\ disp'.at = "check"
      PROVE  ClaimInv' /\ QueueInv'
  <2>1. \A d \in DOMAIN cmds : d < c => cmds[d].state # "pending"
    BY <1>0, <1>7 DEF Oldest
  <2>2. \A d \in DOMAIN cmds : d > c => cmds[d].state = "pending"
    BY <1>0, <1>7 DEF Oldest, QueueInv
  <2>3. ClaimInv'
    BY <1>7 DEF ClaimInv, Restated
  <2>4. ASSUME NEW x \in DOMAIN cmds, NEW y \in DOMAIN cmds, x < y, cmds'[x].state = "pending"
        PROVE  cmds'[y].state = "pending"
    <3>1. x # c /\ cmds[x].state = "pending"
      BY <1>7, <2>4 DEF Restated
    <3>2. y # c
      BY <2>1, <2>4, <3>1
    <3> QED
      BY <1>7, <2>4, <3>1, <3>2 DEF QueueInv, Restated
  <2>5. ASSUME disp'.at # "rest", NEW d \in DOMAIN cmds, d > disp'.cmd
        PROVE  cmds'[d].state = "pending"
    <3>1. d > c
      BY <1>7, <2>5
    <3> QED
      BY <1>0, <1>7, <2>2, <3>1 DEF Restated
  <2>6. QueueInv'
    BY <1>7, <2>4, <2>5 DEF QueueInv, Restated
  <2> QED
    BY <2>3, <2>6
<1>8. ASSUME NEW c \in DOMAIN cmds, Claim(c) PROVE ClaimInv' /\ QueueInv'
  <2>1. Restated(c, "running")
    BY <1>8, RestateKeeps DEF Claim, CommandStates
  <2> QED
    BY <1>7, <1>8, <2>1 DEF Claim, NoCommand
<1>9. ASSUME NEW c \in DOMAIN cmds, ClaimUnreadable(c) PROVE ClaimInv' /\ QueueInv'
  <2>1. Restated(c, "running")
    BY <1>9, RestateKeeps DEF ClaimUnreadable, CommandStates
  <2> QED
    BY <1>7, <1>9, <2>1 DEF ClaimUnreadable
<1> QED
  BY <1>1, <1>2, <1>3, <1>4, <1>5, <1>6, <1>8, <1>9, QueueSteps

\* Whatever a step does to the queue, it is something the queue may do: the
\* dispatcher only finishes the command it holds running, and the sweep only
\* fails those that nobody holds.
LEMMA KeepsQueue ==
    ASSUME TypeOK, ClaimInv, [Next]_vars
    PROVE  Queue!Next \/ UNCHANGED <<cmds, InHand>>
<1>0. DOMAIN cmds \subseteq Nat \ {0}
  BY QueueTypes
<1>1. CASE cmds' = cmds /\ disp' = disp
  BY <1>1 DEF InHand
<1>2. ASSUME NEW h \in Helpers, Enqueue(h) PROVE Queue!Next
  <2>1. disp' = disp /\ cmds' = Append(cmds, [ask |-> helper[h].ask, state |-> "pending"])
    BY <1>2 DEF Enqueue
  <2>2. InHand' = InHand
    BY <2>1 DEF InHand
  <2>3. helper[h].ask \in Questions
    BY DEF TypeOK, Request
  <2>4. Queue!Ask(helper[h].ask)
    BY <2>1, <2>2 DEF Queue!Ask
  <2> QED
    BY <2>3, <2>4 DEF Queue!Next
<1>3. CASE GoesOn
  BY <1>3 DEF GoesOn, InHand
<1>4. CASE Drops
  <2>1. cmds' = cmds /\ InHand' = 0
    BY <1>4 DEF Drops, NoCommand, InHand
  <2> QED
    BY <2>1 DEF Queue!Next, Queue!LetGo, Queue!Nobodys
<1>5. CASE Finish
  <2>1. /\ disp.out \in Finished /\ disp.cmd \in DOMAIN cmds
        /\ cmds[disp.cmd].state = "running"
    BY <1>5 DEF Finish, TypeOK, ClaimInv, Errand
  <2>2. InHand = disp.cmd /\ InHand' = 0
    BY <1>5 DEF Finish, NoCommand, InHand
  <2>3. cmds' = [cmds EXCEPT ![disp.cmd].state = disp.out]
    BY <1>5 DEF Finish
  <2>4. Queue!Answer(disp.cmd, disp.out)
    BY <2>1, <2>2, <2>3 DEF Queue!Answer, Queue!Becomes, Queue!Nobodys
  <2> QED
    BY <2>1, <2>4 DEF Queue!Next
<1>6. ASSUME NEW c \in DOMAIN cmds, Recover(c) PROVE Queue!Next
  <2>1. InHand = 0 /\ InHand' = 0
    BY <1>6 DEF Recover, InHand
  <2>2. Queue!GiveUp(c)
    BY <1>6, <2>1 DEF Recover, Queue!GiveUp, Queue!Becomes, Queue!Nobodys
  <2> QED
    BY <2>2 DEF Queue!Next
<1>7. ASSUME NEW c \in DOMAIN cmds, disp.at = "rest", Oldest(c),
             cmds' = [cmds EXCEPT ![c].state = "running"], InHand' \in {c, 0}
      PROVE  Queue!Next
  <2>1. \A d \in DOMAIN cmds : d < c => cmds[d].state # "pending"
    BY <1>0, <1>7 DEF Oldest
  <2>2. InHand = 0 /\ cmds[c].state = "pending"
    BY <1>7 DEF InHand, Oldest
  <2>3. Queue!Take(c)
    BY <1>7, <2>1, <2>2 DEF Queue!Take, Queue!Becomes, Queue!Nobodys
  <2> QED
    BY <2>3 DEF Queue!Next
<1>8. ASSUME NEW c \in DOMAIN cmds, Claim(c) PROVE Queue!Next
  <2>1. InHand' = c
    BY <1>8 DEF Claim, NoCommand, InHand
  <2> QED
    BY <1>7, <1>8, <2>1 DEF Claim
<1>9. ASSUME NEW c \in DOMAIN cmds, ClaimUnreadable(c) PROVE Queue!Next
  <2>1. InHand' = 0
    BY <1>9 DEF ClaimUnreadable, InHand
  <2> QED
    BY <1>7, <1>9, <2>1 DEF ClaimUnreadable
<1> QED
  BY <1>1, <1>2, <1>3, <1>4, <1>5, <1>6, <1>8, <1>9, QueueSteps

(***************************************************************************)
(* A start in hand keeps its room idle, and a request on its way to the    *)
(* queue is the one whose word the row has.                                *)
(***************************************************************************)
LEMMA StartNext ==
    ASSUME TypeOK, StartInv, [Next]_vars
    PROVE  StartInv'
<1>0. rec \in Pass
  BY DEF TypeOK
<1> USE <1>0 DEF StartInv, Then, Resting, Pass
<1>1. CASE UNCHANGED <<state, rec>>
  BY <1>1
<1>2. ASSUME NEW h \in Helpers, Helper(h) PROVE UNCHANGED <<state, rec>>
  BY <1>2 DEF Helper, Ask, WriteRotation, MarkSecretStale, ReadBack, WriteLock, Enqueue, RequestDies
<1>3. CASE Dispatcher
  BY <1>1, <1>3 DEF Dispatcher, Dispatching, Carry, Settle, CheckReachable, ReadSlots, FindOwner,
                    ApplySecret, MarkSecretSynced, Push, Finish, CallFails, FinishFails,
                    Recover, Claim, ClaimUnreadable
<1>4. CASE StepOn
  BY <1>4 DEF StepOn, StartSecret, StartCreate, StartOwn, StartEnds, ReadLocks, Relock,
              StopMark, SweepApply, SweepMark
<1>5. CASE Reconciler /\ ~StepOn
  BY <1>5 DEF Reconciler, StartRender, MarkRunning, MarkDegraded, StopDelete, MarkIdle,
              SweepRead, SweepFails
<1>6. CASE OrchestratorDies \/ Room \/ HourPasses
  BY <1>6 DEF OrchestratorDies, Room, Outside, ContainerStarts, ContainerReady, ContainerDies,
              SaveLost, HourPasses
<1> QED
  BY <1>1, <1>2, <1>3, <1>4, <1>5, <1>6 DEF Next, vars

\* The requests on their way to the queue are the same, the row is as it was,
\* and no lapse is made good.
Calm ==
    /\ slot'.locked = slot.locked
    /\ lapse => lapse'
    /\ \A h \in Helpers :
          /\ Enqueuing(h)' <=> Enqueuing(h)
          /\ Enqueuing(h) => helper'[h].ask = helper[h].ask

\* Every step but the four that put a lock on its way or take it in hand.
LEMMA CalmSteps ==
    ASSUME TypeOK, [Next]_vars
    PROVE  \/ Calm \/ ReadLocks
           \/ \E h \in Helpers : WriteLock(h) \/ Enqueue(h) \/ RequestDies(h)
<1> USE DEF Calm, Enqueuing, Locking
<1>0. helper \in [Helpers -> Request] /\ slot \in Slot /\ lapse \in BOOLEAN
  BY DEF TypeOK
<1>1. CASE UNCHANGED vars
  BY <1>1 DEF vars
<1>2. ASSUME NEW h \in Helpers, Helper(h), ~WriteLock(h), ~Enqueue(h), ~RequestDies(h)
      PROVE  Calm
  <2>1. ASSUME NEW ask \in Asks, Ask(h, ask) PROVE Calm
    <3>1. /\ helper[h].at = "rest"
          /\ helper'[h].at = "write"
          /\ \A g \in Helpers \ {h} : helper'[g] = helper[g]
      BY <1>0, <2>1 DEF Ask, Request, NoRequest
    <3>2. UNCHANGED <<slot, lapse>>
      BY <2>1 DEF Ask
    <3> QED
      BY <3>1, <3>2
  <2>2. CASE WriteRotation(h)
    BY <1>0, <2>2 DEF WriteRotation, Goto, Request, Slot
  <2>3. CASE MarkSecretStale(h)
    BY <1>0, <2>3 DEF MarkSecretStale, Request, NoRequest
  <2>4. CASE ReadBack(h)
    BY <1>0, <2>4 DEF ReadBack, Reply, NoRequest, Request
  <2> QED
    BY <1>2, <2>1, <2>2, <2>3, <2>4 DEF Helper
<1>3. CASE Dispatcher
  BY <1>3 DEF Dispatcher, Dispatching, Carry, Settle, CheckReachable, ReadSlots, FindOwner,
              ApplySecret, MarkSecretSynced, Push, Finish, CallFails, FinishFails,
              Recover, Claim, ClaimUnreadable
<1>4. CASE Reconciler
  BY <1>4 DEF Reconciler, Reconciling, StepOn, StartSecret, StartCreate, StartOwn, StartEnds,
              Relock, StopMark, SweepApply, SweepMark, StartRender, MarkRunning,
              MarkDegraded, StopDelete, MarkIdle, SweepRead, SweepFails
<1>5. CASE OrchestratorDies \/ Room \/ HourPasses
  BY <1>5 DEF OrchestratorDies, Room, Outside, ContainerStarts, ContainerReady, ContainerDies,
              SaveLost, HourPasses
<1> QED
  BY <1>1, <1>2, <1>3, <1>4, <1>5 DEF Next

LEMMA RequestNext ==
    ASSUME TypeOK, RequestInv, [Next]_vars
    PROVE  RequestInv'
<1>0. helper \in [Helpers -> Request] /\ slot \in Slot /\ lapse \in BOOLEAN
  BY DEF TypeOK
<1>1. CASE Calm
  BY <1>0, <1>1 DEF Calm, RequestInv
<1>2. CASE ReadLocks
  BY <1>0, <1>2 DEF ReadLocks, Reconciling, LockPending, RequestInv, Enqueuing, Locking
<1>3. ASSUME NEW h \in Helpers, WriteLock(h) PROVE RequestInv'
  <2>1. helper'[h] = [helper[h] EXCEPT !.at = "enqueue"]
        /\ \A g \in Helpers \ {h} : helper'[g] = helper[g]
    BY <1>0, <1>3 DEF WriteLock, Goto
  <2>2. helper'[h].at = "enqueue" /\ helper'[h].ask = helper[h].ask
    BY <1>0, <2>1 DEF Request
  <2> DEFINE b == helper[h].ask = "lock"
  <2>0. b \in BOOLEAN /\ slot' = [slot EXCEPT !.locked = b]
    BY <1>3 DEF WriteLock
  <2> HIDE DEF b
  <2>3. slot'.locked = b
    BY <1>0, <2>0 DEF Slot
  <2>4. ~lapse' => \A g \in Helpers \ {h} : ~Enqueuing(g)
    BY <1>3 DEF WriteLock, Enqueuing
  <2>5. ~lapse' => \A g \in Helpers : Enqueuing(g)' => g = h
    BY <2>1, <2>4 DEF Enqueuing
  <2>6. (helper'[h].ask = "lock") = slot'.locked
    BY <2>2, <2>3 DEF b
  <2> QED
    BY <2>5, <2>6 DEF RequestInv
<1>4. ASSUME NEW h \in Helpers, Enqueue(h) \/ RequestDies(h) PROVE RequestInv'
  <2>1. ~Enqueuing(h)' /\ \A g \in Helpers \ {h} : helper'[g] = helper[g]
    BY <1>0, <1>4 DEF Enqueue, RequestDies, Reply, NoRequest, Enqueuing
  <2>2. slot' = slot /\ (lapse => lapse')
    <3>1. CASE Enqueue(h)
      BY <3>1 DEF Enqueue
    <3>2. CASE RequestDies(h)
      BY <1>0, <3>2 DEF RequestDies
    <3> QED
      BY <1>4, <3>1, <3>2
  <2> QED
    BY <2>1, <2>2 DEF RequestInv, Enqueuing, Locking
<1> QED
  BY <1>1, <1>2, <1>3, <1>4, CalmSteps

(***************************************************************************)
(* Who carries the lock.                                                   *)
(***************************************************************************)
LEMMA HandedSteps ==
    ASSUME TypeOK, [Next]_vars, Handed'
    PROVE  Handed \/ ReadLocks \/ \E h \in Helpers : Enqueue(h)
<1>0. helper \in [Helpers -> Request] /\ slot \in Slot /\ lapse \in BOOLEAN
  BY DEF TypeOK
<1>1. CASE Calm
  BY <1>1 DEF Calm, Handed
<1>2. ASSUME NEW h \in Helpers, WriteLock(h) PROVE FALSE
  <2>1. Enqueuing(h)'
    BY <1>0, <1>2 DEF WriteLock, Goto, Enqueuing, Locking, Request
  <2> QED
    BY <2>1 DEF Handed
<1>3. ASSUME NEW h \in Helpers, RequestDies(h) PROVE Handed
  <2>1. ~Locking(helper[h].ask) /\ ~lapse /\ slot' = slot
    BY <1>3 DEF RequestDies, Handed
  <2>2. \A g \in Helpers \ {h} : helper'[g] = helper[g]
    BY <1>0, <1>3 DEF RequestDies, Reply
  <2> QED
    BY <2>1, <2>2 DEF Handed, Enqueuing, Locking
<1> QED
  BY <1>1, <1>2, <1>3, CalmSteps

\* While a lock is to be on, what is enqueued is no unlock, and it is a lock
\* if the row's word had yet to be handed on.
LEMMA EnqueueHands ==
    ASSUME TypeOK, RequestInv, NEW h \in Helpers, Enqueue(h), Handed'
    PROVE  \/ helper[h].ask = "lock"
           \/ Handed /\ helper[h].ask = "rotate"
<1>0. helper \in [Helpers -> Request]
  BY DEF TypeOK
<1>1. helper[h].ask \in Questions /\ \A g \in Helpers \ {h} : helper'[g] = helper[g]
  BY <1>0 DEF Enqueue, Reply, Request
<1>2. ~lapse /\ slot.locked /\ helper[h].at = "enqueue"
  BY DEF Enqueue, Handed
<1>3. \A g \in Helpers \ {h} : ~Enqueuing(g)
  BY <1>1 DEF Handed, Enqueuing, Locking
<1>4. CASE helper[h].ask = "rotate"
  BY <1>2, <1>3, <1>4 DEF Handed, Enqueuing, Locking
<1>5. CASE helper[h].ask = "unlock"
  BY <1>2, <1>5 DEF RequestInv, Enqueuing, Locking
<1> QED
  BY <1>1, <1>4, <1>5 DEF Questions

LEMMA OrderNext ==
    ASSUME TypeOK, ClaimInv, QueueInv, RequestInv, OrderInv, [Next]_vars
    PROVE  OrderInv'
<1> SUFFICES ASSUME Handed'
             PROVE  \A c \in DOMAIN cmds' : Able(c)' /\ cmds'[c].ask = "unlock" =>
                      \E d \in DOMAIN cmds' :
                          d > c /\ cmds'[d].state = "pending" /\ cmds'[d].ask = "lock"
  BY DEF OrderInv
<1>0. DOMAIN cmds \subseteq Nat \ {0}
  BY QueueTypes
<1>1. CASE ReadLocks
  <2>1. UNCHANGED <<cmds, disp, slot, helper>> /\ lapse' = (lapse /\ LockPending)
    BY <1>1 DEF ReadLocks, Reconciling
  <2>2. CASE lapse
    BY <2>1, <2>2 DEF Handed, LockPending, Able, ClaimInv, Open, Locking
  <2>3. CASE ~lapse
    BY <2>1, <2>3 DEF Handed, OrderInv, Able, Enqueuing
  <2> QED
    BY <2>2, <2>3
<1>2. ASSUME NEW h \in Helpers, Enqueue(h)
      PROVE  \A c \in DOMAIN cmds' : Able(c)' /\ cmds'[c].ask = "unlock" =>
                \E d \in DOMAIN cmds' :
                    d > c /\ cmds'[d].state = "pending" /\ cmds'[d].ask = "lock"
  <2>1. PICK n \in Nat : Grown(n) /\ cmds'[n].ask = helper[h].ask
    BY <1>2, EnqueueGrows
  <2>2. disp' = disp
    BY <1>2 DEF Enqueue
  <2>3. helper[h].ask = "lock" \/ (Handed /\ helper[h].ask = "rotate")
    BY <1>2, EnqueueHands
  <2>4. n \notin DOMAIN cmds
    BY <1>0, <2>1 DEF Grown
  <2>5. ASSUME NEW c \in DOMAIN cmds', Able(c)', cmds'[c].ask = "unlock"
        PROVE  c \in DOMAIN cmds /\ Able(c) /\ cmds[c].ask = "unlock"
    BY <2>1, <2>2, <2>3, <2>4, <2>5 DEF Grown, Able
  <2>6. CASE helper[h].ask = "lock"
    BY <2>1, <2>5, <2>6 DEF Grown
  <2>7. CASE Handed
    BY <2>1, <2>5, <2>7 DEF Grown, OrderInv
  <2> QED
    BY <2>3, <2>6, <2>7
<1> SUFFICES ASSUME Handed
             PROVE  \A c \in DOMAIN cmds' : Able(c)' /\ cmds'[c].ask = "unlock" =>
                      \E d \in DOMAIN cmds' :
                          d > c /\ cmds'[d].state = "pending" /\ cmds'[d].ask = "lock"
  BY <1>1, <1>2, HandedSteps
<1>3. \A c \in DOMAIN cmds : Able(c) /\ cmds[c].ask = "unlock" =>
         \E d \in DOMAIN cmds : d > c /\ cmds[d].state = "pending" /\ cmds[d].ask = "lock"
  BY DEF OrderInv
<1>4. CASE cmds' = cmds /\ disp' = disp
  BY <1>3, <1>4 DEF Able
<1>5. CASE GoesOn
  BY <1>3, <1>5 DEF GoesOn, Able, Claimed
<1>6. CASE Drops
  BY <1>3, <1>6 DEF Drops, NoCommand, Able
<1>7. ASSUME NEW k \in DOMAIN cmds, NEW s \in {"ok", "failed", "rejected"}, Restated(k, s),
             cmds[k].state = "running", disp'.at = "rest"
      PROVE  \A c \in DOMAIN cmds' : Able(c)' /\ cmds'[c].ask = "unlock" =>
                \E d \in DOMAIN cmds' :
                    d > c /\ cmds'[d].state = "pending" /\ cmds'[d].ask = "lock"
  <2>1. \A d \in DOMAIN cmds :
           (cmds'[d].state = "pending" <=> cmds[d].state = "pending") /\ cmds'[d].ask = cmds[d].ask
    BY <1>7 DEF Restated
  <2> QED
    BY <1>3, <1>7, <2>1 DEF Able, Restated
<1>8. CASE Finish
  <2>1. disp.out \in Finished /\ disp.cmd \in DOMAIN cmds /\ cmds[disp.cmd].state = "running"
    BY <1>8 DEF Finish, TypeOK, ClaimInv, Errand
  <2>2. Restated(disp.cmd, disp.out) /\ disp'.at = "rest"
    BY <1>8, <2>1, RestateKeeps DEF Finish, NoCommand, Finished, CommandStates
  <2> QED
    BY <1>7, <2>1, <2>2 DEF Finished
<1>9. ASSUME NEW k \in DOMAIN cmds, Recover(k)
      PROVE  \A c \in DOMAIN cmds' : Able(c)' /\ cmds'[c].ask = "unlock" =>
                \E d \in DOMAIN cmds' :
                    d > c /\ cmds'[d].state = "pending" /\ cmds'[d].ask = "lock"
  <2>1. Restated(k, "failed") /\ cmds[k].state = "running" /\ disp'.at = "rest"
    BY <1>9, RestateKeeps DEF Recover, Dispatching, CommandStates
  <2> QED
    BY <1>7, <2>1
<1>10. ASSUME NEW k \in DOMAIN cmds, Claim(k) \/ ClaimUnreadable(k)
       PROVE  \A c \in DOMAIN cmds' : Able(c)' /\ cmds'[c].ask = "unlock" =>
                 \E d \in DOMAIN cmds' :
                     d > c /\ cmds'[d].state = "pending" /\ cmds'[d].ask = "lock"
  <2>1. Restated(k, "running") /\ Oldest(k)
    BY <1>10, RestateKeeps DEF Claim, ClaimUnreadable, CommandStates
  <2>2. disp'.at # "rest" => disp'.cmd = k
    BY <1>10 DEF Claim, ClaimUnreadable, NoCommand
  <2>3. \A d \in DOMAIN cmds : d < k => cmds[d].state # "pending"
    BY <1>0, <2>1 DEF Oldest
  <2>4. ASSUME NEW c \in DOMAIN cmds, Able(c)', cmds[c].ask = "unlock"
        PROVE  \E d \in DOMAIN cmds : d > c /\ cmds'[d].state = "pending" /\ cmds[d].ask = "lock"
    <3>1. c = k \/ cmds[c].state = "pending"
      BY <2>1, <2>2, <2>4 DEF Able, Restated
    <3>2. cmds[c].state = "pending"
      BY <2>1, <3>1 DEF Oldest
    <3>3. PICK d \in DOMAIN cmds : d > c /\ cmds[d].state = "pending" /\ cmds[d].ask = "lock"
      BY <1>3, <2>4, <3>2 DEF Able
    <3>4. d # k
      BY <2>3, <3>2, <3>3
    <3> QED
      BY <2>1, <3>3, <3>4 DEF Restated
  <2> QED
    BY <2>1, <2>4 DEF Restated
<1> QED
  BY <1>2, <1>4, <1>5, <1>6, <1>8, <1>9, <1>10, QueueSteps

\* The running room keeps the lock it has in every step but these.
LEMMA DueSteps ==
    ASSUME TypeOK, StartInv, [Next]_vars, Due', ~lapse'
    PROVE  \/ Due /\ pod'.locked = pod.locked
           \/ Push \/ CallFails \/ Relock \/ ReadLocks
<1>0. pod \in Pod /\ rec \in Pass
  BY DEF TypeOK
<1> USE DEF Due
<1>1. CASE UNCHANGED <<state, pod, rec>>
  BY <1>1
<1>2. ASSUME NEW h \in Helpers, Helper(h) PROVE UNCHANGED <<state, pod, rec>>
  BY <1>2 DEF Helper, Ask, WriteRotation, MarkSecretStale, ReadBack, WriteLock, Enqueue, RequestDies
<1>3. ASSUME Dispatcher, ~Push, ~CallFails PROVE UNCHANGED <<state, pod, rec>>
  BY <1>3 DEF Dispatcher, Dispatching, Carry, Settle, CheckReachable, ReadSlots, FindOwner,
              ApplySecret, MarkSecretSynced, Finish, FinishFails, Recover, Claim, ClaimUnreadable
<1>4. CASE StartSecret \/ StartCreate \/ StartOwn \/ StartEnds
  BY <1>4 DEF StartSecret, StartCreate, StartOwn, StartEnds, StartInv
<1>5. CASE StartRender \/ MarkRunning \/ MarkDegraded \/ StopDelete \/ StopMark \/ MarkIdle
  BY <1>0, <1>5 DEF StartRender, MarkRunning, Then, MarkDegraded, StopDelete, StopMark, MarkIdle,
                    Pass, Pod
<1>6. CASE SweepRead \/ SweepApply \/ SweepMark \/ SweepFails
  BY <1>6 DEF SweepRead, SweepApply, SweepMark, SweepFails
<1>7. CASE OrchestratorDies
  BY <1>7 DEF OrchestratorDies
<1>8. CASE ContainerStarts \/ ContainerReady \/ ContainerDies
  BY <1>0, <1>8 DEF ContainerStarts, ContainerReady, ContainerDies, Outside, Pod
<1>9. CASE SaveLost \/ HourPasses
  BY <1>0, <1>9 DEF SaveLost, HourPasses, Outside, Pod
<1> QED
  BY <1>1, <1>2, <1>3, <1>4, <1>5, <1>6, <1>7, <1>8, <1>9
  DEF Next, vars, Reconciler, StepOn, Room

\* A call of the claimed command locks the room, leaves its lock alone, or
\* lifts it with a lock to follow in the queue.
LEMMA CallLocks ==
    ASSUME TypeOK, ClaimInv, OrderInv, Handed, disp.at = "push",
           pod' = Pushed \/ pod' = pod
    PROVE  \/ pod'.locked = TRUE
           \/ pod'.locked = pod.locked
           \/ \E d \in DOMAIN cmds :
                 d # disp.cmd /\ cmds[d].state = "pending" /\ cmds[d].ask = "lock"
<1>0. pod \in Pod /\ disp.cmd \in DOMAIN cmds /\ DOMAIN cmds \subseteq Nat \ {0}
  BY QueueTypes DEF TypeOK, ClaimInv
<1>1. Claimed \in Questions
  BY <1>0, QueueTypes DEF Claimed
<1>2. CASE pod' = Pushed /\ Claimed = "lock"
  BY <1>0, <1>2 DEF Pushed, Pod
<1>3. CASE pod' = Pushed /\ Claimed = "rotate"
  BY <1>0, <1>3 DEF Pushed, Pod
<1>4. CASE Claimed = "unlock"
  <2>1. PICK d \in DOMAIN cmds :
           d > disp.cmd /\ cmds[d].state = "pending" /\ cmds[d].ask = "lock"
    BY <1>0, <1>4 DEF OrderInv, Able, Claimed
  <2> QED
    BY <1>0, <2>1
<1> QED
  BY <1>1, <1>2, <1>3, <1>4 DEF Questions

LEMMA LockNext ==
    ASSUME IInv, [Next]_vars
    PROVE  LockInv'
<1> SUFFICES ASSUME Handed', Due' PROVE Carried'
  BY DEF LockInv
<1> USE DEF IInv
<1>0. /\ pod \in Pod /\ disp \in Errand /\ DOMAIN cmds \subseteq Nat \ {0}
      /\ ~lapse' /\ ~ReadLocks
  <2>1. ~ReadLocks
    BY DEF ReadLocks, Reconciling, Resting, Handed, Due, TypeOK, Pass
  <2> QED
    BY <2>1, QueueTypes DEF TypeOK, Handed
<1>1. CASE Relock
  BY <1>0, <1>1 DEF Relock, Carried, Pod
<1>2. ASSUME NEW h \in Helpers, Enqueue(h), helper[h].ask = "lock" PROVE Carried'
  <2>1. PICK n \in Nat : Grown(n) /\ cmds'[n].ask = "lock"
    BY <1>2, EnqueueGrows
  <2>2. n \notin DOMAIN cmds /\ n \in DOMAIN cmds' /\ disp' = disp
    BY <1>0, <1>2, <2>1 DEF Grown, Enqueue
  <2>3. Undelivered(n)'
    BY <2>1, <2>2 DEF Undelivered, Open, Grown, ClaimInv
  <2> QED
    BY <2>1, <2>2, <2>3 DEF Carried
<1> SUFFICES ASSUME Handed PROVE Carried'
  BY <1>0, <1>2, HandedSteps, EnqueueHands
<1>3. CASE Push \/ CallFails
  <2>1. Due /\ cmds' = cmds /\ disp'.cmd = disp.cmd /\ disp.at # "rest"
    BY <1>0, <1>3 DEF Push, CallFails, Outcome, Dispatching, Due, Pushed, Errand
  <2>2. Carried
    BY <2>1 DEF LockInv
  <2>3. pod' = pod \/ (disp.at = "push" /\ pod' = Pushed)
    BY <1>3 DEF Push, CallFails
  <2>4. disp'.out = "failed" \/ (disp.at = "push" /\ pod' = Pushed)
    BY <1>0, <1>3 DEF Push, CallFails, Outcome, Errand
  <2>5. ASSUME NEW d \in DOMAIN cmds, Open(d), disp'.cmd # d \/ disp'.out = "failed"
        PROVE  Undelivered(d)'
    BY <2>1, <2>5 DEF Undelivered, Open
  <2>6. CASE pod'.locked = TRUE
    BY <2>6 DEF Carried
  <2>7. ASSUME NEW d \in DOMAIN cmds, d # disp.cmd, cmds[d].state = "pending", cmds[d].ask = "lock"
        PROVE  Carried'
    BY <2>1, <2>5, <2>7 DEF Carried, Open
  <2>8. CASE pod'.locked = pod.locked /\ ~pod.locked
    <3>1. PICK c \in DOMAIN cmds : cmds[c].ask = "lock" /\ Undelivered(c)
      BY <2>2, <2>8 DEF Carried
    <3>2. CASE pod' = Pushed /\ disp.cmd = c
      BY <1>0, <2>8, <3>1, <3>2 DEF Pushed, Claimed, Pod
    <3>3. CASE disp'.cmd # c \/ disp'.out = "failed"
      BY <2>1, <2>5, <3>1, <3>3 DEF Carried, Undelivered
    <3> QED
      BY <2>1, <2>4, <3>2, <3>3
  <2>9. CASE pod'.locked = pod.locked /\ pod.locked
    BY <2>9 DEF Carried
  <2>10. CASE disp.at = "push"
    BY <2>3, <2>6, <2>7, <2>8, <2>9, <2>10, CallLocks
  <2>11. CASE disp.at # "push"
    BY <2>3, <2>8, <2>9, <2>11
  <2> QED
    BY <2>10, <2>11
<1>4. CASE Due /\ pod'.locked = pod.locked /\ ~Push /\ ~CallFails
  <2>1. CASE pod.locked
    BY <1>4, <2>1 DEF Carried
  <2>2. CASE ~pod.locked
    <3>1. PICK c \in DOMAIN cmds : cmds[c].ask = "lock" /\ Undelivered(c)
      BY <1>4, <2>2 DEF LockInv, Carried
    <3> SUFFICES c \in DOMAIN cmds' /\ cmds'[c].ask = "lock" /\ Undelivered(c)'
      BY DEF Carried
    <3> USE DEF Undelivered, Open
    <3>2. CASE cmds' = cmds /\ disp' = disp
      BY <3>1, <3>2
    <3>3. CASE GoesOn
      BY <1>4, <3>1, <3>3 DEF GoesOn, Due
    <3>4. CASE Drops
      BY <3>1, <3>4 DEF Drops, NoCommand
    <3>5. ASSUME NEW h \in Helpers, Enqueue(h) PROVE cmds'[c] = cmds[c] /\ c \in DOMAIN cmds' /\ disp' = disp
      BY <3>5, EnqueueGrows DEF Grown, Enqueue
    <3>6. CASE Finish
      <4>1. disp.out \in CommandStates /\ disp.cmd \in DOMAIN cmds
        BY <1>0, <3>6 DEF Finish, ClaimInv, Errand, Finished, CommandStates
      <4>2. Restated(disp.cmd, disp.out) /\ disp'.at = "rest"
        BY <3>6, <4>1, RestateKeeps DEF Finish, NoCommand
      <4>3. disp.cmd # c
        BY <1>0, <3>1, <3>6 DEF Finish, Claimed, Locking
      <4> QED
        BY <3>1, <4>2, <4>3 DEF Restated
    <3>7. ASSUME NEW d \in DOMAIN cmds, Recover(d) PROVE cmds'[c] = cmds[c]
      <4>1. d # c
        BY <1>0, <3>1, <3>7 DEF Recover, Locking
      <4> QED
        BY <3>7, <4>1 DEF Recover
    <3>8. ASSUME NEW d \in DOMAIN cmds, Recover(d)
          PROVE  c \in DOMAIN cmds' /\ cmds'[c].ask = "lock" /\ Undelivered(c)'
      <4>1. Restated(d, "failed") /\ disp'.at = "rest"
        BY <3>8, RestateKeeps DEF Recover, Dispatching, CommandStates
      <4> QED
        BY <3>1, <3>7, <3>8, <4>1 DEF Restated
    <3>9. ASSUME NEW d \in DOMAIN cmds, Claim(d) \/ ClaimUnreadable(d)
          PROVE  c \in DOMAIN cmds' /\ cmds'[c].ask = "lock" /\ Undelivered(c)'
      <4>1. Restated(d, "running") /\ disp'.at # "finish"
        BY <3>9, RestateKeeps DEF Claim, ClaimUnreadable, NoCommand, CommandStates
      <4> QED
        BY <3>1, <4>1 DEF Restated
    <3> QED
      BY <3>1, <3>2, <3>3, <3>4, <3>5, <3>6, <3>8, <3>9, QueueSteps
  <2> QED
    BY <2>1, <2>2
<1> QED
  BY <1>0, <1>1, <1>3, <1>4, DueSteps DEF Handed

(***************************************************************************)
(* Theorems.                                                               *)
(***************************************************************************)
LEMMA InitIInv == Init => IInv
<1> SUFFICES ASSUME Init PROVE IInv
  OBVIOUS
<1>1. TypeOK
  BY InitType
<1>2. DOMAIN cmds = {} /\ disp.at = "rest" /\ rec.at = "rest" /\ state = "idle"
      /\ \A h \in Helpers : ~Enqueuing(h)
  BY DEF Init, NoCommand, Resting, NoRequest, Enqueuing
<1> QED
  BY <1>1, <1>2 DEF IInv, ClaimInv, QueueInv, StartInv, RequestInv, OrderInv, LockInv, Due

\* The strengthening of LockedSlotIsBarred that every step keeps.
THEOREM InductiveInvariant == Spec => []IInv
<1>1. IInv /\ [Next]_vars => IInv'
  <2> SUFFICES ASSUME IInv, [Next]_vars PROVE IInv'
    OBVIOUS
  <2>1. TypeOK'
    BY TypeNext DEF IInv
  <2>2. ClaimInv' /\ QueueInv'
    BY QueueNext DEF IInv
  <2>3. StartInv' /\ RequestInv'
    BY StartNext, RequestNext DEF IInv
  <2>4. OrderInv' /\ LockInv'
    BY OrderNext, LockNext DEF IInv
  <2> QED
    BY <2>1, <2>2, <2>3, <2>4 DEF IInv
<1> QED
  BY <1>1, InitIInv, PTL DEF Spec

\* Every variable keeps its type, whoever interrupts whom.
THEOREM TypeCorrect == Spec => []TypeOK
<1>1. IInv => TypeOK
  BY DEF IInv
<1> QED
  BY <1>1, InductiveInvariant, PTL

\* SlotControl implements CommandQueue: no command is taken out of turn or
\* twice, and none that has its outcome gets another (command.rs, claim,
\* finish, fail_stale).
THEOREM TheQueueIsKept == Spec => QueueIsKept
<1>1. Init => Queue!Init
  BY DEF Init, NoCommand, InHand, Queue!Init, Queue!Nobodys
<1>2. IInv /\ [Next]_vars => [Queue!Next]_Queue!queued
  BY KeepsQueue DEF IInv, Queue!queued
<1> QED
  BY <1>1, <1>2, InductiveInvariant, PTL DEF Spec, QueueIsKept, Queue!Spec

\* A locked slot is barred from the running room once nothing is in flight
\* and no lapse is known (steps.rs, reapply_locks; dispatch.rs, execute).
THEOREM LockedSlotsAreBarred == Spec => []LockedSlotIsBarred
<1>1. IInv => LockedSlotIsBarred
  <2> SUFFICES ASSUME IInv, state = "running", pod.at = "up", slot.locked, Settled, ~lapse
               PROVE  pod.locked
    BY DEF LockedSlotIsBarred
  <2>1. ASSUME NEW h \in Helpers PROVE ~Enqueuing(h)
    <3>1. helper[h] = NoRequest
      BY DEF Settled
    <3> QED
      BY <3>1 DEF NoRequest, Enqueuing
  <2>2. Handed /\ Due
    BY <2>1 DEF Handed, Due, Settled
  <2>3. Carried
    BY <2>2 DEF IInv, LockInv
  <2> QED
    BY <2>3 DEF Carried, Settled, Undelivered
<1> QED
  BY <1>1, InductiveInvariant, PTL
=============================================================================
