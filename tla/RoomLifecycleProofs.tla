------------------------- MODULE RoomLifecycleProofs -------------------------
(***************************************************************************)
(* Proofs about RoomLifecycle, for any set of rooms and any bounds.        *)
(*                                                                         *)
(* No safety invariant of the reconciler is inductive by itself, because a *)
(* step is planned in one place and taken call by call in others.  What    *)
(* closes the induction is what the orchestrator may still assume about a  *)
(* planned action (Planned) and about the row it is working on (Working).  *)
(*                                                                         *)
(* In order: the invariant and what follows from it; that no fault is      *)
(* repaired; the refinement of RoomPromise; and, from a second invariant   *)
(* of what a room is owed, that requests for a restart are honoured and    *)
(* live rooms backed.                                                      *)
(***************************************************************************)
EXTENDS RoomLifecycle, TLAPS

\* The states an action's room is in when the action is taken: what the
\* planner saw, since only the orchestrator moves a state.
From == [Provision |-> {"provisioning"}, Start |-> {"idle"}, Recreate |-> Live,
         MarkRunning |-> Live, NotReady |-> {"running"}, MarkDegraded |-> {"running"},
         MarkIdle |-> Live \cup {"stopping"}, Stop |-> Live \cup {"stopping"},
         Retry |-> {"failed"}, Delete |-> States, FailStart |-> {"starting"},
         Reap |-> {"running"}]

Planned(a) ==
    /\ a.room # cur
    /\ row[a.room].state \in From[a.step]
    /\ a.step = "NotReady" => row[a.room].notReady + 1 < DegradedSweeps
    /\ \A b \in queue : b.room = a.room => b = a

LoopOK ==
    /\ pc \in StepPcs <=> cur \in Rooms
    /\ queue # {} => pc = "act" \/ pc \in StepPcs
    /\ stranded # {} => pc = "restart"
    /\ \A a \in queue : Planned(a)

\* What each call relies on about the room being worked on.
Working ==
    /\ pc = "provision" => row[cur].state = "provisioning"
    /\ pc \in BeforeRender \cup AfterRender \cup UndoPcs => row[cur].state = "idle"
    /\ pc \in {"failDel", "failMark"} => row[cur].state \in {"idle", "starting"}
    /\ pc \in {"stop", "stopMark"} => row[cur].state \in Live \cup {"stopping"}
    /\ pc \in {"recreate", "recreateClear"} => row[cur].state \in Live
    /\ pc \in AfterRender \cup {"render"} => row[cur].reserved
    /\ pc \in AfterRender => rendered # None
    /\ pc \in {"own", "service", "address", "converged"} => row[cur].hash # None
    /\ pc \in {"checkGone", "trash", "dropRow"} => secret[cur] = "none"
    /\ pc \in {"trash", "dropRow"} => ~dep[cur].here
    /\ pc = "consume" => row[cur].state = "idle" \/ row[cur].reserved

RowOK(r) ==
    /\ row[r].state \in Live => row[r].hash # None
    /\ row[r].state = "running" => row[r].notReady < DegradedSweeps
    /\ row[r].state = "gone" => ~dep[r].here /\ secret[r] = "none"

IInv ==
    /\ TypeOK
    /\ LoopOK
    /\ Working
    /\ \A r \in Rooms : RowOK(r)

(***************************************************************************)
(* The shapes steps come in.                                               *)
(***************************************************************************)

\* Nothing the invariant reads of r's row changes.
SameRow(r) ==
    /\ row'[r].state = row[r].state
    /\ row'[r].hash = row[r].hash
    /\ row'[r].reserved = row[r].reserved
    /\ row'[r].notReady = row[r].notReady

\* r's objects may go, and none appears.
NothingAppears(r) ==
    /\ dep'[r].here => dep[r].here
    /\ secret[r] = "none" => secret'[r] = "none"

\* Everybody but the orchestrator: the loop stands still.
LEMMA StandStill ==
    ASSUME IInv, TypeOK', pc' = pc, queue' = queue, cur' = cur, rendered' = rendered,
           stranded' = stranded,
           \A r \in Rooms : SameRow(r) /\ NothingAppears(r)
    PROVE  IInv'
<1>1. LoopOK'
  BY SMT DEF IInv, LoopOK, Planned, TypeOK, Actions, SameRow
<1>2. Working'
  BY SMT DEF IInv, LoopOK, Working, SameRow, NothingAppears, StepPcs, ProvisionPcs, StartPcs,
     BeforeRender, AfterRender, UndoPcs, FailPcs, StopPcs, DeletePcs
<1>3. \A r \in Rooms : RowOK(r)'
  BY SMT DEF IInv, RowOK, SameRow, NothingAppears
<1> QED
  BY <1>1, <1>2, <1>3 DEF IInv

\* A call of the step under way, which goes on or is done.
LEMMA StepCall ==
    ASSUME IInv, TypeOK', NEW r \in Rooms, cur = r, pc \in StepPcs,
           queue' = queue, stranded' = stranded,
           \/ cur' = cur /\ pc' \in StepPcs
           \/ cur' = NoRoom /\ pc' = "act",
           \A q \in Rooms \ {r} : row'[q] = row[q] /\ dep'[q] = dep[q] /\ secret'[q] = secret[q],
           RowOK(r)', Working'
    PROVE  IInv'
<1>1. LoopOK'
  BY LifecycleAssumption, SMT DEF IInv, LoopOK, Planned, TypeOK, Actions, StepPcs, ProvisionPcs, StartPcs,
     BeforeRender, AfterRender, UndoPcs, FailPcs, StopPcs, DeletePcs
<1>3. \A q \in Rooms : RowOK(q)'
  BY SMT DEF IInv, RowOK
<1> QED
  BY <1>1, <1>3 DEF IInv

\* What an UPDATE does to the rows.
LEMMA UpdateRow ==
    ASSUME TypeOK, NEW r \in Rooms, NEW new \in Row, Update(r, new)
    PROVE  /\ row' \in [Rooms -> Row]
           /\ \A q \in Rooms \ {r} : row'[q] = row[q]
           /\ HasRow(r) => row'[r] = new
           /\ ~HasRow(r) => row'[r] = row[r]
BY SMT DEF TypeOK, Update, HasRow

\* The rows the statements write are rows.
LEMMA MovedRow ==
    ASSUME NEW old \in Row, NEW state \in States
    PROVE  /\ Moved(old, state) \in Row
           /\ Moved(old, state).state = state
           /\ Moved(old, state).hash = old.hash
           /\ Moved(old, state).reserved = old.reserved
           /\ Moved(old, state).notReady = old.notReady
<1> DEFINE there == [old EXCEPT !.state = state]
<1>1. there \in Row
  BY DEF Row
<1>2. [there EXCEPT !.age = 0] \in Row
  <2> HIDE DEF there
  <2> QED BY <1>1, LifecycleAssumption DEF Row, Ages
<1>3. Moved(old, state) = [there EXCEPT !.age = 0]
  BY DEF Moved
<1>4. /\ Moved(old, state).state = state
      /\ Moved(old, state).hash = old.hash
      /\ Moved(old, state).reserved = old.reserved
      /\ Moved(old, state).notReady = old.notReady
  BY DEF Moved, Row
<1> QED
  BY <1>2, <1>3, <1>4

LEMMA ClearedRow ==
    ASSUME NEW old \in Row
    PROVE  Cleared(old) \in Row /\ Cleared(old).state = "idle" /\ Cleared(old).notReady = 0
<1> DEFINE there == Moved(old, "idle")
           forgot == [there EXCEPT !.hash = None]
           reset == [forgot EXCEPT !.notReady = 0]
           heard == [reset EXCEPT !.abandoned = FALSE]
<1>1. there \in Row /\ there.state = "idle"
  BY MovedRow DEF States
<1>2. forgot \in Row /\ forgot.state = "idle"
  <2> HIDE DEF there
  <2> QED BY <1>1 DEF Row, Hashes
<1>3. reset \in Row /\ reset.state = "idle" /\ reset.notReady = 0
  <2> HIDE DEF forgot
  <2> QED BY <1>2, PlannerAssumption DEF Row
<1>4. heard \in Row /\ heard.state = "idle" /\ heard.notReady = 0
  <2> HIDE DEF reset
  <2> QED BY <1>3 DEF Row
<1>5. Cleared(old) = heard
  BY DEF Cleared
<1> QED
  BY <1>4, <1>5

LEMMA FirstAndLastRow == NewRow \in Row /\ GoneRow \in Row /\ GoneRow.state = "gone"
<1> DEFINE gone == [NewRow EXCEPT !.state = "gone"]
<1>1. NewRow \in Row
  BY PlannerAssumption, LifecycleAssumption, SMT
     DEF NewRow, Row, States, DesiredStates, Hashes, None, Revs, Ages, RetryStates
<1>2. gone \in Row /\ gone.state = "gone"
  <2> HIDE DEF NewRow
  <2> QED BY <1>1 DEF Row
<1>3. [gone EXCEPT !.desired = "deleted"] \in Row
  <2> HIDE DEF gone
  <2> QED BY <1>2 DEF Row, DesiredStates
<1> QED
  BY <1>1, <1>3 DEF GoneRow, NewRow

\* Deleting a Deployment only marks it.
LEMMA DyingDeployment ==
    ASSUME NEW old \in Deployment
    PROVE  /\ [old EXCEPT !.deleting = TRUE, !.ready = FALSE] \in Deployment
           /\ [old EXCEPT !.deleting = TRUE, !.ready = FALSE].here = old.here
<1> DEFINE marked == [old EXCEPT !.deleting = TRUE]
           dying == [old EXCEPT !.deleting = TRUE, !.ready = FALSE]
<1>1. marked \in Deployment /\ marked.here = old.here
  BY DEF Deployment
<1>2. /\ [marked EXCEPT !.ready = FALSE] \in Deployment
      /\ [marked EXCEPT !.ready = FALSE].here = old.here
  <2> HIDE DEF marked
  <2> QED BY <1>1 DEF Deployment
<1>3. dying = [marked EXCEPT !.ready = FALSE]
  OBVIOUS
<1> QED
  BY <1>2, <1>3

LEMMA DeleteMarks ==
    ASSUME TypeOK, NEW r \in Rooms, DeleteDeployment(r)
    PROVE  /\ dep' \in [Rooms -> Deployment]
           /\ \A q \in Rooms : dep'[q].here = dep[q].here
           /\ \A q \in Rooms \ {r} : dep'[q] = dep[q]
<1> DEFINE dying == [dep[r] EXCEPT !.deleting = TRUE, !.ready = FALSE]
<1>1. dep \in [Rooms -> Deployment]
  BY DEF TypeOK
<1>2. dying \in Deployment /\ dying.here = dep[r].here
  BY <1>1, DyingDeployment
<1>3. dep' = IF dep[r].here THEN [dep EXCEPT ![r] = dying] ELSE dep
  BY DEF DeleteDeployment
<1> QED
  <2> HIDE DEF dying
  <2> QED BY <1>1, <1>2, <1>3

THEOREM InitIInv == Init => IInv
<1> SUFFICES ASSUME Init PROVE IInv
  OBVIOUS
<1> USE PlannerAssumption, LifecycleAssumption
<1>1. TypeOK
  <2>1. row \in [Rooms -> Row]
    BY FirstAndLastRow DEF Init
  <2>2. dep \in [Rooms -> Deployment] /\ cache \in [Rooms -> Deployment]
        /\ snap \in [Rooms -> Deployment]
    BY DEF Init, Deployment, Absent, Hashes
  <2>3. budget \in Budgets
    BY DEF Init, Budgets
  <2>4. asked \in [Rooms -> Asks]
    BY DEF Init, Asks, Hashes
  <2> QED
    BY <2>1, <2>2, <2>3, <2>4 DEF Init, TypeOK, Hashes, Pcs
<1>2. LoopOK
  BY SMT DEF Init, LoopOK, StepPcs, ProvisionPcs, StartPcs, BeforeRender, AfterRender,
     UndoPcs, FailPcs, StopPcs, DeletePcs
<1>3. Working
  BY SMT DEF Init, Working, BeforeRender, AfterRender, UndoPcs
<1>4. \A r \in Rooms : RowOK(r)
  BY SMT DEF Init, RowOK, NewRow, Live
<1> QED
  BY <1>1, <1>2, <1>3, <1>4 DEF IInv

(***************************************************************************)
(* One statement on the row, and calls that leave the row alone.           *)
(***************************************************************************)

\* What a row must satisfy to be written.
Sound(new) ==
    /\ new.state \in Live => new.hash # None
    /\ new.state = "running" => new.notReady < DegradedSweeps

USE DEF StepPcs, ProvisionPcs, StartPcs, BeforeRender, AfterRender, UndoPcs, FailPcs,
        StopPcs, DeletePcs

LEMMA Statement ==
    ASSUME IInv, NEW r \in Rooms, NEW call \in StepPcs, At(r, call),
           NEW new \in Row, Update(r, new), UNCHANGED <<world, budget>>,
           asked' = asked \/ asked' \in [Rooms -> Asks],
           \/ Done
           \/ /\ pc' \in StepPcs /\ UNCHANGED <<full, snap, queue, cur, rendered, stranded>>
              /\ Working',
           Sound(new), new.state = "gone" => ~dep[r].here /\ secret[r] = "none"
    PROVE  IInv'
<1>1. /\ row' \in [Rooms -> Row]
      /\ \A q \in Rooms \ {r} : row'[q] = row[q]
      /\ row'[r] = new \/ row'[r] = row[r]
  BY UpdateRow DEF IInv
<1>2. TypeOK'
  BY <1>1, SMT DEF IInv, TypeOK, Done, world, Pcs, Hashes
<1>3. RowOK(r)'
  BY <1>1, SMT DEF IInv, RowOK, Sound, world
<1>4. Working'
  BY SMT DEF Done, Working
<1> QED
  BY <1>1, <1>2, <1>3, <1>4, StepCall DEF At, Done, world

LEMMA RowIsRow == ASSUME TypeOK, NEW r \in Rooms PROVE row[r] \in Row
BY DEF TypeOK

LEMMA StatementTaken ==
    ASSUME IInv, NEW r \in Rooms, NEW step \in Steps, NEW new \in Row,
           TakesStatement(r, step, new), Sound(new), new.state # "gone"
    PROVE  IInv'
<1>1. /\ row' \in [Rooms -> Row]
      /\ \A q \in Rooms \ {r} : row'[q] = row[q]
      /\ row'[r] = new \/ row'[r] = row[r]
  BY UpdateRow DEF IInv, TakesStatement
<1>2. TypeOK'
  BY <1>1, SMT DEF IInv, TypeOK, TakesStatement, Taking, world
<1>3. LoopOK'
  BY <1>1, LifecycleAssumption, SMT
     DEF IInv, LoopOK, Planned, TypeOK, Actions, TakesStatement, Taking
<1>4. Working'
  BY SMT DEF Working, TakesStatement, Taking
<1>5. \A q \in Rooms : RowOK(q)'
  BY <1>1, SMT DEF IInv, RowOK, Sound, TakesStatement, world
<1> QED
  BY <1>2, <1>3, <1>4, <1>5 DEF IInv

(***************************************************************************)
(* One lemma per group of actions.                                         *)
(***************************************************************************)
LEMMA ProvisionStep ==
    ASSUME IInv, NEW r \in Rooms, ProvisionCalls(r)
    PROVE  IInv'
<1>1. CASE ProvisionDir(r)
  <2>1. TypeOK'
    BY <1>1, SMT DEF IInv, TypeOK, ProvisionDir, Goto, Pcs
  <2> QED
    BY <1>1, <2>1, StepCall, SMT DEF ProvisionDir, Goto, At, IInv, RowOK, Working
<1>2. CASE ProvisionRow(r)
  <2>1. /\ row[r] \in Row /\ Moved(row[r], "idle") \in Row
        /\ Moved(row[r], "idle").state = "idle"
    BY RowIsRow, MovedRow DEF IInv, States
  <2>2. Sound(row[r]) /\ (row[r].state = "gone" => ~dep[r].here /\ secret[r] = "none")
    BY DEF IInv, RowOK, Sound
  <2> QED
    BY <1>2, <2>1, <2>2, Statement DEF ProvisionRow, Sound, At, Live
<1> QED
  BY <1>1, <1>2 DEF ProvisionCalls

\* A row with one field replaced is a row, and the rest of it is what it was.
LEMMA ReservedRow ==
    ASSUME NEW old \in Row, NEW b \in BOOLEAN
    PROVE  /\ [old EXCEPT !.reserved = b] \in Row
           /\ [old EXCEPT !.reserved = b].state = old.state
           /\ [old EXCEPT !.reserved = b].reserved = b
BY DEF Row

LEMMA HashRow ==
    ASSUME NEW old \in Row, NEW h \in Hashes
    PROVE  /\ [old EXCEPT !.hash = h] \in Row
           /\ [old EXCEPT !.hash = h].state = old.state
           /\ [old EXCEPT !.hash = h].hash = h
           /\ [old EXCEPT !.hash = h].reserved = old.reserved
BY DEF Row

LEMMA RedeployRow ==
    ASSUME NEW old \in Row, NEW b \in BOOLEAN
    PROVE  /\ [old EXCEPT !.redeploy = b] \in Row
           /\ [old EXCEPT !.redeploy = b].state = old.state
           /\ [old EXCEPT !.redeploy = b].hash = old.hash
           /\ [old EXCEPT !.redeploy = b].reserved = old.reserved
           /\ [old EXCEPT !.redeploy = b].notReady = old.notReady
BY DEF Row

LEMMA RetryRow ==
    ASSUME NEW old \in Row, NEW x \in RetryStates
    PROVE  /\ [old EXCEPT !.retry = x] \in Row
           /\ [old EXCEPT !.retry = x].state = old.state
           /\ [old EXCEPT !.retry = x].hash = old.hash
           /\ [old EXCEPT !.retry = x].reserved = old.reserved
           /\ [old EXCEPT !.retry = x].notReady = old.notReady
BY DEF Row

LEMMA NotReadyRow ==
    ASSUME NEW old \in Row, NEW n \in 0..DegradedSweeps
    PROVE  /\ [old EXCEPT !.notReady = n] \in Row
           /\ [old EXCEPT !.notReady = n].state = old.state
           /\ [old EXCEPT !.notReady = n].hash = old.hash
           /\ [old EXCEPT !.notReady = n].reserved = old.reserved
           /\ [old EXCEPT !.notReady = n].notReady = n
BY DEF Row

LEMMA DesiredRow ==
    ASSUME NEW old \in Row, NEW d \in DesiredStates
    PROVE  /\ [old EXCEPT !.desired = d] \in Row
           /\ [old EXCEPT !.desired = d].state = old.state
           /\ [old EXCEPT !.desired = d].hash = old.hash
           /\ [old EXCEPT !.desired = d].reserved = old.reserved
           /\ [old EXCEPT !.desired = d].notReady = old.notReady
BY DEF Row

\* A start's calls up to the Deployment; the room is idle throughout.
LEMMA StartBegins ==
    ASSUME IInv, NEW r \in Rooms,
           \/ Allocate(r) \/ Render(r) \/ ApplySecret(r) \/ GetDeployment(r)
           \/ CreateDeployment(r)
    PROVE  IInv'
<1>1. CASE Allocate(r)
  <2> DEFINE new == [row[r] EXCEPT !.reserved = TRUE]
  <2>1. row[r].state = "idle"
    BY <1>1 DEF Allocate, At, IInv, Working
  <2>2. new \in Row /\ new.state = "idle" /\ new.reserved = TRUE
    BY <2>1, RowIsRow, ReservedRow DEF IInv
  <2>3. Sound(new)
    BY <2>2 DEF Sound, Live
  <2>4. Update(r, new)
    BY <1>1 DEF Allocate
  <2> HIDE DEF new
  <2>5. row'[r] = new
    BY <2>1, <2>2, <2>4, UpdateRow DEF IInv, HasRow
  <2>6. Working'
    BY <1>1, <2>2, <2>5 DEF Allocate, Goto, At, Working
  <2>7. asked' \in [Rooms -> Asks]
    <3>1. asked \in [Rooms -> Asks] /\ asked[r] \in Asks
      BY DEF IInv, TypeOK
    <3>2. [asked[r] EXCEPT !.lost = FALSE] \in Asks
      BY <3>1 DEF Asks
    <3>3. asked' = [asked EXCEPT ![r] = [asked[r] EXCEPT !.lost = FALSE]]
      BY <1>1 DEF Allocate
    <3> QED
      BY <3>1, <3>2, <3>3
  <2> QED
    BY <1>1, <2>2, <2>3, <2>4, <2>6, <2>7, Statement DEF Allocate, Goto, At
<1>2. CASE Render(r)
  <2>1. row[r].state = "idle" /\ row[r].reserved
    BY <1>2 DEF Render, At, IInv, Working
  <2>2. row[r].rev \in Revs
    BY RowIsRow DEF Row, IInv
  <2>3. TypeOK'
    BY <1>2, <2>2, SMT DEF IInv, TypeOK, Render, Done, world, Pcs, Hashes
  <2>4. Working'
    BY <1>2, <2>1, <2>2, LifecycleAssumption, SMT
       DEF Render, At, Done, Working, Revs, None, HasRow
  <2> QED
    BY <1>2, <2>3, <2>4, StepCall, SMT DEF Render, At, Done, IInv, RowOK, world
<1>3. CASE ApplySecret(r)
  <2>1. TypeOK'
    BY <1>3, SMT DEF IInv, TypeOK, ApplySecret, Goto, Pcs
  <2>2. Working' /\ RowOK(r)'
    BY <1>3, SMT DEF IInv, Working, RowOK, ApplySecret, Goto, At, Live
  <2> QED
    BY <1>3, <2>1, <2>2, StepCall, SMT DEF ApplySecret, Goto, At, IInv, TypeOK
<1>4. CASE GetDeployment(r)
  <2>1. \/ Done
        \/ \E next \in {"create", "record", "dropStale"} : Goto(next)
    <3>1. dep[r].here \in BOOLEAN /\ dep[r].deleting \in BOOLEAN
      BY DEF IInv, TypeOK, Deployment
    <3> QED
      BY <1>4, <3>1 DEF GetDeployment
  <2>2. TypeOK'
    BY <1>4, <2>1, SMT DEF IInv, TypeOK, GetDeployment, Done, Goto, world, Pcs, Hashes
  <2>3. Working' /\ RowOK(r)'
    BY <1>4, <2>1, SMT DEF IInv, Working, RowOK, GetDeployment, Done, Goto, At, world
  <2> QED
    BY <1>4, <2>1, <2>2, <2>3, StepCall DEF GetDeployment, Done, Goto, At, world
<1>5. CASE CreateDeployment(r)
  <2> DEFINE created == [here |-> TRUE, hash |-> rendered, deleting |-> FALSE, ready |-> FALSE]
  <2>1. created \in Deployment
    BY DEF IInv, TypeOK, Deployment
  <2>2. dep' \in [Rooms -> Deployment] /\ \A q \in Rooms \ {r} : dep'[q] = dep[q]
    BY <1>5, <2>1 DEF CreateDeployment, IInv, TypeOK
  <2>3. TypeOK'
    BY <1>5, <2>2, SMT DEF IInv, TypeOK, CreateDeployment, Goto, Pcs
  <2>4. Working' /\ RowOK(r)'
    BY <1>5, SMT DEF IInv, Working, RowOK, CreateDeployment, Goto, At, Live
  <2> QED
    BY <1>5, <2>2, <2>3, <2>4, StepCall, SMT DEF CreateDeployment, Goto, At
<1> QED
  BY <1>1, <1>2, <1>3, <1>4, <1>5

\* The rest of a start: what the Deployment owns, the address, the outcome.
LEMMA StartEnds ==
    ASSUME IInv, NEW r \in Rooms,
           \/ Record(r) \/ OwnSecret(r) \/ EnsureService(r) \/ ReadAddress(r)
           \/ Converged(r) \/ ConsumeRedeploy(r)
    PROVE  IInv'
<1>1. CASE Record(r)
  <2> DEFINE new == [row[r] EXCEPT !.hash = rendered]
  <2>1. row[r].state = "idle" /\ row[r].reserved /\ rendered # None /\ rendered \in Hashes
    BY <1>1 DEF Record, Writes, At, IInv, Working, TypeOK
  <2>2. new \in Row /\ new.state = "idle" /\ new.hash = rendered /\ new.reserved
    BY <2>1, RowIsRow, HashRow DEF IInv
  <2>3. Sound(new)
    BY <2>2 DEF Sound, Live
  <2>4. Update(r, new)
    BY <1>1 DEF Record, Writes
  <2> HIDE DEF new
  <2>5. row'[r] = new
    BY <2>1, <2>2, <2>4, UpdateRow DEF IInv, HasRow
  <2>6. Working'
    BY <1>1, <2>1, <2>2, <2>5 DEF Record, Writes, Goto, At, Working
  <2> QED
    BY <1>1, <2>2, <2>3, <2>4, <2>6, Statement DEF Record, Writes, Goto, At
<1>2. CASE OwnSecret(r)
  <2>1. TypeOK'
    BY <1>2, SMT DEF IInv, TypeOK, OwnSecret, Goto, Pcs
  <2>2. Working' /\ RowOK(r)'
    BY <1>2, SMT DEF IInv, Working, RowOK, OwnSecret, Goto, At, Live
  <2> QED
    BY <1>2, <2>1, <2>2, StepCall, SMT DEF OwnSecret, Goto, At, IInv, TypeOK
<1>3. CASE EnsureService(r)
  <2>1. TypeOK'
    BY <1>3, SMT DEF IInv, TypeOK, EnsureService, Goto, Pcs
  <2>2. Working' /\ RowOK(r)'
    BY <1>3, SMT DEF IInv, Working, RowOK, EnsureService, Goto, At
  <2> QED
    BY <1>3, <2>1, <2>2, StepCall DEF EnsureService, Goto, At
<1>4. CASE ReadAddress(r)
  <2>1. \/ Done
        \/ \E next \in {"converged", "mismatch", "taken", "failDel"} : Goto(next)
    <3>1. svc[r] \in {"none", "pending", "ours", "wrong", "taken", "refused"}
      BY DEF IInv, TypeOK
    <3> QED
      BY <1>4, <3>1 DEF ReadAddress
  <2>2. /\ dep' \in [Rooms -> Deployment]
        /\ \A q \in Rooms \ {r} : dep'[q] = dep[q]
        /\ dep'[r].here = dep[r].here
    BY <1>4, DeleteMarks, SMT DEF ReadAddress, IInv, TypeOK
  <2>3. TypeOK'
    BY <1>4, <2>1, <2>2, SMT DEF IInv, TypeOK, ReadAddress, Done, Goto, Pcs, Hashes
  <2>4. Working' /\ RowOK(r)'
    BY <1>4, <2>1, <2>2, SMT DEF IInv, Working, RowOK, ReadAddress, Done, Goto, At
  <2> QED
    BY <1>4, <2>1, <2>2, <2>3, <2>4, StepCall DEF ReadAddress, Done, Goto, At
<1>5. CASE Converged(r)
  <2> DEFINE new == Moved(row[r], "starting")
  <2>1. row[r].reserved /\ row[r].hash # None /\ HasRow(r)
    BY <1>5 DEF Converged, Writes, At, IInv, Working, HasRow
  <2>2. new \in Row /\ new.state = "starting" /\ new.hash # None /\ new.reserved
    BY <2>1, RowIsRow, MovedRow DEF IInv, States
  <2>3. Sound(new)
    BY <2>2 DEF Sound
  <2>4. Update(r, new)
    BY <1>5 DEF Converged, Writes
  <2> HIDE DEF new
  <2>5. row'[r] = new
    BY <2>1, <2>2, <2>4, UpdateRow DEF IInv
  <2>6. Working'
    BY <1>5, <2>2, <2>5 DEF Converged, Writes, Goto, At, Working
  <2> QED
    BY <1>5, <2>2, <2>3, <2>4, <2>6, Statement DEF Converged, Writes, Goto, At
<1>6. CASE ConsumeRedeploy(r)
  <2> DEFINE new == [row[r] EXCEPT !.redeploy = FALSE]
  <2>1. /\ new \in Row /\ new.state = row[r].state /\ new.hash = row[r].hash
        /\ new.reserved = row[r].reserved /\ new.notReady = row[r].notReady
    BY RowIsRow, RedeployRow DEF IInv
  <2>2. Sound(new) /\ (new.state = "gone" => ~dep[r].here /\ secret[r] = "none")
    BY <2>1 DEF Sound, IInv, RowOK
  <2>3. Update(r, new)
    BY <1>6 DEF ConsumeRedeploy
  <2> HIDE DEF new
  <2> QED
    BY <1>6, <2>1, <2>2, <2>3, Statement DEF ConsumeRedeploy, At
<1> QED
  BY <1>1, <1>2, <1>3, <1>4, <1>5, <1>6

LEMMA StartStep ==
    ASSUME IInv, NEW r \in Rooms, StartCalls(r)
    PROVE  IInv'
BY StartBegins, StartEnds DEF StartCalls

LEMMA UndoStep ==
    ASSUME IInv, NEW r \in Rooms, UndoCalls(r)
    PROVE  IInv'
<1>1. CASE QuarantineMismatch(r) \/ QuarantineTaken(r)
  <2> DEFINE new == [row[r] EXCEPT !.reserved = FALSE]
  <2>1. row[r].state = "idle"
    BY <1>1 DEF QuarantineMismatch, QuarantineTaken, Writes, At, IInv, Working
  <2>2. new \in Row /\ new.state = "idle"
    BY <2>1, RowIsRow, ReservedRow DEF IInv
  <2>3. Sound(new)
    BY <2>2 DEF Sound, Live
  <2>4. Update(r, new)
    BY <1>1 DEF QuarantineMismatch, QuarantineTaken, Writes
  <2> HIDE DEF new
  <2>5. row'[r] = new
    BY <2>1, <2>2, <2>4, UpdateRow DEF IInv, HasRow
  <2>6. Working'
    BY <1>1, <2>2, <2>5
       DEF QuarantineMismatch, QuarantineTaken, Writes, Goto, At, Working
  <2> QED
    BY <1>1, <2>2, <2>3, <2>4, <2>6, Statement
       DEF QuarantineMismatch, QuarantineTaken, Writes, Goto, At
<1>2. CASE DropStaleDeployment(r)
  <2>1. /\ dep' \in [Rooms -> Deployment]
        /\ \A q \in Rooms \ {r} : dep'[q] = dep[q]
        /\ dep'[r].here = dep[r].here
    BY <1>2, DeleteMarks DEF DropStaleDeployment, IInv
  <2>2. TypeOK'
    BY <1>2, <2>1, SMT DEF IInv, TypeOK, DropStaleDeployment, Goto, Pcs
  <2>3. Working' /\ RowOK(r)'
    BY <1>2, <2>1, SMT DEF IInv, Working, RowOK, DropStaleDeployment, Goto, At
  <2> QED
    BY <1>2, <2>1, <2>2, <2>3, StepCall DEF DropStaleDeployment, Goto, At
<1>3. CASE ClearDeployment(r)
  <2>1. Cleared(row[r]) \in Row /\ Cleared(row[r]).state = "idle"
    BY RowIsRow, ClearedRow DEF IInv
  <2>2. Sound(Cleared(row[r]))
    BY <2>1 DEF Sound, Live
  <2> QED
    BY <1>3, <2>1, <2>2, Statement DEF ClearDeployment, At
<1> QED
  BY <1>1, <1>2, <1>3 DEF UndoCalls

LEMMA FailStep ==
    ASSUME IInv, NEW r \in Rooms, FailCalls(r)
    PROVE  IInv'
<1>1. CASE FailDelete(r)
  <2>1. /\ dep' \in [Rooms -> Deployment]
        /\ \A q \in Rooms \ {r} : dep'[q] = dep[q]
        /\ dep'[r].here = dep[r].here
    BY <1>1, DeleteMarks DEF FailDelete, IInv, TypeOK
  <2>2. budget' \in Budgets
    BY <1>1, LifecycleAssumption, SMT DEF FailDelete, Spend, IInv, TypeOK, Budgets
  <2>3. TypeOK'
    BY <1>1, <2>1, <2>2, SMT DEF IInv, TypeOK, FailDelete, Goto, Pcs
  <2>4. Working' /\ RowOK(r)'
    BY <1>1, <2>1, SMT DEF IInv, Working, RowOK, FailDelete, Goto, At
  <2> QED
    BY <1>1, <2>1, <2>3, <2>4, StepCall DEF FailDelete, Goto, At
<1>2. CASE FailMark(r)
  <2>1. Moved(row[r], "failed") \in Row /\ Moved(row[r], "failed").state = "failed"
    BY RowIsRow, MovedRow DEF IInv, States
  <2>2. Sound(Moved(row[r], "failed"))
    BY <2>1 DEF Sound, Live
  <2>3. Working'
    BY <1>2 DEF FailMark, Writes, Goto, At, Working
  <2> QED
    BY <1>2, <2>1, <2>2, <2>3, Statement DEF FailMark, Writes, Goto, At
<1>3. CASE FailRetryAfter(r)
  <2> DEFINE new == [row[r] EXCEPT !.retry = "waiting"]
  <2>1. /\ new \in Row /\ new.state = row[r].state /\ new.hash = row[r].hash
        /\ new.reserved = row[r].reserved /\ new.notReady = row[r].notReady
    BY RowIsRow, RetryRow DEF IInv, RetryStates
  <2>2. Sound(new) /\ (new.state = "gone" => ~dep[r].here /\ secret[r] = "none")
    BY <2>1 DEF Sound, IInv, RowOK
  <2>3. Update(r, new)
    BY <1>3 DEF FailRetryAfter
  <2> HIDE DEF new
  <2> QED
    BY <1>3, <2>1, <2>2, <2>3, Statement DEF FailRetryAfter, At
<1> QED
  BY <1>1, <1>2, <1>3 DEF FailCalls

LEMMA StopStep ==
    ASSUME IInv, NEW r \in Rooms, StopCalls(r)
    PROVE  IInv'
<1>1. CASE StopDelete(r) \/ RecreateDelete(r)
  <2>1. /\ dep' \in [Rooms -> Deployment]
        /\ \A q \in Rooms \ {r} : dep'[q] = dep[q]
        /\ dep'[r].here = dep[r].here
    BY <1>1, DeleteMarks DEF StopDelete, RecreateDelete, IInv
  <2>2. TypeOK'
    BY <1>1, <2>1, SMT DEF IInv, TypeOK, StopDelete, RecreateDelete, Goto, Pcs
  <2>3. Working' /\ RowOK(r)'
    BY <1>1, <2>1, SMT DEF IInv, Working, RowOK, StopDelete, RecreateDelete, Goto, At
  <2> QED
    BY <1>1, <2>1, <2>2, <2>3, StepCall DEF StopDelete, RecreateDelete, Goto, At
<1>2. CASE StopMark(r)
  <2>1. Moved(row[r], "stopping") \in Row /\ Moved(row[r], "stopping").state = "stopping"
    BY RowIsRow, MovedRow DEF IInv, States
  <2>2. Sound(Moved(row[r], "stopping"))
    BY <2>1 DEF Sound, Live
  <2> QED
    BY <1>2, <2>1, <2>2, Statement DEF StopMark, At
<1>3. CASE RecreateClear(r)
  <2>1. Cleared(row[r]) \in Row /\ Cleared(row[r]).state = "idle"
    BY RowIsRow, ClearedRow DEF IInv
  <2>2. Sound(Cleared(row[r]))
    BY <2>1 DEF Sound, Live
  <2>3. row'[r].state = "idle"
    <3>1. HasRow(r)
      BY <1>3 DEF RecreateClear, At, IInv, Working, HasRow, Live
    <3> QED
      BY <1>3, <2>1, <3>1, UpdateRow DEF RecreateClear, IInv
  <2>4. Working'
    BY <1>3, <2>3 DEF RecreateClear, Goto, At, Working
  <2> QED
    BY <1>3, <2>1, <2>2, <2>4, Statement DEF RecreateClear, Goto, At
<1> QED
  BY <1>1, <1>2, <1>3 DEF StopCalls

LEMMA DeleteStep ==
    ASSUME IInv, NEW r \in Rooms, DeleteCalls(r)
    PROVE  IInv'
<1>1. CASE TeardownDeployment(r)
  <2>1. /\ dep' \in [Rooms -> Deployment]
        /\ \A q \in Rooms \ {r} : dep'[q] = dep[q]
        /\ dep'[r].here = dep[r].here
    BY <1>1, DeleteMarks DEF TeardownDeployment, IInv
  <2>2. TypeOK'
    BY <1>1, <2>1, SMT DEF IInv, TypeOK, TeardownDeployment, Goto, Pcs
  <2>3. Working' /\ RowOK(r)'
    BY <1>1, <2>1, SMT DEF IInv, Working, RowOK, TeardownDeployment, Goto, At
  <2> QED
    BY <1>1, <2>1, <2>2, <2>3, StepCall DEF TeardownDeployment, Goto, At
<1>2. CASE TeardownSecret(r)
  <2>1. TypeOK'
    BY <1>2, SMT DEF IInv, TypeOK, TeardownSecret, Goto, Pcs
  <2>2. Working' /\ RowOK(r)'
    BY <1>2, SMT DEF IInv, Working, RowOK, TypeOK, TeardownSecret, Goto, At
  <2> QED
    BY <1>2, <2>1, <2>2, StepCall, SMT DEF TeardownSecret, Goto, At, IInv, TypeOK
<1>3. CASE CheckGone(r) /\ dep[r].here
  <2> DEFINE new == IF row[r].state = "deleting" THEN row[r] ELSE Moved(row[r], "deleting")
  <2>1. new \in Row /\ new.state = "deleting"
    BY RowIsRow, MovedRow DEF IInv, States
  <2>2. Sound(new)
    BY <2>1 DEF Sound, Live
  <2>3. Update(r, new)
    BY <1>3 DEF CheckGone
  <2> HIDE DEF new
  <2> QED
    BY <1>3, <2>1, <2>2, <2>3, Statement DEF CheckGone, At
<1>4. CASE CheckGone(r) /\ ~dep[r].here
  <2>1. TypeOK'
    BY <1>4, SMT DEF IInv, TypeOK, CheckGone, Goto, Pcs, world
  <2>2. Working' /\ RowOK(r)'
    BY <1>4, SMT DEF IInv, Working, RowOK, CheckGone, Goto, At, world
  <2> QED
    BY <1>4, <2>1, <2>2, StepCall DEF CheckGone, Goto, At, world
<1>5. CASE TrashDir(r)
  <2>1. TypeOK'
    BY <1>5, SMT DEF IInv, TypeOK, TrashDir, Goto, Pcs
  <2>2. Working' /\ RowOK(r)'
    BY <1>5, SMT DEF IInv, Working, RowOK, TrashDir, Goto, At
  <2> QED
    BY <1>5, <2>1, <2>2, StepCall DEF TrashDir, Goto, At
<1>6. CASE DropRow(r)
  <2>1. ~dep[r].here /\ secret[r] = "none"
    BY <1>6 DEF DropRow, At, IInv, Working
  <2>2. Sound(GoneRow)
    BY FirstAndLastRow DEF Sound, Live
  <2> QED
    BY <1>6, <2>1, <2>2, FirstAndLastRow, Statement DEF DropRow, At
<1> QED
  BY <1>1, <1>2, <1>3, <1>4, <1>5, <1>6 DEF DeleteCalls

(***************************************************************************)
(* The planner and the pass.                                               *)
(***************************************************************************)

\* What a step says of the view it was chosen from.
Meant(v, step) ==
    /\ step \in Steps
    /\ v.state \in From[step]
    /\ step = "NotReady" => v.notReady + 1 < DegradedSweeps

\* The planner takes each step only from the states it is meant for
\* (plan.rs, step_for).
LEMMA PlannerMeansIt ==
    ASSUME NEW v, NEW d, v.state \in States, v.notReady \in Nat, StepFor(v, d) # NoStep
    PROVE  Meant(v, StepFor(v, d))
<1> USE DEF Meant, From, Steps, NoStep
<1>1. CASE v.desired = "deleted"
  BY <1>1 DEF StepFor
<1>2. CASE v.desired # "deleted"
  <2>1. StepFor(v, d) = StateStep(v, d)
    BY <1>2 DEF StepFor
  <2>2. CASE v.state = "provisioning"
    BY <2>1, <2>2 DEF StateStep, Live
  <2>3. CASE v.state = "idle"
    BY <2>1, <2>3 DEF StateStep, Live, IdleStep
  <2>4. CASE v.state = "failed"
    BY <2>1, <2>4 DEF StateStep, Live, FailedStep
  <2>5. CASE v.state = "stopping"
    BY <2>1, <2>5 DEF StateStep, Live, StoppingStep
  <2>6. CASE v.state \in Live
    <3>1. StepFor(v, d) = LiveStep(v, d)
      BY <2>1, <2>6 DEF StateStep, Live
    <3>2. CASE v.desired \in AtRest
      BY <2>6, <3>1, <3>2 DEF LiveStep
    <3>3. CASE v.desired \notin AtRest /\ ~d.here
      BY <2>6, <3>1, <3>3 DEF LiveStep
    <3>4. CASE v.desired \notin AtRest /\ d.here
      <4>1. \/ StepFor(v, d) \in {"Recreate", "MarkRunning"}
            \/ StepFor(v, d) = "Reap" /\ v.state = "running"
            \/ StepFor(v, d) = UnreadyStep(v)
        BY <3>1, <3>4 DEF LiveStep
      <4>2. CASE StepFor(v, d) = UnreadyStep(v)
        BY <2>6, <4>2, PlannerAssumption DEF UnreadyStep, Live
      <4> QED
        BY <2>6, <4>1, <4>2
    <3> QED
      BY <3>2, <3>3, <3>4
  <2>7. CASE v.state \in {"deleting", "integrity_fault"}
    BY <2>1, <2>7 DEF StateStep, Live
  <2> QED
    BY <2>2, <2>3, <2>4, <2>5, <2>6, <2>7 DEF States, Live
<1> QED
  BY <1>1, <1>2

LEMMA PlanStep == ASSUME IInv, Plan PROVE IInv'
<1>1. queue' \subseteq Wanted
  BY DEF Plan, Plans
<1>2. ASSUME NEW a \in Wanted
      PROVE  /\ a \in Actions
             /\ a.step = StepOf(a.room)
             /\ Meant(View(a.room), a.step)
             /\ row[a.room].state \in From[a.step]
             /\ a.step = "NotReady" => row[a.room].notReady + 1 < DegradedSweeps
  <2>1. PICK r \in Rooms : /\ HasRow(r) /\ StepOf(r) # NoStep
                           /\ a = [room |-> r, step |-> StepOf(r)]
    BY <1>2 DEF Wanted
  <2>2. /\ View(r).state = row[r].state /\ View(r).notReady = row[r].notReady
        /\ row[r].state \in States /\ row[r].notReady \in Nat
    BY <2>1, RowIsRow, PlannerAssumption DEF View, HasRow, Row, IInv
  <2>3. Meant(View(r), StepOf(r))
    BY <2>1, <2>2, PlannerMeansIt DEF StepOf
  <2> QED
    BY <2>1, <2>2, <2>3 DEF Meant, Actions
<1>3. /\ pc' = "act" /\ cur' = cur /\ cur \notin Rooms /\ stranded' = {}
      /\ UNCHANGED <<row, dep, secret>>
  BY DEF Plan, IInv, LoopOK, world
<1>4. TypeOK'
  <2>1. queue' \in SUBSET Actions
    BY <1>1, <1>2
  <2>2. snap' \in [Rooms -> Deployment]
    BY LifecycleAssumption DEF Plan, Absent, Deployment, Hashes
  <2> QED
    BY <2>1, <2>2 DEF IInv, TypeOK, Plan, world, Pcs
<1>5. LoopOK'
  <2>1. ASSUME NEW a \in queue' PROVE Planned(a)'
    <3>1. a \in Wanted /\ a.room \in Rooms
      BY <1>1, <1>2, <2>1 DEF Actions
    <3>2. ASSUME NEW b \in queue', b.room = a.room PROVE b = a
      BY <1>1, <1>2, <2>1, <3>2 DEF Actions
    <3> QED
      BY <1>2, <1>3, <3>1, <3>2 DEF Planned
  <2> QED
    BY <1>3, <2>1 DEF LoopOK
<1>6. Working'
  BY <1>3 DEF Working
<1>7. \A r \in Rooms : RowOK(r)'
  BY <1>3 DEF IInv, RowOK
<1> QED
  BY <1>4, <1>5, <1>6, <1>7 DEF IInv

\* Taking an action whose step is one statement.
LEMMA TakeStep == ASSUME IInv, Take PROVE IInv'
<1>1. PICK r \in Rooms :
        \/ MarkRunning(r) \/ NotReady(r) \/ MarkDegraded(r) \/ MarkIdle(r)
        \/ Retry(r) \/ Reap(r)
        \/ \E step \in DOMAIN FirstCall : Begin(r, step)
  BY DEF Take
<1> DEFINE x == row[r]
<1>2. /\ x \in Row /\ RowOK(r) /\ TypeOK
      /\ x.notReady \in 0..DegradedSweeps
  BY RowIsRow DEF IInv, Row
<1>3. ASSUME NEW step \in Steps, Taking(r, step)
      PROVE  /\ x.state \in From[step]
             /\ step = "NotReady" => x.notReady + 1 < DegradedSweeps
  BY <1>3 DEF Taking, IInv, LoopOK, Planned
<1>4. CASE MarkRunning(r)
  <2> DEFINE there == Moved(x, "running")
             reset == [there EXCEPT !.notReady = 0]
             new == [reset EXCEPT !.retry = "none"]
  <2>1. x.hash # None
    BY <1>2, <1>3, <1>4 DEF MarkRunning, TakesStatement, From, Steps, RowOK
  <2>2. /\ there \in Row /\ there.state = "running"
        /\ there.hash = x.hash /\ there.reserved = x.reserved
    BY <1>2, MovedRow DEF States
  <2> HIDE DEF there
  <2>3. /\ reset \in Row /\ reset.state = "running" /\ reset.notReady = 0
        /\ reset.hash = x.hash /\ reset.reserved = x.reserved
    BY <2>2, NotReadyRow, PlannerAssumption
  <2> HIDE DEF reset
  <2>4. /\ new \in Row /\ new.state = "running" /\ new.notReady = 0
        /\ new.hash = x.hash /\ new.reserved = x.reserved
    BY <2>3, RetryRow DEF RetryStates
  <2>5. TakesStatement(r, "MarkRunning", new)
    BY <1>4 DEF MarkRunning, reset, there
  <2> HIDE DEF new
  <2>6. Sound(new)
    BY <2>1, <2>4, PlannerAssumption DEF Sound
  <2> QED
    BY <2>4, <2>5, <2>6, StatementTaken DEF Steps
<1>5. CASE NotReady(r)
  <2> DEFINE new == [x EXCEPT !.notReady = @ + 1]
  <2>1. x.state = "running" /\ x.notReady + 1 < DegradedSweeps
    BY <1>3, <1>5 DEF NotReady, TakesStatement, From, Steps
  <2>2. x.notReady + 1 \in 0..DegradedSweeps
    BY <1>2, <2>1, PlannerAssumption
  <2>3. /\ new \in Row /\ new.state = "running" /\ new.notReady = x.notReady + 1
        /\ new.hash = x.hash /\ new.reserved = x.reserved
    BY <1>2, <2>1, <2>2, NotReadyRow
  <2>4. TakesStatement(r, "NotReady", new)
    BY <1>5 DEF NotReady
  <2> HIDE DEF new
  <2>5. Sound(new)
    BY <1>2, <2>1, <2>3 DEF Sound, RowOK, Live
  <2> QED
    BY <2>3, <2>4, <2>5, StatementTaken DEF Steps
<1>6. CASE MarkDegraded(r)
  <2> DEFINE there == Moved(x, "degraded")
             new == [there EXCEPT !.notReady = @ + 1]
  <2>1. x.state = "running"
    BY <1>3, <1>6 DEF MarkDegraded, TakesStatement, From, Steps
  <2>2. /\ x.hash # None
        /\ x.notReady + 1 \in 0..DegradedSweeps
    BY <1>2, <2>1, PlannerAssumption DEF RowOK, Live
  <2>3. /\ there \in Row /\ there.state = "degraded" /\ there.notReady = x.notReady
        /\ there.hash = x.hash /\ there.reserved = x.reserved
    BY <1>2, MovedRow DEF States
  <2> HIDE DEF there
  <2>4. /\ new \in Row /\ new.state = "degraded"
        /\ new.hash = x.hash /\ new.reserved = x.reserved
    BY <2>2, <2>3, NotReadyRow
  <2>5. TakesStatement(r, "MarkDegraded", new)
    BY <1>6 DEF MarkDegraded, there
  <2> HIDE DEF new
  <2>6. Sound(new)
    BY <2>2, <2>4 DEF Sound
  <2> QED
    BY <2>4, <2>5, <2>6, StatementTaken DEF Steps
<1>7. CASE MarkIdle(r)
  <2>1. Cleared(x) \in Row /\ Cleared(x).state = "idle"
    BY <1>2, ClearedRow
  <2>2. Sound(Cleared(x))
    BY <2>1 DEF Sound, Live
  <2> QED
    BY <1>7, <2>1, <2>2, StatementTaken DEF MarkIdle, Steps
<1>8. CASE Retry(r)
  <2> DEFINE there == Moved(x, "idle")
             new == [there EXCEPT !.retry = "none"]
  <2>1. x.state = "failed"
    BY <1>3, <1>8 DEF Retry, TakesStatement, From, Steps
  <2>2. there \in Row /\ there.state = "idle"
    BY <1>2, MovedRow DEF States
  <2> HIDE DEF there
  <2>3. new \in Row /\ new.state = "idle"
    BY <2>2, RetryRow DEF RetryStates
  <2>4. TakesStatement(r, "Retry", new)
    BY <1>8, <2>1 DEF Retry, there
  <2> HIDE DEF new
  <2>5. Sound(new)
    BY <2>3 DEF Sound, Live
  <2> QED
    BY <2>3, <2>4, <2>5, StatementTaken DEF Steps
<1>9. CASE Reap(r)
  <2> DEFINE new == IF x.desired = "running" THEN [x EXCEPT !.desired = "stopped"] ELSE x
  <2>1. x.state = "running"
    BY <1>3, <1>9 DEF Reap, TakesStatement, From, Steps
  <2>2. /\ new \in Row /\ new.state = "running" /\ new.notReady = x.notReady
        /\ new.hash = x.hash /\ new.reserved = x.reserved
    BY <1>2, <2>1, DesiredRow DEF DesiredStates
  <2>3. TakesStatement(r, "Reap", new)
    BY <1>9 DEF Reap
  <2> HIDE DEF new
  <2>4. Sound(new)
    BY <1>2, <2>1, <2>2 DEF Sound, RowOK, Live
  <2> QED
    BY <2>2, <2>3, <2>4, StatementTaken DEF Steps
<1>10. ASSUME NEW step \in DOMAIN FirstCall, Begin(r, step) PROVE IInv'
  <2>1. step \in Steps /\ Taking(r, step)
    BY <1>10 DEF FirstCall, Steps, Begin
  <2>2. x.state \in From[step]
    BY <1>3, <2>1
  <2>3. /\ pc = "act" /\ pc' = FirstCall[step] /\ pc' \in StepPcs /\ cur' = r
        /\ queue' = queue \ {[room |-> r, step |-> step]}
        /\ UNCHANGED <<row, world, rendered, stranded>>
    BY <1>10, SMT DEF Begin, Taking, FirstCall
  <2>4. TypeOK'
    BY <1>10, <2>3, SMT DEF IInv, TypeOK, Begin, Pcs, world
  <2>5. LoopOK'
    BY <2>1, <2>3, SMT DEF IInv, LoopOK, Planned, TypeOK, Actions, Taking
  <2>6. Working'
    BY <2>2, <2>3, SMT DEF Working, FirstCall, From, world
  <2>7. \A q \in Rooms : RowOK(q)'
    BY <2>3 DEF IInv, RowOK, world
  <2> QED
    BY <2>4, <2>5, <2>6, <2>7 DEF IInv
<1> QED
  BY <1>1, <1>4, <1>5, <1>6, <1>7, <1>8, <1>9, <1>10

\* The rest of the pass, around its actions.
LEMMA LoopStep ==
    ASSUME IInv, Acquire \/ (\E kind \in BOOLEAN : Snapshot(kind)) \/ EndOfActions
    PROVE  IInv'
<1>1. /\ UNCHANGED <<row, world, queue, cur, rendered, stranded, budget, asked>>
      /\ pc \notin StepPcs /\ pc' \in {"rest", "snapped", "tail"} /\ queue = {} /\ stranded = {}
  BY SMT DEF Acquire, Snapshot, EndOfActions, Goto, IInv, LoopOK
<1>2. TypeOK'
  <2>1. full' \in BOOLEAN /\ snap' \in [Rooms -> Deployment]
    BY SMT DEF Acquire, Snapshot, EndOfActions, Goto, IInv, TypeOK
  <2> QED
    BY <1>1, <2>1 DEF IInv, TypeOK, Pcs, world
<1>3. LoopOK'
  BY <1>1 DEF IInv, LoopOK
<1>4. Working'
  BY <1>1 DEF Working
<1>5. \A r \in Rooms : RowOK(r)'
  BY <1>1 DEF IInv, RowOK, world
<1> QED
  BY <1>2, <1>3, <1>4, <1>5 DEF IInv

\* Spending from a bound.
LEMMA SpendTyped ==
    ASSUME TypeOK, NEW what \in {"faults", "asks", "ranges"}, Spend(what)
    PROVE  budget' \in Budgets
BY LifecycleAssumption, SMT DEF TypeOK, Spend, Budgets

\* What ensure_range does to a row.
LEMMA RangeRow ==
    ASSUME TypeOK, NEW q \in Rooms,
           (\E outside \in SUBSET Rooms : NarrowRange(outside)) \/ RestartStranded
    PROVE  /\ row'[q] \in Row /\ row'[q].state = row[q].state
           /\ row'[q].hash = row[q].hash /\ row'[q].notReady = row[q].notReady
<1>1. row[q] \in Row
  BY RowIsRow
<1>2. ASSUME NEW outside \in SUBSET Rooms, NarrowRange(outside), q \in outside
      PROVE  /\ row'[q] \in Row /\ row'[q].state = row[q].state
             /\ row'[q].hash = row[q].hash /\ row'[q].notReady = row[q].notReady
  <2> DEFINE bare == [row[q] EXCEPT !.reserved = FALSE]
             new == [bare EXCEPT !.rev = @ + 1]
  <2>1. row[q].rev \in 1..MaxRev /\ row[q].rev < MaxRev
    BY <1>1, <1>2 DEF NarrowRange, Row, Revs
  <2>2. /\ bare \in Row /\ bare.state = row[q].state /\ bare.hash = row[q].hash
        /\ bare.notReady = row[q].notReady /\ bare.rev = row[q].rev
    BY <1>1 DEF Row
  <2>3. row'[q] = new
    BY <1>2 DEF NarrowRange
  <2> HIDE DEF bare
  <2>4. bare.rev + 1 \in Revs
    BY <2>1, <2>2, LifecycleAssumption DEF Revs
  <2> QED
    BY <2>2, <2>3, <2>4 DEF Row
<1>3. CASE RestartStranded
  BY <1>1, <1>3, RedeployRow DEF RestartStranded
<1> QED
  BY <1>1, <1>2, <1>3 DEF NarrowRange

\* A range that narrows takes reservations and changes definitions; what it
\* asks for afterwards is in the row.
LEMMA RangeStep ==
    ASSUME IInv, (\E outside \in SUBSET Rooms : NarrowRange(outside)) \/ RestartStranded
    PROVE  IInv'
<1>1. /\ UNCHANGED <<world, full, snap, queue, cur, rendered>>
      /\ pc \in {"down", "restart"} /\ queue = {}
      /\ pc' = "restart" \/ (pc' = "rest" /\ stranded' = {})
  BY DEF NarrowRange, RestartStranded, IInv, LoopOK
<1>2. ASSUME NEW q \in Rooms
      PROVE  /\ row'[q] \in Row /\ row'[q].state = row[q].state
             /\ row'[q].hash = row[q].hash /\ row'[q].notReady = row[q].notReady
  BY RangeRow DEF IInv
<1>3. TypeOK'
  <2>1. row' \in [Rooms -> Row]
    BY <1>2 DEF NarrowRange, RestartStranded
  <2>2. stranded' \in SUBSET Rooms
    BY DEF NarrowRange, RestartStranded
  <2>3. budget' \in Budgets
    BY SpendTyped DEF NarrowRange, RestartStranded, IInv, TypeOK
  <2>4. asked' \in [Rooms -> Asks]
    <3>1. asked \in [Rooms -> Asks] /\ \A q \in Rooms : row[q].rev \in Hashes
      BY RowIsRow DEF IInv, TypeOK, Row, Hashes
    <3>2. ASSUME NEW q \in Rooms
          PROVE  [asked[q] EXCEPT !.rev = row[q].rev, !.midStart = FALSE] \in Asks
      BY <3>1 DEF Asks
    <3> QED
      BY <3>1, <3>2 DEF NarrowRange, RestartStranded
  <2> QED
    BY <1>1, <2>1, <2>2, <2>3, <2>4 DEF IInv, TypeOK, Pcs, world
<1>4. LoopOK' /\ Working'
  BY <1>1 DEF IInv, LoopOK, Working
<1>5. \A r \in Rooms : RowOK(r)'
  BY <1>1, <1>2 DEF IInv, RowOK, world
<1> QED
  BY <1>3, <1>4, <1>5 DEF IInv

LEMMA DetectStep == ASSUME IInv, DetectIntegrityFaults PROVE IInv'
<1>1. ASSUME NEW r \in Rooms
      PROVE  /\ row'[r] \in Row
             /\ row'[r] = row[r] \/ row'[r].state = "integrity_fault"
  <2>1. row'[r] = IF Faulty(r) THEN Moved(row[r], "integrity_fault") ELSE row[r]
    BY DEF DetectIntegrityFaults
  <2> QED
    BY <2>1, RowIsRow, MovedRow DEF IInv, States
<1>2. row' \in [Rooms -> Row]
  BY <1>1 DEF DetectIntegrityFaults
<1>3. /\ UNCHANGED <<world, full, snap, queue, cur, rendered, stranded, budget, asked>>
      /\ pc = "tail" /\ pc' = "rest" /\ queue = {} /\ stranded = {}
  BY DEF DetectIntegrityFaults, Goto, IInv, LoopOK
<1>4. TypeOK'
  BY <1>2, <1>3 DEF IInv, TypeOK, Pcs, world
<1>5. LoopOK' /\ Working'
  BY <1>3 DEF IInv, LoopOK, Working
<1>6. \A r \in Rooms : RowOK(r)'
  BY <1>1, <1>3, SMT DEF IInv, RowOK, Live, world
<1> QED
  BY <1>4, <1>5, <1>6 DEF IInv

LEMMA PassStep == ASSUME IInv, Pass PROVE IInv'
<1>1. ASSUME Calls PROVE IInv'
  BY <1>1, ProvisionStep, StartStep, UndoStep, FailStep, StopStep, DeleteStep DEF Calls
<1> QED
  BY <1>1, LoopStep, RangeStep, PlanStep, TakeStep, DetectStep DEF Pass, Lock

LEMMA ErrorStep == ASSUME IInv, Errors PROVE IInv'
<1>1. ASSUME NEW r \in Rooms, AllocateFails(r) PROVE IInv'
  <2>1. TypeOK'
    BY <1>1, SpendTyped, SMT DEF IInv, TypeOK, AllocateFails, Goto, Pcs, world
  <2>2. Working' /\ RowOK(r)'
    BY <1>1, SMT DEF IInv, Working, RowOK, AllocateFails, Goto, At, world
  <2> QED
    BY <1>1, <2>1, <2>2, StepCall DEF AllocateFails, Goto, At, world
<1>2. CASE StepErrors
  <2>1. /\ pc \in StepPcs /\ cur \in Rooms
        /\ pc' = "act" /\ cur' = NoRoom /\ rendered' = None
        /\ UNCHANGED <<row, world, full, snap, queue, stranded, asked>>
    BY <1>2 DEF StepErrors, Done, IInv, LoopOK
  <2>2. TypeOK'
    <3>1. budget' \in Budgets
      BY <1>2, SpendTyped DEF StepErrors, IInv
    <3> QED
      BY <2>1, <3>1 DEF IInv, TypeOK, Pcs, Hashes, world
  <2>3. Working'
    BY <2>1 DEF Working
  <2>4. PICK r \in Rooms : r = cur
    BY <2>1
  <2>5. RowOK(r)'
    BY <2>1 DEF IInv, RowOK, world
  <2> QED
    BY <2>1, <2>2, <2>3, <2>4, <2>5, StepCall DEF world
<1>3. CASE StartErrorsFatally
  <2>1. PICK r \in Rooms : r = cur /\ pc \in BeforeRender \cup AfterRender \cup {"dropStale"}
    BY <1>3 DEF StartErrorsFatally, IInv, LoopOK
  <2>2. TypeOK'
    BY <1>3, SpendTyped, SMT DEF IInv, TypeOK, StartErrorsFatally, Goto, Pcs, world
  <2>3. Working' /\ RowOK(r)'
    BY <1>3, <2>1, SMT DEF IInv, Working, RowOK, StartErrorsFatally, Goto, world
  <2> QED
    BY <1>3, <2>1, <2>2, <2>3, StepCall DEF StartErrorsFatally, Goto, world
<1>4. CASE Crash
  <2>1. /\ UNCHANGED <<row, world>> /\ stranded' = {}
        /\ pc' = "down" /\ cur' = NoRoom /\ rendered' = None /\ full' = FALSE
        /\ queue' = {} /\ snap' = [r \in Rooms |-> Absent]
    BY <1>4 DEF Crash
  <2>2. TypeOK'
    <3>1. snap' \in [Rooms -> Deployment]
      BY <2>1, LifecycleAssumption DEF Absent, Deployment, Hashes
    <3>2. budget' \in Budgets
      BY <1>4, SpendTyped DEF Crash, IInv
    <3>3. asked' \in [Rooms -> Asks]
      <4>1. asked \in [Rooms -> Asks]
        BY DEF IInv, TypeOK
      <4>2. ASSUME NEW q \in Rooms PROVE [asked[q] EXCEPT !.lost = TRUE] \in Asks
        BY <4>1 DEF Asks
      <4> QED
        BY <1>4, <4>1, <4>2 DEF Crash
    <3> QED
      BY <2>1, <3>1, <3>2, <3>3 DEF IInv, TypeOK, Pcs, Hashes, world
  <2>3. LoopOK' /\ Working'
    BY <2>1, LifecycleAssumption DEF LoopOK, Working
  <2>4. \A r \in Rooms : RowOK(r)'
    BY <2>1 DEF IInv, RowOK, world
  <2> QED
    BY <2>2, <2>3, <2>4 DEF IInv
<1> QED
  BY <1>1, <1>2, <1>3, <1>4 DEF Errors

(***************************************************************************)
(* Everybody else.                                                         *)
(***************************************************************************)

\* A write the orchestrator's invariant does not see.
LEMMA Touch ==
    ASSUME IInv, NEW r \in Rooms, NEW new \in Row, row' = [row EXCEPT ![r] = new],
           new.state = row[r].state, new.hash = row[r].hash,
           new.reserved = row[r].reserved, new.notReady = row[r].notReady,
           UNCHANGED <<world, loop>>,
           budget' \in Budgets,
           asked' \in [Rooms -> Asks]
    PROVE  IInv'
<1>1. TypeOK'
  BY DEF IInv, TypeOK, world, loop
<1>2. \A q \in Rooms : SameRow(q) /\ NothingAppears(q)
  BY DEF SameRow, NothingAppears, IInv, TypeOK, world
<1> QED
  BY <1>1, <1>2, StandStill DEF loop

LEMMA WebStep == ASSUME IInv, Web PROVE IInv'
<1>1. PICK r \in Rooms :
        \/ \E desired \in Requests : RequestState(r, desired)
        \/ EditDefinition(r) \/ RequestRedeploy(r) \/ QuietChanges(r)
  BY DEF Web
<1> DEFINE x == row[r]
<1>2. /\ x \in Row /\ TypeOK
      /\ budget \in Budgets
      /\ asked \in [Rooms -> Asks]
  BY RowIsRow DEF IInv, TypeOK
<1>3. ASSUME NEW desired \in Requests, RequestState(r, desired) PROVE IInv'
  <2> DEFINE new == [x EXCEPT !.desired = desired]
  <2>1. /\ new \in Row /\ new.state = x.state /\ new.hash = x.hash
        /\ new.reserved = x.reserved /\ new.notReady = x.notReady
    BY <1>2, DesiredRow, LifecycleAssumption
  <2>2. row' = [row EXCEPT ![r] = new] /\ UNCHANGED <<world, loop, budget, asked>>
    BY <1>3 DEF RequestState
  <2> HIDE DEF new
  <2> QED
    BY <1>2, <2>1, <2>2, Touch
<1>4. CASE EditDefinition(r)
  <2> DEFINE new == [x EXCEPT !.rev = @ + 1]
  <2>1. x.rev \in 1..MaxRev /\ x.rev < MaxRev
    BY <1>2, <1>4 DEF EditDefinition, Row, Revs
  <2>2. x.rev + 1 \in Revs
    BY <2>1, LifecycleAssumption DEF Revs
  <2>3. /\ new \in Row /\ new.state = x.state /\ new.hash = x.hash
        /\ new.reserved = x.reserved /\ new.notReady = x.notReady
    BY <1>2, <2>2 DEF Row
  <2>4. row' = [row EXCEPT ![r] = new] /\ UNCHANGED <<world, loop, budget, asked>>
    BY <1>4 DEF EditDefinition
  <2> HIDE DEF new
  <2> QED
    BY <1>2, <2>3, <2>4, Touch
<1>5. CASE RequestRedeploy(r)
  <2> DEFINE new == [x EXCEPT !.redeploy = TRUE]
  <2>1. /\ new \in Row /\ new.state = x.state /\ new.hash = x.hash
        /\ new.reserved = x.reserved /\ new.notReady = x.notReady
    BY <1>2, RedeployRow
  <2>2. row' = [row EXCEPT ![r] = new] /\ UNCHANGED <<world, loop>>
    BY <1>5 DEF RequestRedeploy
  <2>3. budget' \in Budgets
    BY <1>2, <1>5, SpendTyped DEF RequestRedeploy
  <2>4. asked' \in [Rooms -> Asks]
    <3>1. row[r].rev \in Hashes /\ MidStart(r) \in BOOLEAN
      BY <1>2 DEF Row, Hashes, MidStart
    <3>2. [asked[r] EXCEPT !.rev = row[r].rev, !.midStart = MidStart(r)] \in Asks
      BY <1>2, <3>1 DEF Asks
    <3>3. asked' = [asked EXCEPT ![r] =
                      [asked[r] EXCEPT !.rev = row[r].rev, !.midStart = MidStart(r)]]
      BY <1>5 DEF RequestRedeploy
    <3> QED
      BY <1>2, <3>2, <3>3
  <2> HIDE DEF new
  <2> QED
    BY <2>1, <2>2, <2>3, <2>4, Touch
<1>6. CASE QuietChanges(r)
  <2> DEFINE new == [x EXCEPT !.abandoned = ~@]
  <2>1. /\ new \in Row /\ new.state = x.state /\ new.hash = x.hash
        /\ new.reserved = x.reserved /\ new.notReady = x.notReady
    BY <1>2 DEF Row
  <2>2. row' = [row EXCEPT ![r] = new] /\ UNCHANGED <<world, loop, budget, asked>>
    BY <1>6 DEF QuietChanges
  <2> HIDE DEF new
  <2> QED
    BY <1>2, <2>1, <2>2, Touch
<1> QED
  BY <1>1, <1>3, <1>4, <1>5, <1>6

LEMMA EnvironmentStep == ASSUME IInv, Environment PROVE IInv'
<1>1. ASSUME NEW r \in Rooms, PodReady(r) \/ PodFails(r) \/ HandDelete(r) PROVE IInv'
  <2>1. /\ dep' \in [Rooms -> Deployment]
        /\ \A q \in Rooms : dep'[q].here => dep[q].here
    <3>1. CASE PodReady(r)
      <4>1. dep[r] \in Deployment
        BY DEF IInv, TypeOK
      <4>2. /\ [dep[r] EXCEPT !.ready = TRUE] \in Deployment
            /\ [dep[r] EXCEPT !.ready = TRUE].here = dep[r].here
        BY <4>1 DEF Deployment
      <4> QED
        BY <3>1, <4>2 DEF PodReady, IInv, TypeOK
    <3>2. CASE PodFails(r)
      <4>1. dep[r] \in Deployment
        BY DEF IInv, TypeOK
      <4>2. /\ [dep[r] EXCEPT !.ready = FALSE] \in Deployment
            /\ [dep[r] EXCEPT !.ready = FALSE].here = dep[r].here
        BY <4>1 DEF Deployment
      <4> QED
        BY <3>2, <4>2 DEF PodFails, IInv, TypeOK
    <3>3. CASE HandDelete(r)
      BY <3>3, DeleteMarks DEF HandDelete, IInv
    <3> QED
      BY <1>1, <3>1, <3>2, <3>3
  <2>2. /\ UNCHANGED <<row, dir, secret, svc, cache, loop, asked>>
        /\ budget' \in Budgets
    BY <1>1, SpendTyped DEF PodReady, PodFails, HandDelete, IInv, TypeOK
  <2>3. TypeOK'
    BY <2>1, <2>2 DEF IInv, TypeOK, loop
  <2>4. \A q \in Rooms : SameRow(q) /\ NothingAppears(q)
    BY <2>1, <2>2 DEF SameRow, NothingAppears
  <2> QED
    BY <2>2, <2>3, <2>4, StandStill DEF loop
<1>2. ASSUME NEW r \in Rooms, Collect(r) PROVE IInv'
  <2>1. Absent \in Deployment /\ ~Absent.here
    BY DEF Absent, Deployment, Hashes
  <2>2. TypeOK'
    BY <1>2, <2>1 DEF IInv, TypeOK, Collect, loop
  <2>3. \A q \in Rooms : SameRow(q) /\ NothingAppears(q)
    BY <1>2, <2>1 DEF SameRow, NothingAppears, Collect, IInv, TypeOK
  <2> QED
    BY <1>2, <2>2, <2>3, StandStill DEF Collect, loop
<1>3. CASE CacheCatchesUp
  <2>1. TypeOK'
    BY <1>3 DEF IInv, TypeOK, CacheCatchesUp, loop
  <2> QED
    BY <1>3, <2>1, StandStill DEF CacheCatchesUp, loop, SameRow, NothingAppears
<1>4. ASSUME NEW r \in Rooms, AddressGranted(r) \/ AddressDenied(r) \/ DirectoryLost(r)
      PROVE  IInv'
  <2>1. /\ UNCHANGED <<row, dep, secret, cache, loop, asked>>
        /\ budget' \in Budgets
    BY <1>4, SpendTyped DEF AddressGranted, AddressDenied, DirectoryLost, IInv, TypeOK
  <2>2. /\ svc' \in [Rooms -> {"none", "pending", "ours", "wrong", "taken", "refused"}]
        /\ dir' \in [Rooms -> {"absent", "present", "trashed"}]
    BY <1>4 DEF AddressGranted, AddressDenied, DirectoryLost, IInv, TypeOK
  <2>3. TypeOK'
    BY <2>1, <2>2 DEF IInv, TypeOK, loop
  <2> QED
    BY <2>1, <2>3, StandStill DEF loop, SameRow, NothingAppears
<1>5. CASE TimePasses
  <2>1. ASSUME NEW q \in Rooms PROVE row'[q] \in Row /\ SameRow(q)
    <3> DEFINE older == [row[q] EXCEPT !.age = @ + 1]
    <3>1. row[q] \in Row
      BY RowIsRow DEF IInv
    <3>2. CanAge(q) => row[q].age + 1 \in Ages
      BY <3>1, LifecycleAssumption DEF CanAge, Row, Ages
    <3>3. CanAge(q) => /\ older \in Row /\ older.state = row[q].state
                       /\ older.hash = row[q].hash /\ older.reserved = row[q].reserved
                       /\ older.notReady = row[q].notReady
      BY <3>1, <3>2 DEF Row
    <3>4. row'[q] = IF CanAge(q) THEN older ELSE row[q]
      BY <1>5 DEF TimePasses
    <3> HIDE DEF older
    <3> QED
      BY <3>1, <3>3, <3>4 DEF SameRow
  <2>2. row' \in [Rooms -> Row]
    BY <1>5, <2>1 DEF TimePasses
  <2>3. TypeOK'
    BY <1>5, <2>2 DEF TimePasses, IInv, TypeOK, world, loop
  <2> QED
    BY <1>5, <2>1, <2>3, StandStill DEF TimePasses, NothingAppears, world, loop
<1>6. ASSUME NEW r \in Rooms, BackoffElapses(r) PROVE IInv'
  <2> DEFINE new == [row[r] EXCEPT !.retry = "due"]
  <2>1. /\ new \in Row /\ new.state = row[r].state /\ new.hash = row[r].hash
        /\ new.reserved = row[r].reserved /\ new.notReady = row[r].notReady
    BY RowIsRow, RetryRow DEF RetryStates, IInv
  <2>2. row' = [row EXCEPT ![r] = new] /\ UNCHANGED <<world, loop, budget, asked>>
    BY <1>6 DEF BackoffElapses
  <2>3. /\ budget \in Budgets
        /\ asked \in [Rooms -> Asks]
    BY DEF IInv, TypeOK
  <2> HIDE DEF new
  <2> QED
    BY <2>1, <2>2, <2>3, Touch
<1> QED
  BY <1>1, <1>2, <1>3, <1>4, <1>5, <1>6 DEF Environment

(***************************************************************************)
(* Theorems.                                                               *)
(***************************************************************************)
LEMMA StutterStep == ASSUME IInv, UNCHANGED vars PROVE IInv'
<1>1. TypeOK'
  BY DEF IInv, TypeOK, vars, world, loop
<1> QED
  BY <1>1, StandStill DEF vars, world, loop, SameRow, NothingAppears

\* Whatever order the calls, the web tier, the cluster and the crashes come
\* in, a planned action still finds its room in a state it is meant for, and a
\* call finds what the calls before it established.
THEOREM InductiveInvariant == Spec => []IInv
<1>1. IInv /\ [Next]_vars => IInv'
  BY PassStep, ErrorStep, WebStep, EnvironmentStep, StutterStep DEF Next
<1> QED
  BY <1>1, InitIInv, PTL DEF Spec

\* Every variable keeps its type; in particular not_ready_sweeps never passes
\* DEGRADED_SWEEPS.
THEOREM TypeCorrect == Spec => []TypeOK
<1>1. IInv => TypeOK
  BY DEF IInv
<1> QED
  BY <1>1, InductiveInvariant, PTL

\* A deleted room leaves no Deployment and no Secret.
THEOREM DeletionIsComplete == Spec => []DeletedLeavesNothing
<1>1. IInv => DeletedLeavesNothing
  BY DEF IInv, RowOK, DeletedLeavesNothing, HasRow
<1> QED
  BY <1>1, InductiveInvariant, PTL

\* The room directory moves in three ways only.
LEMMA DirMoves ==
    ASSUME Next
    PROVE  \/ dir' = dir
           \/ \E r \in Rooms : ProvisionDir(r) \/ TrashDir(r) \/ DirectoryLost(r)
<1>1. CASE Pass
  <2>1. CASE Calls
    <3>1. PICK r \in Rooms :
            \/ ProvisionCalls(r) \/ StartCalls(r) \/ UndoCalls(r)
            \/ FailCalls(r) \/ StopCalls(r) \/ DeleteCalls(r)
      BY <2>1 DEF Calls
    <3>2. StartCalls(r) \/ UndoCalls(r) => dir' = dir
      BY DEF StartCalls, Allocate, Render, ApplySecret, GetDeployment, CreateDeployment,
             Record, OwnSecret, EnsureService, ReadAddress, Converged, ConsumeRedeploy,
             UndoCalls, QuarantineMismatch, QuarantineTaken, DropStaleDeployment,
             ClearDeployment, Writes, world
    <3>3. FailCalls(r) \/ StopCalls(r) => dir' = dir
      BY DEF FailCalls, FailDelete, FailMark, FailRetryAfter, StopCalls, StopDelete,
             StopMark, RecreateDelete, RecreateClear, Writes, world
    <3>4. ProvisionCalls(r) => dir' = dir \/ ProvisionDir(r)
      BY DEF ProvisionCalls, ProvisionRow, world
    <3>5. DeleteCalls(r) => dir' = dir \/ TrashDir(r)
      BY DEF DeleteCalls, TeardownDeployment, TeardownSecret, CheckGone, DropRow, world
    <3> QED
      BY <3>1, <3>2, <3>3, <3>4, <3>5
  <2>2. CASE Take
    BY <2>2 DEF Take, MarkRunning, NotReady, MarkDegraded, MarkIdle, Retry, Reap,
                Begin, TakesStatement, world
  <2> QED
    BY <1>1, <2>1, <2>2
       DEF Pass, Lock, Acquire, NarrowRange, RestartStranded, Snapshot, Plan, EndOfActions, DetectIntegrityFaults, world
<1>2. CASE Errors
  BY <1>2 DEF Errors, AllocateFails, StepErrors, StartErrorsFatally, Crash, world
<1>3. CASE Web
  BY <1>3 DEF Web, RequestState, EditDefinition, RequestRedeploy, QuietChanges, world
<1>4. CASE Environment
  BY <1>4 DEF Environment, PodReady, PodFails, HandDelete, Collect, AddressGranted,
              AddressDenied, BackoffElapses, CacheCatchesUp, TimePasses, world
<1> QED
  BY <1>1, <1>2, <1>3, <1>4 DEF Next

\* Nobody's directory is moved to the trash while its Deployment exists.
THEOREM TrashWaitsForThePod == Spec => TrashOnlyWhenPodGone
<1> DEFINE Trashed(r) == dir[r] = "present" /\ dir'[r] = "trashed"
<1>1. ASSUME IInv, Next, NEW r \in Rooms, Trashed(r) PROVE ~dep[r].here
  <2>1. PICK q \in Rooms : ProvisionDir(q) \/ TrashDir(q) \/ DirectoryLost(q)
    BY <1>1, DirMoves
  <2>2. dir \in [Rooms -> {"absent", "present", "trashed"}]
    BY <1>1 DEF IInv, TypeOK
  <2>3. TrashDir(q) /\ q = r
    BY <1>1, <2>1, <2>2 DEF ProvisionDir, TrashDir, DirectoryLost
  <2> QED
    BY <1>1, <2>3 DEF TrashDir, At, IInv, Working
<1>2. IInv /\ [Next]_vars => [\A r \in Rooms : Trashed(r) => ~dep[r].here]_vars
  BY <1>1
<1> QED
  BY <1>2, InductiveInvariant, PTL DEF Spec, TrashOnlyWhenPodGone

\* An UPDATE by id leaves every other row alone.
LEMMA OtherRow ==
    ASSUME NEW q, NEW r, NEW new, r # q, Update(r, new)
    PROVE  row'[q] = row[q]
BY DEF Update

\* Where a room in integrity_fault may be after a step.
Kept(q) == row'[q].state \in {"integrity_fault", "deleting", "gone"}

\* A call that writes leaves a faulted room where it is, or is deleting it.
LEMMA CallKeepsFault ==
    ASSUME IInv, Calls, NEW q \in Rooms, row[q].state = "integrity_fault"
    PROVE  Kept(q)
<1>1. PICK r \in Rooms :
        \/ ProvisionCalls(r) \/ StartCalls(r) \/ UndoCalls(r)
        \/ FailCalls(r) \/ StopCalls(r) \/ DeleteCalls(r)
  BY DEF Calls
<1>2. TypeOK /\ row[q] \in Row /\ row[r] \in Row
  BY RowIsRow DEF IInv
<1>3. ASSUME NEW new \in Row, Update(r, new),
             row[r].state = "integrity_fault"
               => new.state \in {"integrity_fault", "deleting", "gone"}
      PROVE  Kept(q)
  BY <1>2, <1>3, UpdateRow DEF Kept, HasRow
<1>4. CASE row' = row
  BY <1>4 DEF Kept
<1>5. CASE ProvisionCalls(r)
  <2>1. CASE ProvisionRow(r)
    <3>1. Moved(row[r], "idle") \in Row
      BY <1>2, MovedRow DEF States
    <3> QED
      BY <1>2, <1>3, <2>1, <3>1 DEF ProvisionRow
  <2> QED
    BY <1>4, <1>5, <2>1 DEF ProvisionCalls, ProvisionDir
<1>6. CASE StartCalls(r)
  <2>1. CASE Allocate(r) \/ Record(r) \/ Converged(r)
    <3>1. r # q
      BY <2>1 DEF Allocate, Record, Converged, Writes, At, IInv, Working
    <3> QED
      BY <2>1, <3>1, OtherRow DEF Allocate, Record, Converged, Writes, Kept
  <2>2. CASE ConsumeRedeploy(r)
    <3>1. /\ [row[r] EXCEPT !.redeploy = FALSE] \in Row
          /\ [row[r] EXCEPT !.redeploy = FALSE].state = row[r].state
      BY <1>2, RedeployRow
    <3> QED
      BY <1>3, <2>2, <3>1 DEF ConsumeRedeploy
  <2> QED
    BY <1>4, <1>6, <2>1, <2>2
       DEF StartCalls, Render, ApplySecret, GetDeployment, CreateDeployment, OwnSecret,
           EnsureService, ReadAddress
<1>7. CASE UndoCalls(r)
  <2>1. CASE QuarantineMismatch(r) \/ QuarantineTaken(r) \/ ClearDeployment(r)
    <3>1. r # q
      BY <2>1 DEF QuarantineMismatch, QuarantineTaken, ClearDeployment, Writes, At, IInv, Working
    <3> QED
      BY <2>1, <3>1, OtherRow
         DEF QuarantineMismatch, QuarantineTaken, ClearDeployment, Writes, Kept
  <2> QED
    BY <1>4, <1>7, <2>1 DEF UndoCalls, DropStaleDeployment
<1>8. CASE FailCalls(r)
  <2>1. CASE FailMark(r)
    <3>1. r # q
      BY <2>1 DEF FailMark, Writes, At, IInv, Working
    <3> QED
      BY <2>1, <3>1, OtherRow DEF FailMark, Writes, Kept
  <2>2. CASE FailRetryAfter(r)
    <3>1. /\ [row[r] EXCEPT !.retry = "waiting"] \in Row
          /\ [row[r] EXCEPT !.retry = "waiting"].state = row[r].state
      BY <1>2, RetryRow DEF RetryStates
    <3> QED
      BY <1>3, <2>2, <3>1 DEF FailRetryAfter
  <2> QED
    BY <1>4, <1>8, <2>1, <2>2 DEF FailCalls, FailDelete
<1>9. CASE StopCalls(r)
  <2>1. CASE StopMark(r) \/ RecreateClear(r)
    <3>1. r # q
      BY <2>1 DEF StopMark, RecreateClear, At, IInv, Working, Live
    <3> QED
      BY <2>1, <3>1, OtherRow DEF StopMark, RecreateClear, Kept
  <2> QED
    BY <1>4, <1>9, <2>1 DEF StopCalls, StopDelete, RecreateDelete
<1>10. CASE DeleteCalls(r)
  <2>1. CASE CheckGone(r)
    <3>1. Moved(row[r], "deleting") \in Row /\ Moved(row[r], "deleting").state = "deleting"
      BY <1>2, MovedRow DEF States
    <3> QED
      BY <1>2, <1>3, <1>4, <2>1, <3>1 DEF CheckGone
  <2>2. CASE DropRow(r)
    BY <1>3, <2>2, FirstAndLastRow DEF DropRow
  <2> QED
    BY <1>4, <1>10, <2>1, <2>2 DEF DeleteCalls, TeardownDeployment, TeardownSecret, TrashDir
<1> QED
  BY <1>1, <1>5, <1>6, <1>7, <1>8, <1>9, <1>10

LEMMA TakeKeepsFault ==
    ASSUME IInv, Take, NEW q \in Rooms, row[q].state = "integrity_fault"
    PROVE  Kept(q)
<1>1. PICK r \in Rooms :
        \/ MarkRunning(r) \/ NotReady(r) \/ MarkDegraded(r) \/ MarkIdle(r)
        \/ Retry(r) \/ Reap(r)
        \/ \E step \in DOMAIN FirstCall : Begin(r, step)
  BY DEF Take
<1>2. ASSUME NEW step \in Steps \ {"Delete"}, NEW new, TakesStatement(r, step, new)
      PROVE  Kept(q)
  <2>1. row[r].state \in From[step]
    BY <1>2 DEF TakesStatement, Taking, IInv, LoopOK, Planned
  <2>2. r # q
    BY <2>1 DEF From, Steps, Live
  <2> QED
    BY <1>2, <2>2, OtherRow DEF TakesStatement, Kept
<1>3. ASSUME NEW step \in DOMAIN FirstCall, Begin(r, step) PROVE Kept(q)
  BY <1>3 DEF Begin, Kept
<1> QED
  BY <1>1, <1>2, <1>3
     DEF MarkRunning, NotReady, MarkDegraded, MarkIdle, Retry, Reap, Steps

LEMMA OthersKeepFault ==
    ASSUME IInv, Errors \/ Web \/ Environment, NEW q \in Rooms,
           row[q].state = "integrity_fault"
    PROVE  Kept(q)
<1>1. row \in [Rooms -> Row] /\ row[q] \in Row
  BY RowIsRow DEF IInv, TypeOK
<1>2. CASE Errors
  BY <1>2 DEF Errors, AllocateFails, StepErrors, StartErrorsFatally, Crash, Kept
<1>3. CASE Web
  <2>1. ASSUME NEW r \in Rooms, RequestRedeploy(r) PROVE Kept(q)
    BY <1>1, <2>1 DEF RequestRedeploy, Kept, Row
  <2>2. ASSUME NEW r \in Rooms,
               EditDefinition(r) \/ QuietChanges(r)
               \/ \E desired \in Requests : RequestState(r, desired)
        PROVE  Kept(q)
    BY <1>1, <2>2 DEF RequestState, EditDefinition, QuietChanges, Kept, Row
  <2> QED
    BY <1>3, <2>1, <2>2 DEF Web
<1>4. CASE Environment
  <2>1. CASE TimePasses
    BY <1>1, <2>1 DEF TimePasses, CanAge, Live, Kept
  <2>2. ASSUME NEW r \in Rooms, BackoffElapses(r) PROVE Kept(q)
    BY <1>1, <2>2 DEF BackoffElapses, Kept, Row
  <2> QED
    BY <1>4, <2>1, <2>2
       DEF Environment, PodReady, PodFails, HandDelete, Collect, AddressGranted,
           AddressDenied, DirectoryLost, CacheCatchesUp, Kept
<1> QED
  BY <1>2, <1>3, <1>4

\* Only a deletion moves a room out of integrity_fault.
THEOREM FaultsAreNeverRepaired == Spec => IntegrityFaultSticks
<1>1. ASSUME IInv, Next, NEW q \in Rooms, row[q].state = "integrity_fault" PROVE Kept(q)
  <2>1. CASE Pass
    <3>1. CASE DetectIntegrityFaults
      BY <1>1, <3>1 DEF DetectIntegrityFaults, Faulty, Kept
    <3> QED
      BY <1>1, <2>1, <3>1, CallKeepsFault, TakeKeepsFault, RangeRow
         DEF Pass, Lock, Acquire, Snapshot, Plan, EndOfActions, Kept, IInv
  <2> QED
    BY <1>1, <2>1, OthersKeepFault DEF Next
<1>2. IInv /\ [Next]_vars =>
        [\A r \in Rooms : row[r].state = "integrity_fault" =>
            row'[r].state \in {"integrity_fault", "deleting", "gone"}]_vars
  BY <1>1 DEF Kept
<1> QED
  BY <1>2, InductiveInvariant, PTL DEF Spec, IntegrityFaultSticks

(***************************************************************************)
(* RoomLifecycle implements RoomPromise.                                   *)
(***************************************************************************)

\* What a room's Deployment runs.
Runs(r) == IF dep[r].here THEN dep[r].hash ELSE None

KnownStands == \A r \in Rooms : HasRow(r)' = HasRow(r)
RunsStand == \A r \in Rooms : Runs(r)' = Runs(r)

\* A statement that does not say "gone" leaves every room as known as it was.
LEMMA UpdateKnows ==
    ASSUME TypeOK, NEW r \in Rooms, NEW new, Update(r, new), new.state # "gone"
    PROVE  KnownStands
BY DEF TypeOK, Update, HasRow, KnownStands

\* Marking a Deployment for deletion does not change what it runs.
LEMMA DeleteRunsOn ==
    ASSUME TypeOK, NEW r \in Rooms, DeleteDeployment(r)
    PROVE  RunsStand
<1>1. dep \in [Rooms -> Deployment] /\ dep[r] \in Deployment
  BY DEF TypeOK
<1>2. /\ [dep[r] EXCEPT !.deleting = TRUE, !.ready = FALSE].here = dep[r].here
      /\ [dep[r] EXCEPT !.deleting = TRUE, !.ready = FALSE].hash = dep[r].hash
  BY <1>1 DEF Deployment
<1> QED
  BY <1>1, <1>2 DEF DeleteDeployment, RunsStand, Runs

\* Only dropping the row makes a room unknown, and nothing brings one back.
LEMMA KnownMoves ==
    ASSUME IInv, Next
    PROVE  KnownStands \/ \E r \in Rooms : DropRow(r)
<1>1. TypeOK /\ row \in [Rooms -> Row]
  BY DEF IInv, TypeOK
<1>2. row' = row => KnownStands
  BY DEF KnownStands, HasRow
<1>3. ASSUME NEW r \in Rooms, NEW new \in Row, new.state # "gone",
             Update(r, new) \/ Update(r, row[r])
      PROVE  KnownStands
  BY <1>1, <1>3 DEF Update, HasRow, KnownStands
<1>4. ASSUME NEW r \in Rooms, Update(r, row[r]) PROVE KnownStands
  BY <1>1, <1>4 DEF Update, HasRow, KnownStands
<1>5. ASSUME NEW r \in Rooms PROVE row[r] \in Row
  BY <1>1
<1>6. ASSUME NEW r \in Rooms, NEW new, new.state = row[r].state, Update(r, new)
      PROVE  KnownStands
  BY <1>1, <1>6 DEF Update, HasRow, KnownStands
<1>7. CASE Calls
  <2>1. PICK r \in Rooms :
          \/ ProvisionCalls(r) \/ StartCalls(r) \/ UndoCalls(r)
          \/ FailCalls(r) \/ StopCalls(r) \/ DeleteCalls(r)
    BY <1>7 DEF Calls
  <2>2. /\ \A state \in States : /\ Moved(row[r], state).state = state
                                 /\ Moved(row[r], state).state # "gone"
        /\ Cleared(row[r]).state # "gone"
    BY <1>5, MovedRow, ClearedRow DEF States
  <2>3. \A b \in BOOLEAN : /\ [row[r] EXCEPT !.reserved = b].state = row[r].state
                           /\ [row[r] EXCEPT !.redeploy = b].state = row[r].state
    BY <1>5, ReservedRow, RedeployRow
  <2>4. /\ \A h : [row[r] EXCEPT !.hash = h].state = row[r].state
        /\ \A x : [row[r] EXCEPT !.retry = x].state = row[r].state
    BY <1>5 DEF Row
  <2>5. CASE ProvisionCalls(r)
    BY <1>1, <1>2, <1>4, <2>2, <2>5, UpdateKnows
       DEF ProvisionCalls, ProvisionDir, ProvisionRow, States
  <2>6. CASE StartCalls(r)
    BY <1>1, <1>2, <1>6, <2>2, <2>3, <2>4, <2>6, UpdateKnows
       DEF StartCalls, Allocate, Render, ApplySecret, GetDeployment, CreateDeployment, Record,
           OwnSecret, EnsureService, ReadAddress, Converged, ConsumeRedeploy, Writes, States
  <2>7. CASE UndoCalls(r)
    BY <1>1, <1>2, <1>6, <2>2, <2>3, <2>7, UpdateKnows
       DEF UndoCalls, QuarantineMismatch, QuarantineTaken, DropStaleDeployment,
           ClearDeployment, Writes
  <2>8. CASE FailCalls(r)
    BY <1>1, <1>2, <1>6, <2>2, <2>4, <2>8, UpdateKnows
       DEF FailCalls, FailDelete, FailMark, FailRetryAfter, Writes, States
  <2>9. CASE StopCalls(r)
    BY <1>1, <1>2, <2>2, <2>9, UpdateKnows
       DEF StopCalls, StopDelete, StopMark, RecreateDelete, RecreateClear, States
  <2>10. CASE DeleteCalls(r)
    BY <1>1, <1>2, <1>4, <2>2, <2>10, UpdateKnows
       DEF DeleteCalls, TeardownDeployment, TeardownSecret, CheckGone, TrashDir, States
  <2> QED
    BY <2>1, <2>5, <2>6, <2>7, <2>8, <2>9, <2>10
<1>8. CASE Take
  <2>1. PICK r \in Rooms :
          \/ MarkRunning(r) \/ NotReady(r) \/ MarkDegraded(r) \/ MarkIdle(r)
          \/ Retry(r) \/ Reap(r)
          \/ \E step \in DOMAIN FirstCall : Begin(r, step)
    BY <1>8 DEF Take
  <2>2. CASE Begin(r, "Provision") \/ \E step \in DOMAIN FirstCall : Begin(r, step)
    BY <1>2, <2>2 DEF Begin
  <2>3. /\ \A state \in States : Moved(row[r], state) \in Row /\ Moved(row[r], state).state = state
        /\ Cleared(row[r]).state = "idle"
    BY <1>5, MovedRow, ClearedRow
  <2>4. CASE MarkRunning(r) \/ MarkDegraded(r) \/ MarkIdle(r)
    <3> DEFINE running == [Moved(row[r], "running") EXCEPT !.notReady = 0, !.retry = "none"]
               degraded == [Moved(row[r], "degraded") EXCEPT !.notReady = @ + 1]
    <3>1. running.state = "running" /\ degraded.state = "degraded"
      BY <2>3 DEF States, Row
    <3>2. Update(r, running) \/ Update(r, degraded) \/ Update(r, Cleared(row[r]))
      BY <2>4 DEF MarkRunning, MarkDegraded, MarkIdle, TakesStatement
    <3> HIDE DEF running, degraded
    <3> QED
      BY <1>1, <2>3, <3>1, <3>2, UpdateKnows
  <2>5. CASE NotReady(r) \/ Retry(r) \/ Reap(r)
    <3> DEFINE missed == [row[r] EXCEPT !.notReady = @ + 1]
               tried == [Moved(row[r], "idle") EXCEPT !.retry = "none"]
               reaped == [row[r] EXCEPT !.desired = "stopped"]
    <3>1. tried.state = "idle" /\ missed.state = row[r].state /\ reaped.state = row[r].state
      BY <1>5, <2>3 DEF States, Row
    <3>2. Update(r, missed) \/ Update(r, tried) \/ Update(r, reaped) \/ Update(r, row[r])
      BY <2>5 DEF NotReady, Retry, Reap, TakesStatement
    <3> HIDE DEF missed, tried, reaped
    <3> QED
      BY <1>1, <1>4, <1>6, <3>1, <3>2, UpdateKnows
  <2> QED
    BY <2>1, <2>2, <2>4, <2>5
<1>9. CASE DetectIntegrityFaults
  <2>1. ASSUME NEW r \in Rooms PROVE HasRow(r)' = HasRow(r)
    <3>1. Moved(row[r], "integrity_fault").state = "integrity_fault"
      BY <1>5, MovedRow DEF States
    <3> QED
      BY <1>9, <3>1 DEF DetectIntegrityFaults, Faulty, HasRow
  <2> QED
    BY <2>1 DEF KnownStands
<1>10. CASE Errors
  BY <1>2, <1>10 DEF Errors, AllocateFails, StepErrors, StartErrorsFatally, Crash
<1>11. CASE Web
  BY <1>1, <1>11
     DEF Web, RequestState, EditDefinition, RequestRedeploy, QuietChanges, KnownStands, HasRow, Row
<1>12. CASE Environment
  <2>1. CASE TimePasses
    BY <1>1, <2>1 DEF TimePasses, KnownStands, HasRow, Row
  <2>2. ASSUME NEW r \in Rooms, BackoffElapses(r) PROVE KnownStands
    BY <1>1, <2>2 DEF BackoffElapses, KnownStands, HasRow, Row
  <2> QED
    BY <1>2, <1>12, <2>1, <2>2
       DEF Environment, PodReady, PodFails, HandDelete, Collect, AddressGranted,
           AddressDenied, DirectoryLost, CacheCatchesUp
<1>13. CASE (\E outside \in SUBSET Rooms : NarrowRange(outside)) \/ RestartStranded
  BY <1>1, <1>13, RangeRow DEF KnownStands, HasRow
<1> QED
  BY <1>2, <1>7, <1>8, <1>9, <1>10, <1>11, <1>12, <1>13
     DEF Next, Pass, Lock, Acquire, Snapshot, Plan, EndOfActions

\* What runs changes when a Deployment is created and when one is collected.
LEMMA RunsMove ==
    ASSUME IInv, Next
    PROVE  RunsStand \/ \E r \in Rooms : CreateDeployment(r) \/ Collect(r)
<1>1. TypeOK /\ dep \in [Rooms -> Deployment]
  BY DEF IInv, TypeOK
<1>2. dep' = dep => RunsStand
  BY DEF RunsStand, Runs
<1>3. CASE Calls
  <2>1. PICK r \in Rooms :
          \/ ProvisionCalls(r) \/ StartCalls(r) \/ UndoCalls(r)
          \/ FailCalls(r) \/ StopCalls(r) \/ DeleteCalls(r)
    BY <1>3 DEF Calls
  <2>2. CASE ProvisionCalls(r)
    BY <1>2, <2>2 DEF ProvisionCalls, ProvisionDir, ProvisionRow, world
  <2>3. CASE StartCalls(r)
    BY <1>1, <1>2, <2>3, DeleteRunsOn
       DEF StartCalls, Allocate, Render, ApplySecret, GetDeployment, Record, OwnSecret,
           EnsureService, ReadAddress, Converged, ConsumeRedeploy, Writes, world
  <2>4. CASE UndoCalls(r)
    BY <1>1, <1>2, <2>4, DeleteRunsOn
       DEF UndoCalls, QuarantineMismatch, QuarantineTaken, DropStaleDeployment,
           ClearDeployment, Writes, world
  <2>5. CASE FailCalls(r)
    BY <1>1, <1>2, <2>5, DeleteRunsOn
       DEF FailCalls, FailDelete, FailMark, FailRetryAfter, Writes, world
  <2>6. CASE StopCalls(r)
    BY <1>1, <1>2, <2>6, DeleteRunsOn
       DEF StopCalls, StopDelete, StopMark, RecreateDelete, RecreateClear, world
  <2>7. CASE DeleteCalls(r)
    BY <1>1, <1>2, <2>7, DeleteRunsOn
       DEF DeleteCalls, TeardownDeployment, TeardownSecret, CheckGone, TrashDir, DropRow, world
  <2> QED
    BY <2>1, <2>2, <2>3, <2>4, <2>5, <2>6, <2>7
<1>4. CASE Take
  BY <1>2, <1>4 DEF Take, MarkRunning, NotReady, MarkDegraded, MarkIdle, Retry, Reap,
                    Begin, TakesStatement, world
<1>5. CASE Errors
  BY <1>2, <1>5 DEF Errors, AllocateFails, StepErrors, StartErrorsFatally, Crash, world
<1>6. CASE Web
  BY <1>2, <1>6 DEF Web, RequestState, EditDefinition, RequestRedeploy, QuietChanges, world
<1>7. CASE Environment
  <2>1. ASSUME NEW r \in Rooms, PodReady(r) \/ PodFails(r) PROVE RunsStand
    BY <1>1, <2>1 DEF PodReady, PodFails, RunsStand, Runs, Deployment
  <2> QED
    BY <1>1, <1>2, <1>7, <2>1, DeleteRunsOn
       DEF Environment, HandDelete, AddressGranted, AddressDenied, DirectoryLost,
           BackoffElapses, CacheCatchesUp, TimePasses, world
<1> QED
  BY <1>2, <1>3, <1>4, <1>5, <1>6, <1>7
     DEF Next, Pass, Lock, Acquire, NarrowRange, RestartStranded, Snapshot, Plan, EndOfActions, DetectIntegrityFaults, world

LEMMA KeepsPromise ==
    ASSUME IInv, Next
    PROVE  Promise!Next \/ UNCHANGED Promise!promised
<1> DEFINE known == [r \in Rooms |-> HasRow(r)]
           runs == [r \in Rooms |-> IF dep[r].here THEN dep[r].hash ELSE None]
<1>1. /\ dep \in [Rooms -> Deployment] /\ dir \in [Rooms -> {"absent", "present", "trashed"}]
      /\ row \in [Rooms -> Row] /\ rendered \in Hashes
  BY DEF IInv, TypeOK
<1>2. KnownStands => known' = known
  BY DEF KnownStands
<1>3. RunsStand => runs' = runs
  BY DEF RunsStand, Runs
<1>4. ASSUME NEW r \in Rooms, ProvisionDir(r) PROVE Promise!Supply(r)
  <2>1. known' = known /\ runs' = runs
    BY <1>4 DEF ProvisionDir, HasRow
  <2>2. known[r]
    BY <1>4 DEF ProvisionDir, At, IInv, Working, HasRow
  <2> QED
    BY <1>4, <2>1, <2>2 DEF ProvisionDir, Promise!Supply
<1>5. ASSUME NEW r \in Rooms, TrashDir(r)
      PROVE  Promise!PutAway(r) \/ UNCHANGED Promise!promised
  <2>1. known' = known /\ runs' = runs
    BY <1>5 DEF TrashDir, Goto, HasRow
  <2>2. runs[r] = None
    BY <1>5 DEF TrashDir, At, IInv, Working
  <2>3. CASE dir[r] = "present"
    BY <1>5, <2>1, <2>2, <2>3 DEF TrashDir, Promise!PutAway
  <2>4. CASE dir[r] # "present"
    <3>1. dir' = dir
      BY <1>1, <1>5, <2>4 DEF TrashDir
    <3> QED
      BY <2>1, <3>1 DEF Promise!promised
  <2> QED
    BY <2>3, <2>4
<1>6. ASSUME NEW r \in Rooms, DirectoryLost(r) PROVE Promise!Lose(r)
  <2>1. known' = known /\ runs' = runs
    BY <1>6 DEF DirectoryLost, HasRow
  <2> QED
    BY <1>6, <2>1 DEF DirectoryLost, Promise!Lose
<1>7. ASSUME NEW r \in Rooms, CreateDeployment(r)
      PROVE  \/ \E definition \in Revs : Promise!Serve(r, definition)
             \/ UNCHANGED Promise!promised
  <2>1. known' = known /\ dir' = dir
    BY <1>7 DEF CreateDeployment, HasRow
  <2>2. known[r]
    BY <1>7 DEF CreateDeployment, At, IInv, Working, HasRow
  <2>3. CASE dep[r].here
    <3>1. runs' = runs
      BY <1>7, <2>3 DEF CreateDeployment
    <3> QED
      BY <2>1, <3>1 DEF Promise!promised
  <2>4. CASE ~dep[r].here
    <3>1. PICK definition \in Revs : definition = rendered
      BY <1>1, <1>7 DEF CreateDeployment, At, IInv, Working, Hashes
    <3>2. runs' = [runs EXCEPT ![r] = definition]
      BY <1>1, <1>7, <2>4, <3>1 DEF CreateDeployment
    <3>3. runs[r] = None
      BY <2>4
    <3>4. Promise!Serve(r, definition)
      BY <2>1, <2>2, <3>2, <3>3 DEF Promise!Serve
    <3> QED
      BY <3>4
  <2> QED
    BY <2>3, <2>4
<1>8. ASSUME NEW r \in Rooms, Collect(r)
      PROVE  Promise!Cease(r) \/ UNCHANGED Promise!promised
  <2>1. known' = known /\ dir' = dir
    BY <1>8 DEF Collect, HasRow
  <2>2. runs' = [runs EXCEPT ![r] = None]
    BY <1>1, <1>8 DEF Collect, Absent
  <2>3. CASE runs[r] # None
    BY <2>1, <2>2, <2>3 DEF Promise!Cease
  <2>4. CASE runs[r] = None
    <3>1. runs' = runs
      BY <2>2, <2>4
    <3> QED
      BY <2>1, <3>1 DEF Promise!promised
  <2> QED
    BY <2>3, <2>4
<1>9. ASSUME NEW r \in Rooms, DropRow(r)
      PROVE  Promise!Forget(r) \/ UNCHANGED Promise!promised
  <2>1. dir' = dir /\ runs' = runs
    BY <1>9 DEF DropRow, world
  <2>2. runs[r] = None
    BY <1>9 DEF DropRow, At, IInv, Working
  <2>3. CASE HasRow(r)
    <3>1. row' = [row EXCEPT ![r] = GoneRow]
      BY <1>9, <2>3 DEF DropRow, Update
    <3>2. known' = [known EXCEPT ![r] = FALSE]
      BY <1>1, <3>1, FirstAndLastRow DEF HasRow
    <3>3. known[r]
      BY <2>3
    <3> QED
      BY <2>1, <2>2, <3>2, <3>3 DEF Promise!Forget
  <2>4. CASE ~HasRow(r)
    <3>1. known' = known
      BY <1>9, <2>4 DEF DropRow, Update, HasRow
    <3> QED
      BY <2>1, <3>1 DEF Promise!promised
  <2> QED
    BY <2>3, <2>4
<1>10. CASE dir' = dir /\ KnownStands /\ RunsStand
  BY <1>2, <1>3, <1>10 DEF Promise!promised
<1>11. \/ dir' = dir /\ KnownStands /\ RunsStand
       \/ \E r \in Rooms : \/ ProvisionDir(r) \/ TrashDir(r) \/ DirectoryLost(r)
                           \/ CreateDeployment(r) \/ Collect(r) \/ DropRow(r)
  BY DirMoves, KnownMoves, RunsMove
<1> HIDE DEF known, runs
<1>12. ASSUME NEW r \in Rooms,
              \/ Promise!Supply(r) \/ Promise!PutAway(r) \/ Promise!Lose(r)
              \/ Promise!Cease(r) \/ Promise!Forget(r)
              \/ \E definition \in Revs : Promise!Serve(r, definition)
       PROVE  Promise!Next
  BY <1>12, Zenon DEF Promise!Next
<1>13. ASSUME NEW r \in Rooms,
              \/ ProvisionDir(r) \/ TrashDir(r) \/ DirectoryLost(r)
              \/ CreateDeployment(r) \/ Collect(r) \/ DropRow(r)
       PROVE  Promise!Next \/ UNCHANGED Promise!promised
  <2>1. CASE ProvisionDir(r) \/ DirectoryLost(r)
    BY <1>4, <1>6, <1>12, <2>1, Zenon
  <2>2. CASE TrashDir(r) \/ Collect(r)
    BY <1>5, <1>8, <1>12, <2>2, Zenon
  <2>3. CASE CreateDeployment(r)
    BY <1>7, <1>12, <2>3, Zenon
  <2>4. CASE DropRow(r)
    BY <1>9, <1>12, <2>4, Zenon
  <2> QED
    BY <1>13, <2>1, <2>2, <2>3, <2>4
<1> QED
  BY <1>10, <1>11, <1>13, Zenon

\* Through every fault the bounds allow, however many rooms there are: a
\* Deployment is never rolled from one definition to another, no directory is
\* put away under one, and a forgotten room stays forgotten.
THEOREM PromisesAreKept == Spec => PromiseKept
<1>1. Init => Promise!Init
  <2> SUFFICES ASSUME Init PROVE Promise!Init
    OBVIOUS
  <2>1. \A r \in Rooms : HasRow(r) = TRUE
    BY DEF Init, NewRow, HasRow
  <2>2. \A r \in Rooms : (IF dep[r].here THEN dep[r].hash ELSE None) = None
    BY DEF Init, Absent
  <2> QED
    BY <2>1, <2>2, Zenon DEF Promise!Init, Init
<1>2. IInv /\ [Next]_vars => [Promise!Next]_Promise!promised
  <2>1. UNCHANGED vars => UNCHANGED Promise!promised
    BY DEF vars, world, Promise!promised, HasRow
  <2> QED
    BY <2>1, KeepsPromise
<1> QED
  BY <1>1, <1>2, InductiveInvariant, PTL DEF Spec, PromiseKept, Promise!Spec

-----------------------------------------------------------------------------
(***************************************************************************)
(* Redeploy requests.  What a start rendered is as new as the last request *)
(* made before it rendered; what it finds or makes is what it rendered;    *)
(* and a room goes live only behind such a start.                          *)
(***************************************************************************)
Up(r) == dep[r].here /\ ~dep[r].deleting

\* The calls of a start that has found or made its Deployment.
WithDeployment == {"record", "own", "service", "address", "converged"}

\* Nobody has asked for more than r runs, as far as a start is to answer it.
Served(r) == asked[r].midStart \/ asked[r].rev <= dep[r].hash

\* A live room has its pair, or a restart that gets it one is owed.
Backed(r) == row[r].reserved \/ row[r].redeploy \/ r \in stranded \/ asked[r].lost

Answers(r) ==
    /\ row[r].state \in Live => Backed(r)
    /\ HasRow(r) => asked[r].rev <= row[r].rev
    /\ cur = r =>
        /\ pc \in AfterRender => asked[r].midStart \/ asked[r].rev <= rendered
        /\ pc = "create" => ~dep[r].here
        /\ pc \in WithDeployment /\ Up(r) => dep[r].hash = rendered
        /\ pc = "consume" => row[r].state \in {"starting", "idle"}
    /\ /\ row[r].state \in Live /\ Up(r)
       /\ ~row[r].redeploy \/ (cur = r /\ pc = "consume")
       => Served(r)

\* A step that bears on no request for r.
RowKeeps(r) ==
    /\ HasRow(r)' => HasRow(r) /\ row'[r].rev >= row[r].rev
    /\ row'[r].state \in Live =>
        /\ row[r].state \in Live
        /\ row[r].redeploy => row'[r].redeploy
        /\ row[r].reserved => row'[r].reserved \/ r \in stranded'
DepKeeps(r) ==
    /\ dep'[r].here => dep[r].here
    /\ Up(r)' => Up(r) /\ dep'[r].hash = dep[r].hash
LoopLeaves(r) ==
    \/ cur' # r
    \/ pc' \notin AfterRender \cup {"consume"}
    \/ UNCHANGED <<cur, pc, rendered>> /\ row'[r].state = row[r].state
AskKeeps(r) ==
    /\ asked'[r].rev = asked[r].rev /\ asked'[r].midStart = asked[r].midStart
    /\ asked[r].lost \/ r \in stranded => asked'[r].lost \/ r \in stranded'
Spared(r) == RowKeeps(r) /\ DepKeeps(r) /\ LoopLeaves(r) /\ AskKeeps(r)

\* Numbers that are compared are numbers.
LEMMA RevsAreNumbers ==
    ASSUME TypeOK, NEW r \in Rooms
    PROVE  row[r].rev \in Nat /\ asked[r].rev \in Nat /\ dep[r].hash \in Nat /\ rendered \in Nat
<1>1. Hashes \subseteq Nat /\ Revs \subseteq Nat
  BY DEF Hashes, Revs, None
<1> QED
  BY <1>1 DEF TypeOK, Row, Deployment, Asks

LEMMA KeptAnswers ==
    ASSUME TypeOK, TypeOK', NEW r \in Rooms, Answers(r), Spared(r)
    PROVE  Answers(r)'
<1>1. /\ row[r].rev \in Nat /\ asked[r].rev \in Nat /\ row'[r].rev \in Nat
      /\ asked'[r].rev = asked[r].rev /\ asked'[r].midStart = asked[r].midStart
  BY RevsAreNumbers DEF Spared, AskKeeps, TypeOK, Row, Revs
<1>2. (HasRow(r) => asked[r].rev <= row[r].rev)'
  BY <1>1 DEF Answers, Spared, RowKeeps
<1>3. (cur = r =>
        /\ pc \in AfterRender => asked[r].midStart \/ asked[r].rev <= rendered
        /\ pc = "create" => ~dep[r].here
        /\ pc \in WithDeployment /\ Up(r) => dep[r].hash = rendered
        /\ pc = "consume" => row[r].state \in {"starting", "idle"})'
  BY <1>1 DEF Answers, Spared, LoopLeaves, DepKeeps, WithDeployment
<1>4. (/\ row[r].state \in Live /\ Up(r)
       /\ ~row[r].redeploy \/ (cur = r /\ pc = "consume")
       => Served(r))'
  BY <1>1 DEF Answers, Spared, LoopLeaves, RowKeeps, DepKeeps, Served
<1>5. (row[r].state \in Live => Backed(r))'
  BY DEF Answers, Spared, RowKeeps, AskKeeps, Backed
<1> QED
  BY <1>2, <1>3, <1>4, <1>5 DEF Answers

\* What the statements keep of a row.
LEMMA StatementKeeps ==
    ASSUME NEW old \in Row
    PROVE  /\ \A state \in States : /\ Moved(old, state).rev = old.rev
                                    /\ Moved(old, state).redeploy = old.redeploy
                                    /\ Moved(old, state).reserved = old.reserved
           /\ Cleared(old).rev = old.rev /\ Cleared(old).redeploy = old.redeploy
  BY DEF Moved, Cleared, Row

LEMMA UpdateKeeps ==
    ASSUME TypeOK, NEW r \in Rooms, NEW new, Update(r, new),
           \/ new.state = "gone"
           \/ /\ new.rev = row[r].rev /\ new.redeploy = row[r].redeploy
              /\ new.state \in Live => row[r].state \in Live /\ new.reserved = row[r].reserved
    PROVE  \A q \in Rooms : RowKeeps(q) /\ (q # r => row'[q] = row[q])
<1>1. row \in [Rooms -> Row] /\ "gone" \notin Live /\ \A q \in Rooms : row[q].rev \in Nat
  BY RevsAreNumbers DEF TypeOK, Live
<1> QED
  BY <1>1 DEF Update, HasRow, RowKeeps

\* Rows that stand, Deployments that stand or begin to go.
LEMMA StandingKeeps ==
    ASSUME TypeOK, NEW q \in Rooms
    PROVE  /\ row'[q] = row[q] => RowKeeps(q)
           /\ dep'[q] = dep[q] => DepKeeps(q)
  BY RevsAreNumbers DEF RowKeeps, DepKeeps, HasRow, Up

LEMMA DeleteKeeps ==
    ASSUME TypeOK, NEW r \in Rooms, DeleteDeployment(r)
    PROVE  \A q \in Rooms : DepKeeps(q)
<1>1. dep \in [Rooms -> Deployment]
  BY DEF TypeOK
<1>2. [dep[r] EXCEPT !.deleting = TRUE, !.ready = FALSE].deleting
  BY <1>1 DEF Deployment
<1> QED
  BY <1>1, <1>2, DeleteMarks DEF DeleteDeployment, DepKeeps, Up

\* Outside a step nothing is being worked on.
LEMMA NobodyAtRest ==
    ASSUME IInv, NEW q \in Rooms
    PROVE  pc \notin StepPcs => cur # q
  BY DEF IInv, LoopOK

LEMMA TakeKeeps == ASSUME IInv, Take, NEW q \in Rooms PROVE Spared(q)
<1>0. TypeOK /\ row \in [Rooms -> Row] /\ pc = "act" /\ pc \notin StepPcs
  BY DEF IInv, TypeOK, Take, MarkRunning, NotReady, MarkDegraded, MarkIdle, Retry, Reap, Begin,
     TakesStatement, Taking
<1>1. UNCHANGED <<dep, asked, stranded>>
  BY DEF Take, MarkRunning, NotReady, MarkDegraded, MarkIdle, Retry, Reap, Begin,
     TakesStatement, world
<1>2. PICK r \in Rooms :
          \/ MarkRunning(r) \/ NotReady(r) \/ MarkDegraded(r) \/ MarkIdle(r)
          \/ Retry(r) \/ Reap(r)
          \/ \E step \in DOMAIN FirstCall : Begin(r, step)
  BY DEF Take
<1>3. CASE \E step \in DOMAIN FirstCall : Begin(r, step)
  <2>1. row' = row /\ pc' \notin AfterRender \cup {"consume"}
    BY <1>3 DEF Begin, FirstCall
  <2> QED
    BY <1>0, <1>1, <2>1, StandingKeeps DEF Spared, LoopLeaves, AskKeeps
<1>4. ASSUME NEW step \in Steps, NEW new, TakesStatement(r, step, new),
             new.rev = row[r].rev, new.redeploy = row[r].redeploy,
             new.state \in Live => row[r].state \in Live /\ new.reserved = row[r].reserved
      PROVE  Spared(q)
  <2>1. RowKeeps(q)
    BY <1>0, <1>4, UpdateKeeps DEF TakesStatement
  <2>2. LoopLeaves(q)
    BY <1>0, <1>4, NobodyAtRest DEF TakesStatement, LoopLeaves
  <2> QED
    BY <1>0, <1>1, <2>1, <2>2, StandingKeeps DEF Spared, AskKeeps
<1>5. row[r] \in Row
  BY <1>0
<1>6. CASE MarkRunning(r) \/ MarkDegraded(r)
  <2>1. row[r].state \in Live
    BY <1>6 DEF MarkRunning, MarkDegraded, TakesStatement, Taking, IInv, LoopOK, Planned, From, Live
  <2> DEFINE up == [Moved(row[r], "running") EXCEPT !.notReady = 0, !.retry = "none"]
             sick == [Moved(row[r], "degraded") EXCEPT !.notReady = @ + 1]
  <2>2. /\ up.rev = row[r].rev /\ up.redeploy = row[r].redeploy
        /\ up.reserved = row[r].reserved /\ sick.reserved = row[r].reserved
        /\ sick.rev = row[r].rev /\ sick.redeploy = row[r].redeploy
    <3>1. ASSUME NEW state \in States
          PROVE  /\ Moved(row[r], state) \in Row /\ Moved(row[r], state).rev = row[r].rev
                 /\ Moved(row[r], state).redeploy = row[r].redeploy
                 /\ Moved(row[r], state).reserved = row[r].reserved
      BY <1>5, MovedRow, StatementKeeps
    <3>2. "running" \in States /\ "degraded" \in States
      BY DEF States
    <3> QED
      BY <3>1, <3>2 DEF Row
  <2>3. TakesStatement(r, "MarkRunning", up) \/ TakesStatement(r, "MarkDegraded", sick)
    BY <1>6 DEF MarkRunning, MarkDegraded
  <2> HIDE DEF up, sick
  <2> QED
    BY <1>4, <2>1, <2>2, <2>3 DEF Steps
<1>7. CASE NotReady(r) \/ Reap(r)
  <2> DEFINE missed == [row[r] EXCEPT !.notReady = @ + 1]
             reaped == [row[r] EXCEPT !.desired = "stopped"]
  <2>1. /\ missed.rev = row[r].rev /\ missed.redeploy = row[r].redeploy
        /\ missed.state = row[r].state /\ missed.reserved = row[r].reserved
        /\ reaped.reserved = row[r].reserved /\ reaped.rev = row[r].rev /\ reaped.redeploy = row[r].redeploy
        /\ reaped.state = row[r].state
    BY <1>5 DEF Row
  <2>2. \/ TakesStatement(r, "NotReady", missed) \/ TakesStatement(r, "Reap", reaped)
        \/ TakesStatement(r, "Reap", row[r])
    BY <1>7 DEF NotReady, Reap
  <2> HIDE DEF missed, reaped
  <2> QED
    BY <1>4, <2>1, <2>2 DEF Steps
<1>8. CASE MarkIdle(r) \/ Retry(r)
  <2> DEFINE tried == [Moved(row[r], "idle") EXCEPT !.retry = "none"]
  <2>1. /\ tried.rev = row[r].rev /\ tried.redeploy = row[r].redeploy /\ tried.state = "idle"
        /\ Cleared(row[r]).rev = row[r].rev /\ Cleared(row[r]).redeploy = row[r].redeploy
        /\ Cleared(row[r]).state = "idle"
    <3>1. "idle" \in States
      BY DEF States
    <3>2. /\ Moved(row[r], "idle") \in Row /\ Moved(row[r], "idle").rev = row[r].rev
          /\ Moved(row[r], "idle").redeploy = row[r].redeploy
          /\ Moved(row[r], "idle").state = "idle"
      BY <1>5, <3>1, MovedRow, StatementKeeps
    <3> QED
      BY <1>5, <3>2, ClearedRow, StatementKeeps DEF Row
  <2>2. \/ TakesStatement(r, "MarkIdle", Cleared(row[r])) \/ TakesStatement(r, "Retry", tried)
        \/ TakesStatement(r, "Retry", row[r])
    BY <1>8 DEF MarkIdle, Retry
  <2> HIDE DEF tried
  <2> QED
    BY <1>4, <2>1, <2>2 DEF Steps, Live
<1> QED
  BY <1>2, <1>3, <1>6, <1>7, <1>8

LEMMA LoopKeeps ==
    ASSUME IInv, NEW q \in Rooms,
           \/ Acquire \/ (\E kind \in BOOLEAN : Snapshot(kind)) \/ Plan \/ EndOfActions
           \/ DetectIntegrityFaults
           \/ \E outside \in SUBSET Rooms : NarrowRange(outside)
    PROVE  Spared(q)
<1>1. TypeOK /\ row[q] \in Row
  BY DEF IInv, TypeOK
<1>2. UNCHANGED <<dep, asked, cur>> /\ cur # q /\ stranded = {}
  BY NobodyAtRest DEF Acquire, Snapshot, Plan, EndOfActions, DetectIntegrityFaults, NarrowRange,
     Goto, world, IInv, LoopOK
<1>3. RowKeeps(q)
  <2>1. CASE DetectIntegrityFaults
    <3>1. row'[q] = row[q] \/ (row'[q] = Moved(row[q], "integrity_fault") /\ HasRow(q))
      BY <2>1 DEF DetectIntegrityFaults, Faulty, HasRow
    <3>2. /\ Moved(row[q], "integrity_fault").rev = row[q].rev
          /\ Moved(row[q], "integrity_fault").state = "integrity_fault"
      BY <1>1, MovedRow, StatementKeeps DEF States
    <3> QED
      BY <1>1, <3>1, <3>2, StandingKeeps, RevsAreNumbers DEF RowKeeps, Live
  <2>2. CASE UNCHANGED row
    BY <1>1, <2>2, StandingKeeps
  <2>3. ASSUME NEW outside \in SUBSET Rooms, NarrowRange(outside) PROVE RowKeeps(q)
    <3>1. CASE q \in outside
      <4> DEFINE bare == [row[q] EXCEPT !.reserved = FALSE]
             new == [bare EXCEPT !.rev = @ + 1]
      <4>0. row[q].state \in Live => q \in stranded'
        BY <2>3, <3>1 DEF NarrowRange
      <4>1. row'[q] = new
        BY <2>3, <3>1 DEF NarrowRange
      <4>2. bare \in Row /\ bare.state = row[q].state /\ bare.redeploy = row[q].redeploy
            /\ bare.rev = row[q].rev
        BY <1>1 DEF Row
      <4> HIDE DEF bare
      <4>3. /\ row'[q].state = row[q].state /\ row'[q].redeploy = row[q].redeploy
            /\ row'[q].rev = row[q].rev + 1
        BY <4>1, <4>2 DEF Row
      <4> QED
        BY <1>1, <4>0, <4>3, RevsAreNumbers DEF RowKeeps, HasRow
    <3>2. CASE q \notin outside
      BY <1>1, <2>3, <3>2, StandingKeeps DEF NarrowRange
    <3> QED
      BY <3>1, <3>2
  <2> QED
    BY <2>1, <2>2, <2>3 DEF Acquire, Snapshot, Plan, EndOfActions
<1> QED
  BY <1>1, <1>2, <1>3, StandingKeeps DEF Spared, LoopLeaves, AskKeeps

\* The calls of every other step; the row goes to rest or stays where it is.
LEMMA OtherCallsKeep ==
    ASSUME IInv, NEW r \in Rooms, NEW q \in Rooms,
           \/ ProvisionCalls(r) \/ UndoCalls(r) \/ FailCalls(r)
           \/ StopDelete(r) \/ StopMark(r) \/ RecreateDelete(r) \/ DeleteCalls(r)
    PROVE  Spared(q)
<1>1. TypeOK /\ row[r] \in Row
  BY DEF IInv, TypeOK
<1>2. /\ UNCHANGED <<asked, stranded>>
      /\ cur' = NoRoom \/ pc' \notin AfterRender \cup {"consume"}
  BY DEF ProvisionCalls, ProvisionDir, ProvisionRow, UndoCalls, QuarantineMismatch,
     QuarantineTaken, DropStaleDeployment, ClearDeployment, FailCalls, FailDelete, FailMark,
     FailRetryAfter, StopDelete, StopMark, RecreateDelete, DeleteCalls, TeardownDeployment,
     TeardownSecret, CheckGone, TrashDir, DropRow, Writes, Goto, Done
<1>3. LoopLeaves(q)
  BY <1>2, LifecycleAssumption DEF LoopLeaves
<1>4. UNCHANGED dep \/ DeleteDeployment(r)
  BY DEF ProvisionCalls, ProvisionDir, ProvisionRow, UndoCalls, QuarantineMismatch,
     QuarantineTaken, DropStaleDeployment, ClearDeployment, FailCalls, FailDelete, FailMark,
     FailRetryAfter, StopDelete, StopMark, RecreateDelete, DeleteCalls, TeardownDeployment,
     TeardownSecret, CheckGone, TrashDir, DropRow, Writes, world
<1>5. DepKeeps(q)
  BY <1>1, <1>4, DeleteKeeps, StandingKeeps
<1>6. \/ UNCHANGED row \/ Update(r, row[r]) \/ Update(r, GoneRow) \/ Update(r, Cleared(row[r]))
      \/ \E state \in {"idle", "failed", "stopping", "deleting"} : Update(r, Moved(row[r], state))
      \/ Update(r, [row[r] EXCEPT !.reserved = FALSE]) /\ row[r].state = "idle"
      \/ Update(r, [row[r] EXCEPT !.retry = "waiting"])
  BY DEF ProvisionCalls, ProvisionDir, ProvisionRow, UndoCalls, QuarantineMismatch,
     QuarantineTaken, DropStaleDeployment, ClearDeployment, FailCalls, FailDelete, FailMark,
     FailRetryAfter, StopDelete, StopMark, RecreateDelete, DeleteCalls, TeardownDeployment,
     TeardownSecret, CheckGone, TrashDir, DropRow, Writes, At, IInv, Working
<1>7. /\ [row[r] EXCEPT !.reserved = FALSE].rev = row[r].rev
      /\ [row[r] EXCEPT !.reserved = FALSE].redeploy = row[r].redeploy
      /\ [row[r] EXCEPT !.reserved = FALSE].state = row[r].state
      /\ [row[r] EXCEPT !.retry = "waiting"].rev = row[r].rev
      /\ [row[r] EXCEPT !.retry = "waiting"].redeploy = row[r].redeploy
      /\ [row[r] EXCEPT !.retry = "waiting"].state = row[r].state
      /\ [row[r] EXCEPT !.retry = "waiting"].reserved = row[r].reserved
  BY <1>1 DEF Row
<1>8. \A state \in {"idle", "failed", "stopping", "deleting"} :
        /\ Moved(row[r], state).rev = row[r].rev /\ Moved(row[r], state).redeploy = row[r].redeploy
        /\ Moved(row[r], state).state \notin Live
  <2> SUFFICES ASSUME NEW state \in {"idle", "failed", "stopping", "deleting"}
               PROVE  /\ Moved(row[r], state).rev = row[r].rev
                      /\ Moved(row[r], state).redeploy = row[r].redeploy
                      /\ Moved(row[r], state).state \notin Live
    OBVIOUS
  <2>1. state \in States /\ state \notin Live
    BY DEF States, Live
  <2> QED
    BY <1>1, <2>1, MovedRow, StatementKeeps
<1>9. /\ Cleared(row[r]).rev = row[r].rev /\ Cleared(row[r]).redeploy = row[r].redeploy
      /\ Cleared(row[r]).state \notin Live
  BY <1>1, ClearedRow, StatementKeeps DEF Live
<1>10. RowKeeps(q)
  <2>1. ASSUME NEW new, Update(r, new), new.rev = row[r].rev, new.redeploy = row[r].redeploy,
               new.state \in Live => row[r].state \in Live /\ new.reserved = row[r].reserved
        PROVE  RowKeeps(q)
    BY <1>1, <2>1, UpdateKeeps
  <2>2. CASE UNCHANGED row
    BY <1>1, <2>2, StandingKeeps
  <2>3. CASE Update(r, GoneRow)
    BY <1>1, <2>3, UpdateKeeps, FirstAndLastRow
  <2> QED
    BY <1>6, <1>7, <1>8, <1>9, <2>1, <2>2, <2>3 DEF Live
<1> QED
  BY <1>2, <1>3, <1>5, <1>10 DEF Spared, AskKeeps

LEMMA ErrorsKeep == ASSUME IInv, Errors, NEW q \in Rooms PROVE Spared(q)
<1>1. TypeOK /\ UNCHANGED <<row, dep>>
  BY DEF IInv, Errors, AllocateFails, StepErrors, StartErrorsFatally, Crash, world
<1>2. cur' = NoRoom \/ pc' = "failDel"
  BY DEF Errors, AllocateFails, StepErrors, StartErrorsFatally, Crash, Goto, Done
<1>3. AskKeeps(q)
  <2>1. CASE Crash
    <3>1. asked[q] \in Asks
      BY <1>1 DEF TypeOK
    <3>2. asked'[q] = IF q \in stranded THEN [asked[q] EXCEPT !.lost = TRUE] ELSE asked[q]
      BY <2>1 DEF Crash
    <3> QED
      BY <3>1, <3>2 DEF AskKeeps, Asks
  <2>2. CASE UNCHANGED <<asked, stranded>>
    BY <2>2 DEF AskKeeps
  <2> QED
    BY <2>1, <2>2 DEF Errors, AllocateFails, StepErrors, StartErrorsFatally, Goto, Done
<1> QED
  BY <1>1, <1>2, <1>3, StandingKeeps, LifecycleAssumption DEF Spared, LoopLeaves

LEMMA OthersKeep ==
    ASSUME IInv, NEW q \in Rooms,
           \/ \E r \in Rooms : \/ \E desired \in Requests : RequestState(r, desired)
                              \/ EditDefinition(r) \/ QuietChanges(r)
           \/ Environment
    PROVE  Spared(q)
<1>1. TypeOK /\ row \in [Rooms -> Row] /\ dep \in [Rooms -> Deployment] /\ row[q].rev \in Nat
  BY RevsAreNumbers DEF IInv, TypeOK
<1>2. UNCHANGED <<loop, asked>>
  BY DEF RequestState, EditDefinition, QuietChanges, Environment, PodReady, PodFails, HandDelete,
     Collect, AddressGranted, AddressDenied, DirectoryLost, BackoffElapses, CacheCatchesUp,
     TimePasses
<1>3. /\ row'[q].state = row[q].state /\ row'[q].redeploy = row[q].redeploy
      /\ row'[q].reserved = row[q].reserved /\ row'[q].rev >= row[q].rev
  <2>1. CASE UNCHANGED row
    BY <1>1, <2>1
  <2>2. ASSUME NEW r \in Rooms,
               \/ \E desired \in Requests : RequestState(r, desired)
               \/ EditDefinition(r) \/ QuietChanges(r) \/ BackoffElapses(r)
        PROVE  /\ row'[q].state = row[q].state /\ row'[q].redeploy = row[q].redeploy
               /\ row'[q].reserved = row[q].reserved /\ row'[q].rev >= row[q].rev
    BY <1>1, <2>2 DEF RequestState, EditDefinition, QuietChanges, BackoffElapses, Row
  <2>3. CASE TimePasses
    BY <1>1, <2>3 DEF TimePasses, Row
  <2> QED
    BY <2>1, <2>2, <2>3 DEF Environment, PodReady, PodFails, HandDelete, Collect,
       AddressGranted, AddressDenied, DirectoryLost, CacheCatchesUp
<1>4. DepKeeps(q)
  <2>1. CASE UNCHANGED dep
    BY <1>1, <2>1, StandingKeeps
  <2>2. ASSUME NEW r \in Rooms, PodReady(r) \/ PodFails(r) PROVE DepKeeps(q)
    BY <1>1, <2>2 DEF PodReady, PodFails, DepKeeps, Up, Deployment
  <2>3. ASSUME NEW r \in Rooms, HandDelete(r) PROVE DepKeeps(q)
    BY <1>1, <2>3, DeleteKeeps DEF HandDelete
  <2>4. ASSUME NEW r \in Rooms, Collect(r) PROVE DepKeeps(q)
    BY <1>1, <2>4 DEF Collect, DepKeeps, Up, Absent
  <2> QED
    BY <2>1, <2>2, <2>3, <2>4 DEF Environment, RequestState, EditDefinition, QuietChanges,
       AddressGranted, AddressDenied, DirectoryLost, BackoffElapses, CacheCatchesUp, TimePasses,
       world
<1> QED
  BY <1>1, <1>2, <1>3, <1>4 DEF Spared, RowKeeps, AskKeeps, LoopLeaves, HasRow, loop

\* A start or a recreate of one room is nothing to another.
LEMMA CallKeepsOthers ==
    ASSUME IInv, NEW r \in Rooms, NEW q \in Rooms \ {r}, StartCalls(r) \/ RecreateClear(r)
    PROVE  Spared(q)
<1>1. TypeOK
  BY DEF IInv
<1>2. UNCHANGED dep \/ DeleteDeployment(r) \/ CreateDeployment(r)
  BY DEF StartCalls, Allocate, Render, ApplySecret, GetDeployment, Record, OwnSecret,
     EnsureService, ReadAddress, Converged, ConsumeRedeploy, RecreateClear, Writes, world
<1>3. asked'[q] = asked[q] /\ stranded' = stranded /\ cur = r
  <2>1. cur = r /\ (asked' = asked \/ Allocate(r))
    BY DEF StartCalls, Allocate, Render, ApplySecret, GetDeployment, CreateDeployment, Record,
       OwnSecret, EnsureService, ReadAddress, Converged, ConsumeRedeploy, RecreateClear, Writes,
       At
  <2>2. svc[r] \in {"none", "pending", "ours", "wrong", "taken", "refused"}
        /\ dep[r].here \in BOOLEAN /\ dep[r].deleting \in BOOLEAN
    BY <1>1 DEF TypeOK, Deployment
  <2>3. stranded' = stranded
    BY <2>2
       DEF StartCalls, Allocate, Render, ApplySecret, GetDeployment, CreateDeployment, Record,
       OwnSecret, EnsureService, ReadAddress, Converged, ConsumeRedeploy, RecreateClear, Writes,
       Goto, Done
  <2>4. Allocate(r) => asked'[q] = asked[q]
    BY <1>1 DEF Allocate, TypeOK
  <2> QED
    BY <2>1, <2>3, <2>4
<1>4. cur' = r \/ cur' = NoRoom
  <2>1. svc[r] \in {"none", "pending", "ours", "wrong", "taken", "refused"}
        /\ dep[r].here \in BOOLEAN /\ dep[r].deleting \in BOOLEAN
    BY <1>1 DEF TypeOK, Deployment
  <2> QED
    BY <1>3, <2>1
       DEF StartCalls, Allocate, Render, ApplySecret, GetDeployment, CreateDeployment, Record,
       OwnSecret, EnsureService, ReadAddress, Converged, ConsumeRedeploy, RecreateClear, Writes,
       Goto, Done
<1>5. row'[q] = row[q]
  BY <1>1
     DEF StartCalls, Allocate, Render, ApplySecret, GetDeployment, CreateDeployment, Record,
     OwnSecret, EnsureService, ReadAddress, Converged, ConsumeRedeploy, RecreateClear, Writes,
     Update, TypeOK
<1>6. dep'[q] = dep[q]
  BY <1>1, <1>2, DeleteMarks DEF CreateDeployment, TypeOK
<1> QED
  BY <1>1, <1>3, <1>4, <1>5, <1>6, StandingKeeps, LifecycleAssumption
     DEF Spared, LoopLeaves, AskKeeps

\* A call of a start of an idle room, which goes on or ends.
LEMMA StartGoesOn ==
    ASSUME TypeOK, NEW r \in Rooms, Answers(r), HasRow(r),
           asked'[r].rev = asked[r].rev, asked'[r].midStart = asked[r].midStart,
           row'[r].rev = row[r].rev, row'[r].state = "idle",
           \/ cur' = NoRoom
           \/ pc' \notin AfterRender \cup {"consume"}
           \/ /\ pc' \in AfterRender
              /\ asked[r].midStart \/ asked[r].rev <= rendered'
              /\ pc' = "create" => ~dep'[r].here
              /\ pc' \in WithDeployment /\ Up(r)' => dep'[r].hash = rendered'
    PROVE  Answers(r)'
<1>1. "idle" \notin Live /\ NoRoom # r
  BY LifecycleAssumption DEF Live
<1>2. "create" \notin WithDeployment /\ "consume" \notin WithDeployment
        /\ WithDeployment \subseteq AfterRender
  BY DEF WithDeployment
<1> QED
  BY <1>1, <1>2 DEF Answers

LEMMA StartAnswers ==
    ASSUME IInv, TypeOK', NEW r \in Rooms, Answers(r), StartCalls(r)
    PROVE  Answers(r)'
<1>1. TypeOK /\ row[r] \in Row /\ dep[r] \in Deployment
  BY DEF IInv, TypeOK
<1>2. CASE pc # "consume"
  <2>0. Allocate(r) => /\ asked'[r].rev = asked[r].rev
                       /\ asked'[r].midStart = asked[r].midStart
    <3>1. asked[r] \in Asks /\ asked \in [Rooms -> Asks]
      BY <1>1 DEF TypeOK
    <3>2. Allocate(r) => asked'[r] = [asked[r] EXCEPT !.lost = FALSE]
      BY <3>1 DEF Allocate
    <3> QED
      BY <3>1, <3>2 DEF Asks
  <2>1. /\ row[r].state = "idle" /\ HasRow(r) /\ cur = r
        /\ asked'[r].rev = asked[r].rev /\ asked'[r].midStart = asked[r].midStart
    BY <1>2, <2>0 DEF IInv, Working, StartCalls, Allocate, Render, ApplySecret, GetDeployment,
       CreateDeployment, Record, OwnSecret, EnsureService, ReadAddress, Converged,
       ConsumeRedeploy, Writes, At, HasRow
  <2>2. CASE Allocate(r)
    <3> DEFINE new == [row[r] EXCEPT !.reserved = TRUE]
    <3>1. new.state = "idle" /\ new.rev = row[r].rev
      BY <1>1, <2>1 DEF Row
    <3>2. row'[r] = new /\ pc' = "render"
      BY <1>1, <2>1, <2>2 DEF Allocate, Update, Goto, TypeOK
    <3> HIDE DEF new
    <3> QED
      BY <1>1, <2>1, <3>1, <3>2, StartGoesOn
  <2>3. CASE Render(r)
    <3>1. row' = row /\ pc' = "secret" /\ rendered' = row[r].rev
      BY <2>1, <2>3 DEF Render
    <3> QED
      BY <1>1, <2>1, <3>1, StartGoesOn DEF Answers, WithDeployment
  <2>4. CASE ApplySecret(r) \/ GetDeployment(r)
    <3>1. row' = row /\ dep' = dep /\ pc \in AfterRender
      BY <2>4 DEF ApplySecret, GetDeployment, At, world
    <3>2. \/ cur' = NoRoom
          \/ /\ rendered' = rendered
             /\ \/ pc' \in {"get", "dropStale"}
                \/ pc' = "create" /\ ~dep[r].here
                \/ pc' = "record" /\ dep[r].hash = rendered
      BY <2>4 DEF ApplySecret, GetDeployment, Goto, Done
    <3> QED
      BY <1>1, <2>1, <3>1, <3>2, StartGoesOn DEF Answers, WithDeployment
  <2>5. CASE CreateDeployment(r)
    <3>1. row' = row /\ pc = "create" /\ pc' = "record" /\ rendered' = rendered
      BY <2>5 DEF CreateDeployment, At, Goto
    <3>2. ~dep[r].here /\ (asked[r].midStart \/ asked[r].rev <= rendered)
      BY <2>1, <3>1 DEF Answers
    <3>3. dep'[r].hash = rendered
      BY <1>1, <2>5, <3>2 DEF CreateDeployment, TypeOK
    <3> QED
      BY <1>1, <2>1, <3>1, <3>2, <3>3, StartGoesOn DEF WithDeployment
  <2>6. CASE Record(r)
    <3> DEFINE new == [row[r] EXCEPT !.hash = rendered]
    <3>1. new.state = "idle" /\ new.rev = row[r].rev
      BY <1>1, <2>1 DEF Row
    <3>2. row'[r] = new
      BY <1>1, <2>1, <2>6 DEF Record, Writes, Update, TypeOK
    <3>3. pc = "record" /\ pc' = "own" /\ rendered' = rendered /\ dep' = dep
      BY <2>6 DEF Record, Writes, At, Goto, world
    <3> HIDE DEF new
    <3> QED
      BY <1>1, <2>1, <3>1, <3>2, <3>3, StartGoesOn DEF Answers, WithDeployment, Up
  <2>7. CASE OwnSecret(r) \/ EnsureService(r)
    <3>1. /\ row' = row /\ dep' = dep /\ rendered' = rendered
          /\ pc \in {"own", "service"} /\ pc' \in {"service", "address"}
      BY <2>7 DEF OwnSecret, EnsureService, At, Goto
    <3> QED
      BY <1>1, <2>1, <3>1, StartGoesOn DEF Answers, WithDeployment, Up
  <2>8. CASE ReadAddress(r)
    <3>1. /\ row' = row /\ pc = "address"
          /\ \/ cur' = NoRoom
             \/ pc' \in {"mismatch", "taken", "failDel"}
             \/ pc' = "converged" /\ dep' = dep /\ rendered' = rendered
      <4>1. svc[r] \in {"none", "pending", "ours", "wrong", "taken", "refused"}
        BY <1>1 DEF TypeOK
      <4> QED
        BY <2>8, <4>1 DEF ReadAddress, At, Goto, Done
    <3> QED
      BY <1>1, <2>1, <3>1, StartGoesOn DEF Answers, WithDeployment, Up
  <2>9. CASE Converged(r)
    <3>1. /\ Moved(row[r], "starting").state = "starting"
          /\ Moved(row[r], "starting").rev = row[r].rev
          /\ Moved(row[r], "starting").reserved = row[r].reserved
      BY <1>1, MovedRow, StatementKeeps DEF States
    <3>2. row'[r] = Moved(row[r], "starting")
      BY <1>1, <2>1, <2>9 DEF Converged, Writes, Update, TypeOK
    <3>3. pc = "converged" /\ pc' = "consume" /\ dep' = dep /\ cur' = r
      BY <2>9 DEF Converged, Writes, At, Goto, world
    <3>4. row[r].reserved
      BY <2>1, <3>3 DEF IInv, Working
    <3> QED
      BY <2>1, <3>1, <3>2, <3>3, <3>4 DEF Answers, WithDeployment, Up, Served, HasRow, Backed
  <2> QED
    BY <1>2, <2>2, <2>3, <2>4, <2>5, <2>6, <2>7, <2>8, <2>9
       DEF StartCalls, ConsumeRedeploy, At
<1>3. CASE pc = "consume"
  <2>1. ConsumeRedeploy(r)
    BY <1>3 DEF StartCalls, Allocate, Render, ApplySecret, GetDeployment, CreateDeployment,
       Record, OwnSecret, EnsureService, ReadAddress, Converged, Writes, At
  <2>2. row[r].state \in {"starting", "idle"} /\ HasRow(r) /\ cur = r
    BY <1>3, <2>1 DEF Answers, ConsumeRedeploy, At, HasRow
  <2>3. [row[r] EXCEPT !.redeploy = FALSE].rev = row[r].rev
        /\ [row[r] EXCEPT !.redeploy = FALSE].state = row[r].state
        /\ [row[r] EXCEPT !.redeploy = FALSE].reserved = row[r].reserved
    BY <1>1 DEF Row
  <2>4. row'[r] = [row[r] EXCEPT !.redeploy = FALSE]
    BY <1>1, <2>1, <2>2 DEF ConsumeRedeploy, Update, TypeOK
  <2>5. cur' = NoRoom /\ dep' = dep /\ asked' = asked /\ NoRoom # r
    BY <2>1, LifecycleAssumption DEF ConsumeRedeploy, Done, world
  <2>6. row[r].state \in Live => row[r].reserved
    BY <1>3, <2>2 DEF IInv, Working, Live
  <2> QED
    BY <1>3, <2>2, <2>3, <2>4, <2>5, <2>6 DEF Answers, Up, Served, HasRow, Backed
<1> QED
  BY <1>2, <1>3

LEMMA RecreateAnswers ==
    ASSUME IInv, NEW r \in Rooms, Answers(r), RecreateClear(r)
    PROVE  Answers(r)'
<1>1. TypeOK /\ row[r] \in Row /\ HasRow(r) /\ cur = r
  BY DEF IInv, TypeOK, Working, RecreateClear, At, HasRow, Live
<1>2. Cleared(row[r]).state = "idle" /\ Cleared(row[r]).rev = row[r].rev
  BY <1>1, ClearedRow, StatementKeeps
<1>3. row'[r] = Cleared(row[r])
  BY <1>1 DEF RecreateClear, Update, TypeOK
<1>4. pc' = "consume" /\ asked' = asked
  BY DEF RecreateClear, Goto
<1> QED
  BY <1>1, <1>2, <1>3, <1>4 DEF Answers, HasRow, Live, WithDeployment

LEMMA RequestAnswers ==
    ASSUME TypeOK, NEW r \in Rooms, NEW q \in Rooms, Answers(q), RequestRedeploy(r)
    PROVE  Answers(q)'
<1>1. UNCHANGED <<dep, pc, cur, rendered, stranded>>
  BY DEF RequestRedeploy, world, loop
<1>2. /\ row'[q].state = row[q].state /\ row'[q].rev = row[q].rev
      /\ row'[q].reserved = row[q].reserved
      /\ q # r => row'[q] = row[q] /\ asked'[q] = asked[q]
      /\ row'[r].redeploy
  BY DEF RequestRedeploy, TypeOK, Row
<1>3. asked'[r].rev = row[r].rev /\ asked'[r].midStart = MidStart(r) /\ row[r].rev \in Nat
  BY RevsAreNumbers DEF RequestRedeploy, TypeOK
<1>4. CASE q # r
  BY <1>1, <1>2, <1>4 DEF Answers, Up, Served, HasRow, Backed
<1>5. CASE q = r
  <2>1. cur = r /\ pc \in AfterRender => asked'[r].midStart
    BY <1>3 DEF MidStart
  <2>2. cur = r /\ pc = "consume" /\ row[r].state \in Live => asked'[r].midStart
    BY <1>3, <1>5 DEF MidStart, Answers, Live
  <2> QED
    BY <1>1, <1>2, <1>3, <1>5, <2>1, <2>2 DEF Answers, Up, Served, HasRow, Backed
<1> QED
  BY <1>4, <1>5

\* The restart a stranded room is asked for is made for what its row says now.
LEMMA StrandedAnswers ==
    ASSUME IInv, NEW q \in Rooms, Answers(q), RestartStranded
    PROVE  Answers(q)'
<1>1. /\ TypeOK /\ cur # q
      /\ row[q] \in Row /\ asked[q] \in Asks
  BY NobodyAtRest DEF IInv, TypeOK, RestartStranded, world
<1>2. cur' # q /\ dep' = dep
  BY <1>1 DEF RestartStranded, world
<1>3. CASE q \in stranded
  <2>1. row'[q] = [row[q] EXCEPT !.redeploy = TRUE]
    BY <1>3 DEF RestartStranded
  <2>2. asked'[q] = [asked[q] EXCEPT !.rev = row[q].rev, !.midStart = FALSE]
    BY <1>3 DEF RestartStranded
  <2>3. row'[q].redeploy /\ row'[q].rev = row[q].rev /\ row'[q].state = row[q].state
    BY <1>1, <2>1 DEF Row
  <2>4. asked'[q].rev = row[q].rev /\ row[q].rev \in Nat
    BY <1>1, <2>2, RevsAreNumbers DEF Asks
  <2> QED
    BY <1>2, <2>3, <2>4 DEF Answers, HasRow, Backed
<1>4. CASE q \notin stranded
  <2>1. row'[q] = row[q] /\ asked'[q] = asked[q]
    BY <1>4 DEF RestartStranded
  <2> QED
    BY <1>2, <1>4, <2>1, <1>1 DEF Answers, Up, Served, HasRow, Backed
<1> QED
  BY <1>3, <1>4

LEMMA NextAnswers ==
    ASSUME IInv, TypeOK', Next, \A r \in Rooms : Answers(r)
    PROVE  \A r \in Rooms : Answers(r)'
<1> SUFFICES ASSUME NEW q \in Rooms PROVE Answers(q)'
  OBVIOUS
<1>1. TypeOK /\ (Spared(q) => Answers(q)')
  BY KeptAnswers DEF IInv
<1>2. CASE Calls
  <2>1. PICK r \in Rooms :
          \/ ProvisionCalls(r) \/ StartCalls(r) \/ UndoCalls(r)
          \/ FailCalls(r) \/ StopCalls(r) \/ DeleteCalls(r)
    BY <1>2 DEF Calls
  <2>2. CASE StartCalls(r) \/ RecreateClear(r)
    BY <1>1, <2>2, CallKeepsOthers, StartAnswers, RecreateAnswers
  <2>3. CASE ~(StartCalls(r) \/ RecreateClear(r))
    BY <1>1, <2>1, <2>3, OtherCallsKeep DEF StopCalls
  <2> QED
    BY <2>2, <2>3
<1>3. CASE Pass /\ ~Calls
  BY <1>1, <1>3, TakeKeeps, LoopKeeps, StrandedAnswers DEF Pass, Lock
<1>4. CASE Errors
  BY <1>1, <1>4, ErrorsKeep
<1>5. CASE Web \/ Environment
  BY <1>1, <1>5, OthersKeep, RequestAnswers DEF Web
<1> QED
  BY <1>2, <1>3, <1>4, <1>5 DEF Next

\* What rooms are owed, through every fault and for any number of rooms,
\* revisions and requests.
OInv == IInv /\ \A r \in Rooms : Answers(r)

LEMMA OwedInvariant == Spec => []OInv
<1>1. Init => OInv
  <2> SUFFICES ASSUME Init, NEW r \in Rooms PROVE Answers(r)
    BY InitIInv DEF OInv
  <2>1. /\ cur # r /\ row[r].state = "provisioning" /\ row[r].rev = 1
        /\ asked[r].rev = 0
    BY LifecycleAssumption DEF Init, NewRow, None
  <2> QED
    BY <2>1 DEF Answers, Live
<1>2. OInv /\ [Next]_vars => OInv'
  <2>1. CASE IInv /\ (\A r \in Rooms : Answers(r)) /\ Next
    <3>1. IInv'
      BY <2>1, PassStep, ErrorStep, WebStep, EnvironmentStep DEF Next
    <3>2. TypeOK'
      BY <3>1 DEF IInv
    <3> QED
      BY <2>1, <3>1, <3>2, NextAnswers DEF OInv
  <2>2. CASE IInv /\ (\A r \in Rooms : Answers(r)) /\ UNCHANGED vars
    <3>1. \A r \in Rooms : Answers(r)'
      BY <2>2 DEF vars, world, loop, Answers, Up, Served, HasRow, Backed
    <3> QED
      BY <2>2, <3>1, StutterStep DEF OInv
  <2> QED
    BY <2>1, <2>2 DEF OInv
<1> QED
  BY <1>1, <1>2, PTL DEF Spec

\* A request for a redeploy that did not land inside a start is answered by the
\* time the room is settled: the steps that clear a request leave a Deployment
\* of the definition it was made for behind them (steps.rs).
THEOREM QuietRequestsAreHonoured == Spec => []QuietRequestHonoured
<1>1. OInv => QuietRequestHonoured
  <2> SUFFICES ASSUME OInv, NEW r \in Rooms, Settled(r), ~asked[r].midStart
               PROVE  dep[r].hash >= asked[r].rev
    BY DEF QuietRequestHonoured
  <2>1. asked[r].rev <= dep[r].hash
    BY DEF OInv, Answers, Settled, Up, Served
  <2>2. asked[r].rev \in Nat /\ dep[r].hash \in Nat
    BY RevsAreNumbers DEF OInv, IInv
  <2> QED
    BY <2>1, <2>2
<1> QED
  BY <1>1, OwedInvariant, PTL

\* A live room has a recorded Deployment, and the port pair of its own that its
\* Deployment was made for unless a restart is pending that allocates one: what
\* takes a live room's pair away (ensure_range under a narrowed range) queues
\* that restart, and only a start that has allocated takes it off, through any
\* errors, crashes and range changes, except where the process dies between the
\* two statements of ensure_range (port.rs).
THEOREM LiveRoomsAreBacked == Spec => []LiveIsBacked
<1>1. OInv => LiveIsBacked
  BY DEF OInv, IInv, RowOK, Answers, Backed, LiveIsBacked
<1> QED
  BY <1>1, OwedInvariant, PTL
=============================================================================
