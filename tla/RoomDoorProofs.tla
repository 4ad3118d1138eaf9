---------------------------- MODULE RoomDoorProofs ---------------------------
(***************************************************************************)
(* A room's door, for any number of requests at a time, passwords and      *)
(* faults: neither the Secret nor a container ever has half of a mode, and *)
(* a settled room demands what its row says.                               *)
(*                                                                         *)
(* The second follows from a debt.  Whoever changes the row owes a request *)
(* for a restart until the request is in the row; until then, or until the *)
(* change is known to be missed, a start has read what the row says or the *)
(* Deployment that is up was made of it.                                   *)
(***************************************************************************)
EXTENDS RoomDoor, TLAPS

\* A change has been made whose restart is still to be asked for.
Owes(h) == task[h].changed \/ task[h].at \in {"stale", "redeploy"}

Debt == row.redeploy \/ (\E h \in Handlers : Owes(h)) \/ missed \ {"torn"} # {}

NothingOwed == \A h \in Handlers : task[h].at \in {"rest", "mode", "rotate"} => ~task[h].changed

\* What a render has in hand came from a row, and is whole where it is built.
ReadIsWhole ==
    /\ rec.read.mode = "room" <=> rec.read.key # NoKey
    /\ rec.at \in {"apply", "get", "own", "sweepApply"} => ~Refuses(rec.read)

\* The calls of a start that has found or made its Deployment.
HasDeployment == {"own", "address", "starting"}
Converged == rec.at = "consume" /\ row.state = "starting"

Places ==
    /\ rec.at \in (StartCalls \ {"consume"}) \cup {"fail"} => row.state = "idle"
    /\ rec.at = "consume" => row.state \in {"starting", "idle"}

OfTheRead ==
    rec.at \in HasDeployment \/ Converged =>
        dep.here /\ ~dep.deleting /\ dep.hash = Hashed(Built(rec.read))

\* As far as it has read, a start has read what the row says.
ReadIsCurrent ==
    /\ rec.read.mode = row.mode /\ rec.read.key = row.key
    /\ rec.at # "secrets" => rec.read.admin = row.admin

StartsCurrent ==
    rec.at \in StartCalls \ {"consume"} \/ Converged => ReadIsCurrent \/ Debt

RunsCurrent ==
    row.state \in Live /\ ~UnderWay /\ dep.here /\ ~dep.deleting =>
        dep.hash = Hashed(Wanted) \/ Debt

PodIsOfDeployment ==
    pod # NoEnv => dep.here /\ ("torn" \in missed \/ Hashed(pod) = dep.hash)

IInv ==
    /\ TypeOK /\ DoorIsWhole
    /\ NothingOwed /\ ReadIsWhole /\ Places
    /\ OfTheRead /\ StartsCurrent /\ RunsCurrent /\ PodIsOfDeployment

-----------------------------------------------------------------------------
(***************************************************************************)
(* Types.                                                                  *)
(***************************************************************************)
LEMMA NextKey ==
    ASSUME TypeOK, minted < MaxKeys
    PROVE  minted + 1 \in Keys /\ minted + 1 # NoKey
  BY DoorAssumption DEF TypeOK, Keys, NoKey

LEMMA Spending ==
    ASSUME TypeOK, NEW what \in {"requests", "faults"}, Spend(what)
    PROVE  budget' \in [requests : 0..MaxRequests, faults : 0..MaxFaults]
<1>1. /\ budget.requests \in 0..MaxRequests /\ budget.faults \in 0..MaxFaults
      /\ budget' = [budget EXCEPT ![what] = budget[what] - 1] /\ budget[what] > 0
  BY DEF TypeOK, Spend
<1>2. budget[what] - 1 \in IF what = "requests" THEN 0..MaxRequests ELSE 0..MaxFaults
  BY <1>1, DoorAssumption
<1> QED
  BY <1>1, <1>2 DEF TypeOK

LEMMA BuiltIsEnv ==
    ASSUME NEW read \in Reading
    PROVE  Built(read) \in Env /\ Hashed(Built(read)) \in Env
<1>1. NoKey \in Keys
  BY DoorAssumption DEF NoKey, Keys
<1>2. read.mode \in Modes /\ read.admin \in Keys /\ read.key \in Keys /\ read.slotKey \in Keys
  BY DEF Reading
<1>3. Built(read) \in Env
  BY <1>2 DEF Built, Env
<1>4. ASSUME NEW env \in Env PROVE [env EXCEPT !.key = NoKey] \in Env
  BY <1>1 DEF Env
<1> QED
  BY <1>3, <1>4 DEF Hashed

LEMMA DeletedIsTyped ==
    ASSUME TypeOK, DeleteDeployment
    PROVE  /\ dep' \in [here : BOOLEAN, deleting : BOOLEAN, hash : Env]
           /\ dep'.here = dep.here /\ dep'.hash = dep.hash
           /\ dep.here => dep'.deleting
           /\ dep.deleting => dep'.deleting
  BY DEF TypeOK, DeleteDeployment

LEMMA InitType == Init => TypeOK
<1> SUFFICES ASSUME Init PROVE TypeOK
  OBVIOUS
<1>1. NothingRead \in Reading
  BY DoorAssumption DEF NothingRead, Reading, Modes, Keys, NoKey
<1>2. row \in Row /\ (row.mode = "room" <=> row.key # NoKey)
  BY DoorAssumption DEF Init, Row, Modes, Keys, NoKey
<1>3. task \in [Handlers -> Task]
  BY DEF Init, NoTask, Task, Modes
<1>4. dep \in [here : BOOLEAN, deleting : BOOLEAN, hash : Env]
  BY <1>1, BuiltIsEnv DEF Init, NoDeployment
<1>5. minted \in Keys /\ budget \in [requests : 0..MaxRequests, faults : 0..MaxFaults]
  BY DoorAssumption DEF Init, Keys, NoKey
<1> QED
  BY <1>1, <1>2, <1>3, <1>4, <1>5 DEF Init, TypeOK

\* Writing one column of the row.
LEMMA RowIsTyped ==
    ASSUME TypeOK,
           \/ \E state \in Live \cup {"idle", "stopping", "failed"} :
                  row' = [row EXCEPT !.state = state]
           \/ \E desired \in {"running", "stopped"} : row' = [row EXCEPT !.desired = desired]
           \/ \E on \in BOOLEAN : row' = [row EXCEPT !.redeploy = on]
           \/ \E on \in BOOLEAN : row' = [row EXCEPT !.stale = on]
           \/ \E admin \in Keys : row' = [row EXCEPT !.admin = admin]
           \/ row.mode = "room" /\ \E key \in Keys \ {NoKey} : row' = [row EXCEPT !.key = key]
           \/ row' = row
    PROVE  row' \in Row /\ (row'.mode = "room" <=> row'.key # NoKey)
  BY DEF TypeOK, Row

LEMMA TaskIsTyped ==
    ASSUME TypeOK, NEW h \in Handlers,
           Reply(h) \/ (\E next \in {"admin", "stale", "redeploy"} : Turn(h, next))
    PROVE  task' \in [Handlers -> Task]
<1>1. NoTask \in Task
  BY DEF NoTask, Task, Modes
<1>2. ASSUME NEW next \in {"admin", "stale", "redeploy"}
      PROVE  [task[h] EXCEPT !.at = next] \in Task
  BY DEF TypeOK, Task
<1> QED
  BY <1>1, <1>2 DEF TypeOK, Reply, Turn

\* The web's steps.
LEMMA WebType == TypeOK /\ Web => TypeOK'
<1> SUFFICES ASSUME TypeOK, Web PROVE TypeOK'
  OBVIOUS
<1>0. NoKey \in Keys
  BY DoorAssumption DEF Keys, NoKey
<1>1. ASSUME NEW desired \in {"running", "stopped"}, RequestState(desired) PROVE TypeOK'
  <2>1. row' \in Row /\ (row'.mode = "room" <=> row'.key # NoKey)
    BY <1>1, RowIsTyped DEF RequestState
  <2> QED
    BY <1>1, <2>1, Spending DEF RequestState, Webbing, TypeOK
<1>2. ASSUME NEW h \in Handlers, NEW at \in {"mode", "rotate"}, NEW mode \in Modes,
             NEW wants \in BOOLEAN, Ask(h, at, mode, wants)
      PROVE  TypeOK'
  <2>1. row.mode \in Modes
    BY DEF TypeOK, Row
  <2>2. task' \in [Handlers -> Task]
    BY <1>2, <2>1 DEF Ask, TypeOK, Task
  <2> QED
    BY <1>2, <2>2, Spending DEF Ask, Webbing, TypeOK
<1>3. ASSUME NEW h \in Handlers, SetSlotAuth(h) PROVE TypeOK'
  <2>1. task[h].mode \in Modes
    BY DEF TypeOK, Task
  <2>2. CASE task[h].mode # task[h].seenMode
    <3>1. minted + 1 \in Keys /\ minted + 1 # NoKey
      BY <1>3, <2>2, NextKey DEF SetSlotAuth
    <3>2. ASSUME NEW mode \in Modes, NEW key \in Keys, NEW slotKey \in Keys
          PROVE  [row EXCEPT !.mode = mode, !.key = key, !.slotKey = slotKey] \in Row
      BY DEF TypeOK, Row
    <3>4. PICK key \in Keys, slotKey \in Keys :
            /\ row' = [row EXCEPT !.mode = task[h].mode, !.key = key, !.slotKey = slotKey]
            /\ task[h].mode = "room" <=> key # NoKey
      BY <1>0, <1>3, <2>2, <3>1 DEF SetSlotAuth
    <3>5. row' \in Row
      BY <2>1, <3>2, <3>4
    <3>6. row'.mode = task[h].mode /\ row'.key = key
      BY <3>4 DEF TypeOK, Row
    <3>3. task' \in [Handlers -> Task]
      BY <1>3, <2>2 DEF SetSlotAuth, TypeOK, Task
    <3> QED
      BY <1>3, <2>2, <3>1, <3>3, <3>4, <3>5, <3>6 DEF SetSlotAuth, Webbing, TypeOK
  <2>3. CASE task[h].mode = task[h].seenMode
    BY <1>3, <2>3, TaskIsTyped DEF SetSlotAuth, Webbing, TypeOK
  <2> QED
    BY <2>2, <2>3
<1>4. ASSUME NEW h \in Handlers, SetServerPassword(h) PROVE TypeOK'
  <2>1. task' \in [Handlers -> Task]
    BY <1>4, TaskIsTyped DEF SetServerPassword
  <2>2. CASE (row.admin # NoKey) # task[h].wants
    <3>1. minted + 1 \in Keys
      BY <1>4, <2>2, NextKey DEF SetServerPassword
    <3>2. row' \in Row /\ (row'.mode = "room" <=> row'.key # NoKey)
      BY <1>0, <1>4, <2>2, <3>1, RowIsTyped DEF SetServerPassword
    <3> QED
      BY <1>4, <2>1, <2>2, <3>1, <3>2 DEF SetServerPassword, Webbing, TypeOK
  <2>3. CASE ~((row.admin # NoKey) # task[h].wants)
    BY <1>4, <2>1, <2>3 DEF SetServerPassword, Webbing, TypeOK
  <2> QED
    BY <2>2, <2>3
<1>5. ASSUME NEW h \in Handlers, MarkSecretStale(h) \/ RequestRedeploy(h) PROVE TypeOK'
  <2>1. row' \in Row /\ (row'.mode = "room" <=> row'.key # NoKey)
    BY <1>5, RowIsTyped DEF MarkSecretStale, RequestRedeploy
  <2> QED
    BY <1>5, <2>1, TaskIsTyped DEF MarkSecretStale, RequestRedeploy, Webbing, TypeOK
<1>6. ASSUME NEW h \in Handlers, RotatePassword(h) PROVE TypeOK'
  <2>1. task' \in [Handlers -> Task]
    BY <1>6, TaskIsTyped DEF RotatePassword
  <2>2. CASE row.mode = "room"
    <3>1. minted + 1 \in Keys \ {NoKey}
      BY <1>6, <2>2, NextKey DEF RotatePassword
    <3>2. row' \in Row /\ (row'.mode = "room" <=> row'.key # NoKey)
      BY <1>6, <2>2, <3>1, RowIsTyped DEF RotatePassword
    <3> QED
      BY <1>6, <2>1, <2>2, <3>1, <3>2 DEF RotatePassword, Webbing, TypeOK
  <2>3. CASE row.mode # "room"
    BY <1>6, <2>1, <2>3 DEF RotatePassword, Webbing, TypeOK
  <2> QED
    BY <2>2, <2>3
<1>7. ASSUME NEW h \in Handlers, HandlerDies(h) PROVE TypeOK'
  <2>1. task' \in [Handlers -> Task] /\ budget' \in [requests : 0..MaxRequests, faults : 0..MaxFaults]
    BY <1>7, TaskIsTyped, Spending DEF HandlerDies
  <2> QED
    BY <1>7, <2>1 DEF HandlerDies, Webbing, TypeOK
<1> QED
  BY <1>1, <1>2, <1>3, <1>4, <1>5, <1>6, <1>7 DEF Web, Modes

\* What a step or a refresh has in hand.
LEMMA RecIsTyped ==
    ASSUME TypeOK, NEW next \in {"rest"} \cup StartCalls \cup OtherCalls,
           NEW read \in Reading, Resting(next) \/ On(next) \/ Reads(next, read)
    PROVE  rec' \in [at : {"rest"} \cup StartCalls \cup OtherCalls, read : Reading]
<1>1. NothingRead \in Reading
  BY DoorAssumption DEF NothingRead, Reading, Modes, Keys, NoKey
<1> QED
  BY <1>1 DEF TypeOK, Resting, On, Reads

\* The three reads.
LEMMA ReadingIsTyped ==
    ASSUME TypeOK
    PROVE  /\ RoomRead \in Reading /\ rec.read \in Reading /\ NothingRead \in Reading
           /\ [rec.read EXCEPT !.admin = row.admin] \in Reading
           /\ [rec.read EXCEPT !.slotKey = row.slotKey] \in Reading
<1>1. NothingRead \in Reading
  BY DoorAssumption DEF NothingRead, Reading, Modes, Keys, NoKey
<1>2. rec.read \in Reading
  BY DEF TypeOK
<1>3. row.mode \in Modes /\ row.key \in Keys /\ row.admin \in Keys /\ row.slotKey \in Keys
  BY DEF TypeOK, Row
<1>4. RoomRead \in Reading
  BY <1>1, <1>3 DEF RoomRead, Reading
<1> QED
  BY <1>1, <1>2, <1>3, <1>4 DEF Reading

LEMMA OrchestratorType == TypeOK /\ Orchestrator => TypeOK'
<1> SUFFICES ASSUME TypeOK, Orchestrator PROVE TypeOK'
  OBVIOUS
<1> DEFINE Ats == {"rest"} \cup StartCalls \cup OtherCalls
           RecOK == rec' \in [at : Ats, read : Reading]
           RowOK == row' \in Row /\ (row'.mode = "room" <=> row'.key # NoKey)
           DepOK == dep' \in [here : BOOLEAN, deleting : BOOLEAN, hash : Env]
<1>1. CASE StartReadsRoom
  <2>1. RecOK
    BY <1>1, RecIsTyped, ReadingIsTyped DEF StartReadsRoom, StartCalls
  <2> QED
    BY <1>1, <2>1 DEF StartReadsRoom, Reconciling, TypeOK
<1>2. CASE StartReadsSecrets
  <2>1. RecOK
    BY <1>2, RecIsTyped, ReadingIsTyped DEF StartReadsSecrets, StartCalls
  <2> QED
    BY <1>2, <2>1 DEF StartReadsSecrets, Reconciling, TypeOK
<1>3. CASE StartReadsSlots
  <2>1. RecOK
    BY <1>3, RecIsTyped, ReadingIsTyped DEF StartReadsSlots, StartCalls, OtherCalls
  <2> QED
    BY <1>3, <2>1 DEF StartReadsSlots, Reconciling, TypeOK
<1>4. CASE ApplySecret \/ OwnSecret
  <2>1. RecOK
    BY <1>4, RecIsTyped, ReadingIsTyped DEF ApplySecret, OwnSecret, StartCalls
  <2>2. secret' \in Env
    BY <1>4, BuiltIsEnv, ReadingIsTyped DEF ApplySecret, OwnSecret
  <2> QED
    BY <1>4, <2>1, <2>2 DEF ApplySecret, OwnSecret, Reconciling, TypeOK
<1>5. CASE GetDeployment
  <2>1. RecOK
    BY <1>5, RecIsTyped, ReadingIsTyped DEF GetDeployment, StartCalls
  <2>2. DepOK
    <3>1. Hashed(Built(rec.read)) \in Env
      BY BuiltIsEnv, ReadingIsTyped
    <3>2. CASE UNCHANGED dep \/ DeleteDeployment
      BY <3>2, DeletedIsTyped DEF TypeOK
    <3>3. CASE dep' = [here |-> TRUE, deleting |-> FALSE, hash |-> Hashed(Built(rec.read))]
      BY <3>1, <3>3
    <3> QED
      BY <1>5, <3>2, <3>3 DEF GetDeployment
  <2> QED
    BY <1>5, <2>1, <2>2 DEF GetDeployment, Reconciling, TypeOK
<1>6. CASE ReadAddress
  <2>1. RecOK
    BY <1>6, RecIsTyped, ReadingIsTyped DEF ReadAddress, StartCalls
  <2> QED
    BY <1>6, <2>1 DEF ReadAddress, Reconciling, TypeOK
<1>7. CASE MarkStarting
  <2>1. RecOK /\ RowOK
    BY <1>7, RecIsTyped, ReadingIsTyped, RowIsTyped DEF MarkStarting, Moves, StartCalls, Live
  <2> QED
    BY <1>7, <2>1 DEF MarkStarting, Reconciling, TypeOK
<1>8. CASE ConsumeRedeploy
  <2>1. RecOK /\ RowOK
    BY <1>8, RecIsTyped, ReadingIsTyped, RowIsTyped DEF ConsumeRedeploy
  <2> QED
    BY <1>8, <2>1 DEF ConsumeRedeploy, Reconciling, TypeOK
<1>9. CASE Fail
  <2>1. RecOK /\ RowOK /\ DepOK
    BY <1>9, RecIsTyped, ReadingIsTyped, RowIsTyped, DeletedIsTyped DEF Fail, Moves
  <2> QED
    BY <1>9, <2>1 DEF Fail, Reconciling, TypeOK
<1>10. CASE Retry \/ MarkRunning \/ MarkIdle
  <2>1. RowOK
    BY <1>10, RowIsTyped DEF Retry, MarkRunning, MarkIdle, Moves, Live
  <2> QED
    BY <1>10, <2>1 DEF Retry, MarkRunning, MarkIdle, Reconciling, TypeOK
<1>11. CASE Recreate \/ Stop
  <2>1. RecOK /\ DepOK
    BY <1>11, RecIsTyped, ReadingIsTyped, DeletedIsTyped DEF Recreate, Stop, BeginStop, OtherCalls
  <2> QED
    BY <1>11, <2>1 DEF Recreate, Stop, BeginStop, Reconciling, TypeOK
<1>12. CASE ClearDeployment \/ MarkStopping
  <2>1. RecOK /\ RowOK
    BY <1>12, RecIsTyped, ReadingIsTyped, RowIsTyped
       DEF ClearDeployment, MarkStopping, Moves, StartCalls
  <2> QED
    BY <1>12, <2>1 DEF ClearDeployment, MarkStopping, Reconciling, TypeOK
<1>13. CASE SweepReadsRoom \/ SweepReadsSecrets \/ SweepReadsSlots
  <2>1. RecOK
    BY <1>13, RecIsTyped, ReadingIsTyped
       DEF SweepReadsRoom, SweepReadsSecrets, SweepReadsSlots, OtherCalls
  <2> QED
    BY <1>13, <2>1 DEF SweepReadsRoom, SweepReadsSecrets, SweepReadsSlots, Reconciling, TypeOK
<1>14. CASE SweepApplies
  <2>1. RecOK /\ secret' \in Env
    BY <1>14, RecIsTyped, ReadingIsTyped, BuiltIsEnv DEF SweepApplies, OtherCalls
  <2> QED
    BY <1>14, <2>1 DEF SweepApplies, Reconciling, TypeOK
<1>15. CASE MarkSecretSynced
  <2>1. RecOK /\ RowOK
    BY <1>15, RecIsTyped, ReadingIsTyped, RowIsTyped DEF MarkSecretSynced
  <2> QED
    BY <1>15, <2>1 DEF MarkSecretSynced, Reconciling, TypeOK
<1>16. CASE StepEnds
  <2>1. RecOK /\ budget' \in [requests : 0..MaxRequests, faults : 0..MaxFaults]
    BY <1>16, RecIsTyped, ReadingIsTyped, Spending DEF StepEnds
  <2> QED
    BY <1>16, <2>1 DEF StepEnds, TypeOK
<1> QED
  BY <1>1, <1>2, <1>3, <1>4, <1>5, <1>6, <1>7, <1>8, <1>9, <1>10, <1>11, <1>12, <1>13, <1>14,
     <1>15, <1>16 DEF Orchestrator, StartStep, Sweep

LEMMA ClusterType == TypeOK /\ Cluster => TypeOK'
<1> SUFFICES ASSUME TypeOK, Cluster PROVE TypeOK'
  OBVIOUS
<1>1. CASE ContainerStarts
  BY <1>1 DEF ContainerStarts, Outside, TypeOK
<1>2. CASE ContainerDies
  <2>1. budget' \in [requests : 0..MaxRequests, faults : 0..MaxFaults]
    BY <1>2, Spending DEF ContainerDies
  <2> QED
    BY <1>2, <2>1 DEF ContainerDies, Outside, TypeOK
<1>3. CASE Collect
  <2>1. dep' \in [here : BOOLEAN, deleting : BOOLEAN, hash : Env]
    BY <1>3, BuiltIsEnv, ReadingIsTyped DEF Collect, NoDeployment
  <2> QED
    BY <1>3, <2>1 DEF Collect, Outside, TypeOK
<1>4. CASE HourPasses
  <2>1. row' \in Row /\ (row'.mode = "room" <=> row'.key # NoKey)
    BY <1>4, RowIsTyped DEF HourPasses
  <2> QED
    BY <1>4, <2>1 DEF HourPasses, Outside, TypeOK
<1> QED
  BY <1>1, <1>2, <1>3, <1>4 DEF Cluster

LEMMA NextType == TypeOK /\ [Next]_vars => TypeOK'
<1>1. TypeOK /\ UNCHANGED vars => TypeOK'
  BY DEF vars, TypeOK
<1> QED
  BY <1>1, WebType, OrchestratorType, ClusterType DEF Next

-----------------------------------------------------------------------------
(***************************************************************************)
(* The web's steps: who changes the door owes a restart.                   *)
(***************************************************************************)
SameDoor ==
    /\ row'.mode = row.mode /\ row'.key = row.key
    /\ row'.admin = row.admin /\ row'.slotKey = row.slotKey

LEMMA WritesAreOwed ==
    ASSUME TypeOK, NothingOwed, Web
    PROVE  /\ row'.state = row.state /\ missed \subseteq missed'
           /\ missed' \cap {"torn"} = missed \cap {"torn"}
           /\ Debt => Debt'
           /\ SameDoor \/ Debt' \/ ~(UnderWay \/ row.state \in Live)
<1> DEFINE Goal ==
           /\ row'.state = row.state /\ missed \subseteq missed'
           /\ missed' \cap {"torn"} = missed \cap {"torn"}
           /\ Debt => Debt'
           /\ SameDoor \/ Debt' \/ ~(UnderWay \/ row.state \in Live)
<1>1. ASSUME NEW desired \in {"running", "stopped"}, RequestState(desired) PROVE Goal
  BY <1>1 DEF RequestState, TypeOK, Row, SameDoor, Debt, Owes
<1>2. ASSUME NEW h \in Handlers, NEW at \in {"mode", "rotate"}, NEW mode \in Modes,
             NEW wants \in BOOLEAN, Ask(h, at, mode, wants)
      PROVE  Goal
  <2>1. ASSUME NEW g \in Handlers, Owes(g) PROVE Owes(g)'
    BY <1>2, <2>1 DEF Ask, Owes, NothingOwed, TypeOK, Task
  <2> QED
    BY <1>2, <2>1 DEF Ask, SameDoor, Debt
<1>3. ASSUME NEW h \in Handlers, SetSlotAuth(h) PROVE Goal
  <2>1. ASSUME NEW g \in Handlers, Owes(g) PROVE Owes(g)'
    BY <1>3, <2>1 DEF SetSlotAuth, Turn, Owes, TypeOK, Task
  <2>2. SameDoor \/ Owes(h)'
    BY <1>3 DEF SetSlotAuth, Turn, SameDoor, Owes, TypeOK, Task
  <2>3. row'.state = row.state /\ row'.redeploy = row.redeploy
    BY <1>3 DEF SetSlotAuth, TypeOK, Row
  <2> QED
    BY <1>3, <2>1, <2>2, <2>3 DEF SetSlotAuth, Debt
<1>4. ASSUME NEW h \in Handlers, SetServerPassword(h) PROVE Goal
  <2>1. ASSUME NEW g \in Handlers, Owes(g) PROVE Owes(g)'
    BY <1>4, <2>1 DEF SetServerPassword, Turn, Reply, NoTask, Owes, TypeOK, Task
  <2>2. SameDoor \/ Owes(h)'
    BY <1>4 DEF SetServerPassword, Turn, SameDoor, Owes, TypeOK, Task
  <2>3. row'.state = row.state /\ row'.redeploy = row.redeploy
    BY <1>4 DEF SetServerPassword, TypeOK, Row
  <2> QED
    BY <1>4, <2>1, <2>2, <2>3 DEF SetServerPassword, Debt
<1>5. ASSUME NEW h \in Handlers, MarkSecretStale(h) PROVE Goal
  <2>1. ASSUME NEW g \in Handlers, Owes(g) PROVE Owes(g)'
    BY <1>5, <2>1 DEF MarkSecretStale, Turn, Owes, TypeOK, Task
  <2>2. row'.state = row.state /\ row'.redeploy = row.redeploy /\ SameDoor
    BY <1>5 DEF MarkSecretStale, TypeOK, Row, SameDoor
  <2> QED
    BY <1>5, <2>1, <2>2 DEF MarkSecretStale, Debt
<1>6. ASSUME NEW h \in Handlers, RequestRedeploy(h) PROVE Goal
  <2>1. row'.state = row.state /\ row'.redeploy /\ SameDoor
    BY <1>6 DEF RequestRedeploy, TypeOK, Row, SameDoor
  <2> QED
    BY <1>6, <2>1 DEF RequestRedeploy, Debt
<1>7. ASSUME NEW h \in Handlers, RotatePassword(h) PROVE Goal
  <2>1. ASSUME NEW g \in Handlers, Owes(g) PROVE Owes(g)'
    BY <1>7, <2>1 DEF RotatePassword, Turn, Reply, NoTask, Owes, NothingOwed, TypeOK, Task
  <2>2. SameDoor \/ (task[h].seenLive /\ Owes(h)')
            \/ (~task[h].seenLive /\ row.mode = "room")
    BY <1>7 DEF RotatePassword, Turn, SameDoor, Owes, TypeOK, Task
  <2>3. row'.state = row.state /\ row'.redeploy = row.redeploy
    BY <1>7 DEF RotatePassword, TypeOK, Row
  <2>4. missed \subseteq missed' /\ missed' \cap {"torn"} = missed \cap {"torn"}
    BY <1>7 DEF RotatePassword
  <2>5. ~task[h].seenLive /\ row.mode = "room" /\ (UnderWay \/ row.state \in Live) => "stale" \in missed'
    BY <1>7 DEF RotatePassword
  <2> QED
    BY <2>1, <2>2, <2>3, <2>4, <2>5 DEF Debt
<1>8. ASSUME NEW h \in Handlers, HandlerDies(h) PROVE Goal
  <2>1. ASSUME NEW g \in Handlers, Owes(g) PROVE Owes(g)' \/ "died" \in missed'
    BY <1>8, <2>1 DEF HandlerDies, Reply, Owes, TypeOK, Task
  <2>2. missed \subseteq missed' /\ missed' \cap {"torn"} = missed \cap {"torn"}
    BY <1>8 DEF HandlerDies
  <2> QED
    BY <1>8, <2>1, <2>2 DEF HandlerDies, SameDoor, Debt
<1> QED
  BY <1>1, <1>2, <1>3, <1>4, <1>5, <1>6, <1>7, <1>8 DEF Web, Modes

LEMMA WebKeepsDoor == IInv /\ Web => IInv'
<1> SUFFICES ASSUME IInv, Web PROVE IInv'
  OBVIOUS
<1>1. TypeOK /\ NothingOwed /\ TypeOK'
  BY WebType DEF IInv
<1>2. UNCHANGED <<secret, dep, pod, rec>>
  BY DEF Web, Webbing, RequestState, Ask, SetSlotAuth, SetServerPassword, MarkSecretStale,
     RequestRedeploy, RotatePassword, HandlerDies
<1>3. /\ row'.state = row.state /\ missed' \cap {"torn"} = missed \cap {"torn"}
      /\ Debt => Debt'
      /\ SameDoor \/ Debt' \/ ~(UnderWay \/ row.state \in Live)
  BY <1>1, WritesAreOwed
<1>4. NothingOwed'
  <2>1. CASE \E desired \in {"running", "stopped"} : RequestState(desired)
    BY <1>1, <2>1 DEF RequestState, NothingOwed
  <2>2. ASSUME NEW h \in Handlers, NEW at \in {"mode", "rotate"}, NEW mode \in Modes,
               NEW wants \in BOOLEAN, Ask(h, at, mode, wants)
        PROVE  NothingOwed'
    BY <1>1, <2>2 DEF Ask, NothingOwed, TypeOK
  <2>3. ASSUME NEW h \in Handlers,
               \/ SetSlotAuth(h) \/ SetServerPassword(h) \/ MarkSecretStale(h)
               \/ RequestRedeploy(h) \/ RotatePassword(h) \/ HandlerDies(h)
        PROVE  NothingOwed'
    <3>1. /\ \A g \in Handlers \ {h} : task'[g] = task[g]
          /\ task'[h] = NoTask \/ task'[h].at \in {"admin", "stale", "redeploy"}
      BY <1>1, <2>3 DEF SetSlotAuth, SetServerPassword, MarkSecretStale, RequestRedeploy,
         RotatePassword, HandlerDies, Reply, Turn, TypeOK, Task
    <3> QED
      BY <1>1, <3>1 DEF NothingOwed, NoTask
  <2> QED
    BY <2>1, <2>2, <2>3 DEF Web, Modes
<1>5. DoorIsWhole' /\ ReadIsWhole'
  BY <1>2 DEF IInv, DoorIsWhole, ReadIsWhole, Refuses
<1>6. Places' /\ OfTheRead'
  BY <1>2, <1>3 DEF IInv, Places, OfTheRead, Converged
<1>7. StartsCurrent'
  BY <1>2, <1>3 DEF IInv, StartsCurrent, Converged, ReadIsCurrent, SameDoor, UnderWay, StartCalls
<1>8. SameDoor => Wanted' = Wanted
  BY DEF SameDoor, Wanted
<1>9. RunsCurrent'
  BY <1>2, <1>3, <1>8 DEF IInv, RunsCurrent, UnderWay
<1>10. PodIsOfDeployment'
  BY <1>2, <1>3 DEF IInv, PodIsOfDeployment
<1> QED
  BY <1>1, <1>4, <1>5, <1>6, <1>7, <1>9, <1>10 DEF IInv

-----------------------------------------------------------------------------
(***************************************************************************)
(* The orchestrator's steps.                                               *)
(***************************************************************************)

\* What a whole read is built into has its mode's passwords.
LEMMA BuiltIsWhole ==
    ASSUME NEW read \in Reading, read.mode = "room" <=> read.key # NoKey, ~Refuses(read)
    PROVE  /\ Built(read) \in Env
           /\ Built(read).mode \in {"none", "absent"} <=> Built(read).key = NoKey
  BY BuiltIsEnv DEF Built, Refuses, Reading, Modes

\* A read that agrees with the row hashes to what the row wants.
LEMMA CurrentIsWanted ==
    ASSUME TypeOK, ReadIsCurrent, rec.at # "secrets"
    PROVE  Hashed(Built(rec.read)) = Hashed(Wanted)
<1>1. /\ Built(rec.read).mode = Wanted.mode /\ Built(rec.read).admin = Wanted.admin
      /\ Wanted.mode # "perSlot" => Built(rec.read).key = Wanted.key
  BY DEF ReadIsCurrent, Built, Wanted
<1> QED
  BY <1>1 DEF Hashed, Built, Wanted

LEMMA SecretStaysWhole == IInv /\ Orchestrator => DoorIsWhole'
<1> SUFFICES ASSUME IInv, Orchestrator PROVE DoorIsWhole'
  OBVIOUS
<1>1. TypeOK /\ rec.read \in Reading
  BY ReadingIsTyped DEF IInv
<1>2. rec.at \in {"apply", "own", "sweepApply"}
        => /\ Built(rec.read) \in Env
           /\ Built(rec.read).mode \in {"none", "absent"} <=> Built(rec.read).key = NoKey
  BY <1>1, BuiltIsWhole DEF IInv, ReadIsWhole
<1>3. pod' = pod /\ (secret' = secret \/ (rec.at \in {"apply", "own", "sweepApply"} /\ secret' = Built(rec.read)))
  BY DEF Orchestrator, StartStep, StartReadsRoom, StartReadsSecrets, StartReadsSlots, ApplySecret,
     GetDeployment, OwnSecret, ReadAddress, MarkStarting, ConsumeRedeploy, Fail, Retry,
     MarkRunning, MarkIdle, Recreate, Stop, BeginStop, ClearDeployment, MarkStopping, Sweep,
     SweepReadsRoom, SweepReadsSecrets, SweepReadsSlots, SweepApplies, MarkSecretSynced,
     StepEnds, Reconciling
<1> QED
  BY <1>2, <1>3 DEF IInv, DoorIsWhole

LEMMA ReadStaysWhole == IInv /\ Orchestrator => ReadIsWhole'
<1> SUFFICES ASSUME IInv, Orchestrator PROVE ReadIsWhole'
  OBVIOUS
<1>1. TypeOK /\ rec.read \in Reading
  BY ReadingIsTyped DEF IInv
<1>5. ReadIsWhole
  BY DEF IInv
<1>6. NothingRead.mode # "room" /\ NothingRead.key = NoKey
  BY DEF NothingRead
<1>7. RoomRead.mode = row.mode /\ RoomRead.key = row.key
  BY DEF RoomRead, NothingRead
<1>8. CASE Resting("rest") \/ Resting("recreate") \/ Resting("stop")
  BY <1>6, <1>8 DEF Resting, ReadIsWhole, Refuses
<1>9. CASE Reads("secrets", RoomRead) \/ Reads("sweepSecrets", RoomRead)
  BY <1>1, <1>7, <1>9 DEF Reads, TypeOK, ReadIsWhole, Refuses
<1>10. CASE StartReadsSecrets \/ SweepReadsSecrets
  BY <1>1, <1>5, <1>10 DEF StartReadsSecrets, SweepReadsSecrets, Reads, ReadIsWhole, Refuses, Reading
<1>11. CASE StartReadsSlots \/ SweepReadsSlots
  <2> DEFINE read == [rec.read EXCEPT !.slotKey = row.slotKey]
  <2>1. read.mode = "room" <=> read.key # NoKey
    BY <1>1, <1>5 DEF ReadIsWhole, Reading
  <2>2. CASE Refuses(read)
    <3>1. Reads("fail", read) \/ Resting("rest")
      BY <1>11, <2>2 DEF StartReadsSlots, SweepReadsSlots
    <3>2. CASE Reads("fail", read)
      BY <2>1, <3>2 DEF Reads, ReadIsWhole, Refuses
    <3> QED
      BY <1>8, <3>1, <3>2
  <2>3. CASE ~Refuses(read)
    <3>1. Reads("apply", read) \/ Reads("sweepApply", read)
      BY <1>11, <2>3 DEF StartReadsSlots, SweepReadsSlots
    <3>2. rec'.read = read /\ ~Refuses(rec'.read)
      BY <2>3, <3>1 DEF Reads
    <3> QED
      BY <2>1, <3>2 DEF ReadIsWhole
  <2> QED
    BY <2>2, <2>3
<1>12. CASE \/ On("get") /\ rec.at = "apply"
            \/ On("own") /\ rec.at = "get"
            \/ On("address") \/ On("starting") \/ On("consume") \/ On("sweepMark")
  BY <1>1, <1>5, <1>12 DEF On, ReadIsWhole, Refuses, TypeOK
<1>13. CASE UNCHANGED rec
  BY <1>5, <1>13 DEF ReadIsWhole, Refuses
<1>14. CASE StartReadsRoom \/ SweepReadsRoom
  BY <1>9, <1>14 DEF StartReadsRoom, SweepReadsRoom
<1>15. CASE ApplySecret \/ OwnSecret \/ ReadAddress \/ MarkStarting \/ ConsumeRedeploy \/ Fail
  <2>1. \/ On("get") /\ rec.at = "apply"
        \/ On("address") \/ On("starting") \/ On("consume")
        \/ Resting("rest")
    BY <1>15 DEF ApplySecret, OwnSecret, ReadAddress, MarkStarting, ConsumeRedeploy, Fail
  <2> QED
    BY <1>8, <1>12, <2>1, Zenon
<1>16. CASE GetDeployment
  <2>1. rec.at = "get" /\ (Resting("rest") \/ On("own"))
    BY <1>16 DEF GetDeployment
  <2> QED
    BY <1>8, <1>12, <2>1
<1>17. CASE Retry \/ MarkRunning \/ MarkIdle
  BY <1>13, <1>17 DEF Retry, MarkRunning, MarkIdle
<1>18. CASE Recreate \/ Stop \/ ClearDeployment \/ MarkStopping \/ SweepApplies
            \/ MarkSecretSynced \/ StepEnds
  BY <1>8, <1>12, <1>18
     DEF Recreate, Stop, BeginStop, ClearDeployment, MarkStopping, SweepApplies, MarkSecretSynced,
     StepEnds
<1> QED
  BY <1>10, <1>11, <1>14, <1>15, <1>17, <1>18, <1>16 DEF Orchestrator, StartStep, Sweep

\* What every step of the orchestrator leaves alone.
LEMMA DoorIsTheWebs ==
    ASSUME TypeOK, Orchestrator
    PROVE  SameDoor /\ Wanted' = Wanted /\ UNCHANGED <<task, pod>>
<1>1. \/ UNCHANGED row
      \/ \E state \in Live \cup {"idle", "stopping", "failed"} : Moves(state)
      \/ \E on \in BOOLEAN : row' = [row EXCEPT !.redeploy = on] \/ row' = [row EXCEPT !.stale = on]
  BY DEF Orchestrator, StartStep, StartReadsRoom, StartReadsSecrets, StartReadsSlots, ApplySecret,
     GetDeployment, OwnSecret, ReadAddress, MarkStarting, ConsumeRedeploy, Fail, Retry,
     MarkRunning, MarkIdle, Recreate, Stop, BeginStop, ClearDeployment, MarkStopping, Sweep,
     SweepReadsRoom, SweepReadsSecrets, SweepReadsSlots, SweepApplies, MarkSecretSynced,
     StepEnds, Reconciling, Live
<1>2. SameDoor
  BY <1>1 DEF Moves, SameDoor, TypeOK, Row
<1>3. UNCHANGED <<task, pod>>
  BY DEF Orchestrator, StartStep, StartReadsRoom, StartReadsSecrets, StartReadsSlots, ApplySecret,
     GetDeployment, OwnSecret, ReadAddress, MarkStarting, ConsumeRedeploy, Fail, Retry,
     MarkRunning, MarkIdle, Recreate, Stop, BeginStop, ClearDeployment, MarkStopping, Sweep,
     SweepReadsRoom, SweepReadsSecrets, SweepReadsSlots, SweepApplies, MarkSecretSynced,
     StepEnds, Reconciling
<1> QED
  BY <1>2, <1>3 DEF SameDoor, Wanted

\* A debt is forgotten only where a start begins, which reads the row then.
LEMMA DebtsAreKept ==
    ASSUME TypeOK, Orchestrator, Debt
    PROVE  Debt' \/ StartReadsRoom \/ ConsumeRedeploy
<1>1. UNCHANGED task
  BY DoorIsTheWebs
<1>2. CASE UNCHANGED <<row, missed>>
  BY <1>1, <1>2 DEF Debt, Owes
<1>3. CASE UNCHANGED missed /\ \E state : Moves(state)
  BY <1>1, <1>3 DEF Moves, Debt, Owes, TypeOK, Row
<1>4. CASE MarkSecretSynced
  BY <1>1, <1>4 DEF MarkSecretSynced, Debt, Owes, TypeOK, Row
<1> QED
  BY <1>2, <1>3, <1>4
     DEF Orchestrator, StartStep, StartReadsSecrets, StartReadsSlots, ApplySecret,
     GetDeployment, OwnSecret, ReadAddress, MarkStarting, Fail, Retry, MarkRunning, MarkIdle,
     Recreate, Stop, BeginStop, ClearDeployment, MarkStopping, Sweep, SweepReadsRoom,
     SweepReadsSecrets, SweepReadsSlots, SweepApplies, StepEnds, Reconciling

LEMMA PlacesStay == IInv /\ Orchestrator => Places'
<1> SUFFICES ASSUME TypeOK, Places, Orchestrator PROVE Places'
  BY DEF IInv
<1>1. CASE StartStep
  BY <1>1 DEF StartStep, StartReadsRoom, StartReadsSecrets, StartReadsSlots, ApplySecret,
     GetDeployment, OwnSecret, ReadAddress, MarkStarting, ConsumeRedeploy, Fail, Resting, On,
     Reads, Moves, Places, StartCalls, TypeOK, Row
<1>2. CASE Retry \/ MarkRunning \/ MarkIdle \/ Recreate \/ Stop \/ ClearDeployment \/ MarkStopping
  BY <1>2 DEF Retry, MarkRunning, MarkIdle, Recreate, Stop, BeginStop, ClearDeployment,
     MarkStopping, Resting, On, Moves, Places, StartCalls, TypeOK, Row
<1>3. CASE Sweep \/ StepEnds
  BY <1>3 DEF Sweep, SweepReadsRoom, SweepReadsSecrets, SweepReadsSlots, SweepApplies,
     MarkSecretSynced, StepEnds, Resting, On, Reads, Places, StartCalls, TypeOK, Row
<1> QED
  BY <1>1, <1>2, <1>3 DEF Orchestrator

LEMMA DeploymentIsOfTheRead == IInv /\ Orchestrator => OfTheRead'
<1> SUFFICES ASSUME TypeOK, Places, OfTheRead, Orchestrator PROVE OfTheRead'
  BY DEF IInv
<1>1. CASE GetDeployment
  BY <1>1 DEF GetDeployment, Resting, On, OfTheRead, HasDeployment, Converged, TypeOK
<1>2. CASE OwnSecret \/ ReadAddress \/ MarkStarting
  BY <1>2 DEF OwnSecret, ReadAddress, MarkStarting, Resting, On, Moves, OfTheRead, HasDeployment,
     Converged, TypeOK
<1>3. CASE StartReadsRoom \/ StartReadsSecrets \/ StartReadsSlots \/ ApplySecret \/ ConsumeRedeploy
            \/ Fail
  BY <1>3 DEF StartReadsRoom, StartReadsSecrets, StartReadsSlots, ApplySecret, ConsumeRedeploy,
     Fail, Resting, On, Reads, OfTheRead, HasDeployment, Converged, TypeOK
<1>4. CASE Retry \/ MarkRunning \/ MarkIdle \/ Recreate \/ Stop \/ ClearDeployment \/ MarkStopping
  BY <1>4 DEF Retry, MarkRunning, MarkIdle, Recreate, Stop, BeginStop, ClearDeployment,
     MarkStopping, Resting, On, Moves, OfTheRead, HasDeployment, Converged, TypeOK, Row
<1>5. CASE Sweep \/ StepEnds
  BY <1>5 DEF Sweep, SweepReadsRoom, SweepReadsSecrets, SweepReadsSlots, SweepApplies,
     MarkSecretSynced, StepEnds, Resting, On, Reads, OfTheRead, HasDeployment, Converged, TypeOK
<1> QED
  BY <1>1, <1>2, <1>3, <1>4, <1>5 DEF Orchestrator, StartStep

LEMMA StartsStayCurrent == IInv /\ Orchestrator => StartsCurrent'
<1> SUFFICES ASSUME IInv, Orchestrator PROVE StartsCurrent'
  OBVIOUS
<1>1. TypeOK /\ Places /\ StartsCurrent /\ SameDoor
  BY DoorIsTheWebs DEF IInv
<1>2. CASE StartReadsRoom
  BY <1>1, <1>2 DEF StartReadsRoom, Reads, RoomRead, NothingRead, StartsCurrent, ReadIsCurrent,
     SameDoor
<1>3. CASE StartReadsSecrets
  <2>1. rec'.read.mode = rec.read.mode /\ rec'.read.key = rec.read.key /\ rec'.read.admin = row.admin
    BY <1>1, <1>3 DEF StartReadsSecrets, Reads, TypeOK, Reading
  <2> QED
    BY <1>1, <1>3, <2>1, DebtsAreKept
       DEF StartReadsSecrets, StartReadsRoom, ConsumeRedeploy, StartsCurrent, StartCalls,
       ReadIsCurrent, SameDoor
<1>4. CASE StartReadsSlots
  <2>1. rec'.read.mode = rec.read.mode /\ rec'.read.key = rec.read.key /\ rec'.read.admin = rec.read.admin
    BY <1>1, <1>4 DEF StartReadsSlots, Reads, TypeOK, Reading
  <2> QED
    BY <1>1, <1>4, <2>1, DebtsAreKept
       DEF StartReadsSlots, StartReadsRoom, ConsumeRedeploy, StartsCurrent, StartCalls,
       ReadIsCurrent, SameDoor
<1>5. CASE ApplySecret \/ GetDeployment \/ OwnSecret \/ ReadAddress \/ MarkStarting
  <2>1. \/ rec'.at \notin StartCalls
        \/ /\ rec'.read = rec.read /\ rec.at \in StartCalls \ {"consume", "secrets"}
           /\ rec'.at # "secrets"
    BY <1>1, <1>5 DEF ApplySecret, GetDeployment, OwnSecret, ReadAddress, MarkStarting, Resting,
       On, StartCalls, TypeOK
  <2>2. Debt => Debt'
    BY <1>1, <1>5, DebtsAreKept
       DEF ApplySecret, GetDeployment, OwnSecret, ReadAddress, MarkStarting, StartReadsRoom,
       ConsumeRedeploy
  <2> QED
    BY <1>1, <2>1, <2>2 DEF StartsCurrent, Converged, ReadIsCurrent, SameDoor, StartCalls
<1>6. CASE ConsumeRedeploy \/ Fail
  BY <1>6 DEF ConsumeRedeploy, Fail, Resting, StartsCurrent, StartCalls, Converged
<1>7. CASE Retry \/ MarkRunning \/ MarkIdle \/ Recreate \/ Stop \/ MarkStopping
  BY <1>7 DEF Retry, MarkRunning, MarkIdle, Recreate, Stop, BeginStop, MarkStopping, Resting,
     StartsCurrent, StartCalls, Converged
<1>8. CASE ClearDeployment
  BY <1>1, <1>8 DEF ClearDeployment, On, Moves, StartsCurrent, StartCalls, Converged, TypeOK, Row
<1>9. CASE Sweep \/ StepEnds
  BY <1>1, <1>9 DEF Sweep, SweepReadsRoom, SweepReadsSecrets, SweepReadsSlots, SweepApplies,
     MarkSecretSynced, StepEnds, Resting, On, Reads, StartsCurrent, StartCalls, Converged, TypeOK
<1> QED
  BY <1>2, <1>3, <1>4, <1>5, <1>6, <1>7, <1>8, <1>9 DEF Orchestrator, StartStep

LEMMA RunsStayCurrent == IInv /\ Orchestrator => RunsCurrent'
<1> SUFFICES ASSUME IInv, Orchestrator, ~Debt' PROVE RunsCurrent'
  BY DEF RunsCurrent
<1>1. TypeOK /\ Places /\ OfTheRead /\ StartsCurrent /\ RunsCurrent /\ Wanted' = Wanted
  BY DoorIsTheWebs DEF IInv
<1>2. CASE row'.state \in Live /\ row.state \in Live /\ ~UnderWay /\ ~Debt
            /\ (dep'.here /\ ~dep'.deleting => UNCHANGED dep)
  BY <1>1, <1>2 DEF RunsCurrent
<1>3. CASE StartReadsRoom \/ StartReadsSecrets \/ StartReadsSlots \/ ApplySecret \/ GetDeployment
            \/ OwnSecret \/ ReadAddress
  <2>1. row'.state = "idle"
    BY <1>1, <1>3 DEF StartReadsRoom, StartReadsSecrets, StartReadsSlots, ApplySecret,
       GetDeployment, OwnSecret, ReadAddress, Places, StartCalls
  <2> QED
    BY <2>1 DEF RunsCurrent, Live
<1>4. CASE MarkStarting
  BY <1>1, <1>4 DEF MarkStarting, On, RunsCurrent, UnderWay, StartCalls, TypeOK
<1>5. CASE ConsumeRedeploy
  <2>1. row'.state = row.state /\ ~row'.redeploy /\ dep' = dep /\ task' = task
    BY <1>1, <1>5 DEF ConsumeRedeploy, Reconciling, TypeOK, Row
  <2>2. CASE row.state = "starting"
    <3>1. Converged /\ dep.hash = Hashed(Built(rec.read)) /\ rec.at # "secrets"
      BY <1>1, <1>5, <2>2 DEF ConsumeRedeploy, Converged, OfTheRead
    <3>2. CASE row.redeploy
      BY <1>1, <1>5, <2>1, <2>2, <3>1, <3>2 DEF ConsumeRedeploy, Debt, RunsCurrent
    <3>3. CASE ~row.redeploy
      <4>1. ~Debt
        BY <1>5, <2>1, <3>3 DEF ConsumeRedeploy, Debt, Owes
      <4> QED
        BY <1>1, <2>1, <3>1, <4>1, CurrentIsWanted DEF StartsCurrent, RunsCurrent
    <3> QED
      BY <3>2, <3>3
  <2>3. CASE row.state # "starting"
    BY <1>1, <1>5, <2>1, <2>3 DEF ConsumeRedeploy, Places, RunsCurrent, Live
  <2> QED
    BY <2>2, <2>3
<1>6. CASE Fail \/ Retry \/ MarkIdle \/ ClearDeployment \/ MarkStopping
  BY <1>1, <1>6 DEF Fail, Retry, MarkIdle, ClearDeployment, MarkStopping, Moves, RunsCurrent,
     Live, TypeOK, Row
<1>7. CASE MarkRunning \/ Sweep
  <2>1. ~UnderWay /\ UNCHANGED dep /\ (row'.state = row.state \/ row.state = "starting")
    BY <1>1, <1>7 DEF MarkRunning, Sweep, SweepReadsRoom, SweepReadsSecrets, SweepReadsSlots,
       SweepApplies, MarkSecretSynced, UnderWay, StartCalls, TypeOK, Row
  <2>2. ~Debt
    BY <1>1, <1>7, DebtsAreKept DEF MarkRunning, Sweep, SweepReadsRoom, SweepReadsSecrets,
       SweepReadsSlots, SweepApplies, MarkSecretSynced, StartReadsRoom, ConsumeRedeploy, Live
  <2> QED
    BY <1>1, <2>1, <2>2 DEF RunsCurrent, Live
<1>8. CASE Recreate \/ Stop
  BY <1>1, <1>8, DeletedIsTyped DEF Recreate, Stop, BeginStop, RunsCurrent
<1>9. CASE StepEnds
  <2>1. row' = row /\ dep' = dep /\ ~Debt
    BY <1>9 DEF StepEnds, Debt, Owes
  <2>2. CASE Converged
    BY <1>1, <2>1, <2>2, CurrentIsWanted DEF Converged, OfTheRead, StartsCurrent, RunsCurrent
  <2>3. CASE UnderWay /\ ~Converged
    BY <1>1, <2>1, <2>3 DEF UnderWay, Converged, Places, RunsCurrent, Live
  <2>4. CASE ~UnderWay
    BY <1>1, <2>1, <2>4 DEF RunsCurrent
  <2> QED
    BY <2>2, <2>3, <2>4
<1> QED
  BY <1>3, <1>4, <1>5, <1>6, <1>7, <1>8, <1>9 DEF Orchestrator, StartStep

LEMMA PodStaysOfDeployment == IInv /\ Orchestrator => PodIsOfDeployment'
<1> SUFFICES ASSUME IInv, Orchestrator PROVE PodIsOfDeployment'
  OBVIOUS
<1>1. TypeOK /\ PodIsOfDeployment /\ pod' = pod
  BY DoorIsTheWebs DEF IInv
<1>2. "torn" \in missed => "torn" \in missed'
  BY DEF Orchestrator, StartStep, StartReadsRoom, StartReadsSecrets, StartReadsSlots, ApplySecret,
     GetDeployment, OwnSecret, ReadAddress, MarkStarting, ConsumeRedeploy, Fail, Retry,
     MarkRunning, MarkIdle, Recreate, Stop, BeginStop, ClearDeployment, MarkStopping, Sweep,
     SweepReadsRoom, SweepReadsSecrets, SweepReadsSlots, SweepApplies, MarkSecretSynced, StepEnds
<1>3. UNCHANGED dep \/ DeleteDeployment \/ ~dep.here
  BY DEF Orchestrator, StartStep, StartReadsRoom, StartReadsSecrets, StartReadsSlots, ApplySecret,
     GetDeployment, OwnSecret, ReadAddress, MarkStarting, ConsumeRedeploy, Fail, Retry,
     MarkRunning, MarkIdle, Recreate, Stop, BeginStop, ClearDeployment, MarkStopping, Sweep,
     SweepReadsRoom, SweepReadsSecrets, SweepReadsSlots, SweepApplies, MarkSecretSynced, StepEnds
<1> QED
  BY <1>1, <1>2, <1>3, DeletedIsTyped DEF PodIsOfDeployment

-----------------------------------------------------------------------------
(***************************************************************************)
(* The cluster, and the theorems.                                          *)
(***************************************************************************)
LEMMA ClusterKeepsDoor == IInv /\ Cluster => IInv'
<1> SUFFICES ASSUME IInv, Cluster PROVE IInv'
  OBVIOUS
<1>1. TypeOK /\ TypeOK' /\ Outside
  BY ClusterType DEF IInv, Cluster, ContainerStarts, ContainerDies, Collect, HourPasses
<1>2. UNCHANGED <<rec, task>> /\ NothingOwed' /\ ReadIsWhole'
  BY <1>1 DEF Outside, IInv, NothingOwed, ReadIsWhole, Refuses
<1>3. DoorIsWhole'
  BY DEF IInv, DoorIsWhole, Cluster, ContainerStarts, ContainerDies, Collect, HourPasses, NoEnv
<1>4. SameDoor /\ row'.state = row.state /\ row'.redeploy = row.redeploy
  BY <1>1 DEF Cluster, ContainerStarts, ContainerDies, Collect, HourPasses, SameDoor, TypeOK, Row
<1>5. missed' \ {"torn"} = missed \ {"torn"}
  BY <1>1 DEF Cluster, ContainerStarts, ContainerDies, Collect, HourPasses
<1>6. Debt => Debt'
  BY <1>2, <1>4, <1>5 DEF Debt, Owes
<1>7. UNCHANGED dep \/ Collect
  BY DEF Cluster, ContainerStarts, ContainerDies, Collect, HourPasses
<1>8. Places' /\ StartsCurrent'
  BY <1>2, <1>4, <1>6 DEF IInv, Places, StartsCurrent, Converged, ReadIsCurrent, SameDoor
<1>9. OfTheRead'
  BY <1>2, <1>4, <1>7 DEF IInv, OfTheRead, Converged, Collect
<1>10. RunsCurrent'
  <2>1. Wanted' = Wanted
    BY <1>4 DEF SameDoor, Wanted
  <2> QED
    BY <1>2, <1>4, <1>6, <1>7, <2>1 DEF IInv, RunsCurrent, UnderWay, Collect, NoDeployment
<1>11. PodIsOfDeployment'
  <2>1. CASE ContainerStarts
    BY <2>1 DEF ContainerStarts, PodIsOfDeployment
  <2>2. CASE ContainerDies \/ Collect
    BY <2>2 DEF ContainerDies, Collect, PodIsOfDeployment
  <2>3. CASE HourPasses
    BY <2>3 DEF HourPasses, IInv, PodIsOfDeployment
  <2> QED
    BY <2>1, <2>2, <2>3 DEF Cluster
<1> QED
  BY <1>1, <1>2, <1>3, <1>8, <1>9, <1>10, <1>11 DEF IInv

LEMMA InitDoor == Init => IInv
<1> SUFFICES ASSUME Init PROVE IInv
  OBVIOUS
<1>1. TypeOK
  BY InitType
<1>2. DoorIsWhole /\ NothingOwed
  BY DEF Init, DoorIsWhole, NothingOwed, NoEnv, NoTask
<1>3. rec.at = "rest" /\ row.state = "idle" /\ pod = NoEnv /\ rec.read = NothingRead
  BY DEF Init
<1> QED
  BY <1>1, <1>2, <1>3 DEF IInv, ReadIsWhole, NothingRead, Places, OfTheRead, HasDeployment,
     Converged, StartsCurrent, StartCalls, RunsCurrent, Live, PodIsOfDeployment

\* Every behaviour keeps the debts of its writers, and what follows from them.
THEOREM InductiveInvariant == Spec => []IInv
<1>1. IInv /\ Orchestrator => IInv'
  BY OrchestratorType, SecretStaysWhole, ReadStaysWhole, PlacesStay, DeploymentIsOfTheRead,
     StartsStayCurrent, RunsStayCurrent, PodStaysOfDeployment, DoorIsTheWebs
     DEF IInv, NothingOwed
<1>2. IInv /\ UNCHANGED vars => IInv'
  BY DEF vars, IInv, TypeOK, DoorIsWhole, NothingOwed, ReadIsWhole, Refuses, Places, OfTheRead,
     Converged, StartsCurrent, ReadIsCurrent, RunsCurrent, UnderWay, Wanted, Debt, Owes,
     PodIsOfDeployment
<1>3. IInv /\ [Next]_vars => IInv'
  BY <1>1, <1>2, WebKeepsDoor, ClusterKeepsDoor DEF Next
<1> QED
  BY InitDoor, <1>3, PTL DEF Spec

\* The row, what a render reads, the Secret and the container keep their types,
\* and the row's password is there just when its mode wants one.
THEOREM TypesHold == Spec => []TypeOK
<1>1. IInv => TypeOK
  BY DEF IInv
<1> QED
  BY <1>1, InductiveInvariant, PTL

\* A partial map never reaches the Secret or a container (secret.rs:15).
THEOREM DoorStaysWhole == Spec => []DoorIsWhole
<1>1. IInv => DoorIsWhole
  BY DEF IInv
<1> QED
  BY <1>1, InductiveInvariant, PTL

\* A room at rest demands what its row says, unless one of the four reasons
\* says why it does not (room.rs:1508).
THEOREM RestartsReachTheRoom == Spec => []RoomDemandsItsRow
<1>1. IInv => RoomDemandsItsRow
  <2> SUFFICES ASSUME IInv, Settled, missed = {} PROVE Hashed(pod) = Hashed(Wanted)
    BY DEF RoomDemandsItsRow
  <2>1. ~Debt
    BY DEF IInv, NothingOwed, Settled, Debt, Owes
  <2>2. dep.hash = Hashed(Wanted)
    BY <2>1 DEF IInv, RunsCurrent, Settled, UnderWay, StartCalls
  <2>3. Hashed(pod) = dep.hash
    BY DEF IInv, PodIsOfDeployment, Settled
  <2> QED
    BY <2>2, <2>3
<1> QED
  BY <1>1, InductiveInvariant, PTL
=============================================================================
