---------------------------- MODULE FiltersProofs ----------------------------
(***************************************************************************)
(* For any slots, handlers and number of requests and faults: once nothing *)
(* is under way a running room filters by the rules the tables hold, but   *)
(* for rows that cannot be parsed and changes known to have missed it, and *)
(* rules that nobody set in Puna are left alone.                           *)
(*                                                                         *)
(* A change that is not known lost is always Carried: somebody is still to *)
(* ask, the next start is still to read its row, or whoever holds a        *)
(* reading of the row holds what it says now and the room has it or is     *)
(* about to be given it.                                                   *)
(***************************************************************************)
EXTENDS Filters, TLAPS

InLine == {cmds[i] : i \in DOMAIN cmds}

Asked(c) ==
    \/ \E h \in Handlers : task[h].at = "tell" /\ task[h].scope = c
    \/ c \in InLine
    \/ (disp.at \in {"reach", "read"} /\ disp.scope = c)

NextStartSays(c) == WillRead(c) /\ filters[c] # Follows

HoldersAgree(c) ==
    /\ DispHolds(c) => disp.rules = Read(c)
    /\ RecHolds(c) => rec.read[c] = Read(c)

RecWillPush(c) ==
    \/ (rec.at = "push" /\ c \in rec.todo)
    \/ (rec.at = "slots" /\ c = Room /\ rec.read[Room] # Follows)

Said(c) == HoldersAgree(c) /\ (DispHolds(c) \/ RecWillPush(c) \/ applied[c] = Read(c))

Carried(c) == Asked(c) \/ NextStartSays(c) \/ Said(c)

\* Whoever has a scope in hand has one that somebody edited.
Known ==
    /\ \A h \in Handlers : task[h].at = "tell" => task[h].scope \in edited
    /\ InLine \subseteq edited
    /\ disp.at # "rest" => disp.scope \in edited
    /\ \A c \in Scopes : filters[c] # Follows => c \in edited
    /\ rec.at = "push" => rec.todo \subseteq edited \cup {Room}

\* The reconciler is only ever asserting to a running room.
Asserting == rec.at # "rest" => state = "running"

CarriedAll == \A c \in Scopes \ lapse : Carried(c)

Inv == TypeOK /\ Asserting /\ Known /\ CarriedAll

USE FilterAssumption

-----------------------------------------------------------------------------
(***************************************************************************)
(* Types.                                                                  *)
(***************************************************************************)

LEMMA ReadTypes ==
    ASSUME TypeOK, NEW c \in Scopes
    PROVE  Read(c) \in Rulesets
BY DEF TypeOK, Read, Rulesets

LEMMA QueueGrows ==
    ASSUME TypeOK, NEW c \in Scopes, cmds' = Append(cmds, c)
    PROVE  cmds' \in Seq(Scopes) /\ InLine' = InLine \cup {c}
<1>1. cmds \in Seq(Scopes)
  BY DEF TypeOK
<1>2. Len(cmds) \in Nat /\ DOMAIN cmds = 1..Len(cmds)
  BY <1>1
<1>3. /\ cmds' \in Seq(Scopes) /\ Len(cmds') = Len(cmds) + 1
      /\ \A i \in 1..Len(cmds) : cmds'[i] = cmds[i]
      /\ cmds'[Len(cmds) + 1] = c
  BY <1>1
<1>4. DOMAIN cmds' = 1..(Len(cmds) + 1)
  BY <1>3
<1> QED
  BY <1>2, <1>3, <1>4 DEF InLine

LEMMA QueueShrinks ==
    ASSUME TypeOK, cmds # <<>>, cmds' = Tail(cmds)
    PROVE  /\ cmds' \in Seq(Scopes) /\ Head(cmds) \in Scopes
           /\ Head(cmds) \in InLine
           /\ InLine' \subseteq InLine /\ InLine \subseteq InLine' \cup {Head(cmds)}
<1>1. cmds \in Seq(Scopes)
  BY DEF TypeOK
<1>2. Len(cmds) \in Nat \ {0} /\ DOMAIN cmds = 1..Len(cmds) /\ Head(cmds) = cmds[1]
  BY <1>1
<1>3. /\ cmds' \in Seq(Scopes) /\ Len(cmds') = Len(cmds) - 1
      /\ \A i \in 1..(Len(cmds) - 1) : cmds'[i] = cmds[i + 1]
  BY <1>1
<1>4. DOMAIN cmds' = 1..(Len(cmds) - 1)
  BY <1>3
<1>5. InLine' \subseteq InLine
  BY <1>2, <1>3, <1>4 DEF InLine
<1>6. ASSUME NEW i \in 1..Len(cmds) PROVE cmds[i] \in InLine' \cup {Head(cmds)}
  <2>1. CASE i = 1
    BY <2>1, <1>2
  <2>2. CASE i # 1
    <3>1. i - 1 \in 1..(Len(cmds) - 1) /\ cmds'[i - 1] = cmds[i]
      BY <2>2, <1>2, <1>3
    <3> QED
      BY <3>1, <1>4 DEF InLine
  <2> QED
    BY <2>1, <2>2
<1>7. Head(cmds) \in InLine /\ Head(cmds) \in Scopes
  BY <1>1, <1>2 DEF InLine
<1> QED
  BY <1>3, <1>5, <1>6, <1>7, <1>2 DEF InLine

LEMMA SpendTypes ==
    ASSUME TypeOK, NEW w \in {"edits", "faults"}, Spend(w)
    PROVE  budget' \in [{"edits", "faults"} -> Nat]
BY DEF TypeOK, Spend

LEMMA WebTypes ==
    ASSUME TypeOK, Web
    PROVE  TypeOK'
<1> USE DEF TypeOK
<1>1. ASSUME NEW h \in Handlers, NEW c \in Scopes, NEW rules \in Rulesets, Edit(h, c, rules)
      PROVE  TypeOK'
  <2>1. [at |-> "write", scope |-> c, rules |-> rules, seen |-> state] \in Task
    BY DEF Task
  <2>2. task' \in [Handlers -> Task]
    BY <1>1, <2>1 DEF Edit
  <2> QED
    BY <1>1, <2>2, SpendTypes DEF Edit, Webbing
<1>2. ASSUME NEW h \in Handlers, Write(h) PROVE TypeOK'
  <2>1. /\ task[h] \in Task /\ task[h].scope \in Scopes /\ task[h].rules \in Rulesets
        /\ NoTask \in Task /\ [task[h] EXCEPT !.at = "tell"] \in Task
    BY DEF Task, NoTask, Scopes, Rulesets, States
  <2>2. task' \in [Handlers -> Task]
    BY <1>2, <2>1 DEF Write
  <2>3. filters' \in [Scopes -> Rulesets \cup {Unreadable}]
    BY <1>2, <2>1 DEF Write
  <2>4. edited' \subseteq Scopes /\ lapse' \subseteq Scopes
    BY <1>2, <2>1 DEF Write
  <2> QED
    BY <1>2, <2>2, <2>3, <2>4 DEF Write, Webbing
<1>3. ASSUME NEW h \in Handlers, Tell(h) PROVE TypeOK'
  <2>1. task[h].scope \in Scopes /\ NoTask \in Task
    BY DEF Task, NoTask, Scopes, Rulesets, States
  <2>2. task' \in [Handlers -> Task] /\ cmds' \in Seq(Scopes)
    BY <1>3, <2>1, QueueGrows DEF Tell
  <2> QED
    BY <1>3, <2>2 DEF Tell, Webbing
<1>4. ASSUME NEW h \in Handlers, HandlerDies(h) PROVE TypeOK'
  <2>1. task[h].scope \in Scopes /\ NoTask \in Task
    BY DEF Task, NoTask, Scopes, Rulesets, States
  <2>2. task' \in [Handlers -> Task] /\ lapse' \subseteq Scopes
    BY <1>4, <2>1 DEF HandlerDies
  <2> QED
    BY <1>4, <2>2, SpendTypes DEF HandlerDies, Webbing
<1> QED
  BY <1>1, <1>2, <1>3, <1>4 DEF Web

LEMMA DispatcherTypes ==
    ASSUME TypeOK, Claim \/ Reach \/ Reject \/ ReadTables \/ Push \/ PushFails
    PROVE  TypeOK'
<1> USE DEF TypeOK
<1>1. disp \in Errand /\ disp.scope \in Scopes /\ disp.rules \in Rulesets /\ NoErrand \in Errand
  BY DEF Errand, NoErrand, Scopes, Rulesets
<1>2. CASE Claim
  <2>1. cmds' \in Seq(Scopes) /\ Head(cmds) \in Scopes
    BY <1>2, QueueShrinks DEF Claim
  <2>2. disp' \in Errand
    BY <1>2, <1>1, <2>1 DEF Claim, Errand
  <2> QED
    BY <1>2, <2>1, <2>2 DEF Claim, Dispatching
<1>3. CASE Reach
  <2>1. disp' \in Errand
    BY <1>3, <1>1 DEF Reach, Errand
  <2> QED
    BY <1>3, <2>1 DEF Reach, Dispatching
<1>4. CASE Reject
  BY <1>4, <1>1 DEF Reject, Dispatching
<1>5. CASE ReadTables
  <2>1. Read(disp.scope) \in Rulesets
    BY <1>1, ReadTypes
  <2>2. disp' \in Errand
    BY <1>5, <1>1, <2>1 DEF ReadTables, Errand
  <2>3. lapse' \subseteq Scopes
    BY <1>5, <1>1 DEF ReadTables
  <2> QED
    BY <1>5, <2>2, <2>3 DEF ReadTables, Dispatching
<1>6. CASE Push
  BY <1>6, <1>1 DEF Push, Dispatching
<1>7. CASE PushFails
  <2>1. budget' \in [{"edits", "faults"} -> Nat]
    BY <1>7, SpendTypes DEF PushFails
  <2> QED
    BY <1>7, <1>1, <2>1 DEF PushFails, Dispatching
<1> QED
  BY <1>2, <1>3, <1>4, <1>5, <1>6, <1>7

LEMMA PassTypes ==
    /\ NoPass \in Pass /\ [NoPass EXCEPT !.at = "room"] \in Pass
    /\ \A p \in Pass : p.read \in [Scopes -> Rulesets] /\ p.todo \subseteq Scopes
    /\ \A p \in Pass, r \in [Scopes -> Rulesets], t \in SUBSET Scopes :
          /\ [p EXCEPT !.at = "push", !.todo = t, !.read = r] \in Pass
          /\ [p EXCEPT !.at = "slots", !.read = r] \in Pass
          /\ [p EXCEPT !.todo = t] \in Pass
BY DEF Pass, NoPass, Scopes, Rulesets

LEMMA ReconcilerTypes ==
    ASSUME TypeOK,
           \/ Start \/ MarkRunning \/ MarkDegraded \/ Stop \/ MarkIdle
           \/ ReadRoom \/ ReadSlots \/ \E c \in Scopes : Reapply(c) \/ ReapplyFails(c)
    PROVE  TypeOK'
<1> USE DEF TypeOK
<1>1. rec \in Pass /\ rec.read \in [Scopes -> Rulesets] /\ rec.todo \subseteq Scopes
  BY PassTypes
<1>2. Room \in Scopes /\ Read(Room) \in Rulesets /\ Slots \subseteq Scopes
  BY ReadTypes DEF Scopes
<1>3. CASE Start \/ MarkDegraded \/ Stop \/ MarkIdle
  <2>1. state' \in States
    BY <1>3 DEF Start, MarkDegraded, Stop, MarkIdle, Moves, States
  <2>2. budget' = budget \/ Spend("faults")
    BY <1>3 DEF Start, MarkDegraded, Stop, MarkIdle
  <2>3. budget' \in [{"edits", "faults"} -> Nat]
    BY <2>2, SpendTypes
  <2>4. UNCHANGED <<filters, applied, cmds, task, disp, rec, edited, lapse>>
    BY <1>3 DEF Start, MarkDegraded, Stop, MarkIdle, Moves, Reconciling
  <2> QED
    BY <2>1, <2>3, <2>4
<1>4. CASE MarkRunning
  <2>1. rec' \in Pass
    BY <1>4, PassTypes DEF MarkRunning
  <2>2. state' \in States
    BY <1>4 DEF MarkRunning, Moves, States
  <2>3. UNCHANGED <<filters, applied, cmds, task, disp, edited, lapse, budget>>
    BY <1>4 DEF MarkRunning, Moves, Reconciling
  <2> QED
    BY <2>1, <2>2, <2>3
<1>5. CASE ReadRoom
  <2>1. [rec.read EXCEPT ![Room] = Read(Room)] \in [Scopes -> Rulesets]
    BY <1>1, <1>2
  <2>2. rec' = [rec EXCEPT !.at = "slots", !.read = [rec.read EXCEPT ![Room] = Read(Room)]]
    BY <1>5, <1>1 DEF ReadRoom, Pass
  <2>3. rec' \in Pass
    BY <1>1, <2>1, <2>2, PassTypes
  <2> QED
    BY <1>5, <1>2, <2>3 DEF ReadRoom, Reconciling
<1>6. CASE ReadSlots
  <2> DEFINE r == [c \in Scopes |-> IF c \in Slots THEN Read(c) ELSE rec.read[c]]
             t == Diverging \cup {Room}
  <2>1. r \in [Scopes -> Rulesets]
    BY <1>1, ReadTypes
  <2>2. t \in SUBSET Scopes /\ Diverging \subseteq Scopes
    BY <1>2 DEF Diverging
  <2>3. rec' \in {NoPass, [rec EXCEPT !.at = "push", !.todo = t, !.read = r]}
    BY <1>6 DEF ReadSlots
  <2> HIDE DEF r, t
  <2>4. [rec EXCEPT !.at = "push", !.todo = t, !.read = r] \in Pass
    BY <1>1, <2>1, <2>2 DEF Pass
  <2>5. rec' \in Pass
    BY <2>3, <2>4, PassTypes
  <2>6. lapse' \subseteq Scopes
    BY <1>6, <2>2 DEF ReadSlots
  <2> QED
    BY <1>6, <2>5, <2>6 DEF ReadSlots, Reconciling
<1>7. ASSUME NEW c \in Scopes, Reapply(c) \/ ReapplyFails(c) PROVE TypeOK'
  <2>1. rec' \in {NoPass, [rec EXCEPT !.todo = rec.todo \ {c}]}
    BY <1>7 DEF Reapply, ReapplyFails, Reapplied
  <2>2. rec.todo \ {c} \in SUBSET Scopes
    BY <1>1
  <2> DEFINE less == rec.todo \ {c}
  <2> HIDE DEF less
  <2>3. [rec EXCEPT !.todo = less] \in Pass
    BY <1>1, <2>2 DEF Pass, less
  <2>4. rec' \in Pass
    BY <2>1, <2>3, PassTypes DEF less
  <2>5. applied' \in [Scopes -> Rulesets] /\ lapse' \subseteq Scopes
    BY <1>7, <1>1 DEF Reapply, ReapplyFails
  <2>6. budget' \in [{"edits", "faults"} -> Nat]
    BY <1>7, SpendTypes DEF Reapply, ReapplyFails
  <2> QED
    BY <1>7, <2>4, <2>5, <2>6 DEF Reapply, ReapplyFails, Reconciling
<1> QED
  BY <1>3, <1>4, <1>5, <1>6, <1>7

LEMMA OthersTypes ==
    ASSUME TypeOK, OrchestratorDies \/ World
    PROVE  TypeOK'
<1> USE DEF TypeOK
<1>1. NoErrand \in Errand /\ NoPass \in Pass /\ disp.scope \in Scopes /\ rec.todo \subseteq Scopes
  BY PassTypes DEF Errand, NoErrand, Scopes, Rulesets
<1>2. CASE OrchestratorDies
  <2>1. lapse' \subseteq Scopes
    BY <1>2, <1>1 DEF OrchestratorDies
  <2>2. budget' \in [{"edits", "faults"} -> Nat]
    BY <1>2, SpendTypes DEF OrchestratorDies
  <2>3. disp' \in Errand /\ rec' \in Pass
    BY <1>2, <1>1 DEF OrchestratorDies
  <2>4. UNCHANGED <<state, filters, applied, cmds, task, edited>>
    BY <1>2 DEF OrchestratorDies
  <2> QED
    BY <2>1, <2>2, <2>3, <2>4
<1>3. CASE SaveLost
  <2>1. applied' \in [Scopes -> Rulesets]
    BY <1>3 DEF SaveLost, Rulesets
  <2> QED
    BY <1>3, <2>1, SpendTypes DEF SaveLost, Outside
<1>4. ASSUME NEW s \in Slots, NEW rules \in Rules, SetDirectly(s, rules) PROVE TypeOK'
  <2>1. s \in Scopes /\ rules \in Rulesets
    BY DEF Scopes, Rulesets
  <2>2. applied' \in [Scopes -> Rulesets] /\ lapse' \subseteq Scopes
    BY <1>4, <2>1 DEF SetDirectly
  <2> QED
    BY <1>4, <2>2, SpendTypes DEF SetDirectly, Outside
<1>5. ASSUME NEW c \in Scopes, Garble(c) PROVE TypeOK'
  <2>1. filters' \in [Scopes -> Rulesets \cup {Unreadable}] /\ lapse' \subseteq Scopes
    BY <1>5 DEF Garble
  <2> QED
    BY <1>5, <2>1, SpendTypes DEF Garble, Outside
<1> QED
  BY <1>2, <1>3, <1>4, <1>5 DEF World

LEMMA InitTypes == Init => TypeOK
<1> SUFFICES ASSUME Init PROVE TypeOK
  OBVIOUS
<1>1. NoTask \in Task /\ NoErrand \in Errand
  BY DEF NoTask, Task, NoErrand, Errand, Scopes, Rulesets, States
<1>2. filters \in [Scopes -> Rulesets \cup {Unreadable}] /\ applied \in [Scopes -> Rulesets]
  BY DEF Init, Rulesets
<1>3. budget \in [{"edits", "faults"} -> Nat]
  BY DEF Init
<1>4. rec \in Pass /\ disp \in Errand /\ task \in [Handlers -> Task]
  BY <1>1, PassTypes DEF Init
<1>5. cmds \in Seq(Scopes) /\ state \in States
  BY DEF Init, States
<1> QED
  BY <1>2, <1>3, <1>4, <1>5 DEF Init, TypeOK

LEMMA StepTypes ==
    ASSUME TypeOK, [Next]_vars
    PROVE  TypeOK'
<1>1. CASE UNCHANGED vars
  BY <1>1 DEF TypeOK, vars
<1>2. CASE Next
  BY <1>2, WebTypes, DispatcherTypes, ReconcilerTypes, OthersTypes DEF Next, Orchestrator
<1> QED
  BY <1>1, <1>2

\* The state is always well typed: no handler, dispatcher or reconciler ever
\* gives the room a row it could not read.
THEOREM TypesHold == Spec => []TypeOK
<1>1. Init => TypeOK
  BY InitTypes
<1>2. TypeOK /\ [Next]_vars => TypeOK'
  BY StepTypes
<1> QED
  BY <1>1, <1>2, PTL DEF Spec

-----------------------------------------------------------------------------
(***************************************************************************)
(* Who has a scope in hand.                                                *)
(***************************************************************************)

LEMMA AssertingKept ==
    ASSUME TypeOK, Asserting, [Next]_vars
    PROVE  Asserting'
<1>1. CASE UNCHANGED <<state, rec>>
  BY <1>1 DEF Asserting
<1>2. CASE Start \/ MarkDegraded \/ Stop \/ MarkIdle
  BY <1>2 DEF Start, MarkDegraded, Stop, MarkIdle, Moves, Asserting
<1>3. CASE MarkRunning
  BY <1>3 DEF MarkRunning, Moves, Asserting
<1>4. ASSUME rec.at # "rest", state' = state PROVE Asserting'
  BY <1>4 DEF Asserting
<1>5. CASE ReadRoom
  BY <1>5, <1>4 DEF ReadRoom
<1>6. CASE ReadSlots
  BY <1>6, <1>4 DEF ReadSlots
<1>7. ASSUME NEW c \in Scopes, Reapply(c) \/ ReapplyFails(c) PROVE Asserting'
  BY <1>7, <1>4 DEF Reapply, ReapplyFails
<1>8. CASE OrchestratorDies
  BY <1>8 DEF OrchestratorDies, NoPass, Asserting
<1> QED
  BY <1>1, <1>2, <1>3, <1>5, <1>6, <1>7, <1>8
     DEF Next, vars, Web, Webbing, Edit, Write, Tell, HandlerDies, Orchestrator,
         Claim, Reach, Reject, ReadTables, Push, PushFails, Dispatching,
         World, SaveLost, SetDirectly, Garble, Outside

LEMMA KnownKept ==
    ASSUME TypeOK, Known, [Next]_vars
    PROVE  Known'
<1> USE DEF Known
<1>0. ASSUME cmds' = cmds PROVE InLine' = InLine
  BY <1>0 DEF InLine
<1>01. /\ task \in [Handlers -> Task] /\ disp \in Errand /\ rec \in Pass
      /\ disp.scope \in Scopes /\ filters \in [Scopes -> Rulesets \cup {Unreadable}]
      /\ \A h \in Handlers : task[h].scope \in Scopes
  BY DEF TypeOK, Task, Errand
<1>1. CASE UNCHANGED vars
  BY <1>1, <1>0 DEF vars
<1>2. ASSUME NEW h \in Handlers, NEW c \in Scopes, NEW rules \in Rulesets, Edit(h, c, rules)
      PROVE  Known'
  <2>1. \A k \in Handlers : task'[k].at = "tell" => task'[k] = task[k]
    BY <1>2, <1>01 DEF Edit
  <2> QED
    BY <1>2, <2>1, <1>0 DEF Edit, Webbing
<1>3. ASSUME NEW h \in Handlers, Write(h) PROVE Known'
  <2>1. \A k \in Handlers : task'[k].at = "tell" =>
            task'[k].scope = task[h].scope \/ task'[k] = task[k]
    BY <1>3, <1>01 DEF Write, NoTask, Task
  <2>2. edited' = edited \cup {task[h].scope}
    BY <1>3 DEF Write
  <2>3. \A c \in Scopes : filters'[c] = filters[c] \/ c = task[h].scope
    BY <1>3, <1>01 DEF Write
  <2> QED
    BY <1>3, <2>1, <2>2, <2>3, <1>0 DEF Write, Webbing
<1>4. ASSUME NEW h \in Handlers, Tell(h) PROVE Known'
  <2>1. \A k \in Handlers : task'[k].at = "tell" => task'[k] = task[k]
    BY <1>4, <1>01 DEF Tell, NoTask
  <2>2. InLine' = InLine \cup {task[h].scope} /\ task[h].scope \in edited
    BY <1>4, <1>01, QueueGrows DEF Tell
  <2> QED
    BY <1>4, <2>1, <2>2 DEF Tell, Webbing
<1>5. ASSUME NEW h \in Handlers, HandlerDies(h) PROVE Known'
  <2>1. \A k \in Handlers : task'[k].at = "tell" => task'[k] = task[k]
    BY <1>5, <1>01 DEF HandlerDies, NoTask
  <2> QED
    BY <1>5, <2>1, <1>0 DEF HandlerDies, Webbing
<1>6. CASE Claim
  <2>1. InLine' \subseteq InLine /\ Head(cmds) \in InLine
    BY <1>6, QueueShrinks DEF Claim
  <2>2. disp'.scope = Head(cmds)
    BY <1>6 DEF Claim, NoErrand
  <2> QED
    BY <1>6, <2>1, <2>2 DEF Claim, Dispatching
<1>7. CASE Reach \/ Reject \/ ReadTables \/ Push \/ PushFails
  <2>1. CASE Reach \/ ReadTables
    <3>1. disp.at # "rest" /\ disp'.scope = disp.scope
      BY <2>1, <1>01 DEF Reach, ReadTables, Errand
    <3> QED
      BY <3>1, <2>1, <1>0 DEF Reach, ReadTables, Dispatching
  <2>2. CASE Reject \/ Push \/ PushFails
    <3>1. disp'.at = "rest"
      BY <2>2 DEF Reject, Push, PushFails, NoErrand
    <3> QED
      BY <3>1, <2>2, <1>0 DEF Reject, Push, PushFails, Dispatching
  <2> QED
    BY <1>7, <2>1, <2>2
<1>8. ASSUME Reconciling, rec'.at = "push" => rec'.todo \subseteq edited \cup {Room}
      PROVE  Known'
  BY <1>8, <1>0 DEF Reconciling
<1>9. CASE Start \/ MarkRunning \/ MarkDegraded \/ Stop \/ MarkIdle
  <2>1. rec' = rec \/ rec'.at = "room"
    BY <1>9 DEF Start, MarkRunning, MarkDegraded, Stop, MarkIdle, NoPass
  <2>2. Reconciling
    BY <1>9 DEF Start, MarkRunning, MarkDegraded, Stop, MarkIdle, Moves
  <2> QED
    BY <2>1, <2>2, <1>8
<1>10. CASE ReadRoom
  <2>1. rec'.at = "slots"
    BY <1>10, <1>01 DEF ReadRoom, Pass
  <2> QED
    BY <1>10, <2>1, <1>8 DEF ReadRoom
<1>11. CASE ReadSlots
  <2>1. Diverging \subseteq edited
    BY DEF Diverging, Scopes
  <2>2. rec'.at = "push" => rec'.todo = Diverging \cup {Room}
    BY <1>11, <1>01 DEF ReadSlots, NoPass, Pass
  <2> QED
    BY <1>11, <2>1, <2>2, <1>8 DEF ReadSlots
<1>12. ASSUME NEW c \in Scopes, Reapply(c) \/ ReapplyFails(c) PROVE Known'
  <2>1. rec'.at = "push" => rec.at = "push" /\ rec'.todo \subseteq rec.todo
    BY <1>12, <1>01 DEF Reapply, ReapplyFails, Reapplied, NoPass, Pass
  <2> QED
    BY <1>12, <2>1, <1>8 DEF Reapply, ReapplyFails
<1>13. CASE OrchestratorDies
  BY <1>13, <1>0 DEF OrchestratorDies, NoErrand, NoPass
<1>14. CASE World
  <2>1. \A c \in Scopes : filters'[c] # Follows => filters[c] # Follows
    BY <1>14, <1>01 DEF World, SaveLost, SetDirectly, Garble
  <2>2. Outside
    BY <1>14 DEF World, SaveLost, SetDirectly, Garble
  <2> QED
    BY <2>1, <2>2, <1>0 DEF Outside
<1> QED
  BY <1>1, <1>2, <1>3, <1>4, <1>5, <1>6, <1>7, <1>9, <1>10, <1>11, <1>12, <1>13, <1>14
     DEF Next, Web, Orchestrator

-----------------------------------------------------------------------------
(***************************************************************************)
(* A change stays carried.                                                 *)
(***************************************************************************)

LEMMA LineKept == cmds' = cmds => InLine' = InLine
BY DEF InLine

\* Nothing that the scope's change rests on moves.
LEMMA StillCarried ==
    ASSUME NEW c \in Scopes, Carried(c),
           Asked(c) => Asked(c)',
           filters'[c] = filters[c], applied'[c] = applied[c],
           WillRead(c) => WillRead(c)',
           DispHolds(c)' = DispHolds(c), DispHolds(c) => disp'.rules = disp.rules,
           RecHolds(c)' = RecHolds(c), RecHolds(c) => rec'.read[c] = rec.read[c],
           RecWillPush(c)' = RecWillPush(c)
    PROVE  Carried(c)'
BY DEF Carried, NextStartSays, Said, HoldersAgree, Read

LEMMA WebCarries ==
    ASSUME TypeOK, CarriedAll, Web
    PROVE  CarriedAll'
<1> SUFFICES ASSUME NEW c \in Scopes, c \notin lapse'
             PROVE  Carried(c)'
  BY DEF CarriedAll
<1>1. task \in [Handlers -> Task] /\ filters \in [Scopes -> Rulesets \cup {Unreadable}]
  BY DEF TypeOK
<1>2. UNCHANGED <<state, applied, disp, rec>>
  BY DEF Web, Edit, Write, Tell, HandlerDies, Webbing
<1>3. /\ WillRead(c)' = WillRead(c) /\ DispHolds(c)' = DispHolds(c)
      /\ RecHolds(c)' = RecHolds(c) /\ RecWillPush(c)' = RecWillPush(c)
  BY <1>2 DEF WillRead, DispHolds, RecHolds, RecWillPush
<1>4. ASSUME c \notin lapse, Asked(c) => Asked(c)', filters'[c] = filters[c] PROVE Carried(c)'
  BY <1>2, <1>3, <1>4, StillCarried DEF CarriedAll
<1>5. ASSUME NEW h \in Handlers, NEW d \in Scopes, NEW rules \in Rulesets, Edit(h, d, rules)
      PROVE  Carried(c)'
  <2>1. \A k \in Handlers : task[k].at = "tell" => task'[k] = task[k]
    BY <1>1, <1>5 DEF Edit
  <2>2. Asked(c) => Asked(c)'
    BY <1>2, <1>5, <2>1, LineKept DEF Asked, Edit
  <2> QED
    BY <1>4, <1>5, <2>2 DEF Edit
<1>6. ASSUME NEW h \in Handlers, Write(h) PROVE Carried(c)'
  <2>1. \A k \in Handlers : task[k].at = "tell" => task'[k] = task[k]
    BY <1>1, <1>6 DEF Write
  <2>2. c \notin lapse
    BY <1>6 DEF Write
  <2>3. CASE c # task[h].scope
    <3>1. filters'[c] = filters[c]
      BY <1>1, <1>6, <2>3 DEF Write
    <3>2. Asked(c) => Asked(c)'
      BY <1>2, <1>6, <2>1, LineKept DEF Asked, Write
    <3> QED
      BY <1>4, <2>2, <3>1, <3>2
  <2>4. CASE c = task[h].scope /\ task[h].seen = "running"
    <3>1. task'[h].at = "tell" /\ task'[h].scope = c
      BY <1>1, <1>6, <2>4 DEF Write, Task
    <3> QED
      BY <3>1 DEF Carried, Asked
  <2>5. CASE c = task[h].scope /\ task[h].seen # "running"
    <3>1. WillRead(c) /\ task[h].rules # Follows
      BY <1>6, <2>5 DEF Write
    <3>2. filters'[c] # Follows
      BY <1>1, <1>6, <2>5, <3>1 DEF Write
    <3> QED
      BY <3>1, <3>2, <1>3 DEF Carried, NextStartSays
  <2> QED
    BY <2>3, <2>4, <2>5
<1>7. ASSUME NEW h \in Handlers, Tell(h) PROVE Carried(c)'
  <2>1. task[h].scope \in Scopes
    BY <1>1 DEF Task
  <2>2. InLine' = InLine \cup {task[h].scope}
    BY <1>7, <2>1, QueueGrows DEF Tell
  <2>3. \A k \in Handlers : k # h => task'[k] = task[k]
    BY <1>1, <1>7 DEF Tell
  <2>4. Asked(c) => Asked(c)'
    BY <1>2, <2>2, <2>3 DEF Asked
  <2> QED
    BY <1>4, <1>7, <2>4 DEF Tell
<1>8. ASSUME NEW h \in Handlers, HandlerDies(h) PROVE Carried(c)'
  <2>1. \A k \in Handlers : k # h => task'[k] = task[k]
    BY <1>1, <1>8 DEF HandlerDies
  <2>2. task[h].at = "tell" => task[h].scope # c
    BY <1>8 DEF HandlerDies
  <2>3. Asked(c) => Asked(c)'
    BY <1>2, <1>8, <2>1, <2>2, LineKept DEF Asked, HandlerDies
  <2> QED
    BY <1>4, <1>8, <2>3 DEF HandlerDies
<1> QED
  BY <1>5, <1>6, <1>7, <1>8 DEF Web

LEMMA DispatcherCarries ==
    ASSUME TypeOK, CarriedAll, Claim \/ Reach \/ Reject \/ ReadTables \/ Push \/ PushFails
    PROVE  CarriedAll'
<1> SUFFICES ASSUME NEW c \in Scopes, c \notin lapse'
             PROVE  Carried(c)'
  BY DEF CarriedAll
<1>1. disp \in Errand /\ applied \in [Scopes -> Rulesets]
  BY DEF TypeOK
<1>2. UNCHANGED <<state, filters, task, rec>>
  BY DEF Claim, Reach, Reject, ReadTables, Push, PushFails, Dispatching
<1>3. /\ WillRead(c)' = WillRead(c) /\ Read(c)' = Read(c)
      /\ RecHolds(c)' = RecHolds(c) /\ RecWillPush(c)' = RecWillPush(c)
  BY <1>2 DEF WillRead, Read, RecHolds, RecWillPush
<1>4. ASSUME c \notin lapse, Asked(c) => Asked(c)', applied'[c] = applied[c],
             ~DispHolds(c), ~DispHolds(c)'
      PROVE  Carried(c)'
  BY <1>2, <1>3, <1>4 DEF CarriedAll, Carried, NextStartSays, Said, HoldersAgree
<1>5. CASE Claim
  <2>1. InLine \subseteq InLine' \cup {Head(cmds)}
    BY <1>5, QueueShrinks DEF Claim
  <2>2. disp.at = "rest" /\ disp'.at = "reach" /\ disp'.scope = Head(cmds)
    BY <1>5 DEF Claim, NoErrand
  <2>3. Asked(c) => Asked(c)'
    BY <1>2, <2>1, <2>2 DEF Asked
  <2> QED
    BY <1>4, <1>5, <2>2, <2>3 DEF Claim, DispHolds
<1>6. CASE Reach
  <2>1. disp.at = "reach" /\ disp'.at = "read" /\ disp'.scope = disp.scope
    BY <1>1, <1>6 DEF Reach, Errand
  <2>2. Asked(c) => Asked(c)'
    BY <1>2, <1>6, <2>1, LineKept DEF Asked, Reach
  <2> QED
    BY <1>4, <1>6, <2>1, <2>2 DEF Reach, DispHolds
<1>7. CASE Reject
  <2>1. disp.at = "reach" /\ disp'.at = "rest"
    BY <1>7 DEF Reject, NoErrand
  <2>2. CASE c # disp.scope
    <3>1. Asked(c) => Asked(c)'
      BY <1>2, <1>7, <2>2, LineKept DEF Asked, Reject
    <3> QED
      BY <1>4, <1>7, <2>1, <3>1 DEF Reject, DispHolds
  <2>3. CASE c = disp.scope
    <3>1. filters[c] # Follows /\ state # "running"
      BY <1>7, <2>3 DEF Reject
    <3> QED
      BY <1>2, <3>1 DEF Carried, NextStartSays, WillRead
  <2> QED
    BY <2>2, <2>3
<1>8. CASE ReadTables
  <2>1. /\ disp.at = "read" /\ disp'.at = "push" /\ disp'.scope = disp.scope
        /\ disp'.rules = Read(disp.scope)
    BY <1>1, <1>8 DEF ReadTables, Errand
  <2>2. CASE c # disp.scope
    <3>1. Asked(c) => Asked(c)'
      BY <1>2, <1>8, <2>2, LineKept DEF Asked, ReadTables
    <3> QED
      BY <1>4, <1>8, <2>1, <2>2, <3>1 DEF ReadTables, DispHolds
  <2>3. CASE c = disp.scope
    <3>1. RecHolds(c) => rec.read[c] = Read(c)
      BY <1>8, <2>3 DEF ReadTables
    <3>2. disp'.rules = Read(c)' /\ DispHolds(c)'
      BY <1>3, <2>1, <2>3 DEF DispHolds
    <3> QED
      BY <1>2, <1>3, <3>1, <3>2 DEF Carried, Said, HoldersAgree
  <2> QED
    BY <2>2, <2>3
<1>9. CASE Push
  <2>1. disp.at = "push" /\ disp'.at = "rest" /\ c \notin lapse
    BY <1>9 DEF Push, NoErrand
  <2>2. Asked(c) => Asked(c)'
    BY <1>2, <1>9, <2>1, LineKept DEF Asked, Push
  <2>3. CASE c # disp.scope
    BY <1>1, <1>4, <1>9, <2>1, <2>2, <2>3 DEF Push, DispHolds
  <2>4. CASE c = disp.scope
    <3>1. applied'[c] = disp.rules
      BY <1>1, <1>9, <2>4 DEF Push
    <3>2. DispHolds(c) /\ ~DispHolds(c)'
      BY <2>1, <2>4 DEF DispHolds
    <3>3. Said(c) => Said(c)'
      BY <1>2, <1>3, <3>1, <3>2 DEF Said, HoldersAgree
    <3>4. NextStartSays(c) => NextStartSays(c)'
      BY <1>2, <1>3 DEF NextStartSays
    <3> QED
      BY <2>1, <2>2, <3>3, <3>4 DEF CarriedAll, Carried
  <2> QED
    BY <2>3, <2>4
<1>10. CASE PushFails
  <2>1. disp.at = "push" /\ disp'.at = "rest" /\ c # disp.scope /\ c \notin lapse
    BY <1>10 DEF PushFails, NoErrand
  <2>2. Asked(c) => Asked(c)'
    BY <1>2, <1>10, <2>1, LineKept DEF Asked, PushFails
  <2> QED
    BY <1>4, <1>10, <2>1, <2>2 DEF PushFails, DispHolds
<1> QED
  BY <1>5, <1>6, <1>7, <1>8, <1>9, <1>10

LEMMA ReconcilerCarries ==
    ASSUME TypeOK, Asserting, CarriedAll,
           \/ Start \/ MarkRunning \/ MarkDegraded \/ Stop \/ MarkIdle
           \/ ReadRoom \/ ReadSlots \/ \E c \in Scopes : Reapply(c) \/ ReapplyFails(c)
    PROVE  CarriedAll'
<1> SUFFICES ASSUME NEW c \in Scopes, c \notin lapse'
             PROVE  Carried(c)'
  BY DEF CarriedAll
<1>1. /\ rec \in Pass /\ rec.read \in [Scopes -> Rulesets] /\ rec.todo \subseteq Scopes
      /\ applied \in [Scopes -> Rulesets]
  BY PassTypes DEF TypeOK
<1>2. UNCHANGED <<filters, cmds, task, disp>>
  BY DEF Start, MarkRunning, MarkDegraded, Stop, MarkIdle, Moves, ReadRoom, ReadSlots,
         Reapply, ReapplyFails, Reconciling
<1>3. /\ Asked(c)' = Asked(c) /\ Read(c)' = Read(c) /\ DispHolds(c)' = DispHolds(c)
  BY <1>2, LineKept DEF Asked, Read, DispHolds
<1>4. ASSUME c \notin lapse, applied'[c] = applied[c], WillRead(c) => WillRead(c)',
             RecHolds(c)' = RecHolds(c), RecHolds(c) => rec'.read[c] = rec.read[c],
             RecWillPush(c)' = RecWillPush(c)
      PROVE  Carried(c)'
  BY <1>2, <1>3, <1>4, StillCarried DEF CarriedAll
<1>5. CASE Start \/ MarkDegraded \/ Stop \/ MarkIdle
  <2>1. /\ rec.at = "rest" /\ rec' = rec /\ state' # "running"
        /\ UNCHANGED <<applied, lapse>>
    BY <1>5 DEF Start, MarkDegraded, Stop, MarkIdle, Moves
  <2> QED
    BY <1>4, <2>1 DEF WillRead, RecHolds, RecWillPush
<1>6. CASE MarkRunning
  <2>1. rec.at = "rest" /\ rec'.at = "room" /\ UNCHANGED <<applied, lapse>>
    BY <1>6 DEF MarkRunning, Moves, NoPass
  <2> QED
    BY <1>4, <2>1 DEF WillRead, RecHolds, RecWillPush
<1>7. CASE ReadRoom
  <2>1. /\ rec.at = "room" /\ rec'.at = "slots" /\ UNCHANGED <<state, applied>>
        /\ rec'.read[Room] = Read(Room)
    BY <1>1, <1>7 DEF ReadRoom, Pass, Scopes
  <2>2. CASE c # Room
    <3>1. c \notin lapse
      BY <1>7, <2>2 DEF ReadRoom
    <3> QED
      BY <1>4, <2>1, <2>2, <3>1 DEF WillRead, RecHolds, RecWillPush
  <2>3. CASE c = Room
    <3>1. DispHolds(c) => disp.rules = Read(c)
      BY <1>7, <2>3 DEF ReadRoom, Crossed
    <3>2. HoldersAgree(c)'
      BY <1>2, <1>3, <2>1, <2>3, <3>1 DEF HoldersAgree
    <3>3. CASE filters[c] # Follows
      <4>1. Read(c) # Follows
        BY <3>3 DEF Read, Exempt, Follows
      <4>2. RecWillPush(c)'
        BY <2>1, <2>3, <4>1 DEF RecWillPush
      <4> QED
        BY <3>2, <4>2 DEF Carried, Said
    <3>4. CASE filters[c] = Follows
      <4>1. Carried(c)
        BY <1>7, <2>3, <3>4 DEF ReadRoom, CarriedAll
      <4>2. ~NextStartSays(c) /\ ~RecWillPush(c)
        BY <2>1, <3>4 DEF NextStartSays, RecWillPush
      <4> QED
        BY <1>3, <2>1, <3>2, <4>1, <4>2 DEF Carried, Said
    <3> QED
      BY <3>3, <3>4
  <2> QED
    BY <2>2, <2>3
<1>8. CASE ReadSlots
  <2>0. rec.at = "slots" /\ state = "running" /\ UNCHANGED <<state, applied>>
    BY <1>8 DEF ReadSlots, Asserting
  <2>1. CASE rec.read[Room] = Follows /\ Diverging = {}
    <3>1. rec' = NoPass /\ lapse' = lapse
      BY <1>8, <2>1 DEF ReadSlots
    <3>2. ~RecHolds(c)' /\ ~RecWillPush(c)' /\ ~RecWillPush(c)
      BY <2>0, <2>1, <3>1 DEF RecHolds, RecWillPush, NoPass
    <3>3. ~NextStartSays(c)
      BY <2>0, <2>1 DEF NextStartSays, WillRead, Diverging, Scopes
    <3>4. Said(c) => Said(c)'
      BY <1>2, <1>3, <2>0, <3>2 DEF Said, HoldersAgree
    <3> QED
      BY <1>3, <3>1, <3>3, <3>4 DEF CarriedAll, Carried
  <2>2. CASE ~(rec.read[Room] = Follows /\ Diverging = {})
    <3>1. /\ rec'.at = "push" /\ rec'.todo = Diverging \cup {Room}
          /\ rec'.read = [d \in Scopes |-> IF d \in Slots THEN Read(d) ELSE rec.read[d]]
      BY <1>1, <1>8, <2>2 DEF ReadSlots, Pass
    <3>2. CASE c \in Diverging
      <4>1. /\ DispHolds(c) => disp.rules = Read(c)
            /\ rec'.read[c] = Read(c)
        BY <1>8, <3>1, <3>2 DEF ReadSlots, Crossed, Diverging
      <4>2. RecWillPush(c)'
        BY <3>1, <3>2 DEF RecWillPush
      <4> QED
        BY <1>2, <1>3, <4>1, <4>2 DEF Carried, Said, HoldersAgree
    <3>3. CASE c \notin Diverging /\ c # Room
      <4>1. c \notin lapse
        BY <1>8, <3>3 DEF ReadSlots
      <4>2. ~NextStartSays(c)
        BY <3>3 DEF NextStartSays, Diverging, Scopes
      <4>3. /\ ~RecHolds(c) /\ ~RecHolds(c)' /\ ~RecWillPush(c) /\ ~RecWillPush(c)'
        BY <2>0, <3>1, <3>3 DEF RecHolds, RecWillPush
      <4>4. Said(c) => Said(c)'
        BY <1>2, <1>3, <2>0, <4>3 DEF Said, HoldersAgree
      <4> QED
        BY <1>3, <4>1, <4>2, <4>4 DEF CarriedAll, Carried
    <3>4. CASE c = Room
      <4>1. c \notin lapse
        BY <1>8, <3>4 DEF ReadSlots, Diverging
      <4>2. ~NextStartSays(c)
        BY <2>0, <3>4 DEF NextStartSays, WillRead
      <4>3. RecHolds(c) /\ rec'.read[c] = rec.read[c] /\ RecWillPush(c)'
        BY <2>0, <3>1, <3>4 DEF RecHolds, RecWillPush
      <4>4. Said(c) => Said(c)'
        BY <1>2, <1>3, <4>3 DEF Said, HoldersAgree
      <4> QED
        BY <1>3, <4>1, <4>2, <4>4 DEF CarriedAll, Carried
    <3> QED
      BY <3>2, <3>3, <3>4
  <2> QED
    BY <2>1, <2>2
<1>9. ASSUME NEW d \in Scopes, Reapply(d) \/ ReapplyFails(d) PROVE Carried(c)'
  <2>1. rec.at = "push" /\ d \in rec.todo /\ state = "running" /\ state' = state
    BY <1>9 DEF Reapply, ReapplyFails, Asserting
  <2>2. ~RecHolds(d)' /\ ~RecWillPush(d)'
    BY <1>1, <1>9, <2>1 DEF Reapply, ReapplyFails, Reapplied, NoPass, Pass, RecHolds, RecWillPush
  <2>3. c # d => /\ RecHolds(c)' = RecHolds(c) /\ RecWillPush(c)' = RecWillPush(c)
                 /\ RecHolds(c) => rec'.read[c] = rec.read[c]
    <3>1. CASE rec.todo = {d}
      <4>1. rec' = NoPass
        BY <1>9, <3>1 DEF Reapply, ReapplyFails, Reapplied
      <4> QED
        BY <2>1, <3>1, <4>1 DEF NoPass, RecHolds, RecWillPush
    <3>2. CASE rec.todo # {d}
      <4>1. rec'.at = rec.at /\ rec'.todo = rec.todo \ {d} /\ rec'.read = rec.read
        BY <1>1, <1>9, <3>2 DEF Reapply, ReapplyFails, Reapplied, Pass
      <4> QED
        BY <2>1, <4>1 DEF RecHolds, RecWillPush
    <3> QED
      BY <3>1, <3>2
  <2>4. ~WillRead(c)
    BY <2>1 DEF WillRead
  <2>5. CASE c # d
    <3>1. c \notin lapse /\ applied'[c] = applied[c]
      BY <1>1, <1>9, <2>5 DEF Reapply, ReapplyFails
    <3> QED
      BY <1>4, <2>3, <2>4, <2>5, <3>1
  <2>6. CASE c = d
    <3>1. c \notin lapse /\ applied'[c] = rec.read[c]
      BY <1>1, <1>9, <2>6 DEF Reapply, ReapplyFails
    <3>2. RecHolds(c)
      BY <2>1, <2>6 DEF RecHolds
    <3>3. Said(c) => Said(c)'
      BY <1>2, <1>3, <2>2, <2>6, <3>1, <3>2 DEF Said, HoldersAgree
    <3>4. ~NextStartSays(c)
      BY <2>4 DEF NextStartSays
    <3> QED
      BY <1>3, <3>1, <3>3, <3>4 DEF CarriedAll, Carried
  <2> QED
    BY <2>5, <2>6
<1> QED
  BY <1>5, <1>6, <1>7, <1>8, <1>9

LEMMA WorldCarries ==
    ASSUME TypeOK, Asserting, CarriedAll, OrchestratorDies \/ World
    PROVE  CarriedAll'
<1> SUFFICES ASSUME NEW c \in Scopes, c \notin lapse'
             PROVE  Carried(c)'
  BY DEF CarriedAll
<1>1. /\ applied \in [Scopes -> Rulesets]
      /\ filters \in [Scopes -> Rulesets \cup {Unreadable}]
  BY DEF TypeOK
<1>2. UNCHANGED <<state, cmds, task>> /\ c \notin lapse
  BY DEF OrchestratorDies, World, SaveLost, SetDirectly, Garble, Outside
<1>3. CASE OrchestratorDies
  <2>1. /\ UNCHANGED <<filters, applied>> /\ disp'.at = "rest" /\ rec'.at = "rest"
        /\ disp.at # "rest" => disp.scope # c
    BY <1>3 DEF OrchestratorDies, NoErrand, NoPass
  <2>2. rec.at = "rest" \/ (rec.at = "push" /\ c \notin rec.todo)
    BY <1>3 DEF OrchestratorDies
  <2>3. Asked(c) => Asked(c)'
    BY <1>2, <2>1, LineKept DEF Asked
  <2>4. NextStartSays(c) => NextStartSays(c)'
    BY <1>2, <2>1, <2>2 DEF NextStartSays, WillRead
  <2>5. Said(c) => applied[c] = Read(c)
    BY <2>1, <2>2 DEF Said, DispHolds, RecWillPush
  <2>6. applied[c] = Read(c) => Said(c)'
    BY <2>1 DEF Said, HoldersAgree, DispHolds, RecHolds, Read
  <2> QED
    BY <1>2, <2>3, <2>4, <2>5, <2>6 DEF CarriedAll, Carried
<1>4. ASSUME UNCHANGED <<disp, rec>>
      PROVE  /\ Asked(c)' = Asked(c) /\ DispHolds(c)' = DispHolds(c)
             /\ RecHolds(c)' = RecHolds(c) /\ RecWillPush(c)' = RecWillPush(c)
             /\ WillRead(c)' = WillRead(c)
  BY <1>2, <1>4, LineKept DEF Asked, DispHolds, RecHolds, RecWillPush, WillRead
<1>5. ASSUME UNCHANGED <<disp, rec>>, filters'[c] = filters[c], applied'[c] = applied[c]
      PROVE  Carried(c)'
  BY <1>2, <1>4, <1>5, StillCarried DEF CarriedAll
<1>6. CASE SaveLost
  <2>1. state = "resting" /\ applied'[c] = Follows /\ UNCHANGED <<disp, rec, filters>>
    BY <1>6 DEF SaveLost, Outside
  <2>2. Read(c)' = Read(c)
    BY <2>1 DEF Read
  <2>3. CASE filters[c] = Follows
    <3>1. Read(c) = Follows
      BY <2>3 DEF Read, Unreadable, Follows
    <3>2. Said(c) => Said(c)'
      BY <1>4, <2>1, <2>2, <3>1 DEF Said, HoldersAgree
    <3>3. ~NextStartSays(c)
      BY <2>3 DEF NextStartSays
    <3> QED
      BY <1>2, <1>4, <2>1, <3>2, <3>3 DEF CarriedAll, Carried
  <2>4. CASE filters[c] # Follows
    BY <1>2, <2>1, <2>4 DEF Carried, NextStartSays, WillRead
  <2> QED
    BY <2>3, <2>4
<1>7. ASSUME NEW s \in Slots, NEW rules \in Rules, SetDirectly(s, rules) PROVE Carried(c)'
  <2>1. c # s /\ UNCHANGED <<disp, rec, filters>>
    BY <1>7 DEF SetDirectly, Outside
  <2>2. applied'[c] = applied[c]
    BY <1>1, <1>7, <2>1 DEF SetDirectly
  <2> QED
    BY <1>5, <2>1, <2>2
<1>8. ASSUME NEW d \in Scopes, Garble(d) PROVE Carried(c)'
  <2>1. UNCHANGED <<disp, rec, applied>>
    BY <1>8 DEF Garble, Outside
  <2>2. CASE c # d
    <3>1. filters'[c] = filters[c]
      BY <1>1, <1>8, <2>2 DEF Garble
    <3> QED
      BY <1>5, <2>1, <3>1
  <2>3. CASE c = d
    <3>1. WillRead(c) /\ filters'[c] = Unreadable
      BY <1>1, <1>8, <2>3 DEF Garble
    <3> QED
      BY <1>4, <2>1, <3>1 DEF Carried, NextStartSays, Unreadable, Follows
  <2> QED
    BY <2>2, <2>3
<1> QED
  BY <1>3, <1>6, <1>7, <1>8 DEF World

LEMMA InvInit == Init => TypeOK /\ Asserting /\ Known /\ CarriedAll
<1> SUFFICES ASSUME Init PROVE Asserting /\ Known /\ CarriedAll
  BY InitTypes
<1>1. InLine = {} /\ rec.at = "rest" /\ disp.at = "rest"
  BY DEF Init, InLine, NoPass, NoErrand
<1>2. \A h \in Handlers : task[h].at = "rest"
  BY DEF Init, NoTask
<1>3. Asserting /\ Known
  BY <1>1, <1>2 DEF Init, Asserting, Known
<1>4. ASSUME NEW c \in Scopes PROVE Said(c)
  BY <1>1 DEF Init, Said, HoldersAgree, DispHolds, RecHolds, Read, Unreadable, Follows
<1> QED
  BY <1>3, <1>4 DEF CarriedAll, Carried

LEMMA InvKept ==
    ASSUME Inv, [Next]_vars
    PROVE  Inv'
<1>1. TypeOK /\ Asserting /\ Known /\ CarriedAll
  BY DEF Inv
<1>2. CASE UNCHANGED vars
  BY <1>1, <1>2
     DEF vars, Inv, TypeOK, Asserting, Known, CarriedAll, Carried, Asked, InLine, NextStartSays,
         Said, HoldersAgree, DispHolds, RecHolds, RecWillPush, WillRead, Read
<1>3. CASE Next
  <2>1. TypeOK' /\ Asserting' /\ Known'
    BY <1>1, <1>3, StepTypes, AssertingKept, KnownKept
  <2>2. CarriedAll'
    BY <1>1, <1>3, WebCarries, DispatcherCarries, ReconcilerCarries, WorldCarries
       DEF Next, Orchestrator
  <2> QED
    BY <2>1, <2>2 DEF Inv
<1> QED
  BY <1>2, <1>3

LEMMA InvInForce == Inv => FilterInForce
<1> SUFFICES ASSUME Inv, state = "running", NEW c \in Scopes, c \notin lapse, ~UnderWay(c),
                    filters[c] # Unreadable
             PROVE  applied[c] = filters[c]
  BY DEF FilterInForce
<1>1. /\ \A h \in Handlers : ~(task[h].at = "tell" /\ task[h].scope = c)
      /\ c \notin InLine /\ rec.at = "rest" /\ (disp.at = "rest" \/ disp.scope # c)
  BY DEF UnderWay, InLine
<1>2. ~Asked(c) /\ ~NextStartSays(c)
  BY <1>1 DEF Asked, NextStartSays, WillRead
<1>3. Said(c)
  BY <1>2 DEF Inv, CarriedAll, Carried
<1>4. applied[c] = Read(c)
  BY <1>1, <1>3 DEF Said, DispHolds, RecWillPush
<1> QED
  BY <1>4 DEF Read

LEMMA OthersAreSpared ==
    ASSUME Inv, Next, NEW s \in Slots, s \notin edited', applied'[s] # applied[s]
    PROVE  World
<1>1. applied \in [Scopes -> Rulesets] /\ s \in Scopes /\ s # Room
  BY DEF Inv, TypeOK, Scopes
<1>2. CASE Web
  BY <1>2 DEF Web, Edit, Write, Tell, HandlerDies, Webbing
<1>3. CASE Push
  <2>1. disp.scope \in edited /\ disp.scope # s
    BY <1>3 DEF Inv, Known, Push, Dispatching
  <2> QED
    BY <1>1, <1>3, <2>1 DEF Push
<1>4. ASSUME NEW c \in Scopes, Reapply(c) PROVE FALSE
  <2>1. c \in edited \cup {Room} /\ c # s
    BY <1>1, <1>4 DEF Inv, Known, Reapply, Reconciling
  <2> QED
    BY <1>1, <1>4, <2>1 DEF Reapply
<1>5. CASE Claim \/ Reach \/ Reject \/ ReadTables \/ PushFails \/ OrchestratorDies
  BY <1>5 DEF Claim, Reach, Reject, ReadTables, PushFails, OrchestratorDies
<1>6. CASE Start \/ MarkRunning \/ MarkDegraded \/ Stop \/ MarkIdle \/ ReadRoom \/ ReadSlots
  BY <1>6 DEF Start, MarkRunning, MarkDegraded, Stop, MarkIdle, Moves, ReadRoom, ReadSlots
<1>7. ASSUME NEW c \in Scopes, ReapplyFails(c) PROVE FALSE
  BY <1>7 DEF ReapplyFails
<1> QED
  BY <1>2, <1>3, <1>4, <1>5, <1>6, <1>7 DEF Next, Orchestrator

\* A running room, once nothing is under way, filters by the rules stored for it
\* but for rows that cannot be parsed and changes known to have missed it, for any
\* slots, helpers, edits and faults (filters.rs, tell_the_room; steps.rs,
\* reapply_filters).
THEOREM FiltersInForce == Spec => []FilterInForce
<1>1. Init => Inv
  BY InvInit DEF Inv
<1>2. Inv /\ [Next]_vars => Inv'
  BY InvKept
<1> QED
  BY <1>1, <1>2, InvInForce, PTL DEF Spec

\* Only the room's own users change the rules of a slot that nobody set in Puna
\* (steps.rs, reapply_filters: what it deliberately does not do).
THEOREM OthersRulesAreKept == Spec => OthersRulesSurvive
<1>1. Init => Inv
  BY InvInit DEF Inv
<1>2. Inv /\ [Next]_vars => Inv'
  BY InvKept
<1>3. Inv /\ [Next]_vars => [\A s \in Slots \ edited' : applied'[s] # applied[s] => World]_vars
  BY OthersAreSpared DEF vars
<1> QED
  BY <1>1, <1>2, <1>3, PTL DEF Spec, OthersRulesSurvive
=============================================================================
