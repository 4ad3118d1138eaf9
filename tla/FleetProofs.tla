------------------------------ MODULE FleetProofs -----------------------------
(***************************************************************************)
(* Any number of rooms under one loop: what its passes plan, how far they  *)
(* are carried out, and what the rows count, for any pace and any number   *)
(* of sweeps.                                                              *)
(*                                                                         *)
(* A plan is carried out step by step while everybody else goes on, so     *)
(* each property needs what the rest of the plan still holds in store.     *)
(***************************************************************************)
EXTENDS Fleet, SequenceTheorems, FiniteSetTheorems, TLAPS

\* What a plan still holds in store for the pace.
Recreating == {r \in Rooms : plan[r] = "Recreate"}
Pace == IsFiniteSet(Recreating) /\ since.recreated + Cardinality(Recreating) <= MaxRecreates

\* The row's count of passes never runs ahead of the passes that counted.
Counts(r) ==
    /\ plan[r] \in {"NotReady", "MarkDegraded"} => room[r].state = "running"
    /\ room[r].state = "running" =>
          /\ room[r].notReady < DegradedSweeps
          /\ room[r].notReady <= unready[r]
    /\ plan[r] = "NotReady" => /\ room[r].notReady + 1 < DegradedSweeps
                               /\ room[r].notReady + 1 <= unready[r]
    /\ plan[r] = "MarkDegraded" => unready[r] + 1 >= DegradedSweeps

\* A pass that left nothing pending has planned nothing that would.
Underway == {"Start", "Recreate", "Stop", "MarkIdle"}
Settling ==
    loop.at = "resting" \/ (loop.at = "pass" /\ ~loop.pending) =>
        \A r \in Rooms : plan[r] \notin Underway /\ (r \in since.asked \/ ~MidFlight(r))

\* The fleet's inductive invariant.
FleetInv == TypeOK /\ Pace /\ (\A r \in Rooms : Counts(r)) /\ Settling

RoomRow == [state : {"idle", "stopping"} \cup Live,
            desired : {"running", "stopped"}, notReady : 0..DegradedSweeps]
LoopState == [at : {"awake", "pass", "converging", "resting", "failed"},
              left : 0..Interval, pending : BOOLEAN]
LineOK(l) == l \in Seq(Rooms) /\ \A i, j \in 1..Len(l) : l[i] = l[j] => i = j

\* Fleet's type invariant, its records by name.
LEMMA FleetTypes ==
    TypeOK <=> /\ room \in [Rooms -> RoomRow]
               /\ dep \in [Rooms -> {"none", "unready", "ready", "deleting"}]
               /\ LineOK(line)
               /\ loop \in LoopState
               /\ plan \in [Rooms -> Steps \cup {NoStep}]
               /\ unready \in [Rooms -> 0..DegradedSweeps]
               /\ since \in [recreated : Nat, asked : SUBSET Rooms]
               /\ faults \in 0..MaxFaults
BY DEF TypeOK, RoomRow, LoopState, LineOK

\* Every room runs and nobody has asked for anything.
LEMMA FleetInit == Init => FleetInv
<1> SUFFICES ASSUME Init PROVE FleetInv
  OBVIOUS
<1> USE PlannerAssumption, FleetAssumption DEF Init
<1>1. TypeOK
  BY DEF TypeOK, Live, NoPlan
<1>2. Recreating = {}
  BY DEF Recreating, NoPlan, NoStep
<1>3. Pace
  BY <1>2, FS_EmptySet DEF Pace
<1>4. \A r \in Rooms : Counts(r)
  BY DEF Counts, NoPlan, NoStep
<1> QED
  BY <1>1, <1>3, <1>4 DEF FleetInv, Settling

\* A request is where its Place says, and nowhere else.
LEMMA Placed ==
    ASSUME LineOK(line), NEW r, InLine(r)
    PROVE  /\ Place(r) \in 1..Len(line) /\ line[Place(r)] = r
           /\ \A i \in 1..Len(line) : line[i] = r => i = Place(r)
BY DEF LineOK, InLine, Place

\* A request that is served leaves the line and the others keep their order.
LEMMA LeavesLine ==
    ASSUME LineOK(line), NEW r \in Rooms, Satisfied(r)
    PROVE  LineOK(line')
<1>1. CASE ~InLine(r)
  BY <1>1 DEF Satisfied
<1>2. CASE InLine(r)
  <2> DEFINE p == Place(r)
             n == Len(line)
             front == SubSeq(line, 1, p - 1)
             back == SubSeq(line, p + 1, n)
  <2>1. /\ line \in Seq(Rooms) /\ n \in Nat /\ p \in 1..n
        /\ line' = front \o back
    <3>1. p \in 1..n
      BY <1>2, Placed
    <3>2. line' = front \o back
      BY <1>2, Zenon DEF Satisfied
    <3>3. line \in Seq(Rooms) /\ n \in Nat
      BY DEF LineOK
    <3> QED
      BY <3>1, <3>2, <3>3
  <2>2. /\ front \in Seq(Rooms) /\ Len(front) = p - 1
        /\ \A i \in 1..(p - 1) : front[i] = line[i]
    BY <2>1, SubSeqProperties
  <2>3. /\ back \in Seq(Rooms) /\ Len(back) = n - p
        /\ \A i \in 1..(n - p) : back[i] = line[p + i]
    BY <2>1, SubSeqProperties
  <2> HIDE DEF front, back, p, n
  <2>4. /\ line' \in Seq(Rooms) /\ Len(line') = n - 1
        /\ \A i \in 1..(n - 1) : line'[i] = IF i < p THEN line[i] ELSE line[i + 1]
    <3>1. /\ front \o back \in Seq(Rooms) /\ Len(front \o back) = p - 1 + (n - p)
          /\ \A i \in 1..(p - 1 + (n - p)) :
                (front \o back)[i] = IF i <= p - 1 THEN front[i] ELSE back[i - (p - 1)]
      BY <2>2, <2>3, ConcatProperties
    <3>2. p - 1 + (n - p) = n - 1
      BY <2>1
    <3>3. ASSUME NEW i \in 1..(n - 1)
          PROVE  line'[i] = IF i < p THEN line[i] ELSE line[i + 1]
      <4>1. CASE i < p
        BY <2>1, <2>2, <3>1, <3>2, <4>1
      <4>2. CASE ~(i < p)
        <5>1. i - (p - 1) \in 1..(n - p) /\ p + (i - (p - 1)) = i + 1
          BY <2>1, <4>2
        <5> DEFINE k == i - (p - 1)
        <5>2. line'[i] = back[k]
          <6>1. i \in 1..(p - 1 + (n - p)) /\ ~(i <= p - 1)
            BY <2>1, <3>2, <4>2
          <6> QED
            BY <2>1, <3>1, <6>1, Zenon
        <5>3. back[k] = line[p + k]
          BY <2>3, <5>1, Zenon
        <5> QED
          BY <5>1, <5>2, <5>3, <4>2, Zenon
      <4> QED
        BY <4>1, <4>2
    <3> QED
      BY <2>1, <3>1, <3>2, <3>3
  <2>5. \A i \in 1..(n - 1) : line'[i] = line[IF i < p THEN i ELSE i + 1]
                              /\ (IF i < p THEN i ELSE i + 1) \in 1..n
    BY <2>1, <2>4
  <2>6. ASSUME NEW i \in 1..(n - 1), NEW j \in 1..(n - 1), line'[i] = line'[j]
        PROVE  i = j
    <3>1. (IF i < p THEN i ELSE i + 1) = (IF j < p THEN j ELSE j + 1)
      BY <2>5, <2>6 DEF LineOK, n
    <3> QED
      BY <2>1, <3>1
  <2> QED
    BY <2>4, <2>6 DEF LineOK
<1> QED
  BY <1>1, <1>2

\* What a pass may plan for a room of this fleet, and on what it saw.
LEMMA PlannedStep ==
    ASSUME TypeOK, NEW full \in BOOLEAN, NEW r \in Rooms
    PROVE  /\ Wanted(full, r) \in Underway \cup {"MarkRunning", "NotReady", "MarkDegraded", NoStep}
           /\ Wanted(full, r) = "Recreate" => full /\ InLine(r)
           /\ Wanted(full, r) \in {"NotReady", "MarkDegraded"}
                => room[r].state = "running" /\ dep[r] # "ready"
           /\ Wanted(full, r) = "NotReady" => full /\ room[r].notReady + 1 < DegradedSweeps
           /\ Wanted(full, r) = "MarkDegraded" => room[r].notReady + 1 >= DegradedSweeps
<1> DEFINE v == View(r)
           d == Observed(r)
<1>1. /\ v.state = room[r].state /\ v.desired = room[r].desired /\ v.redeploy = InLine(r)
      /\ v.notReady = room[r].notReady /\ v.hash = 1 /\ v.age = 0 /\ v.abandoned = FALSE
      /\ d.here = (dep[r] # "none") /\ d.hash = 1 /\ d.ready = (dep[r] = "ready")
  BY DEF View, Observed
<1>2. /\ room[r].state \in {"idle", "stopping", "starting", "running", "degraded"}
      /\ room[r].desired \in {"running", "stopped"} /\ room[r].notReady \in Nat
  BY DEF TypeOK, Live
<1>3. PlannerAssumption
  BY PlannerAssumption
<1> HIDE DEF v, d
<1>4. LET step == StepFor(v, d) IN
      /\ step \in Underway \cup {"MarkRunning", "NotReady", "MarkDegraded", NoStep}
      /\ step = "Recreate" => InLine(r)
      /\ step \in {"NotReady", "MarkDegraded"} => room[r].state = "running" /\ dep[r] # "ready"
      /\ step = "NotReady" => room[r].notReady + 1 < DegradedSweeps
      /\ step = "MarkDegraded" => room[r].notReady + 1 >= DegradedSweeps
  <2>1. CASE room[r].state \in {"idle", "stopping"}
    <3>1. StepFor(v, d) = IF v.state = "idle" THEN IdleStep(v, d) ELSE StoppingStep(v, d)
      BY <1>1, <1>2, <2>1 DEF StepFor, StateStep, Live
    <3>2. StepFor(v, d) \in {"Start", "Stop", "MarkIdle", "NoStep"}
      BY <3>1 DEF IdleStep, StoppingStep, NoStep
    <3> QED
      BY <3>2 DEF Underway, NoStep
  <2>2. CASE room[r].state \in {"starting", "running", "degraded"}
    <3>1. StepFor(v, d) = LiveStep(v, d)
      BY <1>1, <1>2, <2>2 DEF StepFor, StateStep, Live
    <3>2. UnreadyStep(v) = CASE v.state = "starting" -> NoStep
                             [] v.state = "running" ->
                                   IF v.notReady + 1 >= DegradedSweeps THEN "MarkDegraded" ELSE "NotReady"
                             [] OTHER -> NoStep
      BY <1>1, <1>2, <1>3, <2>2 DEF UnreadyStep, PlannerAssumption
    <3>3. CASE v.state = "running"
      BY <1>1, <1>2, <1>3, <3>1, <3>2, <3>3
      DEF LiveStep, AtRest, ShouldReap, Underway, NoStep, PlannerAssumption
    <3>4. CASE v.state # "running"
      BY <1>1, <1>2, <1>3, <2>2, <3>1, <3>2, <3>4
      DEF LiveStep, AtRest, ShouldReap, Underway, NoStep, PlannerAssumption
    <3> QED
      BY <3>3, <3>4
  <2> QED
    BY <1>2, <2>1, <2>2
<1> QED
  BY <1>4 DEF Wanted, AllowedIn, FullPassOnly, NoStep, v, d

\* However many restarts are wanted, those that go ahead are within the pace:
\* each has fewer than MaxRecreates before it in line, and no two as many.
LEMMA WithinPace ==
    ASSUME TypeOK, NEW full \in BOOLEAN
    PROVE  LET going == {r \in Rooms : Plan(full)[r] = "Recreate"} IN
           /\ IsFiniteSet(going) /\ Cardinality(going) <= MaxRecreates
           /\ ~full => going = {}
<1> DEFINE wanted == {q \in Rooms : Wanted(full, q) = "Recreate"}
           before(r) == {q \in Rooms : Wanted(full, q) = "Recreate" /\ Earlier(q, r)}
           going == {r \in Rooms : Plan(full)[r] = "Recreate"}
           M == MaxRecreates
<1>1. LineOK(line) /\ M \in Nat /\ Len(line) \in Nat
  BY PlannerAssumption, FleetTypes DEF PlannerAssumption, LineOK
<1>2. \A q \in wanted : InLine(q) /\ full
  BY PlannedStep
<1>3. going = {r \in wanted : ~(Cardinality(before(r)) >= M)}
  BY DEF Plan, Deferred, NoStep
<1>4. \A q \in wanted : Place(q) \in 1..Len(line) /\ line[Place(q)] = q
  BY <1>1, <1>2, Placed
<1>5. \A q, r \in wanted : Earlier(q, r) <=> Place(q) < Place(r)
  <2> SUFFICES ASSUME NEW q \in wanted, NEW r \in wanted
               PROVE  Earlier(q, r) <=> Place(q) < Place(r)
    OBVIOUS
  <2>1. /\ \A i \in 1..Len(line) : line[i] = q => i = Place(q)
        /\ \A i \in 1..Len(line) : line[i] = r => i = Place(r)
    BY <1>1, <1>2, Placed
  <2> QED
    BY <1>4, <2>1 DEF Earlier
<1> HIDE DEF wanted
<1>6. IsFiniteSet(wanted)
  <2> DEFINE g == [q \in wanted |-> Place(q)]
  <2>1. g \in Injection(wanted, 1..Len(line))
    BY <1>4 DEF Injection, IsInjective
  <2>2. IsFiniteSet(1..Len(line))
    BY <1>1, FS_Interval
  <2> HIDE DEF g
  <2> QED
    BY <2>1, <2>2, FS_Injection
<1>7. \A r : before(r) = {q \in wanted : Earlier(q, r)}
  BY DEF wanted
<1>8. \A r : IsFiniteSet(before(r)) /\ Cardinality(before(r)) \in Nat
  <2> TAKE r
  <2>1. before(r) \subseteq wanted
    BY <1>7
  <2> QED
    BY <1>6, <2>1, FS_Subset, FS_CardinalityType
<1> HIDE DEF before
<1>9. ASSUME NEW q \in wanted, NEW r \in wanted, Place(q) < Place(r)
      PROVE  Cardinality(before(q)) < Cardinality(before(r))
  <2>1. q \notin before(q) /\ before(q) \cup {q} \subseteq before(r)
    BY <1>4, <1>5, <1>7, <1>9
  <2>2. Cardinality(before(q) \cup {q}) = Cardinality(before(q)) + 1
    BY <1>8, <2>1, FS_AddElement
  <2>3. Cardinality(before(q) \cup {q}) <= Cardinality(before(r))
    BY <1>8, <2>1, FS_Subset
  <2> QED
    BY <1>8, <2>2, <2>3
<1>10. going \subseteq wanted
  BY <1>3
<1>11. IsFiniteSet(going)
  BY <1>6, <1>10, FS_Subset
<1>12. ~(M < Cardinality(going))
  <2> SUFFICES ASSUME M < Cardinality(going) PROVE FALSE
    OBVIOUS
  <2> DEFINE T == 0..(M - 1)
             f == [r \in going |-> Cardinality(before(r))]
  <2>1. f \in [going -> T]
    BY <1>1, <1>3, <1>8
  <2>2. IsFiniteSet(T) /\ Cardinality(T) = M
    <3>1. 0 \in Int /\ M - 1 \in Int
      BY <1>1
    <3>2. /\ IsFiniteSet(T)
          /\ Cardinality(T) = IF 0 > M - 1 THEN 0 ELSE M - 1 - 0 + 1
      BY <3>1, FS_Interval
    <3> QED
      BY <1>1, <3>2
  <2> HIDE DEF going, T, f
  <2>3. PICK q, r \in going : q # r /\ f[q] = f[r]
    BY <1>11, <2>1, <2>2, FS_PigeonHole
  <2>4. q \in wanted /\ r \in wanted /\ Cardinality(before(q)) = Cardinality(before(r))
    BY <1>10, <2>3 DEF f
  <2>5. Place(q) < Place(r) \/ Place(r) < Place(q)
    BY <1>4, <2>3, <2>4
  <2> QED
    BY <1>8, <1>9, <2>4, <2>5
<1>13. ~full => going = {}
  BY <1>2, <1>10
<1>14. Cardinality(going) \in Nat
  BY <1>11, FS_CardinalityType
<1> QED
  BY <1>1, <1>11, <1>12, <1>13, <1>14

\* A pass that looks.
LEMMA PassBegins ==
    ASSUME FleetInv, BeginPass
    PROVE  FleetInv'
<1> USE DEF FleetInv
<1> DEFINE full == loop.left = 0
<1>1. /\ plan' = Plan(full)
      /\ loop' = [at |-> "pass", left |-> Stamp(full),
                  pending |-> Converging \/ \E r \in Rooms : LeavesWorkPending(Plan(full)[r])]
      /\ unready' = CountUnready(full)
      /\ since' = [recreated |-> IF full THEN 0 ELSE since.recreated, asked |-> {}]
      /\ UNCHANGED <<room, dep, line, faults>>
  BY DEF BeginPass
<1>2. full \in BOOLEAN
  OBVIOUS
<1> HIDE DEF full
<1>3. \A r \in Rooms : plan'[r] \in {Wanted(full, r), NoStep}
  BY <1>1 DEF Plan
<1>4. DegradedSweeps \in Nat \ {0} /\ MaxRecreates \in Nat /\ Interval \in Nat
  BY PlannerAssumption, FleetAssumption DEF PlannerAssumption, FleetAssumption
<1>5. TypeOK'
  <2>1. plan' \in [Rooms -> Steps \cup {NoStep}]
    <3>1. \A r \in Rooms : Wanted(full, r) \in Steps \cup {NoStep}
      BY <1>2, PlannedStep DEF Underway, Steps
    <3> QED
      BY <1>1, <3>1 DEF Plan
  <2>2. loop' \in LoopState
    <3>1. Stamp(full) \in 0..Interval
      BY <1>4, FleetTypes DEF Stamp, LoopState
    <3> QED
      BY <1>1, <3>1 DEF LoopState
  <2>3. unready' \in [Rooms -> 0..DegradedSweeps]
    <3>1. \A r \in Rooms : unready[r] \in 0..DegradedSweeps
      BY DEF TypeOK
    <3> QED
      BY <1>1, <1>4, <3>1 DEF CountUnready
  <2>4. since' \in [recreated : Nat, asked : SUBSET Rooms]
    BY <1>1 DEF TypeOK
  <2> QED
    BY <1>1, <2>1, <2>2, <2>3, <2>4, FleetTypes DEF TypeOK, LoopState
<1>6. Pace'
  <2>1. Recreating' = {r \in Rooms : Plan(full)[r] = "Recreate"}
    BY <1>1 DEF Recreating
  <2>2. /\ IsFiniteSet(Recreating') /\ Cardinality(Recreating') <= MaxRecreates
        /\ ~full => Recreating' = {}
    BY <1>2, <2>1, WithinPace
  <2>3. Cardinality(Recreating') \in Nat
    BY <2>2, FS_CardinalityType
  <2>4. since.recreated <= MaxRecreates
    <3>1. Cardinality(Recreating) \in Nat /\ since.recreated \in Nat
      BY FS_CardinalityType DEF Pace, TypeOK
    <3> QED
      BY <1>4, <3>1 DEF Pace
  <2>5. CASE full
    BY <1>1, <1>4, <2>2, <2>3, <2>5 DEF Pace
  <2>6. CASE ~full
    <3>1. Cardinality(Recreating') = 0
      BY <2>2, <2>6, FS_EmptySet
    <3>2. since'.recreated = since.recreated /\ since.recreated \in Nat
      BY <1>1, <2>6 DEF TypeOK
    <3> QED
      BY <1>4, <2>2, <2>4, <3>1, <3>2 DEF Pace
  <2> QED
    BY <2>5, <2>6
<1>7. ASSUME NEW r \in Rooms PROVE Counts(r)'
  <2>1. /\ room'[r] = room[r] /\ plan'[r] \in {Wanted(full, r), NoStep}
        /\ unready[r] \in 0..DegradedSweeps /\ room[r].notReady \in 0..DegradedSweeps
    BY <1>1, <1>3 DEF TypeOK
  <2>2. unready'[r] = IF room[r].state # "running" \/ (dep[r] = "ready" /\ room[r].notReady = 0) THEN 0
                      ELSE IF full /\ dep[r] # "ready" /\ unready[r] < DegradedSweeps THEN unready[r] + 1
                      ELSE unready[r]
    BY <1>1 DEF CountUnready
  <2>3. room[r].state = "running" =>
           room[r].notReady < DegradedSweeps /\ room[r].notReady <= unready[r]
    BY DEF Counts
  <2>4. /\ Wanted(full, r) \in {"NotReady", "MarkDegraded"}
              => room[r].state = "running" /\ dep[r] # "ready"
        /\ Wanted(full, r) = "NotReady" => full /\ room[r].notReady + 1 < DegradedSweeps
        /\ Wanted(full, r) = "MarkDegraded" => room[r].notReady + 1 >= DegradedSweeps
    BY <1>2, PlannedStep
  <2>5. room[r].state = "running" => room[r].notReady <= unready'[r]
    BY <1>4, <2>1, <2>2, <2>3
  <2>6. Wanted(full, r) = "NotReady" => room[r].notReady + 1 <= unready'[r]
    BY <1>4, <2>1, <2>2, <2>3, <2>4
  <2>7. Wanted(full, r) = "MarkDegraded" => unready'[r] + 1 >= DegradedSweeps
    BY <1>4, <1>5, <2>1, <2>4, <2>5 DEF TypeOK
  <2> QED
    BY <2>1, <2>3, <2>4, <2>5, <2>6, <2>7 DEF Counts, NoStep
<1>8. Settling'
  <2> SUFFICES ASSUME ~loop'.pending, NEW r \in Rooms
               PROVE  plan'[r] \notin Underway /\ ~MidFlight(r)'
    BY <1>1 DEF Settling
  <2>1. ~Converging /\ ~LeavesWorkPending(Plan(full)[r])
    BY <1>1
  <2>2. plan'[r] \notin Underway
    BY <1>1, <2>1 DEF LeavesWorkPending, Underway
  <2>3. ~MidFlight(r)'
    BY <1>1, <2>1 DEF Converging, MidFlight
  <2> QED
    BY <2>2, <2>3
<1> QED
  BY <1>5, <1>6, <1>7, <1>8

\* The loop between its passes.
LEMMA LoopTurns ==
    ASSUME FleetInv, PassFails \/ EndPass \/ Wake
    PROVE  FleetInv'
<1> USE DEF FleetInv
<1>1. Interval \in Nat /\ loop \in LoopState /\ faults \in 0..MaxFaults
  BY FleetAssumption, FleetTypes DEF FleetAssumption
<1>2. UNCHANGED <<room, dep, line, unready, since>>
  BY DEF PassFails, EndPass, Wake
<1>3. plan' = plan \/ plan' = NoPlan
  BY DEF PassFails, EndPass, Wake
<1>4. /\ loop' \in LoopState
      /\ loop'.at = "resting" => loop.at = "pass" /\ ~loop.pending /\ plan' = plan
      /\ loop'.at # "pass"
  <2>1. CASE PassFails
    BY <1>1, <2>1 DEF PassFails, LoopState
  <2>2. CASE EndPass
    <3>1. PICK left \in {0, loop.left} :
            loop' = [at |-> IF loop.pending THEN "converging" ELSE "resting",
                     left |-> left, pending |-> FALSE]
      BY <2>2 DEF EndPass
    <3>2. left \in 0..Interval
      BY <1>1 DEF LoopState
    <3> QED
      BY <2>2, <3>1, <3>2 DEF EndPass, LoopState
  <2>3. CASE Wake
    <3>1. loop' = [loop EXCEPT !.at = "awake",
                               !.left = IF loop.at = "converging" /\ loop.left > 0
                                        THEN loop.left - 1 ELSE 0]
      BY <2>3 DEF Wake
    <3>2. (IF loop.at = "converging" /\ loop.left > 0 THEN loop.left - 1 ELSE 0) \in 0..Interval
      BY <1>1 DEF LoopState
    <3> QED
      BY <1>1, <3>1, <3>2 DEF LoopState
  <2> QED
    BY <2>1, <2>2, <2>3
<1>5. TypeOK'
  <2>1. faults' \in 0..MaxFaults
    BY <1>1, FleetAssumption DEF PassFails, EndPass, Wake, FleetAssumption
  <2>2. plan' \in [Rooms -> Steps \cup {NoStep}]
    BY <1>3 DEF TypeOK, NoPlan
  <2> QED
    BY <1>2, <1>4, <2>1, <2>2, FleetTypes DEF TypeOK, LoopState
<1>6. Pace'
  <2>1. CASE plan' = plan
    BY <1>2, <2>1 DEF Pace, Recreating
  <2>2. CASE plan' = NoPlan
    <3>1. Recreating' = {}
      BY <2>2 DEF Recreating, NoPlan, NoStep
    <3>2. Cardinality(Recreating) \in Nat /\ since.recreated \in Nat /\ MaxRecreates \in Nat
      BY FS_CardinalityType, PlannerAssumption DEF Pace, TypeOK, PlannerAssumption
    <3> QED
      BY <1>2, <3>1, <3>2, FS_EmptySet DEF Pace
  <2> QED
    BY <1>3, <2>1, <2>2
<1>7. \A r \in Rooms : Counts(r)'
  BY <1>2, <1>3 DEF Counts, NoPlan, NoStep
<1>8. Settling'
  BY <1>2, <1>4 DEF Settling, MidFlight
<1> QED
  BY <1>5, <1>6, <1>7, <1>8

\* A step comes off the plan, and its room is the only one it touches.
LEMMA StepTakes ==
    ASSUME FleetInv, NEW r \in Rooms, Step(r) \/ StepSkipped(r)
    PROVE  /\ plan' = [plan EXCEPT ![r] = NoStep] /\ loop' = loop
           /\ \A q \in Rooms \ {r} : room'[q] = room[q] /\ unready'[q] = unready[q]
           /\ since'.asked = since.asked
           /\ since'.recreated = IF plan[r] = "Recreate" /\ Recreate(r)
                                 THEN since.recreated + 1 ELSE since.recreated
<1>1. room = [q \in Rooms |-> room[q]] /\ unready = [q \in Rooms |-> unready[q]]
  BY DEF FleetInv, TypeOK
<1>2. since \in [recreated : Nat, asked : SUBSET Rooms]
  BY DEF FleetInv, TypeOK
<1>3. CASE Start(r)
  BY <1>1, <1>3 DEF Start, Takes, Moves, Recreate
<1>4. CASE Recreate(r)
  BY <1>1, <1>2, <1>4 DEF Recreate, Takes, Moves
<1>5. CASE Stop(r) \/ MarkIdle(r)
  BY <1>1, <1>5 DEF Stop, MarkIdle, Takes, Moves, Recreate
<1>6. CASE MarkRunning(r)
  BY <1>1, <1>6 DEF MarkRunning, Takes, Moves, Recreate
<1>7. CASE NotReady(r)
  BY <1>1, <1>7 DEF NotReady, Takes, Recreate
<1>8. CASE StepSkipped(r)
  <2>1. ~Recreate(r)
    BY <1>8, FleetAssumption DEF StepSkipped, Recreate, Takes, FleetAssumption, FleetInv, TypeOK
  <2> QED
    BY <1>8, <2>1 DEF StepSkipped
<1> QED
  BY <1>3, <1>4, <1>5, <1>6, <1>7, <1>8 DEF Step

\* A step keeps every row, Deployment and place in line well formed.
LEMMA StepTypes ==
    ASSUME FleetInv, NEW r \in Rooms, Step(r) \/ StepSkipped(r)
    PROVE  TypeOK'
<1> USE DEF FleetInv
<1>1. /\ plan' \in [Rooms -> Steps \cup {NoStep}] /\ loop' = loop
  <2>1. plan' = [plan EXCEPT ![r] = NoStep] /\ loop' = loop
    BY StepTakes
  <2> QED
    BY <2>1 DEF TypeOK
<1>2. /\ DegradedSweeps \in Nat \ {0} /\ MaxFaults \in Nat
      /\ room \in [Rooms -> RoomRow] /\ room[r] \in RoomRow
      /\ since \in [recreated : Nat, asked : SUBSET Rooms]
  BY PlannerAssumption, FleetAssumption, FleetTypes DEF PlannerAssumption, FleetAssumption
<1>3. dep' \in [Rooms -> {"none", "unready", "ready", "deleting"}]
  <2>1. dep \in [Rooms -> {"none", "unready", "ready", "deleting"}]
    BY FleetTypes
  <2>2. dep' = dep \/ \E d \in {"none", "unready", "ready", "deleting"} : dep' = [dep EXCEPT ![r] = d]
    <3>1. CASE Start(r)
      <4>1. dep' = dep \/ dep' = [dep EXCEPT ![r] = IF dep[r] = "none" THEN "unready" ELSE dep[r]]
        BY <3>1 DEF Start
      <4> QED
        BY <2>1, <4>1
    <3>2. CASE Recreate(r) \/ Stop(r)
      <4>1. dep' = [dep EXCEPT ![r] = IF dep[r] = "none" THEN dep[r] ELSE "deleting"]
        BY <3>2 DEF Recreate, Stop, Deletes
      <4> QED
        BY <2>1, <4>1
    <3>3. CASE MarkIdle(r) \/ MarkRunning(r) \/ NotReady(r) \/ StepSkipped(r)
      BY <3>3 DEF MarkIdle, MarkRunning, NotReady, StepSkipped
    <3> QED
      BY <3>1, <3>2, <3>3 DEF Step
  <2> QED
    BY <2>1, <2>2
<1>4. LineOK(line')
  <2>1. LineOK(line)
    BY FleetTypes
  <2>2. line' = line \/ Satisfied(r)
    BY DEF Step, Start, Recreate, Stop, MarkIdle, MarkRunning, NotReady, StepSkipped
  <2> QED
    BY <2>1, <2>2, LeavesLine
<1>5. room' \in [Rooms -> RoomRow]
  <2>1. ASSUME NEW state \in {"idle", "stopping"} \cup Live, NEW n \in 0..DegradedSweeps
        PROVE  [room EXCEPT ![r] = [room[r] EXCEPT !.state = state, !.notReady = n]]
                  \in [Rooms -> RoomRow]
    <3>1. [room[r] EXCEPT !.state = state, !.notReady = n] \in RoomRow
      BY <1>2 DEF RoomRow
    <3> QED
      BY <1>2, <3>1
  <2>2. CASE Start(r) \/ Recreate(r) \/ MarkIdle(r) \/ MarkRunning(r)
    <3>1. \/ room' = room
          \/ room' = [room EXCEPT ![r] = [room[r] EXCEPT !.state = "idle", !.notReady = 0]]
          \/ room' = [room EXCEPT ![r] = [room[r] EXCEPT !.state = "starting", !.notReady = 0]]
          \/ room' = [room EXCEPT ![r] = [room[r] EXCEPT !.state = "running", !.notReady = 0]]
      <4>1. ASSUME NEW state, Moves(r, state)
            PROVE  room' = [room EXCEPT ![r] = [room[r] EXCEPT !.state = state, !.notReady = 0]]
        BY <1>2, <4>1 DEF Moves
      <4>2. \/ room' = room \/ Moves(r, "idle") \/ Moves(r, "starting") \/ Moves(r, "running")
        BY <2>2 DEF Start, Recreate, MarkIdle, MarkRunning
      <4>3. CASE room' = room
        BY <4>3
      <4>4. CASE Moves(r, "idle")
        BY <4>1, <4>4
      <4>5. CASE Moves(r, "starting")
        BY <4>1, <4>5
      <4>6. CASE Moves(r, "running")
        BY <4>1, <4>6
      <4> QED
        BY <4>2, <4>3, <4>4, <4>5, <4>6
    <3>2. /\ 0 \in 0..DegradedSweeps
          /\ {"idle", "starting", "running"} \subseteq {"idle", "stopping"} \cup Live
      BY <1>2 DEF Live
    <3>3. ASSUME NEW state \in {"idle", "starting", "running"}
          PROVE  [room EXCEPT ![r] = [room[r] EXCEPT !.state = state, !.notReady = 0]]
                    \in [Rooms -> RoomRow]
      BY <2>1, <3>2
    <3>4. /\ "idle" \in {"idle", "starting", "running"}
          /\ "starting" \in {"idle", "starting", "running"}
          /\ "running" \in {"idle", "starting", "running"}
      OBVIOUS
    <3> QED
      BY <1>2, <3>1, <3>3, <3>4, Zenon
  <2>3. CASE Stop(r)
    <3>1. room' = [room EXCEPT ![r] = [room[r] EXCEPT !.state = "stopping"]]
      BY <1>2, <2>3 DEF Stop
    <3>2. [room[r] EXCEPT !.state = "stopping"] \in RoomRow
      BY <1>2 DEF RoomRow
    <3> QED
      BY <1>2, <3>1, <3>2
  <2>4. CASE NotReady(r)
    <3> DEFINE state == IF plan[r] = "MarkDegraded" THEN "degraded" ELSE room[r].state
    <3>1. room' = [room EXCEPT ![r] = [room[r] EXCEPT !.state = state,
                                                      !.notReady = room[r].notReady + 1]]
      BY <1>2, <2>4 DEF NotReady, RoomRow
    <3>2. state \in {"idle", "stopping"} \cup Live
      BY <1>2 DEF RoomRow, Live
    <3>3. room[r].notReady + 1 \in 0..DegradedSweeps
      <4>1. plan[r] \in {"NotReady", "MarkDegraded"}
        BY <2>4 DEF NotReady, Takes
      <4>2. room[r].notReady < DegradedSweeps
        BY <4>1 DEF Counts
      <4> QED
        BY <1>2, <4>2 DEF RoomRow
    <3> HIDE DEF state
    <3> QED
      BY <2>1, <3>1, <3>2, <3>3
  <2>5. CASE StepSkipped(r)
    BY <1>2, <2>5 DEF StepSkipped
  <2> QED
    BY <2>2, <2>3, <2>4, <2>5 DEF Step
<1>6. unready' \in [Rooms -> 0..DegradedSweeps]
  <2>1. unready' = unready \/ unready' = [unready EXCEPT ![r] = 0]
    BY DEF Step, Start, Recreate, Stop, MarkIdle, MarkRunning, NotReady, StepSkipped
  <2> QED
    BY <1>2, <2>1, FleetTypes
<1>7. since' \in [recreated : Nat, asked : SUBSET Rooms]
  <2>1. since' = since \/ since' = [since EXCEPT !.recreated = @ + 1]
    BY DEF Step, Start, Recreate, Stop, MarkIdle, MarkRunning, NotReady, StepSkipped
  <2> QED
    BY <1>2, <2>1
<1>8. faults' \in 0..MaxFaults
  <2>1. faults \in 0..MaxFaults
    BY DEF TypeOK
  <2> QED
    BY <1>2, <2>1 DEF Step, Start, Recreate, Stop, MarkIdle, MarkRunning, NotReady, StepSkipped, Takes
<1>9. loop' \in LoopState
  BY <1>1, FleetTypes
<1> QED
  BY <1>1, <1>3, <1>4, <1>5, <1>6, <1>7, <1>8, <1>9, FleetTypes
  DEF TypeOK, RoomRow, LoopState, LineOK

\* A recreation made is one the pace has left.
LEMMA StepPace ==
    ASSUME FleetInv, NEW r \in Rooms, Step(r) \/ StepSkipped(r)
    PROVE  Pace'
<1> USE DEF FleetInv
<1>1. /\ plan' = [plan EXCEPT ![r] = NoStep]
      /\ since'.recreated = IF plan[r] = "Recreate" /\ Recreate(r)
                            THEN since.recreated + 1 ELSE since.recreated
  BY StepTakes
<1>2. /\ IsFiniteSet(Recreating) /\ Cardinality(Recreating) \in Nat
      /\ since.recreated \in Nat /\ MaxRecreates \in Nat
      /\ since.recreated + Cardinality(Recreating) <= MaxRecreates
  BY PlannerAssumption, FS_CardinalityType DEF Pace, TypeOK, PlannerAssumption
<1>3. plan \in [Rooms -> Steps \cup {NoStep}]
  BY FleetTypes
<1>4. Recreating' = Recreating \ {r}
  BY <1>1, <1>3 DEF Recreating, NoStep
<1>5. CASE plan[r] = "Recreate"
  <2>1. r \in Recreating
    BY <1>5 DEF Recreating
  <2>2. IsFiniteSet(Recreating \ {r}) /\ Cardinality(Recreating \ {r}) = Cardinality(Recreating) - 1
    BY <1>2, <2>1, FS_RemoveElement
  <2> QED
    BY <1>1, <1>2, <1>4, <2>2 DEF Pace
<1>6. CASE plan[r] # "Recreate"
  <2>1. Recreating' = Recreating
    BY <1>4, <1>6 DEF Recreating
  <2> QED
    BY <1>1, <1>2, <1>6, <2>1 DEF Pace
<1> QED
  BY <1>5, <1>6

\* A step keeps the row's count of passes behind the passes that counted.
LEMMA StepCounts ==
    ASSUME FleetInv, NEW r \in Rooms, Step(r) \/ StepSkipped(r), NEW q \in Rooms
    PROVE  Counts(q)'
<1> USE DEF FleetInv
<1>1. /\ plan' = [plan EXCEPT ![r] = NoStep]
      /\ q # r => room'[q] = room[q] /\ unready'[q] = unready[q]
  BY StepTakes
<1>2. plan \in [Rooms -> Steps \cup {NoStep}] /\ Counts(q)
  BY FleetTypes
<1>3. CASE q # r
  <2>1. plan'[q] = plan[q]
    BY <1>1, <1>2, <1>3
  <2> QED
    BY <1>1, <1>2, <1>3, <2>1 DEF Counts
<1>4. CASE q = r
  <2>1. plan'[r] = NoStep
    BY <1>1, <1>2
  <2>2. /\ room \in [Rooms -> RoomRow] /\ room[r] \in RoomRow
        /\ unready \in [Rooms -> 0..DegradedSweeps] /\ DegradedSweeps \in Nat \ {0}
    BY PlannerAssumption, FleetTypes DEF PlannerAssumption
  <2>3. Counts(r)
    OBVIOUS
  <2>4. room'[r].state = "running" =>
            room'[r].notReady < DegradedSweeps /\ room'[r].notReady <= unready'[r]
    <3>1. CASE Start(r)
      <4>1. room' = room \/ room'[r].state = "starting"
        BY <2>2, <3>1 DEF Start, Moves, RoomRow
      <4>2. unready' = unready
        BY <3>1 DEF Start
      <4> QED
        BY <2>3, <4>1, <4>2 DEF Counts
    <3>2. CASE Recreate(r) \/ Stop(r) \/ MarkIdle(r)
      <4>1. room'[r].state \in {"idle", "stopping"}
        BY <2>2, <3>2 DEF Recreate, Stop, MarkIdle, Moves, RoomRow
      <4> QED
        BY <4>1
    <3>3. CASE MarkRunning(r)
      <4>1. room'[r].notReady = 0 /\ unready'[r] = 0
        BY <2>2, <3>3 DEF MarkRunning, Moves, RoomRow
      <4> QED
        BY <2>2, <4>1
    <3>4. CASE NotReady(r)
      <4>1. plan[r] \in {"NotReady", "MarkDegraded"} /\ unready' = unready
        BY <3>4 DEF NotReady, Takes
      <4>2. /\ room'[r].notReady = room[r].notReady + 1
            /\ plan[r] = "MarkDegraded" => room'[r].state = "degraded"
        BY <2>2, <3>4 DEF NotReady, RoomRow
      <4> QED
        BY <2>3, <4>1, <4>2 DEF Counts
    <3>5. CASE StepSkipped(r)
      BY <2>3, <3>5 DEF StepSkipped, Counts
    <3> QED
      BY <3>1, <3>2, <3>3, <3>4, <3>5 DEF Step
  <2> QED
    BY <1>4, <2>1, <2>4 DEF Counts, NoStep
<1> QED
  BY <1>3, <1>4

\* A pass with nothing pending takes no step that leaves a room under way.
LEMMA StepSettling ==
    ASSUME FleetInv, NEW r \in Rooms, Step(r) \/ StepSkipped(r)
    PROVE  Settling'
<1> USE DEF FleetInv
<1>1. /\ plan' = [plan EXCEPT ![r] = NoStep] /\ loop' = loop /\ since'.asked = since.asked
      /\ \A q \in Rooms \ {r} : room'[q] = room[q]
  BY StepTakes
<1>2. plan \in [Rooms -> Steps \cup {NoStep}] /\ room \in [Rooms -> RoomRow] /\ room[r] \in RoomRow
  BY FleetTypes
<1> SUFFICES ASSUME loop.at = "resting" \/ (loop.at = "pass" /\ ~loop.pending), NEW q \in Rooms
             PROVE  plan'[q] \notin Underway /\ (q \in since.asked \/ ~MidFlight(q)')
  BY <1>1 DEF Settling
<1>3. plan[q] \notin Underway /\ plan[r] \notin Underway /\ (q \in since.asked \/ ~MidFlight(q))
  BY DEF Settling
<1>4. plan'[q] \notin Underway
  BY <1>1, <1>2, <1>3 DEF Underway, NoStep
<1>5. CASE q # r
  <2>1. room'[q] = room[q]
    BY <1>1, <1>5
  <2> QED
    BY <1>3, <1>4, <2>1 DEF MidFlight
<1>6. CASE q = r
  <2>1. MarkRunning(r) \/ NotReady(r) \/ StepSkipped(r)
    BY <1>3 DEF Step, Start, Recreate, Stop, MarkIdle, Takes, Underway
  <2>2. CASE MarkRunning(r)
    <3>1. room'[r].state = "running"
      BY <1>2, <2>2 DEF MarkRunning, Moves, RoomRow
    <3> QED
      BY <1>4, <1>6, <3>1 DEF MidFlight
  <2>3. CASE NotReady(r)
    <3>1. plan[r] \in {"NotReady", "MarkDegraded"}
      BY <2>3 DEF NotReady, Takes
    <3>2. room[r].state = "running"
      BY <3>1 DEF Counts
    <3>3. room'[r].state \in {"running", "degraded"}
      BY <1>2, <2>3, <3>2 DEF NotReady, RoomRow
    <3> QED
      BY <1>4, <1>6, <3>3 DEF MidFlight
  <2>4. CASE StepSkipped(r)
    BY <1>3, <1>4, <1>6, <2>4 DEF StepSkipped, MidFlight
  <2> QED
    BY <2>1, <2>2, <2>3, <2>4
<1> QED
  BY <1>5, <1>6

\* What people ask for and what the cluster does.
LEMMA OthersAct ==
    ASSUME FleetInv, Outside
    PROVE  FleetInv'
<1> USE DEF FleetInv
<1>1. PICK r \in Rooms :
        \/ \E desired \in {"running", "stopped"} : RequestState(r, desired)
        \/ RequestRedeploy(r) \/ PodReady(r) \/ PodFails(r) \/ Collect(r)
  BY DEF Outside
<1>2. /\ UNCHANGED <<loop, plan, unready>>
      /\ faults' \in 0..MaxFaults
  <2>1. faults \in 0..MaxFaults /\ MaxFaults \in Nat
    BY FleetAssumption DEF TypeOK, FleetAssumption
  <2> QED
    BY <1>1, <2>1 DEF RequestState, RequestRedeploy, PodReady, PodFails, Collect, World
<1>3. CASE \E desired \in {"running", "stopped"} : RequestState(r, desired)
  <2>1. PICK desired \in {"running", "stopped"} :
          /\ room' = [room EXCEPT ![r].desired = desired]
          /\ since' = [since EXCEPT !.asked = since.asked \cup {r}]
          /\ UNCHANGED <<dep, line>>
    BY <1>3 DEF RequestState
  <2>2. room \in [Rooms -> RoomRow] /\ since \in [recreated : Nat, asked : SUBSET Rooms]
    BY FleetTypes
  <2>3. /\ room' \in [Rooms -> RoomRow]
        /\ \A q \in Rooms : room'[q].state = room[q].state /\ room'[q].notReady = room[q].notReady
        /\ \A q \in Rooms \ {r} : room'[q] = room[q]
    <3>1. [room[r] EXCEPT !.desired = desired] \in RoomRow
      BY <2>2 DEF RoomRow
    <3>2. room' = [room EXCEPT ![r] = [room[r] EXCEPT !.desired = desired]]
      BY <2>1, <2>2
    <3>3. /\ [room[r] EXCEPT !.desired = desired].state = room[r].state
          /\ [room[r] EXCEPT !.desired = desired].notReady = room[r].notReady
      BY <2>2 DEF RoomRow
    <3>4. room' \in [Rooms -> RoomRow] /\ \A q \in Rooms \ {r} : room'[q] = room[q]
      BY <2>2, <3>1, <3>2
    <3>5. room'[r].state = room[r].state /\ room'[r].notReady = room[r].notReady
      <4>1. room'[r] = [room[r] EXCEPT !.desired = desired]
        BY <2>2, <3>2
      <4> QED
        BY <3>3, <4>1
    <3> QED
      BY <3>4, <3>5
  <2>4. /\ since' \in [recreated : Nat, asked : SUBSET Rooms]
        /\ since'.recreated = since.recreated /\ since'.asked = since.asked \cup {r}
    BY <2>1, <2>2
  <2>5. TypeOK'
    BY <1>2, <2>1, <2>3, <2>4, FleetTypes DEF TypeOK, RoomRow, LoopState, LineOK
  <2>6. Pace'
    BY <1>2, <2>4 DEF Pace, Recreating
  <2>7. \A q \in Rooms : Counts(q)'
    BY <1>2, <2>3 DEF Counts
  <2>8. Settling'
    BY <1>2, <2>3, <2>4 DEF Settling, MidFlight
  <2> QED
    BY <2>5, <2>6, <2>7, <2>8
<1>4. CASE RequestRedeploy(r)
  <2>1. ~InLine(r) /\ line' = Append(line, r) /\ UNCHANGED <<room, dep, since>>
    BY <1>4 DEF RequestRedeploy
  <2>2. LineOK(line')
    <3>1. LineOK(line) /\ \A i \in 1..Len(line) : line[i] # r
      BY <2>1, FleetTypes DEF InLine
    <3>2. /\ line' \in Seq(Rooms) /\ Len(line') = Len(line) + 1 /\ Len(line) \in Nat
          /\ \A i \in 1..Len(line) : line'[i] = line[i]
          /\ line'[Len(line) + 1] = r
      BY <2>1, <3>1, AppendProperties DEF LineOK
    <3> QED
      BY <3>1, <3>2 DEF LineOK
  <2>3. TypeOK'
    BY <1>2, <2>1, <2>2, FleetTypes DEF TypeOK, LoopState, LineOK
  <2> QED
    BY <1>2, <2>1, <2>3 DEF Pace, Recreating, Counts, Settling, MidFlight
<1>5. CASE PodReady(r) \/ PodFails(r) \/ Collect(r)
  <2>1. UNCHANGED <<room, line, since>>
    BY <1>5 DEF PodReady, PodFails, Collect
  <2>2. dep' \in [Rooms -> {"none", "unready", "ready", "deleting"}]
    <3>1. dep \in [Rooms -> {"none", "unready", "ready", "deleting"}]
      BY FleetTypes
    <3> QED
      BY <1>5, <3>1 DEF PodReady, PodFails, Collect
  <2>3. TypeOK'
    BY <1>2, <2>1, <2>2, FleetTypes DEF TypeOK, LoopState, LineOK
  <2> QED
    BY <1>2, <2>1, <2>3 DEF Pace, Recreating, Counts, Settling, MidFlight
<1> QED
  BY <1>1, <1>3, <1>4, <1>5

\* One step of the loop, of a fault or of anybody else.
LEMMA FleetNext ==
    ASSUME FleetInv, [Next]_vars
    PROVE  FleetInv'
<1>1. CASE BeginPass
  BY <1>1, PassBegins
<1>2. CASE PassFails \/ EndPass \/ Wake
  BY <1>2, LoopTurns
<1>3. CASE \E r \in Rooms : Step(r) \/ StepSkipped(r)
  <2>1. PICK r \in Rooms : Step(r) \/ StepSkipped(r)
    BY <1>3
  <2>2. TypeOK' /\ Pace' /\ Settling'
    BY <2>1, StepTypes, StepPace, StepSettling
  <2>3. \A q \in Rooms : Counts(q)'
    BY <2>1, StepCounts
  <2> QED
    BY <2>2, <2>3 DEF FleetInv
<1>4. CASE Outside
  BY <1>4, OthersAct
<1>5. CASE UNCHANGED vars
  BY <1>5 DEF FleetInv, vars, TypeOK, Pace, Recreating, Counts, Settling, MidFlight
<1> QED
  BY <1>1, <1>2, <1>3, <1>4, <1>5 DEF Next, Loop, Fault

\* The loop, the line of restarts, the plans and the counts of passes stay as
\* FleetInv says.
THEOREM InductiveInvariant == Spec => []FleetInv
<1>1. Init => FleetInv
  BY FleetInit
<1>2. FleetInv /\ [Next]_vars => FleetInv'
  BY FleetNext
<1> QED
  BY <1>1, <1>2, PTL DEF Spec

\* The line never holds a room twice, the deadline stays within an interval,
\* and no row counts past DegradedSweeps.
THEOREM TypeCorrect == Spec => []TypeOK
<1>1. FleetInv => TypeOK
  BY DEF FleetInv
<1> QED
  BY <1>1, InductiveInvariant, PTL

\* What was recreated is within the pace, whatever the plan has left.
LEMMA PaceBounds == FleetInv => RestartsArePaced
<1> SUFFICES ASSUME FleetInv PROVE RestartsArePaced
  OBVIOUS
<1>1. Cardinality(Recreating) \in Nat /\ since.recreated \in Nat /\ MaxRecreates \in Nat
  BY PlannerAssumption, FS_CardinalityType DEF FleetInv, Pace, TypeOK, PlannerAssumption
<1> QED
  BY <1>1 DEF FleetInv, Pace, RestartsArePaced

\* However many restarts are asked for and however often the loop looks, no
\* more rooms go down between two full passes than MaxRecreates.
THEOREM RestartsKeepPace == Spec => []RestartsArePaced
<1>1. FleetInv => RestartsArePaced
  BY PaceBounds
<1>2. Spec => []FleetInv
  BY InductiveInvariant
<1> QED
  BY <1>1, <1>2, PTL

\* The loop rests only when no room it knew of is between two states.
THEOREM PassesSettle == Spec => []NothingLeftInFlight
<1>1. FleetInv => NothingLeftInFlight
  BY DEF FleetInv, Settling, NothingLeftInFlight
<1> QED
  BY <1>1, InductiveInvariant, PTL

\* No room is called degraded on the word of convergence passes: all sweeps but
\* the last were full passes that found it unready.
THEOREM DegradedIsEarned == Spec => DegradedTakesSweeps
<1> DEFINE Swept == \A r \in Rooms : room[r].state = "running" /\ room'[r].state = "degraded"
                        => unready[r] + 1 >= DegradedSweeps
<1>1. ASSUME FleetInv, [Next]_vars PROVE [Swept]_vars
  <2> SUFFICES ASSUME NEW r \in Rooms, room[r].state = "running", room'[r].state = "degraded"
               PROVE  unready[r] + 1 >= DegradedSweeps
    OBVIOUS
  <2>1. /\ room \in [Rooms -> RoomRow] /\ room[r] \in RoomRow
        /\ plan \in [Rooms -> Steps \cup {NoStep}] /\ Counts(r)
    BY <1>1, FleetTypes DEF FleetInv
  <2>2. room' # room
    OBVIOUS
  <2>3. PICK q \in Rooms : Step(q) \/ \E desired : RequestState(q, desired)
    BY <1>1, <2>2 DEF Next, Loop, Fault, Outside, BeginPass, PassFails, EndPass, Wake,
         StepSkipped, RequestRedeploy, PodReady, PodFails, Collect, vars
  <2>4. CASE \E desired : RequestState(q, desired)
    BY <2>1, <2>4 DEF RequestState, RoomRow
  <2>5. CASE Step(q)
    <3>1. q = r
      BY <1>1, <2>5, StepTakes, FleetAssumption
    <3>2. NotReady(r)
      BY <2>1, <2>5, <3>1 DEF Step, Start, Recreate, Stop, MarkIdle, MarkRunning, Moves, RoomRow
    <3>3. plan[r] = "MarkDegraded"
      BY <2>1, <3>2 DEF NotReady, RoomRow
    <3> QED
      BY <2>1, <3>3 DEF Counts
  <2> QED
    BY <2>3, <2>4, <2>5
<1> QED
  BY <1>1, InductiveInvariant, PTL DEF Spec, DegradedTakesSweeps
===============================================================================
