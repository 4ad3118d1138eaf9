------------------------- MODULE PortAllocatorProofs -------------------------
(***************************************************************************)
(* Theorems about PortAllocator, for any rooms, pairs, ranges and number   *)
(* of orchestrators.  The inductive invariant says what an open            *)
(* transaction may still count on: nobody else is allocating for its room, *)
(* every pair the room was bound to has been released in it, and the pair  *)
(* it claims has a row and no other claimant.                              *)
(***************************************************************************)
EXTENDS PortAllocator, TLAPS

\* Past the transaction's first statements, where the room's old pairs are
\* already released.
Released == {"unbound", "victim", "any", "claimed"}

RowsOK == \A p \in Pairs : p \notin rows => owner[p] = NoRoom

TxOK(o) ==
    /\ at[o] \in Released => \A p \in Pairs : owner[p] = room[o] => p \in freed[o]
    /\ at[o] = "claimed" => pair[o] \in rows

Apart(o, x) ==
    /\ InTx(o) /\ InTx(x) => room[o] # room[x]
    /\ at[o] = "claimed" /\ at[x] = "claimed" => pair[o] # pair[x]

\* Two transactions never claim one pair (port.rs: re-checked under the lock).
ClaimsAreDistinct ==
    \A o, x \in Orchestrators :
        o # x /\ at[o] = "claimed" /\ at[x] = "claimed" => pair[o] # pair[x]

Core ==
    /\ OnePairPerRoom
    /\ RowsOK
    /\ \A o \in Orchestrators : TxOK(o)
    /\ \A o, x \in Orchestrators : o # x => Apart(o, x)

\* A process in the middle of a start is starting a room.
Working == \A o \in Orchestrators : at[o] \in TxPcs \cup StartPcs => room[o] \in Rooms

IInv == TypeOK /\ Working /\ Core

(***************************************************************************)
(* Types.                                                                  *)
(***************************************************************************)
LEMMA InitType == Init => TypeOK
BY AllocatorAssumption DEF Init, TypeOK, Gone, Answers

\* What the calls shared by several steps leave behind is well typed.
LEMMA DoneType ==
    ASSUME TypeOK, NEW o \in Orchestrators, Done(o)
    PROVE  /\ at' \in [Orchestrators -> {"down", "rest"} \cup TxPcs \cup StartPcs \cup RangePcs]
           /\ room' \in [Orchestrators -> Rooms \cup {NoRoom}]
           /\ pair' \in [Orchestrators -> Pairs \cup {NoPair}]
           /\ freed' \in [Orchestrators -> SUBSET Pairs]
           /\ tries' = tries /\ config' = config /\ stranded' = stranded
BY DEF TypeOK, Done, Goto

LEMMA TeardownType ==
    ASSUME TypeOK, NEW r \in Rooms, Teardown(r)
    PROVE  obj' \in [Rooms -> [here : BOOLEAN, pair : Pairs \cup {NoPair},
                               deleting : BOOLEAN, address : Answers]]
<1>1. obj[r] \in [here : BOOLEAN, pair : Pairs \cup {NoPair}, deleting : BOOLEAN, address : Answers]
  BY DEF TypeOK
<1>2. [obj[r] EXCEPT !.deleting = TRUE]
         \in [here : BOOLEAN, pair : Pairs \cup {NoPair}, deleting : BOOLEAN, address : Answers]
  BY <1>1
<1> QED BY <1>2 DEF TypeOK, Teardown

LEMMA ClaimType ==
    ASSUME TypeOK, NEW o \in Orchestrators, NEW p \in Pairs, Claim(o, p),
           UNCHANGED <<table, state, redeploy, obj, budget, lost>>
    PROVE  TypeOK'
<1>1. /\ at' \in [Orchestrators -> {"down", "rest"} \cup TxPcs \cup StartPcs \cup RangePcs]
      /\ pair' \in [Orchestrators -> Pairs \cup {NoPair}]
  BY DEF TypeOK, Claim, Goto, TxPcs
<1> QED BY <1>1 DEF TypeOK, Claim, table

LEMMA AllocateType ==
    ASSUME TypeOK, NEW o \in Orchestrators, Allocate(o)
    PROVE  TypeOK'
<1> USE DEF TypeOK, table, Moves, Goto
<1>1. CASE OwnPair(o)
  <2>1. Bound(room[o]) \subseteq Pairs /\ InRange \subseteq Pairs
    BY DEF Bound, InRange, Free
  <2>2. /\ at' \in [Orchestrators -> {"down", "rest"} \cup TxPcs \cup StartPcs \cup RangePcs]
        /\ pair' \in [Orchestrators -> Pairs \cup {NoPair}]
        /\ freed' \in [Orchestrators -> SUBSET Pairs]
    BY <1>1, <2>1 DEF OwnPair, TxPcs, StartPcs
  <2>3. UNCHANGED <<table, state, redeploy, obj, room, tries, config, stranded, budget, lost>>
    BY <1>1 DEF OwnPair
  <2> QED BY <2>2, <2>3
<1>2. CASE ClaimUnbound(o)
  <2>1. Unbound(o) \subseteq Pairs BY DEF Unbound, InRange, Free
  <2>2. CASE Unbound(o) # {}
    <3>1. PICK p \in Pairs : Claim(o, p) BY <1>2, <2>1, <2>2 DEF ClaimUnbound
    <3> QED BY <1>2, <3>1, ClaimType DEF ClaimUnbound
  <2>3. CASE Unbound(o) = {}
    BY <1>2, <2>3 DEF ClaimUnbound, TxPcs
  <2> QED BY <2>2, <2>3
<1>3. CASE Reclaim(o)
  <2>1. Victims(o) \subseteq Pairs BY DEF Victims, InRange, Free
  <2>2. CASE Victims(o) # {}
    <3>1. PICK p \in Pairs : Claim(o, p) BY <1>3, <2>1, <2>2 DEF Reclaim
    <3> QED BY <1>3, <3>1, ClaimType DEF Reclaim
  <2>3. CASE Victims(o) = {}
    BY <1>3, <2>3 DEF Reclaim, TxPcs
  <2> QED BY <2>2, <2>3
<1>4. CASE LookAgain(o)
  <2>1. tries[o] \in 0..MaxTries OBVIOUS
  <2>2. tries[o] < MaxTries => tries[o] + 1 \in 0..MaxTries
    BY <2>1, AllocatorAssumption
  <2>3. tries' \in [Orchestrators -> 0..MaxTries] BY <1>4, <2>2 DEF LookAgain
  <2>4. /\ at' \in [Orchestrators -> {"down", "rest"} \cup TxPcs \cup StartPcs \cup RangePcs]
        /\ freed' \in [Orchestrators -> SUBSET Pairs]
    BY <1>4 DEF LookAgain, TxPcs, StartPcs
  <2>5. UNCHANGED <<table, state, redeploy, obj, room, pair, config, stranded, budget, lost>>
    BY <1>4 DEF LookAgain
  <2> HIDE DEF Goto, Moves
  <2> QED BY <2>3, <2>4, <2>5
<1>5. CASE Commit(o)
  <2>1. room[o] \in Rooms \cup {NoRoom} OBVIOUS
  <2>2. owner' \in [Pairs -> Rooms \cup {NoRoom}] BY <1>5, <2>1 DEF Commit
  <2> QED BY <1>5, <2>2 DEF Commit, TxPcs, StartPcs
<1> QED BY <1>1, <1>2, <1>3, <1>4, <1>5 DEF Allocate

LEMMA FinishType ==
    ASSUME TypeOK, Working, NEW o \in Orchestrators,
           EnsureObjects(o) \/ ReadAddress(o) \/ Quarantine(o) \/ FailExhausted(o)
    PROVE  TypeOK'
<1> DEFINE r == room[o]
<1>1. r \in Rooms
  BY DEF Working, EnsureObjects, ReadAddress, Quarantine, FailExhausted, StartPcs
<1>2. CASE EnsureObjects(o)
  <2>1. CASE obj[r].here /\ obj[r].deleting /\ Done(o) /\ UNCHANGED <<state, obj>>
    BY <1>2, <2>1, DoneType DEF EnsureObjects, TypeOK, table
  <2>2. CASE obj[r].here /\ Moves(o, "address") /\ UNCHANGED <<state, obj>>
    BY <1>2, <2>2 DEF EnsureObjects, TypeOK, table, Moves, Goto, StartPcs
  <2>3. CASE Teardown(r) /\ state' = [state EXCEPT ![r] = "idle"] /\ Done(o)
    <3>1. state' \in [Rooms -> {"idle", "live", "stopping", "failed"}] BY <2>3 DEF TypeOK
    <3> QED BY <1>1, <1>2, <2>3, <3>1, DoneType, TeardownType DEF EnsureObjects, TypeOK, table
  <2>4. CASE /\ obj' = [obj EXCEPT ![r] = [here |-> TRUE, pair |-> pair[o],
                                           deleting |-> FALSE, address |-> "pending"]]
             /\ Moves(o, "address") /\ UNCHANGED state
    <3>1. obj' \in [Rooms -> [here : BOOLEAN, pair : Pairs \cup {NoPair},
                              deleting : BOOLEAN, address : Answers]]
      <4>1. pair[o] \in Pairs \cup {NoPair} BY DEF TypeOK
      <4> QED BY <2>4, <4>1 DEF TypeOK, Answers
    <3> QED BY <1>2, <2>4, <3>1 DEF EnsureObjects, TypeOK, table, Moves, Goto, StartPcs
  <2> QED BY <1>2, <2>1, <2>2, <2>3, <2>4 DEF EnsureObjects
<1>3. CASE ReadAddress(o)
  <2>1. CASE Done(o) /\ UNCHANGED <<state, redeploy, obj, lost>>
    BY <1>3, <2>1, DoneType DEF ReadAddress, TypeOK, table
  <2>2. CASE /\ state' = [state EXCEPT ![r] = "live"]
             /\ redeploy' = redeploy \ {r} /\ lost' = lost \ {r} /\ Done(o) /\ UNCHANGED obj
    <3>1. state' \in [Rooms -> {"idle", "live", "stopping", "failed"}] BY <2>2 DEF TypeOK
    <3> QED BY <1>3, <2>2, <3>1, DoneType DEF ReadAddress, TypeOK, table
  <2>3. CASE /\ Teardown(r) /\ (Moves(o, "mismatch") \/ Moves(o, "taken"))
             /\ UNCHANGED <<state, redeploy, lost>>
    BY <1>1, <1>3, <2>3, TeardownType DEF ReadAddress, TypeOK, table, Moves, Goto, StartPcs
  <2>4. CASE /\ Teardown(r) /\ state' = [state EXCEPT ![r] = "failed"]
             /\ Done(o) /\ UNCHANGED <<redeploy, lost>>
    <3>1. state' \in [Rooms -> {"idle", "live", "stopping", "failed"}] BY <2>4 DEF TypeOK
    <3> QED BY <1>1, <1>3, <2>4, <3>1, DoneType, TeardownType DEF ReadAddress, TypeOK, table
  <2>5. \/ Done(o) /\ UNCHANGED <<state, redeploy, obj, lost>>
        \/ /\ state' = [state EXCEPT ![r] = "live"]
           /\ redeploy' = redeploy \ {r} /\ lost' = lost \ {r} /\ Done(o) /\ UNCHANGED obj
        \/ Teardown(r) /\ Moves(o, "mismatch") /\ UNCHANGED <<state, redeploy, lost>>
        \/ Teardown(r) /\ Moves(o, "taken") /\ UNCHANGED <<state, redeploy, lost>>
        \/ /\ Teardown(r) /\ state' = [state EXCEPT ![r] = "failed"]
           /\ Done(o) /\ UNCHANGED <<redeploy, lost>>
    BY <1>3 DEF ReadAddress
  <2> QED BY <2>1, <2>2, <2>3, <2>4, <2>5
<1>4. CASE Quarantine(o)
  <2>1. /\ state' \in [Rooms -> {"idle", "live", "stopping", "failed"}]
        /\ owner' \in [Pairs -> Rooms \cup {NoRoom}]
        /\ held' \in SUBSET Pairs
    BY <1>4 DEF Quarantine, TypeOK
  <2> QED BY <1>4, <2>1, DoneType DEF Quarantine, TypeOK
<1>5. CASE FailExhausted(o)
  <2>1. state' \in [Rooms -> {"idle", "live", "stopping", "failed"}]
    BY <1>5 DEF FailExhausted, TypeOK
  <2> QED BY <1>1, <1>5, <2>1, DoneType, TeardownType DEF FailExhausted, TypeOK, table
<1> QED BY <1>2, <1>3, <1>4, <1>5

LEMMA StepsType ==
    ASSUME TypeOK, NEW o \in Orchestrators, Steps(o)
    PROVE  TypeOK'
<1> PICK r \in Rooms :
         \/ BeginStart(o, r) \/ Stop(o, r) \/ FailStart(o, r) \/ Recreate(o, r)
         \/ MarkIdle(o, r) \/ Retry(o, r)
  BY DEF Steps
<1>1. CASE BeginStart(o, r)
  <2>1. 0 \in 0..MaxTries BY AllocatorAssumption
  <2>2. /\ at' \in [Orchestrators -> {"down", "rest"} \cup TxPcs \cup StartPcs \cup RangePcs]
        /\ room' \in [Orchestrators -> Rooms \cup {NoRoom}]
        /\ tries' \in [Orchestrators -> 0..MaxTries]
    BY <1>1, <2>1 DEF BeginStart, Goto, TypeOK, TxPcs
  <2> QED BY <1>1, <2>2 DEF BeginStart, TypeOK, table
<1>2. ASSUME NEW from, NEW next \in {"idle", "stopping", "failed"}, Leave(o, r, from, next),
             redeploy' \in SUBSET Rooms
      PROVE  TypeOK'
  <2>1. state' \in [Rooms -> {"idle", "live", "stopping", "failed"}] BY <1>2 DEF Leave, TypeOK
  <2> QED BY <1>2, <2>1, TeardownType DEF Leave, TypeOK, table, process
<1>3. CASE Stop(o, r) BY <1>2, <1>3 DEF Stop, TypeOK
<1>4. CASE FailStart(o, r) BY <1>2, <1>4 DEF FailStart, TypeOK
<1>5. CASE Recreate(o, r) BY <1>2, <1>5 DEF Recreate, TypeOK
<1>6. CASE MarkIdle(o, r) \/ Retry(o, r)
  BY <1>6 DEF MarkIdle, Retry, TypeOK, table, process
<1> QED BY <1>1, <1>3, <1>4, <1>5, <1>6

LEMMA RangeType ==
    ASSUME TypeOK, NEW o \in Orchestrators, EnsureRange(o)
    PROVE  TypeOK'
<1> USE DEF TypeOK, table, Goto
<1>1. CASE Boot(o)
  <2>1. budget' \in [starts : 0..MaxStarts, faults : 0..MaxFaults]
    BY <1>1, AllocatorAssumption DEF Boot, Spend
  <2>2. config' \in [Orchestrators -> SUBSET Pairs] BY <1>1, AllocatorAssumption DEF Boot
  <2>3. /\ at' \in [Orchestrators -> {"down", "rest"} \cup TxPcs \cup StartPcs \cup RangePcs]
        /\ room' \in [Orchestrators -> Rooms \cup {NoRoom}]
        /\ pair' \in [Orchestrators -> Pairs \cup {NoPair}]
        /\ freed' \in [Orchestrators -> SUBSET Pairs]
        /\ stranded' \in [Orchestrators -> SUBSET Rooms]
    BY <1>1 DEF Boot, RangePcs
  <2> QED BY <1>1, <2>1, <2>2, <2>3 DEF Boot
<1>2. CASE ReadStranded(o) BY <1>2 DEF ReadStranded, RangePcs
<1>3. CASE RecordRange(o) BY <1>3 DEF RecordRange, Moves, RangePcs
<1>4. CASE DropOutside(o)
  <2>1. owner' \in [Pairs -> Rooms \cup {NoRoom}] BY <1>4 DEF DropOutside
  <2> QED BY <1>4, <2>1 DEF DropOutside, Moves, RangePcs
<1>5. CASE SeedMissing(o) BY <1>5 DEF SeedMissing, Moves, RangePcs
<1>6. CASE RestartStranded(o) BY <1>6 DEF RestartStranded
<1> QED BY <1>1, <1>2, <1>3, <1>4, <1>5, <1>6 DEF EnsureRange

\* The load balancer and the garbage collector touch the objects only.
ClusterMoves == \E r \in Rooms : Answer(r) \/ Deny(r) \/ Collect(r)

LEMMA ClusterType ==
    ASSUME TypeOK, ClusterMoves
    PROVE  TypeOK'
<1> PICK r \in Rooms : Answer(r) \/ Deny(r) \/ Collect(r) BY DEF ClusterMoves
<1> DEFINE Objects == [here : BOOLEAN, pair : Pairs \cup {NoPair}, deleting : BOOLEAN,
                       address : Answers]
<1>1. obj[r] \in Objects BY DEF TypeOK
<1>2. \A answer \in Answers : [obj[r] EXCEPT !.address = answer] \in Objects BY <1>1
<1>3. CASE Answer(r)
  <2>1. PICK answer \in Answers : obj' = [obj EXCEPT ![r] = [obj[r] EXCEPT !.address = answer]]
    BY <1>3 DEF Answer, Answers
  <2>2. obj' \in [Rooms -> Objects] BY <1>2, <2>1 DEF TypeOK
  <2> QED BY <1>3, <2>2 DEF Answer, TypeOK, table, process
<1>4. CASE Deny(r)
  <2>1. PICK answer \in Answers : obj' = [obj EXCEPT ![r] = [obj[r] EXCEPT !.address = answer]]
    BY <1>4 DEF Deny, Answers
  <2>2. obj' \in [Rooms -> Objects] BY <1>2, <2>1 DEF TypeOK
  <2>3. budget' \in [starts : 0..MaxStarts, faults : 0..MaxFaults]
    BY <1>4, AllocatorAssumption DEF Deny, Spend, TypeOK
  <2> QED BY <1>4, <2>2, <2>3 DEF Deny, TypeOK, table, process
<1>5. CASE Collect(r)
  <2>1. obj' \in [Rooms -> Objects] BY <1>5 DEF Collect, Gone, TypeOK, Answers
  <2> QED BY <1>5, <2>1 DEF Collect, TypeOK, table, process
<1> QED BY <1>3, <1>4, <1>5

\* Types survive every step.
LEMMA NextType ==
    ASSUME TypeOK, Working, [Next]_vars
    PROVE  TypeOK'
<1>1. CASE \E o \in Orchestrators : Steps(o) \/ Start(o) \/ EnsureRange(o)
  BY <1>1, StepsType, AllocateType, FinishType, RangeType DEF Start
<1>2. CASE ClusterMoves BY <1>2, ClusterType
<1>3. CASE \E p \in Pairs : QuarantineEnds(p)
  BY <1>3 DEF QuarantineEnds, TypeOK, process
<1>4. CASE UNCHANGED vars BY <1>4 DEF vars, table, process, TypeOK
<1> QED BY <1>1, <1>2, <1>3, <1>4 DEF Next, ClusterMoves

LEMMA InitWorking == Init => Working
BY DEF Init, Working, TxPcs, StartPcs

LEMMA NextWorking ==
    ASSUME TypeOK, Working, [Next]_vars
    PROVE  Working'
<1> USE DEF Working
<1>1. ASSUME NEW o \in Orchestrators, Done(o) PROVE Working'
  BY <1>1 DEF Done, Goto, TxPcs, StartPcs, TypeOK
<1>2. ASSUME NEW o \in Orchestrators, NEW next, Goto(o, next), room' = room,
             next \in TxPcs \cup StartPcs => at[o] \in TxPcs \cup StartPcs
      PROVE  Working'
  BY <1>2 DEF Goto, TypeOK
<1>3. ASSUME NEW o \in Orchestrators, Steps(o) PROVE Working'
  <2>1. PICK r \in Rooms :
          \/ BeginStart(o, r) \/ Stop(o, r) \/ FailStart(o, r) \/ Recreate(o, r)
          \/ MarkIdle(o, r) \/ Retry(o, r)
    BY <1>3 DEF Steps
  <2>2. CASE BeginStart(o, r) BY <2>2 DEF BeginStart, Goto, TypeOK
  <2>3. CASE ~BeginStart(o, r)
    BY <2>1, <2>3 DEF Stop, FailStart, Recreate, MarkIdle, Retry, Leave, process
  <2> QED BY <2>2, <2>3
<1>4. ASSUME NEW o \in Orchestrators, Allocate(o) PROVE Working'
  BY <1>2, <1>4 DEF Allocate, OwnPair, ClaimUnbound, Reclaim, LookAgain, Commit, Claim, Moves,
                    TxPcs, StartPcs
<1>5. ASSUME NEW o \in Orchestrators, EnsureObjects(o) \/ ReadAddress(o) \/ Quarantine(o)
                                        \/ FailExhausted(o)
      PROVE  Working'
  BY <1>1, <1>2, <1>5 DEF EnsureObjects, ReadAddress, Quarantine, FailExhausted, Moves,
                          TxPcs, StartPcs
<1>6. ASSUME NEW o \in Orchestrators, EnsureRange(o) PROVE Working'
  <2>1. CASE Boot(o) BY <2>1 DEF Boot, Goto, TypeOK, TxPcs, StartPcs
  <2>2. CASE ~Boot(o)
    BY <1>2, <1>6, <2>2 DEF EnsureRange, ReadStranded, RecordRange, DropOutside, SeedMissing,
                            RestartStranded, Moves, TxPcs, StartPcs
  <2> QED BY <2>1, <2>2
<1>7. CASE ClusterMoves BY <1>7 DEF ClusterMoves, Answer, Deny, Collect, process
<1>8. CASE \E p \in Pairs : QuarantineEnds(p) BY <1>8 DEF QuarantineEnds, process
<1>9. CASE UNCHANGED vars BY <1>9 DEF vars, process
<1> QED BY <1>3, <1>4, <1>5, <1>6, <1>7, <1>8, <1>9 DEF Next, Start, ClusterMoves

(***************************************************************************)
(* One pair per room.                                                      *)
(***************************************************************************)
Same(x) == UNCHANGED <<at[x], room[x], pair[x], freed[x]>>

LEMMA InitCore == Init => Core
BY DEF Init, Core, OnePairPerRoom, RowsOK, TxOK, Apart, InTx, TxPcs, Released

\* A step that binds nothing and opens no transaction.
LEMMA Quiet ==
    ASSUME TypeOK, Working, Core,
           \A x \in Orchestrators : Same(x) \/ at'[x] \notin TxPcs,
           \A p \in Pairs : owner'[p] \in {owner[p], NoRoom},
           rows \subseteq rows'
    PROVE  Core'
<1>1. OnePairPerRoom' BY DEF Core, OnePairPerRoom
<1>2. RowsOK' BY DEF Core, RowsOK
<1>3. ASSUME NEW x \in Orchestrators PROVE TxOK(x)'
  <2>1. CASE at'[x] \notin TxPcs BY <2>1 DEF TxOK, Released, TxPcs
  <2>2. CASE Same(x) /\ at'[x] \in TxPcs
    <3>1. room[x] \in Rooms BY <2>2 DEF Same, Working
    <3> QED BY <2>2, <3>1, AllocatorAssumption DEF Same, Core, TxOK
  <2> QED BY <2>1, <2>2
<1>4. ASSUME NEW o \in Orchestrators, NEW x \in Orchestrators, o # x PROVE Apart(o, x)'
  BY <1>4 DEF Core, Apart, InTx, Same, TxPcs
<1> QED BY <1>1, <1>2, <1>3, <1>4 DEF Core

\* A step that one transaction takes within itself.
LEMMA Inside ==
    ASSUME TypeOK, Core, NEW o \in Orchestrators,
           \A x \in Orchestrators \ {o} : Same(x) /\ Apart(o, x)',
           TxOK(o)', UNCHANGED <<owner, rows>>
    PROVE  Core'
<1>1. OnePairPerRoom' /\ RowsOK' BY DEF Core, OnePairPerRoom, RowsOK
<1>2. ASSUME NEW x \in Orchestrators PROVE TxOK(x)'
  BY <1>2 DEF Core, TxOK, Same
<1>3. ASSUME NEW x \in Orchestrators, NEW y \in Orchestrators, x # y PROVE Apart(x, y)'
  <2>1. CASE x = o BY <1>3, <2>1
  <2>2. CASE y = o BY <1>3, <2>2 DEF Apart
  <2>3. CASE x # o /\ y # o BY <1>3, <2>3 DEF Core, Apart, Same, InTx
  <2> QED BY <2>1, <2>2, <2>3
<1> QED BY <1>1, <1>2, <1>3 DEF Core

\* The pair a transaction claims is one nobody else has written.
LEMMA ClaimCore ==
    ASSUME TypeOK, Working, Core, NEW o \in Orchestrators, at[o] \in Released \ {"claimed"},
           NEW p \in rows, p \notin LockedFor(o), Claim(o, p), UNCHANGED <<owner, rows>>
    PROVE  Core'
<1>1. p \in Pairs BY DEF TypeOK
<1>2. at' = [at EXCEPT ![o] = "claimed"] /\ pair' = [pair EXCEPT ![o] = p]
  BY DEF Claim, Goto
<1>3. UNCHANGED <<room, freed>> BY DEF Claim
<1>4. TxOK(o)' BY <1>1, <1>2, <1>3 DEF Core, TxOK, Released, TypeOK
<1>5. ASSUME NEW x \in Orchestrators \ {o} PROVE Same(x) /\ Apart(o, x)'
  <2>1. Same(x) BY <1>2, <1>3 DEF Same, TypeOK
  <2>2. at[x] = "claimed" => pair[x] # p
    BY DEF LockedFor, Written, InTx, TxPcs
  <2>3. InTx(x) => room[o] # room[x] BY DEF Core, Apart, InTx, Released, TxPcs
  <2> QED BY <1>2, <1>3, <2>1, <2>2, <2>3 DEF Same, Apart, InTx, TypeOK
<1> QED BY <1>4, <1>5, Inside

LEMMA AllocateCore ==
    ASSUME TypeOK, Working, Core, NEW o \in Orchestrators, Allocate(o)
    PROVE  Core'
<1>1. CASE OwnPair(o)
  <2>1. CASE at'[o] \notin TxPcs
    BY <1>1, <2>1, Quiet DEF OwnPair, Same, Goto, table, TypeOK
  <2>2. CASE at'[o] \in TxPcs
    <3>1. /\ at[o] = "own" /\ at' = [at EXCEPT ![o] = "unbound"]
          /\ freed' = [freed EXCEPT ![o] = Bound(room[o])]
          /\ UNCHANGED <<room, pair, owner, rows>>
      BY <1>1, <2>2 DEF OwnPair, Goto, table, TypeOK, TxPcs
    <3>2. \A p \in Pairs : owner[p] = room[o] => p \in Bound(room[o])
      <4>1. room[o] \in Rooms BY <3>1 DEF Working, TxPcs
      <4> QED BY <4>1, AllocatorAssumption DEF Core, RowsOK, Bound
    <3>3. TxOK(o)' BY <3>1, <3>2 DEF TxOK, TypeOK
    <3>4. ASSUME NEW x \in Orchestrators \ {o} PROVE Same(x) /\ Apart(o, x)'
      BY <3>1 DEF Core, Apart, Same, InTx, TxPcs, TypeOK
    <3> QED BY <3>1, <3>3, <3>4, Inside
  <2> QED BY <2>1, <2>2
<1>2. ASSUME NEW next \in TxPcs \ {"own", "claimed"}, at[o] \in Released \ {"claimed"},
             Goto(o, next), UNCHANGED <<room, pair, freed, owner, rows>>
      PROVE  Core'
  <2>1. TxOK(o)' BY <1>2 DEF Core, TxOK, Goto, TypeOK
  <2>2. ASSUME NEW x \in Orchestrators \ {o} PROVE Same(x) /\ Apart(o, x)'
    BY <1>2 DEF Core, Apart, Same, InTx, Goto, TxPcs, Released, TypeOK
  <2> QED BY <1>2, <2>1, <2>2, Inside
<1>3. CASE ClaimUnbound(o)
  <2>1. CASE Unbound(o) # {}
    <3>1. PICK p \in Unbound(o) : Claim(o, p) BY <1>3, <2>1 DEF ClaimUnbound
    <3>2. p \in rows /\ p \notin LockedFor(o) BY DEF Unbound, InRange, Free
    <3> QED BY <1>3, <3>1, <3>2, ClaimCore DEF ClaimUnbound, Released, table
  <2>2. CASE Unbound(o) = {}
    BY <1>2, <1>3, <2>2 DEF ClaimUnbound, Moves, Released, TxPcs, table
  <2> QED BY <2>1, <2>2
<1>4. CASE Reclaim(o)
  <2>1. CASE Victims(o) # {}
    <3>1. PICK p \in Victims(o) : Claim(o, p) BY <1>4, <2>1 DEF Reclaim
    <3>2. p \in rows /\ p \notin LockedFor(o) BY DEF Victims, InRange, Free
    <3> QED BY <1>4, <3>1, <3>2, ClaimCore DEF Reclaim, Released, table
  <2>2. CASE Victims(o) = {}
    BY <1>2, <1>4, <2>2 DEF Reclaim, Moves, Released, TxPcs, table
  <2> QED BY <2>1, <2>2
<1>5. CASE LookAgain(o)
  <2>1. CASE Goto(o, "unbound") /\ UNCHANGED freed
    BY <1>2, <1>5, <2>1 DEF LookAgain, Released, TxPcs, table
  <2>2. CASE Goto(o, "exhausted") /\ freed' = [freed EXCEPT ![o] = {}]
    BY <1>5, <2>2, Quiet DEF LookAgain, Goto, Same, table, TxPcs, TypeOK
  <2> QED BY <1>5, <2>1, <2>2 DEF LookAgain
<1>6. CASE Commit(o)
  <2> DEFINE r == room[o]
  <2>1. r \in Rooms /\ r # NoRoom BY <1>6, AllocatorAssumption DEF Commit, Working, TxPcs
  <2>2. /\ at[o] = "claimed" /\ at' = [at EXCEPT ![o] = "ensure"]
        /\ freed' = [freed EXCEPT ![o] = {}]
        /\ UNCHANGED <<rows, room, pair>>
    BY <1>6 DEF Commit, Goto
  <2>3. \A p \in Pairs : owner'[p] = IF p = pair[o] THEN r
                                     ELSE IF p \in freed[o] THEN NoRoom ELSE owner[p]
    BY <1>6 DEF Commit
  <2>4. \A p \in Pairs : owner[p] = r => p \in freed[o]
    BY <2>2 DEF Core, TxOK, Released
  <2>5. \A p \in Pairs : owner'[p] = r => p = pair[o] BY <2>1, <2>3, <2>4
  <2>6. \A p \in Pairs : owner'[p] \in {r, owner[p], NoRoom} BY <2>3
  <2>7. OnePairPerRoom' BY <2>3, <2>5 DEF Core, OnePairPerRoom
  <2>8. RowsOK' BY <2>2, <2>3 DEF Core, RowsOK, TxOK
  <2>9. ASSUME NEW x \in Orchestrators PROVE TxOK(x)'
    <3>1. CASE x = o BY <2>2, <3>1 DEF TxOK, Released, TypeOK
    <3>2. CASE x # o /\ at[x] \in Released
      <4>1. room[x] \in Rooms /\ room[x] # r
        BY <2>2, <3>2 DEF Core, Apart, InTx, Released, TxPcs, Working
      <4>2. UNCHANGED <<at[x], room[x], pair[x], freed[x]>> BY <2>2, <3>2 DEF TypeOK
      <4> QED BY <2>2, <2>6, <4>1, <4>2, <3>2, AllocatorAssumption DEF Core, TxOK
    <3>3. CASE x # o /\ at[x] \notin Released BY <2>2, <3>3 DEF TxOK, Released, TypeOK
    <3> QED BY <3>1, <3>2, <3>3
  <2>10. ASSUME NEW x \in Orchestrators, NEW y \in Orchestrators, x # y PROVE Apart(x, y)'
    BY <2>2, <2>10 DEF Core, Apart, InTx, TxPcs, TypeOK
  <2> QED BY <2>7, <2>8, <2>9, <2>10 DEF Core
<1> QED BY <1>1, <1>3, <1>4, <1>5, <1>6 DEF Allocate

LEMMA FinishCore ==
    ASSUME TypeOK, Working, Core, NEW o \in Orchestrators,
           EnsureObjects(o) \/ ReadAddress(o) \/ Quarantine(o) \/ FailExhausted(o)
    PROVE  Core'
<1>1. /\ \A x \in Orchestrators : Same(x) \/ at'[x] \notin TxPcs
      /\ \A p \in Pairs : owner'[p] \in {owner[p], NoRoom}
      /\ rows' = rows
  <2>1. \A x \in Orchestrators : Same(x) \/ at'[x] \notin TxPcs
    BY DEF EnsureObjects, ReadAddress, Quarantine, FailExhausted, Moves, Done, Goto, Same,
           TxPcs, TypeOK
  <2>2. (\A p \in Pairs : owner'[p] \in {owner[p], NoRoom}) /\ rows' = rows
    BY DEF EnsureObjects, ReadAddress, Quarantine, FailExhausted, table, TypeOK
  <2> QED BY <2>1, <2>2
<1> QED BY <1>1, Quiet

LEMMA StepsCore ==
    ASSUME TypeOK, Working, Core, NEW o \in Orchestrators, Steps(o)
    PROVE  Core'
<1> PICK r \in Rooms :
         \/ BeginStart(o, r) \/ Stop(o, r) \/ FailStart(o, r) \/ Recreate(o, r)
         \/ MarkIdle(o, r) \/ Retry(o, r)
  BY DEF Steps
<1>1. CASE BeginStart(o, r)
  <2>1. /\ at[o] = "rest" /\ at' = [at EXCEPT ![o] = "own"]
        /\ room' = [room EXCEPT ![o] = r]
        /\ UNCHANGED <<pair, freed, owner, rows>>
    BY <1>1 DEF BeginStart, Goto, table
  <2>2. TxOK(o)' BY <2>1 DEF TxOK, Released, TypeOK
  <2>3. ASSUME NEW x \in Orchestrators \ {o} PROVE Same(x) /\ Apart(o, x)'
    <3>1. InTx(x) => room[x] # r BY <1>1 DEF BeginStart, RoomLocked
    <3> QED BY <2>1, <3>1 DEF Apart, Same, InTx, TypeOK
  <2> QED BY <2>1, <2>2, <2>3, Inside
<1>2. CASE Stop(o, r) \/ FailStart(o, r) \/ Recreate(o, r) \/ MarkIdle(o, r) \/ Retry(o, r)
  <2>1. UNCHANGED <<table, process>>
    BY <1>2 DEF Stop, FailStart, Recreate, MarkIdle, Retry, Leave
  <2> QED BY <2>1, Quiet DEF table, process, Same
<1> QED BY <1>1, <1>2

\* A row another transaction has claimed is waited for, not deleted.
LEMMA RangeCore ==
    ASSUME TypeOK, Working, Core, NEW o \in Orchestrators, EnsureRange(o)
    PROVE  Core'
<1>1. CASE DropOutside(o)
  <2>1. /\ at[o] = "drop" /\ at' = [at EXCEPT ![o] = "seed"]
        /\ rows' = rows \cap config[o]
        /\ UNCHANGED <<room, pair, freed>>
    BY <1>1 DEF DropOutside, Moves, Goto
  <2>2. \A p \in Pairs : owner'[p] = IF p \in config[o] THEN owner[p] ELSE NoRoom
    BY <1>1 DEF DropOutside
  <2>3. OnePairPerRoom' BY <2>2 DEF Core, OnePairPerRoom
  <2>4. RowsOK' BY <2>1, <2>2 DEF Core, RowsOK
  <2>5. ASSUME NEW x \in Orchestrators PROVE TxOK(x)'
    <3>1. CASE x = o BY <2>1, <3>1 DEF TxOK, Released, TypeOK
    <3>2. CASE x # o /\ at[x] \in Released
      <4>1. room[x] \in Rooms BY <3>2 DEF Working, Released, TxPcs
      <4>2. UNCHANGED <<at[x], room[x], pair[x], freed[x]>> BY <2>1, <3>2 DEF TypeOK
      <4>3. at[x] = "claimed" => pair[x] \in LockedFor(o)
        BY <3>2 DEF LockedFor, Written, InTx, TxPcs
      <4>4. at[x] = "claimed" => pair[x] \in rows'
        BY <1>1, <2>1, <4>3 DEF DropOutside, Core, TxOK
      <4> QED BY <2>2, <4>1, <4>2, <4>4, AllocatorAssumption DEF Core, TxOK
    <3>3. CASE x # o /\ at[x] \notin Released BY <2>1, <3>3 DEF TxOK, Released, TypeOK
    <3> QED BY <3>1, <3>2, <3>3
  <2>6. ASSUME NEW x \in Orchestrators, NEW y \in Orchestrators, x # y PROVE Apart(x, y)'
    BY <2>1, <2>6 DEF Core, Apart, InTx, TxPcs, TypeOK
  <2> QED BY <2>3, <2>4, <2>5, <2>6 DEF Core
<1>2. CASE ~DropOutside(o)
  <2>1. \A x \in Orchestrators : Same(x) \/ at'[x] \notin TxPcs
    BY <1>2 DEF EnsureRange, Boot, ReadStranded, RecordRange, SeedMissing, RestartStranded,
                Moves, Goto, Same, TxPcs, TypeOK
  <2>2. owner' = owner /\ rows \subseteq rows'
    BY <1>2 DEF EnsureRange, Boot, ReadStranded, RecordRange, SeedMissing, RestartStranded, table
  <2> QED BY <2>1, <2>2, Quiet
<1> QED BY <1>1, <1>2

LEMMA NextCore ==
    ASSUME TypeOK, Working, Core, [Next]_vars
    PROVE  Core'
<1>1. CASE \E o \in Orchestrators : Steps(o) \/ Start(o) \/ EnsureRange(o)
  BY <1>1, StepsCore, AllocateCore, FinishCore, RangeCore DEF Start
<1>2. CASE \/ \E r \in Rooms : Answer(r) \/ Deny(r) \/ Collect(r)
           \/ \E p \in Pairs : QuarantineEnds(p)
           \/ UNCHANGED vars
  <2>1. UNCHANGED <<process, owner, rows>>
    BY <1>2 DEF Answer, Deny, Collect, QuarantineEnds, vars, table
  <2> QED BY <2>1, Quiet DEF process, Same
<1> QED BY <1>1, <1>2 DEF Next

\* The inductive invariant of the allocator, for any number of orchestrators.
THEOREM AllocatorInvariant == Spec => []IInv
<1>1. Init => IInv BY InitType, InitWorking, InitCore DEF IInv
<1>2. IInv /\ [Next]_vars => IInv'
  BY NextType, NextWorking, NextCore DEF IInv
<1> QED BY <1>1, <1>2, PTL DEF Spec

\* Type correctness (port_reservations, port_ranges, and what an orchestrator
\* carries from one statement to the next).
THEOREM TypeCorrect == Spec => []TypeOK
BY AllocatorInvariant, PTL DEF IInv

\* However many orchestrators allocate at once, restart, quarantine and move
\* the range, no room is ever bound to two pairs: the index on room_id is never
\* what stops it (port.rs).
THEOREM NoRoomHoldsTwoPairs == Spec => []OnePairPerRoom
<1>1. IInv => OnePairPerRoom BY DEF IInv, Core
<1> QED BY <1>1, AllocatorInvariant, PTL

\* Two allocations in flight never hand out the same pair (port.rs: what the
\* 64-way test of allocator.rs looks for).
THEOREM ConcurrentClaimsDiffer == Spec => []ClaimsAreDistinct
<1>1. IInv => ClaimsAreDistinct BY DEF IInv, Core, Apart, ClaimsAreDistinct
<1> QED BY <1>1, AllocatorInvariant, PTL

(***************************************************************************)
(* With one orchestrator nothing moves a room while its allocator is at    *)
(* work, so what phase 3 read of its victim still holds when it commits.   *)
(***************************************************************************)
OneOrchestrator == \A o, x \in Orchestrators : o = x

Unmoved(o) ==
    /\ InTx(o) => state[room[o]] = "idle"
    /\ at[o] \notin Released => freed[o] = {}
    /\ \A p \in freed[o] : owner[p] = room[o]
    /\ at[o] = "claimed" /\ owner[pair[o]] # NoRoom => state[owner[pair[o]]] # "live"

Still == \A o \in Orchestrators : Unmoved(o)

LEMMA InitStill == Init => Still
BY DEF Init, Still, Unmoved, InTx, TxPcs

LEMMA AllocateStill ==
    ASSUME OneOrchestrator, TypeOK, Still, NEW o \in Orchestrators, Allocate(o)
    PROVE  Still'
<1> SUFFICES Unmoved(o)' BY DEF OneOrchestrator, Still
<1>1. Unmoved(o) BY DEF Still
<1>2. ASSUME NEW p \in Pairs, Claim(o, p), InTx(o), UNCHANGED <<owner, state>>,
             owner[p] # NoRoom => state[owner[p]] # "live"
      PROVE  Unmoved(o)'
  BY <1>1, <1>2 DEF Claim, Goto, Unmoved, InTx, TxPcs, Released, TypeOK
<1>3. CASE OwnPair(o)
  BY <1>1, <1>3 DEF OwnPair, Unmoved, Bound, Goto, InTx, TxPcs, Released, table, TypeOK
<1>4. CASE ClaimUnbound(o)
  <2>1. ASSUME NEW p \in Unbound(o)
        PROVE  p \in Pairs /\ (owner[p] # NoRoom => state[owner[p]] # "live")
    BY <1>1, <1>4 DEF Unbound, InRange, Free, Seen, Unmoved, InTx, TxPcs, ClaimUnbound, TypeOK
  <2>2. CASE \E p \in Unbound(o) : Claim(o, p)
    BY <1>2, <1>4, <2>1, <2>2 DEF ClaimUnbound, InTx, TxPcs, table
  <2>3. CASE Moves(o, "victim")
    BY <1>1, <1>4, <2>3 DEF ClaimUnbound, Moves, Goto, Unmoved, InTx, TxPcs, Released, table, TypeOK
  <2> QED BY <1>4, <2>2, <2>3 DEF ClaimUnbound
<1>5. CASE Reclaim(o)
  <2>1. ASSUME NEW p \in Victims(o)
        PROVE  p \in Pairs /\ state[owner[p]] # "live"
    BY DEF Victims, InRange, Free, NotLive, TypeOK
  <2>2. CASE \E p \in Victims(o) : Claim(o, p)
    BY <1>2, <1>5, <2>1, <2>2 DEF Reclaim, InTx, TxPcs, table
  <2>3. CASE Moves(o, "any")
    BY <1>1, <1>5, <2>3 DEF Reclaim, Moves, Goto, Unmoved, InTx, TxPcs, Released, table, TypeOK
  <2> QED BY <1>5, <2>2, <2>3 DEF Reclaim
<1>6. CASE LookAgain(o)
  BY <1>1, <1>6 DEF LookAgain, Goto, Unmoved, InTx, TxPcs, Released, table, TypeOK
<1>7. CASE Commit(o)
  BY <1>1, <1>7 DEF Commit, Goto, Unmoved, InTx, TxPcs, Released, TypeOK
<1> QED BY <1>3, <1>4, <1>5, <1>6, <1>7 DEF Allocate

\* Any other step of the one orchestrator is taken, and ends, outside a transaction.
LEMMA OutsideStill ==
    ASSUME OneOrchestrator, TypeOK, Still, NEW o \in Orchestrators,
           at'[o] \notin TxPcs, freed'[o] = {}
    PROVE  Still'
<1> SUFFICES Unmoved(o)' BY DEF OneOrchestrator, Still
<1> QED BY DEF Unmoved, InTx, TxPcs, Released

LEMMA NextStill ==
    ASSUME OneOrchestrator, TypeOK, Still, [Next]_vars
    PROVE  Still'
<1>1. ASSUME NEW o \in Orchestrators, Steps(o) PROVE Still'
  <2> PICK r \in Rooms :
           \/ BeginStart(o, r) \/ Stop(o, r) \/ FailStart(o, r) \/ Recreate(o, r)
           \/ MarkIdle(o, r) \/ Retry(o, r)
    BY <1>1 DEF Steps
  <2>1. at[o] = "rest" /\ freed[o] = {}
    <3>1. at[o] = "rest"
      BY DEF BeginStart, Stop, FailStart, Recreate, MarkIdle, Retry, Leave
    <3> QED BY <3>1 DEF Still, Unmoved, Released
  <2>2. CASE BeginStart(o, r)
    <3>1. Unmoved(o)'
      BY <2>1, <2>2 DEF BeginStart, Goto, Unmoved, InTx, Released, TypeOK
    <3> QED BY <3>1 DEF OneOrchestrator, Still
  <2>3. CASE ~BeginStart(o, r)
    <3>1. UNCHANGED process
      BY <2>3 DEF Stop, FailStart, Recreate, MarkIdle, Retry, Leave
    <3> QED BY <2>1, <3>1, OutsideStill DEF process, TxPcs
  <2> QED BY <2>2, <2>3
<1>2. ASSUME NEW o \in Orchestrators,
             EnsureObjects(o) \/ ReadAddress(o) \/ Quarantine(o) \/ FailExhausted(o)
      PROVE  Still'
  <2>1. freed[o] = {}
    BY <1>2 DEF Still, Unmoved, Released, EnsureObjects, ReadAddress, Quarantine, FailExhausted
  <2>2. at'[o] \notin TxPcs /\ freed'[o] = {}
    BY <1>2, <2>1 DEF EnsureObjects, ReadAddress, Quarantine, FailExhausted, Moves, Done, Goto,
                      TxPcs, TypeOK
  <2> QED BY <2>2, OutsideStill
<1>3. ASSUME NEW o \in Orchestrators, EnsureRange(o) PROVE Still'
  <2>1. Boot(o) \/ freed[o] = {}
    BY <1>3 DEF Still, Unmoved, Released, EnsureRange, ReadStranded, RecordRange, DropOutside,
                SeedMissing, RestartStranded
  <2>2. at'[o] \notin TxPcs /\ freed'[o] = {}
    BY <1>3, <2>1 DEF EnsureRange, Boot, ReadStranded, RecordRange, DropOutside, SeedMissing,
                      RestartStranded, Moves, Goto, TxPcs, TypeOK
  <2> QED BY <2>2, OutsideStill
<1>4. CASE \/ \E r \in Rooms : Answer(r) \/ Deny(r) \/ Collect(r)
           \/ \E p \in Pairs : QuarantineEnds(p)
           \/ UNCHANGED vars
  <2>1. UNCHANGED <<process, owner, state>>
    BY <1>4 DEF Answer, Deny, Collect, QuarantineEnds, vars, table
  <2> QED BY <2>1 DEF Still, Unmoved, InTx, process
<1> QED BY <1>1, <1>2, <1>3, <1>4, AllocateStill DEF Next, Start

\* As long as one orchestrator runs at a time, no allocation ever takes the pair
\* of a room that is starting, running or degraded (port.rs, LIVE_STATES).
THEOREM LiveRoomsKeepTheirPairs ==
    ASSUME OneOrchestrator
    PROVE  Spec => ReclaimSparesTheLive
<1>1. Init => Still BY InitStill
<1>2. TypeOK /\ Still /\ [Next]_vars => Still' BY NextStill
<1>3. TypeOK /\ Still /\ [Next]_vars
        => [\A p \in Pairs : owner[p] # NoRoom /\ state[owner[p]] = "live"
                                => owner'[p] \in {owner[p], NoRoom}]_vars
  <2> SUFFICES ASSUME TypeOK, Still, Next, NEW p \in Pairs,
                      owner[p] # NoRoom, state[owner[p]] = "live"
               PROVE  owner'[p] \in {owner[p], NoRoom}
    BY DEF vars, table
  <2>1. CASE \E o \in Orchestrators : Commit(o)
    <3>1. PICK o \in Orchestrators : Commit(o) BY <2>1
    <3>2. pair[o] # p BY <3>1 DEF Still, Unmoved, Commit
    <3> QED BY <3>1, <3>2 DEF Commit
  <2>2. CASE \E o \in Orchestrators : Quarantine(o) \/ DropOutside(o)
    BY <2>2 DEF Quarantine, DropOutside, TypeOK
  <2>3. CASE ~\E o \in Orchestrators : Commit(o) \/ Quarantine(o) \/ DropOutside(o)
    <3>1. CASE \E o \in Orchestrators : Steps(o)
      BY <3>1 DEF Steps, BeginStart, Stop, FailStart, Recreate, MarkIdle, Retry, Leave, table
    <3>2. CASE \E o \in Orchestrators : Start(o)
      BY <2>3, <3>2 DEF Start, Allocate, OwnPair, ClaimUnbound, Reclaim, LookAgain,
                        EnsureObjects, ReadAddress, FailExhausted, table
    <3>3. CASE \E o \in Orchestrators : EnsureRange(o)
      BY <2>3, <3>3 DEF EnsureRange, Boot, ReadStranded, RecordRange, SeedMissing,
                        RestartStranded, table
    <3>4. CASE \/ \E r \in Rooms : Answer(r) \/ Deny(r) \/ Collect(r)
               \/ \E q \in Pairs : QuarantineEnds(q)
      BY <3>4 DEF Answer, Deny, Collect, QuarantineEnds, table
    <3> QED BY <3>1, <3>2, <3>3, <3>4 DEF Next
  <2> QED BY <2>1, <2>2, <2>3
<1> QED BY <1>1, <1>2, <1>3, TypeCorrect, PTL DEF Spec, ReclaimSparesTheLive
(***************************************************************************)
(* What one orchestrator carries from one step of a start to the next: the *)
(* pair it was given is the room's until the Service has answered, the     *)
(* room stays idle that long, and until the rows outside the configured    *)
(* range are deleted every live room they belong to is on the list.        *)
(***************************************************************************)
Handing == {"ensure", "address", "mismatch", "taken"}

Listed(r) == \E o \in Orchestrators : at[o] \in {"seed", "request"} /\ r \in stranded[o]
Backed(r) == owner[obj[r].pair] = r \/ r \in redeploy \cup lost \/ Listed(r)

Carried(o) ==
    /\ at[o] \in TxPcs \cup StartPcs => state[room[o]] = "idle"
    /\ at[o] \in Handing => pair[o] \in Pairs /\ owner[pair[o]] = room[o]
    /\ at[o] = "address" /\ obj[room[o]].here => obj[room[o]].pair = pair[o]
    /\ at[o] \in {"record", "drop"} =>
          \A p \in Pairs \ config[o] :
              owner[p] # NoRoom /\ state[owner[p]] = "live" => owner[p] \in stranded[o]

Placed == \A r \in Rooms : obj[r].here => obj[r].pair \in Pairs
Served == \A r \in Rooms : state[r] = "live" /\ obj[r].here => Backed(r)
Serves == Placed /\ Served /\ \A o \in Orchestrators : Carried(o)

LEMMA InitServes == Init => Serves
BY DEF Init, Serves, Placed, Served, Carried, TxPcs, StartPcs, Handing, Gone

\* An allocation writes nothing before it commits, and then takes from rooms
\* that are not live.
LEMMA AllocateServes ==
    ASSUME OneOrchestrator, TypeOK, Working, Core, Still, Serves,
           NEW o \in Orchestrators, Allocate(o)
    PROVE  Serves'
<1>1. UNCHANGED <<state, obj, redeploy, lost, stranded, config, room>>
  BY DEF Allocate, OwnPair, ClaimUnbound, Reclaim, LookAgain, Commit, Claim, Moves
<1>2. at[o] \in TxPcs /\ Carried(o) /\ Unmoved(o) /\ room[o] \in Rooms
  BY DEF Allocate, OwnPair, ClaimUnbound, Reclaim, LookAgain, Commit, TxPcs, Serves, Still, Working
<1>3. at'[o] \in TxPcs \cup {"ensure", "exhausted"}
  BY DEF Allocate, OwnPair, ClaimUnbound, Reclaim, LookAgain, Commit, Claim, Moves, Goto, TxPcs, TypeOK
<1>4. Placed' BY <1>1 DEF Serves, Placed
<1>5. CASE Commit(o)
  <2>1. \A p \in Pairs : owner'[p] = IF p = pair[o] THEN room[o]
                                     ELSE IF p \in freed[o] THEN NoRoom ELSE owner[p]
    BY <1>5 DEF Commit
  <2>2. at[o] = "claimed" /\ pair' = pair /\ pair[o] \in Pairs
    <3>1. at[o] = "claimed" /\ pair' = pair BY <1>5 DEF Commit
    <3> QED BY <3>1 DEF Core, TxOK, TypeOK
  <2>3. ASSUME NEW r \in Rooms, state[r] = "live", obj[r].here PROVE Backed(r)'
    <3>1. Backed(r) /\ obj[r].pair \in Pairs /\ r # NoRoom
      BY <2>3, AllocatorAssumption DEF Serves, Served, Placed
    <3>2. ~Listed(r) BY <1>2 DEF Listed, OneOrchestrator, TxPcs
    <3>3. owner[obj[r].pair] = r => owner'[obj[r].pair] = r
      BY <1>2, <2>1, <2>2, <2>3, <3>1 DEF Unmoved, InTx
    <3> QED BY <1>1, <3>1, <3>2, <3>3 DEF Backed
  <2>4. Carried(o)'
    <3>1. owner'[pair'[o]] = room'[o] BY <1>1, <2>1, <2>2
    <3>2. at'[o] = "ensure" BY <1>5 DEF Commit, Goto, TypeOK
    <3> QED BY <1>1, <1>2, <2>2, <3>1, <3>2 DEF Carried, StartPcs
  <2> QED BY <1>1, <1>4, <2>3, <2>4 DEF Serves, Served, OneOrchestrator
<1>6. CASE ~Commit(o)
  <2>1. owner' = owner
    BY <1>6 DEF Allocate, OwnPair, ClaimUnbound, Reclaim, LookAgain, table
  <2>2. at'[o] = "ensure" => pair'[o] \in Pairs /\ owner[pair'[o]] = room[o]
    BY <1>6 DEF Allocate, OwnPair, ClaimUnbound, Reclaim, LookAgain, Claim, Moves, Goto,
                InRange, Free, TypeOK
  <2>3. Carried(o)' BY <1>1, <1>2, <1>3, <2>1, <2>2 DEF Carried, TxPcs, StartPcs, Handing
  <2>4. \A r \in Rooms : ~Listed(r) BY <1>2 DEF Listed, OneOrchestrator, TxPcs
  <2>5. Served' BY <1>1, <2>1, <2>4 DEF Serves, Served, Backed
  <2> QED BY <1>4, <2>3, <2>5 DEF Serves, OneOrchestrator
<1> QED BY <1>5, <1>6

\* Where a start ends, its room is live on the pair it was given, or not live.
LEMMA FinishServes ==
    ASSUME OneOrchestrator, TypeOK, Working, Serves, NEW o \in Orchestrators,
           EnsureObjects(o) \/ ReadAddress(o) \/ Quarantine(o) \/ FailExhausted(o)
    PROVE  Serves'
<1> DEFINE r == room[o]
<1>1. /\ at[o] \in StartPcs /\ r \in Rooms /\ state[r] = "idle" /\ Carried(o)
      /\ UNCHANGED <<stranded, config>>
  BY DEF EnsureObjects, ReadAddress, Quarantine, FailExhausted, Moves, Done, StartPcs,
         Working, Serves, Carried
<1>2. \A x \in Rooms : ~Listed(x) BY <1>1 DEF Listed, OneOrchestrator, StartPcs
<1>3. \A x \in Rooms \ {r} : /\ obj'[x] = obj[x] /\ state'[x] = state[x]
                             /\ x \in redeploy \cup lost => x \in redeploy' \cup lost'
  BY DEF EnsureObjects, ReadAddress, Quarantine, FailExhausted, Teardown, TypeOK
<1>4. \A p \in Pairs : owner'[p] = owner[p] \/ owner[p] = r
  BY <1>1 DEF EnsureObjects, ReadAddress, Quarantine, FailExhausted, table, TypeOK, Carried, Handing
<1>5. obj'[r].here => obj'[r].pair \in Pairs
  <2>1. CASE EnsureObjects(o)
    <3>1. pair[o] \in Pairs BY <1>1, <2>1 DEF EnsureObjects, Carried, Handing
    <3> QED BY <1>1, <2>1, <3>1 DEF EnsureObjects, Teardown, TypeOK, Serves, Placed
  <2>2. CASE ~EnsureObjects(o)
    BY <1>1, <2>2 DEF ReadAddress, Quarantine, FailExhausted, Teardown, TypeOK, Serves, Placed
  <2> QED BY <2>1, <2>2
<1>6. state'[r] = "live" /\ obj'[r].here => owner'[obj'[r].pair] = r
  BY <1>1 DEF EnsureObjects, ReadAddress, Quarantine, FailExhausted, TypeOK, Carried, Handing, table
<1>7. Carried(o)'
  <2>1. CASE Done(o)
    BY <2>1 DEF Done, Goto, Carried, TxPcs, StartPcs, Handing, TypeOK
  <2>2. CASE /\ EnsureObjects(o) /\ Moves(o, "address") /\ state' = state
             /\ obj'[r].pair = pair[o]
    BY <1>1, <2>2 DEF EnsureObjects, Moves, Goto, Carried, StartPcs, Handing, table, TypeOK
  <2>3. CASE /\ ReadAddress(o) /\ state' = state
             /\ Moves(o, "mismatch") \/ Moves(o, "taken")
    BY <1>1, <2>3 DEF ReadAddress, Moves, Goto, Carried, StartPcs, Handing, table, TypeOK
  <2>4. CASE EnsureObjects(o)
    BY <1>1, <2>1, <2>2, <2>4 DEF EnsureObjects, TypeOK
  <2> QED BY <2>1, <2>3, <2>4 DEF ReadAddress, Quarantine, FailExhausted
<1>8. Placed'
  BY <1>3, <1>5 DEF Serves, Placed
<1>9. Served'
  <2> SUFFICES ASSUME NEW x \in Rooms, state'[x] = "live", obj'[x].here PROVE Backed(x)'
    BY DEF Served
  <2>1. CASE x = r BY <1>6, <2>1 DEF Backed
  <2>2. CASE x # r
    BY <1>2, <1>3, <1>4, <2>2 DEF Serves, Served, Placed, Backed
  <2> QED BY <2>1, <2>2
<1> QED BY <1>7, <1>8, <1>9 DEF Serves, OneOrchestrator

\* A room that leaves live needs nothing; one a start begins with is idle.
LEMMA StepsServe ==
    ASSUME OneOrchestrator, TypeOK, Serves, NEW o \in Orchestrators, Steps(o)
    PROVE  Serves'
<1> PICK r \in Rooms :
         \/ BeginStart(o, r) \/ Stop(o, r) \/ FailStart(o, r) \/ Recreate(o, r)
         \/ MarkIdle(o, r) \/ Retry(o, r)
  BY DEF Steps
<1>1. at[o] = "rest" /\ UNCHANGED <<table, stranded, config, lost>>
  BY DEF BeginStart, Stop, FailStart, Recreate, MarkIdle, Retry, Leave, process
<1>2. \A x \in Rooms : ~Listed(x) BY <1>1 DEF Listed, OneOrchestrator
<1>3. \A x \in Rooms : obj'[x].here => obj[x].here /\ obj'[x].pair = obj[x].pair
  BY DEF BeginStart, Stop, FailStart, Recreate, MarkIdle, Retry, Leave, Teardown, TypeOK
<1>4. \A x \in Rooms : state'[x] = "live" => state[x] = "live" /\ (x \in redeploy => x \in redeploy')
  BY DEF BeginStart, Stop, FailStart, Recreate, MarkIdle, Retry, Leave, TypeOK
<1>5. Carried(o)'
  <2>1. CASE BeginStart(o, r)
    BY <2>1 DEF BeginStart, Goto, Carried, TxPcs, StartPcs, Handing, TypeOK
  <2>2. CASE ~BeginStart(o, r)
    <3>1. at' = at BY <2>2 DEF Stop, FailStart, Recreate, MarkIdle, Retry, Leave, process
    <3> QED BY <1>1, <3>1 DEF Carried, TxPcs, StartPcs, Handing
  <2> QED BY <2>1, <2>2
<1>6. Placed' BY <1>3 DEF Serves, Placed
<1>7. Served' BY <1>1, <1>2, <1>3, <1>4 DEF Serves, Served, Backed, table
<1> QED BY <1>5, <1>6, <1>7 DEF Serves, OneOrchestrator

\* The rows are deleted only once the rooms that need a restart are listed, and
\* the list reaches the rows or, if the process dies first, `lost`.
LEMMA RangeServes ==
    ASSUME OneOrchestrator, TypeOK, RowsOK, Serves, NEW o \in Orchestrators, EnsureRange(o)
    PROVE  Serves'
<1>1. UNCHANGED <<state, obj>> /\ redeploy \subseteq redeploy' /\ lost \subseteq lost'
  BY DEF EnsureRange, Boot, ReadStranded, RecordRange, DropOutside, SeedMissing, RestartStranded
<1>2. Placed' BY <1>1 DEF Serves, Placed
<1>3. Carried(o)'
  <2>1. CASE ReadStranded(o)
    <3>1. /\ at'[o] = "record" /\ owner' = owner /\ config' = config
          /\ stranded'[o] = {r \in Rooms : state[r] = "live" /\ \E p \in Bound(r) : p \notin config[o]}
      BY <2>1 DEF ReadStranded, Goto, table, TypeOK
    <3>2. ASSUME NEW p \in Pairs \ config[o], owner[p] # NoRoom, state[owner[p]] = "live"
          PROVE  owner[p] \in stranded'[o]
      <4>1. owner[p] \in Rooms /\ p \in Bound(owner[p]) BY <3>2 DEF TypeOK, RowsOK, Bound
      <4> QED BY <3>1, <3>2, <4>1
    <3> QED BY <1>1, <3>1, <3>2 DEF Carried, TxPcs, StartPcs, Handing
  <2>2. CASE RecordRange(o)
    <3>1. at[o] = "record" /\ at'[o] = "drop" /\ UNCHANGED <<owner, config, stranded>>
      BY <2>2 DEF RecordRange, Moves, Goto, TypeOK
    <3> QED BY <1>1, <3>1 DEF Serves, Carried, TxPcs, StartPcs, Handing
  <2>3. CASE Boot(o) \/ DropOutside(o) \/ SeedMissing(o) \/ RestartStranded(o)
    <3>1. at'[o] \in {"read", "seed", "request", "rest"}
      BY <2>3 DEF Boot, DropOutside, SeedMissing, RestartStranded, Moves, Goto, TypeOK
    <3> QED BY <3>1 DEF Carried, TxPcs, StartPcs, Handing
  <2> QED BY <2>1, <2>2, <2>3 DEF EnsureRange
<1>4. ASSUME NEW r \in Rooms, state[r] = "live", obj[r].here PROVE Backed(r)'
  <2>1. Backed(r) /\ obj[r].pair \in Pairs /\ r # NoRoom
    BY <1>4, AllocatorAssumption DEF Serves, Served, Placed
  <2>2. CASE r \in redeploy \cup lost BY <1>1, <2>2 DEF Backed
  <2>3. CASE Listed(r)
    <3>1. at[o] \in {"seed", "request"} /\ r \in stranded[o]
      BY <2>3 DEF Listed, OneOrchestrator
    <3>2. CASE SeedMissing(o)
      <4>1. at'[o] = "request" /\ stranded' = stranded
        BY <3>2 DEF SeedMissing, Moves, Goto, TypeOK
      <4> QED BY <3>1, <4>1 DEF Backed, Listed
    <3>3. CASE RestartStranded(o) \/ Boot(o)
      BY <3>1, <3>3 DEF RestartStranded, Boot, Backed
    <3> QED BY <3>1, <3>2, <3>3 DEF EnsureRange, ReadStranded, RecordRange, DropOutside
  <2>4. CASE owner[obj[r].pair] = r
    <3>1. CASE DropOutside(o)
      <4>1. /\ at[o] = "drop" /\ at'[o] = "seed" /\ stranded' = stranded
            /\ \A p \in Pairs : owner'[p] = IF p \in config[o] THEN owner[p] ELSE NoRoom
        BY <3>1 DEF DropOutside, Moves, Goto, TypeOK
      <4>2. CASE obj[r].pair \in config[o] BY <1>1, <2>1, <2>4, <4>1, <4>2 DEF Backed
      <4>3. CASE obj[r].pair \notin config[o]
        <5>1. r \in stranded[o] BY <1>4, <2>1, <2>4, <4>1, <4>3 DEF Serves, Carried
        <5> QED BY <4>1, <5>1 DEF Backed, Listed
      <4> QED BY <4>2, <4>3
    <3>2. CASE ~DropOutside(o)
      <4>1. owner' = owner
        BY <3>2 DEF EnsureRange, Boot, ReadStranded, RecordRange, SeedMissing, RestartStranded, table
      <4> QED BY <1>1, <2>4, <4>1 DEF Backed
    <3> QED BY <3>1, <3>2
  <2> QED BY <2>1, <2>2, <2>3, <2>4 DEF Backed
<1> QED BY <1>1, <1>2, <1>3, <1>4 DEF Serves, Served, OneOrchestrator

LEMMA NextServes ==
    ASSUME OneOrchestrator, IInv, Still, Serves, [Next]_vars
    PROVE  Serves'
<1> USE DEF IInv
<1>1. CASE \E o \in Orchestrators : Steps(o) \/ Start(o) \/ EnsureRange(o)
  BY <1>1, StepsServe, AllocateServes, FinishServes, RangeServes DEF Start, Core
<1>2. CASE ClusterMoves \/ (\E p \in Pairs : QuarantineEnds(p)) \/ UNCHANGED vars
  <2>1. UNCHANGED <<process, owner, state, redeploy, lost>>
    BY <1>2 DEF ClusterMoves, Answer, Deny, Collect, QuarantineEnds, vars, table
  <2>2. \A r \in Rooms : obj'[r].here => obj[r].here /\ obj'[r].pair = obj[r].pair
    BY <1>2 DEF ClusterMoves, Answer, Deny, Collect, Gone, QuarantineEnds, vars, TypeOK
  <2>3. Placed' BY <2>2 DEF Serves, Placed
  <2>4. Served' BY <2>1, <2>2 DEF Serves, Served, Backed, Listed, process
  <2>5. ASSUME NEW o \in Orchestrators PROVE Carried(o)'
    <3>1. Carried(o) /\ (at[o] = "address" => room[o] \in Rooms)
      BY DEF Serves, Working, StartPcs
    <3>2. UNCHANGED <<at, room, pair, config, stranded>> BY <2>1 DEF process
    <3>3. at[o] = "address" /\ obj'[room[o]].here => obj'[room[o]].pair = pair[o]
      BY <2>2, <3>1 DEF Carried
    <3> QED BY <2>1, <3>1, <3>2, <3>3 DEF Carried
  <2> QED BY <2>3, <2>4, <2>5 DEF Serves
<1> QED BY <1>1, <1>2 DEF Next, ClusterMoves

\* As long as one orchestrator runs at a time, a live room's Service is on the
\* pair reserved to the room, or the room is queued for a restart, about to be,
\* or was forgotten by a process that died inside ensure_range (port.rs).
THEOREM LiveRoomsServeTheirPairs ==
    ASSUME OneOrchestrator
    PROVE  Spec => []LiveServesItsPair
<1>1. Init => Still /\ Serves BY InitStill, InitServes
<1>2. IInv /\ Still /\ Serves /\ [Next]_vars => (Still /\ Serves)'
  BY NextStill, NextServes DEF IInv
<1>3. Serves => LiveServesItsPair
  BY DEF Serves, Served, Backed, Listed, LiveServesItsPair, Restarting
<1> QED BY <1>1, <1>2, <1>3, AllocatorInvariant, PTL DEF Spec
=============================================================================
