---------------------------- MODULE PortAllocator ----------------------------
(***************************************************************************)
(* Port pairs: the reservation table of port.rs, the orchestrators that    *)
(* allocate from it statement by statement, and the Services that then ask *)
(* the load balancer for the pair.  An allocation is one READ COMMITTED    *)
(* transaction: its statements see what others have committed, a row       *)
(* another transaction has written is skipped or waited for, and nothing   *)
(* it writes is seen before it commits.                                    *)
(*                                                                         *)
(* One orchestrator is the ordinary case; two are a process that lost its  *)
(* lock and has not noticed beside the one that took it (leader.rs).       *)
(*                                                                         *)
(* Which of several equally eligible pairs is taken (the oldest            *)
(* last_activity, then random()) is left open, and so last_activity is not *)
(* kept.  A room's lifecycle is only as fine as the allocator sees it      *)
(* (`live` is starting, running or degraded): RoomLifecycle has the rest.  *)
(***************************************************************************)
EXTENDS Naturals, FiniteSets

CONSTANTS
    Rooms,
    NoRoom,
    Pairs,          \* base ports some configured range may cover
    NoPair,
    Orchestrators,
    Ranges,         \* the ranges a deployment may configure
    MaxTries,       \* MAX_CONTENTION_RETRIES
    MaxStarts,      \* bound: orchestrator starts and restarts
    MaxFaults       \* bound: addresses the load balancer denies for its own reasons

ASSUME AllocatorAssumption ==
    /\ NoRoom \notin Rooms
    /\ NoPair \notin Pairs
    /\ Ranges \subseteq SUBSET Pairs
    /\ MaxTries \in Nat /\ MaxStarts \in Nat /\ MaxFaults \in Nat

VARIABLES
    range,      \* port_ranges: the recorded range
    rows,       \* port_reservations: the pairs that have a row
    owner,      \* room_id of a pair's row
    held,       \* pairs whose quarantined_until is in the future
    state,      \* rooms.state
    redeploy,   \* rooms with redeploy_requested_at set
    obj,        \* a room's Deployment and the Service it owns
    at,         \* where an orchestrator is
    room,       \* the room it is starting
    pair,       \* the pair it has claimed or been given for it
    freed,      \* the pairs its open transaction has released
    tries,      \* times its allocation has been round the loop
    config,     \* the range its process was configured with
    stranded,   \* live rooms it found outside that range
    budget,
    lost        \* history: live rooms a crashed ensure_range had found stranded

table == <<range, rows, owner, held>>
process == <<at, room, pair, freed, tries, config, stranded>>
vars == <<table, state, redeploy, obj, process, budget, lost>>

TxPcs == {"own", "unbound", "victim", "any", "claimed"}
StartPcs == {"ensure", "address", "mismatch", "taken", "exhausted"}
RangePcs == {"read", "record", "drop", "seed", "request"}
Answers == {"pending", "ours", "wrong", "taken", "refused"}
Gone == [here |-> FALSE, pair |-> NoPair, deleting |-> FALSE, address |-> "pending"]

TypeOK ==
    /\ range \in SUBSET Pairs
    /\ rows \in SUBSET Pairs
    /\ owner \in [Pairs -> Rooms \cup {NoRoom}]
    /\ held \in SUBSET Pairs
    /\ state \in [Rooms -> {"idle", "live", "stopping", "failed"}]
    /\ redeploy \in SUBSET Rooms
    /\ obj \in [Rooms -> [here : BOOLEAN, pair : Pairs \cup {NoPair},
                          deleting : BOOLEAN, address : Answers]]
    /\ at \in [Orchestrators -> {"down", "rest"} \cup TxPcs \cup StartPcs \cup RangePcs]
    /\ room \in [Orchestrators -> Rooms \cup {NoRoom}]
    /\ pair \in [Orchestrators -> Pairs \cup {NoPair}]
    /\ freed \in [Orchestrators -> SUBSET Pairs]
    /\ tries \in [Orchestrators -> 0..MaxTries]
    /\ config \in [Orchestrators -> SUBSET Pairs]
    /\ stranded \in [Orchestrators -> SUBSET Rooms]
    /\ budget \in [starts : 0..MaxStarts, faults : 0..MaxFaults]
    /\ lost \in SUBSET Rooms

Init ==
    /\ range = {} /\ rows = {} /\ held = {}
    /\ owner = [p \in Pairs |-> NoRoom]
    /\ state = [r \in Rooms |-> "idle"]
    /\ redeploy = {}
    /\ obj = [r \in Rooms |-> Gone]
    /\ at = [o \in Orchestrators |-> "down"]
    /\ room = [o \in Orchestrators |-> NoRoom]
    /\ pair = [o \in Orchestrators |-> NoPair]
    /\ freed = [o \in Orchestrators |-> {}]
    /\ tries = [o \in Orchestrators |-> 0]
    /\ config = [o \in Orchestrators |-> {}]
    /\ stranded = [o \in Orchestrators |-> {}]
    /\ budget = [starts |-> MaxStarts, faults |-> MaxFaults]
    /\ lost = {}

(***************************************************************************)
(* Locks and eligibility.                                                  *)
(***************************************************************************)
InTx(o) == at[o] \in TxPcs

\* Rows an open transaction has written, and holds until it ends.
Written(o) == freed[o] \cup (IF at[o] = "claimed" THEN {pair[o]} ELSE {})
LockedFor(o) == UNION {Written(x) : x \in {y \in Orchestrators \ {o} : InTx(y)}}

\* try_lock_room: the per-room advisory lock lasts as long as the transaction.
RoomLocked(r) == \E o \in Orchestrators : InTx(o) /\ room[o] = r

Free == {p \in rows : p \notin held}
InRange == {p \in Free : p \in range}
Seen(o, p) == IF p \in freed[o] THEN NoRoom ELSE owner[p]
Bound(r) == {p \in rows : owner[p] = r}
NotLive(p) == owner[p] # NoRoom /\ state[owner[p]] # "live"

Unbound(o) == {p \in InRange \ LockedFor(o) : Seen(o, p) = NoRoom}
Victims(o) == {p \in InRange \ LockedFor(o) : Seen(o, p) # NoRoom /\ NotLive(p)}

\* any_candidate_exists asks of every row, whatever the range is by now.
AnyCandidate(o) == \E p \in Free : Seen(o, p) = NoRoom \/ NotLive(p)

Goto(o, next) == at' = [at EXCEPT ![o] = next]
Done(o) ==
    /\ Goto(o, "rest")
    /\ room' = [room EXCEPT ![o] = NoRoom]
    /\ pair' = [pair EXCEPT ![o] = NoPair]
    /\ freed' = [freed EXCEPT ![o] = {}]
    /\ UNCHANGED <<tries, config, stranded>>
Moves(o, next) == Goto(o, next) /\ UNCHANGED <<room, pair, freed, tries, config, stranded>>

(***************************************************************************)
(* allocate, in the transaction start opens around it.                     *)
(***************************************************************************)
BeginStart(o, r) ==
    /\ at[o] = "rest" /\ state[r] = "idle"
    /\ ~RoomLocked(r)
    /\ Goto(o, "own")
    /\ room' = [room EXCEPT ![o] = r]
    /\ tries' = [tries EXCEPT ![o] = 0]
    /\ UNCHANGED <<table, state, redeploy, obj, pair, freed, config, stranded, budget, lost>>

\* Mutant: a room whose own pair will not do takes another and keeps the first.
KeepsOldPair(o) ==
    /\ at[o] = "own"
    /\ Moves(o, "unbound")
    /\ UNCHANGED <<table, state, redeploy, obj, budget, lost>>

\* The room's own pair if it may still be used; otherwise whatever the room
\* holds is released.  Either waits for a row another transaction has written.
OwnPair(o) ==
    LET r == room[o]
        usable == {p \in InRange : owner[p] = r}
    IN /\ at[o] = "own"
       /\ Bound(r) \cap LockedFor(o) = {}
       /\ \/ \E p \in usable :
                /\ Goto(o, "ensure")
                /\ pair' = [pair EXCEPT ![o] = p]
                /\ UNCHANGED <<room, freed, tries, config, stranded>>
          \/ /\ usable = {}
             /\ Goto(o, "unbound")
             /\ freed' = [freed EXCEPT ![o] = Bound(r)]
             /\ UNCHANGED <<room, pair, tries, config, stranded>>
       /\ UNCHANGED <<table, state, redeploy, obj, budget, lost>>

Claim(o, p) ==
    /\ Goto(o, "claimed")
    /\ pair' = [pair EXCEPT ![o] = p]
    /\ UNCHANGED <<room, freed, tries, config, stranded>>

\* Phase 2: a pair nobody is bound to.
ClaimUnbound(o) ==
    /\ at[o] = "unbound"
    /\ IF Unbound(o) # {} THEN \E p \in Unbound(o) : Claim(o, p) ELSE Moves(o, "victim")
    /\ UNCHANGED <<table, state, redeploy, obj, budget, lost>>

\* Mutant: the exclusion of rooms that are serving is left out.
ReclaimFromAnyone(o) ==
    LET victims == {p \in InRange \ LockedFor(o) : Seen(o, p) # NoRoom}
    IN /\ at[o] = "victim"
       /\ IF victims # {} THEN \E p \in victims : Claim(o, p) ELSE Moves(o, "any")
       /\ UNCHANGED <<table, state, redeploy, obj, budget, lost>>

\* Phase 3: the pair of a room that is not serving.
Reclaim(o) ==
    /\ at[o] = "victim"
    /\ IF Victims(o) # {} THEN \E p \in Victims(o) : Claim(o, p) ELSE Moves(o, "any")
    /\ UNCHANGED <<table, state, redeploy, obj, budget, lost>>

\* Round again if only the race was lost, a bounded number of times.
LookAgain(o) ==
    /\ at[o] = "any"
    /\ IF AnyCandidate(o) /\ tries[o] < MaxTries
       THEN /\ Goto(o, "unbound")
            /\ tries' = [tries EXCEPT ![o] = @ + 1]
            /\ UNCHANGED freed
       ELSE /\ Goto(o, "exhausted")
            /\ freed' = [freed EXCEPT ![o] = {}]      \* the transaction is rolled back
            /\ UNCHANGED tries
    /\ UNCHANGED <<table, state, redeploy, obj, room, pair, config, stranded, budget, lost>>

Commit(o) ==
    /\ at[o] = "claimed"
    /\ owner' = [p \in Pairs |-> IF p = pair[o] THEN room[o]
                                 ELSE IF p \in freed[o] THEN NoRoom ELSE owner[p]]
    /\ Goto(o, "ensure")
    /\ freed' = [freed EXCEPT ![o] = {}]
    /\ UNCHANGED <<range, rows, held, state, redeploy, obj, room, pair, tries, config,
                   stranded, budget, lost>>

Allocate(o) ==
    \/ OwnPair(o) \/ ClaimUnbound(o) \/ Reclaim(o) \/ LookAgain(o) \/ Commit(o)

(***************************************************************************)
(* The rest of a start: the objects on that pair, and what the load        *)
(* balancer made of them.  The pair is part of the spec hash.              *)
(***************************************************************************)
Teardown(r) == obj' = IF obj[r].here THEN [obj EXCEPT ![r].deleting = TRUE] ELSE obj

\* Mutant: a Deployment of the room's name is adopted, whatever pair it is on.
AdoptsAnyPair(o) ==
    LET r == room[o]
    IN /\ at[o] = "ensure"
       /\ \/ /\ obj[r].here /\ obj[r].deleting
             /\ Done(o) /\ UNCHANGED obj
          \/ /\ obj[r].here /\ ~obj[r].deleting
             /\ Moves(o, "address") /\ UNCHANGED obj
          \/ /\ ~obj[r].here
             /\ obj' = [obj EXCEPT ![r] = [here |-> TRUE, pair |-> pair[o],
                                           deleting |-> FALSE, address |-> "pending"]]
             /\ Moves(o, "address")
       /\ UNCHANGED <<table, state, redeploy, budget, lost>>

\* Wait for a dying Deployment, go on with a matching one, replace one on
\* another pair, create where there is none.
EnsureObjects(o) ==
    LET r == room[o]
    IN /\ at[o] = "ensure"
       /\ \/ /\ obj[r].here /\ obj[r].deleting
             /\ Done(o) /\ UNCHANGED <<state, obj>>
          \/ /\ obj[r].here /\ ~obj[r].deleting /\ obj[r].pair = pair[o]
             /\ Moves(o, "address") /\ UNCHANGED <<state, obj>>
          \/ /\ obj[r].here /\ ~obj[r].deleting /\ obj[r].pair # pair[o]
             /\ Teardown(r) /\ state' = [state EXCEPT ![r] = "idle"] /\ Done(o)
          \/ /\ ~obj[r].here
             /\ obj' = [obj EXCEPT ![r] = [here |-> TRUE, pair |-> pair[o],
                                           deleting |-> FALSE, address |-> "pending"]]
             /\ Moves(o, "address") /\ UNCHANGED state
       /\ UNCHANGED <<table, redeploy, budget, lost>>

\* A denial deletes the Deployment before the caller acts on it.  An address
\* still pending, or a Service already collected, leaves the room idle.
ReadAddress(o) ==
    LET r == room[o]
        answer == IF obj[r].here THEN obj[r].address ELSE "pending"
    IN /\ at[o] = "address"
       /\ \/ /\ answer = "pending"
             /\ Done(o) /\ UNCHANGED <<state, redeploy, obj, lost>>
          \/ /\ answer = "ours"
             /\ state' = [state EXCEPT ![r] = "live"]
             /\ redeploy' = redeploy \ {r} /\ lost' = lost \ {r}
             /\ Done(o) /\ UNCHANGED obj
          \/ /\ answer = "wrong"
             /\ Teardown(r) /\ Moves(o, "mismatch") /\ UNCHANGED <<state, redeploy, lost>>
          \/ /\ answer = "taken"
             /\ Teardown(r) /\ Moves(o, "taken") /\ UNCHANGED <<state, redeploy, lost>>
          \/ /\ answer = "refused"
             /\ Teardown(r) /\ state' = [state EXCEPT ![r] = "failed"]
             /\ Done(o) /\ UNCHANGED <<redeploy, lost>>
       /\ UNCHANGED <<table, budget>>

\* quarantine names the pair and not the room that holds it.
Quarantine(o) ==
    /\ at[o] \in {"mismatch", "taken"}
    /\ pair[o] \notin LockedFor(o)
    /\ owner' = [owner EXCEPT ![pair[o]] = NoRoom]
    /\ held' = held \cup ({pair[o]} \cap rows)
    /\ state' = [state EXCEPT ![room[o]] = IF at[o] = "taken" THEN "failed" ELSE "idle"]
    /\ Done(o)
    /\ UNCHANGED <<range, rows, redeploy, obj, budget, lost>>

FailExhausted(o) ==
    /\ at[o] = "exhausted"
    /\ Teardown(room[o])
    /\ state' = [state EXCEPT ![room[o]] = "failed"]
    /\ Done(o)
    /\ UNCHANGED <<table, redeploy, budget, lost>>

Start(o) == Allocate(o) \/ EnsureObjects(o) \/ ReadAddress(o) \/ Quarantine(o) \/ FailExhausted(o)

(***************************************************************************)
(* The other steps that move a room, as far as its pair is concerned.      *)
(***************************************************************************)
Leave(o, r, from, next) ==
    /\ at[o] = "rest" /\ state[r] = from
    /\ Teardown(r)
    /\ state' = [state EXCEPT ![r] = next]
    /\ UNCHANGED <<table, process, budget, lost>>

Stop(o, r) == Leave(o, r, "live", "stopping") /\ UNCHANGED redeploy
FailStart(o, r) == Leave(o, r, "live", "failed") /\ UNCHANGED redeploy
Recreate(o, r) == Leave(o, r, "live", "idle") /\ redeploy' = redeploy \ {r}
MarkIdle(o, r) ==
    /\ at[o] = "rest" /\ state[r] \in {"live", "stopping"} /\ ~obj[r].here
    /\ state' = [state EXCEPT ![r] = "idle"]
    /\ UNCHANGED <<table, redeploy, obj, process, budget, lost>>
Retry(o, r) ==
    /\ at[o] = "rest" /\ state[r] = "failed"
    /\ state' = [state EXCEPT ![r] = "idle"]
    /\ UNCHANGED <<table, redeploy, obj, process, budget, lost>>

Steps(o) == \E r \in Rooms :
    \/ BeginStart(o, r) \/ Stop(o, r) \/ FailStart(o, r) \/ Recreate(o, r)
    \/ MarkIdle(o, r) \/ Retry(o, r)

(***************************************************************************)
(* ensure_range, when a process has taken the lock and before it starts    *)
(* anything.  Each statement commits by itself.                            *)
(***************************************************************************)
Spend(what) == budget[what] > 0 /\ budget' = [budget EXCEPT ![what] = @ - 1]

\* A process that starts forgets everything the one before it was doing, and
\* an open transaction goes with its connection.  So does the list of stranded
\* rooms, which the deleted rows can no longer give the next one.
Boot(o) ==
    /\ Spend("starts")
    /\ Goto(o, "read")
    /\ room' = [room EXCEPT ![o] = NoRoom]
    /\ pair' = [pair EXCEPT ![o] = NoPair]
    /\ freed' = [freed EXCEPT ![o] = {}]
    /\ stranded' = [stranded EXCEPT ![o] = {}]
    /\ lost' = IF at[o] \in {"seed", "request"} THEN lost \cup stranded[o] ELSE lost
    /\ \E wanted \in Ranges : config' = [config EXCEPT ![o] = wanted]
    /\ UNCHANGED <<table, state, redeploy, obj, tries>>

ReadStranded(o) ==
    /\ at[o] = "read"
    /\ Goto(o, "record")
    /\ stranded' = [stranded EXCEPT ![o] =
          {r \in Rooms : state[r] = "live" /\ \E p \in Bound(r) : p \notin config[o]}]
    /\ UNCHANGED <<table, state, redeploy, obj, room, pair, freed, tries, config, budget, lost>>

RecordRange(o) ==
    /\ at[o] = "record"
    /\ range' = config[o]
    /\ Moves(o, "drop")
    /\ UNCHANGED <<rows, owner, held, state, redeploy, obj, budget, lost>>

DropOutside(o) ==
    /\ at[o] = "drop"
    /\ (rows \ config[o]) \cap LockedFor(o) = {}
    /\ rows' = rows \cap config[o]
    /\ owner' = [p \in Pairs |-> IF p \in config[o] THEN owner[p] ELSE NoRoom]
    /\ held' = held \cap config[o]
    /\ Moves(o, "seed")
    /\ UNCHANGED <<range, state, redeploy, obj, budget, lost>>

SeedMissing(o) ==
    /\ at[o] = "seed"
    /\ rows' = rows \cup config[o]
    /\ Moves(o, "request")
    /\ UNCHANGED <<range, owner, held, state, redeploy, obj, budget, lost>>

RestartStranded(o) ==
    /\ at[o] = "request"
    /\ redeploy' = redeploy \cup stranded[o]
    /\ Goto(o, "rest")
    /\ stranded' = [stranded EXCEPT ![o] = {}]
    /\ UNCHANGED <<table, state, obj, room, pair, freed, tries, config, budget, lost>>

EnsureRange(o) ==
    \/ Boot(o) \/ ReadStranded(o) \/ RecordRange(o) \/ DropOutside(o)
    \/ SeedMissing(o) \/ RestartStranded(o)

(***************************************************************************)
(* The cluster and the clock.                                              *)
(***************************************************************************)

\* Services share one address: a pair goes to the first that asks, and the next
\* is refused for as long as that one exists.
Answer(r) ==
    /\ obj[r].here /\ obj[r].address = "pending"
    /\ obj' = [obj EXCEPT ![r].address =
          IF \E x \in Rooms \ {r} : /\ obj[x].here /\ obj[x].pair = obj[r].pair
                                    /\ obj[x].address = "ours"
          THEN "taken" ELSE "ours"]
    /\ UNCHANGED <<table, state, redeploy, process, budget, lost>>

\* Something that is not a room holds the port, or the address is not the one.
Deny(r) ==
    /\ obj[r].here /\ obj[r].address = "pending"
    /\ Spend("faults")
    /\ \E answer \in {"wrong", "taken", "refused"} : obj' = [obj EXCEPT ![r].address = answer]
    /\ UNCHANGED <<table, state, redeploy, process, lost>>

Collect(r) ==
    /\ obj[r].deleting
    /\ obj' = [obj EXCEPT ![r] = Gone]
    /\ UNCHANGED <<table, state, redeploy, process, budget, lost>>

QuarantineEnds(p) ==
    /\ p \in held
    /\ held' = held \ {p}
    /\ UNCHANGED <<range, rows, owner, state, redeploy, obj, process, budget, lost>>

Next ==
    \/ \E o \in Orchestrators : Steps(o) \/ Start(o) \/ EnsureRange(o)
    \/ \E r \in Rooms : Answer(r) \/ Deny(r) \/ Collect(r)
    \/ \E p \in Pairs : QuarantineEnds(p)

Spec == Init /\ [][Next]_vars

(***************************************************************************)
(* Properties.                                                             *)
(***************************************************************************)

\* No room is bound to two pairs, whoever allocates beside whom (port.rs:
\* release before claiming, and the partial unique index on room_id).
OnePairPerRoom ==
    \A p, q \in Pairs : owner[p] # NoRoom /\ owner[p] = owner[q] => p = q

\* A live room's Service is on a pair that is reserved to that room, or the
\* room is queued for a restart or about to be: a pair is never reclaimed,
\* quarantined or configured away from under players (port.rs: LIVE_STATES,
\* quarantine, ensure_range).  Excepted are the rooms a process had found
\* stranded when it died between the deletion of their rows and the request.
Restarting(r) ==
    \/ r \in redeploy \cup lost
    \/ \E o \in Orchestrators : r \in stranded[o]
LiveServesItsPair ==
    \A r \in Rooms : state[r] = "live" /\ obj[r].here
                        => owner[obj[r].pair] = r \/ Restarting(r)

\* An allocation never moves a pair from a live room to another (port.rs: a
\* room actively serving players must never lose its port).
ReclaimSparesTheLive ==
    [][\A p \in Pairs : owner[p] # NoRoom /\ state[owner[p]] = "live"
                            => owner'[p] \in {owner[p], NoRoom}]_vars
=============================================================================
