------------------------------- MODULE Filters -------------------------------
(***************************************************************************)
(* One room's traffic filters: what the helpers ask for, what Puna stores, *)
(* and what the running room applies (Puna: puna-web/src/routes/filters.rs,*)
(* puna-core/src/model/filter.rs, push_filter in dispatch.rs and           *)
(* reapply_filters in steps.rs). The room keeps what it was told in its    *)
(* save. Two parties tell it, each reading the tables before it calls: the *)
(* dispatcher, asked by the web tier when the room is running, and the     *)
(* reconciler whenever the room comes up.                                  *)
(***************************************************************************)
EXTENDS Naturals, Sequences

CONSTANTS
    Slots,
    Rules,          \* rulesets that are not empty
    Room,           \* the scope of the room's own filter
    Handlers,       \* bound: requests under way at a time
    MaxEdits,       \* bound: requests
    MaxFaults       \* bound: failed calls, crashes, lost saves, other writers

Scopes == Slots \cup {Room}

\* A slot without a row follows the room; one with no rules is exempt.
Follows == "follows"
Exempt == "exempt"
Unreadable == "unreadable"
Rulesets == Rules \cup {Follows, Exempt}

ASSUME FilterAssumption ==
    /\ Room \notin Slots
    /\ Follows \notin Rules /\ Exempt \notin Rules /\ Unreadable \notin Rules
    /\ MaxEdits \in Nat /\ MaxFaults \in Nat

VARIABLES
    state,      \* rooms.state
    filters,    \* room_filters and room_slot_filters
    applied,    \* what the room filters by, running or in its save
    cmds,       \* the ApplyFilters commands pending, oldest first
    task,       \* what each handler is doing, and the state its guard read
    disp,       \* the dispatcher, the scope it is at and what it read for it
    rec,        \* the reconciler, what it read, and what it has still to push
    edited,     \* history: the scopes that anyone ever set in Puna
    lapse,      \* history: the scopes whose last change is known not to be carried
    budget

vars == <<state, filters, applied, cmds, task, disp, rec, edited, lapse, budget>>

States == {"resting", "starting", "running", "degraded", "stopping"}
Task == [at : {"rest", "write", "tell"}, scope : Scopes, rules : Rulesets, seen : States]
NoTask == [at |-> "rest", scope |-> Room, rules |-> Follows, seen |-> "resting"]
Errand == [at : {"rest", "reach", "read", "push"}, scope : Scopes, rules : Rulesets]
NoErrand == [at |-> "rest", scope |-> Room, rules |-> Follows]
Pass == [at : {"rest", "room", "slots", "push"}, read : [Scopes -> Rulesets],
         todo : SUBSET Scopes]
NoPass == [at |-> "rest", read |-> [c \in Scopes |-> Follows], todo |-> {}]

TypeOK ==
    /\ state \in States
    /\ filters \in [Scopes -> Rulesets \cup {Unreadable}]
    /\ applied \in [Scopes -> Rulesets]
    /\ cmds \in Seq(Scopes)
    /\ task \in [Handlers -> Task]
    /\ disp \in Errand
    /\ rec \in Pass
    /\ edited \subseteq Scopes /\ lapse \subseteq Scopes
    /\ budget \in [{"edits", "faults"} -> Nat]

Init ==
    /\ state = "resting"
    /\ filters = [c \in Scopes |-> Follows]
    /\ applied = filters
    /\ cmds = <<>>
    /\ task = [h \in Handlers |-> NoTask]
    /\ disp = NoErrand /\ rec = NoPass
    /\ edited = {} /\ lapse = {}
    /\ budget = [edits |-> MaxEdits, faults |-> MaxFaults]

Spend(what) == budget[what] > 0 /\ budget' = [budget EXCEPT ![what] = @ - 1]

\* A plausible bug: to the room, no ruleset is an empty one.
ReadAsEmpty(c) == IF filters[c] \in Rules THEN filters[c] ELSE Exempt
\* What every reader makes of a row, the re-assert included: parse_lossy, to
\* which what it cannot parse is no rules. Nobody calls parse_strict.
Read(c) == IF filters[c] = Unreadable THEN Exempt ELSE filters[c]

\* The readings in hand, which the room may be given after newer ones.
RecHolds(c) ==
    \/ (rec.at = "push" /\ c \in rec.todo)
    \/ (rec.at = "slots" /\ c = Room)
DispHolds(c) == disp.at = "push" /\ disp.scope = c

\* The reconciler has still to read what the scope's row says.
WillRead(c) ==
    \/ state # "running"
    \/ rec.at = "room"
    \/ (rec.at = "slots" /\ c # Room)

-----------------------------------------------------------------------------
(***************************************************************************)
(* The web tier. The room is as it was when the guard read it.             *)
(***************************************************************************)
Webbing == UNCHANGED <<state, applied, disp, rec>>

Edit(h, c, rules) ==
    /\ task[h].at = "rest"
    /\ Spend("edits")
    /\ c = Room => rules # Exempt
    /\ task' = [task EXCEPT ![h] = [at |-> "write", scope |-> c, rules |-> rules, seen |-> state]]
    /\ Webbing /\ UNCHANGED <<filters, cmds, edited, lapse>>

\* A room seen at rest is told nothing: the next start asserts the row, if
\* there is one.
Write(h) ==
    /\ task[h].at = "write"
    /\ LET c == task[h].scope
           told == task[h].seen = "running"
       IN  /\ filters' = [filters EXCEPT ![c] = task[h].rules]
           /\ edited' = edited \cup {c}
           /\ lapse' = IF told \/ (WillRead(c) /\ task[h].rules # Follows) THEN lapse
                       ELSE lapse \cup {c}
           /\ task' = [task EXCEPT ![h] = IF told THEN [@ EXCEPT !.at = "tell"] ELSE NoTask]
    /\ Webbing /\ UNCHANGED <<cmds, budget>>

\* The command carries the scope, and no rules.
Tell(h) ==
    /\ task[h].at = "tell"
    /\ cmds' = Append(cmds, task[h].scope)
    /\ task' = [task EXCEPT ![h] = NoTask]
    /\ Webbing /\ UNCHANGED <<filters, edited, lapse, budget>>

HandlerDies(h) ==
    /\ task[h].at # "rest"
    /\ Spend("faults")
    /\ lapse' = IF task[h].at = "tell" THEN lapse \cup {task[h].scope} ELSE lapse
    /\ task' = [task EXCEPT ![h] = NoTask]
    /\ Webbing /\ UNCHANGED <<filters, cmds, edited>>

-----------------------------------------------------------------------------
(***************************************************************************)
(* The dispatcher.                                                         *)
(***************************************************************************)
Dispatching == UNCHANGED <<state, filters, task, rec, edited>>

Claim ==
    /\ disp.at = "rest" /\ cmds # <<>>
    /\ disp' = [NoErrand EXCEPT !.at = "reach", !.scope = Head(cmds)]
    /\ cmds' = Tail(cmds)
    /\ Dispatching /\ UNCHANGED <<applied, lapse, budget>>

Reach ==
    /\ disp.at = "reach" /\ state = "running"
    /\ disp' = [disp EXCEPT !.at = "read"]
    /\ Dispatching /\ UNCHANGED <<applied, cmds, lapse, budget>>

\* The room is not running, so the next start is to say it.
Reject ==
    /\ disp.at = "reach" /\ state # "running"
    /\ lapse' = IF filters[disp.scope] = Follows THEN lapse \cup {disp.scope} ELSE lapse
    /\ disp' = NoErrand
    /\ Dispatching /\ UNCHANGED <<applied, cmds, budget>>

\* What is pushed is what the tables say now.
ReadTables ==
    /\ disp.at = "read"
    /\ LET c == disp.scope
       IN  /\ disp' = [disp EXCEPT !.at = "push", !.rules = Read(c)]
           /\ lapse' = IF RecHolds(c) /\ rec.read[c] # Read(c) THEN lapse \cup {c}
                       ELSE lapse \ {c}
    /\ Dispatching /\ UNCHANGED <<applied, cmds, budget>>

\* PUT replaces and DELETE removes, whatever the room believes.
Push ==
    /\ disp.at = "push" /\ state # "resting"
    /\ applied' = [applied EXCEPT ![disp.scope] = disp.rules]
    /\ disp' = NoErrand
    /\ Dispatching /\ UNCHANGED <<cmds, lapse, budget>>

\* The pod is gone or going, or the call fails.
PushFails ==
    /\ disp.at = "push"
    /\ IF state = "running" THEN Spend("faults") ELSE UNCHANGED budget
    /\ lapse' = lapse \cup {disp.scope}
    /\ disp' = NoErrand
    /\ Dispatching /\ UNCHANGED <<applied, cmds>>

-----------------------------------------------------------------------------
(***************************************************************************)
(* The reconciler, one action at a time.                                   *)
(***************************************************************************)
Reconciling == UNCHANGED <<filters, cmds, task, disp, edited>>

Moves(from, to) ==
    /\ rec.at = "rest" /\ state \in from /\ state' = to
    /\ Reconciling /\ UNCHANGED <<applied, lapse>>

Start == Moves({"resting"}, "starting") /\ UNCHANGED <<rec, budget>>
MarkRunning ==
    /\ Moves({"starting", "degraded"}, "running")
    /\ rec' = [NoPass EXCEPT !.at = "room"]
    /\ UNCHANGED budget
MarkDegraded == Moves({"running"}, "degraded") /\ Spend("faults") /\ UNCHANGED rec
Stop == Moves({"starting", "running", "degraded"}, "stopping") /\ UNCHANGED <<rec, budget>>
MarkIdle == Moves({"stopping"}, "resting") /\ UNCHANGED <<rec, budget>>

\* The dispatcher is about to push something older than the row.
Crossed(c) == DispHolds(c) /\ disp.rules # Read(c)

ReadRoom ==
    /\ rec.at = "room"
    /\ rec' = [rec EXCEPT !.at = "slots", !.read[Room] = Read(Room)]
    /\ lapse' = IF Crossed(Room) THEN lapse \cup {Room}
                ELSE IF filters[Room] # Follows THEN lapse \ {Room} ELSE lapse
    /\ Reconciling /\ UNCHANGED <<state, applied, budget>>

\* A plausible bug: a call for every slot, so that nothing unknown survives.
DivergingAll == Slots
\* The slots with a row: a slot that follows the room is not told so.
Diverging == {s \in Slots : filters[s] # Follows}

\* With nothing to say, nothing is said; otherwise the room's is said too.
ReadSlots ==
    /\ rec.at = "slots"
    /\ rec' = IF rec.read[Room] = Follows /\ Diverging = {} THEN NoPass
              ELSE [rec EXCEPT !.at = "push", !.todo = Diverging \cup {Room},
                               !.read = [c \in Scopes |-> IF c \in Slots THEN Read(c) ELSE @[c]]]
    /\ lapse' = (lapse \ Diverging) \cup {s \in Diverging : Crossed(s)}
    /\ Reconciling /\ UNCHANGED <<state, applied, budget>>

Reapplied(c) ==
    rec' = IF rec.todo = {c} THEN NoPass ELSE [rec EXCEPT !.todo = @ \ {c}]

\* The room's first, then the slots'.
Reapply(c) ==
    /\ rec.at = "push" /\ c \in rec.todo /\ (Room \in rec.todo => c = Room)
    /\ applied' = [applied EXCEPT ![c] = rec.read[c]]
    /\ Reapplied(c)
    /\ Reconciling /\ UNCHANGED <<state, lapse, budget>>

\* Logged, and the next is tried.
ReapplyFails(c) ==
    /\ rec.at = "push" /\ c \in rec.todo /\ (Room \in rec.todo => c = Room)
    /\ Spend("faults")
    /\ lapse' = lapse \cup {c}
    /\ Reapplied(c)
    /\ Reconciling /\ UNCHANGED <<state, applied>>

\* Both tasks end where they are.
OrchestratorDies ==
    /\ disp.at # "rest" \/ rec.at # "rest"
    /\ Spend("faults")
    /\ lapse' = lapse \cup (IF disp.at = "rest" THEN {} ELSE {disp.scope})
                      \cup (CASE rec.at = "rest" -> {} [] rec.at = "push" -> rec.todo
                              [] OTHER -> Scopes)
    /\ disp' = NoErrand /\ rec' = NoPass
    /\ UNCHANGED <<state, filters, applied, cmds, task, edited>>

-----------------------------------------------------------------------------
(***************************************************************************)
(* Outside Puna.                                                           *)
(***************************************************************************)
Outside == UNCHANGED <<state, cmds, task, disp, rec, edited>>

SaveLost ==
    /\ state = "resting"
    /\ Spend("faults")
    /\ applied' = [c \in Scopes |-> Follows]
    /\ Outside /\ UNCHANGED <<filters, lapse>>

\* Somebody uses the room's own API.
SetDirectly(s, rules) ==
    /\ state # "resting"
    /\ Spend("faults")
    /\ applied' = [applied EXCEPT ![s] = rules]
    /\ lapse' = lapse \cup {s}
    /\ Outside /\ UNCHANGED filters

\* A row written by a newer Puna, and left behind by a rollback.
Garble(c) ==
    /\ filters[c] # Follows
    /\ Spend("faults")
    /\ filters' = [filters EXCEPT ![c] = Unreadable]
    /\ lapse' = IF WillRead(c) THEN lapse ELSE lapse \cup {c}
    /\ Outside /\ UNCHANGED applied

Web ==
    \E h \in Handlers :
        \/ \E c \in Scopes, rules \in Rulesets : Edit(h, c, rules)
        \/ Write(h) \/ Tell(h) \/ HandlerDies(h)

Orchestrator ==
    \/ Claim \/ Reach \/ Reject \/ ReadTables \/ Push \/ PushFails
    \/ Start \/ MarkRunning \/ MarkDegraded \/ Stop \/ MarkIdle
    \/ ReadRoom \/ ReadSlots \/ \E c \in Scopes : Reapply(c) \/ ReapplyFails(c)
    \/ OrchestratorDies

World ==
    \/ SaveLost
    \/ \E s \in Slots, rules \in Rules : SetDirectly(s, rules)
    \/ \E c \in Scopes : Garble(c)

Next == Web \/ Orchestrator \/ World

Spec == Init /\ [][Next]_vars

-----------------------------------------------------------------------------
UnderWay(c) ==
    \/ \E h \in Handlers : task[h].at # "rest" /\ task[h].scope = c
    \/ \E i \in DOMAIN cmds : cmds[i] = c
    \/ (disp.at # "rest" /\ disp.scope = c)
    \/ rec.at # "rest"

\* A running room, once nothing is under way, filters each scope by the rules
\* stored for it, unless the change is known to have missed it (filters.rs,
\* tell_the_room: the durable half has already landed). Of a row that cannot be
\* parsed it says nothing: RulesStand does.
FilterInForce ==
    state = "running" =>
        \A c \in Scopes \ lapse :
            ~UnderWay(c) /\ filters[c] # Unreadable => applied[c] = filters[c]

\* The re-assert "must not push a half-understood ruleset at a room" (filter.rs,
\* the head of its storage section): a room that filters is not told to stop
\* because its row cannot be parsed. The room's own filter is never stored
\* empty, so only an unreadable row is pushed as one.
RulesStand ==
    [][filters[Room] = Unreadable /\ rec.at = "push" /\ rec' # rec /\ applied[Room] \in Rules
         => applied'[Room] # Exempt]_vars

\* Puna never touches the rules of a slot that nobody set in Puna, so rules
\* given to the room directly survive (steps.rs, reapply_filters: what it
\* deliberately does not do).
OthersRulesSurvive ==
    [][\A s \in Slots \ edited' : applied'[s] # applied[s] => World]_vars
=============================================================================
