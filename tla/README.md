# puna in TLA+

puna runs Archipelago multiworld rooms as Kubernetes pods (pahoa). A web tier
writes what people want into PostgreSQL, one elected orchestrator makes the
cluster agree with it, and the cluster, the load balancer and the people go on
changing things meanwhile. No lock is held across a step of the orchestrator or
a web request, no transaction spans the database and the API server, and a
process may stop between any two calls. What must survive all of that is what
this project states, checks with TLC and, for most of it, proves with TLAPS.

Paths below are relative to the repository; `steps.rs`, `plan.rs` and the like
are in `puna-orchestrator/src/`, `port.rs`, `room.rs`, `slot.rs` and `member.rs`
in `puna-core/src/model/`, `rooms.rs`, `console.rs`, `bulk.rs`, `filters.rs` and
`tracker.rs` in `puna-web/src/routes/`, `lobby.rs` and `upstream.rs` in
`puna-web/src/`, and `up.sql` is the initial migration.

## The system

| component | code | state | operations | correct when |
|---|---|---|---|---|
| planner | `plan.rs` | none: a pure function | `step_for`, `plan` | every state has a way forward; paced and counted steps only in full passes; no request starves |
| reconcile loop | `reconcile.rs`, `main.rs` | one pass in memory | snapshot, views, plan, execute, integrity check; full and convergence passes | a level-triggered loop: an error or a restart costs a pass and no more |
| room steps | `steps.rs` | `rooms` row | provision, start, recreate, mark, stop, retry, delete, fail, reap | each step may stop after any call and be taken again |
| object applier | `apply.rs`, `cluster/` | Deployment, Secret, Service | `ensure_room_running`, `teardown_room` | recorded before owned, owned before exposed; nothing outlives a deleted room |
| room storage | `storage.rs` | room directory, trash | `provision`, `trash` | never created over a loss, never moved under a running pod |
| port allocator | `port.rs` | `port_ranges`, `port_reservations` | allocate, release, quarantine, `ensure_range` | one pair per room, and never taken from a room with players |
| leader lock | `leader.rs` | an advisory lock on a session | acquire, per-room lock | one actor, or harmless ones |
| web requests | `room.rs`, `fleet.rs`, `rooms.rs` | the same `rooms` row | `request_state`, the restart form, `rotate_password`, live options, `request_redeploy` | a request is acted on, or replaced by a later one |
| sweeper | `sweep.rs` | orphans seen, Secrets stale | orphan rules, `refresh_secrets`, hourly lane | no live room's object is removed; a stale Secret is refreshed |
| command queue | `command.rs`, `dispatch.rs` | `room_commands` | enqueue, claim, execute, finish, `fail_stale` | a command is taken once and in turn, has one outcome and always ends |
| moderation console | `console.rs` | the slot's row, commands | rotate a password, lock and unlock a slot | what the row says reaches the Secret and the running room |
| members, invites | `member.rs`, `rooms.rs`, `up.sql` | `room_members`, `room_invites` | set role, remove, mint, revoke, redeem | an organizer always remains; a link is spent as often as it was meant to be |
| slot claims | `slot.rs`, `rooms.rs`, `bulk.rs` | `room_slots` | claim by link or by name, release, import | a slot has one owner, who loses it only by a release |
| lobby import | `lobby.rs` | none between requests | `plan`, `import` | nobody is handed somebody else's world |
| tracker tier | `tracker.rs`, `upstream.rs` | `last_tracker_doc`, a memo per replica | obtain, store, fall back | what is shown is as old as it says; a torn-down room is still shown |
| traffic filters | `filters.rs`, `filter.rs` | `room_filters`, `room_slot_filters`, the room's save | edit, push, re-assert | the room filters by what Puna stores, and by nothing else Puna did |
| spec rendering | `spec/` | none | the Secret, the Deployment, the hash | the room's door is never rendered half |
| web tier | `puna-web/` | sessions, caches | the other routes and pages | |
| the rest | `artifact/`, `probe/`, `metrics.rs`, `puna-tools/` | | parsing, reporting, load tests | |

They interact through PostgreSQL rows and the Kubernetes API. The orchestrator
reads a snapshot of the cluster (a watch cache, possibly old) and then the rows,
decides one step per room from the two, and takes the steps one after another.
A step is a sequence of autocommitted statements and API calls; only
provisioning, allocation and the last part of a deletion run in a transaction,
under a per-room advisory lock. The web tier writes `desired_state`, the room's
definition and `redeploy_requested_at` into the same rows at any moment, from
handlers whose guard read the room several statements earlier. What a helper
asks of a running room goes another way: the web tier writes the slot's or the
filter's row, then queues a command, and a dispatcher beside the reconciler
claims it and calls the room. The tracker tier reads the room itself and shares
one stored copy among its replicas.

What is hard: calls interleave with other writers; a crash or an API error ends
a step anywhere; a foreground deletion is accepted long before the pod is gone;
the list is stale while a `get` is not; the load balancer answers late, wrongly
or with a refusal; statements run at READ COMMITTED, allocation with
`SKIP LOCKED`, a trigger with a snapshot of rows it does not lock; and a
password, a lock and a filter each have several copies, which several parties
bring into line, each reading before it writes. `PROJECT.json` lists each such
hazard at its line with the properties that cover it.

## Modules

**`Planner`** is `plan.rs`: `StepFor` is `step_for`, one operator per arm, and
`Plans` is `plan`'s filter and caps. No state. Ages are in units of the
constants; a spec hash is the revision it was rendered from.

**`RoomLifecycle`** is the orchestrator around it: `reconcile.rs`'s pass, every
step of `steps.rs` and the object order of `apply.rs`. One action is one
statement or one API call. `row` is the `rooms` row; `dir`, `dep`, `secret`,
`svc` are the world; `cache` is the list as the watch cache has it; `pc`,
`full`, `snap`, `queue`, `cur`, `rendered` are the process. The web tier
(`RequestState`, `EditDefinition`, `RequestRedeploy`, `QuietChanges`), the
cluster (`PodReady`, `Collect`, `AddressGranted`, ...), errors (`StepErrors`,
`StartErrorsFatally`, `AllocateFails`) and `Crash` may come between any two.
Taking the lock runs `ensure_range`: `Acquire` finds every reservation inside
the range, `NarrowRange` deletes some, live rooms' included, and
`RestartStranded` asks for a restart of those that were live, which `stranded`
holds until then. `asked` is a history variable for the properties alone.

**`RoomPromise`** is what all of that is for, in three variables: a room serves
one definition or none and is never rolled from one into another, its directory
is put away only while nothing runs over it, and a forgotten room runs nothing
and stays forgotten. `RoomLifecycle` implements it (`PromiseKept`): a room is
known while its row exists, runs what its Deployment was created for until that
is collected, and has the directory it has.

**`Fleet`** is the loop over all rooms: when `main.rs` looks (a full pass an
interval, convergence passes while something is under way, a failed pass), the
caps and the order of `plan`, and how requests for a restart drain. A step is
one action there, done or skipped. `loop` is where the loop is, `plan` what is
left of a pass, `line` the pending requests in their order; `unready` and
`since` are history variables.

**`PortAllocator`** is `port.rs` with the part of a start that depends on the
pair: `allocate`'s phases as statements of an open transaction, whose writes
are unseen and locked until it commits (`freed`, `LockedFor`); `ensure_range`
as the five autocommitted statements it is; quarantine; and Services that share
one address, so that a pair goes to the first that asks. A room's lifecycle
here is only what the allocator distinguishes. `lost` is a history variable: the
rooms a crash in the middle of `ensure_range` forgot to restart.

**`SlotControl`** is one slot of one room: a helper's request statement by
statement (`console.rs`: `Ask`, `WriteRotation`, `MarkSecretStale`, `ReadBack`,
`WriteLock`, `Enqueue`), the dispatcher's claim, calls and record
(`dispatch.rs`, `command.rs`), the reconciler's start as far as it touches the
Secret and the pod, `mark_running` with `reapply_locks`, and the Secret refresh
of `sweep.rs`. `slot` is the `room_slots` row, `cmds` is `room_commands`,
`secret` and `pod` are the copies the world has, `helper`, `disp` and `rec` are
where each party stands and what it has read. `lapse` is a history variable.

**`CommandQueue`** is what those who ask are promised, in two variables: the
commands and the one in hand. They are taken one at a time, oldest first and
once each, and answered once, by whoever has them in hand or, when nobody has,
with a failure. `SlotControl` implements it (`QueueIsKept`): the command in hand
is the one the dispatcher has claimed, until it has recorded the answer or died.

**`Filters`** is the same for one room's traffic filters: an edit as the
statements of `filters.rs` (`Edit`, `Write`, `Tell`), the dispatcher's push,
which reads the tables when it comes to it, and `reapply_filters` when the room
comes up, which reads everything first and then pushes the room's own rules and
those of each slot that has its own. `applied` is what the room filters by, kept
in its save. `lapse` and `edited` are history variables.

**`RoomDoor`** is what a room demands of whoever connects: password mode,
room-wide or per-slot passwords, remote-admin password. It follows a change
from the handlers of `rooms.rs`, statement by statement and deciding by what
their guard read, through the three reads of a render (`steps.rs`
`render_spec`), the Secret, the Deployment and its container, past the
restart request and the Secret refresh. `missed` is a history variable: why a
change was not carried by the next restart.

**`Staff`** is a room's organizers and helpers and its invites. A demotion or a
removal is two actions, because the trigger that keeps the last organizer counts
other rows in a snapshot; redeeming an invite is two statements. `crossed` and
`granted` are history variables. **`Claims`** extends it with who holds each
slot: claim links, open claims by name, releases one by one and in bulk, turning
open claims off and on, and the lobby import with everything it reads before
each statement. Guards read the roster once, so staff may change under a job.

**`LobbyImport`** is the matching that import rests on: `plan`'s passes (exact
name, name cut to sixteen characters, templates and renames), the two plans with
the yamls' contents read between, and the claims. `Init` draws a lobby and a
seed its generator could have made of it: names counted as `handle_name` counts
them, triggers that rename, yamls that were left out.

**`TrackerCache`** is the way to a room's two tracker documents: memo, stored
row, the room itself, and back, request by request, with one stamp per
document, failures at any point, and restarts of a replica.

**`MC_*`** instantiate these for TLC. The theorems are in
**`RoomLifecycleProofs`**, **`FleetProofs`**, **`PortAllocatorProofs`**,
**`SlotControlProofs`**, **`FiltersProofs`**, **`RoomDoorProofs`**,
**`ClaimsProofs`** (Staff's first, then Claims') and **`UpstreamProofs`** (the
import's, then the tracker's).

Abstractions to keep in mind:

- RoomLifecycle keeps a reservation as held or not; whether another room took
  it is PortAllocator's. The pair is part of what a room renders to, so losing
  it to a narrowed range counts as a new revision.
- `ensure_range` is five statements in PortAllocator. In RoomLifecycle it is two
  actions, up to its DELETE and from its last UPDATE: it runs before the pass
  begins, and nobody else writes a state or a reservation then, so that what it
  reads first is still so when it deletes. A crash in between is possible, and
  loses the rooms it had read. `forget_foreign_environment`, which runs before
  it, deletes no row of this environment.
- `closed` differs from `stopped` only in who may reopen the room, in the web
  tier; the planner treats both alike, and the runs ask for `stopped`.
- The calls to pahoa itself (`ask_to_stop`, `reapply_locks`,
  `reapply_filters`) are logged and ignored on failure and write nothing the
  planner reads; RoomLifecycle leaves them out, SlotControl has the second and
  Filters the third.
- The integrity check reads and writes each room in turn; in RoomLifecycle it is
  one action per pass. `CREATE` answered by AlreadyExists re-reads the uid in
  the same action.
- In Fleet, Deployments are of the current definition, no room is idle enough to
  be reaped and none old enough to have passed a deadline; those steps are
  RoomLifecycle's.
- PortAllocator leaves open which of several eligible pairs is taken (oldest,
  then random), so `last_activity` and `touch_live_rooms` are not kept. Its
  rooms are not deleted: the foreign key only unbinds a deleted room's pair. A
  Deployment and the Service it owns are one object there, and stopping,
  failing and recreating are single actions. The liveness of a victim is read
  when its row is locked, which differs from the statement's own snapshot only
  beside another orchestrator.
- SlotControl and RoomDoor number passwords in the order they were generated. A
  room saves a lock as soon as it is told. The Secret outlives a stop in
  SlotControl: the next start writes it before any container can read it. A
  failed room counts as idle, and what makes a room start, stop, degrade or
  recover is left open there and in Filters.
- A command that is neither a rotation, a lock nor a filter passes through as
  they do and changes nothing Puna keeps; batches and images that answer
  `Unsupported` are left out. There is one dispatcher, as there is one leader.
- RoomDoor counts all the slots' passwords as one, which is what a change of
  mode does with them; a slot's own rotation is SlotControl's.
- A claim link is a number in the order of minting where the code's is random
  and never comes back. A deleted room's rows are gone in one action, as the
  cascade has it.
- LobbyImport takes a yaml for the account that owns it and names for a stem
  and a form; it leaves out case and the fetching of the lobby's answer.
- TrackerCache takes a document for the moment the room said it, and the clocks
  of replicas and database to agree.

## Runs

| run | question | result |
|---|---|---|
| `RoomLifecycleSafety` | what holds of one room whatever interleaves, one narrowed range included, and does it implement `RoomPromise` | passes (about 3,300,000 states) |
| `RoomLifecycleLiveness` | do a start, a stop and a deletion finish, with two definitions and one fault | passes (about 308,000) |
| `RoomLifecycleLostRedeploy` | is every redeploy request honoured | violated |
| `FleetPacing` | is the pace of restarts kept and does nobody wait for ever | passes |
| `PortAllocatorSafety` | two rooms on two pairs, two restarts that narrow or widen the range, one fault | passes (about 511,000) |
| `SlotControlSafety` | are a rotation and a lock, or two of either, carried to the room, with one fault, and does it implement `CommandQueue` | passes (about 447,000) |
| `RoomDoorSafety` | does a room demand what its row says after two changes and one fault | passes (about 6,000,000) |
| `FiltersSafety` | does a room filter by what is stored after three edits, with one fault | passes (about 3,800,000) |
| `ClaimsSafety` | three requests on a room's staff and slots, and its deletion | passes (about 710,000) |
| `FiltersUnreadable` | does a re-assert leave alone what it cannot read | violated |
| `StaffSkew` | does a room always keep an organizer | violated |
| `UpstreamSafety` | is each slot of a seed matched to the yaml it came from, or left alone; are the tracker's copies as old as they are said to be | passes (about 2,750,000) |

Each violated run checks one sentence of the repository's own documentation,
quoted under `findings` in `PROJECT.json`, and a property of a passing run
states what does hold in its place:

- An edit that lands inside a start is lost with its redeploy request: the
  start has rendered the row and then clears the request.
  `QuietRequestHonoured` excludes exactly such a request.
- Two organizers who leave at once each see the other still there, and the
  trigger lets both go. `OrganizerRemains` holds as long as no two demotions
  were between trigger and commit at once.
- A stored ruleset that cannot be parsed, left behind by a rollback, is read as
  no rules by the re-assert too, and a room that comes up is told to filter by
  nothing. `FilterInForce` is about the rows that can be parsed, and says
  nothing of the others.

Some properties of the passing runs need their exceptions explained.
`WantedRoomComesUp` lets a room off that is parked: failed without a retry time
and with no new definition, which `plan.rs` leaves to an operator. Each failed
start passes through such a row between the two statements of `fail_with`, and
that moment does not count: a room that failed must come up, or fail to say when
to try again because a fault came between the two. It also supposes that the
room's pod does not miss the deadline of one start after the other for ever
(`TimesOut`); what the room then does is try again, which is all the code
promises. `LiveIsBacked` lets a live room be without a reservation while a
restart is pending that will allocate one, while `ensure_range` is about to ask
for that restart, or when it died before it did (`lost`).
`LiveServesItsPair` has one orchestrator, and excepts a room whose restart is
queued, or was to be queued by a process that stopped in `ensure_range` after
deleting the reservation (`lost`; with two restarts TLC shows such a room serving
a pair that is by then another's). `RoomDemandsItsRow` excepts the four
`missed` reasons it names. `DegradedTakesSweeps` is one short of the threshold,
since the last pass may be a convergence pass.

`LockedSlotIsBarred` excepts a known `lapse`, set where the code logs an error
or loses the thread and nothing makes it good before the room next reaches
running: a lock whose call failed or whose command was failed as stale, a crash
between writing `running` and re-applying the locks, a request that died
between the row and the queue, and two requests that crossed there.
`FilterInForce` has the same exception, for a failed push, a request that died
or judged the room by a state it had left, a crash, a push that crossed another
reading of the tables, somebody who used the room's own API, and a change made
while the room is away that leaves nothing to re-assert (next section).

One race is in SlotControl and no property excludes it: a refresh that read the
row before a rotation may write its older password over the dispatcher's newer
one, and the Secret then stays behind until it is an hour old. `SecretCatchesUp`
allows the delay; a container that restarts within it comes up with the older
password.

**Bounds.** One room in the lifecycle runs: rooms meet only in the caps, which
are Fleet's, and in ports, which are PortAllocator's; the proofs are for any
number. One fault (a crash, an error, a lost pod or directory, a denial) reaches
every "fails here, then recovers" history; two revisions and one request are
what it takes to tell an old definition from the one asked for. The grace
periods are 0 with ages up to 1, which tells "before" from "after" each
deadline; two unready passes degrade a room (one in the liveness run). The range
is narrowed once in the safety run. The liveness run keeps the second revision,
so that a changed definition may cut a backoff short, and leaves out the reaping
of idle rooms, which ends where a stop does, and narrowed ranges, after which a
room is a room with a new definition and a request for a restart.

- `FleetPacing`: two rooms and `MaxRecreates` 1, so that one waits for the other;
  a full pass every two convergence intervals, so that one comes between;
  `DegradedSweeps` 3, as in the code; one fault.
- `PortAllocatorSafety`: two rooms for a reclaim, two pairs for a room to move,
  three process starts: the first, one for a range to change under rooms that
  are up, and one after a crash in the middle of that change.
- `SlotControlSafety`: two commands of one helper, who need not wait for the
  first, give every order in which two passwords, two locks, or one of each can
  be written, queued and carried; one start under them and one fault give the
  rest. Safety was also checked with two helpers and two starts (3.6 million
  states), which is where two requests cross, and the theorems are for any
  number.
- `RoomDoorSafety`: two requests, which may be under way at once, give a change
  on top of a change from each mode the room may have been created in; three
  passwords tell old, new and newer; one fault.
- `FiltersSafety`: one slot beside the room's own filter, two rulesets, three
  edits from two handlers at once: two to cross and one to tell the last from
  the one before; one fault.
- `ClaimsSafety`: two people are a rival and an owner, or the last two
  organizers; two roster requests and two jobs at a time; one invite for one
  use; two slots, so that a job has one behind it and one ahead; three requests.
  There is no administrator: one adds no statement, only a guard that always
  passes, and the theorems allow any. `StaffSkew` keeps one slot.
- `FiltersUnreadable`: one edit and one row that goes bad are enough.
- `UpstreamSafety`: the import and the tracker share no variable; where one
  moves the other stays as it began, so that the run is the two explored side by
  side. Three yamls over three stems and every form of a name are
  what it takes for one yaml to match in one pass, another to be eligible in
  two, and a third to lose; the seed is made of all of them or of all but one.
  Two tracker requests in one replica; windows of 1 and 2 with a
  memo of 1 and a lag of 1 keep the order of the code's 60 s, 300 s and 5 s, and
  four ticks let a live document go stale twice. That is short of the static
  document's `Window`, whose age is the theorem's (`AgesAreHonest`). Several
  replicas differ from one only in their memos, and the theorems allow any
  number.

**Fairness.** For a room (`FairSpec`): the loop keeps running (weak, on `Pass`)
and full passes keep coming (strong, on a full `Snapshot`: `main.rs` starts a
full pass whenever the interval has elapsed, and never lets convergence passes
push it back, which is `FullPassesKeepComing`); the watch cache, the clock,
pods, the garbage collector, the load balancer and backoffs move eventually.
For the fleet: the loop goes on, and a deletion once accepted is carried out;
nothing is assumed of pods becoming ready, because nothing it promises waits for
one. For a slot: the dispatcher takes its next step and, at rest, recovers or
claims (`dispatch.rs` polls every five seconds, woken or not), the reconciler
ends the step it is in, a full pass refreshes a Secret that is stale, and an
hour passes. Nothing is assumed of people, and faults are never fair.

## Where code and comment part

The three findings are in `PROJECT.json`. The following were met while modelling;
each is in the models, which do what the code does, and none has a run of its
own.

- `plan.rs:220` describes a failed start as one move to `failed` with its retry
  time; `fail_with` (`steps.rs:1340`) sets the time in a second statement, and a
  process that stops between the two leaves a room that no timer retries until
  its definition changes or somebody asks.
- `plan.rs:490` says of a room at rest that there is "specifically nothing to
  clean up". A start that returned to wait for its address leaves the room
  `idle` with its objects up; if the request to run is then withdrawn, nothing
  takes the pod down.
- `port.rs:245` counts on a victim of the reclaim not serving players. A room in
  `stopping` or `failed` may still have a Service on its pair, and the next
  owner's Service then asks for a pair that is still taken, which `port.rs:371`
  calls "necessarily" a collision "with something Puna did not create".
- `port.rs:581` promises that a live room outside a narrowed range has a restart
  queued. The list of such rooms is the result of the DELETE at `port.rs:643`; a
  process that stops before the UPDATE that follows loses it, and the next one
  finds no row to delete (`lost` in PortAllocator).
- `leader.rs:17` calls the lock "a simplicity property, not a correctness one".
  Beside an orchestrator that lost its lock without noticing, an allocation may
  move a pair under a start that is about to use it; `ReclaimSparesTheLive` is
  proved for one orchestrator only.
- A slot unlocked while the room is at rest stays barred: `console.rs:610` calls
  the row the authority, but `reapply_locks` (`steps.rs:856`) asserts only
  locks, and the room's save keeps the old one.
- `console.rs:450` says a password stored while the room is down takes effect at
  its next start. A start that rendered earlier and is marked starting only after
  the read-back brings the room up with the old one.
- `plan.rs:198` has "consecutive sweeps". `MarkDegraded` may be taken in a
  convergence pass, and a `MarkRunning` that is skipped leaves the count
  standing, so that passes on either side of a recovery count together.
- Requests for a restart are served oldest first (`plan.rs:400`): a room whose
  recreate fails every time keeps its place and, with a cap of one, everybody
  behind it waits. `NoRequestStarves` is with faults that end.
- `main.rs:42` listens on a channel "the web tier pokes"; nothing in the
  repository notifies it, so a request waits for the next pass.
- `room.rs:1404` says a stopped room needs no restart for its new password.
  `rooms.rs:2510` decides that by the state its guard read; a room that came up
  since keeps the old one.
- `bulk.rs:394` looks whether a slot is held before it releases it, and
  the release asks nothing: a slot claimed in between loses its owner, one
  released in between its fresh link.
- `lobby.rs:962` calls the second plan "a superset of the first by construction".
  It may lose a match instead: a name read in between may make an earlier slot
  take the yaml that a template had matched to a later one. The order dependence
  of that pass, which takes the slots in turn, is why `ClaimsAreTrue` is about
  slots whose yaml is told.
- `lobby.rs:53` says that a room whose yamls were edited after the download
  "produces names that do not match". The counter behind `{number}` is over the
  lobby's list (`lobby.rs:725`), so a yaml left out of the seed moves the numbers
  of the others onto names that do match, and another's slot is claimed.
- `tracker.rs:485` says a fresh document is dated "accurate to within the
  document's own 60-second window". A copy read from the row at the end of its
  window lives on in a memo, and the view waits for its other document:
  `Window` is the lifetime, the memo's and twice the time a document takes. For
  the static document the lifetime alone is five minutes. The "oldest of the
  documents used" (`tracker.rs:483`) is the oldest of the stale ones.
- `upstream.rs:135` says a room is asked "at most once per room per cache
  window". Requests that miss at the same time each ask.
- `filters.rs:454` and `bulk.rs:483` leave a room that is not running to
  `reapply_filters`, which "asserts everything at the next start". It asserts
  what is stored: a slot's ruleset that was removed meanwhile is not told, and
  the room's save keeps it.

## Theorems

`TypeOK` of every component, each safety invariant and each action property that
a passing run checks is a theorem, for every value of the constants. The
assumptions are those on constants in each module (`PlannerAssumption`,
`LifecycleAssumption`, `AllocatorAssumption`, `SlotAssumption`,
`StaffAssumption`, `ClaimsAssumption`, `LobbyAssumption`, `TrackerAssumption`,
`FilterAssumption`, `DoorAssumption`, `FleetAssumption`), and `OneOrchestrator`
for two theorems about ports. TLC had every invariant first; none is inductive as stated, and this is
what each needs besides.

- **A room.** Each safety property of the passing lifecycle run, for every
  number of rooms, revisions, faults and any
  thresholds. `TypeOK` needs to know that a step's bound `not_ready_sweeps` has
  not moved since it was planned; `DeletedLeavesNothing` that a deletion past
  its `get` has seen no Deployment and removed the Secret, and that nothing
  starts a room whose row is gone. `InductiveInvariant` adds these facts per
  place in the code, and that a start between recording and advertising has its
  hash on record is one of them. For the pair, `LiveIsBacked` needs what a live
  room is owed: its reservation may have gone with a range, and then its row
  holds a request that no step clears before a start has allocated again, or
  `ensure_range` is about to write one (`Backed`). That is the second invariant,
  `OInv`. `PromisesAreKept` is the refinement: from the first, every step is a
  step of `RoomPromise` or changes nothing it sees. `QuietRequestsAreHonoured` needs `OInv`
  to say how a request travels: it is
  in the row, or what stands or is being built for the room is of its revision
  or a later one, or it was made inside a start (`Answers`); a step that clears
  a request has deleted the old Deployment or created the new one by then.
- **The fleet.** The pace is kept because what has been recreated since the last
  full pass and what its plan still holds are within `MaxRecreates` together:
  a pass lets a room go only with fewer than that many before it in line, and no
  two have as many (`WithinPace`, by the pigeonhole principle). A row's count of
  passes never runs ahead of the full passes that saw the room unready, wherever
  a planned step is taken late; and a pass with nothing pending has planned
  nothing that starts or stops a room. That served requests leave the line in
  order, which `TypeOK` needs, is `LeavesLine`.
- **Ports.** For any number of orchestrators, rooms, pairs and configured
  ranges no room is bound to two pairs, and transactions in flight never claim
  the same one. The invariant says what an open transaction has written belongs
  to its room or was eligible, that write sets are disjoint, and that before
  claiming it has released whatever its room holds. With one orchestrator, a
  pair never moves from a live room to another, and a live room serves the pair
  its row has: a start past `ensure_room_running`'s create has put its Service
  on the pair it was handed (`Placed`), whatever is live serves its row's pair or
  awaits a restart (`Served`), and what `ensure_range` has stranded is still in
  its hands until the request is written (`Carried`).
- **A slot.** `TheQueueIsKept` is the refinement: what the dispatcher has in hand
  is a command left running (`ClaimInv`), so that its answer, the next claim and
  the stale sweep are each a step of `CommandQueue`. `LockedSlotsAreBarred`
  needs to know who carries a lock the room does not have: once the row's
  word has been handed to the queue and no lapse is known, the room has the lock
  or some command that asserts it is not yet delivered (`LockInv`); any command
  that could still lift it has a pending lock behind it (`OrderInv`), which
  rests on commands being claimed oldest first (`QueueInv`); a request on its
  way to the queue is the one whose word the row has (`RequestInv`); and a start
  in hand keeps its room out of running (`StartInv`).
- **Staff and claims.** All seven properties of the run. `OrganizersRemain`
  needs that a demotion past the trigger has left another organizer whom no
  other demotion is about, unless two were under way; `InvitesHold` counts the
  memberships granted, owed and left together; `HoldersKeep` and
  `FreeSlotsHaveLinks` that a slot has an owner or a link and never both;
  `ImportsCountTrue` that each planned slot is still ahead, was claimed by the
  import or is among its rivals.
- **The import.** That a yaml is spent once needs that the passes keep two
  accounts of what is used, by title and by yaml, and that they agree on every
  matched slot. `ToldSlotsAreRight` needs that a slot whose yaml is told cannot
  lose it to a slot before it. `OrderIsNoMatter` needs that the cut pass reads
  only what the exact pass left. `LinedUpRoomsAreRight` needs that
  a seed of as many distinct names as there are yamls uses every position once
  (a finite injection of a set into itself is onto), so that each slot has the
  position of its yaml and the numbers are those the generator gave.
- **The door.** Whoever read the row before a change is followed by a restart
  unless the change is in `missed`: a writer owes the restart request from its
  UPDATE on, and until it is in the row, in a start that will read it, or in
  `missed`, what the room demands may be behind (`Debt`). `DoorIsWhole` needs
  that whatever is built was read in a mode that is whole, or refused
  (`ReadIsWhole`).
- **The tracker.** What a memo or the row holds was said no longer before its
  stamp than a document takes, a memo's by the window it was read in, and a
  request's own copies carry both to the answer.
- **Filters.** While no lapse is known for a scope, the room has what the tables
  say or somebody who will read them again, or who has read just that, has yet
  to push it.

Only model-checked: everything under fairness (`WantedRoomComesUp`,
`StopCompletes`, `DeleteCompletes`, `CommandsEnd`, `SecretCatchesUp`,
`NoRequestStarves`, `FullPassesKeepComing`), which the provers cannot reach.

## Not modelled, and the plan

Left out of modelled components: the bulk filter panel (the same statements as a
single edit, per slot), an invite's expiry (no route sets one), cloning, audit
events, a slot's annotation, which is read and then written (`tracker.rs:1359`:
two people who edit one annotation at once, the last wins), orphan collection
(two sightings and an age far above a start's leave only the clock), batches,
and `touch_live_rooms`.

Not planned: parsing of artifacts and YAML, the HTTP clients, digests and pages,
the prober's reporting, metrics, and the load tools: data handling or I/O
without a protocol of their own. They, the tests inside the source files and the
rendering of pages are most of the repository's lines, and so most of what the
map of definitions to lines leaves uncovered.

Next, in this order:

1. Batches, whose commands share one `requested_at`, so that `claim` may take
   them in any order among themselves, and the queue of `Filters`, which keeps
   only what is pending, as an implementation of `CommandQueue`.
2. The abstract specification of a claim (a slot goes from free to held and back
   by a release only) that `Claims` implements, as a refinement beside
   `HeldUntilReleased`.
3. What `ReclaimSparesTheLive` and `LiveServesItsPair` become beside an
   orchestrator that has lost its lock, where only `OnePairPerRoom` is proved.
