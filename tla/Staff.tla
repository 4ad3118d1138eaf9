-------------------------------- MODULE Staff --------------------------------
(***************************************************************************)
(* A room's staff: the roster of organizers and helpers (room_members) and *)
(* the invite links that extend it (room_invites), as member.rs, the       *)
(* handlers of rooms.rs and the trigger of the initial migration change    *)
(* them.                                                                   *)
(*                                                                         *)
(* A request is a handler's walk from its guard, which reads the caller's  *)
(* role and is not asked again, to its statements, each of which commits   *)
(* by itself.  A statement on one row of its own is one step: PostgreSQL   *)
(* locks the row and evaluates the WHERE clause on what is committed.      *)
(* Removing or demoting somebody is two, because the trigger counts OTHER  *)
(* rows, in the snapshot of READ COMMITTED, and the count may be old when  *)
(* the statement commits.                                                  *)
(***************************************************************************)
EXTENDS Naturals, FiniteSets

CONSTANTS
    Users,
    Founder,        \* who opened the room: its first organizer
    Admins,         \* accounts that pass every guard without being staff
    Handlers,       \* requests on the roster served at a time
    Invites,        \* the tokens that may be minted
    NoInvite,       \* not one of them
    MaxUses,        \* bound: uses an invite is given
    MaxRequests     \* bound: requests made of the room

ASSUME StaffAssumption ==
    /\ IsFiniteSet(Users) /\ Founder \in Users
    /\ IsFiniteSet(Handlers)
    /\ Admins \subseteq Users
    /\ NoInvite \notin Invites
    /\ MaxUses \in Nat /\ MaxRequests \in Nat

VARIABLES
    exists,     \* the rooms row, whose deletion cascades to the rest
    members,    \* room_members: the role of each account, or none
    invites,    \* room_invites
    task,       \* what each handler is doing
    granted,    \* history: the memberships granted through each invite
    crossed,    \* history: two demotions have been under way at once
    requests    \* requests left

staffVars == <<exists, members, invites, task, granted, crossed, requests>>

Roles == {"none", "helper", "organizer"}
Rank == [none |-> 0, helper |-> 1, organizer |-> 2]
Greatest(a, b) == IF Rank[a] >= Rank[b] THEN a ELSE b

\* "of" is the count an invite was minted with; NULL is an unlimited one.
Invite == [at : {"unminted", "open", "deleted"}, role : Roles, limited : BOOLEAN,
           uses : 0..MaxUses, of : 0..MaxUses]
Unminted == [at |-> "unminted", role |-> "none", limited |-> TRUE, uses |-> 0, of |-> 0]

\* A role of none asks for a removal.
Task == [at : {"rest", "allowed", "writing", "owed"}, user : Users, role : Roles,
         via : Invites \cup {NoInvite}]
AtRest == [at |-> "rest", user |-> Founder, role |-> "none", via |-> NoInvite]

Organizers == {u \in Users : members[u] = "organizer"}
EffectiveRole(u) == IF u \in Admins THEN "organizer" ELSE members[u]
Passes(role) == exists /\ \E u \in Users : Rank[EffectiveRole(u)] >= Rank[role]

StaffTypeOK ==
    /\ exists \in BOOLEAN
    /\ members \in [Users -> Roles]
    /\ invites \in [Invites -> Invite]
    /\ task \in [Handlers -> Task]
    /\ granted \in [Invites -> Nat]
    /\ crossed \in BOOLEAN
    /\ requests \in 0..MaxRequests

StaffInit ==
    /\ exists = TRUE
    /\ members = [u \in Users |-> IF u = Founder THEN "organizer" ELSE "none"]
    /\ invites = [i \in Invites |-> Unminted]
    /\ task = [h \in Handlers |-> AtRest]
    /\ granted = [i \in Invites |-> 0]
    /\ crossed = FALSE
    /\ requests = MaxRequests

Request == requests > 0 /\ requests' = requests - 1
Reply(h) == task' = [task EXCEPT ![h] = AtRest]

(***************************************************************************)
(* Adding, promoting, demoting and removing.                               *)
(***************************************************************************)
Writing(h, u) == task[h].at = "writing" /\ task[h].user = u
RowIsFree(u) == \A h \in Handlers : ~Writing(h, u)
Demotes(h) == members[task[h].user] = "organizer" /\ task[h].role # "organizer"

\* Mutant: the trigger counts as if the row had already changed.
TriggerMiscounts(h) == Demotes(h) /\ Cardinality(Organizers) < 1

\* The trigger, before the row changes.
TriggerRefuses(h) == Demotes(h) /\ Cardinality(Organizers) <= 1

\* RoomAccess<Organizer> lets the request through.
AllowMemberChange(h, u, role) ==
    /\ task[h].at = "rest"
    /\ Passes("organizer")
    /\ Request
    /\ task' = [task EXCEPT ![h] = [at |-> "allowed", user |-> u, role |-> role,
                                      via |-> NoInvite]]
    /\ UNCHANGED <<exists, members, invites, granted, crossed>>

\* set_role or remove: the statement has its row and is past the trigger.  A
\* row whose room is gone fails its foreign key.
Write(h) ==
    /\ task[h].at = "allowed"
    /\ exists
    /\ RowIsFree(task[h].user)
    /\ ~TriggerRefuses(h)
    /\ task' = [task EXCEPT ![h].at = "writing"]
    /\ crossed' = (crossed \/ /\ Demotes(h)
                              /\ \E g \in Handlers : task[g].at = "writing" /\ Demotes(g))
    /\ UNCHANGED <<exists, members, invites, granted, requests>>

RefuseWrite(h) ==
    /\ task[h].at = "allowed"
    /\ RowIsFree(task[h].user)
    /\ ~exists \/ TriggerRefuses(h)
    /\ Reply(h)
    /\ UNCHANGED <<exists, members, invites, granted, crossed, requests>>

Commit(h) ==
    /\ task[h].at = "writing"
    /\ members' = [members EXCEPT ![task[h].user] = task[h].role]
    /\ Reply(h)
    /\ UNCHANGED <<exists, invites, granted, crossed, requests>>

(***************************************************************************)
(* Invites.  Minting and revoking are one statement each, and a guard gone *)
(* stale before them shows in nothing the properties read.                 *)
(***************************************************************************)
CreateInvite(i, role, limited, uses) ==
    /\ invites[i].at = "unminted"
    /\ limited \/ uses = 0
    /\ Passes("organizer")
    /\ Request
    /\ invites' = [invites EXCEPT ![i] = [at |-> "open", role |-> role, limited |-> limited,
                                          uses |-> uses, of |-> uses]]
    /\ UNCHANGED <<exists, members, task, granted, crossed>>

RevokeInvite(i) ==
    /\ invites[i].at = "open"
    /\ Passes("organizer")
    /\ Request
    /\ invites' = [invites EXCEPT ![i].at = "deleted"]
    /\ UNCHANGED <<exists, members, task, granted, crossed>>

Usable(i) == invites[i].at = "open" /\ (invites[i].limited => invites[i].uses > 0)

\* Mutant: the use is counted once the membership is in.
SpendLater(i) == invites

Spend(i) == IF invites[i].limited THEN [invites EXCEPT ![i].uses = @ - 1] ELSE invites

\* Mutant: the invite's role replaces the one held.
UpsertExcluded(h) ==
    IF exists THEN [members EXCEPT ![task[h].user] = task[h].role] ELSE members

\* Mutant: the row is kept though its room is gone.
UpsertUnkeyed(h) == [members EXCEPT ![task[h].user] = Greatest(@, task[h].role)]

Upsert(h) ==
    IF exists THEN [members EXCEPT ![task[h].user] = Greatest(@, task[h].role)] ELSE members

\* redeem_invite, first the UPDATE that spends a use ...
Consume(h, i, u) ==
    /\ task[h].at = "rest"
    /\ Usable(i)
    /\ Request
    /\ invites' = Spend(i)
    /\ task' = [task EXCEPT ![h] = [at |-> "owed", user |-> u, role |-> invites[i].role,
                                      via |-> i]]
    /\ UNCHANGED <<exists, members, granted, crossed>>

\* ... then the upsert, which never lowers a role and fails without a room.
Grant(h) ==
    /\ task[h].at = "owed"
    /\ RowIsFree(task[h].user)
    /\ members' = Upsert(h)
    /\ granted' = IF exists THEN [granted EXCEPT ![task[h].via] = @ + 1] ELSE granted
    /\ Reply(h)
    /\ UNCHANGED <<exists, invites, crossed, requests>>

(***************************************************************************)
(* The orchestrator deletes the row once its request to delete is carried  *)
(* out; the cascade waits for row locks, and the trigger lets it by.       *)
(***************************************************************************)
DeleteRoom ==
    /\ exists
    /\ \A h \in Handlers : task[h].at # "writing"
    /\ exists' = FALSE
    /\ members' = [u \in Users |-> "none"]
    /\ invites' = [i \in Invites |-> IF invites[i].at = "open"
                                     THEN [invites[i] EXCEPT !.at = "deleted"] ELSE invites[i]]
    /\ UNCHANGED <<task, granted, crossed, requests>>

\* The web tier goes away: a statement under way is rolled back, and what was
\* to follow it never does.
HandlerDies(h) ==
    /\ task[h].at # "rest"
    /\ Reply(h)
    /\ UNCHANGED <<exists, members, invites, granted, crossed, requests>>

HandlerNext(h) ==
    \/ \E u \in Users, role \in Roles : AllowMemberChange(h, u, role)
    \/ Write(h)
    \/ RefuseWrite(h)
    \/ Commit(h)
    \/ \E i \in Invites, u \in Users : Consume(h, i, u)
    \/ Grant(h)
    \/ HandlerDies(h)

StaffNext ==
    \/ \E h \in Handlers : HandlerNext(h)
    \/ \E i \in Invites, role \in {"helper", "organizer"}, uses \in 0..MaxUses,
          limited \in BOOLEAN : CreateInvite(i, role, limited, uses)
    \/ \E i \in Invites : RevokeInvite(i)
    \/ DeleteRoom

StaffSpec == StaffInit /\ [][StaffNext]_staffVars

-----------------------------------------------------------------------------
(***************************************************************************)
(* Properties.                                                             *)
(***************************************************************************)

\* "A room must never be left with nobody who can administer it"
\* (up.sql:230): what the trigger is for.
RoomHasOrganizer == exists => Organizers # {}

\* What the trigger gives: a room keeps an organizer as long as no demotion
\* or removal of one organizer passes the trigger while that of another has
\* passed it and not committed.
OrganizerRemains == ~crossed => RoomHasOrganizer

\* However many people follow a link at once, and whatever is revoked, fails or
\* dies between spending a use and granting it, an invite grants no more
\* memberships than it was minted with.
Owing(i) == {h \in Handlers : task[h].at = "owed" /\ task[h].via = i}
InvitesNotOverspent ==
    \A i \in Invites : invites[i].limited =>
        granted[i] + Cardinality(Owing(i)) + invites[i].uses <= invites[i].of

\* A role goes down, or away, only by a statement that asks for exactly that:
\* redeeming a helper's link never demotes, though the role it meets may have
\* been raised since the link was followed.
OnlyStaffLowerARole ==
    [][\A u \in Users : Rank[members'[u]] < Rank[members[u]] =>
          \/ ~exists'
          \/ \E h \in Handlers : Writing(h, u) /\ members'[u] = task[h].role]_staffVars

\* A deleted room has no staff and no working link, though requests that were
\* allowed while it existed are still being served.
GoneRoomHasNobody ==
    ~exists => /\ \A u \in Users : members[u] = "none"
               /\ \A i \in Invites : ~Usable(i)
=============================================================================
