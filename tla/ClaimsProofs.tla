---------------------------- MODULE ClaimsProofs ---------------------------
(***************************************************************************)
(* A room's staff and slots, for any number of accounts, requests, invites *)
(* and slots: who may take a slot, who may lose one, and what an import    *)
(* counts.                                                                 *)
(*                                                                         *)
(* That an import's count is true is not inductive.  It follows from what  *)
(* is so after each of its statements: a planned slot it has not come to   *)
(* is free still or was taken by a rival since the plan was made, and what *)
(* it has planned is what it has claimed and what is left or taken.        *)
(***************************************************************************)
EXTENDS Claims, FiniteSetTheorems, TLAPS

(***************************************************************************)
(* The staff, whom no step on the slots changes: the types, an organizer   *)
(* as long as no two demotions cross, the bound on what an invite grants,  *)
(* and a deleted room empty.                                               *)
(*                                                                         *)
(* That the room keeps an organizer is not inductive: a statement past the *)
(* trigger must be known to leave another organizer behind, which rests on *)
(* there being no second one, and on its row being locked.                 *)
(***************************************************************************)
Demoting(h) == task[h].at = "writing" /\ Demotes(h)

RowsLocked ==
    /\ \A g, h \in Handlers :
          task[g].at = "writing" /\ task[h].at = "writing" /\ task[g].user = task[h].user => g = h
    /\ ~exists => \A h \in Handlers : task[h].at # "writing"

OneDemotion ==
    ~crossed => \A g, h \in Handlers : Demoting(g) /\ Demoting(h) => g = h

AnotherStays ==
    ~crossed /\ exists =>
        /\ Organizers # {}
        /\ \A h \in Handlers : Demoting(h) => \E u \in Organizers : u # task[h].user

\* What is owed is owed by an invite.
DebtsAreReal == \A h \in Handlers : task[h].at = "owed" => task[h].via \in Invites

FreshUnused ==
    \A i \in Invites : invites[i].at = "unminted" => granted[i] = 0 /\ Owing(i) = {}

StaffInv ==
    /\ StaffTypeOK /\ FreshUnused
    /\ RowsLocked /\ OneDemotion /\ AnotherStays /\ DebtsAreReal
    /\ InvitesNotOverspent /\ GoneRoomHasNobody

-----------------------------------------------------------------------------
LEMMA RolesRanked ==
    /\ \A r \in Roles : Rank[r] \in Nat
    /\ \A r, s \in Roles : Greatest(r, s) \in {r, s} /\ Rank[Greatest(r, s)] >= Rank[r]
    /\ \A r, s \in Roles : r = "organizer" => Greatest(r, s) = "organizer"
  BY DEF Roles, Rank, Greatest

\* The trigger lets a demotion by only if somebody else is an organizer too.
LEMMA TwoOrganizers ==
    ASSUME StaffTypeOK, NEW h \in Handlers, Demotes(h), ~TriggerRefuses(h)
    PROVE  \E u \in Organizers : u # task[h].user
<1>1. IsFiniteSet(Organizers) /\ Organizers \subseteq Users
  BY StaffAssumption, FS_Subset DEF Organizers
<1>2. Cardinality(Organizers) \in Nat
  BY <1>1, FS_CardinalityType
<1>3. ~(Cardinality(Organizers) <= 1)
  BY DEF TriggerRefuses
<1> SUFFICES ASSUME \A u \in Organizers : u = task[h].user
             PROVE  FALSE
  OBVIOUS
<1>4. Organizers = {} \/ Organizers = {task[h].user}
  OBVIOUS
<1>5. Cardinality(Organizers) = 0 \/ Cardinality(Organizers) = 1
  BY <1>4, FS_EmptySet, FS_Singleton
<1> QED
  BY <1>3, <1>5

\* How the debts of the invites move when one handler's task does.
LEMMA DebtsFinite ==
    ASSUME NEW i
    PROVE  IsFiniteSet(Owing(i)) /\ Cardinality(Owing(i)) \in Nat
  BY StaffAssumption, FS_Subset, FS_CardinalityType DEF Owing

LEMMA DebtTaken ==
    ASSUME StaffTypeOK, NEW h \in Handlers, NEW i \in Invites, task[h].at = "rest",
           NEW t, t.at = "owed", t.via = i, task' = [task EXCEPT ![h] = t]
    PROVE  /\ Cardinality(Owing(i)') = Cardinality(Owing(i)) + 1
           /\ \A k \in Invites : k # i => Owing(k)' = Owing(k)
<1>1. \A g \in Handlers : task'[g] = IF g = h THEN t ELSE task[g]
  BY DEF StaffTypeOK
<1>2. Owing(i)' = Owing(i) \cup {h} /\ h \notin Owing(i)
  BY <1>1 DEF Owing
<1>3. \A k \in Invites : k # i => Owing(k)' = Owing(k)
  BY <1>1 DEF Owing
<1>4. Cardinality(Owing(i) \cup {h}) = Cardinality(Owing(i)) + 1
  BY <1>2, DebtsFinite, FS_AddElement
<1> QED
  BY <1>2, <1>3, <1>4

LEMMA DebtEnded ==
    ASSUME StaffTypeOK, NEW h \in Handlers, NEW i \in Invites,
           task[h].at = "owed", task[h].via = i,
           NEW t, t.at = "rest", task' = [task EXCEPT ![h] = t]
    PROVE  /\ Cardinality(Owing(i)') = Cardinality(Owing(i)) - 1
           /\ \A k \in Invites : k # i => Owing(k)' = Owing(k)
<1>1. \A g \in Handlers : task'[g] = IF g = h THEN t ELSE task[g]
  BY DEF StaffTypeOK
<1>2. h \in Owing(i) /\ Owing(i)' = Owing(i) \ {h}
  BY <1>1 DEF Owing
<1>3. \A k \in Invites : k # i => Owing(k)' = Owing(k)
  BY <1>1 DEF Owing
<1>4. Cardinality(Owing(i) \ {h}) = Cardinality(Owing(i)) - 1
  BY <1>2, DebtsFinite, FS_RemoveElement
<1> QED
  BY <1>2, <1>3, <1>4

LEMMA DebtsKept ==
    ASSUME StaffTypeOK, NEW h \in Handlers, task[h].at # "owed",
           NEW t, t.at # "owed", task' = [task EXCEPT ![h] = t]
    PROVE  \A k \in Invites : Owing(k)' = Owing(k)
<1>1. \A g \in Handlers : task'[g] = IF g = h THEN t ELSE task[g]
  BY DEF StaffTypeOK
<1> QED
  BY <1>1 DEF Owing

-----------------------------------------------------------------------------
(***************************************************************************)
(* One handler's steps.                                                    *)
(***************************************************************************)
LEMMA TasksTyped ==
    ASSUME StaffTypeOK, NEW h \in Handlers
    PROVE  /\ task[h].at \in {"rest", "allowed", "writing", "owed"}
           /\ task[h].user \in Users /\ task[h].role \in Roles
           /\ task[h].via \in Invites \cup {NoInvite}
           /\ AtRest \in Task
  BY StaffAssumption DEF StaffTypeOK, Task, AtRest, Roles

\* A task that ends, or that is allowed, disturbs nothing that is about
\* statements under way.
LEMMA TaskMoves ==
    ASSUME StaffInv, NEW h \in Handlers, NEW t \in Task, t.at \in {"rest", "allowed", "owed"},
           task[h].at # "writing" \/ members' = members, t.at = "owed" => t.via \in Invites,
           task' = [task EXCEPT ![h] = t],
           exists' = exists, crossed' = crossed,
           \A u \in Users : members'[u] = members[u]
    PROVE  /\ task' \in [Handlers -> Task]
           /\ RowsLocked' /\ OneDemotion' /\ AnotherStays' /\ DebtsAreReal'
<1>1. \A g \in Handlers : task'[g] = IF g = h THEN t ELSE task[g]
  BY DEF StaffInv, StaffTypeOK
<1>2. task' \in [Handlers -> Task]
  BY DEF StaffInv, StaffTypeOK
<1>3. Organizers' = Organizers
  BY DEF Organizers
<1>4. \A g \in Handlers : Demoting(g)' => Demoting(g) /\ task'[g] = task[g]
  BY <1>1, TasksTyped DEF Demoting, Demotes, StaffInv
<1>5. RowsLocked'
  BY <1>1 DEF RowsLocked, StaffInv
<1>6. OneDemotion'
  BY <1>4 DEF OneDemotion, StaffInv
<1>7. AnotherStays'
  BY <1>3, <1>4 DEF AnotherStays, StaffInv
<1>8. DebtsAreReal'
  BY <1>1 DEF DebtsAreReal, StaffInv
<1> QED
  BY <1>2, <1>5, <1>6, <1>7, <1>8

LEMMA AllowKeeps ==
    ASSUME StaffInv, NEW h \in Handlers, NEW u \in Users, NEW role \in Roles,
           AllowMemberChange(h, u, role)
    PROVE  StaffInv'
<1> DEFINE t == [at |-> "allowed", user |-> u, role |-> role, via |-> NoInvite]
<1>1. t \in Task /\ t.at = "allowed" /\ task' = [task EXCEPT ![h] = t]
  BY DEF AllowMemberChange, Task
<1>2. task[h].at = "rest"
  BY DEF AllowMemberChange
<1> HIDE DEF t
<1>3. task' \in [Handlers -> Task] /\ RowsLocked' /\ OneDemotion' /\ AnotherStays' /\ DebtsAreReal'
  BY <1>1, TaskMoves DEF AllowMemberChange
<1>4. \A k \in Invites : Owing(k)' = Owing(k)
  BY <1>1, <1>2, DebtsKept DEF StaffInv
<1>5. InvitesNotOverspent'
  BY <1>4 DEF InvitesNotOverspent, StaffInv, AllowMemberChange
<1>6. GoneRoomHasNobody'
  BY DEF GoneRoomHasNobody, Usable, StaffInv, AllowMemberChange
<1>7. StaffTypeOK'
  BY <1>3, StaffAssumption DEF StaffTypeOK, StaffInv, AllowMemberChange, Request
<1>8. FreshUnused'
  BY <1>4 DEF FreshUnused, StaffInv, AllowMemberChange
<1> QED
  BY <1>3, <1>5, <1>6, <1>7, <1>8 DEF StaffInv

LEMMA EndKeeps ==
    ASSUME StaffInv, NEW h \in Handlers, RefuseWrite(h) \/ HandlerDies(h)
    PROVE  StaffInv'
<1>1. /\ task' = [task EXCEPT ![h] = AtRest] /\ AtRest.at = "rest" /\ AtRest \in Task
      /\ task[h].at # "rest"
      /\ UNCHANGED <<exists, members, invites, granted, crossed, requests>>
  BY TasksTyped DEF RefuseWrite, HandlerDies, Reply, AtRest, StaffInv
<1>2. task' \in [Handlers -> Task] /\ RowsLocked' /\ OneDemotion' /\ AnotherStays' /\ DebtsAreReal'
  BY <1>1, TaskMoves
<1>3. ASSUME NEW i \in Invites
      PROVE  Cardinality(Owing(i)') <= Cardinality(Owing(i)) /\ Cardinality(Owing(i)') \in Nat
  <2>1. CASE task[h].at = "owed" /\ task[h].via = i
    <3>1. Cardinality(Owing(i)') = Cardinality(Owing(i)) - 1
      BY <1>1, <2>1, DebtEnded DEF StaffInv
    <3>2. h \in Owing(i) /\ Owing(i) # {}
      BY <2>1 DEF Owing
    <3>3. Cardinality(Owing(i)) # 0
      BY <3>2, DebtsFinite, FS_EmptySet
    <3> QED
      BY <3>1, <3>3, DebtsFinite
  <2>2. CASE ~(task[h].at = "owed" /\ task[h].via = i)
    <3>1. \A g \in Handlers : task'[g] = IF g = h THEN AtRest ELSE task[g]
      BY <1>1 DEF StaffInv, StaffTypeOK
    <3>2. Owing(i)' = Owing(i)
      BY <1>1, <2>2, <3>1 DEF Owing
    <3> QED
      BY <3>2, DebtsFinite
  <2> QED
    BY <2>1, <2>2
<1>4. InvitesNotOverspent'
  <2> SUFFICES ASSUME NEW i \in Invites, invites[i].limited
               PROVE  granted[i] + Cardinality(Owing(i)') + invites[i].uses <= invites[i].of
    BY <1>1 DEF InvitesNotOverspent
  <2>1. granted[i] + Cardinality(Owing(i)) + invites[i].uses <= invites[i].of
    BY DEF InvitesNotOverspent, StaffInv
  <2>2. granted[i] \in Nat /\ invites[i].uses \in Nat /\ invites[i].of \in Nat
    BY StaffAssumption DEF StaffInv, StaffTypeOK, Invite
  <2> QED
    BY <1>3, <2>1, <2>2, DebtsFinite
<1>5. GoneRoomHasNobody'
  BY <1>1 DEF GoneRoomHasNobody, Usable, StaffInv
<1>6. StaffTypeOK'
  BY <1>1, <1>2 DEF StaffTypeOK, StaffInv
<1>7. \A i \in Invites : Owing(i) = {} => Owing(i)' = {}
  <2>1. \A g \in Handlers : task'[g].at = "owed" => task'[g] = task[g]
    BY <1>1 DEF StaffInv, StaffTypeOK
  <2> QED
    BY <2>1 DEF Owing
<1>8. FreshUnused'
  BY <1>1, <1>7 DEF FreshUnused, StaffInv
<1> QED
  BY <1>2, <1>4, <1>5, <1>6, <1>8 DEF StaffInv

LEMMA WriteKeeps ==
    ASSUME StaffInv, NEW h \in Handlers, Write(h)
    PROVE  StaffInv'
<1> DEFINE t == [task[h] EXCEPT !.at = "writing"]
<1>1. /\ t \in Task /\ t.at = "writing" /\ t.user = task[h].user /\ t.role = task[h].role
      /\ task' = [task EXCEPT ![h] = t]
  BY DEF Write, StaffInv, StaffTypeOK, Task
<1> HIDE DEF t
<1>2. \A g \in Handlers : task'[g] = IF g = h THEN t ELSE task[g]
  BY <1>1 DEF StaffInv, StaffTypeOK
<1>3. /\ task[h].at = "allowed" /\ exists /\ RowIsFree(task[h].user) /\ ~TriggerRefuses(h)
      /\ UNCHANGED <<exists, members, invites, granted, requests>>
  BY DEF Write
<1>4. RowsLocked'
  BY <1>1, <1>2, <1>3 DEF RowsLocked, RowIsFree, Writing, StaffInv
<1>5. \A g \in Handlers : g # h => Demoting(g)' = Demoting(g)
  BY <1>2, <1>3 DEF Demoting, Demotes
<1>6. Demoting(h)' = Demotes(h)
  BY <1>1, <1>2, <1>3 DEF Demoting, Demotes
<1>7. Organizers' = Organizers
  BY <1>3 DEF Organizers
<1>8. ~crossed' => ~crossed /\ (Demotes(h) => \A g \in Handlers : g # h => ~Demoting(g))
  BY DEF Write, Demoting
<1>9. OneDemotion'
  BY <1>5, <1>6, <1>8 DEF OneDemotion, StaffInv
<1>10. Demotes(h) => \E u \in Organizers : u # task[h].user
  BY <1>3, TwoOrganizers DEF StaffInv
<1>11. AnotherStays'
  <2> SUFFICES ASSUME ~crossed'
               PROVE  /\ Organizers # {}
                      /\ \A g \in Handlers : Demoting(g)' =>
                            \E u \in Organizers : u # task'[g].user
    BY <1>7 DEF AnotherStays
  <2>1. Organizers # {}
    BY <1>3, <1>8 DEF AnotherStays, StaffInv
  <2>2. ASSUME NEW g \in Handlers, Demoting(g)'
        PROVE  \E u \in Organizers : u # task'[g].user
    BY <1>1, <1>2, <1>3, <1>5, <1>6, <1>8, <1>10, <2>2 DEF AnotherStays, StaffInv
  <2> QED
    BY <2>1, <2>2
<1>12. DebtsAreReal'
  BY <1>1, <1>2 DEF DebtsAreReal, StaffInv
<1>13. \A k \in Invites : Owing(k)' = Owing(k)
  BY <1>1, <1>3, DebtsKept DEF StaffInv
<1>14. InvitesNotOverspent'
  BY <1>3, <1>13 DEF InvitesNotOverspent, StaffInv
<1>15. GoneRoomHasNobody'
  BY <1>3 DEF GoneRoomHasNobody, Usable, StaffInv
<1>16. crossed' \in BOOLEAN
  BY DEF Write
<1>17. StaffTypeOK'
  BY <1>1, <1>3, <1>16 DEF StaffTypeOK, StaffInv
<1>18. FreshUnused'
  BY <1>3, <1>13 DEF FreshUnused, StaffInv
<1> QED
  BY <1>4, <1>9, <1>11, <1>12, <1>14, <1>15, <1>17, <1>18 DEF StaffInv

LEMMA CommitKeeps ==
    ASSUME StaffInv, NEW h \in Handlers, Commit(h)
    PROVE  StaffInv'
<1> DEFINE a == task[h].user
<1>1. /\ task[h].at = "writing" /\ a \in Users /\ task[h].role \in Roles
      /\ AtRest.at = "rest" /\ AtRest \in Task
      /\ task' = [task EXCEPT ![h] = AtRest]
      /\ members' = [members EXCEPT ![a] = task[h].role]
      /\ UNCHANGED <<exists, invites, granted, crossed, requests>>
  BY TasksTyped DEF Commit, Reply, StaffInv, AtRest
<1>2. \A g \in Handlers : task'[g] = IF g = h THEN AtRest ELSE task[g]
  BY <1>1 DEF StaffInv, StaffTypeOK
<1>3. \A u \in Users : members'[u] = IF u = a THEN task[h].role ELSE members[u]
  BY <1>1 DEF StaffInv, StaffTypeOK
<1>4. exists
  BY <1>1 DEF RowsLocked, StaffInv
<1>5. \A g \in Handlers : g # h /\ task[g].at = "writing" => task[g].user # a
  BY <1>1 DEF RowsLocked, StaffInv
<1>6. \A g \in Handlers : Demoting(g)' => g # h /\ Demoting(g) /\ task'[g] = task[g]
  BY <1>1, <1>2, <1>3, <1>5, TasksTyped DEF Demoting, Demotes, StaffInv
<1>7. RowsLocked'
  BY <1>1, <1>2 DEF RowsLocked, StaffInv
<1>8. OneDemotion'
  BY <1>1, <1>6 DEF OneDemotion, StaffInv
<1>9. AnotherStays'
  <2> SUFFICES ASSUME ~crossed
               PROVE  /\ Organizers' # {}
                      /\ \A g \in Handlers : Demoting(g)' =>
                            \E u \in Organizers' : u # task'[g].user
    BY <1>1 DEF AnotherStays
  <2>1. CASE Demotes(h)
    <3>1. Demoting(h)
      BY <1>1, <2>1 DEF Demoting
    <3>2. PICK u \in Organizers : u # a
      BY <1>4, <3>1 DEF AnotherStays, StaffInv
    <3>3. u \in Organizers'
      BY <1>3, <3>2 DEF Organizers
    <3>4. \A g \in Handlers : ~Demoting(g)'
      BY <1>6, <3>1 DEF OneDemotion, StaffInv
    <3> QED
      BY <3>3, <3>4
  <2>2. CASE ~Demotes(h)
    <3>1. Organizers \subseteq Organizers'
      BY <1>1, <1>3, <2>2 DEF Organizers, Demotes
    <3> QED
      BY <1>4, <1>6, <3>1 DEF AnotherStays, StaffInv
  <2> QED
    BY <2>1, <2>2
<1>10. DebtsAreReal'
  BY <1>1, <1>2 DEF DebtsAreReal, StaffInv
<1>11. \A k \in Invites : Owing(k)' = Owing(k)
  BY <1>1, DebtsKept DEF StaffInv
<1>12. InvitesNotOverspent'
  BY <1>1, <1>11 DEF InvitesNotOverspent, StaffInv
<1>13. GoneRoomHasNobody'
  BY <1>1, <1>4 DEF GoneRoomHasNobody
<1>14. StaffTypeOK'
  BY <1>1 DEF StaffTypeOK, StaffInv
<1>15. FreshUnused'
  BY <1>1, <1>11 DEF FreshUnused, StaffInv
<1> QED
  BY <1>7, <1>8, <1>9, <1>10, <1>12, <1>13, <1>14, <1>15 DEF StaffInv

\* Minting and revoking leave the roster and the tasks alone.
LEMMA InviteSteps ==
    ASSUME StaffInv, UNCHANGED <<exists, members, task, granted, crossed>>,
           requests' \in 0..MaxRequests,
           invites' \in [Invites -> Invite],
           \A i \in Invites : Usable(i)' => exists,
           \A i \in Invites : invites'[i].at = "unminted" => invites[i].at = "unminted",
           InvitesNotOverspent'
    PROVE  StaffInv'
<1>1. Organizers' = Organizers /\ \A h \in Handlers : Demoting(h)' = Demoting(h)
  BY DEF Organizers, Demoting, Demotes
<1>2. RowsLocked' /\ OneDemotion' /\ AnotherStays' /\ DebtsAreReal'
  BY <1>1 DEF RowsLocked, OneDemotion, AnotherStays, DebtsAreReal, StaffInv
<1>3. GoneRoomHasNobody'
  BY DEF GoneRoomHasNobody, StaffInv
<1>4. StaffTypeOK'
  BY DEF StaffTypeOK, StaffInv
<1>5. FreshUnused'
  BY DEF FreshUnused, Owing, StaffInv
<1> QED
  BY <1>2, <1>3, <1>4, <1>5 DEF StaffInv

LEMMA RequestCounts ==
    ASSUME StaffInv, Request
    PROVE  requests' \in 0..MaxRequests
  BY StaffAssumption DEF Request, StaffInv, StaffTypeOK

LEMMA CreateKeeps ==
    ASSUME StaffInv, NEW i \in Invites, NEW role \in Roles, NEW limited \in BOOLEAN,
           NEW uses \in 0..MaxUses, CreateInvite(i, role, limited, uses)
    PROVE  StaffInv'
<1> DEFINE new == [at |-> "open", role |-> role, limited |-> limited,
                   uses |-> uses, of |-> uses]
<1>1. /\ new \in Invite /\ new.uses = uses /\ new.of = uses /\ new.at = "open"
      /\ invites' = [invites EXCEPT ![i] = new]
      /\ exists /\ UNCHANGED <<exists, members, task, granted, crossed>>
  BY DEF CreateInvite, Invite, Passes
<1> HIDE DEF new
<1>2. \A k \in Invites : invites'[k] = IF k = i THEN new ELSE invites[k]
  BY <1>1 DEF StaffInv, StaffTypeOK
<1>3. \A k \in Invites : Owing(k)' = Owing(k)
  BY <1>1 DEF Owing
<1>4. InvitesNotOverspent'
  <2> SUFFICES ASSUME NEW k \in Invites, invites'[k].limited
               PROVE  granted[k] + Cardinality(Owing(k)) + invites'[k].uses <= invites'[k].of
    BY <1>1, <1>3 DEF InvitesNotOverspent
  <2>1. CASE k = i
    <3>1. granted[i] = 0 /\ Owing(i) = {}
      BY DEF CreateInvite, FreshUnused, StaffInv
    <3> QED
      BY <1>1, <1>2, <2>1, <3>1, FS_EmptySet, StaffAssumption
  <2>2. CASE k # i
    BY <1>2, <2>2 DEF InvitesNotOverspent, StaffInv
  <2> QED
    BY <2>1, <2>2
<1>5. invites' \in [Invites -> Invite]
  BY <1>1 DEF StaffInv, StaffTypeOK
<1>6. requests' \in 0..MaxRequests
  BY RequestCounts DEF CreateInvite
<1> QED
  BY <1>1, <1>2, <1>4, <1>5, <1>6, InviteSteps

LEMMA RevokeKeeps ==
    ASSUME StaffInv, NEW i \in Invites, RevokeInvite(i)
    PROVE  StaffInv'
<1> DEFINE new == [invites[i] EXCEPT !.at = "deleted"]
<1>1. /\ new \in Invite /\ new.uses = invites[i].uses /\ new.of = invites[i].of
      /\ new.limited = invites[i].limited /\ new.at = "deleted"
      /\ invites' = [invites EXCEPT ![i] = new]
      /\ exists /\ UNCHANGED <<exists, members, task, granted, crossed>>
  BY DEF RevokeInvite, Invite, Passes, StaffInv, StaffTypeOK
<1> HIDE DEF new
<1>2. \A k \in Invites : invites'[k] = IF k = i THEN new ELSE invites[k]
  BY <1>1 DEF StaffInv, StaffTypeOK
<1>3. \A k \in Invites : Owing(k)' = Owing(k)
  BY <1>1 DEF Owing
<1>4. InvitesNotOverspent'
  BY <1>1, <1>2, <1>3 DEF InvitesNotOverspent, StaffInv
<1>5. invites' \in [Invites -> Invite]
  BY <1>1 DEF StaffInv, StaffTypeOK
<1>6. requests' \in 0..MaxRequests
  BY RequestCounts DEF RevokeInvite
<1> QED
  BY <1>1, <1>2, <1>4, <1>5, <1>6, InviteSteps

LEMMA ConsumeKeeps ==
    ASSUME StaffInv, NEW h \in Handlers, NEW i \in Invites, NEW u \in Users, Consume(h, i, u)
    PROVE  StaffInv'
<1> DEFINE t == [at |-> "owed", user |-> u, role |-> invites[i].role, via |-> i]
<1>1. /\ invites[i] \in Invite /\ invites[i].role \in Roles
      /\ invites[i].uses \in 0..MaxUses /\ invites[i].of \in 0..MaxUses
  BY DEF StaffInv, StaffTypeOK, Invite
<1>2. /\ t \in Task /\ t.at = "owed" /\ t.via = i /\ task' = [task EXCEPT ![h] = t]
      /\ task[h].at = "rest" /\ Usable(i)
      /\ invites' = Spend(i)
      /\ UNCHANGED <<exists, members, granted, crossed>>
  BY <1>1 DEF Consume, Task
<1> HIDE DEF t
<1>3. task' \in [Handlers -> Task] /\ RowsLocked' /\ OneDemotion' /\ AnotherStays' /\ DebtsAreReal'
  BY <1>2, TaskMoves
<1>4. /\ Cardinality(Owing(i)') = Cardinality(Owing(i)) + 1
      /\ \A k \in Invites : k # i => Owing(k)' = Owing(k)
  BY <1>2, DebtTaken DEF StaffInv
<1> DEFINE new == [invites[i] EXCEPT !.uses = @ - 1]
<1>5. invites[i].limited => new \in Invite /\ invites' = [invites EXCEPT ![i] = new]
  BY <1>1, <1>2, StaffAssumption DEF Usable, Spend, Invite
<1>6. new.of = invites[i].of /\ new.limited = invites[i].limited
      /\ new.uses = invites[i].uses - 1 /\ new.at = invites[i].at
  BY <1>1 DEF Invite
<1> HIDE DEF new
<1>7. ~invites[i].limited => invites' = invites
  BY <1>2 DEF Spend
<1>8. invites' \in [Invites -> Invite]
  BY <1>5, <1>7 DEF StaffInv, StaffTypeOK
<1>9. InvitesNotOverspent'
  <2> SUFFICES ASSUME NEW k \in Invites, invites'[k].limited
               PROVE  granted[k] + Cardinality(Owing(k)') + invites'[k].uses <= invites'[k].of
    BY <1>2 DEF InvitesNotOverspent
  <2>1. CASE k = i /\ invites[i].limited
    <3>1. invites'[i] = new
      BY <1>5, <2>1 DEF StaffInv, StaffTypeOK
    <3>2. granted[i] + Cardinality(Owing(i)) + invites[i].uses <= invites[i].of
      BY <2>1 DEF InvitesNotOverspent, StaffInv
    <3>3. granted[i] \in Nat /\ Cardinality(Owing(i)) \in Nat
      BY DebtsFinite DEF StaffInv, StaffTypeOK
    <3> QED
      BY <1>1, <1>4, <1>6, <2>1, <3>1, <3>2, <3>3, StaffAssumption
  <2>2. CASE k # i
    <3>1. invites'[k] = invites[k]
      BY <1>5, <1>7, <2>2 DEF StaffInv, StaffTypeOK
    <3> QED
      BY <1>4, <2>2, <3>1 DEF InvitesNotOverspent, StaffInv
  <2> QED
    BY <1>7, <2>1, <2>2
<1>10. GoneRoomHasNobody'
  <2>1. exists
    BY <1>2 DEF GoneRoomHasNobody, StaffInv
  <2> QED
    BY <1>2, <2>1 DEF GoneRoomHasNobody
<1>11. requests' \in 0..MaxRequests
  BY RequestCounts DEF Consume
<1>12. StaffTypeOK'
  BY <1>2, <1>3, <1>8, <1>11 DEF StaffTypeOK, StaffInv
<1>13. FreshUnused'
  <2> SUFFICES ASSUME NEW k \in Invites, invites'[k].at = "unminted"
               PROVE  granted[k] = 0 /\ Owing(k)' = {}
    BY <1>2 DEF FreshUnused
  <2>1. invites'[k].at = invites[k].at
    BY <1>5, <1>6, <1>7 DEF StaffInv, StaffTypeOK
  <2>2. k # i
    BY <1>2, <2>1 DEF Usable
  <2> QED
    BY <1>4, <2>1, <2>2 DEF FreshUnused, StaffInv
<1> QED
  BY <1>3, <1>9, <1>10, <1>12, <1>13 DEF StaffInv

LEMMA GrantKeeps ==
    ASSUME StaffInv, NEW h \in Handlers, Grant(h)
    PROVE  StaffInv'
<1>2. PICK i \in Invites : task[h].via = i
  BY DEF Grant, DebtsAreReal, StaffInv
<1> DEFINE a == task[h].user
           r == Greatest(members[a], task[h].role)
<1>1. /\ task[h].at = "owed" /\ RowIsFree(a) /\ a \in Users /\ task[h].role \in Roles
      /\ AtRest.at = "rest" /\ AtRest \in Task
      /\ task' = [task EXCEPT ![h] = AtRest]
      /\ members' = IF exists THEN [members EXCEPT ![a] = r] ELSE members
      /\ granted' = IF exists THEN [granted EXCEPT ![i] = @ + 1] ELSE granted
      /\ UNCHANGED <<exists, invites, crossed, requests>>
  BY <1>2, TasksTyped DEF Grant, Reply, Upsert, StaffInv, AtRest
<1>3. members[a] \in Roles
  BY <1>1 DEF StaffInv, StaffTypeOK
<1>4. r \in Roles /\ (members[a] = "organizer" => r = "organizer")
  BY <1>1, <1>3, RolesRanked
<1>5. \A g \in Handlers : task'[g] = IF g = h THEN AtRest ELSE task[g]
  BY <1>1 DEF StaffInv, StaffTypeOK
<1>6. \A g \in Handlers : task[g].at = "writing" => task[g].user # a
  BY <1>1 DEF RowIsFree, Writing
<1>7. h \in Owing(i)
  BY <1>1, <1>2 DEF Owing
<1>8. /\ Cardinality(Owing(i)') = Cardinality(Owing(i)) - 1
      /\ \A k \in Invites : k # i => Owing(k)' = Owing(k)
  BY <1>1, <1>2, DebtEnded DEF StaffInv
<1> HIDE DEF r, a
<1>9. members' \in [Users -> Roles] /\ \A u \in Users : u # a => members'[u] = members[u]
  BY <1>1, <1>4 DEF StaffInv, StaffTypeOK
<1>10. Organizers \subseteq Organizers'
  BY <1>1, <1>4, <1>9 DEF Organizers, StaffInv, StaffTypeOK
<1>11. \A g \in Handlers : Demoting(g)' => Demoting(g) /\ task'[g] = task[g]
  BY <1>1, <1>5, <1>6, <1>9, TasksTyped DEF Demoting, Demotes, StaffInv
<1>12. RowsLocked' /\ DebtsAreReal'
  BY <1>1, <1>5 DEF RowsLocked, DebtsAreReal, StaffInv
<1>13. OneDemotion'
  BY <1>1, <1>11 DEF OneDemotion, StaffInv
<1>14. AnotherStays'
  BY <1>1, <1>10, <1>11 DEF AnotherStays, StaffInv
<1>15. granted' \in [Invites -> Nat]
  BY <1>1, <1>2 DEF StaffInv, StaffTypeOK
<1>16. InvitesNotOverspent'
  <2> SUFFICES ASSUME NEW k \in Invites, invites[k].limited
               PROVE  granted'[k] + Cardinality(Owing(k)') + invites[k].uses <= invites[k].of
    BY <1>1 DEF InvitesNotOverspent
  <2>1. granted[k] + Cardinality(Owing(k)) + invites[k].uses <= invites[k].of
    BY DEF InvitesNotOverspent, StaffInv
  <2>2. /\ granted[k] \in Nat /\ Cardinality(Owing(k)) \in Nat
        /\ invites[k].uses \in Nat /\ invites[k].of \in Nat
    BY DebtsFinite, StaffAssumption DEF StaffInv, StaffTypeOK, Invite
  <2>3. CASE k = i
    <3>1. granted'[i] = granted[i] + 1 \/ granted'[i] = granted[i]
      BY <1>1, <1>2 DEF StaffInv, StaffTypeOK
    <3> QED
      BY <1>8, <2>1, <2>2, <2>3, <3>1
  <2>4. CASE k # i
    <3>1. granted'[k] = granted[k]
      BY <1>1, <2>4 DEF StaffInv, StaffTypeOK
    <3> QED
      BY <1>8, <2>1, <2>4, <3>1
  <2> QED
    BY <2>3, <2>4
<1>17. GoneRoomHasNobody'
  BY <1>1 DEF GoneRoomHasNobody, Usable, StaffInv
<1>18. FreshUnused'
  <2> SUFFICES ASSUME NEW k \in Invites, invites[k].at = "unminted"
               PROVE  granted'[k] = 0 /\ Owing(k)' = {}
    BY <1>1 DEF FreshUnused
  <2>1. k # i /\ granted[k] = 0 /\ Owing(k) = {}
    BY <1>7 DEF FreshUnused, StaffInv
  <2> QED
    BY <1>1, <1>8, <2>1 DEF StaffInv, StaffTypeOK
<1>19. StaffTypeOK'
  BY <1>1, <1>9, <1>15 DEF StaffTypeOK, StaffInv
<1> QED
  BY <1>12, <1>13, <1>14, <1>16, <1>17, <1>18, <1>19 DEF StaffInv

LEMMA DeleteKeeps ==
    ASSUME StaffInv, DeleteRoom
    PROVE  StaffInv'
<1>1. /\ \A h \in Handlers : task[h].at # "writing"
      /\ ~exists' /\ exists' \in BOOLEAN /\ members' = [u \in Users |-> "none"]
      /\ UNCHANGED <<task, granted, crossed, requests>>
  BY DEF DeleteRoom
<1>2. \A i \in Invites : /\ invites'[i] \in Invite
                         /\ invites'[i].at # "open"
                         /\ invites'[i].at = "unminted" => invites[i].at = "unminted"
                         /\ invites'[i].limited = invites[i].limited
                         /\ invites'[i].uses = invites[i].uses /\ invites'[i].of = invites[i].of
  BY DEF DeleteRoom, StaffInv, StaffTypeOK, Invite
<1>3. \A k \in Invites : Owing(k)' = Owing(k)
  BY <1>1 DEF Owing
<1>4. RowsLocked' /\ OneDemotion' /\ AnotherStays'
  BY <1>1 DEF RowsLocked, OneDemotion, AnotherStays, Demoting
<1>5. DebtsAreReal' /\ FreshUnused' /\ InvitesNotOverspent'
  BY <1>1, <1>2, <1>3 DEF DebtsAreReal, FreshUnused, InvitesNotOverspent, StaffInv
<1>6. GoneRoomHasNobody'
  BY <1>1, <1>2 DEF GoneRoomHasNobody, Usable
<1>7. invites' \in [Invites -> Invite] /\ members' \in [Users -> Roles]
  BY <1>1, <1>2 DEF DeleteRoom, Roles
<1>8. StaffTypeOK'
  BY <1>1, <1>7 DEF StaffTypeOK, StaffInv
<1> QED
  BY <1>4, <1>5, <1>6, <1>8 DEF StaffInv

-----------------------------------------------------------------------------
(***************************************************************************)
(* All the steps.                                                          *)
(***************************************************************************)
LEMMA StaffBegins ==
    ASSUME StaffInit
    PROVE  StaffInv
<1>1. StaffTypeOK
  <2>1. AtRest \in Task /\ Unminted \in Invite
    BY StaffAssumption DEF AtRest, Task, Unminted, Invite, Roles
  <2>2. task \in [Handlers -> Task] /\ invites \in [Invites -> Invite]
    BY <2>1 DEF StaffInit
  <2>3. members \in [Users -> Roles]
    BY DEF StaffInit, Roles
  <2>4. exists \in BOOLEAN /\ crossed \in BOOLEAN
    BY DEF StaffInit
  <2>5. granted \in [Invites -> Nat] /\ requests \in 0..MaxRequests
    BY StaffAssumption DEF StaffInit
  <2> QED
    BY <2>2, <2>3, <2>4, <2>5 DEF StaffTypeOK
<1>2. \A h \in Handlers : task[h].at = "rest"
  BY DEF StaffInit, AtRest
<1>3. \A i : Owing(i) = {}
  BY <1>2 DEF Owing
<1>4. \A i \in Invites : granted[i] = 0 /\ invites[i].uses = 0 /\ invites[i].of = 0
  BY DEF StaffInit, Unminted
<1>5. InvitesNotOverspent
  BY <1>3, <1>4, FS_EmptySet DEF InvitesNotOverspent
<1>6. FreshUnused
  BY <1>3, <1>4 DEF FreshUnused
<1>7. Founder \in Organizers
  BY StaffAssumption DEF StaffInit, Organizers
<1>8. RowsLocked /\ OneDemotion /\ AnotherStays /\ DebtsAreReal
  BY <1>2, <1>7 DEF RowsLocked, OneDemotion, AnotherStays, DebtsAreReal, Demoting
<1>9. GoneRoomHasNobody
  BY DEF GoneRoomHasNobody, StaffInit
<1> QED
  BY <1>1, <1>5, <1>6, <1>8, <1>9 DEF StaffInv

LEMMA StaffIdles ==
    ASSUME StaffInv, UNCHANGED <<exists, members, invites, task, granted, crossed>>,
           requests' \in 0..MaxRequests
    PROVE  StaffInv'
<1>1. \A i : Owing(i)' = Owing(i)
  BY DEF Owing
<1>2. InvitesNotOverspent'
  BY <1>1 DEF InvitesNotOverspent, StaffInv
<1>3. \A i \in Invites : Usable(i)' => exists
  BY DEF Usable, GoneRoomHasNobody, StaffInv
<1>4. invites' \in [Invites -> Invite]
  BY DEF StaffInv, StaffTypeOK
<1> QED
  BY <1>2, <1>3, <1>4, InviteSteps

LEMMA StaffKeeps ==
    ASSUME StaffInv, StaffNext
    PROVE  StaffInv'
<1>1. ASSUME NEW h \in Handlers, HandlerNext(h)
      PROVE  StaffInv'
  BY <1>1, AllowKeeps, WriteKeeps, EndKeeps, CommitKeeps, ConsumeKeeps, GrantKeeps
  DEF HandlerNext
<1>2. ASSUME NEW i \in Invites, NEW role \in {"helper", "organizer"}, NEW uses \in 0..MaxUses,
             NEW limited \in BOOLEAN, CreateInvite(i, role, limited, uses)
      PROVE  StaffInv'
  <2>1. role \in Roles
    BY DEF Roles
  <2> QED
    BY <1>2, <2>1, CreateKeeps
<1>3. ASSUME NEW i \in Invites, RevokeInvite(i)
      PROVE  StaffInv'
  BY <1>3, RevokeKeeps
<1>4. CASE DeleteRoom
  BY <1>4, DeleteKeeps
<1> QED
  BY <1>1, <1>2, <1>3, <1>4 DEF StaffNext

\* The action of OnlyStaffLowerARole.
LoweredByStaff ==
    \A u \in Users : Rank[members'[u]] < Rank[members[u]] =>
        \/ ~exists'
        \/ \E h \in Handlers : Writing(h, u) /\ members'[u] = task[h].role

LEMMA NothingLowered ==
    ASSUME StaffInv, UNCHANGED members
    PROVE  LoweredByStaff
<1>1. \A u \in Users : Rank[members[u]] \in Nat
  BY RolesRanked DEF StaffInv, StaffTypeOK
<1> QED
  BY <1>1 DEF LoweredByStaff

LEMMA StaffLower ==
    ASSUME StaffInv, StaffNext
    PROVE  LoweredByStaff
<1>1. ASSUME NEW h \in Handlers, Commit(h)
      PROVE  LoweredByStaff
  <2>1. \A u \in Users : members'[u] = IF u = task[h].user THEN task[h].role ELSE members[u]
    BY <1>1 DEF Commit, StaffInv, StaffTypeOK
  <2>2. task[h].at = "writing"
    BY <1>1 DEF Commit
  <2>3. \A u \in Users : Rank[members[u]] \in Nat
    BY RolesRanked DEF StaffInv, StaffTypeOK
  <2> QED
    BY <2>1, <2>2, <2>3 DEF LoweredByStaff, Writing
<1>2. ASSUME NEW h \in Handlers, Grant(h)
      PROVE  LoweredByStaff
  <2> SUFFICES ASSUME NEW u \in Users
               PROVE  Rank[members'[u]] >= Rank[members[u]]
                      /\ Rank[members'[u]] \in Nat /\ Rank[members[u]] \in Nat
    BY DEF LoweredByStaff
  <2>1. members[u] \in Roles /\ task[h].role \in Roles
    BY TasksTyped DEF StaffInv, StaffTypeOK
  <2>2. members'[u] = members[u] \/ members'[u] = Greatest(members[u], task[h].role)
    BY <1>2 DEF Grant, Upsert, StaffInv, StaffTypeOK
  <2>3. Greatest(members[u], task[h].role) \in Roles
    BY <2>1 DEF Greatest
  <2> QED
    BY <2>1, <2>2, <2>3, RolesRanked
<1>3. CASE DeleteRoom
  BY <1>3 DEF DeleteRoom, LoweredByStaff
<1>4. UNCHANGED members \/ DeleteRoom \/ \E h \in Handlers : Commit(h) \/ Grant(h)
  BY DEF StaffNext, HandlerNext, AllowMemberChange, Write, RefuseWrite, Consume, HandlerDies,
         CreateInvite, RevokeInvite
<1> QED
  BY <1>1, <1>2, <1>3, <1>4, NothingLowered

-----------------------------------------------------------------------------
(***************************************************************************)
(* The slots, and what each job still has to do with them.                 *)
(***************************************************************************)
SlotsInv ==
    /\ owner \in [Slots -> Holders]
    /\ link \in [Slots -> Nat]
    /\ minted \in Nat
    /\ \A s \in Slots : owner[s] = NoOne <=> link[s] # NoLink

JobMakesSense(j) ==
    /\ job[j].at \in {"open", "release", "look", "spare"} => job[j].todo # {}
    /\ job[j].at = "open" => job[j].user \in Users

ImportCounts(j) ==
    job[j].at = "claim" =>
        /\ job[j].claimed + Cardinality(job[j].todo) <= job[j].planned
        /\ \A s \in job[j].todo : job[j].names[s] # NoOne
        /\ exists =>
             /\ job[j].planned <= job[j].claimed + Cardinality(job[j].todo \cup rivals[j])
             /\ \A s \in job[j].todo : s \in rivals[j] \/ owner[s] = NoOne

ClaimsInv ==
    /\ ClaimsTypeOK
    /\ SlotsInv
    /\ \A j \in Jobs : JobMakesSense(j) /\ ImportCounts(j)
    /\ TakenFirstIsTrue

-----------------------------------------------------------------------------
(***************************************************************************)
(* The slots.                                                              *)
(***************************************************************************)
LEMMA BindKeeps ==
    ASSUME SlotsInv, NEW s \in Slots, NEW u \in Users, Bind(s, u), minted' = minted
    PROVE  SlotsInv'
  BY ClaimsAssumption DEF SlotsInv, Bind, Holders, NoLink

LEMMA ReleaseKeeps ==
    ASSUME SlotsInv, NEW s \in Slots, Release(s)
    PROVE  SlotsInv'
  BY DEF SlotsInv, Release, Holders, NoLink

LEMMA SetsOfSlots ==
    ASSUME NEW S \in SUBSET Slots
    PROVE  IsFiniteSet(S) /\ Cardinality(S) \in Nat
  BY ClaimsAssumption, FS_Subset, FS_CardinalityType

LEMMA JobsTyped ==
    ASSUME ClaimsTypeOK, NEW j \in Jobs
    PROVE  /\ job[j] \in Job /\ rivals[j] \in SUBSET Slots
           /\ job[j].todo \in SUBSET Slots /\ job[j].user \in Holders
           /\ job[j].names \in [Slots -> Holders]
           /\ job[j].planned \in Nat /\ job[j].claimed \in Nat /\ job[j].wanted \in BOOLEAN
  BY DEF ClaimsTypeOK, Job

LEMMA IdleIsAJob == Idle \in Job
  BY DEF Idle, Job, Nobody, Holders

LEMMA NextIsOne ==
    ASSUME ClaimsTypeOK, NEW j \in Jobs, job[j].todo # {}
    PROVE  /\ NextSlot(j) \in job[j].todo /\ NextSlot(j) \in Slots
           /\ Rest(j) \in SUBSET Slots /\ Rest(j) = job[j].todo \ {NextSlot(j)}
  BY JobsTyped DEF NextSlot, Rest

\* An import that stays where it is must only see its rivals remembered.
LEMMA ImportUndisturbed ==
    ASSUME ClaimsInv, exists' = exists, NEW k \in Jobs, job'[k] = job[k],
           rivals'[k] \in SUBSET Slots,
           job[k].at = "claim" =>
               /\ rivals[k] \subseteq rivals'[k]
               /\ \A s \in Slots : owner[s] = NoOne => owner'[s] = NoOne \/ s \in rivals'[k]
    PROVE  JobMakesSense(k)' /\ ImportCounts(k)'
<1>1. JobMakesSense(k) /\ ImportCounts(k)
  BY DEF ClaimsInv
<1>2. JobMakesSense(k)'
  BY <1>1 DEF JobMakesSense
<1>3. ImportCounts(k)'
  <2> SUFFICES ASSUME job[k].at = "claim", exists
               PROVE  /\ job[k].planned <= job[k].claimed
                            + Cardinality(job[k].todo \cup rivals'[k])
                      /\ \A s \in job[k].todo : s \in rivals'[k] \/ owner'[s] = NoOne
    BY <1>1 DEF ImportCounts
  <2>1. /\ job[k].planned <= job[k].claimed + Cardinality(job[k].todo \cup rivals[k])
        /\ \A s \in job[k].todo : s \in rivals[k] \/ owner[s] = NoOne
    BY <1>1 DEF ImportCounts
  <2>2. /\ job[k].todo \cup rivals[k] \in SUBSET (job[k].todo \cup rivals'[k])
        /\ job[k].todo \cup rivals'[k] \in SUBSET Slots
        /\ job[k].todo \cup rivals[k] \in SUBSET Slots
    BY JobsTyped DEF ClaimsInv
  <2>3. Cardinality(job[k].todo \cup rivals[k]) <= Cardinality(job[k].todo \cup rivals'[k])
    BY <2>2, SetsOfSlots, FS_Subset
  <2>4. \A s \in job[k].todo : s \in rivals'[k] \/ owner'[s] = NoOne
    BY <2>1, JobsTyped DEF ClaimsInv
  <2> QED
    BY <2>1, <2>2, <2>3, <2>4, SetsOfSlots, JobsTyped DEF ClaimsInv
<1> QED
  BY <1>2, <1>3

\* One job moves.
LEMMA JobMoves ==
    ASSUME ClaimsInv, exists' = exists, NEW j \in Jobs, NEW r \in Job,
           job' = [job EXCEPT ![j] = r], rivals' \in [Jobs -> SUBSET Slots], SlotsInv',
           openClaims' \in BOOLEAN, lobbyRoom' \in BOOLEAN,
           report' \in [takenFirst : Nat, rivals : SUBSET Slots], TakenFirstIsTrue',
           \A k \in Jobs : k # j /\ job[k].at = "claim" =>
               /\ rivals[k] \subseteq rivals'[k]
               /\ \A s \in Slots : owner[s] = NoOne => owner'[s] = NoOne \/ s \in rivals'[k],
           JobMakesSense(j)', ImportCounts(j)'
    PROVE  ClaimsInv'
<1>1. \A k \in Jobs : job'[k] = IF k = j THEN r ELSE job[k]
  BY DEF ClaimsInv, ClaimsTypeOK
<1>2. job' \in [Jobs -> Job]
  BY DEF ClaimsInv, ClaimsTypeOK
<1>3. ClaimsTypeOK'
  BY <1>2 DEF ClaimsTypeOK, SlotsInv
<1>4. ASSUME NEW k \in Jobs, k # j
      PROVE  JobMakesSense(k)' /\ ImportCounts(k)'
  <2>1. job'[k] = job[k] /\ (job[k].at = "claim" => rivals[k] \subseteq rivals'[k])
    BY <1>1, <1>4
  <2>2. rivals'[k] \in SUBSET Slots
    OBVIOUS
  <2> QED
    BY <1>4, <2>1, <2>2, ImportUndisturbed
<1> QED
  BY <1>3, <1>4 DEF ClaimsInv

\* A job that asks, or looks, and is not an import about to claim.
LEMMA JobAsks ==
    ASSUME ClaimsInv, exists' = exists, NEW j \in Jobs, NEW r \in Job, r.at # "claim",
           r.at \in {"open", "release", "look", "spare"} => r.todo # {},
           r.at = "open" => r.user \in Users,
           job' = [job EXCEPT ![j] = r], rivals' \in [Jobs -> SUBSET Slots],
           \A k \in Jobs : k # j => rivals'[k] = rivals[k],
           UNCHANGED <<owner, link, minted, openClaims, lobbyRoom, report>>
    PROVE  ClaimsInv'
<1>1. job'[j] = r
  BY DEF ClaimsInv, ClaimsTypeOK
<1>2. JobMakesSense(j)' /\ ImportCounts(j)'
  BY <1>1 DEF JobMakesSense, ImportCounts
<1>3. SlotsInv' /\ TakenFirstIsTrue'
  BY DEF SlotsInv, TakenFirstIsTrue, ClaimsInv
<1>4. /\ openClaims' \in BOOLEAN /\ lobbyRoom' \in BOOLEAN
      /\ report' \in [takenFirst : Nat, rivals : SUBSET Slots]
  BY DEF ClaimsInv, ClaimsTypeOK
<1> QED
  BY <1>2, <1>3, <1>4, JobMoves

-----------------------------------------------------------------------------
(***************************************************************************)
(* The steps.                                                              *)
(***************************************************************************)
LEMMA Taking ==
    ASSUME ClaimsInv, NEW s \in Slots, NEW u \in Users, NEW me, Bind(s, u), TakenBy(s, me)
    PROVE  /\ rivals' \in [Jobs -> SUBSET Slots]
           /\ \A k \in Jobs : rivals'[k] = IF k = me \/ job[k].at = "rest" THEN rivals[k]
                                           ELSE rivals[k] \cup {s}
           /\ \A t \in Slots : t # s => owner'[t] = owner[t]
<1>1. \A k \in Jobs : rivals'[k] = IF k = me \/ job[k].at = "rest" THEN rivals[k]
                                   ELSE rivals[k] \cup {s}
  BY DEF TakenBy
<1>2. \A k \in Jobs : rivals[k] \in SUBSET Slots
  BY JobsTyped DEF ClaimsInv
<1>3. rivals' \in [Jobs -> SUBSET Slots]
  <2>1. rivals' = [k \in Jobs |-> rivals'[k]]
    BY DEF TakenBy
  <2>2. \A k \in Jobs : rivals'[k] \in SUBSET Slots
    BY <1>1, <1>2
  <2> QED
    BY <2>1, <2>2
<1>4. \A t \in Slots : t # s => owner'[t] = owner[t]
  BY DEF Bind, ClaimsInv, SlotsInv
<1> QED
  BY <1>1, <1>3, <1>4

LEMMA ClaimByLinkKeeps ==
    ASSUME ClaimsInv, exists' = exists, NEW s \in Slots, NEW u \in Users, ClaimByLink(s, u)
    PROVE  ClaimsInv'
<1>1. /\ Bind(s, u) /\ TakenBy(s, NoOne)
      /\ UNCHANGED <<minted, openClaims, lobbyRoom, job, report>>
  BY DEF ClaimByLink
<1>2. SlotsInv'
  BY <1>1, BindKeeps DEF ClaimsInv
<1>3. ASSUME NEW k \in Jobs
      PROVE  JobMakesSense(k)' /\ ImportCounts(k)'
  <2>1. k # NoOne /\ job'[k] = job[k]
    BY <1>1, ClaimsAssumption
  <2>2. /\ rivals'[k] \in SUBSET Slots
        /\ job[k].at = "claim" => rivals'[k] = rivals[k] \cup {s}
        /\ \A t \in Slots : t # s => owner'[t] = owner[t]
    <3>1. rivals' \in [Jobs -> SUBSET Slots]
      BY <1>1, Taking
    <3>2. rivals'[k] = IF k = NoOne \/ job[k].at = "rest" THEN rivals[k] ELSE rivals[k] \cup {s}
      BY <1>1, Taking
    <3>3. \A t \in Slots : t # s => owner'[t] = owner[t]
      BY <1>1, Taking
    <3> QED
      BY <2>1, <3>1, <3>2, <3>3
  <2> QED
    BY <2>1, <2>2, ImportUndisturbed
<1>4. TakenFirstIsTrue'
  BY <1>1 DEF TakenFirstIsTrue, ClaimsInv
<1>5. ClaimsTypeOK'
  BY <1>1, <1>2, Taking DEF ClaimsTypeOK, SlotsInv, ClaimsInv
<1> QED
  BY <1>2, <1>3, <1>4, <1>5 DEF ClaimsInv

LEMMA Asking ==
    ASSUME ClaimsInv, exists' = exists, NEW j \in Jobs, NEW r \in Job, r.at # "claim",
           r.at \in {"open", "release", "look", "spare"} => r.todo # {},
           r.at = "open" => r.user \in Users, Start(j, r),
           UNCHANGED <<owner, link, minted, openClaims, lobbyRoom, report>>
    PROVE  ClaimsInv'
<1>1. job' = [job EXCEPT ![j] = r] /\ rivals' = [rivals EXCEPT ![j] = {}]
  BY DEF Start
<1>2. /\ rivals' \in [Jobs -> SUBSET Slots]
      /\ \A k \in Jobs : k # j => rivals'[k] = rivals[k]
  BY <1>1 DEF ClaimsInv, ClaimsTypeOK
<1> QED
  BY <1>1, <1>2, JobAsks

LEMMA AskKeeps ==
    ASSUME ClaimsInv, NEW j \in Jobs, exists' = exists, AskNext(j)
    PROVE  ClaimsInv'
<1>1. ASSUME NEW s \in Slots, NEW u \in Users,
             AskOpenClaim(j, s, u)
      PROVE  ClaimsInv'
  <2> DEFINE r == [Idle EXCEPT !.at = "open", !.todo = {s}, !.user = u]
  <2>1. r \in Job /\ r.at = "open" /\ r.todo = {s} /\ r.user = u
    BY <1>1 DEF Idle, Job, Nobody, Holders
  <2>2. /\ Start(j, r)
        /\ UNCHANGED <<owner, link, minted, openClaims, lobbyRoom, report>>
    BY <1>1 DEF AskOpenClaim
  <2> HIDE DEF r
  <2> QED
    BY <2>1, <2>2, Asking
<1>2. ASSUME NEW s \in Slots,
             AskRelease(j, s)
      PROVE  ClaimsInv'
  <2> DEFINE r == [Idle EXCEPT !.at = "release", !.todo = {s}]
  <2>1. r \in Job /\ r.at = "release" /\ r.todo = {s}
    BY <1>2 DEF Idle, Job, Nobody, Holders
  <2>2. /\ Start(j, r)
        /\ UNCHANGED <<owner, link, minted, openClaims, lobbyRoom, report>>
    BY <1>2 DEF AskRelease
  <2> HIDE DEF r
  <2> QED
    BY <2>1, <2>2, Asking
<1>3. ASSUME NEW S \in (SUBSET Slots) \ {{}},
             AskBulkRelease(j, S)
      PROVE  ClaimsInv'
  <2> DEFINE r == [Idle EXCEPT !.at = "look", !.todo = S]
  <2>1. r \in Job /\ r.at = "look" /\ r.todo = S
    BY <1>3, S \in SUBSET Slots DEF Idle, Job, Nobody, Holders
  <2>2. /\ Start(j, r)
        /\ UNCHANGED <<owner, link, minted, openClaims, lobbyRoom, report>>
    BY <1>3 DEF AskBulkRelease
  <2> HIDE DEF r
  <2> QED
    BY <2>1, <2>2, Asking
<1>4. ASSUME NEW wanted \in BOOLEAN,
             AskOptions(j, wanted)
      PROVE  ClaimsInv'
  <2> DEFINE r == [Idle EXCEPT !.at = "options", !.wanted = wanted]
  <2>1. r \in Job /\ r.at = "options"
    BY <1>4 DEF Idle, Job, Nobody, Holders
  <2>2. /\ Start(j, r)
        /\ UNCHANGED <<owner, link, minted, openClaims, lobbyRoom, report>>
    BY <1>4 DEF AskOptions
  <2> HIDE DEF r
  <2> QED
    BY <2>1, <2>2, Asking
<1>5. ASSUME NEW u \in Users,
             AskImport(j, u)
      PROVE  ClaimsInv'
  <2> DEFINE r == [Idle EXCEPT !.at = "fetch", !.user = u]
  <2>1. r \in Job /\ r.at = "fetch"
    BY <1>5 DEF Idle, Job, Nobody, Holders
  <2>2. /\ Start(j, r)
        /\ UNCHANGED <<owner, link, minted, openClaims, lobbyRoom, report>>
    BY <1>5 DEF AskImport
  <2> HIDE DEF r
  <2> QED
    BY <2>1, <2>2, Asking
<1> QED
  BY <1>1, <1>2, <1>3, <1>4, <1>5 DEF AskNext

\* The import plans for the free slots it has a name for ...
LEMMA ReadRosterKeeps ==
    ASSUME ClaimsInv, NEW j \in Jobs, exists' = exists, ReadRoster(j)
    PROVE  ClaimsInv'
<1>1. PICK plan \in SUBSET Slots :
         /\ \A s \in plan : owner[s] = NoOne /\ job[j].names[s] # NoOne
         /\ job' = [job EXCEPT ![j] = [job[j] EXCEPT !.at = "claim", !.todo = plan,
                                                    !.planned = Cardinality(plan), !.claimed = 0]]
  <2> DEFINE plan == IF exists THEN Claimable(j) ELSE {}
  <2>1. plan \in SUBSET Slots /\ \A s \in plan : owner[s] = NoOne /\ job[j].names[s] # NoOne
    BY DEF Claimable
  <2>2. job' = [job EXCEPT ![j] = [job[j] EXCEPT !.at = "claim", !.todo = plan,
                                                    !.planned = Cardinality(plan), !.claimed = 0]]
    BY DEF ReadRoster, Becomes
  <2> HIDE DEF plan
  <2> QED
    BY <2>1, <2>2
<1> DEFINE r == [job[j] EXCEPT !.at = "claim", !.todo = plan,
                              !.planned = Cardinality(plan), !.claimed = 0]
<1>2. rivals' = [rivals EXCEPT ![j] = {}] 
      /\ UNCHANGED <<owner, link, minted, openClaims, lobbyRoom, report>>
  BY DEF ReadRoster
<1>3. /\ r \in Job /\ r.at = "claim" /\ r.todo = plan /\ r.planned = Cardinality(plan)
      /\ r.claimed = 0 /\ r.names = job[j].names
  BY SetsOfSlots, JobsTyped DEF Job, ClaimsInv
<1>4. job' = [job EXCEPT ![j] = r]
  BY <1>1
<1> HIDE DEF r
<1>5. /\ rivals' \in [Jobs -> SUBSET Slots] /\ rivals'[j] = {}
      /\ \A k \in Jobs : k # j => rivals'[k] = rivals[k]
      /\ job'[j] = r
  BY <1>2, <1>4 DEF ClaimsInv, ClaimsTypeOK
<1>6. JobMakesSense(j)'
  BY <1>3, <1>5 DEF JobMakesSense
<1>7. plan \cup {} = plan /\ Cardinality(plan) \in Nat
  BY SetsOfSlots
<1>8. ImportCounts(j)'
  BY <1>1, <1>2, <1>3, <1>5, <1>7 DEF ImportCounts
<1>9. SlotsInv' /\ TakenFirstIsTrue'
  BY <1>2 DEF SlotsInv, TakenFirstIsTrue, ClaimsInv
<1>10. /\ openClaims' \in BOOLEAN /\ lobbyRoom' \in BOOLEAN
       /\ report' \in [takenFirst : Nat, rivals : SUBSET Slots]
  BY <1>2 DEF ClaimsInv, ClaimsTypeOK
<1> QED
  BY <1>2, <1>3, <1>4, <1>5, <1>6, <1>8, <1>9, <1>10, JobMoves

\* ... claims them one by one ...
LEMMA ClaimForOwnerKeeps ==
    ASSUME ClaimsInv, NEW j \in Jobs, exists' = exists, ClaimForOwner(j)
    PROVE  ClaimsInv'
<1>1. job[j].at = "claim" /\ job[j].todo # {} /\ UNCHANGED <<minted, openClaims, lobbyRoom, report>>
  BY DEF ClaimForOwner
<1>2. PICK s \in job[j].todo : s = NextSlot(j) /\ s \in Slots /\ Rest(j) = job[j].todo \ {s}
  BY <1>1, NextIsOne DEF ClaimsInv
<1>3. /\ job[j] \in Job /\ job[j].todo \in SUBSET Slots /\ rivals[j] \in SUBSET Slots
      /\ job[j].names \in [Slots -> Holders] /\ rivals \in [Jobs -> SUBSET Slots]
      /\ job[j].claimed \in Nat /\ job[j].planned \in Nat
  BY JobsTyped DEF ClaimsInv, ClaimsTypeOK
<1>4. /\ job[j].claimed + Cardinality(job[j].todo) <= job[j].planned
      /\ \A t \in job[j].todo : job[j].names[t] # NoOne
      /\ exists =>
           /\ job[j].planned <= job[j].claimed + Cardinality(job[j].todo \cup rivals[j])
           /\ \A t \in job[j].todo : t \in rivals[j] \/ owner[t] = NoOne
  BY <1>1 DEF ClaimsInv, ImportCounts
<1> DEFINE left == job[j].todo \ {s}
<1>5. /\ left \in SUBSET Slots /\ left \in SUBSET job[j].todo
      /\ Cardinality(left) = Cardinality(job[j].todo) - 1
      /\ Cardinality(left) \in Nat /\ Cardinality(job[j].todo) \in Nat
  BY <1>2, <1>3, SetsOfSlots, FS_RemoveElement
<1>6. /\ openClaims' \in BOOLEAN /\ lobbyRoom' \in BOOLEAN
      /\ report' \in [takenFirst : Nat, rivals : SUBSET Slots] /\ TakenFirstIsTrue'
  BY <1>1 DEF ClaimsInv, ClaimsTypeOK, TakenFirstIsTrue
<1>7. job[j].names[s] \in Users
  BY <1>2, <1>3, <1>4 DEF Holders
<1>p. left = job[j].todo \ {s}
  OBVIOUS
<1> HIDE DEF left
<1> DEFINE lost == [job[j] EXCEPT !.todo = left]
           won == [lost EXCEPT !.claimed = job[j].claimed + 1]
<1>8. /\ lost \in Job /\ lost.at = "claim" /\ lost.todo = left
      /\ lost.names = job[j].names /\ lost.planned = job[j].planned /\ lost.claimed = job[j].claimed
  BY <1>1, <1>3, <1>5 DEF Job
<1>9. /\ won \in Job /\ won.at = "claim" /\ won.todo = left
      /\ won.names = job[j].names /\ won.planned = job[j].planned /\ won.claimed = job[j].claimed + 1
  <2>1. job[j].claimed + 1 \in Nat
    BY <1>3
  <2> HIDE DEF lost
  <2> QED
    BY <1>8, <2>1 DEF Job
<1>10. IF StillFree(s)
       THEN Bind(s, job[j].names[s]) /\ TakenBy(s, j) /\ job' = [job EXCEPT ![j] = won]
       ELSE job' = [job EXCEPT ![j] = lost] /\ UNCHANGED <<owner, link, rivals>>
  <2>1. [lost EXCEPT !.claimed = @ + 1] = won
    BY <1>8
  <2> QED
    BY <1>2, <1>p, <2>1 DEF ClaimForOwner, Becomes
<1> HIDE DEF won, lost
<1>11. CASE StillFree(s)
  <2>1. SlotsInv'
    BY <1>1, <1>2, <1>7, <1>10, <1>11, BindKeeps DEF ClaimsInv
  <2>2. /\ rivals' \in [Jobs -> SUBSET Slots]
        /\ \A k \in Jobs : rivals'[k] = IF k = j \/ job[k].at = "rest" THEN rivals[k]
                                          ELSE rivals[k] \cup {s}
        /\ \A t \in Slots : t # s => owner'[t] = owner[t]
    BY <1>2, <1>7, <1>10, <1>11, Taking
  <2>3. job'[j] = won /\ rivals'[j] = rivals[j]
    BY <1>10, <1>11, <2>2 DEF ClaimsInv, ClaimsTypeOK
  <2>4. \A k \in Jobs : k # j /\ job[k].at = "claim" =>
            /\ rivals[k] \subseteq rivals'[k]
            /\ \A t \in Slots : owner[t] = NoOne => owner'[t] = NoOne \/ t \in rivals'[k]
    BY <2>2
  <2>5. JobMakesSense(j)'
    BY <1>9, <2>3 DEF JobMakesSense
  <2>6. job[j].planned <= job[j].claimed + 1 + Cardinality(left \cup rivals[j])
    <3> DEFINE L == left \cup rivals[j]
    <3>1. /\ job[j].todo \cup rivals[j] \in SUBSET (L \cup {s})
          /\ L \in SUBSET Slots /\ L \cup {s} \in SUBSET Slots
          /\ job[j].todo \cup rivals[j] \in SUBSET Slots
      BY <1>2, <1>3, <1>5, <1>p
    <3> HIDE DEF L
    <3>2. Cardinality(L) \in Nat /\ Cardinality(L \cup {s}) <= Cardinality(L) + 1
      BY <3>1, SetsOfSlots, FS_AddElement
    <3>3. /\ Cardinality(job[j].todo \cup rivals[j]) <= Cardinality(L \cup {s})
          /\ Cardinality(job[j].todo \cup rivals[j]) \in Nat /\ Cardinality(L \cup {s}) \in Nat
      BY <3>1, SetsOfSlots, FS_Subset
    <3>4. job[j].planned <= job[j].claimed + Cardinality(job[j].todo \cup rivals[j])
      BY <1>4, <1>11 DEF StillFree
    <3>5. job[j].planned <= job[j].claimed + 1 + Cardinality(L)
      BY <1>3, <3>2, <3>3, <3>4
    <3> QED
      BY <3>5 DEF L
  <2>7. ImportCounts(j)'
    <3>1. \A t \in left : t \in rivals[j] \/ owner'[t] = NoOne
      BY <1>4, <1>3, <1>5, <1>11, <1>p, <2>2 DEF StillFree
    <3>2. job[j].claimed + 1 + Cardinality(left) <= job[j].planned
      BY <1>3, <1>4, <1>5
    <3>3. \A t \in left : job[j].names[t] # NoOne
      BY <1>4, <1>5
    <3> SUFFICES /\ won.claimed + Cardinality(won.todo) <= won.planned
                 /\ \A t \in won.todo : won.names[t] # NoOne
                 /\ won.planned <= won.claimed + Cardinality(won.todo \cup rivals[j])
                 /\ \A t \in won.todo : t \in rivals[j] \/ owner'[t] = NoOne
      BY <2>3 DEF ImportCounts
    <3> QED
      BY <1>9, <2>6, <3>1, <3>2, <3>3
  <2> QED
    BY <1>6, <1>9, <1>10, <1>11, <2>1, <2>2, <2>4, <2>5, <2>7, JobMoves
<1>12. CASE ~StillFree(s)
  <2>1. job' = [job EXCEPT ![j] = lost] /\ UNCHANGED <<owner, link, rivals>> /\ job'[j] = lost
    BY <1>10, <1>12 DEF ClaimsInv, ClaimsTypeOK
  <2>2. SlotsInv'
    BY <1>1, <2>1 DEF SlotsInv, ClaimsInv
  <2>3. exists => s \in rivals[j]
    BY <1>2, <1>4, <1>12 DEF StillFree
  <2>4. exists => left \cup rivals[j] = job[j].todo \cup rivals[j]
    BY <1>2, <1>p, <2>3
  <2>5. JobMakesSense(j)'
    BY <1>8, <2>1 DEF JobMakesSense
  <2>6. ImportCounts(j)'
    <3>1. job[j].claimed + Cardinality(left) <= job[j].planned
      BY <1>3, <1>4, <1>5
    <3>2. \A t \in left : job[j].names[t] # NoOne
      BY <1>4, <1>5
    <3>3. exists => /\ job[j].planned <= job[j].claimed + Cardinality(left \cup rivals[j])
                    /\ \A t \in left : t \in rivals[j] \/ owner[t] = NoOne
      BY <1>4, <1>5, <2>4
    <3> SUFFICES /\ lost.claimed + Cardinality(lost.todo) <= lost.planned
                 /\ \A t \in lost.todo : lost.names[t] # NoOne
                 /\ exists => /\ lost.planned <= lost.claimed + Cardinality(lost.todo \cup rivals[j])
                              /\ \A t \in lost.todo : t \in rivals[j] \/ owner[t] = NoOne
      BY <2>1 DEF ImportCounts
    <3> QED
      BY <1>8, <3>1, <3>2, <3>3
  <2> QED
    BY <1>3, <1>6, <1>8, <2>1, <2>2, <2>5, <2>6, JobMoves
<1> QED
  BY <1>11, <1>12

\* ... and reports what was left of its plan.
LEMMA FinishImportKeeps ==
    ASSUME ClaimsInv, NEW j \in Jobs, exists' = exists, FinishImport(j)
    PROVE  ClaimsInv'
<1>1. /\ job[j].at = "claim" /\ job[j].todo = {} /\ lobbyRoom' = (lobbyRoom \/ exists)
      /\ report' = IF exists THEN [takenFirst |-> job[j].planned - job[j].claimed,
                                   rivals |-> rivals[j]]
                   ELSE report
      /\ job' = [job EXCEPT ![j] = Idle] /\ rivals' = rivals
      /\ UNCHANGED <<owner, link, minted, openClaims>>
  BY DEF FinishImport, Ends, Becomes, NobodyTakes
<1>2. /\ rivals \in [Jobs -> SUBSET Slots] /\ rivals[j] \in SUBSET Slots
      /\ job[j].claimed \in Nat /\ job[j].planned \in Nat
      /\ Idle \in Job /\ Idle.at = "rest"
  BY JobsTyped, IdleIsAJob DEF ClaimsInv, ClaimsTypeOK, Idle
<1>3. /\ job[j].todo \cup rivals[j] = rivals[j] /\ Cardinality(rivals[j]) \in Nat
      /\ Cardinality(job[j].todo) = 0
  BY <1>1, <1>2, FS_EmptySet, SetsOfSlots
<1>4. /\ job[j].claimed <= job[j].planned
      /\ exists => job[j].planned <= job[j].claimed + Cardinality(rivals[j])
  <2>1. /\ job[j].claimed + Cardinality(job[j].todo) <= job[j].planned
        /\ exists => job[j].planned <= job[j].claimed + Cardinality(job[j].todo \cup rivals[j])
    BY <1>1 DEF ClaimsInv, ImportCounts
  <2>2. job[j].claimed <= job[j].planned
    BY <1>2, <1>3, <2>1
  <2>3. exists => job[j].planned <= job[j].claimed + Cardinality(rivals[j])
    BY <1>3, <2>1
  <2> QED
    BY <2>2, <2>3
<1>5. report' \in [takenFirst : Nat, rivals : SUBSET Slots] /\ TakenFirstIsTrue'
  BY <1>1, <1>2, <1>3, <1>4 DEF ClaimsInv, ClaimsTypeOK, TakenFirstIsTrue
<1>6. openClaims' \in BOOLEAN /\ lobbyRoom' \in BOOLEAN
  BY <1>1 DEF ClaimsInv, ClaimsTypeOK
<1>7. job'[j] = Idle
  BY <1>1 DEF ClaimsInv, ClaimsTypeOK
<1>8. JobMakesSense(j)' /\ ImportCounts(j)' /\ SlotsInv'
  BY <1>1, <1>2, <1>7 DEF JobMakesSense, ImportCounts, SlotsInv, ClaimsInv
<1> QED
  BY <1>1, <1>2, <1>5, <1>6, <1>8, JobMoves

\* A claim or an import that goes on with what it has read of its slots.
LEMMA StepOfJob ==
    ASSUME ClaimsInv, NEW j \in Jobs, exists' = exists, JobNext(j)
    PROVE  ClaimsInv'
<1> DEFINE s == NextSlot(j)
<1>t. /\ job[j] \in Job /\ job[j].todo \in SUBSET Slots /\ job[j].user \in Holders
      /\ job[j].names \in [Slots -> Holders] /\ rivals[j] \in SUBSET Slots
      /\ job[j].planned \in Nat /\ job[j].claimed \in Nat /\ job[j].wanted \in BOOLEAN
      /\ rivals \in [Jobs -> SUBSET Slots]
      /\ Idle \in Job /\ Idle.at = "rest"
  BY JobsTyped, IdleIsAJob DEF ClaimsInv, ClaimsTypeOK, Idle
<1>s. SlotsInv /\ JobMakesSense(j) /\ ImportCounts(j) /\ TakenFirstIsTrue
  BY DEF ClaimsInv
<1>n. job[j].todo # {} => s \in job[j].todo /\ s \in Slots
  BY NextIsOne DEF ClaimsInv
<1>r. /\ openClaims \in BOOLEAN /\ lobbyRoom \in BOOLEAN
      /\ report \in [takenFirst : Nat, rivals : SUBSET Slots]
  BY DEF ClaimsInv, ClaimsTypeOK
<1>k. UNCHANGED report => TakenFirstIsTrue'
  BY <1>s DEF TakenFirstIsTrue
<1>o. UNCHANGED <<owner, link, minted>> => SlotsInv'
  BY <1>s DEF SlotsInv
<1>i. \A r : job' = [job EXCEPT ![j] = r] => job'[j] = r
  BY DEF ClaimsInv, ClaimsTypeOK
<1> HIDE DEF s
<1>1. ASSUME ClaimOpen(j)
      PROVE  ClaimsInv'
  <2>1. job[j].at = "open" /\ s \in Slots /\ job[j].user \in Users
    BY <1>1, <1>s, <1>n DEF ClaimOpen, JobMakesSense
  <2>2. /\ job' = [job EXCEPT ![j] = Idle]
        /\ UNCHANGED <<minted, openClaims, lobbyRoom, report>>
        /\ \/ Bind(s, job[j].user) /\ TakenBy(s, j)
           \/ UNCHANGED <<owner, link, rivals>>
    BY <1>1 DEF ClaimOpen, Ends, Becomes, s
  <2>3. JobMakesSense(j)' /\ ImportCounts(j)'
    BY <1>i, <1>t, <2>2 DEF JobMakesSense, ImportCounts
  <2>4. CASE Bind(s, job[j].user) /\ TakenBy(s, j)
    <3>1. SlotsInv'
      BY <1>s, <2>1, <2>2, <2>4, BindKeeps
    <3>2. /\ rivals' \in [Jobs -> SUBSET Slots]
          /\ \A k \in Jobs : rivals'[k] = IF k = j \/ job[k].at = "rest" THEN rivals[k]
                                          ELSE rivals[k] \cup {s}
          /\ \A t \in Slots : t # s => owner'[t] = owner[t]
      BY <2>1, <2>4, Taking
    <3>3. \A k \in Jobs : k # j /\ job[k].at = "claim" =>
              /\ rivals[k] \subseteq rivals'[k]
              /\ \A t \in Slots : owner[t] = NoOne => owner'[t] = NoOne \/ t \in rivals'[k]
      BY <3>2
    <3> QED
      BY <1>t, <1>r, <1>k, <2>2, <2>3, <3>1, <3>2, <3>3, JobMoves
  <2>5. CASE UNCHANGED <<owner, link, rivals>>
    BY <1>t, <2>2, <2>5, JobAsks
  <2> QED
    BY <2>2, <2>4, <2>5
<1>2. ASSUME NEW r \in Job, r.at \notin {"open", "claim"}, r.at \in {"release", "look", "spare"} => r.todo # {},
             job' = [job EXCEPT ![j] = r], rivals' = rivals, job[j].todo # {}, Release(s),
             UNCHANGED <<openClaims, lobbyRoom, report>>
      PROVE  ClaimsInv'
  <2>1. SlotsInv'
    BY <1>2, <1>s, <1>n, ReleaseKeeps
  <2>2. \A t \in Slots : owner[t] = NoOne => owner'[t] = NoOne
    BY <1>2, <1>n, <1>s DEF Release, SlotsInv
  <2>3. JobMakesSense(j)' /\ ImportCounts(j)'
    BY <1>i, <1>2 DEF JobMakesSense, ImportCounts
  <2> QED
    BY <1>t, <1>r, <1>k, <1>2, <2>1, <2>2, <2>3, JobMoves
<1>3. ASSUME ReleaseSlot(j)
      PROVE  ClaimsInv'
  <2>1. /\ job[j].todo # {} /\ job' = [job EXCEPT ![j] = Idle] /\ rivals' = rivals
        /\ Release(s) \/ UNCHANGED <<owner, link, minted>>
        /\ UNCHANGED <<openClaims, lobbyRoom, report>>
    BY <1>3, <1>s DEF ReleaseSlot, Ends, Becomes, NobodyTakes, JobMakesSense, s
  <2> QED
    BY <1>2, <1>t, <2>1, JobAsks
<1>4. ASSUME Look(j) \/ BulkRelease(j)
      PROVE  ClaimsInv'
  <2>1. job[j].todo # {}
    BY <1>4, <1>s DEF Look, BulkRelease, JobMakesSense
  <2>2. AfterSlot(j) \in Job /\ AfterSlot(j).at \in {"rest", "look"}
        /\ (AfterSlot(j).at = "look" => AfterSlot(j).todo # {})
    <3>1. Rest(j) \in SUBSET Slots
      BY <2>1, NextIsOne DEF ClaimsInv
    <3>2. [job[j] EXCEPT !.at = "look", !.todo = Rest(j)] \in Job
      BY <1>t, <3>1 DEF Job
    <3>3. /\ [job[j] EXCEPT !.at = "look", !.todo = Rest(j)].at = "look"
          /\ [job[j] EXCEPT !.at = "look", !.todo = Rest(j)].todo = Rest(j)
      BY <1>t DEF Job
    <3> QED
      BY <1>t, <3>2, <3>3 DEF AfterSlot
  <2>3. CASE BulkRelease(j)
    <3>1. /\ job' = [job EXCEPT ![j] = AfterSlot(j)] /\ rivals' = rivals
          /\ Release(s) \/ UNCHANGED <<owner, link, minted>>
          /\ UNCHANGED <<openClaims, lobbyRoom, report>>
      BY <2>3 DEF BulkRelease, Becomes, NobodyTakes, s
    <3> QED
      BY <1>2, <1>t, <2>1, <2>2, <3>1, JobAsks
  <2>4. CASE Look(j)
    <3> DEFINE spare == [job[j] EXCEPT !.at = "spare"]
    <3>1. spare \in Job /\ spare.at = "spare" /\ spare.todo = job[j].todo
      BY <1>t DEF Job
    <3>2. /\ job' = [job EXCEPT ![j] = spare] \/ job' = [job EXCEPT ![j] = AfterSlot(j)]
          /\ rivals' = rivals
          /\ UNCHANGED <<owner, link, minted, openClaims, lobbyRoom, report>>
      BY <2>4 DEF Look, Becomes, NobodyTakes
    <3> HIDE DEF spare
    <3>3. CASE job' = [job EXCEPT ![j] = spare]
      BY <1>t, <2>1, <3>1, <3>2, <3>3, JobAsks
    <3>4. CASE job' = [job EXCEPT ![j] = AfterSlot(j)]
      BY <1>t, <2>2, <3>2, <3>4, JobAsks
    <3> QED
      BY <3>2, <3>3, <3>4
  <2> QED
    BY <1>4, <2>3, <2>4
<1>5. ASSUME SetLiveOptions(j)
      PROVE  ClaimsInv'
  <2>1. /\ job' = [job EXCEPT ![j] = Idle] /\ rivals' = rivals
        /\ UNCHANGED <<owner, link, minted, lobbyRoom, report>>
    BY <1>5 DEF SetLiveOptions, Ends, Becomes, NobodyTakes
  <2>2. openClaims' \in BOOLEAN
    BY <1>5, <1>t, <1>r DEF SetLiveOptions
  <2>3. JobMakesSense(j)' /\ ImportCounts(j)'
    BY <1>i, <1>t, <2>1 DEF JobMakesSense, ImportCounts
  <2> QED
    BY <1>t, <1>r, <1>k, <1>o, <2>1, <2>2, <2>3, JobMoves
<1>6. ASSUME NEW author \in Holders, NEW names \in [Slots -> Holders],
             LobbyAnswers(j, author, names)
      PROVE  ClaimsInv'
  <2> DEFINE r == [job[j] EXCEPT !.at = "roster", !.names = names]
  <2>1. r \in Job /\ r.at = "roster"
    BY <1>t DEF Job
  <2>2. /\ job' = [job EXCEPT ![j] = r] /\ rivals' = rivals
        /\ UNCHANGED <<owner, link, minted, openClaims, lobbyRoom, report>>
    BY <1>6 DEF LobbyAnswers, Becomes, NobodyTakes
  <2> HIDE DEF r
  <2> QED
    BY <1>t, <2>1, <2>2, JobAsks
<1>7. ASSUME JobDies(j)
      PROVE  ClaimsInv'
  <2>1. /\ job' = [job EXCEPT ![j] = Idle] /\ rivals' = rivals
        /\ UNCHANGED <<owner, link, minted, openClaims, lobbyRoom, report>>
    BY <1>7 DEF JobDies, Ends, Becomes, NobodyTakes
  <2> QED
    BY <1>t, <2>1, JobAsks
<1>8. ASSUME ReadRoster(j)
      PROVE  ClaimsInv'
  BY <1>8, ReadRosterKeeps
<1>9. ASSUME ClaimForOwner(j)
      PROVE  ClaimsInv'
  BY <1>9, ClaimForOwnerKeeps
<1>10. ASSUME FinishImport(j)
       PROVE  ClaimsInv'
  BY <1>10, FinishImportKeeps
<1> QED
  BY <1>1, <1>3, <1>4, <1>5, <1>6, <1>7, <1>8, <1>9, <1>10 DEF JobNext

-----------------------------------------------------------------------------
(***************************************************************************)
(* The staff beside the slots.                                             *)
(***************************************************************************)
LEMMA ClaimsUndisturbed ==
    ASSUME ClaimsInv, UNCHANGED claimVars, exists' => exists
    PROVE  ClaimsInv'
<1>1. UNCHANGED <<owner, link, minted, openClaims, lobbyRoom, job, rivals, report>>
  BY DEF claimVars
<1>2. ClaimsTypeOK' /\ SlotsInv' /\ TakenFirstIsTrue'
  BY <1>1 DEF ClaimsInv, ClaimsTypeOK, SlotsInv, TakenFirstIsTrue
<1>3. \A j \in Jobs : JobMakesSense(j)' /\ ImportCounts(j)'
  BY <1>1 DEF ClaimsInv, JobMakesSense, ImportCounts
<1> QED
  BY <1>2, <1>3 DEF ClaimsInv

LEMMA ClaimsBegin ==
    ASSUME Init
    PROVE  ClaimsInv
<1>1. /\ IsFiniteSet(Slots) /\ Cardinality(Slots) \in Nat /\ Slots \subseteq Nat
  BY ClaimsAssumption, FS_CardinalityType
<1>2. owner \in [Slots -> Holders] /\ \A s \in Slots : owner[s] = NoOne
  BY DEF Init, Nobody, Holders
<1>3. link \in [Slots -> Nat] /\ minted \in Nat /\ \A s \in Slots : link[s] # NoLink
  BY <1>1 DEF Init, NoLink
<1>4. \A j \in Jobs : job[j] = Idle /\ rivals[j] = {}
  BY DEF Init
<1>5. job \in [Jobs -> Job] /\ rivals \in [Jobs -> SUBSET Slots]
  BY IdleIsAJob DEF Init
<1>6. report \in [takenFirst : Nat, rivals : SUBSET Slots] /\ TakenFirstIsTrue
  BY FS_EmptySet DEF Init, NoReport, TakenFirstIsTrue
<1>7. openClaims \in BOOLEAN /\ lobbyRoom \in BOOLEAN
  BY DEF Init
<1>8. \A j \in Jobs : JobMakesSense(j) /\ ImportCounts(j)
  BY <1>4 DEF JobMakesSense, ImportCounts, Idle
<1> QED
  BY <1>2, <1>3, <1>5, <1>6, <1>7, <1>8 DEF ClaimsInv, ClaimsTypeOK, SlotsInv

IInv == StaffInv /\ ClaimsInv

LEMMA IInvBegins == Init => IInv
  BY StaffBegins, ClaimsBegin DEF Init, IInv

LEMMA RoomStaysGone ==
    ASSUME StaffNext
    PROVE  exists' => exists
  BY DEF StaffNext, HandlerNext, AllowMemberChange, Write, RefuseWrite, Commit, Consume, Grant,
         HandlerDies, CreateInvite, RevokeInvite, DeleteRoom

\* The three kinds of step the room's slots and staff take together.
LEMMA IInvKept == IInv /\ [Next]_vars => IInv'
<1> SUFFICES ASSUME IInv, [Next]_vars
             PROVE  IInv'
  OBVIOUS
<1>1. CASE StaffNext /\ UNCHANGED claimVars
  BY <1>1, StaffKeeps, ClaimsUndisturbed, RoomStaysGone DEF IInv
<1>2. CASE /\ \/ \E s \in Slots, u \in Users : ClaimByLink(s, u)
              \/ \E j \in Jobs : AskNext(j)
           /\ UNCHANGED <<exists, members, invites, task, granted, crossed>>
  <2>1. Request
    BY <1>2 DEF ClaimByLink, AskNext, AskOpenClaim, AskRelease, AskBulkRelease, AskOptions,
                AskImport, Start
  <2>2. StaffInv'
    BY <1>2, <2>1, StaffIdles, RequestCounts DEF IInv
  <2>3. exists' = exists
    BY <1>2
  <2>4. ClaimsInv'
    BY <1>2, <2>3, ClaimByLinkKeeps, AskKeeps DEF IInv
  <2> QED
    BY <2>2, <2>4 DEF IInv
<1>3. CASE \E j \in Jobs : JobNext(j) /\ UNCHANGED staffVars
  <2>1. UNCHANGED <<exists, members, invites, task, granted, crossed, requests>>
    BY <1>3 DEF staffVars
  <2>2. requests' \in 0..MaxRequests
    BY <2>1 DEF IInv, StaffInv, StaffTypeOK
  <2>3. StaffInv'
    BY <2>1, <2>2, StaffIdles DEF IInv
  <2>4. ClaimsInv'
    BY <1>3, <2>1, StepOfJob DEF IInv
  <2> QED
    BY <2>3, <2>4 DEF IInv
<1>4. CASE UNCHANGED vars
  <2>1. UNCHANGED <<exists, members, invites, task, granted, crossed, requests>>
        /\ UNCHANGED claimVars
    BY <1>4 DEF vars, staffVars
  <2>2. requests' \in 0..MaxRequests
    BY <2>1 DEF IInv, StaffInv, StaffTypeOK
  <2>3. StaffInv'
    BY <2>1, <2>2, StaffIdles DEF IInv
  <2> QED
    BY <2>1, <2>3, ClaimsUndisturbed DEF IInv
<1> QED
  BY <1>1, <1>2, <1>3, <1>4 DEF Next

LEMMA AlwaysIInv == Spec => []IInv
  BY IInvBegins, IInvKept, PTL DEF Spec

-----------------------------------------------------------------------------
(***************************************************************************)
(* The theorems.                                                           *)
(***************************************************************************)

\* The variables keep their types.
THEOREM TypesHold == Spec => []TypeOK
<1>1. IInv => TypeOK
  BY DEF IInv, StaffInv, ClaimsInv, TypeOK
<1> QED
  BY <1>1, AlwaysIInv, PTL

\* A room keeps an organizer as long as no two demotions cross.
THEOREM OrganizersRemain == Spec => []OrganizerRemains
<1>1. IInv => OrganizerRemains
  BY DEF IInv, StaffInv, AnotherStays, OrganizerRemains, RoomHasOrganizer
<1> QED
  BY <1>1, AlwaysIInv, PTL

\* An invite grants no more memberships than it was minted with.
THEOREM InvitesHold == Spec => []InvitesNotOverspent
<1>1. IInv => InvitesNotOverspent
  BY DEF IInv, StaffInv
<1> QED
  BY <1>1, AlwaysIInv, PTL

\* A deleted room has no staff and no working link.
THEOREM GoneRoomsAreEmpty == Spec => []GoneRoomHasNobody
<1>1. IInv => GoneRoomHasNobody
  BY DEF IInv, StaffInv
<1> QED
  BY <1>1, AlwaysIInv, PTL

\* A role goes down only by a statement that asks for exactly that.
THEOREM RolesAreKept == Spec => OnlyStaffLowerARole
<1>1. IInv /\ [Next]_vars => [LoweredByStaff]_staffVars
  <2> SUFFICES ASSUME IInv, [Next]_vars, ~UNCHANGED staffVars
               PROVE  LoweredByStaff
    OBVIOUS
  <2>1. StaffNext \/ UNCHANGED members
    BY DEF Next, vars
  <2> QED
    BY <2>1, StaffLower, NothingLowered DEF IInv
<1> QED
  BY <1>1, AlwaysIInv, PTL DEF Spec, OnlyStaffLowerARole, LoweredByStaff

\* A slot is free exactly when it has a link.
THEOREM FreeSlotsHaveLinks == Spec => []FreeIffLink
<1>1. IInv => FreeIffLink
  BY DEF IInv, ClaimsInv, SlotsInv, FreeIffLink
<1> QED
  BY <1>1, AlwaysIInv, PTL

\* What an import reports as taken first was taken while it ran.
THEOREM ImportsCountTrue == Spec => []TakenFirstIsTrue
<1>1. IInv => TakenFirstIsTrue
  BY DEF IInv, ClaimsInv
<1> QED
  BY <1>1, AlwaysIInv, PTL

\* The action of HeldUntilReleased.
OnlyReleased ==
    \A s \in Slots : owner[s] # NoOne /\ owner'[s] # owner[s] =>
        /\ owner'[s] = NoOne
        /\ \E j \in Jobs : job[j].at \in {"release", "spare"} /\ NextSlot(j) = s

LEMMA OwnersStay ==
    ASSUME owner' = owner
    PROVE  OnlyReleased
  BY DEF OnlyReleased

LEMMA FreeSlotsAreTaken ==
    ASSUME SlotsInv, NEW s \in Slots, NEW u, owner[s] = NoOne, Bind(s, u)
    PROVE  OnlyReleased
<1>1. \A t \in Slots : t # s => owner'[t] = owner[t]
  BY DEF Bind, SlotsInv
<1> QED
  BY <1>1 DEF OnlyReleased

LEMMA SlotsAreReleased ==
    ASSUME SlotsInv, NEW j \in Jobs, job[j].at \in {"release", "spare"}, Release(NextSlot(j))
    PROVE  OnlyReleased
<1>1. \A t \in Slots : owner'[t] = IF t = NextSlot(j) THEN NoOne ELSE owner[t]
  BY DEF Release, SlotsInv
<1> QED
  BY <1>1 DEF OnlyReleased

\* Nobody loses a slot to a rival.
THEOREM HoldersKeep == Spec => HeldUntilReleased
<1>1. IInv /\ [Next]_vars => [OnlyReleased]_vars
  <2> SUFFICES ASSUME IInv, Next
               PROVE  OnlyReleased
    OBVIOUS
  <2>1. SlotsInv /\ ClaimsTypeOK /\ \A j \in Jobs : JobMakesSense(j)
    BY DEF IInv, ClaimsInv
  <2>2. ASSUME NEW s \in Slots, NEW u \in Users, ClaimByLink(s, u)
        PROVE  OnlyReleased
    <3>1. owner[s] = NoOne /\ Bind(s, u)
      BY <2>1, <2>2 DEF ClaimByLink, SlotsInv
    <3> QED
      BY <2>1, <3>1, FreeSlotsAreTaken
  <2>3. ASSUME NEW j \in Jobs, AskNext(j)
        PROVE  OnlyReleased
    <3>1. owner' = owner
      BY <2>3 DEF AskNext, AskOpenClaim, AskRelease, AskBulkRelease, AskOptions, AskImport
    <3> QED
      BY <3>1, OwnersStay
  <2>4. ASSUME NEW j \in Jobs, JobNext(j)
        PROVE  OnlyReleased
    <3>1. CASE ClaimOpen(j) \/ ClaimForOwner(j)
      <4>1. job[j].todo # {}
        BY <2>1, <3>1 DEF ClaimOpen, ClaimForOwner, JobMakesSense
      <4>2. NextSlot(j) \in Slots
        BY <2>1, <4>1, NextIsOne
      <4>3. \/ owner' = owner
            \/ owner[NextSlot(j)] = NoOne /\ \E u : Bind(NextSlot(j), u)
        BY <3>1 DEF ClaimOpen, ClaimForOwner, StillFree
      <4> QED
        BY <2>1, <4>2, <4>3, OwnersStay, FreeSlotsAreTaken
    <3>2. CASE ReleaseSlot(j) \/ BulkRelease(j)
      BY <2>1, <3>2, OwnersStay, SlotsAreReleased DEF ReleaseSlot, BulkRelease
    <3>3. CASE owner' = owner
      BY <3>3, OwnersStay
    <3> QED
      BY <2>4, <3>1, <3>2, <3>3
      DEF JobNext, Look, SetLiveOptions, LobbyAnswers, ReadRoster, FinishImport, JobDies
  <2>5. CASE StaffNext /\ UNCHANGED claimVars
    BY <2>5, OwnersStay DEF claimVars
  <2> QED
    BY <2>2, <2>3, <2>4, <2>5 DEF Next
<1> QED
  BY <1>1, AlwaysIInv, PTL DEF Spec, HeldUntilReleased, OnlyReleased
=============================================================================
