-------------------------------- MODULE Claims -------------------------------
(***************************************************************************)
(* Who holds a room's slots (room_slots.owner_id and claim_token), beside  *)
(* the room's staff, whose guards decide who may release, import and open  *)
(* them: slot.rs, the handlers of rooms.rs and bulk.rs, and the lobby      *)
(* import of lobby.rs.                                                     *)
(*                                                                         *)
(* A job is a request of several statements, each committing by itself;    *)
(* between two of them other requests take and lose slots.  A claim by     *)
(* link is a single statement and so a single step.  A link is a number in *)
(* the order of minting: the code's are random and never come back.        *)
(***************************************************************************)
EXTENDS Staff

CONSTANTS
    Slots,          \* slot numbers
    NoOne,          \* owner_id IS NULL
    Jobs            \* requests on the slots served at a time

ASSUME ClaimsAssumption ==
    /\ Slots \subseteq Nat /\ IsFiniteSet(Slots)
    /\ NoOne \notin Users \cup Jobs

VARIABLES
    owner,      \* room_slots.owner_id
    link,       \* room_slots.claim_token, NoLink once claimed
    minted,     \* the newest link
    openClaims, \* rooms.open_claims
    lobbyRoom,  \* rooms.lobby_room_id is set
    job,        \* what each request is doing, and what it has read
    rivals,     \* history: the slots claimed while a job ran, by others than it
    report      \* history: the last import's counts, and what they should be

claimVars == <<owner, link, minted, openClaims, lobbyRoom, job, rivals, report>>
vars == <<staffVars, claimVars>>

NoLink == 0
Holders == Users \cup {NoOne}

\* "todo" are the slots of a form or a plan still ahead;
\* "names" is whom the lobby names for each slot.
Job == [at : {"rest", "open", "release", "look", "spare", "options", "fetch", "roster",
               "claim"},
        todo : SUBSET Slots, user : Holders, names : [Slots -> Holders],
        planned : Nat, claimed : Nat, wanted : BOOLEAN]
Nobody == [s \in Slots |-> NoOne]
Idle == [at |-> "rest", todo |-> {}, user |-> NoOne, names |-> Nobody,
         planned |-> 0, claimed |-> 0, wanted |-> FALSE]
NoReport == [takenFirst |-> 0, rivals |-> {}]

ClaimsTypeOK ==
    /\ owner \in [Slots -> Holders]
    /\ link \in [Slots -> Nat]
    /\ minted \in Nat
    /\ openClaims \in BOOLEAN /\ lobbyRoom \in BOOLEAN
    /\ job \in [Jobs -> Job]
    /\ rivals \in [Jobs -> SUBSET Slots]
    /\ report \in [takenFirst : Nat, rivals : SUBSET Slots]
TypeOK == StaffTypeOK /\ ClaimsTypeOK

\* copy_slots mints a link for every slot.
Init ==
    /\ StaffInit
    /\ owner = Nobody
    /\ link \in {l \in [Slots -> 1..Cardinality(Slots)] :
                    \A s, t \in Slots : s < t => l[s] < l[t]}
    /\ minted = Cardinality(Slots)
    /\ openClaims \in BOOLEAN
    /\ lobbyRoom = FALSE
    /\ job = [j \in Jobs |-> Idle]
    /\ rivals = [j \in Jobs |-> {}]
    /\ report = NoReport

(***************************************************************************)
(* The statements on one row.                                              *)
(***************************************************************************)
\* Mutant: only the owner is written.
BindKeepsLink(s, u) ==
    /\ owner' = [owner EXCEPT ![s] = u]
    /\ link' = link

\* SET owner_id, claim_token = NULL
Bind(s, u) ==
    /\ owner' = [owner EXCEPT ![s] = u]
    /\ link' = [link EXCEPT ![s] = NoLink]

\* Mutant: the caller's reading is trusted.
StillThere(s) == exists

\* WHERE owner_id IS NULL
StillFree(s) == exists /\ owner[s] = NoOne

Release(s) ==
    /\ owner' = [owner EXCEPT ![s] = NoOne]
    /\ link' = [link EXCEPT ![s] = minted + 1]
    /\ minted' = minted + 1

TakenBy(s, me) == rivals' = [j \in Jobs |-> IF j = me \/ job[j].at = "rest" THEN rivals[j]
                                            ELSE rivals[j] \cup {s}]
NobodyTakes == UNCHANGED rivals

Start(j, record) ==
    /\ exists
    /\ job[j].at = "rest"
    /\ Request
    /\ job' = [job EXCEPT ![j] = record]
    /\ rivals' = [rivals EXCEPT ![j] = {}]
Becomes(j, record) == job' = [job EXCEPT ![j] = record]
Ends(j) == Becomes(j, Idle)
\* Which slot of a list comes first makes no difference.
NextSlot(j) == CHOOSE s \in job[j].todo : TRUE
Rest(j) == job[j].todo \ {NextSlot(j)}

(***************************************************************************)
(* Players.                                                                *)
(***************************************************************************)
\* claim: the token is the whole condition.  Anybody may hold one.
ClaimByLink(s, u) ==
    /\ exists
    /\ link[s] # NoLink
    /\ Request
    /\ Bind(s, u)
    /\ TakenBy(s, NoOne)
    /\ UNCHANGED <<minted, openClaims, lobbyRoom, job, report>>

\* claim_open_slot has read the option ...
AskOpenClaim(j, s, u) ==
    /\ openClaims
    /\ Start(j, [Idle EXCEPT !.at = "open", !.todo = {s}, !.user = u])
    /\ UNCHANGED <<owner, link, minted, openClaims, lobbyRoom, report>>

\* ... and claim_open decides whether the slot is free.
ClaimOpen(j) ==
    /\ job[j].at = "open"
    /\ IF StillFree(NextSlot(j))
       THEN Bind(NextSlot(j), job[j].user) /\ TakenBy(NextSlot(j), j)
       ELSE UNCHANGED <<owner, link, rivals>>
    /\ Ends(j)
    /\ UNCHANGED <<minted, openClaims, lobbyRoom, report>>

(***************************************************************************)
(* Staff.                                                                  *)
(***************************************************************************)
\* release_slot, from the roster: whoever holds it.
AskRelease(j, s) ==
    /\ Passes("helper")
    /\ Start(j, [Idle EXCEPT !.at = "release", !.todo = {s}])
    /\ UNCHANGED <<owner, link, minted, openClaims, lobbyRoom, report>>

ReleaseSlot(j) ==
    /\ job[j].at = "release"
    /\ IF exists THEN Release(NextSlot(j)) ELSE UNCHANGED <<owner, link, minted>>
    /\ Ends(j) /\ NobodyTakes
    /\ UNCHANGED <<openClaims, lobbyRoom, report>>

\* The bulk panel's release_claims, slot by slot: look, then release.
AskBulkRelease(j, S) ==
    /\ Passes("helper")
    /\ Start(j, [Idle EXCEPT !.at = "look", !.todo = S])
    /\ UNCHANGED <<owner, link, minted, openClaims, lobbyRoom, report>>

AfterSlot(j) ==
    IF Rest(j) = {} THEN Idle ELSE [job[j] EXCEPT !.at = "look", !.todo = Rest(j)]

Look(j) ==
    /\ job[j].at = "look"
    /\ Becomes(j, IF exists /\ owner[NextSlot(j)] # NoOne THEN [job[j] EXCEPT !.at = "spare"]
                  ELSE AfterSlot(j))
    /\ NobodyTakes
    /\ UNCHANGED <<owner, link, minted, openClaims, lobbyRoom, report>>

BulkRelease(j) ==
    /\ job[j].at = "spare"
    /\ IF exists THEN Release(NextSlot(j)) ELSE UNCHANGED <<owner, link, minted>>
    /\ Becomes(j, AfterSlot(j)) /\ NobodyTakes
    /\ UNCHANGED <<openClaims, lobbyRoom, report>>

\* set_live_options, of which the claims see one.
AskOptions(j, wanted) ==
    /\ Passes("organizer")
    /\ Start(j, [Idle EXCEPT !.at = "options", !.wanted = wanted])
    /\ UNCHANGED <<owner, link, minted, openClaims, lobbyRoom, report>>

SetLiveOptions(j) ==
    /\ job[j].at = "options"
    /\ openClaims' = IF exists THEN job[j].wanted ELSE openClaims
    /\ Ends(j) /\ NobodyTakes
    /\ UNCHANGED <<owner, link, minted, lobbyRoom, report>>

(***************************************************************************)
(* The lobby import: the lobby answers with a name for some of the slots;  *)
(* its author must be an organizer here unless a site admin asks.          *)
(***************************************************************************)
AskImport(j, u) ==
    /\ EffectiveRole(u) = "organizer"
    /\ Start(j, [Idle EXCEPT !.at = "fetch", !.user = u])
    /\ UNCHANGED <<owner, link, minted, openClaims, lobbyRoom, report>>

\* may_import; the author's role is read once the lobby has answered.
MayImport(u, author) == u \in Admins \/ (author \in Users /\ members[author] = "organizer")

LobbyAnswers(j, author, names) ==
    /\ job[j].at = "fetch"
    /\ MayImport(job[j].user, author)
    /\ Becomes(j, [job[j] EXCEPT !.at = "roster", !.names = names])
    /\ NobodyTakes
    /\ UNCHANGED <<owner, link, minted, openClaims, lobbyRoom, report>>

\* Mutant: the plan is made from the lobby's names alone.
ClaimableByName(j) == {s \in Slots : job[j].names[s] # NoOne}

Claimable(j) == {s \in Slots : owner[s] = NoOne /\ job[j].names[s] # NoOne}

ReadRoster(j) ==
    /\ job[j].at = "roster"
    /\ LET plan == IF exists THEN Claimable(j) ELSE {} IN
       Becomes(j, [job[j] EXCEPT !.at = "claim", !.todo = plan,
                                 !.planned = Cardinality(plan), !.claimed = 0])
    /\ rivals' = [rivals EXCEPT ![j] = {}]
    /\ UNCHANGED <<owner, link, minted, openClaims, lobbyRoom, report>>

ClaimForOwner(j) ==
    /\ job[j].at = "claim" /\ job[j].todo # {}
    /\ LET s == NextSlot(j)
           done == [job[j] EXCEPT !.todo = Rest(j)]
       IN IF StillFree(s)
          THEN /\ Bind(s, job[j].names[s]) /\ TakenBy(s, j)
               /\ Becomes(j, [done EXCEPT !.claimed = @ + 1])
          ELSE /\ Becomes(j, done)
               /\ UNCHANGED <<owner, link, rivals>>
    /\ UNCHANGED <<minted, openClaims, lobbyRoom, report>>

\* The room is associated with the lobby only now.
FinishImport(j) ==
    /\ job[j].at = "claim" /\ job[j].todo = {}
    /\ lobbyRoom' = (lobbyRoom \/ exists)
    /\ report' = IF exists THEN [takenFirst |-> job[j].planned - job[j].claimed,
                                 rivals |-> rivals[j]]
                 ELSE report
    /\ Ends(j) /\ NobodyTakes
    /\ UNCHANGED <<owner, link, minted, openClaims>>

\* The lobby fails or refuses, or the web tier goes away.
JobDies(j) ==
    /\ job[j].at # "rest"
    /\ Ends(j) /\ NobodyTakes
    /\ UNCHANGED <<owner, link, minted, openClaims, lobbyRoom, report>>

\* What a job does to the slots; none of it touches the staff.
AskNext(j) ==
    \/ \E s \in Slots, u \in Users : AskOpenClaim(j, s, u)
    \/ \E s \in Slots : AskRelease(j, s)
    \/ \E S \in (SUBSET Slots) \ {{}} : AskBulkRelease(j, S)
    \/ \E wanted \in BOOLEAN : AskOptions(j, wanted)
    \/ \E u \in Users : AskImport(j, u)

JobNext(j) ==
    \/ ClaimOpen(j)
    \/ ReleaseSlot(j)
    \/ Look(j)
    \/ BulkRelease(j)
    \/ SetLiveOptions(j)
    \/ \E author \in Holders, names \in [Slots -> Holders] : LobbyAnswers(j, author, names)
    \/ ReadRoster(j)
    \/ ClaimForOwner(j)
    \/ FinishImport(j)
    \/ JobDies(j)

\* A deletion takes the slots with it: from then on no statement finds one.
Next ==
    \/ StaffNext /\ UNCHANGED claimVars
    \/ /\ \/ \E s \in Slots, u \in Users : ClaimByLink(s, u)
          \/ \E j \in Jobs : AskNext(j)
       /\ UNCHANGED <<exists, members, invites, task, granted, crossed>>
    \/ \E j \in Jobs : JobNext(j) /\ UNCHANGED staffVars

Spec == Init /\ [][Next]_vars

-----------------------------------------------------------------------------
(***************************************************************************)
(* Properties.                                                             *)
(***************************************************************************)

\* A slot is free exactly when somebody can still take it by a link: no link
\* outlives a claim, to take the slot back off whoever claimed it another way
\* (slot.rs:505), and no slot is left that nobody can take (rooms.rs:539).
FreeIffLink == exists => \A s \in Slots : owner[s] = NoOne <=> link[s] # NoLink

\* Nobody loses a slot to a rival.  Two who press at once, a link redeemed
\* during an import, an import run twice, a claim after the option was turned
\* off: an owner goes only by a release of that slot, and to nobody.
HeldUntilReleased ==
    [][\A s \in Slots : owner[s] # NoOne /\ owner'[s] # owner[s] =>
          /\ owner'[s] = NoOne
          /\ \E j \in Jobs : job[j].at \in {"release", "spare"} /\ NextSlot(j) = s]_vars

\* What an import reports as taken first (slot.rs:700, "exactly the slots
\* somebody else took first") was taken while it ran, and was not held already
\* when it planned.
TakenFirstIsTrue == report.takenFirst <= Cardinality(report.rivals)
=============================================================================
