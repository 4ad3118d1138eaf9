---------------------------- MODULE TrackerCache ----------------------------
(***************************************************************************)
(* A room's two tracker documents and the copies the tracker tier keeps of *)
(* them: one row that all replicas share, and a short memo in each (Puna:  *)
(* puna-web/src/routes/tracker.rs obtain and fetch, upstream.rs,           *)
(* puna-core/src/model/tracker.rs). A request obtains the documents its    *)
(* view is made of one after another; each await is a step of its own, so  *)
(* requests of one replica or of several overlap anywhere. A document is   *)
(* only the moment the room said it.                                       *)
(*                                                                         *)
(* Who may see what is left out. Replicas and database are taken to agree  *)
(* on the time.                                                            *)
(***************************************************************************)
EXTENDS Integers

CONSTANTS
    Replicas,   \* processes of the tracker tier
    Requests,   \* bound: requests under way at a time
    Ttl,        \* Document::ttl: how long a stored document is fresh
    MemoTtl,    \* MEMO_TTL
    Lag,        \* the longest one document may take to obtain
    MaxTime,    \* bound: the clock
    None        \* no document

Documents == {"live", "static"}

Copies == [said: 0..MaxTime, at: 0..MaxTime]
Fetched == [said: 0..MaxTime, asOf: 0..MaxTime, stale: BOOLEAN]

ASSUME TrackerAssumption ==
    /\ Ttl \in [Documents -> Nat]
    /\ MemoTtl \in Nat \ {0} /\ Lag \in Nat /\ MaxTime \in Nat
    /\ None \notin Replicas \cup Copies \cup Fetched

\* One document, or both, as the slot table and the summary need.
Views == {{"live"}, {"static"}, Documents}

VARIABLES
    clock,
    row,        \* rooms.last_tracker_doc: each document with its own stamp
    memo,       \* each replica's memo
    pc,         \* where each request is
    home,       \* the replica it runs in
    wants,      \* the documents it has still to obtain
    since,      \* when it began to obtain the one it is at
    copy,       \* the stored copy it read and found old
    said,       \* when the room said the document it has in hand
    got,        \* what it has obtained
    had         \* history: the documents stored when the request began

requests == <<pc, home, wants, since, copy, said, got, had>>
vars == <<clock, row, memo, requests>>

Places == {"idle", "memo", "row", "dial", "said", "done", "failed"}

TypeOK ==
    /\ clock \in 0..MaxTime
    /\ row \in [Documents -> Copies \cup {None}]
    /\ memo \in [Replicas -> [Documents -> Copies \cup {None}]]
    /\ pc \in [Requests -> Places]
    /\ home \in [Requests -> Replicas \cup {None}]
    /\ wants \in [Requests -> SUBSET Documents]
    /\ since \in [Requests -> 0..MaxTime]
    /\ copy \in [Requests -> Copies \cup {None}]
    /\ said \in [Requests -> 0..MaxTime]
    /\ got \in [Requests -> [Documents -> Fetched \cup {None}]]
    /\ had \in [Requests -> SUBSET Documents]

Nothing == [d \in Documents |-> None]

Init ==
    /\ clock = 0
    /\ row = Nothing
    /\ memo = [r \in Replicas |-> Nothing]
    /\ pc = [q \in Requests |-> "idle"]
    /\ home = [q \in Requests |-> None]
    /\ wants = [q \in Requests |-> {}]
    /\ since = [q \in Requests |-> 0]
    /\ copy = [q \in Requests |-> None]
    /\ said = [q \in Requests |-> 0]
    /\ got = [q \in Requests |-> Nothing]
    /\ had = [q \in Requests |-> {}]

\* Progress before totals, in the views that need both.
Current(q) == IF "live" \in wants[q] THEN "live" ELSE "static"

\* A memo serves what is younger than MemoTtl: see Tick.
Memoized(r, d) == memo[r][d] # None

\* Freshness is judged by the document's own stamp.
FreshRow(d) == row[d] # None /\ clock - row[d].at < Ttl[d]

Put(r, d, s) == [memo EXCEPT ![r][d] = [said |-> s, at |-> clock]]
\* A plausible bug: one stamp for both, as before each had its own.
StoredUnderOneStamp(d, s) ==
    [e \in Documents |-> IF e = d THEN [said |-> s, at |-> clock]
                         ELSE IF row[e] = None THEN None
                         ELSE [row[e] EXCEPT !.at = clock]]
\* The statement that stores a document leaves the other one alone.
Stored(d, s) == [row EXCEPT ![d] = [said |-> s, at |-> clock]]

\* A plausible bug: a copy taken out to be looked at and never put back.
KeptOut(d) == None
\* The copy found old is put back, for want of a better one.
Kept(d) == row[d]

Idle(q) ==
    /\ pc' = [pc EXCEPT ![q] = "idle"]
    /\ home' = [home EXCEPT ![q] = None]
    /\ wants' = [wants EXCEPT ![q] = {}]
    /\ since' = [since EXCEPT ![q] = 0]
    /\ copy' = [copy EXCEPT ![q] = None]
    /\ said' = [said EXCEPT ![q] = 0]
    /\ got' = [got EXCEPT ![q] = Nothing]
    /\ had' = [had EXCEPT ![q] = {}]

-----------------------------------------------------------------------------
Ask(q) ==
    /\ pc[q] = "idle"
    /\ \E r \in Replicas, v \in Views :
          /\ home' = [home EXCEPT ![q] = r]
          /\ wants' = [wants EXCEPT ![q] = v]
          /\ had' = [had EXCEPT ![q] = {d \in v : row[d] # None}]
    /\ pc' = [pc EXCEPT ![q] = "memo"]
    /\ since' = [since EXCEPT ![q] = clock]
    /\ UNCHANGED <<clock, row, memo, copy, said, got>>

\* The document at hand is obtained, and the next one is looked for.
Obtained(q, fetched) ==
    /\ got' = [got EXCEPT ![q][Current(q)] = fetched]
    /\ wants' = [wants EXCEPT ![q] = @ \ {Current(q)}]
    /\ pc' = [pc EXCEPT ![q] = IF wants[q] = {Current(q)} THEN "done" ELSE "memo"]
    /\ since' = [since EXCEPT ![q] = clock]
    /\ copy' = [copy EXCEPT ![q] = None]
    /\ said' = [said EXCEPT ![q] = 0]
    /\ had' = [had EXCEPT ![q] = @ \ {Current(q)}]
    /\ UNCHANGED home

Fresh(s) == [said |-> s, asOf |-> clock, stale |-> FALSE]

FromMemo(q) ==
    /\ pc[q] = "memo" /\ Memoized(home[q], Current(q))
    /\ Obtained(q, Fresh(memo[home[q]][Current(q)].said))
    /\ UNCHANGED <<clock, row, memo>>

MissMemo(q) ==
    /\ pc[q] = "memo" /\ ~Memoized(home[q], Current(q))
    /\ pc' = [pc EXCEPT ![q] = "row"]
    /\ UNCHANGED <<clock, row, memo, home, wants, since, copy, said, got, had>>

\* Reading the row, judging it and filling the memo: no await in between.
FromRow(q) ==
    /\ pc[q] = "row" /\ FreshRow(Current(q))
    /\ memo' = Put(home[q], Current(q), row[Current(q)].said)
    /\ Obtained(q, Fresh(row[Current(q)].said))
    /\ UNCHANGED <<clock, row>>

MissRow(q) ==
    /\ pc[q] = "row" /\ ~FreshRow(Current(q))
    /\ copy' = [copy EXCEPT ![q] = Kept(Current(q))]
    /\ pc' = [pc EXCEPT ![q] = "dial"]
    /\ UNCHANGED <<clock, row, memo, home, wants, since, said, got, had>>

\* The room answers; its answer is still on its way.
RoomSays(q) ==
    /\ pc[q] = "dial"
    /\ said' = [said EXCEPT ![q] = clock]
    /\ pc' = [pc EXCEPT ![q] = "said"]
    /\ UNCHANGED <<clock, row, memo, home, wants, since, copy, got, had>>

\* The answer is stored, unless it is too large or no JSON, and memoized.
Store(q) ==
    /\ pc[q] = "said"
    /\ row' \in {row, Stored(Current(q), said[q])}
    /\ memo' = Put(home[q], Current(q), said[q])
    /\ Obtained(q, Fresh(said[q]))
    /\ UNCHANGED clock

\* No address, no answer, or half of one: the copy that was found old, with
\* its age, if there is one.
FallBack(q) ==
    /\ pc[q] \in {"dial", "said"} /\ copy[q] # None
    /\ Obtained(q, [said |-> copy[q].said, asOf |-> copy[q].at, stale |-> TRUE])
    /\ UNCHANGED <<clock, row, memo>>

Unreachable(q) ==
    /\ pc[q] \in {"dial", "said"} /\ copy[q] = None
    /\ pc' = [pc EXCEPT ![q] = "failed"]
    /\ UNCHANGED <<clock, row, memo, home, wants, since, copy, said, got, had>>

Answer(q) ==
    /\ pc[q] \in {"done", "failed"}
    /\ Idle(q)
    /\ UNCHANGED <<clock, row, memo>>

\* The reader goes away, and the request with them.
Abandoned(q) ==
    /\ pc[q] \notin {"idle", "done", "failed"}
    /\ Idle(q)
    /\ UNCHANGED <<clock, row, memo>>

\* A replica starts anew: its memo is gone, and so are its requests.
Restart(r) ==
    /\ memo' = [memo EXCEPT ![r] = Nothing]
    /\ LET Still(f, x) == [q \in Requests |-> IF home[q] = r THEN x ELSE f[q]]
       IN  /\ pc' = Still(pc, "idle")
           /\ home' = Still(home, None)
           /\ wants' = Still(wants, {})
           /\ since' = Still(since, 0)
           /\ copy' = Still(copy, None)
           /\ said' = Still(said, 0)
           /\ got' = Still(got, Nothing)
           /\ had' = Still(had, {})
    /\ UNCHANGED <<clock, row>>

\* An entry that will still be young enough to serve at the next tick.
Lasts(r, d) == memo[r][d] # None /\ clock + 1 - memo[r][d].at < MemoTtl

\* The memos without what will be too old.
Expired ==
    [r \in Replicas |-> [d \in Documents |-> IF Lasts(r, d) THEN memo[r][d] ELSE None]]

\* The client's timeout and the statements around it end what takes too long.
Tick ==
    /\ clock < MaxTime
    /\ \A q \in Requests :
          /\ pc[q] \notin {"done", "failed"}
          /\ pc[q] # "idle" => clock - since[q] < Lag
    /\ clock' = clock + 1
    /\ memo' = Expired
    /\ UNCHANGED <<row, requests>>

Next ==
    \/ \E q \in Requests :
          \/ Ask(q) \/ FromMemo(q) \/ MissMemo(q) \/ FromRow(q) \/ MissRow(q)
          \/ RoomSays(q) \/ Store(q) \/ FallBack(q) \/ Unreachable(q)
          \/ Answer(q) \/ Abandoned(q)
    \/ \E r \in Replicas : Restart(r)
    \/ Tick

Spec == Init /\ [][Next]_vars

-----------------------------------------------------------------------------
\* How old what is called current may be: its window, the memo's, the time it
\* took to reach the row, and the time the view's other document takes.
Window(d) == Ttl[d] + MemoTtl + 2 * Lag

\* What a view says of its age is so: a document not called stale was said
\* within its window, and one called stale is no older than its date, but for
\* the time it took to store (tracker.rs, obtain: freshness is judged against
\* the document being asked for, and nothing else).
AgeIsHonest ==
    \A q \in Requests, d \in Documents :
        pc[q] = "done" /\ got[q][d] # None =>
            IF got[q][d].stale THEN got[q][d].asOf - got[q][d].said <= Lag
            ELSE clock - got[q][d].said < Window(d)

\* A document that was stored when the request began is never refused, however
\* the room, the other document's writers and the other requests do
\* (tracker.rs, obtain: the torn-down room).
LastKnownIsServed ==
    \A q \in Requests : pc[q] = "failed" => Current(q) \notin had[q]
=============================================================================
