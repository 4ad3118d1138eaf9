---------------------------- MODULE UpstreamProofs ----------------------------
(***************************************************************************)
(* The two things the web tier takes from services that are not its own: a *)
(* lobby room to import (LobbyImport) and a room's tracker documents       *)
(* (TrackerCache).                                                         *)
(***************************************************************************)
EXTENDS LobbyImport, TrackerCache, FiniteSetTheorems, TLAPS

-----------------------------------------------------------------------------
(***************************************************************************)
(* An import of any lobby room into any seed: it keeps the types, gives no *)
(* yaml two slots, decides a cut name by no order, where every slot can be *)
(* told gives each to its own player, and where lobby and seed line up     *)
(* finds every slot.                                                       *)
(*                                                                         *)
(* ClaimsAreTrue rests on what is spent: a yaml that named a slot named    *)
(* its own, so the yaml of a slot still to come is a candidate for it, and *)
(* whatever else is one makes two.                                         *)
(***************************************************************************)
SlotsDiffer ==
    \A s, t \in Slots : /\ came[s] = came[t] => s = t
                        /\ roster[s].name = roster[t].name => s = t

TitlesAreUsed ==
    at # "exact" => \A s \in Slots : match[s] # NoYaml => lobby[match[s]].title \in used

SpentIsMatched == at = "third" => spent = Matched(match)

AllTellable == \A s \in Slots : Tellable(s)

MatchesAreTrue ==
    at \in {"cut", "third", "done"} /\ AllTellable
        => \A s \in Slots : match[s] \in {NoYaml, came[s]}

ClaimsComeLast == at # "done" => claims = {}

ImportInv ==
    /\ ImportTypeOK /\ SlotsDiffer /\ TitlesAreUsed /\ SpentIsMatched
    /\ OneSlotPerYaml /\ MatchesAreTrue /\ ClaimsAreTrue /\ ClaimsComeLast

-----------------------------------------------------------------------------
(***************************************************************************)
(* Names and candidates.                                                   *)
(***************************************************************************)

LEMMA YamlsListed == Yamls \subseteq Nat \ {0} /\ Cardinality(Yamls) \in Nat
<1>1. Cardinality(Yamls) \in Nat
  BY LobbyAssumption, FS_CardinalityType
<1> QED
  BY <1>1, LobbyAssumption

LEMMA ResolvedIsName ==
    ASSUME NEW name \in Name, NEW player \in Nat \ {0}, NEW number \in Nat \ {0}
    PROVE  ResolvedName(name, player, number) \in Name
<1>1. name.stem \in Stems /\ name.form \in Forms \cup {"digits"}
  BY DEF Name
<1>2. WithDigits(name, number) \in Name /\ WithDigits(name, player) \in Name
  BY <1>1 DEF WithDigits, Name
<1>3. Plainly(name) \in Name
  BY <1>1 DEF Plainly, Name, Forms
<1>4. ApName(name) \in Name
  BY <1>3 DEF ApName
<1> QED
  BY <1>2, <1>3, <1>4 DEF ResolvedName

\* The one candidate, where there is one.
LEMMA OneCandidate ==
    ASSUME NEW Y, Y \subseteq Yamls, Cardinality(Y) = 1
    PROVE  \E y \in Yamls : Y = {y}
<1>1. IsFiniteSet(Y)
  BY LobbyAssumption, YamlsListed, FS_Subset
<1>2. \E y : Y = {y}
  BY <1>1, FS_Singleton
<1> QED
  BY <1>2

-----------------------------------------------------------------------------

LEMMA NamesAreTyped ==
    ASSUME rolled \in [Yamls -> Name], Slots \subseteq Nat \ {0}, came \in [Slots -> Yamls],
           NEW s \in Slots
    PROVE  SeedName(s) \in Name
<1> DEFINE alike == {t \in 1..s : rolled[came[t]] = rolled[came[s]]}
<1>1. IsFiniteSet(1..s)
  BY FS_Interval
<1>2. IsFiniteSet(alike)
  BY <1>1, FS_Subset
<1>3. s \in alike
  OBVIOUS
<1>4. Cardinality(alike) \in Nat \ {0}
  BY <1>2, <1>3, FS_CardinalityType, FS_EmptySet
<1>5. rolled[came[s]] \in Name
  OBVIOUS
<1> HIDE DEF alike
<1>6. ResolvedName(rolled[came[s]], s, Cardinality(alike)) \in Name
  BY <1>4, <1>5, ResolvedIsName
<1> QED
  BY <1>6 DEF SeedName, alike

LEMMA InitInv == ImportInit => ImportInv
<1> SUFFICES ASSUME ImportInit PROVE ImportInv
  OBVIOUS
<1>c. Cardinality(Yamls) \in Nat
  BY LobbyAssumption, YamlsListed, FS_CardinalityType
<1>1. lobby \in [Yamls -> Entries] /\ position \in [Yamls -> Int]
  BY <1>c, LobbyAssumption, YamlsListed DEF ImportInit, Lobby
<1>2. rolled \in [Yamls -> Name]
  <2>1. rolled \in [Yamls -> UNION {{e.title} \cup e.renames : e \in Entries}]
    BY DEF ImportInit, Generate
  <2>2. UNION {{e.title} \cup e.renames : e \in Entries} \subseteq Name
    BY LobbyAssumption, YamlsListed
  <2> QED
    BY <2>1, <2>2
<1>3. PICK n \in {Cardinality(Yamls), Cardinality(Yamls) - 1} : came \in InOrder(n)
  BY DEF ImportInit, Generate
<1>4. /\ came \in [1..n -> Yamls]
      /\ \A s, t \in 1..n : s < t => position[came[s]] < position[came[t]]
  BY <1>3 DEF InOrder
<1>5. n \in Int /\ Slots = 1..n /\ Slots \subseteq Nat \ {0}
  BY <1>c, <1>4 DEF Slots
<1>6. came \in [Slots -> Yamls]
  BY <1>4, <1>5
<1>7. PICK owned \in SUBSET Slots :
        roster = [s \in Slots |-> [name |-> SeedName(s), owned |-> s \in owned]]
  BY DEF ImportInit, Generate
<1>8. roster \in [Slots -> [name : Name, owned : BOOLEAN]]
  BY <1>2, <1>5, <1>6, <1>7, NamesAreTyped
<1>9. ImportTypeOK
  BY <1>1, <1>2, <1>6, <1>8 DEF ImportInit, ImportTypeOK, Passes, NoYaml
<1>10. SlotsDiffer
  <2>1. ASSUME NEW s \in Slots, NEW t \in Slots, came[s] = came[t] PROVE s = t
    <3>1. position[came[s]] \in Int
      BY <1>1, <1>6
    <3> QED
      BY <2>1, <3>1, <1>4, <1>5
  <2>2. ASSUME NEW s \in Slots, NEW t \in Slots, roster[s].name = roster[t].name PROVE s = t
    <3>1. Distinct([x \in Slots |-> SeedName(x)])
      BY DEF ImportInit, Generate
    <3>2. SeedName(s) = SeedName(t)
      BY <2>2, <1>7
    <3> QED
      BY <3>1, <3>2 DEF Distinct
  <2> QED
    BY <2>1, <2>2 DEF SlotsDiffer
<1>11. TitlesAreUsed /\ SpentIsMatched /\ OneSlotPerYaml /\ MatchesAreTrue
  BY DEF ImportInit, TitlesAreUsed, SpentIsMatched, OneSlotPerYaml, MatchesAreTrue
<1>12. ClaimsAreTrue /\ ClaimsComeLast
  BY DEF ImportInit, ClaimsAreTrue, ClaimsComeLast
<1> QED
  BY <1>9, <1>10, <1>11, <1>12 DEF ImportInv

-----------------------------------------------------------------------------
(***************************************************************************)
(* One step.                                                               *)
(***************************************************************************)

\* A slot keeps its match or is given one that was no other's.
LEMMA GivesOne ==
    ASSUME ImportInv, NEW s \in Slots, NEW Y, Y \subseteq Yamls, Give(s, Y), UNCHANGED lobby,
           \A t \in Slots : match[t] # NoYaml => match[t] \notin Y
    PROVE  /\ match' \in [Slots -> Yamls \cup {NoYaml}]
           /\ used' \subseteq Name /\ spent' \subseteq Yamls
           /\ \A t, u \in Slots : match'[t] # NoYaml /\ match'[t] = match'[u] => t = u
           /\ \A t \in Slots : match'[t] # match[t] => t = s /\ Y = {match'[t]} /\ match[t] = NoYaml
           /\ (\A t \in Slots : match[t] # NoYaml => lobby[match[t]].title \in used)
                => \A t \in Slots : match'[t] # NoYaml => lobby'[match'[t]].title \in used'
           /\ at = "third" => spent' = Matched(match')
<1> USE DEF ImportInv, ImportTypeOK
<1>1. CASE match[s] = NoYaml /\ Cardinality(Y) = 1
  <2>1. PICK y \in Yamls : Y = {y}
    BY <1>1, OneCandidate
  <2>2. (CHOOSE z \in Y : TRUE) = y
    BY <2>1
  <2>3. /\ match' = [match EXCEPT ![s] = y]
        /\ used' = used \cup {lobby[y].title}
        /\ spent' = IF at = "third" THEN spent \cup {y} ELSE spent
    BY <1>1, <2>2 DEF Give
  <2>4. y # NoYaml /\ lobby[y].title \in Name
    BY LobbyAssumption, YamlsListed DEF NoYaml
  <2>5. \A t \in Slots : match[t] # y
    BY <2>1, <2>4
  <2>6. at = "third" => spent' = Matched(match')
    <3> SUFFICES ASSUME at = "third" PROVE spent' = Matched(match')
      OBVIOUS
    <3>1. spent = Matched(match) /\ spent' = spent \cup {y}
      BY <2>3 DEF SpentIsMatched
    <3>2. Matched(match') = Matched(match) \cup {y}
      BY <2>3, <2>4, <1>1 DEF Matched
    <3> QED
      BY <3>1, <3>2
  <2>7. \A t, u \in Slots : match'[t] # NoYaml /\ match'[t] = match'[u] => t = u
    BY <2>3, <2>5 DEF OneSlotPerYaml
  <2>8. \A t \in Slots : match'[t] # match[t] => t = s /\ Y = {match'[t]} /\ match[t] = NoYaml
    BY <1>1, <2>1, <2>3
  <2>9. (\A t \in Slots : match[t] # NoYaml => lobby[match[t]].title \in used)
            => \A t \in Slots : match'[t] # NoYaml => lobby'[match'[t]].title \in used'
    BY <2>3
  <2> QED
    BY <2>3, <2>4, <2>6, <2>7, <2>8, <2>9
<1>2. CASE ~(match[s] = NoYaml /\ Cardinality(Y) = 1)
  <2>1. UNCHANGED planVars
    BY <1>2 DEF Give
  <2> QED
    BY <2>1 DEF planVars, OneSlotPerYaml, SpentIsMatched, Matched, Slots
<1> QED
  BY <1>1, <1>2

\* What is drawn once, and what is told by it, stays.
LEMMA WorldStays ==
    ASSUME UNCHANGED world
    PROVE  /\ Slots' = Slots /\ SlotsDiffer' = SlotsDiffer
           /\ UNCHANGED known => AllTellable' = AllTellable /\ \A s \in Slots : Tellable(s)' = Tellable(s)
<1>1. Slots' = Slots
  BY DEF world, Slots
<1>2. SlotsDiffer' = SlotsDiffer
  BY <1>1 DEF world, SlotsDiffer
<1>3. ASSUME UNCHANGED known PROVE \A s : Tellable(s)' = Tellable(s)
  BY <1>3 DEF world, Tellable, Names, NameNumber
<1>4. ASSUME UNCHANGED known PROVE AllTellable' = AllTellable
  BY <1>1, <1>3, <1>4 DEF AllTellable
<1> QED
  BY <1>1, <1>2, <1>3, <1>4

LEMMA ExactKeeps == ASSUME ImportInv, Exact PROVE ImportInv'
<1> USE DEF ImportInv
<1>1. /\ at = "exact" /\ at' = "cut"
      /\ match' \in [Slots -> Yamls \cup {NoYaml}]
      /\ \A s \in Slots : IsFirst(match'[s], ByName(s))
      /\ used' = {lobby[y].title : y \in Matched(match')}
      /\ next' = 1 /\ UNCHANGED <<world, round, known, wanted, spent, claims>>
  BY DEF Exact
<1>2. /\ Slots' = Slots /\ SlotsDiffer' /\ AllTellable' = AllTellable
      /\ UNCHANGED <<lobby, came, roster, position, rolled>>
  BY <1>1, WorldStays DEF world
<1>3. \A s \in Slots : match'[s] # NoYaml =>
          match'[s] \in Yamls /\ lobby[match'[s]].title = roster[s].name
  BY <1>1 DEF IsFirst, ByName
<1>4. Matched(match') \subseteq Yamls
  BY <1>1 DEF Matched
<1>5. used' \subseteq Name
  BY <1>1, <1>4, LobbyAssumption, YamlsListed DEF ImportTypeOK
<1>6. ImportTypeOK'
  BY <1>1, <1>2, <1>5 DEF ImportTypeOK, Passes
<1>7. TitlesAreUsed'
  BY <1>1, <1>2 DEF TitlesAreUsed, Matched
<1>8. OneSlotPerYaml'
  BY <1>2, <1>3 DEF OneSlotPerYaml, SlotsDiffer
<1>9. MatchesAreTrue'
  BY <1>1, <1>2, <1>3 DEF MatchesAreTrue, AllTellable, Tellable
<1>10. SpentIsMatched' /\ ClaimsComeLast' /\ ClaimsAreTrue'
  BY <1>1 DEF SpentIsMatched, ClaimsComeLast, ClaimsAreTrue
<1> QED
  BY <1>2, <1>6, <1>7, <1>8, <1>9, <1>10

\* A pass that visits a slot: what remains to show is whose yaml it gives.
LEMMA PassKeeps ==
    ASSUME ImportInv, at \in {"cut", "third"}, NEW s \in Slots, NEW Y, Y \subseteq Yamls,
           Give(s, Y), next' = next + 1,
           UNCHANGED <<world, at, round, known, wanted, claims>>,
           \A t \in Slots : match[t] # NoYaml => match[t] \notin Y,
           AllTellable => \A y : Y = {y} /\ match[s] = NoYaml => y = came[s]
    PROVE  ImportInv'
<1> USE DEF ImportInv
<1>1. /\ Slots' = Slots /\ SlotsDiffer' /\ AllTellable' = AllTellable
      /\ UNCHANGED <<lobby, came, roster, position, rolled, at, round, known, wanted, claims>>
  BY WorldStays DEF world
<1>2. /\ match' \in [Slots -> Yamls \cup {NoYaml}]
      /\ used' \subseteq Name /\ spent' \subseteq Yamls
      /\ \A t, u \in Slots : match'[t] # NoYaml /\ match'[t] = match'[u] => t = u
      /\ \A t \in Slots :
            match'[t] # match[t] => t = s /\ Y = {match'[t]} /\ match[t] = NoYaml
      /\ (\A t \in Slots : match[t] # NoYaml => lobby[match[t]].title \in used)
           => \A t \in Slots : match'[t] # NoYaml => lobby'[match'[t]].title \in used'
      /\ at = "third" => spent' = Matched(match')
  BY <1>1, GivesOne
<1>3. ImportTypeOK'
  BY <1>1, <1>2 DEF ImportTypeOK
<1>4. TitlesAreUsed' /\ OneSlotPerYaml'
  BY <1>1, <1>2 DEF TitlesAreUsed, OneSlotPerYaml
<1>5. SpentIsMatched'
  BY <1>1, <1>2 DEF SpentIsMatched, Matched
<1>6. MatchesAreTrue'
  <2> SUFFICES ASSUME AllTellable, NEW t \in Slots PROVE match'[t] \in {NoYaml, came[t]}
    BY <1>1 DEF MatchesAreTrue
  <2>1. CASE match'[t] = match[t]
    BY <2>1 DEF MatchesAreTrue
  <2>2. CASE match'[t] # match[t]
    BY <1>2, <2>2
  <2> QED
    BY <2>1, <2>2
<1>7. ClaimsComeLast' /\ ClaimsAreTrue'
  BY <1>1 DEF ClaimsComeLast, ClaimsAreTrue
<1> QED
  BY <1>1, <1>3, <1>4, <1>5, <1>6, <1>7

LEMMA CutKeeps == ASSUME ImportInv, Cut PROVE ImportInv'
<1> USE DEF ImportInv
<1> DEFINE s == next
           Y == ByCut(s)
<1>1. /\ at = "cut" /\ s \in Slots /\ Give(s, Y) /\ next' = next + 1
      /\ UNCHANGED <<world, at, round, known, wanted, claims>>
  BY DEF Cut
<1>2. Y \subseteq Yamls
  BY DEF ByCut
<1>3. \A t \in Slots : match[t] # NoYaml => match[t] \notin Y
  BY <1>1 DEF ByCut, TitlesAreUsed
<1>4. AllTellable => \A y : Y = {y} /\ match[s] = NoYaml => y = came[s]
  BY <1>1 DEF ByCut, AllTellable, Tellable
<1> HIDE DEF s, Y
<1> QED
  BY <1>1, <1>2, <1>3, <1>4, PassKeeps

LEMMA ThirdKeeps == ASSUME ImportInv, Third PROVE ImportInv'
<1> USE DEF ImportInv
<1> DEFINE s == next
           Y == ByThird(s)
<1>1. /\ at = "third" /\ s \in Slots /\ Give(s, Y) /\ next' = next + 1
      /\ UNCHANGED <<world, at, round, known, wanted, claims>>
  BY DEF Third
<1>2. Y \subseteq Yamls
  BY DEF ByThird
<1>3. \A t \in Slots : match[t] # NoYaml => match[t] \notin Y
  BY <1>1 DEF ByThird, SpentIsMatched, Matched
<1>4. ASSUME AllTellable, NEW y, Y = {y}, match[s] = NoYaml PROVE y = came[s]
  <2>1. came[s] \in Yamls /\ Names(came[s], s)
    BY <1>1, <1>4 DEF AllTellable, Tellable, ImportTypeOK
  <2>2. came[s] \notin spent
    <3> SUFFICES ASSUME came[s] \in spent PROVE FALSE
      OBVIOUS
    <3>1. PICK t \in Slots : match[t] = came[s] /\ match[t] # NoYaml
      BY <1>1 DEF SpentIsMatched, Matched
    <3>2. match[t] = came[t]
      BY <1>1, <1>4, <3>1 DEF MatchesAreTrue
    <3>3. t = s
      BY <1>1, <3>1, <3>2 DEF SlotsDiffer
    <3> QED
      BY <1>4, <3>1, <3>3
  <2>3. came[s] \in Y
    BY <2>1, <2>2 DEF ByThird
  <2> QED
    BY <1>4, <2>3
<1> HIDE DEF s, Y
<1> QED
  BY <1>1, <1>2, <1>3, <1>4, PassKeeps

\* The steps between passes.
LEMMA TurnsKeep ==
    ASSUME ImportInv, CutEnds \/ FirstPlanEnds \/ Fetch \/ FetchEnds PROVE ImportInv'
<1> USE DEF ImportInv
<1>1. UNCHANGED <<world, claims>> /\ at # "done" /\ at' # "done"
  BY DEF CutEnds, FirstPlanEnds, Fetch, FetchEnds, Replan
<1>2. /\ Slots' = Slots /\ SlotsDiffer' /\ (UNCHANGED known => AllTellable' = AllTellable)
      /\ UNCHANGED <<lobby, came, roster, position, rolled>>
  BY <1>1, WorldStays DEF world
<1>3. ClaimsComeLast' /\ ClaimsAreTrue'
  BY <1>1 DEF ClaimsComeLast, ClaimsAreTrue
<1>4. CASE CutEnds
  <2>1. /\ at = "cut" /\ at' = "third" /\ spent' = Matched(match) /\ next' = 1
        /\ UNCHANGED <<round, known, wanted, match, used>>
    BY <1>4 DEF CutEnds
  <2>2. Matched(match) \subseteq Yamls
    BY DEF Matched, ImportTypeOK
  <2>3. ImportTypeOK'
    BY <1>1, <1>2, <2>1, <2>2 DEF ImportTypeOK, Passes
  <2>4. TitlesAreUsed' /\ OneSlotPerYaml' /\ MatchesAreTrue'
    BY <1>2, <2>1 DEF TitlesAreUsed, OneSlotPerYaml, MatchesAreTrue
  <2>5. SpentIsMatched'
    BY <1>2, <2>1 DEF SpentIsMatched, Matched
  <2> QED
    BY <1>2, <1>3, <2>3, <2>4, <2>5
<1>5. ASSUME UNCHANGED planVars, at # "exact", at' = "fetch" PROVE
        TitlesAreUsed' /\ OneSlotPerYaml' /\ MatchesAreTrue' /\ SpentIsMatched'
  BY <1>2, <1>5 DEF planVars, TitlesAreUsed, OneSlotPerYaml, MatchesAreTrue, SpentIsMatched
<1>6. ASSUME Replan, UNCHANGED <<known, wanted>> PROVE ImportInv'
  <2>1. ImportTypeOK'
    BY <1>1, <1>2, <1>6 DEF Replan, ImportTypeOK, Passes
  <2>2. TitlesAreUsed' /\ OneSlotPerYaml' /\ MatchesAreTrue' /\ SpentIsMatched'
    BY <1>2, <1>6 DEF Replan, TitlesAreUsed, OneSlotPerYaml, MatchesAreTrue, SpentIsMatched
  <2> QED
    BY <1>2, <1>3, <2>1, <2>2
<1>7. CASE FirstPlanEnds
  <2>1. CASE Unused # {} /\ Unmatched # {}
    <3>1. /\ at = "third" /\ at' = "fetch" /\ wanted' = Unused
          /\ UNCHANGED <<next, round, planVars, known>>
      BY <1>7, <2>1 DEF FirstPlanEnds
    <3>2. ImportTypeOK'
      BY <1>1, <1>2, <3>1 DEF planVars, ImportTypeOK, Passes, Unused
    <3> QED
      BY <1>2, <1>3, <1>5, <3>1, <3>2
  <2>2. CASE ~(Unused # {} /\ Unmatched # {})
    BY <1>6, <1>7, <2>2 DEF FirstPlanEnds
  <2> QED
    BY <2>1, <2>2
<1>8. CASE Fetch
  <2>1. PICK y \in Yamls :
          /\ wanted' = wanted \ {y}
          /\ known' \in {[known EXCEPT ![y] = lobby[y].renames], known}
    BY <1>8 DEF Fetch
  <2>2. at = "fetch" /\ at' = "fetch" /\ UNCHANGED <<next, round, planVars>>
    BY <1>8 DEF Fetch
  <2>3. lobby[y].renames \in SUBSET Name
    BY LobbyAssumption, YamlsListed DEF ImportTypeOK
  <2>4. known' \in [Yamls -> SUBSET Name]
    BY <2>1, <2>3 DEF ImportTypeOK
  <2>5. ImportTypeOK'
    BY <1>1, <1>2, <2>1, <2>2, <2>4 DEF planVars, ImportTypeOK, Passes
  <2> QED
    BY <1>2, <1>3, <1>5, <2>2, <2>5
<1>9. CASE FetchEnds
  BY <1>6, <1>9 DEF FetchEnds
<1> QED
  BY <1>4, <1>7, <1>8, <1>9

LEMMA SecondPlanKeeps == ASSUME ImportInv, SecondPlanEnds PROVE ImportInv'
<1> USE DEF ImportInv
<1>1. /\ at = "third" /\ at' = "done"
      /\ claims' = {<<s, match[s]>> : s \in Claimable}
      /\ UNCHANGED <<world, next, round, known, wanted, planVars>>
  BY DEF SecondPlanEnds
<1>2. /\ Slots' = Slots /\ SlotsDiffer' /\ AllTellable' = AllTellable
      /\ UNCHANGED <<lobby, came, roster, position, rolled, match, used, spent>>
  BY <1>1, WorldStays DEF world, planVars
<1>3. claims' \subseteq Slots \X Yamls
  BY <1>1 DEF Claimable, ImportTypeOK
<1>4. ImportTypeOK'
  BY <1>1, <1>2, <1>3 DEF ImportTypeOK, Passes
<1>5. TitlesAreUsed' /\ SpentIsMatched' /\ OneSlotPerYaml' /\ MatchesAreTrue' /\ ClaimsComeLast'
  BY <1>1, <1>2 DEF TitlesAreUsed, SpentIsMatched, OneSlotPerYaml, MatchesAreTrue, ClaimsComeLast
<1>6. ClaimsAreTrue'
  <2> SUFFICES ASSUME AllTellable', NEW claim \in claims' PROVE claim[2] = came'[claim[1]]
    BY DEF ClaimsAreTrue, AllTellable
  <2>1. PICK s \in Claimable : claim = <<s, match[s]>>
    BY <1>1
  <2>2. match[s] = came[s]
    BY <1>1, <1>2, <2>1 DEF Claimable, MatchesAreTrue
  <2> QED
    BY <1>2, <2>1, <2>2
<1> QED
  BY <1>2, <1>4, <1>5, <1>6

LEMMA StutterKeeps == ASSUME ImportInv, UNCHANGED importVars PROVE ImportInv'
<1> USE DEF ImportInv
<1>1. /\ Slots' = Slots /\ SlotsDiffer' /\ AllTellable' = AllTellable
      /\ UNCHANGED <<lobby, came, roster, position, rolled, match, used, spent,
                     at, next, round, known, wanted, claims>>
  BY WorldStays DEF importVars, world, planVars
<1>2. ImportTypeOK' /\ TitlesAreUsed' /\ OneSlotPerYaml' /\ MatchesAreTrue' /\ ClaimsComeLast'
  BY <1>1 DEF ImportTypeOK, TitlesAreUsed, OneSlotPerYaml, MatchesAreTrue, ClaimsComeLast
<1>3. SpentIsMatched'
  BY <1>1 DEF SpentIsMatched, Matched
<1>4. ClaimsAreTrue'
  BY <1>1 DEF ClaimsAreTrue, AllTellable
<1> QED
  BY <1>1, <1>2, <1>3, <1>4

-----------------------------------------------------------------------------
(***************************************************************************)
(* The cut pass.  What the exact names used is told by the world alone,    *)
(* and the titles the pass itself has used were cut to the names of slots  *)
(* it has passed: none of them is missing where it comes next.             *)
(***************************************************************************)

ExactlyNamed == {s \in Slots : ByName(s) # {}}
ExactTitles == {roster[s].name : s \in ExactlyNamed}
CutTo(s) == {y \in Yamls : lobby[y].title \notin ExactTitles
                           /\ ApName(lobby[y].title) = roster[s].name}

InARow == \E n \in Int : Slots = 1..n

\* A slot the pass has been to is decided by CutTo alone.
Decided(s) ==
    /\ match[s] # NoYaml <=> Cardinality(CutTo(s)) = 1
    /\ match[s] # NoYaml => match[s] \in CutTo(s)

CutState ==
    at = "cut" =>
        /\ next >= 1
        /\ \A s \in ExactlyNamed : match[s] \in ByName(s)
        /\ \A s \in Slots \ ExactlyNamed : IF s < next THEN Decided(s) ELSE match[s] = NoYaml
        /\ \A title \in used \ ExactTitles :
              \E s \in Slots \ ExactlyNamed : match[s] # NoYaml /\ title = lobby[match[s]].title
        /\ ExactTitles \subseteq used

CutDone ==
    at = "third" /\ next = 1 =>
        /\ \A s \in ExactlyNamed : match[s] \in ByName(s)
        /\ \A s \in Slots \ ExactlyNamed : Decided(s)

CutInv == InARow /\ CutState /\ CutDone

LEMMA CutWorldStays ==
    ASSUME UNCHANGED world
    PROVE  /\ InARow' = InARow /\ ExactlyNamed' = ExactlyNamed /\ ExactTitles' = ExactTitles
           /\ \A s : ByName(s)' = ByName(s) /\ CutTo(s)' = CutTo(s)
<1>1. UNCHANGED <<lobby, came, roster>> /\ Slots' = Slots
  BY DEF world, Slots
<1>2. InARow' = InARow
  BY <1>1 DEF InARow
<1>3. \A s : ByName(s)' = ByName(s)
  BY <1>1 DEF ByName
<1>4. ExactlyNamed' = ExactlyNamed
  BY <1>1, <1>3 DEF ExactlyNamed
<1>5. ExactTitles' = ExactTitles
  BY <1>1, <1>4 DEF ExactTitles
<1>6. \A s : CutTo(s)' = CutTo(s)
  BY <1>1, <1>5 DEF CutTo
<1> QED
  BY <1>2, <1>3, <1>4, <1>5, <1>6

LEMMA InitCut == ImportInit => CutInv
<1> SUFFICES ASSUME ImportInit PROVE CutInv
  OBVIOUS
<1>1. PICK n \in {Cardinality(Yamls), Cardinality(Yamls) - 1} : came \in InOrder(n)
  BY DEF ImportInit, Generate
<1>2. Cardinality(Yamls) \in Nat
  BY LobbyAssumption, YamlsListed, FS_CardinalityType
<1>3. n \in Int /\ Slots = 1..n
  BY <1>1, <1>2 DEF InOrder, Slots
<1> QED
  BY <1>3 DEF CutInv, InARow, CutState, CutDone, ImportInit

LEMMA ExactCuts == ASSUME ImportInv, CutInv, Exact PROVE CutInv'
<1> USE DEF ImportInv
<1>1. /\ at' = "cut" /\ next' = 1 /\ UNCHANGED world
      /\ match' \in [Slots -> Yamls \cup {NoYaml}]
      /\ \A s \in Slots : IsFirst(match'[s], ByName(s))
      /\ used' = {lobby[y].title : y \in Matched(match')}
  BY DEF Exact
<1>2. /\ InARow' = InARow /\ ExactlyNamed' = ExactlyNamed /\ ExactTitles' = ExactTitles
      /\ \A s : ByName(s)' = ByName(s)
  BY <1>1, CutWorldStays
<1>3. UNCHANGED <<lobby, roster>> /\ Slots' = Slots
  BY <1>1 DEF world, Slots
<1>4. \A s \in ExactlyNamed : s \in Slots /\ match'[s] \in ByName(s) /\ match'[s] # NoYaml
                       /\ lobby[match'[s]].title = roster[s].name
  BY <1>1, LobbyAssumption, YamlsListed DEF ExactlyNamed, IsFirst, ByName, NoYaml
<1>5. \A s \in Slots \ ExactlyNamed : match'[s] = NoYaml
  BY <1>1 DEF ExactlyNamed, IsFirst
<1>6. used' = ExactTitles
  <2>1. used' \subseteq ExactTitles
    BY <1>1, <1>4, <1>5 DEF Matched, ExactTitles
  <2>2. ExactTitles \subseteq used'
    BY <1>1, <1>4 DEF Matched, ExactTitles
  <2> QED
    BY <2>1, <2>2
<1>7. \A s \in Slots : ~(s < 1)
  BY DEF CutInv, InARow
<1> QED
  BY <1>1, <1>2, <1>3, <1>4, <1>5, <1>6, <1>7 DEF CutInv, CutState, CutDone

\* Nothing the pass has used is what the next slot asks for.
LEMMA AsksTheSame ==
    ASSUME ImportInv, CutInv, at = "cut", next \in Slots \ ExactlyNamed
    PROVE  ByCut(next) = CutTo(next)
<1> USE DEF ImportInv
<1>1. ByCut(next) \subseteq CutTo(next)
  BY DEF ByCut, CutTo, CutInv, CutState
<1>2. ASSUME NEW y \in CutTo(next), lobby[y].title \in used PROVE FALSE
  <2>1. PICK s \in Slots \ ExactlyNamed : match[s] # NoYaml /\ lobby[y].title = lobby[match[s]].title
    BY <1>2 DEF CutInv, CutState, CutTo
  <2>2. s < next /\ match[s] \in CutTo(s)
    BY <2>1 DEF CutInv, CutState, Decided
  <2>3. roster[s].name = roster[next].name
    BY <2>1, <2>2 DEF CutTo
  <2>4. s = next
    BY <2>3 DEF SlotsDiffer
  <2>5. next \in Nat
    BY DEF ImportTypeOK
  <2> QED
    BY <2>2, <2>4, <2>5
<1> QED
  BY <1>1, <1>2 DEF ByCut, CutTo

LEMMA CutCuts == ASSUME ImportInv, CutInv, Cut PROVE CutInv'
<1> USE DEF ImportInv
<1>1. PICK s \in Slots : s = next
  BY DEF Cut
<1>2. /\ at = "cut" /\ at' = "cut" /\ Give(s, ByCut(s))
      /\ next' = s + 1 /\ UNCHANGED world
  BY <1>1 DEF Cut
<1>3. /\ InARow' = InARow /\ ExactlyNamed' = ExactlyNamed /\ ExactTitles' = ExactTitles
      /\ \A t : ByName(t)' = ByName(t) /\ CutTo(t)' = CutTo(t)
      /\ UNCHANGED <<lobby, roster>> /\ Slots' = Slots
  BY <1>2, CutWorldStays DEF world, Slots
<1>4. /\ s \in Nat /\ s >= 1 /\ ExactlyNamed \subseteq Slots /\ Slots \subseteq Int
      /\ match \in [Slots -> Yamls \cup {NoYaml}]
      /\ \A t \in ExactlyNamed : match[t] \in ByName(t) /\ match[t] # NoYaml
  BY <1>1, <1>2, LobbyAssumption, YamlsListed DEF CutInv, CutState, ImportTypeOK, ExactlyNamed, InARow, ByName, NoYaml
<1>5. s \notin ExactlyNamed => match[s] = NoYaml /\ ByCut(s) = CutTo(s)
  BY <1>1, <1>2, <1>4, AsksTheSame DEF CutInv, CutState
<1>6. /\ \A t \in Slots \ {s} : match'[t] = match[t]
      /\ s \in ExactlyNamed => match'[s] = match[s]
      /\ s \notin ExactlyNamed => Decided(s)'
      /\ used \subseteq used'
      /\ \A title \in used' \ used : s \notin ExactlyNamed /\ match'[s] # NoYaml
                                     /\ title = lobby[match'[s]].title
  <2>1. CASE s \in ExactlyNamed \/ Cardinality(ByCut(s)) # 1
    <3>1. UNCHANGED <<match, used>>
      BY <1>2, <1>4, <2>1 DEF Give, planVars
    <3>2. s \notin ExactlyNamed => Decided(s)'
      BY <1>3, <1>5, <2>1, <3>1 DEF Decided
    <3> QED
      BY <3>1, <3>2
  <2>2. CASE s \notin ExactlyNamed /\ Cardinality(ByCut(s)) = 1
    <3>1. PICK y \in Yamls : ByCut(s) = {y}
      BY <2>2, OneCandidate DEF ByCut
    <3>2. /\ match' = [match EXCEPT ![s] = y]
          /\ used' = used \cup {lobby[y].title}
      BY <1>2, <1>5, <2>2, <3>1 DEF Give
    <3>3. y # NoYaml
      BY LobbyAssumption, YamlsListed DEF NoYaml
    <3>4. Decided(s)'
      BY <1>3, <1>4, <1>5, <2>2, <3>1, <3>2, <3>3 DEF Decided
    <3> QED
      BY <1>4, <2>2, <3>2, <3>3, <3>4
  <2> QED
    BY <2>1, <2>2
<1>7. \A t \in ExactlyNamed : match'[t] \in ByName(t)
  BY <1>4, <1>6
<1>8. ASSUME NEW t \in Slots \ ExactlyNamed
      PROVE  IF t < s + 1 THEN Decided(t)' ELSE match'[t] = NoYaml
  <2>1. CASE t = s
    BY <1>4, <1>6, <2>1
  <2>2. CASE t # s
    <3>1. t < s + 1 <=> t < s
      BY <1>4, <2>2
    <3>2. Decided(t)' <=> Decided(t)
      BY <1>3, <1>6, <2>2 DEF Decided
    <3> QED
      BY <1>1, <1>2, <1>6, <2>2, <3>1, <3>2 DEF CutInv, CutState
  <2> QED
    BY <2>1, <2>2
<1>9. ASSUME NEW title \in used' \ ExactTitles
      PROVE  \E t \in Slots \ ExactlyNamed : match'[t] # NoYaml /\ title = lobby[match'[t]].title
  <2>1. CASE title \in used
    <3>1. PICK t \in Slots \ ExactlyNamed : match[t] # NoYaml /\ title = lobby[match[t]].title
      BY <1>2, <2>1 DEF CutInv, CutState
    <3> QED
      BY <1>5, <1>6, <3>1
  <2>2. CASE title \notin used
    BY <1>6, <2>2
  <2> QED
    BY <2>1, <2>2
<1>10. ExactTitles \subseteq used'
  BY <1>2, <1>6 DEF CutInv, CutState
<1>11. CutState'
  <2>1. next' >= 1 /\ \A t \in ExactlyNamed' : match'[t] \in ByName(t)'
    BY <1>2, <1>3, <1>4, <1>7
  <2>2. \A t \in Slots' \ ExactlyNamed' : IF t < next' THEN Decided(t)' ELSE match'[t] = NoYaml
    BY <1>2, <1>3, <1>8
  <2>3. /\ \A title \in used' \ ExactTitles' :
              \E t \in Slots' \ ExactlyNamed' : match'[t] # NoYaml /\ title = lobby'[match'[t]].title
        /\ ExactTitles' \subseteq used'
    BY <1>3, <1>9, <1>10
  <2> QED
    BY <2>1, <2>2, <2>3 DEF CutState
<1> QED
  BY <1>2, <1>3, <1>11 DEF CutInv, CutDone

\* The pass ends past the last slot, so it has been to all of them.
LEMMA CutEndsDecided == ASSUME ImportInv, CutInv, CutEnds PROVE CutInv'
<1> USE DEF ImportInv
<1>1. /\ at = "cut" /\ at' = "third" /\ next \notin Slots /\ next' = 1
      /\ UNCHANGED <<world, match>>
  BY DEF CutEnds
<1>2. /\ InARow' = InARow /\ ExactlyNamed' = ExactlyNamed
      /\ \A t : ByName(t)' = ByName(t) /\ CutTo(t)' = CutTo(t)
      /\ Slots' = Slots
  BY <1>1, CutWorldStays DEF world, Slots
<1>3. \A s \in Slots : s < next
  BY <1>1 DEF CutInv, InARow, CutState, ImportTypeOK
<1>4. \A s \in Slots \ ExactlyNamed : Decided(s)'
  BY <1>1, <1>2, <1>3 DEF CutInv, CutState, Decided
<1>5. \A s \in ExactlyNamed : match'[s] \in ByName(s)
  BY <1>1 DEF CutInv, CutState
<1> QED
  BY <1>1, <1>2, <1>4, <1>5 DEF CutInv, CutState, CutDone

LEMMA NextCuts == ASSUME ImportInv, CutInv, [ImportNext]_importVars PROVE CutInv'
<1>1. CASE Exact
  BY <1>1, ExactCuts
<1>2. CASE Cut
  BY <1>2, CutCuts
<1>3. CASE CutEnds
  BY <1>3, CutEndsDecided
<1>4. CASE Third \/ FirstPlanEnds \/ Fetch \/ FetchEnds \/ SecondPlanEnds
  <2>1. /\ UNCHANGED world /\ at' # "cut"
        /\ at' = "third" => next' = next + 1 /\ next \in Slots
    BY <1>4 DEF Third, FirstPlanEnds, Fetch, FetchEnds, SecondPlanEnds, Replan
  <2>2. \A s \in Slots : s + 1 # 1
    BY DEF CutInv, InARow
  <2>3. InARow' = InARow
    BY <2>1, CutWorldStays
  <2> QED
    BY <2>1, <2>2, <2>3 DEF CutInv, CutState, CutDone
<1>5. CASE UNCHANGED importVars
  <2>1. /\ UNCHANGED <<world, at, next, match, used, lobby>>
        /\ Slots' = Slots /\ InARow' = InARow /\ ExactlyNamed' = ExactlyNamed /\ ExactTitles' = ExactTitles
        /\ \A s : ByName(s)' = ByName(s) /\ CutTo(s)' = CutTo(s)
    BY <1>5, CutWorldStays DEF importVars, planVars, world, Slots
  <2>2. \A s : Decided(s)' <=> Decided(s)
    BY <2>1 DEF Decided
  <2> QED
    BY <2>1, <2>2 DEF CutInv, CutState, CutDone
<1> QED
  BY <1>1, <1>2, <1>3, <1>4, <1>5 DEF ImportNext

-----------------------------------------------------------------------------
(***************************************************************************)
(* A room that lines up: every yaml became the slot of its position under  *)
(* its own title, so every slot of it can be told.                         *)
(***************************************************************************)

\* The smaller of two numbers of a range is within the other's reach.
LEMMA Between ==
    ASSUME NEW n \in Nat, NEW a \in 1..n, NEW b \in 1..n, a < b \/ a = b
    PROVE  a \in 1..b /\ b \in a..n
  OBVIOUS

\* A list of n different numbers up to n, in order, is 1, 2, ..., n.
LEMMA InPlace ==
    ASSUME NEW n \in Nat, NEW f \in [1..n -> 1..n],
           \A s, t \in 1..n : s < t => f[s] < f[t]
    PROVE  \A s \in 1..n : f[s] = s
<1> TAKE s \in 1..n
<1>1. s \in Nat /\ f[s] \in 1..n
  OBVIOUS
<1>2. ASSUME f[s] < s PROVE FALSE
  <2> DEFINE S == 1..s
             T == 1..f[s]
             g == [x \in S |-> f[x]]
  <2>1. \A x \in S : x \in 1..n /\ (x < s \/ x = s)
    BY <1>1
  <2>2. g \in [S -> T]
    <3>1. ASSUME NEW x \in S PROVE f[x] \in T
      <4>1. f[x] \in 1..n /\ (f[x] < f[s] \/ f[x] = f[s])
        BY <2>1
      <4> QED
        BY <1>1, <4>1, Between, Zenon
    <3> QED
      BY <3>1
  <2>3. /\ IsFiniteSet(S) /\ IsFiniteSet(T)
        /\ Cardinality(S) = s /\ Cardinality(T) = f[s]
    <3>1. 1 \in Int /\ s \in Int /\ f[s] \in Int /\ s >= 1 /\ f[s] >= 1
      BY <1>1
    <3>2. IsFiniteSet(S) /\ Cardinality(S) = s
      BY <3>1, FS_Interval
    <3>3. IsFiniteSet(T) /\ Cardinality(T) = f[s]
      BY <3>1, FS_Interval
    <3> QED
      BY <3>2, <3>3
  <2> HIDE DEF S, T, g
  <2>4. PICK x, y \in S : x # y /\ g[x] = g[y]
    BY <1>2, <2>2, <2>3, FS_PigeonHole
  <2>5. f[x] = f[y] /\ (x < y \/ y < x)
    BY <2>1, <2>4 DEF g
  <2> QED
    BY <2>1, <2>5
<1>3. ASSUME s < f[s] PROVE FALSE
  <2> DEFINE S == s..n
             T == f[s]..n
             g == [x \in S |-> f[x]]
  <2>1. \A x \in S : x \in 1..n /\ (s < x \/ x = s)
    BY <1>1
  <2>2. g \in [S -> T]
    <3>1. ASSUME NEW x \in S PROVE f[x] \in T
      <4>1. f[x] \in 1..n /\ (f[s] < f[x] \/ f[s] = f[x])
        BY <2>1
      <4> QED
        BY <1>1, <4>1, Between, Zenon
    <3> QED
      BY <3>1
  <2>3. /\ IsFiniteSet(S) /\ IsFiniteSet(T)
        /\ Cardinality(S) = n - s + 1 /\ Cardinality(T) = n - f[s] + 1
    <3>1. n \in Int /\ s \in Int /\ f[s] \in Int /\ s <= n /\ f[s] <= n
      BY <1>1
    <3>2. IsFiniteSet(S) /\ Cardinality(S) = n - s + 1
      BY <3>1, FS_Interval
    <3>3. IsFiniteSet(T) /\ Cardinality(T) = n - f[s] + 1
      BY <3>1, FS_Interval
    <3> QED
      BY <3>2, <3>3
  <2>4. Cardinality(T) < Cardinality(S)
    BY <1>1, <1>3, <2>3
  <2> HIDE DEF S, T, g
  <2>5. PICK x, y \in S : x # y /\ g[x] = g[y]
    BY <2>2, <2>3, <2>4, FS_PigeonHole
  <2>6. f[x] = f[y] /\ (x < y \/ y < x)
    BY <2>1, <2>5 DEF g
  <2> QED
    BY <2>1, <2>6
<1> QED
  BY <1>1, <1>2, <1>3

\* Two finite sets that map into each other without a collision are as large.
LEMMA AsMany ==
    ASSUME NEW S, IsFiniteSet(S), NEW T, IsFiniteSet(T),
           NEW f \in [S -> T], \A x, y \in S : f[x] = f[y] => x = y,
           NEW g \in [T -> S], \A x, y \in T : g[x] = g[y] => x = y
    PROVE  Cardinality(S) = Cardinality(T)
<1>1. Cardinality(S) \in Nat /\ Cardinality(T) \in Nat
  BY FS_CardinalityType
<1>2. ~(Cardinality(T) < Cardinality(S))
  BY FS_PigeonHole
<1>3. ~(Cardinality(S) < Cardinality(T))
  BY FS_PigeonHole
<1> QED
  BY <1>1, <1>2, <1>3

\* What the generator writes into a seed is no template and not too long.
LEMMA Settled ==
    ASSUME NEW name \in Name, NEW player, NEW number
    PROVE  ResolvedName(name, player, number).form \in {"plain", "digits"}
<1>1. name.form \in Forms \cup {"digits"}
  BY DEF Name
<1>2. CASE name.form \in {"number", "Number", "player"}
  BY <1>2 DEF ResolvedName, WithDigits, Plainly
<1>3. CASE name.form \in {"plain", "over", "digits"}
  BY <1>3 DEF ResolvedName, ApName, Plainly
<1> QED
  BY <1>1, <1>2, <1>3 DEF Forms

\* A title that reads, as it stands or cut, as what a slot is called resolves to it.
LEMMA ReadsAsResolved ==
    ASSUME NEW name \in Name, NEW player, NEW number, NEW other,
           other.form \in {"plain", "digits"}, name = other \/ ApName(name) = other
    PROVE  ResolvedName(name, player, number) = other
<1>1. name.form \in Forms \cup {"digits"}
  BY DEF Name
<1>2. CASE name.form \in {"number", "Number", "player"}
  BY <1>2 DEF ApName
<1>3. CASE name.form = "over"
  BY <1>3 DEF ResolvedName, ApName
<1>4. CASE name.form \in {"plain", "digits"}
  BY <1>4 DEF ResolvedName, ApName
<1> QED
  BY <1>1, <1>2, <1>3, <1>4 DEF Forms

ToldByPosition ==
    LinesUp =>
        \A s \in Slots :
            /\ roster[s].name = ResolvedName(lobby[came[s]].title, s, NameNumber(came[s]))
            /\ \A y \in Yamls :
                  lobby[y].title = roster[s].name \/ ApName(lobby[y].title) = roster[s].name
                     => y = came[s]

LEMMA InitTold == ImportInit => ToldByPosition
<1> SUFFICES ASSUME ImportInit, LinesUp, NEW s \in Slots
             PROVE  /\ roster[s].name
                         = ResolvedName(lobby[came[s]].title, s, NameNumber(came[s]))
                    /\ \A y \in Yamls :
                          lobby[y].title = roster[s].name
                             \/ ApName(lobby[y].title) = roster[s].name
                             => y = came[s]
  BY DEF ToldByPosition
<1> DEFINE n == Cardinality(Yamls)
           R(y) == ResolvedName(lobby[y].title, position[y], NameNumber(y))
<1>1. ImportInv
  BY InitInv
<1>2. n \in Nat /\ Yamls = 1..n
  BY LobbyAssumption, YamlsListed
<1>3. Slots = 1..n /\ came \in [1..n -> Yamls]
      /\ \A t, u \in 1..n : t < u => position[came[t]] < position[came[u]]
  <2>1. PICK m \in {n, n - 1} : came \in InOrder(m)
    BY DEF ImportInit, Generate
  <2>2. Slots = 1..m /\ m \in Int
    BY <1>2, <2>1 DEF InOrder, Slots
  <2>3. m = n
    <3>1. Cardinality(1..m) = n
      BY <2>2 DEF LinesUp
    <3> QED
      BY <1>2, <2>1, <2>2, <3>1, FS_Interval
  <2> QED
    BY <2>1, <2>2, <2>3 DEF InOrder
<1>4. /\ position \in [Yamls -> 1..n]
      /\ \A y, z \in Yamls : position[y] = position[z] => y = z
  BY <1>2 DEF ImportInit, Lobby
<1>5. \A t \in 1..n : position[came[t]] = t
  <2> DEFINE f == [t \in 1..n |-> position[came[t]]]
  <2>1. f \in [1..n -> 1..n] /\ \A t, u \in 1..n : t < u => f[t] < f[u]
    BY <1>3, <1>4
  <2> HIDE DEF f
  <2>2. \A t \in 1..n : f[t] = t
    BY <1>2, <2>1, InPlace
  <2> QED
    BY <2>2 DEF f
<1>6. \A y \in Yamls : position[y] \in Slots /\ came[position[y]] = y
  BY <1>3, <1>4, <1>5
<1>7. \A y \in Yamls : rolled[y] = lobby[y].title
  BY DEF LinesUp, Unrenamed
<1>8. came[s] \in Yamls /\ s \in Nat \ {0}
  BY <1>2, <1>3
<1>9. roster[s].name = R(came[s])
  <2> DEFINE A == {t \in 1..s : rolled[came[t]] = rolled[came[s]]}
             Z == {z \in Yamls : lobby[z].title = lobby[came[s]].title
                                 /\ position[z] <= position[came[s]]}
  <2>1. \A t \in A : t \in Slots /\ came[t] \in Z
    BY <1>2, <1>3, <1>5, <1>7, <1>8
  <2>2. \A z \in Z : z \in Yamls /\ position[z] \in A
    BY <1>2, <1>3, <1>4, <1>5, <1>6, <1>7, <1>8
  <2>3. IsFiniteSet(A)
    <3>1. 1 \in Int /\ s \in Int
      BY <1>8
    <3>2. IsFiniteSet(1..s)
      BY <3>1, FS_Interval
    <3> QED
      BY <3>2, FS_Subset
  <2>4. IsFiniteSet(Z)
    BY LobbyAssumption, FS_Subset
  <2>5. \A t, u \in A : came[t] = came[u] => t = u
    BY <1>3, <1>5, <2>1
  <2> DEFINE f == [t \in A |-> came[t]]
             g == [z \in Z |-> position[z]]
  <2>6. f \in [A -> Z] /\ \A t, u \in A : f[t] = f[u] => t = u
    BY <2>1, <2>5
  <2>7. g \in [Z -> A] /\ \A y, z \in Z : g[y] = g[z] => y = z
    BY <1>4, <2>2
  <2>8. Cardinality(A) = NameNumber(came[s])
    <3> HIDE DEF A, Z, f, g
    <3>1. Cardinality(A) = Cardinality(Z)
      BY <2>3, <2>4, <2>6, <2>7, AsMany
    <3> QED
      BY <3>1 DEF Z, NameNumber
  <2>9. SeedName(s) = ResolvedName(rolled[came[s]], s, Cardinality(A))
    BY DEF SeedName
  <2>10. roster[s].name = SeedName(s)
    BY DEF ImportInit, Generate
  <2> HIDE DEF A
  <2> QED
    BY <1>3, <1>5, <1>7, <1>8, <2>8, <2>9, <2>10
<1>10. ASSUME NEW y \in Yamls,
              lobby[y].title = roster[s].name \/ ApName(lobby[y].title) = roster[s].name
       PROVE  y = came[s]
  <2>1. lobby[y].title \in Name /\ lobby[came[s]].title \in Name
    BY <1>1, <1>8, LobbyAssumption DEF ImportInv, ImportTypeOK
  <2>2. R(y) = R(came[s])
    <3>1. roster[s].name.form \in {"plain", "digits"}
      BY <1>9, <2>1, Settled
    <3> QED
      BY <1>9, <1>10, <2>1, <3>1, ReadsAsResolved
  <2>3. Distinct([z \in Yamls |-> R(z)])
    BY DEF LinesUp, Unrenamed
  <2> HIDE DEF R
  <2> QED
    BY <1>8, <2>2, <2>3 DEF Distinct
<1> QED
  BY <1>3, <1>5, <1>9, <1>10

LEMMA ToldStays == ASSUME UNCHANGED world PROVE ToldByPosition' = ToldByPosition
  BY DEF world, ToldByPosition, LinesUp, Unrenamed, Slots, Distinct, NameNumber

LEMMA ToldIsTellable ==
    ASSUME ImportInv, ToldByPosition, LinesUp
    PROVE  AllTellable
  BY DEF ImportInv, ImportTypeOK, ToldByPosition, AllTellable, Tellable, Names

-----------------------------------------------------------------------------
(***************************************************************************)
(* The last pass finds every slot that only one yaml could have filled.    *)
(***************************************************************************)

Found(s) == (\A y \in Yamls : Names(y, s) => y = came[s]) => match[s] = came[s]

ThirdState ==
    /\ at = "third" => next >= 1 /\ (AllTellable => \A s \in Slots : s < next => Found(s))
    /\ at = "done" => (AllTellable => \A s \in Slots : Found(s))

FoundInv == ToldByPosition /\ ThirdState

LEMMA FoundStays ==
    ASSUME UNCHANGED <<world, known>>, NEW s, match'[s] = match[s]
    PROVE  Found(s)' = Found(s)
  BY DEF world, Found, Names, NameNumber

LEMMA ThirdFinds == ASSUME ImportInv, CutInv, FoundInv, Third PROVE FoundInv'
<1> USE DEF ImportInv
<1>1. PICK s \in Slots : s = next
  BY DEF Third
<1>2. /\ at = "third" /\ at' = "third" /\ Give(s, ByThird(s)) /\ next' = s + 1
      /\ UNCHANGED <<world, known>>
  BY <1>1 DEF Third
<1>3. /\ Slots' = Slots /\ AllTellable' = AllTellable /\ ToldByPosition'
      /\ s \in Nat /\ s >= 1 /\ Slots \subseteq Int
  BY <1>1, <1>2, WorldStays, ToldStays DEF FoundInv, ThirdState, ImportTypeOK, CutInv, InARow
<1>4. ASSUME NEW t \in Slots, match[t] # NoYaml \/ t # s PROVE match'[t] = match[t]
  BY <1>2, <1>4 DEF Give, planVars, ImportTypeOK
<1>5. ASSUME AllTellable PROVE Found(s)'
  <2>1. match[s] \in {NoYaml, came[s]} /\ came[s] \in Yamls /\ Names(came[s], s)
    BY <1>2, <1>5 DEF MatchesAreTrue, AllTellable, Tellable, ImportTypeOK
  <2>2. CASE match[s] = came[s] /\ match[s] # NoYaml
    <3>1. match'[s] = came[s] /\ came' = came
      BY <1>2, <1>4, <2>2 DEF world
    <3> QED
      BY <3>1 DEF Found
  <2>3. CASE match[s] = NoYaml
    <3> SUFFICES ASSUME \A y \in Yamls : Names(y, s) => y = came[s]
                 PROVE  match'[s] = came[s]
      <4>1. \A y : Names(y, s)' = Names(y, s)
        BY <1>2 DEF world, Names, NameNumber
      <4>2. came' = came
        BY <1>2 DEF world
      <4> QED
        BY <4>1, <4>2 DEF Found
    <3>1. came[s] \notin spent
      <4> SUFFICES ASSUME came[s] \in spent PROVE FALSE
        OBVIOUS
      <4>1. PICK t \in Slots : match[t] = came[s] /\ match[t] # NoYaml
        BY <1>2 DEF SpentIsMatched, Matched
      <4>2. match[t] = came[t]
        BY <1>2, <1>5, <4>1 DEF MatchesAreTrue
      <4>3. t = s
        BY <4>1, <4>2 DEF SlotsDiffer
      <4> QED
        BY <2>3, <4>1, <4>3
    <3>2. ByThird(s) = {came[s]}
      BY <2>1, <3>1 DEF ByThird
    <3>3. Cardinality(ByThird(s)) = 1
      BY <3>2, FS_Singleton
    <3>4. (CHOOSE y \in ByThird(s) : TRUE) = came[s]
      BY <3>2
    <3>5. match' = [match EXCEPT ![s] = came[s]]
      BY <1>2, <2>3, <3>3, <3>4 DEF Give
    <3> QED
      BY <3>5 DEF ImportTypeOK
  <2> QED
    BY <2>1, <2>2, <2>3
<1>6. ASSUME AllTellable, NEW t \in Slots, t < s + 1 PROVE Found(t)'
  <2>1. CASE t = s
    BY <1>5, <1>6, <2>1
  <2>2. CASE t # s
    <3>1. t < s
      BY <1>3, <1>6, <2>2
    <3>2. Found(t)
      BY <1>1, <1>2, <1>6, <3>1 DEF FoundInv, ThirdState
    <3> QED
      BY <1>2, <1>4, <2>2, <3>2, FoundStays
  <2> QED
    BY <2>1, <2>2
<1>7. ThirdState'
  <2>1. next' >= 1 /\ (AllTellable' => \A t \in Slots' : t < next' => Found(t)')
    BY <1>2, <1>3, <1>6
  <2> QED
    BY <1>2, <2>1 DEF ThirdState
<1> QED
  BY <1>3, <1>7 DEF FoundInv

LEMMA NextFinds == ASSUME ImportInv, CutInv, FoundInv, [ImportNext]_importVars PROVE FoundInv'
<1> USE DEF ImportInv
<1>1. UNCHANGED world
  BY DEF ImportNext, Exact, Cut, CutEnds, Third, FirstPlanEnds, Fetch, FetchEnds, SecondPlanEnds, importVars
<1>2. Slots' = Slots /\ ToldByPosition'
  BY <1>1, WorldStays, ToldStays DEF FoundInv
<1>3. CASE Third
  BY <1>3, ThirdFinds
<1>4. CASE CutEnds
  <2>1. at' = "third" /\ next' = 1 /\ \A s \in Slots : ~(s < 1)
    BY <1>4 DEF CutEnds, CutInv, InARow
  <2> QED
    BY <1>2, <2>1 DEF FoundInv, ThirdState
<1>5. CASE SecondPlanEnds
  <2>1. /\ at = "third" /\ at' = "done" /\ next \notin Slots
        /\ UNCHANGED <<known, match>>
    BY <1>5 DEF SecondPlanEnds, planVars
  <2>2. \A s \in Slots : s < next
    BY <2>1 DEF FoundInv, ThirdState, CutInv, InARow, ImportTypeOK
  <2>3. AllTellable' = AllTellable /\ \A s : Found(s)' = Found(s)
    BY <1>1, <2>1, WorldStays, FoundStays
  <2> QED
    BY <1>2, <2>1, <2>2, <2>3 DEF FoundInv, ThirdState
<1>6. CASE Exact \/ Cut \/ FirstPlanEnds \/ Fetch \/ FetchEnds
  <2>1. at' \notin {"third", "done"}
    BY <1>6 DEF Exact, Cut, FirstPlanEnds, Fetch, FetchEnds, Replan
  <2> QED
    BY <1>2, <2>1 DEF FoundInv, ThirdState
<1>7. CASE UNCHANGED importVars
  <2>1. UNCHANGED <<at, next, known, match>>
    BY <1>7 DEF importVars, planVars
  <2>2. AllTellable' = AllTellable /\ \A s : Found(s)' = Found(s)
    BY <1>1, <2>1, WorldStays, FoundStays
  <2> QED
    BY <1>2, <2>1, <2>2 DEF FoundInv, ThirdState
<1> QED
  BY <1>3, <1>4, <1>5, <1>6, <1>7 DEF ImportNext

-----------------------------------------------------------------------------

LEMMA Invariance == ImportSpec => []ImportInv
<1>1. ImportInv /\ [ImportNext]_importVars => ImportInv'
  BY ExactKeeps, CutKeeps, ThirdKeeps, TurnsKeep, SecondPlanKeeps, StutterKeeps DEF ImportNext
<1> QED
  BY <1>1, InitInv, PTL DEF ImportSpec

\* Whatever the lobby answers, an import stays within what the code's types say.
THEOREM ImportTypesHold == ImportSpec => []ImportTypeOK
  BY Invariance, PTL DEF ImportInv

\* Whatever the names, and whichever passes match them, no yaml is given two
\* slots (plan, lobby.rs:665).
THEOREM YamlsAreSpentOnce == ImportSpec => []OneSlotPerYaml
  BY Invariance, PTL DEF ImportInv

\* For any number of yamls, names, templates and renames: where every slot can
\* be told, no slot is claimed for anybody but its own player (plan).
THEOREM ToldSlotsAreRight == ImportSpec => []ClaimsAreTrue
  BY Invariance, PTL DEF ImportInv

\* The cut pass comes to the slots one by one, and each is decided by what the
\* exact names left over, whichever were decided before it: "which slot asks
\* first cannot change the answer" (lobby.rs:690).
THEOREM OrderIsNoMatter == ImportSpec => []CutPassIgnoresOrder
<1>1. ImportInv /\ CutInv /\ [ImportNext]_importVars => CutInv'
  BY NextCuts
<1>2. ImportInv /\ CutInv => CutPassIgnoresOrder
  <2> SUFFICES ASSUME ImportInv, CutInv, at = "third", next = 1 PROVE CutPassIgnoresOrder
    BY DEF CutPassIgnoresOrder
  <2>1. {lobby[match[s]].title : s \in ExactlyNamed} = ExactTitles
    BY DEF CutInv, CutDone, ByName, ExactTitles
  <2>2. \A s \in Slots \ ExactlyNamed : Decided(s)
    BY DEF CutInv, CutDone
  <2> QED
    BY <2>1, <2>2 DEF CutPassIgnoresOrder, ExactlyNamed, Decided, CutTo
<1> QED
  BY <1>1, <1>2, InitCut, Invariance, PTL DEF ImportSpec

\* A lobby room that lines up with its seed gives no account another's slot, and
\* every slot that only one yaml could have filled finds it (plan and import).
THEOREM LinedUpRoomsAreRight == ImportSpec => []LinedUpRoomIsRight
<1>1. ImportInit => CutInv /\ FoundInv
  BY InitCut, InitTold DEF FoundInv, ThirdState, ImportInit
<1>2. ImportInv /\ CutInv /\ FoundInv /\ [ImportNext]_importVars => (CutInv /\ FoundInv)'
  BY NextCuts, NextFinds
<1>3. ImportInv /\ CutInv /\ FoundInv => LinedUpRoomIsRight
  <2> SUFFICES ASSUME ImportInv, FoundInv, at = "done", LinesUp, NEW s \in Slots
               PROVE  /\ match[s] \in {came[s], NoYaml}
                      /\ (\A y \in Yamls : Names(y, s) => y = came[s]) => match[s] = came[s]
    BY DEF LinedUpRoomIsRight
  <2>1. AllTellable
    BY ToldIsTellable DEF FoundInv
  <2>2. match[s] \in {came[s], NoYaml}
    BY <2>1 DEF ImportInv, MatchesAreTrue
  <2>3. Found(s)
    BY <2>1 DEF FoundInv, ThirdState
  <2> QED
    BY <2>2, <2>3 DEF Found
<1> QED
  BY <1>1, <1>2, <1>3, Invariance, PTL DEF ImportSpec

-----------------------------------------------------------------------------
(***************************************************************************)
(* For any number of replicas and requests and any windows: what a view    *)
(* says of its age is so, and a document once stored is never refused.     *)
(*                                                                         *)
(* A stored copy is at most Lag older than its stamp; a memoized one was   *)
(* fresh when it was memoized; a request is never longer than Lag at one   *)
(* document, and at most one is in hand while the other is obtained.       *)
(***************************************************************************)
Active == {"memo", "row", "dial", "said"}

RowInv ==
    \A d \in Documents : row[d] # None
        => row[d].at <= clock /\ row[d].at - row[d].said <= Lag

MemoInv ==
    \A r \in Replicas, d \in Documents : memo[r][d] # None
        => /\ memo[r][d].at <= clock /\ clock - memo[r][d].at < MemoTtl
           /\ memo[r][d].at - memo[r][d].said <= Ttl[d] + Lag

Timed(q) ==
    /\ pc[q] \in Active
        => since[q] <= clock /\ clock - since[q] <= Lag /\ wants[q] # {} /\ home[q] \in Replicas
    /\ pc[q] = "said" => since[q] <= said[q] /\ said[q] <= clock

Dated(q) == copy[q] # None => copy[q].at - copy[q].said <= Lag

\* A document in hand, called fresh, was this young when the next was begun.
Aged(q) ==
    \A d \in Documents : got[q][d] # None =>
        /\ d \notin wants[q]
        /\ got[q][d].stale => got[q][d].asOf - got[q][d].said <= Lag
        /\ ~got[q][d].stale =>
              /\ pc[q] \in Active => since[q] - got[q][d].said < Ttl[d] + MemoTtl + Lag
              /\ pc[q] = "done" => clock - got[q][d].said < Window(d)

Held(q) ==
    /\ \A d \in had[q] : row[d] # None
    /\ pc[q] \in {"dial", "said"} /\ Current(q) \in had[q] => copy[q] # None
    /\ pc[q] = "failed" => Current(q) \notin had[q]

\* Nothing is left of a request that was answered.
Blank(q) == pc[q] = "idle" => \A d \in Documents : got[q][d] = None

Inv ==
    /\ TypeOK /\ RowInv /\ MemoInv
    /\ \A q \in Requests : Timed(q) /\ Dated(q) /\ Aged(q) /\ Held(q) /\ Blank(q)

USE TrackerAssumption

-----------------------------------------------------------------------------
LEMMA CurrentIsDocument ==
    ASSUME NEW q \in Requests
    PROVE  Current(q) \in Documents
BY DEF Current, Documents

LEMMA StampTypes ==
    ASSUME TypeOK
    PROVE  /\ \A d \in Documents : row[d] # None => row[d] \in Copies
           /\ \A r \in Replicas, d \in Documents : memo[r][d] # None => memo[r][d] \in Copies
           /\ \A q \in Requests : copy[q] # None => copy[q] \in Copies
           /\ \A q \in Requests, d \in Documents : got[q][d] # None => got[q][d] \in Fetched
BY DEF TypeOK

LEMMA CopyFields ==
    /\ \A c \in Copies : c.said \in 0..MaxTime /\ c.at \in 0..MaxTime
    /\ \A s, a \in 0..MaxTime : [said |-> s, at |-> a] \in Copies
    /\ \A s, a \in 0..MaxTime : [said |-> s, at |-> a] # None
    /\ \A s, a \in 0..MaxTime, b \in BOOLEAN :
          /\ [said |-> s, asOf |-> a, stale |-> b] \in Fetched
          /\ [said |-> s, asOf |-> a, stale |-> b] # None
    /\ \A f \in Fetched : f.said \in 0..MaxTime /\ f.asOf \in 0..MaxTime /\ f.stale \in BOOLEAN
BY DEF Copies, Fetched

\* What a request has in hand, once it has obtained one more document.
LEMMA ObtainedKeeps ==
    ASSUME Inv, NEW q \in Requests, pc[q] \in Active, NEW f \in Fetched,
           f.stale => f.asOf - f.said <= Lag,
           ~f.stale => clock - f.said < Ttl[Current(q)] + MemoTtl + Lag,
           Obtained(q, f), clock' = clock
    PROVE  /\ pc' \in [Requests -> Places] /\ home' = home
           /\ wants' \in [Requests -> SUBSET Documents]
           /\ since' \in [Requests -> 0..MaxTime]
           /\ copy' \in [Requests -> Copies \cup {None}]
           /\ said' \in [Requests -> 0..MaxTime]
           /\ got' \in [Requests -> [Documents -> Fetched \cup {None}]]
           /\ had' \in [Requests -> SUBSET Documents]
           /\ \A p \in Requests : Timed(p)' /\ Dated(p)' /\ Aged(p)' /\ Blank(p)'
           /\ \A p \in Requests : had'[p] \subseteq had[p]
           /\ \A p \in Requests \ {q} : UNCHANGED <<pc[p], wants[p], copy[p], had[p]>>
           /\ pc'[q] \in {"memo", "done"}
<1> DEFINE c == Current(q)
<1>1. c \in Documents
  BY CurrentIsDocument
<1>2. TypeOK /\ clock \in 0..MaxTime
  BY DEF Inv, TypeOK
<1>3. /\ pc' \in [Requests -> Places] /\ home' = home
      /\ wants' \in [Requests -> SUBSET Documents]
      /\ since' \in [Requests -> 0..MaxTime]
      /\ said' \in [Requests -> 0..MaxTime]
      /\ copy' \in [Requests -> Copies \cup {None}]
      /\ had' \in [Requests -> SUBSET Documents]
  BY <1>2 DEF TypeOK, Obtained, Places
<1>4. got' \in [Requests -> [Documents -> Fetched \cup {None}]]
  BY <1>1, <1>2 DEF TypeOK, Obtained
<1>5. \A p \in Requests \ {q} :
          UNCHANGED <<pc[p], wants[p], copy[p], had[p], since[p], said[p], got[p], home[p]>>
  BY <1>2 DEF TypeOK, Obtained
<1>6. \A p \in Requests : had'[p] \subseteq had[p]
  BY <1>2 DEF TypeOK, Obtained
<1>7. /\ pc'[q] \in {"memo", "done"} /\ wants'[q] = wants[q] \ {c}
      /\ pc'[q] = (IF wants[q] = {c} THEN "done" ELSE "memo")
      /\ since'[q] = clock /\ copy'[q] = None
  BY <1>2 DEF TypeOK, Obtained
<1>8. /\ got'[q][c] = f
      /\ \A d \in Documents \ {c} : got'[q][d] = got[q][d]
  BY <1>1, <1>2 DEF TypeOK, Obtained
<1>9. wants[q] # {} /\ c \in wants[q] /\ home[q] \in Replicas
  <2>1. wants[q] # {} /\ home[q] \in Replicas /\ wants[q] \subseteq {"live", "static"}
    BY <1>2 DEF Inv, Timed, TypeOK, Documents
  <2> QED
    BY <2>1 DEF Current
<1>10. ASSUME NEW p \in Requests PROVE Timed(p)' /\ Dated(p)' /\ Blank(p)'
  <2>1. CASE p # q
    <3>1. Timed(p) /\ Dated(p) /\ Blank(p)
      BY DEF Inv
    <3> QED
      BY <3>1, <2>1, <1>5 DEF Timed, Dated, Blank
  <2>2. CASE p = q
    <3>1. pc'[q] = "memo" => wants'[q] # {}
      BY <1>7, <1>9
    <3> QED
      BY <3>1, <2>2, <1>2, <1>3, <1>7, <1>9 DEF Timed, Dated, Blank, Active
  <2> QED
    BY <2>1, <2>2
<1>11. ASSUME NEW p \in Requests PROVE Aged(p)'
  <2>1. CASE p # q
    <3>1. Aged(p)
      BY DEF Inv
    <3> QED
      BY <3>1, <2>1, <1>5 DEF Aged, Window
  <2>2. CASE p = q
    <3> SUFFICES ASSUME NEW d \in Documents, got'[q][d] # None
                 PROVE  /\ d \notin wants'[q]
                        /\ got'[q][d].stale => got'[q][d].asOf - got'[q][d].said <= Lag
                        /\ ~got'[q][d].stale =>
                             /\ pc'[q] \in Active
                                  => since'[q] - got'[q][d].said < Ttl[d] + MemoTtl + Lag
                             /\ pc'[q] = "done" => clock - got'[q][d].said < Window(d)
      BY <2>2 DEF Aged, Window
    <3>1. CASE d = c
      <4>1. f.said \in Int /\ clock \in Int /\ Ttl[d] \in Nat
        BY <1>2, CopyFields
      <4>2. ~f.stale => clock - f.said < Window(d)
        BY <4>1, <3>1 DEF Window
      <4> QED
        BY <4>2, <3>1, <1>7, <1>8
    <3>2. CASE d # c
      <4>1. got'[q][d] = got[q][d] /\ got[q][d] # None
        BY <3>2, <1>8
      <4>2. /\ d \notin wants[q]
            /\ got[q][d].stale => got[q][d].asOf - got[q][d].said <= Lag
            /\ ~got[q][d].stale => since[q] - got[q][d].said < Ttl[d] + MemoTtl + Lag
        BY <4>1 DEF Inv, Aged
      <4>3. wants[q] = {c}
        BY <4>2, <1>9, <1>2, <3>2 DEF Documents, TypeOK
      <4>4. pc'[q] = "done" /\ d \notin wants'[q]
        BY <4>3, <1>7
      <4>5. got[q][d].said \in Int /\ since[q] \in Int /\ clock \in Int /\ Ttl[d] \in Nat
        BY <4>1, <1>2, CopyFields, StampTypes DEF TypeOK
      <4>6. clock - since[q] <= Lag
        BY DEF Inv, Timed
      <4>7. ~got[q][d].stale => clock - got[q][d].said < Window(d)
        BY <4>2, <4>5, <4>6 DEF Window
      <4> QED
        BY <4>1, <4>2, <4>4, <4>7 DEF Active
    <3> QED
      BY <3>1, <3>2
  <2> QED
    BY <2>1, <2>2
<1> HIDE DEF c
<1> QED
  BY <1>3, <1>4, <1>5, <1>6, <1>7, <1>10, <1>11

LEMMA InitHolds == Init => Inv
<1> SUFFICES ASSUME Init PROVE Inv
  OBVIOUS
<1>1. TypeOK
  BY DEF Init, TypeOK, Nothing, Places
<1>2. RowInv /\ MemoInv
  BY DEF Init, RowInv, MemoInv, Nothing
<1>3. ASSUME NEW q \in Requests PROVE Timed(q) /\ Dated(q) /\ Aged(q) /\ Held(q) /\ Blank(q)
  <2>1. \A d \in Documents : got[q][d] = None
    BY DEF Init, Nothing
  <2> QED
    BY <2>1 DEF Init, Timed, Dated, Aged, Held, Blank, Active
<1> QED
  BY <1>1, <1>2, <1>3 DEF Inv

\* The memo after a put.
LEMMA PutKeeps ==
    ASSUME Inv, NEW r \in Replicas, NEW d \in Documents, NEW s \in 0..MaxTime,
           clock - s <= Ttl[d] + Lag, memo' = Put(r, d, s), clock' = clock
    PROVE  memo' \in [Replicas -> [Documents -> Copies \cup {None}]] /\ MemoInv'
<1>1. TypeOK /\ MemoInv /\ clock \in 0..MaxTime
  BY DEF Inv, TypeOK
<1> DEFINE entry == [said |-> s, at |-> clock]
<1>2. entry \in Copies /\ entry.said = s /\ entry.at = clock
  BY <1>1, CopyFields
<1>3. memo' = [memo EXCEPT ![r][d] = entry]
  BY DEF Put
<1> HIDE DEF entry
<1>4. memo' \in [Replicas -> [Documents -> Copies \cup {None}]]
  BY <1>1, <1>2, <1>3 DEF TypeOK
<1>5. ASSUME NEW x \in Replicas, NEW e \in Documents, memo'[x][e] # None
      PROVE  /\ memo'[x][e].at <= clock' /\ clock' - memo'[x][e].at < MemoTtl
             /\ memo'[x][e].at - memo'[x][e].said <= Ttl[e] + Lag
  <2>1. CASE x = r /\ e = d
    <3>1. memo'[x][e] = entry
      BY <1>1, <1>3, <2>1 DEF TypeOK
    <3> QED
      BY <3>1, <2>1, <1>1, <1>2
  <2>2. CASE ~(x = r /\ e = d)
    <3>1. memo'[x][e] = memo[x][e]
      BY <1>1, <1>3, <2>2 DEF TypeOK
    <3> QED
      BY <3>1, <1>1, <1>5 DEF MemoInv
  <2> QED
    BY <2>1, <2>2
<1> QED
  BY <1>4, <1>5 DEF MemoInv

\* A step in which a request obtains a document and the row loses nothing.
LEMMA ObtainingKeeps ==
    ASSUME Inv, NEW q \in Requests, pc[q] \in Active, NEW f \in Fetched,
           f.stale => f.asOf - f.said <= Lag,
           ~f.stale => clock - f.said < Ttl[Current(q)] + MemoTtl + Lag,
           Obtained(q, f), UNCHANGED clock,
           memo' \in [Replicas -> [Documents -> Copies \cup {None}]], MemoInv',
           row' \in [Documents -> Copies \cup {None}], RowInv',
           \A d \in Documents : row[d] # None => row'[d] # None
    PROVE  Inv'
<1>1. TypeOK /\ \A p \in Requests : Held(p)
  BY DEF Inv
<1>2. /\ pc' \in [Requests -> Places] /\ home' = home
      /\ wants' \in [Requests -> SUBSET Documents]
      /\ since' \in [Requests -> 0..MaxTime]
      /\ copy' \in [Requests -> Copies \cup {None}]
      /\ said' \in [Requests -> 0..MaxTime]
      /\ got' \in [Requests -> [Documents -> Fetched \cup {None}]]
      /\ had' \in [Requests -> SUBSET Documents]
      /\ \A p \in Requests : Timed(p)' /\ Dated(p)' /\ Aged(p)' /\ Blank(p)'
      /\ \A p \in Requests : had'[p] \subseteq had[p]
      /\ \A p \in Requests \ {q} : UNCHANGED <<pc[p], wants[p], copy[p], had[p]>>
      /\ pc'[q] \in {"memo", "done"}
  BY ObtainedKeeps
<1>3. TypeOK'
  BY <1>1, <1>2 DEF TypeOK
<1>4. ASSUME NEW p \in Requests PROVE Held(p)'
  <2>1. \A d \in had'[p] : row'[d] # None
    BY <1>1, <1>2 DEF Held, TypeOK
  <2>2. CASE p = q
    BY <2>1, <2>2, <1>2 DEF Held
  <2>3. CASE p # q
    <3>1. Held(p) /\ Current(p)' = Current(p)
      BY <1>1, <1>2, <2>3 DEF Current
    <3> QED
      BY <3>1, <2>1, <2>3, <1>2 DEF Held
  <2> QED
    BY <2>2, <2>3
<1> QED
  BY <1>2, <1>3, <1>4 DEF Inv

-----------------------------------------------------------------------------
(***************************************************************************)
(* One lemma per action.                                                   *)
(***************************************************************************)

LEMMA AskKeeps ==
    ASSUME Inv, NEW q \in Requests, Ask(q)
    PROVE  Inv'
<1>1. PICK r \in Replicas, v \in Views :
          /\ home' = [home EXCEPT ![q] = r]
          /\ wants' = [wants EXCEPT ![q] = v]
          /\ had' = [had EXCEPT ![q] = {d \in v : row[d] # None}]
  BY DEF Ask
<1>2. /\ TypeOK /\ pc[q] = "idle" /\ pc' = [pc EXCEPT ![q] = "memo"]
      /\ since' = [since EXCEPT ![q] = clock]
      /\ UNCHANGED <<clock, row, memo, copy, said, got>>
  BY DEF Ask, Inv
<1>3. v \subseteq Documents /\ v # {}
  BY DEF Views, Documents
<1>4. TypeOK'
  BY <1>1, <1>2, <1>3 DEF TypeOK, Places
<1>5. RowInv' /\ MemoInv'
  BY <1>2 DEF Inv, RowInv, MemoInv
<1>6. ASSUME NEW p \in Requests PROVE Timed(p)' /\ Dated(p)' /\ Aged(p)' /\ Held(p)' /\ Blank(p)'
  <2>1. Timed(p) /\ Dated(p) /\ Aged(p) /\ Held(p) /\ Blank(p)
    BY DEF Inv
  <2>2. CASE p # q
    <3>1. UNCHANGED <<pc[p], home[p], wants[p], had[p], since[p]>>
      BY <1>1, <1>2, <2>2 DEF TypeOK
    <3> QED
      BY <2>1, <3>1, <1>2 DEF Timed, Dated, Aged, Held, Blank, Current, Window
  <2>3. CASE p = q
    <3>1. /\ pc'[q] = "memo" /\ home'[q] = r /\ wants'[q] = v
          /\ had'[q] = {d \in v : row[d] # None} /\ since'[q] = clock
      BY <1>1, <1>2 DEF TypeOK
    <3>2. \A d \in Documents : got'[q][d] = None
      BY <1>2 DEF Inv, Blank
    <3>3. clock \in 0..MaxTime
      BY <1>2 DEF TypeOK
    <3> QED
      BY <2>1, <2>3, <3>1, <3>2, <3>3, <1>2, <1>3 DEF Timed, Dated, Aged, Held, Blank
  <2> QED
    BY <2>2, <2>3
<1> QED
  BY <1>4, <1>5, <1>6 DEF Inv

LEMMA FromMemoKeeps ==
    ASSUME Inv, NEW q \in Requests, FromMemo(q)
    PROVE  Inv'
<1> DEFINE c == Current(q)
           m == memo[home[q]][c]
<1>1. /\ pc[q] \in Active /\ m # None /\ Obtained(q, Fresh(m.said))
      /\ UNCHANGED <<clock, row, memo>>
  BY DEF FromMemo, Memoized, Active
<1>2. TypeOK /\ MemoInv /\ RowInv /\ Timed(q) /\ c \in Documents
  BY CurrentIsDocument DEF Inv
<1>3. home[q] \in Replicas
  BY <1>1, <1>2 DEF Timed
<1>4. /\ m \in Copies /\ m.at <= clock /\ clock - m.at < MemoTtl /\ m.at - m.said <= Ttl[c] + Lag
  BY <1>1, <1>2, <1>3, StampTypes DEF MemoInv
<1>5. /\ m.said \in 0..MaxTime /\ m.at \in 0..MaxTime /\ clock \in 0..MaxTime
      /\ Ttl[c] \in Nat
  BY <1>2, <1>4, CopyFields DEF TypeOK
<1>6. clock - m.said < Ttl[c] + MemoTtl + Lag
  BY <1>4, <1>5
<1> HIDE DEF m
<1>7. /\ Fresh(m.said) \in Fetched /\ Fresh(m.said).said = m.said
      /\ ~Fresh(m.said).stale
  BY <1>5, CopyFields DEF Fresh
<1>8. /\ memo' \in [Replicas -> [Documents -> Copies \cup {None}]] /\ MemoInv'
      /\ row' \in [Documents -> Copies \cup {None}] /\ RowInv'
      /\ \A d \in Documents : row[d] # None => row'[d] # None
  BY <1>1, <1>2 DEF TypeOK, MemoInv, RowInv
<1> QED
  BY <1>1, <1>6, <1>7, <1>8, ObtainingKeeps

LEMMA FromRowKeeps ==
    ASSUME Inv, NEW q \in Requests, FromRow(q)
    PROVE  Inv'
<1> DEFINE c == Current(q)
           s == row[c].said
<1>1. /\ pc[q] \in Active /\ row[c] # None /\ clock - row[c].at < Ttl[c]
      /\ memo' = Put(home[q], c, s) /\ Obtained(q, Fresh(s))
      /\ UNCHANGED <<clock, row>>
  BY DEF FromRow, FreshRow, Active
<1>2. TypeOK /\ RowInv /\ Timed(q) /\ c \in Documents
  BY CurrentIsDocument DEF Inv
<1>3. home[q] \in Replicas
  BY <1>1, <1>2 DEF Timed
<1>4. row[c] \in Copies /\ row[c].at - s <= Lag
  BY <1>1, <1>2, StampTypes DEF RowInv
<1>5. s \in 0..MaxTime /\ row[c].at \in 0..MaxTime /\ clock \in 0..MaxTime /\ Ttl[c] \in Nat
  BY <1>2, <1>4, CopyFields DEF TypeOK
<1>6. clock - s <= Ttl[c] + Lag /\ clock - s < Ttl[c] + MemoTtl + Lag
  BY <1>1, <1>4, <1>5
<1> HIDE DEF s
<1>7. Fresh(s) \in Fetched /\ Fresh(s).said = s /\ ~Fresh(s).stale
  BY <1>5, CopyFields DEF Fresh
<1>8. memo' \in [Replicas -> [Documents -> Copies \cup {None}]] /\ MemoInv'
  BY <1>1, <1>2, <1>3, <1>5, <1>6, PutKeeps
<1>9. /\ row' \in [Documents -> Copies \cup {None}] /\ RowInv'
      /\ \A d \in Documents : row[d] # None => row'[d] # None
  BY <1>1, <1>2 DEF TypeOK, RowInv
<1> QED
  BY <1>1, <1>6, <1>7, <1>8, <1>9, ObtainingKeeps

LEMMA StoreKeeps ==
    ASSUME Inv, NEW q \in Requests, Store(q)
    PROVE  Inv'
<1> DEFINE c == Current(q)
           s == said[q]
<1>1. /\ pc[q] = "said" /\ row' \in {row, Stored(c, s)}
      /\ memo' = Put(home[q], c, s) /\ Obtained(q, Fresh(s)) /\ UNCHANGED clock
  BY DEF Store
<1>2. TypeOK /\ RowInv /\ Timed(q) /\ c \in Documents
  BY CurrentIsDocument DEF Inv
<1>3. /\ home[q] \in Replicas /\ since[q] <= s /\ s <= clock /\ clock - since[q] <= Lag
  BY <1>1, <1>2 DEF Timed, Active
<1>4. s \in 0..MaxTime /\ since[q] \in 0..MaxTime /\ clock \in 0..MaxTime /\ Ttl[c] \in Nat
  BY <1>2 DEF TypeOK
<1>5. clock - s <= Lag /\ clock - s <= Ttl[c] + Lag /\ clock - s < Ttl[c] + MemoTtl + Lag
  BY <1>3, <1>4
<1> HIDE DEF s
<1>6. Fresh(s) \in Fetched /\ Fresh(s).said = s /\ ~Fresh(s).stale
  BY <1>4, CopyFields DEF Fresh
<1>7. memo' \in [Replicas -> [Documents -> Copies \cup {None}]] /\ MemoInv'
  BY <1>1, <1>2, <1>3, <1>4, <1>5, PutKeeps
<1>8. /\ row' \in [Documents -> Copies \cup {None}] /\ RowInv'
      /\ \A d \in Documents : row[d] # None => row'[d] # None
  <2>1. CASE row' = row
    BY <2>1, <1>1, <1>2 DEF TypeOK, RowInv
  <2>2. CASE row' = Stored(c, s)
    <3> DEFINE entry == [said |-> s, at |-> clock]
    <3>1. entry \in Copies /\ entry # None /\ entry.at = clock /\ entry.said = s
      BY <1>4, CopyFields
    <3>2. row' = [row EXCEPT ![c] = entry]
      BY <2>2 DEF Stored
    <3> HIDE DEF entry
    <3>3. row' \in [Documents -> Copies \cup {None}]
      BY <3>1, <3>2, <1>2 DEF TypeOK
    <3>4. ASSUME NEW d \in Documents, row'[d] # None
          PROVE  row'[d].at <= clock' /\ row'[d].at - row'[d].said <= Lag
      <4>1. CASE d = c
        BY <4>1, <3>1, <3>2, <1>1, <1>2, <1>4, <1>5 DEF TypeOK
      <4>2. CASE d # c
        <5>1. row'[d] = row[d]
          BY <4>2, <3>2, <1>2 DEF TypeOK
        <5> QED
          BY <5>1, <3>4, <1>1, <1>2 DEF RowInv
      <4> QED
        BY <4>1, <4>2
    <3>5. \A d \in Documents : row[d] # None => row'[d] # None
      BY <3>1, <3>2, <1>2 DEF TypeOK
    <3> QED
      BY <3>3, <3>4, <3>5 DEF RowInv
  <2> QED
    BY <1>1, <2>1, <2>2
<1>9. pc[q] \in Active
  BY <1>1 DEF Active
<1> QED
  BY <1>1, <1>5, <1>6, <1>7, <1>8, <1>9, ObtainingKeeps

LEMMA FallBackKeeps ==
    ASSUME Inv, NEW q \in Requests, FallBack(q)
    PROVE  Inv'
<1> DEFINE k == copy[q]
           f == [said |-> k.said, asOf |-> k.at, stale |-> TRUE]
<1>1. /\ pc[q] \in Active /\ k # None /\ Obtained(q, f) /\ UNCHANGED <<clock, row, memo>>
  BY DEF FallBack, Active
<1>2. TypeOK /\ RowInv /\ MemoInv /\ Dated(q)
  BY DEF Inv
<1>3. k \in Copies /\ k.at - k.said <= Lag
  BY <1>1, <1>2, StampTypes DEF Dated
<1>4. f \in Fetched /\ f.said = k.said /\ f.asOf = k.at /\ f.stale
  BY <1>3, CopyFields
<1> HIDE DEF f
<1>5. /\ memo' \in [Replicas -> [Documents -> Copies \cup {None}]] /\ MemoInv'
      /\ row' \in [Documents -> Copies \cup {None}] /\ RowInv'
      /\ \A d \in Documents : row[d] # None => row'[d] # None
  BY <1>1, <1>2 DEF TypeOK, MemoInv, RowInv
<1> QED
  BY <1>1, <1>3, <1>4, <1>5, ObtainingKeeps

\* The steps that move one request on and touch nothing shared.
LEMMA MissesKeep ==
    ASSUME Inv, NEW q \in Requests,
           MissMemo(q) \/ MissRow(q) \/ RoomSays(q) \/ Unreachable(q)
    PROVE  Inv'
<1>1. /\ TypeOK /\ RowInv /\ MemoInv /\ UNCHANGED <<clock, row, memo, home, wants, since, got, had>>
      /\ pc[q] \in Active
  BY DEF Inv, MissMemo, MissRow, RoomSays, Unreachable, Active
<1>2. RowInv' /\ MemoInv'
  BY <1>1 DEF RowInv, MemoInv
<1>3. Current(q) \in Documents /\ \A p \in Requests : Current(p)' = Current(p)
  BY <1>1, CurrentIsDocument DEF Current
<1>4. TypeOK'
  <2>1. pc' \in [Requests -> Places]
    <3>1. \E x \in Places : pc' = [pc EXCEPT ![q] = x]
      BY DEF MissMemo, MissRow, RoomSays, Unreachable, Places
    <3> QED
      BY <3>1, <1>1 DEF TypeOK
  <2>2. copy' \in [Requests -> Copies \cup {None}]
    <3>1. CASE MissRow(q)
      BY <3>1, <1>1, <1>3 DEF TypeOK, MissRow, Kept
    <3>2. CASE ~MissRow(q)
      BY <3>2, <1>1 DEF TypeOK, MissMemo, RoomSays, Unreachable
    <3> QED
      BY <3>1, <3>2
  <2>3. said' \in [Requests -> 0..MaxTime]
    <3>1. CASE RoomSays(q)
      BY <3>1, <1>1 DEF TypeOK, RoomSays
    <3>2. CASE ~RoomSays(q)
      BY <3>2, <1>1 DEF TypeOK, MissMemo, MissRow, Unreachable
    <3> QED
      BY <3>1, <3>2
  <2> QED
    BY <2>1, <2>2, <2>3, <1>1 DEF TypeOK
<1>5. ASSUME NEW p \in Requests PROVE Timed(p)' /\ Dated(p)' /\ Aged(p)' /\ Held(p)' /\ Blank(p)'
  <2>1. Timed(p) /\ Dated(p) /\ Aged(p) /\ Held(p) /\ Blank(p)
    BY DEF Inv
  <2>2. CASE p # q
    <3>1. UNCHANGED <<pc[p], copy[p], said[p]>>
      BY <1>1, <2>2 DEF TypeOK, MissMemo, MissRow, RoomSays, Unreachable
    <3> QED
      BY <2>1, <3>1, <1>1, <1>3 DEF Timed, Dated, Aged, Held, Blank, Window
  <2>3. CASE p = q
    <3>1. CASE MissMemo(q)
      <4>1. pc[q] = "memo" /\ pc'[q] = "row" /\ UNCHANGED <<copy, said>>
        BY <3>1, <1>1 DEF MissMemo, TypeOK
      <4> QED
        BY <2>1, <2>3, <4>1, <1>1 DEF Timed, Dated, Aged, Held, Blank, Active
    <3>2. CASE MissRow(q)
      <4>1. pc[q] = "row" /\ pc'[q] = "dial" /\ copy'[q] = row[Current(q)] /\ UNCHANGED said
        BY <3>2, <1>1 DEF MissRow, TypeOK, Kept
      <4>2. copy'[q] # None => copy'[q].at - copy'[q].said <= Lag
        BY <4>1, <1>1, <1>3 DEF RowInv
      <4>3. Held(q)'
        BY <2>1, <2>3, <4>1, <1>1, <1>3 DEF Held
      <4> QED
        BY <2>1, <2>3, <4>1, <4>2, <4>3, <1>1 DEF Timed, Dated, Aged, Blank, Active
    <3>3. CASE RoomSays(q)
      <4>1. /\ pc[q] = "dial" /\ pc'[q] = "said" /\ said'[q] = clock /\ UNCHANGED copy
            /\ clock \in 0..MaxTime
        BY <3>3, <1>1 DEF RoomSays, TypeOK
      <4>2. Held(q)'
        BY <2>1, <2>3, <4>1, <1>1, <1>3 DEF Held
      <4> QED
        BY <2>1, <2>3, <4>1, <4>2, <1>1 DEF Timed, Dated, Aged, Blank, Active
    <3>4. CASE Unreachable(q)
      <4>1. /\ pc[q] \in {"dial", "said"} /\ copy[q] = None /\ pc'[q] = "failed"
            /\ UNCHANGED <<copy, said>>
        BY <3>4, <1>1 DEF Unreachable, TypeOK
      <4>2. Held(q)'
        BY <2>1, <2>3, <4>1, <1>1, <1>3 DEF Held
      <4> QED
        BY <2>1, <2>3, <4>1, <4>2, <1>1 DEF Timed, Dated, Aged, Blank, Active
    <3> QED
      BY <3>1, <3>2, <3>3, <3>4
  <2> QED
    BY <2>2, <2>3
<1> QED
  BY <1>2, <1>4, <1>5 DEF Inv

\* A request that is over, or that its reader or its replica gave up.
LEMMA OverKeeps ==
    ASSUME Inv, NEW q \in Requests, Answer(q) \/ Abandoned(q)
    PROVE  Inv'
<1>1. /\ TypeOK /\ RowInv /\ MemoInv /\ Idle(q) /\ UNCHANGED <<clock, row, memo>>
  BY DEF Inv, Answer, Abandoned
<1>2. RowInv' /\ MemoInv'
  BY <1>1 DEF RowInv, MemoInv
<1>3. 0 \in 0..MaxTime /\ Nothing \in [Documents -> Fetched \cup {None}]
  BY DEF Nothing
<1>4. TypeOK'
  BY <1>1, <1>3 DEF TypeOK, Idle, Places
<1>5. ASSUME NEW p \in Requests PROVE Timed(p)' /\ Dated(p)' /\ Aged(p)' /\ Held(p)' /\ Blank(p)'
  <2>1. Timed(p) /\ Dated(p) /\ Aged(p) /\ Held(p) /\ Blank(p)
    BY DEF Inv
  <2>2. CASE p # q
    <3>1. UNCHANGED <<pc[p], home[p], wants[p], since[p], copy[p], said[p], got[p], had[p]>>
      BY <1>1, <2>2 DEF TypeOK, Idle
    <3> QED
      BY <2>1, <3>1, <1>1 DEF Timed, Dated, Aged, Held, Blank, Current, Window
  <2>3. CASE p = q
    <3>1. /\ pc'[q] = "idle" /\ copy'[q] = None /\ had'[q] = {}
          /\ \A d \in Documents : got'[q][d] = None
      BY <1>1 DEF TypeOK, Idle, Nothing
    <3> QED
      BY <2>3, <3>1 DEF Timed, Dated, Aged, Held, Blank, Active
  <2> QED
    BY <2>2, <2>3
<1> QED
  BY <1>2, <1>4, <1>5 DEF Inv

LEMMA RestartKeeps ==
    ASSUME Inv, NEW r \in Replicas, Restart(r)
    PROVE  Inv'
<1>1. /\ TypeOK /\ RowInv /\ MemoInv /\ UNCHANGED <<clock, row>>
      /\ memo' = [memo EXCEPT ![r] = Nothing]
  BY DEF Inv, Restart
<1>2. /\ pc' = [q \in Requests |-> IF home[q] = r THEN "idle" ELSE pc[q]]
      /\ home' = [q \in Requests |-> IF home[q] = r THEN None ELSE home[q]]
      /\ wants' = [q \in Requests |-> IF home[q] = r THEN {} ELSE wants[q]]
      /\ since' = [q \in Requests |-> IF home[q] = r THEN 0 ELSE since[q]]
      /\ copy' = [q \in Requests |-> IF home[q] = r THEN None ELSE copy[q]]
      /\ said' = [q \in Requests |-> IF home[q] = r THEN 0 ELSE said[q]]
      /\ got' = [q \in Requests |-> IF home[q] = r THEN Nothing ELSE got[q]]
      /\ had' = [q \in Requests |-> IF home[q] = r THEN {} ELSE had[q]]
  BY DEF Restart
<1>3. RowInv'
  BY <1>1 DEF RowInv
<1>4. /\ Nothing \in [Documents -> Copies \cup {None}]
      /\ Nothing \in [Documents -> Fetched \cup {None}]
      /\ 0 \in 0..MaxTime /\ \A d \in Documents : Nothing[d] = None
  BY DEF Nothing
<1>5. memo' \in [Replicas -> [Documents -> Copies \cup {None}]]
  BY <1>1, <1>4 DEF TypeOK
<1>6. MemoInv'
  BY <1>1, <1>4 DEF MemoInv, TypeOK
<1>7. TypeOK'
  <2>1. pc' \in [Requests -> Places]
    BY <1>1, <1>2 DEF TypeOK, Places
  <2>2. home' \in [Requests -> Replicas \cup {None}] /\ wants' \in [Requests -> SUBSET Documents]
        /\ had' \in [Requests -> SUBSET Documents]
    BY <1>1, <1>2 DEF TypeOK
  <2>3. since' \in [Requests -> 0..MaxTime] /\ said' \in [Requests -> 0..MaxTime]
    BY <1>1, <1>2, <1>4 DEF TypeOK
  <2>4. copy' \in [Requests -> Copies \cup {None}]
    BY <1>1, <1>2 DEF TypeOK
  <2>5. got' \in [Requests -> [Documents -> Fetched \cup {None}]]
    BY <1>1, <1>2, <1>4 DEF TypeOK
  <2> QED
    BY <1>1, <1>5, <2>1, <2>2, <2>3, <2>4, <2>5 DEF TypeOK
<1>8. ASSUME NEW p \in Requests PROVE Timed(p)' /\ Dated(p)' /\ Aged(p)' /\ Held(p)' /\ Blank(p)'
  <2>1. Timed(p) /\ Dated(p) /\ Aged(p) /\ Held(p) /\ Blank(p)
    BY DEF Inv
  <2>2. CASE home[p] # r
    <3>1. UNCHANGED <<pc[p], home[p], wants[p], since[p], copy[p], said[p], got[p], had[p]>>
      BY <1>2, <2>2
    <3> QED
      BY <2>1, <3>1, <1>1 DEF Timed, Dated, Aged, Held, Blank, Current, Window
  <2>3. CASE home[p] = r
    <3>1. /\ pc'[p] = "idle" /\ copy'[p] = None /\ had'[p] = {}
          /\ \A d \in Documents : got'[p][d] = None
      BY <1>2, <1>4, <2>3
    <3> QED
      BY <3>1 DEF Timed, Dated, Aged, Held, Blank, Active
  <2> QED
    BY <2>2, <2>3
<1> QED
  BY <1>3, <1>6, <1>7, <1>8 DEF Inv

LEMMA TickKeeps ==
    ASSUME Inv, Tick
    PROVE  Inv'
<1>1. /\ TypeOK /\ RowInv /\ MemoInv /\ clock < MaxTime /\ clock' = clock + 1
      /\ memo' = Expired
      /\ UNCHANGED <<row, pc, home, wants, since, copy, said, got, had>>
      /\ \A q \in Requests : pc[q] \notin {"done", "failed"}
                            /\ (pc[q] # "idle" => clock - since[q] < Lag)
  BY DEF Inv, Tick, requests
<1>2. clock \in 0..MaxTime /\ clock' \in 0..MaxTime
  BY <1>1 DEF TypeOK
<1>3. \A r \in Replicas, d \in Documents :
          memo'[r][d] # None => memo'[r][d] = memo[r][d] /\ clock + 1 - memo[r][d].at < MemoTtl
  <2>1. \A r \in Replicas, d \in Documents :
            memo'[r][d] = IF Lasts(r, d) THEN memo[r][d] ELSE None
    BY <1>1 DEF Expired
  <2> QED
    BY <2>1 DEF Lasts
<1>4. memo' \in [Replicas -> [Documents -> Copies \cup {None}]]
  BY <1>1 DEF Expired, TypeOK
<1>5. RowInv'
  <2> SUFFICES ASSUME NEW d \in Documents, row[d] # None
               PROVE  row[d].at <= clock' /\ row[d].at - row[d].said <= Lag
    BY <1>1 DEF RowInv
  <2>1. row[d].at \in 0..MaxTime
    BY <1>1, StampTypes, CopyFields
  <2> QED
    BY <2>1, <1>1, <1>2 DEF RowInv
<1>6. MemoInv'
  <2> SUFFICES ASSUME NEW r \in Replicas, NEW d \in Documents, memo'[r][d] # None
               PROVE  /\ memo'[r][d].at <= clock' /\ clock' - memo'[r][d].at < MemoTtl
                      /\ memo'[r][d].at - memo'[r][d].said <= Ttl[d] + Lag
    BY DEF MemoInv
  <2>1. memo'[r][d] = memo[r][d] /\ clock + 1 - memo[r][d].at < MemoTtl
    BY <1>3
  <2>2. memo[r][d].at \in 0..MaxTime
    BY <2>1, <1>1, StampTypes, CopyFields
  <2> QED
    BY <2>1, <2>2, <1>1, <1>2 DEF MemoInv
<1>7. TypeOK'
  BY <1>1, <1>2, <1>4 DEF TypeOK
<1>8. ASSUME NEW p \in Requests PROVE Timed(p)' /\ Dated(p)' /\ Aged(p)' /\ Held(p)' /\ Blank(p)'
  <2>1. Timed(p) /\ Dated(p) /\ Aged(p) /\ Held(p) /\ Blank(p)
    BY DEF Inv
  <2>2. Timed(p)'
    <3>1. since[p] \in 0..MaxTime /\ said[p] \in 0..MaxTime
      BY <1>1 DEF TypeOK
    <3> QED
      BY <2>1, <3>1, <1>1, <1>2 DEF Timed, Active
  <2>3. Dated(p)' /\ Held(p)' /\ Blank(p)' /\ Aged(p)'
    BY <2>1, <1>1 DEF Dated, Held, Blank, Aged, Current, Window
  <2> QED
    BY <2>2, <2>3
<1> QED
  BY <1>5, <1>6, <1>7, <1>8 DEF Inv

LEMMA NextKeeps == Inv /\ [Next]_vars => Inv'
<1> SUFFICES ASSUME Inv, [Next]_vars PROVE Inv'
  OBVIOUS
<1>1. ASSUME NEW q \in Requests,
             \/ Ask(q) \/ FromMemo(q) \/ MissMemo(q) \/ FromRow(q) \/ MissRow(q)
             \/ RoomSays(q) \/ Store(q) \/ FallBack(q) \/ Unreachable(q)
             \/ Answer(q) \/ Abandoned(q)
      PROVE  Inv'
  BY <1>1, AskKeeps, FromMemoKeeps, FromRowKeeps, StoreKeeps, FallBackKeeps, MissesKeep, OverKeeps
<1>2. ASSUME NEW r \in Replicas, Restart(r) PROVE Inv'
  BY <1>2, RestartKeeps
<1>3. ASSUME Tick PROVE Inv'
  BY <1>3, TickKeeps
<1>4. CASE UNCHANGED vars
  <2>1. UNCHANGED <<clock, row, memo, pc, home, wants, since, copy, said, got, had>>
    BY <1>4 DEF vars, requests
  <2>2. TypeOK' /\ RowInv' /\ MemoInv'
    BY <2>1 DEF Inv, TypeOK, RowInv, MemoInv
  <2>3. \A p \in Requests : Timed(p)' /\ Dated(p)' /\ Aged(p)' /\ Held(p)' /\ Blank(p)'
    BY <2>1 DEF Inv, Timed, Dated, Aged, Held, Blank, Current, Window
  <2> QED
    BY <2>2, <2>3 DEF Inv
<1> QED
  BY <1>1, <1>2, <1>3, <1>4 DEF Next

LEMMA InvHolds == Spec => []Inv
<1> QED
  BY InitHolds, NextKeeps, PTL DEF Spec

-----------------------------------------------------------------------------
\* Every variable keeps its type, whatever interleaves.
THEOREM TrackerTypesHold == Spec => []TypeOK
<1>1. Inv => TypeOK
  BY DEF Inv
<1> QED
  BY <1>1, InvHolds, PTL

\* For all windows and any number of requests: a document called current was
\* said within its window, and a stale one is dated truly (tracker.rs, obtain).
THEOREM AgesAreHonest == Spec => []AgeIsHonest
<1>1. Inv => AgeIsHonest
  <2> SUFFICES ASSUME Inv, NEW q \in Requests, NEW d \in Documents,
                      pc[q] = "done", got[q][d] # None
               PROVE  IF got[q][d].stale THEN got[q][d].asOf - got[q][d].said <= Lag
                      ELSE clock - got[q][d].said < Window(d)
    BY DEF AgeIsHonest
  <2> QED
    BY DEF Inv, Aged
<1> QED
  BY <1>1, InvHolds, PTL

\* A document the row held when the request began is served, stale or not,
\* whatever the room does (tracker.rs, obtain: the last copy put back).
THEOREM LastKnownCopiesAreServed == Spec => []LastKnownIsServed
<1>1. Inv => LastKnownIsServed
  BY DEF Inv, Held, LastKnownIsServed
<1> QED
  BY <1>1, InvHolds, PTL
===============================================================================
