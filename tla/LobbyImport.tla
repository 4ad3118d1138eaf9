------------------------------ MODULE LobbyImport -----------------------------
(***************************************************************************)
(* Whose slot is whose: the matching of a lobby room's yamls with the      *)
(* slots of the seed generated from them (lobby.rs, plan and import).      *)
(*                                                                         *)
(* A yaml is its index in the lobby's answer and stands for the account    *)
(* that owns it.  A name is a stem and a form: written out plainly, too    *)
(* long for the generator's sixteen characters, or a template; a name that *)
(* a template was resolved to has the form "digits".  Case is left out.    *)
(*                                                                         *)
(* ImportInit draws a lobby room and a seed the generator could have made  *)
(* of it, possibly without one of its yamls.  One import is then made of   *)
(* it, slot by slot; Claims has what happens beside the claims it leads to.*)
(***************************************************************************)
EXTENDS Integers, FiniteSets

CONSTANTS
    Yamls,      \* 1..n, in the order of the lobby's answer
    Entries,    \* what may be submitted: a title, and the names triggers may set
    Stems

Forms == {"plain", "over", "number", "Number", "player"}
Name == [stem : Stems, form : Forms, digits : {0}]
        \cup [stem : Stems, form : {"digits"}, digits : Nat \ {0}]

ASSUME LobbyAssumption ==
    /\ IsFiniteSet(Yamls) /\ Yamls = 1..Cardinality(Yamls)
    /\ Entries \subseteq [title : Name, renames : SUBSET Name]

VARIABLES
    \* the lobby's room and the seed: drawn once
    lobby,      \* what each yaml holds
    position,   \* the slot number the lobby predicts for it
    rolled,     \* the name the generator's triggers left it with
    came,       \* the yaml each slot really came from
    roster,     \* each slot's name in the seed, and whether it has an owner
    \* the import
    at,         \* "exact", "cut", "third", "fetch" or "done"
    next,       \* the slot a pass is at
    round,      \* the first plan or the second
    known,      \* alternate_names: the renames read so far
    wanted,     \* the yamls whose content is still to be read
    match,      \* the yaml each slot is matched to
    used,       \* titles that named a slot
    spent,      \* yamls that named a slot, for the third pass
    claims      \* what is claimed in the end

world == <<lobby, position, rolled, came, roster>>
planVars == <<match, used, spent>>
importVars == <<world, at, next, round, known, wanted, planVars, claims>>

NoYaml == 0
Slots == DOMAIN came
Passes == {"exact", "cut", "third", "fetch", "done"}

ImportTypeOK ==
    /\ lobby \in [Yamls -> Entries] /\ position \in [Yamls -> Int]
    /\ rolled \in [Yamls -> Name]
    /\ came \in [Slots -> Yamls]
    /\ roster \in [Slots -> [name : Name, owned : BOOLEAN]]
    /\ at \in Passes /\ next \in Nat /\ round \in {1, 2}
    /\ known \in [Yamls -> SUBSET Name] /\ wanted \subseteq Yamls
    /\ match \in [Slots -> Yamls \cup {NoYaml}]
    /\ used \subseteq Name /\ spent \subseteq Yamls
    /\ claims \subseteq Slots \X Yamls

-----------------------------------------------------------------------------
(***************************************************************************)
(* Names.                                                                  *)
(***************************************************************************)

Plainly(name) == [stem |-> name.stem, form |-> "plain", digits |-> 0]
WithDigits(name, n) == [stem |-> name.stem, form |-> "digits", digits |-> n]

\* The generator's cut and nothing else: a template stands.
ApName(name) == IF name.form = "over" THEN Plainly(name) ELSE name

\* All of handle_name, for the player-th yaml and the number-th of its name.
ResolvedName(name, player, number) ==
    CASE name.form = "number" -> WithDigits(name, number)
      [] name.form = "player" -> WithDigits(name, player)
      [] name.form = "Number" ->
            IF number > 1 THEN WithDigits(name, number) ELSE Plainly(name)
      [] OTHER -> ApName(name)

NameNumberListed(y) ==
    Cardinality({z \in Yamls : lobby[z].title = lobby[y].title /\ z <= y})
\* name_number: how many yamls of this title there are up to this one, in the
\* order the lobby predicts.
NameNumber(y) ==
    Cardinality({z \in Yamls : lobby[z].title = lobby[y].title /\ position[z] <= position[y]})

-----------------------------------------------------------------------------
(***************************************************************************)
(* The generator and the lobby, as lobby.rs describes them.  Triggers run  *)
(* before a name is read, the n-th yaml is player n, and names are         *)
(* distinct.                                                               *)
(***************************************************************************)

Distinct(names) == \A x, y \in DOMAIN names : names[x] = names[y] => x = y

Lobby ==
    /\ lobby \in [Yamls -> Entries]
    /\ position \in {[y \in Yamls |-> y], [y \in Yamls |-> Cardinality(Yamls) + 1 - y]}

\* All of the lobby's yamls, or one fewer, in the order of their positions.
InOrder(n) ==
    {c \in [1..n -> Yamls] :
        \A s, t \in 1..n : s < t => position[c[s]] < position[c[t]]}

SeedName(s) ==
    ResolvedName(rolled[came[s]], s,
                 Cardinality({t \in 1..s : rolled[came[t]] = rolled[came[s]]}))

Generate ==
    /\ rolled \in [Yamls -> UNION {{e.title} \cup e.renames : e \in Entries}]
    /\ \A y \in Yamls : rolled[y] \in {lobby[y].title} \cup lobby[y].renames
    /\ \E n \in {Cardinality(Yamls), Cardinality(Yamls) - 1} : came \in InOrder(n)
    /\ Distinct([s \in Slots |-> SeedName(s)])
    /\ \E owned \in SUBSET Slots :
        /\ Cardinality(owned) <= 1
        /\ roster = [s \in Slots |-> [name |-> SeedName(s), owned |-> s \in owned]]

ImportInit ==
    /\ Lobby /\ Generate
    /\ at = "exact" /\ next = 1 /\ round = 1
    /\ known = [y \in Yamls |-> {}] /\ wanted = {}
    /\ match = [s \in Slots |-> NoYaml] /\ used = {} /\ spent = {}
    /\ claims = {}

-----------------------------------------------------------------------------
(***************************************************************************)
(* plan: a pass on the names as they stand, one on the cut names, and one  *)
(* on renames and templates together.                                      *)
(***************************************************************************)

ByName(s) == {y \in Yamls : lobby[y].title = roster[s].name}
IsFirst(y, Y) == IF Y = {} THEN y = NoYaml ELSE y \in Y /\ \A z \in Y : y <= z
Matched(m) == {m[s] : s \in Slots} \ {NoYaml}

Exact ==
    /\ at = "exact"
    /\ match' \in [Slots -> Yamls \cup {NoYaml}]
    /\ \A s \in Slots : IsFirst(match'[s], ByName(s))
    /\ used' = {lobby[y].title : y \in Matched(match')}
    /\ at' = "cut" /\ next' = 1
    /\ UNCHANGED <<world, round, known, wanted, spent, claims>>

ByCutFirst(s) ==
    {y \in Yamls : IsFirst(y, {z \in Yamls : ApName(lobby[z].title) = roster[s].name})}
ByCut(s) ==
    {y \in Yamls : lobby[y].title \notin used /\ ApName(lobby[y].title) = roster[s].name}

\* Would this yaml, generated as this slot, have been called this?
Names(y, s) ==
    \/ \E rename \in known[y] : ApName(rename) = roster[s].name
    \/ ResolvedName(lobby[y].title, s, NameNumber(y)) = roster[s].name
ByThirdAgain(s) == {y \in Yamls : Names(y, s)}
ByThirdFirst(s) == {y \in Yamls : IsFirst(y, {z \in Yamls \ spent : Names(z, s)})}
ByThird(s) == {y \in Yamls \ spent : Names(y, s)}

\* A slot is given to a yaml only where it is the one candidate.
Give(s, candidates) ==
    IF match[s] = NoYaml /\ Cardinality(candidates) = 1
    THEN LET y == CHOOSE y \in candidates : TRUE IN
         /\ match' = [match EXCEPT ![s] = y]
         /\ used' = used \cup {lobby[y].title}
         /\ spent' = IF at = "third" THEN spent \cup {y} ELSE spent
    ELSE UNCHANGED planVars

Cut ==
    /\ at = "cut" /\ next \in Slots
    /\ Give(next, ByCut(next))
    /\ next' = next + 1
    /\ UNCHANGED <<world, at, round, known, wanted, claims>>

CutEnds ==
    /\ at = "cut" /\ next \notin Slots
    /\ spent' = Matched(match)
    /\ at' = "third" /\ next' = 1
    /\ UNCHANGED <<world, round, known, wanted, match, used, claims>>

Third ==
    /\ at = "third" /\ next \in Slots
    /\ Give(next, ByThird(next))
    /\ next' = next + 1
    /\ UNCHANGED <<world, at, round, known, wanted, claims>>

-----------------------------------------------------------------------------
(***************************************************************************)
(* import: a plan on names alone, the contents of the yamls it left over,  *)
(* and a plan with those.                                                  *)
(***************************************************************************)

Unused == {y \in Yamls : lobby[y].title \notin used}
Unmatched == {s \in Slots : match[s] = NoYaml /\ ~roster[s].owned}

Replan ==
    /\ at' = "exact" /\ next' = 1 /\ round' = 2
    /\ match' = [s \in Slots |-> NoYaml] /\ used' = {} /\ spent' = {}

FirstPlanEnds ==
    /\ at = "third" /\ next \notin Slots /\ round = 1
    /\ IF Unused # {} /\ Unmatched # {}
       THEN /\ at' = "fetch" /\ wanted' = Unused
            /\ UNCHANGED <<next, round, planVars>>
       ELSE Replan /\ UNCHANGED wanted
    /\ UNCHANGED <<world, known, claims>>

\* In the list's order; one that cannot be read is passed over.
Fetch ==
    /\ at = "fetch" /\ wanted # {}
    /\ \E y \in Yamls :
        /\ IsFirst(y, wanted)
        /\ wanted' = wanted \ {y}
        /\ \/ known' = [known EXCEPT ![y] = lobby[y].renames]
           \/ UNCHANGED known
    /\ UNCHANGED <<world, at, next, round, planVars, claims>>

FetchEnds ==
    /\ at = "fetch" /\ wanted = {}
    /\ Replan
    /\ UNCHANGED <<world, known, wanted, claims>>

Claimable == {s \in Slots : match[s] # NoYaml /\ ~roster[s].owned}

SecondPlanEnds ==
    /\ at = "third" /\ next \notin Slots /\ round = 2
    /\ claims' = {<<s, match[s]>> : s \in Claimable}
    /\ at' = "done"
    /\ UNCHANGED <<world, next, round, known, wanted, planVars>>

ImportNext ==
    \/ Exact \/ Cut \/ CutEnds \/ Third
    \/ FirstPlanEnds \/ Fetch \/ FetchEnds \/ SecondPlanEnds

ImportSpec == ImportInit /\ [][ImportNext]_importVars

-----------------------------------------------------------------------------
(***************************************************************************)
(* Properties.                                                             *)
(***************************************************************************)

\* No account is given two slots for one yaml, whichever passes named them:
\* one counts what is spent by title and the other by yaml (lobby.rs:756).
OneSlotPerYaml ==
    \A s, t \in Slots : match[s] # NoYaml /\ match[s] = match[t] => s = t

\* The cut pass goes slot by slot, and "which slot asks first cannot change the
\* answer" (lobby.rs:690): a slot is matched by its cut name exactly where one
\* yaml that no exact name used has it.
CutPassIgnoresOrder ==
    at = "third" /\ next = 1 =>
        LET named == {s \in Slots : ByName(s) # {}}
            titles == {lobby[match[s]].title : s \in named}
            cut(s) == {y \in Yamls : /\ lobby[y].title \notin titles
                                     /\ ApName(lobby[y].title) = roster[s].name}
        IN \A s \in Slots \ named :
              /\ match[s] # NoYaml <=> Cardinality(cut(s)) = 1
              /\ match[s] # NoYaml => match[s] \in cut(s)

\* The yaml a slot came from could have been called this by all that was read,
\* and no other one was submitted under this name.
Tellable(s) ==
    /\ Names(came[s], s)
    /\ \A y \in Yamls :
          lobby[y].title = roster[s].name \/ ApName(lobby[y].title) = roster[s].name
             => y = came[s]

\* "A wrong guess hands somebody else's world away" (lobby.rs:705): where every
\* slot can be told, in whatever order the passes come to them and whatever
\* other names the yamls might have had, each is claimed for its own player.
ClaimsAreTrue ==
    (\A s \in Slots : Tellable(s)) => \A claim \in claims : claim[2] = came[claim[1]]

\* No trigger renamed a yaml, and the lobby has no two that resolve to one name:
\* it refuses the second (lobby.rs:32).
Unrenamed ==
    /\ \A y \in Yamls : rolled[y] = lobby[y].title
    /\ Distinct([y \in Yamls |-> ResolvedName(lobby[y].title, position[y], NameNumber(y))])

\* And the seed was made of all of them.
LinesUp == Unrenamed /\ Cardinality(Slots) = Cardinality(Yamls)

\* Such a room's templates are counted as the generator counted them: no
\* account is given another's slot, and every slot that only one yaml could have
\* filled finds it.
LinedUpRoomIsRight ==
    at = "done" /\ LinesUp =>
        \A s \in Slots :
            /\ match[s] \in {came[s], NoYaml}
            /\ (\A y \in Yamls : Names(y, s) => y = came[s]) => match[s] = came[s]
=============================================================================
