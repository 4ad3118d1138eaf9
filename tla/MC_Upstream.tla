----------------------------- MODULE MC_Upstream -----------------------------
(***************************************************************************)
(* What the web tier makes of what others tell it, for TLC: an import from *)
(* the lobby and the copies of a room's trackers. Neither knows the other, *)
(* so that where one moves the other stays as it began.                    *)
(*                                                                         *)
(* Three yamls of three stems: each form of name, and triggers that rename *)
(* a yaml to another stem, to one that another may have too.               *)
(***************************************************************************)
EXTENDS LobbyImport, TrackerCache, TLC

ThreeYamls == 1..3
Named(stem, form) == [stem |-> stem, form |-> form, digits |-> 0]
Submitted(title, renames) == [title |-> title, renames |-> renames]

AllEntries ==
    {Submitted(Named("a", form), {}) : form \in Forms} \cup
    {Submitted(Named("b", "plain"), {}),
     Submitted([Named("a", "digits") EXCEPT !.digits = 1], {}),
     Submitted(Named("b", "over"), {Named("a", "plain")}),
     Submitted(Named("a", "plain"), {Named("b", "plain")}),
     Submitted(Named("a", "number"), {Named("b", "plain"), Named("c", "over")})}

\* The static document's window is the longer one.
Windows == "live" :> 1 @@ "static" :> 2

Interchangeable == Permutations(Requests) \cup Permutations(Replicas)

\* Nobody is asking, of three yamls of which none has a second name.
NoImport ==
    /\ at = "exact" /\ round = 1
    /\ lobby = << Submitted(Named("a", "plain"), {}), Submitted(Named("b", "plain"), {}),
                  Submitted(Named("a", "over"), {}) >>
    /\ position = [y \in Yamls |-> y] /\ came = <<1, 2>>
    /\ \A s \in DOMAIN came : ~roster[s].owned

UpstreamInit == ImportInit /\ Init

UpstreamNext ==
    \/ Init /\ ImportNext /\ UNCHANGED vars
    \/ NoImport /\ Next /\ UNCHANGED importVars

UpstreamSpec == UpstreamInit /\ [][UpstreamNext]_<<importVars, vars>>
=============================================================================
