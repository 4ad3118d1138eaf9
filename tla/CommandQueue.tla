----------------------------- MODULE CommandQueue -----------------------------
(***************************************************************************)
(* What the command queue promises those who ask, whoever carries their    *)
(* commands out and whatever becomes of it: commands are taken one at a    *)
(* time and in the order they were asked for, no command is taken twice,   *)
(* and each is answered once, by whoever has it in hand or, when nobody    *)
(* has, with a failure.  SlotControl implements it.                        *)
(***************************************************************************)
EXTENDS Naturals, Sequences

CONSTANTS
    Asks,       \* what may be asked for
    Answers     \* what may come of it

VARIABLES
    queue,      \* the commands, in the order they were asked for
    hand        \* the one in hand, or Nobody's

queued == <<queue, hand>>

Nobodys == 0

Init == queue = <<>> /\ hand = Nobodys

Becomes(c, s) == queue' = [queue EXCEPT ![c].state = s]

Ask(ask) ==
    /\ queue' = Append(queue, [ask |-> ask, state |-> "pending"])
    /\ UNCHANGED hand

\* Whoever takes a command and cannot read it lets go of it at once.
Take(c) ==
    /\ hand = Nobodys
    /\ queue[c].state = "pending"
    /\ \A d \in DOMAIN queue : d < c => queue[d].state # "pending"
    /\ Becomes(c, "running")
    /\ hand' \in {c, Nobodys}

Answer(c, answer) ==
    /\ hand = c /\ queue[c].state = "running"
    /\ Becomes(c, answer)
    /\ hand' = Nobodys

\* Whoever has it dies, or cannot record its answer.
LetGo ==
    /\ hand' = Nobodys
    /\ UNCHANGED queue

GiveUp(c) ==
    /\ hand = Nobodys /\ queue[c].state = "running"
    /\ Becomes(c, "failed")
    /\ UNCHANGED hand

Next ==
    \/ \E ask \in Asks : Ask(ask)
    \/ \E c \in DOMAIN queue :
          Take(c) \/ GiveUp(c) \/ \E answer \in Answers : Answer(c, answer)
    \/ LetGo

Spec == Init /\ [][Next]_queued
=============================================================================
