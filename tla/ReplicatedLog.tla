--------------------------- MODULE ReplicatedLog ---------------------------
(***************************************************************************)
(* What a replicated state machine promises its clients: commands that     *)
(* were proposed are decided in one order, each at most once, and every    *)
(* node applies a growing prefix of what is decided.                       *)
(***************************************************************************)
EXTENDS Naturals, SequencesExt

CONSTANTS Node, Command

VARIABLES
  proposed,  \* commands some client proposed
  decided,   \* the order of the decided ones
  learned    \* what each node has applied

vars == <<proposed, decided, learned>>

Init ==
  /\ proposed = {}
  /\ decided = <<>>
  /\ learned = [n \in Node |-> <<>>]

Propose(c) ==
  /\ c \notin proposed
  /\ proposed' = proposed \cup {c}
  /\ UNCHANGED <<decided, learned>>

\* Node n applies more of the order, extending it if need be
Apply(n) ==
  /\ \E more \in SetToAllKPermutations(proposed \ ToSet(decided)) : decided' = decided \o more
  /\ \E k \in Len(learned[n]) + 1 .. Len(decided') :
        learned' = [learned EXCEPT ![n] = SubSeq(decided', 1, k)]
  /\ UNCHANGED proposed

Next == (\E c \in Command : Propose(c)) \/ (\E n \in Node : Apply(n))

Spec == Init /\ [][Next]_vars
=============================================================================
