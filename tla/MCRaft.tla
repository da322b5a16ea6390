------------------------------- MODULE MCRaft -------------------------------
(***************************************************************************)
(* RaftProperties for TLC.  Scenario cuts the behaviours of Spec down to   *)
(* those where First alone runs for term 1 and Second for later terms,     *)
(* a node proposes no more than MaxPerNode commands, and no more than      *)
(* MaxRounds replication rounds run at a time: every behaviour of          *)
(* ScenarioSpec is one of Spec.                                            *)
(***************************************************************************)
EXTENDS RaftProperties

CONSTANTS First, Second, MaxRounds, MaxPerNode

Symmetry == Permutations(Node) \cup Permutations(Command)
ScenarioSymmetry == Permutations(Node \ {First, Second}) \cup Permutations(Command)

Running == {x \in Node \X Slot : round[x[1]][x[2]].phase \in {"ready", "sent"}}

Scenario ==
  /\ \A n \in Node : role'[n] = "CANDIDATE" =>
        n = IF currentTerm'[n] = 1 THEN First ELSE Second
  /\ Cardinality(Running') <= MaxRounds
  /\ \A n \in Node : Cardinality({c \in Command : round'[n][c].phase # "idle"}) <= MaxPerNode

ScenarioSpec == Init /\ [][Next /\ Scenario]_vars
FairScenarioSpec == ScenarioSpec /\ Fairness(First)
=============================================================================
