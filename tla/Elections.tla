----------------------------- MODULE Elections -----------------------------
(***************************************************************************)
(* What leader election promises, without saying how: terms only grow, a   *)
(* term is won at most once, and a node leads only in the term it won.     *)
(* The code it abstracts is _start_election, _become_leader and            *)
(* _become_follower of src/src/consensus/raft.py.                          *)
(***************************************************************************)
EXTENDS Naturals

CONSTANT Node

VARIABLES
  term,     \* the term each node has reached
  leading,  \* the nodes that act as leader
  won       \* pairs <<t, n>>: node n won term t

vars == <<term, leading, won>>

Init ==
  /\ term = [n \in Node |-> 0]
  /\ leading = {}
  /\ won = {}

\* A node reaches a newer term, as candidate or as follower
NewTerm(n) ==
  /\ term' \in [Node -> Nat]
  /\ term'[n] > term[n]
  /\ \A p \in Node \ {n} : term'[p] = term[p]
  /\ leading' = leading \ {n}
  /\ UNCHANGED won

Win(n) ==
  /\ \A w \in won : w[1] # term[n]
  /\ won' = won \cup {<<term[n], n>>}
  /\ leading' = leading \cup {n}
  /\ UNCHANGED term

Resign(n) ==
  /\ n \in leading
  /\ leading' = leading \ {n}
  /\ UNCHANGED <<term, won>>

Next == \E n \in Node : NewTerm(n) \/ Win(n) \/ Resign(n)

Spec == Init /\ [][Next]_vars
=============================================================================
