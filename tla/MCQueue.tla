------------------------------ MODULE MCQueue ------------------------------
(***************************************************************************)
(* QueueProperties for TLC.  Scenario cuts the behaviours of Spec down to  *)
(* those where entries are applied at once and a follower learns of        *)
(* commits while no call is under way: every behaviour of ScenarioSpec is  *)
(* one of Spec.                                                            *)
(***************************************************************************)
EXTENDS QueueProperties, TLC

AllOneKey == [m \in Message |-> CHOOSE k \in Key : TRUE]
OwnKeys == CHOOSE f \in [Message -> Key] : IsInjective(f)

Scenario ==
  /\ (\A n \in Node : Settled(n)) \/ applied' # applied
  /\ \A n \in Node \ {leader} : commit'[n] # commit[n] => calls = {}

ScenarioSpec == Init /\ [][Next /\ Scenario]_vars
FairScenarioSpec == ScenarioSpec /\ Fairness

\* With OwnKeys, messages may be exchanged together with their keys
WithKeys(p) == p @@ [k \in Key |-> KeyOf[p[CHOOSE m \in Message : KeyOf[m] = k]]]

Symmetry == Permutations(Consumer) \cup Permutations(Node)
              \cup {WithKeys(p) : p \in Permutations(Message)}
=============================================================================
