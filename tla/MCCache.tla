------------------------------ MODULE MCCache ------------------------------
(***************************************************************************)
(* CacheProperties for TLC.  Scenario cuts the behaviours of Spec down to  *)
(* those where entries are applied at once, one write and two              *)
(* invalidations are under way at a time, and a follower learns of commits *)
(* between writes, of all there are: every behaviour of ScenarioSpec is    *)
(* one of Spec.                                                            *)
(***************************************************************************)
EXTENDS CacheProperties

Scenario ==
  /\ Cardinality(calls') <= 1 /\ Cardinality(inNet') <= 2
  /\ (\A n \in Node : Settled(n)) \/ applied' # applied
  /\ \A n \in Node \ {leader} :
       commit'[n] # commit[n] => calls = {} /\ commit'[n] = commit[leader]

ScenarioSpec == Init /\ [][Next /\ Scenario]_vars

Symmetry == Permutations(Key)
=============================================================================
