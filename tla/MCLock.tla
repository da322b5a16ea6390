------------------------------- MODULE MCLock -------------------------------
(***************************************************************************)
(* LockProperties for TLC.  Scenario cuts the behaviours of Spec down to   *)
(* those where a certain node leads first, a follower that hears of        *)
(* commits hears of all there are, only what appends, commits or applies   *)
(* an entry comes between a grant and the start of its task, and one of    *)
(* the two loops of a node at a time waits for self._lock: every behaviour *)
(* of ScenarioSpec is one of Spec.                                         *)
(***************************************************************************)
EXTENDS LockProperties, TLC

First == CHOOSE n \in Node : TRUE

Scenario ==
  /\ \A n \in Node : commit'[n] \in {commit[n], commit'[leader]}
  /\ (\E r \in Request : calls[r].pc = "answered" /\ calls'[r].pc = "answered")
       => log' # log \/ commit' # commit \/ applied' # applied
  /\ \A n \in Node : ~ {"expiry", "detector"} \subseteq ToSet(line'[n])

ScenarioSpec == Init /\ leader = First /\ [][Next /\ Scenario]_vars
FairScenarioSpec == ScenarioSpec /\ Fairness

\* Clients that wait for the answer to a release before they ask for a lock
\* again, and release what they have: a release is answered when the leader
\* has applied it.
Sequential ==
  LET answered(i) == \E n \in Node : i <= applied[n] IN
  /\ \A r \in Request : calls[r].pc = "idle" /\ calls'[r].pc # "idle" =>
       \A i \in DOMAIN log :
         log[i].op = "release" /\ log[i].client = calls'[r].client => answered(i)
  /\ Len(log') > Len(log) /\ log'[Len(log')].op = "release" =>
       \E g \in granted : g.client = log'[Len(log')].client

SequentialSpec == Init /\ leader = First /\ [][Next /\ Scenario /\ Sequential]_vars

Symmetry == Permutations(Client) \cup Permutations(Request)
=============================================================================
