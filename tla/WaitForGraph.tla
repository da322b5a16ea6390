---------------------------- MODULE WaitForGraph ----------------------------
(***************************************************************************)
(* class WaitForGraph of src/src/nodes/lock_manager.py: a directed graph   *)
(* of clients, as a set of pairs <<waiter, holder>>, and the depth-first   *)
(* search for a cycle.                                                     *)
(*                                                                         *)
(* A dict or a set of Python is walked through in an order that is not the *)
(* program's to choose, so a loop over one takes any of its elements next, *)
(* and the search has a set of results.                                    *)
(***************************************************************************)
EXTENDS Naturals, FiniteSets, SequencesExt

\* add_wait, for all holders of a lock
AddWaits(graph, c, holders) == graph \cup ({c} \X holders)

\* remove_client
RemoveClient(graph, c) == {e \in graph : e[1] # c /\ e[2] # c}

Neighbours(graph, V, v) == {w \in V : <<v, w>> \in graph}

WholePath(path, v) == path                               \* mutant of CycleOf
CycleOf(path, v) == SubSeq(path, CHOOSE i \in DOMAIN path : path[i] = v, Len(path))

\* A loop that calls dfs: the nodes it has left, and `path' and `visited'
Loops(V) == [left : SUBSET V, path : Seq(V), visited : SUBSET V]

VisitedFirst(loop, graph, V, l, v) ==                    \* mutant of Visit
  IF v \in l.visited THEN {[cycle |-> <<>>, visited |-> l.visited]}
  ELSE IF v \in ToSet(l.path) THEN {[cycle |-> CycleOf(l.path, v), visited |-> l.visited]}
  ELSE loop[[left |-> Neighbours(graph, V, v), path |-> Append(l.path, v),
             visited |-> l.visited \cup {v}]]

\* What dfs(v) in loop l may return, with `visited' after it; loop[k] has the
\* results of a loop k: the cycle it returns, or <<>> if it ends without one.
Visit(loop, graph, V, l, v) ==
  IF v \in ToSet(l.path) THEN {[cycle |-> CycleOf(l.path, v), visited |-> l.visited]}
  ELSE IF v \in l.visited THEN {[cycle |-> <<>>, visited |-> l.visited]}
  ELSE loop[[left |-> Neighbours(graph, V, v), path |-> Append(l.path, v),
             visited |-> l.visited \cup {v}]]

\* The rest of loop l after its call of dfs(v) returned r
GoOn(loop, l, v, r) ==
  IF r.cycle # <<>> THEN {r}
  ELSE loop[[left |-> l.left \ {v}, path |-> l.path, visited |-> r.visited]]

Run(loop, graph, V, l) ==
  IF l.left = {} THEN {[cycle |-> <<>>, visited |-> l.visited]}
  ELSE UNION {UNION {GoOn(loop, l, v, r) : r \in Visit(loop, graph, V, l, v)} : v \in l.left}

Search(graph, V) == LET loop[l \in Loops(V)] == Run(loop, graph, V, l) IN loop

\* What has_cycle may return, in whatever order it walks
CyclesFound(graph) ==
  LET V == {e[1] : e \in graph} \cup {e[2] : e \in graph}
      all == [left |-> {e[1] : e \in graph}, path |-> <<>>, visited |-> {}]
  IN {r.cycle : r \in Search(graph, V)[all]}

-----------------------------------------------------------------------------
HasACycle(graph, V) ==
  \E S \in SUBSET V : S # {} /\ \A v \in S : \E w \in S : <<v, w>> \in graph

IsCycle(c, graph) ==
  /\ IsInjective(c)
  /\ \A i \in DOMAIN c : <<c[i], c[IF i = Len(c) THEN 1 ELSE i + 1]>> \in graph

\* v is on a cycle: whatever can be reached from v, v is part of it
ReachesItself(v, graph, V) ==
  \A S \in SUBSET V :
    (\A u \in S \cup {v}, w \in V : <<u, w>> \in graph => w \in S) => v \in S

\* A cycle is found if there is one, and what is found is one
FindsCycles(graph, V) ==
  /\ CyclesFound(graph) # {}
  /\ \A c \in CyclesFound(graph) : (c # <<>> <=> HasACycle(graph, V)) /\ IsCycle(c, graph)
=============================================================================
