-------------------------- MODULE CacheProperties --------------------------
(***************************************************************************)
(* What the replicated cache must and must not do.                         *)
(***************************************************************************)
EXTENDS CacheNode

Entry == [op : {"put", "delete"}, key : Key]

Typed ==
  /\ leader \in Node /\ log \in Seq(Entry)
  /\ commit \in [Node -> Nat] /\ applied \in [Node -> Nat]
  /\ \A n \in Node : applied[n] <= commit[n] /\ commit[n] <= Len(log)
  /\ value \in [Node -> [Key -> Nat]]
  /\ modified \in [Node -> SUBSET Key]

\* Every variable keeps to its values, and what a node has of a key in its
\* dict, its counters and _mesi_states goes together, within max_size
\* (cache_node.py:52-62, 92-100, 247-263).
TypeOK ==
  /\ Typed
  /\ \A n \in Node :
       /\ IsInjective(store[n]) /\ ToSet(store[n]) = Cached(n)
       /\ Len(store[n]) <= MaxSize
       /\ modified[n] \subseteq Cached(n)
       /\ \A k \in Key : uses[n][k] # 0 => n \in LfuNode /\ k \in Cached(n)
  /\ calls \subseteq [node : Node, key : Key, index : Nat \ {0}, lost : BOOLEAN]
  /\ inNet \subseteq [key : Key, index : Nat \ {0}, to : Node]

\* Commands for k that node n has applied
Past(n, k) == {i \in 1 .. applied[n] : log[i].key = k}

NewestHere(n, k) ==
  LET i == value[n][k] IN
  i \in Past(n, k) /\ log[i].op = "put" /\ \A j \in Past(n, k) : j <= i

\* A hit answers the value of the last command for the key that this node has
\* applied, and that command is a put: no late invalidation, eviction, order of
\* gets or proposal that failed and was committed all the same makes a node
\* answer an older value (cache_node.py:170-185 with 247-263).
NoStaleHit == \A n \in Node, k \in Key : Hit(n, k) => NewestHere(n, k)

-----------------------------------------------------------------------------
Place == Node \X Key

PastOf == [p \in Place |-> Past(p[1], p[2])]
ShownOf == [p \in Place |-> IF Hit(p[1], p[2]) THEN value[p[1]][p[2]] ELSE 0]

Reads == INSTANCE MonotoneReads WITH past <- PastOf, shown <- ShownOf

\* The code implements MonotoneReads: what a get on a node has once missed, or
\* seen replaced, no later get on that node answers (cache_node.py:170-185,
\* 204-205, 224-225, 247-263).
ImplementsMonotoneReads == Reads!Spec
=============================================================================
