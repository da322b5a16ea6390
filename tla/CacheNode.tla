----------------------------- MODULE CacheNode -----------------------------
(***************************************************************************)
(* The replicated cache: class CacheNode with LRUCache and LFUCache, in    *)
(* src/src/nodes/cache_node.py, on every node, over Consensus.             *)
(*                                                                         *)
(* Of the MESI states a node enters only M, when it applies a put, and I.  *)
(* No reader but the status route tells I from a key without a state, and  *)
(* the handler that turns E into S never finds an E.  A value is known by  *)
(* the position of its put in the log.                                     *)
(***************************************************************************)
EXTENDS Consensus, FiniteSets, SequencesExt, Lists

CONSTANTS
  Key,
  LfuNode,      \* nodes whose replacement_policy is LFU; the others have LRU
  MaxSize,      \* max_size
  MaxRequests   \* bound: requests of clients

ASSUME CacheConstantsOK ==
  LfuNode \subseteq Node /\ MaxSize \in Nat /\ MaxRequests \in Nat

VARIABLES
  store,     \* _store of each node: its keys, in the dict's order,
  value,     \* and the value of each; 0 for keys that are not in it
  uses,      \* access_count of a key stored by an LFU node
  modified,  \* keys whose state is M
  calls,     \* coroutines that wait for propose(); `lost' if their node was
             \* deposed before it committed their entry
  inNet,     \* coherence messages: sent, and handled late or never
  requests

nodeVars == <<store, value, uses, modified>>
vars == <<consensusVars, nodeVars, calls, inNet, requests>>

Init ==
  /\ ConsensusInit
  /\ store = [n \in Node |-> <<>>]
  /\ value = [n \in Node |-> [k \in Key |-> 0]]
  /\ uses = [n \in Node |-> [k \in Key |-> 0]]
  /\ modified = [n \in Node |-> {}]
  /\ calls = {} /\ inNet = {}
  /\ requests = 0

Cached(n) == {k \in Key : value[n][k] # 0}

-----------------------------------------------------------------------------
Request ==
  /\ requests < MaxRequests
  /\ requests' = requests + 1

\* _handle_put and _handle_delete up to their await
Write(op, k) ==
  /\ Request
  /\ Settled(leader)
  /\ Append1([op |-> op, key |-> k])
  /\ calls' = calls \cup {[node |-> leader, key |-> k, index |-> Len(log) + 1, lost |-> FALSE]}
  /\ UNCHANGED <<nodeVars, inNet>>

Put(k) == Write("put", k)
Delete(k) == Write("delete", k)

Broadcast(c) == {[key |-> c.key, index |-> c.index, to |-> p] : p \in Node \ {c.node}}

\* propose() returns True; a task posts to one peer after the other.  Nothing
\* ties the True of a deposed leader to its entry.
Succeed(c) ==
  /\ Settled(c.node) /\ (c.lost \/ commit[c.node] >= c.index)
  /\ calls' = calls \ {c}
  /\ inNet' = inNet \cup Broadcast(c)
  /\ UNCHANGED <<consensusVars, nodeVars, requests>>

\* propose() returns False, though its entry may be committed yet
Fail(c) ==
  /\ Settled(c.node)
  /\ calls' = calls \ {c}
  /\ UNCHANGED <<consensusVars, nodeVars, inNet, requests>>

\* _handle_get is a hit
Hit(n, k) == k \in modified[n] /\ k \in Cached(n)

ToEnd(q, k) == Append(Without(q, {k}), k)

HitRevives(n, k) ==                                      \* mutant of Get
  /\ Request /\ Settled(n) /\ k \in Cached(n)
  /\ modified' = [modified EXCEPT ![n] = @ \cup {k}]
  /\ UNCHANGED <<consensusVars, store, value, uses, calls, inNet>>

Touch(n, k) ==
  IF n \in LfuNode
  THEN uses' = [uses EXCEPT ![n][k] = @ + 1] /\ UNCHANGED store
  ELSE store' = [store EXCEPT ![n] = ToEnd(@, k)] /\ UNCHANGED uses

\* _handle_get on any node.  A miss changes nothing.
Get(n, k) ==
  /\ Request
  /\ Settled(n)
  /\ Hit(n, k)
  /\ Touch(n, k)
  /\ UNCHANGED <<consensusVars, value, modified, calls, inNet>>

Invalidated(n, k) ==
  /\ Settled(n)
  /\ modified' = [modified EXCEPT ![n] = @ \ {k}]
  /\ UNCHANGED <<consensusVars, store, value, uses, calls>>

\* _handle_invalidate, for a client, on any node
Invalidate(n, k) == Request /\ Invalidated(n, k) /\ UNCHANGED inNet

\* _handle_coherence_invalidate
HandleInvalidate(m) ==
  /\ Invalidated(m.to, m.key)
  /\ inNet' = inNet \ {m}
  /\ UNCHANGED requests

-----------------------------------------------------------------------------
(***************************************************************************)
(* apply_command                                                           *)
(***************************************************************************)
\* Whom put evicts from a full cache: for LRU the first of the dict, for LFU
\* the first of those with the least uses
Coldest(n) ==
  LET q == store[n]
      least == {i \in DOMAIN q : n \in LfuNode =>
                  \A j \in DOMAIN q : uses[n][q[i]] <= uses[n][q[j]]}
  IN q[CHOOSE i \in least : \A j \in least : i <= j]

EvictsAnyway(n, k) ==                                    \* mutant of Evicted
  IF Len(store[n]) >= MaxSize THEN {Coldest(n)} ELSE {}

Evicted(n, k) ==
  IF k \notin Cached(n) /\ Len(store[n]) >= MaxSize THEN {Coldest(n)} ELSE {}

\* The store of node n after a put of k
Stored(n, k) ==
  IF k \in Cached(n)
  THEN IF n \in LfuNode THEN store[n] ELSE ToEnd(store[n], k)
  ELSE Append(Without(store[n], Evicted(n, k)), k)

KeepsValue(f, n, k, x) ==                                \* mutant of Reset
  [l \in Key |-> IF l = k THEN (IF f[k] # 0 THEN f[k] ELSE x)
                 ELSE IF l \in Evicted(n, k) THEN 0 ELSE f[l]]

\* For what is kept of every key: x for the key that is put
Reset(f, n, k, x) ==
  [l \in Key |-> IF l = k THEN x ELSE IF l \in Evicted(n, k) THEN 0 ELSE f[l]]

\* The entry of a put, at position i of the log, replaces the one there is.
\* With a max_size of 0 the eviction raises an error, which is only logged.
ApplyPut(n, i) ==
  LET k == log[i].key IN
  IF MaxSize = 0 THEN UNCHANGED nodeVars
  ELSE /\ store' = [store EXCEPT ![n] = Stored(n, k)]
       /\ value' = [value EXCEPT ![n] = Reset(@, n, k, i)]
       /\ uses' = [uses EXCEPT ![n] = Reset(@, n, k, 0)]
       /\ modified' = [modified EXCEPT ![n] = (@ \cup {k}) \ Evicted(n, k)]

ApplyDelete(n, k) ==
  /\ store' = [store EXCEPT ![n] = Without(@, {k})]
  /\ value' = [value EXCEPT ![n][k] = 0]
  /\ uses' = [uses EXCEPT ![n][k] = 0]
  /\ modified' = [modified EXCEPT ![n] = @ \ {k}]

Apply(n) ==
  /\ NextEntry(n)
  /\ LET i == applied[n] + 1 IN
     \/ log[i].op = "put" /\ ApplyPut(n, i)
     \/ log[i].op = "delete" /\ ApplyDelete(n, log[i].key)
  /\ UNCHANGED <<calls, inNet, requests>>

-----------------------------------------------------------------------------
Replicate(n) ==
  /\ Settled(n)
  /\ Commit(n) \/ Learn(n)
  /\ UNCHANGED <<nodeVars, calls, inNet, requests>>

Deposed(c) == [c EXCEPT !.lost = @ \/ commit[c.node] < c.index]

\* The rounds of the old leader go on; what becomes of their entries is open
ChangeLeader ==
  /\ \E n \in Node : Settled(n) /\ Failover(n)
  /\ calls' = {Deposed(c) : c \in calls}
  /\ UNCHANGED <<applied, nodeVars, inNet, requests>>

Next ==
  \/ \E k \in Key : Put(k) \/ Delete(k)
  \/ \E c \in calls : Succeed(c) \/ Fail(c)
  \/ \E n \in Node, k \in Key : Get(n, k) \/ Invalidate(n, k)
  \/ \E m \in inNet : HandleInvalidate(m)
  \/ \E n \in Node : Replicate(n) \/ Apply(n)
  \/ ChangeLeader

Spec == Init /\ [][Next]_vars
=============================================================================
