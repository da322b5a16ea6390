---------------------------- MODULE CacheProofs ----------------------------
(***************************************************************************)
(* Proofs about the cache. A step either applies one entry on one node, or *)
(* leaves every value and what has been applied as they are and makes no   *)
(* key valid (EveryStep). NoStaleHit follows from the same statement about *)
(* all cached keys, valid or not; the refinement of MonotoneReads needs in *)
(* addition that nothing but a put makes a key valid. That order, counters *)
(* and values stay in step (StoreOK) does depend on which key a full cache *)
(* evicts: there always is one (ColdestIsThere).                           *)
(***************************************************************************)
EXTENDS CacheProperties, ListProofs

\* What a put or a delete at position i may do to what node n has of a key
AppliesTo(n, i) ==
  /\ log' = log
  /\ i = applied[n] + 1 /\ i <= Len(log)
  /\ applied' = [applied EXCEPT ![n] = i]
  /\ \A m \in Node \ {n} : value'[m] = value[m] /\ modified'[m] = modified[m]
  /\ \A k \in Key :
       IF log[i].key = k
       THEN \/ value'[n][k] = 0
            \/ value'[n][k] = i /\ log[i].op = "put"
       ELSE /\ value'[n][k] \in {0, value[n][k]}
            /\ k \in modified'[n] => k \in modified[n]

Quiesces ==
  /\ applied' = applied /\ value' = value
  /\ \A n \in Node : modified'[n] \subseteq modified[n]
  /\ \A n \in Node : \A i \in 1 .. applied[n] : log'[i] = log[i]

\* Nothing is ever cached where there is no room
NoRoom == MaxSize = 0 => \A n \in Node : Cached(n) = {}

AllNewest == \A n \in Node, k \in Key : k \in Cached(n) => NewestHere(n, k)

CacheInv == Typed /\ NoRoom /\ AllNewest

-----------------------------------------------------------------------------
LEMMA InitCacheInv == Init => CacheInv
  <1> SUFFICES ASSUME Init PROVE CacheInv OBVIOUS
  <1> USE DEF Init, ConsensusInit, LogInit
  <1>1. Typed BY DEF Typed
  <1>2. \A n \in Node : Cached(n) = {} BY DEF Cached
  <1> QED BY <1>1, <1>2 DEF CacheInv, NoRoom, AllNewest

\* What becomes of the consensus variables
LEMMA AppendTyped ==
  ASSUME Typed, NEW e \in Entry, Append1(e),
         UNCHANGED <<value, modified>>
  PROVE  Typed' /\ Quiesces
  <1>1. /\ log' \in Seq(Entry) /\ Len(log') = Len(log) + 1
        /\ \A i \in 1 .. Len(log) : log'[i] = log[i]
    BY DEF Typed, Append1, Extend
  <1>2. UNCHANGED <<leader, commit, applied>> BY DEF Append1, Extend
  <1>3. \A n \in Node : applied[n] \in Nat /\ commit[n] \in Nat BY DEF Typed
  <1>4. Typed' BY <1>1, <1>2, <1>3 DEF Typed
  <1>5. \A n \in Node : \A i \in 1 .. applied[n] : i \in 1 .. Len(log)
    BY <1>3 DEF Typed
  <1> QED BY <1>1, <1>2, <1>4, <1>5 DEF Quiesces

LEMMA CommitTyped ==
  ASSUME Typed, NEW n \in Node, Commit(n) \/ Learn(n), UNCHANGED <<value, modified>>
  PROVE  Typed' /\ Quiesces
  <1>1. PICK c \in Nat : c > commit[n] /\ c <= Len(log) /\ commit' = [commit EXCEPT ![n] = c]
    <2>1. CASE Commit(n)
      <3> DEFINE c == Len(log)
      <3>1. c \in Nat /\ c > commit[n] /\ c <= Len(log) BY <2>1 DEF Commit, Typed, CommitAll
      <3>2. commit' = [commit EXCEPT ![n] = c] BY <2>1 DEF Commit, CommitAll
      <3> HIDE DEF c
      <3> QED BY <3>1, <3>2
    <2>2. CASE Learn(n)
      <3>1. PICK c \in commit[n] + 1 .. commit[leader] : commit' = [commit EXCEPT ![n] = c]
        BY <2>2 DEF Learn, HearOfCommits
      <3>2. commit[n] \in Nat /\ commit[leader] \in Nat /\ commit[leader] <= Len(log)
        BY DEF Typed
      <3>3. c \in Nat /\ c > commit[n] /\ c <= Len(log) BY <3>2
      <3> QED BY <3>1, <3>3
    <2> QED BY <2>1, <2>2
  <1>2. UNCHANGED <<leader, log, applied>> BY DEF Commit, Learn, CommitAll, HearOfCommits
  <1>3. \A m \in Node : commit'[m] \in Nat /\ applied[m] <= commit'[m] /\ commit'[m] <= Len(log)
    BY <1>1 DEF Typed
  <1>4. commit' \in [Node -> Nat] BY <1>1 DEF Typed
  <1> QED BY <1>2, <1>3, <1>4 DEF Typed, Quiesces

LEMMA FailoverTyped ==
  ASSUME Typed, NEW n \in Node, Failover(n), UNCHANGED <<applied, value, modified>>
  PROVE  Typed' /\ Quiesces
  <1>1. PICK k \in 0 .. Len(log) :
          (\A p \in Node : commit[p] <= k) /\ log' = SubSeq(log, 1, k)
    BY DEF Failover, TakeOver
  <1>2. log' \in Seq(Entry) /\ Len(log') = k /\ \A i \in 1 .. k : log'[i] = log[i]
    BY <1>1 DEF Typed
  <1>3. leader' = n /\ UNCHANGED commit BY DEF Failover, TakeOver
  <1>4. \A p \in Node : \A i \in 1 .. applied[p] : i \in 1 .. k
    BY <1>1 DEF Typed
  <1> QED BY <1>1, <1>2, <1>3, <1>4 DEF Typed, Quiesces

LEMMA NothingTyped ==
  ASSUME Typed, UNCHANGED <<consensusVars, value>>,
         \A n \in Node : modified'[n] \subseteq modified[n],
         modified' \in [Node -> SUBSET Key]
  PROVE  Typed' /\ Quiesces
  BY DEF Typed, Quiesces, consensusVars, logVars

-----------------------------------------------------------------------------
\* An entry of a put or a delete changes nothing of other nodes, and of other
\* keys but that one may go (cache_node.py:243-263).
LEMMA ApplyStep ==
  ASSUME Typed, NoRoom, NEW n \in Node, Apply(n)
  PROVE  Typed' /\ NoRoom' /\ AppliesTo(n, applied[n] + 1)
  <1> DEFINE i == applied[n] + 1
             k == log[i].key
  <1>1. i \in Nat /\ i \in 1 .. Len(log) /\ i <= commit[n] BY DEF Typed, Apply, NextEntry, logVars
  <1>2. log[i] \in Entry BY <1>1 DEF Typed
  <1>3. k \in Key BY <1>2 DEF Entry
  <1>4. applied' = [applied EXCEPT ![n] = i] /\ UNCHANGED <<leader, log, commit>>
    BY DEF Apply, NextEntry, logVars
  <1>5. ASSUME /\ value' \in [Node -> [Key -> Nat]]
               /\ modified' \in [Node -> SUBSET Key]
        PROVE  Typed'
    BY <1>1, <1>4, <1>5 DEF Typed
  <1>6. CASE log[i].op = "put" /\ ApplyPut(n, i) /\ MaxSize = 0
    <2>1. UNCHANGED <<value, modified>> BY <1>6 DEF ApplyPut, nodeVars
    <2>2. Typed' BY <1>5, <2>1 DEF Typed
    <2>3. \A m \in Node, l \in Key : value[m][l] = 0 BY <1>6 DEF NoRoom, Cached
    <2>4. \A m \in Node : value'[m] = value[m] /\ modified'[m] = modified[m] BY <2>1
    <2>5. \A l \in Key : value'[n][l] = 0 BY <2>3, <2>4
    <2>6. NoRoom' BY <2>1, <2>3 DEF NoRoom, Cached
    <2> QED BY <1>1, <1>4, <2>2, <2>3, <2>4, <2>5, <2>6 DEF AppliesTo
  <1>7. CASE log[i].op = "put" /\ ApplyPut(n, i) /\ MaxSize # 0
    <2>1. /\ value' = [value EXCEPT ![n] = Reset(value[n], n, k, i)]
          /\ modified' = [modified EXCEPT ![n] = (modified[n] \cup {k}) \ Evicted(n, k)]
      BY <1>7 DEF ApplyPut
    <2>2. /\ \A l \in Key : Reset(value[n], n, k, i)[l] \in IF l = k THEN {i} ELSE {0, value[n][l]}
          /\ Reset(value[n], n, k, i) \in [Key -> Nat]
      BY <1>1 DEF Reset, Typed
    <2>3. /\ value'[n] = Reset(value[n], n, k, i)
          /\ modified'[n] = (modified[n] \cup {k}) \ Evicted(n, k)
          /\ \A m \in Node \ {n} : value'[m] = value[m] /\ modified'[m] = modified[m]
      BY <2>1 DEF Typed
    <2>4. modified' \in [Node -> SUBSET Key] BY <2>1, <1>3 DEF Typed
    <2>5. Typed' BY <1>5, <2>1, <2>2, <2>4 DEF Typed
    <2>6. \A l \in Key : l # k => (l \in modified'[n] => l \in modified[n]) BY <2>3
    <2>7. \A l \in Key : value'[n][l] \in IF l = k THEN {i} ELSE {0, value[n][l]}
      BY <2>2, <2>3
    <2>8. NoRoom' BY <1>7 DEF NoRoom
    <2> HIDE DEF k
    <2>9. \A l \in Key : IF k = l THEN value'[n][l] = i /\ log[i].op = "put"
                                 ELSE /\ value'[n][l] \in {0, value[n][l]}
                                      /\ l \in modified'[n] => l \in modified[n]
      BY <1>7, <2>6, <2>7
    <2> QED BY <1>1, <1>4, <2>3, <2>5, <2>8, <2>9 DEF AppliesTo, k
  <1>8. CASE log[i].op = "delete" /\ ApplyDelete(n, k)
    <2>1. /\ value' = [value EXCEPT ![n][k] = 0]
          /\ modified' = [modified EXCEPT ![n] = modified[n] \ {k}]
      BY <1>8 DEF ApplyDelete
    <2>2. /\ value'[n][k] = 0 /\ \A l \in Key \ {k} : value'[n][l] = value[n][l]
          /\ modified'[n] = modified[n] \ {k}
          /\ \A m \in Node \ {n} : value'[m] = value[m] /\ modified'[m] = modified[m]
      BY <1>3, <2>1 DEF Typed
    <2>3. Typed' BY <1>3, <1>5, <2>1 DEF Typed
    <2>4. NoRoom' BY <2>2 DEF NoRoom, Cached
    <2> QED BY <1>1, <1>4, <2>2, <2>3, <2>4 DEF AppliesTo
  <1> QED BY <1>6, <1>7, <1>8 DEF Apply

\* No step but the application of an entry changes a value or makes a key
\* valid (cache_node.py:147-206, 220-228).
LEMMA EveryStep ==
  ASSUME Typed, NoRoom, [Next]_vars
  PROVE  /\ Typed' /\ NoRoom'
         /\ Quiesces \/ \E n \in Node : AppliesTo(n, applied[n] + 1)
  <1>0. Quiesces => NoRoom' BY DEF Quiesces, NoRoom, Cached
  <1>1. ASSUME NEW k \in Key, NEW op \in {"put", "delete"}, Write(op, k)
        PROVE  Typed' /\ Quiesces
    <2>1. [op |-> op, key |-> k] \in Entry BY DEF Entry
    <2> QED BY <1>1, <2>1, AppendTyped DEF Write, nodeVars
  <1>2. ASSUME NEW c \in calls, Succeed(c) \/ Fail(c)
        PROVE  Typed' /\ Quiesces
    BY <1>2, NothingTyped DEF Succeed, Fail, nodeVars, Typed
  <1>3. ASSUME NEW n \in Node, NEW k \in Key, Get(n, k)
        PROVE  Typed' /\ Quiesces
    BY <1>3, NothingTyped DEF Get, Touch, Typed
  <1>4. ASSUME NEW n, NEW k, Invalidated(n, k)
        PROVE  Typed' /\ Quiesces
    <2>1. modified' = [modified EXCEPT ![n] = @ \ {k}] /\ UNCHANGED <<consensusVars, value>>
      BY <1>4 DEF Invalidated
    <2>2. /\ modified' \in [Node -> SUBSET Key]
          /\ \A m \in Node : modified'[m] \subseteq modified[m]
      BY <2>1 DEF Typed
    <2> QED BY <2>1, <2>2, NothingTyped
  <1>5. ASSUME NEW n \in Node, Replicate(n)
        PROVE  Typed' /\ Quiesces
    BY <1>5, CommitTyped DEF Replicate, nodeVars
  <1>6. ASSUME ChangeLeader
        PROVE  Typed' /\ Quiesces
    BY <1>6, FailoverTyped DEF ChangeLeader, nodeVars
  <1>7. CASE UNCHANGED vars
    BY <1>7, <1>0, NothingTyped DEF vars, nodeVars, Typed
  <1> QED BY <1>0, <1>1, <1>2, <1>3, <1>4, <1>5, <1>6, <1>7, ApplyStep
     DEF Next, Put, Delete, Invalidate, HandleInvalidate

-----------------------------------------------------------------------------
LEMMA PastStays ==
  ASSUME Typed, Quiesces, NEW n \in Node, NEW k
  PROVE  /\ Past(n, k)' = Past(n, k)
         /\ \A i \in Past(n, k) : log'[i] = log[i]
  BY DEF Past, Quiesces

LEMMA PastGrows ==
  ASSUME Typed, NEW n \in Node, AppliesTo(n, applied[n] + 1), NEW m \in Node, NEW k
  PROVE  Past(m, k)' = IF m = n /\ log[applied[n] + 1].key = k
                       THEN Past(m, k) \cup {applied[n] + 1} ELSE Past(m, k)
  <1>1. \A p \in Node : applied[p] \in Nat BY DEF Typed
  <1>2. CASE m = n
    <2>1. applied'[n] = applied[n] + 1 /\ log' = log BY DEF AppliesTo, Typed
    <2>2. 1 .. applied[n] + 1 = (1 .. applied[n]) \cup {applied[n] + 1} BY <1>1
    <2> QED BY <1>2, <2>1, <2>2 DEF Past
  <1>3. CASE m # n
    <2>1. applied'[m] = applied[m] /\ log' = log BY <1>3 DEF AppliesTo, Typed
    <2> QED BY <1>3, <2>1 DEF Past
  <1> QED BY <1>2, <1>3

LEMMA PastBelow ==
  ASSUME Typed, NEW n \in Node, NEW k, NEW j \in Past(n, k)
  PROVE  j \in Nat /\ 0 < j /\ j < applied[n] + 1
  BY DEF Past, Typed

LEMMA NewestStep ==
  ASSUME CacheInv, [Next]_vars
  PROVE  CacheInv'
  <1>1. Typed /\ NoRoom /\ AllNewest BY DEF CacheInv
  <1>2. Typed' /\ NoRoom' BY <1>1, EveryStep
  <1>3. CASE Quiesces
    <2> SUFFICES ASSUME NEW n \in Node, NEW k \in Key, value'[n][k] # 0
                 PROVE  NewestHere(n, k)'
      BY <1>2 DEF CacheInv, AllNewest, Cached
    <2>1. value'[n][k] = value[n][k] BY <1>3 DEF Quiesces
    <2>2. NewestHere(n, k) BY <1>1, <2>1 DEF AllNewest, Cached
    <2> QED BY <1>1, <1>3, <2>1, <2>2, PastStays DEF NewestHere
  <1>4. ASSUME NEW n \in Node, AppliesTo(n, applied[n] + 1)
        PROVE  CacheInv'
    <2> SUFFICES ASSUME NEW m \in Node, NEW k \in Key, value'[m][k] # 0
                 PROVE  NewestHere(m, k)'
      BY <1>2 DEF CacheInv, AllNewest, Cached
    <2> DEFINE i == applied[n] + 1
    <2>0. i \in Nat /\ log' = log BY <1>1, <1>4 DEF Typed, AppliesTo
    <2>1. CASE m = n /\ log[i].key = k
      <3>1. value'[m][k] = i /\ log[i].op = "put" BY <1>4, <2>1 DEF AppliesTo
      <3>2. Past(m, k)' = Past(m, k) \cup {i} BY <1>1, <1>4, <2>1, PastGrows
      <3>3. \A j \in Past(m, k) \cup {i} : j <= i
        BY <1>1, <2>0, <2>1, PastBelow
      <3> QED BY <2>0, <3>1, <3>2, <3>3 DEF NewestHere
    <2>2. CASE ~(m = n /\ log[i].key = k)
      <3>1. value'[m][k] = value[m][k] BY <1>4, <2>2 DEF AppliesTo
      <3>2. Past(m, k)' = Past(m, k) BY <1>1, <1>4, <2>2, PastGrows
      <3>3. NewestHere(m, k) BY <1>1, <3>1 DEF AllNewest, Cached
      <3> QED BY <2>0, <3>1, <3>2, <3>3 DEF NewestHere
    <2> QED BY <2>1, <2>2
  <1> QED BY <1>1, <1>3, <1>4, EveryStep

\* What a node has cached of a key is what its last applied command left
\* (cache_node.py:247-263).
THEOREM CacheInvariant == Spec => []CacheInv
  <1>1. Init => CacheInv BY InitCacheInv
  <1>2. CacheInv /\ [Next]_vars => CacheInv' BY NewestStep
  <1> QED BY <1>1, <1>2, PTL DEF Spec

\* A hit answers the value of the last command for the key that the node has
\* applied, for any number of nodes and keys, any size and either policy
\* (cache_node.py:170-185 with 247-263).
THEOREM HitsAreFresh == Spec => []NoStaleHit
  <1>1. CacheInv => NoStaleHit BY DEF CacheInv, AllNewest, NoStaleHit, Hit
  <1> QED BY <1>1, CacheInvariant, PTL
-----------------------------------------------------------------------------
LEMMA InitReads == Init => Reads!Init
  <1> SUFFICES ASSUME Init PROVE Reads!Init OBVIOUS
  <1>1. \A p \in Place : p[1] \in Node /\ p[2] \in Key BY DEF Place
  <1>2. \A n \in Node, k \in Key : Past(n, k) = {} /\ ~Hit(n, k)
    BY DEF Init, ConsensusInit, Past, Hit, LogInit
  <1> QED BY <1>1, <1>2 DEF Reads!Init, PastOf, ShownOf

LEMMA QuiescesReads ==
  ASSUME Typed, Quiesces
  PROVE  Reads!Forget
  <1>1. \A p \in Place : p[1] \in Node /\ p[2] \in Key BY DEF Place
  <1>2. PastOf' = PastOf
    <2>1. \A p \in Place : Past(p[1], p[2])' = Past(p[1], p[2]) BY <1>1, PastStays
    <2> QED BY <2>1 DEF PastOf
  <1>3. ASSUME NEW p \in Place PROVE ShownOf'[p] \in {0, ShownOf[p]}
    <2>1. Hit(p[1], p[2])' => Hit(p[1], p[2])
      BY <1>1 DEF Hit, Cached, Quiesces
    <2>2. value' = value BY DEF Quiesces
    <2> QED BY <2>1, <2>2 DEF ShownOf
  <1> QED BY <1>2, <1>3 DEF Reads!Forget, Reads!Keeps

LEMMA AppliesReads ==
  ASSUME Typed, NEW n \in Node, AppliesTo(n, applied[n] + 1)
  PROVE  Reads!Next
  <1> DEFINE i == applied[n] + 1
             k == log[i].key
             p == <<n, k>>
  <1>0. \A q \in Place : q[1] \in Node /\ q[2] \in Key /\ q = <<q[1], q[2]>> BY DEF Place
  <1>1. p \in Place
    <2>1. i \in 1 .. Len(log) BY DEF AppliesTo, Typed
    <2>2. log[i] \in Entry BY <2>1 DEF Typed
    <2> QED BY <2>2 DEF Entry, Place
  <1>2. PastOf' = [PastOf EXCEPT ![p] = PastOf[p] \cup {i}]
    <2>1. \A q \in Place : Past(q[1], q[2])' = IF q = p THEN Past(q[1], q[2]) \cup {i}
                                                       ELSE Past(q[1], q[2])
      <3>1. \A q \in Place : q = p <=> q[1] = n /\ k = q[2] BY <1>0
      <3>2. \A m \in Node : \A l : Past(m, l)' = IF m = n /\ k = l THEN Past(m, l) \cup {i}
                                                              ELSE Past(m, l)
        BY PastGrows
      <3> HIDE DEF p, i, k
      <3> QED BY <1>0, <3>1, <3>2
    <2> HIDE DEF p, i
    <2> QED BY <1>1, <2>1 DEF PastOf
  <1>3. i \in PastOf'[p]
    <2> HIDE DEF p, i
    <2> QED BY <1>1, <1>2 DEF PastOf
  <1>4. \A j \in PastOf[p] : j < i
    BY <1>1, PastBelow DEF PastOf
  <1>5. ShownOf'[p] \in {0, i}
    <2>1. value'[n][k] \in {0, i} BY <1>0, <1>1 DEF AppliesTo
    <2> QED BY <1>1, <2>1 DEF ShownOf
  <1>6. ASSUME NEW q \in Place \ {p} PROVE ShownOf'[q] \in {0, ShownOf[q]}
    <2>1. q[1] # n => /\ value'[q[1]] = value[q[1]] /\ modified'[q[1]] = modified[q[1]]
      BY <1>0 DEF AppliesTo
    <2>2. q[1] = n => /\ value'[n][q[2]] \in {0, value[n][q[2]]}
                      /\ q[2] \in modified'[n] => q[2] \in modified[n]
      BY <1>0 DEF AppliesTo
    <2>3. Hit(q[1], q[2])' => q[2] \in modified'[q[1]] /\ value'[q[1]][q[2]] # 0
      BY DEF Hit, Cached
    <2>4. value[q[1]][q[2]] # 0 /\ q[2] \in modified[q[1]] => Hit(q[1], q[2])
      BY <1>0 DEF Hit, Cached
    <2>5. /\ ShownOf'[q] = IF Hit(q[1], q[2])' THEN value'[q[1]][q[2]] ELSE 0
          /\ ShownOf[q] = IF Hit(q[1], q[2]) THEN value[q[1]][q[2]] ELSE 0
      BY DEF ShownOf
    <2> QED BY <2>1, <2>2, <2>3, <2>4, <2>5
  <1>7. Reads!Arrive(p)
    <2> HIDE DEF p, i
    <2> QED BY <1>2, <1>3, <1>4, <1>5, <1>6 DEF Reads!Arrive, Reads!Keeps
  <1> QED BY <1>1, <1>7 DEF Reads!Next

\* The cache implements MonotoneReads: once missed or replaced, a value is not
\* read again on that node (cache_node.py:170-185, 204-205, 224-225, 247-263).
THEOREM RefinesMonotoneReads == Spec => ImplementsMonotoneReads
  <1>1. Init => Reads!Init BY InitReads
  <1>2. CacheInv /\ [Next]_vars => [Reads!Next]_<<PastOf, ShownOf>>
    <2> SUFFICES ASSUME CacheInv, [Next]_vars PROVE Reads!Next OBVIOUS
    <2>1. Typed /\ NoRoom BY DEF CacheInv
    <2>2. CASE Quiesces BY <2>1, <2>2, QuiescesReads DEF Reads!Next
    <2>3. CASE \E n \in Node : AppliesTo(n, applied[n] + 1)
      BY <2>1, <2>3, AppliesReads
    <2> QED BY <2>1, <2>2, <2>3, EveryStep
  <1> QED BY <1>1, <1>2, CacheInvariant, PTL DEF Spec, ImplementsMonotoneReads, Reads!Spec

-----------------------------------------------------------------------------
(***************************************************************************)
(* The dict of a node, its counters and its states                         *)
(***************************************************************************)
StoresTyped == store \in [Node -> Seq(Key)] /\ uses \in [Node -> [Key -> Nat]]

StoreOK(n) ==
  /\ IsInjective(store[n]) /\ ToSet(store[n]) = Cached(n)
  /\ Len(store[n]) <= MaxSize
  /\ modified[n] \subseteq Cached(n)
  /\ \A k \in Key : uses[n][k] # 0 => n \in LfuNode /\ k \in Cached(n)

SentTyped ==
  /\ calls \subseteq [node : Node, key : Key, index : Nat \ {0}, lost : BOOLEAN]
  /\ inNet \subseteq [key : Key, index : Nat \ {0}, to : Node]

LEMMA AppendNew ==
  ASSUME NEW q \in Seq(Key), IsInjective(q), NEW k \in Key, k \notin ToSet(q)
  PROVE  /\ Append(q, k) \in Seq(Key) /\ IsInjective(Append(q, k))
         /\ Len(Append(q, k)) = Len(q) + 1
         /\ ToSet(Append(q, k)) = ToSet(q) \cup {k}
  <1> PICK y : y = Append(q, k) OBVIOUS
  <1>1. /\ y \in Seq(Key) /\ Len(y) = Len(q) + 1 /\ y[Len(q) + 1] = k
        /\ \A i \in 1 .. Len(q) : y[i] = q[i] /\ q[i] # k
    BY DEF ToSet
  <1>2. Len(q) \in Nat /\ DOMAIN q = 1 .. Len(q) /\ DOMAIN y = DOMAIN q \cup {Len(q) + 1}
    BY <1>1
  <1>3. IsInjective(y) BY <1>1, <1>2 DEF IsInjective
  <1>4. ToSet(y) = ToSet(q) \cup {k} BY <1>1, <1>2 DEF ToSet
  <1> QED BY <1>1, <1>3, <1>4

LEMMA MovedToEnd ==
  ASSUME NEW q \in Seq(Key), IsInjective(q), NEW k \in ToSet(q)
  PROVE  /\ ToEnd(q, k) \in Seq(Key) /\ IsInjective(ToEnd(q, k))
         /\ Len(ToEnd(q, k)) <= Len(q)
         /\ ToSet(ToEnd(q, k)) = ToSet(q)
  <1> PICK r : r = Without(q, {k}) OBVIOUS
  <1>1. /\ r \in Seq(Key) /\ Len(r) < Len(q) /\ IsInjective(r)
        /\ ToSet(r) = ToSet(q) \ {k}
    BY WithoutLeaves
  <1>2. k \in Key BY DEF ToSet
  <1>3. Len(r) \in Nat /\ Len(q) \in Nat BY <1>1
  <1>4. /\ Append(r, k) \in Seq(Key) /\ IsInjective(Append(r, k))
        /\ Len(Append(r, k)) = Len(r) + 1 /\ ToSet(Append(r, k)) = ToSet(r) \cup {k}
    BY <1>1, <1>2, AppendNew
  <1>5. ToEnd(q, k) = Append(r, k) BY Zenon DEF ToEnd
  <1>6. ToSet(Append(r, k)) = ToSet(q) BY <1>1, <1>4
  <1> QED BY <1>1, <1>3, <1>4, <1>5, <1>6

\* A full store that is not empty evicts one of its keys.
LEMMA ColdestIsThere ==
  ASSUME StoresTyped, NEW n \in Node, store[n] # <<>>
  PROVE  Coldest(n) \in ToSet(store[n])
  <1> PICK q \in Seq(Key) : q = store[n] BY DEF StoresTyped
  <1> PICK u \in [Key -> Nat] : u = uses[n] BY DEF StoresTyped
  <1> DEFINE least == {i \in DOMAIN q : n \in LfuNode =>
                         \A j \in DOMAIN q : u[q[i]] <= u[q[j]]}
  <1>1. DOMAIN q = 1 .. Len(q) /\ 1 \in DOMAIN q /\ \A i \in DOMAIN q : u[q[i]] \in Nat
    OBVIOUS
  <1>2. least # {}
    <2> DEFINE U == {u[q[i]] : i \in DOMAIN q}
    <2>1. U \in SUBSET Nat /\ U # {} BY <1>1
    <2>2. PICK x \in U : \A y \in U : x <= y BY <2>1, LeastExists, Zenon
    <2>3. PICK i \in DOMAIN q : u[q[i]] = x OBVIOUS
    <2>4. i \in least BY <2>2, <2>3
    <2> QED BY <2>4
  <1>3. least \in SUBSET Nat BY <1>1
  <1>4. \E i \in least : \A j \in least : i <= j BY <1>2, <1>3, LeastExists, Zenon
  <1> PICK m : m = CHOOSE i \in least : \A j \in least : i <= j OBVIOUS
  <1>5. m \in least BY <1>4, Zenon
  <1>6. Coldest(n) = q[m] BY Zenon DEF Coldest
  <1>7. m \in DOMAIN q BY <1>5
  <1> HIDE DEF least
  <1>8. q[m] \in ToSet(q) BY <1>7, Zenon DEF ToSet
  <1> QED BY <1>6, <1>8

AllStoresOK == StoresTyped /\ \A n \in Node : StoreOK(n)

\* A step that changes the store of one node only
LEMMA OneStore ==
  ASSUME AllStoresOK, NEW n \in Node,
         NEW q \in Seq(Key), store' = [store EXCEPT ![n] = q],
         NEW u \in [Key -> Nat], uses' = [uses EXCEPT ![n] = u],
         \A m \in Node \ {n} : value'[m] = value[m] /\ modified'[m] = modified[m],
         IsInjective(q), ToSet(q) = Cached(n)', Len(q) <= MaxSize,
         modified'[n] \subseteq Cached(n)',
         \A k \in Key : u[k] # 0 => n \in LfuNode /\ k \in Cached(n)'
  PROVE  AllStoresOK'
  <1>1. StoresTyped' BY DEF AllStoresOK, StoresTyped
  <1>2. store'[n] = q /\ uses'[n] = u BY DEF AllStoresOK, StoresTyped
  <1>3. StoreOK(n)' BY <1>2 DEF StoreOK
  <1>4. ASSUME NEW m \in Node \ {n} PROVE StoreOK(m)'
    <2>1. store'[m] = store[m] /\ uses'[m] = uses[m] BY DEF AllStoresOK, StoresTyped
    <2>2. Cached(m)' = Cached(m) BY DEF Cached
    <2> QED BY <2>1, <2>2 DEF AllStoresOK, StoreOK
  <1> QED BY <1>1, <1>3, <1>4 DEF AllStoresOK

\* A step that changes no store, and makes no key valid
LEMMA StoresStay ==
  ASSUME AllStoresOK, UNCHANGED <<store, value, uses>>,
         \A n \in Node : modified'[n] \subseteq modified[n]
  PROVE  AllStoresOK'
  <1>1. \A n \in Node : Cached(n)' = Cached(n) BY DEF Cached
  <1> QED BY <1>1 DEF AllStoresOK, StoresTyped, StoreOK

\* The store after a put: room is made for the new key (cache_node.py:52-62,
\* 92-100).
LEMMA StoredOK ==
  ASSUME CacheConstantsOK, AllStoresOK, NEW n \in Node, NEW k \in Key, MaxSize # 0
  PROVE  /\ Stored(n, k) \in Seq(Key) /\ IsInjective(Stored(n, k))
         /\ Len(Stored(n, k)) <= MaxSize
         /\ Evicted(n, k) \subseteq Cached(n) \ {k}
         /\ ToSet(Stored(n, k)) = (Cached(n) \cup {k}) \ Evicted(n, k)
  <1> PICK q \in Seq(Key) : q = store[n] BY DEF AllStoresOK, StoresTyped
  <1>1. /\ IsInjective(q) /\ ToSet(q) = Cached(n)
        /\ Len(q) <= MaxSize
    BY DEF AllStoresOK, StoreOK
  <1>0. MaxSize \in Nat /\ Len(q) \in Nat BY DEF CacheConstantsOK
  <1>2. CASE k \in Cached(n)
    <2>1. Evicted(n, k) = {} BY <1>2 DEF Evicted
    <2>2. /\ ToEnd(q, k) \in Seq(Key) /\ IsInjective(ToEnd(q, k))
          /\ Len(ToEnd(q, k)) <= Len(q) /\ ToSet(ToEnd(q, k)) = ToSet(q)
      BY <1>1, <1>2, MovedToEnd
    <2>3. Stored(n, k) \in {q, ToEnd(q, k)} BY <1>2 DEF Stored
    <2>4. Len(ToEnd(q, k)) \in Nat BY <2>2
    <2>5. Len(Stored(n, k)) <= MaxSize BY <1>0, <1>1, <2>2, <2>3, <2>4
    <2>6. ToSet(Stored(n, k)) = Cached(n) BY <1>1, <2>2, <2>3
    <2>7. (Cached(n) \cup {k}) \ Evicted(n, k) = Cached(n) BY <1>2, <2>1
    <2> QED BY <1>1, <2>1, <2>2, <2>3, <2>5, <2>6, <2>7
  <1>3. CASE k \notin Cached(n)
    <2> PICK S : S = Evicted(n, k) OBVIOUS
    <2> PICK r : r = Without(q, S) OBVIOUS
    <2>1. /\ r \in Seq(Key) /\ IsInjective(r) /\ Len(r) <= Len(q)
          /\ ToSet(q) \cap S # {} => Len(r) < Len(q)
          /\ ToSet(r) = ToSet(q) \ S
      BY <1>1, WithoutLeaves
    <2>2. S \subseteq Cached(n) /\ Len(r) < MaxSize
      <3>1. CASE Len(q) >= MaxSize
        <4>1. q # <<>> BY <1>0, <3>1
        <4>2. S = {Coldest(n)} BY <1>3, <3>1 DEF Evicted
        <4>3. Coldest(n) \in ToSet(q) BY <4>1, ColdestIsThere DEF AllStoresOK
        <4>4. Len(r) < Len(q) BY <2>1, <4>2, <4>3
        <4>5. Len(r) \in Nat BY <2>1
        <4> QED BY <1>0, <1>1, <4>2, <4>3, <4>4, <4>5
      <3>2. CASE ~(Len(q) >= MaxSize)
        <4>1. S = {} BY <3>2 DEF Evicted
        <4>2. Len(r) \in Nat BY <2>1
        <4> QED BY <1>0, <2>1, <3>2, <4>1, <4>2
      <3> QED BY <3>1, <3>2
    <2>3. Stored(n, k) = Append(r, k) BY <1>3 DEF Stored
    <2>4. k \notin ToSet(r) BY <1>1, <1>3, <2>1
    <2>5. /\ Append(r, k) \in Seq(Key) /\ IsInjective(Append(r, k))
          /\ Len(Append(r, k)) = Len(r) + 1 /\ ToSet(Append(r, k)) = ToSet(r) \cup {k}
      BY <2>1, <2>4, AppendNew
    <2>6. Len(r) \in Nat BY <2>1
    <2>7. Len(Stored(n, k)) <= MaxSize BY <1>0, <2>2, <2>3, <2>5, <2>6
    <2>8. ToSet(Stored(n, k)) = (Cached(n) \cup {k}) \ S
      BY <1>1, <1>3, <2>1, <2>2, <2>3, <2>5
    <2>9. S \subseteq Cached(n) \ {k} BY <1>3, <2>2
    <2> QED BY <2>3, <2>5, <2>7, <2>8, <2>9
  <1> QED BY <1>2, <1>3

LEMMA PutStores ==
  ASSUME CacheConstantsOK, Typed, AllStoresOK, NEW n \in Node,
         NEW i \in 1 .. Len(log), ApplyPut(n, i)
  PROVE  AllStoresOK'
  <1>0. log[i] \in Entry BY DEF Typed
  <1> PICK k \in Key : k = log[i].key BY <1>0 DEF Entry
  <1>1. CASE MaxSize = 0
    <2>1. UNCHANGED <<store, value, uses, modified>> BY <1>1 DEF ApplyPut, nodeVars
    <2> QED BY <2>1, StoresStay
  <1>2. CASE MaxSize # 0
    <2> PICK S : S = Evicted(n, k) OBVIOUS
    <2> PICK q : q = Stored(n, k) OBVIOUS
    <2> PICK u : u = Reset(uses[n], n, k, 0) OBVIOUS
    <2>1. /\ store' = [store EXCEPT ![n] = q]
          /\ value' = [value EXCEPT ![n] = Reset(value[n], n, k, i)]
          /\ uses' = [uses EXCEPT ![n] = u]
          /\ modified' = [modified EXCEPT ![n] = (modified[n] \cup {k}) \ S]
      BY <1>2 DEF ApplyPut
    <2>2. /\ q \in Seq(Key) /\ IsInjective(q) /\ Len(q) <= MaxSize
          /\ S \subseteq Cached(n) \ {k}
          /\ ToSet(q) = (Cached(n) \cup {k}) \ S
      BY <1>2, StoredOK
    <2>3. value'[n] = Reset(value[n], n, k, i) /\ modified'[n] = (modified[n] \cup {k}) \ S
      BY <2>1 DEF Typed
    <2>4. \A m \in Node \ {n} : value'[m] = value[m] /\ modified'[m] = modified[m]
      BY <2>1 DEF Typed
    <2>5. Cached(n)' = (Cached(n) \cup {k}) \ S
      <3>1. \A l \in Key : value'[n][l] = IF l = k THEN i ELSE IF l \in S THEN 0
                                          ELSE value[n][l]
        BY <2>3 DEF Reset
      <3>2. i # 0 OBVIOUS
      <3> QED BY <2>2, <3>1, <3>2 DEF Cached
    <2>6. \A l \in Key : u[l] = IF l = k THEN 0 ELSE IF l \in S THEN 0 ELSE uses[n][l]
      BY DEF Reset
    <2>7. u \in [Key -> Nat] BY DEF Reset, AllStoresOK, StoresTyped
    <2>8. /\ modified[n] \subseteq Cached(n)
          /\ \A l \in Key : uses[n][l] # 0 => n \in LfuNode /\ l \in Cached(n)
      BY DEF AllStoresOK, StoreOK
    <2>9. modified'[n] \subseteq Cached(n)' BY <2>3, <2>5, <2>8
    <2>10. \A l \in Key : u[l] # 0 => n \in LfuNode /\ l \in Cached(n)'
      BY <2>5, <2>6, <2>8
    <2> QED BY <2>1, <2>2, <2>4, <2>5, <2>7, <2>9, <2>10, OneStore
  <1> QED BY <1>1, <1>2

LEMMA DeleteStores ==
  ASSUME Typed, AllStoresOK, NEW n \in Node, NEW k \in Key, ApplyDelete(n, k)
  PROVE  AllStoresOK'
  <1> PICK s \in Seq(Key) : s = store[n] BY DEF AllStoresOK, StoresTyped
  <1> PICK q : q = Without(s, {k}) OBVIOUS
  <1> PICK u : u = [uses[n] EXCEPT ![k] = 0] OBVIOUS
  <1>1. /\ IsInjective(s) /\ ToSet(s) = Cached(n) /\ Len(s) <= MaxSize
        /\ modified[n] \subseteq Cached(n)
        /\ \A l \in Key : uses[n][l] # 0 => n \in LfuNode /\ l \in Cached(n)
    BY DEF AllStoresOK, StoreOK
  <1>2. /\ q \in Seq(Key) /\ IsInjective(q) /\ Len(q) <= Len(s)
        /\ ToSet(q) = Cached(n) \ {k}
    BY <1>1, WithoutLeaves
  <1>3. store' = [store EXCEPT ![n] = q] BY DEF ApplyDelete
  <1>4. uses' = [uses EXCEPT ![n] = u] BY DEF ApplyDelete
  <1>5. /\ value'[n][k] = 0 /\ \A l \in Key \ {k} : value'[n][l] = value[n][l]
        /\ modified'[n] = modified[n] \ {k}
        /\ \A m \in Node \ {n} : value'[m] = value[m] /\ modified'[m] = modified[m]
    BY DEF ApplyDelete, Typed
  <1>6. Cached(n)' = Cached(n) \ {k} BY <1>5 DEF Cached
  <1>7. u \in [Key -> Nat] /\ \A l \in Key : u[l] = IF l = k THEN 0 ELSE uses[n][l]
    BY DEF AllStoresOK, StoresTyped
  <1>8. Len(q) <= MaxSize
    <2>1. Len(q) \in Nat /\ Len(s) \in Nat /\ MaxSize \in Nat
      BY <1>2, CacheConstantsOK DEF CacheConstantsOK
    <2> QED BY <1>1, <1>2, <2>1
  <1>9. modified'[n] \subseteq Cached(n)' BY <1>1, <1>5, <1>6
  <1>10. \A l \in Key : u[l] # 0 => n \in LfuNode /\ l \in Cached(n)'
    BY <1>1, <1>6, <1>7
  <1>11. ToSet(q) = Cached(n)' BY <1>2, <1>6
  <1> QED BY <1>2, <1>3, <1>4, <1>5, <1>7, <1>8, <1>9, <1>10, <1>11, OneStore

LEMMA GetStores ==
  ASSUME Typed, AllStoresOK, NEW n \in Node, NEW k \in Key, Get(n, k)
  PROVE  AllStoresOK'
  <1> PICK s \in Seq(Key) : s = store[n] BY DEF AllStoresOK, StoresTyped
  <1>1. /\ IsInjective(s) /\ ToSet(s) = Cached(n) /\ Len(s) <= MaxSize
        /\ modified[n] \subseteq Cached(n)
        /\ \A l \in Key : uses[n][l] # 0 => n \in LfuNode /\ l \in Cached(n)
    BY DEF AllStoresOK, StoreOK
  <1>2. value' = value /\ modified' = modified /\ k \in Cached(n) BY DEF Get, Hit
  <1>3. Cached(n)' = Cached(n) BY <1>2 DEF Cached
  <1>6. \A m \in Node \ {n} : value'[m] = value[m] /\ modified'[m] = modified[m]
    BY <1>2
  <1>7. modified'[n] \subseteq Cached(n)' BY <1>1, <1>2, <1>3
  <1>4. CASE n \in LfuNode
    <2> PICK u : u = [uses[n] EXCEPT ![k] = @ + 1] OBVIOUS
    <2>1. u \in [Key -> Nat] /\ \A l \in Key : l # k => u[l] = uses[n][l]
      BY DEF AllStoresOK, StoresTyped
    <2>2. uses' = [uses EXCEPT ![n] = u] /\ store' = [store EXCEPT ![n] = s]
      BY <1>4 DEF Get, Touch, AllStoresOK, StoresTyped
    <2>3. \A l \in Key : u[l] # 0 => n \in LfuNode /\ l \in Cached(n)'
      BY <1>1, <1>2, <1>3, <1>4, <2>1
    <2>4. ToSet(s) = Cached(n)' BY <1>1, <1>3
    <2> QED BY <1>1, <1>6, <1>7, <2>1, <2>2, <2>3, <2>4, OneStore
  <1>5. CASE n \notin LfuNode
    <2> PICK u \in [Key -> Nat] : u = uses[n] BY DEF AllStoresOK, StoresTyped
    <2> PICK q : q = ToEnd(s, k) OBVIOUS
    <2>1. q \in Seq(Key) /\ IsInjective(q) /\ Len(q) <= Len(s) /\ ToSet(q) = ToSet(s)
      BY <1>1, <1>2, MovedToEnd
    <2>2. uses' = [uses EXCEPT ![n] = u] /\ store' = [store EXCEPT ![n] = q]
      BY <1>5 DEF Get, Touch, AllStoresOK, StoresTyped
    <2>3. Len(q) <= MaxSize
      <3>1. Len(q) \in Nat /\ Len(s) \in Nat /\ MaxSize \in Nat
        BY <2>1, CacheConstantsOK DEF CacheConstantsOK
      <3> QED BY <1>1, <2>1, <3>1
    <2>4. ToSet(q) = Cached(n)' BY <1>1, <1>3, <2>1
    <2>5. \A l \in Key : u[l] # 0 => n \in LfuNode /\ l \in Cached(n)' BY <1>1, <1>3
    <2> QED BY <1>6, <1>7, <2>1, <2>2, <2>3, <2>4, <2>5, OneStore
  <1> QED BY <1>4, <1>5

LEMMA StoresStep ==
  ASSUME Typed, AllStoresOK, [Next]_vars
  PROVE  AllStoresOK'
  <1>1. ASSUME NEW n \in Node, Apply(n) PROVE AllStoresOK'
    <2> PICK i : i = applied[n] + 1 OBVIOUS
    <2>1. i \in 1 .. Len(log) BY <1>1 DEF Typed, Apply, NextEntry, logVars
    <2>0. log[i] \in Entry BY <2>1 DEF Typed
    <2>2. log[i].key \in Key BY <2>0 DEF Entry
    <2>3. ApplyPut(n, i) \/ ApplyDelete(n, log[i].key) BY <1>1 DEF Apply
    <2> QED BY <2>1, <2>2, <2>3, PutStores, DeleteStores, CacheConstantsOK
  <1>2. ASSUME NEW n \in Node, NEW k \in Key, Get(n, k) PROVE AllStoresOK'
    BY <1>2, GetStores
  <1>3. ASSUME NEW n, NEW k, Invalidated(n, k) PROVE AllStoresOK'
    <2>1. \A m \in Node : modified'[m] \subseteq modified[m]
      BY <1>3 DEF Invalidated, Typed
    <2> QED BY <1>3, <2>1, StoresStay DEF Invalidated
  <1>4. CASE UNCHANGED nodeVars BY <1>4, StoresStay DEF nodeVars
  <1>5. CASE \/ \E k \in Key : Put(k) \/ Delete(k)
             \/ \E c \in calls : Succeed(c) \/ Fail(c)
             \/ \E n \in Node : Replicate(n)
             \/ ChangeLeader
             \/ UNCHANGED vars
    <2>1. UNCHANGED nodeVars
      BY <1>5 DEF Put, Delete, Write, Succeed, Fail, Replicate, ChangeLeader, vars
    <2> QED BY <1>4, <2>1
  <1> QED BY <1>1, <1>2, <1>3, <1>5 DEF Next, Invalidate, HandleInvalidate

LEMMA SentStep ==
  ASSUME Typed, SentTyped, [Next]_vars
  PROVE  SentTyped'
  <1>1. ASSUME NEW k \in Key, Put(k) \/ Delete(k) PROVE SentTyped'
    <2>1. Len(log) + 1 \in Nat \ {0} /\ leader \in Node BY DEF Typed
    <2>2. /\ calls' = calls \cup {[node |-> leader, key |-> k, index |-> Len(log) + 1, lost |-> FALSE]}
          /\ inNet' = inNet
      BY <1>1 DEF Put, Delete, Write
    <2>3. [node |-> leader, key |-> k, index |-> Len(log) + 1, lost |-> FALSE]
            \in [node : Node, key : Key, index : Nat \ {0}, lost : BOOLEAN]
      BY <2>1
    <2> QED BY <2>2, <2>3 DEF SentTyped
  <1>2. ASSUME NEW c \in calls, Succeed(c) \/ Fail(c) PROVE SentTyped'
    <2>1. /\ calls' = calls \ {c} /\ inNet' \subseteq inNet \cup Broadcast(c)
      BY <1>2 DEF Succeed, Fail
    <2>2. Broadcast(c) \subseteq [key : Key, index : Nat \ {0}, to : Node]
      BY DEF Broadcast, SentTyped
    <2> QED BY <2>1, <2>2 DEF SentTyped
  <1>3. CASE \/ \E n \in Node, k \in Key : Get(n, k) \/ Invalidate(n, k)
             \/ \E m \in inNet : HandleInvalidate(m)
             \/ \E n \in Node : Replicate(n) \/ Apply(n)
             \/ UNCHANGED vars
    <2>1. calls' \subseteq calls /\ inNet' \subseteq inNet
      BY <1>3 DEF Get, Invalidate, Invalidated, HandleInvalidate, Replicate, Apply, vars
    <2> QED BY <2>1 DEF SentTyped
  <1>4. ASSUME ChangeLeader PROVE SentTyped'
    <2>1. calls' = {Deposed(c) : c \in calls} /\ inNet' = inNet BY <1>4 DEF ChangeLeader
    <2>2. ASSUME NEW c \in calls
          PROVE  Deposed(c) \in [node : Node, key : Key, index : Nat \ {0}, lost : BOOLEAN]
      BY <2>2 DEF SentTyped, Deposed
    <2> QED BY <2>1, <2>2 DEF SentTyped
  <1> QED BY <1>1, <1>2, <1>3, <1>4 DEF Next

LEMMA InitStores == Init => AllStoresOK /\ SentTyped
  <1> SUFFICES ASSUME Init PROVE AllStoresOK /\ SentTyped OBVIOUS
  <1>1. SentTyped BY DEF Init, SentTyped
  <1>2. \A n \in Node : Cached(n) = {} BY DEF Init, Cached
  <1>3. IsInjective(<<>>) /\ ToSet(<<>>) = {} /\ Len(<<>>) = 0 /\ <<>> \in Seq(Key)
    BY DEF IsInjective, ToSet
  <1>4. StoresTyped BY <1>3 DEF Init, StoresTyped
  <1>5. ASSUME NEW n \in Node PROVE StoreOK(n)
    <2>1. store[n] = <<>> /\ modified[n] = {} /\ \A k \in Key : uses[n][k] = 0
      BY DEF Init
    <2>2. 0 <= MaxSize BY CacheConstantsOK DEF CacheConstantsOK
    <2> QED BY <1>2, <1>3, <2>1, <2>2 DEF StoreOK
  <1> QED BY <1>1, <1>4, <1>5 DEF AllStoresOK

\* What a node has of a key in its dict, its counters and _mesi_states goes
\* together, and the dict never outgrows max_size, for any number of nodes and
\* keys, any size and either policy (cache_node.py:52-62, 92-100, 247-263).
THEOREM CacheTypeCorrect == Spec => []TypeOK
  <1> DEFINE IInv == Typed /\ AllStoresOK /\ SentTyped
  <1>1. Init => IInv BY InitStores, InitCacheInv DEF CacheInv
  <1>2. CacheInv /\ IInv /\ [Next]_vars => IInv'
    BY EveryStep, StoresStep, SentStep DEF CacheInv
  <1>3. IInv => TypeOK BY DEF AllStoresOK, StoreOK, SentTyped, TypeOK
  <1> QED BY <1>1, <1>2, <1>3, CacheInvariant, PTL DEF Spec
=============================================================================
