-------------------------- MODULE WaitForGraphProofs --------------------------
(***************************************************************************)
(* The depth-first search of WaitForGraph is right, in every finite graph  *)
(* and whatever the order in which it walks.  Both halves, that it ends    *)
(* (so that the function Search exists) and what it finds, go by the least *)
(* loop, in Rank, for which they fail.                                     *)
(***************************************************************************)
EXTENDS WaitForGraph, ListProofs, FiniteSetTheorems

-----------------------------------------------------------------------------
(***************************************************************************)
(* The search terminates: a call of dfs is with one more node on its path, *)
(* a loop goes on with one node less to visit.                             *)
(***************************************************************************)
Results(V) == [cycle : Seq(V), visited : SUBSET V]
Behaviours(V) == [Loops(V) -> SUBSET Results(V)]

Rank(l, V) == (Cardinality(V) + 1) * Cardinality(V \ ToSet(l.path)) + Cardinality(l.left)

LEMMA Lexicographic ==
  ASSUME NEW N \in Nat, NEW a \in Nat, NEW b \in Nat, NEW s \in 0 .. N, NEW t \in 0 .. N,
         b < a
  PROVE  (N + 1) * b + s < (N + 1) * a + t
  <1>1. (N + 1) * b + (N + 1) <= (N + 1) * a
    <2>1. PICK d \in Nat : a = b + 1 + d
      <3>1. a - b - 1 \in Nat /\ a = b + 1 + (a - b - 1) OBVIOUS
      <3> QED BY <3>1
    <2>2. (N + 1) * a = (N + 1) * b + (N + 1) + (N + 1) * d BY <2>1
    <2>3. (N + 1) * d >= 0 /\ (N + 1) * d \in Nat OBVIOUS
    <2>4. (N + 1) * b \in Nat /\ (N + 1) * a \in Nat OBVIOUS
    <2> QED BY <2>2, <2>3, <2>4
  <1>2. (N + 1) * b \in Nat /\ (N + 1) * a \in Nat OBVIOUS
  <1> QED BY <1>1, <1>2

LEMMA RankBounds ==
  ASSUME NEW V, IsFiniteSet(V), NEW l \in Loops(V)
  PROVE  /\ Cardinality(V) \in Nat
         /\ Cardinality(V \ ToSet(l.path)) \in 0 .. Cardinality(V)
         /\ Cardinality(l.left) \in 0 .. Cardinality(V)
         /\ Rank(l, V) \in Nat
         /\ Rank(l, V) < (Cardinality(V) + 1) * (Cardinality(V) + 1)
  <1>1. Cardinality(V) \in Nat BY FS_CardinalityType
  <1>2. \A S \in SUBSET V : Cardinality(S) \in 0 .. Cardinality(V)
    <2> SUFFICES ASSUME NEW S \in SUBSET V PROVE Cardinality(S) \in 0 .. Cardinality(V)
      OBVIOUS
    <2>1. IsFiniteSet(S) /\ Cardinality(S) <= Cardinality(V) BY FS_Subset
    <2>2. Cardinality(S) \in Nat BY <2>1, FS_CardinalityType
    <2> QED BY <1>1, <2>1, <2>2
  <1>3. l.left \in SUBSET V /\ V \ ToSet(l.path) \in SUBSET V BY DEF Loops
  <1> PICK N \in Nat : N = Cardinality(V) BY <1>1
  <1> PICK a \in 0 .. N : a = Cardinality(V \ ToSet(l.path)) BY <1>2, <1>3
  <1> PICK t \in 0 .. N : t = Cardinality(l.left) BY <1>2, <1>3
  <1>4. Rank(l, V) = (N + 1) * a + t BY DEF Rank
  <1>5. (N + 1) * a + t < (N + 1) * (N + 1) + 0
    <2>1. a \in Nat /\ N + 1 \in Nat /\ a < N + 1 /\ 0 \in 0 .. N OBVIOUS
    <2> QED BY <2>1, Lexicographic
  <1>6. (N + 1) * a \in Nat /\ (N + 1) * (N + 1) \in Nat
    <2>1. a \in Nat OBVIOUS
    <2> QED BY <2>1
  <1> QED BY <1>4, <1>5, <1>6

\* The call of dfs(v) from loop l, and loop l after it
Called(graph, V, l, v) ==
  [left |-> Neighbours(graph, V, v), path |-> Append(l.path, v), visited |-> l.visited \cup {v}]
After(l, v, r) == [left |-> l.left \ {v}, path |-> l.path, visited |-> r.visited]

LEMMA CalledFalls ==
  ASSUME NEW V, IsFiniteSet(V), NEW graph, NEW l \in Loops(V), NEW v \in l.left,
         v \notin ToSet(l.path)
  PROVE  /\ Called(graph, V, l, v) \in Loops(V)
         /\ Rank(Called(graph, V, l, v), V) < Rank(l, V)
  <1> PICK k : k = Called(graph, V, l, v) OBVIOUS
  <1>1. v \in V /\ l.path \in Seq(V) /\ l.visited \in SUBSET V BY DEF Loops
  <1>2. Append(l.path, v) \in Seq(V) /\ ToSet(Append(l.path, v)) = ToSet(l.path) \cup {v}
    BY <1>1, AppendLeaves
  <1>3. k \in Loops(V) /\ k.path = Append(l.path, v)
    BY <1>1, <1>2 DEF Loops, Called, Neighbours
  <1> PICK T : T = V \ ToSet(l.path) OBVIOUS
  <1>4. V \ ToSet(k.path) = T \ {v} BY <1>2, <1>3
  <1>5. IsFiniteSet(T) /\ v \in T
    <2>1. T \in SUBSET V OBVIOUS
    <2> QED BY <1>1, <2>1, FS_Subset
  <1>6. Cardinality(T \ {v}) = Cardinality(T) - 1 /\ IsFiniteSet(T \ {v})
    BY <1>5, FS_RemoveElement
  <1> PICK N \in Nat : N = Cardinality(V) BY RankBounds
  <1>7. Cardinality(T) \in Nat /\ Cardinality(T \ {v}) \in Nat
    BY <1>5, <1>6, FS_CardinalityType
  <1>8. Cardinality(l.left) \in 0 .. N /\ Cardinality(k.left) \in 0 .. N BY <1>3, RankBounds
  <1>9. Cardinality(T \ {v}) < Cardinality(T) BY <1>6, <1>7
  <1>10. Rank(k, V) < Rank(l, V) BY <1>4, <1>7, <1>8, <1>9, Lexicographic DEF Rank
  <1> QED BY <1>3, <1>10

LEMMA AfterFalls ==
  ASSUME NEW V, IsFiniteSet(V), NEW l \in Loops(V), NEW v \in l.left, NEW r \in Results(V)
  PROVE  After(l, v, r) \in Loops(V) /\ Rank(After(l, v, r), V) < Rank(l, V)
  <1> PICK k : k = After(l, v, r) OBVIOUS
  <1>1. k \in Loops(V) /\ k.path = l.path /\ k.left = l.left \ {v}
    BY DEF Loops, After, Results
  <1>2. IsFiniteSet(l.left)
    <2>1. l.left \in SUBSET V BY DEF Loops
    <2> QED BY <2>1, FS_Subset
  <1>3. Cardinality(k.left) = Cardinality(l.left) - 1 BY <1>1, <1>2, FS_RemoveElement
  <1> PICK m \in Nat : m = Cardinality(V \ ToSet(l.path)) BY RankBounds
  <1> PICK N \in Nat : N = Cardinality(V) BY RankBounds
  <1> PICK p : p = (N + 1) * m OBVIOUS
  <1>4. p \in Nat OBVIOUS
  <1>5. Rank(k, V) = p + Cardinality(k.left) /\ Rank(l, V) = p + Cardinality(l.left)
    BY <1>1 DEF Rank
  <1>6. Cardinality(l.left) \in Nat BY <1>2, FS_CardinalityType
  <1>7. Rank(k, V) < Rank(l, V) BY <1>3, <1>4, <1>5, <1>6
  <1> QED BY <1>1, <1>7

LEMMA CycleOfTyped ==
  ASSUME NEW V, NEW p \in Seq(V), NEW v \in ToSet(p)
  PROVE  \E i \in 1 .. Len(p) : p[i] = v /\ CycleOf(p, v) = SubSeq(p, i, Len(p))
  <1> DEFINE i == CHOOSE i \in DOMAIN p : p[i] = v
  <1>1. \E j \in DOMAIN p : p[j] = v BY DEF ToSet
  <1>2. i \in DOMAIN p /\ p[i] = v BY <1>1
  <1>3. DOMAIN p = 1 .. Len(p) OBVIOUS
  <1>4. CycleOf(p, v) = SubSeq(p, i, Len(p)) BY DEF CycleOf
  <1> QED BY <1>2, <1>3, <1>4

LEMMA VisitTyped ==
  ASSUME NEW V, IsFiniteSet(V), NEW graph, NEW f \in Behaviours(V),
         NEW l \in Loops(V), NEW v \in l.left
  PROVE  Visit(f, graph, V, l, v) \subseteq Results(V)
  <1>1. l.path \in Seq(V) /\ l.visited \in SUBSET V BY DEF Loops
  <1>2. CASE v \in ToSet(l.path)
    <2>1. PICK i \in 1 .. Len(l.path) : CycleOf(l.path, v) = SubSeq(l.path, i, Len(l.path))
      BY <1>1, <1>2, CycleOfTyped
    <2>2. CycleOf(l.path, v) \in Seq(V) BY <1>1, <2>1
    <2> QED BY <1>1, <1>2, <2>2 DEF Visit, Results
  <1>3. CASE v \notin ToSet(l.path) /\ v \in l.visited
    <2>1. <<>> \in Seq(V) OBVIOUS
    <2> QED BY <1>1, <1>3, <2>1 DEF Visit, Results
  <1>4. CASE v \notin ToSet(l.path) /\ v \notin l.visited
    <2>1. Called(graph, V, l, v) \in Loops(V) BY <1>4, CalledFalls
    <2>2. Visit(f, graph, V, l, v) = f[Called(graph, V, l, v)] BY <1>4 DEF Visit, Called
    <2> QED BY <2>1, <2>2 DEF Behaviours
  <1> QED BY <1>2, <1>3, <1>4

LEMMA GoOnTyped ==
  ASSUME NEW V, IsFiniteSet(V), NEW f \in Behaviours(V),
         NEW l \in Loops(V), NEW v \in l.left, NEW r \in Results(V)
  PROVE  GoOn(f, l, v, r) \subseteq Results(V)
  <1>1. CASE r.cycle # <<>> BY <1>1 DEF GoOn
  <1>2. CASE r.cycle = <<>>
    <2>1. After(l, v, r) \in Loops(V) BY AfterFalls
    <2>2. GoOn(f, l, v, r) = f[After(l, v, r)] BY <1>2 DEF GoOn, After
    <2> QED BY <2>1, <2>2 DEF Behaviours
  <1> QED BY <1>1, <1>2

LEMMA RunTyped ==
  ASSUME NEW V, IsFiniteSet(V), NEW graph, NEW f \in Behaviours(V), NEW l \in Loops(V)
  PROVE  Run(f, graph, V, l) \in SUBSET Results(V)
  <1>1. CASE l.left = {}
    <2>1. <<>> \in Seq(V) /\ l.visited \in SUBSET V BY DEF Loops
    <2> QED BY <1>1, <2>1 DEF Run, Results
  <1>2. CASE l.left # {}
    <2>1. ASSUME NEW v \in l.left, NEW r \in Visit(f, graph, V, l, v)
          PROVE  GoOn(f, l, v, r) \subseteq Results(V)
      BY VisitTyped, GoOnTyped
    <2>2. Run(f, graph, V, l) =
            UNION {UNION {GoOn(f, l, v, r) : r \in Visit(f, graph, V, l, v)} : v \in l.left}
      BY <1>2, Zenon DEF Run
    <2> QED BY <2>1, <2>2
  <1> QED BY <1>1, <1>2

LEMMA RunSame ==
  ASSUME NEW V, IsFiniteSet(V), NEW graph, NEW f \in Behaviours(V), NEW g,
         NEW l \in Loops(V), \A k \in Loops(V) : Rank(k, V) < Rank(l, V) => f[k] = g[k]
  PROVE  Run(f, graph, V, l) = Run(g, graph, V, l)
  <1>1. ASSUME NEW v \in l.left
        PROVE  Visit(f, graph, V, l, v) = Visit(g, graph, V, l, v)
    <2>1. CASE v \notin ToSet(l.path)
      <3>1. f[Called(graph, V, l, v)] = g[Called(graph, V, l, v)] BY <2>1, CalledFalls
      <3> QED BY <3>1 DEF Visit, Called
    <2>2. CASE v \in ToSet(l.path) BY <2>2 DEF Visit
    <2> QED BY <2>1, <2>2
  <1>2. ASSUME NEW v \in l.left, NEW r \in Visit(f, graph, V, l, v)
        PROVE  GoOn(f, l, v, r) = GoOn(g, l, v, r)
    <2>1. r \in Results(V) BY VisitTyped
    <2>2. f[After(l, v, r)] = g[After(l, v, r)] BY <2>1, AfterFalls
    <2> QED BY <2>2 DEF GoOn, After
  <1>3. ASSUME NEW v \in l.left
        PROVE  UNION {GoOn(f, l, v, r) : r \in Visit(f, graph, V, l, v)} =
               UNION {GoOn(g, l, v, r) : r \in Visit(g, graph, V, l, v)}
    BY <1>1, <1>2
  <1>4. UNION {UNION {GoOn(f, l, v, r) : r \in Visit(f, graph, V, l, v)} : v \in l.left} =
        UNION {UNION {GoOn(g, l, v, r) : r \in Visit(g, graph, V, l, v)} : v \in l.left}
    BY <1>3
  <1> QED BY <1>4, Zenon DEF Run

\* f is the search as far as loops of a rank below n are concerned
SearchesTo(f, graph, V, n) ==
  \A l \in Loops(V) : Rank(l, V) < n => f[l] = Run(f, graph, V, l)

LEMMA SearchesFurther ==
  ASSUME NEW V, IsFiniteSet(V), NEW graph, NEW n \in Nat,
         NEW f \in Behaviours(V), SearchesTo(f, graph, V, n)
  PROVE  \E g \in Behaviours(V) : SearchesTo(g, graph, V, n + 1)
  <1> PICK g : g = [l \in Loops(V) |-> Run(f, graph, V, l)] OBVIOUS
  <1>1. g \in Behaviours(V) BY RunTyped, Zenon DEF Behaviours
  <1>2. ASSUME NEW l \in Loops(V), Rank(l, V) < n + 1
        PROVE  g[l] = Run(g, graph, V, l)
    <2>1. ASSUME NEW k \in Loops(V), Rank(k, V) < Rank(l, V) PROVE f[k] = g[k]
      <3>1. Rank(k, V) \in Nat /\ Rank(l, V) \in Nat BY RankBounds
      <3>2. Rank(k, V) < n BY <1>2, <2>1, <3>1
      <3> QED BY <3>2, Zenon DEF SearchesTo
    <2>2. Run(f, graph, V, l) = Run(g, graph, V, l) BY <2>1, RunSame
    <2> QED BY <2>2, Zenon
  <1> QED BY <1>1, <1>2 DEF SearchesTo

LEMMA SearchExists ==
  ASSUME NEW V, IsFiniteSet(V), NEW graph, NEW n \in Nat
  PROVE  \E f \in Behaviours(V) : SearchesTo(f, graph, V, n)
  <1> DEFINE Bad == {m \in Nat : ~ \E f \in Behaviours(V) : SearchesTo(f, graph, V, m)}
  <1> SUFFICES ASSUME Bad # {} PROVE FALSE OBVIOUS
  <1>1. PICK m \in Bad : \A k \in Bad : m <= k BY LeastExists
  <1>2. m \in Nat OBVIOUS
  <1>3. m # 0
    <2> PICK f : f = [l \in Loops(V) |-> {}] OBVIOUS
    <2>1. f \in Behaviours(V) BY DEF Behaviours
    <2>2. SearchesTo(f, graph, V, 0)
      <3>1. \A l \in Loops(V) : Rank(l, V) \in Nat BY RankBounds
      <3> QED BY <3>1 DEF SearchesTo
    <2> QED BY <2>1, <2>2
  <1>4. m - 1 \in Nat /\ ~(m <= m - 1) /\ (m - 1) + 1 = m BY <1>2, <1>3
  <1>5. PICK f \in Behaviours(V) : SearchesTo(f, graph, V, m - 1) BY <1>1, <1>4
  <1>6. \E g \in Behaviours(V) : SearchesTo(g, graph, V, (m - 1) + 1)
    BY <1>4, <1>5, SearchesFurther
  <1> QED BY <1>4, <1>6

\* Search is the function its definition describes.
LEMMA SearchSolves ==
  ASSUME NEW V, IsFiniteSet(V), NEW graph
  PROVE  /\ Search(graph, V) \in Behaviours(V)
         /\ \A l \in Loops(V) :
              Search(graph, V)[l] = Run(Search(graph, V), graph, V, l)
  <1> PICK N \in Nat : N = Cardinality(V) BY FS_CardinalityType
  <1> PICK n \in Nat : n = (N + 1) * (N + 1) OBVIOUS
  <1>1. PICK f \in Behaviours(V) : SearchesTo(f, graph, V, n) BY SearchExists
  <1>2. \A l \in Loops(V) : f[l] = Run(f, graph, V, l) BY <1>1, RankBounds DEF SearchesTo
  <1>3. f = [l \in Loops(V) |-> Run(f, graph, V, l)] BY <1>2, Zenon DEF Behaviours
  <1>4. Search(graph, V) = CHOOSE h : h = [l \in Loops(V) |-> Run(h, graph, V, l)]
    BY DEF Search
  <1> PICK h : h = Search(graph, V) OBVIOUS
  <1>5. h = [l \in Loops(V) |-> Run(h, graph, V, l)] BY <1>3, <1>4, Zenon
  <1>6. \A l \in Loops(V) : h[l] = Run(h, graph, V, l) BY <1>5, Zenon
  <1>7. \A l \in Loops(V) : f[l] = h[l]
    <2> DEFINE Bad == {l \in Loops(V) : f[l] # h[l]}
               R == {Rank(l, V) : l \in Bad}
    <2> SUFFICES ASSUME Bad # {} PROVE FALSE OBVIOUS
    <2>1. R \in SUBSET Nat /\ R # {} BY RankBounds
    <2>2. PICK m \in R : \A k \in R : m <= k BY <2>1, LeastExists
    <2>3. PICK l \in Bad : m = Rank(l, V) OBVIOUS
    <2>4. ASSUME NEW k \in Loops(V), Rank(k, V) < Rank(l, V) PROVE f[k] = h[k]
      <3> SUFFICES ASSUME f[k] # h[k] PROVE FALSE OBVIOUS
      <3>1. Rank(k, V) \in R OBVIOUS
      <3>2. Rank(k, V) \in Nat /\ Rank(l, V) \in Nat BY RankBounds
      <3> HIDE DEF R, Bad
      <3>3. Rank(l, V) <= Rank(k, V) BY <2>2, <2>3, <3>1
      <3> QED BY <2>4, <3>2, <3>3
    <2>5. Run(f, graph, V, l) = Run(h, graph, V, l) BY <2>4, RunSame
    <2> QED BY <1>2, <1>6, <2>5
  <1>8. h = f BY <1>3, <1>5, <1>7, Zenon
  <1> QED BY <1>6, <1>8, Zenon

-----------------------------------------------------------------------------
(***************************************************************************)
(* What the search finds.  A visited node that is not on the path is done  *)
(* with: what it leads to is done with as well, and no cycle is there.     *)
(***************************************************************************)
IsPath(p, graph) ==
  IsInjective(p) /\ \A i \in 1 .. Len(p) - 1 : <<p[i], p[i + 1]>> \in graph

Finished(B, graph, V) ==
  /\ \A v \in B, w \in V : <<v, w>> \in graph => w \in B
  /\ ~ HasACycle(graph, B)

Starts(l, graph, V) ==
  /\ IsPath(l.path, graph)
  /\ ToSet(l.path) \subseteq l.visited
  /\ Finished(l.visited \ ToSet(l.path), graph, V)
  /\ l.path # <<>> => \A v \in l.left : <<l.path[Len(l.path)], v>> \in graph

\* After a result r, of a loop on path p that began with `visited', all of `nodes' are done with
Leaves(p, visited, nodes, r, graph, V) ==
  IF r.cycle # <<>> THEN IsCycle(r.cycle, graph)
  ELSE /\ visited \subseteq r.visited
       /\ Finished(r.visited \ ToSet(p), graph, V)
       /\ nodes \subseteq r.visited \ ToSet(p)

LEMMA ClosesCycle ==
  ASSUME NEW V, NEW graph, NEW p \in Seq(V), NEW v \in ToSet(p), IsPath(p, graph),
         <<p[Len(p)], v>> \in graph
  PROVE  CycleOf(p, v) # <<>> /\ IsCycle(CycleOf(p, v), graph)
  <1>1. PICK i \in 1 .. Len(p) : p[i] = v /\ CycleOf(p, v) = SubSeq(p, i, Len(p))
    BY CycleOfTyped
  <1> PICK n \in Nat : n = Len(p) OBVIOUS
  <1> PICK c : c = SubSeq(p, i, n) OBVIOUS
  <1>2. i \in Nat /\ 1 <= i /\ i <= n OBVIOUS
  <1>3. c \in Seq(V) /\ Len(c) = n - i + 1 /\ \A j \in 1 .. n - i + 1 : c[j] = p[i + j - 1]
    BY <1>2
  <1>4. DOMAIN c = 1 .. n - i + 1 /\ DOMAIN p = 1 .. n BY <1>3
  <1>5. c # <<>>
    <2>1. Len(c) # 0 BY <1>2, <1>3
    <2> QED BY <2>1
  <1>6. IsInjective(c)
    <2> SUFFICES ASSUME NEW a \in DOMAIN c, NEW b \in DOMAIN c, c[a] = c[b] PROVE a = b
      BY DEF IsInjective
    <2>1. i + a - 1 \in DOMAIN p /\ i + b - 1 \in DOMAIN p BY <1>2, <1>4
    <2>2. p[i + a - 1] = p[i + b - 1] BY <1>3, <1>4
    <2>3. i + a - 1 = i + b - 1 BY <2>1, <2>2, Zenon DEF IsPath, IsInjective
    <2> QED BY <1>2, <1>4, <2>3
  <1>7. ASSUME NEW j \in DOMAIN c
        PROVE  <<c[j], c[IF j = Len(c) THEN 1 ELSE j + 1]>> \in graph
    <2>1. CASE j = Len(c)
      <3>1. c[j] = p[n] /\ c[1] = p[i] BY <1>2, <1>3, <1>4, <2>1
      <3> QED BY <1>1, <2>1, <3>1
    <2>2. CASE j # Len(c)
      <3>1. j \in 1 .. n - i /\ i + j - 1 \in 1 .. n - 1 BY <1>2, <1>3, <1>4, <2>2
      <3>2. c[j] = p[i + j - 1] /\ c[j + 1] = p[i + j - 1 + 1]
        <4>1. j \in 1 .. n - i + 1 /\ j + 1 \in 1 .. n - i + 1 BY <1>2, <3>1
        <4>2. i + (j + 1) - 1 = i + j - 1 + 1 BY <1>2, <3>1
        <4> QED BY <1>3, <4>1, <4>2, Zenon
      <3>3. <<p[i + j - 1], p[i + j - 1 + 1]>> \in graph BY <3>1 DEF IsPath
      <3> QED BY <2>2, <3>2, <3>3
    <2> QED BY <2>1, <2>2
  <1> QED BY <1>1, <1>5, <1>6, <1>7 DEF IsCycle

\* A node all of whose neighbours are done with is done with.
LEMMA FinishesOne ==
  ASSUME NEW V, NEW graph, NEW B \in SUBSET V, NEW v \in V,
         Finished(B, graph, V), Neighbours(graph, V, v) \subseteq B, v \notin B
  PROVE  Finished(B \cup {v}, graph, V)
  <1>1. ASSUME NEW u \in B \cup {v}, NEW w \in V, <<u, w>> \in graph PROVE w \in B
    BY <1>1 DEF Finished, Neighbours
  <1>2. ASSUME NEW S \in SUBSET (B \cup {v}), S # {},
               \A u \in S : \E w \in S : <<u, w>> \in graph
        PROVE  FALSE
    <2>1. \A u \in S : \E w \in S \ {v} : <<u, w>> \in graph
      <3> SUFFICES ASSUME NEW u \in S PROVE \E w \in S \ {v} : <<u, w>> \in graph OBVIOUS
      <3>1. PICK w \in S : <<u, w>> \in graph BY <1>2
      <3>2. w \in B BY <1>1, <3>1
      <3> QED BY <3>1, <3>2
    <2>2. S \ {v} # {} BY <1>2, <2>1
    <2>3. S \ {v} \in SUBSET B OBVIOUS
    <2>4. HasACycle(graph, B) BY <2>1, <2>2, <2>3 DEF HasACycle
    <2> QED BY <2>4 DEF Finished
  <1>3. ~ HasACycle(graph, B \cup {v}) BY <1>2 DEF HasACycle
  <1> QED BY <1>1, <1>3 DEF Finished

LEMMA CalledStarts ==
  ASSUME NEW V, NEW graph, NEW l \in Loops(V), NEW v \in l.left, Starts(l, graph, V),
         v \notin ToSet(l.path), v \notin l.visited
  PROVE  Starts(Called(graph, V, l, v), graph, V)
  <1> PICK p \in Seq(V) : p = l.path BY DEF Loops
  <1>0. v \in V BY DEF Loops
  <1> PICK q : q = Append(p, v) OBVIOUS
  <1> PICK n \in Nat : n = Len(p) OBVIOUS
  <1> PICK k : k = Called(graph, V, l, v) OBVIOUS
  <1>1. /\ q \in Seq(V) /\ Len(q) = n + 1 /\ q[n + 1] = v
        /\ \A i \in 1 .. n : q[i] = p[i]
        /\ DOMAIN p = 1 .. n /\ DOMAIN q = 1 .. n + 1
    BY <1>0
  <1>2. ToSet(q) = ToSet(p) \cup {v} BY <1>0, AppendLeaves
  <1>3. k.path = q /\ k.left = Neighbours(graph, V, v) /\ k.visited = l.visited \cup {v}
    BY DEF Called
  <1>4. IsInjective(q)
    <2>1. \A i \in 1 .. n : p[i] # v BY <1>1 DEF ToSet
    <2>2. \A i, j \in 1 .. n : p[i] = p[j] => i = j BY <1>1 DEF Starts, IsPath, IsInjective
    <2> QED BY <1>1, <2>1, <2>2 DEF IsInjective
  <1>5. ASSUME NEW i \in 1 .. n PROVE <<q[i], q[i + 1]>> \in graph
    <2>1. CASE i = n
      <3>1. p # <<>> BY <2>1
      <3>2. <<p[n], v>> \in graph BY <3>1 DEF Starts
      <3> QED BY <1>1, <2>1, <3>2
    <2>2. CASE i # n
      <3>1. i \in 1 .. n - 1 /\ i + 1 \in 1 .. n BY <2>2
      <3>2. <<p[i], p[i + 1]>> \in graph BY <3>1 DEF Starts, IsPath
      <3> QED BY <1>1, <3>1, <3>2
    <2> QED BY <2>1, <2>2
  <1>6. IsPath(k.path, graph)
    <2>1. 1 .. Len(q) - 1 = 1 .. n BY <1>1
    <2> QED BY <1>3, <1>4, <1>5, <2>1 DEF IsPath
  <1>7. k.visited \ ToSet(k.path) = l.visited \ ToSet(l.path) BY <1>2, <1>3
  <1>8. ToSet(k.path) \subseteq k.visited BY <1>2, <1>3 DEF Starts
  <1>9. \A w \in k.left : <<k.path[Len(k.path)], w>> \in graph
    BY <1>1, <1>3 DEF Neighbours
  <1> QED BY <1>6, <1>7, <1>8, <1>9 DEF Starts

\* dfs(v) returns a cycle, or v is done with.
LEMMA VisitLeaves ==
  ASSUME NEW V, IsFiniteSet(V), NEW graph, NEW f \in Behaviours(V),
         NEW l \in Loops(V), NEW v \in l.left, Starts(l, graph, V),
         NEW r \in Visit(f, graph, V, l, v),
         \A k \in Loops(V) : Starts(k, graph, V) /\ Rank(k, V) < Rank(l, V) =>
           \A x \in f[k] : Leaves(k.path, k.visited, k.left, x, graph, V)
  PROVE  Leaves(l.path, l.visited, {v}, r, graph, V)
  <1>0. l.path \in Seq(V) /\ v \in V /\ l.visited \in SUBSET V BY DEF Loops
  <1>1. CASE v \in ToSet(l.path)
    <2>1. r.cycle = CycleOf(l.path, v) BY <1>1 DEF Visit
    <2>2. l.path # <<>>
      <3>1. ToSet(<<>>) = {} BY DEF ToSet
      <3> QED BY <1>1, <3>1
    <2>3. <<l.path[Len(l.path)], v>> \in graph /\ IsPath(l.path, graph) BY <2>2 DEF Starts
    <2>4. r.cycle # <<>> /\ IsCycle(r.cycle, graph) BY <1>0, <1>1, <2>1, <2>3, ClosesCycle
    <2> QED BY <2>4 DEF Leaves
  <1>2. CASE v \notin ToSet(l.path) /\ v \in l.visited
    <2>1. r.cycle = <<>> /\ r.visited = l.visited BY <1>2 DEF Visit
    <2> QED BY <1>2, <2>1 DEF Leaves, Starts
  <1>3. CASE v \notin ToSet(l.path) /\ v \notin l.visited
    <2> PICK k : k = Called(graph, V, l, v) OBVIOUS
    <2>1. r \in f[k] BY <1>3 DEF Visit, Called
    <2>2. k \in Loops(V) /\ Rank(k, V) < Rank(l, V) BY <1>3, CalledFalls
    <2>3. Starts(k, graph, V) BY <1>3, CalledStarts
    <2>4. Leaves(k.path, k.visited, k.left, r, graph, V) BY <2>1, <2>2, <2>3
    <2>5. r \in Results(V) BY VisitTyped
    <2>6. CASE r.cycle # <<>> BY <2>4, <2>6 DEF Leaves
    <2>7. CASE r.cycle = <<>>
      <3>1. /\ k.path = Append(l.path, v) /\ k.left = Neighbours(graph, V, v)
            /\ k.visited = l.visited \cup {v}
        BY DEF Called
      <3>2. ToSet(k.path) = ToSet(l.path) \cup {v} BY <1>0, <3>1, AppendLeaves
      <3> PICK B : B = r.visited \ ToSet(k.path) OBVIOUS
      <3>3. /\ l.visited \cup {v} \subseteq r.visited
            /\ Finished(B, graph, V) /\ Neighbours(graph, V, v) \subseteq B
        BY <2>4, <2>7, <3>1 DEF Leaves
      <3>4. B \in SUBSET V /\ v \notin B BY <2>5, <3>2 DEF Results
      <3>5. Finished(B \cup {v}, graph, V) BY <1>0, <3>3, <3>4, FinishesOne
      <3>6. r.visited \ ToSet(l.path) = B \cup {v} BY <1>3, <3>2, <3>3
      <3> QED BY <2>7, <3>3, <3>5, <3>6 DEF Leaves
    <2> QED BY <2>6, <2>7
  <1> QED BY <1>1, <1>2, <1>3

\* So does a loop, of all the nodes it has left.
LEMMA RunLeaves ==
  ASSUME NEW V, IsFiniteSet(V), NEW graph, NEW f \in Behaviours(V),
         NEW l \in Loops(V), Starts(l, graph, V), NEW x \in Run(f, graph, V, l),
         \A k \in Loops(V) : Starts(k, graph, V) /\ Rank(k, V) < Rank(l, V) =>
           \A y \in f[k] : Leaves(k.path, k.visited, k.left, y, graph, V)
  PROVE  Leaves(l.path, l.visited, l.left, x, graph, V)
  <1>1. CASE l.left = {}
    <2>1. x = [cycle |-> <<>>, visited |-> l.visited] BY <1>1, Zenon DEF Run
    <2>2. x.cycle = <<>> /\ x.visited = l.visited BY <2>1
    <2> QED BY <1>1, <2>2 DEF Leaves, Starts
  <1>2. CASE l.left # {}
    <2>1. x \in UNION {UNION {GoOn(f, l, v, r) : r \in Visit(f, graph, V, l, v)} : v \in l.left}
      BY <1>2, Zenon DEF Run
    <2> PICK v \in l.left : \E r \in Visit(f, graph, V, l, v) : x \in GoOn(f, l, v, r) BY <2>1
    <2>2. PICK r \in Visit(f, graph, V, l, v) : x \in GoOn(f, l, v, r) OBVIOUS
    <2>3. Leaves(l.path, l.visited, {v}, r, graph, V) BY VisitLeaves
    <2>4. CASE r.cycle # <<>>
      <3>1. x = r BY <2>2, <2>4 DEF GoOn
      <3> QED BY <2>3, <2>4, <3>1 DEF Leaves
    <2>5. CASE r.cycle = <<>>
      <3> PICK k : k = After(l, v, r) OBVIOUS
      <3>1. r \in Results(V) BY VisitTyped
      <3>2. k \in Loops(V) /\ Rank(k, V) < Rank(l, V) BY <3>1, AfterFalls
      <3>3. k.path = l.path /\ k.left = l.left \ {v} /\ k.visited = r.visited BY DEF After
      <3>4. /\ l.visited \subseteq r.visited /\ Finished(r.visited \ ToSet(l.path), graph, V)
            /\ v \in r.visited \ ToSet(l.path)
        BY <2>3, <2>5 DEF Leaves
      <3>5. Starts(k, graph, V) BY <3>3, <3>4 DEF Starts
      <3>6. x \in f[k] BY <2>2, <2>5 DEF GoOn, After
      <3>7. Leaves(k.path, k.visited, k.left, x, graph, V) BY <3>2, <3>5, <3>6
      <3> QED BY <3>3, <3>4, <3>7 DEF Leaves
    <2> QED BY <2>4, <2>5
  <1> QED BY <1>1, <1>2

LEMMA RunReturns ==
  ASSUME NEW V, IsFiniteSet(V), NEW graph, NEW f \in Behaviours(V), NEW l \in Loops(V),
         \A k \in Loops(V) : Rank(k, V) < Rank(l, V) => f[k] # {}
  PROVE  Run(f, graph, V, l) # {}
  <1>1. CASE l.left = {}
    <2>1. Run(f, graph, V, l) = {[cycle |-> <<>>, visited |-> l.visited]}
      BY <1>1, Zenon DEF Run
    <2> QED BY <2>1
  <1>2. CASE l.left # {}
    <2> PICK v \in l.left : TRUE BY <1>2
    <2>1. Visit(f, graph, V, l, v) # {}
      <3>1. v \notin ToSet(l.path) => f[Called(graph, V, l, v)] # {} BY CalledFalls
      <3> QED BY <3>1 DEF Visit, Called
    <2> PICK r \in Visit(f, graph, V, l, v) : TRUE BY <2>1
    <2>2. GoOn(f, l, v, r) # {}
      <3>1. r \in Results(V) BY VisitTyped
      <3>2. f[After(l, v, r)] # {} BY <3>1, AfterFalls
      <3> QED BY <3>2 DEF GoOn, After
    <2>3. Run(f, graph, V, l) =
            UNION {UNION {GoOn(f, l, u, x) : x \in Visit(f, graph, V, l, u)} : u \in l.left}
      BY <1>2, Zenon DEF Run
    <2> QED BY <2>2, <2>3
  <1> QED BY <1>1, <1>2

SearchedRight(f, l, graph, V) ==
  /\ f[l] # {}
  /\ Starts(l, graph, V) =>
       \A x \in f[l] : Leaves(l.path, l.visited, l.left, x, graph, V)

LEMMA SearchLeaves ==
  ASSUME NEW V, IsFiniteSet(V), NEW graph, NEW l \in Loops(V)
  PROVE  SearchedRight(Search(graph, V), l, graph, V)
  <1> PICK f \in Behaviours(V) :
        f = Search(graph, V) /\ \A k \in Loops(V) : f[k] = Run(f, graph, V, k)
    BY SearchSolves
  <1> DEFINE Bad == {k \in Loops(V) : ~ SearchedRight(f, k, graph, V)}
             R == {Rank(k, V) : k \in Bad}
  <1> SUFFICES ASSUME Bad # {} PROVE FALSE OBVIOUS
  <1>1. R \in SUBSET Nat /\ R # {} BY RankBounds
  <1>2. PICK m \in R : \A k \in R : m <= k BY <1>1, LeastExists
  <1>3. PICK b \in Bad : m = Rank(b, V) OBVIOUS
  <1>4. ASSUME NEW k \in Loops(V), Rank(k, V) < Rank(b, V)
        PROVE  SearchedRight(f, k, graph, V)
    <2> SUFFICES ASSUME ~ SearchedRight(f, k, graph, V) PROVE FALSE OBVIOUS
    <2>1. Rank(k, V) \in R OBVIOUS
    <2>2. Rank(k, V) \in Nat /\ Rank(b, V) \in Nat BY RankBounds
    <2> HIDE DEF R, Bad
    <2>3. Rank(b, V) <= Rank(k, V) BY <1>2, <1>3, <2>1
    <2> QED BY <1>4, <2>2, <2>3
  <1>5. f[b] # {}
    <2>1. Run(f, graph, V, b) # {} BY <1>4, RunReturns DEF SearchedRight
    <2> QED BY <2>1
  <1>6. ASSUME Starts(b, graph, V), NEW x \in f[b]
        PROVE  Leaves(b.path, b.visited, b.left, x, graph, V)
    <2>1. x \in Run(f, graph, V, b) OBVIOUS
    <2>2. \A k \in Loops(V) : Starts(k, graph, V) /\ Rank(k, V) < Rank(b, V) =>
            \A y \in f[k] : Leaves(k.path, k.visited, k.left, y, graph, V)
      BY <1>4 DEF SearchedRight
    <2>3. b \in Loops(V) OBVIOUS
    <2> HIDE DEF R, Bad
    <2> QED BY <1>6, <2>1, <2>2, <2>3, RunLeaves
  <1> QED BY <1>5, <1>6 DEF SearchedRight

\* has_cycle returns whatever the order in which it walks, with a cycle if there
\* is one and with None if there is none, and what it returns is a cycle from first to last,
\* in every finite graph (lock_manager.py:60-84).
THEOREM SearchIsRight ==
  ASSUME NEW V, IsFiniteSet(V), NEW graph \in SUBSET (V \X V)
  PROVE  FindsCycles(graph, V)
  <1> PICK W : W = {e[1] : e \in graph} \cup {e[2] : e \in graph} OBVIOUS
  <1> PICK roots : roots = {e[1] : e \in graph} OBVIOUS
  <1> PICK all : all = [left |-> roots, path |-> <<>>, visited |-> {}] OBVIOUS
  <1>1. W \in SUBSET V /\ roots \in SUBSET W OBVIOUS
  <1>2. IsFiniteSet(W) BY <1>1, FS_Subset
  <1>3. all \in Loops(W)
    <2>1. <<>> \in Seq(W) OBVIOUS
    <2> QED BY <1>1, <2>1 DEF Loops
  <1>4. all.left = roots /\ all.path = <<>> /\ all.visited = {} /\ ToSet(all.path) = {}
    BY DEF ToSet
  <1>5. Starts(all, graph, W)
    <2>1. IsPath(<<>>, graph)
      <3>1. 1 .. Len(<<>>) - 1 = {} /\ DOMAIN <<>> = {} OBVIOUS
      <3> QED BY <3>1 DEF IsPath, IsInjective
    <2>2. Finished({}, graph, W) BY DEF Finished, HasACycle
    <2> QED BY <1>4, <2>1, <2>2 DEF Starts
  <1>6. SearchedRight(Search(graph, W), all, graph, W) BY <1>2, <1>3, SearchLeaves
  <1>7. CyclesFound(graph) = {r.cycle : r \in Search(graph, W)[all]} BY DEF CyclesFound
  <1>8. CyclesFound(graph) # {} BY <1>6, <1>7 DEF SearchedRight
  <1>9. ASSUME NEW c \in CyclesFound(graph)
        PROVE  (c # <<>> <=> HasACycle(graph, V)) /\ IsCycle(c, graph)
    <2>1. PICK r \in Search(graph, W)[all] : c = r.cycle BY <1>7
    <2>2. Leaves(<<>>, {}, roots, r, graph, W) BY <1>4, <1>5, <1>6 DEF SearchedRight
    <2>3. r \in Results(W) BY <1>2, <1>3, SearchSolves DEF Behaviours
    <2>4. c \in Seq(W) BY <2>1, <2>3 DEF Results
    <2>5. CASE c # <<>>
      <3>1. IsCycle(c, graph) BY <2>1, <2>2, <2>5 DEF Leaves
      <3>2. 1 \in DOMAIN c /\ DOMAIN c = 1 .. Len(c) BY <2>4, <2>5
      <3>3. ToSet(c) \in SUBSET V /\ ToSet(c) # {} BY <1>1, <2>4, <3>2 DEF ToSet
      <3>4. ASSUME NEW v \in ToSet(c) PROVE \E w \in ToSet(c) : <<v, w>> \in graph
        <4>1. PICK i \in DOMAIN c : v = c[i] BY DEF ToSet
        <4> PICK j : j = IF i = Len(c) THEN 1 ELSE i + 1 OBVIOUS
        <4>2. j \in DOMAIN c BY <2>4, <3>2
        <4>3. <<c[i], c[j]>> \in graph BY <3>1 DEF IsCycle
        <4> QED BY <4>1, <4>2, <4>3 DEF ToSet
      <3>5. HasACycle(graph, V) BY <3>3, <3>4 DEF HasACycle
      <3> QED BY <2>5, <3>1, <3>5
    <2>6. CASE c = <<>>
      <3>1. Finished(r.visited, graph, W) /\ roots \subseteq r.visited
        <4>1. ToSet(<<>>) = {} BY DEF ToSet
        <4>2. r.visited \ {} = r.visited OBVIOUS
        <4> QED BY <2>1, <2>2, <2>6, <4>1, <4>2 DEF Leaves
      <3>2. ASSUME NEW S \in SUBSET V, S # {}, \A v \in S : \E w \in S : <<v, w>> \in graph
            PROVE  FALSE
        <4>1. S \subseteq roots
          <5> SUFFICES ASSUME NEW v \in S PROVE v \in roots OBVIOUS
          <5>1. PICK w \in S : <<v, w>> \in graph BY <3>2
          <5>2. <<v, w>>[1] = v OBVIOUS
          <5> QED BY <5>1, <5>2
        <4>2. S \in SUBSET r.visited BY <3>1, <4>1
        <4>3. HasACycle(graph, r.visited) BY <3>2, <4>2 DEF HasACycle
        <4> QED BY <3>1, <4>3 DEF Finished
      <3>3. ~ HasACycle(graph, V) BY <3>2 DEF HasACycle
      <3>4. IsCycle(<<>>, graph) BY DEF IsCycle, IsInjective
      <3> QED BY <2>6, <3>3, <3>4
    <2> QED BY <2>5, <2>6
  <1> QED BY <1>8, <1>9 DEF FindsCycles

LEMMA CyclesTyped ==
  ASSUME NEW V, IsFiniteSet(V), NEW graph \in SUBSET (V \X V), NEW c \in CyclesFound(graph)
  PROVE  c \in Seq(V)
  <1> PICK W : W = {e[1] : e \in graph} \cup {e[2] : e \in graph} OBVIOUS
  <1> PICK all : all = [left |-> {e[1] : e \in graph}, path |-> <<>>, visited |-> {}] OBVIOUS
  <1>1. W \in SUBSET V /\ {e[1] : e \in graph} \in SUBSET W OBVIOUS
  <1>2. IsFiniteSet(W) BY <1>1, FS_Subset
  <1>3. all \in Loops(W)
    <2>1. <<>> \in Seq(W) OBVIOUS
    <2> QED BY <1>1, <2>1 DEF Loops
  <1>4. PICK r \in Search(graph, W)[all] : c = r.cycle BY DEF CyclesFound
  <1>5. r \in Results(W) BY <1>2, <1>3, SearchSolves DEF Behaviours
  <1>6. c \in Seq(W) BY <1>4, <1>5 DEF Results
  <1> QED BY <1>1, <1>6

\* The last client of a cycle waits for itself.
LEMMA CycleReaches ==
  ASSUME NEW V, NEW graph, NEW c \in Seq(V), c # <<>>, IsCycle(c, graph)
  PROVE  /\ Last(c) \in V
         /\ ReachesItself(Last(c), graph, V)
         /\ <<Last(c), c[1]>> \in graph
  <1> PICK n \in Nat : n = Len(c) OBVIOUS
  <1>1. n >= 1 /\ DOMAIN c = 1 .. n /\ Last(c) = c[n] BY DEF Last
  <1>2. \A i \in 1 .. n : c[i] \in V OBVIOUS
  <1>3. n \in DOMAIN c BY <1>1
  <1>4. <<c[n], c[1]>> \in graph BY <1>3 DEF IsCycle
  <1>5. ASSUME NEW S \in SUBSET V,
               \A u \in S \cup {c[n]}, w \in V : <<u, w>> \in graph => w \in S
        PROVE  c[n] \in S
    <2> DEFINE Bad == {i \in 1 .. n : c[i] \notin S}
    <2> SUFFICES ASSUME Bad # {} PROVE FALSE BY <1>1
    <2>1. Bad \in SUBSET Nat OBVIOUS
    <2>2. PICK m \in Bad : \A k \in Bad : m <= k BY <2>1, LeastExists, Zenon
    <2>3. m \in 1 .. n /\ c[m] \notin S OBVIOUS
    <2>4. c[1] \in S BY <1>1, <1>2, <1>4, <1>5
    <2>5. m - 1 \in 1 .. n /\ m - 1 # n /\ ~ (m <= m - 1) /\ m - 1 + 1 = m BY <2>3, <2>4
    <2>6. c[m - 1] \in S BY <2>2, <2>5
    <2>7. <<c[m - 1], c[m]>> \in graph
      <3>1. m - 1 \in DOMAIN c /\ m - 1 # Len(c) BY <1>1, <2>5
      <3>2. <<c[m - 1], c[m - 1 + 1]>> \in graph BY <3>1, Zenon DEF IsCycle
      <3> QED BY <2>5, <3>2
    <2> QED BY <1>2, <1>5, <2>3, <2>6, <2>7
  <1> QED BY <1>1, <1>2, <1>3, <1>4, <1>5 DEF ReachesItself
=============================================================================
