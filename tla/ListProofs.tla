----------------------------- MODULE ListProofs -----------------------------
(***************************************************************************)
(* What Lists!Without leaves of a sequence.  A fact about all lengths is   *)
(* proved by its least counterexample: the set of lengths for which it     *)
(* fails has a least element or is empty (LeastExists).                    *)
(***************************************************************************)
EXTENDS Lists, SequencesExt, NaturalsInduction, WellFoundedInduction, TLAPS

LEMMA LeastExists ==
  ASSUME NEW T \in SUBSET Nat, T # {}
  PROVE  \E x \in T : \A y \in T : x <= y
  <1> DEFINE R == {p \in Nat \X Nat : p[1] < p[2]}
  <1>1. IsWellFoundedOn(R, Nat) BY NatLessThanWellFounded DEF OpToRel
  <1>2. PICK x \in T : \A y \in T : ~ (<<y, x>> \in R) BY <1>1, WFMin
  <1>3. \A y \in T : ~ (y < x) BY <1>2
  <1> HIDE DEF R
  <1> QED BY <1>3

LEMMA AppendLeaves ==
  ASSUME NEW T, NEW q \in Seq(T), NEW x \in T
  PROVE  Append(q, x) \in Seq(T) /\ ToSet(Append(q, x)) = ToSet(q) \cup {x}
  <1> PICK y : y = Append(q, x) OBVIOUS
  <1>1. /\ y \in Seq(T) /\ Len(y) = Len(q) + 1 /\ y[Len(q) + 1] = x
        /\ \A i \in 1 .. Len(q) : y[i] = q[i]
    OBVIOUS
  <1>2. DOMAIN q = 1 .. Len(q) /\ DOMAIN y = DOMAIN q \cup {Len(q) + 1} BY <1>1
  <1>3. ToSet(y) = ToSet(q) \cup {x} BY <1>1, <1>2 DEF ToSet
  <1> QED BY <1>1, <1>3

\* f[i] is what is left of the first i elements
Kept(f, q, S, m) ==
  f = [i \in 0 .. m |->
         IF i = 0 THEN <<>>
         ELSE IF q[i] \in S THEN f[i - 1] ELSE Append(f[i - 1], q[i])]

LEMMA KeptExists ==
  ASSUME NEW q, NEW S, NEW n \in Nat
  PROVE  \E f : Kept(f, q, S, n)
  <1> DEFINE Bad == {m \in Nat : ~ \E f : Kept(f, q, S, m)}
  <1> SUFFICES ASSUME Bad # {} PROVE FALSE OBVIOUS
  <1>1. PICK m \in Bad : \A k \in Bad : m <= k BY LeastExists
  <1>2. m # 0
    <2>1. Kept([i \in 0 .. 0 |-> <<>>], q, S, 0) BY DEF Kept
    <2> QED BY <2>1
  <1>0. m \in Nat OBVIOUS
  <1>3. PICK f : Kept(f, q, S, m - 1)
    <2>1. m - 1 \in Nat /\ ~(m <= m - 1) BY <1>0, <1>2
    <2> QED BY <1>1, <2>1
  <1> DEFINE g == [i \in 0 .. m |->
                     IF i = 0 THEN <<>>
                     ELSE IF q[i] \in S THEN f[i - 1] ELSE Append(f[i - 1], q[i])]
  <1>4. \A i \in 0 .. m - 1 : g[i] = f[i]
    <2> SUFFICES ASSUME NEW i \in 0 .. m - 1 PROVE g[i] = f[i] OBVIOUS
    <2>1. i \in 0 .. m BY <1>0
    <2>2. f[i] = IF i = 0 THEN <<>>
                 ELSE IF q[i] \in S THEN f[i - 1] ELSE Append(f[i - 1], q[i])
      BY <1>3, Zenon DEF Kept
    <2> QED BY <2>1, <2>2, Zenon
  <1>5. \A i \in 0 .. m : i # 0 => g[i - 1] = f[i - 1]
    <2> SUFFICES ASSUME NEW i \in 0 .. m, i # 0 PROVE g[i - 1] = f[i - 1] OBVIOUS
    <2>1. i - 1 \in 0 .. m - 1 BY <1>0
    <2> QED BY <1>4, <2>1, Zenon
  <1>6. Kept(g, q, S, m)
    <2>1. \A i \in 0 .. m :
            (IF i = 0 THEN <<>>
             ELSE IF q[i] \in S THEN f[i - 1] ELSE Append(f[i - 1], q[i]))
            = (IF i = 0 THEN <<>>
               ELSE IF q[i] \in S THEN g[i - 1] ELSE Append(g[i - 1], q[i]))
      BY <1>5, Zenon
    <2> QED BY <2>1, Zenon DEF Kept
  <1> QED BY <1>1, <1>6

LEMMA WithoutKept ==
  ASSUME NEW T, NEW q \in Seq(T), NEW S
  PROVE  \E f : Kept(f, q, S, Len(q)) /\ Without(q, S) = f[Len(q)]
  <1>0. Len(q) \in Nat OBVIOUS
  <1>1. \E f : Kept(f, q, S, Len(q)) BY <1>0, KeptExists, Zenon
  <1> QED BY <1>1, Zenon DEF Kept, Without

\* x is what is left of the first i elements of q
Left(x, q, S, T, i) ==
  /\ x \in Seq(T)
  /\ Len(x) <= i
  /\ (\E j \in 1 .. i : q[j] \in S) => Len(x) < i
  /\ ToSet(x) = {q[j] : j \in 1 .. i} \ S
  /\ IsInjective(q) => IsInjective(x)

LEMMA LeftNext ==
  ASSUME NEW T, NEW q \in Seq(T), NEW S, NEW i \in 1 .. Len(q), NEW x,
         Left(x, q, S, T, i - 1)
  PROVE  Left(IF q[i] \in S THEN x ELSE Append(x, q[i]), q, S, T, i)
  <1>0. i \in Nat /\ i - 1 \in Nat /\ q[i] \in T /\ 1 .. i = (1 .. i - 1) \cup {i}
    OBVIOUS
  <1>1. x \in Seq(T) /\ Len(x) \in Nat BY DEF Left
  <1>2. {q[j] : j \in 1 .. i} = {q[j] : j \in 1 .. i - 1} \cup {q[i]} BY <1>0
  <1>3. CASE q[i] \in S
    <2>1. Len(x) < i BY <1>0, <1>1 DEF Left
    <2>2. ToSet(x) = {q[j] : j \in 1 .. i} \ S BY <1>2, <1>3 DEF Left
    <2> QED BY <1>1, <1>3, <2>1, <2>2 DEF Left
  <1>4. CASE q[i] \notin S
    <2> PICK y : y = Append(x, q[i]) OBVIOUS
    <2>1. /\ y \in Seq(T) /\ Len(y) = Len(x) + 1 /\ y[Len(x) + 1] = q[i]
          /\ \A j \in 1 .. Len(x) : y[j] = x[j]
      BY <1>0, <1>1
    <2>2. ASSUME NEW j \in 1 .. i, q[j] \in S PROVE Len(y) < i
      <3>1. j \in 1 .. i - 1 BY <1>0, <1>4, <2>2
      <3> QED BY <1>0, <1>1, <2>1, <2>2, <3>1 DEF Left
    <2>3. ToSet(y) = ToSet(x) \cup {q[i]}
      <3>1. DOMAIN y = DOMAIN x \cup {Len(x) + 1} BY <1>1, <2>1
      <3> QED BY <1>1, <2>1, <3>1 DEF ToSet
    <2>4. ToSet(y) = {q[j] : j \in 1 .. i} \ S BY <1>2, <1>4, <2>3 DEF Left
    <2>5. ASSUME IsInjective(q) PROVE IsInjective(y)
      <3>1. \A a \in 1 .. Len(x) : x[a] # q[i]
        <4> SUFFICES ASSUME NEW a \in 1 .. Len(x), x[a] = q[i] PROVE FALSE OBVIOUS
        <4>1. x[a] \in ToSet(x) BY <1>1 DEF ToSet
        <4>2. PICK j \in 1 .. i - 1 : x[a] = q[j] BY <4>1 DEF Left
        <4>3. DOMAIN q = 1 .. Len(q) /\ j \in 1 .. Len(q) /\ j # i BY <1>0, <4>2
        <4>4. q[j] = q[i] BY <4>2
        <4> QED BY <2>5, <4>3, <4>4, Zenon DEF IsInjective
      <3>2. \A a, b \in 1 .. Len(x) : x[a] = x[b] => a = b
        BY <1>1, <2>5 DEF Left, IsInjective
      <3> QED BY <1>1, <2>1, <3>1, <3>2 DEF IsInjective
    <2> QED BY <1>0, <1>1, <1>4, <2>1, <2>2, <2>4, <2>5 DEF Left
  <1> QED BY <1>3, <1>4

\* What is taken out is gone, the rest is there, in a shorter sequence, and
\* once if it was there once.
LEMMA WithoutLeaves ==
  ASSUME NEW T, NEW q \in Seq(T), NEW S
  PROVE  /\ Without(q, S) \in Seq(T)
         /\ Len(Without(q, S)) <= Len(q)
         /\ ToSet(q) \cap S # {} => Len(Without(q, S)) < Len(q)
         /\ ToSet(Without(q, S)) = ToSet(q) \ S
         /\ IsInjective(q) => IsInjective(Without(q, S))
  <1>1. PICK f : Kept(f, q, S, Len(q)) /\ Without(q, S) = f[Len(q)] BY WithoutKept
  <1>2. Len(q) \in Nat OBVIOUS
  <1>3. f[0] = <<>>
    <2>1. 0 \in 0 .. Len(q) BY <1>2
    <2> QED BY <1>1, <2>1, Zenon DEF Kept
  <1>4. Left(f[0], q, S, T, 0)
    <2>1. ToSet(<<>>) = {} /\ IsInjective(<<>>) /\ Len(<<>>) = 0 BY DEF ToSet, IsInjective
    <2>2. <<>> \in Seq(T) /\ 1 .. 0 = {} OBVIOUS
    <2> QED BY <1>3, <2>1, <2>2 DEF Left
  <1>5. \A i \in 1 .. Len(q) :
          Left(f[i - 1], q, S, T, i - 1) => Left(f[i], q, S, T, i)
    <2> SUFFICES ASSUME NEW i \in 1 .. Len(q), Left(f[i - 1], q, S, T, i - 1)
                 PROVE  Left(f[i], q, S, T, i)
      OBVIOUS
    <2>1. i \in 0 .. Len(q) /\ i # 0 BY <1>2
    <2>2. f[i] = IF q[i] \in S THEN f[i - 1] ELSE Append(f[i - 1], q[i])
      BY <1>1, <2>1, Zenon DEF Kept
    <2>3. Left(IF q[i] \in S THEN f[i - 1] ELSE Append(f[i - 1], q[i]), q, S, T, i)
      BY LeftNext
    <2> QED BY <2>2, <2>3
  <1>6. Left(f[Len(q)], q, S, T, Len(q))
    <2> DEFINE Bad == {i \in 0 .. Len(q) : ~ Left(f[i], q, S, T, i)}
    <2> SUFFICES ASSUME Bad # {} PROVE FALSE BY <1>2
    <2>0. Bad \in SUBSET Nat BY <1>2
    <2>1. PICK m \in Bad : \A k \in Bad : m <= k BY <2>0, LeastExists, Zenon
    <2>2. m \in 1 .. Len(q) BY <1>2, <1>4
    <2>3. m - 1 \in 0 .. Len(q) /\ ~ (m <= m - 1) BY <1>2, <2>2
    <2>4. Left(f[m - 1], q, S, T, m - 1) BY <2>1, <2>3
    <2> QED BY <1>5, <2>1, <2>2, <2>4
  <1>7. ToSet(q) = {q[j] : j \in 1 .. Len(q)} BY DEF ToSet
  <1>8. ToSet(q) \cap S # {} => \E j \in 1 .. Len(q) : q[j] \in S BY <1>7
  <1> QED BY <1>1, <1>6, <1>7, <1>8 DEF Left
=============================================================================
