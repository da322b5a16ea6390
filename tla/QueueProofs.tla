----------------------------- MODULE QueueProofs -----------------------------
(***************************************************************************)
(* Proofs about the replicated queue, for any number of nodes, messages    *)
(* and consumers. QueueInv ties a node to the part of the log it has       *)
(* applied: what it keeps was enqueued there (KeptEnqueued), and what was  *)
(* enqueued and not settled it keeps (StaysUntilSettled); as long as       *)
(* nobody else has led, an answered enqueue is applied at the leader       *)
(* (AcceptedApplied).                                                      *)
(* That replicas agree is another argument: there is one sequence of queue *)
(* contents, the one the log determines, and every node is somewhere on it *)
(* (OneHistory). It is an existential of the invariant, not a variable.    *)
(* At the end the refinement of Mailbox: an applied entry moves its own    *)
(* message as Mailbox allows (ApplyMoves), no other step moves any.        *)
(***************************************************************************)
EXTENDS QueueProperties, TLAPS

-----------------------------------------------------------------------------
(***************************************************************************)
(* What the three ways to change a deque do to its members.                *)
(***************************************************************************)
LEMMA RemoveAtIs ==
  ASSUME NEW S, NEW q \in Seq(S), NEW i \in 1 .. Len(q)
  PROVE  /\ RemoveAt(q, i) \in Seq(S)
         /\ Len(RemoveAt(q, i)) = Len(q) - 1
         /\ \A j \in 1 .. Len(q) - 1 :
              RemoveAt(q, i)[j] = IF j < i THEN q[j] ELSE q[j + 1]
  <1>1. RemoveAt(q, i) = SubSeq(q, 1, i - 1) \o SubSeq(q, i + 1, Len(q)) BY DEF RemoveAt
  <1>2. /\ SubSeq(q, 1, i - 1) \in Seq(S) /\ Len(SubSeq(q, 1, i - 1)) = i - 1
        /\ \A j \in 1 .. i - 1 : SubSeq(q, 1, i - 1)[j] = q[j]
    OBVIOUS
  <1>3. /\ SubSeq(q, i + 1, Len(q)) \in Seq(S) /\ Len(SubSeq(q, i + 1, Len(q))) = Len(q) - i
        /\ \A j \in 1 .. Len(q) - i : SubSeq(q, i + 1, Len(q))[j] = q[i + j]
    OBVIOUS
  <1> DEFINE a == SubSeq(q, 1, i - 1)
             b == SubSeq(q, i + 1, Len(q))
  <1> HIDE DEF a, b
  <1>4. /\ a \o b \in Seq(S) /\ Len(a \o b) = Len(q) - 1
        /\ \A j \in 1 .. Len(q) - 1 : (a \o b)[j] = IF j < i THEN a[j] ELSE b[j - (i - 1)]
    <2>1. a \in Seq(S) /\ b \in Seq(S) /\ Len(a) = i - 1 /\ Len(b) = Len(q) - i
      BY <1>2, <1>3 DEF a, b
    <2>2. a \o b \in Seq(S) /\ Len(a \o b) = Len(a) + Len(b) BY <2>1
    <2>3. \A j \in 1 .. Len(a) + Len(b) :
            (a \o b)[j] = IF j <= Len(a) THEN a[j] ELSE b[j - Len(a)]
      BY <2>1
    <2>4. Len(q) \in Nat OBVIOUS
    <2> QED BY <2>1, <2>2, <2>3, <2>4
  <1>5. \A j \in 1 .. Len(q) - 1 : j < i => a[j] = q[j] BY <1>2 DEF a
  <1>6. ASSUME NEW j \in 1 .. Len(q) - 1, ~(j < i) PROVE b[j - (i - 1)] = q[j + 1]
    <2>1. j - (i - 1) \in 1 .. Len(q) - i BY <1>6
    <2>2. b[j - (i - 1)] = q[i + (j - (i - 1))] BY <1>3, <2>1 DEF b
    <2> QED BY <2>2
  <1> QED BY <1>1, <1>4, <1>5, <1>6 DEF a, b

LEMMA WithoutIs ==
  ASSUME NEW q \in Seq(Message), NEW m
  PROVE  /\ Without(q, m) \in Seq(Message)
         /\ ToSet(Without(q, m)) \subseteq ToSet(q)
         /\ ToSet(q) \ {m} \subseteq ToSet(Without(q, m))
         /\ IsInjective(q) => IsInjective(Without(q, m)) /\ m \notin ToSet(Without(q, m))
  <1>1. CASE m \notin ToSet(q) BY <1>1 DEF Without
  <1>2. CASE m \in ToSet(q)
    <2> DEFINE i == CHOOSE i \in DOMAIN q : q[i] = m
               w == RemoveAt(q, i)
    <2>1. i \in 1 .. Len(q) /\ q[i] = m BY <1>2 DEF ToSet
    <2>2. Without(q, m) = w BY <1>2 DEF Without
    <2> HIDE DEF i
    <2>3. /\ w \in Seq(Message) /\ Len(w) = Len(q) - 1 /\ DOMAIN w = 1 .. Len(q) - 1
          /\ \A j \in 1 .. Len(q) - 1 : w[j] = IF j < i THEN q[j] ELSE q[j + 1]
      BY <2>1, RemoveAtIs
    <2> HIDE DEF w
    <2>4. DOMAIN q = 1 .. Len(q) /\ Len(q) \in Nat OBVIOUS
    <2>5. ToSet(w) \subseteq ToSet(q)
      <3>1. \A j \in 1 .. Len(q) - 1 : j \in 1 .. Len(q) /\ j + 1 \in 1 .. Len(q) BY <2>4
      <3>2. \A j \in 1 .. Len(q) - 1 : w[j] \in {q[j], q[j + 1]} BY <2>3
      <3>3. \A j \in 1 .. Len(q) - 1 : w[j] \in ToSet(q) BY <2>4, <3>1, <3>2 DEF ToSet
      <3> QED BY <2>3, <3>3 DEF ToSet
    <2>6. ASSUME NEW x \in ToSet(q) \ {m} PROVE x \in ToSet(w)
      <3>1. PICK k \in 1 .. Len(q) : q[k] = x BY <2>4 DEF ToSet
      <3>2. k # i BY <2>1, <3>1
      <3>3. CASE k < i
        <4>1. k \in 1 .. Len(q) - 1 /\ w[k] = x BY <2>1, <2>3, <2>4, <3>1, <3>3
        <4> QED BY <2>3, <4>1 DEF ToSet
      <3>4. CASE k > i
        <4>1. k - 1 \in 1 .. Len(q) - 1 /\ ~(k - 1 < i) BY <2>1, <2>4, <3>4
        <4>2. w[k - 1] = x BY <2>3, <3>1, <4>1
        <4> QED BY <2>3, <4>1, <4>2 DEF ToSet
      <3> QED BY <2>1, <3>2, <3>3, <3>4
    <2>7. ASSUME IsInjective(q)
          PROVE  IsInjective(w) /\ m \notin ToSet(w)
      <3>1. \A j, k \in 1 .. Len(q) : q[j] = q[k] => j = k BY <2>4, <2>7 DEF IsInjective
      <3>2. \A j, k \in 1 .. Len(q) - 1 : w[j] = w[k] => j = k BY <2>1, <2>3, <2>4, <3>1
      <3>3. \A j \in 1 .. Len(q) - 1 : w[j] # m BY <2>1, <2>3, <2>4, <3>1
      <3> QED BY <2>3, <3>2, <3>3 DEF IsInjective, ToSet
    <2> QED BY <2>2, <2>3, <2>5, <2>6, <2>7
  <1> QED BY <1>1, <1>2

LEMMA AppendIs ==
  ASSUME NEW q \in Seq(Message), NEW m \in Message
  PROVE  /\ Append(q, m) \in Seq(Message)
         /\ ToSet(Append(q, m)) = ToSet(q) \cup {m}
         /\ IsInjective(q) /\ m \notin ToSet(q) => IsInjective(Append(q, m))
  <1> DEFINE a == Append(q, m)
  <1>1. /\ a \in Seq(Message) /\ Len(a) = Len(q) + 1 /\ DOMAIN a = 1 .. Len(q) + 1
        /\ \A j \in 1 .. Len(q) : a[j] = q[j]
        /\ a[Len(q) + 1] = m
        /\ Len(q) \in Nat /\ DOMAIN q = 1 .. Len(q)
    OBVIOUS
  <1> HIDE DEF a
  <1>2. ToSet(a) = ToSet(q) \cup {m} BY <1>1 DEF ToSet
  <1>3. IsInjective(q) /\ m \notin ToSet(q) => IsInjective(a) BY <1>1 DEF ToSet, IsInjective
  <1> QED BY <1>1, <1>2, <1>3 DEF a

LEMMA PrependIs ==
  ASSUME NEW q \in Seq(Message), NEW m \in Message
  PROVE  /\ <<m>> \o q \in Seq(Message)
         /\ ToSet(<<m>> \o q) = ToSet(q) \cup {m}
         /\ IsInjective(q) /\ m \notin ToSet(q) => IsInjective(<<m>> \o q)
  <1> DEFINE a == <<m>> \o q
  <1>1. /\ a \in Seq(Message) /\ Len(a) = Len(q) + 1 /\ DOMAIN a = 1 .. Len(q) + 1
        /\ \A j \in 2 .. Len(q) + 1 : a[j] = q[j - 1]
        /\ a[1] = m
        /\ Len(q) \in Nat /\ DOMAIN q = 1 .. Len(q)
    OBVIOUS
  <1> HIDE DEF a
  <1>2. \A j \in 1 .. Len(q) : a[j + 1] = q[j] /\ j + 1 \in 1 .. Len(q) + 1 BY <1>1
  <1>3. ToSet(a) = ToSet(q) \cup {m}
    <2>1. ToSet(a) \subseteq ToSet(q) \cup {m}
      <3>1. \A j \in 1 .. Len(q) + 1 : j = 1 \/ (j \in 2 .. Len(q) + 1 /\ j - 1 \in 1 .. Len(q))
        BY <1>1
      <3> QED BY <1>1, <3>1 DEF ToSet
    <2>2. ToSet(q) \subseteq ToSet(a) BY <1>1, <1>2 DEF ToSet
    <2>3. m \in ToSet(a)
      <3>1. 1 \in 1 .. Len(q) + 1 BY <1>1
      <3> QED BY <1>1, <3>1 DEF ToSet
    <2> QED BY <2>1, <2>2, <2>3
  <1>4. ASSUME IsInjective(q), m \notin ToSet(q) PROVE IsInjective(a)
    <2>1. \A j, k \in 1 .. Len(q) : q[j] = q[k] => j = k BY <1>1, <1>4 DEF IsInjective
    <2>2. \A j \in 1 .. Len(q) : q[j] # m BY <1>1, <1>4 DEF ToSet
    <2>3. \A j \in 1 .. Len(q) + 1 : j = 1 \/ (j \in 2 .. Len(q) + 1 /\ j - 1 \in 1 .. Len(q))
      BY <1>1
    <2>4. \A j, k \in 1 .. Len(q) + 1 : a[j] = a[k] => j = k
      BY <1>1, <2>1, <2>2, <2>3
    <2> QED BY <1>1, <2>4 DEF IsInjective
  <1> QED BY <1>1, <1>3, <1>4 DEF a

-----------------------------------------------------------------------------
(***************************************************************************)
(* The inductive invariant.  First what ties the log to the calls and to   *)
(* what clients sent: whatever is in the log was proposed, an enqueue      *)
(* once; a call that still waits finds its entry where it put it.          *)
(***************************************************************************)
LogTyped ==
  /\ leader \in Node /\ log \in Seq(Entry)
  /\ commit \in [Node -> Nat] /\ applied \in [Node -> Nat] /\ failovers \in Nat
  /\ \A n \in Node : applied[n] <= commit[n] /\ commit[n] <= Len(log)

IsFor(i, op, m) == log[i].op = op /\ log[i].msg = m

EnqueuesSent == \A i \in 1 .. Len(log), m \in Message : IsFor(i, "enqueue", m) => m \in sent

EnqueuedOnce ==
  \A i, j \in 1 .. Len(log), m \in Message :
    IsFor(i, "enqueue", m) /\ IsFor(j, "enqueue", m) => i = j

\* But for the calls of deposed leaders, whose index is 0
CallsInLog ==
  \A c \in calls :
    /\ c.index # 0 => c.index \in 1 .. Len(log) /\ IsFor(c.index, c.op, c.msg)
    /\ c.op = "dequeue" => c.by \in Consumer
    /\ c.op = "enqueue" => c.msg \in sent
    /\ failovers = 0 => c.index # 0 /\ c.node = leader

LogInv ==
  /\ LogTyped /\ calls \subseteq Call /\ sent \subseteq Message
  /\ EnqueuesSent /\ EnqueuedOnce /\ CallsInLog

\* What no step takes back; and a leader that was never challenged has been in
\* office from the start
CommitsKept ==
  /\ \A n \in Node :
       /\ commit[n] <= commit'[n] /\ commit'[n] <= Len(log')
       /\ \A i \in 1 .. commit[n] : log'[i] = log[i]
       /\ applied[n] <= applied'[n]
  /\ failovers' = 0 => failovers = 0 /\ leader' = leader

\* A step that applies nothing
Quiet == CommitsKept /\ UNCHANGED <<queue, inFlight, count, applied>>

LEMMA ProposeLog ==
  ASSUME LogInv, NEW op \in Op, NEW m \in Message, NEW by \in Consumer \cup {None},
         Propose(op, m, by), sent \subseteq sent', sent' \subseteq Message,
         op = "enqueue" => m \notin sent /\ m \in sent',
         op = "dequeue" => by \in Consumer
  PROVE  LogInv' /\ CommitsKept /\ applied' = applied
  <1> DEFINE e == [op |-> op, msg |-> m, by |-> by]
             c == [node |-> leader, op |-> op, msg |-> m, by |-> by, index |-> Len(log) + 1]
  <1>1. e \in Entry /\ e.op = op /\ e.msg = m BY DEF Entry
  <1>2. /\ LogTyped /\ calls \subseteq Call /\ EnqueuesSent /\ EnqueuedOnce /\ CallsInLog
        /\ Len(log) \in Nat
    BY DEF LogInv, LogTyped
  <1>3. c \in Call BY <1>2 DEF Call, LogTyped
  <1>4. /\ log' = Append(log, e) /\ UNCHANGED <<leader, commit, applied, failovers>>
        /\ calls' = calls \cup {c}
    BY DEF Propose, Append1, Extend
  <1> HIDE DEF e
  <1>5. /\ log' \in Seq(Entry) /\ Len(log') = Len(log) + 1
        /\ \A i \in 1 .. Len(log) : log'[i] = log[i]
        /\ log'[Len(log) + 1] = e
    BY <1>1, <1>2, <1>4 DEF LogTyped
  <1>6. LogTyped' BY <1>2, <1>4, <1>5 DEF LogTyped
  <1>7. \A i \in 1 .. Len(log') : i \in 1 .. Len(log) \/ i = Len(log) + 1 BY <1>2, <1>5
  <1>8. EnqueuesSent' BY <1>1, <1>2, <1>5, <1>7 DEF EnqueuesSent, IsFor
  <1>9. EnqueuedOnce' BY <1>1, <1>2, <1>5, <1>7 DEF EnqueuedOnce, EnqueuesSent, IsFor
  <1>10. CallsInLog'
    <2>1. ASSUME NEW d \in calls
          PROVE  /\ d.index # 0 => /\ d.index \in 1 .. Len(log') /\ log'[d.index] = log[d.index]
                                   /\ IsFor(d.index, d.op, d.msg)
                 /\ d.op = "dequeue" => d.by \in Consumer
                 /\ d.op = "enqueue" => d.msg \in sent'
                 /\ failovers' = 0 => d.index # 0 /\ d.node = leader'
      BY <1>2, <1>4, <1>5 DEF CallsInLog
    <2>2. /\ c.index \in 1 .. Len(log') /\ log'[c.index] = e /\ c.op = op /\ c.msg = m /\ c.by = by
          /\ c.index # 0 /\ c.node = leader'
      BY <1>2, <1>4, <1>5
    <2> HIDE DEF c
    <2> QED BY <1>1, <1>4, <2>1, <2>2 DEF CallsInLog, IsFor
  <1>11. CommitsKept BY <1>2, <1>4, <1>5 DEF CommitsKept, LogTyped
  <1> QED BY <1>2, <1>3, <1>4, <1>6, <1>8, <1>9, <1>10, <1>11 DEF LogInv

LEMMA SameLog ==
  ASSUME LogInv, UNCHANGED <<consensusVars, sent>>, calls' \subseteq calls
  PROVE  LogInv' /\ CommitsKept /\ applied' = applied
  BY DEF LogInv, LogTyped, EnqueuesSent, EnqueuedOnce, CallsInLog, IsFor, CommitsKept, consensusVars, logVars

LEMMA ReplicateLog ==
  ASSUME LogInv, NEW n \in Node, Commit(n) \/ Learn(n), UNCHANGED <<calls, sent>>
  PROVE  LogInv' /\ CommitsKept /\ applied' = applied
  <1>1. LogTyped BY DEF LogInv
  <1>2. PICK c \in Nat : c > commit[n] /\ c <= Len(log) /\ commit' = [commit EXCEPT ![n] = c]
    <2>1. CASE Commit(n)
      <3> DEFINE c == Len(log)
      <3>1. c \in Nat /\ c > commit[n] /\ c <= Len(log) BY <1>1, <2>1 DEF Commit, LogTyped, CommitAll
      <3>2. commit' = [commit EXCEPT ![n] = c] BY <2>1 DEF Commit, CommitAll
      <3> HIDE DEF c
      <3> QED BY <3>1, <3>2
    <2>2. CASE Learn(n)
      <3>1. PICK k \in commit[n] + 1 .. commit[leader] : commit' = [commit EXCEPT ![n] = k]
        BY <2>2 DEF Learn, HearOfCommits
      <3>2. commit[n] \in Nat /\ commit[leader] \in Nat /\ commit[leader] <= Len(log)
        BY <1>1 DEF LogTyped
      <3>3. k \in Nat /\ k > commit[n] /\ k <= Len(log) BY <3>2
      <3> QED BY <3>1, <3>3
    <2> QED BY <2>1, <2>2
  <1>3. UNCHANGED <<leader, log, applied, failovers>> BY DEF Commit, Learn, CommitAll, HearOfCommits
  <1>4. /\ commit' \in [Node -> Nat]
        /\ \A p \in Node : commit[p] <= commit'[p] /\ commit'[p] <= Len(log)
                           /\ applied[p] <= commit'[p]
    BY <1>1, <1>2 DEF LogTyped
  <1>5. LogTyped' BY <1>1, <1>3, <1>4 DEF LogTyped
  <1>6. LogInv' BY <1>3, <1>5 DEF LogInv, EnqueuesSent, EnqueuedOnce, CallsInLog, IsFor
  <1>7. CommitsKept BY <1>1, <1>3, <1>4 DEF CommitsKept, LogTyped
  <1> QED BY <1>3, <1>6, <1>7

LEMMA FailoverLog ==
  ASSUME LogInv, NEW n \in Node, Failover(n), UNCHANGED <<applied, sent>>,
         calls' = {Deposed(c) : c \in calls}
  PROVE  LogInv' /\ CommitsKept /\ applied' = applied
  <1>1. LogTyped BY DEF LogInv
  <1>2. PICK k \in 0 .. Len(log) :
          (\A p \in Node : commit[p] <= k) /\ log' = SubSeq(log, 1, k)
    BY DEF Failover, TakeOver
  <1>3. /\ log' \in Seq(Entry) /\ Len(log') = k /\ k \in Nat /\ k <= Len(log)
        /\ \A i \in 1 .. k : log'[i] = log[i] /\ i \in 1 .. Len(log)
    BY <1>1, <1>2 DEF LogTyped
  <1>4. leader' = n /\ UNCHANGED commit /\ failovers' = failovers + 1 BY DEF Failover, TakeOver
  <1>5. LogTyped'
    <2>1. \A p \in Node : applied'[p] <= commit'[p] /\ commit'[p] <= Len(log')
      BY <1>1, <1>2, <1>3, <1>4 DEF LogTyped
    <2>2. /\ leader' \in Node /\ failovers' \in Nat
          /\ commit' \in [Node -> Nat] /\ applied' \in [Node -> Nat]
      BY <1>1, <1>4 DEF LogTyped
    <2> QED BY <1>3, <2>1, <2>2 DEF LogTyped
  <1>6. EnqueuesSent' BY <1>3 DEF EnqueuesSent, IsFor, LogInv
  <1>7. EnqueuedOnce' BY <1>3 DEF EnqueuedOnce, IsFor, LogInv
  <1>8. CallsInLog'
    <2>0. failovers' # 0 BY <1>1, <1>4 DEF LogTyped
    <2> SUFFICES ASSUME NEW c \in calls, NEW d, d = Deposed(c)
                 PROVE  /\ d.index # 0 => d.index \in 1 .. Len(log') /\ IsFor(d.index, d.op, d.msg)'
                        /\ d.op = "dequeue" => d.by \in Consumer
                        /\ d.op = "enqueue" => d.msg \in sent'
      BY <2>0 DEF CallsInLog
    <2>1. c \in Call /\ c.node \in Node /\ c.index \in Nat BY DEF LogInv, Call
    <2>2. /\ d.op = c.op /\ d.msg = c.msg /\ d.by = c.by /\ d.index \in {c.index, 0}
          /\ d.index # 0 => c.index <= commit[c.node]
      BY <2>1 DEF Deposed, Call
    <2>3. ASSUME d.index # 0
          PROVE  d.index \in 1 .. Len(log') /\ IsFor(d.index, d.op, d.msg)'
      <3>1. d.index = c.index /\ c.index <= commit[c.node] BY <2>2, <2>3
      <3>2. c.index \in 1 .. Len(log) /\ IsFor(c.index, c.op, c.msg)
        BY <2>3, <3>1 DEF LogInv, CallsInLog
      <3>3. commit[c.node] \in Nat /\ commit[c.node] <= k BY <1>1, <1>2, <2>1 DEF LogTyped
      <3>4. c.index \in 1 .. k BY <1>3, <2>1, <3>1, <3>2, <3>3
      <3> QED BY <1>3, <2>2, <3>1, <3>2, <3>4 DEF IsFor
    <2> QED BY <2>2, <2>3 DEF LogInv, CallsInLog
  <1>9. CommitsKept BY <1>1, <1>2, <1>3, <1>4 DEF CommitsKept, LogTyped
  <1>10. calls' \subseteq Call
    <2> SUFFICES ASSUME NEW c \in calls PROVE Deposed(c) \in Call OBVIOUS
    <2>1. c \in Call BY DEF LogInv
    <2> QED BY <2>1 DEF Deposed, Call
  <1> QED BY <1>5, <1>6, <1>7, <1>8, <1>9, <1>10 DEF LogInv

LEMMA ApplyLog ==
  ASSUME LogInv, NEW n \in Node, NextEntry(n), UNCHANGED <<calls, sent>>
  PROVE  /\ LogInv' /\ CommitsKept
         /\ applied' = [applied EXCEPT ![n] = applied[n] + 1]
         /\ applied[n] + 1 \in 1 .. commit[n] /\ log' = log /\ commit' = commit
  <1>1. LogTyped BY DEF LogInv
  <1>2. /\ applied[n] < commit[n] /\ applied' = [applied EXCEPT ![n] = applied[n] + 1]
        /\ UNCHANGED <<leader, log, commit, failovers>>
    BY DEF NextEntry, logVars
  <1>3. applied[n] + 1 \in 1 .. commit[n] BY <1>1, <1>2 DEF LogTyped
  <1>4. LogTyped' BY <1>1, <1>2, <1>3 DEF LogTyped
  <1> QED BY <1>1, <1>2, <1>3, <1>4
      DEF LogInv, LogTyped, EnqueuesSent, EnqueuedOnce, CallsInLog, IsFor, CommitsKept

-----------------------------------------------------------------------------
(***************************************************************************)
(* What applying an entry does to the messages a node keeps.               *)
(***************************************************************************)
NodeTyped ==
  /\ queue \in [Node -> Seq(Message)] /\ inFlight \in [Node -> SUBSET Message]
  /\ count \in [Node -> [Message -> Nat]]
  /\ overdue \in [Node -> SUBSET Message]
  /\ \A n \in Node : overdue[n] \subseteq inFlight[n]

Effect(n, e) ==
  \/ e.op = "enqueue" /\ ApplyEnqueue(n, e.msg)
  \/ e.op = "dequeue" /\ ApplyDequeue(n, e.msg)
  \/ e.op = "ack" /\ ApplyAck(n, e.msg)
  \/ e.op = "nack" /\ ApplyNack(n, e.msg)
  \/ e.op = "expire" /\ ApplyExpire(n, e.msg)

InOnePlace(n) == IsInjective(queue[n]) /\ ToSet(queue[n]) \cap inFlight[n] = {}

Brings(e) == IF e.op = "enqueue" THEN {e.msg} ELSE {}
MayTake(e) == IF e.op \in {"ack", "expire"} THEN {e.msg} ELSE {}

OthersSame(n) ==
  \A p \in Node \ {n} : /\ queue'[p] = queue[p] /\ inFlight'[p] = inFlight[p]
                        /\ count'[p] = count[p]

KeptChanges(n, e) ==
  /\ InOnePlace(n)'
  /\ Kept(n)' \subseteq Kept(n) \cup Brings(e)
  /\ (Kept(n) \ MayTake(e)) \cup Brings(e) \subseteq Kept(n)'

LEMMA LandIs ==
  ASSUME NodeTyped, NEW n \in Node, NEW m, Land(n, m)
  PROVE  /\ inFlight' \in [Node -> SUBSET Message] /\ overdue' \in [Node -> SUBSET Message]
         /\ \A p \in Node : overdue'[p] \subseteq inFlight'[p]
         /\ inFlight'[n] = inFlight[n] \ {m}
         /\ \A p \in Node \ {n} : inFlight'[p] = inFlight[p]
  BY DEF NodeTyped, Land

LEMMA QueueSetIs ==
  ASSUME NodeTyped, NEW n \in Node, NEW q \in Seq(Message),
         queue' = [queue EXCEPT ![n] = q]
  PROVE  /\ queue' \in [Node -> Seq(Message)] /\ queue'[n] = q
         /\ \A p \in Node \ {n} : queue'[p] = queue[p]
  BY DEF NodeTyped

\* A message that is put where it was not, or taken from where it was, stays in
\* one place; an entry touches no other message (queue_node.py:165-210).
LEMMA EffectOnKept ==
  ASSUME NodeTyped, NEW n \in Node, InOnePlace(n), NEW e \in Entry, Effect(n, e),
         e.op = "enqueue" => e.msg \notin Kept(n)
  PROVE  NodeTyped' /\ OthersSame(n) /\ KeptChanges(n, e)
  <1> DEFINE m == e.msg
             q == queue[n]
  <1>0. m \in Message /\ q \in Seq(Message) /\ inFlight[n] \subseteq Message
    BY DEF Entry, NodeTyped
  <1> HIDE DEF m, q
  <1>1. CASE e.op = "enqueue" /\ ApplyEnqueue(n, m)
    <2>1. queue' = [queue EXCEPT ![n] = Append(q, m)] /\ UNCHANGED <<inFlight, count, overdue>>
      BY <1>1 DEF ApplyEnqueue, q
    <2>2. /\ queue' \in [Node -> Seq(Message)] /\ queue'[n] = Append(q, m)
          /\ \A p \in Node \ {n} : queue'[p] = queue[p]
      BY <1>0, <2>1, AppendIs, QueueSetIs
    <2>3. NodeTyped' /\ OthersSame(n) BY <2>1, <2>2 DEF NodeTyped, OthersSame
    <2>4. m \notin ToSet(q) /\ m \notin inFlight[n] BY <1>1 DEF Kept, m, q
    <2>5. KeptChanges(n, e)
      BY <1>0, <1>1, <2>1, <2>2, <2>4, AppendIs
      DEF KeptChanges, InOnePlace, Kept, Brings, MayTake, m, q
    <2> QED BY <2>3, <2>5
  <1>2. CASE e.op = "dequeue" /\ ApplyDequeue(n, m) /\ m \in ToSet(q)
    <2>1. /\ queue' = [queue EXCEPT ![n] = Without(q, m)]
          /\ inFlight' = [inFlight EXCEPT ![n] = inFlight[n] \cup {m}]
          /\ count' = [count EXCEPT ![n][m] = count[n][m] + 1]
          /\ overdue' = [overdue EXCEPT ![n] = overdue[n] \ {m}]
      BY <1>2 DEF ApplyDequeue, q
    <2>2. /\ queue' \in [Node -> Seq(Message)] /\ queue'[n] = Without(q, m)
          /\ \A p \in Node \ {n} : queue'[p] = queue[p]
      BY <1>0, <2>1, WithoutIs, QueueSetIs
    <2>3. /\ inFlight' \in [Node -> SUBSET Message] /\ inFlight'[n] = inFlight[n] \cup {m}
          /\ overdue' \in [Node -> SUBSET Message]
          /\ \A p \in Node : overdue'[p] \subseteq inFlight'[p]
          /\ \A p \in Node \ {n} : inFlight'[p] = inFlight[p]
      BY <1>0, <2>1 DEF NodeTyped
    <2>4. /\ count' \in [Node -> [Message -> Nat]]
          /\ \A p \in Node \ {n} : count'[p] = count[p]
      BY <1>0, <2>1 DEF NodeTyped
    <2>5. NodeTyped' /\ OthersSame(n) BY <2>2, <2>3, <2>4 DEF NodeTyped, OthersSame
    <2>6. InOnePlace(n)' BY <1>0, <2>2, <2>3, WithoutIs DEF InOnePlace, q
    <2>7. Kept(n)' = Kept(n) BY <1>0, <1>2, <2>2, <2>3, WithoutIs DEF Kept, q
    <2> QED BY <1>2, <2>5, <2>6, <2>7 DEF KeptChanges, Brings, MayTake
  <1>3. CASE e.op = "dequeue" /\ ApplyDequeue(n, m) /\ m \notin ToSet(q)
    BY <1>3 DEF ApplyDequeue, q, nodeVars, NodeTyped, OthersSame, KeptChanges, InOnePlace, Kept,
                Brings, MayTake
  <1>4. CASE e.op = "ack" /\ ApplyAck(n, m)
    <2>1. Land(n, m) /\ UNCHANGED <<queue, count>> BY <1>4 DEF ApplyAck
    <2>2. NodeTyped' /\ OthersSame(n) BY <2>1, LandIs DEF NodeTyped, OthersSame
    <2>3. KeptChanges(n, e)
      BY <1>4, <2>1, LandIs DEF KeptChanges, InOnePlace, Kept, Brings, MayTake, m
    <2> QED BY <2>2, <2>3
  <1>5. CASE e.op = "nack" /\ ApplyNack(n, m) /\ m \in inFlight[n]
    <2>1. queue' = [queue EXCEPT ![n] = <<m>> \o q] /\ Land(n, m) /\ UNCHANGED count
      BY <1>5 DEF ApplyNack, q
    <2>2. /\ queue' \in [Node -> Seq(Message)] /\ queue'[n] = <<m>> \o q
          /\ \A p \in Node \ {n} : queue'[p] = queue[p]
      BY <1>0, <2>1, PrependIs, QueueSetIs
    <2>3. NodeTyped' /\ OthersSame(n) BY <2>1, <2>2, LandIs DEF NodeTyped, OthersSame
    <2>4. m \notin ToSet(q) BY <1>5 DEF InOnePlace, q
    <2>5. InOnePlace(n)' BY <1>0, <2>1, <2>2, <2>4, LandIs, PrependIs DEF InOnePlace, q
    <2>6. Kept(n)' = Kept(n) BY <1>0, <1>5, <2>1, <2>2, LandIs, PrependIs DEF Kept, q
    <2> QED BY <1>5, <2>3, <2>5, <2>6 DEF KeptChanges, Brings, MayTake
  <1>6. CASE e.op = "nack" /\ ApplyNack(n, m) /\ m \notin inFlight[n]
    <2>1. Land(n, m) /\ UNCHANGED <<queue, count>> BY <1>6 DEF ApplyNack
    <2>2. NodeTyped' /\ OthersSame(n) BY <2>1, LandIs DEF NodeTyped, OthersSame
    <2>3. inFlight'[n] = inFlight[n]
      <3>1. inFlight'[n] = inFlight[n] \ {m} BY <2>1, LandIs
      <3> QED BY <1>6, <3>1
    <2> QED BY <1>6, <2>1, <2>2, <2>3 DEF KeptChanges, InOnePlace, Kept, Brings, MayTake
  <1>7. CASE e.op = "expire" /\ ApplyExpire(n, m)
    <2>1. queue' = [queue EXCEPT ![n] = Without(q, m)] /\ Land(n, m) /\ UNCHANGED count
      BY <1>7 DEF ApplyExpire, q
    <2>2. /\ queue' \in [Node -> Seq(Message)] /\ queue'[n] = Without(q, m)
          /\ \A p \in Node \ {n} : queue'[p] = queue[p]
      BY <1>0, <2>1, WithoutIs, QueueSetIs
    <2>3. NodeTyped' /\ OthersSame(n) BY <2>1, <2>2, LandIs DEF NodeTyped, OthersSame
    <2>4. InOnePlace(n)' BY <1>0, <2>1, <2>2, LandIs, WithoutIs DEF InOnePlace, q
    <2>5. Kept(n)' \subseteq Kept(n) /\ Kept(n) \ {m} \subseteq Kept(n)'
      BY <1>0, <2>1, <2>2, LandIs, WithoutIs DEF Kept, q
    <2> QED BY <1>7, <2>3, <2>4, <2>5 DEF KeptChanges, Brings, MayTake, m
  <1> QED BY <1>1, <1>2, <1>3, <1>4, <1>5, <1>6, <1>7 DEF Effect, m

-----------------------------------------------------------------------------
(***************************************************************************)
(* Second, what ties the state of a node to the entries it has applied:    *)
(* what it keeps was enqueued there, and what was enqueued and neither     *)
(* acked nor expired is kept.                                              *)
(***************************************************************************)
KeptEnqueued ==
  \A n \in Node : \A m \in Kept(n) : \E i \in 1 .. applied[n] : IsFor(i, "enqueue", m)

StaysUntilSettled ==
  \A n \in Node, m \in Message :
    AppliedFor(n, {"enqueue"}, m) # {} /\ AppliedFor(n, {"ack", "expire"}, m) = {}
      => m \in Kept(n)

NodeInv == NodeTyped /\ OnePlace /\ KeptEnqueued /\ StaysUntilSettled

LEMMA AppliedForSame ==
  ASSUME LogTyped, CommitsKept, NEW n \in Node, applied'[n] = applied[n], NEW ops, NEW m
  PROVE  AppliedFor(n, ops, m)' = AppliedFor(n, ops, m)
  <1>1. applied[n] \in Nat /\ commit[n] \in Nat /\ applied[n] <= commit[n] BY DEF LogTyped
  <1>2. \A i \in 1 .. applied[n] : log'[i] = log[i] BY <1>1 DEF CommitsKept
  <1> QED BY <1>2 DEF AppliedFor

LEMMA NodesSame ==
  ASSUME LogTyped, CommitsKept, NodeInv, UNCHANGED <<queue, inFlight, count, applied>>,
         overdue' \in [Node -> SUBSET Message],
         \A n \in Node : overdue'[n] \subseteq inFlight[n]
  PROVE  NodeInv'
  <1>1. NodeTyped' BY DEF NodeInv, NodeTyped
  <1>2. OnePlace' BY DEF NodeInv, OnePlace
  <1>3. \A n \in Node : Kept(n)' = Kept(n) BY DEF Kept
  <1>4. KeptEnqueued'
    <2>1. \A n \in Node : \A i \in 1 .. applied[n] : log'[i] = log[i]
      BY DEF LogTyped, CommitsKept
    <2> QED BY <1>3, <2>1 DEF NodeInv, KeptEnqueued, IsFor
  <1>5. StaysUntilSettled'
    BY <1>3, AppliedForSame DEF NodeInv, StaysUntilSettled
  <1> QED BY <1>1, <1>2, <1>4, <1>5 DEF NodeInv

\* What one more applied entry adds to AppliedFor
LEMMA AppliedForGrows ==
  ASSUME LogInv, NEW n \in Node, NextEntry(n), NEW p \in Node, NEW ops, NEW m
  PROVE  AppliedFor(p, ops, m)' =
           IF p = n /\ log[applied[n] + 1].op \in ops /\ log[applied[n] + 1].msg = m
           THEN AppliedFor(p, ops, m) \cup {applied[n] + 1} ELSE AppliedFor(p, ops, m)
  <1>1. /\ \A q \in Node : applied[q] \in Nat
        /\ applied' = [applied EXCEPT ![n] = applied[n] + 1] /\ log' = log
        /\ applied \in [Node -> Nat]
    BY DEF LogInv, LogTyped, NextEntry, logVars
  <1>2. CASE p = n
    <2>1. applied'[n] = applied[n] + 1 BY <1>1
    <2>2. 1 .. applied[n] + 1 = (1 .. applied[n]) \cup {applied[n] + 1} BY <1>1
    <2> QED BY <1>1, <1>2, <2>1, <2>2 DEF AppliedFor
  <1>3. CASE p # n
    <2>1. applied'[p] = applied[p] BY <1>1, <1>3
    <2> QED BY <1>1, <1>3, <2>1 DEF AppliedFor
  <1> QED BY <1>2, <1>3

\* The next entry of a node, if it is an enqueue, is of a message the node does
\* not keep: no message is enqueued twice.
LEMMA NextIsNew ==
  ASSUME LogInv, KeptEnqueued, NEW n \in Node, NextEntry(n)
  PROVE  /\ log[applied[n] + 1] \in Entry
         /\ log[applied[n] + 1].op = "enqueue" => log[applied[n] + 1].msg \notin Kept(n)
  <1> DEFINE j == applied[n] + 1
  <1>1. j \in 1 .. Len(log) /\ applied[n] \in Nat /\ applied[n] <= Len(log)
    BY DEF LogInv, LogTyped, NextEntry, logVars
  <1>2. log[j] \in Entry BY <1>1 DEF LogInv, LogTyped
  <1>3. ASSUME log[j].op = "enqueue", log[j].msg \in Kept(n) PROVE FALSE
    <2>1. PICK i \in 1 .. applied[n] : IsFor(i, "enqueue", log[j].msg) BY <1>3 DEF KeptEnqueued
    <2>2. IsFor(j, "enqueue", log[j].msg) /\ log[j].msg \in Message
      BY <1>2, <1>3 DEF IsFor, Entry
    <2>3. i \in 1 .. Len(log) /\ i # j BY <1>1
    <2> QED BY <1>1, <2>1, <2>2, <2>3 DEF LogInv, EnqueuedOnce
  <1> QED BY <1>2, <1>3

LEMMA ApplyEffect ==
  ASSUME LogInv, NodeInv, NEW n \in Node, Apply(n)
  PROVE  /\ NextEntry(n) /\ log[applied[n] + 1] \in Entry
         /\ Effect(n, log[applied[n] + 1])
         /\ NodeTyped' /\ OthersSame(n) /\ KeptChanges(n, log[applied[n] + 1])
  <1> DEFINE e == log[applied[n] + 1]
  <1>1. NextEntry(n) /\ Effect(n, e) BY DEF Apply, Effect
  <1>2. NodeTyped /\ InOnePlace(n) /\ KeptEnqueued BY DEF NodeInv, OnePlace, InOnePlace
  <1>3. e \in Entry /\ (e.op = "enqueue" => e.msg \notin Kept(n)) BY <1>1, <1>2, NextIsNew
  <1> HIDE DEF e
  <1>4. NodeTyped' /\ OthersSame(n) /\ KeptChanges(n, e) BY <1>1, <1>2, <1>3, EffectOnKept
  <1> QED BY <1>1, <1>3, <1>4 DEF e

LEMMA ApplyNodes ==
  ASSUME LogInv, NodeInv, NEW n \in Node, Apply(n)
  PROVE  NodeInv'
  <1> DEFINE j == applied[n] + 1
             e == log[j]
  <1>1. /\ NextEntry(n) /\ e \in Entry /\ NodeTyped' /\ OthersSame(n) /\ KeptChanges(n, e)
    BY ApplyEffect
  <1>2. /\ applied \in [Node -> Nat] /\ applied' = [applied EXCEPT ![n] = j]
        /\ j \in Nat /\ log' = log
    BY <1>1 DEF NextEntry, LogInv, LogTyped, logVars
  <1>3. /\ applied'[n] = j /\ \A p \in Node \ {n} : applied'[p] = applied[p]
        /\ 1 .. applied[n] \subseteq 1 .. j /\ j \in 1 .. j
    BY <1>2
  <1>4. \A p \in Node \ {n} : Kept(p)' = Kept(p) BY <1>1 DEF OthersSame, Kept
  <1>5. OnePlace' BY <1>1 DEF OthersSame, OnePlace, NodeInv, KeptChanges, InOnePlace
  <1>6. KeptEnqueued'
    <2> SUFFICES ASSUME NEW p \in Node, NEW m \in Kept(p)'
                 PROVE  \E i \in 1 .. applied'[p] : IsFor(i, "enqueue", m)'
      BY DEF KeptEnqueued
    <2>1. CASE m \in Kept(p)
      <3>1. PICK i \in 1 .. applied[p] : IsFor(i, "enqueue", m)
        BY <2>1 DEF NodeInv, KeptEnqueued
      <3>2. i \in 1 .. applied'[p] BY <1>3, <3>1
      <3> QED BY <1>2, <3>1, <3>2 DEF IsFor
    <2>2. CASE m \notin Kept(p)
      <3>1. p = n /\ m \in Brings(e) BY <1>1, <1>4, <2>2 DEF KeptChanges
      <3>2. IsFor(j, "enqueue", m) BY <3>1 DEF Brings, IsFor
      <3> QED BY <1>2, <1>3, <3>1, <3>2 DEF IsFor
    <2> QED BY <2>1, <2>2
  <1>7. StaysUntilSettled'
    <2> SUFFICES ASSUME NEW p \in Node, NEW m \in Message,
                        AppliedFor(p, {"enqueue"}, m)' # {},
                        AppliedFor(p, {"ack", "expire"}, m)' = {}
                 PROVE  m \in Kept(p)'
      BY DEF StaysUntilSettled
    <2>1. AppliedFor(p, {"ack", "expire"}, m) = {} /\ (p = n => m \notin MayTake(e))
      BY <1>1, AppliedForGrows DEF MayTake
    <2>2. CASE AppliedFor(p, {"enqueue"}, m) # {}
      <3>1. m \in Kept(p) BY <2>1, <2>2 DEF NodeInv, StaysUntilSettled
      <3> QED BY <1>1, <1>4, <2>1, <3>1 DEF KeptChanges
    <2>3. CASE AppliedFor(p, {"enqueue"}, m) = {}
      <3>1. p = n /\ e.op \in {"enqueue"} /\ e.msg = m BY <1>1, <2>3, AppliedForGrows
      <3> QED BY <1>1, <3>1 DEF KeptChanges, Brings
    <2> QED BY <2>2, <2>3
  <1> QED BY <1>1, <1>5, <1>6, <1>7 DEF NodeInv

-----------------------------------------------------------------------------
(***************************************************************************)
(* Third, that the leader has applied what it told producers.              *)
(***************************************************************************)
ClientTyped ==
  /\ batch \in [Node -> [Loop -> SUBSET Message]]
  /\ accepted \subseteq sent /\ held \subseteq Delivery
  /\ requests \in Nat /\ failures \in Nat

AcceptedApplied ==
  failovers = 0 => \A m \in accepted : AppliedFor(leader, {"enqueue"}, m) # {}

QueueInv == LogInv /\ NodeInv /\ ClientTyped /\ AcceptedApplied

LEMMA InitQueueInv == Init => QueueInv
  <1> SUFFICES ASSUME Init PROVE QueueInv OBVIOUS
  <1> USE DEF Init, ConsensusInit, LogInit
  <1>1. LogInv
    <2>1. Len(log) = 0 /\ log \in Seq(Entry) OBVIOUS
    <2>2. LogTyped BY <2>1 DEF LogTyped
    <2> QED BY <2>1, <2>2 DEF LogInv, EnqueuesSent, EnqueuedOnce, CallsInLog
  <1>2. NodeInv
    <2>0. /\ \A n \in Node : DOMAIN queue[n] = {} /\ inFlight[n] = {}
          /\ NodeTyped
      <3>1. DOMAIN <<>> = {} /\ <<>> \in Seq(Message) OBVIOUS
      <3> QED BY <3>1 DEF NodeTyped
    <2>1. \A n \in Node : Kept(n) = {} BY <2>0 DEF Kept, ToSet
    <2>2. NodeTyped BY <2>0
    <2>3. OnePlace BY <2>0 DEF OnePlace, IsInjective
    <2>4. StaysUntilSettled BY DEF StaysUntilSettled, AppliedFor
    <2> QED BY <2>1, <2>2, <2>3, <2>4 DEF NodeInv, KeptEnqueued
  <1>3. ClientTyped /\ AcceptedApplied BY DEF ClientTyped, AcceptedApplied, Loop
  <1> QED BY <1>1, <1>2, <1>3 DEF QueueInv

LEMMA AcceptedSame ==
  ASSUME LogTyped, LogTyped', CommitsKept, AcceptedApplied, accepted' = accepted
  PROVE  AcceptedApplied'
  <1> SUFFICES ASSUME failovers' = 0, NEW m \in accepted
               PROVE  AppliedFor(leader, {"enqueue"}, m)' # {}
    BY DEF AcceptedApplied
  <1>1. failovers = 0 /\ leader' = leader /\ leader \in Node BY DEF CommitsKept, LogTyped
  <1>2. PICK i \in 1 .. applied[leader] : IsFor(i, "enqueue", m)
    BY <1>1 DEF AcceptedApplied, AppliedFor, IsFor
  <1>3. i \in 1 .. applied'[leader] /\ log'[i] = log[i]
    <2>1. /\ applied[leader] \in Nat /\ applied'[leader] \in Nat /\ commit[leader] \in Nat
          /\ applied[leader] <= applied'[leader] /\ applied[leader] <= commit[leader]
          /\ \A j \in 1 .. commit[leader] : log'[j] = log[j]
      BY <1>1 DEF CommitsKept, LogTyped
    <2> QED BY <1>2, <2>1
  <1> QED BY <1>1, <1>2, <1>3 DEF AppliedFor, IsFor

\* A step that makes a proposal, or changes nothing but what clients know
LEMMA NodesKeep ==
  ASSUME QueueInv, LogInv', CommitsKept, applied' = applied, UNCHANGED nodeVars,
         accepted' = accepted, ClientTyped'
  PROVE  QueueInv' /\ Quiet
  <1>1. LogTyped /\ LogTyped' /\ NodeInv BY DEF QueueInv, LogInv
  <1>2. NodeInv' BY <1>1, NodesSame DEF nodeVars, NodeInv, NodeTyped
  <1>3. AcceptedApplied' BY <1>1, AcceptedSame DEF QueueInv
  <1> QED BY <1>2, <1>3 DEF QueueInv, Quiet, nodeVars

LEMMA StepEnqueue ==
  ASSUME QueueInv, NEW m \in Message, Enqueue(m)
  PROVE  QueueInv' /\ Quiet
  <1>1. /\ Propose("enqueue", m, None) /\ m \notin sent /\ sent' = sent \cup {m}
        /\ requests' = requests + 1
        /\ UNCHANGED <<nodeVars, batch, accepted, held, failures>>
    BY DEF Enqueue, Request
  <1>2. LogInv' /\ CommitsKept /\ applied' = applied
    BY <1>1, ProposeLog DEF QueueInv, LogInv, Op
  <1>3. ClientTyped' BY <1>1 DEF QueueInv, ClientTyped
  <1> QED BY <1>1, <1>2, <1>3, NodesKeep

LEMMA StepDequeue ==
  ASSUME QueueInv, NEW w \in Consumer, NEW f, Dequeue(w, f)
  PROVE  QueueInv' /\ Quiet
  <1>1. PICK m \in Picked(leader, f) : Propose("dequeue", m, w) BY DEF Dequeue
  <1>2. m \in Message
    <2>1. PICK i \in DOMAIN queue[leader] : m = queue[leader][i] BY <1>1 DEF Picked
    <2>2. queue[leader] \in Seq(Message)
      BY DEF QueueInv, LogInv, LogTyped, NodeInv, NodeTyped
    <2> QED BY <2>1, <2>2
  <1>3. requests' = requests + 1 /\ UNCHANGED <<nodeVars, batch, sent, accepted, held, failures>>
    BY DEF Dequeue, Request
  <1>4. LogInv' /\ CommitsKept /\ applied' = applied
    BY <1>1, <1>2, <1>3, ProposeLog DEF QueueInv, LogInv, Op
  <1>5. ClientTyped' BY <1>3 DEF QueueInv, ClientTyped
  <1> QED BY <1>3, <1>4, <1>5, NodesKeep

LEMMA StepAnswer ==
  ASSUME QueueInv, NEW w \in Consumer, NEW d \in held, NEW op \in {"ack", "nack"},
         Answer(w, d, op)
  PROVE  QueueInv' /\ Quiet
  <1>1. /\ Propose(op, d.msg, w) /\ requests' = requests + 1
        /\ UNCHANGED <<nodeVars, batch, sent, accepted, held, failures>>
    BY DEF Answer, Request
  <1>2. d.msg \in Message BY DEF QueueInv, ClientTyped, Delivery
  <1>3. LogInv' /\ CommitsKept /\ applied' = applied
    BY <1>1, <1>2, ProposeLog DEF QueueInv, LogInv, Op
  <1>4. ClientTyped' BY <1>1 DEF QueueInv, ClientTyped
  <1> QED BY <1>1, <1>3, <1>4, NodesKeep

LEMMA StepLoop ==
  ASSUME QueueInv, NEW loop \in Loop, LoopStep(loop)
  PROVE  QueueInv' /\ Quiet
  <1>1. PICK todo \in (IF batch[leader][loop] = {} THEN Due(leader, loop) ELSE {batch[leader][loop]}) :
        \E m \in todo :
          /\ batch' = [batch EXCEPT ![leader][loop] = todo \ {m}]
          /\ Propose(loop, m, None)
    BY DEF LoopStep
  <1>2. leader \in Node BY DEF QueueInv, LogInv, LogTyped
  <1>3. todo \subseteq Message
    <2>1. batch[leader][loop] \subseteq Message BY <1>2 DEF QueueInv, ClientTyped
    <2>2. overdue[leader] \subseteq Message BY <1>2 DEF QueueInv, NodeInv, NodeTyped
    <2>3. ToSet(queue[leader]) \subseteq Message
      <3>1. queue[leader] \in Seq(Message) BY <1>2 DEF QueueInv, NodeInv, NodeTyped
      <3> QED BY <3>1 DEF ToSet
    <2> QED BY <1>1, <2>1, <2>2, <2>3 DEF Due
  <1>4. PICK m \in todo : /\ batch' = [batch EXCEPT ![leader][loop] = todo \ {m}]
                          /\ Propose(loop, m, None)
    BY <1>1
  <1>5. /\ UNCHANGED <<nodeVars, sent, accepted, held, failures>>
        /\ requests' \in {requests, requests + 1}
    BY DEF LoopStep, Request
  <1>6. m \in Message /\ loop \in Op /\ loop # "enqueue" /\ loop # "dequeue" BY <1>3, <1>4 DEF Loop, Op
  <1>7. LogInv' /\ CommitsKept /\ applied' = applied
    BY <1>4, <1>5, <1>6, ProposeLog DEF QueueInv, LogInv
  <1>8. ClientTyped'
    <2>1. batch' \in [Node -> [Loop -> SUBSET Message]]
      BY <1>2, <1>3, <1>4 DEF QueueInv, ClientTyped
    <2> QED BY <1>5, <2>1 DEF QueueInv, ClientTyped
  <1> QED BY <1>5, <1>7, <1>8, NodesKeep

LEMMA StepAckTimeout ==
  ASSUME QueueInv, NEW m \in Message, AckTimeout(m)
  PROVE  QueueInv' /\ Quiet
  <1>1. /\ m \in inFlight[leader] /\ overdue' = [overdue EXCEPT ![leader] = @ \cup {m}]
        /\ UNCHANGED <<consensusVars, queue, inFlight, count, batch, calls, clientVars, failures>>
    BY DEF AckTimeout
  <1>2. LogInv' /\ CommitsKept /\ applied' = applied
    BY <1>1, SameLog DEF QueueInv, clientVars
  <1>3. LogTyped /\ LogTyped' /\ NodeInv /\ AcceptedApplied /\ NodeTyped
    BY <1>2 DEF QueueInv, LogInv, NodeInv
  <1>4. overdue' \in [Node -> SUBSET Message] /\ \A n \in Node : overdue'[n] \subseteq inFlight[n]
    BY <1>1, <1>3 DEF NodeTyped
  <1>5. NodeInv' BY <1>1, <1>2, <1>3, <1>4, NodesSame
  <1>6. AcceptedApplied' BY <1>1, <1>2, <1>3, AcceptedSame DEF clientVars
  <1>7. ClientTyped' BY <1>1 DEF QueueInv, ClientTyped, clientVars
  <1> QED BY <1>1, <1>2, <1>5, <1>6, <1>7 DEF QueueInv, Quiet

LEMMA StepSucceed ==
  ASSUME QueueInv, NEW c \in calls, Succeed(c)
  PROVE  QueueInv' /\ Quiet
  <1>1. /\ commit[c.node] >= c.index /\ calls' = calls \ {c} /\ held' = HeldAfter(c)
        /\ accepted' = IF c.op = "enqueue" THEN accepted \cup {c.msg} ELSE accepted
        /\ UNCHANGED <<consensusVars, nodeVars, batch, sent, requests, failures>>
    BY DEF Succeed
  <1>2. LogInv' /\ CommitsKept /\ applied' = applied BY <1>1, SameLog DEF QueueInv
  <1>3. LogTyped /\ LogTyped' /\ NodeInv /\ AcceptedApplied
    BY <1>2 DEF QueueInv, LogInv
  <1>4. NodeInv' BY <1>1, <1>2, <1>3, NodesSame DEF nodeVars, NodeInv, NodeTyped
  <1>5. c.node \in Node /\ c.op \in Op /\ c.msg \in Message /\ c.by \in Consumer \cup {None} /\ c.index \in Nat
    BY DEF QueueInv, LogInv, Call
  <1>7. AcceptedApplied'
    <2> SUFFICES ASSUME failovers = 0, NEW m \in accepted'
                 PROVE  AppliedFor(leader, {"enqueue"}, m) # {}
      BY <1>1 DEF AcceptedApplied, AppliedFor, consensusVars, logVars
    <2>1. CASE m \in accepted BY <2>1 DEF QueueInv, AcceptedApplied
    <2>2. CASE m \notin accepted
      <3>1. m = c.msg /\ c.op = "enqueue" BY <1>1, <2>2
      <3>2. /\ c.node = leader /\ c.index \in 1 .. Len(log) /\ IsFor(c.index, "enqueue", m)
        BY <3>1 DEF QueueInv, LogInv, CallsInLog
      <3>3. applied[leader] = commit[leader] BY <3>2 DEF Succeed, Settled
      <3>4. c.index \in 1 .. applied[leader]
        BY <1>1, <1>3, <3>2, <3>3 DEF LogTyped
      <3> QED BY <3>2, <3>4 DEF AppliedFor, IsFor
    <2> QED BY <2>1, <2>2
  <1>8. accepted' \subseteq sent'
    <2>1. c.op = "enqueue" => c.msg \in sent BY DEF QueueInv, LogInv, CallsInLog
    <2> QED BY <1>1, <2>1 DEF QueueInv, ClientTyped
  <1>9. held' \subseteq Delivery
    <2>1. c.op = "dequeue" => \A x \in {c.msg} \cap inFlight[c.node] :
            [by |-> c.by, msg |-> x, count |-> count[c.node][x]] \in Delivery
      <3> SUFFICES ASSUME c.op = "dequeue", NEW x \in {c.msg} \cap inFlight[c.node]
                   PROVE  [by |-> c.by, msg |-> x, count |-> count[c.node][x]] \in Delivery
        OBVIOUS
      <3>1. x \in Message /\ count \in [Node -> [Message -> Nat]]
        BY <1>3, <1>5 DEF NodeInv, NodeTyped
      <3>2. count[c.node][x] \in Nat BY <1>5, <3>1
      <3>3. c.by \in Consumer BY DEF QueueInv, LogInv, CallsInLog
      <3> QED BY <1>5, <3>1, <3>2, <3>3 DEF Delivery
    <2>2. held \subseteq Delivery BY DEF QueueInv, ClientTyped
    <2> QED BY <1>1, <2>1, <2>2 DEF HeldAfter
  <1>10. ClientTyped' BY <1>1, <1>8, <1>9 DEF QueueInv, ClientTyped
  <1> QED BY <1>1, <1>2, <1>4, <1>7, <1>10 DEF QueueInv, Quiet, nodeVars

LEMMA StepFail ==
  ASSUME QueueInv, NEW c \in calls, Fail(c)
  PROVE  QueueInv' /\ Quiet
  <1>1. /\ calls' = calls \ {c} /\ failures' \in {failures, failures + 1}
        /\ UNCHANGED <<consensusVars, nodeVars, batch, clientVars>>
    BY DEF Fail
  <1>2. LogInv' /\ CommitsKept /\ applied' = applied
    BY <1>1, SameLog DEF QueueInv, clientVars
  <1>3. ClientTyped' BY <1>1 DEF QueueInv, ClientTyped, clientVars
  <1> QED BY <1>1, <1>2, <1>3, NodesKeep DEF clientVars

LEMMA StepReplicate ==
  ASSUME QueueInv, NEW n \in Node, Replicate(n)
  PROVE  QueueInv' /\ Quiet
  <1>1. /\ Commit(n) \/ Learn(n)
        /\ UNCHANGED <<nodeVars, batch, calls, clientVars, failures>>
    BY DEF Replicate
  <1>2. LogInv' /\ CommitsKept /\ applied' = applied
    BY <1>1, ReplicateLog DEF QueueInv, clientVars
  <1>3. ClientTyped' BY <1>1 DEF QueueInv, ClientTyped, clientVars
  <1> QED BY <1>1, <1>2, <1>3, NodesKeep DEF clientVars

LEMMA StepApply ==
  ASSUME QueueInv, NEW n \in Node, Apply(n)
  PROVE  QueueInv'
  <1>1. /\ NextEntry(n) /\ UNCHANGED <<batch, calls, clientVars, failures>> BY DEF Apply
  <1>2. LogInv' /\ CommitsKept BY <1>1, ApplyLog DEF QueueInv, clientVars
  <1>3. NodeInv' BY ApplyNodes DEF QueueInv
  <1>4. AcceptedApplied' BY <1>1, <1>2, AcceptedSame DEF QueueInv, LogInv, clientVars
  <1>5. ClientTyped' BY <1>1 DEF QueueInv, ClientTyped, clientVars
  <1> QED BY <1>2, <1>3, <1>4, <1>5 DEF QueueInv

LEMMA StepChangeLeader ==
  ASSUME QueueInv, ChangeLeader
  PROVE  QueueInv' /\ Quiet
  <1>1. PICK n \in Node : Failover(n) BY DEF ChangeLeader
  <1>2. /\ UNCHANGED applied /\ calls' = {Deposed(c) : c \in calls}
        /\ UNCHANGED <<nodeVars, batch, clientVars, failures>>
    BY DEF ChangeLeader
  <1>3. LogInv' /\ CommitsKept /\ applied' = applied
    BY <1>1, <1>2, FailoverLog DEF QueueInv, clientVars
  <1>4. ClientTyped' BY <1>2 DEF QueueInv, ClientTyped, clientVars
  <1> QED BY <1>2, <1>3, <1>4, NodesKeep DEF clientVars

LEMMA StepDropBatch ==
  ASSUME QueueInv, NEW n \in Node, NEW loop \in Loop, DropBatch(n, loop)
  PROVE  QueueInv' /\ Quiet
  <1>1. /\ batch' = [batch EXCEPT ![n][loop] = {}]
        /\ UNCHANGED <<consensusVars, nodeVars, calls, clientVars, failures>>
    BY DEF DropBatch
  <1>2. LogInv' /\ CommitsKept /\ applied' = applied
    BY <1>1, SameLog DEF QueueInv, clientVars
  <1>3. ClientTyped' BY <1>1 DEF QueueInv, ClientTyped, clientVars
  <1> QED BY <1>1, <1>2, <1>3, NodesKeep DEF clientVars

LEMMA EveryStep ==
  ASSUME QueueInv, [Next]_vars
  PROVE  QueueInv' /\ (Quiet \/ \E n \in Node : Apply(n))
  <1>1. CASE UNCHANGED vars
    <2>1. UNCHANGED <<consensusVars, nodeVars, batch, calls, clientVars, failures>>
      BY <1>1 DEF vars
    <2>2. LogInv' /\ CommitsKept /\ applied' = applied
      BY <2>1, SameLog DEF QueueInv, clientVars
    <2>3. ClientTyped' BY <2>1 DEF QueueInv, ClientTyped, clientVars
    <2> QED BY <2>1, <2>2, <2>3, NodesKeep DEF clientVars
  <1>2. ASSUME NEW n \in Node, Apply(n) PROVE QueueInv' BY <1>2, StepApply
  <1>3. CASE Next
    BY <1>2, <1>3, StepEnqueue, StepAckTimeout, StepDequeue, StepAnswer, StepLoop, StepSucceed,
       StepFail, StepReplicate, StepChangeLeader, StepDropBatch
    DEF Next
  <1> QED BY <1>1, <1>3

\* In every reachable state a node's queue fits the log it has applied
\* (queue_node.py:162-210).
THEOREM QueueInvariant == Spec => []QueueInv
  <1>1. QueueInv /\ [Next]_vars => QueueInv' BY EveryStep
  <1> QED BY <1>1, InitQueueInv, PTL DEF Spec

\* Every reachable state is well typed, and what is overdue is in flight.
THEOREM QueueTypeCorrect == Spec => []TypeOK
  <1>1. QueueInv => TypeOK
    BY DEF QueueInv, LogInv, LogTyped, NodeInv, NodeTyped, ClientTyped, TypeOK
  <1> QED BY <1>1, QueueInvariant, PTL

\* A message is in one place at a time on every node (queue_node.py:179-204).
THEOREM MessagesInOnePlace == Spec => []OnePlace
  <1>1. QueueInv => OnePlace BY DEF QueueInv, NodeInv
  <1> QED BY <1>1, QueueInvariant, PTL

\* Every node keeps a message from the enqueue it applies to an ack or the expiry
\* it applies; and a leader who was never challenged has applied the enqueue of
\* every message a producer was told is enqueued (queue_node.py:89-92, 162-210).
THEOREM NothingIsLost == Spec => []NothingLost
  <1>1. QueueInv => NothingLost
    BY DEF NothingLost, QueueInv, NodeInv, StaysUntilSettled, AcceptedApplied
  <1> QED BY <1>1, QueueInvariant, PTL

-----------------------------------------------------------------------------
LEMMA GoneStays ==
  ASSUME QueueInv, [Next]_vars, NEW n \in Node
  PROVE  Gone(n) \subseteq Gone(n)'
  <1>1. LogInv /\ NodeInv /\ LogTyped BY DEF QueueInv, LogInv
  <1>2. CASE Quiet
    <2>1. Kept(n)' = Kept(n) BY <1>2 DEF Quiet, Kept
    <2>2. \A m : AppliedFor(n, {"enqueue"}, m)' = AppliedFor(n, {"enqueue"}, m)
      BY <1>1, <1>2, AppliedForSame DEF Quiet
    <2> QED BY <2>1, <2>2 DEF Gone
  <1>3. ASSUME NEW p \in Node, Apply(p) PROVE Gone(n) \subseteq Gone(n)'
    <2> DEFINE e == log[applied[p] + 1]
    <2>1. NextEntry(p) /\ OthersSame(p) /\ KeptChanges(p, e) BY <1>1, <1>3, ApplyEffect
    <2>2. \A m : AppliedFor(n, {"enqueue"}, m) \subseteq AppliedFor(n, {"enqueue"}, m)'
      BY <1>1, <2>1, AppliedForGrows
    <2>3. Kept(n)' \subseteq Kept(n) \cup (IF n = p THEN Brings(e) ELSE {})
      BY <2>1 DEF KeptChanges, OthersSame, Kept
    <2>4. ASSUME NEW m \in Gone(n) PROVE m \in Gone(n)'
      <3>1. m \in Message /\ m \notin Kept(n) /\ AppliedFor(n, {"enqueue"}, m) # {}
        BY <2>4 DEF Gone
      <3>2. ~(n = p /\ m \in Brings(e))
        <4> SUFFICES ASSUME n = p, e.op = "enqueue", e.msg = m PROVE FALSE BY DEF Brings
        <4> DEFINE j == applied[p] + 1
        <4>1. PICK i \in 1 .. applied[n] : IsFor(i, "enqueue", m)
          BY <3>1 DEF AppliedFor, IsFor
        <4>2. j \in 1 .. Len(log) /\ i \in 1 .. Len(log) /\ i # j
          BY <1>1, <2>1 DEF LogTyped, NextEntry, logVars
        <4>3. IsFor(j, "enqueue", m) BY DEF IsFor
        <4> QED BY <1>1, <3>1, <4>1, <4>2, <4>3 DEF LogInv, EnqueuedOnce
      <3>3. m \notin Kept(n)' BY <2>3, <3>1, <3>2
      <3>4. AppliedFor(n, {"enqueue"}, m)' # {} BY <2>2, <3>1
      <3> QED BY <3>1, <3>3, <3>4 DEF Gone
    <2> QED BY <2>4
  <1> QED BY <1>2, <1>3, EveryStep

\* What has left the queue for good does not come back, whatever was proposed
\* for it before (queue_node.py:179-180, 196-197).
THEOREM GoneForGood == Spec => NeverBack
  <1>1. QueueInv /\ [Next]_vars => [\A n \in Node : Gone(n) \subseteq Gone(n)']_vars
    BY GoneStays
  <1> QED BY <1>1, QueueInvariant, PTL DEF Spec, NeverBack

-----------------------------------------------------------------------------
(***************************************************************************)
(* Replicas agree because an entry decides what becomes of a replica.      *)
(* That is stated with a history: h[i] is the replica that has applied i   *)
(* entries, whichever node it is on.                                       *)
(***************************************************************************)
Replica(n) == [queue |-> queue[n], inFlight |-> inFlight[n], count |-> count[n]]

Fresh == [queue |-> <<>>, inFlight |-> {}, count |-> [m \in Message |-> 0]]

After(r, e) ==
  [queue    |-> IF e.op = "enqueue" THEN Append(r.queue, e.msg)
                ELSE IF e.op \in {"dequeue", "expire"} THEN Without(r.queue, e.msg)
                ELSE IF e.op = "nack" /\ e.msg \in r.inFlight THEN <<e.msg>> \o r.queue
                ELSE r.queue,
   inFlight |-> IF e.op = "enqueue" THEN r.inFlight
                ELSE IF e.op # "dequeue" THEN r.inFlight \ {e.msg}
                ELSE IF e.msg \in ToSet(r.queue) THEN r.inFlight \cup {e.msg}
                ELSE r.inFlight,
   count    |-> IF e.op = "dequeue" /\ e.msg \in ToSet(r.queue)
                THEN [r.count EXCEPT ![e.msg] = @ + 1] ELSE r.count]

IsHistory(h, k) ==
  /\ k \in Nat
  /\ \A n \in Node : applied[n] <= k
  /\ \E n \in Node : k <= applied[n]
  /\ h[0] = Fresh
  /\ \A i \in 1 .. k : h[i] = After(h[i - 1], log[i])
  /\ \A n \in Node : Replica(n) = h[applied[n]]

OneHistory == \E h, k : IsHistory(h, k)

LEMMA EffectIsAfter ==
  ASSUME NodeTyped, NEW n \in Node, NEW e \in Entry, Effect(n, e)
  PROVE  Replica(n)' = After(Replica(n), e)
  <1>1. CASE e.op = "enqueue" /\ ApplyEnqueue(n, e.msg)
    BY <1>1 DEF ApplyEnqueue, NodeTyped, Replica, After
  <1>2. CASE e.op = "dequeue" /\ ApplyDequeue(n, e.msg)
    <2>1. CASE e.msg \in ToSet(queue[n])
      BY <1>2, <2>1 DEF ApplyDequeue, NodeTyped, Replica, After
    <2>2. CASE e.msg \notin ToSet(queue[n])
      BY <1>2, <2>2 DEF ApplyDequeue, nodeVars, Replica, After, Without
    <2> QED BY <2>1, <2>2
  <1>3. CASE e.op = "ack" /\ ApplyAck(n, e.msg)
    BY <1>3 DEF ApplyAck, Land, NodeTyped, Replica, After
  <1>4. CASE e.op = "nack" /\ ApplyNack(n, e.msg)
    BY <1>4 DEF ApplyNack, Land, NodeTyped, Replica, After
  <1>5. CASE e.op = "expire" /\ ApplyExpire(n, e.msg)
    BY <1>5 DEF ApplyExpire, Land, NodeTyped, Replica, After
  <1> QED BY <1>1, <1>2, <1>3, <1>4, <1>5 DEF Effect

LEMMA InitHistory == Init => OneHistory
  <1> SUFFICES ASSUME Init PROVE OneHistory OBVIOUS
  <1> DEFINE h == [i \in {0} |-> Fresh]
  <1>1. \A n \in Node : applied[n] = 0 /\ Replica(n) = Fresh
    BY DEF Init, ConsensusInit, Replica, Fresh, LogInit
  <1>2. leader \in Node BY DEF Init, ConsensusInit, LogInit
  <1>3. h[0] = Fresh OBVIOUS
  <1> HIDE DEF h
  <1>4. IsHistory(h, 0) BY <1>1, <1>2, <1>3 DEF IsHistory
  <1> QED BY <1>4 DEF OneHistory

LEMMA HistoryStays ==
  ASSUME QueueInv, Quiet, NEW h, NEW k, IsHistory(h, k)
  PROVE  IsHistory(h, k)'
  <1>1. \A i \in 1 .. k : log'[i] = log[i]
    <2>1. PICK n \in Node : k <= applied[n] BY DEF IsHistory
    <2>2. k \in Nat /\ applied[n] <= commit[n] /\ applied[n] \in Nat /\ commit[n] \in Nat
      BY DEF IsHistory, QueueInv, LogInv, LogTyped
    <2>3. 1 .. k \subseteq 1 .. commit[n] BY <2>1, <2>2
    <2> QED BY <2>3 DEF Quiet, CommitsKept
  <1>2. \A n \in Node : Replica(n)' = Replica(n) BY DEF Quiet, Replica
  <1>3. applied' = applied BY DEF Quiet
  <1> QED BY <1>1, <1>2, <1>3 DEF IsHistory

LEMMA HistoryGrows ==
  ASSUME QueueInv, NEW n \in Node, Apply(n), NEW h, NEW k, IsHistory(h, k)
  PROVE  OneHistory'
  <1> DEFINE a == applied[n]
             e == log[a + 1]
  <1>1. NextEntry(n) /\ e \in Entry /\ Effect(n, e) /\ OthersSame(n) /\ NodeTyped
    BY ApplyEffect DEF QueueInv, NodeInv
  <1>2. /\ applied \in [Node -> Nat] /\ applied' = [applied EXCEPT ![n] = a + 1] /\ log' = log
        /\ a \in Nat /\ a <= k /\ k \in Nat
    BY <1>1 DEF NextEntry, QueueInv, LogInv, LogTyped, IsHistory, logVars
  <1>3. applied'[n] = a + 1 /\ \A p \in Node \ {n} : applied'[p] = applied[p] BY <1>2
  <1>4. Replica(n)' = After(h[a], e)
    <2>1. Replica(n)' = After(Replica(n), e) BY <1>1, EffectIsAfter
    <2> QED BY <2>1 DEF IsHistory
  <1>5. \A p \in Node \ {n} : Replica(p)' = h[applied[p]]
    BY <1>1 DEF OthersSame, Replica, IsHistory
  <1>6. CASE a < k
    <2>1. a + 1 \in 1 .. k /\ (a + 1) - 1 = a BY <1>2, <1>6
    <2>2. h[a + 1] = After(h[a], e) BY <2>1 DEF IsHistory
    <2>3. \A p \in Node : applied'[p] <= k BY <1>3, <2>1 DEF IsHistory
    <2>4. \E p \in Node : k <= applied'[p]
      <3>1. PICK p \in Node : k <= applied[p] BY DEF IsHistory
      <3>2. p # n BY <1>2, <1>6, <3>1
      <3> QED BY <1>3, <3>1, <3>2
    <2>5. \A p \in Node : Replica(p)' = h[applied'[p]] BY <1>3, <1>4, <1>5, <2>2
    <2>6. IsHistory(h, k)' BY <1>2, <2>3, <2>4, <2>5 DEF IsHistory
    <2> QED BY <2>6 DEF OneHistory
  <1>7. CASE a = k
    <2>0. PICK g : g = [i \in 0 .. k + 1 |-> IF i <= k THEN h[i] ELSE After(h[a], e)]
      OBVIOUS
    <2>1. /\ g[0] = h[0] /\ g[k + 1] = After(h[a], e) /\ k + 1 \in Nat
          /\ \A i \in 1 .. k : g[i] = h[i] /\ g[i - 1] = h[i - 1]
          /\ g[k] = h[k]
          /\ \A i \in 0 .. k : g[i] = h[i]
      BY <1>2, <2>0
    <2>2. \A p \in Node : applied[p] \in 0 .. k BY <1>2 DEF IsHistory
    <2>3. \A p \in Node : applied'[p] <= k + 1 BY <1>2, <1>3, <1>7, <2>2
    <2>4. k + 1 <= applied'[n] BY <1>2, <1>3, <1>7
    <2>5. \A p \in Node : Replica(p)' = g[applied'[p]]
      BY <1>3, <1>4, <1>5, <1>7, <2>1, <2>2
    <2>6. \A i \in 1 .. k + 1 : g[i] = After(g[i - 1], log[i])
      <3>1. g[k + 1] = After(g[k], log[k + 1]) BY <1>7, <2>1
      <3>2. \A i \in 1 .. k : g[i] = After(g[i - 1], log[i]) BY <2>1 DEF IsHistory
      <3>3. \A i \in 1 .. k + 1 : i = k + 1 \/ i \in 1 .. k BY <1>2
      <3>4. (k + 1) - 1 = k BY <1>2
      <3> QED BY <3>1, <3>2, <3>3, <3>4
    <2>7. g[0] = Fresh BY <2>1 DEF IsHistory
    <2>8. IsHistory(g, k + 1)'
      BY <1>2, <2>1, <2>3, <2>4, <2>5, <2>6, <2>7 DEF IsHistory
    <2> QED BY <2>8 DEF OneHistory
  <1> QED BY <1>2, <1>6, <1>7

\* Nodes that have applied as many entries have the same queue, the same
\* messages in flight and the same counts: failovers, timeouts and lost calls
\* matter only through the log (queue_node.py:162-210).
THEOREM ReplicasAlwaysAgree == Spec => []ReplicasAgree
  <1>1. QueueInv /\ OneHistory /\ [Next]_vars => OneHistory'
    <2> SUFFICES ASSUME QueueInv, OneHistory, [Next]_vars PROVE OneHistory' OBVIOUS
    <2>1. PICK h, k : IsHistory(h, k) BY DEF OneHistory
    <2>2. CASE Quiet BY <2>1, <2>2, HistoryStays DEF OneHistory
    <2>3. ASSUME NEW n \in Node, Apply(n) PROVE OneHistory' BY <2>1, <2>3, HistoryGrows
    <2> QED BY <2>2, <2>3, EveryStep
  <1>2. OneHistory => ReplicasAgree
    <2> SUFFICES ASSUME OneHistory, NEW n \in Node, NEW p \in Node, applied[n] = applied[p]
                 PROVE  queue[n] = queue[p] /\ inFlight[n] = inFlight[p] /\ count[n] = count[p]
      BY DEF ReplicasAgree
    <2>1. PICK h, k : IsHistory(h, k) BY DEF OneHistory
    <2>2. Replica(n) = Replica(p) BY <2>1 DEF IsHistory
    <2> QED BY <2>2 DEF Replica
  <1> QED BY <1>1, <1>2, InitHistory, QueueInvariant, PTL DEF Spec

-----------------------------------------------------------------------------
(***************************************************************************)
(* The refinement of Mailbox.  Applying an entry may move its message from *)
(* one place to another and touches no other message (Outcome,             *)
(* OthersStay); no other step moves any.                                   *)
(***************************************************************************)
Waits(n, m) == m \in ToSet(queue[n])
Flies(n, m) == m \in inFlight[n]

\* What becomes of the message of an entry on the node that applies it
Outcome(n, e, m) ==
  \/ e.op = "enqueue" /\ Waits(n, m)' /\ UNCHANGED count
  \/ e.op = "dequeue" /\ Waits(n, m) /\ ~Waits(n, m)' /\ Flies(n, m)'
       /\ count' = [count EXCEPT ![n][m] = @ + 1]
  \/ e.op = "dequeue" /\ ~Waits(n, m) /\ UNCHANGED nodeVars
  \/ e.op = "ack" /\ Waits(n, m)' = Waits(n, m) /\ ~Flies(n, m)' /\ UNCHANGED count
  \/ e.op = "nack" /\ Waits(n, m)' = (Waits(n, m) \/ Flies(n, m)) /\ ~Flies(n, m)'
       /\ UNCHANGED count
  \/ e.op = "expire" /\ ~Waits(n, m)' /\ ~Flies(n, m)' /\ UNCHANGED count

LEMMA EffectOnPlaces ==
  ASSUME NodeTyped, NEW n \in Node, InOnePlace(n), NEW e \in Entry, Effect(n, e)
  PROVE  /\ Outcome(n, e, e.msg)
         /\ \A x \in Message \ {e.msg} : Waits(n, x)' = Waits(n, x) /\ Flies(n, x)' = Flies(n, x)
  <1> DEFINE m == e.msg
             q == queue[n]
             Rest == \A x \in Message \ {m} : /\ x \in ToSet(queue'[n]) <=> x \in ToSet(q)
                                              /\ x \in inFlight'[n] <=> x \in inFlight[n]
  <1>0. m \in Message /\ q \in Seq(Message)
    BY DEF Entry, NodeTyped
  <1>a. IsInjective(q) BY DEF InOnePlace
  <1> HIDE DEF m, q
  <1> SUFFICES Outcome(n, e, m) /\ Rest BY DEF Waits, Flies, m, q
  <1>1. CASE e.op = "enqueue" /\ ApplyEnqueue(n, m)
    <2>1. queue' = [queue EXCEPT ![n] = Append(q, m)] /\ UNCHANGED <<inFlight, count, overdue>>
      BY <1>1 DEF ApplyEnqueue, q
    <2>2. queue'[n] = Append(q, m) BY <1>0, <2>1, AppendIs, QueueSetIs
    <2>3. ToSet(queue'[n]) = ToSet(q) \cup {m} BY <1>0, <2>2, AppendIs
    <2> QED BY <1>1, <2>1, <2>3 DEF Outcome, Waits
  <1>2. CASE e.op = "dequeue" /\ ApplyDequeue(n, m) /\ m \in ToSet(q)
    <2>1. /\ queue' = [queue EXCEPT ![n] = Without(q, m)]
          /\ inFlight' = [inFlight EXCEPT ![n] = inFlight[n] \cup {m}]
          /\ count' = [count EXCEPT ![n][m] = @ + 1]
      BY <1>2 DEF ApplyDequeue, q
    <2>2. queue'[n] = Without(q, m) BY <1>0, <2>1, WithoutIs, QueueSetIs
    <2>3. inFlight'[n] = inFlight[n] \cup {m} BY <2>1 DEF NodeTyped
    <2>4. m \notin ToSet(queue'[n]) /\ ToSet(queue'[n]) \subseteq ToSet(q)
          /\ ToSet(q) \ {m} \subseteq ToSet(queue'[n])
      BY <1>0, <1>a, <2>2, WithoutIs
    <2> QED BY <1>2, <2>1, <2>3, <2>4 DEF Outcome, Waits, Flies, q
  <1>3. CASE e.op = "dequeue" /\ ApplyDequeue(n, m) /\ m \notin ToSet(q)
    <2>1. UNCHANGED nodeVars BY <1>3 DEF ApplyDequeue, q
    <2> QED BY <1>3, <2>1 DEF Outcome, Waits, nodeVars, q
  <1>4. CASE e.op = "ack" /\ ApplyAck(n, m)
    <2>1. Land(n, m) /\ UNCHANGED <<queue, count>> BY <1>4 DEF ApplyAck
    <2>2. inFlight'[n] = inFlight[n] \ {m} BY <2>1, LandIs
    <2> QED BY <1>4, <2>1, <2>2 DEF Outcome, Waits, Flies, q
  <1>5. CASE e.op = "nack" /\ ApplyNack(n, m)
    <2>1. Land(n, m) /\ UNCHANGED count BY <1>5 DEF ApplyNack
    <2>2. inFlight'[n] = inFlight[n] \ {m} BY <2>1, LandIs
    <2>3. CASE m \in inFlight[n]
      <3>1. queue' = [queue EXCEPT ![n] = <<m>> \o q] BY <1>5, <2>3 DEF ApplyNack, q
      <3>2. queue'[n] = <<m>> \o q BY <1>0, <3>1, PrependIs, QueueSetIs
      <3>3. ToSet(queue'[n]) = ToSet(q) \cup {m} BY <1>0, <3>2, PrependIs
      <3> QED BY <1>5, <2>1, <2>2, <2>3, <3>3 DEF Outcome, Waits, Flies
    <2>4. CASE m \notin inFlight[n]
      <3>1. queue' = queue BY <1>5, <2>4 DEF ApplyNack
      <3> QED BY <1>5, <2>1, <2>2, <2>4, <3>1 DEF Outcome, Waits, Flies, q
    <2> QED BY <2>3, <2>4
  <1>6. CASE e.op = "expire" /\ ApplyExpire(n, m)
    <2>1. queue' = [queue EXCEPT ![n] = Without(q, m)] /\ Land(n, m) /\ UNCHANGED count
      BY <1>6 DEF ApplyExpire, q
    <2>2. queue'[n] = Without(q, m) BY <1>0, <2>1, WithoutIs, QueueSetIs
    <2>3. inFlight'[n] = inFlight[n] \ {m} BY <2>1, LandIs
    <2>4. m \notin ToSet(queue'[n]) /\ ToSet(queue'[n]) \subseteq ToSet(q)
          /\ ToSet(q) \ {m} \subseteq ToSet(queue'[n])
      BY <1>0, <1>a, <2>2, WithoutIs
    <2> QED BY <1>6, <2>1, <2>3, <2>4 DEF Outcome, Waits, Flies
  <1> QED BY <1>1, <1>2, <1>3, <1>4, <1>5, <1>6 DEF Effect, m

OthersStay(n, m) ==
  \A p \in Node, x \in Message : p # n \/ x # m => Place(p, x)' = Place(p, x)

\* The moves that Mailbox allows
Moved(n, m) ==
  \/ Place(n, m)' = Place(n, m) /\ UNCHANGED count
  \/ Place(n, m) = "unknown" /\ Place(n, m)' = "waiting" /\ UNCHANGED count
  \/ Place(n, m) = "waiting" /\ Place(n, m)' = "delivered"
       /\ count' = [count EXCEPT ![n][m] = @ + 1]
  \/ Place(n, m) = "delivered" /\ Place(n, m)' = "waiting" /\ UNCHANGED count
  \/ Place(n, m) \in {"waiting", "delivered"} /\ Place(n, m)' = "gone" /\ UNCHANGED count

LEMMA ApplyMoves ==
  ASSUME LogInv, NodeInv, NEW n \in Node, Apply(n)
  PROVE  \E m \in Message : OthersStay(n, m) /\ Moved(n, m)
  <1> DEFINE j == applied[n] + 1
             Known(p, x) == AppliedFor(p, {"enqueue"}, x) # {}
  <1>0. NextEntry(n) /\ log[j] \in Entry /\ Effect(n, log[j]) /\ OthersSame(n) BY ApplyEffect
  <1>1. PICK e \in Entry : e = log[j] /\ Effect(n, e) BY <1>0
  <1> DEFINE m == e.msg
  <1>2. NodeTyped /\ InOnePlace(n) BY DEF NodeInv, OnePlace, InOnePlace
  <1>3. m \in Message BY <1>1 DEF Entry
  <1>4. /\ Outcome(n, e, m)
        /\ \A x \in Message \ {m} : Waits(n, x)' = Waits(n, x) /\ Flies(n, x)' = Flies(n, x)
    BY <1>1, <1>2, EffectOnPlaces
  <1>5. \A p \in Node, x \in Message :
          Known(p, x)' <=> (Known(p, x) \/ (p = n /\ e.op = "enqueue" /\ x = m))
    <2> SUFFICES ASSUME NEW p \in Node, NEW x \in Message
                 PROVE  Known(p, x)' <=> (Known(p, x) \/ (p = n /\ e.op = "enqueue" /\ x = m))
      OBVIOUS
    <2>1. AppliedFor(p, {"enqueue"}, x)' =
            IF p = n /\ e.op \in {"enqueue"} /\ m = x
            THEN AppliedFor(p, {"enqueue"}, x) \cup {j} ELSE AppliedFor(p, {"enqueue"}, x)
      BY <1>0, <1>1, AppliedForGrows
    <2> QED BY <2>1
  <1>6. \A p \in Node, x \in Message :
          Place(p, x) = IF Waits(p, x) THEN "waiting" ELSE IF Flies(p, x) THEN "delivered"
                        ELSE IF Known(p, x) THEN "gone" ELSE "unknown"
    BY DEF Place, Waits, Flies
  <1>7. \A p \in Node, x \in Message :
          Place(p, x)' = IF Waits(p, x)' THEN "waiting" ELSE IF Flies(p, x)' THEN "delivered"
                         ELSE IF Known(p, x)' THEN "gone" ELSE "unknown"
    BY DEF Place, Waits, Flies
  <1>8. \A p \in Node \ {n}, x \in Message : Waits(p, x)' = Waits(p, x) /\ Flies(p, x)' = Flies(p, x)
    BY <1>0 DEF OthersSame, Waits, Flies
  <1>9. (Waits(n, m) \/ Flies(n, m)) => Known(n, m)
    <2> SUFFICES ASSUME m \in Kept(n) PROVE Known(n, m) BY DEF Kept, Waits, Flies
    <2>1. PICK i \in 1 .. applied[n] : IsFor(i, "enqueue", m) BY DEF NodeInv, KeptEnqueued
    <2> QED BY <2>1 DEF AppliedFor, IsFor
  <1>10. e.op = "enqueue" => ~Known(n, m)
    <2> SUFFICES ASSUME e.op = "enqueue", NEW i \in 1 .. applied[n], IsFor(i, "enqueue", m)
                 PROVE  FALSE
      BY DEF AppliedFor, IsFor
    <2>1. i \in 1 .. Len(log) /\ j \in 1 .. Len(log) /\ i # j
      BY <1>0 DEF LogInv, LogTyped, NextEntry, logVars
    <2>2. IsFor(j, "enqueue", m) BY <1>1 DEF IsFor
    <2> QED BY <1>3, <2>1, <2>2 DEF LogInv, EnqueuedOnce
  <1>11. ~(Waits(n, m) /\ Flies(n, m)) BY <1>2 DEF InOnePlace, Waits, Flies
  <1> HIDE DEF j, m, Known
  <1>12. OthersStay(n, m) BY <1>4, <1>5, <1>6, <1>7, <1>8 DEF OthersStay
  <1>13. Moved(n, m)
    <2>1. CASE e.op = "enqueue"
      <3>1. Waits(n, m)' /\ UNCHANGED count BY <1>4, <2>1 DEF Outcome
      <3>2. Place(n, m) = "unknown" BY <1>3, <1>6, <1>9, <1>10, <2>1
      <3> QED BY <1>3, <1>7, <3>1, <3>2 DEF Moved
    <2>2. CASE e.op = "dequeue" /\ Waits(n, m)
      <3>1. /\ ~Waits(n, m)' /\ Flies(n, m)' /\ count' = [count EXCEPT ![n][m] = @ + 1]
        BY <1>4, <2>2 DEF Outcome
      <3>2. Place(n, m) = "waiting" /\ Place(n, m)' = "delivered" BY <1>3, <1>6, <1>7, <2>2, <3>1
      <3> QED BY <3>1, <3>2 DEF Moved
    <2>3. CASE e.op = "dequeue" /\ ~Waits(n, m)
      <3>1. UNCHANGED nodeVars BY <1>4, <2>3 DEF Outcome
      <3>2. Waits(n, m)' = Waits(n, m) /\ Flies(n, m)' = Flies(n, m) /\ UNCHANGED count
        BY <3>1 DEF nodeVars, Waits, Flies
      <3>3. Place(n, m)' = Place(n, m) BY <1>3, <1>5, <1>6, <1>7, <2>3, <3>2
      <3> QED BY <3>2, <3>3 DEF Moved
    <2>4. CASE e.op = "ack"
      <3>1. Waits(n, m)' = Waits(n, m) /\ ~Flies(n, m)' /\ UNCHANGED count
        BY <1>4, <2>4 DEF Outcome
      <3>2. Known(n, m)' <=> Known(n, m) BY <1>3, <1>5, <2>4
      <3> QED BY <1>3, <1>6, <1>7, <1>9, <1>11, <3>1, <3>2 DEF Moved
    <2>5. CASE e.op = "nack"
      <3>1. Waits(n, m)' = (Waits(n, m) \/ Flies(n, m)) /\ ~Flies(n, m)' /\ UNCHANGED count
        BY <1>4, <2>5 DEF Outcome
      <3>2. Known(n, m)' <=> Known(n, m) BY <1>3, <1>5, <2>5
      <3> QED BY <1>3, <1>6, <1>7, <1>9, <1>11, <3>1, <3>2 DEF Moved
    <2>6. CASE e.op = "expire"
      <3>1. ~Waits(n, m)' /\ ~Flies(n, m)' /\ UNCHANGED count BY <1>4, <2>6 DEF Outcome
      <3>2. Known(n, m)' <=> Known(n, m) BY <1>3, <1>5, <2>6
      <3> QED BY <1>3, <1>6, <1>7, <1>9, <3>1, <3>2 DEF Moved
    <2> QED BY <1>1, <2>1, <2>2, <2>3, <2>4, <2>5, <2>6 DEF Entry, Op
  <1> QED BY <1>3, <1>12, <1>13 DEF m

Places == [n \in Node |-> [m \in Message |-> Place(n, m)]]

LEMMA PlacesMove ==
  ASSUME NEW n \in Node, NEW m \in Message, OthersStay(n, m)
  PROVE  /\ Places[n][m] = Place(n, m) /\ Places'[n][m] = Place(n, m)'
         /\ Places' = [Places EXCEPT ![n][m] = Place(n, m)']
         /\ Place(n, m)' = Place(n, m) => Places' = Places
  <1> DEFINE P(p, x) == Place(p, x)
             Q(p, x) == Place(p, x)'
  <1>1. Places = [p \in Node |-> [x \in Message |-> P(p, x)]] BY DEF Places
  <1>2. Places' = [p \in Node |-> [x \in Message |-> Q(p, x)]] BY DEF Places
  <1>3. \A p \in Node, x \in Message : p # n \/ x # m => Q(p, x) = P(p, x) BY DEF OthersStay
  <1> HIDE DEF P, Q
  <1>4. Places[n][m] = P(n, m) /\ Places'[n][m] = Q(n, m) BY <1>1, <1>2
  <1>5. Places' = [Places EXCEPT ![n][m] = Q(n, m)] BY <1>1, <1>2, <1>3
  <1>6. Q(n, m) = P(n, m) => Places' = Places BY <1>1, <1>2, <1>3
  <1> QED BY <1>4, <1>5, <1>6 DEF P, Q

LEMMA StepMailbox ==
  ASSUME QueueInv, [Next]_vars
  PROVE  [MailboxView!Next]_MailboxView!mailVars
  <1>0. LogInv /\ NodeInv /\ LogTyped BY DEF QueueInv, LogInv
  <1>1. ASSUME NEW n \in Node, Apply(n) PROVE [MailboxView!Next]_MailboxView!mailVars
    <2>1. PICK m \in Message : OthersStay(n, m) /\ Moved(n, m) BY <1>0, <1>1, ApplyMoves
    <2>3. /\ Places[n][m] = Place(n, m) /\ Places'[n][m] = Place(n, m)'
          /\ Places' = [Places EXCEPT ![n][m] = Place(n, m)']
          /\ Place(n, m)' = Place(n, m) => Places' = Places
      BY <2>1, PlacesMove
    <2>4. ASSUME NEW from, NEW to, Place(n, m) = from, Place(n, m)' = to
          PROVE  MailboxView!Move(n, m, from, to)
      BY <2>3, <2>4 DEF MailboxView!Move, Places
    <2>5. CASE Place(n, m)' = Place(n, m) /\ UNCHANGED count
      BY <2>3, <2>5 DEF MailboxView!mailVars, Places
    <2>6. CASE Place(n, m) = "unknown" /\ Place(n, m)' = "waiting" /\ UNCHANGED count
      <3>1. MailboxView!Arrive(n, m) BY <2>4, <2>6 DEF MailboxView!Arrive
      <3> QED BY <3>1 DEF MailboxView!Next
    <2>7. CASE Place(n, m) = "waiting" /\ Place(n, m)' = "delivered"
               /\ count' = [count EXCEPT ![n][m] = @ + 1]
      <3>1. MailboxView!Deliver(n, m) BY <2>4, <2>7 DEF MailboxView!Deliver
      <3> QED BY <3>1 DEF MailboxView!Next
    <2>8. CASE Place(n, m) = "delivered" /\ Place(n, m)' = "waiting" /\ UNCHANGED count
      <3>1. MailboxView!TakeBack(n, m) BY <2>4, <2>8 DEF MailboxView!TakeBack
      <3> QED BY <3>1 DEF MailboxView!Next
    <2>9. CASE Place(n, m) \in {"waiting", "delivered"} /\ Place(n, m)' = "gone" /\ UNCHANGED count
      <3>1. MailboxView!Expire(n, m) BY <2>4, <2>9 DEF MailboxView!Expire
      <3> QED BY <3>1 DEF MailboxView!Next
    <2> QED BY <2>1, <2>5, <2>6, <2>7, <2>8, <2>9 DEF Moved
  <1>2. CASE Quiet
    <2>1. \A n \in Node, m \in Message : Place(n, m)' = Place(n, m)
      <3> SUFFICES ASSUME NEW n \in Node, NEW m \in Message PROVE Place(n, m)' = Place(n, m)
        OBVIOUS
      <3>1. AppliedFor(n, {"enqueue"}, m)' = AppliedFor(n, {"enqueue"}, m)
        BY <1>0, <1>2, AppliedForSame DEF Quiet
      <3> QED BY <1>2, <3>1 DEF Quiet, Place
    <2>2. Places' = Places BY <2>1 DEF Places
    <2>3. count' = count BY <1>2 DEF Quiet
    <2> QED BY <2>2, <2>3 DEF MailboxView!mailVars, Places
  <1> QED BY <1>1, <1>2, EveryStep

\* On every node every message goes through the life that Mailbox allows, and its
\* delivery_count is the number of times it was moved to in flight there
\* (queue_node.py:162-210).
THEOREM RefinesMailbox == Spec => ImplementsMailbox
  <1>1. Init => MailboxView!Init
    <2> SUFFICES ASSUME Init PROVE MailboxView!Init OBVIOUS
    <2>1. \A n \in Node, m \in Message : Place(n, m) = "unknown"
      <3> SUFFICES ASSUME NEW n \in Node, NEW m \in Message PROVE Place(n, m) = "unknown" OBVIOUS
      <3>1. queue[n] = <<>> /\ inFlight[n] = {} /\ applied[n] = 0 BY DEF Init, ConsensusInit
      <3>2. ToSet(queue[n]) = {}
        <4>1. DOMAIN <<>> = {} OBVIOUS
        <4> QED BY <3>1, <4>1 DEF ToSet
      <3>3. AppliedFor(n, {"enqueue"}, m) = {} BY <3>1 DEF AppliedFor
      <3> QED BY <3>1, <3>2, <3>3 DEF Place
    <2> QED BY <2>1 DEF Init, MailboxView!Init
  <1>2. QueueInv /\ [Next]_vars => [MailboxView!Next]_MailboxView!mailVars BY StepMailbox
  <1> QED BY <1>1, <1>2, QueueInvariant, PTL DEF Spec, ImplementsMailbox, MailboxView!Spec
=============================================================================
