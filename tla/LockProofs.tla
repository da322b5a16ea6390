----------------------------- MODULE LockProofs -----------------------------
(***************************************************************************)
(* Proofs about the lock service. What a step does to the table of a key   *)
(* is to add an entry that can be acquired, or to take entries away; this  *)
(* carries HoldersCompatible. GrantsKept needs that only a release of the  *)
(* grant's client or an expiry takes an entry away, and that what a node   *)
(* has applied stays in the log. The second half is about self._lock and   *)
(* the waiters: who is in line for the lock of a node is a coroutine of    *)
(* this node that has not got it, once, and who holds it over an await is  *)
(* the only one that does (LineInv); who is registered as a waiter waits   *)
(* (WaitInv).  At the end, what has_cycle and the detector do, from the    *)
(* theorem about the search.                                               *)
(***************************************************************************)
EXTENDS LockProperties, WaitForGraphProofs

Table == [Held -> Nat]

LEMMA WithType ==
  ASSUME NEW t \in Table, NEW c, NEW m
  PROVE  /\ With(t, c, m) \in Table
         /\ \A h \in Held : t[h] <= With(t, c, m)[h]
  <1> DEFINE x == [client |-> c, mode |-> m]
  <1>1. With(t, c, m) = [t EXCEPT ![x] = t[x] + 1] BY DEF With
  <1> HIDE DEF x
  <1>2. \A h \in Held : t[h] \in Nat BY DEF Table
  <1>3. \A h \in Held : With(t, c, m)[h] = IF h = x THEN t[h] + 1 ELSE t[h]
    BY <1>1 DEF Table
  <1>4. \A h \in Held : With(t, c, m)[h] \in Nat /\ t[h] <= With(t, c, m)[h]
    BY <1>2, <1>3
  <1>5. With(t, c, m) = [h \in Held |-> With(t, c, m)[h]] BY <1>1 DEF Table
  <1> QED BY <1>4, <1>5 DEF Table

\* Taking a lock that can be acquired keeps the holders compatible
\* (lock_manager.py:214-224).
LEMMA WithCompatible ==
  ASSUME NEW t \in Table, NEW c, NEW m,
         CanAcquire(t, c, m), Compatible(Holders(t))
  PROVE  Compatible(Holders(With(t, c, m)))
  <1>1. \A h \in Holders(With(t, c, m)) :
          h \in Holders(t) \/ (h.client = c /\ h.mode = m)
    BY DEF Holders, With, Table, Held
  <1>2. \A h \in Held : h.mode = "S" \/ h.mode = "X" BY DEF Held, Mode
  <1> QED BY <1>1, <1>2 DEF Compatible, CanAcquire

LEMMA FewerType ==
  ASSUME NEW t \in Table, NEW left \in Fewer(t)
  PROVE  left \in Table /\ \A h \in Held : left[h] <= t[h]
  <1>1. PICK kept \in [Holders(t) -> UNION {0 .. t[h] : h \in Holders(t)}] :
          /\ \A h \in Holders(t) : kept[h] <= t[h]
          /\ left = [h \in Held |-> IF h \in Holders(t) THEN kept[h] ELSE 0]
    BY Zenon DEF Fewer
  <1>2. \A h \in Holders(t) : kept[h] \in Nat BY <1>1 DEF Table, Holders
  <1> QED BY <1>1, <1>2 DEF Table

LEMMA RemainingType ==
  ASSUME NEW tables \in [Key -> Table], NEW left \in Remaining(tables)
  PROVE  /\ left \in [Key -> Table]
         /\ \A k \in Key, h \in Held : left[k][h] <= tables[k][h]
  <1>1. left \in [Key -> UNION {Fewer(tables[k]) : k \in Key}] BY DEF Remaining
  <1>2. ASSUME NEW k \in Key
        PROVE  left[k] \in Table /\ \A h \in Held : left[k][h] <= tables[k][h]
    <2>1. tables[k] \in Table /\ left[k] \in Fewer(tables[k]) BY DEF Remaining
    <2> QED BY <2>1, FewerType
  <1> QED BY <1>1, <1>2

LEMMA ReleasedType ==
  ASSUME NEW t \in Table, NEW c
  PROVE  Released(t, c) \in Table /\ \A h \in Held : Released(t, c)[h] <= t[h]
  BY DEF Released, Table

LEMMA FewerCompatible ==
  ASSUME NEW t \in Table, NEW u \in Table, \A h \in Held : u[h] <= t[h],
         Compatible(Holders(t))
  PROVE  Compatible(Holders(u))
  <1>1. Holders(u) \subseteq Holders(t) BY DEF Holders, Table
  <1> QED BY <1>1 DEF Compatible
-----------------------------------------------------------------------------
\* What a step does to the table of one key
Grows(n, k) ==
  \E c, m : /\ CanAcquire(locks[n][k], c, m)
            /\ locks'[n][k] = With(locks[n][k], c, m)

Shrinks(n, k) ==
  locks'[n][k] \in Table /\ \A h \in Held : locks'[n][k][h] <= locks[n][k][h]

TablesStep ==
  /\ locks' \in [Node -> [Key -> Table]]
  /\ \A n \in Node, k \in Key : Grows(n, k) \/ Shrinks(n, k)

LEMMA TablesUnchanged ==
  ASSUME Typed, locks' = locks
  PROVE  TablesStep
  BY DEF Typed, Shrinks, Table, TablesStep

LEMMA TableGrows ==
  ASSUME Typed, NEW n, NEW k, NEW c, NEW m, CanAcquire(locks[n][k], c, m),
         locks' = [locks EXCEPT ![n][k] = With(@, c, m)]
  PROVE  TablesStep
  <1>1. \A p \in Node, l \in Key : With(locks[p][l], c, m) \in Table
    BY WithType DEF Typed, Table
  <1>2. locks' \in [Node -> [Key -> Table]]
    BY <1>1 DEF Typed, Table
  <1>3. ASSUME NEW p \in Node, NEW l \in Key PROVE Grows(p, l) \/ Shrinks(p, l)
    <2>1. CASE p = n /\ l = k
      <3>1. locks'[p][l] = With(locks[p][l], c, m) BY <2>1 DEF Typed
      <3> QED BY <3>1, <2>1 DEF Grows
    <2>2. CASE ~(p = n /\ l = k)
      <3>1. locks'[p][l] = locks[p][l] BY <2>2 DEF Typed
      <3> QED BY <3>1 DEF Shrinks, Typed, Table
    <2> QED BY <2>1, <2>2
  <1> QED BY <1>2, <1>3 DEF TablesStep

LEMMA TableShrinks ==
  ASSUME Typed, NEW n \in Node, NEW k \in Key, NEW t \in Table,
         \A h \in Held : t[h] <= locks[n][k][h],
         locks' = [locks EXCEPT ![n][k] = t]
  PROVE  TablesStep
  <1>1. locks' \in [Node -> [Key -> Table]] BY DEF Typed, Table
  <1>2. ASSUME NEW p \in Node, NEW l \in Key PROVE Shrinks(p, l)
    <2>1. CASE p = n /\ l = k
      <3>1. locks'[p][l] = t BY <2>1 DEF Typed
      <3> QED BY <3>1, <2>1 DEF Shrinks
    <2>2. CASE ~(p = n /\ l = k)
      <3>1. locks'[p][l] = locks[p][l] BY <2>2 DEF Typed
      <3> QED BY <3>1 DEF Shrinks, Typed, Table
    <2> QED BY <2>1, <2>2
  <1> QED BY <1>1, <1>2 DEF TablesStep

LEMMA TryAcquireTables ==
  ASSUME Typed, NEW n, NEW r, NEW call, NEW rest, TryAcquire(n, r, call, rest)
  PROVE  TablesStep
  <1>1. CASE GrantAtOnce(n, r, call, rest) BY <1>1, TableGrows DEF GrantAtOnce
  <1>2. CASE Refuse(n, r, call, rest) BY <1>2, TablesUnchanged DEF Refuse
  <1> QED BY <1>1, <1>2 DEF TryAcquire

LEMMA ApplyTables ==
  ASSUME Typed, NEW n \in Node, Apply(n)
  PROVE  TablesStep
  <1> DEFINE e == log[applied[n] + 1]
  <1>1. e \in Entry
    <2>1. applied[n] + 1 \in 1 .. Len(log) BY DEF Apply, NextEntry, Typed, logVars
    <2> QED BY <2>1 DEF Typed
  <1>2. CASE ApplyAcquire(n, e)
    <2>1. CASE CanAcquire(locks[n][e.key], e.client, e.mode)
      BY <1>2, <2>1, TableGrows DEF ApplyAcquire
    <2>2. CASE ~CanAcquire(locks[n][e.key], e.client, e.mode)
      BY <1>2, <2>2, TablesUnchanged DEF ApplyAcquire
    <2> QED BY <2>1, <2>2
  <1>3. CASE ApplyRelease(n, e)
    <2>1. e.key \in Key BY <1>1 DEF Entry
    <2>2. locks[n][e.key] \in Table BY <2>1 DEF Typed, Table
    <2>3. locks' = [locks EXCEPT ![n][e.key] = Released(locks[n][e.key], e.client)]
      BY <1>3, <2>1 DEF ApplyRelease
    <2> HIDE DEF e
    <2> QED BY <2>1, <2>2, <2>3, ReleasedType, TableShrinks
  <1> QED BY <1>2, <1>3 DEF Apply

LEMMA ExpireTables ==
  ASSUME Typed, NEW n \in Node, Expire(n)
  PROVE  TablesStep
  <1> SUFFICES ASSUME locks' # locks PROVE TablesStep BY TablesUnchanged
  <1>1. PICK left \in Remaining(locks[n]) : locks' = [locks EXCEPT ![n] = left]
    BY DEF Expire
  <1>2. locks \in [Node -> [Key -> Table]] /\ locks[n] \in [Key -> Table] BY DEF Typed, Table
  <1>3. /\ left \in [Key -> Table]
        /\ \A k \in Key, h \in Held : left[k][h] <= locks[n][k][h]
    BY <1>2, RemainingType
  <1>4. locks' \in [Node -> [Key -> Table]] BY <1>1, <1>2, <1>3
  <1>5. ASSUME NEW p \in Node, NEW l \in Key PROVE Shrinks(p, l)
    <2>1. CASE p = n BY <1>1, <1>2, <1>3, <2>1 DEF Shrinks
    <2>2. CASE p # n
      <3>1. locks'[p][l] = locks[p][l] /\ locks[p][l] \in Table BY <1>1, <1>2, <2>2
      <3> QED BY <3>1 DEF Shrinks, Table
    <2> QED BY <2>1, <2>2
  <1> QED BY <1>4, <1>5 DEF TablesStep

LEMMA EveryStepTables ==
  ASSUME Typed, [Next]_vars
  PROVE  TablesStep
  <1>1. CASE UNCHANGED vars BY <1>1, TablesUnchanged DEF vars, tableVars
  <1>2. ASSUME NEW n \in Node, Apply(n) PROVE TablesStep BY <1>2, ApplyTables
  <1>3. ASSUME NEW n \in Node, Step(n) PROVE TablesStep
    <2>1. ASSUME NEW r \in Request, NEW c \in Client, NEW k \in Key, NEW mode \in Mode,
                 NEW wait \in BOOLEAN, Acquire(n, r, c, k, mode, wait)
          PROVE  TablesStep
      <3> DEFINE call == [pc |-> "arriving", node |-> n, client |-> c, key |-> k,
                          mode |-> mode, wait |-> wait]
      <3>1. TryAcquire(n, r, call, <<>>) \/ UNCHANGED tableVars BY <2>1 DEF Acquire
      <3> HIDE DEF call
      <3> QED BY <3>1, TryAcquireTables, TablesUnchanged DEF tableVars
    <2>2. ASSUME NEW r \in Request, Enter(n, r) PROVE TablesStep
      <3>1. TryAcquire(n, r, calls[r], Rest(n)) \/ locks' = locks
        BY <2>2 DEF Enter, Retry, GiveUp, tableVars
      <3> QED BY <3>1, TryAcquireTables, TablesUnchanged
    <2>3. CASE Expire(n) BY <2>3, ExpireTables
    <2>4. CASE \/ \E c \in Client, k \in Key : Release(n, c, k)
               \/ \E r \in Request :
                    Background(n, r) \/ Timeout(n, r) \/ Return(n, r) \/ Stick(n, r)
               \/ \E x \in Request \cup {"expiry", "detector"} : QueueUp(n, x)
               \/ Replicate(n) \/ Detect(n) \/ ChangeLeader(n)
      <3>1. locks' = locks
        BY <2>4 DEF Release, Background, Timeout, Return, Stick, QueueUp, Replicate, Detect,
                    ChangeLeader, tableVars
      <3> QED BY <3>1, TablesUnchanged
    <2> QED BY <1>3, <2>1, <2>2, <2>3, <2>4 DEF Step
  <1> QED BY <1>1, <1>2, <1>3 DEF Next
-----------------------------------------------------------------------------
LEMMA StepKeepsCompatible ==
  ASSUME Typed, HoldersCompatible, [Next]_vars
  PROVE  HoldersCompatible'
  <1> SUFFICES ASSUME NEW n \in Node, NEW k \in Key
               PROVE  Compatible(Holders(locks'[n][k]))
    BY DEF HoldersCompatible
  <1>1. locks[n][k] \in Table /\ Compatible(Holders(locks[n][k]))
    BY DEF Typed, Table, HoldersCompatible
  <1>2. Grows(n, k) \/ Shrinks(n, k) BY EveryStepTables DEF TablesStep
  <1>3. CASE Grows(n, k) BY <1>1, <1>3, WithCompatible DEF Grows
  <1>4. CASE Shrinks(n, k) BY <1>1, <1>4, FewerCompatible DEF Shrinks
  <1> QED BY <1>2, <1>3, <1>4
-----------------------------------------------------------------------------
ConsensusTyped ==
  /\ leader \in Node /\ log \in Seq(Entry)
  /\ commit \in [Node -> Nat] /\ applied \in [Node -> Nat]
  /\ \A n \in Node : applied[n] <= commit[n] /\ commit[n] <= Len(log)

ClientTyped == calls \in [Request -> Call] /\ granted \subseteq Grants

LEMMA ConsensusUnchanged ==
  ASSUME Typed, UNCHANGED consensusVars
  PROVE  ConsensusTyped'
  BY DEF Typed, ConsensusTyped, consensusVars, logVars

LEMMA Append1Type ==
  ASSUME Typed, NEW e \in Entry, Append1(e)
  PROVE  ConsensusTyped'
  BY DEF Typed, ConsensusTyped, Append1, Extend

LEMMA ReplicateType ==
  ASSUME Typed, NEW n \in Node, Commit(n) \/ Learn(n)
  PROVE  ConsensusTyped'
  <1>1. CASE Commit(n) BY <1>1 DEF Typed, ConsensusTyped, Commit, CommitAll
  <1>2. CASE Learn(n)
    <2>1. PICK k \in commit[n] + 1 .. commit[leader] : commit' = [commit EXCEPT ![n] = k]
      BY <1>2 DEF Learn, HearOfCommits
    <2>2. k \in Nat /\ commit[n] <= k /\ k <= Len(log) BY <2>1 DEF Typed
    <2> QED BY <1>2, <2>1, <2>2 DEF Typed, ConsensusTyped, Learn, HearOfCommits
  <1> QED BY <1>1, <1>2

LEMMA NextEntryType ==
  ASSUME Typed, NEW n \in Node, NextEntry(n)
  PROVE  ConsensusTyped'
  BY DEF Typed, ConsensusTyped, NextEntry, logVars

\* What a failover leaves of the log: all that any node has committed
LEMMA FailoverLog ==
  ASSUME Typed, NEW n \in Node, Failover(n)
  PROVE  /\ log' \in Seq(Entry) /\ Len(log') <= Len(log)
         /\ \A i \in 1 .. Len(log') : log'[i] = log[i]
         /\ \A p \in Node : commit[p] <= Len(log')
  <1>1. PICK k \in 0 .. Len(log) : (\A p \in Node : commit[p] <= k) /\ log' = SubSeq(log, 1, k)
    BY DEF Failover, TakeOver
  <1>2. log \in Seq(Entry) BY DEF Typed
  <1>3. log' \in Seq(Entry) /\ Len(log') = k BY <1>1, <1>2
  <1>4. \A i \in 1 .. k : log'[i] = log[i] BY <1>1, <1>2
  <1> QED BY <1>1, <1>3, <1>4

LEMMA ChangeLeaderType ==
  ASSUME Typed, NEW n \in Node, ChangeLeader(n)
  PROVE  ConsensusTyped'
  <1>1. leader' \in Node /\ commit' = commit BY DEF ChangeLeader, Failover, TakeOver
  <1>2. log' \in Seq(Entry) /\ \A p \in Node : commit[p] <= Len(log')
    BY FailoverLog DEF ChangeLeader
  <1>3. \/ applied' = applied
        \/ /\ applied[leader] < commit[leader]
           /\ applied' = [applied EXCEPT ![leader] = @ + 1]
    BY DEF ChangeLeader
  <1>4. applied' \in [Node -> Nat] /\ \A p \in Node : applied'[p] <= commit[p]
    <2>1. \A p \in Node : applied[p] \in Nat /\ commit[p] \in Nat /\ applied[p] <= commit[p]
      BY DEF Typed
    <2>2. applied \in [Node -> Nat] BY DEF Typed
    <2>3. CASE applied' = applied BY <2>1, <2>2, <2>3
    <2>4. CASE /\ applied[leader] < commit[leader]
               /\ applied' = [applied EXCEPT ![leader] = @ + 1]
      <3>1. \A p \in Node : applied'[p] = IF p = leader THEN applied[p] + 1 ELSE applied[p]
        BY <2>2, <2>4
      <3>2. leader \in Node /\ applied[leader] + 1 \in Nat BY <2>1 DEF Typed
      <3>3. applied' \in [Node -> Nat] BY <2>2, <2>4, <3>2
      <3> QED BY <2>1, <2>4, <3>1, <3>3
    <2> QED BY <1>3, <2>3, <2>4
  <1> QED BY <1>1, <1>2, <1>4 DEF ConsensusTyped, Typed

LEMMA LiveCall ==
  ASSUME Typed, NEW r \in Request, calls[r].pc \in Pc
  PROVE  calls[r] \in Live
  BY DEF Typed, Call, Idle, Pc

LEMMA CommandType ==
  ASSUME NEW call \in Live
  PROVE  Command("acquire", call) \in Entry
  BY DEF Command, Live, Entry

LEMMA FinishType ==
  ASSUME Typed, NEW r, Finish(r)
  PROVE  calls' \in [Request -> Call]
  BY DEF Finish, Typed, Call

LEMMA MoveType ==
  ASSUME Typed, NEW r, NEW call \in Live, NEW pc \in Pc,
         calls' = [calls EXCEPT ![r] = [call EXCEPT !.pc = pc]]
  PROVE  calls' \in [Request -> Call]
  <1>1. [call EXCEPT !.pc = pc] \in Call BY DEF Live, Call
  <1> QED BY <1>1 DEF Typed

LEMMA WakeType ==
  ASSUME Typed, NEW R, Wake(R)
  PROVE  calls' \in [Request -> Call]
  <1>1. ASSUME NEW r \in Request, calls[r].pc = "waiting"
        PROVE  [calls[r] EXCEPT !.pc = "woken"] \in Call
    <2>1. calls[r] \in Live BY <1>1, LiveCall DEF Pc
    <2> QED BY <2>1 DEF Live, Call, Pc
  <1>2. \A r \in Request : calls[r] \in Call BY DEF Typed
  <1> QED BY <1>1, <1>2 DEF Wake

LEMMA GrantType ==
  ASSUME Typed, NEW call \in Live, NEW how \in {"atOnce", "woken"},
         Grant(call, how)
  PROVE  granted' \subseteq Grants
  <1>1. call.node \in Node /\ applied[call.node] \in Nat BY DEF Typed, Live
  <1> QED BY <1>1 DEF Typed, Grant, Grants, Live

LEMMA TryAcquireType ==
  ASSUME Typed, NEW n \in Node, NEW r \in Request, NEW call \in Live, NEW rest,
         TryAcquire(n, r, call, rest)
  PROVE  ConsensusTyped' /\ ClientTyped'
  <1>1. CASE GrantAtOnce(n, r, call, rest)
    <2>1. ConsensusTyped' BY <1>1, ConsensusUnchanged DEF GrantAtOnce
    <2>2. calls' \in [Request -> Call] BY <1>1, MoveType DEF GrantAtOnce, Pc
    <2>3. granted' \subseteq Grants BY <1>1, GrantType DEF GrantAtOnce
    <2> QED BY <2>1, <2>2, <2>3 DEF ClientTyped
  <1>2. CASE Refuse(n, r, call, rest)
    <2>1. ConsensusTyped' /\ granted' = granted BY <1>2, ConsensusUnchanged DEF Refuse
    <2>2. \/ calls' = [calls EXCEPT ![r] = [call EXCEPT !.pc = "refused"]]
          \/ calls' = [calls EXCEPT ![r] = [call EXCEPT !.pc = "waiting"]]
          \/ Finish(r)
      BY <1>2 DEF Refuse, Register
    <2>3. "refused" \in Pc /\ "waiting" \in Pc BY DEF Pc
    <2>4. calls' \in [Request -> Call] BY <2>2, <2>3, MoveType, FinishType
    <2> QED BY <2>1, <2>4 DEF ClientTyped, Typed
  <1> QED BY <1>1, <1>2 DEF TryAcquire

LEMMA EnterType ==
  ASSUME Typed, NEW n \in Node, NEW r \in Request, Enter(n, r)
  PROVE  ConsensusTyped' /\ ClientTyped'
  <1>1. CASE calls[r].pc = "arriving" /\ TryAcquire(n, r, calls[r], Rest(n))
    <2>1. calls[r] \in Live BY <1>1, LiveCall DEF Pc
    <2> QED BY <1>1, <2>1, TryAcquireType
  <1>2. CASE calls[r].pc = "refused" /\ Register(n, r, calls[r])
             /\ UNCHANGED <<consensusVars, granted>>
    <2>1. calls[r] \in Live /\ "waiting" \in Pc BY <1>2, LiveCall DEF Pc
    <2>2. calls' \in [Request -> Call] BY <1>2, <2>1, MoveType DEF Register
    <2> QED BY <1>2, <2>2, ConsensusUnchanged DEF ClientTyped, Typed
  <1>3. CASE calls[r].pc = "woken" /\ Retry(n, r)
    <2>1. calls[r] \in Live BY <1>3, LiveCall DEF Pc
    <2>2. CASE Finish(r) /\ UNCHANGED consensusVars
               /\ (UNCHANGED granted \/ Grant(calls[r], "woken"))
      <3>1. calls' \in [Request -> Call] /\ ConsensusTyped'
        BY <2>2, FinishType, ConsensusUnchanged
      <3>2. granted' \subseteq Grants BY <2>1, <2>2, GrantType DEF Typed
      <3> QED BY <3>1, <3>2 DEF ClientTyped
    <2>3. CASE /\ Append1(Command("acquire", calls[r]))
               /\ calls' = [calls EXCEPT ![r].pc = "proposing"]
               /\ UNCHANGED granted
      <3>1. ConsensusTyped' BY <2>1, <2>3, CommandType, Append1Type
      <3>2. calls' \in [Request -> Call]
        <4>1. [calls[r] EXCEPT !.pc = "proposing"] \in Call BY <2>1 DEF Live, Call, Pc
        <4> QED BY <2>3, <4>1 DEF Typed
      <3> QED BY <2>3, <3>1, <3>2 DEF ClientTyped, Typed
    <2> QED BY <1>3, <2>2, <2>3 DEF Retry
  <1>4. CASE GiveUp(n, r)
    <2>1. calls' \in [Request -> Call] BY <1>4, FinishType DEF GiveUp
    <2> QED BY <1>4, <2>1, ConsensusUnchanged DEF GiveUp, ClientTyped, Typed
  <1> QED BY <1>1, <1>2, <1>3, <1>4 DEF Enter

LEMMA ApplyType ==
  ASSUME Typed, NEW n \in Node, Apply(n)
  PROVE  ConsensusTyped' /\ ClientTyped'
  <1>1. ConsensusTyped' /\ granted' = granted BY NextEntryType DEF Apply
  <1>2. calls' = calls \/ \E R : Wake(R)
    BY DEF Apply, ApplyAcquire, ApplyRelease, Notify
  <1>3. calls' \in [Request -> Call] BY <1>2, WakeType DEF Typed
  <1> QED BY <1>1, <1>3 DEF ClientTyped, Typed

LEMMA ExpireType ==
  ASSUME Typed, NEW n \in Node, Expire(n)
  PROVE  ConsensusTyped' /\ ClientTyped'
  <1>1. ConsensusTyped' BY ConsensusUnchanged DEF Expire
  <1>2. calls' = calls \/ \E R : Wake(R) BY DEF Expire, Notify
  <1>3. calls' \in [Request -> Call] BY <1>2, WakeType DEF Typed
  <1>4. granted' \subseteq granted BY DEF Expire
  <1> QED BY <1>1, <1>3, <1>4 DEF ClientTyped, Typed

LEMMA BackgroundType ==
  ASSUME Typed, NEW n \in Node, NEW r \in Request, Background(n, r)
  PROVE  ConsensusTyped' /\ ClientTyped'
  <1>1. calls[r] \in Live BY LiveCall DEF Background, Pc
  <1>2. ConsensusTyped'
    BY <1>1, CommandType, Append1Type, ConsensusUnchanged DEF Background
  <1>3. calls' \in [Request -> Call] BY FinishType DEF Background
  <1> QED BY <1>2, <1>3 DEF Background, ClientTyped, Typed

LEMMA StepType ==
  ASSUME Typed, NEW n \in Node, Step(n)
  PROVE  ConsensusTyped' /\ ClientTyped'
  <1>1. ASSUME NEW r \in Request, NEW c \in Client, NEW k \in Key, NEW mode \in Mode,
               NEW wait \in BOOLEAN, Acquire(n, r, c, k, mode, wait)
        PROVE  ConsensusTyped' /\ ClientTyped'
    <2> DEFINE call == [pc |-> "arriving", node |-> n, client |-> c, key |-> k,
                        mode |-> mode, wait |-> wait]
    <2>1. call \in Live BY DEF Live, Pc
    <2>2. \/ TryAcquire(n, r, call, <<>>)
          \/ /\ calls' = [calls EXCEPT ![r] = call]
             /\ UNCHANGED <<consensusVars, granted>>
      BY <1>1 DEF Acquire
    <2> HIDE DEF call
    <2>3. CASE TryAcquire(n, r, call, <<>>) BY <2>1, <2>3, TryAcquireType
    <2>4. CASE /\ calls' = [calls EXCEPT ![r] = call]
               /\ UNCHANGED <<consensusVars, granted>>
      BY <2>1, <2>4, ConsensusUnchanged DEF ClientTyped, Typed, Call
    <2> QED BY <2>2, <2>3, <2>4
  <1>2. ASSUME NEW c \in Client, NEW k \in Key, Release(n, c, k)
        PROVE  ConsensusTyped' /\ ClientTyped'
    <2>1. [op |-> "release", client |-> c, key |-> k, mode |-> None] \in Entry
      BY DEF Entry
    <2>2. ConsensusTyped' BY <1>2, <2>1, Append1Type DEF Release
    <2> QED BY <1>2, <2>2 DEF Release, ClientTyped, Typed
  <1>3. ASSUME NEW r \in Request, Timeout(n, r) PROVE ConsensusTyped' /\ ClientTyped'
    <2>1. [calls[r] EXCEPT !.pc = "timedout"] \in Call
      <3>1. calls[r] \in Live BY <1>3, LiveCall DEF Timeout, Pc
      <3> QED BY <3>1 DEF Live, Call, Pc
    <2> QED BY <1>3, <2>1, ConsensusUnchanged DEF Timeout, ClientTyped, Typed
  <1>4. ASSUME NEW r \in Request, Return(n, r) PROVE ConsensusTyped' /\ ClientTyped'
    <2>1. calls[r] \in Live BY <1>4, LiveCall DEF Return, Pc
    <2>2. calls' \in [Request -> Call] BY <1>4, FinishType DEF Return
    <2>3. granted' \subseteq Grants BY <1>4, <2>1, GrantType DEF Return
    <2> QED BY <1>4, <2>2, <2>3, ConsensusUnchanged DEF Return, ClientTyped
  <1>5. ASSUME NEW r \in Request, Stick(n, r) PROVE ConsensusTyped' /\ ClientTyped'
    <2>1. [calls[r] EXCEPT !.pc = "stuck"] \in Call
      <3>1. calls[r] \in Live BY <1>5, LiveCall DEF Stick, Pc
      <3> QED BY <3>1 DEF Live, Call, Pc
    <2>2. ConsensusTyped' BY <1>5, ReplicateType DEF Stick
    <2> QED BY <1>5, <2>1, <2>2 DEF Stick, ClientTyped, Typed
  <1>6. CASE \E x \in Request \cup {"expiry", "detector"} : QueueUp(n, x)
    BY <1>6, ConsensusUnchanged DEF QueueUp, ClientTyped, Typed
  <1>7. CASE Replicate(n) BY <1>7, ReplicateType DEF Replicate, ClientTyped, Typed
  <1>8. CASE Detect(n)
    <2>1. ConsensusTyped' /\ granted' = granted BY <1>8, ConsensusUnchanged DEF Detect
    <2>2. \E R : Wake(R) BY <1>8 DEF Detect
    <2> QED BY <2>1, <2>2, WakeType DEF ClientTyped, Typed
  <1>9. CASE ChangeLeader(n)
    BY <1>9, ChangeLeaderType DEF ChangeLeader, ClientTyped, Typed
  <1> QED BY <1>1, <1>2, <1>3, <1>4, <1>5, <1>6, <1>7, <1>8, <1>9, EnterType, ExpireType,
          BackgroundType DEF Step, Typed

LEMMA InitTyped == Init => Typed
  BY DEF Init, ConsensusInit, Typed, Call, Mode, Held, LogInit

LEMMA StepTyped ==
  ASSUME Typed, [Next]_vars
  PROVE  Typed'
  <1>1. locks' \in [Node -> [Key -> Table]] BY EveryStepTables DEF TablesStep
  <1>2. ConsensusTyped' /\ ClientTyped'
    <2>1. CASE UNCHANGED vars
      BY <2>1, ConsensusUnchanged DEF vars, ClientTyped, Typed
    <2> QED BY <2>1, ApplyType, StepType DEF Next
  <1> QED BY <1>1, <1>2 DEF Typed, ConsensusTyped, ClientTyped, Table

\* The locks on a key are compatible on every node, for every number of nodes,
\* clients and keys, whatever expires, is released or is granted twice.
THEOREM HoldersAreCompatible == Spec => []HoldersCompatible
  <1>1. Init => Typed /\ HoldersCompatible
    <2>1. Init => HoldersCompatible
      BY DEF Init, HoldersCompatible, Compatible, Holders
    <2> QED BY <2>1, InitTyped
  <1>2. (Typed /\ HoldersCompatible) /\ [Next]_vars => (Typed /\ HoldersCompatible)'
    BY StepTyped, StepKeepsCompatible
  <1> QED BY <1>1, <1>2, PTL DEF Spec
-----------------------------------------------------------------------------
\* Grant g is in the table of its node, or a release of its client was applied
\* there since.
InTable(g) == locks[g.node][g.key][[client |-> g.client, mode |-> g.mode]] > 0

TakenBack(g) ==
  \E i \in g.seen + 1 .. applied[g.node] :
    log[i].op = "release" /\ log[i].client = g.client /\ log[i].key = g.key

Honoured(g) == InTable(g) \/ TakenBack(g)

LEMMA KeptIsGrantsKept == GrantsKept <=> \A g \in granted : g.how = "atOnce" => Honoured(g)
  BY DEF GrantsKept, Honoured, InTable, TakenBack

\* A grant notes how much its node had applied when it was made.
Seen == \A g \in granted : g.seen <= applied[g.node]

LEMMA AppliedGrows ==
  ASSUME Typed, [Next]_vars
  PROVE  \A p \in Node : applied[p] <= applied'[p]
  <1> SUFFICES ASSUME NEW p \in Node PROVE applied[p] <= applied'[p] OBVIOUS
  <1>1. applied \in [Node -> Nat] /\ applied[p] \in Nat BY DEF Typed
  <1>2. applied' = applied \/ \E n \in Node : applied' = [applied EXCEPT ![n] = @ + 1]
    <2>1. ASSUME NEW n \in Node, Apply(n)
          PROVE  applied' = [applied EXCEPT ![n] = @ + 1]
      BY <2>1 DEF Apply, NextEntry
    <2>2. ASSUME NEW n \in Node, ChangeLeader(n)
          PROVE  applied' = applied \/ applied' = [applied EXCEPT ![leader] = @ + 1]
      BY <2>2 DEF ChangeLeader
    <2>3. ASSUME NEW n \in Node, NEW r \in Request, Enter(n, r) PROVE applied' = applied
      BY <2>3 DEF Enter, TryAcquire, GrantAtOnce, Refuse, Retry, GiveUp, Append1, consensusVars
    <2>4. ASSUME NEW n \in Node, NEW r \in Request, NEW c \in Client, NEW k \in Key,
                 NEW mode \in Mode, NEW wait \in BOOLEAN, Acquire(n, r, c, k, mode, wait)
          PROVE  applied' = applied
      BY <2>4 DEF Acquire, TryAcquire, GrantAtOnce, Refuse, consensusVars
    <2>5. ASSUME NEW n \in Node,
                 \/ \E c \in Client, k \in Key : Release(n, c, k)
                 \/ \E r \in Request :
                      Background(n, r) \/ Timeout(n, r) \/ Return(n, r) \/ Stick(n, r)
                 \/ \E x \in Request \cup {"expiry", "detector"} : QueueUp(n, x)
                 \/ Expire(n) \/ Replicate(n) \/ Detect(n)
          PROVE  applied' = applied
      BY <2>5 DEF Release, Background, Timeout, Return, Stick, QueueUp, Expire, Replicate,
                  Detect, Append1, Commit, Learn, consensusVars
    <2>6. leader \in Node BY DEF Typed
    <2> QED BY <2>1, <2>2, <2>3, <2>4, <2>5, <2>6 DEF Next, Step, vars, consensusVars
  <1>3. ASSUME NEW n \in Node, applied' = [applied EXCEPT ![n] = @ + 1]
        PROVE  applied[p] <= applied'[p]
    <2>1. applied'[p] = IF p = n THEN applied[p] + 1 ELSE applied[p] BY <1>1, <1>3
    <2> QED BY <1>1, <2>1
  <1> QED BY <1>1, <1>2, <1>3

LEMMA StepKeepsSeen ==
  ASSUME Typed, Typed', Seen, [Next]_vars
  PROVE  Seen'
  <1>1. granted' \subseteq granted \/ \E call, how : Grant(call, how)
    <2>1. ASSUME NEW n \in Node, NEW r \in Request, Enter(n, r)
          PROVE  granted' = granted \/ \E call, how : Grant(call, how)
      BY <2>1 DEF Enter, TryAcquire, GrantAtOnce, Refuse, Retry, GiveUp
    <2>2. ASSUME NEW n \in Node, NEW r \in Request, NEW c \in Client, NEW k \in Key,
                 NEW mode \in Mode, NEW wait \in BOOLEAN, Acquire(n, r, c, k, mode, wait)
          PROVE  granted' = granted \/ \E call, how : Grant(call, how)
      BY <2>2 DEF Acquire, TryAcquire, GrantAtOnce, Refuse
    <2>3. ASSUME NEW n \in Node, NEW r \in Request, Return(n, r)
          PROVE  \E call, how : Grant(call, how)
      BY <2>3 DEF Return
    <2>4. ASSUME NEW n \in Node,
                 \/ \E c \in Client, k \in Key : Release(n, c, k)
                 \/ \E r \in Request : Background(n, r) \/ Timeout(n, r) \/ Stick(n, r)
                 \/ \E x \in Request \cup {"expiry", "detector"} : QueueUp(n, x)
                 \/ Expire(n) \/ Replicate(n) \/ Detect(n) \/ ChangeLeader(n) \/ Apply(n)
          PROVE  granted' \subseteq granted
      BY <2>4 DEF Release, Background, Timeout, Stick, QueueUp, Expire, Replicate, Detect,
                  ChangeLeader, Apply
    <2> QED BY <2>1, <2>2, <2>3, <2>4 DEF Next, Step, vars
  <1> SUFFICES ASSUME NEW g \in granted' PROVE g.seen <= applied'[g.node]
    BY DEF Seen
  <1>2. g.seen \in Nat /\ g.node \in Node BY DEF Typed, Grants
  <1>3. applied[g.node] \in Nat /\ applied'[g.node] \in Nat BY <1>2 DEF Typed
  <1>4. g.seen <= applied[g.node]
    <2>1. CASE g \in granted BY <2>1 DEF Seen
    <2>2. CASE g \notin granted
      <3>1. g.seen = applied[g.node] BY <1>1, <2>2 DEF Grant
      <3> QED BY <1>3, <3>1
    <2> QED BY <2>1, <2>2
  <1>5. applied[g.node] <= applied'[g.node] BY <1>2, AppliedGrows
  <1> QED BY <1>2, <1>3, <1>4, <1>5

\* What no node has applied may go, and nodes go on applying
LogStays ==
  \A n \in Node : /\ applied[n] <= applied'[n]
                  /\ \A i \in 1 .. applied[n] : log'[i] = log[i]

LEMMA StaysTakenBack ==
  ASSUME Typed, Typed', LogStays, NEW g \in Grants, TakenBack(g)
  PROVE  TakenBack(g)'
  <1>1. PICK i \in g.seen + 1 .. applied[g.node] :
          log[i].op = "release" /\ log[i].client = g.client /\ log[i].key = g.key
    BY DEF TakenBack
  <1>2. /\ g.node \in Node /\ g.seen \in Nat
        /\ applied[g.node] \in Nat /\ applied'[g.node] \in Nat
    BY DEF Typed, Grants
  <1>3. applied[g.node] <= applied'[g.node] /\ log'[i] = log[i]
    BY <1>1, <1>2 DEF LogStays
  <1>4. i \in g.seen + 1 .. applied'[g.node] BY <1>1, <1>2, <1>3
  <1> QED BY <1>1, <1>3, <1>4 DEF TakenBack

Keeps == \A n \in Node, k \in Key, h \in Held : locks[n][k][h] <= locks'[n][k][h]

LEMMA UnchangedKeeps ==
  ASSUME Typed, locks' = locks
  PROVE  Keeps
  BY DEF Typed, Keeps

LEMMA GrowsKeeps ==
  ASSUME Typed, NEW n, NEW k, NEW c, NEW m,
         locks' = [locks EXCEPT ![n][k] = With(@, c, m)]
  PROVE  Keeps
  <1> SUFFICES ASSUME NEW p \in Node, NEW l \in Key, NEW h \in Held
               PROVE  locks[p][l][h] <= locks'[p][l][h]
    BY DEF Keeps
  <1>1. locks[p][l] \in Table BY DEF Typed, Table
  <1>2. locks'[p][l] = locks[p][l] \/ locks'[p][l] = With(locks[p][l], c, m)
    BY DEF Typed
  <1>3. locks[p][l][h] \in Nat BY <1>1 DEF Table
  <1> QED BY <1>1, <1>2, <1>3, WithType

LEMMA TryAcquireKeeps ==
  ASSUME Typed, NEW n, NEW r, NEW call, NEW rest, TryAcquire(n, r, call, rest)
  PROVE  Keeps
  <1>1. CASE GrantAtOnce(n, r, call, rest) BY <1>1, GrowsKeeps DEF GrantAtOnce
  <1>2. CASE Refuse(n, r, call, rest) BY <1>2, UnchangedKeeps DEF Refuse
  <1> QED BY <1>1, <1>2 DEF TryAcquire

\* Only the release of a client, applied now, takes a lock from it
LEMMA ApplyKeeps ==
  ASSUME Typed, NEW n \in Node, Apply(n), NEW p \in Node, NEW k \in Key, NEW h \in Held
  PROVE  \/ locks[p][k][h] <= locks'[p][k][h]
         \/ LET e == log[applied[n] + 1]
            IN p = n /\ e.op = "release" /\ e.client = h.client /\ e.key = k
  <1> DEFINE e == log[applied[n] + 1]
  <1>1. applied[n] + 1 \in 1 .. Len(log) BY DEF Apply, NextEntry, Typed, logVars
  <1>2. e \in Entry BY <1>1 DEF Typed
  <1>3. CASE ApplyAcquire(n, e)
    <2>1. Keeps
      <3>1. CASE CanAcquire(locks[n][e.key], e.client, e.mode)
        BY <1>3, <3>1, GrowsKeeps DEF ApplyAcquire
      <3>2. CASE ~CanAcquire(locks[n][e.key], e.client, e.mode)
        BY <1>3, <3>2, UnchangedKeeps DEF ApplyAcquire
      <3> QED BY <3>1, <3>2
    <2> QED BY <2>1 DEF Keeps
  <1>4. CASE e.op = "release" /\ ApplyRelease(n, e)
    <2>1. CASE p = n /\ k = e.key /\ h.client = e.client BY <1>4, <2>1
    <2>2. CASE ~(p = n /\ k = e.key /\ h.client = e.client)
      <3>1. e.key \in Key BY <1>2 DEF Entry
      <3>2. locks' = [locks EXCEPT ![n][e.key] = Released(locks[n][e.key], e.client)]
        BY <1>4, <3>1 DEF ApplyRelease
      <3> HIDE DEF e
      <3>3. locks'[p][k][h] = locks[p][k][h]
        <4>1. CASE p = n /\ k = e.key
          <5>1. locks'[p][k] = Released(locks[p][k], e.client) BY <3>2, <4>1 DEF Typed
          <5>2. h.client # e.client BY <2>2, <4>1
          <5> QED BY <5>1, <5>2 DEF Released
        <4>2. CASE ~(p = n /\ k = e.key) BY <3>2, <4>2 DEF Typed
        <4> QED BY <4>1, <4>2
      <3> QED BY <3>3 DEF Typed
    <2> QED BY <2>1, <2>2
  <1> QED BY <1>3, <1>4 DEF Apply

LEMMA StaysInTable ==
  ASSUME Typed, Typed', NEW g \in Grants, InTable(g),
         LET h == [client |-> g.client, mode |-> g.mode]
         IN locks[g.node][g.key][h] <= locks'[g.node][g.key][h]
  PROVE  InTable(g)'
  <1> PICK h : h = [client |-> g.client, mode |-> g.mode] OBVIOUS
  <1>1. g.node \in Node /\ g.key \in Key /\ h \in Held BY DEF Grants, Held
  <1>2. locks[g.node][g.key][h] \in Nat /\ locks'[g.node][g.key][h] \in Nat
    <2>1. locks \in [Node -> [Key -> [Held -> Nat]]] BY DEF Typed
    <2>2. locks' \in [Node -> [Key -> [Held -> Nat]]] BY DEF Typed
    <2> QED BY <1>1, <2>1, <2>2
  <1>3. locks[g.node][g.key][h] > 0 /\ locks[g.node][g.key][h] <= locks'[g.node][g.key][h]
    BY DEF InTable
  <1>4. locks'[g.node][g.key][h] > 0 BY <1>2, <1>3
  <1> QED BY <1>4 DEF InTable

\* A step that takes nothing from the holders of the old grants it leaves, and
\* puts the new ones into the table
LEMMA GrantsStep ==
  ASSUME Typed, Typed', GrantsKept, LogStays,
         \A g \in granted' : g.how = "atOnce" =>
           \/ /\ g \in granted
              /\ LET h == [client |-> g.client, mode |-> g.mode]
                 IN locks[g.node][g.key][h] <= locks'[g.node][g.key][h]
           \/ Honoured(g)'
  PROVE  GrantsKept'
  <1>1. \A g \in granted' : g.how = "atOnce" => Honoured(g)'
    <2> SUFFICES ASSUME NEW g \in granted', g.how = "atOnce",
                        g \in granted,
                        LET h == [client |-> g.client, mode |-> g.mode]
                        IN locks[g.node][g.key][h] <= locks'[g.node][g.key][h]
                 PROVE  Honoured(g)'
      OBVIOUS
    <2>1. g \in Grants BY DEF Typed
    <2>2. InTable(g) \/ TakenBack(g) BY KeptIsGrantsKept DEF Honoured
    <2>3. InTable(g)' \/ TakenBack(g)' BY <2>1, <2>2, StaysInTable, StaysTakenBack
    <2> QED BY <2>3 DEF Honoured
  <1> QED BY <1>1 DEF GrantsKept, Honoured, InTable, TakenBack

LEMMA KeepsGrants ==
  ASSUME Typed, Typed', GrantsKept, LogStays, Keeps,
         \A g \in granted' : g.how = "atOnce" => g \in granted \/ InTable(g)'
  PROVE  GrantsKept'
  <1> SUFFICES ASSUME NEW g \in granted', g.how = "atOnce", g \in granted
               PROVE  LET h == [client |-> g.client, mode |-> g.mode]
                      IN locks[g.node][g.key][h] <= locks'[g.node][g.key][h]
    BY GrantsStep DEF Honoured
  <1>1. /\ g.node \in Node /\ g.key \in Key
        /\ [client |-> g.client, mode |-> g.mode] \in Held
    BY DEF Typed, Grants, Held
  <1> QED BY <1>1 DEF Keeps

\* What a step does to the log, but for a failover and for the node's own
\* progress: nothing, or an entry more
LEMMA LogGrows ==
  ASSUME Typed, applied' = applied, log' = log \/ \E e : log' = Append(log, e)
  PROVE  LogStays
  <1> SUFFICES ASSUME NEW n \in Node, NEW i \in 1 .. applied[n]
               PROVE  applied[n] <= applied'[n] /\ log'[i] = log[i]
    BY DEF LogStays, Typed
  <1>1. /\ applied[n] \in Nat /\ applied[n] <= Len(log) /\ Len(log) \in Nat
        /\ log \in Seq(Entry)
    BY DEF Typed
  <1>2. i \in 1 .. Len(log) BY <1>1
  <1> QED BY <1>1, <1>2

\* What is granted at once is in the table
LEMMA TryAcquireGrants ==
  ASSUME Typed, NEW n \in Node, NEW r \in Request, NEW call \in Live, NEW rest,
         call.node = n, TryAcquire(n, r, call, rest)
  PROVE  \A g \in granted' : g.how = "atOnce" => g \in granted \/ InTable(g)'
  <1> SUFFICES ASSUME NEW g \in granted', g \notin granted PROVE InTable(g)'
    OBVIOUS
  <1>1. GrantAtOnce(n, r, call, rest) BY DEF TryAcquire, Refuse
  <1>2. /\ g.node = n /\ g.key = call.key /\ g.client = call.client /\ g.mode = call.mode
    BY <1>1 DEF GrantAtOnce, Grant
  <1> PICK h : h = [client |-> call.client, mode |-> call.mode] OBVIOUS
  <1>4. call.key \in Key /\ h \in Held BY DEF Live, Held
  <1>5. locks'[n][call.key] = With(locks[n][call.key], call.client, call.mode)
    BY <1>1, <1>4 DEF GrantAtOnce, Typed
  <1>6. locks[n][call.key] \in Table BY <1>4 DEF Typed, Table
  <1>7. locks'[n][call.key][h] = locks[n][call.key][h] + 1 BY <1>4, <1>5, <1>6 DEF With, Table
  <1>8. locks[n][call.key][h] \in Nat BY <1>4, <1>6 DEF Table
  <1>9. locks'[n][call.key][h] > 0 BY <1>7, <1>8
  <1> QED BY <1>2, <1>9 DEF InTable

LEMMA AcquireGrants ==
  ASSUME Typed, Typed', GrantsKept, NEW n \in Node, NEW r \in Request, NEW call \in Live,
         NEW rest, call.node = n, TryAcquire(n, r, call, rest)
  PROVE  GrantsKept'
  <1>1. applied' = applied /\ log' = log
    BY DEF TryAcquire, GrantAtOnce, Refuse, consensusVars, logVars
  <1> QED BY <1>1, LogGrows, TryAcquireKeeps, TryAcquireGrants, KeepsGrants

\* Steps that leave the tables alone and grant nothing at once
LEMMA GrantsUndisturbed ==
  ASSUME Typed, Typed', GrantsKept, locks' = locks, applied' = applied,
         log' = log \/ \E e : log' = Append(log, e),
         \A g \in granted' : g \in granted \/ g.how # "atOnce"
  PROVE  GrantsKept'
  BY UnchangedKeeps, LogGrows, KeepsGrants

LEMMA EnterGrants ==
  ASSUME Typed, Typed', GrantsKept, NEW n \in Node, NEW r \in Request, Enter(n, r)
  PROVE  GrantsKept'
  <1>1. CASE calls[r].pc = "arriving" /\ TryAcquire(n, r, calls[r], Rest(n))
    <2>1. calls[r] \in Live BY <1>1, LiveCall DEF Pc
    <2> QED BY <1>1, <2>1, AcquireGrants DEF Enter
  <1>2. CASE calls[r].pc = "woken" /\ Retry(n, r)
    <2>1. UNCHANGED <<locks, applied>>
      BY <1>2 DEF Retry, tableVars, consensusVars, Append1, logVars, Extend
    <2>2. log' = log \/ \E e : log' = Append(log, e)
      BY <1>2 DEF Retry, consensusVars, Append1, logVars, Extend
    <2>3. \A g \in granted' : g \in granted \/ g.how # "atOnce" BY <1>2 DEF Retry, Grant
    <2> QED BY <2>1, <2>2, <2>3, GrantsUndisturbed
  <1>3. CASE GiveUp(n, r) \/ UNCHANGED <<consensusVars, locks, granted>>
    <2>1. UNCHANGED <<locks, applied, log, granted>> BY <1>3 DEF GiveUp, consensusVars, logVars
    <2> QED BY <2>1, GrantsUndisturbed
  <1> QED BY <1>1, <1>2, <1>3 DEF Enter

LEMMA ApplyGrants ==
  ASSUME Typed, Typed', Seen, GrantsKept, NEW n \in Node, Apply(n)
  PROVE  GrantsKept'
  <1>1. /\ log' = log /\ granted' = granted
        /\ applied' = [applied EXCEPT ![n] = @ + 1]
    BY DEF Apply, NextEntry, logVars
  <1>2. \A p \in Node : /\ applied[p] \in Nat
                        /\ applied'[p] = IF p = n THEN applied[p] + 1 ELSE applied[p]
    BY <1>1 DEF Typed
  <1>3. LogStays BY <1>1, <1>2 DEF LogStays
  <1> SUFFICES ASSUME NEW g \in granted, g.how = "atOnce"
               PROVE  \/ LET h == [client |-> g.client, mode |-> g.mode]
                         IN locks[g.node][g.key][h] <= locks'[g.node][g.key][h]
                      \/ Honoured(g)'
    BY <1>1, <1>3, GrantsStep
  <1> PICK h : h = [client |-> g.client, mode |-> g.mode] OBVIOUS
  <1>4. g \in Grants /\ g.node \in Node /\ g.key \in Key /\ h \in Held /\ h.client = g.client
    BY DEF Typed, Grants, Held
  <1> PICK i : i = applied[n] + 1 OBVIOUS
  <1>5. CASE /\ g.node = n /\ log[i].op = "release" /\ log[i].client = h.client
             /\ log[i].key = g.key
    <2>1. g.seen \in Nat /\ g.seen <= applied[n] BY <1>4, <1>5 DEF Grants, Seen
    <2>2. i \in g.seen + 1 .. applied'[g.node] BY <1>2, <1>5, <2>1
    <2>3. TakenBack(g)' BY <1>1, <1>4, <1>5, <2>2 DEF TakenBack
    <2> QED BY <2>3 DEF Honoured
  <1>6. CASE locks[g.node][g.key][h] <= locks'[g.node][g.key][h] BY <1>6
  <1> QED BY <1>4, <1>5, <1>6, ApplyKeeps

LEMMA ExpireGrants ==
  ASSUME Typed, Typed', GrantsKept, NEW n \in Node, Expire(n)
  PROVE  GrantsKept'
  <1>a. CASE UNCHANGED <<locks, granted>>
    BY <1>a, GrantsUndisturbed DEF Expire, consensusVars, logVars
  <1> SUFFICES ASSUME ~ UNCHANGED <<locks, granted>> PROVE GrantsKept' BY <1>a
  <1>1. PICK left \in Remaining(locks[n]) :
          /\ locks' = [locks EXCEPT ![n] = left]
          /\ granted' = {g \in granted :
                LET h == [client |-> g.client, mode |-> g.mode]
                IN g.node = n => left[g.key][h] = locks[n][g.key][h]}
    BY DEF Expire
  <1>2. log' = log /\ applied' = applied BY DEF Expire, consensusVars, logVars
  <1>3. LogStays BY <1>2, LogGrows
  <1> SUFFICES ASSUME NEW g \in granted', g.how = "atOnce"
               PROVE  /\ g \in granted
                      /\ LET h == [client |-> g.client, mode |-> g.mode]
                         IN locks[g.node][g.key][h] <= locks'[g.node][g.key][h]
    BY <1>3, GrantsStep
  <1> PICK h : h = [client |-> g.client, mode |-> g.mode] OBVIOUS
  <1>4. g \in granted /\ (g.node = n => left[g.key][h] = locks[n][g.key][h]) BY <1>1
  <1>5. g.node \in Node /\ g.key \in Key /\ h \in Held BY <1>4 DEF Typed, Grants, Held
  <1>6. locks'[g.node] = IF g.node = n THEN left ELSE locks[g.node]
    <2>1. locks \in [Node -> [Key -> [Held -> Nat]]] BY DEF Typed
    <2>2. locks' = [locks EXCEPT ![n] = left] BY <1>1
    <2> QED BY <1>5, <2>1, <2>2
  <1>7. locks'[g.node][g.key][h] = locks[g.node][g.key][h] BY <1>4, <1>6
  <1>8. locks[g.node][g.key][h] \in Nat
    <2>1. locks \in [Node -> [Key -> [Held -> Nat]]] BY DEF Typed
    <2> QED BY <1>5, <2>1
  <1> QED BY <1>4, <1>7, <1>8

LEMMA ChangeLeaderGrants ==
  ASSUME Typed, Typed', GrantsKept, NEW n \in Node, ChangeLeader(n)
  PROVE  GrantsKept'
  <1>1. locks' = locks /\ granted' = granted BY DEF ChangeLeader, tableVars
  <1>2. /\ \A i \in 1 .. Len(log') : log'[i] = log[i]
        /\ \A p \in Node : commit[p] <= Len(log')
    BY FailoverLog DEF ChangeLeader
  <1>3. applied' = applied \/ applied' = [applied EXCEPT ![leader] = @ + 1]
    BY DEF ChangeLeader
  <1>4. LogStays
    <2> SUFFICES ASSUME NEW p \in Node
                 PROVE  applied[p] <= applied'[p] /\ \A i \in 1 .. applied[p] : log'[i] = log[i]
      BY DEF LogStays
    <2>1. applied \in [Node -> Nat] /\ applied[p] \in Nat BY DEF Typed
    <2>2. applied[p] <= applied'[p]
      <3>1. CASE applied' = applied BY <2>1, <3>1
      <3>2. CASE applied' = [applied EXCEPT ![leader] = @ + 1]
        <4>1. applied'[p] = IF p = leader THEN applied[p] + 1 ELSE applied[p]
          BY <2>1, <3>2
        <4> QED BY <2>1, <4>1
      <3> QED BY <1>3, <3>1, <3>2
    <2>3. applied[p] <= commit[p] /\ commit[p] \in Nat /\ commit[p] <= Len(log')
          /\ Len(log') \in Nat
      BY <1>2 DEF Typed
    <2>4. \A i \in 1 .. applied[p] : i \in 1 .. Len(log') BY <2>1, <2>3
    <2> QED BY <1>2, <2>2, <2>4
  <1> QED BY <1>1, <1>4, UnchangedKeeps, KeepsGrants

LEMMA StepKeepsGrants ==
  ASSUME Typed, Typed', Seen, GrantsKept, [Next]_vars
  PROVE  GrantsKept'
  <1>1. CASE UNCHANGED vars
    BY <1>1, GrantsUndisturbed DEF vars, tableVars, consensusVars, logVars
  <1>2. ASSUME NEW n \in Node, Apply(n) PROVE GrantsKept' BY <1>2, ApplyGrants
  <1>3. ASSUME NEW n \in Node, Step(n) PROVE GrantsKept'
    <2>1. ASSUME NEW r \in Request, NEW c \in Client, NEW k \in Key, NEW mode \in Mode,
                 NEW wait \in BOOLEAN, Acquire(n, r, c, k, mode, wait)
          PROVE  GrantsKept'
      <3> DEFINE call == [pc |-> "arriving", node |-> n, client |-> c, key |-> k,
                          mode |-> mode, wait |-> wait]
      <3>1. call \in Live /\ call.node = n BY DEF Live, Pc
      <3>2. \/ TryAcquire(n, r, call, <<>>)
            \/ UNCHANGED <<consensusVars, tableVars, granted>>
        BY <2>1 DEF Acquire
      <3>3. ASSUME UNCHANGED <<consensusVars, tableVars, granted>> PROVE GrantsKept'
        BY <3>3, GrantsUndisturbed DEF tableVars, consensusVars, logVars
      <3> HIDE DEF call
      <3> QED BY <3>1, <3>2, <3>3, AcquireGrants
    <2>2. ASSUME NEW r \in Request, Enter(n, r) PROVE GrantsKept' BY <2>2, EnterGrants
    <2>3. CASE Expire(n) BY <2>3, ExpireGrants
    <2>4. CASE \/ \E c \in Client, k \in Key : Release(n, c, k)
               \/ \E r \in Request : Background(n, r)
      <3>1. /\ UNCHANGED <<locks, applied>> /\ granted' \subseteq granted
            /\ log' = log \/ \E e : log' = Append(log, e)
        BY <2>4 DEF Release, Background, tableVars, consensusVars, Append1, logVars, Extend
      <3> QED BY <3>1, GrantsUndisturbed
    <2>5. CASE ChangeLeader(n) BY <2>5, ChangeLeaderGrants
    <2>6. CASE \/ \E r \in Request : Timeout(n, r) \/ Return(n, r) \/ Stick(n, r)
               \/ \E x \in Request \cup {"expiry", "detector"} : QueueUp(n, x)
               \/ Replicate(n) \/ Detect(n)
      <3>1. locks' = locks /\ applied' = applied /\ log' = log
        BY <2>6 DEF Timeout, Return, Stick, QueueUp, Replicate, Detect, tableVars,
                    consensusVars, Commit, Learn, logVars, CommitAll, HearOfCommits
      <3>2. \A g \in granted' : g \in granted \/ g.how # "atOnce"
        BY <2>6 DEF Timeout, Return, Stick, QueueUp, Replicate, Detect, Grant
      <3> QED BY <3>1, <3>2, GrantsUndisturbed
    <2> QED BY <1>3, <2>1, <2>2, <2>3, <2>4, <2>5, <2>6 DEF Step
  <1> QED BY <1>1, <1>2, <1>3 DEF Next

\* A client that was granted a lock at once has it in the table of the node
\* that granted it until it asks for the release, the lock expires there or that
\* node applies a release of this client after the grant, which may be one the
\* client asked for before; with any number of nodes, clients and failovers
\* (lock_manager.py:176-184, 235-251).
THEOREM LocksAreKept == Spec => []GrantsKept
  <1>1. Init => Typed /\ Seen /\ GrantsKept
    <2>1. Init => Seen /\ GrantsKept BY DEF Init, Seen, GrantsKept
    <2> QED BY <2>1, InitTyped
  <1>2. Typed /\ Seen /\ GrantsKept /\ [Next]_vars => (Typed /\ Seen /\ GrantsKept)'
    BY StepTyped, StepKeepsSeen, StepKeepsGrants
  <1> QED BY <1>1, <1>2, PTL DEF Spec

-----------------------------------------------------------------------------
(***************************************************************************)
(* self._lock: who has it, and who is in line for it                       *)
(***************************************************************************)
Lined == Request \cup {"apply", "expiry", "detector"}
InLine == {"arriving", "refused", "woken", "timedout"}
Holding == {"proposing", "stuck"}

Once(q) == \A i, j \in DOMAIN q : q[i] = q[j] => (i = j \/ q[i] = "apply")

Queued(q, n) ==
  \A r \in ToSet(q) \cap Request : calls[r].node = n /\ calls[r].pc \in InLine

Holder(n, x) == {r \in Request : calls[r].node = n /\ calls[r].pc \in Holding} = {x} \ {None}

LineInv ==
  /\ line \in [Node -> Seq(Lined)] /\ mutex \in [Node -> Request \cup {None}]
  /\ \A n \in Node : Once(line[n]) /\ Queued(line[n], n) /\ Holder(n, mutex[n])

LEMMA OnceAppend ==
  ASSUME NEW q \in Seq(Lined), Once(q), NEW x \in Lined, x \notin ToSet(q) \/ x = "apply"
  PROVE  /\ Append(q, x) \in Seq(Lined) /\ Once(Append(q, x))
         /\ ToSet(Append(q, x)) = ToSet(q) \cup {x}
  <1> PICK y : y = Append(q, x) OBVIOUS
  <1>1. /\ y \in Seq(Lined) /\ Len(y) = Len(q) + 1 /\ y[Len(q) + 1] = x
        /\ \A i \in 1 .. Len(q) : y[i] = q[i]
    OBVIOUS
  <1>2. Len(q) \in Nat /\ DOMAIN q = 1 .. Len(q) /\ DOMAIN y = DOMAIN q \cup {Len(q) + 1}
    BY <1>1
  <1>3. ToSet(y) = ToSet(q) \cup {x} BY <1>1, <1>2 DEF ToSet
  <1>4. \A i \in DOMAIN q : q[i] = x => x = "apply" BY DEF ToSet
  <1>5. Once(y) BY <1>1, <1>2, <1>4 DEF Once
  <1> QED BY <1>1, <1>3, <1>5

LEMMA OnceRest ==
  ASSUME LineInv, NEW n \in Node
  PROVE  /\ Rest(n) \in Seq(Lined) /\ Once(Rest(n)) /\ ToSet(Rest(n)) \subseteq ToSet(line[n])
         /\ \A x : Enters(n, x) /\ x # "apply" => x \notin ToSet(Rest(n))
  <1> PICK q \in Seq(Lined) : q = line[n] BY DEF LineInv
  <1>1. Once(q) BY DEF LineInv
  <1>2. CASE q = <<>>
    <2>1. Rest(n) = <<>> BY <1>2 DEF Rest
    <2>2. ToSet(<<>>) = {} /\ Once(<<>>) /\ <<>> \in Seq(Lined) BY DEF ToSet, Once
    <2> QED BY <2>1, <2>2
  <1>3. CASE q # <<>>
    <2> PICK y : y = Tail(q) OBVIOUS
    <2>1. Rest(n) = y BY <1>3 DEF Rest
    <2>2. /\ y \in Seq(Lined) /\ DOMAIN y = 1 .. Len(q) - 1 /\ Len(q) \in Nat
          /\ DOMAIN q = 1 .. Len(q) /\ 1 \in DOMAIN q /\ Head(q) = q[1]
          /\ \A i \in 1 .. Len(q) - 1 : y[i] = q[i + 1]
      BY <1>3
    <2>3. \A i \in DOMAIN y : i + 1 \in DOMAIN q /\ i + 1 # 1 /\ y[i] = q[i + 1] BY <2>2
    <2>4. ToSet(y) \subseteq ToSet(q) BY <2>3 DEF ToSet
    <2>5. Once(y)
      <3> SUFFICES ASSUME NEW i \in DOMAIN y, NEW j \in DOMAIN y, y[i] = y[j]
                   PROVE  i = j \/ y[i] = "apply"
        BY DEF Once
      <3>1. i + 1 = j + 1 \/ y[i] = "apply" BY <1>1, <2>3 DEF Once
      <3> QED BY <2>2, <3>1
    <2>6. ASSUME NEW x, Enters(n, x), x # "apply", x \in ToSet(y) PROVE FALSE
      <3>1. x = q[1] BY <1>3, <2>2, <2>6 DEF Enters
      <3>2. PICK i \in DOMAIN y : x = y[i] BY <2>6 DEF ToSet
      <3> QED BY <1>1, <2>2, <2>3, <2>6, <3>1, <3>2 DEF Once
    <2> QED BY <2>1, <2>2, <2>4, <2>5, <2>6
  <1> QED BY <1>2, <1>3

LEMMA OnceRemoved ==
  ASSUME NEW q \in Seq(Lined), Once(q), NEW i \in DOMAIN q
  PROVE  /\ RemoveAt(q, i) \in Seq(Lined) /\ Once(RemoveAt(q, i))
         /\ ToSet(RemoveAt(q, i)) \subseteq ToSet(q)
  <1> PICK y : y = RemoveAt(q, i) OBVIOUS
  <1>0. Len(q) \in Nat /\ DOMAIN q = 1 .. Len(q) /\ i \in 1 .. Len(q) OBVIOUS
  <1> PICK a : a = SubSeq(q, 1, i - 1) OBVIOUS
  <1> PICK b : b = SubSeq(q, i + 1, Len(q)) OBVIOUS
  <1>1. a \in Seq(Lined) /\ Len(a) = i - 1 /\ \A k \in 1 .. i - 1 : a[k] = q[k] BY <1>0
  <1>2. /\ b \in Seq(Lined) /\ Len(b) = Len(q) - i
        /\ \A k \in 1 .. Len(q) - i : b[k] = q[k + i]
    <2>1. \A k \in i + 1 .. Len(q) : q[k] \in Lined BY <1>0
    <2> QED BY <1>0, <2>1
  <1>3. y = a \o b BY Zenon DEF RemoveAt
  <1>9. /\ y \in Seq(Lined) /\ Len(y) = Len(a) + Len(b)
        /\ \A k \in 1 .. Len(a) + Len(b) : y[k] = IF k <= Len(a) THEN a[k] ELSE b[k - Len(a)]
    <2>0. a \in Seq(Lined) /\ b \in Seq(Lined) BY <1>1, <1>2
    <2>1. /\ a \o b \in Seq(Lined) /\ Len(a \o b) = Len(a) + Len(b)
          /\ \A k \in 1 .. Len(a) + Len(b) :
               (a \o b)[k] = IF k <= Len(a) THEN a[k] ELSE b[k - Len(a)]
      BY <2>0
    <2> QED BY <1>3, <2>1, Zenon
  <1>4. y \in Seq(Lined) /\ DOMAIN y = 1 .. Len(q) - 1 BY <1>0, <1>1, <1>2, <1>9
  <1>5. \A k \in DOMAIN y : y[k] = IF k < i THEN q[k] ELSE q[k + 1]
    <2> SUFFICES ASSUME NEW k \in DOMAIN y PROVE y[k] = IF k < i THEN q[k] ELSE q[k + 1]
      OBVIOUS
    <2>3. k \in 1 .. Len(a) + Len(b) BY <1>0, <1>1, <1>2, <1>4
    <2>4. y[k] = IF k <= Len(a) THEN a[k] ELSE b[k - Len(a)] BY <1>9, <2>3
    <2>0. y[k] = IF k <= i - 1 THEN a[k] ELSE b[k - (i - 1)] BY <1>1, <2>4, Zenon
    <2>1. CASE k < i BY <1>0, <1>1, <1>4, <2>0, <2>1
    <2>2. CASE ~(k < i)
      <3>1. k - (i - 1) \in 1 .. Len(q) - i /\ (k - (i - 1)) + i = k + 1 /\ ~(k <= i - 1)
        BY <1>0, <1>4, <2>2
      <3> QED BY <1>2, <2>0, <2>2, <3>1
    <2> QED BY <2>1, <2>2
  <1>6. \A k \in DOMAIN y : k \in DOMAIN q /\ k + 1 \in DOMAIN q BY <1>0, <1>4
  <1>7. ToSet(y) \subseteq ToSet(q) BY <1>5, <1>6 DEF ToSet
  <1>8. Once(y)
    <2> SUFFICES ASSUME NEW k \in DOMAIN y, NEW l \in DOMAIN y, y[k] = y[l]
                 PROVE  k = l \/ y[k] = "apply"
      BY DEF Once
    <2>1. k \in Nat /\ l \in Nat BY <1>0, <1>4
    <2>2. (IF k < i THEN k ELSE k + 1) = (IF l < i THEN l ELSE l + 1) \/ y[k] = "apply"
      BY <1>5, <1>6 DEF Once
    <2> QED BY <1>0, <2>1, <2>2
  <1> QED BY <1>4, <1>7, <1>8

\* What a step of node n may do to a request that it does not leave alone: it
\* is no request that another node has in line or that holds its lock.
Moves(n, r) ==
  /\ calls[r].node = n \/ calls[r].pc \in {"idle", "waiting", "answered"}
  /\ calls'[r].node = n \/ calls'[r].pc \notin Holding

LEMMA LineStep ==
  ASSUME LineInv, NEW n \in Node,
         NEW q \in Seq(Lined), line' = [line EXCEPT ![n] = q],
         NEW x \in Request \cup {None}, mutex' = [mutex EXCEPT ![n] = x],
         \A r \in Request : calls'[r] = calls[r] \/ Moves(n, r),
         Once(q), Queued(q, n)', Holder(n, x)'
  PROVE  LineInv'
  <1>1. line' \in [Node -> Seq(Lined)] /\ mutex' \in [Node -> Request \cup {None}]
    BY DEF LineInv
  <1>2. line'[n] = q /\ mutex'[n] = x BY DEF LineInv
  <1>3. ASSUME NEW m \in Node \ {n}
        PROVE  Once(line[m])' /\ Queued(line[m], m)' /\ Holder(m, mutex[m])'
    <2>1. line'[m] = line[m] /\ mutex'[m] = mutex[m] BY DEF LineInv
    <2>2. Once(line[m]) /\ Queued(line[m], m) /\ Holder(m, mutex[m]) BY DEF LineInv
    <2>3. ASSUME NEW r \in ToSet(line[m]) \cap Request
          PROVE  calls'[r].node = m /\ calls'[r].pc \in InLine
      <3>1. calls[r].node = m /\ calls[r].pc \in InLine BY <2>2 DEF Queued
      <3>2. ~ Moves(n, r) BY <3>1 DEF Moves, InLine
      <3> QED BY <3>1, <3>2
    <2>4. ASSUME NEW r \in Request
          PROVE  (calls[r].node = m /\ calls[r].pc \in Holding)
                   <=> (calls'[r].node = m /\ calls'[r].pc \in Holding)
      <3>1. CASE Moves(n, r)
        <4>1. ~ (calls'[r].node = m /\ calls'[r].pc \in Holding) BY <3>1 DEF Moves
        <4>2. ~ (calls[r].node = m /\ calls[r].pc \in Holding)
          BY <3>1 DEF Moves, Holding
        <4> QED BY <4>1, <4>2
      <3>2. CASE calls'[r] = calls[r] BY <3>2
      <3> QED BY <3>1, <3>2
    <2>5. Queued(line[m], m)' BY <2>1, <2>3 DEF Queued
    <2>6. Holder(m, mutex[m])' BY <2>1, <2>2, <2>4 DEF Holder
    <2> QED BY <2>1, <2>2, <2>5, <2>6 DEF Once
  <1>4. Once(line[n])' /\ Queued(line[n], n)' /\ Holder(n, mutex[n])'
    BY <1>2 DEF Once, Queued, Holder
  <1>5. ASSUME NEW m \in Node
        PROVE  Once(line[m])' /\ Queued(line[m], m)' /\ Holder(m, mutex[m])'
    BY <1>3, <1>4
  <1> QED BY <1>1, <1>5 DEF LineInv

LEMMA HolderStays ==
  ASSUME NEW n, NEW x, Holder(n, x),
         \A r \in Request : calls'[r] = calls[r]
                              \/ (calls[r].pc \notin Holding /\ calls'[r].pc \notin Holding)
  PROVE  Holder(n, x)'
  BY DEF Holder

LEMMA QueuedStays ==
  ASSUME LineInv, NEW n \in Node, NEW q \in Seq(Lined),
         \A r \in ToSet(q) \cap Request : r \in ToSet(line[n]) /\ calls'[r] = calls[r]
  PROVE  Queued(q, n)'
  BY DEF LineInv, Queued

LEMMA NotRequests == {"apply", "expiry", "detector"} \cap Request = {}
  BY LockConstantsOK DEF LockConstantsOK

\* Steps that wake waiters at most, and may queue to apply
LEMMA LineWakes ==
  ASSUME Typed, LineInv, NEW n \in Node,
         \A r \in Request : calls'[r] = calls[r]
                              \/ (calls[r].pc = "waiting" /\ calls'[r].pc = "woken"),
         NEW q \in Seq(Lined), line' = [line EXCEPT ![n] = q], Once(q),
         ToSet(q) \subseteq ToSet(line[n]) \cup {"apply", "expiry", "detector"},
         mutex' = mutex
  PROVE  LineInv'
  <1>1. \A r \in ToSet(line[n]) \cap Request : calls'[r] = calls[r]
    BY DEF LineInv, Queued, InLine
  <1>2. Queued(q, n)' BY <1>1, NotRequests, QueuedStays
  <1>3. \A r \in Request : calls'[r] = calls[r] \/ Moves(n, r) BY DEF Moves, Holding
  <1>4. PICK x \in Request \cup {None} : x = mutex[n] BY DEF LineInv
  <1>5. Holder(n, x) BY <1>4 DEF LineInv
  <1>6. Holder(n, x)' BY <1>5, HolderStays DEF Holding
  <1>7. mutex' = [mutex EXCEPT ![n] = x] BY <1>4 DEF LineInv
  <1> QED BY <1>2, <1>3, <1>6, <1>7, LineStep

\* Steps that move one request of the node, to the call c
LEMMA LineMoves ==
  ASSUME Typed, LineInv, NEW n \in Node,
         NEW r \in Request, NEW c, calls' = [calls EXCEPT ![r] = c],
         calls[r].node = n \/ calls[r].pc \in {"idle", "waiting", "answered"},
         c.node = n \/ c.pc \notin Holding,
         NEW q \in Seq(Lined), line' = [line EXCEPT ![n] = q], Once(q),
         ToSet(q) \subseteq ToSet(line[n]) \cup {r, "apply"},
         r \in ToSet(q) => c.node = n /\ c.pc \in InLine,
         NEW x \in Request \cup {None}, mutex' = [mutex EXCEPT ![n] = x],
         Holder(n, x)'
  PROVE  LineInv'
  <1>1. calls'[r] = c /\ \A s \in Request \ {r} : calls'[s] = calls[s] BY DEF Typed
  <1>2. \A s \in Request : calls'[s] = calls[s] \/ Moves(n, s) BY <1>1 DEF Moves
  <1>3. ASSUME NEW s \in ToSet(q) \cap Request
        PROVE  calls'[s].node = n /\ calls'[s].pc \in InLine
    <2>1. CASE s = r BY <1>1, <2>1
    <2>2. CASE s # r
      <3>1. s \in ToSet(line[n]) BY <2>2, NotRequests
      <3> QED BY <1>1, <2>2, <3>1 DEF LineInv, Queued
    <2> QED BY <2>1, <2>2
  <1>4. Queued(q, n)' BY <1>3 DEF Queued
  <1> QED BY <1>2, <1>4, LineStep

\* One that neither had the lock nor gets it
LEMMA LineServes ==
  ASSUME Typed, LineInv, NEW n \in Node,
         NEW r \in Request, NEW c, calls' = [calls EXCEPT ![r] = c],
         calls[r].node = n \/ calls[r].pc \in {"idle", "waiting", "answered"},
         calls[r].pc \notin Holding, c.pc \notin Holding,
         NEW q \in Seq(Lined), line' = [line EXCEPT ![n] = q], Once(q),
         ToSet(q) \subseteq ToSet(line[n]) \cup {r, "apply"},
         r \in ToSet(q) => c.node = n /\ c.pc \in InLine,
         mutex' = mutex
  PROVE  LineInv'
  <1>1. calls'[r] = c /\ \A s \in Request \ {r} : calls'[s] = calls[s] BY DEF Typed
  <1>2. PICK x \in Request \cup {None} : x = mutex[n] BY DEF LineInv
  <1>3. Holder(n, x) BY <1>2 DEF LineInv
  <1>4. \A s \in Request : calls'[s] = calls[s]
                              \/ (calls[s].pc \notin Holding /\ calls'[s].pc \notin Holding)
    BY <1>1
  <1>5. Holder(n, x)' BY <1>3, <1>4, HolderStays
  <1>6. mutex' = [mutex EXCEPT ![n] = x] BY <1>2 DEF LineInv
  <1> QED BY <1>5, <1>6, LineMoves

\* _try_acquire, with the rest of the line behind it
LEMMA TryAcquireLine ==
  ASSUME Typed, LineInv, NEW n \in Node, NEW r \in Request, NEW call \in Live,
         call.node = n,
         calls[r].node = n \/ calls[r].pc = "idle", calls[r].pc \notin Holding,
         NEW rest \in Seq(Lined), Once(rest), ToSet(rest) \subseteq ToSet(line[n]),
         r \notin ToSet(rest),
         TryAcquire(n, r, call, rest), mutex' = mutex
  PROVE  LineInv'
  <1>0. \A pc \in Pc : [call EXCEPT !.pc = pc].pc = pc /\ [call EXCEPT !.pc = pc].node = n
    BY DEF Live
  <1>1. CASE GrantAtOnce(n, r, call, rest)
    <2> PICK c : c = [call EXCEPT !.pc = "answered"] OBVIOUS
    <2>1. c.pc \notin Holding BY <1>0 DEF Pc, Holding
    <2>2. calls' = [calls EXCEPT ![r] = c] /\ line' = [line EXCEPT ![n] = rest]
      BY <1>1 DEF GrantAtOnce
    <2> QED BY <2>1, <2>2, LineServes
  <1>2. CASE Refuse(n, r, call, rest)
    <2>1. CASE call.wait /\ rest # <<>>
      <3> PICK c : c = [call EXCEPT !.pc = "refused"] OBVIOUS
      <3> PICK q : q = Append(rest, r) OBVIOUS
      <3>1. c.pc = "refused" /\ c.node = n BY <1>0 DEF Pc
      <3>2. calls' = [calls EXCEPT ![r] = c] /\ line' = [line EXCEPT ![n] = q]
        BY <1>2, <2>1 DEF Refuse
      <3>3. r \in Lined BY DEF Lined
      <3>4. q \in Seq(Lined) /\ Once(q) /\ ToSet(q) = ToSet(rest) \cup {r}
        BY <3>3, OnceAppend
      <3>5. c.pc \notin Holding /\ c.pc \in InLine BY <3>1 DEF Holding, InLine
      <3> QED BY <3>1, <3>2, <3>4, <3>5, LineServes
    <2>2. CASE ~(call.wait /\ rest # <<>>)
      <3>1. line' = [line EXCEPT ![n] = rest] BY <1>2, <2>2 DEF Refuse
      <3>2. \E c : calls' = [calls EXCEPT ![r] = c] /\ c.pc \notin Holding
        <4>1. CASE call.wait
          <5> PICK c : c = [call EXCEPT !.pc = "waiting"] OBVIOUS
          <5>1. c.pc \notin Holding BY <1>0 DEF Pc, Holding
          <5>2. calls' = [calls EXCEPT ![r] = c] BY <1>2, <2>2, <4>1 DEF Refuse, Register
          <5> QED BY <5>1, <5>2
        <4>2. CASE ~call.wait
          <5>1. Idle.pc \notin Holding BY DEF Idle, Holding
          <5>2. calls' = [calls EXCEPT ![r] = Idle]
            BY <1>2, <2>2, <4>2 DEF Refuse, Finish
          <5> QED BY <5>1, <5>2
        <4> QED BY <4>1, <4>2
      <3> QED BY <3>1, <3>2, LineServes
    <2> QED BY <2>1, <2>2
  <1> QED BY <1>1, <1>2 DEF TryAcquire

LEMMA HoldersOf ==
  ASSUME LineInv, NEW n \in Node, NEW r \in Request
  PROVE  (calls[r].node = n /\ calls[r].pc \in Holding) <=> mutex[n] = r
  <1>1. None \notin Request BY LockConstantsOK DEF LockConstantsOK
  <1> QED BY <1>1 DEF LineInv, Holder

LEMMA RetryLine ==
  ASSUME Typed, LineInv, NEW n \in Node, NEW r \in Request, Enters(n, r),
         calls[r].node = n, calls[r].pc = "woken", Retry(n, r),
         line' = [line EXCEPT ![n] = Rest(n)]
  PROVE  LineInv'
  <1> PICK q : q = Rest(n) OBVIOUS
  <1>0. r # "apply" /\ None \notin Request
    BY NotRequests, LockConstantsOK DEF LockConstantsOK
  <1>1. q \in Seq(Lined) /\ Once(q) /\ ToSet(q) \subseteq ToSet(line[n]) /\ r \notin ToSet(q)
    BY <1>0, OnceRest
  <1>2. CASE Finish(r) /\ mutex' = mutex
    <2>1. Idle.pc \notin Holding /\ calls[r].pc \notin Holding BY DEF Idle, Holding
    <2>2. calls' = [calls EXCEPT ![r] = Idle] BY <1>2 DEF Finish
    <2> QED BY <1>1, <1>2, <2>1, <2>2, LineServes
  <1>3. CASE /\ mutex' = [mutex EXCEPT ![n] = r]
             /\ calls' = [calls EXCEPT ![r].pc = "proposing"]
    <2> PICK c : c = [calls[r] EXCEPT !.pc = "proposing"] OBVIOUS
    <2>1. calls[r] \in Live BY LiveCall DEF Pc
    <2>2. c.node = n /\ c.pc = "proposing" BY <2>1 DEF Live
    <2>3. calls' = [calls EXCEPT ![r] = c] BY <1>3
    <2>4. calls'[r] = c /\ \A s \in Request \ {r} : calls'[s] = calls[s]
      BY <2>3 DEF Typed
    <2>5. mutex[n] = None BY DEF Enters
    <2>6. \A s \in Request : ~ (calls[s].node = n /\ calls[s].pc \in Holding)
      BY <1>0, <2>5, HoldersOf
    <2>7. Holder(n, r)' BY <1>0, <2>2, <2>4, <2>6 DEF Holder, Holding
    <2> QED BY <1>1, <1>3, <2>2, <2>3, <2>7, LineMoves
  <1> QED BY <1>2, <1>3 DEF Retry

LEMMA EnterLine ==
  ASSUME Typed, LineInv, NEW n \in Node, NEW r \in Request, Enter(n, r)
  PROVE  LineInv'
  <1> PICK q : q = Rest(n) OBVIOUS
  <1>0. r # "apply" BY NotRequests
  <1>1. /\ q \in Seq(Lined) /\ Once(q) /\ ToSet(q) \subseteq ToSet(line[n])
        /\ r \notin ToSet(q)
    BY <1>0, OnceRest DEF Enter
  <1>2. calls[r].node = n BY DEF Enter
  <1>3. CASE calls[r].pc = "arriving" /\ TryAcquire(n, r, calls[r], Rest(n)) /\ mutex' = mutex
    <2>1. calls[r] \in Live /\ calls[r].pc \notin Holding
      BY <1>3, LiveCall DEF Pc, Holding
    <2> QED BY <1>1, <1>2, <1>3, <2>1, TryAcquireLine
  <1>4. CASE calls[r].pc = "refused" /\ Register(n, r, calls[r]) /\ mutex' = mutex
             /\ line' = [line EXCEPT ![n] = Rest(n)]
    <2> PICK c : c = [calls[r] EXCEPT !.pc = "waiting"] OBVIOUS
    <2>1. calls[r] \in Live BY <1>4, LiveCall DEF Pc
    <2>2. c.pc \notin Holding BY <2>1 DEF Live, Holding
    <2>3. calls' = [calls EXCEPT ![r] = c] BY <1>4 DEF Register
    <2>4. calls[r].pc \notin Holding BY <1>4 DEF Holding
    <2> QED BY <1>1, <1>2, <1>4, <2>2, <2>3, <2>4, LineServes
  <1>5. CASE calls[r].pc = "woken" /\ Retry(n, r) /\ line' = [line EXCEPT ![n] = Rest(n)]
    BY <1>2, <1>5, RetryLine DEF Enter
  <1>6. CASE calls[r].pc = "timedout" /\ GiveUp(n, r) /\ line' = [line EXCEPT ![n] = Rest(n)]
    <2>1. calls' = [calls EXCEPT ![r] = Idle] /\ mutex' = mutex BY <1>6 DEF GiveUp, Finish
    <2>2. Idle.pc \notin Holding /\ calls[r].pc \notin Holding BY <1>6 DEF Idle, Holding
    <2> QED BY <1>1, <1>2, <1>6, <2>1, <2>2, LineServes
  <1> QED BY <1>3, <1>4, <1>5, <1>6 DEF Enter

LEMMA AcquireLine ==
  ASSUME Typed, LineInv, NEW n \in Node, NEW r \in Request, NEW c \in Client, NEW k \in Key,
         NEW mode \in Mode, NEW wait \in BOOLEAN, Acquire(n, r, c, k, mode, wait)
  PROVE  LineInv'
  <1> PICK call : call = [pc |-> "arriving", node |-> n, client |-> c, key |-> k,
                          mode |-> mode, wait |-> wait]
    OBVIOUS
  <1>1. call \in Live /\ call.node = n /\ call.pc = "arriving" BY DEF Live, Pc
  <1>2. calls[r] = Idle /\ mutex' = mutex BY DEF Acquire
  <1>3. calls[r].pc = "idle" BY <1>2 DEF Idle
  <1>4. CASE Free(n)
    <2>1. TryAcquire(n, r, call, <<>>) BY <1>4, Zenon DEF Acquire
    <2>2. <<>> \in Seq(Lined) /\ Once(<<>>) /\ ToSet(<<>>) = {} BY DEF Once, ToSet
    <2> QED BY <1>1, <1>2, <1>3, <2>1, <2>2, TryAcquireLine DEF Holding
  <1>5. CASE ~Free(n)
    <2> PICK s \in Seq(Lined) : s = line[n] BY DEF LineInv
    <2> PICK q : q = Append(s, r) OBVIOUS
    <2>1. calls' = [calls EXCEPT ![r] = call] /\ line' = [line EXCEPT ![n] = q]
      BY <1>5 DEF Acquire, LineInv
    <2>2. r \notin ToSet(s) BY <1>3 DEF LineInv, Queued, InLine
    <2>3. Once(s) /\ r \in Lined BY DEF LineInv, Lined
    <2>4. q \in Seq(Lined) /\ Once(q) /\ ToSet(q) = ToSet(s) \cup {r}
      BY <2>2, <2>3, OnceAppend
    <2>5. call.pc \notin Holding /\ call.pc \in InLine /\ calls[r].pc \notin Holding
      BY <1>1, <1>3 DEF Holding, InLine
    <2>6. ToSet(q) \subseteq ToSet(line[n]) \cup {r, "apply"} BY <2>4
    <2> QED BY <1>1, <1>2, <1>3, <2>1, <2>4, <2>5, <2>6, LineServes
  <1> QED BY <1>4, <1>5

LEMMA ReturnLine ==
  ASSUME Typed, LineInv, NEW n \in Node, NEW r \in Request, Return(n, r)
  PROVE  LineInv'
  <1> PICK q \in Seq(Lined) : q = line[n] BY DEF LineInv
  <1>1. calls[r].node = n /\ calls[r].pc = "proposing" BY DEF Return
  <1>2. mutex[n] = r BY <1>1, HoldersOf DEF Holding
  <1>3. /\ calls' = [calls EXCEPT ![r] = Idle] /\ mutex' = [mutex EXCEPT ![n] = None]
        /\ line' = [line EXCEPT ![n] = q]
    BY DEF Return, Finish, LineInv
  <1>4. calls'[r] = Idle /\ \A s \in Request \ {r} : calls'[s] = calls[s]
    BY <1>3 DEF Typed
  <1>5. Idle.pc \notin Holding BY DEF Idle, Holding
  <1>6. \A s \in Request \ {r} : ~ (calls[s].node = n /\ calls[s].pc \in Holding)
    BY <1>2, HoldersOf
  <1>7. Holder(n, None)' BY <1>4, <1>5, <1>6 DEF Holder
  <1>8. r \notin ToSet(q) BY <1>1 DEF LineInv, Queued, InLine
  <1>9. Once(q) BY DEF LineInv
  <1> QED BY <1>1, <1>3, <1>5, <1>7, <1>8, <1>9, LineMoves

LEMMA StickLine ==
  ASSUME Typed, LineInv, NEW n \in Node, NEW r \in Request, Stick(n, r)
  PROVE  LineInv'
  <1> PICK s \in Seq(Lined) : s = line[n] BY DEF LineInv
  <1> PICK q : q = Append(s, "apply") OBVIOUS
  <1> PICK c : c = [calls[r] EXCEPT !.pc = "stuck"] OBVIOUS
  <1>1. calls[r].node = n /\ calls[r].pc = "proposing" BY DEF Stick
  <1>2. calls[r] \in Live BY <1>1, LiveCall DEF Pc
  <1>3. c.node = n /\ c.pc = "stuck" BY <1>1, <1>2 DEF Live
  <1>4. calls' = [calls EXCEPT ![r] = c] /\ mutex' = mutex /\ line' = [line EXCEPT ![n] = q]
    BY DEF Stick, LineInv
  <1>5. calls'[r] = c /\ \A p \in Request \ {r} : calls'[p] = calls[p]
    BY <1>4 DEF Typed
  <1>6. mutex[n] = r BY <1>1, HoldersOf DEF Holding
  <1>7. Holder(n, r)'
    <2>1. \A p \in Request \ {r} : ~ (calls[p].node = n /\ calls[p].pc \in Holding)
      BY <1>6, HoldersOf
    <2>2. r # None BY LockConstantsOK DEF LockConstantsOK
    <2>3. c.pc \in Holding BY <1>3 DEF Holding
    <2> QED BY <1>3, <1>5, <2>1, <2>2, <2>3 DEF Holder
  <1>8. mutex' = [mutex EXCEPT ![n] = r] BY <1>4, <1>6 DEF LineInv
  <1>9. q \in Seq(Lined) /\ Once(q) /\ ToSet(q) = ToSet(s) \cup {"apply"}
    BY OnceAppend DEF LineInv, Lined
  <1>10. r \notin ToSet(q)
    <2>1. r \notin ToSet(s) BY <1>1 DEF LineInv, Queued, InLine
    <2> QED BY <1>9, <2>1, NotRequests
  <1> QED BY <1>1, <1>3, <1>4, <1>7, <1>8, <1>9, <1>10, LineMoves

LEMMA QueueUpLine ==
  ASSUME Typed, LineInv, NEW n \in Node, NEW x \in Request \cup {"expiry", "detector"},
         QueueUp(n, x)
  PROVE  LineInv'
  <1> PICK s \in Seq(Lined) : s = line[n] BY DEF LineInv
  <1> PICK q : q = Append(s, x) OBVIOUS
  <1> PICK y \in Request \cup {None} : y = mutex[n] BY DEF LineInv
  <1>1. x \notin ToSet(s) /\ Once(s) /\ x \in Lined BY DEF QueueUp, LineInv, Lined
  <1>2. q \in Seq(Lined) /\ Once(q) /\ ToSet(q) = ToSet(s) \cup {x}
    BY <1>1, OnceAppend
  <1>3. line' = [line EXCEPT ![n] = q] /\ mutex' = [mutex EXCEPT ![n] = y] /\ calls' = calls
    BY DEF QueueUp, LineInv
  <1>4. Holder(n, y)' BY <1>3, HolderStays DEF LineInv
  <1>5. x \in Request => calls[x].node = n /\ calls[x].pc \in InLine
    BY DEF QueueUp, InLine
  <1>6. Queued(q, n)' BY <1>2, <1>3, <1>5 DEF LineInv, Queued
  <1> QED BY <1>2, <1>3, <1>4, <1>6, LineStep

\* The line of a node after a step of its own that leaves the requests alone
LEMMA LineStays ==
  ASSUME Typed, LineInv, UNCHANGED <<calls, line, mutex>>
  PROVE  LineInv'
  BY DEF LineInv, Queued, Holder, Once

LEMMA WakeCalls ==
  ASSUME Typed, NEW R, Wake(R)
  PROVE  \A r \in Request : calls'[r] = calls[r]
                              \/ (calls[r].pc = "waiting" /\ calls'[r].pc = "woken")
  <1> SUFFICES ASSUME NEW r \in Request, calls'[r] # calls[r]
               PROVE  calls[r].pc = "waiting" /\ calls'[r].pc = "woken"
    OBVIOUS
  <1>1. calls[r].pc = "waiting" /\ calls'[r] = [calls[r] EXCEPT !.pc = "woken"] BY DEF Wake
  <1>2. calls[r] \in Live BY <1>1, LiveCall DEF Pc
  <1> QED BY <1>1, <1>2 DEF Live

LEMMA LoopsLine ==
  ASSUME Typed, LineInv, NEW n \in Node,
         Apply(n) \/ Detect(n) \/ Expire(n)
  PROVE  LineInv'
  <1> PICK s : s = Rest(n) OBVIOUS
  <1>1. calls' = calls \/ \E R : Wake(R)
    BY DEF Apply, ApplyAcquire, ApplyRelease, Expire, Detect, Notify
  <1>2. \A r \in Request : calls'[r] = calls[r]
                              \/ (calls[r].pc = "waiting" /\ calls'[r].pc = "woken")
    BY <1>1, WakeCalls
  <1>3. s \in Seq(Lined) /\ Once(s) /\ ToSet(s) \subseteq ToSet(line[n]) BY OnceRest
  <1>4. /\ Append(s, "apply") \in Seq(Lined) /\ Once(Append(s, "apply"))
        /\ ToSet(Append(s, "apply")) = ToSet(s) \cup {"apply"}
    BY <1>3, OnceAppend DEF Lined
  <1>5. mutex' = mutex BY DEF Apply, Expire, Detect
  <1>6. \E q \in {s, Append(s, "apply")} : line' = [line EXCEPT ![n] = q]
    BY DEF Apply, Expire, Detect
  <1>7. PICK q \in {s, Append(s, "apply")} : line' = [line EXCEPT ![n] = q] BY <1>6
  <1>8. /\ q \in Seq(Lined) /\ Once(q)
        /\ ToSet(q) \subseteq ToSet(line[n]) \cup {"apply", "expiry", "detector"}
    BY <1>3, <1>4, <1>7
  <1> QED BY <1>2, <1>5, <1>7, <1>8, LineWakes

LEMMA ReplicateLine ==
  ASSUME Typed, LineInv, NEW n \in Node, Replicate(n)
  PROVE  LineInv'
  <1> PICK s \in Seq(Lined) : s = line[n] BY DEF LineInv
  <1>1. Once(s) BY DEF LineInv
  <1>2. /\ Append(s, "apply") \in Seq(Lined) /\ Once(Append(s, "apply"))
        /\ ToSet(Append(s, "apply")) = ToSet(s) \cup {"apply"}
    BY <1>1, OnceAppend DEF Lined
  <1>3. calls' = calls /\ mutex' = mutex BY DEF Replicate
  <1>4. PICK q \in {s, Append(s, "apply")} : line' = [line EXCEPT ![n] = q]
    BY DEF Replicate
  <1>5. /\ q \in Seq(Lined) /\ Once(q)
        /\ ToSet(q) \subseteq ToSet(line[n]) \cup {"apply", "expiry", "detector"}
    BY <1>1, <1>2, <1>4
  <1> QED BY <1>3, <1>4, <1>5, LineWakes

LEMMA ChangeLeaderLine ==
  ASSUME Typed, LineInv, NEW n \in Node, ChangeLeader(n)
  PROVE  LineInv'
  <1>1. calls' = calls /\ mutex' = mutex BY DEF ChangeLeader
  <1>2. CASE line' = line BY <1>1, <1>2, LineStays
  <1>3. ASSUME NEW i \in DOMAIN line[leader],
               line' = [line EXCEPT ![leader] = RemoveAt(line[leader], i)]
        PROVE  LineInv'
    <2>1. leader \in Node BY DEF Typed
    <2> PICK s \in Seq(Lined) : s = line[leader] BY <2>1 DEF LineInv
    <2> PICK q : q = RemoveAt(s, i) OBVIOUS
    <2>2. Once(s) BY <2>1 DEF LineInv
    <2>3. q \in Seq(Lined) /\ Once(q) /\ ToSet(q) \subseteq ToSet(s)
      BY <1>3, <2>2, OnceRemoved
    <2> QED BY <1>1, <1>3, <2>1, <2>3, LineWakes
  <1> QED BY <1>2, <1>3 DEF ChangeLeader

LEMMA LineInvStep ==
  ASSUME Typed, LineInv, [Next]_vars
  PROVE  LineInv'
  <1>1. CASE UNCHANGED vars BY <1>1, LineStays DEF vars
  <1>2. ASSUME NEW n \in Node, Apply(n) PROVE LineInv' BY <1>2, LoopsLine
  <1>3. ASSUME NEW n \in Node, Step(n) PROVE LineInv'
    <2>1. ASSUME NEW c \in Client, NEW k \in Key, Release(n, c, k) PROVE LineInv'
      BY <2>1, LineStays DEF Release
    <2>2. ASSUME NEW r \in Request, Background(n, r) PROVE LineInv'
      <3> PICK q \in Seq(Lined) : q = line[n] BY DEF LineInv
      <3>1. calls[r].node = n /\ calls[r].pc = "answered" BY <2>2 DEF Background
      <3>2. calls' = [calls EXCEPT ![r] = Idle] /\ mutex' = mutex
            /\ line' = [line EXCEPT ![n] = q]
        BY <2>2 DEF Background, Finish, LineInv
      <3>3. Idle.pc \notin Holding /\ calls[r].pc \notin Holding BY <3>1 DEF Idle, Holding
      <3>4. Once(q) /\ r \notin ToSet(q) BY <3>1 DEF LineInv, Queued, InLine
      <3> QED BY <3>1, <3>2, <3>3, <3>4, LineServes
    <2>3. ASSUME NEW r \in Request, Timeout(n, r) PROVE LineInv'
      <3> PICK q \in Seq(Lined) : q = line[n] BY DEF LineInv
      <3> PICK c : c = [calls[r] EXCEPT !.pc = "timedout"] OBVIOUS
      <3>1. calls[r].node = n /\ calls[r].pc = "waiting" BY <2>3 DEF Timeout
      <3>2. calls[r] \in Live BY <3>1, LiveCall DEF Pc
      <3>3. c.pc \notin Holding /\ calls[r].pc \notin Holding
        BY <3>1, <3>2 DEF Live, Holding
      <3>4. calls' = [calls EXCEPT ![r] = c] /\ mutex' = mutex
            /\ line' = [line EXCEPT ![n] = q]
        BY <2>3 DEF Timeout, LineInv
      <3>5. Once(q) /\ r \notin ToSet(q) BY <3>1 DEF LineInv, Queued, InLine
      <3> QED BY <3>1, <3>3, <3>4, <3>5, LineServes
    <2> QED BY <1>3, <2>1, <2>2, <2>3, AcquireLine, EnterLine, ReturnLine, StickLine,
            QueueUpLine, LoopsLine, ReplicateLine, ChangeLeaderLine DEF Step
  <1> QED BY <1>1, <1>2, <1>3 DEF Next

-----------------------------------------------------------------------------
(***************************************************************************)
(* Who is registered as a waiter, and the wait-for graph                   *)
(***************************************************************************)
Waiter == [client : Client, mode : Mode, req : Request]
Queues == [Node -> [Key -> Seq(Waiter)]]

\* w is rightly in the queue for k on node n
Waits(w, n, k) ==
  /\ calls[w.req].pc \in {"waiting", "timedout"}
  /\ calls[w.req].node = n /\ calls[w.req].client = w.client /\ calls[w.req].key = k

WaitInv ==
  /\ waiters \in Queues
  /\ \A n \in Node, k \in Key : \A w \in ToSet(waiters[n][k]) : Waits(w, n, k)

LEMMA UnregisteredLeaves ==
  ASSUME NEW q \in Seq(Waiter), NEW C
  PROVE  /\ Unregistered(q, C) \in Seq(Waiter)
         /\ ToSet(Unregistered(q, C)) = {w \in ToSet(q) : w.client \notin C}
  <1> PICK S : S = {w \in ToSet(q) : w.client \in C} OBVIOUS
  <1>1. Without(q, S) \in Seq(Waiter) /\ ToSet(Without(q, S)) = ToSet(q) \ S
    BY WithoutLeaves
  <1> QED BY <1>1 DEF Unregistered

LEMMA OneQueue ==
  ASSUME waiters \in Queues, NEW n \in Node, NEW k \in Key, NEW q \in Seq(Waiter),
         waiters' = [waiters EXCEPT ![n][k] = q]
  PROVE  /\ waiters' \in Queues
         /\ \A m \in Node, l \in Key :
              waiters'[m][l] = IF m = n /\ l = k THEN q ELSE waiters[m][l]
  BY DEF Queues

LEMMA WaiterType ==
  ASSUME waiters \in Queues, NEW n \in Node, NEW k \in Key, NEW w \in ToSet(waiters[n][k])
  PROVE  w \in Waiter
  <1> PICK q \in Seq(Waiter) : q = waiters[n][k] BY DEF Queues
  <1> QED BY DEF ToSet

\* Who was registered, and still is, still waits; so does who is new.
LEMMA WaitStep ==
  ASSUME WaitInv, waiters' \in Queues,
         \A n \in Node, k \in Key : \A w \in ToSet(waiters[n][k])' :
           \/ w \in ToSet(waiters[n][k]) /\ calls'[w.req] = calls[w.req]
           \/ Waits(w, n, k)'
  PROVE  WaitInv'
  <1> SUFFICES ASSUME NEW n \in Node, NEW k \in Key, NEW w \in ToSet(waiters[n][k])'
               PROVE  Waits(w, n, k)'
    BY DEF WaitInv
  <1>1. CASE w \in ToSet(waiters[n][k]) /\ calls'[w.req] = calls[w.req]
    <2>1. Waits(w, n, k) BY <1>1 DEF WaitInv
    <2> QED BY <1>1, <2>1 DEF Waits
  <1> QED BY <1>1

\* Nobody registers or leaves, and who waits may time out.
LEMMA NobodyLeaves ==
  ASSUME Typed, WaitInv, waiters' = waiters,
         \A r \in Request : calls[r].pc \in {"waiting", "timedout"} =>
           calls'[r] \in {calls[r], [calls[r] EXCEPT !.pc = "timedout"]}
  PROVE  WaitInv'
  <1>1. ASSUME NEW n \in Node, NEW k \in Key, NEW w \in ToSet(waiters[n][k])
        PROVE  calls'[w.req] = calls[w.req] \/ Waits(w, n, k)'
    <2>1. w.req \in Request BY WaiterType DEF WaitInv, Waiter
    <2>2. Waits(w, n, k) BY DEF WaitInv
    <2>3. calls[w.req] \in Live BY <2>1, <2>2, LiveCall DEF Waits, Pc
    <2>4. calls'[w.req] \in {calls[w.req], [calls[w.req] EXCEPT !.pc = "timedout"]}
      BY <2>1, <2>2 DEF Waits
    <2> QED BY <2>2, <2>3, <2>4 DEF Waits, Live
  <1>2. waiters' \in Queues BY DEF WaitInv
  <1> QED BY <1>1, <1>2, WaitStep

\* Only a request that does not wait changes.
LEMMA OthersServed ==
  ASSUME Typed, WaitInv, waiters' = waiters, NEW r \in Request, NEW c,
         calls[r].pc \notin {"waiting", "timedout"}, calls' = [calls EXCEPT ![r] = c]
  PROVE  WaitInv'
  <1>1. \A s \in Request \ {r} : calls'[s] = calls[s] BY DEF Typed
  <1> QED BY <1>1, NobodyLeaves

At(call, n) == call.node = n

LEMMA RegisterWaits ==
  ASSUME Typed, WaitInv, NEW n \in Node, NEW r \in Request, NEW call \in Live,
         At(call, n), calls[r].pc \notin {"waiting", "timedout"}, Register(n, r, call)
  PROVE  WaitInv'
  <1>8. PICK k \in Key : k = call.key BY DEF Live
  <1> PICK q \in Seq(Waiter) : q = waiters[n][k] BY DEF WaitInv, Queues
  <1> PICK e : e = [client |-> call.client, mode |-> call.mode, req |-> r] OBVIOUS
  <1> PICK c : c = [call EXCEPT !.pc = "waiting"] OBVIOUS
  <1> PICK y : y = Append(q, e) OBVIOUS
  <1>0. calls' = [calls EXCEPT ![r] = c] /\ waiters' = [waiters EXCEPT ![n][k] = y]
    BY <1>8 DEF Register
  <1>1. calls'[r] = c /\ \A s \in Request \ {r} : calls'[s] = calls[s] BY <1>0 DEF Typed
  <1>2. /\ c.pc = "waiting" /\ c.node = n /\ c.client = call.client /\ c.key = k
    BY <1>8 DEF Live, At
  <1>3. e.client = call.client /\ e.req = r OBVIOUS
  <1>4. e \in Waiter BY DEF Waiter, Live
  <1>5. y \in Seq(Waiter) /\ ToSet(y) = ToSet(q) \cup {e} BY <1>4, AppendLeaves
  <1>6. /\ waiters' \in Queues
        /\ \A m \in Node, l \in Key :
             waiters'[m][l] = IF m = n /\ l = k THEN y ELSE waiters[m][l]
    <2>1. waiters \in Queues BY DEF WaitInv
    <2>2. y \in Seq(Waiter) BY <1>5
    <2>3. waiters' = [waiters EXCEPT ![n][k] = y] BY <1>0
    <2>4. k \in Key OBVIOUS
    <2>5. waiters' \in Queues BY <2>1, <2>2, <2>3, <2>4 DEF Queues
    <2>6. \A m \in Node, l \in Key :
            waiters'[m][l] = IF m = n /\ l = k THEN y ELSE waiters[m][l]
      BY <2>1, <2>2, <2>3, <2>4 DEF Queues
    <2> QED BY <2>5, <2>6
  <1>7. ASSUME NEW m \in Node, NEW l \in Key, NEW w \in ToSet(waiters'[m][l])
        PROVE  \/ w \in ToSet(waiters[m][l]) /\ calls'[w.req] = calls[w.req]
               \/ Waits(w, m, l)'
    <2>1. CASE m = n /\ l = k /\ w = e BY <1>1, <1>2, <1>3, <2>1 DEF Waits
    <2>2. CASE ~(m = n /\ l = k /\ w = e)
      <3>1. w \in ToSet(waiters[m][l]) BY <1>5, <1>6, <1>7, <2>2
      <3>2. Waits(w, m, l) /\ w.req \in Request
        BY <3>1, WaiterType DEF WaitInv, Waiter
      <3>3. w.req # r BY <3>2 DEF Waits
      <3> QED BY <1>1, <3>1, <3>2, <3>3
    <2> QED BY <2>1, <2>2
  <1> QED BY <1>6, <1>7, WaitStep

\* _notify_waiters, whatever table it reads: who is woken leaves the queue
LEMMA NotifyWaits ==
  ASSUME Typed, WaitInv, NEW n \in Node, NEW K, NEW tables, Notify(n, K, tables)
  PROVE  WaitInv'
  <1> PICK woken : woken = [k \in Key |-> IF k \in K THEN Woken(n, k, tables[k]) ELSE {}]
    OBVIOUS
  <1> PICK f : f = [k \in Key |-> Unregistered(waiters[n][k], {w.client : w \in woken[k]})]
    OBVIOUS
  <1>1. /\ waiters' = [waiters EXCEPT ![n] = f]
        /\ Wake({w.req : w \in UNION {woken[k] : k \in Key}})
    <2> DEFINE W(k) == IF k \in K THEN Woken(n, k, tables[k]) ELSE {}
    <2>1. \A k \in Key : woken[k] = W(k) OBVIOUS
    <2>2. /\ waiters' = [waiters EXCEPT ![n] =
                           [k \in Key |-> Unregistered(@[k], {w.client : w \in W(k)})]]
          /\ Wake({w.req : w \in UNION {W(k) : k \in Key}})
      BY DEF Notify
    <2> HIDE DEF W
    <2>3. waiters[n] = waiters[n] /\ n \in DOMAIN waiters BY DEF WaitInv, Queues
    <2>4. f = [k \in Key |-> Unregistered(waiters[n][k], {w.client : w \in W(k)})] BY <2>1
    <2>5. UNION {woken[k] : k \in Key} = UNION {W(k) : k \in Key} BY <2>1
    <2>6. {w.req : w \in UNION {woken[k] : k \in Key}} = {w.req : w \in UNION {W(k) : k \in Key}}
      BY <2>5
    <2>7. Wake({w.req : w \in UNION {woken[k] : k \in Key}}) BY <2>2, <2>6, Zenon
    <2>8. waiters' = [waiters EXCEPT ![n] = f] BY <2>2, <2>4
    <2> QED BY <2>7, <2>8
  <1>2. \A k \in Key : /\ f[k] \in Seq(Waiter) /\ woken[k] \subseteq ToSet(waiters[n][k])
                       /\ ToSet(f[k]) = {w \in ToSet(waiters[n][k]) :
                                           w.client \notin {u.client : u \in woken[k]}}
    <2> SUFFICES ASSUME NEW k \in Key
                 PROVE  /\ f[k] \in Seq(Waiter) /\ woken[k] \subseteq ToSet(waiters[n][k])
                        /\ ToSet(f[k]) = {w \in ToSet(waiters[n][k]) :
                                            w.client \notin {u.client : u \in woken[k]}}
      OBVIOUS
    <2> PICK q \in Seq(Waiter) : q = waiters[n][k] BY DEF WaitInv, Queues
    <2>1. f[k] = Unregistered(q, {w.client : w \in woken[k]}) OBVIOUS
    <2>2. Woken(n, k, tables[k]) \subseteq ToSet(q) BY DEF Woken, ToSet
    <2>3. woken[k] \subseteq ToSet(q) BY <2>2
    <2> QED BY <2>1, <2>3, UnregisteredLeaves
  <1>3. f \in [Key -> Seq(Waiter)] BY <1>2
  <1>4. /\ waiters' \in Queues
        /\ \A m \in Node : waiters'[m] = IF m = n THEN f ELSE waiters[m]
    BY <1>1, <1>3 DEF WaitInv, Queues
  <1>5. ASSUME NEW m \in Node, NEW l \in Key, NEW w \in ToSet(waiters'[m][l])
        PROVE  w \in ToSet(waiters[m][l]) /\ calls'[w.req] = calls[w.req]
    <2>1. w \in ToSet(waiters[m][l]) /\ (m = n => \A u \in woken[l] : w.client # u.client)
      <3>1. CASE m = n
        <4>1. w \in ToSet(f[l]) BY <1>4, <1>5, <3>1
        <4>2. w \in ToSet(waiters[n][l]) /\ w.client \notin {u.client : u \in woken[l]}
          BY <1>2, <4>1
        <4> QED BY <3>1, <4>2
      <3>2. CASE m # n BY <1>4, <1>5, <3>2
      <3> QED BY <3>1, <3>2
    <2>2. Waits(w, m, l) /\ w.req \in Request
      BY <2>1, WaiterType DEF WaitInv, Waiter
    <2>3. ASSUME NEW k \in Key, NEW u \in woken[k], u.req = w.req PROVE FALSE
      <3>1. Waits(u, n, k) BY <1>2 DEF WaitInv
      <3>2. m = n /\ k = l /\ u.client = w.client BY <2>2, <2>3, <3>1 DEF Waits
      <3> QED BY <2>1, <3>2
    <2>4. w.req \notin {u.req : u \in UNION {woken[k] : k \in Key}} BY <2>3
    <2>5. calls'[w.req] = calls[w.req] BY <1>1, <2>2, <2>4 DEF Wake
    <2> QED BY <2>1, <2>5
  <1> QED BY <1>4, <1>5, WaitStep

\* The victim of a deadlock leaves every queue of the node.
LEMMA DetectWaits ==
  ASSUME Typed, WaitInv, NEW n \in Node, Detect(n)
  PROVE  WaitInv'
  <1> DEFINE waiting(C) == {w \in UNION {ToSet(waiters[n][k]) : k \in Key} : w.client \in C}
  <1>1. PICK V : /\ waiters' = [waiters EXCEPT ![n] = [k \in Key |->
                                                       Unregistered(waiters[n][k], V)]]
                 /\ Wake({w.req : w \in waiting(V)})
    <2>1. PICK cycle \in CyclesFound(edges[n]) :
            LET victims == IF cycle = <<>> THEN {} ELSE {Last(cycle)} IN
            /\ waiters' = [waiters EXCEPT ![n] = [k \in Key |->
                                                    Unregistered(waiters[n][k], victims)]]
            /\ Wake({w.req : w \in waiting(victims)})
      BY DEF Detect
    <2> QED BY <2>1
  <1> PICK f : f = [k \in Key |-> Unregistered(waiters[n][k], V)] OBVIOUS
  <1>2. \A k \in Key : /\ f[k] \in Seq(Waiter)
                       /\ ToSet(f[k]) = {w \in ToSet(waiters[n][k]) : w.client \notin V}
    <2> SUFFICES ASSUME NEW k \in Key
                 PROVE  /\ f[k] \in Seq(Waiter)
                        /\ ToSet(f[k]) = {w \in ToSet(waiters[n][k]) : w.client \notin V}
      OBVIOUS
    <2> PICK q \in Seq(Waiter) : q = waiters[n][k] BY DEF WaitInv, Queues
    <2>1. f[k] = Unregistered(q, V) OBVIOUS
    <2> QED BY <2>1, UnregisteredLeaves
  <1>3. f \in [Key -> Seq(Waiter)] BY <1>2
  <1>4. /\ waiters' \in Queues
        /\ \A m \in Node : waiters'[m] = IF m = n THEN f ELSE waiters[m]
    <2>1. waiters' = [waiters EXCEPT ![n] = f] BY <1>1
    <2> QED BY <1>3, <2>1 DEF WaitInv, Queues
  <1>5. ASSUME NEW m \in Node, NEW l \in Key, NEW w \in ToSet(waiters'[m][l])
        PROVE  w \in ToSet(waiters[m][l]) /\ calls'[w.req] = calls[w.req]
    <2>1. w \in ToSet(waiters[m][l]) /\ (m = n => w.client \notin V)
      BY <1>2, <1>4, <1>5
    <2>2. Waits(w, m, l) /\ w.req \in Request
      BY <2>1, WaiterType DEF WaitInv, Waiter
    <2>3. ASSUME NEW u \in waiting(V), u.req = w.req PROVE FALSE
      <3>1. PICK k \in Key : u \in ToSet(waiters[n][k]) OBVIOUS
      <3>2. Waits(u, n, k) /\ u.client \in V BY <3>1 DEF WaitInv
      <3> QED BY <2>1, <2>2, <2>3, <3>2 DEF Waits
    <2>4. w.req \notin {u.req : u \in waiting(V)} BY <2>3
    <2> HIDE DEF waiting
    <2>5. calls'[w.req] = calls[w.req] BY <1>1, <2>2, <2>4 DEF Wake
    <2> QED BY <2>1, <2>5
  <1> QED BY <1>4, <1>5, WaitStep

LEMMA GiveUpWaits ==
  ASSUME Typed, WaitInv, NEW n \in Node, NEW r \in Request,
         At(calls[r], n), calls[r].pc = "timedout", GiveUp(n, r)
  PROVE  WaitInv'
  <1>0. calls[r] \in Live BY LiveCall DEF Pc
  <1>8. PICK k \in Key : k = calls[r].key BY <1>0 DEF Live
  <1> PICK q \in Seq(Waiter) : q = waiters[n][k] BY DEF WaitInv, Queues
  <1> PICK y : y = Unregistered(q, {calls[r].client}) OBVIOUS
  <1>1. waiters' = [waiters EXCEPT ![n][k] = y] BY <1>8 DEF GiveUp
  <1>2. y \in Seq(Waiter) /\ ToSet(y) = {w \in ToSet(q) : w.client \notin {calls[r].client}}
    BY UnregisteredLeaves
  <1>3. /\ waiters' \in Queues
        /\ \A m \in Node, l \in Key :
             waiters'[m][l] = IF m = n /\ l = k THEN y ELSE waiters[m][l]
    <2>1. waiters \in Queues BY DEF WaitInv
    <2>2. y \in Seq(Waiter) BY <1>2
    <2>3. waiters' = [waiters EXCEPT ![n][k] = y] BY <1>1
    <2>4. k \in Key OBVIOUS
    <2>5. waiters' \in Queues BY <2>1, <2>2, <2>3, <2>4 DEF Queues
    <2>6. \A m \in Node, l \in Key :
            waiters'[m][l] = IF m = n /\ l = k THEN y ELSE waiters[m][l]
      BY <2>1, <2>2, <2>3, <2>4 DEF Queues
    <2> QED BY <2>5, <2>6
  <1>4. \A s \in Request \ {r} : calls'[s] = calls[s] BY DEF GiveUp, Finish, Typed
  <1>5. ASSUME NEW m \in Node, NEW l \in Key, NEW w \in ToSet(waiters'[m][l])
        PROVE  w \in ToSet(waiters[m][l]) /\ calls'[w.req] = calls[w.req]
    <2>1. /\ w \in ToSet(waiters[m][l])
          /\ m = n /\ l = k => w.client # calls[r].client
      BY <1>2, <1>3, <1>5
    <2>2. Waits(w, m, l) /\ w.req \in Request
      BY <2>1, WaiterType DEF WaitInv, Waiter
    <2>3. w.req # r BY <1>8, <2>1, <2>2 DEF Waits, At
    <2> QED BY <1>4, <2>1, <2>2, <2>3
  <1> QED BY <1>3, <1>5, WaitStep

LEMMA TryAcquireWaits ==
  ASSUME Typed, WaitInv, NEW n \in Node, NEW r \in Request, NEW call \in Live,
         At(call, n), calls[r].pc \notin {"waiting", "timedout"}, NEW rest,
         TryAcquire(n, r, call, rest)
  PROVE  WaitInv'
  <1>1. CASE GrantAtOnce(n, r, call, rest)
    BY <1>1, OthersServed DEF GrantAtOnce
  <1>2. CASE Refuse(n, r, call, rest)
    <2>1. \/ waiters' = waiters /\ \E c : calls' = [calls EXCEPT ![r] = c]
          \/ Register(n, r, call)
      BY <1>2 DEF Refuse, Finish
    <2> QED BY <2>1, OthersServed, RegisterWaits
  <1> QED BY <1>1, <1>2 DEF TryAcquire

LEMMA EnterWaits ==
  ASSUME Typed, WaitInv, NEW n \in Node, NEW r \in Request, Enter(n, r)
  PROVE  WaitInv'
  <1>1. At(calls[r], n) BY DEF Enter, At
  <1>2. CASE calls[r].pc = "arriving" /\ TryAcquire(n, r, calls[r], Rest(n))
    <2>1. calls[r] \in Live BY <1>2, LiveCall DEF Pc
    <2> QED BY <1>1, <1>2, <2>1, TryAcquireWaits
  <1>3. CASE calls[r].pc = "refused" /\ Register(n, r, calls[r])
    <2>1. calls[r] \in Live BY <1>3, LiveCall DEF Pc
    <2> QED BY <1>1, <1>3, <2>1, RegisterWaits
  <1>4. CASE calls[r].pc = "woken" /\ Retry(n, r)
    <2>1. waiters' = waiters BY <1>4 DEF Retry, tableVars
    <2>2. \E c : calls' = [calls EXCEPT ![r] = c] BY <1>4 DEF Retry, Finish
    <2> QED BY <1>4, <2>1, <2>2, OthersServed
  <1>5. CASE calls[r].pc = "timedout" /\ GiveUp(n, r) BY <1>1, <1>5, GiveUpWaits
  <1> QED BY <1>2, <1>3, <1>4, <1>5 DEF Enter

LEMMA LoopsWaits ==
  ASSUME Typed, WaitInv, NEW n \in Node,
         Apply(n) \/ Detect(n) \/ Expire(n)
  PROVE  WaitInv'
  <1>1. CASE UNCHANGED <<waiters, calls>> BY <1>1, NobodyLeaves
  <1>2. CASE Apply(n)
    <2> PICK e : e = log[applied[n] + 1] OBVIOUS
    <2>1. applied[n] + 1 \in 1 .. Len(log) BY <1>2 DEF Apply, NextEntry, Typed, logVars
    <2>2. e \in Entry BY <2>1 DEF Typed
    <2>3. e.key \in Key BY <2>2 DEF Entry
    <2>4. \/ UNCHANGED <<waiters, calls>>
          \/ Notify(n, {e.key}, locks'[n])
      BY <1>2 DEF Apply, ApplyAcquire, ApplyRelease
    <2> QED BY <1>1, <2>3, <2>4, NotifyWaits
  <1>3. CASE Detect(n) BY <1>3, DetectWaits
  <1>4. CASE Expire(n)
    <2>1. \/ UNCHANGED <<waiters, calls>>
          \/ \E left : Notify(n, {k \in Key : left[k] # locks[n][k]}, left)
      BY <1>4 DEF Expire
    <2> QED BY <1>1, <2>1, NotifyWaits
  <1> QED BY <1>2, <1>3, <1>4

LEMMA WaitInvStep ==
  ASSUME Typed, WaitInv, [Next]_vars
  PROVE  WaitInv'
  <1>1. CASE UNCHANGED <<waiters, calls>> BY <1>1, NobodyLeaves
  <1>2. ASSUME NEW n \in Node, Apply(n) PROVE WaitInv' BY <1>2, LoopsWaits
  <1>3. ASSUME NEW n \in Node, Step(n) PROVE WaitInv'
    <2>1. ASSUME NEW r \in Request, NEW c \in Client, NEW k \in Key, NEW mode \in Mode,
                 NEW wait \in BOOLEAN, Acquire(n, r, c, k, mode, wait)
          PROVE  WaitInv'
      <3> PICK call : call = [pc |-> "arriving", node |-> n, client |-> c, key |-> k,
                              mode |-> mode, wait |-> wait]
        OBVIOUS
      <3>1. call \in Live /\ At(call, n) BY DEF Live, Pc, At
      <3>2. calls[r].pc \notin {"waiting", "timedout"} BY <2>1 DEF Acquire, Idle
      <3>3. \/ TryAcquire(n, r, call, <<>>)
            \/ waiters' = waiters /\ calls' = [calls EXCEPT ![r] = call]
        BY <2>1 DEF Acquire, tableVars
      <3> QED BY <3>1, <3>2, <3>3, TryAcquireWaits, OthersServed
    <2>2. ASSUME NEW r \in Request, Background(n, r) \/ Return(n, r) \/ Stick(n, r)
          PROVE  WaitInv'
      <3>1. calls[r].pc \notin {"waiting", "timedout"} /\ waiters' = waiters
        BY <2>2 DEF Background, Return, Stick, tableVars
      <3>2. \E c : calls' = [calls EXCEPT ![r] = c]
        BY <2>2 DEF Background, Return, Stick, Finish
      <3> QED BY <3>1, <3>2, OthersServed
    <2>3. ASSUME NEW r \in Request, Timeout(n, r) PROVE WaitInv'
      <3>1. calls' = [calls EXCEPT ![r].pc = "timedout"] /\ waiters' = waiters
        BY <2>3 DEF Timeout, tableVars
      <3>2. \A s \in Request : calls'[s] \in {calls[s], [calls[s] EXCEPT !.pc = "timedout"]}
        BY <3>1 DEF Typed
      <3> QED BY <3>1, <3>2, NobodyLeaves
    <2>4. CASE \/ \E c \in Client, k \in Key : Release(n, c, k)
               \/ \E x \in Request \cup {"expiry", "detector"} : QueueUp(n, x)
               \/ Replicate(n) \/ ChangeLeader(n)
      <3>1. UNCHANGED <<waiters, calls>>
        BY <2>4 DEF Release, QueueUp, Replicate, ChangeLeader, tableVars
      <3> QED BY <1>1, <3>1
    <2> QED BY <1>3, <2>1, <2>2, <2>3, <2>4, EnterWaits, LoopsWaits DEF Step
  <1> QED BY <1>1, <1>2, <1>3 DEF Next, vars, tableVars

\* The wait-for graph is one of clients.
GraphTyped == edges \in [Node -> SUBSET (Client \X Client)]

LEMMA RefuseGraph ==
  ASSUME Typed, GraphTyped, NEW n \in Node, NEW r, NEW call \in Live, NEW rest,
         TryAcquire(n, r, call, rest)
  PROVE  GraphTyped'
  <1>1. CASE edges' = edges BY <1>1 DEF GraphTyped
  <1>2. CASE edges' = [edges EXCEPT ![n] = AddWaits(@, call.client,
                                      {h.client : h \in Holders(locks[n][call.key])})]
    <2> PICK C : C = {h.client : h \in Holders(locks[n][call.key])} OBVIOUS
    <2>1. C \subseteq Client BY DEF Holders, Held
    <2>2. call.client \in Client BY DEF Live
    <2>3. AddWaits(edges[n], call.client, C) \subseteq Client \X Client
      BY <2>1, <2>2 DEF AddWaits, GraphTyped
    <2> QED BY <1>2, <2>3 DEF GraphTyped
  <1> QED BY <1>1, <1>2 DEF TryAcquire, GrantAtOnce, Refuse

LEMMA GraphStep ==
  ASSUME Typed, GraphTyped, [Next]_vars
  PROVE  GraphTyped'
  <1>1. CASE edges' = edges BY <1>1 DEF GraphTyped
  <1>2. ASSUME NEW n \in Node, NEW g, g \subseteq edges[n], edges' = [edges EXCEPT ![n] = g]
        PROVE  GraphTyped'
    BY <1>2 DEF GraphTyped
  <1>3. ASSUME NEW n \in Node, Apply(n) PROVE GraphTyped'
    <2>1. edges' = edges \/ \E c : edges' = [edges EXCEPT ![n] = RemoveClient(@, c)]
      BY <1>3 DEF Apply, ApplyAcquire, ApplyRelease
    <2>2. \A c : RemoveClient(edges[n], c) \subseteq edges[n] BY DEF RemoveClient
    <2> QED BY <1>1, <1>2, <2>1, <2>2
  <1>4. ASSUME NEW n \in Node, Step(n) PROVE GraphTyped'
    <2>1. ASSUME NEW r \in Request, NEW c \in Client, NEW k \in Key, NEW mode \in Mode,
                 NEW wait \in BOOLEAN, Acquire(n, r, c, k, mode, wait)
          PROVE  GraphTyped'
      <3> PICK call : call = [pc |-> "arriving", node |-> n, client |-> c, key |-> k,
                              mode |-> mode, wait |-> wait]
        OBVIOUS
      <3>1. call \in Live BY DEF Live, Pc
      <3>2. TryAcquire(n, r, call, <<>>) \/ edges' = edges
        BY <2>1 DEF Acquire, tableVars
      <3> QED BY <1>1, <3>1, <3>2, RefuseGraph
    <2>2. ASSUME NEW r \in Request, Enter(n, r) PROVE GraphTyped'
      <3>1. CASE calls[r].pc = "arriving" /\ TryAcquire(n, r, calls[r], Rest(n))
        <4>1. calls[r] \in Live BY <3>1, LiveCall DEF Pc
        <4> QED BY <3>1, <4>1, RefuseGraph
      <3>2. CASE edges' = edges BY <1>1, <3>2
      <3> QED BY <2>2, <3>1, <3>2 DEF Enter, Retry, GiveUp, tableVars
    <2>3. CASE Detect(n)
      <3>1. PICK cycle \in CyclesFound(edges[n]) :
              LET victims == IF cycle = <<>> THEN {} ELSE {Last(cycle)} IN
              edges' = [edges EXCEPT ![n] = {e \in edges[n] : {e[1], e[2]} \cap victims = {}}]
        BY <2>3 DEF Detect
      <3>2. \E V : edges' = [edges EXCEPT ![n] = {e \in edges[n] : {e[1], e[2]} \cap V = {}}]
        BY <3>1
      <3> QED BY <1>2, <3>2
    <2>4. CASE \/ \E c \in Client, k \in Key : Release(n, c, k)
               \/ \E r \in Request : \/ Background(n, r) \/ Timeout(n, r)
                                     \/ Return(n, r) \/ Stick(n, r)
               \/ \E x \in Request \cup {"expiry", "detector"} : QueueUp(n, x)
               \/ Expire(n) \/ Replicate(n) \/ ChangeLeader(n)
      <3>1. edges' = edges
        BY <2>4 DEF Release, Background, Timeout, Return, Stick, QueueUp, Expire,
                    Replicate, ChangeLeader, tableVars
      <3> QED BY <1>1, <3>1
    <2> QED BY <1>4, <2>1, <2>2, <2>3, <2>4 DEF Step
  <1> QED BY <1>1, <1>3, <1>4 DEF Next, vars, tableVars
-----------------------------------------------------------------------------
LockInv == Typed /\ LineInv /\ WaitInv /\ GraphTyped

\* In every reachable state self._lock, the waiters and the coroutines that
\* wait fit together (lock_manager.py:175-210).
THEOREM LockInvariant == Spec => []LockInv
  <1>1. Init => LockInv
    <2> SUFFICES ASSUME Init PROVE LockInv OBVIOUS
    <2>1. Typed BY InitTyped
    <2>2. ToSet(<<>>) = {} BY DEF ToSet
    <2>3. LineInv
      <3>1. \A n \in Node : Holder(n, None) BY DEF Init, Holder, Idle, Holding
      <3>2. \A n \in Node : line[n] = <<>> /\ mutex[n] = None BY DEF Init
      <3>3. Once(<<>>) /\ <<>> \in Seq(Lined) /\ \A n : Queued(<<>>, n)
        BY <2>2 DEF Once, Queued
      <3>4. line \in [Node -> Seq(Lined)] /\ mutex \in [Node -> Request \cup {None}]
        BY <3>3 DEF Init
      <3> QED BY <3>1, <3>2, <3>3, <3>4 DEF LineInv
    <2>4. WaitInv BY <2>2 DEF Init, WaitInv, Queues
    <2>5. GraphTyped BY DEF Init, GraphTyped
    <2> QED BY <2>1, <2>3, <2>4, <2>5 DEF LockInv
  <1>2. LockInv /\ [Next]_vars => LockInv'
    BY StepTyped, LineInvStep, WaitInvStep, GraphStep DEF LockInv
  <1> QED BY <1>1, <1>2, PTL DEF Spec

\* self._lock of a node is held across a wait by the one coroutine that
\* proposes, and nobody is in line for it twice or for another node's, for any
\* number of nodes, clients and requests (lock_manager.py:175-210).
THEOREM LockTypeCorrect == Spec => []TypeOK
  <1>1. LockInv => TypeOK
    <2> SUFFICES ASSUME LockInv PROVE TypeOK OBVIOUS
    <2>1. LineOK
      BY DEF LockInv, LineInv, LineOK, Once, Queued, Holder, Holding, InLine
    <2>2. line \in [Node -> Seq(Request \cup {"apply", "expiry", "detector"})]
      BY DEF LockInv, LineInv, Lined
    <2>3. \A n \in Node : edges[n] \subseteq Client \X Client BY DEF LockInv, GraphTyped
    <2> QED BY <2>1, <2>2, <2>3 DEF LockInv, TypeOK
  <1> QED BY <1>1, LockInvariant, PTL

\* Whoever is registered as a waiter of a key still waits for it, or has timed
\* out and not yet left: no wake-up is spent on a request that was answered (lock_manager.py:197, 208, 260, 294-297).
THEOREM WaitersWait == Spec => []NoGhostWaiter
  <1>1. LockInv => NoGhostWaiter BY DEF LockInv, WaitInv, Waits, NoGhostWaiter
  <1> QED BY <1>1, LockInvariant, PTL

LEMMA LocksOfOne ==
  ASSUME Typed, NEW n, NEW k, NEW t, locks' = [locks EXCEPT ![n][k] = t]
  PROVE  \A m \in Node : m # n => locks'[m] = locks[m]
  BY DEF Typed

\* Locks change on a node whose mutex is free, and on no other.
LEMMA OneNodesLocks ==
  ASSUME Typed, NEW n \in Node, Step(n) \/ Apply(n), locks' # locks
  PROVE  mutex[n] = None /\ \A m \in Node : m # n => locks'[m] = locks[m]
  <1>1. ASSUME NEW r, NEW call, NEW rest, TryAcquire(n, r, call, rest)
        PROVE  \A m \in Node : m # n => locks'[m] = locks[m]
    <2>1. GrantAtOnce(n, r, call, rest) BY <1>1 DEF TryAcquire, Refuse
    <2>2. \E t : locks' = [locks EXCEPT ![n][call.key] = t] BY <2>1 DEF GrantAtOnce
    <2> QED BY <2>2, LocksOfOne
  <1>2. CASE Apply(n)
    <2> PICK e : e = log[applied[n] + 1] OBVIOUS
    <2>1. mutex[n] = None BY <1>2 DEF Apply, Enters
    <2>2. \E t : locks' = [locks EXCEPT ![n][e.key] = t]
      BY <1>2 DEF Apply, ApplyAcquire, ApplyRelease
    <2> QED BY <2>1, <2>2, LocksOfOne
  <1>3. CASE Expire(n)
    <2>1. locks' = locks \/ \E left : locks' = [locks EXCEPT ![n] = left]
      BY <1>3 DEF Expire
    <2> QED BY <1>3, <2>1 DEF Expire, Enters, Typed
  <1>4. ASSUME NEW r \in Request, Enter(n, r)
        PROVE  mutex[n] = None /\ \A m \in Node : m # n => locks'[m] = locks[m]
    <2>1. TryAcquire(n, r, calls[r], Rest(n))
      BY <1>4 DEF Enter, Retry, GiveUp, tableVars
    <2> QED BY <1>1, <1>4, <2>1 DEF Enter, Enters
  <1>5. ASSUME NEW r \in Request, NEW c \in Client, NEW k \in Key, NEW mode \in Mode,
               NEW wait \in BOOLEAN, Acquire(n, r, c, k, mode, wait)
        PROVE  mutex[n] = None /\ \A m \in Node : m # n => locks'[m] = locks[m]
    <2> PICK call : call = [pc |-> "arriving", node |-> n, client |-> c, key |-> k,
                            mode |-> mode, wait |-> wait]
      OBVIOUS
    <2>1. Free(n) /\ TryAcquire(n, r, call, <<>>) BY <1>5 DEF Acquire, tableVars
    <2> QED BY <1>1, <2>1 DEF Free
  <1> QED BY <1>2, <1>3, <1>4, <1>5
     DEF Step, Release, Background, Timeout, Return, Stick, QueueUp, Replicate, Detect,
         ChangeLeader, tableVars

\* The locks of a node stay as they are while a coroutine waits with
\* self._lock in its hands (lock_manager.py:201-203).
THEOREM WaitsGuardLocks == Spec => LocksGuarded
  <1> DEFINE Guarded == \A n \in Node : mutex[n] # None /\ mutex'[n] # None
                                          => locks'[n] = locks[n]
  <1>1. Typed /\ [Next]_vars => [Guarded]_vars
    <2> SUFFICES ASSUME Typed, Next, NEW m \in Node, mutex[m] # None
                 PROVE  locks'[m] = locks[m]
      BY Zenon
    <2>1. CASE locks' = locks BY <2>1
    <2>2. CASE locks' # locks
      <3>1. PICK n \in Node : Step(n) \/ Apply(n) BY DEF Next
      <3>2. m # n BY <2>2, <3>1, OneNodesLocks
      <3> QED BY <2>2, <3>1, <3>2, OneNodesLocks
    <2> QED BY <2>1, <2>2
  <1>2. LockInv => Typed BY DEF LockInv
  <1> QED BY <1>1, <1>2, LockInvariant, PTL DEF Spec, LocksGuarded

-----------------------------------------------------------------------------
\* The search for a deadlock returns a cycle if there is one and None if there
\* is none, in every finite graph (lock_manager.py:60-84).
THEOREM CyclesAreFound == Spec => []HasCycleRight
  <1>1. HasCycleRight BY GraphConstantsOK, SearchIsRight DEF HasCycleRight
  <1> QED BY <1>1, PTL

\* The detector aborts the requests of one client at most, and of one that waits
\* for itself, directly or through others; and it leaves no graph that has a
\* cycle as it is (lock_manager.py:283-300).
THEOREM DeadlocksAreBroken == Spec => DeadlocksBroken
  <1>1. ASSUME LockInv, NEW n \in Node, Detect(n) PROVE BreaksDeadlock(n)
    <2> PICK graph \in SUBSET (Client \X Client) : graph = edges[n]
      BY <1>1 DEF LockInv, GraphTyped
    <2>1. FindsCycles(graph, Client) BY GraphConstantsOK, SearchIsRight
    <2>2. PICK cycle \in CyclesFound(graph) :
            LET victims == IF cycle = <<>> THEN {} ELSE {Last(cycle)} IN
            /\ waiters' = [waiters EXCEPT ![n] = [k \in Key |->
                                                    Unregistered(waiters[n][k], victims)]]
            /\ edges' = [edges EXCEPT ![n] = {e \in edges[n] : {e[1], e[2]} \cap victims = {}}]
      BY <1>1 DEF Detect
    <2> PICK victims : victims = IF cycle = <<>> THEN {} ELSE {Last(cycle)} OBVIOUS
    <2>3. cycle \in Seq(Client) BY GraphConstantsOK, CyclesTyped
    <2>4. (cycle # <<>> <=> HasACycle(graph, Client)) /\ IsCycle(cycle, graph)
      BY <2>1, <2>2 DEF FindsCycles
    <2>5. Aborted(n) \subseteq victims
      <3> SUFFICES ASSUME NEW k \in Key, NEW w \in ToSet(waiters[n][k]),
                          w \notin ToSet(waiters'[n][k])
                   PROVE  w.client \in victims
        BY DEF Aborted
      <3> PICK q \in Seq(Waiter) : q = waiters[n][k] BY <1>1 DEF LockInv, WaitInv, Queues
      <3>1. waiters'[n][k] = Unregistered(q, victims)
        BY <1>1, <2>2 DEF LockInv, WaitInv, Queues
      <3>2. ToSet(waiters'[n][k]) = {u \in ToSet(q) : u.client \notin victims}
        BY <3>1, UnregisteredLeaves
      <3> QED BY <3>2
    <2>6. edges'[n] = {e \in graph : {e[1], e[2]} \cap victims = {}}
      BY <1>1, <2>2 DEF LockInv, GraphTyped
    <2>7. CASE cycle = <<>>
      <3>1. Aborted(n) = {} BY <2>5, <2>7
      <3>2. ~ HasACycle(edges[n], Client) BY <2>4, <2>7
      <3> QED BY <3>1, <3>2 DEF BreaksDeadlock
    <2>8. CASE cycle # <<>>
      <3>1. /\ ReachesItself(Last(cycle), graph, Client)
            /\ <<Last(cycle), cycle[1]>> \in graph
        BY <2>3, <2>4, <2>8, CycleReaches
      <3>2. victims = {Last(cycle)} BY <2>8
      <3> PICK e : e = <<Last(cycle), cycle[1]>> OBVIOUS
      <3>3. e \in edges[n] /\ e[1] = Last(cycle) BY <3>1
      <3>4. e \notin edges'[n] BY <2>6, <3>2, <3>3
      <3>5. edges'[n] # edges[n] BY <3>3, <3>4
      <3> QED BY <2>5, <3>1, <3>2, <3>5 DEF BreaksDeadlock
    <2> QED BY <2>7, <2>8
  <1> DEFINE AllBroken == \A n \in Node : Detect(n) => BreaksDeadlock(n)
  <1>2. LockInv /\ [Next]_vars => [AllBroken]_vars BY <1>1
  <1> QED BY <1>2, LockInvariant, PTL DEF Spec, DeadlocksBroken
=============================================================================
