---------------------------- MODULE LockManager ----------------------------
(***************************************************************************)
(* The lock service: class LockManagerNode and its WaitForGraph, in        *)
(* src/src/nodes/lock_manager.py, on every node, over Consensus.           *)
(*                                                                         *)
(* Each node guards its tables with self._lock, an asyncio.Lock: `mutex'   *)
(* is the coroutine that has it while it waits for something, `line' the   *)
(* coroutines queued for it, in order.  A critical section that does not   *)
(* wait for anything is one step.  Applying an entry needs the lock, too.  *)
(* Time is left out: a lock in a table may expire, and a waiter time out,  *)
(* at any moment.                                                          *)
(***************************************************************************)
EXTENDS Consensus, WaitForGraph, Lists

CONSTANTS
  Client, Key, None,
  Request,      \* bound: acquire requests served at the same time
  MaxRequests,  \* bound: requests of clients
  MaxFaults     \* bound: rounds in which locks expire, or in which a waiter's
                \* proposal fails

ASSUME LockConstantsOK ==
  /\ None \notin Client \cup Key \cup Request
  /\ {"apply", "expiry", "detector"} \cap Request = {}
  /\ MaxRequests \in Nat /\ MaxFaults \in Nat

VARIABLES
  locks,     \* _locks: how many entries of each client and mode a key has
  waiters,   \* _waiters of each key, in order
  edges,     \* _wait_for_graph, as a set of pairs
  mutex, line,
  calls,     \* the coroutines that serve an acquire request
  granted,   \* what clients were told they have acquired, and have not
             \* asked to be released since nor had expire: on which node, in
             \* which way, and how much of the log it had applied by then
  requests, faults

tableVars == <<locks, waiters, edges>>
vars == <<consensusVars, tableVars, mutex, line, calls, granted, requests, faults>>

Mode == {"S", "X"}
Held == [client : Client, mode : Mode]      \* a LockEntry
Idle == [pc |-> "idle", node |-> None, client |-> None, key |-> None,
         mode |-> None, wait |-> FALSE]

Init ==
  /\ ConsensusInit
  /\ locks = [n \in Node |-> [k \in Key |-> [h \in Held |-> 0]]]
  /\ waiters = [n \in Node |-> [k \in Key |-> <<>>]]
  /\ edges = [n \in Node |-> {}]
  /\ mutex = [n \in Node |-> None]
  /\ line = [n \in Node |-> <<>>]
  /\ calls = [r \in Request |-> Idle]
  /\ granted = {}
  /\ requests = 0 /\ faults = 0

-----------------------------------------------------------------------------
(***************************************************************************)
(* asyncio.Lock: granted in the order of the calls                         *)
(***************************************************************************)
Free(n) == mutex[n] = None /\ line[n] = <<>>
Barges(n, x) == line[n] # <<>> => Head(line[n]) = x      \* mutant of Enters
Enters(n, x) == mutex[n] = None /\ (line[n] # <<>> => Head(line[n]) = x)
Rest(n) == IF line[n] = <<>> THEN <<>> ELSE Tail(line[n])

\* A node that has entries to apply and may do so does nothing else
Quiet(n) == applied[n] < commit[n] => line[n] # <<>>

-----------------------------------------------------------------------------
(***************************************************************************)
(* The tables                                                              *)
(***************************************************************************)
Holders(table) == {h \in Held : table[h] > 0}

SharedUnchecked(table, c, mode) ==                       \* mutant of CanAcquire
  \/ \A h \in Holders(table) : h.client = c
  \/ mode = "S"

\* _can_acquire
CanAcquire(table, c, mode) ==
  \/ \A h \in Holders(table) : h.client = c
  \/ mode = "S" /\ \A h \in Holders(table) : h.mode = "S"

With(table, c, mode) == [table EXCEPT ![[client |-> c, mode |-> mode]] = @ + 1]

ReleasedForAll(table, c) == [h \in Held |-> 0]           \* mutant of Released
Released(table, c) == [h \in Held |-> IF h.client = c THEN 0 ELSE table[h]]

\* Whom _notify_waiters wakes, if anyone: the first that could have the lock
Woken(n, k, table) ==
  LET could == {i \in DOMAIN waiters[n][k] :
                  CanAcquire(table, waiters[n][k][i].client, waiters[n][k][i].mode)}
  IN {waiters[n][k][i] : i \in {j \in could : \A l \in could : j <= l}}

\* event.set()
Wake(R) ==
  calls' = [r \in Request |-> IF r \in R /\ calls[r].pc = "waiting"
                              THEN [calls[r] EXCEPT !.pc = "woken"] ELSE calls[r]]

Unregistered(q, C) == Without(q, {w \in ToSet(q) : w.client \in C})

\* _notify_waiters for each of the keys K, with the tables as they are now
Notify(n, K, tables) ==
  LET woken(k) == IF k \in K THEN Woken(n, k, tables[k]) ELSE {} IN
  /\ waiters' = [waiters EXCEPT ![n] =
                   [k \in Key |-> Unregistered(@[k], {w.client : w \in woken(k)})]]
  /\ Wake({w.req : w \in UNION {woken(k) : k \in Key}})

-----------------------------------------------------------------------------
(***************************************************************************)
(* Requests                                                                *)
(***************************************************************************)
Grant(call, how) ==
  granted' = granted \cup
    {[client |-> call.client, key |-> call.key, mode |-> call.mode, node |-> call.node,
      how |-> how, seen |-> applied[call.node]]}

Command(op, call) ==
  [op |-> op, client |-> call.client, key |-> call.key, mode |-> call.mode]

Register(n, r, call) ==
  /\ waiters' = [waiters EXCEPT ![n][call.key] =
                   Append(@, [client |-> call.client, mode |-> call.mode, req |-> r])]
  /\ calls' = [calls EXCEPT ![r] = [call EXCEPT !.pc = "waiting"]]

Finish(r) == calls' = [calls EXCEPT ![r] = Idle]

\* _try_acquire from line 175 on, with `rest' queued for the lock behind it.
\* Granted at once: the entry is in the table before it is proposed, by a task
\* of its own.
GrantAtOnce(n, r, call, rest) ==
  /\ CanAcquire(locks[n][call.key], call.client, call.mode)
  /\ locks' = [locks EXCEPT ![n][call.key] = With(@, call.client, call.mode)]
  /\ Grant(call, "atOnce")
  /\ calls' = [calls EXCEPT ![r] = [call EXCEPT !.pc = "answered"]]
  /\ line' = [line EXCEPT ![n] = rest]
  /\ UNCHANGED <<consensusVars, waiters, edges>>

\* Refused: answered, or registered as a waiter, for which the lock is taken
\* a second time
Refuse(n, r, call, rest) ==
  /\ ~CanAcquire(locks[n][call.key], call.client, call.mode)
  /\ edges' = [edges EXCEPT ![n] = AddWaits(@, call.client,
                                     {h.client : h \in Holders(locks[n][call.key])})]
  /\ IF call.wait /\ rest # <<>>
     THEN /\ calls' = [calls EXCEPT ![r] = [call EXCEPT !.pc = "refused"]]
          /\ line' = [line EXCEPT ![n] = Append(rest, r)]
          /\ UNCHANGED waiters
     ELSE /\ IF call.wait THEN Register(n, r, call) ELSE Finish(r) /\ UNCHANGED waiters
          /\ line' = [line EXCEPT ![n] = rest]
  /\ UNCHANGED <<consensusVars, locks, granted>>

TryAcquire(n, r, call, rest) ==
  GrantAtOnce(n, r, call, rest) \/ Refuse(n, r, call, rest)

Counted == requests < MaxRequests /\ requests' = requests + 1
Fault == faults < MaxFaults /\ faults' = faults + 1

\* _handle_acquire on the leader, up to its first wait
Acquire(n, r, c, k, mode, wait) ==
  LET call == [pc |-> "arriving", node |-> n, client |-> c, key |-> k,
               mode |-> mode, wait |-> wait] IN
  /\ n = leader
  /\ Counted
  /\ calls[r] = Idle
  /\ IF Free(n) THEN TryAcquire(n, r, call, <<>>)
     ELSE /\ calls' = [calls EXCEPT ![r] = call]
          /\ line' = [line EXCEPT ![n] = Append(@, r)]
          /\ UNCHANGED <<consensusVars, tableVars, granted>>
  /\ UNCHANGED <<mutex, faults>>

\* The task of a grant proposes it, or finds that its node does not lead
Background(n, r) ==
  /\ calls[r].node = n /\ calls[r].pc = "answered"
  /\ IF n = leader THEN Append1(Command("acquire", calls[r])) ELSE UNCHANGED consensusVars
  /\ Finish(r)
  /\ UNCHANGED <<tableVars, mutex, line, granted, requests, faults>>

\* _handle_release on the leader: what it does after propose() changes nothing
Release(n, c, k) ==
  /\ n = leader
  /\ Counted
  /\ Append1([op |-> "release", client |-> c, key |-> k, mode |-> None])
  /\ granted' = {g \in granted : ~(g.client = c /\ g.key = k)}
  /\ UNCHANGED <<tableVars, mutex, line, calls, faults>>

\* wait_for gives up before the event is set
Timeout(n, r) ==
  /\ calls[r].node = n /\ calls[r].pc = "waiting"
  /\ calls' = [calls EXCEPT ![r].pc = "timedout"]
  /\ UNCHANGED <<consensusVars, tableVars, mutex, line, granted, requests, faults>>

OverlapsItself(n, x) ==                                  \* mutant of QueueUp
  /\ ~Free(n) /\ x \notin Request
  /\ line' = [line EXCEPT ![n] = Append(@, x)]
  /\ UNCHANGED <<consensusVars, tableVars, mutex, calls, granted, requests, faults>>

\* A coroutine of the node finds the lock taken
QueueUp(n, x) ==
  /\ ~Free(n)
  /\ x \notin ToSet(line[n])
  /\ x \in Request => calls[x].node = n /\ calls[x].pc \in {"woken", "timedout"}
  /\ line' = [line EXCEPT ![n] = Append(@, x)]
  /\ UNCHANGED <<consensusVars, tableVars, mutex, calls, granted, requests, faults>>

\* Lines 201-205: a waiter that was woken looks again, and proposes with the
\* lock in its hands.  propose() returns at once if the node does not lead.
Retry(n, r) ==
  /\ IF ~CanAcquire(locks[n][calls[r].key], calls[r].client, calls[r].mode)
     THEN Finish(r) /\ UNCHANGED <<consensusVars, mutex, granted>>
     ELSE IF n # leader
     THEN Finish(r) /\ Grant(calls[r], "woken") /\ UNCHANGED <<consensusVars, mutex>>
     ELSE /\ Append1(Command("acquire", calls[r]))
          /\ mutex' = [mutex EXCEPT ![n] = r]
          /\ calls' = [calls EXCEPT ![r].pc = "proposing"]
          /\ UNCHANGED granted
  /\ UNCHANGED tableVars

StillRegistered(n, r) ==                                 \* mutant of GiveUp
  Finish(r) /\ UNCHANGED <<consensusVars, tableVars, mutex, granted>>

\* Lines 207-210
GiveUp(n, r) ==
  /\ waiters' = [waiters EXCEPT ![n][calls[r].key] = Unregistered(@, {calls[r].client})]
  /\ Finish(r)
  /\ UNCHANGED <<consensusVars, locks, edges, mutex, granted>>

\* The coroutine of a request gets the lock
Enter(n, r) ==
  /\ calls[r].node = n /\ Enters(n, r)
  /\ \/ /\ calls[r].pc = "arriving"
        /\ TryAcquire(n, r, calls[r], Rest(n))
        /\ UNCHANGED mutex
     \/ /\ line' = [line EXCEPT ![n] = Rest(n)]
        /\ \/ /\ calls[r].pc = "refused"
              /\ Register(n, r, calls[r])
              /\ UNCHANGED <<consensusVars, locks, edges, mutex, granted>>
           \/ calls[r].pc = "woken" /\ Retry(n, r)
           \/ calls[r].pc = "timedout" /\ GiveUp(n, r)
  /\ UNCHANGED <<requests, faults>>

\* propose() of a waiter returns: its entry was committed by another
\* coroutine, or its round failed; the answer is the same
Return(n, r) ==
  /\ calls[r].node = n /\ calls[r].pc = "proposing"
  /\ IF n = leader /\ commit[n] < Len(log) THEN Fault ELSE UNCHANGED faults
  /\ Grant(calls[r], "woken")
  /\ mutex' = [mutex EXCEPT ![n] = None]
  /\ Finish(r)
  /\ UNCHANGED <<consensusVars, tableVars, line, requests>>

\* The round of the waiter itself commits: it applies entries, for which it
\* needs the lock that it holds, and never returns
Stick(n, r) ==
  /\ calls[r].node = n /\ calls[r].pc = "proposing"
  /\ Commit(n)
  /\ calls' = [calls EXCEPT ![r].pc = "stuck"]
  /\ line' = [line EXCEPT ![n] = Append(@, "apply")]
  /\ UNCHANGED <<tableVars, mutex, granted, requests, faults>>

-----------------------------------------------------------------------------
(***************************************************************************)
(* apply_command and the background loops                                  *)
(***************************************************************************)
\* Any other round commits, and goes on to apply
Replicate(n) ==
  /\ Commit(n) \/ Learn(n)
  /\ line' = [line EXCEPT ![n] = IF Free(n) THEN @ ELSE Append(@, "apply")]
  /\ UNCHANGED <<tableVars, mutex, calls, granted, requests, faults>>

ApplyAcquire(n, e) ==
  /\ IF CanAcquire(locks[n][e.key], e.client, e.mode)
     THEN /\ locks' = [locks EXCEPT ![n][e.key] = With(@, e.client, e.mode)]
          /\ edges' = [edges EXCEPT ![n] = RemoveClient(@, e.client)]
     ELSE UNCHANGED <<locks, edges>>
  /\ UNCHANGED <<waiters, calls>>

ApplyRelease(n, e) ==
  /\ locks' = [locks EXCEPT ![n][e.key] = Released(@, e.client)]
  /\ edges' = [edges EXCEPT ![n] = RemoveClient(@, e.client)]
  /\ Notify(n, {e.key}, locks'[n])

\* An entry is applied; its coroutine queues again for the next one, unless
\* others in the line have taken all there are
Apply(n) ==
  LET e == log[applied[n] + 1]
      rest == Rest(n)
      claimed == Cardinality({i \in DOMAIN rest : rest[i] = "apply"})
  IN
  /\ Enters(n, "apply")
  /\ NextEntry(n)
  /\ \/ e.op = "acquire" /\ ApplyAcquire(n, e)
     \/ e.op = "release" /\ ApplyRelease(n, e)
  /\ line' = [line EXCEPT ![n] = IF rest # <<>> /\ commit[n] - applied[n] - 1 > claimed
                                 THEN Append(rest, "apply") ELSE rest]
  /\ UNCHANGED <<mutex, granted, requests, faults>>

Fewer(table) ==
  {[h \in Held |-> IF h \in Holders(table) THEN kept[h] ELSE 0] :
     kept \in {f \in [Holders(table) -> UNION {0 .. table[h] : h \in Holders(table)}] :
                \A h \in Holders(table) : f[h] <= table[h]}}

\* What may be left of the tables of all keys
Remaining(tables) ==
  {left \in [Key -> UNION {Fewer(tables[k]) : k \in Key}] :
     \A k \in Key : left[k] \in Fewer(tables[k])}

\* One round of _expiry_loop: of every key, the locks that are too old by this
\* node's clock
Expire(n) ==
  /\ Enters(n, "expiry")
  /\ \/ UNCHANGED <<locks, waiters, calls, granted, faults>>
     \/ /\ Fault
        /\ \E left \in Remaining(locks[n]) \ {locks[n]} :
             /\ locks' = [locks EXCEPT ![n] = left]
             /\ Notify(n, {k \in Key : left[k] # locks[n][k]}, left)
             /\ granted' = {g \in granted :
                  LET h == [client |-> g.client, mode |-> g.mode]
                  IN g.node = n => left[g.key][h] = locks[n][g.key][h]}
  /\ line' = [line EXCEPT ![n] = Rest(n)]
  /\ UNCHANGED <<consensusVars, edges, mutex, requests>>

\* _deadlock_detection_loop: the victim is woken wherever it waits
Detect(n) ==
  LET waiting(C) == {w \in UNION {ToSet(waiters[n][k]) : k \in Key} : w.client \in C}
  IN
  /\ Enters(n, "detector")
  /\ UNCHANGED <<consensusVars, locks, mutex, granted, requests, faults>>
  /\ line' = [line EXCEPT ![n] = Rest(n)]
  /\ \E cycle \in CyclesFound(edges[n]) :
       LET victims == IF cycle = <<>> THEN {} ELSE {Last(cycle)} IN
       /\ waiters' = [waiters EXCEPT ![n] = [k \in Key |-> Unregistered(@[k], victims)]]
       /\ Wake({w.req : w \in waiting(victims)})
       /\ edges' = [edges EXCEPT ![n] = {e \in @ : {e[1], e[2]} \cap victims = {}}]

\* The heartbeat task of the old leader is cancelled.  If it waits for the
\* lock, its entry is never applied there.  (Only the case where its entry is
\* the next one: it is the first in the line that applies entries.)
ChangeLeader(n) ==
  /\ Failover(n)
  /\ \/ UNCHANGED <<applied, line>>
     \/ \E i \in DOMAIN line[leader] :
          /\ line[leader][i] = "apply" /\ "apply" \notin ToSet(SubSeq(line[leader], 1, i - 1))
          /\ applied[leader] < commit[leader]
          /\ \A r \in Request : calls[r].node = leader => calls[r].pc # "stuck"
          /\ line' = [line EXCEPT ![leader] = RemoveAt(@, i)]
          /\ applied' = [applied EXCEPT ![leader] = @ + 1]
  /\ UNCHANGED <<tableVars, mutex, calls, granted, requests, faults>>

-----------------------------------------------------------------------------
Step(n) ==
  \/ \E r \in Request, c \in Client, k \in Key, mode \in Mode, wait \in BOOLEAN :
       Acquire(n, r, c, k, mode, wait)
  \/ \E c \in Client, k \in Key : Release(n, c, k)
  \/ \E r \in Request :
       Background(n, r) \/ Timeout(n, r) \/ Enter(n, r) \/ Return(n, r) \/ Stick(n, r)
  \/ \E x \in Request \cup {"expiry", "detector"} : QueueUp(n, x)
  \/ Expire(n) \/ Replicate(n) \/ Detect(n) \/ ChangeLeader(n)

Next == \E n \in Node : (Quiet(n) /\ Step(n)) \/ Apply(n)

Spec == Init /\ [][Next]_vars
=============================================================================
