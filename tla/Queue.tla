------------------------------- MODULE Queue -------------------------------
(***************************************************************************)
(* The replicated queue: class QueueNode of src/src/nodes/queue_node.py    *)
(* on every node, over Consensus.                                          *)
(*                                                                         *)
(* A handler is one coroutine: it looks at the node's own state, proposes  *)
(* a command, and goes on when propose() returns.  What it saw may be      *)
(* stale by then, and by the time its command is applied.  The two         *)
(* background loops do the same for a whole batch of messages, one by one. *)
(* Time is left out: a message in flight at the leader may become overdue  *)
(* (ack_timeout) at any moment, a queued one may have outlived its TTL.    *)
(***************************************************************************)
EXTENDS Consensus, FiniteSets, SequencesExt

CONSTANTS
  Message,      \* the messages, each enqueued at most once (msg_id is a uuid4)
  Consumer,     \* the clients that dequeue, one call at a time each
  None,
  Key, KeyOf,   \* the key of each message
  MaxSize,      \* max_size
  MaxRequests,  \* bound: requests of clients, and messages that expire
  MaxFailures   \* bound: proposals that are answered False

ASSUME QueueConstantsOK ==
  /\ KeyOf \in [Message -> Key]
  /\ None \notin Consumer \cup Key
  /\ MaxSize \in Nat /\ MaxRequests \in Nat /\ MaxFailures \in Nat

VARIABLES
  queue,     \* _queue of each node, in order
  inFlight,  \* _in_flight of each node
  count,     \* delivery_count of each message at each node
  overdue,   \* messages in flight longer than ack_timeout
  batch,     \* what each background loop still has to propose
  calls,     \* the coroutines that wait for propose(), with the position of
             \* their entry; 0 if their node was deposed before it committed it
  sent,      \* messages whose enqueue was proposed
  accepted,  \* messages whose producer was answered "enqueued"
  held,      \* deliveries a consumer has and has neither acked nor nacked
  requests, failures

nodeVars   == <<queue, inFlight, count, overdue>>
clientVars == <<sent, accepted, held, requests>>
vars == <<consensusVars, nodeVars, batch, calls, clientVars, failures>>

Loop == {"nack", "expire"}     \* what _redelivery_loop, _ttl_cleanup_loop propose

Init ==
  /\ ConsensusInit
  /\ queue = [n \in Node |-> <<>>]
  /\ inFlight = [n \in Node |-> {}]
  /\ count = [n \in Node |-> [m \in Message |-> 0]]
  /\ overdue = [n \in Node |-> {}]
  /\ batch = [n \in Node |-> [l \in Loop |-> {}]]
  /\ calls = {} /\ sent = {} /\ accepted = {} /\ held = {}
  /\ requests = 0 /\ failures = 0

-----------------------------------------------------------------------------
\* await self.propose(...) on the leader: append, and wait
Propose(op, m, by) ==
  /\ Settled(leader)
  /\ Append1([op |-> op, msg |-> m, by |-> by])
  /\ calls' = calls \cup
       {[node |-> leader, op |-> op, msg |-> m, by |-> by, index |-> Len(log) + 1]}

Request ==
  /\ requests < MaxRequests
  /\ requests' = requests + 1

Idle(w) == \A c \in calls : c.by # w

Full(n) == Len(queue[n]) >= MaxSize

\* _handle_enqueue, if the queue is not full as far as this node knows
Enqueue(m) ==
  /\ Request
  /\ m \notin sent
  /\ ~Full(leader)
  /\ Propose("enqueue", m, None)
  /\ sent' = sent \cup {m}
  /\ UNCHANGED <<nodeVars, batch, accepted, held, failures>>

\* _pick_message
Picked(n, filter) ==
  LET fits == {i \in DOMAIN queue[n] : filter \in {None, KeyOf[queue[n][i]]}}
  IN {queue[n][i] : i \in {k \in fits : \A j \in fits : k <= j}}

\* _handle_dequeue up to its await; with nothing to pick it changes nothing
Dequeue(w, filter) ==
  /\ Request
  /\ Idle(w)
  /\ \E m \in Picked(leader, filter) : Propose("dequeue", m, w)
  /\ UNCHANGED <<nodeVars, batch, sent, accepted, held, failures>>

\* _handle_ack and _handle_nack up to their await, for a message the client
\* was given
Answer(w, d, op) ==
  /\ Request
  /\ Idle(w)
  /\ d \in held /\ d.by = w
  /\ op \in {"ack", "nack"}
  /\ Propose(op, d.msg, w)
  /\ UNCHANGED <<nodeVars, batch, sent, accepted, held, failures>>

-----------------------------------------------------------------------------
TakenBackAtOnce(m) ==                                    \* mutant of AckTimeout
  /\ Settled(leader)
  /\ m \in inFlight[leader]
  /\ inFlight' = [inFlight EXCEPT ![leader] = @ \ {m}]
  /\ queue' = [queue EXCEPT ![leader] = <<m>> \o @]
  /\ UNCHANGED <<consensusVars, count, overdue, batch, calls, clientVars, failures>>

\* A message has been in flight for ack_timeout by the leader's clock
AckTimeout(m) ==
  /\ Settled(leader)
  /\ m \in inFlight[leader] \ overdue[leader]
  /\ overdue' = [overdue EXCEPT ![leader] = @ \cup {m}]
  /\ UNCHANGED <<consensusVars, queue, inFlight, count, batch, calls, clientVars, failures>>

DueInQueue(n, loop) ==                                   \* mutant of Due
  IF loop = "nack" THEN {overdue[n] \cap ToSet(queue[n])} \ {{}}
  ELSE (SUBSET ToSet(queue[n])) \ {{}}

\* What a loop finds to do when it wakes
Due(n, loop) ==
  IF loop = "nack" THEN {overdue[n]} \ {{}} ELSE (SUBSET ToSet(queue[n])) \ {{}}

Waiting(n, loop) == \E c \in calls : c.node = n /\ c.by = None /\ c.op = loop

\* The loop wakes and makes a batch, or goes on with the one it has, and
\* proposes the next command
LoopStep(loop) ==
  LET n == leader IN
  /\ ~Waiting(n, loop)
  /\ \E todo \in (IF batch[n][loop] = {} THEN Due(n, loop) ELSE {batch[n][loop]}) :
     \E m \in todo :
       /\ batch' = [batch EXCEPT ![n][loop] = todo \ {m}]
       /\ Propose(loop, m, None)
  /\ IF loop = "expire" THEN Request ELSE UNCHANGED requests
  /\ UNCHANGED <<nodeVars, sent, accepted, held, failures>>

\* A consumer is given what is in flight when its call goes on; an answer to
\* a delivery settles the client's copies of the message
HeldAfter(c) ==
  IF c.op = "dequeue"
  THEN held \cup {[by |-> c.by, msg |-> x, count |-> count[c.node][x]] :
                     x \in {c.msg} \cap inFlight[c.node]}
  ELSE {d \in held : ~(d.by = c.by /\ d.msg = c.msg)}

\* propose() returns True.  Nothing ties the True of a deposed leader to its
\* entry: it has counted answers, and finds nothing new to commit.
Succeed(c) ==
  /\ Settled(c.node) /\ commit[c.node] >= c.index
  /\ calls' = calls \ {c}
  /\ accepted' = IF c.op = "enqueue" THEN accepted \cup {c.msg} ELSE accepted
  /\ held' = HeldAfter(c)
  /\ UNCHANGED <<consensusVars, nodeVars, batch, sent, requests, failures>>

\* propose() returns False, though its entry may be committed yet
Fail(c) ==
  /\ Settled(c.node)
  /\ IF c.index = 0 THEN UNCHANGED failures
     ELSE failures < MaxFailures /\ failures' = failures + 1
  /\ calls' = calls \ {c}
  /\ UNCHANGED <<consensusVars, nodeVars, batch, clientVars>>

-----------------------------------------------------------------------------
(***************************************************************************)
(* apply_command                                                           *)
(***************************************************************************)
Without(q, m) ==
  IF m \in ToSet(q) THEN RemoveAt(q, CHOOSE i \in DOMAIN q : q[i] = m) ELSE q

ApplyEnqueue(n, m) ==
  /\ queue' = [queue EXCEPT ![n] = Append(@, m)]
  /\ UNCHANGED <<inFlight, count, overdue>>

DequeueUnchecked(n, m) ==                                \* mutant of ApplyDequeue
  /\ queue' = [queue EXCEPT ![n] = Without(@, m)]
  /\ inFlight' = [inFlight EXCEPT ![n] = @ \cup {m}]
  /\ UNCHANGED <<count, overdue>>

\* Nothing happens if the message is no longer queued
ApplyDequeue(n, m) ==
  IF m \in ToSet(queue[n])
  THEN /\ queue' = [queue EXCEPT ![n] = Without(@, m)]
       /\ inFlight' = [inFlight EXCEPT ![n] = @ \cup {m}]
       /\ count' = [count EXCEPT ![n][m] = @ + 1]
       /\ overdue' = [overdue EXCEPT ![n] = @ \ {m}]
  ELSE UNCHANGED nodeVars

StillOverdue(n, m) ==                                    \* mutant of Land
  /\ inFlight' = [inFlight EXCEPT ![n] = @ \ {m}]
  /\ UNCHANGED overdue

Land(n, m) ==
  /\ inFlight' = [inFlight EXCEPT ![n] = @ \ {m}]
  /\ overdue' = [overdue EXCEPT ![n] = @ \ {m}]

ApplyAck(n, m) == Land(n, m) /\ UNCHANGED <<queue, count>>

NackUnchecked(n, m) ==                                   \* mutant of ApplyNack
  /\ queue' = [queue EXCEPT ![n] = <<m>> \o @]
  /\ Land(n, m)
  /\ UNCHANGED count

NackForgets(n, m) == Land(n, m) /\ UNCHANGED <<queue, count>>  \* mutant, too

ApplyNack(n, m) ==
  /\ queue' = IF m \in inFlight[n] THEN [queue EXCEPT ![n] = <<m>> \o @] ELSE queue
  /\ Land(n, m)
  /\ UNCHANGED count

ApplyExpire(n, m) ==
  /\ queue' = [queue EXCEPT ![n] = Without(@, m)]
  /\ Land(n, m)
  /\ UNCHANGED count

Apply(n) ==
  /\ NextEntry(n)
  /\ LET e == log[applied[n] + 1] IN
     \/ e.op = "enqueue" /\ ApplyEnqueue(n, e.msg)
     \/ e.op = "dequeue" /\ ApplyDequeue(n, e.msg)
     \/ e.op = "ack" /\ ApplyAck(n, e.msg)
     \/ e.op = "nack" /\ ApplyNack(n, e.msg)
     \/ e.op = "expire" /\ ApplyExpire(n, e.msg)
  /\ UNCHANGED <<batch, calls, clientVars, failures>>

Replicate(n) ==
  /\ Settled(n)
  /\ Commit(n) \/ Learn(n)
  /\ UNCHANGED <<nodeVars, batch, calls, clientVars, failures>>

Deposed(c) == IF c.index <= commit[c.node] THEN c ELSE [c EXCEPT !.index = 0]

\* The rounds of the old leader go on, though it leads no more; what becomes of
\* their entries is open
ChangeLeader ==
  /\ \E n \in Node : Settled(n) /\ Failover(n)
  /\ UNCHANGED applied
  /\ calls' = {Deposed(c) : c \in calls}
  /\ UNCHANGED <<nodeVars, batch, clientVars, failures>>

\* A loop goes on with its batch where its node does not lead: propose()
\* returns False at once for all there is
DropBatch(n, loop) ==
  /\ n # leader /\ Settled(n)
  /\ ~Waiting(n, loop) /\ batch[n][loop] # {}
  /\ batch' = [batch EXCEPT ![n][loop] = {}]
  /\ UNCHANGED <<consensusVars, nodeVars, calls, clientVars, failures>>

Next ==
  \/ \E m \in Message : Enqueue(m) \/ AckTimeout(m)
  \/ \E w \in Consumer, f \in Key \cup {None} : Dequeue(w, f)
  \/ \E w \in Consumer, d \in held, op \in {"ack", "nack"} : Answer(w, d, op)
  \/ \E loop \in Loop : LoopStep(loop) \/ \E n \in Node : DropBatch(n, loop)
  \/ \E c \in calls : Succeed(c) \/ Fail(c)
  \/ \E n \in Node : Replicate(n) \/ Apply(n)
  \/ ChangeLeader

Spec == Init /\ [][Next]_vars
=============================================================================
