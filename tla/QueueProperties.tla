-------------------------- MODULE QueueProperties --------------------------
(***************************************************************************)
(* What the replicated queue must and must not do.                         *)
(***************************************************************************)
EXTENDS Queue

Op   == {"enqueue", "dequeue", "ack", "nack", "expire"}
Entry == [op : Op, msg : Message, by : Consumer \cup {None}]
Call  == [node : Node, op : Op, msg : Message, by : Consumer \cup {None}, index : Nat]
Delivery == [by : Consumer, msg : Message, count : Nat]

\* Every variable keeps to its values; what is overdue is in flight, so that a
\* message delivered again starts a new timeout (queue_node.py:182, 199).
TypeOK ==
  /\ leader \in Node /\ log \in Seq(Entry)
  /\ commit \in [Node -> Nat] /\ applied \in [Node -> Nat] /\ failovers \in Nat
  /\ \A n \in Node : applied[n] <= commit[n] /\ commit[n] <= Len(log)
  /\ queue \in [Node -> Seq(Message)] /\ inFlight \in [Node -> SUBSET Message]
  /\ count \in [Node -> [Message -> Nat]]
  /\ overdue \in [Node -> SUBSET Message] /\ \A n \in Node : overdue[n] \subseteq inFlight[n]
  /\ batch \in [Node -> [Loop -> SUBSET Message]]
  /\ calls \subseteq Call
  /\ accepted \subseteq sent /\ sent \subseteq Message
  /\ held \subseteq Delivery
  /\ requests \in Nat /\ failures \in Nat

\* Calls and background tasks go on; a round is answered in the end and a
\* follower hears of it; the clock runs; the redelivery loop wakes every 5 s.
Fairness ==
  /\ \A n \in Node : WF_vars(Replicate(n)) /\ WF_vars(Apply(n))
  /\ \A m \in Message : WF_vars(AckTimeout(m))
  /\ SF_vars(LoopStep("nack"))
  /\ WF_vars(\E c \in calls : Succeed(c))

FairSpec == Spec /\ Fairness

Kept(n) == ToSet(queue[n]) \cup inFlight[n]

\* Entries with this command that node n has applied
AppliedFor(n, ops, m) == {i \in 1 .. applied[n] : log[i].op \in ops /\ log[i].msg = m}

\* A message is in one place at a time on every node, whatever nacks of its
\* consumers and of the redelivery loop are applied after one another
\* (queue_node.py:179-204).
OnePlace ==
  \A n \in Node : IsInjective(queue[n]) /\ ToSet(queue[n]) \cap inFlight[n] = {}

\* A node that has applied the enqueue of a message keeps the message until it
\* applies an ack of it or its expiry, whatever dequeues and nacks it applies in
\* between, stale ones included (queue_node.py:162-210).  And as long as nobody
\* else has led, a producer that was answered "enqueued" can rely on it: the
\* leader has applied its enqueue (queue_node.py:89-92).  After a change of
\* leader it cannot, the True of a deposed leader means nothing (raft.py:314-324).
NothingLost ==
  /\ \A n \in Node, m \in Message :
       AppliedFor(n, {"enqueue"}, m) # {} /\ AppliedFor(n, {"ack", "expire"}, m) = {}
         => m \in Kept(n)
  /\ failovers = 0 => \A m \in accepted : AppliedFor(leader, {"enqueue"}, m) # {}

\* Nodes that have applied as much have the same queue: what a node decides
\* from its own state and clock only matters through the log
\* (queue_node.py:162-210).
ReplicasAgree ==
  \A n, p \in Node : applied[n] = applied[p] =>
    queue[n] = queue[p] /\ inFlight[n] = inFlight[p] /\ count[n] = count[p]

Gone(n) == {m \in Message : AppliedFor(n, {"enqueue"}, m) # {}} \ Kept(n)

\* What has left the queue for good never comes back: no late nack, and no
\* dequeue of a consumer that picked the same message, brings back one that was
\* acked or has expired (queue_node.py:179-180, 196-197).
NeverBack == [][\A n \in Node : Gone(n) \subseteq Gone(n)']_vars

\* Where a message is on a node, in the words of Mailbox
Place(n, m) ==
  IF m \in ToSet(queue[n]) THEN "waiting"
  ELSE IF m \in inFlight[n] THEN "delivered"
  ELSE IF AppliedFor(n, {"enqueue"}, m) # {} THEN "gone" ELSE "unknown"

MailboxView == INSTANCE Mailbox WITH
  state <- [n \in Node |-> [m \in Message |-> Place(n, m)]], deliveries <- count

\* Whatever commands are applied, in an order nobody chose, a message goes
\* through the life that Mailbox allows on every node, and its delivery_count is
\* the number of times that node has moved it to in flight (queue_node.py:162-210).
\* How many consumers were answered with it the count does not say: one whose
\* dequeue found the message gone from the queue is given it, too, if it is in
\* flight (queue_node.py:114-124).
ImplementsMailbox == MailboxView!Spec

\* A message in flight is acked, nacked or expires, or the redelivery loop
\* takes it back: no consumer that died keeps it (queue_node.py:223-237).
Redelivered == \A m \in Message : m \in inFlight[leader] ~> m \notin inFlight[leader]
=============================================================================
