-------------------------- MODULE LockProperties ---------------------------
(***************************************************************************)
(* What the lock service must and must not do.                             *)
(***************************************************************************)
EXTENDS LockManager

CONSTANT Vertex    \* of the graphs that has_cycle is tried on

ASSUME GraphConstantsOK == IsFiniteSet(Vertex) /\ IsFiniteSet(Client)

Entry == [op : {"acquire", "release"}, client : Client, key : Key, mode : Mode \cup {None}]
Pc == {"arriving", "refused", "waiting", "woken", "timedout", "proposing", "stuck",
      "answered"}
Live == [pc : Pc, node : Node, client : Client, key : Key, mode : Mode, wait : BOOLEAN]
Call == {Idle} \cup Live
Grants == [client : Client, key : Key, mode : Mode, node : Node,
           how : {"atOnce", "woken"}, seen : Nat]

Typed ==
  /\ leader \in Node /\ log \in Seq(Entry)
  /\ commit \in [Node -> Nat] /\ applied \in [Node -> Nat]
  /\ \A n \in Node : applied[n] <= commit[n] /\ commit[n] <= Len(log)
  /\ locks \in [Node -> [Key -> [Held -> Nat]]]
  /\ calls \in [Request -> Call] /\ granted \subseteq Grants

\* self._lock is held across a wait by the one coroutine of the node that
\* proposes; nobody is in line twice but to apply entries, and a request in
\* line is one that wants the lock.
LineOK ==
  \A n \in Node :
    /\ {r \in Request : calls[r].node = n /\ calls[r].pc \in {"proposing", "stuck"}}
         = {mutex[n]} \ {None}
    /\ \A i, j \in DOMAIN line[n] : line[n][i] = line[n][j] => (i = j \/ line[n][i] = "apply")
    /\ \A r \in ToSet(line[n]) \cap Request :
         calls[r].node = n /\ calls[r].pc \in {"arriving", "refused", "woken", "timedout"}

\* Every variable keeps to its values, and those that describe self._lock to
\* one another (lock_manager.py:175-210).
TypeOK ==
  /\ Typed /\ LineOK
  /\ line \in [Node -> Seq(Request \cup {"apply", "expiry", "detector"})]
  /\ \A n \in Node : edges[n] \subseteq Client \X Client

Compatible(S) == \A g, h \in S : g.client = h.client \/ (g.mode = "S" /\ h.mode = "S")

\* On every node the locks on a key are one client's, or shared
\* (lock_manager.py:214-224, 239).
HoldersCompatible == \A n \in Node, k \in Key : Compatible(Holders(locks[n][k]))

\* While a coroutine waits with self._lock in its hands, what it decided from
\* stays as it is: the locks of its node do not change (lock_manager.py:201-203).
LocksGuarded ==
  [][\A n \in Node : mutex[n] # None /\ mutex'[n] # None => locks'[n] = locks[n]]_vars

\* A lock granted at once stays in the table of its node until its client asks
\* for the release, it expires there, or the node applies a release of the same
\* client after the grant: nothing that others do, that is applied from the log
\* or that changes the leader takes it away.  A release the client asked for
\* before it asked for the lock does, if it comes to the node later
\* (lock_manager.py:176-184, 235-251), and another client may be granted it then.
GrantsKept ==
  \A g \in granted : g.how = "atOnce" =>
    \/ locks[g.node][g.key][[client |-> g.client, mode |-> g.mode]] > 0
    \/ \E i \in g.seen + 1 .. applied[g.node] :
         log[i].op = "release" /\ log[i].client = g.client /\ log[i].key = g.key

\* Who is registered as a waiter of a key still waits for it, or has timed out
\* and not yet left: no wake-up is spent on a request that was answered (lock_manager.py:197, 208, 260, 294-297).
NoGhostWaiter ==
  \A n \in Node, k \in Key : \A w \in ToSet(waiters[n][k]) :
    /\ calls[w.req].pc \in {"waiting", "timedout"}
    /\ calls[w.req].node = n /\ calls[w.req].client = w.client /\ calls[w.req].key = k

\* has_cycle returns a cycle if there is one and None if there is none, in every
\* graph and whatever the order in which it walks; what it returns is a cycle
\* from first to last, so that its last client waits for its first
\* (lock_manager.py:60-84).  It says nothing of the state: the first ones do.
HasCycleRight ==
  requests = 0 => \A graph \in SUBSET (Vertex \X Vertex) : FindsCycles(graph, Vertex)

\* The clients whose requests a step takes off the lists of node n
Aborted(n) ==
  {w.client : w \in UNION {ToSet(waiters[n][k]) \ ToSet(waiters'[n][k]) : k \in Key}}

BreaksDeadlock(n) ==
  /\ \A c, d \in Aborted(n) : c = d
  /\ \A c \in Aborted(n) : ReachesItself(c, edges[n], Client)
  /\ HasACycle(edges[n], Client) => edges'[n] # edges[n]

\* The detector aborts the requests of one client at most, and of one that waits
\* for itself, directly or through others; and it leaves no graph that has a
\* cycle as it is (lock_manager.py:283-300).
DeadlocksBroken == [][\A n \in Node : Detect(n) => BreaksDeadlock(n)]_vars

\* Clients that were told they have acquired a lock, at once or as waiters, and
\* that have neither asked for its release since nor had it expire, have
\* compatible locks (lock_manager.py:40).
ClientsCompatible == \A k \in Key : Compatible({g \in granted : g.key = k})

\* Coroutines go on: one that is first in line for the free lock gets it, and
\* one that waits for propose() has its answer in the end.
Fairness ==
  \A n \in Node :
    /\ WF_vars(Apply(n))
    /\ \A r \in Request : WF_vars(Quiet(n) /\ (Enter(n, r) \/ Return(n, r)))
    /\ WF_vars(Quiet(n) /\ (Detect(n) \/ Expire(n)))

\* _apply_committed_entries applies "all committed but not yet applied log
\* entries" (raft.py:328), and comes to an end of it.
CommittedIsApplied == \A n \in Node : applied[n] < commit[n] ~> Settled(n)
=============================================================================
