# A verification project for the Distributed Sync System

The program under `src/` is three services, a lock manager, a message queue and
a cache, each run as a small cluster whose nodes agree on a log of commands
with the Raft implementation of `src/src/consensus/raft.py`. This directory
holds TLA+ models of it, the TLC configurations that check them, and theorems
about them that TLAPS has proved. Source paths below are relative to `src/`.

## 1. The system

| component | state | operations | talks to |
|---|---|---|---|
| `RaftNode` (`src/consensus/raft.py`) | role, term, vote, log, commit and apply index, next index per peer, the election timer and heartbeat tasks | `propose`, `handle_request_vote`, `handle_append_entries`, `_start_election`, `_heartbeat_loop`, `_replicate_log`, `_apply_committed_entries` | its peers by HTTP; its service through `apply_callback` |
| `BaseNode` (`src/nodes/base_node.py`) | none of its own | HTTP routes for the Raft handlers, `is_leader`, `propose` | `RaftNode` |
| `LockManagerNode` (`src/nodes/lock_manager.py`) | holders per key, keys per client, waiters with their events, wait-for graph | acquire, release, apply, notify, expiry loop, deadlock loop | `BaseNode`, its clients |
| `WaitForGraph` (same file) | edges waiter to holder | `add_wait`, `remove_client`, `has_cycle` (a depth-first search) | the lock manager |
| `QueueNode` (`src/nodes/queue_node.py`) | queued messages in order, messages in flight | enqueue, dequeue, ack, nack, expire, redelivery loop, TTL loop | `BaseNode`, its clients |
| `CacheNode`, `LRUCache`, `LFUCache` (`src/nodes/cache_node.py`) | cached entries, a MESI state per key | get, put, delete, invalidate, coherence messages, eviction | `BaseNode`, its peers by HTTP |
| `MessageBus` (`src/communication/message_passing.py`) | none between calls | send with retries, broadcast | called by nothing |
| `FailureDetector` (`src/communication/failure_detector.py`) | arrival windows per peer | probe loop, phi | called by nothing |
| configuration, metrics, entry points, benchmark | constants and counters | | |

**What makes it hard.** A process is one asyncio event loop, so code is atomic
from one suspending `await` to the next, and what was read before an `await` may
be stale after it. Requests and answers are lost, late (a call gives up after
0.5 s, its request is handled all the same) and overtake each other. A leader
runs several replication rounds at once: the heartbeat loop and one per pending
proposal. A process that stops loses everything, for nothing is written to
disk. On top of Raft, each service decides by its local state (is the queue
full, is the lock free) before the command it proposes is applied.

**What makes each component correct.**

* `RaftNode`: one leader a term; a vote is cast once; logs that agree on a
  term at a position agree below it; nodes apply one sequence of commands,
  none skipped and none twice; `propose` answers True only for a command a
  majority keeps; a leader's entries reach every node in the end.
* `LockManagerNode`: the holders of a key are compatible; what a client was
  told it has acquired, nobody else is given before it is released or expires; a waiter
  whose lock becomes free is woken; the detector finds the deadlocks there are
  and only those.
* `WaitForGraph`: `has_cycle` returns a cycle exactly if there is one.
* `QueueNode`: an enqueued message is queued, in flight, acknowledged or
  expired, and one of these; an unacknowledged message is delivered again; the
  queue keeps its bound; a message is in one consumer's hands at a time.
* `CacheNode`: a hit returns the last value applied here; a valid state means
  the key is cached; what was replaced or invalidated on a node is not read there again.

## 2. The modules

| module | what it is |
|---|---|
| `RaftNode` | the model of `RaftNode` for a cluster: variables, actions, fairness |
| `RaftProperties` | its invariants, its liveness, its refinements |
| `Elections` | abstract specification: what leader election promises |
| `ReplicatedLog` | abstract specification: what a replicated state machine promises |
| `MCRaft` | `RaftProperties` for TLC: symmetry and scenarios |
| `RaftRestart` | `RaftNode` with processes that stop and start again |
| `RaftElectionProofs` | type correctness, election safety and the refinement of `Elections`, proved |
| `RaftLogProofs` | log matching, and that a leader can send, proved |
| `RaftOneLeaderProofs` | what is committed and applied while no second node wins, the refinements of `CommittedLog` and `ReplicatedLog` included, proved |
| `CommittedLog` | abstract specification: the log that the services are built on |
| `Consensus` | `CommittedLog`, and how far each node has applied it: what a service sees of `RaftNode` |
| `Queue` | the model of `QueueNode` on every node, over `Consensus` |
| `Mailbox` | abstract specification: the life of a message in one node's copy of the queue |
| `QueueProperties`, `MCQueue` | the queue's properties, fairness and refinement; the same for TLC |
| `QueueProofs` | all safety properties of the queue and the refinement of `Mailbox`, proved |
| `Lists`, `ListProofs` | taking elements out of a sequence, as the lock manager and the cache do; what it leaves, proved |
| `LockManager` | the model of `LockManagerNode` on every node, over `Consensus` and `WaitForGraph` |
| `WaitForGraph` | the class of this name, its depth-first search as a recursive function with a set of results |
| `WaitForGraphProofs` | the search is right in every finite graph, proved |
| `LockProperties`, `MCLock` | its properties; the same for TLC |
| `LockProofs` | all its safety properties, proved |
| `CacheNode` | the model of `CacheNode`, `LRUCache` and `LFUCache` on every node, over `Consensus` |
| `MonotoneReads` | abstract specification: what a reader of one node may rely on |
| `CacheProperties`, `MCCache` | the cache's properties and refinement; the same for TLC |
| `CacheProofs` | all safety properties of the cache and the refinement of `MonotoneReads`, proved |

### RaftNode and the code

One variable per attribute that decides something: `role`, `currentTerm`,
`votedFor`, `log`, `commitIndex`, `leaderId`, `nextIndex`. `applied[n]` is the
sequence of commands handed to `apply_callback`; `last_applied` is its length
less one. `ballot[n]` is the running `_start_election` coroutine of n, with the
answers it has; `round[n][s]` is a `_replicate_log` coroutine, where s is
`Heartbeat` or the command whose `propose` runs it. `voteReq`, `appendReq` and
`appendResp` are what is in the network. `elected` and `acked` are history: the
elections won, and the commands whose `propose` returned True.

| action | code |
|---|---|
| `StartElection` | `_election_timer_loop` fires, `_start_election` up to its `gather` |
| `HandleRequestVote` | `handle_request_vote` (and the candidate's HTTP call, answered or not) |
| `Tally` | `_start_election` from its `gather` on, `_become_leader` |
| `Propose` | `propose` up to the `gather` of `_replicate_log` |
| `BeginHeartbeat` | `_heartbeat_loop` up to the `gather` of `_replicate_log` |
| `SendRound` | the tasks of that `gather`, each up to its `post` |
| `HandleAppendEntries` | `handle_append_entries`: reject a stale term, reject a mismatch, or accept |
| `Deliver` | `_send_append_entries` from its answer on |
| `FinishRound` | `_replicate_log` from its `gather` on, commit and apply included |
| `Restart` (in `RaftRestart`) | the process ends and `__init__` runs again |

Handlers are single actions because nothing in them suspends: `self._lock` is
only ever held over code that does not suspend either, and the apply callbacks of
the queue and of the cache never do. (The lock manager's can: its lock is held
over a proposal. That belongs to its own module.) `SendRound` is one action as
well: `gather` makes the tasks, the event loop runs them one after the other
and each runs up to its first network wait. Between `Propose` or
`BeginHeartbeat` and `SendRound`, however, other handlers of the node may run,
and this is where several of the findings come from.

Message loss needs no action: an unanswered call is one that is still waiting
when `Tally` or `FinishRound` ends its round. Its request stays in `voteReq`
and may be handled later or never. `appendReq` keeps up to `MaxStray` of the
requests whose calls have given up, and loses the others. An election request
is answered into the candidate's `ballot` directly, or not at all (the answer
is lost); nobody looks at the answers before the `gather` is complete, so when
they arrive makes no difference.

Left out of `RaftNode`: `match_index` and the counters, which nothing reads; the timers (an
election may start at any time, which is more than the code does); the `index`
field of an entry, always its position.

### Consensus

The services call `is_leader` and `propose` and have `apply_command` called.
What they rely on is stated once, in `CommittedLog`: one `leader`, its `log`,
which only it extends, and how much of it each node knows to be committed. A
change of leader may drop any part of the log no node knows to be committed.
`Consensus` adds how far each node has applied it, and `Queue`, `LockManager` and
`CacheNode` are built on that.

`ImplementsCommittedLog` says that `RaftNode` gives this log. It does as long as no
second node wins an election: `raft_one_leader` checks it, `GivesCommittedLog` proves it
for any number of nodes, terms and failed elections. `raft_diverge` shows that it does not
across a change of leader: `TakeOver` lets only a node lead whose log has all that any node
knows to be committed, and neither the vote (`raft.py:258-268`) nor the commit rule
(`raft.py:318`) gives that. It is an assumption of all is checked and proved about the services.
The theorems about the services thus hold of the program
while one leader is in office; what they say of failovers is what the services' own code
contributes, on a log that is sound. No property claims that an answer given by a
deposed leader can be relied on.

What `propose` answers is not part of the log. While its node leads, True comes after the
commit, False may come of a round that failed. The coroutines of a deposed leader go on
without looking at the role again (`raft.py:302-324`): if their entry was not committed when
it was deposed, they may be answered True or False, whatever becomes of the entry (`Deposed` in
`Queue` and `CacheNode`). The lock manager ignores what `propose` returns,
except in the answer to a release, which changes nothing on the node.

### Queue and the code

`queue`, `inFlight`, `count` are `_queue`, `_in_flight` and the
`delivery_count` of each message, per node. `calls` holds the coroutines that
wait in `propose`, `batch` what each background loop has left to propose,
`overdue` the messages whose `ack_timeout` has passed by the leader's clock.
`sent`, `accepted` and `held` are the clients' side: what was enqueued, what was
answered "enqueued", and which deliveries a consumer has.

| action | code |
|---|---|
| `Enqueue`, `Dequeue`, `Answer` | `_handle_enqueue`, `_handle_dequeue`, `_handle_ack` and `_handle_nack`, each up to its `await` |
| `Succeed`, `Fail` | the same handlers from there on; `propose` returned True, or False |
| `LoopStep("nack")`, `LoopStep("expire")` | one command of `_redelivery_loop` and of `_ttl_cleanup_loop`, up to the next `await` |
| `DropBatch` | a loop goes on with its batch on a node that no longer leads: `propose` returns False at once for all of it (if the node leads again before the `await` ends, it goes on with the batch) |
| `AckTimeout` | time passes |
| `Apply` | `apply_command`, all five operations |
| `Replicate`, `ChangeLeader` | `RaftNode` through `Consensus` |

`Mailbox` knows nothing of logs and calls. A message is unknown, waiting, in flight or gone on
each node; it comes in once, is moved to in flight and taken back any number of times, which the count
counts, an ack takes it from in flight only and its expiry from anywhere, and what is gone stays gone.
`Place` reads this off a node's queue, its messages in flight and the enqueues it has applied. How
many consumers are answered with a message, `Mailbox` leaves open: a second consumer whose dequeue applied to
nothing is answered with it as well, as long as it is in flight (`queue_node.py:114-124`), and
nothing counts that.

### LockManager and the code

`locks` is `_locks`: per node and key, how many entries there are of each client
and mode. Entries are not ordered and have no age: one may expire at any
moment, in any order. That covers clocks that differ, and entries that were
added twice. `waiters` and `edges` are `_waiters` and the wait-for graph.
Each node's `self._lock` is an `asyncio.Lock`: `mutex` is the coroutine that has
it over an `await`, `line` those queued for it, first come, first served.
`calls` are the coroutines of acquire requests: where each is (`pc`), and what it wants.
`granted` is the clients' side: what each was told it has, by which node and in which way (at
once, or as a waiter that was woken), and how much of the log that node had applied when it said so.

| action | code |
|---|---|
| `Acquire` | `_handle_acquire`, and `_try_acquire` as far as the lock lets it |
| `Enter` | a coroutine gets the lock: lines 175-197 (`TryAcquire`, `Register`), 201-205 (`Retry`), 207-210 (`GiveUp`) |
| `Background` | the task of line 183 proposes what was granted |
| `Timeout` | `wait_for` gives up |
| `QueueUp` | a coroutine or a loop finds the lock taken |
| `Return` | `propose` of a waiter returns; its result is ignored, as in line 203 |
| `Stick` | `propose` of a waiter goes on to apply entries, and waits for the lock its own coroutine has (lines 203, 235) |
| `Release` | `_handle_release` |
| `Apply` | one round of `_apply_committed_entries` with `apply_command` |
| `Expire`, `Detect` | one round of `_expiry_loop` for all keys, of `_deadlock_detection_loop` |
| `ChangeLeader` | a failover; a heartbeat task that waits for the lock is cancelled with the entry it had counted as applied (only if that is the next entry: one further on would leave a gap, which `applied` cannot express) |

A critical section without an `await` in it is one step. `Quiet` says that a
coroutine that has just committed entries goes straight on to apply them as long
as it gets the lock. Left out: `_client_locks`, which nothing reads; the status
route, which changes nothing but the queue for the lock.

`WaitForGraph` has the search of `has_cycle` as it is: the path, the set of
visited clients that is shared by all roots, the path test before the visited
test. Dicts and sets of Python are walked in an order that is not the program's to
choose. Each loop of the model may take any element next, so that the search has a set of
results (`CyclesFound`), and `Detect` takes the last client of any of them. A call of
`dfs` and the loop over the roots are one recursive function, `Search`, over what a
loop has left, its path and the visited clients (`Loops`).

### CacheNode and the code

Per node, `store` is the order of the keys in `_store` and `value` what the
dict has for them: a value is known by the position of its put in the log, and
0 says that the key is not cached. `uses` is `access_count` on nodes with the LFU
policy (`LfuNode`), `modified` the keys whose MESI state is M. Every other key is
in I or has no state, which only the status route can tell apart: the state
E that a new `CacheEntry` has by default is never copied into `_mesi_states`,
nothing proposes `invalidate_state`, and the share handler, to which nothing
posts, waits for an E. `calls` are the handlers that wait in `propose`, `inNet`
the coherence messages on their way.

| action | code |
|---|---|
| `Put`, `Delete` | `_handle_put`, `_handle_delete` up to their `await` |
| `Succeed`, `Fail` | the same from there on; `_broadcast_invalidate` after a success |
| `Get` | `_handle_get` that hits, with `move_to_end` or `touch`; a miss changes nothing |
| `Invalidate` | `_handle_invalidate` |
| `HandleInvalidate` | `_handle_coherence_invalidate`: late, out of order, or never |
| `Apply` | `apply_command`: `LRUCache.put`, `LFUCache.put`, both `remove`, the states |
| `Replicate`, `ChangeLeader` | `RaftNode` through `Consensus` |

Here `self._lock` is never held over an `await` that suspends, so every handler is one
step. A put into a cache whose `max_size` is 0 raises an error inside `apply_command`,
which `_apply_committed_entries` logs: nothing changes.

`MonotoneReads` knows of none of this. For a key at a node it has the
positions of the commands that have arrived (`past`) and the one a read shows
(`shown`, 0 for a miss). A newer command may be shown when it arrives, and what is
shown may go at any time, but it does not come back.

## 3. What is checked

All runs of `RaftNode` take three nodes, the size the repository deploys
(`docker/docker-compose.yml`) and the smallest in which a majority is neither
one node nor all. Terms are bounded by `MaxTerm`, proposals by the commands
given, concurrent rounds by `MaxRounds`. `CHECK_DEADLOCK FALSE` stands in every
run, since at the bounds (last term reached, no command or request left) the
system really has nothing left to do.

| run | question | bounds | states |
|---|---|---|---|
| `raft_elections` | all election behaviours: is there one leader a term, is a vote cast once, is `Elections` implemented, do hints name winners? | 2 terms, no commands, no restriction on who stands | 549 000 |
| `raft_failover` | do logs match, can a leader send, when a second leader takes over while requests of the first are still out? | 2 terms, 2 commands, one round at a time; first leader and successor fixed | 928 000 |
| `raft_one_leader` | is what one leader commits a replicated state machine, is it the log the services are built on? | 1 term, 2 commands, 2 rounds at a time | 659 000 |
| `raft_progress` | does a leader's entry reach all nodes? | 1 term, 1 command, 2 rounds at a time | 56 000 |
| `raft_diverge` | violation: consistency of the state machines | 2 terms, 2 commands, 2 rounds at a time | |
| `raft_restart` | violation: persistence | 1 term, 1 restart | |
| `queue_safety` | is a message a node has taken in in one place, never lost, never back, the same on all nodes? does it live as `Mailbox` says? | 2 nodes, 1 failover, 2 messages of 2 keys, 2 consumers, 4 requests, queue of 1 | 808 000 |
| `queue_redelivery` | does a message in flight stay so for ever? | 2 nodes, 1 failover, 1 failed proposal, 1 message, 3 requests | 74 700 |
| `lock_safety` | are holders compatible, grants kept, waiters real, decisions under the lock still valid when used? does `has_cycle` find what there is, and does the detector abort one client of a cycle and nobody else? | 2 nodes, 1 failover, 2 clients, 1 key, 2 acquire requests at a time, 3 requests, 1 round of expiries or failed round; all 512 graphs of 3 vertices, walked in every order | 760 000 |
| `lock_twice` | violation: two clients are told they have incompatible locks | 1 node, 2 clients that wait for their answers, 1 key, 4 requests, nothing fails | |
| `lock_stuck` | violation: a node that stops applying entries | 1 node, 2 clients, 1 key, 3 requests, nothing fails | |
| `cache_safety` | does a hit answer the last value applied here, are order, counters, values and states in step, is `MonotoneReads` implemented? | 2 nodes, one LRU and one LFU, 1 failover, 3 keys, caches of 2, 4 requests | 1 507 000 |

The bounds are enough for what the runs are about. Two terms give a deposed
leader with rounds still out, a vote request of an old election answered in a
new one, a term adopted from an answer. Two commands make two logs that differ
at one position, and an entry appended while a round is out. Two rounds
make a heartbeat and a proposal overlap, which is the least that goes wrong.
`ScenarioSpec` fixes who stands in which term to keep the runs with a log small;
its behaviours are behaviours of `Spec`.

`raft_failover` runs one round at a time: with two, a deposed leader commits
what it should not (see the findings), and what its log has in common with others
says little. `LogMatching` holds even so for all requests that can be made, also
those a deposed leader sends in a term it never won.

The services take two nodes, a leader and the one that succeeds it; nodes do
not talk to each other but through the log, so a third adds only copies of the
second. One failover leaves a deposed leader with its handlers and loops under
way. Two messages can wait in one batch, compete for a queue of one and overtake each
other; two consumers can pick the same message. Two clients with two
requests at a time give a holder, a waiter, and a third request behind both when
the holder's is answered; one key is enough, for the table of a key is
touched by nothing but commands for that key. (The search for deadlocks is
checked on its own, on graphs that two clients and one key do not make.) Three keys in caches of two
make every eviction a choice; one node with each policy makes the replicas
evict different keys. Four requests are two puts, a hit that changes the order, and
a put that evicts, or a put that is invalidated, evicted and put again. The
scenarios of `MCQueue`, `MCLock` and `MCCache` remove interleavings that the properties do
not depend on: followers that learn of commits in several portions, and, for the queue,
while a call of the leader is under way; for the cache, more than one write and two
invalidations at a time (a failed one may still be committed with the next). In `MCLock`, only what appends, commits or
applies an entry may come between a grant and the start of its task, as the task is
ready at once, the two loops of a node, which sleep for seconds, do not queue for its lock at the same time, and one
node is named to lead first. `SequentialSpec`, which `lock_twice` runs under, has clients that wait for the
answer to a release before they ask again and release only what they were granted, so that the
violation is not the fault of a client. All of these are behaviours of `Spec`, and the theorems need
none of the restrictions.

What the bounds leave out: `raft_failover` keeps no request after its call has given up
(`MaxStray = 0`), so late and repeated requests do not meet the logs in a run, and with one round at a
time its logs do not grow while an answer is out; `LogsMatch` and `LeadersCanSend` are
proved for any number of both. `queue_redelivery` has one message, so no batch is cut short in it.
`cache_safety` has no cache of size 0; `CacheTypeCorrect` and `HitsAreFresh` do.

**Fairness** (`raft_progress`). The event loop runs every task that is ready:
weak fairness of the segments `Tally`, `BeginHeartbeat`, `SendRound`. A round
ends when its calls have answered or timed out after 0.5 s: weak fairness of
`FinishRound`. A call that the heartbeat loop makes again and again gets
through and gets its answer now and then: strong fairness of `AppendTo` and
`AnswerTo`, per peer. No fairness of elections or proposals is assumed. With
elections in the model nothing of the kind holds without assumptions on time,
since the code's timeouts alone do not keep a leader in office.

**Fairness** (`queue_redelivery`). Committed entries get applied, a round is
answered in the end, a coroutine whose `propose` is through goes on, time
passes: weak fairness of `Apply`, `Replicate`, `Succeed`, `AckTimeout`. The
redelivery loop sleeps for 5 s and runs again, whatever the node does in
between: strong fairness of `LoopStep("nack")`, whose step is disabled now and then,
while entries are applied or its own proposal is out. Failed proposals and failovers are bounded, as
no message can be redelivered by a cluster that never commits again.

**Fairness** (`lock_stuck`). A coroutine or loop that is first in the queue for a
free lock gets it: weak fairness of `Apply`, `Enter`, `Detect`, `Expire`; `propose`
of a waiter returns if it can: weak fairness of `Return`. The violation does not come
from an action that lacks fairness: with `Stick` taken out of `LockManager`,
`CommittedIsApplied` holds in the same configuration.

### Findings

* `raft_diverge`. A round commits up to the end of the log as it is when the
  answers are in. An entry appended meanwhile is committed and applied with one
  copy, the next leader commits another in its place, and state machines differ.
* `raft_restart`. The state commented as persistent is not: a voter that
  restarts votes again, and a term has two leaders.
* `lock_twice`. A woken waiter proposes with `self._lock` in its hands and is
  answered when the proposal is committed. If another round committed it, the lock goes to
  the next in line first, and to the coroutine that applies the entry later. A
  request next in line finds the table empty and is granted the lock as well. The
  entry of the waiter is then rejected, and both clients believe they hold it.
* `lock_stuck`. If it is the waiter's own round that commits, `propose` goes on to
  apply the entry, and applying needs the lock that the waiter has. The node then waits for
  itself: it applies nothing more, expires no lock and answers no acquire.

**Seen beyond the runs.** More departures from what the repository says, or from what one
would expect of such a service, were met in these models; the runs above do not include them.

* `propose` "Returns True if committed by majority" (`raft.py:96`). A round builds
  its requests when its tasks run and counts the answers without asking
  whether the node still leads: a deposed leader re-sends its successor's log and
  answers True to its own client, whose command no log holds. `RaftOneLeader.cfg`
  with `MaxTerm = 2`, `Second = n2` and `MaxPerNode = 1` finds `CommittedByMajority` violated.
* A lock granted at once is answered before its entry is committed, and nobody looks at what
  becomes of it (`lock_manager.py:179-184`). A leader that is replaced in between leaves no trace of
  the grant, and the next one grants the lock again. `LockTwice.cfg` with two nodes and
  `MaxFailovers = 1` finds `ClientsCompatible` violated in this way, in five states.
* A leader decides by a table to which releases in its log may not have been applied yet, and a
  release, when it is applied, takes away all entries of its client, newer ones included
  (`lock_manager.py:176-184, 249`). A client that acquires, releases and has its answer from one leader is granted the
  lock at once by the next, which has applied neither; this leader then applies the old release,
  the lock is gone from its table, and another client is granted it exclusively.
  Both were told by the same leader that they have the lock. In `SequentialSpec` with two nodes, one
  failover and four requests the grants made at once by one node become incompatible after twelve states. `GrantsKept`
  says what remains true: no release but the client's own does this.
* A consumer whose dequeue was overtaken is answered with the message all the same, as long as it is in flight
  with another (`queue_node.py:114-124`): two consumers have it, and `delivery_count` is 1.
* `_redelivery_loop` (`queue_node.py:224-237`) lists the overdue messages once and
  then proposes a nack for each, waiting in between. A message of the list may have
  been nacked and delivered to another consumer by then; the nack takes it from a
  delivery that has only begun.
* `_try_acquire` (`lock_manager.py:188-189`) makes a client wait for every holder
  of the lock, itself included. Two clients share a lock, one of them asks for it
  exclusively: the graph has an edge from this client to itself, the detector takes that for a
  deadlock, and the request is aborted though nobody waits for this client. Three requests
  of `LockManager` lead there.

## 4. What is proved

For any finite set of nodes, any set of commands and any bounds (`ConstantsOK`; for the
services `MaxFailoversOK`, `QueueConstantsOK`, `LockConstantsOK` and `CacheConstantsOK`; for
the wait-for graph `GraphConstantsOK`, finitely many clients), without the restrictions of the
scenarios:

| theorem | statement |
|---|---|
| `TypeCorrect` | `Spec => []TypeOK` |
| `ElectionsAreSafe` | `Spec => []ElectionSafety` |
| `VotesAreCastOnce` | `Spec => []VoteCastOnce` |
| `HintsAreWon` | `Spec => []LeaderHintWon` |
| `RefinesElections` | `Spec => ElectionsView!Spec` |
| `LogsMatch` | `Spec => []LogMatching` |
| `LeadersCanSend` | `Spec => []LeaderCanSend` |
| `AppliedIsLog` | `Spec => [](OneLeader => AppliedIsLogPrefix)` |
| `StateMachinesAgree` | `Spec => [](OneLeader => StateMachineSafety)` |
| `MajorityHolds` | `Spec => [](OneLeader => CommittedByMajority)` |
| `FirstTerm` | `Spec => [](MaxTerm = 1 => OneLeader)` |
| `GivesCommittedLog` | `Spec /\ []OneLeader => ImplementsCommittedLog` |
| `GivesReplicatedLog` | `Spec /\ []OneLeader => ImplementsReplicatedLog` |
| `FirstTermLogs` | both, of `Spec` with `MaxTerm = 1` |
| `QueueTypeCorrect` (of `Queue`) | `Spec => []TypeOK` |
| `MessagesInOnePlace` | `Spec => []OnePlace` |
| `NothingIsLost` | `Spec => []NothingLost` |
| `GoneForGood` | `Spec => NeverBack` |
| `ReplicasAlwaysAgree` | `Spec => []ReplicasAgree` |
| `RefinesMailbox` | `Spec => ImplementsMailbox` |
| `LockTypeCorrect` (of `LockManager`) | `Spec => []TypeOK`, `LineOK` included |
| `HoldersAreCompatible` | `Spec => []HoldersCompatible` |
| `LocksAreKept` | `Spec => []GrantsKept` |
| `WaitersWait` | `Spec => []NoGhostWaiter` |
| `WaitsGuardLocks` | `Spec => LocksGuarded` |
| `SearchIsRight` (of `WaitForGraph`) | `FindsCycles(graph, V)` for every finite `V` and every graph on it |
| `CyclesAreFound` | `Spec => []HasCycleRight` |
| `DeadlocksAreBroken` | `Spec => DeadlocksBroken` |
| `CacheTypeCorrect` (of `CacheNode`) | `Spec => []TypeOK` |
| `HitsAreFresh` | `Spec => []NoStaleHit` |
| `RefinesMonotoneReads` | `Spec => ImplementsMonotoneReads` |

With these, every safety invariant and every action property that a passing run checks is a
theorem, those of `raft_one_leader` under `OneLeader`, and so are the five refinements (of `Elections`,
`ReplicatedLog`, `CommittedLog`, `Mailbox` and `MonotoneReads`). The theorems about the services are about their
code on the log of `CommittedLog`, which `GivesCommittedLog` says that `RaftNode` gives while
no second node wins (section 2). Three need to be read with care:

* `LocksAreKept` does not say that a client keeps what it was granted. A release it asked for earlier, and which its node
  applies later, takes the lock away; the theorem says that of all entries only a release of this client and
  key, applied after the grant, can, and of all other steps only an expiry on that node.
* `NothingIsLost` says of a node that it keeps what it has taken in until it applies an ack or the expiry. Of a producer it says only
  that what it was told is true as long as nobody else has led.
* `RefinesMailbox` is about each node's copy. Its count is of moves to in flight, not of answers to
  consumers.

**The argument for elections.** `TypeOK` is inductive, one step per action. `ElectionSafety`
is not: that two elections of a term have one winner says nothing of the votes
candidates are still collecting. `ElectionInv` adds what the code maintains
and why it works. *VotesBacked*: a vote that is counted, by an election
that runs or by one that was won, is still held by the voter or the voter has
left that term. *DisjointVotes*: two candidates of a term share no counted
voter. *WonByMajority*: an election is won by more than half of the nodes, and
two such sets meet (`MajoritiesMeet`), so with disjoint votes two winners of a
term are one. *CandidateRuns* ties the role to the coroutine: who is a
candidate when the votes are counted is the candidate of this very
election, though the role is read after an `await`. *WinsArePast*, *LeadersWon*
and *SendersWon* link winners to terms: a node acts as leader in a term it won, and
sends AppendEntries only if it has won some election, of that term or an
earlier one. The last is as much as is true (a deposed leader sends in a term
it never won), and it is enough for `LeaderHintWon`. The refinement needs
*WinsArePast* and election safety to show that a win is the first of its term.

**The argument for log matching.** `LogMatching` is not inductive: two logs that
agree may be made to disagree by a request that was sent long ago. What is missing is
a record the code does not keep. `Ledgered` says that there is a ledger: for every
term won, the log its winner has, or last had, as leader of that term. A page is only
ever appended to, since a term has one winner (`ElectionSafety`) and a leader
appends to its own log alone. Every log is built from pages: what it has up to
an entry of a term is what the page of that term has up to there (*Recorded*). Two logs with an
entry of one term at one position then agree with the same page, hence with each
other. A request carries the end of some log built in this way (*Carried*): not of a page,
for a deposed leader sends what its successor gave it, in a term it did not win. The
ledger is an existential of the invariant and not a variable; each step exhibits the
new one. `MergeEither` is the lemma about the loop of `handle_append_entries`: it leaves
the log it found or the one the request carries the end of, and the latter only if
the former misses one of its entries, so nothing a later request brought is cut off by an
earlier one. `LeaderCanSend` needs only `NextInLog`: a leader's log does not shrink while it leads, and
no answer moves `next_index` beyond it.

**The argument for one leader.** `raft_diverge` shows that the state machines of two nodes
may differ once a second node wins, so what is promised before that is stated under
`OneLeader`: all elections won so far have one winner. Elections may fail, terms may
pass, and the winner may be deposed and win again. Its log is then the
source of all others (`OneLog`): every log is the beginning of it, and a request
carries a stretch of it, whoever sends it. Logs therefore only grow (`LogsGrow`), which is what makes
`AppliedTo` and `AcksHeld` inductive: what a node has applied stays what its log has, and
whoever was counted as having a command keeps it. That every round counts its
answers once, and asks nobody but peers, gives the majority (`HeldInv`). The
conditional form is not a weaker one than the run checks: with `MaxTerm = 1`, as there,
`OneLeader` holds always (`FirstTerm`).

**The argument for the log of the services.** In `CommittedLog` the leader alone commits, its own log to
the end, and a follower hears of what the leader has committed. `Winner` maps the
leader: the node that has won, and before the first election any one, whose log is empty
as all are (`BlankInv`), so that the first election is a step of `TakeOver` or none. Under `OneLog`
this needs `ToldInv`: the source knows the most committed, no request tells a follower more
(`Heard` is the minimum that `handle_append_entries` takes), and nobody else has a round
out, so nobody else commits. `next_index` and answers do not occur in it: whatever a round
counted, it commits the leader's log as it is.

For `ReplicatedLog`, what is decided is the longest list any node has applied. It exists (`LongestIs`,
by a least upper bound) and grows as the nodes do, since all of them are beginnings of the source's
log (`AppliedIsLog`). A step decides what it adds. `OnceInv` has the rest: each command is once in the
source's log, and was proposed, because `propose` runs once for a command and the log is never cut.
So the added part is a sequence of distinct proposed commands, none decided before
(`AppliesMore`, `IsPermutation`).

**The argument for the queue.** `QueueInv` ties each node to the entries it has applied:
what it keeps was enqueued there, once in the log (`EnqueuedOnce`), and what was enqueued
and neither acked nor expired it keeps (`StaysUntilSettled`). `OnePlace` is inductive
with the types: a dequeue or nack moves a message only if it is where
the entry expects it. As long as nobody else has led, a True of `propose` comes after the commit, and the
coroutine goes on only when the node has applied what it has committed, so an answered enqueue is
applied at the leader (`AcceptedApplied`). `NeverBack` follows because nothing but an enqueue brings a message to a node
(`KeptChanges`), and there is one. `ReplicasAgree` is not inductive: if two nodes
have applied as much in the next step, nothing in it says how they were related while
one was behind. The proof supplies the sequence of all states a replica goes through,
which the log determines (`After`), up to the node that has applied most; each node is
somewhere on it (`OneHistory`).

The refinement of `Mailbox` says all of this of one message at a time. Applying an entry moves
its own message or none (`Outcome`, `ApplyMoves`), by the types and `OnePlace`; that a message on its way in
was never there before is `EnqueuedOnce`, and that one that leaves was there is `KeptEnqueued`.

**The argument for locks.** A step changes the table of a key in one of two
ways: it adds an entry that `CanAcquire` allows, or takes entries away
(`EveryStepTables`). Both keep holders compatible (`WithCompatible`,
`FewerCompatible`), which gives `HoldersCompatible` from type correctness alone.
For `GrantsKept` each grant notes how
much of the log its node had applied (`seen`), which never exceeds what it has applied since (`Seen`). A grant is *honoured* if it is in the
table or a release of its client and key is among the entries applied since. Two arguments
keep it so: an entry that takes the lock away when it is applied is such a release, and is counted from then
on (`ApplyGrants`); and the part of the log a node has applied stays what it is, since a failover drops only
what nobody knows to be committed (`LogStays`, `StaysTakenBack`). An expiry ends the grant of what it removes, and no other grant (`ExpireTables`).

The other half is about `self._lock`. `LineInv` says who is queued for the lock of a node: coroutines of
this node that are at a place where they need it, each once (only "apply" may stand there for
several), and that `mutex` is the one coroutine that holds it over an `await`. A
coroutine leaves the queue when it gets the lock, so nobody is in line for
what it has, except through `Stick`, where "apply" is. `WaitInv` is what
`NoGhostWaiter` is about: every path on which a request is answered, woken or
aborted takes it off the list of its key first, along with its client's other
requests. `LocksGuarded` looks at a step that starts and ends with the lock held: nothing
that changes the table of a node can run then.

**The argument for the graph search.** `Search` is a function that is chosen: the proof first shows that there is one.
A loop calls `dfs` with a longer path or goes on with fewer elements left, so a rank
falls (`CalledFalls`, `AfterFalls`), and functions that are right up to a rank extend to the next (`SearchesFurther`).
What a search finds then goes by the least rank at which it would be wrong. The difficulty is the
visited set, which roots share: a client that was visited and is not on the path is skipped, so skipping it must be
harmless. Such clients are *Finished*: what they wait for is visited as well, and
none of them is on a cycle. A visited client that has been left becomes one of them (`FinishesOne`), for a cycle
through it would pass through the path and have been found. A neighbour on the path closes a cycle (`ClosesCycle`), and
the part of the path from it on is what is returned. `VisitLeaves` and `RunLeaves` carry
this through one element and through a loop. At the end every client is
finished, or a cycle was returned. `DeadlocksBroken` follows: the victim is on the cycle, so it reaches
itself (`CycleReaches`), only its requests are taken off the lists, and its edges go.

**The argument for the cache.** A step is of one of two kinds (`EveryStep`): it
applies the next entry on one node, or it leaves all values, and the part of the log that is
applied, as they are and makes no key valid. `NoStaleHit` speaks of valid keys
only and is not inductive: nothing in it says what an invalid key would show once a
state made it valid. `CacheInv` says of every cached key, valid or not, that
its value is that of the last command for it (`AllNewest`), and that a cache without
room has no keys (`NoRoom`), since there a put leaves the old state. That the applied
part of the log stays comes from `Consensus`, where a failover keeps what is
committed. The refinement maps `past` to the positions of the applied commands of
a key, so that a step of the first kind is `Arrive` and all others are `Forget`. Neither
proof needs to know which key is evicted: they hold for any choice. `TypeOK` does
(`StoreOK`): the order must have each cached key once, so that a full cache has a
coldest key to evict (`ColdestIsThere`), and exactly one.

**Sequences.** The code rebuilds a list without some elements in two services. The
model writes it as `Without`, a recursive function, since the provers know nothing of
`SelectSeq`. `ListProofs` shows what it leaves (`WithoutLeaves`). A fact about every length is
proved there by its least counterexample: a set of naturals that is not empty has a least element
(`LeastExists`, from the library's theorem on well-founded relations). This takes the
place of the induction theorems, which have an operator as parameter.

**Only model-checked**:

* Liveness (`EventuallyApplied`, `Redelivered`), which TLAPS does not do.
* The four violations.

## 5. What is not modelled

* The message bus: nothing in the repository makes one. `RaftNode` and `CacheNode` post
  their requests themselves, and what may happen to these is in their models.
* The failure detector: nothing calls it either, and its decisions are floating-point
  logarithms of measured intervals, which TLC cannot compute.
* The HTTP shell: its routes hand their body to `RaftNode` and its answer back; `propose`
  and `is_leader` are read in where the services call them. Configuration, metrics, entry
  points and the benchmark have no behaviour to check.
* In modelled components, what nothing uses: `match_index`, `_client_locks`,
  `consistent_hash`, `WaitForGraph.clear`, the share handler of the cache.
* Time. Expiry, timeouts and TTLs may come at any moment, so nothing is said of how
  long anything takes, nor of elections that start because a round to a dead peer takes
  longer than the election timeout.

## 6. What is left

The components are modelled and checked, and every safety property the runs check is proved. Three
questions are open.

1. Commitment beyond the first change of leader. `StateMachineSafety` fails there (`raft_diverge`), so a
   theorem would have to say of which entries it holds: those of the leader's own term that were in every request
   of the round that committed them.
2. Which deadlocks of clients that do wait are found. The search is right about the graph, but
   edges outlive waits and are not added for later holders (`lock_manager.py:188`), so a theorem
   about waits would need the code to change first.
3. Liveness, which is out of the prover's reach: `EventuallyApplied` and `Redelivered` stay with TLC and its
   bounds.
