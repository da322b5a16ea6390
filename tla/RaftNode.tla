------------------------------ MODULE RaftNode ------------------------------
(***************************************************************************)
(* The consensus core every service embeds: class RaftNode of              *)
(* src/src/consensus/raft.py, for a cluster of nodes that exchange HTTP    *)
(* calls.                                                                  *)
(*                                                                         *)
(* Each node is one asyncio event loop, so code runs atomically from one   *)
(* suspending await to the next; the actions below are exactly those       *)
(* segments.  A handler holds self._lock for its whole body and suspends   *)
(* nowhere as long as the apply callback does not (the queue's and the     *)
(* cache's never do), hence one action per handler.  The two long-running  *)
(* coroutines are cut where they await the network:                        *)
(*   _start_election : StartElection ... Tally                             *)
(*   _replicate_log  : BeginHeartbeat or Propose ... SendRound ...         *)
(*                     Deliver per peer ... FinishRound                    *)
(* Between BeginHeartbeat/Propose and SendRound the per-peer tasks have    *)
(* been created but have not run: other handlers of the node may run       *)
(* first, and SendRound then reads whatever term and log it finds.         *)
(*                                                                         *)
(* Indexes are those of the code: positions count from 0 and -1 means      *)
(* "none", so code position i is log[n][i + 1].  An entry's own index      *)
(* field always equals its position and is left out; match_index, the      *)
(* timers and the metrics are written but never decide anything here.      *)
(***************************************************************************)
EXTENDS Integers, Sequences, FiniteSets

CONSTANTS
  Node,        \* the members of the cluster
  Command,     \* client commands, each proposed at most once
  Heartbeat,   \* names the round run by _heartbeat_loop
  None,        \* Python's None
  MaxTerm,     \* bound: no election starts beyond this term
  MaxStray     \* bound: timed-out AppendEntries requests still in the network

ASSUME ConstantsOK ==
  /\ IsFiniteSet(Node) /\ Node # {}
  /\ None \notin Node \cup Command \cup {Heartbeat}
  /\ Heartbeat \notin Command
  /\ MaxTerm \in Nat /\ MaxStray \in Nat

VARIABLES
  role, currentTerm, votedFor, log, commitIndex, leaderId, nextIndex,
  applied,     \* the commands handed to apply_callback, in order
  ballot,      \* the running _start_election coroutine of each node
  round,       \* the _replicate_log coroutines: one per heartbeat loop or propose
  voteReq,     \* RequestVote requests not yet handled
  appendReq,   \* AppendEntries requests not yet handled
  appendResp,  \* AppendEntries responses on their way to a waiting call
  elected,     \* history: every election won, with the votes it was won by
  acked        \* history: commands whose propose() returned True

nodeVars  == <<role, currentTerm, votedFor>>
stateVars == <<log, commitIndex, applied>>
netVars   == <<voteReq, appendReq, appendResp>>
histVars  == <<elected, acked>>
vars == <<nodeVars, stateVars, leaderId, nextIndex, ballot, round, netVars, histVars>>

-----------------------------------------------------------------------------
Role  == {"FOLLOWER", "CANDIDATE", "LEADER"}
Entry == [term : Nat, command : Command]
Slot  == Command \cup {Heartbeat}     \* which coroutine of a node runs the round
Index == Nat \cup {-1}

Ballot == [open : BOOLEAN, term : Nat, waiting : SUBSET Node,
           votes : SUBSET Node, terms : SUBSET Nat]
Round  == [phase : {"idle", "ready", "sent", "done"}, waiting : SUBSET Node,
           acks : SUBSET Node, terms : SUBSET Nat]

VoteRequest   == [from : Node, to : Node, term : Nat,
                  lastIndex : Index, lastTerm : Index]
AppendRequest == [from : Node, to : Node, slot : Slot \cup {None}, term : Nat,
                  prevIndex : Index, prevTerm : Index,
                  entries : Seq(Entry), commit : Index]
AppendReply   == [from : Node, to : Node, slot : Slot, term : Nat,
                  success : BOOLEAN]
Victory       == [term : Nat, leader : Node, voters : SUBSET Node]

NoBallot  == [open |-> FALSE, term |-> 0, waiting |-> {}, votes |-> {}, terms |-> {}]
IdleRound == [phase |-> "idle", waiting |-> {}, acks |-> {}, terms |-> {}]

Peers(n) == Node \ {n}
HalfOfNodes == Cardinality(Node) \div 2                       \* mutant of Majority
Majority == Cardinality(Node) \div 2 + 1
LastIndex(n) == Len(log[n]) - 1
LastTerm(n)  == IF log[n] = <<>> THEN -1 ELSE log[n][Len(log[n])].term

\* Every variable keeps to the values the code gives it: next_index is never
\* negative (raft.py:375), a queued response always names the call it is for.
TypeOK ==
  /\ role \in [Node -> Role]
  /\ currentTerm \in [Node -> Nat]
  /\ votedFor \in [Node -> Node \cup {None}]
  /\ log \in [Node -> Seq(Entry)]
  /\ commitIndex \in [Node -> Index]
  /\ applied \in [Node -> Seq(Command)]
  /\ leaderId \in [Node -> Node \cup {None}]
  /\ nextIndex \in [Node -> [Node -> Nat]]
  /\ ballot \in [Node -> Ballot]
  /\ round \in [Node -> [Slot -> Round]]
  /\ voteReq \subseteq VoteRequest
  /\ appendReq \subseteq AppendRequest
  /\ appendResp \subseteq AppendReply
  /\ elected \subseteq Victory
  /\ acked \subseteq Command

-----------------------------------------------------------------------------
Init ==
  /\ role = [n \in Node |-> "FOLLOWER"]
  /\ currentTerm = [n \in Node |-> 0]
  /\ votedFor = [n \in Node |-> None]
  /\ log = [n \in Node |-> <<>>]
  /\ commitIndex = [n \in Node |-> -1]
  /\ applied = [n \in Node |-> <<>>]
  /\ leaderId = [n \in Node |-> None]
  /\ nextIndex = [n \in Node |-> [p \in Node |-> 0]]
  /\ ballot = [n \in Node |-> NoBallot]
  /\ round = [n \in Node |-> [s \in Slot |-> IdleRound]]
  /\ voteReq = {} /\ appendReq = {} /\ appendResp = {}
  /\ elected = {} /\ acked = {}

-----------------------------------------------------------------------------
(***************************************************************************)
(* Cancelling the heartbeat task: its round is forgotten, responses to it  *)
(* are read by nobody, requests already posted still reach their peer.     *)
(***************************************************************************)
Abandoned(reqs, n, s) ==
  {IF m.from = n /\ m.slot = s THEN [m EXCEPT !.slot = None] ELSE m : m \in reqs}

Unawaited(resps, n, s) == {m \in resps : ~(m.to = n /\ m.slot = s)}

\* _become_follower(term), except for what it does to the heartbeat task
StepDownInTermOnly(n, term) ==                                 \* mutant of StepDown
  /\ UNCHANGED role
  /\ currentTerm' = [currentTerm EXCEPT ![n] = term]
  /\ votedFor' = [votedFor EXCEPT ![n] = None]

StepDown(n, term) ==
  /\ role' = [role EXCEPT ![n] = "FOLLOWER"]
  /\ currentTerm' = [currentTerm EXCEPT ![n] = term]
  /\ votedFor' = [votedFor EXCEPT ![n] = None]

CancelHeartbeat(n) ==
  /\ round' = [round EXCEPT ![n][Heartbeat] = IdleRound]
  /\ appendReq' = Abandoned(appendReq, n, Heartbeat)
  /\ appendResp' = Unawaited(appendResp, n, Heartbeat)

(***************************************************************************)
(* Elections                                                               *)
(***************************************************************************)

\* _election_timer_loop fires; _start_election up to its await of the votes.
\* The timer loop awaits the election, so a node runs one at a time.
StartElection(n) ==
  /\ role[n] # "LEADER"
  /\ ~ballot[n].open
  /\ currentTerm[n] < MaxTerm
  /\ LET term == currentTerm[n] + 1 IN
     /\ role' = [role EXCEPT ![n] = "CANDIDATE"]
     /\ currentTerm' = [currentTerm EXCEPT ![n] = term]
     /\ votedFor' = [votedFor EXCEPT ![n] = n]
     /\ ballot' = [ballot EXCEPT ![n] =
          [open |-> TRUE, term |-> term, waiting |-> Peers(n),
           votes |-> {n}, terms |-> {}]]
     /\ voteReq' = voteReq \cup
          {[from |-> n, to |-> p, term |-> term,
            lastIndex |-> LastIndex(n), lastTerm |-> LastTerm(n)] : p \in Peers(n)}
  /\ UNCHANGED <<stateVars, leaderId, nextIndex, round, appendReq, appendResp, histVars>>

\* _is_log_up_to_date
UpToDate(n, lastIndex, lastTerm) ==
  \/ log[n] = <<>>
  \/ lastTerm > LastTerm(n)
  \/ lastTerm = LastTerm(n) /\ lastIndex >= LastIndex(n)

VoteForgotten(p, m) == None                                    \* mutant of VoteLeft

\* The vote p has left in the candidate's term once a newer term is adopted
VoteLeft(p, m) == IF m.term > currentTerm[p] THEN None ELSE votedFor[p]

Grants(p, m) ==
  /\ m.term >= currentTerm[p]
  /\ VoteLeft(p, m) \in {None, m.from}
  /\ UpToDate(p, m.lastIndex, m.lastTerm)

\* The election still waits for this peer's answer
Awaited(m) ==
  /\ ballot[m.from].open
  /\ ballot[m.from].term = m.term
  /\ m.to \in ballot[m.from].waiting

WithAnswer(b, p, granted, term) ==
  [b EXCEPT !.waiting = @ \ {p},
            !.votes = IF granted THEN @ \cup {p} ELSE @,
            !.terms = IF granted THEN @ ELSE @ \cup {term}]

\* handle_request_vote on node m.to.  The response goes straight into the
\* candidate's results, which nobody looks at before the last one is in, or
\* comes too late and counts for nothing.
HandleRequestVote(m) ==
  LET p == m.to
      newer == m.term > currentTerm[p]
  IN
  /\ role' = [role EXCEPT ![p] = IF newer THEN "FOLLOWER" ELSE @]
  /\ currentTerm' = [currentTerm EXCEPT ![p] = IF newer THEN m.term ELSE @]
  /\ votedFor' = [votedFor EXCEPT ![p] = IF Grants(p, m) THEN m.from ELSE VoteLeft(p, m)]
  /\ IF newer THEN CancelHeartbeat(p) ELSE UNCHANGED <<round, appendReq, appendResp>>
  /\ voteReq' = voteReq \ {m}
  /\ \/ ballot' = ballot
     \/ /\ Awaited(m)
        /\ ballot' = [ballot EXCEPT ![m.from] =
                        WithAnswer(@, p, Grants(p, m), currentTerm'[p])]
  /\ UNCHANGED <<stateVars, leaderId, nextIndex, histVars>>

\* _become_leader; an old heartbeat task is cancelled, a new one starts
BecomeLeader(n) ==
  /\ role' = [role EXCEPT ![n] = "LEADER"]
  /\ leaderId' = [leaderId EXCEPT ![n] = n]
  /\ nextIndex' = [nextIndex EXCEPT ![n] = [p \in Node |-> Len(log[n])]]
  /\ CancelHeartbeat(n)
  /\ elected' = elected \cup
       {[term |-> currentTerm[n], leader |-> n, voters |-> ballot[n].votes]}

\* _start_election after its gather.  Calls still waiting have given up (0.5 s
\* timeout, connection error) and count as None; their requests may yet be
\* handled, or never.
Tally(n) ==
  LET newer == {t \in ballot[n].terms : t > currentTerm[n]} IN
  /\ ballot[n].open
  /\ ballot' = [ballot EXCEPT ![n] = NoBallot]
  /\ \/ /\ \E t \in newer : StepDown(n, t)
        /\ CancelHeartbeat(n)
        /\ UNCHANGED <<leaderId, nextIndex, elected>>
     \/ /\ newer = {}
        /\ role[n] = "CANDIDATE"
        /\ Cardinality(ballot[n].votes) >= Majority
        /\ BecomeLeader(n)
        /\ UNCHANGED <<currentTerm, votedFor>>
     \/ /\ newer = {}
        /\ ~(role[n] = "CANDIDATE" /\ Cardinality(ballot[n].votes) >= Majority)
        /\ role' = [role EXCEPT ![n] = IF @ = "CANDIDATE" THEN "FOLLOWER" ELSE @]
        /\ UNCHANGED <<currentTerm, votedFor, leaderId, nextIndex, elected,
                       round, appendReq, appendResp>>
  /\ UNCHANGED <<stateVars, voteReq, acked>>

-----------------------------------------------------------------------------
(***************************************************************************)
(* Replication                                                             *)
(***************************************************************************)

NotFollower(n) == role[n] # "FOLLOWER"                         \* mutant of IsLeader
IsLeader(n) == role[n] = "LEADER"

\* propose(): append to the own log, then _replicate_log up to its gather
Propose(n, c) ==
  /\ IsLeader(n)
  /\ \A m \in Node : round[m][c].phase = "idle"
  /\ log' = [log EXCEPT ![n] = Append(@, [term |-> currentTerm[n], command |-> c])]
  /\ round' = [round EXCEPT ![n][c] = [IdleRound EXCEPT !.phase = "ready"]]
  /\ UNCHANGED <<nodeVars, commitIndex, applied, leaderId, nextIndex, ballot,
                 netVars, histVars>>

\* _heartbeat_loop: the role check and _replicate_log up to its gather
BeginHeartbeat(n) ==
  /\ IsLeader(n)
  /\ round[n][Heartbeat].phase = "idle"
  /\ round' = [round EXCEPT ![n][Heartbeat] = [IdleRound EXCEPT !.phase = "ready"]]
  /\ UNCHANGED <<nodeVars, stateVars, leaderId, nextIndex, ballot, netVars, histVars>>

\* log[prev_index] raises IndexError inside _send_append_entries
BadPrev(n, p) == log[n] # <<>> /\ nextIndex[n][p] > Len(log[n])

\* The body _send_append_entries posts, from the state it finds when it runs
AppendBody(n, p, s) ==
  LET prev == nextIndex[n][p] - 1 IN
  [from |-> n, to |-> p, slot |-> s, term |-> currentTerm[n],
   prevIndex |-> prev,
   prevTerm  |-> IF prev >= 0 /\ log[n] # <<>> THEN log[n][prev + 1].term ELSE -1,
   entries   |-> SubSeq(log[n], prev + 2, Len(log[n])),
   commit    |-> commitIndex[n]]

\* The tasks made by gather run one after the other, each up to its post
SendRound(n, s) ==
  LET sendable == {p \in Peers(n) : ~BadPrev(n, p)} IN
  /\ round[n][s].phase = "ready"
  /\ round' = [round EXCEPT ![n][s].phase = "sent", ![n][s].waiting = sendable]
  /\ appendReq' = appendReq \cup {AppendBody(n, p, s) : p \in sendable}
  /\ UNCHANGED <<nodeVars, stateVars, leaderId, nextIndex, ballot,
                 voteReq, appendResp, histVars>>

-----------------------------------------------------------------------------
(***************************************************************************)
(* handle_append_entries on node m.to                                      *)
(***************************************************************************)

\* The loop over entries: keep what agrees, and from the first sent position
\* on that is missing or has another term, take the leader's.
AppendAll(lg, prevIndex, entries) == lg \o entries             \* mutant of Merge

Merge(lg, prevIndex, entries) ==
  LET end  == prevIndex + 1 + Len(entries)
      sent == prevIndex + 2 .. end
      differs(i) == i > Len(lg) \/ lg[i].term # entries[i - prevIndex - 1].term
      replaced(i) == \E k \in sent : k <= i /\ differs(k)
  IN [i \in 1 .. (IF replaced(end) THEN end ELSE Len(lg)) |->
        IF replaced(i) THEN entries[i - prevIndex - 1] ELSE lg[i]]

Stale(m)    == m.term < currentTerm[m.to]
TooShort(m) == m.prevIndex >= 0 /\ Len(log[m.to]) <= m.prevIndex
Conflict(m) == /\ m.prevIndex >= 0
               /\ Len(log[m.to]) > m.prevIndex
               /\ log[m.to][m.prevIndex + 1].term # m.prevTerm

\* The commands _apply_committed_entries has handed over once it reaches ci
AppliedNewest(done, lg, ci) == Append(done, lg[ci + 1].command) \* mutant of AppliedUpTo

AppliedAgain(done, lg, ci) == done \o [i \in 1 .. ci + 1 |-> lg[i].command] \* mutant, too

AppliedUpTo(done, lg, ci) ==
  IF ci < Len(done) THEN done
  ELSE [i \in 1 .. ci + 1 |-> IF i <= Len(done) THEN done[i] ELSE lg[i].command]

\* The response, if the sender still has a call waiting for it, and the
\* request leaves the network
Respond(m, success, term, reqs, resps) ==
  /\ appendReq' = reqs
  /\ appendResp' = IF m.slot = None THEN resps
                   ELSE resps \cup {[from |-> m.to, to |-> m.from, slot |-> m.slot,
                                     term |-> term, success |-> success]}

RejectStale(m) ==
  /\ Stale(m)
  /\ Respond(m, FALSE, currentTerm[m.to], appendReq \ {m}, appendResp)
  /\ UNCHANGED <<nodeVars, stateVars, leaderId, round>>

\* What a request of a current or newer term does before the log is looked at
Follow(m, success) ==
  LET p == m.to
      newer == m.term > currentTerm[p]
      reqs == appendReq \ {m}
  IN
  /\ ~Stale(m)
  /\ role' = [role EXCEPT ![p] = "FOLLOWER"]
  /\ currentTerm' = [currentTerm EXCEPT ![p] = m.term]
  /\ votedFor' = [votedFor EXCEPT ![p] = IF newer THEN None ELSE @]
  /\ leaderId' = [leaderId EXCEPT ![p] = m.from]
  /\ round' = IF newer THEN [round EXCEPT ![p][Heartbeat] = IdleRound] ELSE round
  /\ IF newer
     THEN Respond(m, success, m.term, Abandoned(reqs, p, Heartbeat),
                  Unawaited(appendResp, p, Heartbeat))
     ELSE Respond(m, success, m.term, reqs, appendResp)

RejectMismatch(m) ==
  /\ Follow(m, FALSE)
  /\ TooShort(m) \/ Conflict(m)
  /\ log' = IF TooShort(m) THEN log
            ELSE [log EXCEPT ![m.to] = SubSeq(@, 1, m.prevIndex)]
  /\ UNCHANGED <<commitIndex, applied>>

HeardAll(p, leaderCommit, last) ==                             \* mutant of Heard
  IF leaderCommit <= commitIndex[p] THEN commitIndex[p] ELSE last

\* The commit index p has once it hears of its leader's
Heard(p, leaderCommit, last) ==
  IF leaderCommit <= commitIndex[p] THEN commitIndex[p]
  ELSE IF leaderCommit < last THEN leaderCommit ELSE last

AcceptEntries(m) ==
  LET p == m.to
      merged == Merge(log[p], m.prevIndex, m.entries)
      commit == Heard(p, m.commit, Len(merged) - 1)
  IN
  /\ Follow(m, TRUE)
  /\ ~TooShort(m) /\ ~Conflict(m)
  /\ log' = [log EXCEPT ![p] = merged]
  /\ commitIndex' = [commitIndex EXCEPT ![p] = commit]
  /\ applied' = [applied EXCEPT ![p] =
                   IF m.commit > commitIndex[p] THEN AppliedUpTo(@, merged, commit) ELSE @]

HandleAppendEntries(m) ==
  /\ RejectStale(m) \/ RejectMismatch(m) \/ AcceptEntries(m)
  /\ UNCHANGED <<nextIndex, ballot, voteReq, histVars>>

-----------------------------------------------------------------------------
\* next_index of peer p once its answer is in; set from the log as it is now,
\* which may have grown or shrunk since the request was sent
BackOffUnclamped(n, p, success) ==                             \* mutant of NextAfterReply
  IF success THEN Len(log[n]) ELSE nextIndex[n][p] - 1

NeverBackOff(n, p, success) ==                                 \* mutant, too
  IF success THEN Len(log[n]) ELSE nextIndex[n][p]

OnePastNext(n, p, success) ==                                  \* mutant, too
  IF success THEN Len(log[n]) + 1 ELSE IF nextIndex[n][p] > 0 THEN nextIndex[n][p] - 1 ELSE 0

NextAfterReply(n, p, success) ==
  IF success THEN Len(log[n]) ELSE IF nextIndex[n][p] > 0 THEN nextIndex[n][p] - 1 ELSE 0

Answered(rd, r) ==
  [rd EXCEPT !.waiting = @ \ {r.from},
             !.acks = IF r.success THEN @ \cup {r.from} ELSE @,
             !.terms = IF r.success THEN @ ELSE @ \cup {r.term}]

\* _send_append_entries receives its response
Deliver(r) ==
  LET n == r.to IN
  /\ nextIndex' = [nextIndex EXCEPT ![n][r.from] = NextAfterReply(n, r.from, r.success)]
  /\ round' = [round EXCEPT ![n][r.slot] = Answered(@, r)]
  /\ appendResp' = appendResp \ {r}
  /\ UNCHANGED <<nodeVars, stateVars, leaderId, ballot, voteReq, appendReq, histVars>>

(***************************************************************************)
(* _replicate_log after its gather.  Calls still waiting have given up and *)
(* count as None: a response on its way is dropped, a request not handled  *)
(* yet is lost or, up to MaxStray of them, outlives its call.              *)
(***************************************************************************)
Orphaned(n, s, reqs) ==
  LET waiting == {m \in reqs : m.from = n /\ m.slot = s}
      strays  == {m \in reqs : m.slot = None}
      few(k)  == k = {} \/ Cardinality(k) + Cardinality(strays) <= MaxStray
  IN {(reqs \ waiting) \cup Abandoned(kept, n, s) : kept \in {k \in SUBSET waiting : few(k)}}

LeaderCountedTwice(rd) == Cardinality(rd.acks) + 2 >= Majority  \* mutant of Enough
Enough(rd) == Cardinality(rd.acks) + 1 >= Majority

\* Step down, commit up to the end of the log as it is now, or nothing.  The
\* node's role is not looked at again.
FinishRound(n, s) ==
  LET newer == {t \in round[n][s].terms : t > currentTerm[n]}
      ended == IF s = Heartbeat THEN IdleRound ELSE [IdleRound EXCEPT !.phase = "done"]
      commit == IF LastIndex(n) > commitIndex[n] THEN LastIndex(n) ELSE commitIndex[n]
  IN
  /\ round[n][s].phase = "sent"
  /\ \/ /\ \E t \in newer : StepDown(n, t)
        /\ round' = [round EXCEPT ![n][s] = ended, ![n][Heartbeat] = IdleRound]
        /\ appendReq' \in Orphaned(n, s, Abandoned(appendReq, n, Heartbeat))
        /\ appendResp' = Unawaited(Unawaited(appendResp, n, s), n, Heartbeat)
        /\ UNCHANGED <<commitIndex, applied, acked>>
     \/ /\ newer = {}
        /\ IF Enough(round[n][s])
           THEN /\ commitIndex' = [commitIndex EXCEPT ![n] = commit]
                /\ applied' = [applied EXCEPT ![n] =
                                 IF LastIndex(n) > commitIndex[n]
                                 THEN AppliedUpTo(@, log[n], commit) ELSE @]
                /\ acked' = acked \cup ({s} \ {Heartbeat})
           ELSE UNCHANGED <<commitIndex, applied, acked>>
        /\ round' = [round EXCEPT ![n][s] = ended]
        /\ appendReq' \in Orphaned(n, s, appendReq)
        /\ appendResp' = Unawaited(appendResp, n, s)
        /\ UNCHANGED nodeVars
  /\ UNCHANGED <<log, leaderId, nextIndex, ballot, voteReq, elected>>

-----------------------------------------------------------------------------
Next ==
  \/ \E n \in Node : StartElection(n) \/ Tally(n) \/ BeginHeartbeat(n)
  \/ \E m \in voteReq : HandleRequestVote(m)
  \/ \E n \in Node, c \in Command : Propose(n, c)
  \/ \E n \in Node, s \in Slot : SendRound(n, s) \/ FinishRound(n, s)
  \/ \E m \in appendReq : HandleAppendEntries(m)
  \/ \E r \in appendResp : Deliver(r)

Spec == Init /\ [][Next]_vars

\* The event loop runs every task that is ready, and an election or a round
\* ends at the latest when its 0.5 s timeouts do.  An AppendEntries call that
\* is made again and again does not time out for ever.
AppendTo(n, p)  == \E m \in appendReq : m.from = n /\ m.to = p /\ HandleAppendEntries(m)
AnswerTo(n, p)  == \E r \in appendResp : r.to = n /\ r.from = p /\ Deliver(r)

Fairness(n) ==
  /\ WF_vars(Tally(n)) /\ WF_vars(BeginHeartbeat(n))
  /\ \A s \in Slot : WF_vars(SendRound(n, s)) /\ WF_vars(FinishRound(n, s))
  /\ \A p \in Peers(n) : SF_vars(AppendTo(n, p)) /\ SF_vars(AnswerTo(n, p))

FairSpec == Spec /\ \A n \in Node : Fairness(n)

=============================================================================
