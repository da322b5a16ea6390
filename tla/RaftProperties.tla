--------------------------- MODULE RaftProperties ---------------------------
(***************************************************************************)
(* What RaftNode must and must not do, and the abstract specifications it  *)
(* implements.                                                             *)
(***************************************************************************)
EXTENDS RaftNode, SequencesExt

\* A term has at most one leader, whatever requests are lost, late or answered
\* after the candidate gave up: the point of handle_request_vote's bookkeeping
\* (raft.py:147-156) and of the majority test (raft.py:258).
ElectionSafety ==
  \A e1, e2 \in elected : e1.term = e2.term => e1.leader = e2.leader

\* The vote of p in this term can go to no other candidate any more
VoteSpent(p, term, candidate) ==
  \/ currentTerm[p] > term
  \/ currentTerm[p] = term /\ votedFor[p] = candidate

\* The votes counted so far by running elections, and by the ones won
Counted ==
  elected \cup
  {[term |-> ballot[n].term, leader |-> n, voters |-> ballot[n].votes] :
     n \in {k \in Node : ballot[k].open}}

VotesBacked ==
  \A b \in Counted : \A p \in b.voters : VoteSpent(p, b.term, b.leader)

DisjointVotes ==
  \A b1, b2 \in Counted :
    b1.term = b2.term /\ b1.leader # b2.leader => b1.voters \cap b2.voters = {}

\* A vote is cast once: every vote a candidate has counted is still held by the
\* voter or overtaken by a newer term, and no voter is counted by two
\* candidates of one term, even with answers to an older election under way
\* (raft.py:144-158 against raft.py:248-253).
VoteCastOnce == VotesBacked /\ DisjointVotes

\* With what follows, inductive: ElectionInv proves ElectionSafety and
\* LeaderHintWon for clusters of any size.
WonByMajority == \A e \in elected : Cardinality(e.voters) >= Majority

CandidateRuns ==
  \A n \in Node : role[n] = "CANDIDATE" => ballot[n].open /\ ballot[n].term = currentTerm[n]

WinsArePast ==
  \A e \in elected :
    /\ e.term <= currentTerm[e.leader]
    /\ ballot[e.leader].open => e.term < ballot[e.leader].term

LeadersWon ==
  \A n \in Node : role[n] = "LEADER" =>
    \E e \in elected : e.leader = n /\ e.term = currentTerm[n]

\* n has won an election of term t or before
HasWon(n, t) == \E e \in elected : e.leader = n /\ e.term <= t

\* Only a node that has won sends AppendEntries, though not always in a term
\* that it won (raft.py:298 checks the role, raft.py:358 reads the term later).
SendersWon ==
  /\ \A n \in Node, s \in Slot : round[n][s].phase = "ready" => HasWon(n, currentTerm[n])
  /\ \A m \in appendReq : HasWon(m.from, m.term)

ElectionInv ==
  /\ VotesBacked /\ DisjointVotes /\ WonByMajority
  /\ CandidateRuns /\ WinsArePast /\ LeadersWon /\ SendersWon

\* A node that names a leader names one that did win an election, of a term
\* the node has reached: leader_id (raft.py:177, 268) is where the services
\* redirect their clients to.
LeaderHintWon ==
  \A n \in Node : leaderId[n] # None => HasWon(leaderId[n], currentTerm[n])

\* Two logs with the same term at some position agree on everything up to it:
\* the consistency check and the truncation of handle_append_entries
\* (raft.py:183-200), even for requests a deposed leader sends with a term it
\* never won.
LogMatching ==
  \A n, p \in Node : \A i \in DOMAIN log[n] \cap DOMAIN log[p] :
    log[n][i].term = log[p][i].term => SubSeq(log[n], 1, i) = SubSeq(log[p], 1, i)

\* A leader's next_index never runs past its log, so that log[prev_index]
\* (raft.py:353) raises no IndexError and the peer is not skipped for ever.
LeaderCanSend ==
  \A n \in Node : role[n] = "LEADER" => \A p \in Peers(n) : ~BadPrev(n, p)

\* Nodes apply the same commands in the same order (raft.py:327-336).
StateMachineSafety ==
  \A n, p \in Node : IsPrefix(applied[n], applied[p]) \/ IsPrefix(applied[p], applied[n])

\* What a node has applied is its log up to commit_index, no entry skipped and
\* none applied twice (raft.py:329-331 with 204 and 318).
AppliedIsLogPrefix ==
  \A n \in Node :
    applied[n] = [i \in 1 .. commitIndex[n] + 1 |-> log[n][i].command]

\* No second node has won an election so far; the one that did may have been
\* deposed and may have won again.
OneLeader == \A e1, e2 \in elected : e1.leader = e2.leader

Holders(c) == {n \in Node : \E i \in DOMAIN log[n] : log[n][i].command = c}

\* propose() answers True only for a command that a majority holds
\* (raft.py:96), and goes on holding.
CommittedByMajority == \A c \in acked : Cardinality(Holders(c)) >= Majority

\* An entry in the log of a leader that stays in office reaches every node's
\* state machine: retries with a smaller next_index heal a follower that is
\* behind or whose progress was overestimated (raft.py:371-375).
EventuallyApplied ==
  \A c \in Command :
    (\E n \in Node : role[n] = "LEADER" /\ n \in Holders(c))
      ~> (\A n \in Node : c \in ToSet(applied[n]))

-----------------------------------------------------------------------------
ElectionsView == INSTANCE Elections WITH
  term <- currentTerm,
  leading <- {n \in Node : role[n] = "LEADER"},
  won <- {<<e.term, e.leader>> : e \in elected}

\* The code implements Elections: every step is one of its steps or none.
ImplementsElections == ElectionsView!Spec

ReplicatedLogView == INSTANCE ReplicatedLog WITH
  proposed <- {c \in Command : \E n \in Node : round[n][c].phase # "idle"},
  decided <- applied[CHOOSE n \in Node : \A p \in Node : Len(applied[p]) <= Len(applied[n])],
  learned <- applied

\* As long as no second node wins, the code implements ReplicatedLog.
ImplementsReplicatedLog == ReplicatedLogView!Spec

\* The node that leads; before the first election, any one
Someone == CHOOSE n \in Node : TRUE
Winner  == IF elected = {} THEN Someone ELSE (CHOOSE e \in elected : TRUE).leader

CommittedLogView == INSTANCE CommittedLog WITH
  leader <- Winner,
  log <- log[Winner],
  commit <- [n \in Node |-> commitIndex[n] + 1],
  failovers <- IF Winner = Someone THEN 0 ELSE 1,
  MaxFailovers <- 1

\* As long as no second node wins, the code gives the services the log they are
\* built on: it only grows, the leader alone commits, its own log to the end,
\* and no follower knows more committed than the leader (raft.py:202-204,
\* 317-323).
ImplementsCommittedLog == CommittedLogView!LogSpec
=============================================================================
