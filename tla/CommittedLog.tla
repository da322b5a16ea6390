---------------------------- MODULE CommittedLog ----------------------------
(***************************************************************************)
(* Abstract specification: a log that the leader extends, of which every   *)
(* node knows some part to be committed.  A change of leader may drop      *)
(* entries, but none that any node knows to be committed.                  *)
(*                                                                         *)
(* It is what src/src/consensus/raft.py should give the services and what  *)
(* they are built on: Consensus adds what a node has applied, RaftProper-  *)
(* ties says that RaftNode implements it as long as one node leads.        *)
(* TakeOver is an ASSUMPTION on the failovers of raft.py: everything that  *)
(* is checked or proved of a service on this log holds of failovers that   *)
(* keep what is committed, and of no others.                               *)
(***************************************************************************)
EXTENDS Naturals, Sequences

CONSTANTS
  Node,
  MaxFailovers  \* bound: changes of leader

ASSUME MaxFailoversOK == MaxFailovers \in Nat

VARIABLES
  leader,    \* the node whose role is LEADER
  log,       \* the leader's log
  commit,    \* how many entries each node knows to be committed
  failovers

logVars == <<leader, log, commit, failovers>>

LogInit ==
  /\ leader \in Node
  /\ log = <<>>
  /\ commit = [n \in Node |-> 0]
  /\ failovers = 0

\* propose() up to its first wait: the entry is in the log, and further calls
\* run until its round is over
Extend(entry) ==
  /\ log' = Append(log, entry)
  /\ UNCHANGED <<leader, commit, failovers>>

\* A round of the leader is answered by a majority
CommitAll(n) ==
  /\ n = leader
  /\ commit[n] < Len(log)
  /\ commit' = [commit EXCEPT ![n] = Len(log)]
  /\ UNCHANGED <<leader, log, failovers>>

\* A follower hears of the leader's commit index, or of an earlier one
HearOfCommits(n) ==
  /\ n # leader
  /\ \E k \in commit[n] + 1 .. commit[leader] : commit' = [commit EXCEPT ![n] = k]
  /\ UNCHANGED <<leader, log, failovers>>

\* Node n is elected.  Its log holds what is committed, and maybe more.  raft.py
\* does not see to that: voters compare logs (258-268), but a round that was
\* sent before an entry was appended commits it, too (318), so that a node
\* without a committed entry can win.  RaftDiverge.cfg shows it; here it does
\* not happen.
TakeOver(n) ==
  /\ failovers < MaxFailovers
  /\ n # leader
  /\ leader' = n
  /\ \E k \in 0 .. Len(log) :
       /\ \A p \in Node : commit[p] <= k
       /\ log' = SubSeq(log, 1, k)
  /\ failovers' = failovers + 1
  /\ UNCHANGED commit

LogNext ==
  \/ log' # <<>> /\ Extend(log'[Len(log')])
  \/ \E n \in Node : CommitAll(n) \/ HearOfCommits(n) \/ TakeOver(n)

LogSpec == LogInit /\ [][LogNext]_logVars
=============================================================================
