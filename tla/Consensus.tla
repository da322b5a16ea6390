----------------------------- MODULE Consensus -----------------------------
(***************************************************************************)
(* RaftNode as a service sees it: is_leader(), propose() and a call of     *)
(* apply_command for every entry that is committed.  The log is that of    *)
(* CommittedLog; this module adds how far each node has applied it.        *)
(*                                                                         *)
(* Committing and applying is one piece of code (raft.py:319-323 and       *)
(* 203-205, with 329-336).  Where apply_command does not suspend, a node   *)
(* that has committed entries to apply does nothing else until it has      *)
(* applied them, and is then Settled.                                      *)
(***************************************************************************)
EXTENDS CommittedLog

VARIABLE applied   \* how many committed entries each node has applied

consensusVars == <<logVars, applied>>

ConsensusInit ==
  /\ LogInit
  /\ applied = [n \in Node |-> 0]

Settled(n) == applied[n] = commit[n]

Append1(entry) == Extend(entry) /\ UNCHANGED applied

Commit(n) == CommitAll(n) /\ UNCHANGED applied

Learn(n) == HearOfCommits(n) /\ UNCHANGED applied

\* One round of the loop of _apply_committed_entries, but for what the service
\* does with the entry
NextEntry(n) ==
  /\ applied[n] < commit[n]
  /\ applied' = [applied EXCEPT ![n] = @ + 1]
  /\ UNCHANGED logVars

\* A failover that keeps what is committed, as TakeOver assumes.  The service
\* says what becomes of entries the old leader was about to apply.
Failover(n) == TakeOver(n)
=============================================================================
