---------------------------- MODULE RaftRestart ----------------------------
(***************************************************************************)
(* RaftNode with processes that stop and start again.  RaftState lives in  *)
(* memory only (src/src/consensus/raft.py:29-41, 63): a node that comes    *)
(* back, as README.md:191 has it rejoin, comes back as __init__ makes it.  *)
(***************************************************************************)
EXTENDS RaftProperties

CONSTANT MaxRestarts  \* bound: restarts in a behaviour
VARIABLE restarts

ForgottenRound(r) == IF r.phase = "idle" THEN r ELSE [IdleRound EXCEPT !.phase = "done"]

\* The process ends and __init__ runs again.  Its coroutines are gone with the
\* calls they made; a client does not send an interrupted command again.
Restart(n) ==
  /\ restarts < MaxRestarts
  /\ restarts' = restarts + 1
  /\ role' = [role EXCEPT ![n] = "FOLLOWER"]
  /\ currentTerm' = [currentTerm EXCEPT ![n] = 0]
  /\ votedFor' = [votedFor EXCEPT ![n] = None]
  /\ log' = [log EXCEPT ![n] = <<>>]
  /\ commitIndex' = [commitIndex EXCEPT ![n] = -1]
  /\ applied' = [applied EXCEPT ![n] = <<>>]
  /\ leaderId' = [leaderId EXCEPT ![n] = None]
  /\ nextIndex' = [nextIndex EXCEPT ![n] = [p \in Node |-> 0]]
  /\ ballot' = [ballot EXCEPT ![n] = NoBallot]
  /\ round' = [round EXCEPT ![n] = [s \in Slot |->
       IF s = Heartbeat THEN IdleRound ELSE ForgottenRound(@[s])]]
  /\ voteReq' = {m \in voteReq : n \notin {m.from, m.to}}
  /\ appendReq' = {m \in appendReq : n \notin {m.from, m.to}}
  /\ appendResp' = {m \in appendResp : n \notin {m.from, m.to}}
  /\ UNCHANGED histVars

RestartInit == Init /\ restarts = 0

RestartNext ==
  \/ Next /\ UNCHANGED restarts
  \/ \E n \in Node : Restart(n)

RestartSpec == RestartInit /\ [][RestartNext]_<<vars, restarts>>
RestartSymmetry == Permutations(Node) \cup Permutations(Command)
=============================================================================
