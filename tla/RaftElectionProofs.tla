------------------------- MODULE RaftElectionProofs -------------------------
(***************************************************************************)
(* Leader election is safe for clusters of any size and any number of      *)
(* terms.  The argument: a vote, once counted, stays spent (VoteKept), the *)
(* sets of votes that are counted for two candidates of a term never meet  *)
(* (DisjointVotes), and two majorities always do.  Type correctness comes  *)
(* first; all that is proved about RaftNode rests on it.                   *)
(***************************************************************************)
EXTENDS RaftProperties, FiniteSetTheorems, TLAPS

LEMMA InitTypeOK == Init => TypeOK
  <1> SUFFICES ASSUME Init PROVE TypeOK OBVIOUS
  <1>1. NoBallot \in Ballot BY DEF NoBallot, Ballot
  <1>2. IdleRound \in Round BY DEF IdleRound, Round
  <1> QED BY <1>1, <1>2 DEF Init, TypeOK, Role, Index

LEMMA AbandonedType ==
  ASSUME NEW reqs \in SUBSET AppendRequest, NEW n, NEW s
  PROVE  Abandoned(reqs, n, s) \in SUBSET AppendRequest
  BY DEF Abandoned, AppendRequest

LEMMA UnawaitedType ==
  ASSUME NEW resps \in SUBSET AppendReply, NEW n, NEW s
  PROVE  Unawaited(resps, n, s) \in SUBSET AppendReply
  BY DEF Unawaited

LEMMA OrphanedType ==
  ASSUME NEW reqs \in SUBSET AppendRequest, NEW n, NEW s
  PROVE  Orphaned(n, s, reqs) \subseteq SUBSET AppendRequest
  <1> SUFFICES ASSUME NEW left \in Orphaned(n, s, reqs)
               PROVE  left \in SUBSET AppendRequest
    OBVIOUS
  <1>1. PICK kept \in SUBSET {m \in reqs : m.from = n /\ m.slot = s} :
          left = (reqs \ {m \in reqs : m.from = n /\ m.slot = s}) \cup Abandoned(kept, n, s)
    BY DEF Orphaned
  <1>2. Abandoned(kept, n, s) \in SUBSET AppendRequest BY AbandonedType
  <1> QED BY <1>1, <1>2

LEMMA MergeType ==
  ASSUME NEW lg \in Seq(Entry), NEW prevIndex \in Index, NEW entries \in Seq(Entry),
         prevIndex < Len(lg)
  PROVE  Merge(lg, prevIndex, entries) \in Seq(Entry)
  <1> DEFINE end == prevIndex + 1 + Len(entries)
             sent == prevIndex + 2 .. end
             differs(i) == i > Len(lg) \/ lg[i].term # entries[i - prevIndex - 1].term
             replaced(i) == \E k \in sent : k <= i /\ differs(k)
             size == IF replaced(end) THEN end ELSE Len(lg)
  <1>1. size \in Nat /\ end \in Nat BY DEF Index
  <1>2. ASSUME NEW i \in 1 .. size
        PROVE  (IF replaced(i) THEN entries[i - prevIndex - 1] ELSE lg[i]) \in Entry
    <2>1. CASE replaced(i)
      <3>1. PICK k \in sent : k <= i /\ differs(k) BY <2>1
      <3>2. k <= end /\ replaced(end) BY <3>1, <1>1 DEF Index
      <3>3. i - prevIndex - 1 \in 1 .. Len(entries)
        <4>1. i \in Int /\ i <= end BY <3>2
        <4>2. prevIndex + 2 <= k /\ k <= i /\ k \in Int BY <3>1 DEF Index
        <4>3. prevIndex \in Int /\ Len(entries) \in Nat /\ end = prevIndex + 1 + Len(entries)
          BY DEF Index
        <4> HIDE DEF end, sent, differs, replaced, size
        <4> QED BY <4>1, <4>2, <4>3
      <3> QED BY <2>1, <3>3
    <2>2. CASE ~replaced(i)
      <3>1. i <= Len(lg)
        <4>1. CASE replaced(end)
          <5> SUFFICES ASSUME i > Len(lg) PROVE FALSE BY DEF Index
          <5>1. i \in sent BY <4>1 DEF Index
          <5> QED BY <5>1, <2>2
        <4>2. CASE ~replaced(end) BY <4>2
        <4> QED BY <4>1, <4>2
      <3> QED BY <2>2, <3>1
    <2> QED BY <2>1, <2>2
  <1>3. Merge(lg, prevIndex, entries) =
          [i \in 1 .. size |-> IF replaced(i) THEN entries[i - prevIndex - 1] ELSE lg[i]]
    BY DEF Merge
  <1> HIDE DEF size, replaced
  <1>4. [i \in 1 .. size |-> IF replaced(i) THEN entries[i - prevIndex - 1] ELSE lg[i]]
          \in Seq(Entry)
    BY <1>1, <1>2
  <1> QED BY <1>3, <1>4

LEMMA AppliedType ==
  ASSUME NEW done \in Seq(Command), NEW lg \in Seq(Entry), NEW ci \in Index, ci < Len(lg)
  PROVE  AppliedUpTo(done, lg, ci) \in Seq(Command)
  <1>1. CASE ci < Len(done) BY <1>1 DEF AppliedUpTo
  <1>2. CASE ~(ci < Len(done))
    <2>1. ci + 1 \in Nat BY DEF Index
    <2>2. ASSUME NEW i \in 1 .. ci + 1
          PROVE  (IF i <= Len(done) THEN done[i] ELSE lg[i].command) \in Command
      <3>1. i \in 1 .. Len(lg) BY <2>1 DEF Index
      <3>2. lg[i] \in Entry BY <3>1
      <3> QED BY <3>2 DEF Entry
    <2> QED BY <1>2, <2>1, <2>2 DEF AppliedUpTo
  <1> QED BY <1>1, <1>2
-----------------------------------------------------------------------------
LEMMA LastType ==
  ASSUME TypeOK, NEW n \in Node
  PROVE  LastIndex(n) \in Index /\ LastTerm(n) \in Index
  <1>1. log[n] \in Seq(Entry) BY DEF TypeOK
  <1>2. LastIndex(n) \in Index BY <1>1 DEF LastIndex, Index
  <1>3. log[n] # <<>> => log[n][Len(log[n])] \in Entry BY <1>1
  <1> QED BY <1>2, <1>3 DEF LastTerm, Index, Entry

LEMMA TypeStartElection ==
  ASSUME TypeOK, NEW n \in Node, StartElection(n)
  PROVE  TypeOK'
  <1> USE DEF TypeOK
  <1>1. currentTerm[n] + 1 \in Nat OBVIOUS
  <1>2. LastIndex(n) \in Index /\ LastTerm(n) \in Index BY LastType
  <1>3. [open |-> TRUE, term |-> currentTerm[n] + 1, waiting |-> Peers(n),
         votes |-> {n}, terms |-> {}] \in Ballot
    BY <1>1 DEF Ballot, Peers
  <1>4. \A p \in Peers(n) : [from |-> n, to |-> p, term |-> currentTerm[n] + 1,
          lastIndex |-> LastIndex(n), lastTerm |-> LastTerm(n)] \in VoteRequest
    BY <1>1, <1>2 DEF VoteRequest, Peers
  <1> QED BY <1>1, <1>3, <1>4 DEF StartElection, stateVars, histVars, Role

LEMMA TypeCancelHeartbeat ==
  ASSUME TypeOK, NEW n \in Node, CancelHeartbeat(n)
  PROVE  /\ round' \in [Node -> [Slot -> Round]]
         /\ appendReq' \subseteq AppendRequest
         /\ appendResp' \subseteq AppendReply
  <1>1. IdleRound \in Round BY DEF IdleRound, Round
  <1> QED BY <1>1, AbandonedType, UnawaitedType DEF CancelHeartbeat, TypeOK

LEMMA TypeHandleRequestVote ==
  ASSUME TypeOK, NEW m \in voteReq, HandleRequestVote(m)
  PROVE  TypeOK'
  <1> USE DEF TypeOK
  <1>1. m.to \in Node /\ m.from \in Node /\ m.term \in Nat BY DEF VoteRequest
  <1>2. role' \in [Node -> Role] BY <1>1 DEF HandleRequestVote, Role
  <1>3. currentTerm' \in [Node -> Nat] BY <1>1 DEF HandleRequestVote
  <1>4. votedFor' \in [Node -> Node \cup {None}] BY <1>1 DEF HandleRequestVote, VoteLeft
  <1>5. /\ round' \in [Node -> [Slot -> Round]]
        /\ appendReq' \subseteq AppendRequest
        /\ appendResp' \subseteq AppendReply
    BY <1>1, TypeCancelHeartbeat DEF HandleRequestVote
  <1>6. ballot' \in [Node -> Ballot]
    <2>1. currentTerm'[m.to] \in Nat BY <1>1, <1>3
    <2>2. ballot[m.from] \in Ballot BY <1>1
    <2>3. WithAnswer(ballot[m.from], m.to, Grants(m.to, m), currentTerm'[m.to]) \in Ballot
      BY <1>1, <2>1, <2>2 DEF WithAnswer, Ballot
    <2> QED BY <1>1, <2>3 DEF HandleRequestVote
  <1> QED BY <1>2, <1>3, <1>4, <1>5, <1>6 DEF HandleRequestVote, stateVars, histVars

LEMMA TypeTally ==
  ASSUME TypeOK, NEW n \in Node, Tally(n)
  PROVE  TypeOK'
  <1> USE DEF TypeOK
  <1> DEFINE newer == {t \in ballot[n].terms : t > currentTerm[n]}
  <1>1. ballot[n].terms \subseteq Nat /\ ballot[n].votes \subseteq Node BY DEF Ballot
  <1>2. ballot' \in [Node -> Ballot]
    <2>1. NoBallot \in Ballot BY DEF NoBallot, Ballot
    <2> QED BY <2>1 DEF Tally
  <1>3. CASE /\ \E t \in newer : StepDown(n, t)
             /\ CancelHeartbeat(n)
             /\ UNCHANGED <<leaderId, nextIndex, elected>>
    <2>1. /\ role' \in [Node -> Role] /\ currentTerm' \in [Node -> Nat]
          /\ votedFor' \in [Node -> Node \cup {None}]
      BY <1>1, <1>3 DEF StepDown, Role
    <2>2. /\ round' \in [Node -> [Slot -> Round]]
          /\ appendReq' \subseteq AppendRequest /\ appendResp' \subseteq AppendReply
      BY <1>3, TypeCancelHeartbeat
    <2>3. UNCHANGED <<stateVars, voteReq, acked>> BY DEF Tally
    <2> QED BY <1>2, <1>3, <2>1, <2>2, <2>3 DEF stateVars
  <1>4. CASE BecomeLeader(n) /\ UNCHANGED <<currentTerm, votedFor>>
    <2>1. elected' \subseteq Victory BY <1>1, <1>4 DEF BecomeLeader, Victory
    <2>2. nextIndex' \in [Node -> [Node -> Nat]] BY <1>4 DEF BecomeLeader
    <2> QED BY <1>2, <1>4, <2>1, <2>2, TypeCancelHeartbeat DEF BecomeLeader, Role, Tally, stateVars
  <1>5. CASE /\ role' = [role EXCEPT ![n] = IF @ = "CANDIDATE" THEN "FOLLOWER" ELSE @]
             /\ UNCHANGED <<currentTerm, votedFor, leaderId, nextIndex, elected,
                            round, appendReq, appendResp>>
    BY <1>2, <1>5 DEF Role, Tally, stateVars
  <1> QED BY <1>3, <1>4, <1>5 DEF Tally
LEMMA TypePropose ==
  ASSUME TypeOK, NEW n \in Node, NEW c \in Command, Propose(n, c)
  PROVE  TypeOK'
  <1>1. [term |-> currentTerm[n], command |-> c] \in Entry BY DEF TypeOK, Entry
  <1>2. log' \in [Node -> Seq(Entry)] BY <1>1 DEF Propose, TypeOK
  <1>3. [IdleRound EXCEPT !.phase = "ready"] \in Round BY DEF IdleRound, Round
  <1>4. round' \in [Node -> [Slot -> Round]] BY <1>3 DEF Propose, TypeOK, Slot
  <1> QED BY <1>2, <1>4 DEF Propose, TypeOK, nodeVars, netVars, histVars

LEMMA TypeBeginHeartbeat ==
  ASSUME TypeOK, NEW n \in Node, BeginHeartbeat(n)
  PROVE  TypeOK'
  <1>1. [IdleRound EXCEPT !.phase = "ready"] \in Round BY DEF IdleRound, Round
  <1>2. round' \in [Node -> [Slot -> Round]] BY <1>1 DEF BeginHeartbeat, TypeOK, Slot
  <1> QED BY <1>2 DEF BeginHeartbeat, TypeOK, nodeVars, stateVars, netVars, histVars

LEMMA AppendBodyType ==
  ASSUME TypeOK, NEW n \in Node, NEW p \in Node, NEW s \in Slot, ~BadPrev(n, p)
  PROVE  AppendBody(n, p, s) \in AppendRequest
  <1> DEFINE prev == nextIndex[n][p] - 1
             prevTerm == IF prev >= 0 /\ log[n] # <<>> THEN log[n][prev + 1].term ELSE -1
  <1>1. log[n] \in Seq(Entry) /\ nextIndex[n][p] \in Nat BY DEF TypeOK
  <1>2. prev \in Index BY <1>1 DEF Index
  <1>3. prevTerm \in Index
    <2>1. CASE prev >= 0 /\ log[n] # <<>>
      <3>1. prev + 1 \in 1 .. Len(log[n]) BY <1>1, <2>1 DEF BadPrev
      <3>2. log[n][prev + 1] \in Entry BY <1>1, <3>1
      <3> QED BY <2>1, <3>2 DEF Entry, Index
    <2>2. CASE ~(prev >= 0 /\ log[n] # <<>>) BY <2>2 DEF Index
    <2> QED BY <2>1, <2>2
  <1>4. SubSeq(log[n], prev + 2, Len(log[n])) \in Seq(Entry) BY <1>1
  <1>5. currentTerm[n] \in Nat /\ commitIndex[n] \in Index BY DEF TypeOK
  <1>6. AppendBody(n, p, s) =
          [from |-> n, to |-> p, slot |-> s, term |-> currentTerm[n],
           prevIndex |-> prev, prevTerm |-> prevTerm,
           entries |-> SubSeq(log[n], prev + 2, Len(log[n])), commit |-> commitIndex[n]]
    BY DEF AppendBody
  <1> QED BY <1>2, <1>3, <1>4, <1>5, <1>6 DEF AppendRequest

LEMMA TypeSendRound ==
  ASSUME TypeOK, NEW n \in Node, NEW s \in Slot, SendRound(n, s)
  PROVE  TypeOK'
  <1> DEFINE sendable == {p \in Peers(n) : ~BadPrev(n, p)}
  <1>1. \A p \in sendable : AppendBody(n, p, s) \in AppendRequest BY AppendBodyType DEF Peers
  <1>2. appendReq' \subseteq AppendRequest BY <1>1 DEF SendRound, TypeOK
  <1>3. round' \in [Node -> [Slot -> Round]]
    <2>1. sendable \in SUBSET Node BY DEF Peers
    <2>2. round' = [round EXCEPT ![n][s].phase = "sent", ![n][s].waiting = sendable]
      BY DEF SendRound
    <2>3. round[n][s] \in Round /\ round \in [Node -> [Slot -> Round]] BY DEF TypeOK
    <2> QED BY <2>1, <2>2, <2>3 DEF Round
  <1> QED BY <1>2, <1>3 DEF SendRound, TypeOK, nodeVars, stateVars, histVars

-----------------------------------------------------------------------------
LEMMA RequestType ==
  ASSUME TypeOK, NEW m \in appendReq
  PROVE  /\ m.from \in Node /\ m.to \in Node /\ m.slot \in Slot \cup {None}
         /\ m.term \in Nat /\ m.prevIndex \in Index /\ m.prevTerm \in Index
         /\ m.entries \in Seq(Entry) /\ m.commit \in Index
  BY DEF TypeOK, AppendRequest

LEMMA TypeRespond ==
  ASSUME TypeOK, NEW m \in appendReq, NEW success \in BOOLEAN, NEW term \in Nat,
         NEW reqs \in SUBSET AppendRequest, NEW resps \in SUBSET AppendReply,
         Respond(m, success, term, reqs, resps)
  PROVE  appendReq' \subseteq AppendRequest /\ appendResp' \subseteq AppendReply
  <1>1. m.slot # None => [from |-> m.to, to |-> m.from, slot |-> m.slot,
                          term |-> term, success |-> success] \in AppendReply
    BY RequestType DEF AppendReply
  <1> QED BY <1>1 DEF Respond

LEMMA TypeFollow ==
  ASSUME TypeOK, NEW m \in appendReq, NEW success \in BOOLEAN, Follow(m, success)
  PROVE  /\ role' \in [Node -> Role]
         /\ currentTerm' \in [Node -> Nat]
         /\ votedFor' \in [Node -> Node \cup {None}]
         /\ leaderId' \in [Node -> Node \cup {None}]
         /\ round' \in [Node -> [Slot -> Round]]
         /\ appendReq' \subseteq AppendRequest
         /\ appendResp' \subseteq AppendReply
  <1> DEFINE newer == m.term > currentTerm[m.to]
             reqs == appendReq \ {m}
  <1>1. m.from \in Node /\ m.to \in Node /\ m.term \in Nat BY RequestType
  <1>2. IdleRound \in Round BY DEF IdleRound, Round
  <1>3. reqs \in SUBSET AppendRequest /\ appendResp \in SUBSET AppendReply BY DEF TypeOK
  <1>4. CASE newer
    <2>1. Respond(m, success, m.term, Abandoned(reqs, m.to, Heartbeat),
                  Unawaited(appendResp, m.to, Heartbeat))
      BY <1>4 DEF Follow
    <2>2. appendReq' \subseteq AppendRequest /\ appendResp' \subseteq AppendReply
      BY <1>1, <1>3, <2>1, TypeRespond, AbandonedType, UnawaitedType
    <2> QED BY <1>1, <1>2, <1>4, <2>2 DEF Follow, TypeOK, Role
  <1>5. CASE ~newer
    <2>1. Respond(m, success, m.term, reqs, appendResp) BY <1>5 DEF Follow
    <2>2. appendReq' \subseteq AppendRequest /\ appendResp' \subseteq AppendReply
      BY <1>1, <1>3, <2>1, TypeRespond
    <2> QED BY <1>1, <1>5, <2>2 DEF Follow, TypeOK, Role
  <1> QED BY <1>4, <1>5

LEMMA TypeHandleAppendEntries ==
  ASSUME TypeOK, NEW m \in appendReq, HandleAppendEntries(m)
  PROVE  TypeOK'
  <1>1. /\ m.to \in Node /\ m.prevIndex \in Index /\ m.entries \in Seq(Entry)
        /\ m.commit \in Index
    BY RequestType
  <1>2. /\ log \in [Node -> Seq(Entry)] /\ log[m.to] \in Seq(Entry)
        /\ commitIndex[m.to] \in Index /\ applied[m.to] \in Seq(Command)
    BY <1>1 DEF TypeOK
  <1>3. CASE RejectStale(m)
    <2>1. currentTerm[m.to] \in Nat BY <1>1 DEF TypeOK
    <2>2. Respond(m, FALSE, currentTerm[m.to], appendReq \ {m}, appendResp)
      BY <1>3 DEF RejectStale
    <2>3. appendReq \ {m} \in SUBSET AppendRequest /\ appendResp \in SUBSET AppendReply
      BY DEF TypeOK
    <2>4. appendReq' \subseteq AppendRequest /\ appendResp' \subseteq AppendReply
      BY <2>1, <2>2, <2>3, TypeRespond
    <2> QED BY <1>3, <2>4 DEF RejectStale, HandleAppendEntries, TypeOK, nodeVars, stateVars, histVars
  <1>4. CASE RejectMismatch(m)
    <2>1. TooShort(m) \/ (m.prevIndex \in Nat /\ m.prevIndex < Len(log[m.to]))
      BY <1>1, <1>2, <1>4 DEF RejectMismatch, Conflict, Index
    <2>2. log' \in [Node -> Seq(Entry)]
      <3>1. CASE TooShort(m) BY <1>2, <1>4, <3>1 DEF RejectMismatch
      <3>2. CASE ~TooShort(m)
        <4>1. SubSeq(log[m.to], 1, m.prevIndex) \in Seq(Entry) BY <1>2, <2>1, <3>2
        <4> QED BY <1>1, <1>2, <1>4, <3>2, <4>1 DEF RejectMismatch
      <3> QED BY <3>1, <3>2
    <2> QED BY <1>4, <2>2, TypeFollow DEF RejectMismatch, HandleAppendEntries, TypeOK, histVars
  <1>5. CASE AcceptEntries(m)
    <2> DEFINE merged == Merge(log[m.to], m.prevIndex, m.entries)
               last == Len(merged) - 1
               commit == IF m.commit <= commitIndex[m.to] THEN commitIndex[m.to]
                         ELSE IF m.commit < last THEN m.commit ELSE last
    <2>1. m.prevIndex < Len(log[m.to]) BY <1>1, <1>2, <1>5 DEF AcceptEntries, TooShort, Index
    <2>2. merged \in Seq(Entry) BY <1>1, <1>2, <2>1, MergeType
    <2> HIDE DEF merged
    <2>3. commit \in Index BY <1>1, <1>2, <2>2 DEF Index
    <2>4. m.commit > commitIndex[m.to] => commit < Len(merged) BY <1>1, <1>2, <2>2 DEF Index
    <2>5. m.commit > commitIndex[m.to] => AppliedUpTo(applied[m.to], merged, commit) \in Seq(Command)
      BY <1>2, <2>2, <2>3, <2>4, AppliedType
    <2>6. /\ log' = [log EXCEPT ![m.to] = merged]
          /\ commitIndex' = [commitIndex EXCEPT ![m.to] = commit]
          /\ applied' = [applied EXCEPT ![m.to] =
               IF m.commit > commitIndex[m.to]
               THEN AppliedUpTo(applied[m.to], merged, commit) ELSE applied[m.to]]
      BY <1>5 DEF AcceptEntries, Heard, merged
    <2> HIDE DEF commit
    <2>7. /\ log' \in [Node -> Seq(Entry)] /\ commitIndex' \in [Node -> Index]
          /\ applied' \in [Node -> Seq(Command)]
      BY <1>2, <2>2, <2>3, <2>5, <2>6 DEF TypeOK
    <2> QED BY <1>5, <2>7, TypeFollow DEF AcceptEntries, HandleAppendEntries, TypeOK, histVars
  <1> QED BY <1>3, <1>4, <1>5 DEF HandleAppendEntries

-----------------------------------------------------------------------------
LEMMA TypeDeliver ==
  ASSUME TypeOK, NEW r \in appendResp, Deliver(r)
  PROVE  TypeOK'
  <1>1. r.from \in Node /\ r.to \in Node /\ r.slot \in Slot /\ r.term \in Nat /\ r.success \in BOOLEAN
    BY DEF TypeOK, AppendReply
  <1>2. nextIndex' \in [Node -> [Node -> Nat]]
    <2>1. log[r.to] \in Seq(Entry) /\ nextIndex[r.to][r.from] \in Nat BY <1>1 DEF TypeOK
    <2>2. NextAfterReply(r.to, r.from, r.success) \in Nat BY <2>1 DEF NextAfterReply
    <2> QED BY <1>1, <2>2 DEF Deliver, TypeOK
  <1>3. round' \in [Node -> [Slot -> Round]]
    <2>1. round \in [Node -> [Slot -> Round]] /\ round[r.to][r.slot] \in Round
      BY <1>1 DEF TypeOK
    <2>2. Answered(round[r.to][r.slot], r) \in Round BY <1>1, <2>1 DEF Answered, Round
    <2>3. round' = [round EXCEPT ![r.to][r.slot] = Answered(round[r.to][r.slot], r)]
      BY DEF Deliver
    <2> QED BY <1>1, <2>1, <2>2, <2>3
  <1> QED BY <1>2, <1>3 DEF Deliver, TypeOK, nodeVars, stateVars, histVars

LEMMA TypeFinishRound ==
  ASSUME TypeOK, NEW n \in Node, NEW s \in Slot, FinishRound(n, s)
  PROVE  TypeOK'
  <1> DEFINE newer == {t \in round[n][s].terms : t > currentTerm[n]}
             ended == IF s = Heartbeat THEN IdleRound ELSE [IdleRound EXCEPT !.phase = "done"]
             commit == IF LastIndex(n) > commitIndex[n] THEN LastIndex(n) ELSE commitIndex[n]
  <1>1. round[n][s].terms \subseteq Nat BY DEF TypeOK, Round
  <1>2. ended \in Round /\ IdleRound \in Round BY DEF IdleRound, Round
  <1>3. /\ log[n] \in Seq(Entry) /\ commitIndex[n] \in Index /\ applied[n] \in Seq(Command)
        /\ LastIndex(n) \in Index
    BY LastType DEF TypeOK
  <1>4. appendReq \in SUBSET AppendRequest /\ appendResp \in SUBSET AppendReply BY DEF TypeOK
  <1>5. CASE /\ \E t \in newer : StepDown(n, t)
             /\ round' = [round EXCEPT ![n][s] = ended, ![n][Heartbeat] = IdleRound]
             /\ appendReq' \in Orphaned(n, s, Abandoned(appendReq, n, Heartbeat))
             /\ appendResp' = Unawaited(Unawaited(appendResp, n, s), n, Heartbeat)
             /\ UNCHANGED <<commitIndex, applied, acked>>
    <2>1. appendReq' \subseteq AppendRequest BY <1>4, <1>5, AbandonedType, OrphanedType
    <2>2. appendResp' \subseteq AppendReply BY <1>4, <1>5, UnawaitedType
    <2>3. round' \in [Node -> [Slot -> Round]] BY <1>2, <1>5 DEF TypeOK
    <2>4. /\ role' \in [Node -> Role] /\ currentTerm' \in [Node -> Nat]
          /\ votedFor' \in [Node -> Node \cup {None}]
      BY <1>1, <1>5 DEF StepDown, TypeOK, Role
    <2> QED BY <1>5, <2>1, <2>2, <2>3, <2>4 DEF FinishRound, TypeOK
  <1>6. CASE /\ IF Enough(round[n][s])
                THEN /\ commitIndex' = [commitIndex EXCEPT ![n] = commit]
                     /\ applied' = [applied EXCEPT ![n] =
                          IF LastIndex(n) > commitIndex[n]
                          THEN AppliedUpTo(applied[n], log[n], commit) ELSE applied[n]]
                     /\ acked' = acked \cup ({s} \ {Heartbeat})
                ELSE UNCHANGED <<commitIndex, applied, acked>>
             /\ round' = [round EXCEPT ![n][s] = ended]
             /\ appendReq' \in Orphaned(n, s, appendReq)
             /\ appendResp' = Unawaited(appendResp, n, s)
             /\ UNCHANGED nodeVars
    <2>1. appendReq' \subseteq AppendRequest BY <1>4, <1>6, OrphanedType
    <2>2. appendResp' \subseteq AppendReply BY <1>4, <1>6, UnawaitedType
    <2>3. round' \in [Node -> [Slot -> Round]] BY <1>2, <1>6 DEF TypeOK
    <2>4. commit \in Index BY <1>3
    <2>5. LastIndex(n) > commitIndex[n] => AppliedUpTo(applied[n], log[n], commit) \in Seq(Command)
      <3>1. LastIndex(n) > commitIndex[n] => commit < Len(log[n]) BY <1>3 DEF LastIndex
      <3> QED BY <1>3, <2>4, <3>1, AppliedType
    <2> HIDE DEF commit
    <2>6. /\ commitIndex' \in [Node -> Index] /\ applied' \in [Node -> Seq(Command)]
          /\ acked' \subseteq Command
      BY <1>6, <2>4, <2>5 DEF TypeOK, Slot
    <2> QED BY <1>6, <2>1, <2>2, <2>3, <2>6 DEF FinishRound, TypeOK, nodeVars
  <1> QED BY <1>5, <1>6 DEF FinishRound

LEMMA TypeStep == TypeOK /\ [Next]_vars => TypeOK'
  <1> SUFFICES ASSUME TypeOK, [Next]_vars PROVE TypeOK' OBVIOUS
  <1>1. CASE UNCHANGED vars
    BY <1>1 DEF TypeOK, vars, nodeVars, stateVars, netVars, histVars
  <1>2. CASE Next
    BY <1>2, TypeStartElection, TypeTally, TypeBeginHeartbeat, TypeHandleRequestVote,
       TypePropose, TypeSendRound, TypeFinishRound, TypeHandleAppendEntries, TypeDeliver
    DEF Next
  <1> QED BY <1>1, <1>2

\* Every reachable state is well typed; in particular no handler and no task
\* reads a log position that does not exist (raft.py:186, 194, 331, 353).
THEOREM TypeCorrect == Spec => []TypeOK
  BY InitTypeOK, TypeStep, PTL DEF Spec

-----------------------------------------------------------------------------
(***************************************************************************)
(* Elections                                                               *)
(***************************************************************************)

\* A step lets node p's term grow, or else keeps the vote p has cast.
VoteKept(p) ==
  \/ currentTerm'[p] > currentTerm[p]
  \/ /\ currentTerm'[p] = currentTerm[p]
     /\ votedFor[p] # None => votedFor'[p] = votedFor[p]

LEMMA VoteKeptTally ==
  ASSUME TypeOK, NEW n \in Node, Tally(n), NEW p \in Node
  PROVE  VoteKept(p)
  <1>1. CASE \E t \in {t \in ballot[n].terms : t > currentTerm[n]} : StepDown(n, t)
    BY <1>1 DEF StepDown, VoteKept, TypeOK
  <1>2. CASE UNCHANGED <<currentTerm, votedFor>> BY <1>2 DEF VoteKept
  <1> QED BY <1>1, <1>2 DEF Tally

LEMMA VoteKeptFinish ==
  ASSUME TypeOK, NEW n \in Node, NEW s \in Slot, FinishRound(n, s), NEW p \in Node
  PROVE  VoteKept(p)
  <1>1. CASE \E t \in {t \in round[n][s].terms : t > currentTerm[n]} : StepDown(n, t)
    BY <1>1 DEF StepDown, VoteKept, TypeOK
  <1>2. CASE UNCHANGED nodeVars BY <1>2 DEF VoteKept, nodeVars
  <1> QED BY <1>1, <1>2 DEF FinishRound

LEMMA VoteKeptVote ==
  ASSUME TypeOK, NEW m \in voteReq, HandleRequestVote(m), NEW p \in Node
  PROVE  VoteKept(p)
  <1>1. m.to \in Node /\ m.term \in Nat /\ m.from \in Node BY DEF TypeOK, VoteRequest
  <1>2. CASE p # m.to BY <1>1, <1>2 DEF HandleRequestVote, VoteKept, TypeOK
  <1>3. CASE p = m.to
    BY <1>1, <1>3, ConstantsOK DEF HandleRequestVote, VoteKept, Grants, VoteLeft, TypeOK
  <1> QED BY <1>2, <1>3

LEMMA VoteKeptAppend ==
  ASSUME TypeOK, NEW m \in appendReq, HandleAppendEntries(m), NEW p \in Node
  PROVE  VoteKept(p)
  <1>1. m.to \in Node /\ m.term \in Nat BY RequestType
  <1>2. CASE RejectStale(m) BY <1>2 DEF RejectStale, VoteKept, nodeVars
  <1>3. ASSUME NEW success, Follow(m, success) PROVE VoteKept(p)
    BY <1>1, <1>3 DEF Follow, Stale, VoteKept, TypeOK
  <1> QED BY <1>2, <1>3 DEF HandleAppendEntries, RejectMismatch, AcceptEntries

LEMMA VotesKept ==
  ASSUME TypeOK, [Next]_vars, NEW p \in Node
  PROVE  VoteKept(p)
  <1>1. CASE UNCHANGED vars BY <1>1 DEF VoteKept, vars, nodeVars
  <1>2. ASSUME NEW n \in Node, StartElection(n) PROVE VoteKept(p)
    BY <1>2 DEF StartElection, VoteKept, TypeOK
  <1>3. ASSUME UNCHANGED nodeVars PROVE VoteKept(p) BY <1>3 DEF VoteKept, nodeVars
  <1> QED BY <1>1, <1>2, <1>3, VoteKeptTally, VoteKeptFinish, VoteKeptVote, VoteKeptAppend
      DEF Next, Propose, BeginHeartbeat, SendRound, Deliver

LEMMA SpentStays ==
  ASSUME TypeOK, [Next]_vars, NEW p \in Node, NEW t \in Nat, NEW c \in Node,
         VoteSpent(p, t, c)
  PROVE  VoteSpent(p, t, c)'
  <1>1. VoteKept(p) BY VotesKept
  <1>2. currentTerm[p] \in Nat /\ c # None BY ConstantsOK DEF TypeOK
  <1>3. currentTerm'[p] \in Nat BY TypeStep DEF TypeOK
  <1> QED BY <1>1, <1>2, <1>3 DEF VoteSpent, VoteKept

-----------------------------------------------------------------------------
\* The record of an election that n runs
Running(n) == [term |-> ballot[n].term, leader |-> n, voters |-> ballot[n].votes]

LEMMA CountedType ==
  ASSUME TypeOK, NEW b \in Counted
  PROVE  b.term \in Nat /\ b.leader \in Node /\ b.voters \subseteq Node
  BY DEF TypeOK, Counted, Victory, Ballot

\* How the counted votes of one step relate to those before: b is one of them,
\* or starts with the candidate's own vote, or has gained a vote just cast.
OwnVote(b, n) ==
  /\ b.leader = n /\ b.voters = {n}
  /\ currentTerm[n] < MaxTerm
  /\ b.term = currentTerm[n] + 1 /\ currentTerm'[n] = b.term /\ votedFor'[n] = n

GainedVote(b, p) ==
  /\ \E old \in Counted :
       /\ old.term = b.term /\ old.leader = b.leader /\ b.voters = old.voters \cup {p}
  /\ currentTerm[p] <= b.term
  /\ currentTerm[p] = b.term => votedFor[p] \in {None, b.leader}
  /\ currentTerm'[p] = b.term /\ votedFor'[p] = b.leader

CountedGrows(b) ==
  b \in Counted \/ \E n \in Node : OwnVote(b, n) \/ GainedVote(b, n)

LEMMA CountedSame ==
  ASSUME UNCHANGED <<ballot, elected>>, NEW b \in Counted'
  PROVE  b \in Counted
  BY DEF Counted

LEMMA CountedStart ==
  ASSUME TypeOK, NEW n \in Node, StartElection(n), NEW b \in Counted'
  PROVE  CountedGrows(b)
  <1>1. /\ elected' = elected
        /\ ballot' = [ballot EXCEPT ![n] =
             [open |-> TRUE, term |-> currentTerm[n] + 1, waiting |-> Peers(n),
              votes |-> {n}, terms |-> {}]]
        /\ currentTerm'[n] = currentTerm[n] + 1 /\ votedFor'[n] = n
        /\ currentTerm[n] < MaxTerm
    BY DEF StartElection, TypeOK, histVars
  <1>2. CASE b \in elected BY <1>2 DEF CountedGrows, Counted
  <1>3. CASE b \notin elected
    <2>1. PICK k \in Node : ballot'[k].open /\ b = Running(k)'
      BY <1>1, <1>3 DEF Counted, Running
    <2>2. CASE k # n
      BY <1>1, <2>1, <2>2 DEF Running, CountedGrows, Counted, TypeOK
    <2>3. CASE k = n
      <3>1. ballot'[n] = [open |-> TRUE, term |-> currentTerm[n] + 1, waiting |-> Peers(n),
                          votes |-> {n}, terms |-> {}]
        BY <1>1 DEF TypeOK
      <3>2. OwnVote(b, n) BY <1>1, <2>1, <2>3, <3>1 DEF Running, OwnVote
      <3> QED BY <3>2 DEF CountedGrows
    <2> QED BY <2>2, <2>3
  <1> QED BY <1>2, <1>3

LEMMA CountedVote ==
  ASSUME TypeOK, NEW m \in voteReq, HandleRequestVote(m), NEW b \in Counted'
  PROVE  CountedGrows(b)
  <1>1. m.to \in Node /\ m.term \in Nat /\ m.from \in Node BY DEF TypeOK, VoteRequest
  <1>2. elected' = elected BY DEF HandleRequestVote, histVars
  <1>3. CASE ballot' = ballot BY <1>2, <1>3, CountedSame DEF CountedGrows
  <1>4. CASE b \in elected BY <1>4 DEF CountedGrows, Counted
  <1>5. CASE ballot' # ballot /\ b \notin elected
    <2>1. PICK k \in Node : ballot'[k].open /\ b = Running(k)'
      BY <1>2, <1>5 DEF Counted, Running
    <2>2. /\ Awaited(m)
          /\ ballot' = [ballot EXCEPT ![m.from] =
                          WithAnswer(@, m.to, Grants(m.to, m), currentTerm'[m.to])]
      BY <1>5 DEF HandleRequestVote
    <2>3. ballot \in [Node -> Ballot] BY DEF TypeOK
    <2>4. CASE k # m.from
      <3>1. ballot'[k] = ballot[k] BY <1>1, <2>2, <2>3, <2>4
      <3> QED BY <2>1, <3>1 DEF Running, CountedGrows, Counted
    <2>5. CASE k = m.from
      <3>1. /\ ballot'[k].open = ballot[k].open /\ ballot'[k].term = ballot[k].term
            /\ ballot'[k].votes = IF Grants(m.to, m) THEN ballot[k].votes \cup {m.to}
                                  ELSE ballot[k].votes
        <4>1. ballot'[k] = WithAnswer(ballot[k], m.to, Grants(m.to, m), currentTerm'[m.to])
          BY <1>1, <2>2, <2>3, <2>5
        <4>2. ballot[k] \in Ballot BY <2>3
        <4> QED BY <4>1, <4>2 DEF Ballot, WithAnswer
      <3>2. Running(k) \in Counted BY <2>1, <3>1 DEF Running, Counted
      <3>3. CASE ~Grants(m.to, m)
        BY <2>1, <3>1, <3>2, <3>3 DEF Running, CountedGrows
      <3>4. CASE Grants(m.to, m)
        <4>1. b.term = m.term /\ b.leader = m.from /\ b.voters = Running(k).voters \cup {m.to}
          BY <2>1, <2>2, <2>5, <3>1, <3>4 DEF Running, Awaited
        <4>2. Running(k).term = b.term /\ Running(k).leader = b.leader
          BY <2>1, <3>1 DEF Running
        <4>3. currentTerm[m.to] \in Nat /\ currentTerm[m.to] <= m.term
          BY <1>1, <3>4 DEF Grants, TypeOK
        <4>4. currentTerm[m.to] = m.term => votedFor[m.to] \in {None, m.from}
          BY <1>1, <3>4 DEF Grants, VoteLeft
        <4>5. currentTerm'[m.to] = m.term
          <5>1. currentTerm \in [Node -> Nat] BY DEF TypeOK
          <5>2. currentTerm' = [currentTerm EXCEPT ![m.to] =
                                  IF m.term > currentTerm[m.to] THEN m.term ELSE @]
            BY DEF HandleRequestVote
          <5> QED BY <1>1, <4>3, <5>1, <5>2
        <4>6. votedFor'[m.to] = m.from
          <5>1. votedFor \in [Node -> Node \cup {None}] BY DEF TypeOK
          <5>2. votedFor' = [votedFor EXCEPT ![m.to] =
                               IF Grants(m.to, m) THEN m.from ELSE VoteLeft(m.to, m)]
            BY DEF HandleRequestVote
          <5> QED BY <1>1, <3>4, <5>1, <5>2
        <4> QED BY <1>1, <3>2, <4>1, <4>2, <4>3, <4>4, <4>5, <4>6 DEF CountedGrows, GainedVote
      <3> QED BY <3>3, <3>4
    <2> QED BY <2>4, <2>5
  <1> QED BY <1>3, <1>4, <1>5

LEMMA CountedTally ==
  ASSUME TypeOK, CandidateRuns, NEW n \in Node, Tally(n), NEW b \in Counted'
  PROVE  b \in Counted
  <1>1. ballot' = [ballot EXCEPT ![n] = NoBallot] /\ ballot[n].open BY DEF Tally
  <1>2. ballot \in [Node -> Ballot] BY DEF TypeOK
  <1>3. \A k \in Node : ballot'[k].open => ballot[k].open /\ Running(k)' = Running(k)
    BY <1>1, <1>2 DEF NoBallot, Running
  <1>4. CASE elected' = elected BY <1>3, <1>4 DEF Counted, Running
  <1>5. CASE elected' # elected
    <2>1. role[n] = "CANDIDATE" /\ BecomeLeader(n) BY <1>5 DEF Tally
    <2>2. elected' = elected \cup {Running(n)}
      BY <2>1 DEF BecomeLeader, CandidateRuns, Running
    <2> QED BY <1>1, <1>3, <2>2 DEF Counted, Running
  <1> QED BY <1>4, <1>5

LEMMA CountedStep ==
  ASSUME TypeOK, CandidateRuns, [Next]_vars, NEW b \in Counted'
  PROVE  CountedGrows(b)
  <1>1. CASE UNCHANGED <<ballot, elected>> BY <1>1, CountedSame DEF CountedGrows
  <1>2. CASE UNCHANGED vars BY <1>1, <1>2 DEF vars, histVars
  <1>3. ASSUME NEW n \in Node, NEW c \in Command, Propose(n, c) PROVE CountedGrows(b)
    BY <1>1, <1>3 DEF Propose, histVars
  <1>4. ASSUME NEW n \in Node, BeginHeartbeat(n) PROVE CountedGrows(b)
    BY <1>1, <1>4 DEF BeginHeartbeat, histVars
  <1>5. ASSUME NEW n \in Node, NEW s \in Slot, SendRound(n, s) PROVE CountedGrows(b)
    BY <1>1, <1>5 DEF SendRound, histVars
  <1>6. ASSUME NEW n \in Node, NEW s \in Slot, FinishRound(n, s) PROVE CountedGrows(b)
    BY <1>1, <1>6 DEF FinishRound
  <1>7. ASSUME NEW m \in appendReq, HandleAppendEntries(m) PROVE CountedGrows(b)
    BY <1>1, <1>7 DEF HandleAppendEntries, histVars
  <1>8. ASSUME NEW r \in appendResp, Deliver(r) PROVE CountedGrows(b)
    BY <1>1, <1>8 DEF Deliver, histVars
  <1>9. ASSUME NEW n \in Node, Tally(n) PROVE CountedGrows(b)
    BY <1>9, CountedTally DEF CountedGrows
  <1> QED BY <1>2, <1>3, <1>4, <1>5, <1>6, <1>7, <1>8, <1>9, CountedStart, CountedVote DEF Next

LEMMA VotesBackedStep ==
  ASSUME TypeOK, VotesBacked, CandidateRuns, [Next]_vars
  PROVE  VotesBacked'
  <1> SUFFICES ASSUME NEW b \in Counted', NEW p \in b.voters
               PROVE  VoteSpent(p, b.term, b.leader)'
    BY DEF VotesBacked
  <1>1. TypeOK' BY TypeStep
  <1>2. b.term \in Nat /\ b.leader \in Node /\ p \in Node
    <2>1. CASE b \in elected' BY <1>1, <2>1 DEF TypeOK, Victory
    <2>2. CASE b \notin elected'
      <3>1. PICK k \in Node : b = Running(k)' BY <2>2 DEF Counted, Running
      <3>2. ballot'[k] \in Ballot BY <1>1 DEF TypeOK
      <3> QED BY <3>1, <3>2 DEF Running, Ballot
    <2> QED BY <2>1, <2>2
  <1>3. ASSUME NEW old \in Counted, old.term = b.term, old.leader = b.leader, p \in old.voters
        PROVE  VoteSpent(p, b.term, b.leader)'
    BY <1>2, <1>3, SpentStays DEF VotesBacked
  <1>4. ASSUME NEW n \in Node, OwnVote(b, n) PROVE VoteSpent(p, b.term, b.leader)'
    BY <1>4 DEF OwnVote, VoteSpent
  <1>5. ASSUME NEW n \in Node, GainedVote(b, n) PROVE VoteSpent(p, b.term, b.leader)'
    BY <1>3, <1>5 DEF GainedVote, VoteSpent
  <1> QED BY <1>3, <1>4, <1>5, CountedStep DEF CountedGrows

\* A vote that is new in b1 is counted for no other candidate of that term
LEMMA NewVoteIsFree ==
  ASSUME TypeOK, VotesBacked, NEW b1, NEW n \in Node, OwnVote(b1, n) \/ GainedVote(b1, n),
         NEW b2 \in Counted, b1.term = b2.term, b1.leader # b2.leader
  PROVE  n \notin b2.voters
  <1> SUFFICES ASSUME n \in b2.voters PROVE FALSE OBVIOUS
  <1>1. VoteSpent(n, b2.term, b2.leader) BY DEF VotesBacked
  <1>2. currentTerm[n] \in Nat /\ b2.term \in Nat /\ b2.leader # None
    BY CountedType, ConstantsOK DEF TypeOK
  <1> QED BY <1>1, <1>2 DEF VoteSpent, OwnVote, GainedVote

LEMMA DisjointVotesStep ==
  ASSUME TypeOK, VotesBacked, DisjointVotes, CandidateRuns, [Next]_vars
  PROVE  DisjointVotes'
  <1> SUFFICES ASSUME NEW b1 \in Counted', NEW b2 \in Counted',
                      b1.term = b2.term, b1.leader # b2.leader
               PROVE  b1.voters \cap b2.voters = {}
    BY DEF DisjointVotes
  <1>1. CountedGrows(b1) /\ CountedGrows(b2) BY CountedStep
  <1>2. CASE b1 \in Counted /\ b2 \in Counted BY <1>2 DEF DisjointVotes
  <1>3. ASSUME NEW a, NEW b \in Counted, NEW n \in Node, OwnVote(a, n) \/ GainedVote(a, n),
               a.term = b.term, a.leader # b.leader
        PROVE  a.voters \cap b.voters = {}
    <2>1. n \notin b.voters BY <1>3, NewVoteIsFree
    <2>2. CASE OwnVote(a, n) BY <2>1, <2>2 DEF OwnVote
    <2>3. CASE GainedVote(a, n)
      <3>1. PICK old \in Counted : /\ old.term = a.term /\ old.leader = a.leader
                                   /\ a.voters = old.voters \cup {n}
        BY <2>3 DEF GainedVote
      <3>2. old.voters \cap b.voters = {} BY <1>3, <3>1 DEF DisjointVotes
      <3> QED BY <2>1, <3>1, <3>2
    <2> QED BY <1>3, <2>2, <2>3
  <1>4. ASSUME NEW n1 \in Node, NEW n2 \in Node,
               OwnVote(b1, n1) \/ GainedVote(b1, n1), OwnVote(b2, n2) \/ GainedVote(b2, n2)
        PROVE  b1.voters \cap b2.voters = {}
    <2>1. n1 # n2 BY <1>4 DEF OwnVote, GainedVote
    <2>2. CASE OwnVote(b1, n1) /\ OwnVote(b2, n2) BY <2>1, <2>2 DEF OwnVote
    <2>3. CASE GainedVote(b2, n2)
      <3>1. PICK old \in Counted : /\ old.term = b2.term /\ old.leader = b2.leader
                                   /\ b2.voters = old.voters \cup {n2}
        BY <2>3 DEF GainedVote
      <3>2. b1.voters \cap old.voters = {} BY <1>3, <1>4, <3>1
      <3>3. n2 \notin b1.voters
        <4>1. CASE OwnVote(b1, n1) BY <2>1, <4>1 DEF OwnVote
        <4>2. CASE GainedVote(b1, n1)
          <5>1. PICK old1 \in Counted : /\ old1.term = b1.term /\ old1.leader = b1.leader
                                        /\ b1.voters = old1.voters \cup {n1}
            BY <4>2 DEF GainedVote
          <5>2. n2 \notin old1.voters BY <2>3, <5>1, NewVoteIsFree
          <5> QED BY <2>1, <5>1, <5>2
        <4> QED BY <1>4, <4>1, <4>2
      <3> QED BY <3>1, <3>2, <3>3
    <2>4. CASE GainedVote(b1, n1) /\ OwnVote(b2, n2)
      <3>1. PICK old \in Counted : /\ old.term = b1.term /\ old.leader = b1.leader
                                   /\ b1.voters = old.voters \cup {n1}
        BY <2>4 DEF GainedVote
      <3>2. n2 \notin old.voters BY <2>4, <3>1, NewVoteIsFree
      <3> QED BY <2>1, <2>4, <3>1, <3>2 DEF OwnVote
    <2> QED BY <1>4, <2>2, <2>3, <2>4
  <1> QED BY <1>1, <1>2, <1>3, <1>4 DEF CountedGrows

-----------------------------------------------------------------------------
\* What a step does to roles, terms, ballots and victories: at most one node
\* reaches a newer term, gives up its role, or wins.
Advances(n) ==
  /\ currentTerm'[n] > currentTerm[n]
  /\ \/ role'[n] = "FOLLOWER"
     \/ role'[n] = "CANDIDATE" /\ ballot'[n].open /\ ballot'[n].term = currentTerm'[n]
  /\ elected' = elected

Retires(n) ==
  /\ currentTerm'[n] = currentTerm[n] /\ role'[n] = "FOLLOWER"
  /\ elected' = elected

Wins(n) ==
  /\ currentTerm'[n] = currentTerm[n] /\ role[n] = "CANDIDATE" /\ role'[n] = "LEADER"
  /\ ballot[n].open /\ ~ballot'[n].open /\ Cardinality(ballot[n].votes) >= Majority
  /\ elected' = elected \cup {[term |-> currentTerm[n], leader |-> n, voters |-> ballot[n].votes]}

Stays(n) == currentTerm'[n] = currentTerm[n] /\ role'[n] = role[n]

BallotStays(n) == ballot'[n].open = ballot[n].open /\ ballot'[n].term = ballot[n].term
BallotCloses(n) == ~ballot'[n].open /\ role'[n] # "CANDIDATE"
BallotOpens(n) == ballot'[n].term = currentTerm'[n] /\ currentTerm'[n] > currentTerm[n]

ElectionStep ==
  /\ \/ elected' = elected /\ \A p \in Node : Stays(p)
     \/ \E n \in Node :
          /\ Advances(n) \/ Retires(n) \/ Wins(n)
          /\ \A p \in Node \ {n} : Stays(p)
  /\ \A p \in Node : BallotStays(p) \/ BallotCloses(p) \/ BallotOpens(p)

LEMMA StepNothing ==
  ASSUME UNCHANGED <<role, currentTerm, ballot, elected>>
  PROVE  ElectionStep
  BY DEF ElectionStep, Stays, BallotStays

LEMMA StepStartElection ==
  ASSUME TypeOK, NEW n \in Node, StartElection(n)
  PROVE  ElectionStep
  <1>1. Advances(n) /\ \A p \in Node \ {n} : Stays(p)
    BY DEF StartElection, Advances, Stays, TypeOK, histVars
  <1>2. \A p \in Node : BallotStays(p) \/ BallotOpens(p)
    <2>1. ballot' = [ballot EXCEPT ![n] =
             [open |-> TRUE, term |-> currentTerm[n] + 1, waiting |-> Peers(n),
              votes |-> {n}, terms |-> {}]]
      BY DEF StartElection
    <2>2. \A p \in Node \ {n} : BallotStays(p) BY <2>1 DEF BallotStays, TypeOK
    <2>3. ballot'[n].term = currentTerm[n] + 1 BY <2>1 DEF TypeOK
    <2>4. currentTerm'[n] = currentTerm[n] + 1 /\ currentTerm'[n] > currentTerm[n]
      BY DEF StartElection, TypeOK
    <2> QED BY <2>2, <2>3, <2>4 DEF BallotOpens
  <1> QED BY <1>1, <1>2 DEF ElectionStep

LEMMA StepStepDown ==
  ASSUME TypeOK, NEW n \in Node, NEW t \in Nat, t > currentTerm[n], StepDown(n, t),
         elected' = elected
  PROVE  Advances(n) /\ \A p \in Node \ {n} : Stays(p)
  BY DEF StepDown, Advances, Stays, TypeOK

LEMMA StepTally ==
  ASSUME TypeOK, NEW n \in Node, Tally(n)
  PROVE  ElectionStep
  <1>1. ballot[n].terms \subseteq Nat BY DEF TypeOK, Ballot
  <1>2. role'[n] # "CANDIDATE"
    BY DEF Tally, StepDown, BecomeLeader, TypeOK
  <1>3. \A p \in Node : BallotStays(p) \/ BallotCloses(p)
    <2>1. ballot' = [ballot EXCEPT ![n] = NoBallot] BY DEF Tally
    <2> QED BY <1>2, <2>1 DEF BallotStays, BallotCloses, NoBallot, TypeOK
  <1>4. CASE \E t \in {t \in ballot[n].terms : t > currentTerm[n]} :
               StepDown(n, t) /\ elected' = elected
    <2>1. Advances(n) /\ \A p \in Node \ {n} : Stays(p) BY <1>1, <1>4, StepStepDown
    <2> QED BY <1>3, <2>1 DEF ElectionStep
  <1>5. CASE /\ role[n] = "CANDIDATE" /\ Cardinality(ballot[n].votes) >= Majority
             /\ BecomeLeader(n) /\ UNCHANGED <<currentTerm, votedFor>>
    <2>1. ballot[n].open /\ ~ballot'[n].open BY DEF Tally, NoBallot, TypeOK
    <2>2. Wins(n) /\ \A p \in Node \ {n} : Stays(p)
      BY <1>5, <2>1 DEF Wins, Stays, BecomeLeader, TypeOK
    <2> QED BY <1>3, <2>2 DEF ElectionStep
  <1>6. CASE /\ role' = [role EXCEPT ![n] = IF @ = "CANDIDATE" THEN "FOLLOWER" ELSE @]
             /\ UNCHANGED <<currentTerm, elected>>
    <2>1. \A p \in Node \ {n} : Stays(p) BY <1>6 DEF Stays, TypeOK
    <2>2. Stays(n) \/ Retires(n) BY <1>6 DEF Stays, Retires, TypeOK
    <2> QED BY <1>3, <1>6, <2>1, <2>2 DEF ElectionStep
  <1> QED BY <1>4, <1>5, <1>6 DEF Tally

LEMMA StepVote ==
  ASSUME TypeOK, NEW m \in voteReq, HandleRequestVote(m)
  PROVE  ElectionStep
  <1>1. m.to \in Node /\ m.term \in Nat /\ m.from \in Node BY DEF TypeOK, VoteRequest
  <1>2. elected' = elected BY DEF HandleRequestVote, histVars
  <1>3. \A p \in Node : BallotStays(p)
    <2>1. CASE ballot' = ballot BY <2>1 DEF BallotStays
    <2>2. CASE ballot' # ballot
      <3>1. ballot' = [ballot EXCEPT ![m.from] =
                         WithAnswer(@, m.to, Grants(m.to, m), currentTerm'[m.to])]
        BY <2>2 DEF HandleRequestVote
      <3>2. ballot \in [Node -> Ballot] /\ ballot[m.from] \in Ballot BY <1>1 DEF TypeOK
      <3> QED BY <1>1, <3>1, <3>2 DEF BallotStays, WithAnswer, Ballot
    <2> QED BY <2>1, <2>2
  <1>4. \A p \in Node \ {m.to} : Stays(p) BY <1>1 DEF HandleRequestVote, Stays, TypeOK
  <1>5. CASE m.term > currentTerm[m.to]
    <2>1. Advances(m.to) BY <1>1, <1>2, <1>5 DEF HandleRequestVote, Advances, TypeOK
    <2> QED BY <1>1, <1>3, <1>4, <2>1 DEF ElectionStep
  <1>6. CASE ~(m.term > currentTerm[m.to])
    <2>1. Stays(m.to) BY <1>1, <1>6 DEF HandleRequestVote, Stays, TypeOK
    <2> QED BY <1>1, <1>2, <1>3, <1>4, <2>1 DEF ElectionStep
  <1> QED BY <1>5, <1>6

LEMMA StepAppend ==
  ASSUME TypeOK, NEW m \in appendReq, HandleAppendEntries(m)
  PROVE  ElectionStep
  <1>1. m.to \in Node /\ m.term \in Nat BY RequestType
  <1>2. elected' = elected /\ ballot' = ballot BY DEF HandleAppendEntries, histVars
  <1>3. CASE RejectStale(m) BY <1>2, <1>3, StepNothing DEF RejectStale, nodeVars
  <1>4. ASSUME NEW success, Follow(m, success) PROVE ElectionStep
    <2>1. \A p \in Node \ {m.to} : Stays(p) BY <1>1, <1>4 DEF Follow, Stays, TypeOK
    <2>2. Advances(m.to) \/ Retires(m.to)
      BY <1>1, <1>2, <1>4 DEF Follow, Stale, Advances, Retires, TypeOK
    <2> QED BY <1>1, <1>2, <2>1, <2>2 DEF ElectionStep, BallotStays
  <1> QED BY <1>3, <1>4 DEF HandleAppendEntries, RejectMismatch, AcceptEntries

LEMMA StepFinish ==
  ASSUME TypeOK, NEW n \in Node, NEW s \in Slot, FinishRound(n, s)
  PROVE  ElectionStep
  <1>1. round[n][s].terms \subseteq Nat BY DEF TypeOK, Round
  <1>2. elected' = elected /\ ballot' = ballot BY DEF FinishRound
  <1>3. CASE \E t \in {t \in round[n][s].terms : t > currentTerm[n]} : StepDown(n, t)
    <2>1. Advances(n) /\ \A p \in Node \ {n} : Stays(p) BY <1>1, <1>2, <1>3, StepStepDown
    <2> QED BY <1>2, <2>1 DEF ElectionStep, BallotStays
  <1>4. CASE UNCHANGED nodeVars BY <1>2, <1>4, StepNothing DEF nodeVars
  <1> QED BY <1>3, <1>4 DEF FinishRound

LEMMA EveryStep == TypeOK /\ [Next]_vars => ElectionStep
  <1> SUFFICES ASSUME TypeOK, [Next]_vars PROVE ElectionStep OBVIOUS
  <1>1. CASE UNCHANGED vars BY <1>1, StepNothing DEF vars, nodeVars, histVars
  <1>2. ASSUME UNCHANGED <<nodeVars, ballot, histVars>> PROVE ElectionStep
    BY <1>2, StepNothing DEF nodeVars, histVars
  <1> QED BY <1>1, <1>2, StepStartElection, StepTally, StepVote, StepAppend, StepFinish
      DEF Next, Propose, BeginHeartbeat, SendRound, Deliver

-----------------------------------------------------------------------------
LEMMA CandidateRunsStep ==
  ASSUME TypeOK, CandidateRuns, ElectionStep
  PROVE  CandidateRuns'
  <1> SUFFICES ASSUME NEW n \in Node, role'[n] = "CANDIDATE"
               PROVE  ballot'[n].open /\ ballot'[n].term = currentTerm'[n]
    BY DEF CandidateRuns
  <1>1. Stays(n) \/ Advances(n) BY DEF ElectionStep, Retires, Wins
  <1>2. CASE Advances(n) BY <1>2 DEF Advances
  <1>3. CASE Stays(n)
    <2>1. ballot[n].open /\ ballot[n].term = currentTerm[n] BY <1>3 DEF Stays, CandidateRuns
    <2>2. BallotStays(n) \/ BallotOpens(n) BY DEF ElectionStep, BallotCloses
    <2>3. ~BallotOpens(n) BY <1>3 DEF BallotOpens, Stays, TypeOK
    <2> QED BY <1>3, <2>1, <2>2, <2>3 DEF BallotStays, Stays
  <1> QED BY <1>1, <1>2, <1>3

LEMMA TermsGrow ==
  ASSUME TypeOK, TypeOK', ElectionStep, NEW n \in Node
  PROVE  currentTerm'[n] >= currentTerm[n] /\ elected \subseteq elected'
  <1>1. currentTerm[n] \in Nat BY DEF TypeOK
  <1>2. Stays(n) \/ Advances(n) \/ Retires(n) \/ Wins(n) BY DEF ElectionStep
  <1>3. currentTerm'[n] = currentTerm[n] \/ currentTerm'[n] > currentTerm[n]
    BY <1>2 DEF Stays, Advances, Retires, Wins
  <1>4. currentTerm'[n] \in Nat BY DEF TypeOK
  <1>5. elected \subseteq elected' BY DEF ElectionStep, Advances, Retires, Wins
  <1> QED BY <1>1, <1>3, <1>4, <1>5

LEMMA LeadersWonStep ==
  ASSUME TypeOK, TypeOK', LeadersWon, ElectionStep
  PROVE  LeadersWon'
  <1> SUFFICES ASSUME NEW n \in Node, role'[n] = "LEADER"
               PROVE  \E e \in elected' : e.leader = n /\ e.term = currentTerm'[n]
    BY DEF LeadersWon
  <1>1. Stays(n) \/ Wins(n) BY DEF ElectionStep, Retires, Advances
  <1>2. CASE Stays(n)
    <2>1. PICK e \in elected : e.leader = n /\ e.term = currentTerm[n]
      BY <1>2 DEF Stays, LeadersWon
    <2>2. e \in elected' BY <2>1, TermsGrow
    <2>3. e.term = currentTerm'[n] BY <1>2, <2>1 DEF Stays
    <2> QED BY <2>1, <2>2, <2>3
  <1>3. CASE Wins(n)
    <2> DEFINE e == [term |-> currentTerm[n], leader |-> n, voters |-> ballot[n].votes]
    <2>1. e \in elected' BY <1>3 DEF Wins
    <2>2. e.leader = n /\ e.term = currentTerm'[n] BY <1>3 DEF Wins
    <2> QED BY <2>1, <2>2
  <1> QED BY <1>1, <1>2, <1>3

LEMMA WonByMajorityStep ==
  ASSUME TypeOK, WonByMajority, ElectionStep
  PROVE  WonByMajority'
  BY DEF WonByMajority, ElectionStep, Advances, Retires, Wins

LEMMA WinsArePastStep ==
  ASSUME TypeOK, TypeOK', CandidateRuns, WinsArePast, ElectionStep
  PROVE  WinsArePast'
  <1> SUFFICES ASSUME NEW e \in elected'
               PROVE  /\ e.term <= currentTerm'[e.leader]
                      /\ ballot'[e.leader].open => e.term < ballot'[e.leader].term
    BY DEF WinsArePast
  <1>1. e.term \in Nat /\ e.leader \in Node BY DEF TypeOK, Victory
  <1>2. currentTerm[e.leader] \in Nat /\ currentTerm'[e.leader] \in Nat BY <1>1 DEF TypeOK
  <1>3. CASE e \in elected
    <2>1. /\ e.term <= currentTerm[e.leader]
          /\ ballot[e.leader].open => e.term < ballot[e.leader].term
      BY <1>3 DEF WinsArePast
    <2>2. e.term <= currentTerm'[e.leader] BY <1>1, <1>2, <2>1, TermsGrow
    <2>3. BallotStays(e.leader) \/ BallotCloses(e.leader) \/ BallotOpens(e.leader)
      BY <1>1 DEF ElectionStep
    <2> QED BY <1>1, <1>2, <2>1, <2>2, <2>3 DEF BallotStays, BallotCloses, BallotOpens
  <1>4. CASE e \notin elected
    <2>1. PICK n \in Node : Wins(n) BY <1>4 DEF ElectionStep, Advances, Retires
    <2>2. e.term = currentTerm[n] /\ e.leader = n BY <1>4, <2>1 DEF Wins
    <2> QED BY <1>2, <2>1, <2>2 DEF Wins
  <1> QED BY <1>3, <1>4

-----------------------------------------------------------------------------
LEMMA HasWonStays ==
  ASSUME TypeOK, TypeOK', ElectionStep, NEW n, NEW t \in Nat, NEW u \in Nat, HasWon(n, t), t <= u
  PROVE  HasWon(n, u)'
  <1>1. PICK e \in elected : e.leader = n /\ e.term <= t BY DEF HasWon
  <1>2. e.term \in Nat BY DEF TypeOK, Victory
  <1>3. e \in elected' BY ConstantsOK, TermsGrow
  <1> QED BY <1>1, <1>2, <1>3 DEF HasWon

\* A request of the next state comes from one of this state, with the same
\* sender and term, or is sent now by a node whose round was ready.
RequestFrom(m) ==
  \/ \E old \in appendReq : old.from = m.from /\ old.term = m.term
  \/ \E s \in Slot :
       /\ m.from \in Node /\ m.term = currentTerm[m.from]
       /\ round[m.from][s].phase = "ready"

LEMMA AbandonedFrom ==
  ASSUME NEW reqs \in SUBSET AppendRequest, NEW n, NEW s, NEW m \in Abandoned(reqs, n, s)
  PROVE  \E old \in reqs : old.from = m.from /\ old.term = m.term
  BY DEF Abandoned, AppendRequest

LEMMA OrphanedFrom ==
  ASSUME NEW reqs \in SUBSET AppendRequest, NEW n, NEW s,
         NEW left \in Orphaned(n, s, reqs), NEW m \in left
  PROVE  \E old \in reqs : old.from = m.from /\ old.term = m.term
  <1>1. PICK kept \in SUBSET {k \in reqs : k.from = n /\ k.slot = s} :
          left = (reqs \ {k \in reqs : k.from = n /\ k.slot = s}) \cup Abandoned(kept, n, s)
    BY DEF Orphaned
  <1>2. CASE m \in Abandoned(kept, n, s)
    <2>1. kept \in SUBSET AppendRequest OBVIOUS
    <2>2. \E old \in kept : old.from = m.from /\ old.term = m.term
      BY <1>2, <2>1, AbandonedFrom
    <2> QED BY <2>2
  <1> QED BY <1>1, <1>2

\* Every round ready after a step was ready before it or is begun by a leader,
\* whose term the step leaves alone.
ReadyFrom(n, s) ==
  \/ round[n][s].phase = "ready"
  \/ role[n] = "LEADER"

SenderStep ==
  /\ \A n \in Node, s \in Slot : round'[n][s].phase = "ready" => ReadyFrom(n, s)
  /\ \A m \in appendReq' : RequestFrom(m)

LEMMA SenderNothing ==
  ASSUME TypeOK, round' = round, appendReq' = appendReq
  PROVE  SenderStep
  BY DEF SenderStep, ReadyFrom, RequestFrom

LEMMA SenderCancel ==
  ASSUME TypeOK, NEW n \in Node, CancelHeartbeat(n)
  PROVE  SenderStep
  <1>1. IdleRound.phase = "idle" BY DEF IdleRound
  <1>2. round \in [Node -> [Slot -> Round]] /\ appendReq \in SUBSET AppendRequest BY DEF TypeOK
  <1>3. \A k \in Node, s \in Slot : round'[k][s].phase = "ready" => ReadyFrom(k, s)
    BY <1>1, <1>2 DEF CancelHeartbeat, ReadyFrom, Slot
  <1>4. \A m \in appendReq' : RequestFrom(m)
    BY <1>2, AbandonedFrom DEF CancelHeartbeat, RequestFrom
  <1> QED BY <1>3, <1>4 DEF SenderStep

LEMMA SenderTally ==
  ASSUME TypeOK, NEW n \in Node, Tally(n)
  PROVE  SenderStep
  BY SenderCancel, SenderNothing DEF Tally, BecomeLeader

LEMMA SenderVote ==
  ASSUME TypeOK, NEW m \in voteReq, HandleRequestVote(m)
  PROVE  SenderStep
  <1>1. m.to \in Node BY DEF TypeOK, VoteRequest
  <1> QED BY <1>1, SenderCancel, SenderNothing DEF HandleRequestVote

LEMMA SenderBegin ==
  ASSUME TypeOK, NEW n \in Node, NEW s \in Slot, role[n] = "LEADER",
         round' = [round EXCEPT ![n][s] = [IdleRound EXCEPT !.phase = "ready"]],
         appendReq' = appendReq
  PROVE  SenderStep
  <1>1. round \in [Node -> [Slot -> Round]] BY DEF TypeOK
  <1>2. \A k \in Node, t \in Slot : round'[k][t].phase = "ready" => ReadyFrom(k, t)
    BY <1>1 DEF ReadyFrom
  <1> QED BY <1>2 DEF SenderStep, RequestFrom

LEMMA SenderSend ==
  ASSUME TypeOK, NEW n \in Node, NEW s \in Slot, SendRound(n, s)
  PROVE  SenderStep
  <1>1. round \in [Node -> [Slot -> Round]] /\ round[n][s] \in Round BY DEF TypeOK
  <1>2. \A k \in Node, t \in Slot : round'[k][t].phase = "ready" => ReadyFrom(k, t)
    <2>1. round'[n][s].phase = "sent" BY <1>1 DEF SendRound, Round
    <2>2. \A k \in Node, t \in Slot : k # n \/ t # s => round'[k][t] = round[k][t]
      BY <1>1 DEF SendRound
    <2> QED BY <2>1, <2>2 DEF ReadyFrom
  <1>3. \A m \in appendReq' : RequestFrom(m)
    BY DEF SendRound, RequestFrom, AppendBody
  <1> QED BY <1>2, <1>3 DEF SenderStep

LEMMA SenderAppend ==
  ASSUME TypeOK, NEW m \in appendReq, HandleAppendEntries(m)
  PROVE  SenderStep
  <1>1. appendReq \ {m} \in SUBSET AppendRequest /\ m.to \in Node /\ IdleRound.phase = "idle"
    BY RequestType DEF TypeOK, IdleRound
  <1>2. \A k \in appendReq \ {m} : RequestFrom(k) BY DEF RequestFrom
  <1>3. CASE RejectStale(m) BY <1>2, <1>3 DEF RejectStale, Respond, SenderStep, ReadyFrom
  <1>4. ASSUME NEW success, Follow(m, success) PROVE SenderStep
    <2>1. \A k \in Node, s \in Slot : round'[k][s].phase = "ready" => ReadyFrom(k, s)
      BY <1>1, <1>4 DEF Follow, ReadyFrom, TypeOK, Slot
    <2>2. \A k \in appendReq' : RequestFrom(k)
      BY <1>1, <1>2, <1>4, AbandonedFrom DEF Follow, Respond, RequestFrom
    <2> QED BY <2>1, <2>2 DEF SenderStep
  <1> QED BY <1>3, <1>4 DEF HandleAppendEntries, RejectMismatch, AcceptEntries

LEMMA SenderDeliver ==
  ASSUME TypeOK, NEW r \in appendResp, Deliver(r)
  PROVE  SenderStep
  <1>1. r.to \in Node /\ r.slot \in Slot BY DEF TypeOK, AppendReply
  <1>2. round \in [Node -> [Slot -> Round]] /\ round[r.to][r.slot] \in Round
    BY <1>1 DEF TypeOK
  <1>3. Answered(round[r.to][r.slot], r).phase = round[r.to][r.slot].phase
    BY <1>2 DEF Answered, Round
  <1>4. round' = [round EXCEPT ![r.to][r.slot] = Answered(round[r.to][r.slot], r)]
    BY DEF Deliver
  <1>5. \A k \in Node, s \in Slot : round'[k][s].phase = "ready" => ReadyFrom(k, s)
    BY <1>1, <1>2, <1>3, <1>4 DEF ReadyFrom
  <1>6. appendReq' = appendReq BY DEF Deliver
  <1> QED BY <1>5, <1>6 DEF SenderStep, RequestFrom

LEMMA SenderFinish ==
  ASSUME TypeOK, NEW n \in Node, NEW s \in Slot, FinishRound(n, s)
  PROVE  SenderStep
  <1> DEFINE ended == IF s = Heartbeat THEN IdleRound ELSE [IdleRound EXCEPT !.phase = "done"]
  <1>1. ended.phase # "ready" /\ IdleRound.phase # "ready" BY DEF IdleRound
  <1>2. round \in [Node -> [Slot -> Round]] /\ appendReq \in SUBSET AppendRequest /\ Heartbeat \in Slot
    BY DEF TypeOK, Slot
  <1>3. CASE /\ round' = [round EXCEPT ![n][s] = ended, ![n][Heartbeat] = IdleRound]
             /\ appendReq' \in Orphaned(n, s, Abandoned(appendReq, n, Heartbeat))
    <2>1. \A k \in Node, t \in Slot : round'[k][t].phase = "ready" => ReadyFrom(k, t)
      <3> HIDE DEF ended
      <3> QED BY <1>1, <1>2, <1>3 DEF ReadyFrom
    <2>2. \A m \in appendReq' : RequestFrom(m)
      <3> SUFFICES ASSUME NEW m \in appendReq' PROVE RequestFrom(m) OBVIOUS
      <3>1. Abandoned(appendReq, n, Heartbeat) \in SUBSET AppendRequest BY <1>2, AbandonedType
      <3>2. PICK old \in Abandoned(appendReq, n, Heartbeat) : old.from = m.from /\ old.term = m.term
        BY <1>3, <3>1, OrphanedFrom
      <3> QED BY <1>2, <3>2, AbandonedFrom DEF RequestFrom
    <2> QED BY <2>1, <2>2 DEF SenderStep
  <1>4. CASE /\ round' = [round EXCEPT ![n][s] = ended]
             /\ appendReq' \in Orphaned(n, s, appendReq)
    <2>1. \A k \in Node, t \in Slot : round'[k][t].phase = "ready" => ReadyFrom(k, t)
      <3> HIDE DEF ended
      <3> QED BY <1>1, <1>2, <1>4 DEF ReadyFrom
    <2>2. \A m \in appendReq' : RequestFrom(m) BY <1>2, <1>4, OrphanedFrom DEF RequestFrom
    <2> QED BY <2>1, <2>2 DEF SenderStep
  <1> QED BY <1>3, <1>4 DEF FinishRound

LEMMA EverySender == TypeOK /\ [Next]_vars => SenderStep
  <1> SUFFICES ASSUME TypeOK, [Next]_vars PROVE SenderStep OBVIOUS
  <1>1. CASE UNCHANGED vars BY <1>1, SenderNothing DEF vars, netVars
  <1>2. ASSUME NEW n \in Node, StartElection(n) PROVE SenderStep
    BY <1>2, SenderNothing DEF StartElection
  <1>3. ASSUME NEW n \in Node, NEW c \in Command, Propose(n, c) PROVE SenderStep
    BY <1>3, SenderBegin DEF Propose, IsLeader, netVars, Slot
  <1>4. ASSUME NEW n \in Node, BeginHeartbeat(n) PROVE SenderStep
    BY <1>4, SenderBegin DEF BeginHeartbeat, IsLeader, netVars, Slot
  <1> QED BY <1>1, <1>2, <1>3, <1>4, SenderTally, SenderVote, SenderSend, SenderAppend,
             SenderDeliver, SenderFinish
      DEF Next

LEMMA SendersWonStep ==
  ASSUME TypeOK, TypeOK', LeadersWon, SendersWon, ElectionStep, SenderStep
  PROVE  SendersWon'
  <1>1. \A n \in Node : currentTerm[n] \in Nat /\ currentTerm'[n] \in Nat BY DEF TypeOK
  <1>2. ASSUME NEW n \in Node, NEW s \in Slot, ReadyFrom(n, s)
        PROVE  HasWon(n, currentTerm[n])
    <2>1. CASE role[n] = "LEADER"
      <3>1. PICK e \in elected : e.leader = n /\ e.term = currentTerm[n]
        BY <2>1 DEF LeadersWon
      <3> QED BY <1>1, <3>1 DEF HasWon
    <2> QED BY <1>2, <2>1 DEF ReadyFrom, SendersWon
  <1>3. ASSUME NEW n \in Node, NEW s \in Slot, round'[n][s].phase = "ready"
        PROVE  HasWon(n, currentTerm[n])'
    <2>1. HasWon(n, currentTerm[n]) BY <1>2, <1>3 DEF SenderStep
    <2> QED BY <1>1, <2>1, HasWonStays, TermsGrow
  <1>4. ASSUME NEW m \in appendReq'
        PROVE  HasWon(m.from, m.term)'
    <2>1. m.term \in Nat BY DEF TypeOK, AppendRequest
    <2>2. HasWon(m.from, m.term)
      BY <1>2 DEF SenderStep, RequestFrom, ReadyFrom, SendersWon
    <2> QED BY <2>1, <2>2, HasWonStays
  <1> QED BY <1>3, <1>4 DEF SendersWon

-----------------------------------------------------------------------------
LEMMA ElectionInvInit == Init => ElectionInv
  BY DEF Init, ElectionInv, VotesBacked, DisjointVotes, WonByMajority, CandidateRuns,
         WinsArePast, LeadersWon, SendersWon, Counted, NoBallot, IdleRound

LEMMA ElectionInvStep == TypeOK /\ ElectionInv /\ [Next]_vars => ElectionInv'
  <1> SUFFICES ASSUME TypeOK, ElectionInv, [Next]_vars PROVE ElectionInv' OBVIOUS
  <1> USE DEF ElectionInv
  <1>1. TypeOK' BY TypeStep
  <1>2. ElectionStep BY EveryStep
  <1>3. SenderStep BY EverySender
  <1>4. VotesBacked' BY VotesBackedStep
  <1>5. DisjointVotes' BY DisjointVotesStep
  <1>6. WonByMajority' BY <1>2, WonByMajorityStep
  <1>7. CandidateRuns' BY <1>2, CandidateRunsStep
  <1>8. WinsArePast' BY <1>1, <1>2, WinsArePastStep
  <1>9. LeadersWon' BY <1>1, <1>2, LeadersWonStep
  <1>10. SendersWon' BY <1>1, <1>2, <1>3, SendersWonStep
  <1> QED BY <1>4, <1>5, <1>6, <1>7, <1>8, <1>9, <1>10

LEMMA ElectionInvInvariant == Spec => [](TypeOK /\ ElectionInv)
  BY InitTypeOK, ElectionInvInit, TypeStep, ElectionInvStep, PTL DEF Spec

\* Two elections of one term were won by the same node: two majorities of Node
\* share a voter, and that voter's vote is counted for one candidate only.
LEMMA MajoritiesMeet ==
  ASSUME NEW S \in SUBSET Node, NEW T \in SUBSET Node,
         Cardinality(S) >= Majority, Cardinality(T) >= Majority
  PROVE  S \cap T # {}
  <1>1. IsFiniteSet(Node) /\ Cardinality(Node) \in Nat BY ConstantsOK, FS_CardinalityType
  <1>2. IsFiniteSet(S) /\ IsFiniteSet(T) BY <1>1, FS_Subset
  <1>3. Cardinality(S) \in Nat /\ Cardinality(T) \in Nat BY <1>2, FS_CardinalityType
  <1>4. Cardinality(S) + Cardinality(T) > Cardinality(Node) BY <1>1, <1>3 DEF Majority
  <1> QED BY <1>1, <1>4, FS_MajoritiesIntersect

LEMMA InvElectionSafety == TypeOK /\ ElectionInv => ElectionSafety
  <1> SUFFICES ASSUME TypeOK, ElectionInv, NEW e1 \in elected, NEW e2 \in elected,
                      e1.term = e2.term, e1.leader # e2.leader
               PROVE  FALSE
    BY DEF ElectionSafety
  <1>1. e1.voters \in SUBSET Node /\ e2.voters \in SUBSET Node BY DEF TypeOK, Victory
  <1>2. Cardinality(e1.voters) >= Majority /\ Cardinality(e2.voters) >= Majority
    BY DEF ElectionInv, WonByMajority
  <1>3. e1.voters \cap e2.voters = {} BY DEF ElectionInv, DisjointVotes, Counted
  <1> QED BY <1>1, <1>2, <1>3, MajoritiesMeet

\* No term has two leaders: for every number of nodes, of terms, of commands,
\* and whatever messages are lost or late.
THEOREM ElectionsAreSafe == Spec => []ElectionSafety
  BY ElectionInvInvariant, InvElectionSafety, PTL

\* No vote is counted for two candidates of a term.
THEOREM VotesAreCastOnce == Spec => []VoteCastOnce
  <1>1. ElectionInv => VoteCastOnce BY DEF ElectionInv, VoteCastOnce
  <1> QED BY <1>1, ElectionInvInvariant, PTL

-----------------------------------------------------------------------------
\* A node adopts the leader named by a request, or names itself when it wins.
HintStep(n) ==
  \/ leaderId'[n] = leaderId[n]
  \/ \E m \in appendReq : leaderId'[n] = m.from /\ currentTerm'[n] = m.term
  \/ leaderId'[n] = n /\ role'[n] = "LEADER"

LEMMA EveryHint ==
  ASSUME TypeOK, [Next]_vars, NEW n \in Node
  PROVE  HintStep(n)
  <1> USE DEF HintStep
  <1>1. CASE UNCHANGED leaderId BY <1>1
  <1>2. ASSUME NEW k \in Node, Tally(k) PROVE HintStep(n)
    <2>1. CASE BecomeLeader(k) BY <2>1 DEF BecomeLeader, TypeOK
    <2> QED BY <1>1, <1>2, <2>1 DEF Tally
  <1>3. ASSUME NEW m \in appendReq, HandleAppendEntries(m) PROVE HintStep(n)
    <2>1. m.to \in Node /\ m.term \in Nat BY RequestType
    <2>2. ASSUME NEW success, Follow(m, success) PROVE HintStep(n)
      BY <2>1, <2>2 DEF Follow, TypeOK
    <2> QED BY <1>1, <1>3, <2>2 DEF HandleAppendEntries, RejectStale, RejectMismatch, AcceptEntries
  <1> QED BY <1>1, <1>2, <1>3
      DEF Next, vars, StartElection, HandleRequestVote, Propose, BeginHeartbeat, SendRound,
          FinishRound, Deliver

LEMMA HintInit == Init => LeaderHintWon
  BY DEF Init, LeaderHintWon

LEMMA HintKept ==
  TypeOK /\ ElectionInv /\ LeaderHintWon /\ [Next]_vars => LeaderHintWon'
  <1> SUFFICES ASSUME TypeOK, ElectionInv, LeaderHintWon, [Next]_vars,
                      NEW n \in Node, leaderId'[n] # None
               PROVE  HasWon(leaderId[n], currentTerm[n])'
    BY DEF LeaderHintWon
  <1>1. TypeOK' /\ ElectionInv' /\ ElectionStep BY TypeStep, ElectionInvStep, EveryStep
  <1>2. /\ currentTerm[n] \in Nat /\ currentTerm'[n] \in Nat
        /\ currentTerm'[n] >= currentTerm[n]
    BY <1>1, TermsGrow DEF TypeOK
  <1>3. CASE leaderId'[n] = leaderId[n]
    <2>1. HasWon(leaderId[n], currentTerm[n]) BY <1>3 DEF LeaderHintWon
    <2>2. \A l, t, u : HasWon(l, t) /\ t \in Nat /\ u \in Nat /\ t <= u =>
            \E e \in elected' : e.leader = l /\ e.term <= u
      BY <1>1, HasWonStays DEF HasWon
    <2> QED BY <1>2, <1>3, <2>1, <2>2 DEF HasWon
  <1>4. ASSUME NEW m \in appendReq, leaderId'[n] = m.from, currentTerm'[n] = m.term
        PROVE  HasWon(leaderId[n], currentTerm[n])'
    <2>1. HasWon(m.from, m.term) BY DEF ElectionInv, SendersWon
    <2>2. HasWon(m.from, m.term)' BY <1>1, <1>2, <1>4, <2>1, HasWonStays
    <2> QED BY <1>4, <2>2 DEF HasWon
  <1>5. CASE leaderId'[n] = n /\ role'[n] = "LEADER"
    <2>1. PICK e \in elected' : e.leader = n /\ e.term = currentTerm'[n]
      BY <1>1, <1>5 DEF ElectionInv, LeadersWon
    <2> QED BY <1>2, <1>5, <2>1 DEF HasWon
  <1> QED BY <1>3, <1>4, <1>5, EveryHint DEF HintStep

\* Clients are only ever redirected to a node that has won an election.
THEOREM HintsAreWon == Spec => []LeaderHintWon
  BY ElectionInvInvariant, HintInit, HintKept, PTL DEF Spec

-----------------------------------------------------------------------------
\* A winner's term is one nobody has won yet.
LEMMA WinIsFirst ==
  ASSUME TypeOK, ElectionInv, NEW n \in Node, Wins(n), NEW e \in elected
  PROVE  e.term # currentTerm[n]
  <1> SUFFICES ASSUME e.term = currentTerm[n] PROVE FALSE OBVIOUS
  <1>1. ballot[n].term = currentTerm[n] BY DEF Wins, ElectionInv, CandidateRuns
  <1>2. Running(n) \in Counted /\ e \in Counted BY DEF Wins, Running, Counted
  <1>3. e.term \in Nat /\ e.voters \in SUBSET Node /\ ballot[n].votes \in SUBSET Node
    BY DEF TypeOK, Victory, Ballot
  <1>4. CASE e.leader = n
    <2>1. e.term < ballot[n].term BY <1>4 DEF Wins, ElectionInv, WinsArePast
    <2> QED BY <1>1, <1>3, <2>1
  <1>5. CASE e.leader # n
    <2>1. e.voters \cap ballot[n].votes = {}
      BY <1>1, <1>2, <1>5 DEF ElectionInv, DisjointVotes, Running
    <2>2. Cardinality(e.voters) >= Majority BY DEF ElectionInv, WonByMajority
    <2> QED BY <1>3, <2>1, <2>2, MajoritiesMeet DEF Wins
  <1> QED BY <1>4, <1>5

LEMMA RefinementInit == Init => ElectionsView!Init
  BY DEF Init, ElectionsView!Init

LEMMA RefinementStep ==
  TypeOK /\ ElectionInv /\ [Next]_vars => [ElectionsView!Next]_(ElectionsView!vars)
  <1> SUFFICES ASSUME TypeOK, ElectionInv, [Next]_vars
               PROVE  ElectionsView!Next \/ UNCHANGED ElectionsView!vars
    OBVIOUS
  <1> DEFINE leading == {k \in Node : role[k] = "LEADER"}
             won == {<<e.term, e.leader>> : e \in elected}
  <1>1. TypeOK' /\ ElectionStep BY TypeStep, EveryStep
  <1>2. currentTerm \in [Node -> Nat] /\ currentTerm' \in [Node -> Nat] BY <1>1 DEF TypeOK
  <1>3. ASSUME \A p \in Node : Stays(p), elected' = elected
        PROVE  UNCHANGED ElectionsView!vars
    <2>1. currentTerm' = currentTerm BY <1>2, <1>3 DEF Stays
    <2>2. leading' = leading BY <1>3 DEF Stays
    <2> QED BY <1>3, <2>1, <2>2 DEF ElectionsView!vars
  <1>4. ASSUME NEW n \in Node, \A p \in Node \ {n} : Stays(p), Advances(n)
        PROVE  ElectionsView!NewTerm(n)
    <2>1. leading' = leading \ {n} BY <1>4 DEF Stays, Advances
    <2> QED BY <1>2, <1>4, <2>1 DEF ElectionsView!NewTerm, Stays, Advances
  <1>5. ASSUME NEW n \in Node, \A p \in Node \ {n} : Stays(p), Retires(n)
        PROVE  ElectionsView!Resign(n) \/ UNCHANGED ElectionsView!vars
    <2>1. currentTerm' = currentTerm BY <1>2, <1>5 DEF Stays, Retires
    <2>2. leading' = leading \ {n} BY <1>5 DEF Stays, Retires
    <2> QED BY <1>5, <2>1, <2>2 DEF ElectionsView!Resign, ElectionsView!vars, Retires
  <1>6. ASSUME NEW n \in Node, \A p \in Node \ {n} : Stays(p), Wins(n)
        PROVE  ElectionsView!Win(n)
    <2>1. currentTerm' = currentTerm BY <1>2, <1>6 DEF Stays, Wins
    <2>2. leading' = leading \cup {n} BY <1>6 DEF Stays, Wins
    <2>3. won' = won \cup {<<currentTerm[n], n>>}
      <3> DEFINE new == [term |-> currentTerm[n], leader |-> n, voters |-> ballot[n].votes]
      <3>1. elected' = elected \cup {new} BY <1>6 DEF Wins
      <3>2. new.term = currentTerm[n] /\ new.leader = n OBVIOUS
      <3> HIDE DEF new
      <3> QED BY <3>1, <3>2
    <2>4. \A w \in won : w[1] # currentTerm[n] BY <1>6, WinIsFirst
    <2> QED BY <2>1, <2>2, <2>3, <2>4 DEF ElectionsView!Win
  <1> QED BY <1>1, <1>3, <1>4, <1>5, <1>6 DEF ElectionStep, ElectionsView!Next

\* The code implements Elections, with any number of nodes and terms.
THEOREM RefinesElections == Spec => ImplementsElections
  BY ElectionInvInvariant, RefinementInit, RefinementStep, PTL
  DEF Spec, ImplementsElections, ElectionsView!Spec
=============================================================================
