------------------------ MODULE RaftOneLeaderProofs ------------------------
(***************************************************************************)
(* What the code promises as long as no second node wins an election: the  *)
(* winner's log is the source of every other one (OneLog), so logs only    *)
(* grow, and what is applied or acknowledged stays.  Nothing is assumed of *)
(* elections that fail, of terms, or of the winner staying in office: a    *)
(* deposed winner goes on sending, and its log is still the source.        *)
(* On it rest the refinements of CommittedLog (the source knows the most   *)
(* committed, ToldInv) and of ReplicatedLog (each command is in its log    *)
(* once and was proposed, OnceInv).                                        *)
(***************************************************************************)
EXTENDS RaftLogProofs, ListProofs

\* No node but w has won an election.
Source(w) == \A e \in elected : e.leader = w

\* Request m carries a stretch of s, and the term before it.
PartOf(m, s) ==
  /\ m.prevIndex + 1 + Len(m.entries) <= Len(s)
  /\ \A i \in 1 .. Len(m.entries) : m.entries[i] = s[m.prevIndex + 1 + i]
  /\ m.prevIndex >= 0 => m.prevTerm = s[m.prevIndex + 1].term

OneLog(w) ==
  /\ \A n \in Node : Below(log[n], log[w])
  /\ \A m \in appendReq : m.to # m.from /\ PartOf(m, log[w])
  /\ \A p \in Node : nextIndex[w][p] <= Len(log[w])

OneLogInv == \A w \in Node : Source(w) => OneLog(w)

LogsGrow == \A n \in Node : Below(log[n], log'[n])

-----------------------------------------------------------------------------
LEMMA BelowBelow ==
  ASSUME NEW a \in Seq(Entry), NEW b \in Seq(Entry), NEW c \in Seq(Entry),
         Below(a, b), Below(b, c)
  PROVE  Below(a, c)
  <1>1. Len(a) \in Nat /\ Len(b) \in Nat /\ Len(c) \in Nat OBVIOUS
  <1> QED BY <1>1 DEF Below

LEMMA BelowSelf ==
  ASSUME NEW a \in Seq(Entry)
  PROVE  Below(a, a)
  BY DEF Below

LEMMA PartOfMore ==
  ASSUME NEW m, m.prevIndex \in Index, Len(m.entries) \in Nat,
         NEW a \in Seq(Entry), NEW b \in Seq(Entry), Below(a, b), PartOf(m, a)
  PROVE  PartOf(m, b)
  <1>1. Len(a) \in Nat /\ Len(b) \in Nat /\ m.prevIndex + 1 \in Nat BY DEF Index
  <1>2. m.prevIndex + 1 + Len(m.entries) <= Len(b) BY <1>1 DEF PartOf, Below
  <1>3. ASSUME NEW i \in 1 .. Len(m.entries)
        PROVE  m.entries[i] = b[m.prevIndex + 1 + i]
    <2>1. m.prevIndex + 1 + i \in 1 .. Len(a) BY <1>1 DEF PartOf
    <2>2. m.entries[i] = a[m.prevIndex + 1 + i] BY DEF PartOf
    <2> QED BY <2>1, <2>2 DEF Below
  <1>4. m.prevIndex >= 0 => m.prevTerm = b[m.prevIndex + 1].term
    <2> SUFFICES ASSUME m.prevIndex >= 0 PROVE m.prevTerm = b[m.prevIndex + 1].term OBVIOUS
    <2>1. m.prevIndex + 1 \in 1 .. Len(a) BY <1>1 DEF PartOf, Index
    <2>2. m.prevTerm = a[m.prevIndex + 1].term BY DEF PartOf
    <2> QED BY <2>1, <2>2 DEF Below
  <1> QED BY <1>2, <1>3, <1>4 DEF PartOf

\* What a handler makes of a log below s and a request that carries part of s.
LEMMA MergeBelow ==
  ASSUME NEW s \in Seq(Entry), NEW lg \in Seq(Entry), Below(lg, s),
         NEW m, m.prevIndex \in Index, m.entries \in Seq(Entry), PartOf(m, s),
         m.prevIndex < Len(lg)
  PROVE  LET merged == Merge(lg, m.prevIndex, m.entries) IN
         /\ Below(lg, merged) /\ Below(merged, s)
         /\ Len(merged) >= m.prevIndex + 1 + Len(m.entries)
  <1> DEFINE prev == m.prevIndex
             entries == m.entries
             end == prev + 1 + Len(entries)
             merged == Merge(lg, prev, entries)
  <1>1. /\ Len(lg) \in Nat /\ Len(s) \in Nat /\ Len(entries) \in Nat
        /\ prev \in Index /\ prev \in Int /\ prev + 1 \in Nat /\ end \in Nat /\ end <= Len(s)
        /\ Len(lg) <= Len(s) /\ prev < Len(lg) /\ prev + 1 <= end
    <2>1. Len(lg) \in Nat /\ Len(s) \in Nat /\ Len(entries) \in Nat OBVIOUS
    <2>2. prev \in Index OBVIOUS
    <2>3. prev \in Int /\ prev + 1 \in Nat BY <2>2 DEF Index
    <2>4. prev < Len(lg) OBVIOUS
    <2>5. end <= Len(s) BY DEF PartOf
    <2>6. Len(lg) <= Len(s) BY DEF Below
    <2>7. end = prev + 1 + Len(entries) OBVIOUS
    <2> HIDE DEF prev, entries, end
    <2>8. end \in Nat /\ prev + 1 <= end BY <2>1, <2>3, <2>7
    <2> QED BY <2>1, <2>2, <2>3, <2>4, <2>5, <2>6, <2>8
  <1>2. PICK t \in Seq(Entry) : Len(t) = end /\ \A i \in 1 .. end : t[i] = s[i]
    <2> DEFINE r == SubSeq(s, 1, end)
    <2>1. r \in Seq(Entry) /\ Len(r) = end /\ r = [i \in 1 .. end |-> s[i]] BY <1>1
    <2> HIDE DEF r
    <2> QED BY <2>1
  <1>3. \A i \in 1 .. end : t[i] = s[i] BY <1>2
  <1>4. \A i \in 1 .. Len(entries) : entries[i] = t[prev + 1 + i]
    <2> SUFFICES ASSUME NEW i \in 1 .. Len(entries) PROVE entries[i] = t[prev + 1 + i] OBVIOUS
    <2>1. prev + 1 + i \in 1 .. end
      <3>1. end = prev + 1 + Len(entries) OBVIOUS
      <3> HIDE DEF prev, entries, end
      <3> QED BY <1>1, <3>1
    <2>2. entries[i] = s[prev + 1 + i] BY DEF PartOf
    <2> QED BY <1>3, <2>1, <2>2
  <1>5. \A i \in 1 .. Len(lg) : i <= Len(t) => lg[i] = t[i]
    <2> HIDE DEF end
    <2>1. \A i \in 1 .. Len(lg) : lg[i] = s[i] BY DEF Below
    <2>2. \A i \in 1 .. Len(lg) : i <= Len(t) => i \in 1 .. end BY <1>1, <1>2
    <2> QED BY <1>3, <2>1, <2>2
  <1>6. \A i \in 1 .. prev + 1 : lg[i] = t[i] BY <1>1, <1>2, <1>5
  <1>7. entries \in Seq(Entry) OBVIOUS
  <1>8. Len(t) = prev + 1 + Len(entries) BY <1>2
  <1>9. \A i \in 1 .. Len(lg) : i <= Len(t) /\ lg[i].term = t[i].term => lg[i] = t[i] BY <1>5
  <1> HIDE DEF prev, entries, end
  <1>10. \/ merged = lg /\ Len(t) <= Len(lg)
         \/ merged = t /\ Misses(lg, t)
    <2>1. /\ prev \in Index /\ prev \in Int /\ prev < Len(lg)
          /\ Len(entries) \in Nat /\ Len(lg) \in Nat
      BY <1>1
    <2> QED BY <1>4, <1>6, <1>7, <1>8, <1>9, <2>1, MergeEither
  <1>11. CASE merged = lg /\ Len(t) <= Len(lg)
    <2>1. Below(lg, merged) /\ Below(merged, s) BY <1>11, BelowSelf
    <2> QED BY <1>2, <1>11, <2>1 DEF prev, entries, end
  <1>12. CASE merged = t /\ Misses(lg, t)
    <2>1. PICK k \in 1 .. Len(t) : k > Len(lg) \/ lg[k].term # t[k].term
      BY <1>12 DEF Misses
    <2>2. Len(lg) <= Len(t)
      <3>1. k > Len(lg) BY <1>1, <1>2, <1>5, <2>1
      <3> QED BY <1>1, <1>2, <2>1, <3>1
    <2>3. Below(lg, t) BY <1>1, <1>2, <1>5, <2>2 DEF Below
    <2>4. Below(t, s) BY <1>1, <1>2, <1>3 DEF Below
    <2> QED BY <1>1, <1>2, <1>12, <2>3, <2>4 DEF prev, entries, end
  <1> QED BY <1>10, <1>11, <1>12

-----------------------------------------------------------------------------
\* Whoever sends, is about to send, or leads is the node that has won.
LEMMA OnlySource ==
  ASSUME ElectionInv, NEW w, Source(w)
  PROVE  /\ \A n \in Node : role[n] = "LEADER" => n = w
         /\ \A n \in Node, s \in Slot : round[n][s].phase = "ready" => n = w
         /\ \A m \in appendReq : m.from = w
  BY DEF ElectionInv, LeadersWon, SendersWon, HasWon, Source

LEMMA GrowPropose ==
  ASSUME TypeOK, NEW w \in Node, OneLog(w), NEW c \in Command, Propose(w, c)
  PROVE  LogsGrow /\ \A n \in Node : Below(log'[n], log'[w])
  <1> DEFINE e == [term |-> currentTerm[w], command |-> c]
  <1>1. log \in [Node -> Seq(Entry)] /\ e \in Entry BY DEF TypeOK, Entry
  <1>2. log' = [log EXCEPT ![w] = Append(log[w], e)] BY DEF Propose
  <1> HIDE DEF e
  <1>3. /\ log'[w] = Append(log[w], e)
        /\ \A n \in Node : n # w => log'[n] = log[n]
    BY <1>1, <1>2
  <1>4. Below(log[w], log'[w]) /\ log'[w] \in Seq(Entry)
    <2>1. /\ Len(Append(log[w], e)) = Len(log[w]) + 1 /\ Len(log[w]) \in Nat
          /\ \A i \in 1 .. Len(log[w]) : Append(log[w], e)[i] = log[w][i]
          /\ Append(log[w], e) \in Seq(Entry)
      BY <1>1
    <2> QED BY <1>3, <2>1 DEF Below
  <1>5. ASSUME NEW n \in Node PROVE Below(log[n], log'[n]) /\ Below(log'[n], log'[w])
    <2>1. CASE n = w BY <1>4, <2>1, BelowSelf
    <2>2. CASE n # w
      <3>1. log'[n] = log[n] /\ log[n] \in Seq(Entry) /\ log[w] \in Seq(Entry)
        BY <1>1, <1>3, <2>2
      <3>2. Below(log[n], log[w]) BY DEF OneLog
      <3>3. Below(log[n], log'[w]) BY <1>4, <3>1, <3>2, BelowBelow
      <3> QED BY <3>1, <3>3, BelowSelf
    <2> QED BY <2>1, <2>2
  <1> QED BY <1>5 DEF LogsGrow

\* No follower finds a conflict, so nothing is cut off.
LEMMA NoConflict ==
  ASSUME TypeOK, NEW w \in Node, OneLog(w), NEW m \in appendReq
  PROVE  ~Conflict(m)
  <1> SUFFICES ASSUME Conflict(m) PROVE FALSE OBVIOUS
  <1>1. m.to \in Node /\ m.prevIndex \in Index BY RequestType
  <1>2. log[m.to] \in Seq(Entry) BY <1>1 DEF TypeOK
  <1>3. m.prevIndex + 1 \in 1 .. Len(log[m.to]) /\ m.prevIndex >= 0
    BY <1>1, <1>2 DEF Conflict, Index
  <1>4. log[m.to][m.prevIndex + 1] = log[w][m.prevIndex + 1] BY <1>1, <1>3 DEF OneLog, Below
  <1>5. m.prevTerm = log[w][m.prevIndex + 1].term BY <1>3 DEF OneLog, PartOf
  <1> QED BY <1>4, <1>5 DEF Conflict

LEMMA GrowAccept ==
  ASSUME TypeOK, ElectionInv, NEW w \in Node, Source(w), OneLog(w),
         NEW m \in appendReq, AcceptEntries(m)
  PROVE  /\ LogsGrow /\ \A n \in Node : Below(log'[n], log'[w])
         /\ Len(log'[m.to]) >= m.prevIndex + 1 + Len(m.entries)
         /\ log'[w] = log[w]
  <1>1. /\ m.to \in Node /\ m.prevIndex \in Index /\ m.entries \in Seq(Entry)
        /\ m.from = w /\ m.to # w
    BY RequestType, OnlySource DEF OneLog
  <1>2. log \in [Node -> Seq(Entry)] /\ log[m.to] \in Seq(Entry) /\ log[w] \in Seq(Entry)
    BY <1>1 DEF TypeOK
  <1>3. m.prevIndex < Len(log[m.to])
    BY <1>1, <1>2 DEF AcceptEntries, TooShort, Index
  <1> DEFINE merged == Merge(log[m.to], m.prevIndex, m.entries)
  <1>4. log' = [log EXCEPT ![m.to] = merged] BY DEF AcceptEntries
  <1>5. Below(log[m.to], log[w]) /\ PartOf(m, log[w]) BY <1>1 DEF OneLog
  <1>6. /\ Below(log[m.to], merged) /\ Below(merged, log[w])
        /\ Len(merged) >= m.prevIndex + 1 + Len(m.entries)
    BY <1>1, <1>2, <1>3, <1>5, MergeBelow
  <1> HIDE DEF merged
  <1>7. /\ log'[m.to] = merged /\ log'[w] = log[w]
        /\ \A n \in Node : n # m.to => log'[n] = log[n]
    BY <1>1, <1>2, <1>4
  <1>8. ASSUME NEW n \in Node PROVE Below(log[n], log'[n]) /\ Below(log'[n], log'[w])
    <2>1. CASE n = m.to BY <1>6, <1>7, <2>1
    <2>2. CASE n # m.to
      <3>1. log[n] \in Seq(Entry) /\ Below(log[n], log[w]) BY <1>2 DEF OneLog
      <3> QED BY <1>7, <2>2, <3>1, BelowSelf
    <2> QED BY <2>1, <2>2
  <1> QED BY <1>6, <1>7, <1>8 DEF LogsGrow

LEMMA GrowStep ==
  ASSUME TypeOK, ElectionInv, LogStep, NEW w \in Node, Source(w), OneLog(w)
  PROVE  LogsGrow /\ \A n \in Node : Below(log'[n], log'[w])
  <1>1. CASE log' = log
    <2>1. \A n \in Node : log[n] \in Seq(Entry) BY DEF TypeOK
    <2> QED BY <1>1, <2>1, BelowSelf DEF LogsGrow, OneLog
  <1>2. ASSUME NEW n \in Node, NEW c \in Command, Propose(n, c)
        PROVE  LogsGrow /\ \A k \in Node : Below(log'[k], log'[w])
    <2>1. role[n] = "LEADER" BY <1>2 DEF Propose, IsLeader
    <2>2. n = w BY <2>1, OnlySource
    <2> QED BY <1>2, <2>2, GrowPropose
  <1>3. ASSUME NEW m \in appendReq, RejectMismatch(m), ~TooShort(m) PROVE FALSE
    BY <1>3, NoConflict DEF RejectMismatch
  <1> QED BY <1>1, <1>2, <1>3, GrowAccept DEF LogStep

LEMMA PostedPart ==
  ASSUME TypeOK, NEW w \in Node, NEW p \in Node, NEW s, nextIndex[w][p] <= Len(log[w])
  PROVE  PartOf(AppendBody(w, p, s), log[w])
  <1> DEFINE m == AppendBody(w, p, s)
  <1>1. EndsWith(log[w], m) BY PostedEnd
  <1>2. Len(log[w]) \in Nat BY DEF TypeOK
  <1> HIDE DEF m
  <1>3. PartOf(m, log[w]) BY <1>1, <1>2 DEF EndsWith, PartOf
  <1> QED BY <1>3 DEF m

LEMMA OneLogStep ==
  ASSUME TypeOK, TypeOK', ElectionInv, RequestStep, LogStep, NextStep,
         NEW w \in Node, Source(w), OneLog(w)
  PROVE  OneLog(w)'
  <1>1. LogsGrow /\ \A n \in Node : Below(log'[n], log'[w]) BY GrowStep
  <1>2. /\ log[w] \in Seq(Entry) /\ log'[w] \in Seq(Entry) /\ Below(log[w], log'[w])
    BY <1>1 DEF TypeOK, LogsGrow
  <1>3. ASSUME NEW m \in appendReq' PROVE m.to # m.from /\ PartOf(m, log'[w])
    <2>1. m.prevIndex \in Index /\ Len(m.entries) \in Nat
      <3>1. m \in AppendRequest BY DEF TypeOK
      <3> QED BY <3>1 DEF AppendRequest
    <2>2. m.to # m.from /\ PartOf(m, log[w])
      <3>1. CASE Posted(m)
        <4>1. PICK n \in Node, p \in Node, s \in Slot :
                p # n /\ round[n][s].phase = "ready" /\ m = AppendBody(n, p, s)
          BY <3>1 DEF Posted
        <4>2. n = w BY <4>1, OnlySource
        <4>3. nextIndex[w][p] <= Len(log[w]) BY DEF OneLog
        <4>4. m.to = p /\ m.from = n BY <4>1 DEF AppendBody
        <4> QED BY <4>1, <4>2, <4>3, <4>4, PostedPart
      <3>2. ASSUME NEW old \in appendReq, Copy(old, m) PROVE m.to # m.from /\ PartOf(m, log[w])
        <4>1. old \in AppendRequest /\ old.to # old.from /\ PartOf(old, log[w])
          BY DEF TypeOK, OneLog
        <4>2. /\ m.to = old.to /\ m.from = old.from /\ m.entries = old.entries
              /\ m.prevIndex = old.prevIndex /\ m.prevTerm = old.prevTerm
          BY <3>2, <4>1 DEF Copy, AppendRequest
        <4> QED BY <4>1, <4>2 DEF PartOf
      <3> QED BY <3>1, <3>2 DEF RequestStep
    <2> QED BY <1>2, <2>1, <2>2, PartOfMore
  <1>4. ASSUME NEW p \in Node PROVE nextIndex'[w][p] <= Len(log'[w])
    <2>1. nextIndex[w][p] \in Nat /\ nextIndex[w][p] <= Len(log[w]) BY DEF TypeOK, OneLog
    <2>2. nextIndex' \in [Node -> [Node -> Nat]] BY DEF TypeOK
    <2>3. Len(log[w]) \in Nat /\ Len(log'[w]) \in Nat /\ Len(log[w]) <= Len(log'[w])
      BY <1>2 DEF Below
    <2>4. nextIndex'[w][p] <= nextIndex[w][p] \/ nextIndex'[w][p] = Len(log[w]) BY DEF NextStep
    <2> QED BY <2>1, <2>2, <2>3, <2>4
  <1> QED BY <1>1, <1>3, <1>4 DEF OneLog

-----------------------------------------------------------------------------
(***************************************************************************)
(* What is applied: commit_index and the state machine move together.      *)
(***************************************************************************)
AppliedTo(n) ==
  /\ commitIndex[n] < Len(log[n])
  /\ applied[n] = [i \in 1 .. commitIndex[n] + 1 |-> log[n][i].command]

\* A step that moves commit_index up to ci, inside the log it leaves.
Commits(n) ==
  \E ci \in Index :
    /\ commitIndex[n] <= ci /\ ci < Len(log'[n])
    /\ commitIndex'[n] = ci /\ applied'[n] = AppliedUpTo(applied[n], log'[n], ci)

\* It is the end of a round, or a request that tells of it.
CommitsAtEnd(n) ==
  /\ log' = log /\ commitIndex'[n] = LastIndex(n)
  /\ \E s \in Slot : round[n][s].phase = "sent"

CommitsAsTold(n) ==
  \E m \in appendReq : m.to = n /\ AcceptEntries(m) /\ commitIndex'[n] <= m.commit

CommitStep ==
  \/ UNCHANGED <<commitIndex, applied>>
  \/ \E n \in Node :
       /\ Commits(n)
       /\ CommitsAtEnd(n) \/ CommitsAsTold(n)
       /\ \A k \in Node : k # n => commitIndex'[k] = commitIndex[k] /\ applied'[k] = applied[k]

LEMMA CommitFinish ==
  ASSUME TypeOK, NEW n \in Node, NEW s \in Slot, FinishRound(n, s)
  PROVE  CommitStep
  <1> DEFINE commit == IF LastIndex(n) > commitIndex[n] THEN LastIndex(n) ELSE commitIndex[n]
  <1>1. log' = log /\ log[n] \in Seq(Entry) /\ commitIndex[n] \in Index /\ LastIndex(n) \in Index
    BY LastType DEF FinishRound, TypeOK
  <1>2. commitIndex \in [Node -> Index] /\ applied \in [Node -> Seq(Command)] BY DEF TypeOK
  <1>3. CASE UNCHANGED <<commitIndex, applied>> BY <1>3 DEF CommitStep
  <1>4. CASE /\ commitIndex' = [commitIndex EXCEPT ![n] = commit]
             /\ applied' = [applied EXCEPT ![n] =
                  IF LastIndex(n) > commitIndex[n]
                  THEN AppliedUpTo(applied[n], log[n], commit) ELSE applied[n]]
    <2>1. \A k \in Node : k # n => commitIndex'[k] = commitIndex[k] /\ applied'[k] = applied[k]
      BY <1>2, <1>4
    <2>2. CASE LastIndex(n) > commitIndex[n]
      <3>1. /\ commitIndex'[n] = LastIndex(n)
            /\ applied'[n] = AppliedUpTo(applied[n], log'[n], LastIndex(n))
        BY <1>1, <1>2, <1>4, <2>2
      <3>2. commitIndex[n] <= LastIndex(n) /\ LastIndex(n) < Len(log'[n])
        BY <1>1, <2>2 DEF LastIndex, Index
      <3>3. Commits(n) BY <1>1, <3>1, <3>2 DEF Commits
      <3>4. CommitsAtEnd(n) BY <1>1, <3>1 DEF CommitsAtEnd, FinishRound
      <3> QED BY <2>1, <3>3, <3>4 DEF CommitStep
    <2>3. CASE ~(LastIndex(n) > commitIndex[n])
      <3>1. commitIndex' = commitIndex /\ applied' = applied BY <1>2, <1>4, <2>3
      <3> QED BY <3>1 DEF CommitStep
    <2> QED BY <2>2, <2>3
  <1> QED BY <1>3, <1>4 DEF FinishRound

LEMMA CommitAccept ==
  ASSUME TypeOK, TypeOK', NEW m \in appendReq, AcceptEntries(m), LogsGrow,
         \A n \in Node : commitIndex[n] < Len(log[n])
  PROVE  CommitStep
  <1> DEFINE p == m.to
             last == Len(log'[p]) - 1
             commit == IF m.commit <= commitIndex[p] THEN commitIndex[p]
                       ELSE IF m.commit < last THEN m.commit ELSE last
  <1>1. p \in Node /\ m.commit \in Index BY RequestType
  <1>2. /\ commitIndex \in [Node -> Index] /\ applied \in [Node -> Seq(Command)]
        /\ log[p] \in Seq(Entry) /\ log \in [Node -> Seq(Entry)]
    BY <1>1 DEF TypeOK
  <1>3. log'[p] \in Seq(Entry) BY <1>1 DEF TypeOK
  <1>4. log'[p] = Merge(log[p], m.prevIndex, m.entries)
    BY <1>1, <1>2 DEF AcceptEntries
  <1>5. /\ commitIndex' = [commitIndex EXCEPT ![p] = commit]
        /\ applied' = [applied EXCEPT ![p] =
             IF m.commit > commitIndex[p]
             THEN AppliedUpTo(applied[p], log'[p], commit) ELSE applied[p]]
    BY <1>4 DEF AcceptEntries, Heard
  <1>6. commitIndex[p] \in Int /\ m.commit \in Int /\ Len(log[p]) \in Nat /\ Len(log'[p]) \in Nat
    BY <1>1, <1>2, <1>3 DEF Index
  <1>7. commitIndex[p] < Len(log'[p])
    <2>1. commitIndex[p] < Len(log[p]) /\ Len(log[p]) <= Len(log'[p])
      BY <1>1 DEF LogsGrow, Below
    <2> QED BY <1>6, <2>1
  <1>8. \A k \in Node : k # p => commitIndex'[k] = commitIndex[k] /\ applied'[k] = applied[k]
    BY <1>2, <1>5
  <1>9. CASE m.commit <= commitIndex[p]
    <2>1. ~(m.commit > commitIndex[p]) BY <1>6, <1>9
    <2>2. commitIndex' = commitIndex /\ applied' = applied
      BY <1>1, <1>2, <1>5, <1>9, <2>1
    <2> QED BY <2>2 DEF CommitStep
  <1>10. CASE ~(m.commit <= commitIndex[p])
    <2>1. m.commit > commitIndex[p] BY <1>6, <1>10
    <2>2. /\ commit \in Index /\ commitIndex[p] <= commit /\ commit < Len(log'[p])
          /\ commit <= m.commit
      <3>1. commit = IF m.commit < last THEN m.commit ELSE last BY <1>10
      <3>2. /\ commit \in Int /\ commitIndex[p] <= commit /\ commit < Len(log'[p]) /\ commit >= -1
            /\ commit <= m.commit
        <4>1. commitIndex[p] >= -1 BY <1>1, <1>2 DEF Index
        <4> QED BY <1>6, <1>7, <2>1, <3>1, <4>1
      <3> QED BY <3>2 DEF Index
    <2> HIDE DEF commit
    <2>3. commitIndex'[p] = commit /\ applied'[p] = AppliedUpTo(applied[p], log'[p], commit)
      BY <1>1, <1>2, <1>5, <2>1
    <2>4. Commits(p) BY <2>2, <2>3 DEF Commits
    <2>5. CommitsAsTold(p) BY <2>2, <2>3 DEF CommitsAsTold
    <2> QED BY <1>1, <1>8, <2>4, <2>5 DEF CommitStep
  <1> QED BY <1>9, <1>10

LEMMA CommitNothing ==
  ASSUME UNCHANGED <<commitIndex, applied>>
  PROVE  CommitStep
  BY DEF CommitStep

LEMMA EveryCommit ==
  ASSUME TypeOK, TypeOK', [Next]_vars, LogsGrow, \A n \in Node : commitIndex[n] < Len(log[n])
  PROVE  CommitStep
  <1>1. CASE UNCHANGED vars BY <1>1, CommitNothing DEF vars, stateVars
  <1>2. ASSUME NEW m \in appendReq, HandleAppendEntries(m) PROVE CommitStep
    <2>1. CASE RejectStale(m) BY <2>1, CommitNothing DEF RejectStale, stateVars
    <2>2. CASE RejectMismatch(m) BY <2>2, CommitNothing DEF RejectMismatch
    <2> QED BY <1>2, <2>1, <2>2, CommitAccept DEF HandleAppendEntries
  <1>3. ASSUME NEW n \in Node, StartElection(n) \/ Tally(n) \/ BeginHeartbeat(n) PROVE CommitStep
    BY <1>3, CommitNothing DEF StartElection, Tally, BeginHeartbeat, stateVars
  <1>4. ASSUME NEW m \in voteReq, HandleRequestVote(m) PROVE CommitStep
    BY <1>4, CommitNothing DEF HandleRequestVote, stateVars
  <1>5. ASSUME NEW n \in Node, NEW c \in Command, Propose(n, c) PROVE CommitStep
    BY <1>5, CommitNothing DEF Propose
  <1>6. ASSUME NEW n \in Node, NEW s \in Slot, SendRound(n, s) PROVE CommitStep
    BY <1>6, CommitNothing DEF SendRound, stateVars
  <1>7. ASSUME NEW r \in appendResp, Deliver(r) PROVE CommitStep
    BY <1>7, CommitNothing DEF Deliver, stateVars
  <1> QED BY <1>1, <1>2, <1>3, <1>4, <1>5, <1>6, <1>7, CommitFinish DEF Next

LEMMA AppliedStep ==
  ASSUME TypeOK, TypeOK', LogsGrow, CommitStep, NEW n \in Node, AppliedTo(n)
  PROVE  AppliedTo(n)'
  <1>1. /\ log[n] \in Seq(Entry) /\ commitIndex[n] \in Index /\ applied[n] \in Seq(Command)
        /\ Below(log[n], log'[n])
    BY DEF TypeOK, LogsGrow
  <1>2. log'[n] \in Seq(Entry) BY DEF TypeOK
  <1>3. /\ Len(log[n]) \in Nat /\ Len(log'[n]) \in Nat /\ Len(log[n]) <= Len(log'[n])
        /\ commitIndex[n] \in Int /\ commitIndex[n] + 1 \in Nat /\ commitIndex[n] < Len(log[n])
    BY <1>1, <1>2 DEF Below, AppliedTo, Index
  <1>4. \A i \in 1 .. commitIndex[n] + 1 : log'[n][i] = log[n][i]
    <2>1. \A i \in 1 .. commitIndex[n] + 1 : i \in 1 .. Len(log[n]) BY <1>3
    <2> QED BY <1>1, <2>1 DEF Below
  <1>5. applied[n] = [i \in 1 .. commitIndex[n] + 1 |-> log'[n][i].command]
    BY <1>4 DEF AppliedTo
  <1>6. CASE commitIndex'[n] = commitIndex[n] /\ applied'[n] = applied[n]
    <2>1. commitIndex'[n] < Len(log'[n]) BY <1>3, <1>6
    <2> QED BY <1>5, <1>6, <2>1 DEF AppliedTo
  <1>7. CASE Commits(n)
    <2>1. PICK ci \in Index : /\ commitIndex[n] <= ci /\ ci < Len(log'[n])
                              /\ commitIndex'[n] = ci
                              /\ applied'[n] = AppliedUpTo(applied[n], log'[n], ci)
      BY <1>7 DEF Commits
    <2>2. Len(applied[n]) = commitIndex[n] + 1 BY <1>1, <1>3 DEF AppliedTo
    <2>3. ci \in Int BY DEF Index
    <2>4. CASE ci < Len(applied[n])
      <3>1. ci = commitIndex[n] BY <1>3, <2>1, <2>2, <2>3, <2>4
      <3>2. applied'[n] = applied[n] BY <2>1, <2>4 DEF AppliedUpTo
      <3> QED BY <1>5, <2>1, <3>1, <3>2 DEF AppliedTo
    <2>5. CASE ~(ci < Len(applied[n]))
      <3>1. applied'[n] = [i \in 1 .. ci + 1 |-> IF i <= Len(applied[n]) THEN applied[n][i]
                                                 ELSE log'[n][i].command]
        BY <2>1, <2>5 DEF AppliedUpTo
      <3>2. \A i \in 1 .. ci + 1 : i <= Len(applied[n]) => applied[n][i] = log'[n][i].command
        <4>1. \A i \in 1 .. ci + 1 : i <= Len(applied[n]) => i \in 1 .. commitIndex[n] + 1
          BY <1>3, <2>2, <2>3
        <4> QED BY <1>5, <4>1
      <3>3. applied'[n] = [i \in 1 .. ci + 1 |-> log'[n][i].command] BY <3>1, <3>2
      <3> QED BY <2>1, <3>3 DEF AppliedTo
    <2> QED BY <2>4, <2>5
  <1> QED BY <1>6, <1>7 DEF CommitStep

-----------------------------------------------------------------------------
\* As long as no second node has won: the logs, and what is applied of them.
OneLeaderInv ==
  OneLeader =>
    /\ \A w \in Node : Source(w) => OneLog(w)
    /\ \A n \in Node : AppliedTo(n)

LEMMA SourceExists ==
  ASSUME TypeOK, OneLeader
  PROVE  \E w \in Node : Source(w)
  <1>1. CASE elected = {} BY <1>1, ConstantsOK DEF Source
  <1>2. CASE elected # {}
    <2>1. PICK e \in elected : TRUE BY <1>2
    <2>2. e.leader \in Node BY DEF TypeOK, Victory
    <2>3. Source(e.leader) BY DEF Source, OneLeader
    <2> QED BY <2>2, <2>3
  <1> QED BY <1>1, <1>2

LEMMA OneLeaderInvInit == Init => OneLeaderInv
  <1> SUFFICES ASSUME Init PROVE OneLeaderInv OBVIOUS
  <1>1. \A n \in Node : /\ log[n] = <<>> /\ commitIndex[n] = -1 /\ applied[n] = <<>>
                        /\ \A p \in Node : nextIndex[n][p] = 0
    BY DEF Init
  <1>2. appendReq = {} BY DEF Init
  <1>3. \A w \in Node : OneLog(w) BY <1>1, <1>2 DEF OneLog, Below
  <1>4. \A n \in Node : AppliedTo(n)
    <2> SUFFICES ASSUME NEW n \in Node PROVE AppliedTo(n) OBVIOUS
    <2>1. 1 .. -1 + 1 = {} OBVIOUS
    <2>2. applied[n] = [i \in 1 .. -1 + 1 |-> log[n][i].command] BY <1>1, <2>1
    <2> QED BY <1>1, <2>2 DEF AppliedTo
  <1> QED BY <1>3, <1>4 DEF OneLeaderInv

\* What every step keeps while no second node has won.
LEMMA OneLeaderBefore ==
  ASSUME TypeOK, TypeOK', ElectionStep, OneLeader'
  PROVE  OneLeader /\ \A w : Source(w)' => Source(w)
  <1>1. elected \subseteq elected' BY DEF ElectionStep, Advances, Retires, Wins
  <1> QED BY <1>1 DEF OneLeader, Source

LEMMA OneLeaderInvStep ==
  ASSUME TypeOK, TypeOK', ElectionInv, OneLeaderInv, [Next]_vars, OneLeader
  PROVE  /\ LogsGrow
         /\ \A w \in Node : Source(w) => OneLog(w)'
         /\ \A n \in Node : AppliedTo(n)'
  <1>1. RequestStep /\ LogStep /\ NextStep BY EveryRequest, EveryLog, EveryNext
  <1>2. PICK w \in Node : Source(w) BY SourceExists
  <1>3. OneLog(w) BY <1>2 DEF OneLeaderInv
  <1>4. LogsGrow BY <1>1, <1>2, <1>3, GrowStep
  <1>5. \A n \in Node : AppliedTo(n) BY DEF OneLeaderInv
  <1>6. CommitStep BY <1>4, <1>5, EveryCommit DEF AppliedTo
  <1>7. \A n \in Node : AppliedTo(n)' BY <1>4, <1>5, <1>6, AppliedStep
  <1>8. \A v \in Node : Source(v) => OneLog(v)' BY <1>1, OneLogStep DEF OneLeaderInv
  <1> QED BY <1>4, <1>7, <1>8

-----------------------------------------------------------------------------
(***************************************************************************)
(* What a positive answer stands for: the node that gives it holds the     *)
(* command.                                                                *)
(***************************************************************************)

\* The log a request carries the end of has the command it is sent for.
Covers(m) ==
  \E i \in 1 .. m.prevIndex + 1 + Len(m.entries) : log[m.from][i].command = m.slot

AcksHeld ==
  /\ \A n \in Node, c \in Command :
       /\ round[n][c].phase # "idle" => n \in Holders(c)
       /\ round[n][c].acks \subseteq Holders(c) \ {n}
  /\ \A r \in appendResp :
       r.slot \in Command /\ r.success => r.from \in Holders(r.slot) \ {r.to}
  /\ \A m \in appendReq : m.slot \in Command => Covers(m)

\* How rounds, answers and acknowledged commands come about.
RoundStep ==
  \A n \in Node, c \in Command :
    /\ round[n][c].phase # "idle" => round'[n][c].phase # "idle"
    /\ round'[n][c].phase # "idle" => round[n][c].phase # "idle" \/ Propose(n, c)
    /\ \A p \in round'[n][c].acks :
         \/ p \in round[n][c].acks
         \/ \E r \in appendResp : r.success /\ r.to = n /\ r.slot = c /\ r.from = p

ReplyStep ==
  \A r \in appendResp' :
    \/ r \in appendResp \/ ~r.success
    \/ \E m \in appendReq :
         AcceptEntries(m) /\ r.from = m.to /\ r.to = m.from /\ r.slot = m.slot

AckedStep ==
  \A c \in acked' :
    c \in acked \/ \E n \in Node : round[n][c].phase = "sent" /\ Enough(round[n][c])

AckStep == RoundStep /\ ReplyStep /\ AckedStep

LEMMA SlotFacts == Heartbeat \in Slot /\ Heartbeat \notin Command /\ Command \subseteq Slot
  BY ConstantsOK DEF Slot

LEMMA RoundSame ==
  ASSUME \A n \in Node, c \in Command : round'[n][c] = round[n][c]
  PROVE  RoundStep
  BY DEF RoundStep

LEMMA HeartbeatOnly ==
  ASSUME TypeOK, NEW n \in Node, NEW rd, round' = [round EXCEPT ![n][Heartbeat] = rd]
  PROVE  RoundStep
  <1>1. \A k \in Node, c \in Command : round'[k][c] = round[k][c]
    BY SlotFacts DEF TypeOK
  <1> QED BY <1>1, RoundSame

LEMMA AckNothing ==
  ASSUME round' = round, appendResp' \subseteq appendResp, acked' = acked
  PROVE  AckStep
  BY RoundSame DEF AckStep, ReplyStep, AckedStep

LEMMA AckCancel ==
  ASSUME TypeOK, NEW n \in Node, CancelHeartbeat(n), acked' = acked
  PROVE  AckStep
  <1>1. RoundStep BY HeartbeatOnly DEF CancelHeartbeat
  <1>2. appendResp' \subseteq appendResp BY DEF CancelHeartbeat, Unawaited
  <1> QED BY <1>1, <1>2 DEF AckStep, ReplyStep, AckedStep

LEMMA AckHandle ==
  ASSUME TypeOK, NEW m \in appendReq, HandleAppendEntries(m)
  PROVE  AckStep
  <1>1. m.to \in Node /\ acked' = acked
    BY RequestType DEF HandleAppendEntries, histVars
  <1>2. CASE RejectStale(m)
    <2>1. round' = round BY <1>2 DEF RejectStale
    <2>2. ReplyStep BY <1>2 DEF RejectStale, Respond, ReplyStep
    <2> QED BY <1>1, <2>1, <2>2, RoundSame DEF AckStep, AckedStep
  <1>3. ASSUME NEW success \in BOOLEAN, Follow(m, success), success => AcceptEntries(m)
        PROVE  AckStep
    <2>1. RoundStep
      BY <1>1, <1>3, RoundSame, HeartbeatOnly DEF Follow
    <2>2. \E resps \in SUBSET appendResp :
            appendResp' = IF m.slot = None THEN resps
                          ELSE resps \cup {[from |-> m.to, to |-> m.from, slot |-> m.slot,
                                            term |-> m.term, success |-> success]}
      BY <1>3 DEF Follow, Respond, Unawaited
    <2>3. ReplyStep BY <1>3, <2>2 DEF ReplyStep
    <2> QED BY <1>1, <2>1, <2>3 DEF AckStep, AckedStep
  <1> QED BY <1>2, <1>3 DEF HandleAppendEntries, RejectMismatch, AcceptEntries

LEMMA AckRounds ==
  ASSUME TypeOK, NEW n \in Node, NEW s \in Slot, NEW rd,
         round' = [round EXCEPT ![n][s] = rd],
         appendResp' \subseteq appendResp, acked' = acked,
         s \in Command => /\ round[n][s].phase # "idle" => rd.phase # "idle"
                          /\ rd.phase # "idle" => round[n][s].phase # "idle" \/ Propose(n, s)
                          /\ \A p \in rd.acks : \/ p \in round[n][s].acks
                                                \/ \E r \in appendResp : /\ r.success /\ r.to = n
                                                                         /\ r.slot = s /\ r.from = p
  PROVE  AckStep
  <1>1. round \in [Node -> [Slot -> Round]] BY DEF TypeOK
  <1>2. round'[n][s] = rd /\ \A k \in Node, c \in Slot : k # n \/ c # s => round'[k][c] = round[k][c]
    BY <1>1
  <1>3. ASSUME NEW k \in Node, NEW c \in Command
        PROVE  /\ round[k][c].phase # "idle" => round'[k][c].phase # "idle"
               /\ round'[k][c].phase # "idle" => round[k][c].phase # "idle" \/ Propose(k, c)
               /\ \A p \in round'[k][c].acks :
                    \/ p \in round[k][c].acks
                    \/ \E r \in appendResp : r.success /\ r.to = k /\ r.slot = c /\ r.from = p
    <2>1. CASE k = n /\ c = s BY <1>2, <2>1
    <2>2. CASE ~(k = n /\ c = s)
      <3>1. round'[k][c] = round[k][c] BY <1>2, <2>2, SlotFacts
      <3> QED BY <3>1
    <2> QED BY <2>1, <2>2
  <1>4. RoundStep BY <1>3 DEF RoundStep
  <1> QED BY <1>4 DEF AckStep, ReplyStep, AckedStep

LEMMA AckBegin ==
  ASSUME TypeOK, NEW n \in Node,
         BeginHeartbeat(n) \/ \E c \in Command : Propose(n, c)
  PROVE  AckStep
  <1> DEFINE rd == [IdleRound EXCEPT !.phase = "ready"]
  <1>1. rd.acks = {} /\ rd.phase = "ready" BY DEF IdleRound
  <1> HIDE DEF rd
  <1>2. CASE BeginHeartbeat(n)
    <2>1. round' = [round EXCEPT ![n][Heartbeat] = rd] BY <1>2 DEF BeginHeartbeat, rd
    <2>2. appendResp' = appendResp /\ acked' = acked BY <1>2 DEF BeginHeartbeat, netVars, histVars
    <2>3. RoundStep BY <2>1, HeartbeatOnly
    <2> QED BY <2>2, <2>3 DEF AckStep, ReplyStep, AckedStep
  <1>3. ASSUME NEW c \in Command, Propose(n, c) PROVE AckStep
    <2>1. round' = [round EXCEPT ![n][c] = rd] BY <1>3 DEF Propose, rd
    <2>2. appendResp' = appendResp /\ acked' = acked BY <1>3 DEF Propose, netVars, histVars
    <2> QED BY <1>1, <1>3, <2>1, <2>2, AckRounds, SlotFacts
  <1> QED BY <1>2, <1>3

LEMMA AckSend ==
  ASSUME TypeOK, NEW n \in Node, NEW s \in Slot, SendRound(n, s)
  PROVE  AckStep
  <1> DEFINE sendable == {p \in Peers(n) : ~BadPrev(n, p)}
  <1>1. round \in [Node -> [Slot -> Round]] /\ round[n][s] \in Round BY DEF TypeOK
  <1>2. PICK rd : rd = [round[n][s] EXCEPT !.phase = "sent", !.waiting = sendable] OBVIOUS
  <1>3. round' = [round EXCEPT ![n][s].phase = "sent", ![n][s].waiting = sendable]
    BY DEF SendRound
  <1> HIDE DEF sendable
  <1>4. round' = [round EXCEPT ![n][s] = rd] BY <1>1, <1>2, <1>3
  <1>5. rd.acks = round[n][s].acks /\ rd.phase = "sent" BY <1>1, <1>2 DEF Round
  <1>6. round[n][s].phase # "idle" BY DEF SendRound
  <1>7. appendResp' = appendResp /\ acked' = acked BY DEF SendRound, histVars
  <1> QED BY <1>4, <1>5, <1>6, <1>7, AckRounds

LEMMA AckDeliver ==
  ASSUME TypeOK, NEW r \in appendResp, Deliver(r)
  PROVE  AckStep
  <1>1. r.to \in Node /\ r.slot \in Slot BY DEF TypeOK, AppendReply
  <1>2. round[r.to][r.slot] \in Round BY <1>1 DEF TypeOK
  <1>3. PICK rd : rd = Answered(round[r.to][r.slot], r) OBVIOUS
  <1>4. round' = [round EXCEPT ![r.to][r.slot] = rd] BY <1>3 DEF Deliver
  <1>5. /\ rd.phase = round[r.to][r.slot].phase
        /\ rd.acks = IF r.success THEN round[r.to][r.slot].acks \cup {r.from}
                     ELSE round[r.to][r.slot].acks
    BY <1>2, <1>3 DEF Answered, Round
  <1>6. \A p \in rd.acks : \/ p \in round[r.to][r.slot].acks
                           \/ \E q \in appendResp : /\ q.success /\ q.to = r.to
                                                    /\ q.slot = r.slot /\ q.from = p
    BY <1>5
  <1>7. appendResp' \subseteq appendResp /\ acked' = acked BY DEF Deliver, histVars
  <1> QED BY <1>1, <1>4, <1>5, <1>6, <1>7, AckRounds

LEMMA AckFinish ==
  ASSUME TypeOK, NEW n \in Node, NEW s \in Slot, FinishRound(n, s)
  PROVE  AckStep
  <1> DEFINE ended == IF s = Heartbeat THEN IdleRound ELSE [IdleRound EXCEPT !.phase = "done"]
  <1>1. /\ ended.acks = {} /\ IdleRound.acks = {} /\ IdleRound.phase = "idle"
        /\ s # Heartbeat => ended.phase = "done"
    BY DEF IdleRound
  <1>2. round \in [Node -> [Slot -> Round]] BY DEF TypeOK
  <1>3. round[n][s].phase = "sent" BY DEF FinishRound
  <1>4. /\ \/ round' = [round EXCEPT ![n][s] = ended, ![n][Heartbeat] = IdleRound]
           \/ round' = [round EXCEPT ![n][s] = ended]
        /\ appendResp' \subseteq appendResp
    BY DEF FinishRound, Unawaited
  <1> HIDE DEF ended
  <1>5. \A k \in Node, c \in Command :
          round'[k][c] = IF k = n /\ c = s THEN ended ELSE round[k][c]
    BY <1>2, <1>4, SlotFacts
  <1>6. RoundStep
    <2>1. ASSUME NEW c \in Command PROVE c # Heartbeat BY SlotFacts
    <2> QED BY <1>1, <1>3, <1>5, <2>1 DEF RoundStep
  <1>7. AckedStep
    <2>1. CASE UNCHANGED <<commitIndex, applied, acked>> BY <2>1 DEF AckedStep
    <2>2. CASE Enough(round[n][s]) /\ acked' = acked \cup ({s} \ {Heartbeat})
      BY <1>3, <2>2 DEF AckedStep
    <2> QED BY <2>1, <2>2 DEF FinishRound
  <1> QED BY <1>4, <1>6, <1>7 DEF AckStep, ReplyStep

LEMMA EveryAck == TypeOK /\ [Next]_vars => AckStep
  <1> SUFFICES ASSUME TypeOK, [Next]_vars PROVE AckStep OBVIOUS
  <1>1. CASE UNCHANGED vars BY <1>1, AckNothing DEF vars, netVars, histVars
  <1>2. ASSUME NEW n \in Node, StartElection(n) PROVE AckStep
    BY <1>2, AckNothing DEF StartElection, histVars
  <1>3. ASSUME NEW n \in Node, Tally(n) PROVE AckStep
    BY <1>3, AckNothing, AckCancel DEF Tally, BecomeLeader
  <1>4. ASSUME NEW m \in voteReq, HandleRequestVote(m) PROVE AckStep
    <2>1. m.to \in Node BY DEF TypeOK, VoteRequest
    <2> QED BY <1>4, <2>1, AckNothing, AckCancel DEF HandleRequestVote, histVars
  <1>5. ASSUME NEW n \in Node, NEW c \in Command, Propose(n, c) PROVE AckStep
    BY <1>5, AckBegin
  <1>6. ASSUME NEW n \in Node, BeginHeartbeat(n) PROVE AckStep BY <1>6, AckBegin
  <1> QED BY <1>1, <1>2, <1>3, <1>4, <1>5, <1>6, AckHandle, AckSend, AckDeliver, AckFinish DEF Next

-----------------------------------------------------------------------------
LEMMA HoldersGrow ==
  ASSUME TypeOK, TypeOK', LogsGrow, NEW c
  PROVE  Holders(c) \subseteq Holders(c)'
  <1> SUFFICES ASSUME NEW n \in Holders(c) PROVE n \in Holders(c)' OBVIOUS
  <1>1. n \in Node /\ log[n] \in Seq(Entry) BY DEF Holders, TypeOK
  <1>2. log'[n] \in Seq(Entry) BY <1>1 DEF TypeOK
  <1>3. PICK i \in 1 .. Len(log[n]) : log[n][i].command = c BY <1>1 DEF Holders
  <1>4. i \in 1 .. Len(log'[n]) /\ log'[n][i] = log[n][i]
    BY <1>1, <1>2, <1>3 DEF LogsGrow, Below
  <1> QED BY <1>1, <1>2, <1>3, <1>4 DEF Holders

LEMMA HolderIs ==
  ASSUME TypeOK, NEW n \in Node, NEW c, NEW i \in 1 .. Len(log[n]), log[n][i].command = c
  PROVE  n \in Holders(c)
  <1>1. log[n] \in Seq(Entry) BY DEF TypeOK
  <1>2. i \in DOMAIN log[n] BY <1>1
  <1> QED BY <1>2 DEF Holders

\* The request for a command covers it: the leader had the command in its log
\* when the round began, and sends from next_index to the end.
LEMMA CoversPosted ==
  ASSUME TypeOK, ElectionInv, AcksHeld, NEW w \in Node, Source(w), OneLog(w),
         NEW m, Posted(m), m.slot \in Command
  PROVE  Covers(m)
  <1>1. PICK n \in Node, p \in Node, s \in Slot :
          round[n][s].phase = "ready" /\ m = AppendBody(n, p, s)
    BY DEF Posted
  <1>2. n = w BY <1>1, OnlySource
  <1>3. nextIndex[n][p] <= Len(log[n]) BY <1>2 DEF OneLog
  <1>4. EndsWith(log[n], m) BY <1>1, <1>3, PostedEnd
  <1>5. m.slot = s /\ m.from = n BY <1>1 DEF AppendBody
  <1>6. n \in Holders(s) BY <1>1, <1>5 DEF AcksHeld
  <1>7. log[n] \in Seq(Entry) BY DEF TypeOK
  <1>8. PICK i \in 1 .. Len(log[n]) : log[n][i].command = s BY <1>6, <1>7 DEF Holders
  <1> QED BY <1>4, <1>5, <1>8 DEF Covers, EndsWith

LEMMA CoversStep ==
  ASSUME TypeOK, TypeOK', ElectionInv, AcksHeld, RequestStep, LogsGrow,
         NEW w \in Node, Source(w), OneLog(w), NEW m \in appendReq', m.slot \in Command
  PROVE  Covers(m)'
  <1>1. /\ m.prevIndex \in Index /\ Len(m.entries) \in Nat
    <2>1. m \in AppendRequest BY DEF TypeOK
    <2> QED BY <2>1 DEF AppendRequest
  <1>2. m.from = w /\ PartOf(m, log[w]) /\ Covers(m)
    <2>1. CASE Posted(m)
      <3>1. PICK n \in Node, p \in Node, s \in Slot :
              round[n][s].phase = "ready" /\ m = AppendBody(n, p, s)
        BY <2>1 DEF Posted
      <3>2. n = w BY <3>1, OnlySource
      <3>3. nextIndex[w][p] <= Len(log[w]) BY DEF OneLog
      <3>4. m.from = n BY <3>1 DEF AppendBody
      <3> QED BY <2>1, <3>1, <3>2, <3>3, <3>4, PostedPart, CoversPosted
    <2>2. ASSUME NEW old \in appendReq, Copy(old, m)
          PROVE  m.from = w /\ PartOf(m, log[w]) /\ Covers(m)
      <3>1. old \in AppendRequest BY DEF TypeOK
      <3>2. m = old BY <2>2, <3>1, ConstantsOK DEF Copy, AppendRequest
      <3> QED BY <3>2, OnlySource DEF AcksHeld, OneLog
    <2> QED BY <2>1, <2>2 DEF RequestStep
  <1>3. PICK i \in 1 .. m.prevIndex + 1 + Len(m.entries) : log[w][i].command = m.slot
    BY <1>2 DEF Covers
  <1>4. log[w] \in Seq(Entry) BY DEF TypeOK
  <1>5. i \in 1 .. Len(log[w]) BY <1>1, <1>2, <1>3, <1>4 DEF PartOf, Index
  <1>6. log'[w][i] = log[w][i] BY <1>5 DEF LogsGrow, Below
  <1> QED BY <1>2, <1>3, <1>6 DEF Covers

\* A node that accepts a request for a command has the command.
LEMMA AcceptHolds ==
  ASSUME TypeOK, TypeOK', ElectionInv, AcksHeld, NEW w \in Node, Source(w), OneLog(w),
         NEW m \in appendReq, AcceptEntries(m), m.slot \in Command
  PROVE  m.to \in Holders(m.slot)' /\ m.to # m.from
  <1>1. m.to \in Node /\ m.prevIndex \in Index /\ Len(m.entries) \in Nat /\ m.from = w
    BY RequestType, OnlySource
  <1>2. m.to # m.from BY DEF OneLog
  <1>3. PICK i \in 1 .. m.prevIndex + 1 + Len(m.entries) : log[w][i].command = m.slot
    BY <1>1 DEF AcksHeld, Covers
  <1>4. /\ Below(log'[m.to], log'[w]) /\ log'[w] = log[w]
        /\ Len(log'[m.to]) >= m.prevIndex + 1 + Len(m.entries)
    BY <1>1, GrowAccept
  <1>5. log'[m.to] \in Seq(Entry) BY <1>1 DEF TypeOK
  <1>6. i \in 1 .. Len(log'[m.to])
    <2>1. m.prevIndex \in Int /\ Len(log'[m.to]) \in Nat BY <1>1, <1>5 DEF Index
    <2> QED BY <1>1, <1>3, <1>4, <2>1
  <1>7. log'[m.to][i] = log[w][i] BY <1>4, <1>6 DEF Below
  <1>8. i \in DOMAIN log'[m.to] BY <1>5, <1>6
  <1> QED BY <1>1, <1>2, <1>3, <1>7, <1>8 DEF Holders

LEMMA AcksHeldStep ==
  ASSUME TypeOK, TypeOK', ElectionInv, AcksHeld, RequestStep, AckStep, LogsGrow,
         NEW w \in Node, Source(w), OneLog(w)
  PROVE  AcksHeld'
  <1>1. \A c : Holders(c) \subseteq Holders(c)' BY HoldersGrow
  <1>2. ASSUME NEW n \in Node, NEW c \in Command, round'[n][c].phase # "idle"
        PROVE  n \in Holders(c)'
    <2>1. CASE round[n][c].phase # "idle" BY <1>1, <2>1 DEF AcksHeld
    <2>2. CASE Propose(n, c)
      <3> DEFINE e == [term |-> currentTerm[n], command |-> c]
      <3>1. log \in [Node -> Seq(Entry)] /\ e \in Entry BY DEF TypeOK, Entry
      <3>2. log'[n] = Append(log[n], e) BY <2>2, <3>1 DEF Propose
      <3>3. e.command = c OBVIOUS
      <3> HIDE DEF e
      <3>4. /\ Len(log[n]) + 1 \in DOMAIN log'[n]
            /\ log'[n][Len(log[n]) + 1] = e
        BY <3>1, <3>2
      <3> QED BY <3>3, <3>4 DEF Holders
    <2> QED BY <1>2, <2>1, <2>2 DEF AckStep, RoundStep
  <1>3. ASSUME NEW n \in Node, NEW c \in Command, NEW p \in round'[n][c].acks
        PROVE  p \in Holders(c)' \ {n}
    <2>1. CASE p \in round[n][c].acks BY <1>1, <2>1 DEF AcksHeld
    <2>2. ASSUME NEW r \in appendResp, r.success, r.to = n, r.slot = c, r.from = p
          PROVE  p \in Holders(c)' \ {n}
      BY <1>1, <2>2 DEF AcksHeld
    <2> QED BY <2>1, <2>2 DEF AckStep, RoundStep
  <1>4. ASSUME NEW r \in appendResp', r.slot \in Command, r.success
        PROVE  r.from \in Holders(r.slot)' \ {r.to}
    <2>1. CASE r \in appendResp BY <1>1, <1>4, <2>1 DEF AcksHeld
    <2>2. ASSUME NEW m \in appendReq, AcceptEntries(m),
                 r.from = m.to, r.to = m.from, r.slot = m.slot
          PROVE  r.from \in Holders(r.slot)' \ {r.to}
      <3>1. m.to \in Holders(m.slot)' /\ m.to # m.from BY <1>4, <2>2, AcceptHolds
      <3> QED BY <2>2, <3>1
    <2> QED BY <1>4, <2>1, <2>2 DEF AckStep, ReplyStep
  <1>5. \A m \in appendReq' : m.slot \in Command => Covers(m)' BY CoversStep
  <1> QED BY <1>2, <1>3, <1>4, <1>5 DEF AcksHeld

\* What enough answers add up to.
LEMMA EnoughHold ==
  ASSUME TypeOK, AcksHeld, NEW n \in Node, NEW c \in Command,
         round[n][c].phase = "sent", Enough(round[n][c])
  PROVE  Cardinality(Holders(c)) >= Majority
  <1> DEFINE acks == round[n][c].acks
  <1>1. acks \subseteq Holders(c) \ {n} /\ n \in Holders(c) BY DEF AcksHeld
  <1>2. IsFiniteSet(Node) /\ Holders(c) \subseteq Node BY ConstantsOK DEF Holders
  <1>3. IsFiniteSet(acks) /\ IsFiniteSet(Holders(c)) BY <1>1, <1>2, FS_Subset
  <1>4. IsFiniteSet(acks \cup {n}) /\ Cardinality(acks \cup {n}) = Cardinality(acks) + 1
    BY <1>1, <1>3, FS_AddElement
  <1>5. Cardinality(acks \cup {n}) <= Cardinality(Holders(c)) BY <1>1, <1>3, FS_Subset
  <1>6. Cardinality(acks) + 1 >= Majority BY DEF Enough
  <1>7. /\ Cardinality(acks) \in Nat /\ Cardinality(Holders(c)) \in Nat
        /\ Cardinality(Node) \in Nat
    BY <1>2, <1>3, FS_CardinalityType
  <1> QED BY <1>4, <1>5, <1>6, <1>7 DEF Majority

LEMMA CommittedStep ==
  ASSUME TypeOK, TypeOK', AcksHeld, AckStep, LogsGrow, CommittedByMajority
  PROVE  CommittedByMajority'
  <1> SUFFICES ASSUME NEW c \in acked' PROVE Cardinality(Holders(c)') >= Majority
    BY DEF CommittedByMajority, Majority
  <1>1. c \in Command BY DEF TypeOK
  <1>2. Cardinality(Holders(c)) >= Majority
    BY <1>1, EnoughHold DEF CommittedByMajority, AckStep, AckedStep
  <1>3. Holders(c) \subseteq Holders(c)' BY HoldersGrow
  <1>4. IsFiniteSet(Node) /\ Holders(c)' \subseteq Node BY ConstantsOK DEF Holders
  <1>5. IsFiniteSet(Holders(c)') BY <1>4, FS_Subset
  <1>6. IsFiniteSet(Holders(c)) /\ Cardinality(Holders(c)) <= Cardinality(Holders(c)')
    BY <1>3, <1>5, FS_Subset
  <1>7. /\ Cardinality(Holders(c)) \in Nat /\ Cardinality(Holders(c)') \in Nat
        /\ Cardinality(Node) \in Nat
    BY <1>4, <1>5, <1>6, FS_CardinalityType
  <1> QED BY <1>2, <1>6, <1>7 DEF Majority

-----------------------------------------------------------------------------
HeldInv == OneLeader => AcksHeld /\ CommittedByMajority

LEMMA HeldInvInit == Init => HeldInv
  BY DEF Init, HeldInv, AcksHeld, CommittedByMajority, IdleRound, Slot

LEMMA OneLeaderInvariant == Spec => [](TypeOK /\ ElectionInv /\ OneLeaderInv /\ HeldInv)
  <1>1. TypeOK /\ ElectionInv /\ OneLeaderInv /\ HeldInv /\ [Next]_vars
          => OneLeaderInv' /\ HeldInv'
    <2> SUFFICES ASSUME TypeOK, ElectionInv, OneLeaderInv, HeldInv, [Next]_vars, OneLeader'
                 PROVE  /\ \A w \in Node : Source(w)' => OneLog(w)'
                        /\ \A n \in Node : AppliedTo(n)'
                        /\ AcksHeld' /\ CommittedByMajority'
      BY DEF OneLeaderInv, HeldInv
    <2>1. TypeOK' BY TypeStep
    <2>2. OneLeader /\ \A w : Source(w)' => Source(w) BY <2>1, EveryStep, OneLeaderBefore
    <2>3. /\ LogsGrow
          /\ \A w \in Node : Source(w) => OneLog(w)'
          /\ \A n \in Node : AppliedTo(n)'
      BY <2>1, <2>2, OneLeaderInvStep
    <2>4. PICK w \in Node : Source(w) BY <2>2, SourceExists
    <2>5. OneLog(w) BY <2>2, <2>4 DEF OneLeaderInv
    <2>6. AcksHeld /\ CommittedByMajority BY <2>2 DEF HeldInv
    <2>7. RequestStep /\ AckStep BY EveryRequest, EveryAck
    <2>8. AcksHeld' BY <2>1, <2>3, <2>4, <2>5, <2>6, <2>7, AcksHeldStep
    <2>9. CommittedByMajority' BY <2>1, <2>3, <2>6, <2>7, CommittedStep
    <2> QED BY <2>2, <2>3, <2>8, <2>9
  <1> QED BY <1>1, OneLeaderInvInit, HeldInvInit, ElectionInvInvariant, PTL DEF Spec

\* As long as no second node wins, a node's state machine has applied its log
\* up to commit_index, each entry once and in order (raft.py:327-336).
THEOREM AppliedIsLog == Spec => [](OneLeader => AppliedIsLogPrefix)
  <1>1. OneLeaderInv => (OneLeader => AppliedIsLogPrefix)
    BY DEF OneLeaderInv, AppliedTo, AppliedIsLogPrefix
  <1> QED BY <1>1, OneLeaderInvariant, PTL

\* As long as no second node wins, the state machines of any two nodes have
\* applied the same commands, one perhaps fewer of them.
THEOREM StateMachinesAgree == Spec => [](OneLeader => StateMachineSafety)
  <1>1. TypeOK /\ OneLeaderInv => (OneLeader => StateMachineSafety)
    <2> SUFFICES ASSUME TypeOK, OneLeaderInv, OneLeader, NEW n \in Node, NEW p \in Node
                 PROVE  IsPrefix(applied[n], applied[p]) \/ IsPrefix(applied[p], applied[n])
      BY DEF StateMachineSafety
    <2>1. PICK w \in Node : OneLog(w) BY SourceExists DEF OneLeaderInv
    <2>2. ASSUME NEW k \in Node
          PROVE  /\ applied[k] \in Seq(Command)
                 /\ \A i \in 1 .. Len(applied[k]) : applied[k][i] = log[w][i].command
      <3>1. log[k] \in Seq(Entry) /\ applied[k] \in Seq(Command) /\ commitIndex[k] \in Index
        BY DEF TypeOK
      <3>2. /\ applied[k] = [i \in 1 .. commitIndex[k] + 1 |-> log[k][i].command]
            /\ commitIndex[k] < Len(log[k])
        BY DEF OneLeaderInv, AppliedTo
      <3>3. Len(applied[k]) = commitIndex[k] + 1 BY <3>1, <3>2 DEF Index
      <3>4. \A i \in 1 .. commitIndex[k] + 1 : i \in 1 .. Len(log[k])
        BY <3>1, <3>2 DEF Index
      <3>5. \A i \in 1 .. commitIndex[k] + 1 : log[k][i] = log[w][i]
        BY <2>1, <3>4 DEF OneLog, Below
      <3> QED BY <3>1, <3>2, <3>3, <3>5
    <2>3. ASSUME NEW a \in Node, NEW b \in Node, Len(applied[a]) <= Len(applied[b])
          PROVE  IsPrefix(applied[a], applied[b])
      <3>1. applied[a] \in Seq(Command) /\ applied[b] \in Seq(Command) BY <2>2
      <3>2. \A i \in 1 .. Len(applied[a]) : applied[a][i] = applied[b][i]
        <4>1. \A i \in 1 .. Len(applied[a]) : i \in 1 .. Len(applied[b]) BY <2>3, <3>1
        <4> QED BY <2>2, <4>1
      <3>3. /\ SubSeq(applied[a], 1, Len(applied[a])) = [i \in 1 .. Len(applied[a]) |-> applied[a][i]]
            /\ SubSeq(applied[b], 1, Len(applied[a])) = [i \in 1 .. Len(applied[a]) |-> applied[b][i]]
        BY <2>3, <3>1
      <3> QED BY <2>3, <3>2, <3>3 DEF IsPrefix
    <2>4. Len(applied[n]) \in Nat /\ Len(applied[p]) \in Nat BY <2>2
    <2> QED BY <2>3, <2>4
  <1> QED BY <1>1, OneLeaderInvariant, PTL

\* As long as no second node wins, a command that propose() has answered True
\* for is in the logs of a majority, and stays there (raft.py:96).
THEOREM MajorityHolds == Spec => [](OneLeader => CommittedByMajority)
  <1>1. HeldInv => (OneLeader => CommittedByMajority) BY DEF HeldInv
  <1> QED BY <1>1, OneLeaderInvariant, PTL

-----------------------------------------------------------------------------
\* Elections run in the terms from 1 to MaxTerm.
TermsBounded == \A b \in Counted : 1 <= b.term /\ b.term <= MaxTerm

LEMMA TermsBoundedInvariant == Spec => [](TypeOK /\ ElectionInv /\ TermsBounded)
  <1>1. Init => TermsBounded BY DEF Init, TermsBounded, Counted, NoBallot
  <1>2. TypeOK /\ ElectionInv /\ TermsBounded /\ [Next]_vars => TermsBounded'
    <2> SUFFICES ASSUME TypeOK, ElectionInv, TermsBounded, [Next]_vars, NEW b \in Counted'
                 PROVE  1 <= b.term /\ b.term <= MaxTerm
      BY DEF TermsBounded
    <2>1. CountedGrows(b) BY CountedStep DEF ElectionInv
    <2>2. CASE b \in Counted BY <2>2 DEF TermsBounded
    <2>3. ASSUME NEW n \in Node, OwnVote(b, n) PROVE 1 <= b.term /\ b.term <= MaxTerm
      <3>1. currentTerm[n] \in Nat /\ MaxTerm \in Nat BY ConstantsOK DEF TypeOK
      <3> QED BY <2>3, <3>1 DEF OwnVote
    <2>4. ASSUME NEW n \in Node, GainedVote(b, n) PROVE 1 <= b.term /\ b.term <= MaxTerm
      BY <2>4 DEF GainedVote, TermsBounded
    <2> QED BY <2>1, <2>2, <2>3, <2>4 DEF CountedGrows
  <1> QED BY <1>1, <1>2, ElectionInvInvariant, PTL DEF Spec

\* In the first term of a cluster no second node wins, so what is shown under
\* OneLeader holds there without it, as in the run raft_one_leader.
THEOREM FirstTerm == Spec => [](MaxTerm = 1 => OneLeader)
  <1>1. TypeOK /\ ElectionInv /\ TermsBounded => (MaxTerm = 1 => OneLeader)
    <2> SUFFICES ASSUME TypeOK, ElectionInv, TermsBounded, MaxTerm = 1,
                        NEW e1 \in elected, NEW e2 \in elected
                 PROVE  e1.leader = e2.leader
      BY DEF OneLeader
    <2>1. e1 \in Counted /\ e2 \in Counted BY DEF Counted
    <2>2. e1.term \in Nat /\ e2.term \in Nat BY DEF TypeOK, Victory
    <2>3. e1.term = e2.term BY <2>1, <2>2 DEF TermsBounded
    <2> QED BY <2>3, InvElectionSafety DEF ElectionSafety
  <1> QED BY <1>1, TermsBoundedInvariant, PTL

-----------------------------------------------------------------------------
(***************************************************************************)
(* The code implements CommittedLog as long as no second node wins.  The   *)
(* winner alone commits, up to the end of its own log; what others know    *)
(* committed came to them in its requests.                                 *)
(***************************************************************************)

\* A round that has been sent was begun before.
SentStep ==
  \A n \in Node, s \in Slot : round'[n][s].phase = "sent" => round[n][s].phase \in {"ready", "sent"}

LEMMA SentRound ==
  ASSUME TypeOK, NEW n \in Node, NEW s \in Slot, NEW rd,
         round' = [round EXCEPT ![n][s] = rd],
         rd.phase = "sent" => round[n][s].phase \in {"ready", "sent"}
  PROVE  SentStep
  <1>1. round \in [Node -> [Slot -> Round]] BY DEF TypeOK
  <1>2. \A k \in Node, c \in Slot :
          round'[k][c] = IF k = n /\ c = s THEN rd ELSE round[k][c]
    BY <1>1
  <1> QED BY <1>2 DEF SentStep

LEMMA SentSame ==
  ASSUME round' = round
  PROVE  SentStep
  BY DEF SentStep

LEMMA SentCancel ==
  ASSUME TypeOK, NEW n \in Node, round' = [round EXCEPT ![n][Heartbeat] = IdleRound]
  PROVE  SentStep
  <1>1. IdleRound.phase # "sent" BY DEF IdleRound
  <1> QED BY <1>1, SentRound, SlotFacts

LEMMA SentBegin ==
  ASSUME TypeOK, NEW n \in Node, NEW s \in Slot,
         round' = [round EXCEPT ![n][s] = [IdleRound EXCEPT !.phase = "ready"]]
  PROVE  SentStep
  <1>1. [IdleRound EXCEPT !.phase = "ready"].phase # "sent" BY DEF IdleRound
  <1>2. PICK rd : rd = [IdleRound EXCEPT !.phase = "ready"] OBVIOUS
  <1> QED BY <1>1, <1>2, SentRound

LEMMA SentSend ==
  ASSUME TypeOK, NEW n \in Node, NEW s \in Slot, SendRound(n, s)
  PROVE  SentStep
  <1> DEFINE sendable == {p \in Peers(n) : ~BadPrev(n, p)}
  <1>1. round \in [Node -> [Slot -> Round]] /\ round[n][s] \in Round BY DEF TypeOK
  <1>2. PICK rd : rd = [round[n][s] EXCEPT !.phase = "sent", !.waiting = sendable] OBVIOUS
  <1>3. /\ round' = [round EXCEPT ![n][s].phase = "sent", ![n][s].waiting = sendable]
        /\ round[n][s].phase = "ready"
    BY DEF SendRound
  <1> HIDE DEF sendable
  <1>4. round' = [round EXCEPT ![n][s] = rd] BY <1>1, <1>2, <1>3
  <1> QED BY <1>3, <1>4, SentRound

LEMMA SentDeliver ==
  ASSUME TypeOK, NEW r \in appendResp, Deliver(r)
  PROVE  SentStep
  <1>1. r.to \in Node /\ r.slot \in Slot BY DEF TypeOK, AppendReply
  <1>2. round[r.to][r.slot] \in Round BY <1>1 DEF TypeOK
  <1>3. PICK rd : rd = Answered(round[r.to][r.slot], r) OBVIOUS
  <1>4. round' = [round EXCEPT ![r.to][r.slot] = rd] BY <1>3 DEF Deliver
  <1>5. rd.phase = round[r.to][r.slot].phase BY <1>2, <1>3 DEF Answered, Round
  <1> QED BY <1>1, <1>4, <1>5, SentRound

LEMMA SentFinish ==
  ASSUME TypeOK, NEW n \in Node, NEW s \in Slot, FinishRound(n, s)
  PROVE  SentStep
  <1> DEFINE ended == IF s = Heartbeat THEN IdleRound ELSE [IdleRound EXCEPT !.phase = "done"]
  <1>1. ended.phase # "sent" /\ IdleRound.phase # "sent" BY DEF IdleRound
  <1>2. round \in [Node -> [Slot -> Round]] BY DEF TypeOK
  <1>3. \/ round' = [round EXCEPT ![n][s] = ended, ![n][Heartbeat] = IdleRound]
        \/ round' = [round EXCEPT ![n][s] = ended]
    BY DEF FinishRound
  <1> HIDE DEF ended
  <1>4. \A k \in Node, c \in Slot :
          round'[k][c] \in {ended, IdleRound, round[k][c]}
    BY <1>2, <1>3, SlotFacts
  <1>5. ASSUME NEW k \in Node, NEW c \in Slot, round'[k][c].phase = "sent"
        PROVE  round[k][c].phase \in {"ready", "sent"}
    BY <1>1, <1>4, <1>5
  <1> QED BY <1>5 DEF SentStep

LEMMA EverySent == TypeOK /\ [Next]_vars => SentStep
  <1> SUFFICES ASSUME TypeOK, [Next]_vars PROVE SentStep OBVIOUS
  <1>1. CASE UNCHANGED vars BY <1>1, SentSame DEF vars
  <1>2. ASSUME NEW n \in Node, StartElection(n) PROVE SentStep
    BY <1>2, SentSame DEF StartElection
  <1>3. ASSUME NEW n \in Node, Tally(n) PROVE SentStep
    BY <1>3, SentSame, SentCancel DEF Tally, BecomeLeader, CancelHeartbeat
  <1>4. ASSUME NEW m \in voteReq, HandleRequestVote(m) PROVE SentStep
    <2>1. m.to \in Node BY DEF TypeOK, VoteRequest
    <2> QED BY <1>4, <2>1, SentSame, SentCancel DEF HandleRequestVote, CancelHeartbeat
  <1>5. ASSUME NEW n \in Node, NEW c \in Command, Propose(n, c) PROVE SentStep
    <2>1. c \in Slot BY SlotFacts
    <2> QED BY <1>5, <2>1, SentBegin DEF Propose
  <1>6. ASSUME NEW n \in Node, BeginHeartbeat(n) PROVE SentStep
    BY <1>6, SentBegin, SlotFacts DEF BeginHeartbeat
  <1>7. ASSUME NEW m \in appendReq, HandleAppendEntries(m) PROVE SentStep
    <2>1. m.to \in Node BY RequestType
    <2>2. CASE RejectStale(m) BY <2>2, SentSame DEF RejectStale
    <2>3. ASSUME NEW success, Follow(m, success) PROVE SentStep
      BY <2>1, <2>3, SentSame, SentCancel DEF Follow
    <2> QED BY <1>7, <2>2, <2>3 DEF HandleAppendEntries, RejectMismatch, AcceptEntries
  <1> QED BY <1>1, <1>2, <1>3, <1>4, <1>5, <1>6, <1>7, SentSend, SentDeliver, SentFinish DEF Next

-----------------------------------------------------------------------------
\* What source w knows committed is the most any node knows or is told of, and
\* nobody else has a round that could commit more.
Told(w) ==
  /\ \A n \in Node : commitIndex[n] <= commitIndex[w]
  /\ \A m \in appendReq : m.commit <= commitIndex[w]
  /\ \A n \in Node, s \in Slot : round[n][s].phase = "sent" => n = w

ToldInv == OneLeader => \A w \in Node : Source(w) => Told(w)

\* Before the first election is won there is nothing to replicate.
BlankInv == elected = {} => \A n \in Node : log[n] = <<>>

LEMMA ToldInit == Init => ToldInv /\ BlankInv
  BY DEF Init, ToldInv, BlankInv, Told, IdleRound

LEMMA ToldStep ==
  ASSUME TypeOK, TypeOK', ElectionInv, RequestStep, SentStep, CommitStep,
         NEW w \in Node, Source(w), OneLog(w), Told(w)
  PROVE  Told(w)'
  <1>0. commitIndex \in [Node -> Index] /\ commitIndex' \in [Node -> Index] BY DEF TypeOK
  <1>1. \A n \in Node : commitIndex[n] \in Int /\ commitIndex'[n] \in Int BY <1>0 DEF Index
  <1>2. \A n \in Node : commitIndex[n] <= commitIndex'[n]
    BY <1>1 DEF CommitStep, Commits
  <1>3. ASSUME NEW n \in Node PROVE commitIndex'[n] <= commitIndex'[w]
    <2>1. commitIndex[n] <= commitIndex[w] BY DEF Told
    <2>2. CASE commitIndex'[n] = commitIndex[n] BY <1>1, <1>2, <2>1, <2>2
    <2>3. CASE CommitsAtEnd(n) BY <1>1, <2>3 DEF CommitsAtEnd, Told
    <2>4. CASE CommitsAsTold(n)
      <3>1. PICK m \in appendReq : commitIndex'[n] <= m.commit BY <2>4 DEF CommitsAsTold
      <3>2. m.commit \in Int /\ m.commit <= commitIndex[w] BY RequestType DEF Told, Index
      <3> QED BY <1>1, <1>2, <3>1, <3>2
    <2> QED BY <2>2, <2>3, <2>4 DEF CommitStep
  <1>4. ASSUME NEW m \in appendReq' PROVE m.commit <= commitIndex'[w]
    <2>1. CASE Posted(m)
      <3>1. PICK n \in Node, p \in Node, s \in Slot :
              round[n][s].phase = "ready" /\ m = AppendBody(n, p, s)
        BY <2>1 DEF Posted
      <3>2. n = w BY <3>1, OnlySource
      <3>3. m.commit = commitIndex[n] BY <3>1 DEF AppendBody
      <3> QED BY <1>2, <3>2, <3>3
    <2>2. ASSUME NEW old \in appendReq, Copy(old, m) PROVE m.commit <= commitIndex'[w]
      <3>1. old \in AppendRequest BY DEF TypeOK
      <3>2. m.commit = old.commit /\ old.commit \in Int
        BY <2>2, <3>1 DEF Copy, AppendRequest, Index
      <3>3. old.commit <= commitIndex[w] BY DEF Told
      <3> QED BY <1>1, <1>2, <3>2, <3>3
    <2> QED BY <2>1, <2>2 DEF RequestStep
  <1>5. ASSUME NEW n \in Node, NEW s \in Slot, round'[n][s].phase = "sent" PROVE n = w
    BY <1>5, OnlySource DEF SentStep, Told
  <1> QED BY <1>3, <1>4, <1>5 DEF Told

\* Before the first election is won, nobody touches a log.
LEMMA NobodyActs ==
  ASSUME ElectionInv, LogStep, elected = {}
  PROVE  log' = log
  <1>1. /\ \A n \in Node : role[n] # "LEADER"
        /\ \A m \in appendReq : FALSE
    BY DEF ElectionInv, LeadersWon, SendersWon, HasWon
  <1> QED BY <1>1 DEF LogStep, Propose, IsLeader

\* Only a proposal changes the source's log.
LEMMA LogOfSource ==
  ASSUME TypeOK, ElectionInv, LogStep, NEW w \in Node, Source(w), OneLog(w)
  PROVE  log'[w] = log[w] \/ \E c \in Command : Propose(w, c)
  <1>1. ASSUME NEW n \in Node, NEW c \in Command, Propose(n, c) PROVE Propose(w, c)
    BY <1>1, OnlySource DEF Propose, IsLeader
  <1>2. ASSUME NEW m \in appendReq, RejectMismatch(m), ~TooShort(m) PROVE FALSE
    BY <1>2, NoConflict DEF RejectMismatch
  <1> QED BY <1>1, <1>2, GrowAccept DEF LogStep

-----------------------------------------------------------------------------
LEMMA WinnerIn == TypeOK => Winner \in Node
  BY ConstantsOK DEF TypeOK, Victory, Winner, Someone

LEMMA WinnerIsSource ==
  ASSUME TypeOK, OneLeader
  PROVE  Source(Winner)
  BY DEF OneLeader, Source, Winner

LEMMA WinnerStays ==
  ASSUME TypeOK, TypeOK', ElectionStep, OneLeader', elected # {}
  PROVE  Winner' = Winner
  <1>1. elected \subseteq elected' BY DEF ElectionStep, Advances, Retires, Wins
  <1>2. PICK e \in elected : e = CHOOSE x \in elected : TRUE OBVIOUS
  <1>3. PICK f \in elected' : f = CHOOSE x \in elected' : TRUE BY <1>1
  <1>4. e.leader = f.leader BY <1>1 DEF OneLeader
  <1> QED BY <1>1, <1>2, <1>3, <1>4 DEF Winner

\* A proposal extends the winner's log.
LEMMA ProposeExtends ==
  ASSUME TypeOK, TypeOK', NEW c \in Command, Propose(Winner, c), Winner' = Winner
  PROVE  CommittedLogView!LogNext
  <1>0. PICK w \in Node : w = Winner BY WinnerIn
  <1> DEFINE e == [term |-> currentTerm[w], command |-> c]
  <1>1. log \in [Node -> Seq(Entry)] /\ e \in Entry BY DEF TypeOK, Entry
  <1>2. log'[w] = Append(log[w], e) BY <1>0, <1>1 DEF Propose
  <1> HIDE DEF e
  <1>3. log'[w] # <<>> /\ log'[w][Len(log'[w])] = e
    <2>1. log[w] \in Seq(Entry) BY <1>1
    <2>2. /\ Len(Append(log[w], e)) = Len(log[w]) + 1 /\ Len(log[w]) \in Nat
          /\ Append(log[w], e)[Len(log[w]) + 1] = e
      BY <1>1, <2>1
    <2> QED BY <1>2, <2>2
  <1>4. commitIndex' = commitIndex BY DEF Propose
  <1>5. CommittedLogView!Extend(log'[w][Len(log'[w])])
    BY <1>0, <1>2, <1>3, <1>4 DEF CommittedLogView!Extend
  <1> QED BY <1>0, <1>3, <1>5 DEF CommittedLogView!LogNext

\* A step that commits is the winner's, or another node's that hears of it.
LEMMA CommitsOfView ==
  ASSUME TypeOK, TypeOK', OneLog(Winner), Told(Winner), CommitStep,
         Winner' = Winner, log'[Winner] = log[Winner]
  PROVE  CommittedLogView!LogNext \/ UNCHANGED CommittedLogView!logVars
  <1>0. PICK w \in Node : w = Winner BY WinnerIn
  <1> DEFINE com == [n \in Node |-> commitIndex[n] + 1]
  <1>1. /\ commitIndex \in [Node -> Index] /\ commitIndex' \in [Node -> Index]
        /\ \A n \in Node : commitIndex[n] \in Int /\ commitIndex'[n] \in Int
        /\ log[w] \in Seq(Entry) /\ Len(log[w]) \in Nat
    <2>1. /\ commitIndex \in [Node -> Index] /\ commitIndex' \in [Node -> Index]
          /\ log[w] \in Seq(Entry)
      BY DEF TypeOK
    <2> QED BY <2>1 DEF Index
  <1>2. CASE commitIndex' = commitIndex
    BY <1>0, <1>2 DEF CommittedLogView!logVars, Someone
  <1>3. ASSUME NEW n \in Node, Commits(n), CommitsAtEnd(n) \/ CommitsAsTold(n),
               \A k \in Node : k # n => commitIndex'[k] = commitIndex[k],
               commitIndex'[n] # commitIndex[n]
        PROVE  CommittedLogView!LogNext
    <2>1. commitIndex[n] < commitIndex'[n] BY <1>1, <1>3 DEF Commits
    <2>2. com' = [com EXCEPT ![n] = commitIndex'[n] + 1] BY <1>3
    <2>3. CASE n = w /\ commitIndex'[w] = LastIndex(w)
      <3>1. commitIndex'[w] + 1 = Len(log[w]) BY <1>1, <2>3 DEF LastIndex
      <3>2. com[w] < Len(log[w])
        <4>1. com[w] = commitIndex[w] + 1 OBVIOUS
        <4>2. commitIndex[w] < commitIndex'[w] BY <2>1, <2>3
        <4> HIDE DEF com
        <4> QED BY <1>1, <3>1, <4>1, <4>2
      <3>3. com' = [com EXCEPT ![w] = Len(log[w])] BY <2>2, <2>3, <3>1
      <3>4. CommittedLogView!CommitAll(w)
        BY <1>0, <3>2, <3>3 DEF CommittedLogView!CommitAll, Someone
      <3> QED BY <3>4 DEF CommittedLogView!LogNext
    <2>4. CASE n # w /\ commitIndex'[n] <= commitIndex[w]
      <3>1. commitIndex'[n] + 1 \in com[n] + 1 .. com[w] BY <1>1, <2>1, <2>4
      <3>2. CommittedLogView!HearOfCommits(n)
        BY <1>0, <2>2, <2>4, <3>1 DEF CommittedLogView!HearOfCommits
      <3> QED BY <3>2 DEF CommittedLogView!LogNext
    <2>5. CASE CommitsAtEnd(n) BY <1>0, <2>3, <2>5 DEF CommitsAtEnd, Told
    <2>6. CASE CommitsAsTold(n)
      <3>1. PICK m \in appendReq : m.to = n /\ AcceptEntries(m) /\ commitIndex'[n] <= m.commit
        BY <2>6 DEF CommitsAsTold
      <3>2. m.commit \in Int /\ m.commit <= commitIndex[w]
        BY <1>0, RequestType DEF Told, Index
      <3>3. commitIndex'[n] <= commitIndex[w] BY <1>1, <3>1, <3>2
      <3>4. n # w BY <1>1, <2>1, <3>3
      <3> QED BY <2>4, <3>3, <3>4
    <2> QED BY <1>3, <2>5, <2>6
  <1>4. ASSUME NEW n \in Node, \A k \in Node : k # n => commitIndex'[k] = commitIndex[k],
               commitIndex'[n] = commitIndex[n]
        PROVE  commitIndex' = commitIndex
    <2>1. \A k \in Node : commitIndex'[k] = commitIndex[k] BY <1>4
    <2> QED BY <1>1, <2>1
  <1> QED BY <1>2, <1>3, <1>4 DEF CommitStep

\* The first election is won with nothing in the logs.
LEMMA FirstWin ==
  ASSUME TypeOK, TypeOK', log' = log, \A n \in Node : log[n] = <<>>,
         \A n \in Node : AppliedTo(n) /\ AppliedTo(n)', elected = {}
  PROVE  CommittedLogView!LogNext \/ UNCHANGED CommittedLogView!logVars
  <1>1. Winner \in Node /\ Winner' \in Node /\ Winner = Someone
    BY ConstantsOK DEF TypeOK, Victory, Winner, Someone
  <1>2. \A n \in Node : commitIndex[n] = -1 /\ commitIndex'[n] = -1
    BY DEF AppliedTo, TypeOK, Index
  <1>3. commitIndex' = commitIndex BY <1>2 DEF TypeOK
  <1>4. log[Winner] = <<>> /\ log'[Winner'] = <<>> BY <1>1
  <1>5. CASE Winner' = Winner BY <1>3, <1>4, <1>5 DEF CommittedLogView!logVars
  <1>6. CASE Winner' # Winner
    <2>1. PICK v \in Node : v = Winner' BY <1>1
    <2>2. Someone' = Someone BY DEF Someone
    <2>3. 0 \in 0 .. Len(log[Winner]) /\ SubSeq(log[Winner], 1, 0) = <<>> BY <1>4
    <2>4. \A p \in Node : [n \in Node |-> commitIndex[n] + 1][p] <= 0 BY <1>2
    <2>5. CommittedLogView!TakeOver(v)
      BY <1>1, <1>3, <1>4, <1>6, <2>1, <2>2, <2>3, <2>4 DEF CommittedLogView!TakeOver
    <2> QED BY <2>5 DEF CommittedLogView!LogNext
  <1> QED BY <1>5, <1>6

-----------------------------------------------------------------------------
\* Log s holds each command once, and only commands of P.
OnceOf(s, P) ==
  /\ \A i, j \in 1 .. Len(s) : s[i].command = s[j].command => i = j
  /\ \A i \in 1 .. Len(s) : s[i].command \in P

\* A source's log holds each command once, and only what has been proposed.
Proposed == {c \in Command : \E n \in Node : round[n][c].phase # "idle"}

OnceProposed(w) == OnceOf(log[w], Proposed)

OnceInv == OneLeader => \A w \in Node : Source(w) => OnceProposed(w)

LEMMA OnceInit == Init => OnceInv
  BY DEF Init, OnceInv, OnceProposed, OnceOf

LEMMA ProposedStep ==
  ASSUME TypeOK, TypeOK', RoundStep
  PROVE  /\ Proposed \subseteq Proposed'
         /\ (~ \E n \in Node, c \in Command : Propose(n, c)) => Proposed' = Proposed
  BY DEF RoundStep, Proposed

LEMMA ProposeIsNew ==
  ASSUME TypeOK, TypeOK', RoundStep, NEW n \in Node, NEW c \in Command, Propose(n, c)
  PROVE  c \notin Proposed /\ Proposed' = Proposed \cup {c}
  <1> DEFINE rd == [IdleRound EXCEPT !.phase = "ready"]
  <1>1. c \notin Proposed BY DEF Proposed, Propose
  <1>2. round' = [round EXCEPT ![n][c] = rd] /\ rd.phase = "ready" BY DEF Propose, IdleRound
  <1> HIDE DEF rd
  <1>3. round \in [Node -> [Slot -> Round]] BY DEF TypeOK
  <1>4. \A k \in Node, d \in Command : round'[k][d] = IF k = n /\ d = c THEN rd ELSE round[k][d]
    BY <1>2, <1>3, SlotFacts
  <1>5. ASSUME NEW d \in Command PROVE d \in Proposed' <=> d \in Proposed \/ d = c
    <2>1. CASE d = c BY <1>2, <1>4, <2>1 DEF Proposed
    <2>2. CASE d # c BY <1>4, <2>2 DEF Proposed
    <2> QED BY <2>1, <2>2
  <1>6. Proposed \subseteq Command /\ Proposed' \subseteq Command BY DEF Proposed
  <1> QED BY <1>1, <1>5, <1>6

LEMMA OnceStep ==
  ASSUME TypeOK, TypeOK', ElectionInv, LogStep, RoundStep,
         NEW w \in Node, Source(w), OneLog(w), OnceProposed(w)
  PROVE  OnceProposed(w)'
  <1>1. Proposed \subseteq Proposed' BY ProposedStep
  <1>2. CASE log'[w] = log[w] BY <1>1, <1>2 DEF OnceProposed, OnceOf
  <1>3. ASSUME NEW c \in Command, Propose(w, c) PROVE OnceProposed(w)'
    <2> DEFINE e == [term |-> currentTerm[w], command |-> c]
    <2>1. log \in [Node -> Seq(Entry)] /\ log[w] \in Seq(Entry) /\ e \in Entry
      BY DEF TypeOK, Entry
    <2>2. log'[w] = Append(log[w], e) /\ e.command = c BY <1>3, <2>1 DEF Propose
    <2> HIDE DEF e
    <2>3. PICK k \in Nat : k = Len(log[w]) BY <2>1
    <2>4. PICK new : new = log'[w] OBVIOUS
    <2>5. /\ Len(new) = k + 1 /\ new[k + 1] = e
          /\ \A i \in 1 .. k : new[i] = log[w][i]
      BY <2>1, <2>2, <2>3, <2>4
    <2>6. c \notin Proposed /\ c \in Proposed' BY <1>3, ProposeIsNew
    <2>7. \A i \in 1 .. k : new[i].command \in Proposed BY <2>3, <2>5 DEF OnceProposed, OnceOf
    <2>8. \A i, j \in 1 .. k : new[i].command = new[j].command => i = j
      BY <2>3, <2>5 DEF OnceProposed, OnceOf
    <2>9. ASSUME NEW i \in 1 .. k + 1, NEW j \in 1 .. k + 1,
                 new[i].command = new[j].command
          PROVE  i = j
      <3>1. i \in 1 .. k \/ i = k + 1 OBVIOUS
      <3>2. j \in 1 .. k \/ j = k + 1 OBVIOUS
      <3>3. new[k + 1].command = c BY <2>2, <2>5
      <3> QED BY <2>6, <2>7, <2>8, <2>9, <3>1, <3>2, <3>3
    <2>10. ASSUME NEW i \in 1 .. k + 1 PROVE new[i].command \in Proposed'
      <3>1. i \in 1 .. k \/ i = k + 1 OBVIOUS
      <3> QED BY <1>1, <2>2, <2>5, <2>6, <2>7, <3>1
    <2> QED BY <2>4, <2>5, <2>9, <2>10 DEF OnceProposed, OnceOf
  <1> QED BY <1>2, <1>3, LogOfSource

-----------------------------------------------------------------------------
\* All that both refinements need of a state.
OneSourceInv == TypeOK /\ ElectionInv /\ OneLeaderInv /\ ToldInv /\ BlankInv /\ OnceInv

\* What a step does, as long as no second node wins.
LEMMA OneSourceStep ==
  ASSUME OneSourceInv, [Next]_vars, OneLeader'
  PROVE  /\ TypeOK' /\ ElectionStep /\ OneLeader /\ LogStep /\ AckStep /\ CommitStep /\ LogsGrow
         /\ \A n \in Node : AppliedTo(n) /\ AppliedTo(n)'
         /\ \A w \in Node : Source(w)' =>
              /\ Source(w) /\ OneLog(w) /\ Told(w) /\ OnceProposed(w)
              /\ OneLog(w)' /\ Told(w)' /\ OnceProposed(w)'
  <1>1. TypeOK' /\ ElectionStep BY TypeStep, EveryStep DEF OneSourceInv
  <1>2. OneLeader /\ \A w : Source(w)' => Source(w) BY <1>1, OneLeaderBefore DEF OneSourceInv
  <1>3. /\ LogsGrow
        /\ \A w \in Node : Source(w) => OneLog(w)'
        /\ \A n \in Node : AppliedTo(n) /\ AppliedTo(n)'
    BY <1>1, <1>2, OneLeaderInvStep DEF OneSourceInv, OneLeaderInv
  <1>4. RequestStep /\ LogStep /\ AckStep /\ SentStep
    BY EveryRequest, EveryLog, EveryAck, EverySent DEF OneSourceInv
  <1>5. CommitStep
    <2>1. \A n \in Node : commitIndex[n] < Len(log[n]) BY <1>3 DEF AppliedTo
    <2> QED BY <1>1, <1>3, <2>1, EveryCommit DEF OneSourceInv
  <1>6. ASSUME NEW w \in Node, Source(w)'
        PROVE  /\ Source(w) /\ OneLog(w) /\ Told(w) /\ OnceProposed(w)
               /\ OneLog(w)' /\ Told(w)' /\ OnceProposed(w)'
    <2>1. Source(w) /\ OneLog(w) /\ Told(w) /\ OnceProposed(w) /\ OneLog(w)'
      BY <1>2, <1>3, <1>6 DEF OneSourceInv, OneLeaderInv, ToldInv, OnceInv
    <2>2. Told(w)' BY <1>1, <1>4, <1>5, <2>1, ToldStep DEF OneSourceInv
    <2>3. OnceProposed(w)' BY <1>1, <1>4, <2>1, OnceStep DEF OneSourceInv, AckStep
    <2> QED BY <2>1, <2>2, <2>3
  <1> QED BY <1>1, <1>2, <1>3, <1>4, <1>5, <1>6

LEMMA OneSourceInvariant == Spec => []OneSourceInv
  <1>1. TypeOK /\ ElectionInv /\ OneLeaderInv /\ ToldInv /\ BlankInv /\ OnceInv /\ [Next]_vars
          => ToldInv' /\ BlankInv' /\ OnceInv'
    <2> SUFFICES ASSUME OneSourceInv, [Next]_vars PROVE ToldInv' /\ BlankInv' /\ OnceInv'
      BY DEF OneSourceInv
    <2>1. ASSUME OneLeader' PROVE ToldInv' /\ OnceInv'
      BY <2>1, OneSourceStep DEF ToldInv, OnceInv
    <2>2. ~OneLeader' => ToldInv' /\ OnceInv' BY DEF ToldInv, OnceInv
    <2>3. BlankInv'
      <3> SUFFICES ASSUME elected' = {} PROVE \A n \in Node : log'[n] = <<>> BY DEF BlankInv
      <3>1. TypeOK' /\ ElectionStep /\ LogStep
        BY TypeStep, EveryStep, EveryLog DEF OneSourceInv
      <3>2. elected = {} BY <3>1 DEF ElectionStep, Advances, Retires, Wins
      <3> QED BY <3>1, <3>2, NobodyActs DEF OneSourceInv, BlankInv
    <2> QED BY <2>1, <2>2, <2>3
  <1> QED BY <1>1, ToldInit, OnceInit, OneLeaderInvariant, PTL DEF Spec, OneSourceInv

-----------------------------------------------------------------------------
LEMMA CommittedLogInit == Init => CommittedLogView!LogInit
  <1> SUFFICES ASSUME Init PROVE CommittedLogView!LogInit OBVIOUS
  <1>1. elected = {} /\ \A n \in Node : log[n] = <<>> /\ commitIndex[n] = -1 BY DEF Init
  <1>2. Winner = Someone /\ Someone \in Node BY <1>1, ConstantsOK DEF Winner, Someone
  <1>3. [n \in Node |-> commitIndex[n] + 1] = [n \in Node |-> 0] BY <1>1
  <1> QED BY <1>1, <1>2, <1>3 DEF CommittedLogView!LogInit

LEMMA CommittedLogStep ==
  ASSUME OneSourceInv, [Next]_vars, OneLeader'
  PROVE  CommittedLogView!LogNext \/ UNCHANGED CommittedLogView!logVars
  <1>1. /\ TypeOK /\ TypeOK' /\ ElectionInv /\ ElectionStep /\ OneLeader /\ LogStep /\ CommitStep
        /\ \A n \in Node : AppliedTo(n) /\ AppliedTo(n)'
    BY OneSourceStep DEF OneSourceInv
  <1>2. CASE elected = {}
    <2>1. log' = log /\ \A n \in Node : log[n] = <<>>
      BY <1>1, <1>2, NobodyActs DEF OneSourceInv, BlankInv
    <2> QED BY <1>1, <1>2, <2>1, FirstWin
  <1>3. CASE elected # {}
    <2>1. Winner' = Winner /\ Winner \in Node BY <1>1, <1>3, WinnerStays, WinnerIn
    <2>2. /\ Source(Winner) /\ OneLog(Winner) /\ Told(Winner)
      <3>1. Source(Winner) BY <1>1, WinnerIsSource
      <3> QED BY <1>1, <2>1, <3>1 DEF OneSourceInv, OneLeaderInv, ToldInv
    <2>3. ASSUME NEW c \in Command, Propose(Winner, c) PROVE CommittedLogView!LogNext
      BY <1>1, <2>1, <2>3, ProposeExtends
    <2>4. CASE log'[Winner] = log[Winner]
      BY <1>1, <2>1, <2>2, <2>4, CommitsOfView
    <2> QED BY <1>1, <2>1, <2>2, <2>3, <2>4, LogOfSource
  <1> QED BY <1>2, <1>3

\* As long as no second node wins, the code gives the services the log they are
\* built on: CommittedLog, with any number of nodes, commands, terms, failed
\* elections and stray requests (raft.py:182-205, 302-324).
THEOREM GivesCommittedLog == Spec /\ []OneLeader => ImplementsCommittedLog
  <1>1. OneSourceInv /\ [Next]_vars /\ OneLeader'
          => [CommittedLogView!LogNext]_(CommittedLogView!logVars)
    BY CommittedLogStep
  <1> QED BY <1>1, OneSourceInvariant, CommittedLogInit, PTL
      DEF Spec, ImplementsCommittedLog, CommittedLogView!LogSpec

-----------------------------------------------------------------------------
(***************************************************************************)
(* The code implements ReplicatedLog as long as no second node wins.  The  *)
(* order that is decided is the longest list any node has applied: all are *)
(* beginnings of the winner's log, which holds each command once.          *)
(***************************************************************************)

\* Commands a are those of log s, from the first on.
CommandsOf(a, s) == Len(a) <= Len(s) /\ \A i \in 1 .. Len(a) : a[i] = s[i].command

LEMMA AppliedCommands ==
  ASSUME NEW s \in Seq(Entry), NEW lg \in Seq(Entry), Below(lg, s),
         NEW ci \in Index, ci < Len(lg),
         NEW a \in Seq(Command), a = [i \in 1 .. ci + 1 |-> lg[i].command]
  PROVE  CommandsOf(a, s) /\ Len(a) = ci + 1
  <1>1. ci + 1 \in Nat /\ ci \in Int /\ Len(lg) \in Nat /\ Len(s) \in Nat BY DEF Index
  <1>2. Len(a) = ci + 1 BY <1>1
  <1>3. \A i \in 1 .. ci + 1 : i \in 1 .. Len(lg) BY <1>1
  <1>4. \A i \in 1 .. ci + 1 : a[i] = s[i].command BY <1>3 DEF Below
  <1> QED BY <1>1, <1>2, <1>4 DEF CommandsOf, Below

Longest(app) == app[CHOOSE n \in Node : \A p \in Node : Len(app[p]) <= Len(app[n])]

LEMMA LongestIs ==
  ASSUME NEW app \in [Node -> Seq(Command)], NEW s \in Seq(Entry),
         \A n \in Node : CommandsOf(app[n], s)
  PROVE  \E n \in Node : Longest(app) = app[n] /\ \A p \in Node : Len(app[p]) <= Len(app[n])
  <1>1. \A n \in Node : Len(app[n]) \in Nat OBVIOUS
  <1> DEFINE Enclosing == {d \in Nat : \A n \in Node : Len(app[n]) <= d}
  <1>2. Len(s) \in Enclosing BY DEF CommandsOf
  <1>3. PICK d \in Enclosing : \A x \in Enclosing : d <= x BY <1>2, LeastExists
  <1>4. \E n \in Node : Len(app[n]) = d
    <2> SUFFICES ASSUME \A n \in Node : Len(app[n]) # d PROVE FALSE OBVIOUS
    <2>1. \A n \in Node : Len(app[n]) <= d - 1 BY <1>1, <1>3
    <2>2. d - 1 \in Nat
      <3>1. PICK n \in Node : TRUE BY ConstantsOK
      <3> QED BY <1>1, <1>3, <2>1, <3>1
    <2>3. d - 1 \in Enclosing BY <2>1, <2>2
    <2> QED BY <1>3, <2>2, <2>3
  <1>5. \E n \in Node : \A p \in Node : Len(app[p]) <= Len(app[n]) BY <1>3, <1>4
  <1> QED BY <1>5 DEF Longest

LEMMA IsExtension ==
  ASSUME NEW T, NEW a \in Seq(T), NEW b \in Seq(T), Len(a) <= Len(b),
         \A i \in 1 .. Len(a) : a[i] = b[i]
  PROVE  b = a \o [i \in 1 .. Len(b) - Len(a) |-> b[Len(a) + i]]
  <1> DEFINE more == [i \in 1 .. Len(b) - Len(a) |-> b[Len(a) + i]]
  <1>1. Len(a) \in Nat /\ Len(b) \in Nat /\ Len(b) - Len(a) \in Nat OBVIOUS
  <1>2. more \in Seq(T) /\ Len(more) = Len(b) - Len(a) BY <1>1
  <1>3. \A i \in 1 .. Len(b) - Len(a) : more[i] = b[Len(a) + i] OBVIOUS
  <1> HIDE DEF more
  <1>7. a \o more \in Seq(T) BY <1>2
  <1>4. PICK c \in Seq(T) : c = a \o more BY <1>7
  <1>5. /\ Len(c) = Len(b)
        /\ \A i \in 1 .. Len(b) : c[i] = IF i <= Len(a) THEN a[i] ELSE more[i - Len(a)]
    BY <1>1, <1>2, <1>4
  <1>6. \A i \in 1 .. Len(b) : c[i] = b[i]
    <2> SUFFICES ASSUME NEW i \in 1 .. Len(b) PROVE c[i] = b[i] OBVIOUS
    <2>1. CASE i <= Len(a) BY <1>1, <1>5, <2>1
    <2>2. CASE ~(i <= Len(a))
      <3>1. i - Len(a) \in 1 .. Len(b) - Len(a) /\ Len(a) + (i - Len(a)) = i BY <1>1, <2>2
      <3> QED BY <1>3, <1>5, <2>2, <3>1
    <2> QED BY <2>1, <2>2
  <1> QED BY <1>4, <1>5, <1>6 DEF more

LEMMA IsPermutation ==
  ASSUME NEW S, NEW k \in Nat, NEW f \in [1 .. k -> S],
         \A i, j \in 1 .. k : f[i] = f[j] => i = j
  PROVE  f \in ReplicatedLogView!SetToAllKPermutations(S)
  <1> DEFINE T == {f[i] : i \in 1 .. k}
  <1>1. f \in Bijection(1 .. k, T) BY DEF Bijection, Injection, Surjection, IsInjective
  <1>2. IsFiniteSet(1 .. k) /\ Cardinality(1 .. k) = k BY FS_Interval
  <1>3. Cardinality(T) = k BY <1>1, <1>2, FS_Bijection DEF ExistsBijection
  <1>4. ReplicatedLogView!Cardinality(T) = Cardinality(T)
    BY DEF ReplicatedLogView!Cardinality, Cardinality
  <1>5. f \in ReplicatedLogView!SetToSeqs(T)
    BY <1>3, <1>4 DEF ReplicatedLogView!SetToSeqs
  <1>6. T \in SUBSET S OBVIOUS
  <1> QED BY <1>5, <1>6 DEF ReplicatedLogView!SetToAllKPermutations

\* Every state machine has applied commands of the source's log.
LEMMA AllApplied ==
  ASSUME TypeOK, NEW w \in Node, OneLog(w), \A n \in Node : AppliedTo(n)
  PROVE  \A n \in Node : CommandsOf(applied[n], log[w]) /\ Len(applied[n]) = commitIndex[n] + 1
  <1> SUFFICES ASSUME NEW n \in Node
               PROVE  CommandsOf(applied[n], log[w]) /\ Len(applied[n]) = commitIndex[n] + 1
    OBVIOUS
  <1>1. /\ log[w] \in Seq(Entry) /\ log[n] \in Seq(Entry) /\ commitIndex[n] \in Index
        /\ applied[n] \in Seq(Command)
    BY DEF TypeOK
  <1>2. /\ Below(log[n], log[w]) /\ commitIndex[n] < Len(log[n])
        /\ applied[n] = [i \in 1 .. commitIndex[n] + 1 |-> log[n][i].command]
    BY DEF OneLog, AppliedTo
  <1> QED BY <1>1, <1>2, AppliedCommands

LEMMA AllAppliedNext ==
  ASSUME TypeOK', NEW w \in Node, OneLog(w)', \A n \in Node : AppliedTo(n)'
  PROVE  \A n \in Node : CommandsOf(applied'[n], log'[w]) /\ Len(applied'[n]) = commitIndex'[n] + 1
  <1> SUFFICES ASSUME NEW n \in Node
               PROVE  CommandsOf(applied'[n], log'[w]) /\ Len(applied'[n]) = commitIndex'[n] + 1
    OBVIOUS
  <1>1. /\ log'[w] \in Seq(Entry) /\ log'[n] \in Seq(Entry) /\ commitIndex'[n] \in Index
        /\ applied'[n] \in Seq(Command)
    BY DEF TypeOK
  <1>2. /\ Below(log'[n], log'[w]) /\ commitIndex'[n] < Len(log'[n])
        /\ applied'[n] = [i \in 1 .. commitIndex'[n] + 1 |-> log'[n][i].command]
    BY DEF OneLog, AppliedTo
  <1> QED BY <1>1, <1>2, AppliedCommands

\* b goes on from a with commands of P, each once and none of them in a.
GoesOn(a, b, P) ==
  \E more \in ReplicatedLogView!SetToAllKPermutations(P \ ReplicatedLogView!ToSet(a)) :
    b = a \o more

\* A node that applies more decides, if need be, more of what is proposed.
LEMMA AppliesMore ==
  ASSUME NEW s \in Seq(Entry), NEW P,
         OnceOf(s, P),
         NEW a \in Seq(Command), NEW b \in Seq(Command), CommandsOf(a, s), CommandsOf(b, s),
         Len(a) <= Len(b)
  PROVE  GoesOn(a, b, P)
  <1> DEFINE k == Len(b) - Len(a)
             more == [i \in 1 .. k |-> b[Len(a) + i]]
             new == P \ ReplicatedLogView!ToSet(a)
  <1>1. /\ Len(a) \in Nat /\ Len(b) \in Nat /\ Len(s) \in Nat /\ k \in Nat
        /\ Len(b) <= Len(s)
    BY DEF CommandsOf
  <1>2. \A i \in 1 .. Len(a) : a[i] = b[i] BY <1>1 DEF CommandsOf
  <1>3. b = a \o more BY <1>2, IsExtension
  <1>4. \A i \in 1 .. k : Len(a) + i \in 1 .. Len(b) /\ Len(a) + i \in 1 .. Len(s) BY <1>1
  <1>5. \A i \in 1 .. k : more[i] = s[Len(a) + i].command BY <1>4 DEF CommandsOf
  <1> HIDE DEF more, k
  <1>6. ASSUME NEW i \in 1 .. k PROVE more[i] \in new
    <2>1. more[i] \in P BY <1>4, <1>5 DEF OnceOf
    <2>2. ASSUME NEW j \in 1 .. Len(a), more[i] = a[j] PROVE FALSE
      <3>1. j \in 1 .. Len(s) BY <1>1, <2>2
      <3>2. a[j] = s[j].command BY DEF CommandsOf
      <3>3. Len(a) + i = j BY <1>4, <1>5, <2>2, <3>1, <3>2 DEF OnceOf
      <3> QED BY <1>1, <3>3
    <2>3. DOMAIN a = 1 .. Len(a) OBVIOUS
    <2> QED BY <2>1, <2>2, <2>3 DEF ReplicatedLogView!ToSet
  <1>7. ASSUME NEW i \in 1 .. k, NEW j \in 1 .. k, more[i] = more[j] PROVE i = j
    <2>1. Len(a) + i = Len(a) + j BY <1>4, <1>5, <1>7 DEF OnceOf
    <2> QED BY <1>1, <2>1
  <1>8. more \in [1 .. k -> new]
    <2>1. more = [i \in 1 .. k |-> b[Len(a) + i]] BY DEF more
    <2> HIDE DEF new
    <2> QED BY <1>6, <2>1
  <1>9. k \in Nat BY <1>1
  <1> HIDE DEF new
  <1>10. more \in ReplicatedLogView!SetToAllKPermutations(new) BY <1>7, <1>8, <1>9, IsPermutation
  <1> QED BY <1>3, <1>10 DEF new, GoesOn

LEMMA BeginningOf ==
  ASSUME NEW s \in Seq(Entry), NEW a \in Seq(Command), NEW b \in Seq(Command),
         CommandsOf(a, s), CommandsOf(b, s), Len(a) <= Len(b)
  PROVE  a = SubSeq(b, 1, Len(a))
  <1>1. Len(a) \in Nat /\ Len(b) \in Nat /\ Len(s) \in Nat OBVIOUS
  <1>2. \A i \in 1 .. Len(a) : a[i] = b[i] BY <1>1 DEF CommandsOf
  <1>3. SubSeq(b, 1, Len(a)) = [i \in 1 .. Len(a) |-> b[i]] BY <1>1
  <1>4. a = [i \in 1 .. Len(a) |-> a[i]] OBVIOUS
  <1> QED BY <1>2, <1>3, <1>4

-----------------------------------------------------------------------------
LEMMA ReplicatedLogInit == Init => ReplicatedLogView!Init
  <1> SUFFICES ASSUME Init PROVE ReplicatedLogView!Init OBVIOUS
  <1>1. applied = [n \in Node |-> <<>>] BY DEF Init
  <1>2. \A n \in Node, c \in Command : round[n][c].phase = "idle"
    BY SlotFacts DEF Init, IdleRound
  <1>3. \E n \in Node : \A p \in Node : Len(applied[p]) <= Len(applied[n])
    BY <1>1, ConstantsOK
  <1>4. applied[CHOOSE n \in Node : \A p \in Node : Len(applied[p]) <= Len(applied[n])] = <<>>
    BY <1>1, <1>3
  <1> QED BY <1>1, <1>2, <1>4 DEF ReplicatedLogView!Init

LEMMA ReplicatedLogStep ==
  ASSUME OneSourceInv, [Next]_vars, OneLeader'
  PROVE  ReplicatedLogView!Next \/ UNCHANGED ReplicatedLogView!vars
  <1>1. /\ TypeOK /\ TypeOK' /\ ElectionInv /\ LogStep /\ AckStep /\ CommitStep
        /\ \A n \in Node : AppliedTo(n) /\ AppliedTo(n)'
    BY OneSourceStep DEF OneSourceInv
  <1>2. PICK w \in Node : Source(w)'
    <2>1. CASE elected' = {} BY <2>1, ConstantsOK DEF Source
    <2>2. CASE elected' # {}
      <3>1. PICK e \in elected' : TRUE BY <2>2
      <3>2. e.leader \in Node BY <1>1 DEF TypeOK, Victory
      <3> QED BY <3>2 DEF Source, OneLeader
    <2> QED BY <2>1, <2>2
  <1>3. /\ Source(w) /\ OneLog(w) /\ OnceProposed(w) /\ OneLog(w)' /\ OnceProposed(w)'
    BY <1>2, OneSourceStep
  <1>4. /\ applied \in [Node -> Seq(Command)] /\ applied' \in [Node -> Seq(Command)]
        /\ commitIndex \in [Node -> Index] /\ commitIndex' \in [Node -> Index]
        /\ log[w] \in Seq(Entry) /\ log'[w] \in Seq(Entry)
    BY <1>1 DEF TypeOK
  <1>5. RoundStep BY <1>1 DEF AckStep
  <1>6. ASSUME NEW n \in Node, NEW c \in Command, Propose(n, c) PROVE ReplicatedLogView!Next
    <2>1. c \notin Proposed /\ Proposed' = Proposed \cup {c} BY <1>1, <1>5, <1>6, ProposeIsNew
    <2>2. applied' = applied BY <1>6 DEF Propose
    <2>3. ReplicatedLogView!Propose(c)
      BY <2>1, <2>2 DEF ReplicatedLogView!Propose, Proposed
    <2> QED BY <2>3 DEF ReplicatedLogView!Next
  <1>7. ASSUME ~ \E n \in Node, c \in Command : Propose(n, c)
        PROVE  ReplicatedLogView!Next \/ UNCHANGED ReplicatedLogView!vars
    <2>1. Proposed' = Proposed BY <1>1, <1>5, <1>7, ProposedStep
    <2>2. log'[w] = log[w] BY <1>1, <1>3, <1>7, LogOfSource
    <2>3. CASE applied' = applied BY <2>1, <2>3 DEF ReplicatedLogView!vars, Proposed
    <2>4. ASSUME NEW n \in Node, Commits(n), \A k \in Node : k # n => applied'[k] = applied[k],
                 applied'[n] # applied[n]
          PROVE  ReplicatedLogView!Apply(n)
      <3>1. \A k \in Node : /\ CommandsOf(applied[k], log[w])
                            /\ Len(applied[k]) = commitIndex[k] + 1
        BY <1>1, <1>3, AllApplied
      <3>2. \A k \in Node : /\ CommandsOf(applied'[k], log[w])
                            /\ Len(applied'[k]) = commitIndex'[k] + 1
        BY <1>1, <1>3, <2>2, AllAppliedNext
      <3>3. Len(applied[n]) < Len(applied'[n])
        <4>1. commitIndex[n] \in Int /\ commitIndex'[n] \in Int BY <1>4 DEF Index
        <4>2. Len(applied[n]) <= Len(applied'[n]) BY <2>4, <3>1, <3>2, <4>1 DEF Commits
        <4>3. Len(applied[n]) # Len(applied'[n])
          <5> SUFFICES ASSUME Len(applied[n]) = Len(applied'[n]) PROVE FALSE OBVIOUS
          <5>1. applied[n] = SubSeq(applied'[n], 1, Len(applied[n]))
            BY <1>4, <3>1, <3>2, BeginningOf
          <5>2. applied'[n] = SubSeq(applied'[n], 1, Len(applied'[n]))
            BY <1>4, <3>2, BeginningOf
          <5> QED BY <2>4, <5>1, <5>2
        <4> QED BY <1>4, <4>2, <4>3
      <3> DEFINE a == Longest(applied)
                 b == Longest(applied')
      <3>4. PICK p \in Node : a = applied[p] /\ \A k \in Node : Len(applied[k]) <= Len(applied[p])
        BY <1>4, <3>1, LongestIs
      <3>5. PICK q \in Node : b = applied'[q] /\ \A k \in Node : Len(applied'[k]) <= Len(applied'[q])
        BY <1>4, <3>2, LongestIs
      <3> HIDE DEF a, b
      <3>6. a \in Seq(Command) /\ b \in Seq(Command) /\ CommandsOf(a, log[w]) /\ CommandsOf(b, log[w])
        BY <1>4, <3>1, <3>2, <3>4, <3>5
      <3>7. Len(a) <= Len(b)
        <4>1. Len(applied[p]) <= Len(applied'[p])
          <5>1. CASE p = n BY <1>4, <3>3, <5>1
          <5>2. CASE p # n BY <1>4, <2>4, <5>2
          <5> QED BY <5>1, <5>2
        <4> QED BY <1>4, <3>4, <3>5, <4>1
      <3>8. GoesOn(a, b, Proposed)
        <4>1. OnceOf(log[w], Proposed) BY <1>3 DEF OnceProposed
        <4> QED BY <1>4, <3>6, <3>7, <4>1, AppliesMore
      <3>9. /\ Len(applied'[n]) \in Len(applied[n]) + 1 .. Len(b)
            /\ applied'[n] = SubSeq(b, 1, Len(applied'[n]))
        <4>1. Len(applied'[n]) <= Len(b) BY <3>5
        <4>2. applied'[n] = SubSeq(b, 1, Len(applied'[n]))
          BY <1>4, <3>2, <3>6, <4>1, BeginningOf
        <4> QED BY <1>4, <3>3, <3>6, <4>1, <4>2
      <3>10. applied' = [applied EXCEPT ![n] = SubSeq(b, 1, Len(applied'[n]))]
        BY <1>4, <2>4, <3>9
      <3> QED BY <2>1, <3>8, <3>9, <3>10
         DEF ReplicatedLogView!Apply, GoesOn, Proposed, a, b, Longest
    <2>5. ASSUME NEW n \in Node, \A k \in Node : k # n => applied'[k] = applied[k],
                 applied'[n] = applied[n]
          PROVE  applied' = applied
      <3>1. \A k \in Node : applied'[k] = applied[k] BY <2>5
      <3> QED BY <1>4, <3>1
    <2> QED BY <1>1, <2>3, <2>4, <2>5 DEF CommitStep, ReplicatedLogView!Next
  <1> QED BY <1>6, <1>7

\* As long as no second node wins, the code implements ReplicatedLog: what
\* clients propose is applied in one order, each command at most once, and
\* every state machine is a beginning of that order (raft.py:327-336).
THEOREM GivesReplicatedLog == Spec /\ []OneLeader => ImplementsReplicatedLog
  <1>1. OneSourceInv /\ [Next]_vars /\ OneLeader'
          => [ReplicatedLogView!Next]_(ReplicatedLogView!vars)
    BY ReplicatedLogStep
  <1> QED BY <1>1, OneSourceInvariant, ReplicatedLogInit, PTL
      DEF Spec, ImplementsReplicatedLog, ReplicatedLogView!Spec

\* In the first term of a cluster nothing need be assumed of later elections.
THEOREM FirstTermLogs ==
  ASSUME MaxTerm = 1
  PROVE  Spec => ImplementsCommittedLog /\ ImplementsReplicatedLog
  BY FirstTerm, GivesCommittedLog, GivesReplicatedLog, PTL
=============================================================================
