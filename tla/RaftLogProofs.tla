--------------------------- MODULE RaftLogProofs ---------------------------
(***************************************************************************)
(* Log matching, for clusters of any size and any number of terms.  The    *)
(* argument needs a record of the past that the code does not keep: for    *)
(* each term won, the log its winner has (had) as leader of that term.     *)
(* Such a ledger always exists (Ledgered), every log is built from its     *)
(* pages (Recorded), and so is the log a request carries the end of        *)
(* (Carried).  It is an existential of the invariant, not a variable.      *)
(***************************************************************************)
EXTENDS RaftElectionProofs

\* What log s has up to an entry of some term, the leader of that term had.
Recorded(led, s) ==
  \A i \in 1 .. Len(s) :
    /\ s[i].term \in DOMAIN led
    /\ i <= Len(led[s[i].term])
    /\ \A j \in 1 .. i : s[j] = led[s[i].term][j]

\* Log s ends with the entries of request m, and has prevTerm just before them.
EndsWith(s, m) ==
  /\ Len(s) = m.prevIndex + 1 + Len(m.entries)
  /\ \A i \in 1 .. Len(m.entries) : m.entries[i] = s[m.prevIndex + 1 + i]
  /\ m.prevIndex >= 0 => m.prevTerm = s[m.prevIndex + 1].term

Carried(led, m) ==
  m.entries = <<>> \/ \E s \in Seq(Entry) : Recorded(led, s) /\ EndsWith(s, m)

\* a is the beginning of b.
Below(a, b) == Len(a) <= Len(b) /\ \A i \in 1 .. Len(a) : a[i] = b[i]

\* Ledger new has every page of led, none of them shortened or changed.
Grown(led, new) ==
  \A t \in DOMAIN led : t \in DOMAIN new /\ Below(led[t], new[t])

WonTerms == {e.term : e \in elected}

LedgerFits(led) ==
  /\ led \in [WonTerms -> Seq(Entry)]
  /\ \A n \in Node : Recorded(led, log[n])
  /\ \A m \in appendReq : Carried(led, m)
  /\ \A n \in Node : role[n] = "LEADER" => led[currentTerm[n]] = log[n]

Ledgered == \E led : LedgerFits(led)

-----------------------------------------------------------------------------
LEMMA RecordedAgree ==
  ASSUME NEW led, NEW a, NEW b, Recorded(led, a), Recorded(led, b),
         Len(a) \in Nat, Len(b) \in Nat,
         NEW i \in 1 .. Len(a), i <= Len(b), a[i].term = b[i].term
  PROVE  \A j \in 1 .. i : a[j] = b[j]
  BY DEF Recorded

LEMMA RecordedInMore ==
  ASSUME NEW T, NEW led \in [T -> Seq(Entry)], NEW U, NEW new \in [U -> Seq(Entry)],
         Grown(led, new), NEW s \in Seq(Entry), Recorded(led, s)
  PROVE  Recorded(new, s)
  <1> SUFFICES ASSUME NEW i \in 1 .. Len(s)
               PROVE  /\ s[i].term \in DOMAIN new
                      /\ i <= Len(new[s[i].term])
                      /\ \A j \in 1 .. i : s[j] = new[s[i].term][j]
    BY DEF Recorded
  <1> DEFINE t == s[i].term
  <1>1. t \in DOMAIN led /\ i <= Len(led[t]) /\ \A j \in 1 .. i : s[j] = led[t][j]
    BY DEF Recorded
  <1>2. t \in DOMAIN new /\ Below(led[t], new[t]) BY <1>1 DEF Grown
  <1>3. Len(led[t]) \in Nat /\ Len(new[t]) \in Nat BY <1>1, <1>2
  <1> HIDE DEF t
  <1>4. i <= Len(new[t]) /\ \A j \in 1 .. i : led[t][j] = new[t][j]
    BY <1>1, <1>2, <1>3 DEF Below
  <1> QED BY <1>1, <1>2, <1>4 DEF t

LEMMA CarriedInMore ==
  ASSUME NEW T, NEW led \in [T -> Seq(Entry)], NEW U, NEW new \in [U -> Seq(Entry)],
         Grown(led, new), NEW m, Carried(led, m)
  PROVE  Carried(new, m)
  BY RecordedInMore DEF Carried

LEMMA RecordedPrefix ==
  ASSUME NEW led, NEW s \in Seq(Entry), Recorded(led, s), NEW k \in Nat, k <= Len(s)
  PROVE  Recorded(led, SubSeq(s, 1, k))
  <1> DEFINE r == SubSeq(s, 1, k)
  <1>1. Len(r) = k /\ \A i \in 1 .. k : r[i] = s[i]
    <2>1. r = [i \in 1 .. k |-> s[i]] OBVIOUS
    <2>2. r \in Seq(Entry) /\ Len(r) = k OBVIOUS
    <2> QED BY <2>1, <2>2
  <1>2. \A i \in 1 .. k : i \in 1 .. Len(s) OBVIOUS
  <1> HIDE DEF r
  <1>3. ASSUME NEW i \in 1 .. k
        PROVE  /\ r[i].term \in DOMAIN led
               /\ i <= Len(led[r[i].term])
               /\ \A j \in 1 .. i : r[j] = led[r[i].term][j]
    <2>1. /\ s[i].term \in DOMAIN led
          /\ i <= Len(led[s[i].term])
          /\ \A j \in 1 .. i : s[j] = led[s[i].term][j]
      BY <1>2 DEF Recorded
    <2>2. \A j \in 1 .. i : j \in 1 .. k OBVIOUS
    <2> QED BY <1>1, <2>1, <2>2
  <1>4. Recorded(led, r) BY <1>1, <1>3 DEF Recorded
  <1> QED BY <1>4 DEF r

\* Log lg lacks an entry of s, or has one of another term in its place.
Misses(lg, s) == \E k \in 1 .. Len(s) : k > Len(lg) \/ lg[k].term # s[k].term

\* What the loop of handle_append_entries (raft.py:191-200) leaves: the log it
\* found, or the one the request carries the end of, and that one only if the
\* log found misses one of its entries.
LEMMA MergeEither ==
  ASSUME NEW lg \in Seq(Entry), NEW prev \in Index, NEW entries \in Seq(Entry), prev < Len(lg),
         NEW s \in Seq(Entry), Len(s) = prev + 1 + Len(entries),
         \A i \in 1 .. Len(entries) : entries[i] = s[prev + 1 + i],
         \A i \in 1 .. prev + 1 : lg[i] = s[i],
         \A i \in 1 .. Len(lg) : i <= Len(s) /\ lg[i].term = s[i].term => lg[i] = s[i]
  PROVE  \/ Merge(lg, prev, entries) = lg /\ Len(s) <= Len(lg)
         \/ Merge(lg, prev, entries) = s /\ Misses(lg, s)
  <1> DEFINE end == prev + 1 + Len(entries)
             sent == prev + 2 .. end
             differs(i) == i > Len(lg) \/ lg[i].term # entries[i - prev - 1].term
             replaced(i) == \E k \in sent : k <= i /\ differs(k)
             size == IF replaced(end) THEN end ELSE Len(lg)
  <1>1. /\ prev \in Int /\ prev + 1 \in Nat /\ Len(entries) \in Nat /\ Len(lg) \in Nat
        /\ end \in Nat /\ end = Len(s) /\ end >= prev + 1
    BY DEF Index
  <1>2. Merge(lg, prev, entries) =
          [i \in 1 .. size |-> IF replaced(i) THEN entries[i - prev - 1] ELSE lg[i]]
    BY DEF Merge
  <1>3. \A i \in sent : i - prev - 1 \in 1 .. Len(entries) /\ i \in 1 .. Len(s)
    BY <1>1
  <1>4. \A i \in sent : entries[i - prev - 1] = s[i]
    <2> SUFFICES ASSUME NEW i \in sent PROVE entries[i - prev - 1] = s[i] OBVIOUS
    <2>1. i - prev - 1 \in 1 .. Len(entries) BY <1>3
    <2>2. prev + 1 + (i - prev - 1) = i BY <1>1
    <2> QED BY <2>1, <2>2
  <1>5. CASE replaced(end)
    <2>1. \A i \in 1 .. end : replaced(i) => i \in sent BY <1>1
    <2>2. ASSUME NEW i \in 1 .. end, ~replaced(i) PROVE lg[i] = s[i]
      <3>1. CASE i <= prev + 1 BY <1>1, <3>1
      <3>2. CASE ~(i <= prev + 1)
        <4>1. i \in sent BY <1>1, <3>2
        <4>2. ~differs(i) BY <2>2, <4>1
        <4>3. i <= Len(lg) /\ lg[i].term = s[i].term BY <1>1, <1>4, <4>1, <4>2
        <4> QED BY <1>1, <4>3
      <3> QED BY <3>1, <3>2
    <2>3. \A i \in 1 .. end : (IF replaced(i) THEN entries[i - prev - 1] ELSE lg[i]) = s[i]
      BY <1>4, <2>1, <2>2
    <2>4. size = end BY <1>5
    <2>5. Merge(lg, prev, entries) = [i \in 1 .. end |-> s[i]]
      <3> HIDE DEF replaced, size
      <3> QED BY <1>2, <2>3, <2>4
    <2>6. s = [i \in 1 .. end |-> s[i]] BY <1>1
    <2>7. PICK k \in sent : differs(k) BY <1>5
    <2>8. k \in 1 .. Len(s) /\ (k > Len(lg) \/ lg[k].term # s[k].term) BY <1>3, <1>4, <2>7
    <2> QED BY <2>5, <2>6, <2>8 DEF Misses
  <1>6. CASE ~replaced(end)
    <2>1. \A i : ~replaced(i) BY <1>1, <1>6
    <2>2. size = Len(lg) BY <1>6
    <2>3. Merge(lg, prev, entries) = [i \in 1 .. Len(lg) |-> lg[i]]
      <3> HIDE DEF replaced, size
      <3> QED BY <1>2, <2>1, <2>2
    <2>4. lg = [i \in 1 .. Len(lg) |-> lg[i]] OBVIOUS
    <2>5. Len(s) <= Len(lg)
      <3>1. CASE end \in sent
        <4>1. ~differs(end) BY <1>1, <1>6, <3>1
        <4> QED BY <1>1, <4>1
      <3>2. CASE end \notin sent BY <1>1, <3>2
      <3> QED BY <3>1, <3>2
    <2> QED BY <2>3, <2>4, <2>5
  <1> QED BY <1>5, <1>6

LEMMA MergeNothing ==
  ASSUME NEW lg \in Seq(Entry), NEW prev \in Index, NEW entries, entries = <<>>
  PROVE  Merge(lg, prev, entries) = lg
  <1> DEFINE end == prev + 1 + Len(entries)
             sent == prev + 2 .. end
             differs(i) == i > Len(lg) \/ lg[i].term # entries[i - prev - 1].term
             replaced(i) == \E k \in sent : k <= i /\ differs(k)
             size == IF replaced(end) THEN end ELSE Len(lg)
  <1>1. sent = {} BY DEF Index
  <1>2. \A i : ~replaced(i) BY <1>1
  <1>3. Merge(lg, prev, entries) =
          [i \in 1 .. size |-> IF replaced(i) THEN entries[i - prev - 1] ELSE lg[i]]
    BY DEF Merge
  <1>4. size = Len(lg) BY <1>2
  <1> HIDE DEF size, replaced
  <1>5. Merge(lg, prev, entries) = [i \in 1 .. Len(lg) |-> lg[i]] BY <1>2, <1>3, <1>4
  <1>6. lg = [i \in 1 .. Len(lg) |-> lg[i]] OBVIOUS
  <1> QED BY <1>5, <1>6

LEMMA MergeRecorded ==
  ASSUME NEW led, NEW lg \in Seq(Entry), Recorded(led, lg),
         NEW m, m.prevIndex \in Index, m.entries \in Seq(Entry), Carried(led, m),
         m.prevIndex < Len(lg),
         m.prevIndex >= 0 => lg[m.prevIndex + 1].term = m.prevTerm
  PROVE  Recorded(led, Merge(lg, m.prevIndex, m.entries))
  <1>1. CASE m.entries = <<>> BY <1>1, MergeNothing
  <1>2. CASE m.entries # <<>>
    <2> DEFINE prev == m.prevIndex
    <2>1. PICK s \in Seq(Entry) : Recorded(led, s) /\ EndsWith(s, m) BY <1>2 DEF Carried
    <2>2. /\ Len(s) = prev + 1 + Len(m.entries) /\ Len(s) \in Nat /\ Len(lg) \in Nat
          /\ \A i \in 1 .. Len(m.entries) : m.entries[i] = s[prev + 1 + i]
          /\ prev >= 0 => m.prevTerm = s[prev + 1].term
          /\ Len(m.entries) \in Nat
      BY <2>1 DEF EndsWith
    <2>3. \A i \in 1 .. prev + 1 : lg[i] = s[i]
      <3>1. CASE prev >= 0
        <4>1. prev + 1 \in 1 .. Len(lg) /\ prev + 1 <= Len(s) BY <2>2, <3>1 DEF Index
        <4>2. lg[prev + 1].term = s[prev + 1].term BY <2>2, <3>1
        <4>3. Recorded(led, s) /\ Len(lg) \in Nat /\ Len(s) \in Nat BY <2>1, <2>2
        <4> QED BY <4>1, <4>2, <4>3, RecordedAgree
      <3>2. CASE ~(prev >= 0) BY <3>2 DEF Index
      <3> QED BY <3>1, <3>2
    <2>4. \A i \in 1 .. Len(lg) : i <= Len(s) /\ lg[i].term = s[i].term => lg[i] = s[i]
      <3> SUFFICES ASSUME NEW i \in 1 .. Len(lg), i <= Len(s), lg[i].term = s[i].term
                   PROVE  lg[i] = s[i]
        OBVIOUS
      <3>1. \A j \in 1 .. i : lg[j] = s[j] BY <2>1, <2>2, RecordedAgree
      <3> QED BY <3>1
    <2>5. Merge(lg, prev, m.entries) = lg \/ Merge(lg, prev, m.entries) = s
      <3>1. prev \in Index /\ prev < Len(lg) OBVIOUS
      <3> HIDE DEF prev
      <3> QED BY <2>2, <2>3, <2>4, <3>1, MergeEither
    <2> QED BY <2>1, <2>5
  <1> QED BY <1>1, <1>2

-----------------------------------------------------------------------------
\* What becomes of the requests: each one of the next state was there before,
\* perhaps with a call still waiting for it, or a ready round posts it.
Copy(old, m) == m = old \/ m = [old EXCEPT !.slot = None]

Posted(m) ==
  \E n \in Node, p \in Node, s \in Slot :
    /\ p # n /\ round[n][s].phase = "ready" /\ ~BadPrev(n, p)
    /\ m = AppendBody(n, p, s)

RequestStep ==
  \A m \in appendReq' : Posted(m) \/ \E old \in appendReq : Copy(old, m)

LEMMA AbandonedCopies ==
  ASSUME NEW reqs, NEW n, NEW s, NEW m \in Abandoned(reqs, n, s)
  PROVE  \E old \in reqs : Copy(old, m)
  BY DEF Abandoned, Copy

LEMMA OrphanedCopies ==
  ASSUME NEW reqs, NEW n, NEW s, NEW left \in Orphaned(n, s, reqs), NEW m \in left
  PROVE  \E old \in reqs : Copy(old, m)
  <1>1. PICK kept \in SUBSET {k \in reqs : k.from = n /\ k.slot = s} :
          left = (reqs \ {k \in reqs : k.from = n /\ k.slot = s}) \cup Abandoned(kept, n, s)
    BY DEF Orphaned
  <1>2. CASE m \in Abandoned(kept, n, s)
    <2>1. \E old \in kept : Copy(old, m) BY <1>2, AbandonedCopies
    <2> QED BY <2>1
  <1>3. CASE m \notin Abandoned(kept, n, s) BY <1>1, <1>3 DEF Copy
  <1> QED BY <1>2, <1>3

LEMMA CopyOfCopy ==
  ASSUME NEW a \in AppendRequest, NEW b, NEW c, Copy(a, b), Copy(b, c)
  PROVE  Copy(a, c)
  BY DEF Copy, AppendRequest

LEMMA RequestsSame ==
  ASSUME appendReq' = appendReq
  PROVE  RequestStep
  BY DEF RequestStep, Copy

LEMMA RequestsCancel ==
  ASSUME NEW n, CancelHeartbeat(n)
  PROVE  RequestStep
  BY AbandonedCopies DEF RequestStep, CancelHeartbeat

LEMMA RequestsAppend ==
  ASSUME NEW m \in appendReq, HandleAppendEntries(m)
  PROVE  RequestStep
  <1>1. appendReq' = appendReq \ {m} \/ appendReq' = Abandoned(appendReq \ {m}, m.to, Heartbeat)
    BY DEF HandleAppendEntries, RejectStale, RejectMismatch, AcceptEntries, Follow, Respond
  <1> QED BY <1>1, AbandonedCopies DEF RequestStep, Copy

LEMMA RequestsFinish ==
  ASSUME TypeOK, NEW n \in Node, NEW s \in Slot, FinishRound(n, s)
  PROVE  RequestStep
  <1>1. CASE appendReq' \in Orphaned(n, s, Abandoned(appendReq, n, Heartbeat))
    <2> SUFFICES ASSUME NEW m \in appendReq' PROVE \E old \in appendReq : Copy(old, m)
      BY DEF RequestStep
    <2>1. PICK mid \in Abandoned(appendReq, n, Heartbeat) : Copy(mid, m)
      BY <1>1, OrphanedCopies
    <2>2. PICK old \in appendReq : Copy(old, mid) BY AbandonedCopies
    <2>3. old \in AppendRequest BY DEF TypeOK
    <2> QED BY <2>1, <2>2, <2>3, CopyOfCopy
  <1>2. CASE appendReq' \in Orphaned(n, s, appendReq)
    BY <1>2, OrphanedCopies DEF RequestStep
  <1> QED BY <1>1, <1>2 DEF FinishRound

LEMMA RequestsSend ==
  ASSUME NEW n \in Node, NEW s \in Slot, SendRound(n, s)
  PROVE  RequestStep
  BY DEF SendRound, RequestStep, Posted, Copy, Peers

LEMMA EveryRequest == TypeOK /\ [Next]_vars => RequestStep
  <1> SUFFICES ASSUME TypeOK, [Next]_vars PROVE RequestStep OBVIOUS
  <1>1. CASE UNCHANGED vars BY <1>1, RequestsSame DEF vars, netVars
  <1>2. ASSUME NEW n \in Node, Tally(n) PROVE RequestStep
    BY <1>2, RequestsSame, RequestsCancel DEF Tally, BecomeLeader
  <1>3. ASSUME NEW m \in voteReq, HandleRequestVote(m) PROVE RequestStep
    BY <1>3, RequestsSame, RequestsCancel DEF HandleRequestVote
  <1>4. ASSUME NEW n \in Node, StartElection(n) PROVE RequestStep
    BY <1>4, RequestsSame DEF StartElection
  <1>5. ASSUME NEW n \in Node, NEW c \in Command, Propose(n, c) PROVE RequestStep
    BY <1>5, RequestsSame DEF Propose, netVars
  <1>6. ASSUME NEW n \in Node, BeginHeartbeat(n) PROVE RequestStep
    BY <1>6, RequestsSame DEF BeginHeartbeat, netVars
  <1>7. ASSUME NEW r \in appendResp, Deliver(r) PROVE RequestStep
    BY <1>7, RequestsSame DEF Deliver
  <1> QED BY <1>1, <1>2, <1>3, <1>4, <1>5, <1>6, <1>7, RequestsAppend, RequestsFinish, RequestsSend
      DEF Next

-----------------------------------------------------------------------------
\* Only propose() and handle_append_entries change a log.
LogStep ==
  \/ log' = log
  \/ \E n \in Node, c \in Command : Propose(n, c)
  \/ \E m \in appendReq : RejectMismatch(m) /\ ~TooShort(m)
  \/ \E m \in appendReq : AcceptEntries(m)

LEMMA EveryLog == [Next]_vars => LogStep
  <1> SUFFICES ASSUME [Next]_vars PROVE LogStep OBVIOUS
  <1>1. CASE UNCHANGED vars BY <1>1 DEF vars, stateVars, LogStep
  <1>2. ASSUME NEW m \in appendReq, HandleAppendEntries(m) PROVE LogStep
    BY <1>2 DEF HandleAppendEntries, RejectStale, RejectMismatch, stateVars, LogStep
  <1>3. ASSUME NEW n \in Node, StartElection(n) \/ Tally(n) \/ BeginHeartbeat(n) PROVE LogStep
    BY <1>3 DEF StartElection, Tally, BeginHeartbeat, stateVars, LogStep
  <1>4. ASSUME NEW m \in voteReq, HandleRequestVote(m) PROVE LogStep
    BY <1>4 DEF HandleRequestVote, stateVars, LogStep
  <1>5. ASSUME NEW n \in Node, NEW s \in Slot, SendRound(n, s) \/ FinishRound(n, s) PROVE LogStep
    BY <1>5 DEF SendRound, FinishRound, stateVars, LogStep
  <1>6. ASSUME NEW r \in appendResp, Deliver(r) PROVE LogStep
    BY <1>6 DEF Deliver, stateVars, LogStep
  <1> QED BY <1>1, <1>2, <1>3, <1>4, <1>5, <1>6 DEF Next, LogStep

-----------------------------------------------------------------------------
LEMMA CopyCarried ==
  ASSUME NEW led, NEW old \in AppendRequest, NEW m, Copy(old, m), Carried(led, old)
  PROVE  Carried(led, m)
  <1>1. /\ m.entries = old.entries /\ m.prevIndex = old.prevIndex
        /\ m.prevTerm = old.prevTerm
    BY DEF Copy, AppendRequest
  <1> QED BY <1>1 DEF Carried, EndsWith

\* A request carries the end of its sender's log of that moment.
LEMMA PostedEnd ==
  ASSUME TypeOK, NEW n \in Node, NEW p \in Node, NEW s, nextIndex[n][p] <= Len(log[n])
  PROVE  EndsWith(log[n], AppendBody(n, p, s))
  <1> DEFINE k == nextIndex[n][p]
             lg == log[n]
             tail == SubSeq(lg, k + 1, Len(lg))
  <1>1. lg \in Seq(Entry) /\ k \in Nat /\ Len(lg) \in Nat BY DEF TypeOK
  <1>2. k <= Len(lg) OBVIOUS
  <1>3. Len(tail) = Len(lg) - k /\ \A i \in 1 .. Len(lg) - k : tail[i] = lg[k + i]
    <2> HIDE DEF k, lg
    <2>1. k + 1 \in Nat /\ k + 1 \in 1 .. Len(lg) + 1 BY <1>1, <1>2
    <2>2. tail = [i \in 1 .. Len(lg) - k |-> lg[k + i]]
      <3>1. tail = [i \in 1 .. Len(lg) - (k + 1) + 1 |-> lg[i + (k + 1) - 1]]
        BY <1>1, <1>2, <2>1
      <3>2. Len(lg) - (k + 1) + 1 = Len(lg) - k /\ \A i \in 1 .. Len(lg) - k : i + (k + 1) - 1 = k + i
        BY <1>1, <1>2
      <3> QED BY <3>1, <3>2
    <2>3. Len(tail) = Len(lg) - k BY <1>1, <1>2
    <2> HIDE DEF tail
    <2> QED BY <2>2, <2>3
  <1> DEFINE m == AppendBody(n, p, s)
  <1>4. /\ m.prevIndex = k - 1
        /\ m.entries = SubSeq(lg, k - 1 + 2, Len(lg))
        /\ m.prevTerm = IF k - 1 >= 0 /\ lg # <<>> THEN lg[k - 1 + 1].term ELSE -1
    BY DEF AppendBody
  <1>5. k - 1 + 2 = k + 1 /\ k - 1 + 1 = k BY <1>1
  <1>6. m.entries = tail BY <1>4, <1>5
  <1> HIDE DEF k, lg, tail, m
  <1>7. Len(lg) = m.prevIndex + 1 + Len(m.entries)
    <2>1. m.prevIndex + 1 = k BY <1>1, <1>4
    <2>2. Len(m.entries) = Len(lg) - k BY <1>3, <1>6
    <2> QED BY <1>1, <2>1, <2>2
  <1>8. \A i \in 1 .. Len(m.entries) : m.entries[i] = lg[m.prevIndex + 1 + i]
    BY <1>1, <1>3, <1>4, <1>6
  <1>9. m.prevIndex >= 0 => m.prevTerm = lg[m.prevIndex + 1].term
    <2>1. lg = <<>> => Len(lg) = 0 OBVIOUS
    <2>2. m.prevIndex >= 0 => k >= 1 BY <1>1, <1>4
    <2>3. k >= 1 => lg # <<>> BY <1>1, <1>2, <2>1
    <2> QED BY <1>1, <1>4, <2>2, <2>3
  <1> QED BY <1>7, <1>8, <1>9 DEF EndsWith, lg, m

LEMMA PostedCarried ==
  ASSUME TypeOK, NEW led, \A n \in Node : Recorded(led, log[n]), NEW m, Posted(m)
  PROVE  Carried(led, m)
  <1>1. PICK n \in Node, p \in Node, s \in Slot : ~BadPrev(n, p) /\ m = AppendBody(n, p, s)
    BY DEF Posted
  <1>2. log[n] \in Seq(Entry) /\ nextIndex[n][p] \in Nat BY DEF TypeOK
  <1>3. CASE log[n] # <<>>
    <2>1. nextIndex[n][p] <= Len(log[n]) BY <1>1, <1>2, <1>3 DEF BadPrev
    <2>2. EndsWith(log[n], m) BY <1>1, <2>1, PostedEnd
    <2> QED BY <1>2, <2>2 DEF Carried
  <1>4. CASE log[n] = <<>>
    <2>1. m.entries = SubSeq(log[n], nextIndex[n][p] - 1 + 2, Len(log[n])) BY <1>1 DEF AppendBody
    <2>2. Len(log[n]) = 0 /\ nextIndex[n][p] - 1 + 2 > 0 BY <1>2, <1>4
    <2>3. m.entries = <<>> BY <1>2, <2>1, <2>2
    <2> QED BY <2>3 DEF Carried
  <1> QED BY <1>3, <1>4

LEMMA RequestsCarried ==
  ASSUME TypeOK, RequestStep, NEW led, LedgerFits(led), NEW m \in appendReq'
  PROVE  Carried(led, m)
  <1>1. CASE Posted(m) BY <1>1, PostedCarried DEF LedgerFits
  <1>2. ASSUME NEW old \in appendReq, Copy(old, m) PROVE Carried(led, m)
    <2>1. old \in AppendRequest /\ Carried(led, old) BY DEF TypeOK, LedgerFits
    <2> QED BY <1>2, <2>1, CopyCarried
  <1> QED BY <1>1, <1>2 DEF RequestStep

-----------------------------------------------------------------------------
\* A leader after a step that wins no election was one before, in that term.
LEMMA LeadersStay ==
  ASSUME TypeOK, ElectionInv, ElectionStep, elected' = elected,
         NEW n \in Node, role'[n] = "LEADER"
  PROVE  role[n] = "LEADER" /\ currentTerm'[n] = currentTerm[n]
  <1>1. Stays(n) \/ Wins(n) BY DEF ElectionStep, Retires, Advances
  <1>2. ~Wins(n)
    <2> SUFFICES ASSUME Wins(n) PROVE FALSE OBVIOUS
    <2> DEFINE e == [term |-> currentTerm[n], leader |-> n, voters |-> ballot[n].votes]
    <2>1. e \in elected BY DEF Wins
    <2>2. e.term = currentTerm[n] OBVIOUS
    <2> HIDE DEF e
    <2> QED BY <2>1, <2>2, WinIsFirst
  <1> QED BY <1>1, <1>2 DEF Stays

LEMMA LedgerKept ==
  ASSUME TypeOK, ElectionInv, ElectionStep, RequestStep, elected' = elected,
         NEW led, LedgerFits(led),
         \A n \in Node : Recorded(led, log'[n]),
         \A n \in Node : role'[n] = "LEADER" => log'[n] = log[n]
  PROVE  LedgerFits(led)'
  <1>1. led \in [WonTerms' -> Seq(Entry)] BY DEF LedgerFits, WonTerms
  <1>2. \A m \in appendReq' : Carried(led, m) BY RequestsCarried
  <1>3. \A n \in Node : role'[n] = "LEADER" => led[currentTerm'[n]] = log'[n]
    <2> SUFFICES ASSUME NEW n \in Node, role'[n] = "LEADER"
                 PROVE  led[currentTerm'[n]] = log'[n]
      OBVIOUS
    <2>1. role[n] = "LEADER" /\ currentTerm'[n] = currentTerm[n] BY LeadersStay
    <2> QED BY <2>1 DEF LedgerFits
  <1> QED BY <1>1, <1>2, <1>3 DEF LedgerFits

\* A win opens the page of a term that had none.
LEMMA LedgerWins ==
  ASSUME TypeOK, ElectionInv, RequestStep, NEW n \in Node, Wins(n),
         \A p \in Node \ {n} : Stays(p), log' = log, NEW led, LedgerFits(led)
  PROVE  Ledgered'
  <1> DEFINE term == currentTerm[n]
  <1>1. term \notin WonTerms BY WinIsFirst DEF WonTerms
  <1>2. WonTerms' = WonTerms \cup {term}
    <2> DEFINE e == [term |-> term, leader |-> n, voters |-> ballot[n].votes]
    <2>1. elected' = elected \cup {e} /\ e.term = term BY DEF Wins
    <2> HIDE DEF e
    <2> QED BY <2>1 DEF WonTerms
  <1>3. log \in [Node -> Seq(Entry)] /\ led \in [WonTerms -> Seq(Entry)] BY DEF TypeOK, LedgerFits
  <1>4. PICK new : new = [t \in WonTerms \cup {term} |-> IF t = term THEN log[n] ELSE led[t]]
    OBVIOUS
  <1>5. new \in [WonTerms \cup {term} -> Seq(Entry)] BY <1>3, <1>4
  <1>6. Grown(led, new)
    <2> SUFFICES ASSUME NEW t \in WonTerms PROVE t \in DOMAIN new /\ Below(led[t], new[t])
      BY <1>3 DEF Grown
    <2>1. t \in DOMAIN new /\ new[t] = led[t] BY <1>1, <1>4
    <2>2. led[t] \in Seq(Entry) BY <1>3
    <2> QED BY <2>1, <2>2 DEF Below
  <1>7. \A k \in Node : Recorded(new, log'[k])
    BY <1>3, <1>5, <1>6, RecordedInMore DEF LedgerFits
  <1>8. \A m \in appendReq' : Carried(new, m)
    BY <1>3, <1>5, <1>6, CarriedInMore, RequestsCarried
  <1>9. \A k \in Node : role'[k] = "LEADER" => new[currentTerm'[k]] = log'[k]
    <2> SUFFICES ASSUME NEW k \in Node, role'[k] = "LEADER"
                 PROVE  new[currentTerm'[k]] = log'[k]
      OBVIOUS
    <2>1. CASE k = n BY <1>4, <2>1 DEF Wins
    <2>2. CASE k # n
      <3>1. role[k] = "LEADER" /\ currentTerm'[k] = currentTerm[k] BY <2>2 DEF Stays
      <3>2. currentTerm[k] \in WonTerms BY <3>1 DEF ElectionInv, LeadersWon, WonTerms
      <3> QED BY <1>1, <1>4, <3>1, <3>2 DEF LedgerFits
    <2> QED BY <2>1, <2>2
  <1>10. LedgerFits(new)' BY <1>2, <1>5, <1>7, <1>8, <1>9 DEF LedgerFits
  <1> QED BY <1>10 DEF Ledgered

\* propose() adds a line to the leader's own log and to the page of its term.
LEMMA LedgerPropose ==
  ASSUME TypeOK, ElectionInv, RequestStep, NEW n \in Node, NEW c \in Command, Propose(n, c),
         NEW led, LedgerFits(led)
  PROVE  Ledgered'
  <1> DEFINE term == currentTerm[n]
             e == [term |-> term, command |-> c]
  <1>1. /\ role[n] = "LEADER" /\ elected' = elected /\ role' = role
        /\ currentTerm' = currentTerm
        /\ log' = [log EXCEPT ![n] = Append(@, e)]
    BY DEF Propose, IsLeader, nodeVars, histVars
  <1>2. /\ log \in [Node -> Seq(Entry)] /\ led \in [WonTerms -> Seq(Entry)]
        /\ e \in Entry /\ term \in Nat
    BY DEF TypeOK, LedgerFits, Entry
  <1>3. PICK w \in elected : w.leader = n /\ w.term = term
    BY <1>1 DEF ElectionInv, LeadersWon
  <1>4. term \in WonTerms BY <1>3 DEF WonTerms
  <1>5. PICK long : long = Append(log[n], e) OBVIOUS
  <1>6. /\ long \in Seq(Entry) /\ Len(long) = Len(log[n]) + 1 /\ Len(log[n]) \in Nat
        /\ \A i \in 1 .. Len(log[n]) : long[i] = log[n][i]
        /\ long[Len(log[n]) + 1] = e
    BY <1>2, <1>5
  <1>7. PICK new : new = [led EXCEPT ![term] = long] OBVIOUS
  <1>8. new \in [WonTerms -> Seq(Entry)] /\ new[term] = long BY <1>2, <1>4, <1>6, <1>7
  <1>9. Grown(led, new)
    <2> SUFFICES ASSUME NEW t \in WonTerms PROVE t \in DOMAIN new /\ Below(led[t], new[t])
      BY <1>2 DEF Grown
    <2>1. CASE t = term
      <3>1. led[t] = log[n] BY <1>1, <2>1 DEF LedgerFits
      <3> QED BY <1>4, <1>6, <1>8, <2>1, <3>1 DEF Below
    <2>2. CASE t # term
      <3>1. new[t] = led[t] /\ led[t] \in Seq(Entry) BY <1>2, <1>7, <2>2
      <3> QED BY <1>8, <3>1 DEF Below
    <2> QED BY <2>1, <2>2
  <1>10. Recorded(new, log[n])
    <2>1. log[n] \in Seq(Entry) /\ Recorded(led, log[n]) BY <1>2 DEF LedgerFits
    <2> QED BY <1>2, <1>8, <1>9, <2>1, RecordedInMore
  <1>11. Recorded(new, long)
    <2> SUFFICES ASSUME NEW i \in 1 .. Len(long)
                 PROVE  /\ long[i].term \in DOMAIN new
                        /\ i <= Len(new[long[i].term])
                        /\ \A j \in 1 .. i : long[j] = new[long[i].term][j]
      BY DEF Recorded
    <2>1. CASE i = Len(log[n]) + 1
      <3>1. long[i].term = term BY <1>6, <2>1
      <3> QED BY <1>4, <1>6, <1>8, <2>1, <3>1
    <2>2. CASE i # Len(log[n]) + 1
      <3>1. i \in 1 .. Len(log[n]) BY <1>6, <2>2
      <3>2. \A j \in 1 .. i : long[j] = log[n][j] BY <1>6, <3>1
      <3>3. long[i] = log[n][i] BY <1>6, <3>1
      <3>4. /\ log[n][i].term \in DOMAIN new
            /\ i <= Len(new[log[n][i].term])
            /\ \A j \in 1 .. i : log[n][j] = new[log[n][i].term][j]
        BY <1>10, <3>1 DEF Recorded
      <3> QED BY <3>2, <3>3, <3>4
    <2> QED BY <2>1, <2>2
  <1> HIDE DEF e
  <1>12. \A k \in Node : Recorded(new, log'[k])
    <2> SUFFICES ASSUME NEW k \in Node PROVE Recorded(new, log'[k]) OBVIOUS
    <2>1. CASE k = n BY <1>1, <1>2, <1>5, <1>11, <2>1
    <2>2. CASE k # n
      <3>1. log'[k] = log[k] /\ log[k] \in Seq(Entry) BY <1>1, <1>2, <2>2
      <3> QED BY <1>2, <1>8, <1>9, <3>1, RecordedInMore DEF LedgerFits
    <2> QED BY <2>1, <2>2
  <1>13. \A m \in appendReq' : Carried(new, m)
    BY <1>2, <1>8, <1>9, CarriedInMore, RequestsCarried
  <1>14. \A k \in Node : role'[k] = "LEADER" => new[currentTerm'[k]] = log'[k]
    <2> SUFFICES ASSUME NEW k \in Node, role[k] = "LEADER"
                 PROVE  new[currentTerm[k]] = log'[k]
      BY <1>1
    <2>1. CASE k = n BY <1>1, <1>2, <1>5, <1>8, <2>1
    <2>2. CASE k # n
      <3>1. PICK v \in elected : v.leader = k /\ v.term = currentTerm[k]
        BY DEF ElectionInv, LeadersWon
      <3>2. currentTerm[k] # term
        BY <1>3, <2>2, <3>1, InvElectionSafety DEF ElectionSafety
      <3>3. currentTerm[k] \in WonTerms BY <3>1 DEF WonTerms
      <3>4. new[currentTerm[k]] = led[currentTerm[k]] BY <1>2, <1>7, <3>2, <3>3
      <3>5. log'[k] = log[k] BY <1>1, <1>2, <2>2
      <3> QED BY <3>4, <3>5 DEF LedgerFits
    <2> QED BY <2>1, <2>2
  <1>15. WonTerms' = WonTerms BY <1>1 DEF WonTerms
  <1>16. LedgerFits(new)' BY <1>8, <1>12, <1>13, <1>14, <1>15 DEF LedgerFits
  <1> QED BY <1>16 DEF Ledgered

\* A conflict cuts the log short, the node no leader any more.
LEMMA LedgerReject ==
  ASSUME TypeOK, ElectionInv, ElectionStep, RequestStep, elected' = elected,
         NEW m \in appendReq, RejectMismatch(m), ~TooShort(m), NEW led, LedgerFits(led)
  PROVE  Ledgered'
  <1>1. m.to \in Node /\ m.prevIndex \in Index BY RequestType
  <1>2. /\ log \in [Node -> Seq(Entry)] /\ log[m.to] \in Seq(Entry)
        /\ role \in [Node -> Role]
    BY <1>1 DEF TypeOK
  <1>3. m.prevIndex \in Nat /\ m.prevIndex <= Len(log[m.to])
    BY <1>1, <1>2 DEF RejectMismatch, Conflict, Index
  <1>4. log' = [log EXCEPT ![m.to] = SubSeq(@, 1, m.prevIndex)] BY DEF RejectMismatch
  <1>5. \A n \in Node : Recorded(led, log'[n])
    <2> SUFFICES ASSUME NEW n \in Node PROVE Recorded(led, log'[n]) OBVIOUS
    <2>1. Recorded(led, log[n]) BY DEF LedgerFits
    <2>2. CASE n = m.to
      <3>1. log'[n] = SubSeq(log[n], 1, m.prevIndex) BY <1>2, <1>4, <2>2
      <3> QED BY <1>2, <1>3, <2>1, <2>2, <3>1, RecordedPrefix
    <2>3. CASE n # m.to BY <1>4, <2>1, <2>3, <1>2
    <2> QED BY <2>2, <2>3
  <1>6. role' = [role EXCEPT ![m.to] = "FOLLOWER"] BY DEF RejectMismatch, Follow
  <1>7. \A n \in Node : role'[n] = "LEADER" => log'[n] = log[n] BY <1>1, <1>2, <1>4, <1>6
  <1>8. LedgerFits(led)' BY <1>5, <1>7, LedgerKept
  <1> QED BY <1>8 DEF Ledgered

LEMMA LedgerAccept ==
  ASSUME TypeOK, ElectionInv, ElectionStep, RequestStep, elected' = elected,
         NEW m \in appendReq, AcceptEntries(m), NEW led, LedgerFits(led)
  PROVE  Ledgered'
  <1>1. m.to \in Node /\ m.prevIndex \in Index /\ m.entries \in Seq(Entry) BY RequestType
  <1>2. /\ log \in [Node -> Seq(Entry)] /\ log[m.to] \in Seq(Entry)
        /\ role \in [Node -> Role]
    BY <1>1 DEF TypeOK
  <1>3. m.prevIndex < Len(log[m.to])
    BY <1>1, <1>2 DEF AcceptEntries, TooShort, Index
  <1>4. m.prevIndex >= 0 => log[m.to][m.prevIndex + 1].term = m.prevTerm
    BY <1>1, <1>2, <1>3 DEF AcceptEntries, Conflict, Index
  <1>5. log' = [log EXCEPT ![m.to] = Merge(log[m.to], m.prevIndex, m.entries)]
    BY DEF AcceptEntries
  <1>6. Recorded(led, Merge(log[m.to], m.prevIndex, m.entries))
    <2>1. Carried(led, m) /\ Recorded(led, log[m.to]) BY <1>1 DEF LedgerFits
    <2> QED BY <1>1, <1>2, <1>3, <1>4, <2>1, MergeRecorded
  <1>7. \A n \in Node : Recorded(led, log'[n])
    BY <1>1, <1>2, <1>5, <1>6 DEF LedgerFits
  <1>8. role' = [role EXCEPT ![m.to] = "FOLLOWER"] BY DEF AcceptEntries, Follow
  <1>9. \A n \in Node : role'[n] = "LEADER" => log'[n] = log[n] BY <1>1, <1>2, <1>5, <1>8
  <1>10. LedgerFits(led)' BY <1>7, <1>9, LedgerKept
  <1> QED BY <1>10 DEF Ledgered

\* No step both wins an election and changes a log.
LEMMA WinKeepsLogs ==
  ASSUME TypeOK, LogStep, NEW n \in Node, Wins(n)
  PROVE  log' = log
  <1>1. role[n] = "CANDIDATE" /\ role'[n] = "LEADER" BY DEF Wins
  <1>2. ASSUME NEW k \in Node, NEW c \in Command, Propose(k, c) PROVE FALSE
    BY <1>1, <1>2 DEF Propose, nodeVars
  <1>3. ASSUME NEW m \in appendReq, NEW success, Follow(m, success) PROVE FALSE
    <2>1. role' = [role EXCEPT ![m.to] = "FOLLOWER"] BY <1>3 DEF Follow
    <2> QED BY <1>1, <2>1 DEF TypeOK
  <1> QED BY <1>2, <1>3 DEF LogStep, RejectMismatch, AcceptEntries

LEMMA LedgeredStep ==
  ASSUME TypeOK, ElectionInv, ElectionStep, RequestStep, LogStep, Ledgered
  PROVE  Ledgered'
  <1>1. PICK led : LedgerFits(led) BY DEF Ledgered
  <1>2. ASSUME NEW n \in Node, Wins(n), \A p \in Node \ {n} : Stays(p) PROVE Ledgered'
    BY <1>1, <1>2, WinKeepsLogs, LedgerWins
  <1>3. CASE elected' = elected
    <2>1. CASE log' = log
      <3>1. \A n \in Node : Recorded(led, log'[n]) BY <1>1, <2>1 DEF LedgerFits
      <3>2. LedgerFits(led)' BY <1>1, <1>3, <2>1, <3>1, LedgerKept
      <3> QED BY <3>2 DEF Ledgered
    <2> QED BY <1>1, <1>3, <2>1, LedgerPropose, LedgerReject, LedgerAccept DEF LogStep
  <1> QED BY <1>2, <1>3 DEF ElectionStep, Advances, Retires

LEMMA LedgeredInit == Init => Ledgered
  <1> SUFFICES ASSUME Init PROVE Ledgered OBVIOUS
  <1> DEFINE led == [t \in {} |-> <<>>]
  <1>1. WonTerms = {} BY DEF Init, WonTerms
  <1>2. led \in [WonTerms -> Seq(Entry)] BY <1>1
  <1>3. \A n \in Node : log[n] = <<>> /\ role[n] # "LEADER" BY DEF Init
  <1>4. \A n \in Node : Recorded(led, log[n]) BY <1>3 DEF Recorded
  <1>5. appendReq = {} BY DEF Init
  <1> HIDE DEF led
  <1>6. LedgerFits(led) BY <1>2, <1>3, <1>4, <1>5 DEF LedgerFits
  <1> QED BY <1>6 DEF Ledgered

LEMMA LedgerInvariant == Spec => [](TypeOK /\ ElectionInv /\ Ledgered)
  <1>1. TypeOK /\ ElectionInv /\ Ledgered /\ [Next]_vars => Ledgered'
    BY EveryStep, EveryRequest, EveryLog, LedgeredStep
  <1> QED BY <1>1, LedgeredInit, ElectionInvInvariant, PTL DEF Spec

\* Two logs with an entry of the same term at the same position agree on
\* everything up to there: for any number of nodes, terms and commands, with
\* requests lost, late or sent by a leader that is deposed (raft.py:183-200).
THEOREM LogsMatch == Spec => []LogMatching
  <1>1. TypeOK /\ Ledgered => LogMatching
    <2> SUFFICES ASSUME TypeOK, Ledgered, NEW n \in Node, NEW p \in Node,
                        NEW i \in DOMAIN log[n] \cap DOMAIN log[p],
                        log[n][i].term = log[p][i].term
                 PROVE  SubSeq(log[n], 1, i) = SubSeq(log[p], 1, i)
      BY DEF LogMatching
    <2>1. PICK led : LedgerFits(led) BY DEF Ledgered
    <2>2. Recorded(led, log[n]) /\ Recorded(led, log[p]) BY <2>1 DEF LedgerFits
    <2>3. log[n] \in Seq(Entry) /\ log[p] \in Seq(Entry) BY DEF TypeOK
    <2>4. i \in 1 .. Len(log[n]) /\ i \in 1 .. Len(log[p]) BY <2>3
    <2>5. \A j \in 1 .. i : log[n][j] = log[p][j] BY <2>2, <2>3, <2>4, RecordedAgree
    <2>6. /\ SubSeq(log[n], 1, i) = [j \in 1 .. i |-> log[n][j]]
          /\ SubSeq(log[p], 1, i) = [j \in 1 .. i |-> log[p][j]]
      BY <2>3, <2>4
    <2> QED BY <2>5, <2>6
  <1> QED BY <1>1, LedgerInvariant, PTL

-----------------------------------------------------------------------------
(***************************************************************************)
(* next_index of a leader: set to the length of its log when it takes      *)
(* office and after a success, lowered after a failure, while its log only *)
(* grows.                                                                  *)
(***************************************************************************)
NextStep ==
  /\ \A n, p \in Node : \/ nextIndex'[n][p] <= nextIndex[n][p]
                        \/ nextIndex'[n][p] = Len(log[n]) /\ log' = log
  /\ \A n \in Node : role'[n] = "LEADER" /\ role[n] # "LEADER" =>
       log' = log /\ \A p \in Node : nextIndex'[n][p] = Len(log[n])

LEMMA NextSame ==
  ASSUME TypeOK, nextIndex' = nextIndex,
         \A n \in Node : role'[n] = "LEADER" => role[n] = "LEADER"
  PROVE  NextStep
  BY DEF NextStep, TypeOK

LEMMA NextTally ==
  ASSUME TypeOK, NEW n \in Node, Tally(n)
  PROVE  NextStep
  <1>1. log' = log BY DEF Tally, stateVars
  <1>2. CASE BecomeLeader(n)
    <2>1. /\ role' = [role EXCEPT ![n] = "LEADER"]
          /\ nextIndex' = [nextIndex EXCEPT ![n] = [p \in Node |-> Len(log[n])]]
      BY <1>2 DEF BecomeLeader
    <2>2. role \in [Node -> Role] /\ nextIndex \in [Node -> [Node -> Nat]] BY DEF TypeOK
    <2> QED BY <1>1, <2>1, <2>2 DEF NextStep
  <1>3. CASE nextIndex' = nextIndex /\ \E t \in Nat : StepDown(n, t)
    BY <1>3, NextSame DEF StepDown, TypeOK
  <1>4. CASE nextIndex' = nextIndex /\
             role' = [role EXCEPT ![n] = IF @ = "CANDIDATE" THEN "FOLLOWER" ELSE @]
    BY <1>4, NextSame DEF TypeOK
  <1>5. ballot[n].terms \subseteq Nat BY DEF TypeOK, Ballot
  <1> QED BY <1>2, <1>3, <1>4, <1>5 DEF Tally

LEMMA NextDeliver ==
  ASSUME TypeOK, NEW r \in appendResp, Deliver(r)
  PROVE  NextStep
  <1>1. r.to \in Node /\ r.from \in Node BY DEF TypeOK, AppendReply
  <1>2. nextIndex \in [Node -> [Node -> Nat]] /\ log' = log /\ role' = role
    BY DEF TypeOK, Deliver, stateVars, nodeVars
  <1>3. nextIndex' = [nextIndex EXCEPT ![r.to][r.from] = NextAfterReply(r.to, r.from, r.success)]
    BY DEF Deliver
  <1>4. \/ NextAfterReply(r.to, r.from, r.success) = Len(log[r.to])
        \/ NextAfterReply(r.to, r.from, r.success) <= nextIndex[r.to][r.from]
    BY <1>1, <1>2 DEF NextAfterReply
  <1>5. \A n, p \in Node :
          nextIndex'[n][p] = IF n = r.to /\ p = r.from
                             THEN NextAfterReply(r.to, r.from, r.success) ELSE nextIndex[n][p]
    BY <1>1, <1>2, <1>3
  <1>6. \A n, p \in Node : nextIndex[n][p] \in Nat BY <1>2
  <1>7. ASSUME NEW n \in Node, NEW p \in Node
        PROVE  \/ nextIndex'[n][p] <= nextIndex[n][p]
               \/ nextIndex'[n][p] = Len(log[n]) /\ log' = log
    <2>1. CASE n = r.to /\ p = r.from BY <1>2, <1>4, <1>5, <2>1
    <2>2. CASE ~(n = r.to /\ p = r.from)
      <3>1. nextIndex'[n][p] = nextIndex[n][p] BY <1>5, <2>2
      <3> QED BY <1>6, <3>1
    <2> QED BY <2>1, <2>2
  <1> QED BY <1>2, <1>7 DEF NextStep

LEMMA NextOther ==
  ASSUME TypeOK, NEW n \in Node, NEW s \in Slot, NEW c,
         StartElection(n) \/ BeginHeartbeat(n) \/ Propose(n, c) \/ SendRound(n, s)
           \/ FinishRound(n, s)
  PROVE  NextStep
  <1>1. nextIndex' = nextIndex
    BY DEF StartElection, BeginHeartbeat, Propose, SendRound, FinishRound
  <1>2. \A p \in Node : role'[p] = "LEADER" => role[p] = "LEADER"
    <2>1. CASE StartElection(n) BY <2>1 DEF StartElection, TypeOK
    <2>2. CASE FinishRound(n, s) BY <2>2 DEF FinishRound, StepDown, TypeOK, nodeVars
    <2>3. CASE BeginHeartbeat(n) \/ Propose(n, c) \/ SendRound(n, s)
      BY <2>3 DEF BeginHeartbeat, Propose, SendRound, nodeVars
    <2> QED BY <2>1, <2>2, <2>3
  <1> QED BY <1>1, <1>2, NextSame

LEMMA NextHandle ==
  ASSUME TypeOK,
         \/ \E m \in voteReq : HandleRequestVote(m)
         \/ \E m \in appendReq : HandleAppendEntries(m)
  PROVE  NextStep
  <1>1. nextIndex' = nextIndex BY DEF HandleRequestVote, HandleAppendEntries
  <1>2. \A p \in Node : role'[p] = "LEADER" => role[p] = "LEADER"
    <2>1. ASSUME NEW m \in voteReq, HandleRequestVote(m),
                 NEW p \in Node, role'[p] = "LEADER"
          PROVE  role[p] = "LEADER"
      BY <2>1 DEF HandleRequestVote, TypeOK
    <2>2. ASSUME NEW m \in appendReq, HandleAppendEntries(m),
                 NEW p \in Node, role'[p] = "LEADER"
          PROVE  role[p] = "LEADER"
      BY <2>2 DEF HandleAppendEntries, RejectStale, RejectMismatch, AcceptEntries, Follow,
                  nodeVars, TypeOK
    <2> QED BY <2>1, <2>2
  <1> QED BY <1>1, <1>2, NextSame

LEMMA EveryNext == TypeOK /\ [Next]_vars => NextStep
  <1> SUFFICES ASSUME TypeOK, [Next]_vars PROVE NextStep OBVIOUS
  <1>1. CASE UNCHANGED vars BY <1>1, NextSame DEF vars, nodeVars
  <1>2. Heartbeat \in Slot BY DEF Slot
  <1>3. ASSUME NEW n \in Node, StartElection(n) \/ BeginHeartbeat(n) PROVE NextStep
    BY <1>2, <1>3, NextOther
  <1>4. ASSUME NEW n \in Node, NEW c \in Command, Propose(n, c) PROVE NextStep
    BY <1>2, <1>4, NextOther
  <1>5. ASSUME NEW n \in Node, NEW s \in Slot, SendRound(n, s) \/ FinishRound(n, s) PROVE NextStep
    BY <1>5, NextOther
  <1> QED BY <1>1, <1>3, <1>4, <1>5, NextTally, NextHandle, NextDeliver DEF Next

\* A leader's log only grows while it is in office.
LEMMA LeaderLogGrows ==
  ASSUME TypeOK, LogStep, NEW n \in Node, role'[n] = "LEADER"
  PROVE  Len(log'[n]) >= Len(log[n])
  <1>1. log \in [Node -> Seq(Entry)] /\ role \in [Node -> Role] BY DEF TypeOK
  <1>2. Len(log[n]) \in Nat BY <1>1
  <1>3. CASE log' = log BY <1>2, <1>3
  <1>4. ASSUME NEW k \in Node, NEW c \in Command, Propose(k, c)
        PROVE  Len(log'[n]) >= Len(log[n])
    <2>1. log' = [log EXCEPT ![k] = Append(@, [term |-> currentTerm[k], command |-> c])]
      BY <1>4 DEF Propose
    <2>2. [term |-> currentTerm[k], command |-> c] \in Entry BY DEF TypeOK, Entry
    <2>3. CASE n = k
      <3>1. log'[n] = Append(log[n], [term |-> currentTerm[k], command |-> c])
        BY <1>1, <2>1, <2>3
      <3>2. Len(log'[n]) = Len(log[n]) + 1 BY <1>1, <2>2, <3>1
      <3> QED BY <1>2, <3>2
    <2>4. CASE n # k BY <1>1, <1>2, <2>1, <2>4
    <2> QED BY <2>3, <2>4
  <1>5. ASSUME NEW m \in appendReq, NEW success, Follow(m, success)
        PROVE  n # m.to
    BY <1>1, <1>5 DEF Follow
  <1>6. ASSUME NEW m \in appendReq, RejectMismatch(m), ~TooShort(m)
        PROVE  Len(log'[n]) >= Len(log[n])
    <2>1. log'[n] = log[n] BY <1>1, <1>5, <1>6 DEF RejectMismatch
    <2> QED BY <1>2, <2>1
  <1>7. ASSUME NEW m \in appendReq, AcceptEntries(m)
        PROVE  Len(log'[n]) >= Len(log[n])
    <2>1. log'[n] = log[n] BY <1>1, <1>5, <1>7 DEF AcceptEntries
    <2> QED BY <1>2, <2>1
  <1> QED BY <1>3, <1>4, <1>6, <1>7 DEF LogStep

\* next_index of a leader stays inside its log.
NextInLog ==
  \A n \in Node : role[n] = "LEADER" => \A p \in Node : nextIndex[n][p] <= Len(log[n])

LEMMA NextInLogStep ==
  ASSUME TypeOK, TypeOK', LogStep, NextStep, NextInLog
  PROVE  NextInLog'
  <1> SUFFICES ASSUME NEW n \in Node, role'[n] = "LEADER", NEW p \in Node
               PROVE  nextIndex'[n][p] <= Len(log'[n])
    BY DEF NextInLog
  <1>1. /\ Len(log[n]) \in Nat /\ Len(log'[n]) \in Nat
        /\ nextIndex[n][p] \in Nat /\ nextIndex'[n][p] \in Nat
    <2>1. log[n] \in Seq(Entry) /\ nextIndex[n][p] \in Nat BY DEF TypeOK
    <2>2. log'[n] \in Seq(Entry) BY DEF TypeOK
    <2>3. nextIndex' \in [Node -> [Node -> Nat]] BY DEF TypeOK
    <2> QED BY <2>1, <2>2, <2>3
  <1>2. CASE role[n] # "LEADER" BY <1>1, <1>2 DEF NextStep
  <1>3. CASE role[n] = "LEADER"
    <2>1. nextIndex[n][p] <= Len(log[n]) BY <1>3 DEF NextInLog
    <2>2. Len(log[n]) <= Len(log'[n]) BY <1>1, LeaderLogGrows
    <2>3. nextIndex'[n][p] <= nextIndex[n][p] \/ nextIndex'[n][p] = Len(log[n]) BY DEF NextStep
    <2> QED BY <1>1, <2>1, <2>2, <2>3
  <1> QED BY <1>2, <1>3

\* A leader can always send: prev_index is a position of its log
\* (raft.py:353), whatever answers came in late and however the log grew.
THEOREM LeadersCanSend == Spec => []LeaderCanSend
  <1>1. Init => NextInLog BY DEF Init, NextInLog
  <1>2. TypeOK /\ NextInLog /\ [Next]_vars => NextInLog'
    BY TypeStep, EveryLog, EveryNext, NextInLogStep
  <1>3. TypeOK /\ NextInLog => LeaderCanSend
    BY DEF NextInLog, LeaderCanSend, BadPrev, Peers, TypeOK
  <1> QED BY <1>1, <1>2, <1>3, TypeCorrect, PTL DEF Spec
=============================================================================
