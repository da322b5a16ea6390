--------------------------- MODULE MonotoneReads ---------------------------
(***************************************************************************)
(* What a client that reads from a node of the cache may rely on, and no   *)
(* more: it gets the newest value that has arrived there, or a miss.  A    *)
(* value may go at any time, evicted, invalidated or deleted; once gone it *)
(* is never read again, and only a newer command for the key brings a      *)
(* value back.                                                             *)
(***************************************************************************)
EXTENDS Naturals

CONSTANT Place     \* a key at a node

VARIABLES
  past,   \* positions of the commands for a place that have arrived
  shown   \* the position of the value that a read gets, 0 for a miss

Init ==
  /\ past = [p \in Place |-> {}]
  /\ shown = [p \in Place |-> 0]

Keeps(q) == shown'[q] \in {0, shown[q]}

Arrive(p) ==
  \E i \in past'[p] :
    /\ \A j \in past[p] : j < i
    /\ past' = [past EXCEPT ![p] = @ \cup {i}]
    /\ shown'[p] \in {0, i}
    /\ \A q \in Place \ {p} : Keeps(q)

Forget == past' = past /\ \A p \in Place : Keeps(p)

Next == (\E p \in Place : Arrive(p)) \/ Forget

Spec == Init /\ [][Next]_<<past, shown>>
=============================================================================
