------------------------------- MODULE Lists -------------------------------
(***************************************************************************)
(* Taking elements out of a sequence, the order of the others kept: what   *)
(* the code does with `[x for x in q if ...]' and with the removal of keys *)
(* from a dict.                                                            *)
(*                                                                         *)
(* It is SelectSeq, written as a function, of which something can be       *)
(* proved: see ListProofs.                                                 *)
(***************************************************************************)
EXTENDS Naturals, Sequences

\* The elements of q that are not in S
Without(q, S) ==
  LET kept[i \in 0 .. Len(q)] ==
        IF i = 0 THEN <<>>
        ELSE IF q[i] \in S THEN kept[i - 1] ELSE Append(kept[i - 1], q[i])
  IN kept[Len(q)]
=============================================================================
