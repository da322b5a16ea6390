------------------------------ MODULE Mailbox ------------------------------
(***************************************************************************)
(* Abstract specification: what a copy of the queue on one node may do     *)
(* with a message.  It comes in once, is moved to in flight and taken back *)
(* any number of times, and is gone for good when it was in flight and is  *)
(* acknowledged, or when it expires.  The copies do all this at their own  *)
(* pace.  Who is given a message that is in flight, how many are, and why  *)
(* it is taken back is left open.                                          *)
(*                                                                         *)
(* It is what the entries that are applied do to a message in QueueNode of *)
(* src/src/nodes/queue_node.py: see ImplementsMailbox in QueueProperties.  *)
(***************************************************************************)
EXTENDS Naturals

CONSTANTS Node, Message

VARIABLES
  state,       \* where each message is on each node: "unknown", "waiting",
               \* "delivered" (in flight) or "gone"
  deliveries   \* how often each node has moved it to in flight

mailVars == <<state, deliveries>>

Init ==
  /\ state = [n \in Node |-> [m \in Message |-> "unknown"]]
  /\ deliveries = [n \in Node |-> [m \in Message |-> 0]]

Move(n, m, from, to) ==
  /\ state[n][m] = from /\ state'[n][m] = to
  /\ state' = [state EXCEPT ![n][m] = to]

Arrive(n, m) == Move(n, m, "unknown", "waiting") /\ UNCHANGED deliveries

Deliver(n, m) ==
  /\ Move(n, m, "waiting", "delivered")
  /\ deliveries' = [deliveries EXCEPT ![n][m] = @ + 1]

TakeBack(n, m) == Move(n, m, "delivered", "waiting") /\ UNCHANGED deliveries

Acknowledge(n, m) == Move(n, m, "delivered", "gone") /\ UNCHANGED deliveries

Expire(n, m) ==
  /\ Move(n, m, "waiting", "gone") \/ Move(n, m, "delivered", "gone")
  /\ UNCHANGED deliveries

Next == \E n \in Node, m \in Message :
  Arrive(n, m) \/ Deliver(n, m) \/ TakeBack(n, m) \/ Acknowledge(n, m) \/ Expire(n, m)

Spec == Init /\ [][Next]_mailVars
=============================================================================
