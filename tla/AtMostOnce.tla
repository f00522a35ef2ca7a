----------------------------- MODULE AtMostOnce -----------------------------
(***************************************************************************)
(* What a work queue of the service promises: a message that was sent is   *)
(* delivered once, or lost, and never both; a lost one does not come back. *)
(* Nothing is said of the order.                                           *)
(***************************************************************************)
EXTENDS Naturals, Sequences

VARIABLES
  sent,       \* how many messages were sent; they are numbered from 1
  delivered,  \* the messages delivered, in order
  lost        \* the messages that never will be

vars == <<sent, delivered, lost>>

Pending(m) ==
  /\ m \in 1 .. sent
  /\ m \notin lost
  /\ \A k \in DOMAIN delivered : delivered[k] # m

Init == sent = 0 /\ delivered = <<>> /\ lost = {}

Send == sent' = sent + 1 /\ UNCHANGED <<delivered, lost>>

Deliver(m) ==
  /\ Pending(m)
  /\ delivered' = Append(delivered, m)
  /\ UNCHANGED <<sent, lost>>

Lose(m) ==
  /\ Pending(m)
  /\ lost' = lost \cup {m}
  /\ UNCHANGED <<sent, delivered>>

Next == Send \/ \E m \in 1 .. sent : Deliver(m) \/ Lose(m)

Spec == Init /\ [][Next]_vars
=============================================================================
