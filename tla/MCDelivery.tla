----------------------------- MODULE MCDelivery -----------------------------
(***************************************************************************)
(* A small instance of Delivery: one Kafka event to two recipients, both   *)
(* of whom take everything.                                                *)
(***************************************************************************)
EXTENDS Delivery, TLC

CONSTANTS u1, u2, e1, w1

On == DefaultPreference

Comment ==
  [via |-> "kafka", topic |-> "techinsight.comment.created", identity |-> "",
   actorOK |-> TRUE, do |-> <<TRUE>>, to |-> <<u2, u1>>, audience |-> Nil]

CommentEnvelope == {Comment}
CommentPrefOf   == (u1 :> {On}) @@ (u2 :> {On})
=============================================================================
