---------------------------- MODULE MCPushWorker ----------------------------
(***************************************************************************)
(* A small instance of PushWorker.                                         *)
(***************************************************************************)
EXTENDS PushWorker

CONSTANTS u1, t1, t2, t3, w1, w2

AnyKit == [fcm : BOOLEAN, mongo : BOOLEAN] \ {[fcm |-> FALSE, mongo |-> FALSE]}
=============================================================================
