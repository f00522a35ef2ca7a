-------------------------- MODULE MCDispatchWorker --------------------------
(***************************************************************************)
(* A small instance of DispatchWorker.                                     *)
(***************************************************************************)
EXTENDS DispatchWorker

CONSTANTS w1, w2
=============================================================================
