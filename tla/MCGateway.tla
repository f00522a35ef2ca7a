----------------------------- MODULE MCGateway -----------------------------
(***************************************************************************)
(* A small instance of Gateway.                                            *)
(***************************************************************************)
EXTENDS Gateway, TLC

CONSTANTS u1, u2, t1, c1, c2

\* Neither users nor challenges are told apart.
Alike == Permutations(User) \cup Permutations(Challenge)
=============================================================================
