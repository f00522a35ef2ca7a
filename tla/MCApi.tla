------------------------------- MODULE MCApi --------------------------------
(***************************************************************************)
(* A small instance of Api: two key ids and two keys, and a token signed   *)
(* with the key of each id.                                                *)
(***************************************************************************)
EXTENDS Api

CONSTANTS k1, k2, a, b, s1, s2

Tokens == {[kid |-> k1, key |-> a], [kid |-> k2, key |-> b]}

\* The provider may publish the key of the second id later.
FirstSets == {[k \in Kid |-> IF k = k1 THEN a ELSE Nil]}
=============================================================================
