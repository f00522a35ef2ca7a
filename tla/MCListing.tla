----------------------------- MODULE MCListing ------------------------------
(***************************************************************************)
(* A small instance of Listing: two users and few rows, pages of one (the  *)
(* default) and of two rows (the largest, asked for as three).             *)
(***************************************************************************)
EXTENDS Listing

CONSTANTS u1, u2
=============================================================================
