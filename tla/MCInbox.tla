------------------------------ MODULE MCInbox ------------------------------
(***************************************************************************)
(* Small instances of Inbox, and what the documents say of the badge.      *)
(***************************************************************************)
EXTENDS Inbox, TLC

CONSTANTS u1, u2, s1, s2

Requesters == Permutations({s1, s2}) \cup Permutations({u1, u2})

\* internal/api/read_sync.go, ReadSyncPublisher: without it the bell badge
\* drifts.  With it, when nothing is in progress and no call has failed, the
\* total last sent to a user's devices is the user's unread total.
BadgeNeverDrifts ==
  \A u \in User : sync /\ Busy(u) = {} => badge[u] = Cardinality(Unread(u))
=============================================================================
