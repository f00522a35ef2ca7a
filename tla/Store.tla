------------------------------- MODULE Store --------------------------------
(***************************************************************************)
(* What internal/store/store.go promises of a NotificationStore, whatever  *)
(* keeps the rows: every user has notifications of his own, a call on      *)
(* behalf of one user neither reads nor changes those of another, and the  *)
(* answer of a call is what was true of the user's rows when it was made.  *)
(***************************************************************************)
EXTENDS Naturals, FiniteSets

CONSTANTS User, Id

VARIABLES
  mine,   \* user -> the ids of the user's notifications
  read,   \* user -> those of them that are marked read
  reply   \* what the last call answered

vars == <<mine, read, reply>>

-----------------------------------------------------------------------------
Answer(is, n) == [is |-> is, n |-> n]

Unread(u) == Cardinality(mine[u] \ read[u])

Init ==
  /\ mine = [u \in User |-> {}]
  /\ read = [u \in User |-> {}]
  /\ reply = Answer("none", 0)

Create(u, k) ==
  /\ \A v \in User : k \notin mine[v]
  /\ mine' = [mine EXCEPT ![u] = @ \cup {k}]
  /\ reply' = Answer("done", 0)
  /\ UNCHANGED read

GetByID(u, k) ==
  /\ reply' = IF k \notin mine[u] THEN Answer("missing", 0)
              ELSE IF k \in read[u] THEN Answer("read", k)
              ELSE Answer("unread", k)
  /\ UNCHANGED <<mine, read>>

MarkRead(u, k) ==
  \/ /\ k \in mine[u]
     /\ read' = [read EXCEPT ![u] = @ \cup {k}]
     /\ reply' = Answer("done", 0)
     /\ UNCHANGED mine
  \/ /\ k \notin mine[u]
     /\ reply' = Answer("missing", 0)
     /\ UNCHANGED <<mine, read>>

MarkAllRead(u) ==
  /\ read' = [read EXCEPT ![u] = mine[u]]
  /\ reply' = Answer("count", Unread(u))
  /\ UNCHANGED mine

Delete(u, k) ==
  \/ /\ k \in mine[u]
     /\ mine' = [mine EXCEPT ![u] = @ \ {k}]
     /\ read' = [read EXCEPT ![u] = @ \ {k}]
     /\ reply' = Answer("done", 0)
  \/ /\ k \notin mine[u]
     /\ reply' = Answer("missing", 0)
     /\ UNCHANGED <<mine, read>>

CountUnread(u) ==
  /\ reply' = Answer("count", Unread(u))
  /\ UNCHANGED <<mine, read>>

Next ==
  \E u \in User :
    \/ MarkAllRead(u) \/ CountUnread(u)
    \/ \E k \in Id : Create(u, k) \/ GetByID(u, k) \/ MarkRead(u, k) \/ Delete(u, k)

Spec == Init /\ [][Next]_vars
=============================================================================
