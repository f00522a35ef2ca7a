-------------------------- MODULE NotificationStore -------------------------
(***************************************************************************)
(* internal/store/memory/notification.go and internal/store/mongo/         *)
(* notification.go: the two stores of notifications.                       *)
(*                                                                         *)
(* The memory store keeps a row (owner, isRead) behind two indexes, a map  *)
(* by id and a list per user; mutations find the row by id and listings by *)
(* user.  Everything happens under one lock, so a call is one step.        *)
(* A MongoDB collection has the same shape, kept by the database: the _id  *)
(* index, and the index by user and descending created_at that a listing   *)
(* walks (indexes.go).  There a statement on one document is one step.     *)
(***************************************************************************)
EXTENDS Naturals, Sequences, FiniteSets, SequencesExt

CONSTANTS
  User,
  MaxRows   \* bound: rows ever created

ASSUME StoreAssumption == MaxRows \in Nat

VARIABLES
  kind,     \* the store the process was built with: "memory" or "mongo"
  owner,    \* the rows ever created, by id: whom each belongs to
  isRead,   \* the rows marked read
  byID,     \* the ids of the rows there are
  byUser,   \* user -> the user's rows, in the order a listing returns them
  reply     \* what the last call answered

storeVars == <<kind, owner, isRead, byID, byUser, reply>>

-----------------------------------------------------------------------------
Id == 1 .. MaxRows

Answer(is, n) == [is |-> is, n |-> n]

Replies == [is : {"none", "done", "missing", "read", "unread", "count"}, n : 0 .. MaxRows]

StoreTypeOK ==
  /\ kind \in {"memory", "mongo"}
  /\ owner \in Seq(User) /\ Len(owner) <= MaxRows
  /\ isRead \subseteq DOMAIN owner
  /\ byID \subseteq DOMAIN owner
  /\ byUser \in [User -> Seq(DOMAIN owner)]
  /\ reply \in Replies

StoreInit ==
  /\ kind \in {"memory", "mongo"}
  /\ owner = <<>>
  /\ isRead = {}
  /\ byID = {}
  /\ byUser = [u \in User |-> <<>>]
  /\ reply = Answer("none", 0)

\* The id alone is looked at.
OwnedByID(u, k) == k \in byID

Owned(u, k) == k \in byID /\ owner[k] = u

Without(list, k) ==
  IF k \in Range(list)
  THEN RemoveAt(list, CHOOSE i \in DOMAIN list : list[i] = k)
  ELSE list

-----------------------------------------------------------------------------
\* The memory store lists a new row last.
Listed(u, k) ==
  /\ kind = "memory"
  /\ byUser' = [byUser EXCEPT ![u] = Append(@, k)]

\* MongoDB lists it where its created_at puts it.  That is stamped before the
\* insert and by several ingest processes, so not always first.
Inserted(u, k) ==
  /\ kind = "mongo"
  /\ \E i \in 1 .. Len(byUser[u]) + 1 :
       byUser' = [byUser EXCEPT ![u] = InsertAt(@, i, k)]

\* An id is drawn for the map and another one for the list.
CreateTwoIDs(u) ==
  LET k == Len(owner) + 1 IN
  /\ k \in Id
  /\ owner' = Append(owner, u)
  /\ byID' = byID \cup {k + 1}
  /\ Listed(u, k) \/ Inserted(u, k)
  /\ reply' = Answer("done", 0)
  /\ UNCHANGED <<kind, isRead>>

Create(u) ==
  LET k == Len(owner) + 1 IN
  /\ k \in Id
  /\ owner' = Append(owner, u)
  /\ byID' = byID \cup {k}
  /\ Listed(u, k) \/ Inserted(u, k)
  /\ reply' = Answer("done", 0)
  /\ UNCHANGED <<kind, isRead>>

GetByID(u, k) ==
  /\ reply' = IF ~Owned(u, k) THEN Answer("missing", 0)
              ELSE IF k \in isRead THEN Answer("read", k)
              ELSE Answer("unread", k)
  /\ UNCHANGED <<kind, owner, isRead, byID, byUser>>

MarkRead(u, k) ==
  /\ IF Owned(u, k)
     THEN isRead' = isRead \cup {k} /\ reply' = Answer("done", 0)
     ELSE reply' = Answer("missing", 0) /\ UNCHANGED isRead
  /\ UNCHANGED <<kind, owner, byID, byUser>>

UnreadPlaces(u) == {i \in DOMAIN byUser[u] : byUser[u][i] \notin isRead}

\* The rows found by id, of every user.
MarkAllReadOfAll(u) ==
  /\ kind = "memory"
  /\ isRead' = isRead \cup byID
  /\ reply' = Answer("count", Cardinality(UnreadPlaces(u)))
  /\ UNCHANGED <<kind, owner, byID, byUser>>

\* In the memory store only: MongoDB's UpdateMany is no transaction and marks
\* row after row, which here is a MarkRead step for each.
MarkAllRead(u) ==
  /\ kind = "memory"
  /\ isRead' = isRead \cup Range(byUser[u])
  /\ reply' = Answer("count", Cardinality(UnreadPlaces(u)))
  /\ UNCHANGED <<kind, owner, byID, byUser>>

\* Only the map is cleaned.
DeleteByIDOnly(u, k) ==
  /\ IF Owned(u, k)
     THEN byID' = byID \ {k} /\ reply' = Answer("done", 0)
     ELSE reply' = Answer("missing", 0) /\ UNCHANGED byID
  /\ UNCHANGED <<kind, owner, isRead, byUser>>

Delete(u, k) ==
  /\ IF Owned(u, k)
     THEN /\ byID' = byID \ {k}
          /\ byUser' = [byUser EXCEPT ![u] = Without(@, k)]
          /\ isRead' = isRead \ {k}   \* nothing refers to the row any more
          /\ reply' = Answer("done", 0)
     ELSE reply' = Answer("missing", 0) /\ UNCHANGED <<byID, byUser, isRead>>
  /\ UNCHANGED <<kind, owner>>

CountUnread(u) ==
  /\ reply' = Answer("count", Cardinality(UnreadPlaces(u)))
  /\ UNCHANGED <<kind, owner, isRead, byID, byUser>>

Write ==
  \E u \in User :
    \/ Create(u) \/ MarkAllRead(u)
    \/ \E k \in Id : MarkRead(u, k) \/ Delete(u, k)

Query ==
  \E u \in User :
    \/ CountUnread(u)
    \/ \E k \in Id : GetByID(u, k)

StoreSpec == StoreInit /\ [][Write \/ Query]_storeVars

-----------------------------------------------------------------------------
(***************************************************************************)
(* Properties.                                                             *)
(***************************************************************************)

\* The two indexes agree: a user's list holds, once each, exactly the rows
\* that the index by id knows as the user's, so that what can be listed can be
\* marked and deleted, and nothing deleted is listed.
IndexesAgree ==
  \A u \in User :
    /\ IsInjective(byUser[u])
    /\ Range(byUser[u]) = {k \in byID : owner[k] = u}

\* What a listing of u shows is u's rows in the sense of Store.
Promise == INSTANCE Store WITH
  mine <- [u \in User |-> Range(byUser[u])],
  read <- [u \in User |-> Range(byUser[u]) \cap isRead]

\* Both stores keep the promise of the interface: the calls of one user leave
\* the rows of every other alone, and answers are true of the caller's rows.
KeepsPromise == Promise!Spec
=============================================================================
