------------------------------- MODULE Inbox -------------------------------
(***************************************************************************)
(* internal/api and internal/store: a user's notifications, and the badge  *)
(* of unread ones that the user's devices show.                            *)
(*                                                                         *)
(* Two writers meet on the notifications collection: the pipeline stores a *)
(* row, counts the user's unread ones and announces both; the API marks    *)
(* rows read or deletes them for their owner and, with read-sync on, tells *)
(* the owner's other devices.  Store calls and the push on notif:ws are    *)
(* steps of their own, so that requests of several devices and of the      *)
(* pipeline interleave.  The pipeline itself is module Ingest.             *)
(***************************************************************************)
EXTENDS Naturals, Sequences, FiniteSets

CONSTANTS
  User, Nil,
  Slot,      \* requests that may be in progress at a time
  MaxRows,   \* bound: rows stored
  Requests,  \* the kinds of request made
  Faulty     \* the calls that may fail

Kinds == {"notify", "silent", "read", "readAll", "delete"}
Calls == {"create", "write", "count", "enqueue"}

ASSUME InboxAssumption ==
  /\ Nil \notin User /\ Nil \notin Nat
  /\ MaxRows \in Nat
  /\ Requests \subseteq Kinds
  /\ Faulty \subseteq Calls

VARIABLES
  rows,     \* the collection; the id of a row is its position
  req,      \* slot -> the request it serves
  told,     \* the read events pushed on notif:ws
  sync,     \* whether the API process has read-sync
  badge,    \* user -> the last unread total pushed to the user's room
  healed    \* user -> the last change to the rows came from a request that
            \* met no other one of the user and pushed a total

vars == <<rows, req, told, sync, badge, healed>>

-----------------------------------------------------------------------------
Id == Nat \ {0}

\* by: the users on whose behalf the row was changed after it was stored.
Row == [user : User, st : {"unread", "read", "deleted"}, by : SUBSET User]

\* upto: how many rows there were when everything was marked read.
ReadEvent == [room : User, event : {"read", "readAll"}, id : Id \cup {Nil}, upto : Nat]

\* alone: no other request of the user was in progress so far.
Request == [pc : {"count", "send"}, kind : Kinds, user : User, id : Id \cup {Nil},
            count : Nat \cup {Nil}, upto : Nat, alone : BOOLEAN]

Idle == [pc |-> "idle"]

TypeOK ==
  /\ rows \in Seq(Row)
  /\ Len(rows) <= MaxRows
  /\ req \in [Slot -> Request \cup {Idle}]
  /\ told \subseteq ReadEvent
  /\ sync \in BOOLEAN
  /\ badge \in [User -> Nat]
  /\ healed \in [User -> BOOLEAN]

-----------------------------------------------------------------------------
Unread(u) == {k \in DOMAIN rows : rows[k].user = u /\ rows[k].st = "unread"}

\* A slip: the owner is left out of the count's filter.
CountUnreadOfAll(u) == Cardinality({k \in DOMAIN rows : rows[k].st = "unread"})

\* A slip: the notification being announced is not counted.
CountUnreadOthers(u) == Cardinality(Unread(u)) - 1

CountUnread(u) == Cardinality(Unread(u))

Busy(u) == {s \in Slot : req[s] # Idle /\ req[s].user = u}

\* A slip: the row is looked up by its id alone.
OwnRowById(u, k) == k \in DOMAIN rows /\ rows[k].st # "deleted"

\* The filter {_id, user_id} matches.
OwnRow(u, k) == k \in DOMAIN rows /\ rows[k].user = u /\ rows[k].st # "deleted"

\* The row after u has set its state.
Marked(k, u, st) == [rows[k] EXCEPT !.st = st, !.by = @ \cup {u}]

\* The rows after u has marked everything read.
AllMarked(u) ==
  [k \in DOMAIN rows |-> IF k \in Unread(u) THEN Marked(k, u, "read") ELSE rows[k]]

MayFail(call) == call \in Faulty

-----------------------------------------------------------------------------
Init ==
  /\ rows = <<>>
  /\ req = [s \in Slot |-> Idle]
  /\ told = {}
  /\ sync \in BOOLEAN
  /\ badge = [u \in User |-> 0]
  /\ healed = [u \in User |-> TRUE]

\* Another request of the same user has written.
Disturbed(r) == [r EXCEPT !.alone = FALSE]

\* Slot s takes a request of u that has written and goes on; the others of u
\* are no longer alone.
Begin(s, pc, kind, u, id, upto, count) ==
  /\ req' = [t \in Slot |->
       IF t = s THEN [pc |-> pc, kind |-> kind, user |-> u, id |-> id,
                      count |-> count, upto |-> upto, alone |-> Busy(u) = {}]
       ELSE IF t \in Busy(u) THEN Disturbed(req[t])
       ELSE req[t]]
  /\ healed' = [healed EXCEPT ![u] = FALSE]

\* A request of u that ends with its write.
Only(u) ==
  /\ req' = [t \in Slot |->
       IF t \in Busy(u) THEN Disturbed(req[t]) ELSE req[t]]
  /\ healed' = [healed EXCEPT ![u] = FALSE]

\* persistNotifications: the pipeline stores a row for u.  When Create fails
\* the event is announced without an id, whether or not the row was stored.
Notify(s, u) ==
  LET row == [user |-> u, st |-> "unread", by |-> {}] IN
  /\ "notify" \in Requests
  /\ req[s] = Idle
  /\ Len(rows) < MaxRows
  /\ \/ /\ rows' = Append(rows, row)
        /\ Begin(s, "count", "notify", u, Len(rows) + 1, 0, Nil)
     \/ /\ MayFail("create")
        /\ rows' \in {rows, Append(rows, row)}
        /\ Begin(s, "count", "notify", u, Nil, 0, Nil)
  /\ UNCHANGED <<told, sync, badge>>

\* MarkRead up to the store's answer: 404 without a match; a row already read
\* matches again.  Without read-sync the request is answered at once.
MarkRead(s, u, k) ==
  /\ "read" \in Requests
  /\ req[s] = Idle
  /\ OwnRow(u, k)
  /\ \/ /\ rows' = [rows EXCEPT ![k] = Marked(k, u, "read")]
        /\ IF sync THEN Begin(s, "count", "read", u, k, 0, Nil) ELSE Only(u)
     \/ /\ MayFail("write")
        /\ rows' \in {rows, [rows EXCEPT ![k] = Marked(k, u, "read")]}
        /\ Only(u)
  /\ UNCHANGED <<told, sync, badge>>

\* A slip: the other devices are told before the store has answered.
MarkAllReadEarly(s, u) ==
  /\ "readAll" \in Requests
  /\ req[s] = Idle
  /\ rows' \in {rows, AllMarked(u)}
  /\ IF sync THEN Begin(s, "send", "readAll", u, Nil, Len(rows), 0) ELSE Only(u)
  /\ UNCHANGED <<told, sync, badge>>

\* MarkAllRead up to the store's answer; the total is known to be zero.
MarkAllRead(s, u) ==
  /\ "readAll" \in Requests
  /\ req[s] = Idle
  /\ \/ /\ rows' = AllMarked(u)
        /\ IF sync THEN Begin(s, "send", "readAll", u, Nil, Len(rows), 0) ELSE Only(u)
     \/ /\ MayFail("write")
        /\ rows' \in {rows, AllMarked(u)}
        /\ Only(u)
  /\ UNCHANGED <<told, sync, badge>>

\* Delete: nobody else is told, and a failure after the write looks the same.
Delete(u, k) ==
  /\ "delete" \in Requests
  /\ OwnRow(u, k)
  /\ \/ rows' = [rows EXCEPT ![k] = Marked(k, u, "deleted")]
     \/ MayFail("write") /\ UNCHANGED rows
  /\ Only(u)
  /\ UNCHANGED <<told, sync, badge>>

End(s) == req' = [req EXCEPT ![s] = Idle]

\* The request has its total, or has to do without.
Counted(r, n) == [r EXCEPT !.pc = "send", !.count = n]

\* CountUnread.  When it fails, MarkRead says nothing to the other devices, and
\* the pipeline announces the notification without a total.
Count(s) ==
  LET r == req[s] IN
  /\ r # Idle /\ r.pc = "count"
  /\ \/ req' = [req EXCEPT ![s] = Counted(r, CountUnread(r.user))]
     \/ MayFail("count") /\ r.kind = "read" /\ End(s)
     \/ MayFail("count") /\ r.kind = "notify" /\ req' = [req EXCEPT ![s] = Counted(r, Nil)]
  /\ UNCHANGED <<rows, told, sync, badge, healed>>

\* Enqueue on notif:ws.
Send(s) ==
  LET r == req[s] IN
  /\ r # Idle /\ r.pc = "send"
  /\ told' = IF r.kind = "notify" THEN told ELSE
               told \cup {[room |-> r.user, event |-> r.kind, id |-> r.id, upto |-> r.upto]}
  /\ IF r.count = Nil
     THEN UNCHANGED <<badge, healed>>
     ELSE /\ badge' = [badge EXCEPT ![r.user] = r.count]
          /\ healed' = [healed EXCEPT ![r.user] = r.alone]
  /\ End(s)
  /\ UNCHANGED <<rows, sync>>

\* The event is not for the user's socket (a "silent" one: the identity is push
\* only, or the user has turned the channel off), the push on the list fails,
\* or the process dies before it.
Drop(s) ==
  LET r == req[s] IN
  /\ r # Idle /\ r.pc = "send"
  /\ \/ r.kind = "notify" /\ "silent" \in Requests
     \/ MayFail("enqueue")
  /\ End(s)
  /\ UNCHANGED <<rows, told, sync, badge, healed>>

-----------------------------------------------------------------------------
Serve(s) == Count(s) \/ Send(s) \/ Drop(s)

Next ==
  \/ \E s \in Slot, u \in User : Notify(s, u) \/ MarkAllRead(s, u)
  \/ \E s \in Slot, u \in User, k \in DOMAIN rows : MarkRead(s, u, k)
  \/ \E u \in User, k \in DOMAIN rows : Delete(u, k)
  \/ \E s \in Slot : Serve(s)

Spec == Init /\ [][Next]_vars

-----------------------------------------------------------------------------
(***************************************************************************)
(* Properties.                                                             *)
(***************************************************************************)

\* What the other devices are told is true: a row announced as read belongs to
\* the room and is read (or gone) by then and for ever after, and when all of
\* them were announced as read, so is every row stored before the request.
ReadEventsTrue ==
  \A m \in told :
    /\ m.event = "read" =>
         /\ m.id \in DOMAIN rows
         /\ rows[m.id].user = m.room
         /\ rows[m.id].st # "unread"
    /\ m.event = "readAll" => \A k \in Unread(m.room) : k > m.upto

\* Nobody's rows are marked read or deleted on behalf of another user, whatever
\* id the request names.
OwnersOnly == \A k \in DOMAIN rows : rows[k].by \subseteq {rows[k].user}

\* The badge heals: after a request that met no other request of its user and
\* whose total reached the queue, the total the user's devices show is right,
\* whatever overlapped, failed or got lost before.
BadgeHeals ==
  \A u \in User : healed[u] => badge[u] = Cardinality(Unread(u))

=============================================================================
