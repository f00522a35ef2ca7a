------------------------------ MODULE Listing -------------------------------
(***************************************************************************)
(* GET /users/{userId}/notifications: a client walks through a user's      *)
(* notifications page by page, as long as the answer says there are more,  *)
(* while other devices read and delete rows and the pipeline stores new    *)
(* ones.  The handler is internal/api/notification_handler.go, the page is *)
(* cut by ListByUserIDPaginated of either store: in one critical section   *)
(* by the memory store, with two queries, the count and then the items, by *)
(* MongoDB.                                                                *)
(***************************************************************************)
EXTENDS NotificationStore

CONSTANTS
  Reader,        \* the user whose notifications are walked through
  Sizes,         \* the per_page a client may ask for, 0 for none
  DefaultSize,   \* per_page of a request without one
  LargestSize    \* what MongoDB's store cuts per_page down to

ASSUME ListingAssumption ==
  /\ Reader \in User
  /\ Sizes \subseteq Nat
  /\ DefaultSize \in Nat \ {0} /\ LargestSize \in Nat \ {0}
  /\ DefaultSize <= LargestSize

VARIABLE
  walk      \* the client's walk

vars == <<storeVars, walk>>

-----------------------------------------------------------------------------
Idle == [pc |-> "idle"]

\* page, total: the page asked for and the count its first query returned.
\* items: the ids shown so far; repeats: how often one was shown again.
\* What happened around the walk: start, the rows it should show, those it
\* began with; left, how many rows stopped being listed since; came, how many
\* began to be; late, how many of these since the last count.
Walk == [pc : {"ask", "find", "done"}, unread : BOOLEAN, size : Nat, page : Nat,
         total : Nat, items : SUBSET Id, repeats : Nat, start : SUBSET Id,
         left : Nat, came : Nat, late : Nat]

TypeOK ==
  /\ StoreTypeOK
  /\ walk \in Walk \cup {Idle}

Init == StoreInit /\ walk = Idle

\* The filter of a listing: row after row of the list, of which a listing of
\* the unread ones skips those that are read.
Filtered(list, readOnes, unread) ==
  LET upTo[i \in 0 .. Len(list)] ==
        IF i = 0 THEN <<>>
        ELSE IF unread /\ list[i] \in readOnes THEN upTo[i - 1]
        ELSE Append(upTo[i - 1], list[i])
  IN upTo[Len(list)]

Listable == Filtered(byUser[Reader], isRead, walk.unread)

PageSize(n) ==
  IF n = 0 THEN DefaultSize
  ELSE IF kind = "mongo" /\ n > LargestSize THEN LargestSize
  ELSE n

\* Rounded down: a short last page is forgotten.
TotalPagesRounded(total, size) == total \div size

TotalPages(total, size) == (total + size - 1) \div size

\* The first row of a page counted from 0.
PageOfFromZero(rows, page, size) ==
  LET first == IF page = 1 THEN 1 ELSE (page - 1) * size
      last == IF page * size < Len(rows) THEN page * size ELSE Len(rows)
  IN SubSeq(rows, first, last)

\* Skip the pages before this one, take at most one page.
PageOf(rows, page, size) ==
  LET first == (page - 1) * size + 1
      last == IF page * size < Len(rows) THEN page * size ELSE Len(rows)
  IN SubSeq(rows, first, last)

-----------------------------------------------------------------------------
\* The first request of a walk: no page parameter is page 1.
Open(unread, n) ==
  /\ walk.pc = "idle"
  /\ walk' = [pc |-> "ask", unread |-> unread, size |-> PageSize(n), page |-> 1,
              total |-> 0, items |-> {}, repeats |-> 0,
              start |-> Range(Filtered(byUser[Reader], isRead, unread)),
              left |-> 0, came |-> 0, late |-> 0]
  /\ UNCHANGED storeVars

\* The answer, and what the client makes of it: it asks for the next page as
\* long as has_next is set.
Shown(w, total, items) ==
  [w EXCEPT !.pc = IF w.page < TotalPages(total, w.size) THEN "ask" ELSE "done",
            !.page = IF w.page < TotalPages(total, w.size) THEN @ + 1 ELSE @,
            !.total = total,
            !.items = @ \cup Range(items),
            !.repeats = @ + Cardinality({i \in DOMAIN items : items[i] \in w.items})]

\* The memory store counts and cuts under its lock.
ShowPage ==
  /\ walk.pc = "ask" /\ kind = "memory"
  /\ walk' = Shown([walk EXCEPT !.late = 0], Len(Listable), PageOf(Listable, walk.page, walk.size))
  /\ UNCHANGED storeVars

\* MongoDB: CountDocuments,
Count ==
  /\ walk.pc = "ask" /\ kind = "mongo"
  /\ walk' = [walk EXCEPT !.pc = "find", !.total = Len(Listable), !.late = 0]
  /\ UNCHANGED storeVars

\* and then Find, with the total counted before.
Find ==
  /\ walk.pc = "find"
  /\ walk' = Shown(walk, walk.total, PageOf(Listable, walk.page, walk.size))
  /\ UNCHANGED storeVars

\* Either query fails: 500, and the client gives up.
Fail ==
  /\ walk.pc \in {"ask", "find"} /\ kind = "mongo"
  /\ walk' = Idle
  /\ UNCHANGED storeVars

\* The walk is over.  What the stores answer then has no bearing on it, nor has
\* a query in its course, so neither is interleaved with a walk.
Close ==
  /\ walk.pc = "done"
  /\ walk' = Idle
  /\ UNCHANGED storeVars

\* Another request, or the pipeline, meanwhile.
Others ==
  /\ Write
  /\ walk.pc # "done"
  /\ IF walk.pc \in {"ask", "find"}
     THEN LET was == Range(Listable)
              will == Range(Filtered(byUser'[Reader], isRead', walk.unread))
          IN walk' = [walk EXCEPT !.left = @ + Cardinality(was \ will),
                                  !.came = @ + Cardinality(will \ was),
                                  !.late = @ + Cardinality(will \ was)]
     ELSE UNCHANGED walk

Next ==
  \/ \E unread \in BOOLEAN, n \in Sizes : Open(unread, n)
  \/ ShowPage \/ Count \/ Find \/ Fail
  \/ Others
  \/ Query /\ walk.pc = "idle" /\ UNCHANGED walk
  \/ Close

Spec == Init /\ [][Next]_vars

-----------------------------------------------------------------------------
(***************************************************************************)
(* Properties.                                                             *)
(***************************************************************************)

Done == walk.pc = "done"

Missed == walk.start \ walk.items

\* A walk to the last page misses a row that was listed when it began only for
\* a reason: a row before it left the list and moved it onto a page already
\* shown, or, with MongoDB, a row came between the count and the items of the
\* last page and pushed it beyond.  Each such change costs at most one row;
\* nothing is lost at the boundary of two pages or to a stale total.
NothingMissed == Done => Cardinality(Missed) <= walk.left + walk.late

\* A walk shows a row again only when a new one came before it and moved it on
\* to the next page, each at most one; the memory store, which lists new rows
\* last, never repeats one.
RepeatsBounded ==
  walk.pc # "idle" =>
    walk.repeats <= IF kind = "mongo" THEN walk.came ELSE 0
=============================================================================
