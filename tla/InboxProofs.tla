---------------------------- MODULE InboxProofs ----------------------------
(***************************************************************************)
(* Proofs about Inbox, for any users, number of requests in progress, rows *)
(* and choice of failing calls.                                            *)
(***************************************************************************)
EXTENDS Inbox, TLAPS, FiniteSetTheorems

\* What a request in progress knows about the rows stays true: the row it
\* marked is read, the rows it marked up to upto are, and as long as it is
\* alone the total it counted is right.
Knows(s) ==
  LET r == req[s] IN
  /\ r.kind = "read" =>
       /\ r.id \in DOMAIN rows
       /\ rows[r.id].user = r.user
       /\ rows[r.id].st # "unread"
  /\ r.kind = "readAll" => \A k \in Unread(r.user) : k > r.upto
  /\ r.upto <= Len(rows)
  /\ r.kind \in {"notify", "read", "readAll"}
  /\ r.count # Nil => r.pc = "send"
  /\ r.count # Nil /\ r.alone => r.count = Cardinality(Unread(r.user))

\* A request that is alone is the only one of its user.
Alone(s) == req[s].alone => Busy(req[s].user) = {s}

IInv ==
  /\ TypeOK
  /\ \A s \in Slot : req[s] # Idle => Knows(s) /\ Alone(s)
  /\ ReadEventsTrue
  /\ \A m \in told : m.upto <= Len(rows)
  /\ OwnersOnly
  /\ BadgeHeals

\* What a write on behalf of u may do to the rows: it touches u's only, makes
\* none unread again, and adds rows at the end.
WriteOf(u) ==
  /\ rows' \in Seq(Row)
  /\ Len(rows') <= MaxRows
  /\ Len(rows) <= Len(rows')
  /\ \A k \in DOMAIN rows :
       /\ rows'[k].user = rows[k].user
       /\ rows[k].st # "unread" => rows'[k].st # "unread"
       /\ rows'[k] # rows[k] =>
            rows[k].user = u /\ rows'[k].by \subseteq rows[k].by \cup {u}
  /\ \A k \in DOMAIN rows' :
       k > Len(rows) => rows'[k].user = u /\ rows'[k].by = {}

-----------------------------------------------------------------------------
\* A user has finitely many unread rows.
LEMMA UnreadCount ==
  ASSUME rows \in Seq(Row), NEW u \in User
  PROVE  Cardinality(Unread(u)) \in Nat
<1>1. Unread(u) \subseteq 1 .. Len(rows)
  BY DEF Unread
<1>2. IsFiniteSet(1 .. Len(rows))
  BY FS_Interval
<1> QED
  BY <1>1, <1>2, FS_Subset, FS_CardinalityType

\* A write on behalf of u leaves the unread rows of the others alone, and adds
\* to those of u at the end only.
LEMMA UnreadAfterWrite ==
  ASSUME rows \in Seq(Row), NEW u \in User, WriteOf(u), NEW v \in User
  PROVE  /\ v # u => Unread(v)' = Unread(v)
         /\ \A k \in Unread(v)' : k \in Unread(v) \/ k > Len(rows)
<1>1. DOMAIN rows = 1 .. Len(rows) /\ DOMAIN rows' = 1 .. Len(rows')
  BY DEF WriteOf
<1>2. Len(rows) \in Nat /\ Len(rows') \in Nat /\ Len(rows) <= Len(rows')
  BY DEF WriteOf
<1>3. ASSUME NEW k \in Unread(v)'
      PROVE  k \in Unread(v) \/ k > Len(rows)
  <2>1. k \in DOMAIN rows' /\ rows'[k].user = v /\ rows'[k].st = "unread"
    BY <1>3 DEF Unread
  <2>2. CASE k \in DOMAIN rows
    BY <2>1, <2>2 DEF Unread, WriteOf
  <2>3. CASE k \notin DOMAIN rows
    BY <2>1, <2>3, <1>1, <1>2
  <2> QED
    BY <2>2, <2>3
<1>4. ASSUME v # u
      PROVE  Unread(v)' = Unread(v)
  <2>1. ASSUME NEW k \in Unread(v)
        PROVE  k \in Unread(v)'
    <3>1. k \in DOMAIN rows /\ rows[k].user = v /\ rows[k].st = "unread"
      BY <2>1 DEF Unread
    <3>2. k \in DOMAIN rows'
      BY <3>1, <1>1, <1>2
    <3>3. rows'[k] = rows[k]
      BY <3>1, <1>4 DEF WriteOf
    <3> QED
      BY <3>1, <3>2, <3>3 DEF Unread
  <2>2. ASSUME NEW k \in Unread(v)'
        PROVE  k \in Unread(v)
    <3>1. CASE k > Len(rows)
      <4>1. k \in DOMAIN rows' /\ rows'[k].user = v
        BY <2>2 DEF Unread
      <4> QED
        BY <4>1, <3>1, <1>4 DEF WriteOf
    <3> QED
      BY <2>2, <3>1, <1>3
  <2> QED
    BY <2>1, <2>2
<1> QED
  BY <1>3, <1>4

\* The parts of the invariant that speak of the rows alone survive any write.
LEMMA WriteKeeps ==
  ASSUME IInv, NEW u \in User, WriteOf(u), UNCHANGED told
  PROVE  /\ ReadEventsTrue'
         /\ \A m \in told : m.upto <= Len(rows')
         /\ OwnersOnly'
<1>0. rows \in Seq(Row) /\ told \subseteq ReadEvent
  BY DEF IInv, TypeOK
<1>1. DOMAIN rows = 1 .. Len(rows) /\ DOMAIN rows' = 1 .. Len(rows')
  BY <1>0 DEF WriteOf
<1>2. Len(rows) \in Nat /\ Len(rows') \in Nat /\ Len(rows) <= Len(rows')
  BY <1>0 DEF WriteOf
<1>3. OwnersOnly'
  <2>1. SUFFICES ASSUME NEW k \in DOMAIN rows'
                 PROVE  rows'[k].by \subseteq {rows'[k].user}
    BY DEF OwnersOnly
  <2>2. CASE k \in DOMAIN rows
    <3>1. rows[k].by \subseteq {rows[k].user}
      BY <2>2 DEF IInv, OwnersOnly
    <3>2. CASE rows'[k] = rows[k]
      BY <3>1, <3>2
    <3>3. CASE rows'[k] # rows[k]
      <4>1. /\ rows[k].user = u
            /\ rows'[k].by \subseteq rows[k].by \cup {u}
            /\ rows'[k].user = rows[k].user
        BY <2>2, <3>3 DEF WriteOf
      <4> QED
        BY <3>1, <4>1
    <3> QED
      BY <3>2, <3>3
  <2>3. CASE k \notin DOMAIN rows
    <3>1. k > Len(rows)
      BY <2>1, <2>3, <1>1, <1>2
    <3> QED
      BY <2>1, <3>1 DEF WriteOf
  <2> QED
    BY <2>2, <2>3
<1>4. ReadEventsTrue'
  <2>1. SUFFICES ASSUME NEW m \in told
        PROVE  /\ m.event = "read" =>
                    /\ m.id \in DOMAIN rows'
                    /\ rows'[m.id].user = m.room
                    /\ rows'[m.id].st # "unread"
               /\ m.event = "readAll" => \A k \in Unread(m.room)' : k > m.upto
    BY DEF ReadEventsTrue
  <2>2. m \in ReadEvent
    BY <1>0
  <2>3. ASSUME m.event = "read"
        PROVE  /\ m.id \in DOMAIN rows'
               /\ rows'[m.id].user = m.room
               /\ rows'[m.id].st # "unread"
    <3>1. /\ m.id \in DOMAIN rows
          /\ rows[m.id].user = m.room
          /\ rows[m.id].st # "unread"
      BY <2>3 DEF IInv, ReadEventsTrue
    <3>2. m.id \in DOMAIN rows'
      BY <3>1, <1>1, <1>2
    <3> QED
      BY <3>1, <3>2 DEF WriteOf
  <2>4. ASSUME m.event = "readAll", NEW k \in Unread(m.room)'
        PROVE  k > m.upto
    <3>1. m.upto <= Len(rows) /\ m.upto \in Nat /\ m.room \in User
      BY <2>2 DEF IInv, ReadEvent
    <3>2. CASE k \in Unread(m.room)
      BY <2>4, <3>2 DEF IInv, ReadEventsTrue
    <3>3. CASE k > Len(rows)
      <4>1. k \in DOMAIN rows'
        BY <2>4 DEF Unread
      <4> QED
        BY <3>1, <3>3, <4>1, <1>1, <1>2
    <3> QED
      BY <3>1, <3>2, <3>3, <1>0, <2>4, UnreadAfterWrite
  <2> QED
    BY <2>3, <2>4
<1>5. ASSUME NEW m \in told
      PROVE  m.upto <= Len(rows')
  <2>1. m.upto <= Len(rows) /\ m.upto \in Nat
    BY <1>0 DEF IInv, ReadEvent
  <2> QED
    BY <2>1, <1>2
<1> QED
  BY <1>3, <1>4, <1>5

\* A request in progress that is not touched still knows the truth after a
\* write, unless it is one of the same user, and then it is not alone.
LEMMA KnowsAfterWrite ==
  ASSUME IInv, NEW u \in User, WriteOf(u), NEW s \in Slot,
         req[s] # Idle, req'[s] # Idle,
         \/ req[s].user # u /\ req'[s] = req[s]
         \/ req[s].user = u /\ req'[s] = Disturbed(req[s])
  PROVE  Knows(s)'
<1>0. rows \in Seq(Row) /\ req[s] \in Request /\ Knows(s)
  BY DEF IInv, TypeOK
<1>1. DOMAIN rows = 1 .. Len(rows) /\ DOMAIN rows' = 1 .. Len(rows')
  BY <1>0 DEF WriteOf
<1>2. Len(rows) \in Nat /\ Len(rows') \in Nat /\ Len(rows) <= Len(rows')
  BY <1>0 DEF WriteOf
<1>3. /\ req'[s].kind = req[s].kind /\ req'[s].id = req[s].id
      /\ req'[s].user = req[s].user /\ req'[s].upto = req[s].upto
      /\ req'[s].count = req[s].count /\ req'[s].pc = req[s].pc
      /\ req'[s].alone => req[s].alone /\ req[s].user # u
  BY <1>0 DEF Request, Disturbed
<1>4. ASSUME req[s].kind = "read"
      PROVE  /\ req[s].id \in DOMAIN rows'
             /\ rows'[req[s].id].user = req[s].user
             /\ rows'[req[s].id].st # "unread"
  <2>1. /\ req[s].id \in DOMAIN rows
        /\ rows[req[s].id].user = req[s].user
        /\ rows[req[s].id].st # "unread"
    BY <1>4, <1>0 DEF Knows
  <2>2. req[s].id \in DOMAIN rows'
    BY <2>1, <1>1, <1>2
  <2> QED
    BY <2>1, <2>2 DEF WriteOf
<1>5. ASSUME req[s].kind = "readAll", NEW k \in Unread(req[s].user)'
      PROVE  k > req[s].upto
  <2>1. req[s].upto <= Len(rows) /\ req[s].upto \in Nat /\ req[s].user \in User
    BY <1>0 DEF Knows, Request
  <2>2. CASE k \in Unread(req[s].user)
    BY <1>0, <1>5, <2>2 DEF Knows
  <2>3. CASE k > Len(rows)
    <3>1. k \in DOMAIN rows'
      BY <1>3, <1>5 DEF Unread
    <3> QED
      BY <2>1, <2>3, <3>1, <1>1, <1>2
  <2>4. \A j \in Unread(req[s].user)' : j \in Unread(req[s].user) \/ j > Len(rows)
    <3>1. \A v \in User : \A j \in Unread(v)' : j \in Unread(v) \/ j > Len(rows)
      BY <1>0, UnreadAfterWrite
    <3> QED
      BY <3>1, <2>1, <1>3 DEF Unread
  <2> QED
    BY <1>5, <2>2, <2>3, <2>4
<1>6. req[s].upto <= Len(rows')
  BY <1>0, <1>2 DEF Knows, Request
<1>7. ASSUME req[s].count # Nil, req[s].alone, req[s].user # u
      PROVE  req[s].count = Cardinality(Unread(req[s].user)')
  <2>1. \A v \in User : v # u => Unread(v)' = Unread(v)
    BY <1>0, UnreadAfterWrite
  <2>2. Unread(req[s].user)' = Unread(req[s].user)
    BY <2>1, <1>7, <1>0, <1>3 DEF Request, Unread
  <2> QED
    BY <2>2, <1>7, <1>0 DEF Knows
<1>8. /\ req[s].kind \in {"notify", "read", "readAll"}
      /\ req[s].count # Nil => req[s].pc = "send"
  BY <1>0 DEF Knows
<1> QED
  BY <1>3, <1>4, <1>5, <1>6, <1>7, <1>8 DEF Knows, Unread

-----------------------------------------------------------------------------
(***************************************************************************)
(* The two shapes of a write: a request that goes on and one that ends.    *)
(***************************************************************************)

\* The other requests and the badge, after a write on behalf of u.
LEMMA OthersKeep ==
  ASSUME IInv, NEW u \in User, WriteOf(u), UNCHANGED <<told, sync, badge>>,
         healed' = [healed EXCEPT ![u] = FALSE]
  PROVE  /\ ReadEventsTrue'
         /\ \A m \in told' : m.upto <= Len(rows')
         /\ OwnersOnly'
         /\ BadgeHeals'
         /\ rows' \in Seq(Row) /\ Len(rows') <= MaxRows
         /\ told' \subseteq ReadEvent /\ sync' \in BOOLEAN
         /\ badge' \in [User -> Nat] /\ healed' \in [User -> BOOLEAN]
<1>1. /\ ReadEventsTrue' /\ OwnersOnly'
      /\ \A m \in told' : m.upto <= Len(rows')
  BY WriteKeeps
<1>2. BadgeHeals'
  <2>1. SUFFICES ASSUME NEW v \in User, healed'[v]
                 PROVE  badge[v] = Cardinality(Unread(v)')
    BY DEF BadgeHeals
  <2>2. v # u /\ healed[v]
    BY <2>1 DEF IInv, TypeOK
  <2>3. Unread(v)' = Unread(v)
    BY <2>2, UnreadAfterWrite DEF IInv, TypeOK
  <2> QED
    BY <2>2, <2>3 DEF IInv, BadgeHeals
<1>3. healed' \in [User -> BOOLEAN]
  BY DEF IInv, TypeOK
<1> QED
  BY <1>1, <1>2, <1>3 DEF IInv, TypeOK, WriteOf

LEMMA OnlyKeeps ==
  ASSUME IInv, NEW u \in User, WriteOf(u), UNCHANGED <<told, sync, badge>>, Only(u)
  PROVE  IInv'
<1>0. req \in [Slot -> Request \cup {Idle}]
  BY DEF IInv, TypeOK
<1>1. /\ ReadEventsTrue' /\ OwnersOnly' /\ BadgeHeals'
      /\ \A m \in told' : m.upto <= Len(rows')
      /\ rows' \in Seq(Row) /\ Len(rows') <= MaxRows
      /\ told' \subseteq ReadEvent /\ sync' \in BOOLEAN
      /\ badge' \in [User -> Nat] /\ healed' \in [User -> BOOLEAN]
  BY OthersKeep DEF Only
<1>2. ASSUME NEW t \in Slot
      PROVE  /\ req'[t] \in Request \cup {Idle}
             /\ req'[t] = Idle <=> req[t] = Idle
             /\ req[t] # Idle => req'[t].user = req[t].user
             /\ req[t] # Idle =>
                  \/ req[t].user # u /\ req'[t] = req[t]
                  \/ req[t].user = u /\ req'[t] = Disturbed(req[t])
  <2>1. CASE req[t] # Idle /\ req[t].user = u
    <3>1. t \in Busy(u) /\ req[t] \in Request
      BY <2>1, <1>0 DEF Busy
    <3>2. req'[t] = Disturbed(req[t])
      BY <3>1 DEF Only
    <3>3. req'[t] \in Request /\ req'[t].user = req[t].user /\ req'[t].pc # "idle"
      BY <3>1, <3>2 DEF Disturbed, Request
    <3> QED
      BY <2>1, <3>2, <3>3 DEF Idle
  <2>2. CASE ~(req[t] # Idle /\ req[t].user = u)
    <3>1. req'[t] = req[t]
      BY <2>2 DEF Only, Busy
    <3> QED
      BY <2>2, <3>1, <1>0
  <2> QED
    BY <2>1, <2>2
<1>3. req' \in [Slot -> Request \cup {Idle}]
  BY <1>2 DEF Only
<1>4. \A v \in User : Busy(v)' = Busy(v)
  BY <1>2 DEF Busy
<1>5. ASSUME NEW t \in Slot, req'[t] # Idle
      PROVE  Knows(t)' /\ Alone(t)'
  <2>1. req[t] # Idle
    BY <1>2, <1>5
  <2>2. Knows(t)'
    BY <2>1, <1>2, <1>5, KnowsAfterWrite
  <2>3. Alone(t)'
    <3>1. req[t] \in Request /\ req[t].user \in User /\ Alone(t)
      BY <2>1, <1>0 DEF IInv, Request
    <3>2. req'[t].alone => req[t].alone
      BY <2>1, <1>2, <3>1 DEF Disturbed, Request
    <3>3. Busy(req[t].user)' = Busy(req[t].user)
      BY <2>1, <1>2, <1>4, <3>1 DEF Busy
    <3> QED
      BY <2>1, <3>1, <3>2, <3>3, <1>2 DEF Alone, Busy
  <2> QED
    BY <2>2, <2>3
<1> QED
  BY <1>1, <1>3, <1>5 DEF IInv, TypeOK

\* The new request's own knowledge is the caller's to show.
LEMMA BeginKeeps ==
  ASSUME IInv, NEW u \in User, WriteOf(u), UNCHANGED <<told, sync, badge>>,
         NEW s \in Slot, req[s] = Idle,
         NEW pc \in {"count", "send"}, NEW kind \in Kinds,
         NEW id \in Id \cup {Nil}, NEW upto \in Nat, NEW count \in Nat \cup {Nil},
         Begin(s, pc, kind, u, id, upto, count), Knows(s)'
  PROVE  IInv'
<1>0. req \in [Slot -> Request \cup {Idle}]
  BY DEF IInv, TypeOK
<1>1. /\ ReadEventsTrue' /\ OwnersOnly' /\ BadgeHeals'
      /\ \A m \in told' : m.upto <= Len(rows')
      /\ rows' \in Seq(Row) /\ Len(rows') <= MaxRows
      /\ told' \subseteq ReadEvent /\ sync' \in BOOLEAN
      /\ badge' \in [User -> Nat] /\ healed' \in [User -> BOOLEAN]
  BY OthersKeep DEF Begin
<1>2. ASSUME NEW t \in Slot, t # s
      PROVE  /\ req'[t] \in Request \cup {Idle}
             /\ req'[t] = Idle <=> req[t] = Idle
             /\ req[t] # Idle => req'[t].user = req[t].user
             /\ req[t] # Idle =>
                  \/ req[t].user # u /\ req'[t] = req[t]
                  \/ req[t].user = u /\ req'[t] = Disturbed(req[t])
  <2>1. CASE req[t] # Idle /\ req[t].user = u
    <3>1. t \in Busy(u) /\ req[t] \in Request
      BY <2>1, <1>0 DEF Busy
    <3>2. req'[t] = Disturbed(req[t])
      BY <3>1, <1>2 DEF Begin
    <3>3. req'[t] \in Request /\ req'[t].user = req[t].user /\ req'[t].pc # "idle"
      BY <3>1, <3>2 DEF Disturbed, Request
    <3> QED
      BY <2>1, <3>2, <3>3 DEF Idle
  <2>2. CASE ~(req[t] # Idle /\ req[t].user = u)
    <3>1. req'[t] = req[t]
      BY <2>2, <1>2 DEF Begin, Busy
    <3> QED
      BY <2>2, <3>1, <1>0
  <2> QED
    BY <2>1, <2>2
<1>3. /\ req'[s] = [pc |-> pc, kind |-> kind, user |-> u, id |-> id,
                    count |-> count, upto |-> upto, alone |-> Busy(u) = {}]
  BY DEF Begin
<1>4. req'[s] \in Request /\ req'[s] # Idle /\ req'[s].user = u
      /\ (req'[s].alone <=> Busy(u) = {})
  <2> DEFINE a == Busy(u) = {}
  <2>1. a \in BOOLEAN
    OBVIOUS
  <2>2. req'[s] = [pc |-> pc, kind |-> kind, user |-> u, id |-> id,
                   count |-> count, upto |-> upto, alone |-> a]
    BY <1>3
  <2> HIDE DEF a
  <2>3. req'[s] \in Request /\ req'[s].pc # "idle" /\ req'[s].user = u
    BY <2>1, <2>2 DEF Request
  <2>4. req'[s].alone = a
    BY <2>2
  <2>5. req'[s] # Idle
    BY <2>3 DEF Idle
  <2> USE DEF a
  <2> QED
    BY <2>3, <2>4, <2>5
<1>5. req' \in [Slot -> Request \cup {Idle}]
  BY <1>2, <1>4 DEF Begin
<1>6. Busy(u)' = Busy(u) \cup {s} /\ \A v \in User : v # u => Busy(v)' = Busy(v)
  BY <1>2, <1>4 DEF Busy
<1>7. ASSUME NEW t \in Slot, t # s, req'[t] # Idle
      PROVE  Knows(t)' /\ Alone(t)'
  <2>1. req[t] # Idle
    BY <1>2, <1>7
  <2>2. Knows(t)'
    BY <2>1, <1>2, <1>7, KnowsAfterWrite
  <2>3. Alone(t)'
    <3>1. req[t] \in Request /\ req[t].user \in User /\ Alone(t)
      BY <2>1, <1>0 DEF IInv, Request
    <3>2. req'[t].alone => req[t].alone /\ req[t].user # u
      BY <2>1, <1>2, <1>7, <3>1 DEF Disturbed, Request
    <3>3. req[t].user # u => Busy(req[t].user)' = Busy(req[t].user)
      BY <2>1, <1>2, <1>7, <1>6, <3>1 DEF Busy
    <3> QED
      BY <2>1, <3>1, <3>2, <3>3, <1>2, <1>7 DEF Alone, Busy
  <2> QED
    BY <2>2, <2>3
<1>8. Alone(s)'
  BY <1>4, <1>6 DEF Alone, Busy
<1>9. ASSUME NEW t \in Slot, req'[t] # Idle
      PROVE  Knows(t)' /\ Alone(t)'
  <2>1. CASE t = s
    BY <2>1, <1>8
  <2>2. CASE t # s
    BY <2>2, <1>7, <1>9
  <2> QED
    BY <2>1, <2>2
<1> QED
  BY <1>1, <1>5, <1>9 DEF IInv, TypeOK

-----------------------------------------------------------------------------
(***************************************************************************)
(* Every write is of the shape WriteOf.                                    *)
(***************************************************************************)
LEMMA SameRows ==
  ASSUME IInv, NEW u \in User, UNCHANGED rows
  PROVE  WriteOf(u)
BY DEF IInv, TypeOK, WriteOf

LEMMA NewRow ==
  ASSUME IInv, NEW u \in User, Len(rows) < MaxRows,
         rows' = Append(rows, [user |-> u, st |-> "unread", by |-> {}])
  PROVE  WriteOf(u)
<1> DEFINE r == [user |-> u, st |-> "unread", by |-> {}]
<1>1. rows \in Seq(Row) /\ r \in Row
  BY DEF IInv, TypeOK, Row
<1>2. /\ rows' \in Seq(Row) /\ Len(rows') = Len(rows) + 1
      /\ \A k \in DOMAIN rows : rows'[k] = rows[k]
      /\ rows'[Len(rows) + 1] = r
      /\ DOMAIN rows' = 1 .. Len(rows) + 1
  BY <1>1
<1>3. Len(rows) \in Nat /\ MaxRows \in Nat
  BY <1>1, InboxAssumption
<1>4. ASSUME NEW k \in DOMAIN rows', k > Len(rows)
      PROVE  rows'[k].user = u /\ rows'[k].by = {}
  <2>1. k = Len(rows) + 1
    BY <1>2, <1>3, <1>4
  <2> QED
    BY <2>1, <1>2
<1> QED
  BY <1>2, <1>3, <1>4 DEF WriteOf

LEMMA OneRow ==
  ASSUME IInv, NEW u \in User, NEW k \in DOMAIN rows, OwnRow(u, k),
         NEW st \in {"read", "deleted"},
         rows' = [rows EXCEPT ![k] = Marked(k, u, st)]
  PROVE  /\ WriteOf(u)
         /\ k \in DOMAIN rows' /\ rows'[k].user = u /\ rows'[k].st = st
<1>1. rows \in Seq(Row)
  BY DEF IInv, TypeOK
<1>2. /\ Marked(k, u, st) \in Row
      /\ Marked(k, u, st).user = u
      /\ Marked(k, u, st).st = st
      /\ Marked(k, u, st).by = rows[k].by \cup {u}
  <2>1. rows[k] \in Row /\ rows[k].user = u
    BY <1>1 DEF OwnRow
  <2> QED
    BY <2>1 DEF Marked, Row
<1>3. /\ rows' \in Seq(Row) /\ Len(rows') = Len(rows)
      /\ DOMAIN rows' = DOMAIN rows
      /\ rows'[k] = Marked(k, u, st)
      /\ \A j \in DOMAIN rows : j # k => rows'[j] = rows[j]
  BY <1>1, <1>2
<1>4. rows[k].user = u
  BY DEF OwnRow
<1>5. ASSUME NEW j \in DOMAIN rows
      PROVE  /\ rows'[j].user = rows[j].user
             /\ rows[j].st # "unread" => rows'[j].st # "unread"
             /\ rows'[j] # rows[j] =>
                  rows[j].user = u /\ rows'[j].by \subseteq rows[j].by \cup {u}
  BY <1>2, <1>3, <1>4
<1>6. ASSUME NEW j \in DOMAIN rows', j > Len(rows)
      PROVE  FALSE
  BY <1>1, <1>3, <1>6
<1>7. Len(rows') <= MaxRows /\ Len(rows) <= Len(rows')
  BY <1>1, <1>3 DEF IInv, TypeOK
<1> QED
  BY <1>2, <1>3, <1>5, <1>6, <1>7 DEF WriteOf

LEMMA AllRows ==
  ASSUME IInv, NEW u \in User, rows' = AllMarked(u)
  PROVE  /\ WriteOf(u)
         /\ Unread(u)' = {}
         /\ Len(rows') = Len(rows)
<1>1. rows \in Seq(Row)
  BY DEF IInv, TypeOK
<1>2. ASSUME NEW k \in Unread(u)
      PROVE  /\ k \in DOMAIN rows
             /\ Marked(k, u, "read") \in Row
             /\ Marked(k, u, "read").user = rows[k].user
             /\ rows[k].user = u
             /\ Marked(k, u, "read").st = "read"
             /\ Marked(k, u, "read").by = rows[k].by \cup {u}
  <2>1. k \in DOMAIN rows /\ rows[k] \in Row /\ rows[k].user = u
    BY <1>1, <1>2 DEF Unread
  <2> QED
    BY <2>1 DEF Marked, Row
<1>3. /\ DOMAIN rows' = DOMAIN rows
      /\ \A k \in DOMAIN rows :
           rows'[k] = IF k \in Unread(u) THEN Marked(k, u, "read") ELSE rows[k]
  BY DEF AllMarked
<1>4. rows' \in Seq(Row) /\ Len(rows') = Len(rows)
  <2>1. \A k \in 1 .. Len(rows) : rows'[k] \in Row
    BY <1>1, <1>2, <1>3
  <2>2. rows' \in [1 .. Len(rows) -> Row]
    <3>1. DOMAIN rows = 1 .. Len(rows)
      BY <1>1
    <3>2. rows' = [k \in 1 .. Len(rows) |-> rows'[k]]
      BY <1>3, <3>1 DEF AllMarked
    <3> QED
      BY <2>1, <3>2
  <2>3. Len(rows) \in Nat
    BY <1>1
  <2> QED
    BY <2>2, <2>3
<1>5. ASSUME NEW k \in DOMAIN rows
      PROVE  /\ rows'[k].user = rows[k].user
             /\ rows[k].st # "unread" => rows'[k].st # "unread"
             /\ rows'[k] # rows[k] =>
                  rows[k].user = u /\ rows'[k].by \subseteq rows[k].by \cup {u}
  BY <1>2, <1>3
<1>6. ASSUME NEW k \in DOMAIN rows', k > Len(rows)
      PROVE  FALSE
  BY <1>1, <1>3, <1>6
<1>7. Len(rows') <= MaxRows /\ Len(rows) <= Len(rows')
  BY <1>1, <1>4 DEF IInv, TypeOK
<1>8. WriteOf(u)
  BY <1>4, <1>5, <1>6, <1>7 DEF WriteOf
<1>9. Unread(u)' = {}
  <2>1. ASSUME NEW k \in Unread(u)'
        PROVE  FALSE
    <3>1. k \in DOMAIN rows /\ rows'[k].user = u /\ rows'[k].st = "unread"
      BY <2>1, <1>3 DEF Unread
    <3>2. CASE k \in Unread(u)
      BY <3>1, <3>2, <1>2, <1>3
    <3>3. CASE k \notin Unread(u)
      <4>1. rows'[k] = rows[k]
        BY <3>1, <3>3, <1>3
      <4> QED
        BY <3>1, <3>3, <4>1 DEF Unread
    <3> QED
      BY <3>2, <3>3
  <2> QED
    BY <2>1
<1> QED
  BY <1>4, <1>8, <1>9

-----------------------------------------------------------------------------
(***************************************************************************)
(* The invariant is inductive.                                             *)
(***************************************************************************)
LEMMA InitOK == Init => IInv
<1> SUFFICES ASSUME Init PROVE IInv
  OBVIOUS
<1>1. TypeOK
  BY InboxAssumption DEF Init, TypeOK
<1>2. \A s \in Slot : req[s] = Idle
  BY DEF Init
<1>3. \A u \in User : Cardinality(Unread(u)) = 0
  <2>1. \A u \in User : Unread(u) = {}
    BY DEF Init, Unread
  <2> QED
    BY <2>1, FS_EmptySet
<1>4. ReadEventsTrue /\ OwnersOnly /\ (\A m \in told : m.upto <= Len(rows))
  BY DEF Init, ReadEventsTrue, OwnersOnly
<1>5. BadgeHeals
  BY <1>3 DEF Init, BadgeHeals
<1> QED
  BY <1>1, <1>2, <1>4, <1>5 DEF IInv

LEMMA NotifyKeeps ==
  ASSUME IInv, NEW s \in Slot, NEW u \in User, Notify(s, u)
  PROVE  IInv'
<1> DEFINE row == [user |-> u, st |-> "unread", by |-> {}]
<1>1. /\ req[s] = Idle /\ Len(rows) < MaxRows
      /\ UNCHANGED <<told, sync, badge>>
      /\ rows' \in {rows, Append(rows, row)}
  BY DEF Notify
<1>2. WriteOf(u)
  BY <1>1, SameRows, NewRow
<1>3. Len(rows) \in Nat /\ Len(rows') \in Nat
  BY <1>2 DEF IInv, TypeOK, WriteOf
<1>4. PICK id \in {Nil, Len(rows) + 1} : Begin(s, "count", "notify", u, id, 0, Nil)
  BY DEF Notify
<1>5. id \in Id \cup {Nil}
  BY <1>3 DEF Id
<1>6. req'[s].kind = "notify" /\ req'[s].upto = 0 /\ req'[s].count = Nil
  BY <1>4 DEF Begin
<1>7. Knows(s)'
  BY <1>3, <1>6 DEF Knows
<1>8. "count" \in {"count", "send"} /\ "notify" \in Kinds /\ 0 \in Nat
  BY DEF Kinds
<1> QED
  BY <1>1, <1>2, <1>4, <1>5, <1>7, <1>8, BeginKeeps

LEMMA MarkReadKeeps ==
  ASSUME IInv, NEW s \in Slot, NEW u \in User, NEW k \in DOMAIN rows, MarkRead(s, u, k)
  PROVE  IInv'
<1>1. /\ req[s] = Idle /\ OwnRow(u, k) /\ UNCHANGED <<told, sync, badge>>
      /\ rows' \in {rows, [rows EXCEPT ![k] = Marked(k, u, "read")]}
  BY DEF MarkRead
<1>2. WriteOf(u)
  BY <1>1, SameRows, OneRow
<1>3. CASE Only(u)
  BY <1>1, <1>2, <1>3, OnlyKeeps
<1>4. CASE /\ rows' = [rows EXCEPT ![k] = Marked(k, u, "read")]
           /\ Begin(s, "count", "read", u, k, 0, Nil)
  <2>1. k \in DOMAIN rows' /\ rows'[k].user = u /\ rows'[k].st = "read"
    BY <1>1, <1>4, OneRow
  <2>2. k \in Id /\ Len(rows') \in Nat
    BY <1>2 DEF IInv, TypeOK, Id, WriteOf
  <2>3. /\ req'[s].kind = "read" /\ req'[s].id = k /\ req'[s].user = u
        /\ req'[s].upto = 0 /\ req'[s].count = Nil
    BY <1>4 DEF Begin
  <2>4. Knows(s)'
    BY <2>1, <2>2, <2>3 DEF Knows
  <2>5. "count" \in {"count", "send"} /\ "read" \in Kinds /\ 0 \in Nat
    BY DEF Kinds
  <2> QED
    BY <1>1, <1>2, <1>4, <2>2, <2>4, <2>5, BeginKeeps
<1> QED
  BY <1>3, <1>4 DEF MarkRead

LEMMA MarkAllReadKeeps ==
  ASSUME IInv, NEW s \in Slot, NEW u \in User, MarkAllRead(s, u)
  PROVE  IInv'
<1>1. /\ req[s] = Idle /\ UNCHANGED <<told, sync, badge>>
      /\ rows' \in {rows, AllMarked(u)}
  BY DEF MarkAllRead
<1>2. WriteOf(u)
  BY <1>1, SameRows, AllRows
<1>3. CASE Only(u)
  BY <1>1, <1>2, <1>3, OnlyKeeps
<1>4. CASE rows' = AllMarked(u) /\ Begin(s, "send", "readAll", u, Nil, Len(rows), 0)
  <2>1. Unread(u)' = {} /\ Len(rows') = Len(rows)
    BY <1>4, AllRows
  <2>2. Len(rows) \in Nat
    BY DEF IInv, TypeOK
  <2>3. /\ req'[s].kind = "readAll" /\ req'[s].user = u /\ req'[s].pc = "send"
        /\ req'[s].upto = Len(rows) /\ req'[s].count = 0
    BY <1>4 DEF Begin
  <2>4. Unread(req[s].user)' = {}
    BY <2>1, <2>3 DEF Unread
  <2>5. Cardinality(Unread(req[s].user)') = 0
    BY <2>4, FS_EmptySet
  <2>6. Knows(s)'
    BY <2>1, <2>2, <2>3, <2>4, <2>5 DEF Knows
  <2>7. "send" \in {"count", "send"} /\ "readAll" \in Kinds /\ 0 \in Nat
    BY DEF Kinds
  <2> QED
    BY <1>1, <1>2, <1>4, <2>2, <2>6, <2>7, BeginKeeps
<1> QED
  BY <1>3, <1>4 DEF MarkAllRead

LEMMA DeleteKeeps ==
  ASSUME IInv, NEW u \in User, NEW k \in DOMAIN rows, Delete(u, k)
  PROVE  IInv'
<1>1. /\ OwnRow(u, k) /\ UNCHANGED <<told, sync, badge>> /\ Only(u)
      /\ rows' \in {rows, [rows EXCEPT ![k] = Marked(k, u, "deleted")]}
  BY DEF Delete
<1>2. WriteOf(u)
  BY <1>1, SameRows, OneRow
<1> QED
  BY <1>1, <1>2, OnlyKeeps

\* The rows stay as they are, and so does what is known of them.
LEMMA KnowsSame ==
  ASSUME NEW t \in Slot, UNCHANGED rows, req'[t] = req[t], Knows(t)
  PROVE  Knows(t)'
BY DEF Knows, Unread

\* A request that counts: the counted total is right at that moment.
LEMMA CountKeeps ==
  ASSUME IInv, NEW s \in Slot, req[s] # Idle, req[s].pc = "count",
         UNCHANGED <<rows, told, sync, badge, healed>>,
         NEW n \in {Nil, CountUnread(req[s].user)},
         req' = [req EXCEPT ![s] = Counted(req[s], n)]
  PROVE  IInv'
<1>0. req \in [Slot -> Request \cup {Idle}] /\ req[s] \in Request
  BY DEF IInv, TypeOK
<1>1. CountUnread(req[s].user) \in Nat
  BY <1>0, UnreadCount DEF CountUnread, Request, IInv, TypeOK
<1>2. /\ req'[s] = Counted(req[s], n)
      /\ \A t \in Slot : t # s => req'[t] = req[t]
  BY <1>0
<1>3. /\ req'[s] \in Request /\ req'[s].pc = "send" /\ req'[s].count = n
      /\ req'[s].kind = req[s].kind /\ req'[s].user = req[s].user
      /\ req'[s].id = req[s].id /\ req'[s].upto = req[s].upto
      /\ req'[s].alone = req[s].alone
  BY <1>0, <1>1, <1>2 DEF Request, Counted
<1>4. req'[s] # Idle
  <2>1. req'[s].pc # "idle"
    BY <1>3
  <2> QED
    BY <2>1 DEF Idle
<1>5. req' \in [Slot -> Request \cup {Idle}]
  BY <1>0, <1>3
<1>6. \A t \in Slot :
        /\ req'[t] # Idle <=> req[t] # Idle
        /\ req'[t].user = req[t].user
  <2>1. req'[s].user = req[s].user
    BY <1>3
  <2> QED
    BY <2>1, <1>2, <1>4
<1>7. \A u \in User : Unread(u)' = Unread(u)
  BY DEF Unread
<1>8. ASSUME NEW t \in Slot, req'[t] # Idle
      PROVE  Knows(t)' /\ Alone(t)'
  <2>1. CASE t = s
    <3>1. Knows(s) /\ Alone(s) /\ req[s].user \in User
      BY <1>0 DEF IInv, Request
    <3>2. Unread(req[s].user)' = Unread(req[s].user)
      BY <1>3 DEF Unread
    <3>3. Knows(s)'
      BY <3>1, <3>2, <1>3 DEF Knows, CountUnread
    <3>4. Busy(req[s].user)' = Busy(req[s].user)
      BY <1>6 DEF Busy
    <3>5. Alone(s)'
      BY <3>1, <3>4, <1>3 DEF Alone
    <3> QED
      BY <2>1, <3>3, <3>5
  <2>2. CASE t # s
    <3>1. req'[t] = req[t] /\ req[t] # Idle /\ req[t] \in Request
      BY <1>0, <1>2, <1>8, <2>2
    <3>2. Knows(t) /\ Alone(t)
      BY <3>1 DEF IInv
    <3>3. Busy(req[t].user)' = Busy(req[t].user)
      BY <1>6 DEF Busy
    <3>4. Alone(t)'
      BY <3>1, <3>2, <3>3 DEF Alone
    <3> QED
      BY <3>1, <3>2, <3>4, KnowsSame
  <2> QED
    BY <2>1, <2>2
<1>9. ReadEventsTrue' /\ OwnersOnly' /\ BadgeHeals'
  BY DEF IInv, ReadEventsTrue, OwnersOnly, BadgeHeals, Unread
<1> QED
  BY <1>5, <1>8, <1>9 DEF IInv, TypeOK

\* A request that ends without a write leaves the others as they are.
LEMMA EndKeeps ==
  ASSUME IInv, NEW s \in Slot, End(s), UNCHANGED rows
  PROVE  /\ req' \in [Slot -> Request \cup {Idle}]
         /\ \A t \in Slot : req'[t] # Idle => Knows(t)' /\ Alone(t)'
<1>0. req \in [Slot -> Request \cup {Idle}]
  BY DEF IInv, TypeOK
<1>1. req'[s] = Idle /\ \A t \in Slot : t # s => req'[t] = req[t]
  BY <1>0 DEF End
<1>2. req' \in [Slot -> Request \cup {Idle}]
  BY <1>0 DEF End
<1>3. ASSUME NEW t \in Slot, req'[t] # Idle
      PROVE  Knows(t)' /\ Alone(t)'
  <2>1. t # s /\ req'[t] = req[t] /\ req[t] # Idle
    BY <1>1, <1>3
  <2>2. Knows(t) /\ Alone(t)
    BY <2>1 DEF IInv
  <2>3. ASSUME req[t].alone
        PROVE  Busy(req[t].user)' = {t}
    <3>1. Busy(req[t].user) = {t}
      BY <2>2, <2>3 DEF Alone
    <3> QED
      BY <3>1, <2>1, <1>1 DEF Busy
  <2>4. Alone(t)'
    BY <2>1, <2>3 DEF Alone, Busy
  <2> QED
    BY <2>1, <2>2, <2>4, KnowsSame
<1> QED
  BY <1>2, <1>3

LEMMA SendKeeps ==
  ASSUME IInv, NEW s \in Slot, Send(s)
  PROVE  IInv'
<1> DEFINE r == req[s]
           m == [room |-> r.user, event |-> r.kind, id |-> r.id, upto |-> r.upto]
<1>0. /\ r # Idle /\ r \in Request /\ Knows(s) /\ Alone(s) /\ UNCHANGED <<rows, sync>>
      /\ End(s)
  BY DEF IInv, TypeOK, Send
<1>1. /\ req' \in [Slot -> Request \cup {Idle}]
      /\ \A t \in Slot : req'[t] # Idle => Knows(t)' /\ Alone(t)'
  BY <1>0, EndKeeps
<1>2. told' \in {told, told \cup {m}} /\ (r.kind = "notify" => told' = told)
  BY DEF Send
<1>3. r.kind # "notify" => m \in ReadEvent
  BY <1>0 DEF Knows, Request, ReadEvent
<1>4. told' \subseteq ReadEvent
  BY <1>2, <1>3 DEF IInv, TypeOK
<1>5. ReadEventsTrue' /\ \A e \in told' : e.upto <= Len(rows')
  <2>1. SUFFICES ASSUME NEW e \in told'
        PROVE  /\ e.event = "read" =>
                    /\ e.id \in DOMAIN rows
                    /\ rows[e.id].user = e.room
                    /\ rows[e.id].st # "unread"
               /\ e.event = "readAll" => \A k \in Unread(e.room) : k > e.upto
               /\ e.upto <= Len(rows)
    BY <1>0 DEF ReadEventsTrue, Unread
  <2>2. CASE e \in told
    BY <2>2 DEF IInv, ReadEventsTrue
  <2>3. CASE e = m
    BY <2>3, <1>0 DEF Knows
  <2> QED
    BY <2>1, <2>2, <2>3, <1>2
<1>6. /\ badge' \in [User -> Nat] /\ healed' \in [User -> BOOLEAN]
      /\ BadgeHeals'
  <2>1. \A u \in User : Unread(u)' = Unread(u)
    BY <1>0 DEF Unread
  <2>2. CASE r.count = Nil
    <3>1. UNCHANGED <<badge, healed>>
      BY <2>2 DEF Send
    <3> QED
      BY <2>1, <3>1 DEF IInv, TypeOK, BadgeHeals
  <2>3. CASE r.count # Nil
    <3>1. /\ badge' = [badge EXCEPT ![r.user] = r.count]
          /\ healed' = [healed EXCEPT ![r.user] = r.alone]
      BY <2>3 DEF Send
    <3>2. r.count \in Nat /\ r.user \in User /\ r.alone \in BOOLEAN
      BY <2>3, <1>0 DEF Request
    <3>3. r.alone => r.count = Cardinality(Unread(r.user))
      BY <2>3, <1>0 DEF Knows
    <3>4. badge' \in [User -> Nat] /\ healed' \in [User -> BOOLEAN]
      BY <3>1, <3>2 DEF IInv, TypeOK
    <3>5. ASSUME NEW u \in User, healed'[u]
          PROVE  badge'[u] = Cardinality(Unread(u)')
      <4>1. CASE u = r.user
        BY <4>1, <3>1, <3>2, <3>3, <3>5, <2>1 DEF IInv, TypeOK
      <4>2. CASE u # r.user
        BY <4>2, <3>1, <3>2, <3>5, <2>1 DEF IInv, TypeOK, BadgeHeals
      <4> QED
        BY <4>1, <4>2
    <3> QED
      BY <3>4, <3>5 DEF BadgeHeals
  <2> QED
    BY <2>2, <2>3
<1>7. OwnersOnly'
  BY <1>0 DEF IInv, OwnersOnly
<1> QED
  BY <1>0, <1>1, <1>4, <1>5, <1>6, <1>7 DEF IInv, TypeOK

LEMMA DropKeeps ==
  ASSUME IInv, NEW s \in Slot, End(s), UNCHANGED <<rows, told, sync, badge, healed>>
  PROVE  IInv'
<1>1. /\ req' \in [Slot -> Request \cup {Idle}]
      /\ \A t \in Slot : req'[t] # Idle => Knows(t)' /\ Alone(t)'
  BY EndKeeps
<1>2. ReadEventsTrue' /\ OwnersOnly' /\ BadgeHeals'
  BY DEF IInv, ReadEventsTrue, OwnersOnly, BadgeHeals, Unread
<1> QED
  BY <1>1, <1>2 DEF IInv, TypeOK

LEMMA StepKeeps ==
  ASSUME IInv, [Next]_vars
  PROVE  IInv'
<1>1. ASSUME NEW s \in Slot, NEW u \in User, Notify(s, u)
      PROVE  IInv'
  BY <1>1, NotifyKeeps
<1>2. ASSUME NEW s \in Slot, NEW u \in User, MarkAllRead(s, u)
      PROVE  IInv'
  BY <1>2, MarkAllReadKeeps
<1>3. ASSUME NEW s \in Slot, NEW u \in User, NEW k \in DOMAIN rows, MarkRead(s, u, k)
      PROVE  IInv'
  BY <1>3, MarkReadKeeps
<1>4. ASSUME NEW u \in User, NEW k \in DOMAIN rows, Delete(u, k)
      PROVE  IInv'
  BY <1>4, DeleteKeeps
<1>5. ASSUME NEW s \in Slot, Count(s)
      PROVE  IInv'
  <2>1. CASE End(s)
    BY <2>1, <1>5, DropKeeps DEF Count
  <2>2. CASE req' = [req EXCEPT ![s] = Counted(req[s], CountUnread(req[s].user))]
    BY <2>2, <1>5, CountKeeps DEF Count
  <2>3. CASE req' = [req EXCEPT ![s] = Counted(req[s], Nil)]
    BY <2>3, <1>5, CountKeeps DEF Count
  <2> QED
    BY <1>5, <2>1, <2>2, <2>3 DEF Count
<1>6. ASSUME NEW s \in Slot, Send(s)
      PROVE  IInv'
  BY <1>6, SendKeeps
<1>7. ASSUME NEW s \in Slot, Drop(s)
      PROVE  IInv'
  BY <1>7, DropKeeps DEF Drop
<1>8. ASSUME UNCHANGED vars
      PROVE  IInv'
  <2>1. UNCHANGED <<rows, req, told, sync, badge, healed>>
    BY <1>8 DEF vars
  <2>2. \A s \in Slot : Knows(s)' = Knows(s) /\ Alone(s)' = Alone(s)
    BY <2>1 DEF Knows, Alone, Unread, Busy
  <2> QED
    BY <2>1, <2>2 DEF IInv, TypeOK, ReadEventsTrue, OwnersOnly, BadgeHeals, Unread
<1> QED
  BY <1>1, <1>2, <1>3, <1>4, <1>5, <1>6, <1>7, <1>8 DEF Next, Serve

-----------------------------------------------------------------------------
(***************************************************************************)
(* The theorems.                                                           *)
(***************************************************************************)

\* The inductive invariant holds in every behaviour.
THEOREM InboxInductive == Spec => []IInv
<1>1. Init => IInv
  BY InitOK
<1>2. IInv /\ [Next]_vars => IInv'
  BY StepKeeps
<1> QED
  BY <1>1, <1>2, PTL DEF Spec

\* Every variable keeps its type.
THEOREM InboxTyped == Spec => []TypeOK
<1>1. IInv => TypeOK
  BY DEF IInv
<1> QED
  BY <1>1, InboxInductive, PTL

\* What the API tells a user's other devices is true and stays true: a row
\* announced as read is the user's and is never unread again.
THEOREM ToldTheTruth == Spec => []ReadEventsTrue
<1>1. IInv => ReadEventsTrue
  BY DEF IInv
<1> QED
  BY <1>1, InboxInductive, PTL

\* No request changes a row of another user.
THEOREM OnlyOwners == Spec => []OwnersOnly
<1>1. IInv => OwnersOnly
  BY DEF IInv
<1> QED
  BY <1>1, InboxInductive, PTL

\* A request that meets no other of its user puts the badge right, however
\* wrong the overlaps and failures before it had made it.
THEOREM Heals == Spec => []BadgeHeals
<1>1. IInv => BadgeHeals
  BY DEF IInv
<1> QED
  BY <1>1, InboxInductive, PTL
=============================================================================
