------------------------------- MODULE Ingest -------------------------------
(***************************************************************************)
(* cmd/ingest and internal/service: the notification pipeline.             *)
(*                                                                         *)
(* An event arrives over Kafka or over the webhook and is handled by       *)
(* NotificationService.Process: one row is stored per recipient, unread    *)
(* totals are counted, and then, channel by channel, the recipients are    *)
(* filtered by preference, push tokens are looked up and one message per   *)
(* recipient is pushed on the channel's Redis list.  Each call to Mongo or *)
(* Redis is a step of its own, so handlings of different events, the API's *)
(* writes and the passing of time interleave with it.  A call may fail,    *)
(* with or without having taken effect; the Kafka consumer retries a       *)
(* failed event RetryCount times and then dead-letters it, the webhook     *)
(* answers 500.  A process may die in the middle.                          *)
(***************************************************************************)
EXTENDS Preference, FiniteSets

CONSTANTS
  Event,        \* identifies one event sent by a producer
  Envelope,     \* the envelopes producers may send
  PrefOf,       \* user -> the preferences the user may come to have
  Token,        \* device tokens
  RetryCount,   \* retries of the Kafka consumer after the first attempt
  MaxCrashes,   \* bound: crashes of the process in a behaviour
  Faulty,       \* which external calls may fail
  UserActions   \* what users do meanwhile

Calls == {"create", "count", "preference", "subscriber", "enqueue"}
Acts  == {"prefer", "register", "read", "delete"}

ASSUME IngestAssumption ==
  /\ Envelope \subseteq EnvelopeType
  /\ PrefOf \in [User -> SUBSET PreferenceType]
  /\ \A u \in User : PrefOf[u] # {}
  /\ \A u \in User : \A old, p \in PrefOf[u] : Saved(old, p) \in PrefOf[u]
  /\ RetryCount \in Nat
  /\ MaxCrashes \in Nat
  /\ Faulty \subseteq Calls
  /\ UserActions \subseteq Acts
  /\ Nil \notin Envelope
  /\ Nil \notin Seq(User)

Shared == "challenge"     \* the room of a broadcast, noti:challenge:{id}

ASSUME SharedAssumption == Shared \notin User

VARIABLES
  job,      \* event -> the state of its handling
  rows,     \* the notifications collection; the id of a row is its position
  ws,       \* everything pushed on notif:ws, in order
  pushq,    \* everything pushed on notif:push, in order
  pref,     \* user -> stored preference
  subs,     \* user -> registered device tokens
  now,      \* minute of the day
  crashes   \* number of crashes so far

vars == <<job, rows, ws, pushq, pref, subs, now, crashes>>

-----------------------------------------------------------------------------
(***************************************************************************)
(* Types.                                                                  *)
(***************************************************************************)
Row == [user : User, ev : Event, att : Nat, st : {"unread", "read", "deleted"}]

WSMessage == [room : User \cup {Shared}, ev : Event, att : Nat,
              id : (Nat \ {0}) \cup {Nil}, count : Nat \cup {Nil}]

PushMessage == [user : User, ev : Event, att : Nat, tokens : SUBSET Token]

Settled  == {"done", "rejected", "dlq", "failed", "lost"}
InFlight == {"persist", "count", "filter", "enrich", "dispatch", "retry"}
PC == {"new", "queued"} \cup InFlight \cup Settled

\* One handling.  env: the envelope; tries: failed attempts so far; att: a
\* number no other attempt at the event has; i: position in the list being
\* walked; chan: position in IdentityChannels; stored, counts, tokens, rcpt:
\* Persisted, UnreadCount, DeviceTokens and the filtered UserIDs; clock: the
\* time filterByPreference read; blind: the (user, channel) pairs whose
\* preference lookup failed, in any attempt.
Job == [env : Envelope \cup {Nil}, pc : PC, tries : 0 .. RetryCount,
        att : Nat, i : Nat, chan : Nat, rcpt : Seq(User),
        stored : [User -> (Nat \ {0}) \cup {Nil}],
        counts : [User -> Nat \cup {Nil}],
        tokens : [User -> SUBSET Token],
        clock : Clock, blind : SUBSET (User \X Channel)]

TypeOK ==
  /\ job \in [Event -> Job]
  /\ \A e \in Event : job[e].pc # "new" => job[e].env # Nil
  /\ rows \in Seq(Row)
  /\ ws \in Seq(WSMessage)
  /\ pushq \in Seq(PushMessage)
  /\ pref \in [User -> PreferenceType]
  /\ subs \in [User -> SUBSET Token]
  /\ now \in Clock
  /\ crashes \in 0 .. MaxCrashes

-----------------------------------------------------------------------------
(***************************************************************************)
(* Reading a job.                                                          *)
(***************************************************************************)
To(j)       == ResolveRecipients(j.env)
Ident(j)    == IdentityOf(j.env)
Channels(j) == IdentityChannels(Ident(j))
Chan(j)     == Channels(j)[j.chan]

InSeq(x, s) == \E k \in DOMAIN s : s[k] = x

\* A slip: the filter asks for the rows that were read.
CountUnreadInverted(u) ==
  Cardinality({k \in DOMAIN rows : rows[k].user = u /\ rows[k].st = "read"})

CountUnread(u) ==
  Cardinality({k \in DOMAIN rows : rows[k].user = u /\ rows[k].st = "unread"})

-----------------------------------------------------------------------------
(***************************************************************************)
(* Local steps of a handling, between two external calls.                  *)
(***************************************************************************)

Advance(j)           == [j EXCEPT !.i = @ + 1]
WithRow(j, u, id)    == [j EXCEPT !.stored[u] = id]
WithCount(j, u, n)   == [j EXCEPT !.counts[u] = n]
WithTokens(j, u, ts) == [j EXCEPT !.tokens[u] = @ \cup ts]
Keep(j, u)           == [j EXCEPT !.rcpt = Append(@, u)]
KeepBlind(j, u)      ==
  [j EXCEPT !.rcpt = Append(@, u), !.blind = @ \cup {<<u, Chan(j)>>}]

\* A slip: the recipients of the previous channel are not cleared.
EnterChannelKeepingRecipients(j, c) ==
  IF c > Len(Channels(j))
  THEN [j EXCEPT !.pc = "done"]
  ELSE [j EXCEPT !.pc = "filter", !.chan = c, !.i = 1, !.clock = now]

\* filterByPreference for channel c, or the end of Process; the clock is read
\* once, before the loop over the recipients.
EnterChannel(j, c) ==
  IF c > Len(Channels(j))
  THEN [j EXCEPT !.pc = "done"]
  ELSE [j EXCEPT !.pc = "filter", !.chan = c, !.i = 1, !.rcpt = <<>>, !.clock = now]

AfterPersist(j) ==
  IF j.i <= Len(To(j)) THEN j ELSE [j EXCEPT !.pc = "count", !.i = 1]

AfterCount(j) == IF j.i <= Len(To(j)) THEN j ELSE EnterChannel(j, 1)

AfterFilter(j) ==
  CASE j.i <= Len(To(j))      -> j
    [] j.i > Len(To(j)) /\ j.rcpt = <<>> -> EnterChannel(j, j.chan + 1)
    [] OTHER                  ->
         [j EXCEPT !.i = 1, !.tokens = [u \in User |-> {}],
                   !.pc = IF Chan(j) = ChannelPush THEN "enrich" ELSE "dispatch"]

AfterEnrich(j) ==
  IF j.i <= Len(j.rcpt) THEN j ELSE [j EXCEPT !.pc = "dispatch", !.i = 1]

\* A slip: the last recipient is left out.
AfterDispatchShort(j) ==
  IF j.i < Len(j.rcpt) THEN j ELSE EnterChannel(j, j.chan + 1)

AfterDispatch(j) ==
  IF j.i <= Len(j.rcpt) THEN j ELSE EnterChannel(j, j.chan + 1)

\* A slip: what the failed attempt stored is kept for the retry.
BeginAttemptKeepingStored(j) ==
  LET fresh == [j EXCEPT !.att = @ + 1, !.i = 1]
  IN  IF IsTransient(Ident(j)) THEN EnterChannel(fresh, 1)
                               ELSE [fresh EXCEPT !.pc = "persist"]

\* A slip: live statuses are stored like everything else.
BeginAttemptStoringAll(j) ==
  [j EXCEPT !.att = @ + 1, !.i = 1, !.pc = "persist"]

\* The handler extracts its parameters afresh: nothing an earlier attempt
\* stored, counted or looked up is known to this one.
BeginAttempt(j) ==
  LET fresh == [j EXCEPT !.att = @ + 1, !.i = 1,
                         !.stored = [u \in User |-> Nil],
                         !.counts = [u \in User |-> Nil],
                         !.tokens = [u \in User |-> {}]]
  IN  IF IsTransient(Ident(j)) THEN EnterChannel(fresh, 1)
                               ELSE [fresh EXCEPT !.pc = "persist"]

\* A slip: one retry too many.
FailAttemptOnceMore(j) ==
  CASE j.env.via = "webhook" -> [j EXCEPT !.pc = "failed"]
    [] j.env.via = "kafka" /\ j.tries <= RetryCount ->
         [j EXCEPT !.pc = "retry", !.tries = @ + 1]
    [] OTHER -> [j EXCEPT !.pc = "dlq"]

\* A slip: the first attempt is counted as a retry.
FailAttemptTooSoon(j) ==
  CASE j.env.via = "webhook" -> [j EXCEPT !.pc = "failed"]
    [] j.env.via = "kafka" /\ j.tries + 1 < RetryCount ->
         [j EXCEPT !.pc = "retry", !.tries = @ + 1]
    [] OTHER -> [j EXCEPT !.pc = "dlq"]

\* A slip: a failed dispatch is logged and the next channel tried.
FailAttemptSwallowed(j) == EnterChannel(j, j.chan + 1)

\* Process returned an error: the Kafka consumer tries again, up to RetryCount
\* times, then dead-letters the event; the webhook answers 500.
FailAttempt(j) ==
  CASE j.env.via = "webhook" -> [j EXCEPT !.pc = "failed"]
    [] j.env.via = "kafka" /\ j.tries < RetryCount ->
         [j EXCEPT !.pc = "retry", !.tries = @ + 1]
    [] OTHER -> [j EXCEPT !.pc = "dlq"]

-----------------------------------------------------------------------------
(***************************************************************************)
(* The handling of one event.                                              *)
(***************************************************************************)
NewJob ==
  [env |-> Nil, pc |-> "new", tries |-> 0, att |-> 0, i |-> 1, chan |-> 1,
   rcpt |-> <<>>, stored |-> [u \in User |-> Nil],
   counts |-> [u \in User |-> Nil], tokens |-> [u \in User |-> {}],
   clock |-> 0, blind |-> {}]

Init ==
  /\ job = [e \in Event |-> NewJob]
  /\ rows = <<>>
  /\ ws = <<>>
  /\ pushq = <<>>
  /\ pref \in {f \in [User -> UNION {PrefOf[u] : u \in User}] :
                 \A u \in User : f[u] \in PrefOf[u]}
  /\ subs \in [User -> SUBSET Token]
  /\ now \in Clock
  /\ crashes = 0

SetJob(e, j) == job' = [job EXCEPT ![e] = j]

\* A call of this kind may fail in this instance.
MayFail(call) == call \in Faulty

\* A producer sends the event.
Arrive(e) ==
  /\ job[e].pc = "new"
  /\ \E v \in Envelope : SetJob(e, [job[e] EXCEPT !.env = v, !.pc = "queued"])
  /\ UNCHANGED <<rows, ws, pushq, pref, subs, now, crashes>>

\* A slip: a failed event is never taken up again.
HandleOnce(e) ==
  LET j == job[e] IN
  /\ j.pc = "queued"
  /\ SetJob(e, IF Validate(j.env) /\ To(j) # <<>> THEN BeginAttempt(j)
                                               ELSE [j EXCEPT !.pc = "done"])
  /\ UNCHANGED <<rows, ws, pushq, pref, subs, now, crashes>>

\* The consumer's or the webhook's wrapper and the identity's handler, up to
\* the first store call of Process.  An invalid event is skipped by the
\* consumer and refused by the webhook; one without recipients is finished.
Handle(e) ==
  LET j == job[e] IN
  /\ j.pc \in {"queued", "retry"}
  /\ SetJob(e,
       CASE ~Validate(j.env) ->
              [j EXCEPT !.pc = IF j.env.via = "kafka" THEN "done" ELSE "rejected"]
         [] Validate(j.env) /\ To(j) = <<>> -> [j EXCEPT !.pc = "done"]
         [] OTHER -> BeginAttempt(j))
  /\ UNCHANGED <<rows, ws, pushq, pref, subs, now, crashes>>

\* persistNotifications, one recipient: a failure is logged and skipped, and
\* the write may have been applied although the reply was lost.
Persist(e) ==
  LET j   == job[e]
      u   == To(j)[j.i]
      row == [user |-> u, ev |-> e, att |-> j.att, st |-> "unread"]
  IN
  /\ j.pc = "persist"
  /\ \/ /\ rows' = Append(rows, row)
        /\ SetJob(e, AfterPersist(Advance(WithRow(j, u, Len(rows) + 1))))
     \/ /\ MayFail("create")
        /\ rows' \in {rows, Append(rows, row)}
        /\ SetJob(e, AfterPersist(Advance(j)))
  /\ UNCHANGED <<ws, pushq, pref, subs, now, crashes>>

\* unreadCounts, one recipient; a failure leaves the user out of the map.
Count(e) ==
  LET j == job[e]
      u == To(j)[j.i]
  IN
  /\ j.pc = "count"
  /\ \/ SetJob(e, AfterCount(Advance(WithCount(j, u, CountUnread(u)))))
     \/ /\ MayFail("count")
        /\ SetJob(e, AfterCount(Advance(j)))
  /\ UNCHANGED <<rows, ws, pushq, pref, subs, now, crashes>>

\* filterByPreference, one recipient: a failed lookup delivers.
Filter(e) ==
  LET j == job[e]
      u == To(j)[j.i]
  IN
  /\ j.pc = "filter"
  /\ \/ /\ Allowed(pref[u], Ident(j), Chan(j), j.clock)
        /\ SetJob(e, AfterFilter(Advance(Keep(j, u))))
     \/ /\ ~Allowed(pref[u], Ident(j), Chan(j), j.clock)
        /\ SetJob(e, AfterFilter(Advance(j)))
     \/ /\ MayFail("preference")
        /\ SetJob(e, AfterFilter(Advance(KeepBlind(j, u))))
  /\ UNCHANGED <<rows, ws, pushq, pref, subs, now, crashes>>

\* enrich, one recipient of a push; a failure leaves the user without tokens.
Enrich(e) ==
  LET j == job[e]
      u == j.rcpt[j.i]
  IN
  /\ j.pc = "enrich"
  /\ \/ SetJob(e, AfterEnrich(Advance(WithTokens(j, u, subs[u]))))
     \/ /\ MayFail("subscriber")
        /\ SetJob(e, AfterEnrich(Advance(j)))
  /\ UNCHANGED <<rows, ws, pushq, pref, subs, now, crashes>>

WSMessageTo(j, e, u) ==
  [room |-> u, ev |-> e, att |-> j.att, id |-> j.stored[u], count |-> j.counts[u]]

Broadcast(j, e) ==
  [room |-> Shared, ev |-> e, att |-> j.att, id |-> Nil, count |-> Nil]

\* A slip: the recipients are pushed together.
DispatchInAppAtOnce(e) ==
  LET j == job[e] IN
  /\ j.pc = "dispatch"
  /\ Chan(j) = ChannelInApp
  /\ ws' = ws \o [k \in DOMAIN j.rcpt |-> WSMessageTo(j, e, j.rcpt[k])]
  /\ SetJob(e, AfterDispatch([j EXCEPT !.i = Len(j.rcpt) + 1]))
  /\ UNCHANGED <<rows, pushq, pref, subs, now, crashes>>

\* InAppDispatcher.Dispatch: one Enqueue.  A broadcast is a single message
\* whoever is left of the recipients.
DispatchInApp(e) ==
  LET j == job[e]
      m == IF IsShared(j.env) THEN Broadcast(j, e)
                              ELSE WSMessageTo(j, e, j.rcpt[j.i])
      sent == IF IsShared(j.env) THEN [j EXCEPT !.i = Len(j.rcpt) + 1] ELSE Advance(j)
  IN
  /\ j.pc = "dispatch"
  /\ Chan(j) = ChannelInApp
  /\ \/ ws' = Append(ws, m) /\ SetJob(e, AfterDispatch(sent))
     \/ /\ MayFail("enqueue")
        /\ ws' \in {ws, Append(ws, m)}
        /\ SetJob(e, FailAttempt(j))
  /\ UNCHANGED <<rows, pushq, pref, subs, now, crashes>>

\* PushDispatcher.Dispatch: one recipient, skipped without a device.
DispatchPush(e) ==
  LET j == job[e]
      u == j.rcpt[j.i]
      m == [user |-> u, ev |-> e, att |-> j.att, tokens |-> j.tokens[u]]
      next == AfterDispatch(Advance(j))
  IN
  /\ j.pc = "dispatch"
  /\ Chan(j) = ChannelPush
  /\ \/ j.tokens[u] = {} /\ SetJob(e, next) /\ UNCHANGED pushq
     \/ j.tokens[u] # {} /\ pushq' = Append(pushq, m) /\ SetJob(e, next)
     \/ /\ j.tokens[u] # {}
        /\ MayFail("enqueue")
        /\ pushq' \in {pushq, Append(pushq, m)}
        /\ SetJob(e, FailAttempt(j))
  /\ UNCHANGED <<rows, ws, pref, subs, now, crashes>>

\* The process dies.  Kafka delivers an event again until its offset is
\* committed, which the process may have been about to do; the caller of the
\* webhook loses its connection.
Crash(e) ==
  LET j == job[e] IN
  /\ crashes < MaxCrashes
  /\ crashes' = crashes + 1
  /\ \/ /\ j.env # Nil /\ j.env.via = "kafka"
        /\ j.pc \in InFlight \cup {"done", "dlq"}
        /\ SetJob(e, [j EXCEPT !.pc = "queued", !.tries = 0])
     \/ /\ j.env # Nil /\ j.env.via = "webhook"
        /\ j.pc \in InFlight
        /\ SetJob(e, [j EXCEPT !.pc = "lost"])
  /\ UNCHANGED <<rows, ws, pushq, pref, subs, now>>

-----------------------------------------------------------------------------
(***************************************************************************)
(* What happens meanwhile: users act through the API, and time passes.     *)
(***************************************************************************)
Prefer(u) ==
  /\ "prefer" \in UserActions
  /\ \E p \in PrefOf[u] : pref' = [pref EXCEPT ![u] = Saved(@, p)]
  /\ UNCHANGED <<job, rows, ws, pushq, subs, now, crashes>>

Register(u, t) ==
  /\ "register" \in UserActions
  /\ subs' \in {[subs EXCEPT ![u] = @ \cup {t}], [subs EXCEPT ![u] = @ \ {t}]}
  /\ UNCHANGED <<job, rows, ws, pushq, pref, now, crashes>>

Read(k) ==
  /\ "read" \in UserActions
  /\ rows[k].st = "unread"
  /\ rows' = [rows EXCEPT ![k].st = "read"]
  /\ UNCHANGED <<job, ws, pushq, pref, subs, now, crashes>>

Delete(k) ==
  /\ "delete" \in UserActions
  /\ rows[k].st # "deleted"
  /\ rows' = [rows EXCEPT ![k].st = "deleted"]
  /\ UNCHANGED <<job, ws, pushq, pref, subs, now, crashes>>

Tick ==
  /\ now' = (now + 1) % Day
  /\ UNCHANGED <<job, rows, ws, pushq, pref, subs, crashes>>

-----------------------------------------------------------------------------
Step(e) ==
  \/ Handle(e) \/ Persist(e) \/ Count(e) \/ Filter(e) \/ Enrich(e)
  \/ DispatchInApp(e) \/ DispatchPush(e)

Meanwhile ==
  \/ \E u \in User : Prefer(u) \/ \E t \in Token : Register(u, t)
  \/ \E k \in DOMAIN rows : Read(k) \/ Delete(k)
  \/ Tick

Next ==
  \/ \E e \in Event : Arrive(e) \/ Step(e) \/ Crash(e)
  \/ Meanwhile

\* A process that runs does not stop between two calls, and every call
\* returns or fails.
Fairness == \A e \in Event : WF_vars(Step(e))

Spec == Init /\ [][Next]_vars

FairSpec == Spec /\ Fairness

-----------------------------------------------------------------------------
(***************************************************************************)
(* Properties.                                                             *)
(***************************************************************************)

\* What the preferences a user may come to have settle, whenever they are looked at.
Never(u, identity, channel) ==
  \A p \in PrefOf[u], t \in Clock : ~Allowed(p, identity, channel, t)
Always(u, identity, channel) ==
  \A p \in PrefOf[u], t \in Clock : Allowed(p, identity, channel, t)

\* Message m tells u about attempt a at event e.
InAppTells(m, e, a, u) ==
  /\ m.ev = e /\ m.att = a
  /\ m.room = IF IsShared(job[e].env) THEN Shared ELSE u

\* Every in-app message that carries the id of a notification carries the id
\* of a row of its own recipient, written for the event it announces by the
\* very attempt that sent the message: a retry never announces a row the
\* failed attempt stored, and an id is never sent for a row whose Create
\* failed (notification.go, persistNotifications and Dispatch).
AnnouncedRowExists ==
  \A k \in DOMAIN ws :
    ws[k].id # Nil =>
      /\ ws[k].id \in DOMAIN rows
      /\ rows[ws[k].id].user = ws[k].room
      /\ rows[ws[k].id].ev = ws[k].ev
      /\ rows[ws[k].id].att = ws[k].att

\* The unread total a message carries counts the notification it announces:
\* it is zero only if the user has read or deleted that row in the meantime.
\* Holds because Process counts after it has persisted.
BadgeCoversOwnRow ==
  \A k \in DOMAIN ws :
    ws[k].id # Nil /\ ws[k].count = 0 => rows[ws[k].id].st # "unread"

\* Two messages never announce the same row, however often an event is
\* retried or redelivered, as long as the producer does not name a recipient
\* twice: a client that dedupes by id drops nothing it has not seen.
IdAnnouncedOnce ==
  \A k, l \in DOMAIN ws :
    k # l /\ ws[k].id # Nil /\ ws[k].id = ws[l].id =>
      \E v \in Envelope : \E a, b \in DOMAIN ResolveRecipients(v) :
         a # b /\ ResolveRecipients(v)[a] = ResolveRecipients(v)[b]

\* A user none of whose preferences lets the event through on a channel is
\* sent nothing on it, unless the preference lookup failed: the fail-open rule
\* of filterByPreference is the only way around the gates, over all retries,
\* channels and interleavings with preference changes.
OptOutRespected ==
  /\ \A k \in DOMAIN ws :
       LET e == ws[k].ev IN
       /\ ws[k].room # Shared
       /\ Never(ws[k].room, Ident(job[e]), ChannelInApp)
       => <<ws[k].room, ChannelInApp>> \in job[e].blind
  /\ \A k \in DOMAIN pushq :
       LET e == pushq[k].ev IN
       Never(pushq[k].user, Ident(job[e]), ChannelPush)
       => <<pushq[k].user, ChannelPush>> \in job[e].blind

\* By the time an attempt has queued any push, every recipient who takes
\* in-app messages has one of the same attempt queued: push is the second
\* channel, and a failed in-app dispatch ends the attempt before it.
PushAfterInApp ==
  \A k \in DOMAIN pushq :
    LET e == pushq[k].ev IN
    InSeq(ChannelInApp, Channels(job[e])) =>
      \A u \in User :
        InSeq(u, To(job[e])) /\ Always(u, Ident(job[e]), ChannelInApp)
        => \E l \in DOMAIN ws : InAppTells(ws[l], e, pushq[k].att, u)

\* An event is acknowledged (its Kafka offset is passed, the webhook answers
\* 202) only when every recipient who takes the channel has been queued on it
\* by the attempt that ends: no failed call in the middle of the pipeline
\* loses a recipient silently.  A push needs a device the lookup returned.
AckedMeansQueued ==
  \A e \in Event :
    job[e].pc = "done" /\ Validate(job[e].env) =>
      \A u \in User : InSeq(u, To(job[e])) =>
        /\ InSeq(ChannelInApp, Channels(job[e]))
           /\ Always(u, Ident(job[e]), ChannelInApp)
           => \E l \in DOMAIN ws : InAppTells(ws[l], e, job[e].att, u)
        /\ InSeq(ChannelPush, Channels(job[e]))
           /\ Always(u, Ident(job[e]), ChannelPush)
           /\ job[e].tokens[u] # {}
           => \E l \in DOMAIN pushq :
                /\ pushq[l].ev = e /\ pushq[l].att = job[e].att
                /\ pushq[l].user = u

\* A live status (video_progress, challenge_leaderboard) leaves no row behind
\* and its messages carry neither id nor unread total, on every path through
\* the retries; the other identities leave at most one row per attempt and
\* place in the recipient list.
TransientLeavesNoTrace ==
  /\ \A k \in DOMAIN rows : ~IsTransient(Ident(job[rows[k].ev]))
  /\ \A k \in DOMAIN ws : IsTransient(Ident(job[ws[k].ev])) =>
       ws[k].id = Nil /\ ws[k].count = Nil

\* A crash-free event is attempted at most RetryCount + 1 times, and one that
\* is dead-lettered was attempted exactly that often.
AttemptsBounded ==
  \A e \in Event : crashes = 0 =>
    /\ job[e].att <= RetryCount + 1
    /\ job[e].pc = "dlq" => job[e].att = RetryCount + 1

\* Every event that has arrived is eventually acknowledged, refused, failed or
\* dead-lettered, however many of its calls fail.
EventuallySettled ==
  \A e \in Event : job[e].pc = "queued" ~> job[e].pc \in Settled

=============================================================================
