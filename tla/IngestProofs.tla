---------------------------- MODULE IngestProofs ----------------------------
(***************************************************************************)
(* Proofs about Ingest, for any users, events, envelopes, preferences,     *)
(* retry count, number of crashes and choice of failing calls, and about   *)
(* Delivery, where the workers of notif:ws run beside it.                  *)
(***************************************************************************)
EXTENDS Delivery, TLAPS, FiniteSetTheorems

-----------------------------------------------------------------------------
(***************************************************************************)
(* The inductive type invariant.  TypeOK alone is not inductive: that the  *)
(* next recipient exists depends on where in its loops a handling is.      *)
(***************************************************************************)
Arrived(j) == j.env \in Envelope

\* The handling is inside Process, past the check for recipients.
InProcess == {"persist", "count", "filter", "enrich", "dispatch"}

JobOK(j) ==
  /\ j \in Job
  /\ j.pc # "new" => Arrived(j)
  /\ j.pc \in InProcess => To(j) # <<>>
  /\ j.pc \in {"persist", "count", "filter"} => j.i \in DOMAIN To(j)
  /\ j.pc \in {"filter", "enrich", "dispatch"} => j.chan \in DOMAIN Channels(j)
  /\ j.pc \in {"enrich", "dispatch"} => j.i \in DOMAIN j.rcpt

StateOK ==
  /\ rows \in Seq(Row)
  /\ ws \in Seq(WSMessage)
  /\ pushq \in Seq(PushMessage)
  /\ pref \in [User -> PreferenceType]
  /\ \A u \in User : pref[u] \in PrefOf[u]
  /\ subs \in [User -> SUBSET Token]
  /\ now \in Clock
  /\ crashes \in 0 .. MaxCrashes

TInv ==
  /\ job \in [Event -> Job]
  /\ \A e \in Event : JobOK(job[e])
  /\ StateOK

-----------------------------------------------------------------------------
(***************************************************************************)
(* What the envelope determines.                                           *)
(***************************************************************************)

\* The recipients of an envelope are a list of users, its channels a list of
\* channels.
LEMMA EnvelopeFacts ==
  ASSUME NEW v \in Envelope
  PROVE  /\ ResolveRecipients(v) \in Seq(User)
         /\ IdentityChannels(IdentityOf(v)) \in Seq(Channel)
         /\ v # Nil
<1>1. v \in EnvelopeType /\ v # Nil
  BY IngestAssumption
<1>2. v.to \in Seq(User) \cup {Nil} /\ v.audience \in Seq(User) \cup {Nil}
  BY <1>1 DEF EnvelopeType
<1>3. ResolveRecipients(v) \in Seq(User)
  <2>1. CASE v.to # Nil
    BY <1>2, <2>1 DEF ResolveRecipients
  <2>2. CASE v.to = Nil /\ v.audience # Nil
    BY <1>2, <2>2 DEF ResolveRecipients
  <2>3. CASE v.to = Nil /\ v.audience = Nil
    BY <1>2, <2>3 DEF ResolveRecipients
  <2>. QED  BY <2>1, <2>2, <2>3
<1>4. IdentityChannels(IdentityOf(v)) \in Seq(Channel)
  <2>. DEFINE x == IdentityOf(v)
  <2>. HIDE DEF x
  <2>1. ChannelInApp \in Channel /\ ChannelPush \in Channel
    BY DEF Channel
  <2>2. <<>> \in Seq(Channel) /\ <<ChannelInApp>> \in Seq(Channel)
    BY <2>1
  <2>3. <<ChannelPush>> \in Seq(Channel) /\ <<ChannelInApp, ChannelPush>> \in Seq(Channel)
    BY <2>1
  <2>4. TransientIdentities \subseteq AllIdentities /\ "streak_at_risk" \in AllIdentities
        /\ "streak_at_risk" \notin TransientIdentities
    BY DEF AllIdentities, LingocastIdentities, TransientIdentities
  <2>5. CASE x \in TransientIdentities
    <3>1. IdentityChannels(x) = <<ChannelInApp>>
      BY <2>4, <2>5 DEF IdentityChannels
    <3>. QED  BY <2>2, <3>1 DEF x
  <2>6. CASE x = "streak_at_risk"
    <3>1. IdentityChannels(x) = <<ChannelPush>>
      BY <2>4, <2>6 DEF IdentityChannels
    <3>. QED  BY <2>3, <3>1 DEF x
  <2>7. CASE x \notin AllIdentities
    <3>1. IdentityChannels(x) = <<>>
      BY <2>4, <2>7 DEF IdentityChannels
    <3>. QED  BY <2>2, <3>1 DEF x
  <2>8. CASE x \in AllIdentities \ (TransientIdentities \cup {"streak_at_risk"})
    <3>1. IdentityChannels(x) = <<ChannelInApp, ChannelPush>>
      BY <2>4, <2>8 DEF IdentityChannels
    <3>. QED  BY <2>3, <3>1 DEF x
  <2>. QED  BY <2>5, <2>6, <2>7, <2>8
<1>. QED  BY <1>1, <1>3, <1>4

\* A handling that has arrived reads lists of the right type.
LEMMA JobFacts ==
  ASSUME NEW j, Arrived(j)
  PROVE  /\ To(j) \in Seq(User)
         /\ Channels(j) \in Seq(Channel)
         /\ \A k \in DOMAIN To(j) : To(j)[k] \in User
         /\ \A c \in DOMAIN Channels(j) : Channels(j)[c] \in Channel
<1>1. To(j) \in Seq(User) /\ Channels(j) \in Seq(Channel)
  BY EnvelopeFacts DEF Arrived, To, Channels, Ident
<1>. QED  BY <1>1

-----------------------------------------------------------------------------
(***************************************************************************)
(* Each local step leaves a handling well formed.                          *)
(***************************************************************************)
LEMMA EnterChannelOK ==
  ASSUME NEW j \in Job, Arrived(j), To(j) # <<>>, NEW c \in Nat \ {0}, now \in Clock
  PROVE  JobOK(EnterChannel(j, c))
<1>. DEFINE d == [j EXCEPT !.pc = "done"]
            f == [j EXCEPT !.pc = "filter", !.chan = c, !.i = 1, !.rcpt = <<>>,
                           !.clock = now]
<1>1. d \in Job /\ Arrived(d) /\ d.pc = "done"
  BY DEF Job, PC, Settled, Arrived
<1>2. f \in Job /\ f.env = j.env /\ f.pc = "filter" /\ f.i = 1 /\ f.chan = c
  <2>1. <<>> \in Seq(User) /\ "filter" \in PC /\ 1 \in Nat /\ c \in Nat
    BY DEF PC, InFlight
  <2>2. f \in Job
    BY <2>1 DEF Job
  <2>. QED  BY <2>2 DEF Job
<1>3. To(f) = To(j) /\ Channels(f) = Channels(j) /\ Arrived(f)
  BY <1>2 DEF To, Channels, Ident, Arrived
<1>4. 1 \in DOMAIN To(f)
  BY <1>3, JobFacts
<1>5. ~(c > Len(Channels(j))) => c \in DOMAIN Channels(f)
  BY <1>3, JobFacts
<1>6. JobOK(d)
  BY <1>1 DEF JobOK, InProcess
<1>7. ~(c > Len(Channels(j))) => JobOK(f)
  BY <1>2, <1>3, <1>4, <1>5 DEF JobOK, InProcess
<1>. QED  BY <1>6, <1>7 DEF EnterChannel

LEMMA AfterPersistOK ==
  ASSUME NEW j \in Job, Arrived(j), To(j) # <<>>, j.pc = "persist",
         j.i \in Nat \ {0}
  PROVE  JobOK(AfterPersist(j))
<1>. DEFINE n == [j EXCEPT !.pc = "count", !.i = 1]
<1>1. To(j) \in Seq(User)
  BY JobFacts
<1>2. n \in Job /\ n.env = j.env /\ n.pc = "count" /\ n.i = 1
  BY DEF Job, PC, InFlight
<1>3. To(n) = To(j) /\ Arrived(n)
  BY <1>2 DEF To, Arrived
<1>4. JobOK(n)
  BY <1>1, <1>2, <1>3 DEF JobOK, InProcess
<1>5. j.i <= Len(To(j)) => JobOK(j)
  BY <1>1 DEF JobOK, InProcess
<1>. QED  BY <1>4, <1>5 DEF AfterPersist

LEMMA AfterCountOK ==
  ASSUME NEW j \in Job, Arrived(j), To(j) # <<>>, j.pc = "count",
         j.i \in Nat \ {0}, now \in Clock
  PROVE  JobOK(AfterCount(j))
<1>1. To(j) \in Seq(User)
  BY JobFacts
<1>2. j.i <= Len(To(j)) => JobOK(j)
  BY <1>1 DEF JobOK, InProcess
<1>. QED  BY <1>2, EnterChannelOK DEF AfterCount

LEMMA AfterFilterOK ==
  ASSUME NEW j \in Job, Arrived(j), To(j) # <<>>, j.pc = "filter",
         j.i \in Nat \ {0}, j.chan \in DOMAIN Channels(j), now \in Clock
  PROVE  JobOK(AfterFilter(j))
<1>. DEFINE n(p) == [j EXCEPT !.i = 1, !.tokens = [u \in User |-> {}], !.pc = p]
<1>1. To(j) \in Seq(User) /\ Channels(j) \in Seq(Channel)
  BY JobFacts
<1>2. j.i <= Len(To(j)) => JobOK(j)
  BY <1>1 DEF JobOK, InProcess
<1>3. JobOK(EnterChannel(j, j.chan + 1))
  BY <1>1, EnterChannelOK
<1>4. j.rcpt # <<>> => \A p \in {"enrich", "dispatch"} : JobOK(n(p))
  <2>. SUFFICES ASSUME j.rcpt # <<>>, NEW p \in {"enrich", "dispatch"}
                PROVE  JobOK(n(p))
    OBVIOUS
  <2>1. n(p) \in Job /\ n(p).env = j.env /\ n(p).pc = p /\ n(p).i = 1
        /\ n(p).rcpt = j.rcpt /\ n(p).chan = j.chan
    BY DEF Job, PC, InFlight
  <2>2. To(n(p)) = To(j) /\ Channels(n(p)) = Channels(j) /\ Arrived(n(p))
    BY <2>1 DEF To, Channels, Ident, Arrived
  <2>3. 1 \in DOMAIN j.rcpt
    BY DEF Job
  <2>. QED  BY <2>1, <2>2, <2>3 DEF JobOK, InProcess
<1>5. CASE j.i <= Len(To(j))
  BY <1>1, <1>2, <1>5 DEF AfterFilter
<1>6. CASE j.i > Len(To(j)) /\ j.rcpt = <<>>
  BY <1>1, <1>3, <1>6 DEF AfterFilter
<1>7. CASE j.i > Len(To(j)) /\ j.rcpt # <<>>
  <2>1. AfterFilter(j) = n(IF Chan(j) = ChannelPush THEN "enrich" ELSE "dispatch")
    BY <1>1, <1>7 DEF AfterFilter
  <2>2. (IF Chan(j) = ChannelPush THEN "enrich" ELSE "dispatch") \in {"enrich", "dispatch"}
    OBVIOUS
  <2>. QED  BY <1>4, <1>7, <2>1, <2>2
<1>. QED  BY <1>1, <1>5, <1>6, <1>7

LEMMA AfterEnrichOK ==
  ASSUME NEW j \in Job, Arrived(j), To(j) # <<>>, j.pc = "enrich",
         j.i \in Nat \ {0}, j.chan \in DOMAIN Channels(j), j.rcpt # <<>>
  PROVE  JobOK(AfterEnrich(j))
<1>. DEFINE n == [j EXCEPT !.pc = "dispatch", !.i = 1]
<1>1. n \in Job /\ n.env = j.env /\ n.pc = "dispatch" /\ n.i = 1
      /\ n.rcpt = j.rcpt /\ n.chan = j.chan
  BY DEF Job, PC, InFlight
<1>2. To(n) = To(j) /\ Channels(n) = Channels(j) /\ Arrived(n)
  BY <1>1 DEF To, Channels, Ident, Arrived
<1>3. j.rcpt \in Seq(User)
  BY DEF Job
<1>4. JobOK(n)
  BY <1>1, <1>2, <1>3 DEF JobOK, InProcess
<1>5. j.i <= Len(j.rcpt) => JobOK(j)
  BY <1>3 DEF JobOK, InProcess
<1>. QED  BY <1>4, <1>5 DEF AfterEnrich

LEMMA AfterDispatchOK ==
  ASSUME NEW j \in Job, Arrived(j), To(j) # <<>>, j.pc = "dispatch",
         j.i \in Nat \ {0}, j.chan \in DOMAIN Channels(j), now \in Clock
  PROVE  JobOK(AfterDispatch(j))
<1>1. Channels(j) \in Seq(Channel) /\ j.rcpt \in Seq(User)
  BY JobFacts DEF Job
<1>2. j.i <= Len(j.rcpt) => JobOK(j)
  BY <1>1 DEF JobOK, InProcess
<1>3. JobOK(EnterChannel(j, j.chan + 1))
  BY <1>1, EnterChannelOK
<1>. QED  BY <1>2, <1>3 DEF AfterDispatch

LEMMA BeginAttemptOK ==
  ASSUME NEW j \in Job, Arrived(j), To(j) # <<>>, now \in Clock
  PROVE  JobOK(BeginAttempt(j))
<1>. DEFINE fresh == [j EXCEPT !.att = @ + 1, !.i = 1,
                               !.stored = [u \in User |-> Nil],
                               !.counts = [u \in User |-> Nil],
                               !.tokens = [u \in User |-> {}]]
            p == [fresh EXCEPT !.pc = "persist"]
<1>1. fresh \in Job /\ fresh.env = j.env
  <2>1. /\ j.att \in Nat /\ j.att + 1 \in Nat
        /\ [u \in User |-> Nil] \in [User -> (Nat \ {0}) \cup {Nil}]
        /\ [u \in User |-> Nil] \in [User -> Nat \cup {Nil}]
        /\ [u \in User |-> {}] \in [User -> SUBSET Token]
    BY DEF Job
  <2>2. fresh \in Job
    BY <2>1 DEF Job
  <2>3. fresh.env = j.env
    BY DEF Job
  <2>. QED  BY <2>2, <2>3
<1>2. To(fresh) = To(j) /\ Arrived(fresh) /\ Ident(fresh) = Ident(j)
  BY <1>1 DEF To, Arrived, Ident
<1>3. JobOK(EnterChannel(fresh, 1))
  BY <1>1, <1>2, EnterChannelOK
<1>4. p \in Job /\ p.env = j.env /\ p.pc = "persist" /\ p.i = 1
  BY <1>1 DEF Job, PC, InFlight
<1>5. To(p) = To(j) /\ Arrived(p)
  BY <1>4 DEF To, Arrived
<1>6. JobOK(p)
  BY <1>4, <1>5, JobFacts DEF JobOK, InProcess
<1>. QED  BY <1>3, <1>6 DEF BeginAttempt

LEMMA FailAttemptOK ==
  ASSUME NEW j \in Job, Arrived(j)
  PROVE  JobOK(FailAttempt(j))
<1>. DEFINE r == [j EXCEPT !.pc = "retry", !.tries = @ + 1]
            n(p) == [j EXCEPT !.pc = p]
<1>1. \A p \in {"failed", "dlq"} : JobOK(n(p))
  BY DEF JobOK, Job, PC, Settled, InProcess, Arrived
<1>2. j.tries < RetryCount => JobOK(r)
  <2>. SUFFICES ASSUME j.tries < RetryCount  PROVE JobOK(r)
    OBVIOUS
  <2>1. j.tries + 1 \in 0 .. RetryCount /\ "retry" \in PC
    BY IngestAssumption DEF Job, PC, InFlight
  <2>2. r \in Job
    BY <2>1 DEF Job
  <2>3. r.pc = "retry" /\ r.env = j.env
    BY DEF Job
  <2>. QED  BY <2>2, <2>3 DEF JobOK, InProcess, Arrived
<1>3. CASE j.env.via = "webhook"
  BY <1>1, <1>3 DEF FailAttempt
<1>4. CASE j.env.via = "kafka" /\ j.tries < RetryCount
  BY <1>2, <1>4 DEF FailAttempt
<1>5. CASE j.env.via # "webhook" /\ ~(j.env.via = "kafka" /\ j.tries < RetryCount)
  BY <1>1, <1>5 DEF FailAttempt
<1>. QED  BY <1>3, <1>4, <1>5

-----------------------------------------------------------------------------
(***************************************************************************)
(* Each action preserves the invariant.                                    *)
(***************************************************************************)

\* Only the position changes.
LEMMA AdvanceFacts ==
  ASSUME NEW j \in Job
  PROVE  LET b == Advance(j) IN
         /\ b \in Job
         /\ b.env = j.env /\ b.pc = j.pc /\ b.tries = j.tries /\ b.att = j.att
         /\ b.chan = j.chan /\ b.rcpt = j.rcpt /\ b.stored = j.stored /\ b.counts = j.counts
         /\ b.tokens = j.tokens /\ b.clock = j.clock /\ b.blind = j.blind
         /\ b.i = j.i + 1
<1>. DEFINE b == Advance(j)
<1>1. j.i \in Nat /\ j.i + 1 \in Nat \ {0}
  BY DEF Job
<1>2. b \in Job
  BY <1>1 DEF Job, Advance
<1>. QED  BY <1>1, <1>2 DEF Job, Advance

\* Only the stored rows change.
LEMMA WithRowFacts ==
  ASSUME NEW j \in Job, NEW u \in User, NEW id \in Nat \ {0}
  PROVE  LET b == WithRow(j, u, id) IN
         /\ b \in Job
         /\ b.env = j.env /\ b.pc = j.pc /\ b.tries = j.tries /\ b.att = j.att
         /\ b.i = j.i /\ b.chan = j.chan /\ b.rcpt = j.rcpt /\ b.counts = j.counts
         /\ b.tokens = j.tokens /\ b.clock = j.clock /\ b.blind = j.blind
         /\ b.stored = [j.stored EXCEPT ![u] = id]
<1>. DEFINE b == WithRow(j, u, id)
<1>1. [j.stored EXCEPT ![u] = id] \in [User -> (Nat \ {0}) \cup {Nil}]
  BY DEF Job
<1>2. b \in Job
  BY <1>1 DEF Job, WithRow
<1>. QED  BY <1>1, <1>2 DEF Job, WithRow

\* Only the unread totals change.
LEMMA WithCountFacts ==
  ASSUME NEW j \in Job, NEW u \in User, NEW n \in Nat
  PROVE  LET b == WithCount(j, u, n) IN
         /\ b \in Job
         /\ b.env = j.env /\ b.pc = j.pc /\ b.tries = j.tries /\ b.att = j.att
         /\ b.i = j.i /\ b.chan = j.chan /\ b.rcpt = j.rcpt /\ b.stored = j.stored
         /\ b.tokens = j.tokens /\ b.clock = j.clock /\ b.blind = j.blind
         /\ b.counts = [j.counts EXCEPT ![u] = n]
<1>. DEFINE b == WithCount(j, u, n)
<1>1. [j.counts EXCEPT ![u] = n] \in [User -> Nat \cup {Nil}]
  BY DEF Job
<1>2. b \in Job
  BY <1>1 DEF Job, WithCount
<1>. QED  BY <1>1, <1>2 DEF Job, WithCount

\* Only the tokens change.
LEMMA WithTokensFacts ==
  ASSUME NEW j \in Job, NEW u \in User, NEW ts \in SUBSET Token
  PROVE  LET b == WithTokens(j, u, ts) IN
         /\ b \in Job
         /\ b.env = j.env /\ b.pc = j.pc /\ b.tries = j.tries /\ b.att = j.att
         /\ b.i = j.i /\ b.chan = j.chan /\ b.rcpt = j.rcpt /\ b.stored = j.stored
         /\ b.counts = j.counts /\ b.clock = j.clock /\ b.blind = j.blind
         /\ b.tokens = [j.tokens EXCEPT ![u] = @ \cup ts]
<1>. DEFINE b == WithTokens(j, u, ts)
<1>1. [j.tokens EXCEPT ![u] = @ \cup ts] \in [User -> SUBSET Token]
  BY DEF Job
<1>2. b \in Job
  BY <1>1 DEF Job, WithTokens
<1>. QED  BY <1>1, <1>2 DEF Job, WithTokens

\* Only the kept recipients change.
LEMMA KeepFacts ==
  ASSUME NEW j \in Job, NEW u \in User
  PROVE  LET b == Keep(j, u) IN
         /\ b \in Job
         /\ b.env = j.env /\ b.pc = j.pc /\ b.tries = j.tries /\ b.att = j.att
         /\ b.i = j.i /\ b.chan = j.chan /\ b.stored = j.stored /\ b.counts = j.counts
         /\ b.tokens = j.tokens /\ b.clock = j.clock /\ b.blind = j.blind
         /\ b.rcpt = Append(j.rcpt, u)
<1>. DEFINE b == Keep(j, u)
<1>1. Append(j.rcpt, u) \in Seq(User)
  BY DEF Job
<1>2. b \in Job
  BY <1>1 DEF Job, Keep
<1>. QED  BY <1>1, <1>2 DEF Job, Keep

\* Only the kept recipients and the failed lookups change.
LEMMA KeepBlindFacts ==
  ASSUME NEW j \in Job, NEW u \in User, Chan(j) \in Channel
  PROVE  LET b == KeepBlind(j, u) IN
         /\ b \in Job
         /\ b.env = j.env /\ b.pc = j.pc /\ b.tries = j.tries /\ b.att = j.att
         /\ b.i = j.i /\ b.chan = j.chan /\ b.stored = j.stored /\ b.counts = j.counts
         /\ b.tokens = j.tokens /\ b.clock = j.clock
         /\ b.rcpt = Append(j.rcpt, u)
         /\ b.blind = (j.blind \cup {<<u, Chan(j)>>})
<1>. DEFINE b == KeepBlind(j, u)
<1>1. Append(j.rcpt, u) \in Seq(User)
  BY DEF Job
<1>2. j.blind \cup {<<u, Chan(j)>>} \in SUBSET (User \X Channel)
  BY DEF Job
<1>3. b \in Job
  BY <1>1, <1>2 DEF Job, KeepBlind
<1>. QED  BY <1>1, <1>2, <1>3 DEF Job, KeepBlind

\* A step that replaces one handling by a well-formed one.
LEMMA SetJobOK ==
  ASSUME TInv, NEW e \in Event, NEW n, JobOK(n), SetJob(e, n)
  PROVE  /\ job' \in [Event -> Job]
         /\ \A x \in Event : JobOK(job'[x])
         /\ job'[e] = n
         /\ \A x \in Event \ {e} : job'[x] = job[x]
<1>1. n \in Job
  BY DEF JobOK
<1>2. job' \in [Event -> Job] /\ job'[e] = n /\ \A x \in Event \ {e} : job'[x] = job[x]
  BY <1>1 DEF SetJob, TInv
<1>. QED  BY <1>2 DEF TInv

LEMMA ArriveOK ==
  ASSUME TInv, NEW e \in Event, Arrive(e)
  PROVE  TInv'
<1>1. PICK v \in Envelope : SetJob(e, [job[e] EXCEPT !.env = v, !.pc = "queued"])
  BY DEF Arrive
<1>. DEFINE n == [job[e] EXCEPT !.env = v, !.pc = "queued"]
<1>2. job[e] \in Job
  BY DEF TInv
<1>3. n \in Job /\ n.pc = "queued" /\ n.env = v
  BY <1>2 DEF Job, PC
<1>4. JobOK(n)
  BY <1>3 DEF JobOK, InProcess, Arrived
<1>5. StateOK'
  BY DEF Arrive, StateOK, TInv
<1>. QED  BY <1>1, <1>4, <1>5, SetJobOK DEF TInv

LEMMA HandleOK ==
  ASSUME TInv, NEW e \in Event, Handle(e)
  PROVE  TInv'
<1>. DEFINE j == job[e]
            n(p) == [j EXCEPT !.pc = p]
<1>1. j \in Job /\ Arrived(j) /\ now \in Clock
  BY DEF TInv, JobOK, Handle, StateOK
<1>2. \A p \in {"done", "rejected"} : JobOK(n(p))
  BY <1>1 DEF JobOK, Job, PC, Settled, InProcess, Arrived
<1>3. To(j) # <<>> => JobOK(BeginAttempt(j))
  BY <1>1, BeginAttemptOK
<1>4. \E m : JobOK(m) /\ SetJob(e, m)
  <2>1. CASE ~Validate(j.env)
    <3>1. SetJob(e, n(IF j.env.via = "kafka" THEN "done" ELSE "rejected"))
      BY <2>1 DEF Handle
    <3>. QED  BY <3>1, <1>2
  <2>2. CASE Validate(j.env) /\ To(j) = <<>>
    <3>1. SetJob(e, n("done"))
      BY <2>2 DEF Handle
    <3>. QED  BY <3>1, <1>2
  <2>3. CASE Validate(j.env) /\ To(j) # <<>>
    <3>1. SetJob(e, BeginAttempt(j))
      BY <2>3 DEF Handle
    <3>. QED  BY <3>1, <2>3, <1>3
  <2>. QED  BY <2>1, <2>2, <2>3
<1>5. StateOK'
  BY DEF Handle, StateOK, TInv
<1>. QED  BY <1>4, <1>5, SetJobOK DEF TInv

LEMMA PersistOK ==
  ASSUME TInv, NEW e \in Event, Persist(e)
  PROVE  TInv'
<1>. DEFINE j == job[e]
            u == To(j)[j.i]
            row == [user |-> u, ev |-> e, att |-> j.att, st |-> "unread"]
            a == Advance(WithRow(j, u, Len(rows) + 1))
            b == Advance(j)
<1>1. /\ j \in Job /\ Arrived(j) /\ j.pc = "persist" /\ To(j) # <<>>
      /\ u \in User /\ j.i \in Nat /\ rows \in Seq(Row)
  <2>1. j \in Job /\ Arrived(j) /\ j.pc = "persist" /\ To(j) # <<>>
        /\ j.i \in DOMAIN To(j) /\ rows \in Seq(Row)
    BY DEF TInv, JobOK, Persist, InProcess, StateOK
  <2>. QED  BY <2>1, JobFacts DEF Job
<1>2. row \in Row /\ Append(rows, row) \in Seq(Row)
  BY <1>1 DEF Row, Job
<1>3. a \in Job /\ a.env = j.env /\ a.pc = "persist" /\ a.i = j.i + 1
  <2>1. Len(rows) + 1 \in Nat \ {0}
    BY <1>1
  <2>. DEFINE w == WithRow(j, u, Len(rows) + 1)
  <2>2. w \in Job /\ w.env = j.env /\ w.pc = j.pc /\ w.i = j.i
    BY <1>1, <2>1, WithRowFacts
  <2>. HIDE DEF w
  <2>3. LET m == Advance(w) IN m \in Job /\ m.env = w.env /\ m.pc = w.pc /\ m.i = w.i + 1
    BY <2>2, AdvanceFacts
  <2>. QED  BY <1>1, <2>2, <2>3 DEF w
<1>4. b \in Job /\ b.env = j.env /\ b.pc = "persist" /\ b.i = j.i + 1
  BY <1>1, AdvanceFacts
<1>. HIDE DEF a, b
<1>5. To(a) = To(j) /\ Arrived(a) /\ To(b) = To(j) /\ Arrived(b)
  BY <1>1, <1>3, <1>4 DEF To, Arrived
<1>6. JobOK(AfterPersist(a)) /\ JobOK(AfterPersist(b))
  BY <1>1, <1>3, <1>4, <1>5, AfterPersistOK
<1>7. \E m : JobOK(m) /\ SetJob(e, m)
  BY <1>6 DEF Persist, a, b
<1>8. rows' \in Seq(Row)
  BY <1>1, <1>2 DEF Persist
<1>9. StateOK'
  BY <1>8 DEF Persist, StateOK, TInv
<1>. QED  BY <1>7, <1>9, SetJobOK DEF TInv

\* Unread totals are natural numbers.
LEMMA CountUnreadFacts ==
  ASSUME rows \in Seq(Row), NEW u \in User
  PROVE  /\ CountUnread(u) \in Nat
         /\ CountUnread(u) = 0 =>
              \A k \in DOMAIN rows : ~(rows[k].user = u /\ rows[k].st = "unread")
<1>. DEFINE S == {k \in DOMAIN rows : rows[k].user = u /\ rows[k].st = "unread"}
<1>1. DOMAIN rows = 1 .. Len(rows) /\ Len(rows) \in Nat
  OBVIOUS
<1>2. IsFiniteSet(1 .. Len(rows))
  BY <1>1, FS_Interval
<1>3. IsFiniteSet(S)
  BY <1>1, <1>2, FS_Subset
<1>4. Cardinality(S) \in Nat /\ (Cardinality(S) = 0 <=> S = {})
  BY <1>3, FS_CardinalityType, FS_EmptySet
<1>. QED  BY <1>4 DEF CountUnread

LEMMA CountOK ==
  ASSUME TInv, NEW e \in Event, Count(e)
  PROVE  TInv'
<1>. DEFINE j == job[e]
            u == To(j)[j.i]
            a == Advance(WithCount(j, u, CountUnread(u)))
            b == Advance(j)
<1>1. /\ j \in Job /\ Arrived(j) /\ j.pc = "count" /\ To(j) # <<>>
      /\ u \in User /\ j.i \in Nat /\ rows \in Seq(Row) /\ now \in Clock
  <2>1. j \in Job /\ Arrived(j) /\ j.pc = "count" /\ To(j) # <<>>
        /\ j.i \in DOMAIN To(j) /\ rows \in Seq(Row) /\ now \in Clock
    BY DEF TInv, JobOK, Count, InProcess, StateOK
  <2>. QED  BY <2>1, JobFacts DEF Job
<1>2. a \in Job /\ a.env = j.env /\ a.pc = "count" /\ a.i = j.i + 1
  <2>1. CountUnread(u) \in Nat
    BY <1>1, CountUnreadFacts
  <2>. DEFINE w == WithCount(j, u, CountUnread(u))
  <2>2. w \in Job /\ w.env = j.env /\ w.pc = j.pc /\ w.i = j.i
    BY <1>1, <2>1, WithCountFacts
  <2>. HIDE DEF w
  <2>3. LET m == Advance(w) IN m \in Job /\ m.env = w.env /\ m.pc = w.pc /\ m.i = w.i + 1
    BY <2>2, AdvanceFacts
  <2>. QED  BY <1>1, <2>2, <2>3 DEF w
<1>3. b \in Job /\ b.env = j.env /\ b.pc = "count" /\ b.i = j.i + 1
  BY <1>1, AdvanceFacts
<1>. HIDE DEF a, b
<1>4. To(a) = To(j) /\ Arrived(a) /\ To(b) = To(j) /\ Arrived(b)
  BY <1>1, <1>2, <1>3 DEF To, Arrived
<1>5. JobOK(AfterCount(a)) /\ JobOK(AfterCount(b))
  BY <1>1, <1>2, <1>3, <1>4, AfterCountOK
<1>6. \E m : JobOK(m) /\ SetJob(e, m)
  BY <1>5 DEF Count, a, b
<1>7. StateOK'
  BY DEF Count, StateOK, TInv
<1>. QED  BY <1>6, <1>7, SetJobOK DEF TInv

LEMMA FilterOK ==
  ASSUME TInv, NEW e \in Event, Filter(e)
  PROVE  TInv'
<1>. DEFINE j == job[e]
            u == To(j)[j.i]
            a == Advance(Keep(j, u))
            b == Advance(j)
            c == Advance(KeepBlind(j, u))
<1>1. /\ j \in Job /\ Arrived(j) /\ j.pc = "filter" /\ To(j) # <<>>
      /\ u \in User /\ j.i \in Nat /\ j.chan \in DOMAIN Channels(j)
      /\ Chan(j) \in Channel /\ now \in Clock
  <2>1. j \in Job /\ Arrived(j) /\ j.pc = "filter" /\ To(j) # <<>>
        /\ j.i \in DOMAIN To(j) /\ j.chan \in DOMAIN Channels(j) /\ now \in Clock
    BY DEF TInv, JobOK, Filter, InProcess, StateOK
  <2>. QED  BY <2>1, JobFacts DEF Job, Chan
<1>2. a \in Job /\ a.env = j.env /\ a.pc = "filter" /\ a.i = j.i + 1 /\ a.chan = j.chan
  BY <1>1, KeepFacts, AdvanceFacts
<1>3. b \in Job /\ b.env = j.env /\ b.pc = "filter" /\ b.i = j.i + 1 /\ b.chan = j.chan
  BY <1>1, AdvanceFacts
<1>4. c \in Job /\ c.env = j.env /\ c.pc = "filter" /\ c.i = j.i + 1 /\ c.chan = j.chan
  BY <1>1, KeepBlindFacts, AdvanceFacts
<1>. HIDE DEF a, b, c
<1>5. \A m \in {a, b, c} : To(m) = To(j) /\ Arrived(m) /\ Channels(m) = Channels(j)
  BY <1>1, <1>2, <1>3, <1>4 DEF To, Arrived, Channels, Ident
<1>6. \A m \in {a, b, c} : JobOK(AfterFilter(m))
  BY <1>1, <1>2, <1>3, <1>4, <1>5, AfterFilterOK
<1>7. \E m : JobOK(m) /\ SetJob(e, m)
  BY <1>6 DEF Filter, a, b, c
<1>8. StateOK'
  BY DEF Filter, StateOK, TInv
<1>. QED  BY <1>7, <1>8, SetJobOK DEF TInv

LEMMA EnrichOK ==
  ASSUME TInv, NEW e \in Event, Enrich(e)
  PROVE  TInv'
<1>. DEFINE j == job[e]
            u == j.rcpt[j.i]
            a == Advance(WithTokens(j, u, subs[u]))
            b == Advance(j)
<1>1. /\ j \in Job /\ Arrived(j) /\ j.pc = "enrich" /\ To(j) # <<>>
      /\ u \in User /\ j.i \in Nat /\ j.chan \in DOMAIN Channels(j)
      /\ j.rcpt # <<>> /\ subs[u] \in SUBSET Token
  <2>1. j \in Job /\ Arrived(j) /\ j.pc = "enrich" /\ To(j) # <<>>
        /\ j.i \in DOMAIN j.rcpt /\ j.chan \in DOMAIN Channels(j)
        /\ subs \in [User -> SUBSET Token]
    BY DEF TInv, JobOK, Enrich, InProcess, StateOK
  <2>2. j.rcpt \in Seq(User) /\ j.i \in Nat
    BY <2>1 DEF Job
  <2>. QED  BY <2>1, <2>2
<1>2. /\ a \in Job /\ a.env = j.env /\ a.pc = "enrich" /\ a.i = j.i + 1
      /\ a.chan = j.chan /\ a.rcpt = j.rcpt
  <2>. DEFINE w == WithTokens(j, u, subs[u])
  <2>1. /\ w \in Job /\ w.env = j.env /\ w.pc = j.pc /\ w.i = j.i
        /\ w.chan = j.chan /\ w.rcpt = j.rcpt
    BY <1>1, WithTokensFacts
  <2>. HIDE DEF w
  <2>2. LET m == Advance(w) IN
        /\ m \in Job /\ m.env = w.env /\ m.pc = w.pc /\ m.i = w.i + 1
        /\ m.chan = w.chan /\ m.rcpt = w.rcpt
    BY <2>1, AdvanceFacts
  <2>. QED  BY <1>1, <2>1, <2>2 DEF w
<1>3. /\ b \in Job /\ b.env = j.env /\ b.pc = "enrich" /\ b.i = j.i + 1
      /\ b.chan = j.chan /\ b.rcpt = j.rcpt
  BY <1>1, AdvanceFacts
<1>. HIDE DEF a, b
<1>4. \A m \in {a, b} : To(m) = To(j) /\ Arrived(m) /\ Channels(m) = Channels(j)
  BY <1>1, <1>2, <1>3 DEF To, Arrived, Channels, Ident
<1>5. \A m \in {a, b} : JobOK(AfterEnrich(m))
  BY <1>1, <1>2, <1>3, <1>4, AfterEnrichOK
<1>6. \E m : JobOK(m) /\ SetJob(e, m)
  BY <1>5 DEF Enrich, a, b
<1>7. StateOK'
  BY DEF Enrich, StateOK, TInv
<1>. QED  BY <1>6, <1>7, SetJobOK DEF TInv

\* What both dispatchers know of the handling they serve.
LEMMA DispatchFacts ==
  ASSUME TInv, NEW e \in Event, job[e].pc = "dispatch"
  PROVE  LET j == job[e] IN
         /\ j \in Job /\ Arrived(j) /\ To(j) # <<>>
         /\ j.i \in Nat /\ j.chan \in DOMAIN Channels(j) /\ now \in Clock
         /\ j.rcpt \in Seq(User) /\ j.rcpt[j.i] \in User
<1>. DEFINE j == job[e]
<1>1. j \in Job /\ Arrived(j) /\ To(j) # <<>> /\ j.i \in DOMAIN j.rcpt
      /\ j.chan \in DOMAIN Channels(j) /\ now \in Clock
  BY DEF TInv, JobOK, InProcess, StateOK
<1>2. j.i \in Nat /\ j.rcpt \in Seq(User)
  BY <1>1 DEF Job
<1>. QED  BY <1>1, <1>2

LEMMA DispatchInAppOK ==
  ASSUME TInv, NEW e \in Event, DispatchInApp(e)
  PROVE  TInv'
<1>. DEFINE j == job[e]
            u == j.rcpt[j.i]
            m == IF IsShared(j.env) THEN Broadcast(j, e) ELSE WSMessageTo(j, e, u)
            a == [j EXCEPT !.i = Len(j.rcpt) + 1]
            b == Advance(j)
<1>1. /\ j \in Job /\ Arrived(j) /\ j.pc = "dispatch" /\ To(j) # <<>>
      /\ u \in User /\ j.i \in Nat /\ j.chan \in DOMAIN Channels(j)
      /\ now \in Clock /\ j.rcpt \in Seq(User)
  BY DispatchFacts DEF DispatchInApp
<1>2. /\ a \in Job /\ a.env = j.env /\ a.pc = "dispatch" /\ a.i \in Nat \ {0}
      /\ a.chan = j.chan
  <2>1. Len(j.rcpt) + 1 \in Nat \ {0}
    BY <1>1
  <2>2. a \in Job
    BY <1>1, <2>1 DEF Job
  <2>. QED  BY <1>1, <2>1, <2>2 DEF Job
<1>3. /\ b \in Job /\ b.env = j.env /\ b.pc = "dispatch" /\ b.i \in Nat \ {0}
      /\ b.chan = j.chan
  BY <1>1, AdvanceFacts
<1>4. m \in WSMessage
  <2>1. j.att \in Nat /\ j.stored[u] \in (Nat \ {0}) \cup {Nil} /\ j.counts[u] \in Nat \cup {Nil}
    BY <1>1 DEF Job
  <2>. QED  BY <1>1, <2>1 DEF WSMessage, Broadcast, WSMessageTo
<1>. HIDE DEF a, b, m
<1>5. \A x \in {a, b} : To(x) = To(j) /\ Arrived(x) /\ Channels(x) = Channels(j)
  BY <1>1, <1>2, <1>3 DEF To, Arrived, Channels, Ident
<1>6. \A x \in {a, b} : JobOK(AfterDispatch(x))
  BY <1>1, <1>2, <1>3, <1>5, AfterDispatchOK
<1>7. JobOK(FailAttempt(j))
  BY <1>1, FailAttemptOK
<1>8. \E x : JobOK(x) /\ SetJob(e, x)
  BY <1>6, <1>7 DEF DispatchInApp, a, b
<1>9. ws' \in Seq(WSMessage)
  <2>1. ws \in Seq(WSMessage)
    BY DEF TInv, StateOK
  <2>2. ws' \in {ws, Append(ws, m)}
    BY DEF DispatchInApp, m
  <2>. QED  BY <1>4, <2>1, <2>2
<1>10. StateOK'
  BY <1>9 DEF DispatchInApp, StateOK, TInv
<1>. QED  BY <1>8, <1>10, SetJobOK DEF TInv

LEMMA DispatchPushOK ==
  ASSUME TInv, NEW e \in Event, DispatchPush(e)
  PROVE  TInv'
<1>. DEFINE j == job[e]
            u == j.rcpt[j.i]
            m == [user |-> u, ev |-> e, att |-> j.att, tokens |-> j.tokens[u]]
            b == Advance(j)
<1>1. /\ j \in Job /\ Arrived(j) /\ j.pc = "dispatch" /\ To(j) # <<>>
      /\ u \in User /\ j.i \in Nat /\ j.chan \in DOMAIN Channels(j)
      /\ now \in Clock /\ j.rcpt \in Seq(User)
  BY DispatchFacts DEF DispatchPush
<1>2. /\ b \in Job /\ b.env = j.env /\ b.pc = "dispatch" /\ b.i \in Nat \ {0}
      /\ b.chan = j.chan
  BY <1>1, AdvanceFacts
<1>3. m \in PushMessage
  BY <1>1 DEF PushMessage, Job
<1>. HIDE DEF b, m
<1>4. To(b) = To(j) /\ Arrived(b) /\ Channels(b) = Channels(j)
  BY <1>1, <1>2 DEF To, Arrived, Channels, Ident
<1>5. JobOK(AfterDispatch(b)) /\ JobOK(FailAttempt(j))
  BY <1>1, <1>2, <1>4, AfterDispatchOK, FailAttemptOK
<1>6. \E x : JobOK(x) /\ SetJob(e, x)
  BY <1>5 DEF DispatchPush, b
<1>7. pushq' \in Seq(PushMessage)
  <2>1. pushq \in Seq(PushMessage)
    BY DEF TInv, StateOK
  <2>2. pushq' \in {pushq, Append(pushq, m)}
    BY DEF DispatchPush, m
  <2>. QED  BY <1>3, <2>1, <2>2
<1>8. StateOK'
  BY <1>7 DEF DispatchPush, StateOK, TInv
<1>. QED  BY <1>6, <1>8, SetJobOK DEF TInv

LEMMA CrashOK ==
  ASSUME TInv, NEW e \in Event, Crash(e)
  PROVE  TInv'
<1>. DEFINE j == job[e]
            a == [j EXCEPT !.pc = "queued", !.tries = 0]
            b == [j EXCEPT !.pc = "lost"]
<1>1. j \in Job /\ Arrived(j)
  BY DEF TInv, JobOK, Crash, InFlight
<1>2. 0 \in 0 .. RetryCount
  BY IngestAssumption
<1>3. a \in Job /\ a.pc = "queued" /\ a.env = j.env
  BY <1>1, <1>2 DEF Job, PC
<1>4. b \in Job /\ b.pc = "lost" /\ b.env = j.env
  BY <1>1 DEF Job, PC, Settled
<1>5. JobOK(a) /\ JobOK(b)
  BY <1>1, <1>3, <1>4 DEF JobOK, InProcess, Arrived
<1>6. \E x : JobOK(x) /\ SetJob(e, x)
  BY <1>5 DEF Crash
<1>7. crashes' \in 0 .. MaxCrashes
  BY IngestAssumption DEF Crash, TInv, StateOK
<1>8. StateOK'
  BY <1>7 DEF Crash, StateOK, TInv
<1>. QED  BY <1>6, <1>8, SetJobOK DEF TInv

LEMMA MeanwhileOK ==
  ASSUME TInv, Meanwhile
  PROVE  TInv'
<1>1. ASSUME NEW u \in User, Prefer(u)  PROVE StateOK' /\ job' = job
  <2>1. PICK p \in PrefOf[u] : pref' = [pref EXCEPT ![u] = Saved(pref[u], p)]
    BY <1>1 DEF Prefer, TInv, StateOK
  <2>. DEFINE q == Saved(pref[u], p)
  <2>2. q \in PrefOf[u] /\ q \in PreferenceType
    BY <2>1, IngestAssumption DEF TInv, StateOK
  <2>3. pref' = [pref EXCEPT ![u] = q]
    BY <2>1
  <2>. HIDE DEF q
  <2>. QED  BY <1>1, <2>2, <2>3 DEF Prefer, TInv, StateOK
<1>2. ASSUME NEW u \in User, NEW t \in Token, Register(u, t)  PROVE StateOK' /\ job' = job
  BY <1>2 DEF Register, TInv, StateOK
<1>3. ASSUME NEW k \in DOMAIN rows, Read(k) \/ Delete(k)  PROVE StateOK' /\ job' = job
  <2>1. rows \in Seq(Row) /\ rows[k] \in Row
    BY DEF TInv, StateOK
  <2>2. \A st \in {"read", "deleted"} : [rows[k] EXCEPT !.st = st] \in Row
    BY <2>1 DEF Row
  <2>3. \A st \in {"read", "deleted"} : [rows EXCEPT ![k].st = st] \in Seq(Row)
    BY <2>1, <2>2
  <2>4. rows' \in Seq(Row)
    BY <1>3, <2>3 DEF Read, Delete
  <2>. QED  BY <1>3, <2>4 DEF Read, Delete, TInv, StateOK
<1>4. ASSUME Tick  PROVE StateOK' /\ job' = job
  <2>1. (now + 1) % Day \in Clock
    BY DayAssumption DEF TInv, StateOK, Clock
  <2>. QED  BY <1>4, <2>1 DEF Tick, TInv, StateOK
<1>5. StateOK' /\ job' = job
  BY <1>1, <1>2, <1>3, <1>4 DEF Meanwhile
<1>. QED  BY <1>5 DEF TInv

LEMMA InitOK ==
  ASSUME Init
  PROVE  TInv
<1>1. NewJob \in Job /\ NewJob.pc = "new"
  <2>1. /\ [u \in User |-> Nil] \in [User -> (Nat \ {0}) \cup {Nil}]
        /\ [u \in User |-> Nil] \in [User -> Nat \cup {Nil}]
        /\ [u \in User |-> {}] \in [User -> SUBSET Token]
        /\ 0 \in Clock /\ 0 \in 0 .. RetryCount /\ <<>> \in Seq(User)
    BY DayAssumption, IngestAssumption DEF Clock
  <2>. QED  BY <2>1 DEF NewJob, Job, PC
<1>2. JobOK(NewJob)
  BY <1>1 DEF JobOK, InProcess
<1>3. pref \in [User -> PreferenceType] /\ \A u \in User : pref[u] \in PrefOf[u]
  <2>1. pref \in [User -> UNION {PrefOf[u] : u \in User}] /\ \A u \in User : pref[u] \in PrefOf[u]
    BY DEF Init
  <2>2. \A u \in User : PrefOf[u] \subseteq PreferenceType
    BY IngestAssumption
  <2>. QED  BY <2>1, <2>2
<1>4. StateOK
  BY <1>3, IngestAssumption DEF Init, StateOK
<1>. QED  BY <1>1, <1>2, <1>4 DEF Init, TInv

LEMMA NextOK ==
  ASSUME TInv, [Next]_vars
  PROVE  TInv'
<1>1. CASE UNCHANGED vars
  BY <1>1 DEF vars, TInv, StateOK
<1>2. ASSUME NEW e \in Event, Arrive(e) \/ Step(e) \/ Crash(e)
      PROVE  TInv'
  BY <1>2, ArriveOK, HandleOK, PersistOK, CountOK, FilterOK, EnrichOK,
     DispatchInAppOK, DispatchPushOK, CrashOK DEF Step
<1>. QED  BY <1>1, <1>2, MeanwhileOK DEF Next

\* The inductive type invariant holds in every state.
THEOREM Typed == Spec => []TInv
BY InitOK, NextOK, PTL DEF Spec

\* Type correctness of the pipeline: whatever fails and whenever users change
\* their settings, a handling never leaves its types, and one that has arrived
\* keeps its envelope (service/notification.go, Process).
THEOREM TypeCorrect == Spec => []TypeOK
<1>1. TInv => TypeOK
  <2>. SUFFICES ASSUME TInv  PROVE TypeOK
    OBVIOUS
  <2>1. \A e \in Event : job[e].pc # "new" => job[e].env # Nil
    BY IngestAssumption DEF TInv, JobOK, Arrived
  <2>. QED  BY <2>1 DEF TInv, StateOK, TypeOK
<1>. QED  BY <1>1, Typed, PTL

-----------------------------------------------------------------------------
(***************************************************************************)
(* Safety: one inductive invariant, Hist and the two invariants on         *)
(* messages below, on top of the type invariant.                           *)
(***************************************************************************)
(***************************************************************************)
(* The invariant.  rs is the notifications collection: making it a         *)
(* parameter lets a lemma speak of a handling before and after a step.     *)
(***************************************************************************)

\* What the attempt remembers having stored is there, with its attempt number.
StoredOK(j, e, rs) ==
  \A u \in User : j.stored[u] # Nil =>
    /\ j.stored[u] \in DOMAIN rs
    /\ rs[j.stored[u]].user = u
    /\ rs[j.stored[u]].ev = e
    /\ rs[j.stored[u]].att = j.att

\* Totals are taken after the rows are stored, and a total of zero means that
\* the user has dealt with the row already.
CountsOK(j, rs) ==
  /\ j.pc = "persist" => \A u \in User : j.counts[u] = Nil
  /\ \A u \in User : j.stored[u] # Nil /\ j.counts[u] = 0 =>
       rs[j.stored[u]].st # "unread"

\* Who never takes the channel being filtered or served is among the kept
\* recipients only because the lookup failed.
RcptOK(j) ==
  j.pc \in {"filter", "enrich", "dispatch"} =>
    \A k \in DOMAIN j.rcpt :
      Never(j.rcpt[k], Ident(j), Chan(j)) => <<j.rcpt[k], Chan(j)>> \in j.blind

Hist(j, e, rs) == StoredOK(j, e, rs) /\ CountsOK(j, rs) /\ RcptOK(j)

\* A message on notif:ws, given the handlings js and the collection rs.
WSOK(m, js, rs) ==
  /\ js[m.ev].pc # "new"
  /\ m.id # Nil =>
       /\ m.id \in DOMAIN rs
       /\ rs[m.id].user = m.room /\ rs[m.id].ev = m.ev /\ rs[m.id].att = m.att
       /\ m.count = 0 => rs[m.id].st # "unread"
  /\ m.room # Shared /\ Never(m.room, Ident(js[m.ev]), ChannelInApp)
       => <<m.room, ChannelInApp>> \in js[m.ev].blind

\* A message on notif:push.
PushOK(m, js) ==
  /\ js[m.ev].pc # "new"
  /\ Never(m.user, Ident(js[m.ev]), ChannelPush)
       => <<m.user, ChannelPush>> \in js[m.ev].blind

SInv ==
  /\ TInv
  /\ \A e \in Event : Hist(job[e], e, rows)
  /\ \A k \in DOMAIN ws : WSOK(ws[k], job, rows)
  /\ \A k \in DOMAIN pushq : PushOK(pushq[k], job)

-----------------------------------------------------------------------------
(***************************************************************************)
(* What a local step leaves alone, and that it keeps RcptOK.               *)
(***************************************************************************)
Frame(n, j) ==
  /\ n.env = j.env /\ n.att = j.att /\ n.stored = j.stored
  /\ n.counts = j.counts /\ n.blind = j.blind
  /\ n.pc # "new"

LEMMA EnterChannelFrame ==
  ASSUME NEW j \in Job, NEW c
  PROVE  /\ Frame(EnterChannel(j, c), j)
         /\ EnterChannel(j, c).pc # "persist"
         /\ RcptOK(EnterChannel(j, c))
<1>. DEFINE d == [j EXCEPT !.pc = "done"]
            f == [j EXCEPT !.pc = "filter", !.chan = c, !.i = 1, !.rcpt = <<>>,
                           !.clock = now]
<1>1. Frame(d, j) /\ d.pc = "done"
  BY DEF Job, Frame
<1>2. Frame(f, j) /\ f.pc = "filter" /\ f.rcpt = <<>>
  BY DEF Job, Frame
<1>3. RcptOK(d) /\ RcptOK(f)
  BY <1>1, <1>2 DEF RcptOK
<1>. QED  BY <1>1, <1>2, <1>3 DEF EnterChannel

LEMMA AfterPersistFrame ==
  ASSUME NEW j \in Job, j.pc = "persist"
  PROVE  /\ Frame(AfterPersist(j), j)
         /\ RcptOK(AfterPersist(j))
<1>. DEFINE n == [j EXCEPT !.pc = "count", !.i = 1]
<1>1. Frame(n, j) /\ n.pc = "count" /\ Frame(j, j)
  BY DEF Job, Frame
<1>2. RcptOK(n) /\ RcptOK(j)
  BY <1>1 DEF RcptOK
<1>. QED  BY <1>1, <1>2 DEF AfterPersist

LEMMA AfterCountFrame ==
  ASSUME NEW j \in Job, j.pc = "count"
  PROVE  /\ Frame(AfterCount(j), j)
         /\ AfterCount(j).pc # "persist"
         /\ RcptOK(AfterCount(j))
<1>1. Frame(j, j) /\ RcptOK(j)
  BY DEF Frame, RcptOK
<1>. QED  BY <1>1, EnterChannelFrame DEF AfterCount

LEMMA AfterFilterFrame ==
  ASSUME NEW j \in Job, Arrived(j), j.pc = "filter", RcptOK(j)
  PROVE  /\ Frame(AfterFilter(j), j)
         /\ AfterFilter(j).pc # "persist"
         /\ RcptOK(AfterFilter(j))
<1>. DEFINE n(p) == [j EXCEPT !.i = 1, !.tokens = [u \in User |-> {}], !.pc = p]
<1>1. Frame(j, j)
  BY DEF Frame
<1>2. \A p \in {"enrich", "dispatch"} : Frame(n(p), j) /\ n(p).pc = p /\ RcptOK(n(p))
  <2>. SUFFICES ASSUME NEW p \in {"enrich", "dispatch"}
                PROVE  Frame(n(p), j) /\ n(p).pc = p /\ RcptOK(n(p))
    OBVIOUS
  <2>1. Frame(n(p), j) /\ n(p).pc = p /\ n(p).rcpt = j.rcpt /\ n(p).chan = j.chan
    BY DEF Job, Frame
  <2>2. Ident(n(p)) = Ident(j) /\ Chan(n(p)) = Chan(j) /\ n(p).blind = j.blind
    BY <2>1 DEF Ident, Chan, Channels, Frame
  <2>. QED  BY <2>1, <2>2 DEF RcptOK
<1>3. CASE j.i <= Len(To(j)) /\ ~(j.i > Len(To(j)) /\ j.rcpt = <<>>)
  <2>1. AfterFilter(j) = j
    BY <1>3 DEF AfterFilter
  <2>. QED  BY <1>1, <2>1
<1>4. CASE ~(j.i <= Len(To(j))) /\ j.i > Len(To(j)) /\ j.rcpt = <<>>
  <2>1. AfterFilter(j) = EnterChannel(j, j.chan + 1)
    BY <1>4 DEF AfterFilter
  <2>. QED  BY <2>1, EnterChannelFrame
<1>5. CASE ~(j.i <= Len(To(j))) /\ ~(j.i > Len(To(j)) /\ j.rcpt = <<>>)
  <2>1. AfterFilter(j) = n(IF Chan(j) = ChannelPush THEN "enrich" ELSE "dispatch")
    BY <1>5 DEF AfterFilter
  <2>2. (IF Chan(j) = ChannelPush THEN "enrich" ELSE "dispatch") \in {"enrich", "dispatch"}
    OBVIOUS
  <2>. QED  BY <1>2, <2>1, <2>2
<1>6. j.i <= Len(To(j)) => ~(j.i > Len(To(j)))
  BY JobFacts DEF Job
<1>. QED  BY <1>3, <1>4, <1>5, <1>6

LEMMA AfterEnrichFrame ==
  ASSUME NEW j \in Job, j.pc = "enrich", RcptOK(j)
  PROVE  /\ Frame(AfterEnrich(j), j)
         /\ AfterEnrich(j).pc # "persist"
         /\ RcptOK(AfterEnrich(j))
<1>. DEFINE n == [j EXCEPT !.pc = "dispatch", !.i = 1]
<1>1. Frame(n, j) /\ n.pc = "dispatch" /\ n.rcpt = j.rcpt /\ n.chan = j.chan
  BY DEF Job, Frame
<1>2. Ident(n) = Ident(j) /\ Chan(n) = Chan(j) /\ n.blind = j.blind /\ Frame(j, j)
  BY <1>1 DEF Ident, Chan, Channels, Frame
<1>3. RcptOK(n)
  BY <1>1, <1>2 DEF RcptOK
<1>. QED  BY <1>1, <1>2, <1>3 DEF AfterEnrich

LEMMA AfterDispatchFrame ==
  ASSUME NEW j \in Job, j.pc = "dispatch", RcptOK(j)
  PROVE  /\ Frame(AfterDispatch(j), j)
         /\ AfterDispatch(j).pc # "persist"
         /\ RcptOK(AfterDispatch(j))
<1>1. Frame(j, j)
  BY DEF Frame
<1>. QED  BY <1>1, EnterChannelFrame DEF AfterDispatch

LEMMA FailAttemptFrame ==
  ASSUME NEW j \in Job
  PROVE  /\ Frame(FailAttempt(j), j)
         /\ FailAttempt(j).pc # "persist"
         /\ RcptOK(FailAttempt(j))
<1>. DEFINE r == [j EXCEPT !.pc = "retry", !.tries = @ + 1]
            n(p) == [j EXCEPT !.pc = p]
<1>1. \A p \in {"failed", "dlq"} : Frame(n(p), j) /\ n(p).pc = p /\ RcptOK(n(p))
  BY DEF Job, Frame, RcptOK
<1>2. Frame(r, j) /\ r.pc = "retry" /\ RcptOK(r)
  BY DEF Job, Frame, RcptOK
<1>3. CASE j.env.via = "webhook"
  BY <1>1, <1>3 DEF FailAttempt
<1>4. CASE j.env.via = "kafka" /\ j.tries < RetryCount
  BY <1>2, <1>4 DEF FailAttempt
<1>5. CASE j.env.via # "webhook" /\ ~(j.env.via = "kafka" /\ j.tries < RetryCount)
  BY <1>1, <1>5 DEF FailAttempt
<1>. QED  BY <1>3, <1>4, <1>5

-----------------------------------------------------------------------------
(***************************************************************************)
(* What every step leaves alone.                                           *)
(***************************************************************************)

\* Rows are never lost or renamed, and never become unread again.
RowsKept(rs, rs2) ==
  \A k \in DOMAIN rs :
    /\ k \in DOMAIN rs2
    /\ rs2[k].user = rs[k].user /\ rs2[k].ev = rs[k].ev /\ rs2[k].att = rs[k].att
    /\ rs[k].st # "unread" => rs2[k].st # "unread"

\* The envelope of an event that has arrived never changes, and a failed
\* lookup is never forgotten.
JobsKept(js, js2) ==
  \A x \in Event : js[x].pc # "new" =>
    /\ js2[x].pc # "new"
    /\ js2[x].env = js[x].env
    /\ js[x].blind \subseteq js2[x].blind

LEMMA HistFrame ==
  ASSUME NEW j, NEW n, NEW e, NEW rs, Hist(j, e, rs), Frame(n, j), RcptOK(n),
         n.pc = "persist" => j.pc = "persist"
  PROVE  Hist(n, e, rs)
BY DEF Hist, StoredOK, CountsOK, Frame

LEMMA HistKept ==
  ASSUME NEW j, NEW e, NEW rs, NEW rs2, Hist(j, e, rs), RowsKept(rs, rs2)
  PROVE  Hist(j, e, rs2)
BY DEF Hist, StoredOK, CountsOK, RowsKept

LEMMA WSKept ==
  ASSUME NEW m \in WSMessage, NEW js, NEW js2, NEW rs, NEW rs2,
         WSOK(m, js, rs), RowsKept(rs, rs2), JobsKept(js, js2)
  PROVE  WSOK(m, js2, rs2)
<1>1. m.ev \in Event
  BY DEF WSMessage
<1>2. js2[m.ev].pc # "new" /\ js2[m.ev].env = js[m.ev].env
      /\ js[m.ev].blind \subseteq js2[m.ev].blind
  BY <1>1 DEF WSOK, JobsKept
<1>3. Ident(js2[m.ev]) = Ident(js[m.ev])
  BY <1>2 DEF Ident
<1>4. m.id # Nil =>
       /\ m.id \in DOMAIN rs2
       /\ rs2[m.id].user = m.room /\ rs2[m.id].ev = m.ev /\ rs2[m.id].att = m.att
       /\ m.count = 0 => rs2[m.id].st # "unread"
  BY DEF WSOK, RowsKept
<1>5. m.room # Shared /\ Never(m.room, Ident(js2[m.ev]), ChannelInApp)
       => <<m.room, ChannelInApp>> \in js2[m.ev].blind
  BY <1>2, <1>3 DEF WSOK
<1>. QED  BY <1>2, <1>4, <1>5 DEF WSOK

LEMMA PushKept ==
  ASSUME NEW m \in PushMessage, NEW js, NEW js2, PushOK(m, js), JobsKept(js, js2)
  PROVE  PushOK(m, js2)
<1>1. m.ev \in Event
  BY DEF PushMessage
<1>2. js2[m.ev].pc # "new" /\ js2[m.ev].env = js[m.ev].env
      /\ js[m.ev].blind \subseteq js2[m.ev].blind
  BY <1>1 DEF PushOK, JobsKept
<1>3. Ident(js2[m.ev]) = Ident(js[m.ev])
  BY <1>2 DEF Ident
<1>. QED  BY <1>2, <1>3 DEF PushOK

\* A step that replaces the handling of e by n, keeps the rows and adds at
\* most one message to each list preserves the invariant.
LEMMA StepSafe ==
  ASSUME SInv, TInv', NEW e \in Event, NEW n, SetJob(e, n),
         Hist(n, e, rows'), n.pc # "new",
         job[e].pc # "new" => n.env = job[e].env, job[e].blind \subseteq n.blind,
         RowsKept(rows, rows'),
         \/ ws' = ws
         \/ \E m \in WSMessage : ws' = Append(ws, m) /\ WSOK(m, job', rows'),
         \/ pushq' = pushq
         \/ \E m \in PushMessage : pushq' = Append(pushq, m) /\ PushOK(m, job')
  PROVE  SInv'
<1>1. job'[e] = n /\ \A x \in Event \ {e} : job'[x] = job[x]
  BY DEF SetJob, SInv, TInv
<1>2. JobsKept(job, job')
  <2>1. \A x \in Event \ {e} : job'[x].blind = job[x].blind /\ job'[x].env = job[x].env
                               /\ job'[x].pc = job[x].pc
    BY <1>1
  <2>. QED  BY <1>1, <2>1 DEF JobsKept
<1>3. \A x \in Event : Hist(job'[x], x, rows')
  <2>1. \A x \in Event \ {e} : Hist(job[x], x, rows')
    BY HistKept DEF SInv
  <2>. QED  BY <1>1, <2>1
<1>4. \A k \in DOMAIN ws' : WSOK(ws'[k], job', rows')
  <2>1. ws \in Seq(WSMessage)
    BY DEF SInv, TInv, StateOK
  <2>2. \A k \in DOMAIN ws : WSOK(ws[k], job', rows')
    <3>1. \A k \in DOMAIN ws : ws[k] \in WSMessage /\ WSOK(ws[k], job, rows)
      BY <2>1 DEF SInv
    <3>. QED  BY <1>2, <3>1, WSKept
  <2>3. CASE ws' = ws
    BY <2>2, <2>3
  <2>4. ASSUME NEW m \in WSMessage, ws' = Append(ws, m), WSOK(m, job', rows')
        PROVE  \A k \in DOMAIN ws' : WSOK(ws'[k], job', rows')
    <3>1. \A k \in DOMAIN ws' : (k \in DOMAIN ws /\ ws'[k] = ws[k]) \/ ws'[k] = m
      BY <2>1, <2>4
    <3>. QED  BY <2>2, <2>4, <3>1
  <2>. QED  BY <2>3, <2>4
<1>5. \A k \in DOMAIN pushq' : PushOK(pushq'[k], job')
  <2>1. pushq \in Seq(PushMessage)
    BY DEF SInv, TInv, StateOK
  <2>2. \A k \in DOMAIN pushq : PushOK(pushq[k], job')
    <3>1. \A k \in DOMAIN pushq : pushq[k] \in PushMessage /\ PushOK(pushq[k], job)
      BY <2>1 DEF SInv
    <3>. QED  BY <1>2, <3>1, PushKept
  <2>3. CASE pushq' = pushq
    BY <2>2, <2>3
  <2>4. ASSUME NEW m \in PushMessage, pushq' = Append(pushq, m), PushOK(m, job')
        PROVE  \A k \in DOMAIN pushq' : PushOK(pushq'[k], job')
    <3>1. \A k \in DOMAIN pushq' : (k \in DOMAIN pushq /\ pushq'[k] = pushq[k]) \/ pushq'[k] = m
      BY <2>1, <2>4
    <3>. QED  BY <2>2, <2>4, <3>1
  <2>. QED  BY <2>3, <2>4
<1>. QED  BY <1>3, <1>4, <1>5 DEF SInv

-----------------------------------------------------------------------------
(***************************************************************************)
(* Each action preserves the invariant.                                    *)
(***************************************************************************)
LEMMA SameRows == RowsKept(rows, rows)
BY DEF RowsKept

LEMMA ArriveSafe ==
  ASSUME SInv, TInv', NEW e \in Event, Arrive(e)
  PROVE  SInv'
<1>1. PICK v \in Envelope : SetJob(e, [job[e] EXCEPT !.env = v, !.pc = "queued"])
  BY DEF Arrive
<1>. DEFINE j == job[e]
            n == [j EXCEPT !.env = v, !.pc = "queued"]
<1>2. j \in Job /\ j.pc = "new" /\ Hist(j, e, rows) /\ UNCHANGED <<rows, ws, pushq>>
  BY DEF Arrive, SInv, TInv
<1>3. /\ n.pc = "queued" /\ n.stored = j.stored /\ n.att = j.att
      /\ n.counts = j.counts /\ n.blind = j.blind
  BY <1>2 DEF Job
<1>4. Hist(n, e, rows')
  BY <1>2, <1>3 DEF Hist, StoredOK, CountsOK, RcptOK
<1>. QED  BY <1>1, <1>2, <1>3, <1>4, StepSafe, SameRows

LEMMA BeginAttemptHist ==
  ASSUME NEW j \in Job, NEW e, NEW rs
  PROVE  /\ Hist(BeginAttempt(j), e, rs)
         /\ BeginAttempt(j).pc # "new"
         /\ BeginAttempt(j).env = j.env
         /\ BeginAttempt(j).blind = j.blind
<1>. DEFINE fresh == [j EXCEPT !.att = @ + 1, !.i = 1,
                               !.stored = [u \in User |-> Nil],
                               !.counts = [u \in User |-> Nil],
                               !.tokens = [u \in User |-> {}]]
            p == [fresh EXCEPT !.pc = "persist"]
<1>1. fresh \in Job
  <2>1. /\ j.att \in Nat /\ j.att + 1 \in Nat
        /\ [u \in User |-> Nil] \in [User -> (Nat \ {0}) \cup {Nil}]
        /\ [u \in User |-> Nil] \in [User -> Nat \cup {Nil}]
        /\ [u \in User |-> {}] \in [User -> SUBSET Token]
    BY DEF Job
  <2>. QED  BY <2>1 DEF Job
<1>2. /\ fresh.env = j.env /\ fresh.blind = j.blind
      /\ fresh.stored = [u \in User |-> Nil] /\ fresh.counts = [u \in User |-> Nil]
  BY DEF Job
<1>3. /\ p.env = j.env /\ p.blind = j.blind /\ p.pc = "persist"
      /\ p.stored = [u \in User |-> Nil] /\ p.counts = [u \in User |-> Nil]
  BY DEF Job
<1>. HIDE DEF fresh, p
<1>4. Hist(p, e, rs)
  BY <1>3 DEF Hist, StoredOK, CountsOK, RcptOK
<1>. DEFINE f == EnterChannel(fresh, 1)
<1>5. Frame(f, fresh) /\ f.pc # "persist" /\ RcptOK(f)
  BY <1>1, EnterChannelFrame
<1>. HIDE DEF f
<1>6. Hist(f, e, rs) /\ f.pc # "new" /\ f.env = j.env /\ f.blind = j.blind
  BY <1>2, <1>5 DEF Hist, StoredOK, CountsOK, Frame
<1>. QED  BY <1>3, <1>4, <1>6 DEF BeginAttempt, fresh, p, f

LEMMA HandleSafe ==
  ASSUME SInv, TInv', NEW e \in Event, Handle(e)
  PROVE  SInv'
<1>. DEFINE j == job[e]
            n(p) == [j EXCEPT !.pc = p]
<1>1. j \in Job /\ Hist(j, e, rows) /\ UNCHANGED <<rows, ws, pushq>>
  BY DEF Handle, SInv, TInv
<1>2. \A p \in {"done", "rejected"} :
         /\ Hist(n(p), e, rows') /\ n(p).pc # "new"
         /\ n(p).env = j.env /\ n(p).blind = j.blind
  <2>. SUFFICES ASSUME NEW p \in {"done", "rejected"}
                PROVE  /\ Hist(n(p), e, rows') /\ n(p).pc # "new"
                       /\ n(p).env = j.env /\ n(p).blind = j.blind
    OBVIOUS
  <2>1. Frame(n(p), j) /\ n(p).pc = p
    BY <1>1 DEF Job, Frame
  <2>2. RcptOK(n(p))
    BY <2>1 DEF RcptOK
  <2>3. Hist(n(p), e, rows)
    BY <1>1, <2>1, <2>2, HistFrame
  <2>. QED  BY <1>1, <2>1, <2>3 DEF Frame
<1>3. \E m : /\ SetJob(e, m) /\ Hist(m, e, rows') /\ m.pc # "new"
             /\ m.env = j.env /\ m.blind = j.blind
  <2>1. CASE ~Validate(j.env)
    <3>1. SetJob(e, n(IF j.env.via = "kafka" THEN "done" ELSE "rejected"))
      BY <2>1 DEF Handle
    <3>. QED  BY <3>1, <1>2
  <2>2. CASE Validate(j.env) /\ To(j) = <<>>
    <3>1. SetJob(e, n("done"))
      BY <2>2 DEF Handle
    <3>. QED  BY <3>1, <1>2
  <2>3. CASE Validate(j.env) /\ To(j) # <<>>
    <3>1. SetJob(e, BeginAttempt(j))
      BY <2>3 DEF Handle
    <3>. QED  BY <3>1, <1>1, BeginAttemptHist
  <2>. QED  BY <2>1, <2>2, <2>3
<1>. QED  BY <1>1, <1>3, StepSafe, SameRows

LEMMA PersistSafe ==
  ASSUME SInv, TInv', NEW e \in Event, Persist(e)
  PROVE  SInv'
<1>. DEFINE j == job[e]
            u == To(j)[j.i]
            row == [user |-> u, ev |-> e, att |-> j.att, st |-> "unread"]
            w == WithRow(j, u, Len(rows) + 1)
            a == AfterPersist(Advance(w))
            b == AfterPersist(Advance(j))
<1>1. /\ j \in Job /\ Arrived(j) /\ j.pc = "persist" /\ Hist(j, e, rows)
      /\ u \in User /\ rows \in Seq(Row) /\ UNCHANGED <<ws, pushq>>
  <2>1. j \in Job /\ Arrived(j) /\ j.pc = "persist" /\ Hist(j, e, rows)
        /\ j.i \in DOMAIN To(j) /\ rows \in Seq(Row) /\ UNCHANGED <<ws, pushq>>
    BY DEF SInv, TInv, JobOK, Persist, StateOK
  <2>. QED  BY <2>1, JobFacts
<1>2. row \in Row
  BY <1>1 DEF Row, Job
<1>3. rows' \in {rows, Append(rows, row)}
  BY DEF Persist
<1>4. RowsKept(rows, rows')
  BY <1>1, <1>2, <1>3 DEF RowsKept
<1>5. Frame(b, j) /\ RcptOK(b)
  <2>1. Advance(j) \in Job /\ Advance(j).pc = "persist" /\ Frame(Advance(j), j)
    BY <1>1, AdvanceFacts DEF Frame
  <2>. QED  BY <2>1, AfterPersistFrame DEF Frame
<1>6. Hist(b, e, rows')
  BY <1>1, <1>4, <1>5, HistFrame, HistKept
<1>7. /\ a.env = j.env /\ a.att = j.att /\ a.counts = j.counts /\ a.blind = j.blind
      /\ a.stored = [j.stored EXCEPT ![u] = Len(rows) + 1]
      /\ a.pc # "new" /\ RcptOK(a)
  <2>1. Len(rows) + 1 \in Nat \ {0}
    BY <1>1
  <2>2. /\ w \in Job /\ w.env = j.env /\ w.pc = j.pc /\ w.att = j.att
        /\ w.counts = j.counts /\ w.blind = j.blind
        /\ w.stored = [j.stored EXCEPT ![u] = Len(rows) + 1]
    BY <1>1, <2>1, WithRowFacts
  <2>. HIDE DEF w
  <2>3. Advance(w) \in Job /\ Advance(w).pc = "persist" /\ Frame(Advance(w), w)
    BY <1>1, <2>2, AdvanceFacts DEF Frame
  <2>4. Frame(a, Advance(w)) /\ RcptOK(a)
    BY <2>3, AfterPersistFrame
  <2>. QED  BY <2>2, <2>3, <2>4 DEF Frame
<1>. HIDE DEF a, b
<1>8. rows' = Append(rows, row) => Hist(a, e, rows')
  <2>. SUFFICES ASSUME rows' = Append(rows, row)  PROVE Hist(a, e, rows')
    OBVIOUS
  <2>1. StoredOK(a, e, rows')
    <3>. SUFFICES ASSUME NEW x \in User, a.stored[x] # Nil
                  PROVE  /\ a.stored[x] \in DOMAIN rows'
                         /\ rows'[a.stored[x]].user = x
                         /\ rows'[a.stored[x]].ev = e
                         /\ rows'[a.stored[x]].att = a.att
      BY DEF StoredOK
    <3>1. CASE x = u
      <4>1. a.stored[x] = Len(rows) + 1
        BY <1>1, <1>7, <3>1 DEF Job
      <4>2. rows'[Len(rows) + 1] = row /\ Len(rows) + 1 \in DOMAIN rows'
        BY <1>1, <1>2
      <4>. QED  BY <1>7, <3>1, <4>1, <4>2
    <3>2. CASE x # u
      <4>1. a.stored[x] = j.stored[x]
        BY <1>1, <1>7, <3>2 DEF Job
      <4>2. StoredOK(j, e, rows')
        BY <1>1, <1>4, HistKept DEF Hist
      <4>. QED  BY <1>7, <4>1, <4>2 DEF StoredOK
    <3>. QED  BY <3>1, <3>2
  <2>2. CountsOK(a, rows')
    <3>1. \A x \in User : a.counts[x] = Nil
      BY <1>1, <1>7 DEF Hist, CountsOK
    <3>. QED  BY <3>1, DayAssumption DEF CountsOK
  <2>. QED  BY <1>7, <2>1, <2>2 DEF Hist
<1>. HIDE DEF row
<1>9. \/ SetJob(e, a) /\ rows' = Append(rows, row)
      \/ SetJob(e, b)
  BY DEF Persist, a, b, w, row
<1>10. b.env = j.env /\ b.blind = j.blind /\ b.pc # "new"
  BY <1>5 DEF Frame
<1>. QED  BY <1>1, <1>4, <1>6, <1>7, <1>8, <1>9, <1>10, StepSafe

LEMMA CountSafe ==
  ASSUME SInv, TInv', NEW e \in Event, Count(e)
  PROVE  SInv'
<1>. DEFINE j == job[e]
            u == To(j)[j.i]
            w == WithCount(j, u, CountUnread(u))
            a == AfterCount(Advance(w))
            b == AfterCount(Advance(j))
<1>1. /\ j \in Job /\ j.pc = "count" /\ Hist(j, e, rows) /\ u \in User
      /\ rows \in Seq(Row) /\ UNCHANGED <<rows, ws, pushq>>
  <2>1. /\ j \in Job /\ Arrived(j) /\ j.pc = "count" /\ Hist(j, e, rows)
        /\ j.i \in DOMAIN To(j) /\ rows \in Seq(Row) /\ UNCHANGED <<rows, ws, pushq>>
    BY DEF SInv, TInv, JobOK, Count, StateOK
  <2>. QED  BY <2>1, JobFacts
<1>2. Frame(b, j) /\ b.pc # "persist" /\ RcptOK(b)
  <2>1. Advance(j) \in Job /\ Advance(j).pc = "count" /\ Frame(Advance(j), j)
    BY <1>1, AdvanceFacts DEF Frame
  <2>. QED  BY <2>1, AfterCountFrame DEF Frame
<1>3. Hist(b, e, rows)
  BY <1>1, <1>2, HistFrame
<1>4. /\ a.env = j.env /\ a.att = j.att /\ a.stored = j.stored /\ a.blind = j.blind
      /\ a.counts = [j.counts EXCEPT ![u] = CountUnread(u)]
      /\ a.pc \notin {"new", "persist"} /\ RcptOK(a)
  <2>1. CountUnread(u) \in Nat
    BY <1>1, CountUnreadFacts
  <2>2. /\ w \in Job /\ w.env = j.env /\ w.pc = j.pc /\ w.att = j.att
        /\ w.stored = j.stored /\ w.blind = j.blind
        /\ w.counts = [j.counts EXCEPT ![u] = CountUnread(u)]
    BY <1>1, <2>1, WithCountFacts
  <2>. HIDE DEF w
  <2>3. Advance(w) \in Job /\ Advance(w).pc = "count" /\ Frame(Advance(w), w)
    BY <1>1, <2>2, AdvanceFacts DEF Frame
  <2>4. Frame(a, Advance(w)) /\ RcptOK(a) /\ a.pc # "persist"
    BY <2>3, AfterCountFrame
  <2>. QED  BY <2>2, <2>3, <2>4 DEF Frame
<1>. HIDE DEF a, b
<1>5. Hist(a, e, rows)
  <2>1. StoredOK(a, e, rows)
    BY <1>1, <1>4 DEF Hist, StoredOK
  <2>2. CountsOK(a, rows)
    <3>. SUFFICES ASSUME NEW x \in User, a.stored[x] # Nil, a.counts[x] = 0
                  PROVE  rows[a.stored[x]].st # "unread"
      BY <1>4 DEF CountsOK
    <3>1. CASE x = u
      <4>1. CountUnread(u) = 0
        BY <1>1, <1>4, <3>1 DEF Job
      <4>2. \A k \in DOMAIN rows : ~(rows[k].user = u /\ rows[k].st = "unread")
        BY <1>1, <4>1, CountUnreadFacts
      <4>3. j.stored[u] \in DOMAIN rows /\ rows[j.stored[u]].user = u
        BY <1>1, <1>4, <3>1 DEF Hist, StoredOK
      <4>. QED  BY <1>4, <3>1, <4>2, <4>3
    <3>2. CASE x # u
      <4>1. j.counts[x] = 0 /\ j.stored[x] # Nil
        BY <1>1, <1>4, <3>2 DEF Job
      <4>. QED  BY <1>1, <1>4, <4>1 DEF Hist, CountsOK
    <3>. QED  BY <3>1, <3>2
  <2>. QED  BY <1>4, <2>1, <2>2 DEF Hist
<1>6. SetJob(e, a) \/ SetJob(e, b)
  BY DEF Count, a, b, w
<1>7. b.env = j.env /\ b.blind = j.blind /\ b.pc # "new"
  BY <1>2 DEF Frame
<1>. QED  BY <1>1, <1>3, <1>4, <1>5, <1>6, <1>7, StepSafe, SameRows

\* A kept recipient whose preference lets the event through is not one who
\* never takes the channel.
LEMMA AllowedNotNever ==
  ASSUME TInv, NEW e \in Event, job[e].pc = "filter", NEW u \in User, NEW x, NEW c,
         Allowed(pref[u], x, c, job[e].clock)
  PROVE  ~Never(u, x, c)
<1>1. pref[u] \in PrefOf[u] /\ job[e].clock \in Clock
  BY DEF TInv, StateOK, Job
<1>. QED  BY <1>1 DEF Never

LEMMA FilterSafe ==
  ASSUME SInv, TInv', NEW e \in Event, Filter(e)
  PROVE  SInv'
<1>. DEFINE j == job[e]
            u == To(j)[j.i]
            ka == Keep(j, u)
            kc == KeepBlind(j, u)
            a == AfterFilter(Advance(ka))
            b == AfterFilter(Advance(j))
            c == AfterFilter(Advance(kc))
<1>1. /\ j \in Job /\ Arrived(j) /\ j.pc = "filter" /\ Hist(j, e, rows)
      /\ u \in User /\ Chan(j) \in Channel /\ UNCHANGED <<rows, ws, pushq>>
  <2>1. /\ j \in Job /\ Arrived(j) /\ j.pc = "filter" /\ Hist(j, e, rows)
        /\ j.i \in DOMAIN To(j) /\ j.chan \in DOMAIN Channels(j)
        /\ UNCHANGED <<rows, ws, pushq>>
    BY DEF SInv, TInv, JobOK, Filter
  <2>. QED  BY <2>1, JobFacts DEF Chan
<1>2. j.rcpt \in Seq(User)
  BY <1>1 DEF Job
\* Any handling like j but for its position, recipients and lookups is safe.
<1>3. ASSUME NEW m \in Job, m.env = j.env, m.pc = "filter", m.chan = j.chan,
             m.att = j.att, m.stored = j.stored, m.counts = j.counts,
             j.blind \subseteq m.blind, RcptOK(m)
      PROVE  /\ Hist(AfterFilter(Advance(m)), e, rows)
             /\ AfterFilter(Advance(m)).env = j.env
             /\ AfterFilter(Advance(m)).pc # "new"
             /\ j.blind \subseteq AfterFilter(Advance(m)).blind
  <2>. DEFINE n == Advance(m)
              r == AfterFilter(n)
  <2>1. /\ n \in Job /\ n.pc = "filter" /\ n.rcpt = m.rcpt /\ n.chan = m.chan
        /\ n.blind = m.blind /\ n.env = m.env /\ n.att = m.att
        /\ n.stored = m.stored /\ n.counts = m.counts
    BY <1>3, AdvanceFacts
  <2>. HIDE DEF n
  <2>2. Arrived(n) /\ Ident(n) = Ident(m) /\ Chan(n) = Chan(m)
    BY <1>1, <1>3, <2>1 DEF Arrived, Ident, Chan, Channels
  <2>3. RcptOK(n)
    BY <1>3, <2>1, <2>2 DEF RcptOK
  <2>4. Frame(r, n) /\ r.pc # "persist" /\ RcptOK(r)
    BY <2>1, <2>2, <2>3, AfterFilterFrame
  <2>. HIDE DEF r
  <2>5. Hist(r, e, rows)
    BY <1>1, <1>3, <2>1, <2>4 DEF Hist, StoredOK, CountsOK, Frame
  <2>. QED  BY <1>3, <2>1, <2>4, <2>5 DEF Frame, n, r
<1>4. /\ ka \in Job /\ ka.env = j.env /\ ka.pc = "filter" /\ ka.chan = j.chan
      /\ ka.att = j.att /\ ka.stored = j.stored /\ ka.counts = j.counts
      /\ ka.blind = j.blind /\ ka.rcpt = Append(j.rcpt, u)
  BY <1>1, KeepFacts
<1>5. /\ kc \in Job /\ kc.env = j.env /\ kc.pc = "filter" /\ kc.chan = j.chan
      /\ kc.att = j.att /\ kc.stored = j.stored /\ kc.counts = j.counts
      /\ kc.blind = j.blind \cup {<<u, Chan(j)>>} /\ kc.rcpt = Append(j.rcpt, u)
  BY <1>1, KeepBlindFacts
<1>. HIDE DEF ka, kc
<1>6. /\ Ident(ka) = Ident(j) /\ Chan(ka) = Chan(j)
      /\ Ident(kc) = Ident(j) /\ Chan(kc) = Chan(j)
  BY <1>4, <1>5 DEF Ident, Chan, Channels
<1>7. \A k \in DOMAIN Append(j.rcpt, u) :
        \/ k \in DOMAIN j.rcpt /\ Append(j.rcpt, u)[k] = j.rcpt[k]
        \/ Append(j.rcpt, u)[k] = u
  BY <1>1, <1>2
<1>8. Allowed(pref[u], Ident(j), Chan(j), j.clock) => RcptOK(ka)
  <2>1. Allowed(pref[u], Ident(j), Chan(j), j.clock) => ~Never(u, Ident(j), Chan(j))
    BY <1>1, AllowedNotNever DEF SInv
  <2>. QED  BY <1>1, <1>4, <1>6, <1>7, <2>1 DEF Hist, RcptOK
<1>9. RcptOK(kc)
  BY <1>1, <1>5, <1>6, <1>7 DEF Hist, RcptOK
<1>10. \/ Allowed(pref[u], Ident(j), Chan(j), j.clock) /\ SetJob(e, a)
       \/ SetJob(e, b)
       \/ SetJob(e, c)
  BY DEF Filter, ka, kc
<1>11. \E m \in Job : /\ SetJob(e, AfterFilter(Advance(m))) /\ RcptOK(m)
                      /\ m.env = j.env /\ m.pc = "filter" /\ m.chan = j.chan
                      /\ m.att = j.att /\ m.stored = j.stored /\ m.counts = j.counts
                      /\ j.blind \subseteq m.blind
  BY <1>1, <1>4, <1>5, <1>8, <1>9, <1>10 DEF Hist
<1>. QED  BY <1>1, <1>3, <1>11, StepSafe, SameRows

LEMMA EnrichSafe ==
  ASSUME SInv, TInv', NEW e \in Event, Enrich(e)
  PROVE  SInv'
<1>. DEFINE j == job[e]
            u == j.rcpt[j.i]
            w == WithTokens(j, u, subs[u])
            a == AfterEnrich(Advance(w))
            b == AfterEnrich(Advance(j))
<1>1. /\ j \in Job /\ j.pc = "enrich" /\ Hist(j, e, rows) /\ u \in User
      /\ subs[u] \in SUBSET Token /\ UNCHANGED <<rows, ws, pushq>>
  <2>1. /\ j \in Job /\ j.pc = "enrich" /\ Hist(j, e, rows) /\ j.i \in DOMAIN j.rcpt
        /\ subs \in [User -> SUBSET Token] /\ UNCHANGED <<rows, ws, pushq>>
    BY DEF SInv, TInv, JobOK, Enrich, StateOK
  <2>2. j.rcpt \in Seq(User)
    BY <2>1 DEF Job
  <2>. QED  BY <2>1, <2>2
\* Any handling like j but for its position and tokens is safe.
<1>2. ASSUME NEW m \in Job, Frame(m, j), m.pc = "enrich", m.chan = j.chan, m.rcpt = j.rcpt
      PROVE  LET r == AfterEnrich(Advance(m)) IN
             Hist(r, e, rows) /\ r.env = j.env /\ r.pc # "new" /\ r.blind = j.blind
  <2>. DEFINE n == Advance(m)
              r == AfterEnrich(n)
  <2>1. /\ n \in Job /\ n.pc = "enrich" /\ n.rcpt = j.rcpt /\ n.chan = j.chan
        /\ Frame(n, j)
    BY <1>2, AdvanceFacts DEF Frame
  <2>. HIDE DEF n
  <2>2. Ident(n) = Ident(j) /\ Chan(n) = Chan(j)
    BY <2>1 DEF Ident, Chan, Channels, Frame
  <2>3. RcptOK(n)
    BY <1>1, <2>1, <2>2 DEF RcptOK, Hist, Frame
  <2>4. Frame(r, n) /\ r.pc # "persist" /\ RcptOK(r)
    BY <2>1, <2>3, AfterEnrichFrame
  <2>. HIDE DEF r
  <2>5. Hist(r, e, rows)
    BY <1>1, <2>1, <2>4, HistFrame DEF Frame
  <2>. QED  BY <2>1, <2>4, <2>5 DEF Frame, n, r
<1>3. w \in Job /\ Frame(w, j) /\ w.pc = "enrich" /\ w.chan = j.chan /\ w.rcpt = j.rcpt
  BY <1>1, WithTokensFacts DEF Frame
<1>4. Frame(j, j)
  BY <1>1 DEF Frame
<1>. HIDE DEF w
<1>5. SetJob(e, a) \/ SetJob(e, b)
  BY DEF Enrich, w
<1>6. \E r : /\ SetJob(e, r) /\ Hist(r, e, rows) /\ r.env = j.env
             /\ r.pc # "new" /\ r.blind = j.blind
  BY <1>1, <1>2, <1>3, <1>4, <1>5
<1>. QED  BY <1>1, <1>6, StepSafe, SameRows

\* How a dispatch ends, well or badly, leaves the handling safe.
LEMMA DispatchEnds ==
  ASSUME NEW j \in Job, j.pc = "dispatch", NEW e, Hist(j, e, rows),
         NEW n \in Job, Frame(n, j), n.pc = "dispatch", n.chan = j.chan, n.rcpt = j.rcpt
  PROVE  \A r \in {AfterDispatch(n), FailAttempt(j)} :
           Hist(r, e, rows) /\ r.env = j.env /\ r.pc # "new" /\ r.blind = j.blind
<1>1. Ident(n) = Ident(j) /\ Chan(n) = Chan(j)
  BY DEF Ident, Chan, Channels, Frame
<1>2. RcptOK(n)
  BY <1>1 DEF RcptOK, Hist, Frame
<1>. DEFINE a == AfterDispatch(n)
            f == FailAttempt(j)
<1>3. Frame(a, n) /\ a.pc # "persist" /\ RcptOK(a)
  BY <1>2, AfterDispatchFrame
<1>4. Frame(f, j) /\ f.pc # "persist" /\ RcptOK(f)
  BY FailAttemptFrame
<1>. HIDE DEF a, f
<1>5. Frame(a, j)
  BY <1>3 DEF Frame
<1>6. Hist(a, e, rows) /\ Hist(f, e, rows)
  BY <1>3, <1>4, <1>5, HistFrame
<1>. QED  BY <1>4, <1>5, <1>6 DEF Frame, a, f

LEMMA DispatchInAppSafe ==
  ASSUME SInv, TInv', NEW e \in Event, DispatchInApp(e)
  PROVE  SInv'
<1>. DEFINE j == job[e]
            u == j.rcpt[j.i]
            m == IF IsShared(j.env) THEN Broadcast(j, e) ELSE WSMessageTo(j, e, u)
            n == IF IsShared(j.env) THEN [j EXCEPT !.i = Len(j.rcpt) + 1] ELSE Advance(j)
<1>1. /\ j \in Job /\ j.pc = "dispatch" /\ Hist(j, e, rows) /\ j.i \in DOMAIN j.rcpt
      /\ u \in User /\ j.rcpt \in Seq(User) /\ Chan(j) = ChannelInApp
      /\ UNCHANGED <<rows, pushq>>
  BY DispatchFacts DEF SInv, TInv, JobOK, DispatchInApp
<1>2. n \in Job /\ Frame(n, j) /\ n.pc = "dispatch" /\ n.chan = j.chan /\ n.rcpt = j.rcpt
  <2>. DEFINE a == [j EXCEPT !.i = Len(j.rcpt) + 1]
  <2>1. Len(j.rcpt) + 1 \in Nat
    BY <1>1
  <2>2. a \in Job /\ Frame(a, j) /\ a.pc = "dispatch" /\ a.chan = j.chan /\ a.rcpt = j.rcpt
    BY <1>1, <2>1 DEF Job, Frame
  <2>3. LET b == Advance(j) IN
        b \in Job /\ Frame(b, j) /\ b.pc = "dispatch" /\ b.chan = j.chan /\ b.rcpt = j.rcpt
    BY <1>1, AdvanceFacts DEF Frame
  <2>. QED  BY <2>2, <2>3
<1>3. m \in WSMessage
  <2>1. j.att \in Nat /\ j.stored[u] \in (Nat \ {0}) \cup {Nil} /\ j.counts[u] \in Nat \cup {Nil}
    BY <1>1 DEF Job
  <2>. QED  BY <1>1, <2>1 DEF WSMessage, Broadcast, WSMessageTo
<1>4. ASSUME NEW js, js[e].pc # "new", js[e].env = j.env, js[e].blind = j.blind
      PROVE  WSOK(m, js, rows)
  <2>1. Ident(js[e]) = Ident(j)
    BY <1>4 DEF Ident
  <2>2. CASE IsShared(j.env)
    BY <1>4, <2>2 DEF WSOK, Broadcast
  <2>3. CASE ~IsShared(j.env)
    <3>. DEFINE x == WSMessageTo(j, e, u)
    <3>1. /\ x.ev = e /\ x.room = u /\ x.id = j.stored[u] /\ x.count = j.counts[u]
          /\ x.att = j.att
      BY DEF WSMessageTo
    <3>. HIDE DEF x
    <3>2. x.id # Nil =>
            /\ x.id \in DOMAIN rows
            /\ rows[x.id].user = u /\ rows[x.id].ev = e /\ rows[x.id].att = x.att
      BY <1>1, <3>1 DEF Hist, StoredOK
    <3>3. x.id # Nil /\ x.count = 0 => rows[x.id].st # "unread"
      BY <1>1, <3>1 DEF Hist, CountsOK
    <3>4. Never(u, Ident(j), ChannelInApp) => <<u, ChannelInApp>> \in j.blind
      BY <1>1 DEF Hist, RcptOK
    <3>5. WSOK(x, js, rows)
      BY <1>4, <2>1, <3>1, <3>2, <3>3, <3>4 DEF WSOK
    <3>. QED  BY <2>3, <3>5 DEF x
  <2>. QED  BY <2>2, <2>3
<1>. HIDE DEF m, n
<1>5. \E r \in {AfterDispatch(n), FailAttempt(j)} : SetJob(e, r)
  BY DEF DispatchInApp, m, n
<1>6. PICK r : /\ SetJob(e, r) /\ Hist(r, e, rows) /\ r.env = j.env
               /\ r.pc # "new" /\ r.blind = j.blind
  BY <1>1, <1>2, <1>5, DispatchEnds
<1>7. job'[e] = r
  BY <1>6 DEF SetJob, SInv, TInv
<1>8. ws' \in {ws, Append(ws, m)}
  BY DEF DispatchInApp, m
<1>9. WSOK(m, job', rows')
  BY <1>1, <1>4, <1>6, <1>7
<1>10. ws' = ws \/ \E x \in WSMessage : ws' = Append(ws, x) /\ WSOK(x, job', rows')
  BY <1>3, <1>8, <1>9
<1>. QED  BY <1>1, <1>6, <1>10, StepSafe, SameRows

LEMMA DispatchPushSafe ==
  ASSUME SInv, TInv', NEW e \in Event, DispatchPush(e)
  PROVE  SInv'
<1>. DEFINE j == job[e]
            u == j.rcpt[j.i]
            m == [user |-> u, ev |-> e, att |-> j.att, tokens |-> j.tokens[u]]
            n == Advance(j)
<1>1. /\ j \in Job /\ j.pc = "dispatch" /\ Hist(j, e, rows) /\ j.i \in DOMAIN j.rcpt
      /\ u \in User /\ Chan(j) = ChannelPush /\ UNCHANGED <<rows, ws>>
  BY DispatchFacts DEF SInv, TInv, JobOK, DispatchPush
<1>2. n \in Job /\ Frame(n, j) /\ n.pc = "dispatch" /\ n.chan = j.chan /\ n.rcpt = j.rcpt
  BY <1>1, AdvanceFacts DEF Frame
<1>3. m \in PushMessage /\ m.user = u /\ m.ev = e
  BY <1>1 DEF PushMessage, Job
<1>4. Never(u, Ident(j), ChannelPush) => <<u, ChannelPush>> \in j.blind
  BY <1>1 DEF Hist, RcptOK
<1>. HIDE DEF m, n
<1>5. \E r \in {AfterDispatch(n), FailAttempt(j)} : SetJob(e, r)
  BY DEF DispatchPush, n
<1>6. PICK r : /\ SetJob(e, r) /\ Hist(r, e, rows) /\ r.env = j.env
               /\ r.pc # "new" /\ r.blind = j.blind
  BY <1>1, <1>2, <1>5, DispatchEnds
<1>7. job'[e] = r /\ Ident(r) = Ident(j)
  BY <1>6 DEF SetJob, SInv, TInv, Ident
<1>8. pushq' \in {pushq, Append(pushq, m)}
  BY DEF DispatchPush, m
<1>9. PushOK(m, job')
  BY <1>3, <1>4, <1>6, <1>7 DEF PushOK
<1>. QED  BY <1>1, <1>3, <1>6, <1>8, <1>9, StepSafe, SameRows

LEMMA CrashSafe ==
  ASSUME SInv, TInv', NEW e \in Event, Crash(e)
  PROVE  SInv'
<1>. DEFINE j == job[e]
            a == [j EXCEPT !.pc = "queued", !.tries = 0]
            b == [j EXCEPT !.pc = "lost"]
<1>1. j \in Job /\ Hist(j, e, rows) /\ UNCHANGED <<rows, ws, pushq>>
  BY DEF SInv, TInv, Crash
<1>2. Frame(a, j) /\ a.pc = "queued" /\ Frame(b, j) /\ b.pc = "lost"
  BY <1>1 DEF Job, Frame
<1>. HIDE DEF a, b
<1>3. RcptOK(a) /\ RcptOK(b)
  BY <1>2 DEF RcptOK
<1>4. Hist(a, e, rows) /\ Hist(b, e, rows)
  BY <1>1, <1>2, <1>3, HistFrame
<1>5. SetJob(e, a) \/ SetJob(e, b)
  BY DEF Crash, a, b
<1>. QED  BY <1>1, <1>2, <1>4, <1>5, StepSafe, SameRows DEF Frame

\* Users' actions touch no handling and no message; they make rows read or
\* deleted, never unread.
LEMMA MeanwhileSafe ==
  ASSUME SInv, TInv', Meanwhile \/ UNCHANGED vars
  PROVE  SInv'
<1>1. UNCHANGED <<job, ws, pushq>>
  BY DEF Meanwhile, Prefer, Register, Read, Delete, Tick, vars
<1>2. RowsKept(rows, rows')
  <2>1. rows \in Seq(Row)
    BY DEF SInv, TInv, StateOK
  <2>2. ASSUME NEW k \in DOMAIN rows, NEW st \in {"read", "deleted"},
               rows' = [rows EXCEPT ![k].st = st]
        PROVE  RowsKept(rows, rows')
    <3>1. \A x \in DOMAIN rows : rows[x] \in Row
      BY <2>1
    <3>. QED  BY <2>2, <3>1 DEF RowsKept, Row
  <2>3. \/ rows' = rows
        \/ \E k \in DOMAIN rows, st \in {"read", "deleted"} :
              rows' = [rows EXCEPT ![k].st = st]
    BY DEF Meanwhile, Prefer, Register, Read, Delete, Tick, vars
  <2>. QED  BY <2>2, <2>3, SameRows
<1>3. JobsKept(job, job)
  BY DEF JobsKept
<1>4. \A e \in Event : Hist(job[e], e, rows')
  BY <1>2, HistKept DEF SInv
<1>5. \A k \in DOMAIN ws : WSOK(ws[k], job, rows')
  <2>1. \A k \in DOMAIN ws : ws[k] \in WSMessage /\ WSOK(ws[k], job, rows)
    BY DEF SInv, TInv, StateOK
  <2>. QED  BY <1>2, <1>3, <2>1, WSKept
<1>. QED  BY <1>1, <1>4, <1>5 DEF SInv

LEMMA InitSafe ==
  ASSUME Init
  PROVE  SInv
<1>1. \A e \in Event : Hist(NewJob, e, rows)
  BY DEF NewJob, Hist, StoredOK, CountsOK, RcptOK
<1>. QED  BY <1>1, InitOK DEF Init, SInv

LEMMA NextSafe ==
  ASSUME SInv, [Next]_vars
  PROVE  SInv'
<1>1. TInv'
  BY NextOK DEF SInv
<1>2. ASSUME NEW e \in Event, Arrive(e) \/ Step(e) \/ Crash(e)
      PROVE  SInv'
  BY <1>1, <1>2, ArriveSafe, HandleSafe, PersistSafe, CountSafe, FilterSafe,
     EnrichSafe, DispatchInAppSafe, DispatchPushSafe, CrashSafe DEF Step
<1>. QED  BY <1>1, <1>2, MeanwhileSafe DEF Next

-----------------------------------------------------------------------------
(***************************************************************************)
(* The theorems.                                                           *)
(***************************************************************************)

\* The inductive invariant holds in every state.
THEOREM Safe == Spec => []SInv
BY InitSafe, NextSafe, PTL DEF Spec

\* The id an in-app message carries is that of a stored row of its recipient,
\* of its event and of the attempt that sent it, for any number of retries,
\* crashes, failed calls and concurrent events (persistNotifications, Process,
\* InAppDispatcher.Dispatch).
THEOREM AnnouncedRows == Spec => []AnnouncedRowExists
<1>1. SInv => AnnouncedRowExists
  BY DEF SInv, WSOK, AnnouncedRowExists
<1>. QED  BY <1>1, Safe, PTL

\* A message whose unread total is zero announces a row that its user has
\* dealt with already (Process counts after it persists).
THEOREM BadgeCovers == Spec => []BadgeCoversOwnRow
<1>1. SInv => BadgeCoversOwnRow
  BY DEF SInv, WSOK, BadgeCoversOwnRow
<1>. QED  BY <1>1, Safe, PTL

\* Opting out is respected but for a failed preference lookup, whatever the
\* user changes while the event is handled (filterByPreference).
THEOREM OptOut == Spec => []OptOutRespected
<1>1. SInv => OptOutRespected
  BY DEF SInv, WSOK, PushOK, OptOutRespected
<1>. QED  BY <1>1, Safe, PTL

-----------------------------------------------------------------------------
(***************************************************************************)
(* What every step inside Process does to the handling: the walk goes on   *)
(* within the attempt, or the attempt fails.                               *)
(***************************************************************************)
Storing == {"persist", "count"}

Goes(n, j) ==
  /\ n.env = j.env /\ n.att = j.att /\ n.tries = j.tries
  /\ n.pc \in InProcess \cup {"done"}
  /\ j.pc \notin Storing =>
       n.pc \notin Storing /\ n.stored = j.stored /\ n.counts = j.counts

LEMMA EnterChannelGoes ==
  ASSUME NEW j \in Job, NEW c
  PROVE  Goes(EnterChannel(j, c), j)
<1>. DEFINE d == [j EXCEPT !.pc = "done"]
            f == [j EXCEPT !.pc = "filter", !.chan = c, !.i = 1, !.rcpt = <<>>,
                           !.clock = now]
<1>1. /\ d.env = j.env /\ d.att = j.att /\ d.tries = j.tries /\ d.pc = "done"
      /\ d.stored = j.stored /\ d.counts = j.counts
  BY DEF Job
<1>2. /\ f.env = j.env /\ f.att = j.att /\ f.tries = j.tries /\ f.pc = "filter"
      /\ f.stored = j.stored /\ f.counts = j.counts
  BY DEF Job
<1>. HIDE DEF d, f
<1>3. Goes(d, j) /\ Goes(f, j)
  BY <1>1, <1>2 DEF Goes, InProcess, Storing
<1>. QED  BY <1>3 DEF EnterChannel, d, f

LEMMA AfterPersistGoes ==
  ASSUME NEW j \in Job, j.pc = "persist"
  PROVE  Goes(AfterPersist(j), j)
<1>. DEFINE n == [j EXCEPT !.pc = "count", !.i = 1]
<1>1. n.env = j.env /\ n.att = j.att /\ n.tries = j.tries /\ n.pc = "count"
  BY DEF Job
<1>. HIDE DEF n
<1>2. Goes(n, j) /\ Goes(j, j)
  BY <1>1 DEF Goes, InProcess, Storing
<1>. QED  BY <1>2 DEF AfterPersist, n

LEMMA AfterCountGoes ==
  ASSUME NEW j \in Job, j.pc = "count"
  PROVE  Goes(AfterCount(j), j)
<1>1. Goes(j, j)
  BY DEF Goes, InProcess, Storing
<1>. QED  BY <1>1, EnterChannelGoes DEF AfterCount

LEMMA AfterFilterGoes ==
  ASSUME NEW j \in Job, Arrived(j), j.pc = "filter"
  PROVE  Goes(AfterFilter(j), j)
<1>. DEFINE n(p) == [j EXCEPT !.i = 1, !.tokens = [u \in User |-> {}], !.pc = p]
<1>1. \A p \in {"enrich", "dispatch"} : Goes(n(p), j)
  BY DEF Job, Goes, InProcess, Storing
<1>2. Goes(j, j)
  BY DEF Goes, InProcess, Storing
<1>3. Goes(EnterChannel(j, j.chan + 1), j)
  BY EnterChannelGoes
<1>4. AfterFilter(j) \in {j, EnterChannel(j, j.chan + 1), n("enrich"), n("dispatch")}
  <2>1. CASE j.i <= Len(To(j))
    <3>1. ~(j.i > Len(To(j)))
      BY <2>1, JobFacts DEF Job
    <3>. QED  BY <2>1, <3>1 DEF AfterFilter
  <2>2. CASE ~(j.i <= Len(To(j))) /\ j.i > Len(To(j)) /\ j.rcpt = <<>>
    BY <2>2 DEF AfterFilter
  <2>3. CASE ~(j.i <= Len(To(j))) /\ ~(j.i > Len(To(j)) /\ j.rcpt = <<>>)
    <3>1. AfterFilter(j) = n(IF Chan(j) = ChannelPush THEN "enrich" ELSE "dispatch")
      BY <2>3 DEF AfterFilter
    <3>. QED  BY <3>1
  <2>. QED  BY <2>1, <2>2, <2>3
<1>. QED  BY <1>1, <1>2, <1>3, <1>4

LEMMA AfterEnrichGoes ==
  ASSUME NEW j \in Job, j.pc = "enrich"
  PROVE  Goes(AfterEnrich(j), j)
<1>. DEFINE n == [j EXCEPT !.pc = "dispatch", !.i = 1]
<1>1. /\ n.env = j.env /\ n.att = j.att /\ n.tries = j.tries /\ n.pc = "dispatch"
      /\ n.stored = j.stored /\ n.counts = j.counts
  BY DEF Job
<1>. HIDE DEF n
<1>2. Goes(n, j) /\ Goes(j, j)
  BY <1>1 DEF Goes, InProcess, Storing
<1>. QED  BY <1>2 DEF AfterEnrich, n

LEMMA AfterDispatchGoes ==
  ASSUME NEW j \in Job, j.pc = "dispatch"
  PROVE  Goes(AfterDispatch(j), j)
<1>1. Goes(j, j)
  BY DEF Goes, InProcess, Storing
<1>. QED  BY <1>1, EnterChannelGoes DEF AfterDispatch

-----------------------------------------------------------------------------
\* Each step inside Process, as far as the attempt is concerned.
Processing(e) ==
  \/ Persist(e) \/ Count(e) \/ Filter(e) \/ Enrich(e)
  \/ DispatchInApp(e) \/ DispatchPush(e)

\* The handling of e goes on, or its attempt fails.
Proceeds(e) ==
  \E n : SetJob(e, n) /\ (Goes(n, job[e]) \/ n = FailAttempt(job[e]))

LEMMA PersistProceeds ==
  ASSUME TInv, NEW e \in Event, Persist(e)
  PROVE  Proceeds(e)
<1>. DEFINE j == job[e]
            u == To(j)[j.i]
            w == WithRow(j, u, Len(rows) + 1)
            a == Advance(w)
            b == Advance(j)
<1>1. j \in Job /\ j.pc = "persist" /\ u \in User /\ Len(rows) + 1 \in Nat \ {0}
  <2>1. j \in Job /\ Arrived(j) /\ j.pc = "persist" /\ j.i \in DOMAIN To(j)
        /\ rows \in Seq(Row)
    BY DEF TInv, JobOK, Persist, StateOK
  <2>. QED  BY <2>1, JobFacts
<1>2. w \in Job /\ w.env = j.env /\ w.pc = j.pc /\ w.tries = j.tries /\ w.att = j.att
  <2>. DEFINE id == Len(rows) + 1
  <2>1. id \in Nat \ {0}
    BY <1>1
  <2>. HIDE DEF j, u, id
  <2>2. WithRow(j, u, id) \in Job
    BY <1>1, <2>1, WithRowFacts
  <2>3. LET x == WithRow(j, u, id) IN
        x.env = j.env /\ x.pc = j.pc /\ x.tries = j.tries /\ x.att = j.att
    BY <1>1, <2>1, WithRowFacts, Zenon
  <2>. QED  BY <2>2, <2>3 DEF id, j, u
<1>. HIDE DEF w
<1>3. a \in Job /\ a.env = j.env /\ a.pc = j.pc /\ a.tries = j.tries /\ a.att = j.att
  BY <1>2, AdvanceFacts
<1>4. b \in Job /\ b.env = j.env /\ b.pc = j.pc /\ b.tries = j.tries /\ b.att = j.att
  BY <1>1, AdvanceFacts
<1>. HIDE DEF a, b
<1>5. Goes(AfterPersist(a), a) /\ Goes(AfterPersist(b), b)
  BY <1>1, <1>3, <1>4, AfterPersistGoes
<1>6. Goes(AfterPersist(a), j) /\ Goes(AfterPersist(b), j)
  BY <1>1, <1>3, <1>4, <1>5 DEF Goes, Storing
<1>7. SetJob(e, AfterPersist(a)) \/ SetJob(e, AfterPersist(b))
  BY DEF Persist, a, b, w
<1>. QED  BY <1>6, <1>7 DEF Proceeds

LEMMA CountProceeds ==
  ASSUME TInv, NEW e \in Event, Count(e)
  PROVE  Proceeds(e)
<1>. DEFINE j == job[e]
            u == To(j)[j.i]
            n == CountUnread(u)
            w == WithCount(j, u, n)
            a == Advance(w)
            b == Advance(j)
<1>1. j \in Job /\ j.pc = "count" /\ u \in User /\ n \in Nat
  <2>1. j \in Job /\ Arrived(j) /\ j.pc = "count" /\ j.i \in DOMAIN To(j)
        /\ rows \in Seq(Row)
    BY DEF TInv, JobOK, Count, StateOK
  <2>2. u \in User
    BY <2>1, JobFacts
  <2>. QED  BY <2>1, <2>2, CountUnreadFacts
<1>2. w \in Job /\ w.env = j.env /\ w.pc = j.pc /\ w.tries = j.tries /\ w.att = j.att
  <2>. HIDE DEF j, u, n
  <2>1. WithCount(j, u, n) \in Job
    BY <1>1, WithCountFacts
  <2>2. LET x == WithCount(j, u, n) IN
        x.env = j.env /\ x.pc = j.pc /\ x.tries = j.tries /\ x.att = j.att
    BY <1>1, WithCountFacts, Zenon
  <2>. QED  BY <2>1, <2>2 DEF j, u, n
<1>. HIDE DEF w
<1>3. a \in Job /\ a.env = j.env /\ a.pc = j.pc /\ a.tries = j.tries /\ a.att = j.att
  BY <1>2, AdvanceFacts
<1>4. b \in Job /\ b.env = j.env /\ b.pc = j.pc /\ b.tries = j.tries /\ b.att = j.att
  BY <1>1, AdvanceFacts
<1>. HIDE DEF a, b
<1>5. Goes(AfterCount(a), a) /\ Goes(AfterCount(b), b)
  BY <1>1, <1>3, <1>4, AfterCountGoes
<1>6. Goes(AfterCount(a), j) /\ Goes(AfterCount(b), j)
  BY <1>1, <1>3, <1>4, <1>5 DEF Goes, Storing
<1>7. SetJob(e, AfterCount(a)) \/ SetJob(e, AfterCount(b))
  BY DEF Count, a, b, w, n
<1>. QED  BY <1>6, <1>7 DEF Proceeds

LEMMA FilterProceeds ==
  ASSUME TInv, NEW e \in Event, Filter(e)
  PROVE  Proceeds(e)
<1>. DEFINE j == job[e]
            u == To(j)[j.i]
            Like(x) == /\ x \in Job /\ x.env = j.env /\ x.pc = j.pc
                       /\ x.tries = j.tries /\ x.att = j.att
                       /\ x.stored = j.stored /\ x.counts = j.counts
<1>1. j \in Job /\ Arrived(j) /\ j.pc = "filter" /\ u \in User /\ Chan(j) \in Channel
  <2>1. j \in Job /\ Arrived(j) /\ j.pc = "filter" /\ j.i \in DOMAIN To(j)
        /\ j.chan \in DOMAIN Channels(j)
    BY DEF TInv, JobOK, Filter
  <2>. QED  BY <2>1, JobFacts DEF Chan
<1>2. Like(Keep(j, u)) /\ Like(KeepBlind(j, u)) /\ Like(j)
  <2>1. Like(Keep(j, u))
    BY <1>1, KeepFacts, Zenon
  <2>2. Like(KeepBlind(j, u))
    BY <1>1, KeepBlindFacts, Zenon
  <2>. QED  BY <1>1, <2>1, <2>2
<1>3. ASSUME NEW x, Like(x)  PROVE Goes(AfterFilter(Advance(x)), j)
  <2>. DEFINE b == Advance(x)
  <2>1. Like(b)
    BY <1>3, AdvanceFacts
  <2>. HIDE DEF b
  <2>2. Goes(AfterFilter(b), b)
    BY <1>1, <2>1, AfterFilterGoes DEF Arrived
  <2>3. Goes(AfterFilter(b), j)
    BY <2>1, <2>2 DEF Goes
  <2>. QED  BY <2>3 DEF b
<1>4. \/ SetJob(e, AfterFilter(Advance(Keep(j, u))))
      \/ SetJob(e, AfterFilter(Advance(KeepBlind(j, u))))
      \/ SetJob(e, AfterFilter(Advance(j)))
  BY DEF Filter
<1>. HIDE DEF Like
<1>. QED  BY <1>2, <1>3, <1>4 DEF Proceeds

LEMMA EnrichProceeds ==
  ASSUME TInv, NEW e \in Event, Enrich(e)
  PROVE  Proceeds(e)
<1>. DEFINE j == job[e]
            u == j.rcpt[j.i]
            ts == subs[u]
            Like(x) == /\ x \in Job /\ x.env = j.env /\ x.pc = j.pc
                       /\ x.tries = j.tries /\ x.att = j.att
                       /\ x.stored = j.stored /\ x.counts = j.counts
<1>1. j \in Job /\ j.pc = "enrich" /\ u \in User /\ ts \in SUBSET Token
  <2>1. j \in Job /\ j.pc = "enrich" /\ j.i \in DOMAIN j.rcpt
        /\ subs \in [User -> SUBSET Token]
    BY DEF TInv, JobOK, Enrich, StateOK
  <2>2. j.rcpt \in Seq(User)
    BY <2>1 DEF Job
  <2>. QED  BY <2>1, <2>2
<1>2. Like(WithTokens(j, u, ts)) /\ Like(j)
  <2>1. Like(WithTokens(j, u, ts))
    <3>. HIDE DEF u, ts
    <3>. QED  BY <1>1, WithTokensFacts, Zenon
  <2>. QED  BY <1>1, <2>1
<1>3. ASSUME NEW x, Like(x)  PROVE Goes(AfterEnrich(Advance(x)), j)
  <2>. DEFINE b == Advance(x)
  <2>1. Like(b)
    BY <1>3, AdvanceFacts
  <2>. HIDE DEF b
  <2>2. Goes(AfterEnrich(b), b)
    BY <1>1, <2>1, AfterEnrichGoes
  <2>3. Goes(AfterEnrich(b), j)
    BY <2>1, <2>2 DEF Goes
  <2>. QED  BY <2>3 DEF b
<1>4. \/ SetJob(e, AfterEnrich(Advance(WithTokens(j, u, ts))))
      \/ SetJob(e, AfterEnrich(Advance(j)))
  BY DEF Enrich
<1>. HIDE DEF Like
<1>. QED  BY <1>2, <1>3, <1>4 DEF Proceeds

LEMMA DispatchProceeds ==
  ASSUME TInv, NEW e \in Event, DispatchInApp(e) \/ DispatchPush(e)
  PROVE  Proceeds(e)
<1>. DEFINE j == job[e]
            all == [j EXCEPT !.i = Len(j.rcpt) + 1]
            one == Advance(j)
            Like(x) == /\ x \in Job /\ x.env = j.env /\ x.pc = j.pc
                       /\ x.tries = j.tries /\ x.att = j.att
                       /\ x.stored = j.stored /\ x.counts = j.counts
<1>1. j \in Job /\ j.pc = "dispatch" /\ j.rcpt \in Seq(User)
  BY DispatchFacts DEF DispatchInApp, DispatchPush
<1>2. Like(one) /\ Like(all)
  <2>1. Like(one)
    BY <1>1, AdvanceFacts
  <2>2. Len(j.rcpt) + 1 \in Nat
    BY <1>1
  <2>3. Like(all)
    BY <1>1, <2>2 DEF Job
  <2>. QED  BY <2>1, <2>3
<1>3. ASSUME NEW x, Like(x)  PROVE Goes(AfterDispatch(x), j)
  <2>1. Goes(AfterDispatch(x), x)
    BY <1>1, <1>3, AfterDispatchGoes
  <2>. QED  BY <1>3, <2>1 DEF Goes
<1>4. \/ SetJob(e, AfterDispatch(one)) \/ SetJob(e, AfterDispatch(all))
      \/ SetJob(e, FailAttempt(j))
  BY DEF DispatchInApp, DispatchPush
<1>. HIDE DEF Like
<1>. QED  BY <1>2, <1>3, <1>4 DEF Proceeds

LEMMA ProcessProceeds ==
  ASSUME TInv, NEW e \in Event, Processing(e)
  PROVE  Proceeds(e) /\ job[e].pc \in InProcess /\ UNCHANGED crashes
<1>1. Proceeds(e)
  BY PersistProceeds, CountProceeds, FilterProceeds, EnrichProceeds, DispatchProceeds
     DEF Processing
<1>2. job[e].pc \in InProcess /\ UNCHANGED crashes
  BY DEF Processing, Persist, Count, Filter, Enrich, DispatchInApp, DispatchPush, InProcess
<1>. QED  BY <1>1, <1>2

-----------------------------------------------------------------------------
(***************************************************************************)
(* How often an event is attempted.  As long as nothing crashed, the       *)
(* attempts are the retries and the one in progress.                       *)
(***************************************************************************)
AttOK(j) ==
  /\ j.pc \in {"new", "queued", "retry"} => j.att = j.tries
  /\ j.pc \in InProcess => j.att = j.tries + 1
  /\ j.pc = "dlq" => j.att = RetryCount + 1
  /\ j.att <= j.tries + 1

AInv == TInv /\ (crashes = 0 => \A e \in Event : AttOK(job[e]))

\* A step inside the attempt keeps the count, and a failed attempt ends in the
\* queue for failed events only with no retry left.
LEMMA GoesAtt ==
  ASSUME NEW j \in Job, NEW n, j.pc \in InProcess, AttOK(j), Goes(n, j)
  PROVE  AttOK(n)
<1>1. /\ n.att = j.att /\ n.tries = j.tries /\ n.pc \in InProcess \cup {"done"}
      /\ j.att = j.tries + 1
  BY DEF Goes, AttOK
<1>2. j.tries \in Int
  BY DEF Job
<1>. QED  BY <1>1, <1>2 DEF AttOK, InProcess

LEMMA FailAtt ==
  ASSUME NEW j \in Job, Arrived(j), j.pc \in InProcess, AttOK(j)
  PROVE  AttOK(FailAttempt(j))
<1>. DEFINE r == [j EXCEPT !.pc = "retry", !.tries = @ + 1]
            f == [j EXCEPT !.pc = "failed"]
            d == [j EXCEPT !.pc = "dlq"]
<1>1. j.tries \in 0 .. RetryCount /\ j.att = j.tries + 1 /\ RetryCount \in Nat
  BY IngestAssumption DEF Job, AttOK
<1>2. r.pc = "retry" /\ r.att = j.att /\ r.tries = j.tries + 1
  BY DEF Job
<1>3. f.pc = "failed" /\ f.att = j.att /\ f.tries = j.tries
  BY DEF Job
<1>4. d.pc = "dlq" /\ d.att = j.att /\ d.tries = j.tries
  BY DEF Job
<1>. HIDE DEF r, f, d
<1>5. AttOK(r) /\ AttOK(f)
  BY <1>1, <1>2, <1>3 DEF AttOK, InProcess
<1>6. ~(j.tries < RetryCount) => AttOK(d)
  BY <1>1, <1>4 DEF AttOK, InProcess
<1>7. j.env.via \in {"kafka", "webhook"}
  BY IngestAssumption DEF Arrived, EnvelopeType
<1>8. CASE j.env.via = "webhook"
  BY <1>5, <1>8 DEF FailAttempt, f
<1>9. CASE j.env.via = "kafka" /\ j.tries < RetryCount
  BY <1>5, <1>9 DEF FailAttempt, r
<1>10. CASE j.env.via = "kafka" /\ ~(j.tries < RetryCount)
  BY <1>6, <1>10 DEF FailAttempt, d
<1>. QED  BY <1>7, <1>8, <1>9, <1>10

LEMMA BeginAtt ==
  ASSUME NEW j \in Job, j.pc \in {"queued", "retry"}, AttOK(j)
  PROVE  AttOK(BeginAttempt(j))
<1>. DEFINE fresh == [j EXCEPT !.att = @ + 1, !.i = 1,
                               !.stored = [u \in User |-> Nil],
                               !.counts = [u \in User |-> Nil],
                               !.tokens = [u \in User |-> {}]]
            p == [fresh EXCEPT !.pc = "persist"]
            f == EnterChannel(fresh, 1)
<1>1. fresh \in Job
  <2>1. /\ j.att \in Nat /\ j.att + 1 \in Nat
        /\ [u \in User |-> Nil] \in [User -> (Nat \ {0}) \cup {Nil}]
        /\ [u \in User |-> Nil] \in [User -> Nat \cup {Nil}]
        /\ [u \in User |-> {}] \in [User -> SUBSET Token]
    BY DEF Job
  <2>. QED  BY <2>1 DEF Job
<1>2. fresh.att = j.att + 1 /\ fresh.tries = j.tries /\ j.tries \in Int /\ j.att = j.tries
  BY DEF Job, AttOK
<1>3. p.att = j.att + 1 /\ p.tries = j.tries /\ p.pc = "persist"
  BY <1>1, <1>2 DEF Job
<1>4. Goes(f, fresh)
  BY <1>1, EnterChannelGoes
<1>. HIDE DEF fresh, p, f
<1>5. AttOK(p)
  BY <1>2, <1>3 DEF AttOK, InProcess
<1>6. AttOK(f)
  BY <1>2, <1>4 DEF AttOK, Goes, InProcess
<1>. QED  BY <1>5, <1>6 DEF BeginAttempt, fresh, p, f

LEMMA HandleAtt ==
  ASSUME TInv, NEW e \in Event, Handle(e), AttOK(job[e])
  PROVE  \E n : SetJob(e, n) /\ AttOK(n)
<1>. DEFINE j == job[e]
            n(p) == [j EXCEPT !.pc = p]
<1>1. j \in Job /\ j.pc \in {"queued", "retry"}
  BY DEF Handle, TInv
<1>2. \A p \in {"done", "rejected"} : AttOK(n(p))
  <2>1. \A p \in {"done", "rejected"} : n(p).pc = p /\ n(p).att = j.att /\ n(p).tries = j.tries
    BY <1>1 DEF Job
  <2>2. j.att \in Int /\ j.tries \in Int /\ j.att <= j.tries + 1
    BY <1>1 DEF Job, AttOK
  <2>. HIDE DEF n
  <2>. QED  BY <2>1, <2>2 DEF AttOK, InProcess
<1>3. CASE ~Validate(j.env)
  <2>1. SetJob(e, n(IF j.env.via = "kafka" THEN "done" ELSE "rejected"))
    BY <1>3 DEF Handle
  <2>. QED  BY <2>1, <1>2
<1>4. CASE Validate(j.env) /\ To(j) = <<>>
  <2>1. SetJob(e, n("done"))
    BY <1>4 DEF Handle
  <2>. QED  BY <2>1, <1>2
<1>5. CASE Validate(j.env) /\ To(j) # <<>>
  <2>1. SetJob(e, BeginAttempt(j))
    BY <1>5 DEF Handle
  <2>. QED  BY <2>1, <1>1, BeginAtt
<1>. QED  BY <1>3, <1>4, <1>5

LEMMA NextAtt ==
  ASSUME AInv, TInv', [Next]_vars
  PROVE  AInv'
<1>. SUFFICES ASSUME crashes' = 0  PROVE \A x \in Event : AttOK(job'[x])
  BY DEF AInv
<1>1. ASSUME NEW e \in Event, crashes = 0, \E n : SetJob(e, n) /\ AttOK(n)
      PROVE  \A x \in Event : AttOK(job'[x])
  BY <1>1 DEF SetJob, AInv, TInv
<1>2. ASSUME NEW e \in Event, Arrive(e)  PROVE \A x \in Event : AttOK(job'[x])
  <2>1. PICK v \in Envelope : SetJob(e, [job[e] EXCEPT !.env = v, !.pc = "queued"])
    BY <1>2, Zenon DEF Arrive
  <2>. DEFINE n == [job[e] EXCEPT !.env = v, !.pc = "queued"]
  <2>2. crashes = 0 /\ job[e] \in Job /\ job[e].pc = "new" /\ AttOK(job[e])
    BY <1>2 DEF Arrive, AInv, TInv
  <2>3. n.pc = "queued" /\ n.att = job[e].att /\ n.tries = job[e].tries
    BY <2>2 DEF Job
  <2>. HIDE DEF n
  <2>4. AttOK(n)
    BY <2>2, <2>3 DEF AttOK, InProcess
  <2>. QED  BY <1>1, <2>1, <2>2, <2>4 DEF n
<1>3. ASSUME NEW e \in Event, Handle(e)  PROVE \A x \in Event : AttOK(job'[x])
  <2>1. crashes = 0 /\ AttOK(job[e]) /\ TInv
    BY <1>3 DEF Handle, AInv
  <2>. QED  BY <1>1, <1>3, <2>1, HandleAtt
<1>4. ASSUME NEW e \in Event, Processing(e)  PROVE \A x \in Event : AttOK(job'[x])
  <2>1. TInv /\ Proceeds(e) /\ job[e].pc \in InProcess /\ crashes = 0
    BY <1>4, ProcessProceeds DEF AInv
  <2>2. job[e] \in Job /\ Arrived(job[e]) /\ AttOK(job[e])
    BY <2>1 DEF AInv, TInv, JobOK, InProcess
  <2>3. PICK n : SetJob(e, n) /\ (Goes(n, job[e]) \/ n = FailAttempt(job[e]))
    BY <2>1 DEF Proceeds
  <2>4. AttOK(n)
    BY <2>1, <2>2, <2>3, GoesAtt, FailAtt
  <2>. QED  BY <1>1, <2>1, <2>3, <2>4
<1>5. ASSUME NEW e \in Event, Crash(e)  PROVE FALSE
  BY <1>5 DEF Crash, AInv, TInv, StateOK
<1>6. CASE Meanwhile \/ UNCHANGED vars
  <2>1. UNCHANGED <<job, crashes>>
    BY <1>6 DEF Meanwhile, Prefer, Register, Read, Delete, Tick, vars
  <2>. QED  BY <2>1 DEF AInv
<1>. QED  BY <1>2, <1>3, <1>4, <1>5, <1>6 DEF Next, Step, Processing

\* Without a crash an event is attempted at most RetryCount + 1 times, and
\* exactly that often when it is dead-lettered, at whichever recipient and
\* channel its attempts fail (buildNotificationConsumer).
THEOREM Attempts == Spec => []AttemptsBounded
<1>1. Init => AInv
  <2>. SUFFICES ASSUME Init  PROVE AInv
    OBVIOUS
  <2>1. TInv
    BY InitOK
  <2>2. NewJob.pc = "new" /\ NewJob.att = 0 /\ NewJob.tries = 0
    BY DEF NewJob
  <2>3. AttOK(NewJob)
    BY <2>2 DEF AttOK, InProcess
  <2>. QED  BY <2>1, <2>3 DEF AInv, Init
<1>2. AInv /\ [Next]_vars => AInv'
  BY NextOK, NextAtt DEF AInv
<1>3. AInv => AttemptsBounded
  <2>. SUFFICES ASSUME AInv, NEW e \in Event, crashes = 0
                PROVE  /\ job[e].att <= RetryCount + 1
                       /\ job[e].pc = "dlq" => job[e].att = RetryCount + 1
    BY DEF AttemptsBounded
  <2>1. AttOK(job[e]) /\ job[e] \in Job
    BY DEF AInv, TInv
  <2>2. job[e].tries \in 0 .. RetryCount /\ job[e].att \in Nat /\ RetryCount \in Nat
    BY <2>1, IngestAssumption DEF Job
  <2>. QED  BY <2>1, <2>2 DEF AttOK
<1>. QED  BY <1>1, <1>2, <1>3, PTL DEF Spec
-----------------------------------------------------------------------------
(***************************************************************************)
(* Live statuses.  A handling of one never reaches persist or count, and   *)
(* remembers no row and no total.                                          *)
(***************************************************************************)
NoTrace(j) ==
  IsTransient(Ident(j)) /\ j.pc \in InProcess =>
    /\ j.pc \notin Storing
    /\ \A u \in User : j.stored[u] = Nil /\ j.counts[u] = Nil

\* What the handlings js say of the row and of the message of an event.
RowTraced(r, js) == js[r.ev].pc # "new" /\ ~IsTransient(Ident(js[r.ev]))

WSTraced(m, js) ==
  /\ js[m.ev].pc # "new"
  /\ IsTransient(Ident(js[m.ev])) => m.id = Nil /\ m.count = Nil

LInv ==
  /\ TInv
  /\ \A e \in Event : NoTrace(job[e])
  /\ \A k \in DOMAIN rows : RowTraced(rows[k], job)
  /\ \A k \in DOMAIN ws : WSTraced(ws[k], job)

\* A step that replaces the handling of e by n and adds at most one row and
\* one message keeps the invariant.
LEMMA StepTrace ==
  ASSUME LInv, TInv', NEW e \in Event, NEW n, SetJob(e, n), NoTrace(n), n.pc # "new",
         job[e].pc # "new" => n.env = job[e].env,
         \/ rows' = rows
         \/ \E r \in Row : rows' = Append(rows, r) /\ RowTraced(r, job'),
         \/ ws' = ws
         \/ \E m \in WSMessage : ws' = Append(ws, m) /\ WSTraced(m, job')
  PROVE  LInv'
<1>1. job'[e] = n /\ \A x \in Event \ {e} : job'[x] = job[x]
  BY DEF SetJob, LInv, TInv
<1>2. \A x \in Event : job[x].pc # "new" =>
        job'[x].pc # "new" /\ Ident(job'[x]) = Ident(job[x])
  BY <1>1 DEF Ident
<1>3. rows \in Seq(Row) /\ ws \in Seq(WSMessage)
  BY DEF LInv, TInv, StateOK
<1>4. \A k \in DOMAIN rows : RowTraced(rows[k], job')
  <2>1. \A k \in DOMAIN rows : rows[k].ev \in Event
    <3>1. \A k \in DOMAIN rows : rows[k] \in Row
      BY <1>3
    <3>. QED  BY <3>1 DEF Row
  <2>. QED  BY <1>2, <2>1 DEF LInv, RowTraced
<1>5. \A k \in DOMAIN ws : WSTraced(ws[k], job')
  <2>1. \A k \in DOMAIN ws : ws[k].ev \in Event
    <3>1. \A k \in DOMAIN ws : ws[k] \in WSMessage
      BY <1>3
    <3>. QED  BY <3>1 DEF WSMessage
  <2>. QED  BY <1>2, <2>1 DEF LInv, WSTraced
<1>6. \A k \in DOMAIN rows' : RowTraced(rows'[k], job')
  <2>1. ASSUME NEW r \in Row, rows' = Append(rows, r), RowTraced(r, job')
        PROVE  \A k \in DOMAIN rows' : RowTraced(rows'[k], job')
    <3>1. \A k \in DOMAIN rows' : (k \in DOMAIN rows /\ rows'[k] = rows[k]) \/ rows'[k] = r
      BY <1>3, <2>1
    <3>. QED  BY <1>4, <2>1, <3>1
  <2>. QED  BY <1>4, <2>1
<1>7. \A k \in DOMAIN ws' : WSTraced(ws'[k], job')
  <2>1. ASSUME NEW m \in WSMessage, ws' = Append(ws, m), WSTraced(m, job')
        PROVE  \A k \in DOMAIN ws' : WSTraced(ws'[k], job')
    <3>1. \A k \in DOMAIN ws' : (k \in DOMAIN ws /\ ws'[k] = ws[k]) \/ ws'[k] = m
      BY <1>3, <2>1
    <3>. QED  BY <1>5, <2>1, <3>1
  <2>. QED  BY <1>5, <2>1
<1>8. \A x \in Event : NoTrace(job'[x])
  BY <1>1 DEF LInv
<1>. QED  BY <1>6, <1>7, <1>8 DEF LInv

\* An attempt at a live status starts at its channels, with nothing stored.
LEMMA BeginTrace ==
  ASSUME NEW j \in Job
  PROVE  /\ NoTrace(BeginAttempt(j)) /\ BeginAttempt(j).env = j.env
         /\ BeginAttempt(j).pc # "new"
<1>. DEFINE fresh == [j EXCEPT !.att = @ + 1, !.i = 1,
                               !.stored = [u \in User |-> Nil],
                               !.counts = [u \in User |-> Nil],
                               !.tokens = [u \in User |-> {}]]
            p == [fresh EXCEPT !.pc = "persist"]
            d == [fresh EXCEPT !.pc = "done"]
            f == [fresh EXCEPT !.pc = "filter", !.chan = 1, !.i = 1, !.rcpt = <<>>,
                               !.clock = now]
<1>1. p.env = j.env /\ p.pc = "persist"
  BY DEF Job
<1>2. d.env = j.env /\ d.pc = "done"
  BY DEF Job
<1>3. /\ f.env = j.env /\ f.pc = "filter"
      /\ f.stored = [u \in User |-> Nil] /\ f.counts = [u \in User |-> Nil]
  BY DEF Job
<1>4. BeginAttempt(j) = IF IsTransient(Ident(j)) THEN EnterChannel(fresh, 1) ELSE p
  BY DEF BeginAttempt
<1>5. EnterChannel(fresh, 1) \in {d, f}
  BY DEF EnterChannel
<1>. HIDE DEF fresh, p, d, f
<1>6. ~IsTransient(Ident(j)) => NoTrace(p)
  BY <1>1 DEF NoTrace, Ident
<1>7. NoTrace(d) /\ NoTrace(f)
  BY <1>2, <1>3 DEF NoTrace, InProcess, Storing
<1>. QED  BY <1>1, <1>2, <1>3, <1>4, <1>5, <1>6, <1>7

LEMMA HandleTrace ==
  ASSUME LInv, TInv', NEW e \in Event, Handle(e)
  PROVE  LInv'
<1>. DEFINE j == job[e]
            n(p) == [j EXCEPT !.pc = p]
<1>1. j \in Job /\ UNCHANGED <<rows, ws>>
  BY DEF Handle, LInv, TInv
<1>2. \A p \in {"done", "rejected"} : n(p).pc # "new" /\ n(p).env = j.env /\ NoTrace(n(p))
  <2>1. \A p \in {"done", "rejected"} : n(p).pc = p /\ n(p).env = j.env
    BY <1>1 DEF Job
  <2>. HIDE DEF n
  <2>. QED  BY <2>1 DEF NoTrace, InProcess
<1>3. CASE ~Validate(j.env)
  <2>1. SetJob(e, n(IF j.env.via = "kafka" THEN "done" ELSE "rejected"))
    BY <1>3 DEF Handle
  <2>. HIDE DEF n
  <2>. QED  BY <1>1, <1>2, <2>1, StepTrace
<1>4. CASE Validate(j.env) /\ To(j) = <<>>
  <2>1. SetJob(e, n("done"))
    BY <1>4 DEF Handle
  <2>. HIDE DEF n
  <2>. QED  BY <1>1, <1>2, <2>1, StepTrace
<1>5. CASE Validate(j.env) /\ To(j) # <<>>
  <2>1. SetJob(e, BeginAttempt(j))
    BY <1>5 DEF Handle
  <2>. QED  BY <1>1, <2>1, BeginTrace, StepTrace
<1>. QED  BY <1>3, <1>4, <1>5

LEMMA ProcessingTrace ==
  ASSUME LInv, TInv', NEW e \in Event, Processing(e)
  PROVE  LInv'
<1>. DEFINE j == job[e]
<1>1. j \in Job /\ NoTrace(j) /\ rows \in Seq(Row)
  BY DEF LInv, TInv, StateOK
<1>2. j.pc \in InProcess
  BY ProcessProceeds DEF LInv
<1>3. PICK n : SetJob(e, n) /\ (Goes(n, j) \/ n = FailAttempt(j))
  BY ProcessProceeds DEF LInv, Proceeds
<1>4. n.env = j.env /\ n.pc # "new" /\ NoTrace(n)
  <2>1. CASE Goes(n, j)
    <3>1. n.env = j.env /\ n.pc # "new" /\ Ident(n) = Ident(j)
      BY <2>1 DEF Goes, InProcess, Ident
    <3>. QED  BY <1>1, <1>2, <2>1, <3>1 DEF Goes, NoTrace
  <2>2. CASE n = FailAttempt(j)
    <3>1. n.env = j.env /\ n.pc \in {"failed", "retry", "dlq"}
      BY <1>1, <2>2 DEF FailAttempt, Job
    <3>. QED  BY <3>1 DEF NoTrace, InProcess
  <2>. QED  BY <1>3, <2>1, <2>2
<1>5. job'[e] = n /\ Ident(n) = Ident(j)
  BY <1>3, <1>4 DEF SetJob, LInv, TInv, Ident
<1>6. CASE Persist(e)
  <2>. DEFINE r == [user |-> To(j)[j.i], ev |-> e, att |-> j.att, st |-> "unread"]
  <2>1. rows' \in {rows, Append(rows, r)} /\ ws' = ws /\ j.pc = "persist"
    BY <1>6 DEF Persist
  <2>2. r \in Row
    <3>1. To(j)[j.i] \in User
      BY <2>1, JobFacts DEF LInv, TInv, JobOK, InProcess
    <3>. QED  BY <1>1, <3>1 DEF Row, Job
  <2>3. RowTraced(r, job')
    <3>1. ~IsTransient(Ident(j))
      BY <1>1, <1>2, <2>1 DEF NoTrace, Storing
    <3>. QED  BY <1>4, <1>5, <3>1 DEF RowTraced
  <2>. HIDE DEF r
  <2>. QED  BY <1>3, <1>4, <2>1, <2>2, <2>3, StepTrace
<1>7. CASE DispatchInApp(e)
  <2>. DEFINE u == j.rcpt[j.i]
              m == IF IsShared(j.env) THEN Broadcast(j, e) ELSE WSMessageTo(j, e, u)
  <2>1. ws' \in {ws, Append(ws, m)} /\ rows' = rows /\ j.pc = "dispatch"
    BY <1>7 DEF DispatchInApp
  <2>2. u \in User
    BY <2>1, DispatchFacts DEF LInv
  <2>3. m \in WSMessage /\ m.ev = e
    <3>1. j.att \in Nat /\ j.stored[u] \in (Nat \ {0}) \cup {Nil} /\ j.counts[u] \in Nat \cup {Nil}
      BY <1>1, <2>2 DEF Job
    <3>. QED  BY <2>2, <3>1 DEF WSMessage, Broadcast, WSMessageTo
  <2>4. IsTransient(Ident(j)) => m.id = Nil /\ m.count = Nil
    <3>1. IsTransient(Ident(j)) => j.stored[u] = Nil /\ j.counts[u] = Nil
      BY <1>1, <1>2, <2>2 DEF NoTrace
    <3>. QED  BY <3>1 DEF Broadcast, WSMessageTo
  <2>. HIDE DEF m
  <2>5. WSTraced(m, job')
    BY <1>4, <1>5, <2>3, <2>4 DEF WSTraced
  <2>. QED  BY <1>3, <1>4, <2>1, <2>3, <2>5, StepTrace
<1>8. CASE Count(e) \/ Filter(e) \/ Enrich(e) \/ DispatchPush(e)
  <2>1. UNCHANGED <<rows, ws>>
    BY <1>8, Zenon DEF Count, Filter, Enrich, DispatchPush
  <2>. QED  BY <1>3, <1>4, <2>1, StepTrace
<1>. QED  BY <1>6, <1>7, <1>8 DEF Processing

LEMMA NextTrace ==
  ASSUME LInv, TInv', [Next]_vars
  PROVE  LInv'
<1>1. ASSUME NEW e \in Event, Arrive(e)  PROVE LInv'
  <2>1. PICK v \in Envelope : SetJob(e, [job[e] EXCEPT !.env = v, !.pc = "queued"])
    BY <1>1, Zenon DEF Arrive
  <2>. DEFINE n == [job[e] EXCEPT !.env = v, !.pc = "queued"]
  <2>2. job[e] \in Job /\ job[e].pc = "new" /\ UNCHANGED <<rows, ws>>
    BY <1>1 DEF Arrive, LInv, TInv
  <2>3. n.pc = "queued"
    BY <2>2 DEF Job
  <2>. HIDE DEF n
  <2>4. NoTrace(n)
    BY <2>3 DEF NoTrace, InProcess
  <2>. QED  BY <2>1, <2>2, <2>3, <2>4, StepTrace DEF n
<1>2. ASSUME NEW e \in Event, Crash(e)  PROVE LInv'
  <2>. DEFINE j == job[e]
              a == [j EXCEPT !.pc = "queued", !.tries = 0]
              b == [j EXCEPT !.pc = "lost"]
  <2>1. j \in Job /\ UNCHANGED <<rows, ws>>
    BY <1>2 DEF Crash, LInv, TInv
  <2>2. a.env = j.env /\ a.pc = "queued" /\ b.env = j.env /\ b.pc = "lost"
    BY <2>1 DEF Job
  <2>3. SetJob(e, a) \/ SetJob(e, b)
    BY <1>2 DEF Crash
  <2>. HIDE DEF a, b
  <2>4. NoTrace(a) /\ NoTrace(b)
    BY <2>2 DEF NoTrace, InProcess
  <2>. QED  BY <2>1, <2>2, <2>3, <2>4, StepTrace
<1>3. CASE Meanwhile \/ UNCHANGED vars
  <2>1. UNCHANGED <<job, ws>>
    BY <1>3 DEF Meanwhile, Prefer, Register, Read, Delete, Tick, vars
  <2>2. \A k \in DOMAIN rows' : k \in DOMAIN rows /\ rows'[k].ev = rows[k].ev
    <3>1. rows \in Seq(Row) /\ \A k \in DOMAIN rows : rows[k] \in Row
      BY DEF LInv, TInv, StateOK
    <3>2. \/ rows' = rows
          \/ \E k \in DOMAIN rows, st \in {"read", "deleted"} :
                rows' = [rows EXCEPT ![k].st = st]
      BY <1>3 DEF Meanwhile, Prefer, Register, Read, Delete, Tick, vars
    <3>3. ASSUME NEW k \in DOMAIN rows, NEW st, rows' = [rows EXCEPT ![k].st = st]
          PROVE  \A x \in DOMAIN rows' : x \in DOMAIN rows /\ rows'[x].ev = rows[x].ev
      BY <3>1, <3>3 DEF Row
    <3>. QED  BY <3>2, <3>3
  <2>. QED  BY <2>1, <2>2 DEF LInv, RowTraced
<1>. QED  BY <1>1, <1>2, <1>3, HandleTrace, ProcessingTrace DEF Next, Step, Processing

\* A live status is never stored and its messages carry neither id nor unread
\* total, on every path through retries, crashes and failed calls (Process).
THEOREM LiveStatuses == Spec => []TransientLeavesNoTrace
<1>1. Init => LInv
  <2>. SUFFICES ASSUME Init  PROVE LInv
    OBVIOUS
  <2>1. NoTrace(NewJob)
    BY DEF NoTrace, NewJob, InProcess
  <2>. QED  BY <2>1, InitOK DEF LInv, Init
<1>2. LInv /\ [Next]_vars => LInv'
  BY NextOK, NextTrace DEF LInv
<1>3. LInv => TransientLeavesNoTrace
  BY DEF LInv, RowTraced, WSTraced, TransientLeavesNoTrace
<1>. QED  BY <1>1, <1>2, <1>3, PTL DEF Spec
-----------------------------------------------------------------------------
(***************************************************************************)
(* Nobody is lost.  The walk of Process keeps every recipient who takes    *)
(* the channel and serves the kept ones in order, so that what lies behind *)
(* it has been queued.                                                     *)
(***************************************************************************)
Told(e, a, v, u, w) ==
  \E l \in DOMAIN w :
    w[l].ev = e /\ w[l].att = a /\ w[l].room = IF IsShared(v) THEN Shared ELSE u

Pushed(e, a, u, p) ==
  \E l \in DOMAIN p : p[l].ev = e /\ p[l].att = a /\ p[l].user = u

\* u has been sent the event on channel c by the attempt j is in, w and p
\* being the two lists.
Reached(j, e, c, u, w, p) ==
  /\ c = ChannelInApp => Told(e, j.att, j.env, u, w)
  /\ c = ChannelPush /\ j.tokens[u] # {} => Pushed(e, j.att, u, p)

Takes(j, u, c) == InSeq(u, To(j)) /\ Always(u, Ident(j), c)

\* The channels before the d-th are done with.
Served(j, e, d, w, p) ==
  \A c \in DOMAIN Channels(j) : c < d =>
    \A u \in User : Takes(j, u, Channels(j)[c]) => Reached(j, e, Channels(j)[c], u, w, p)

Walk(j, e, w, p) ==
  /\ j.pc = "filter" =>
       \A k \in DOMAIN To(j) :
         k < j.i /\ Always(To(j)[k], Ident(j), Chan(j)) => InSeq(To(j)[k], j.rcpt)
  /\ j.pc \in {"enrich", "dispatch"} =>
       \A u \in User : Takes(j, u, Chan(j)) => InSeq(u, j.rcpt)
  /\ j.pc = "enrich" => Chan(j) = ChannelPush
  /\ j.pc = "dispatch" =>
       \A k \in DOMAIN j.rcpt : k < j.i => Reached(j, e, Chan(j), j.rcpt[k], w, p)
  /\ j.pc \in {"filter", "enrich", "dispatch"} => Served(j, e, j.chan, w, p)
  /\ j.pc = "done" /\ Validate(j.env) => Served(j, e, Len(Channels(j)) + 1, w, p)

\* A push follows the in-app messages of its attempt.
PushFollows(m, js, w) ==
  /\ js[m.ev].pc # "new"
  /\ InSeq(ChannelInApp, Channels(js[m.ev])) =>
       \A u \in User : Takes(js[m.ev], u, ChannelInApp) =>
         Told(m.ev, m.att, js[m.ev].env, u, w)

WInv ==
  /\ TInv
  /\ \A e \in Event : Walk(job[e], e, ws, pushq)
  /\ \A k \in DOMAIN pushq : PushFollows(pushq[k], job, ws)

\* No channel comes twice, and push comes last.
LEMMA ChannelOrder ==
  ASSUME NEW x
  PROVE  \A c, d \in DOMAIN IdentityChannels(x) :
           /\ IdentityChannels(x)[c] = IdentityChannels(x)[d] => c = d
           /\ IdentityChannels(x)[c] = ChannelInApp /\ IdentityChannels(x)[d] = ChannelPush
              => c < d
<1>1. IdentityChannels(x) \in
        {<<>>, <<ChannelInApp>>, <<ChannelPush>>, <<ChannelInApp, ChannelPush>>}
  <2>1. CASE x \in TransientIdentities
    BY <2>1 DEF IdentityChannels, TransientIdentities, AllIdentities, LingocastIdentities
  <2>2. CASE x \notin AllIdentities
    BY <2>2 DEF IdentityChannels, TransientIdentities, AllIdentities, LingocastIdentities
  <2>3. CASE x = "streak_at_risk"
    BY <2>3 DEF IdentityChannels, TransientIdentities, AllIdentities, LingocastIdentities
  <2>4. CASE x \in AllIdentities /\ x \notin TransientIdentities /\ x # "streak_at_risk"
    BY <2>4 DEF IdentityChannels
  <2>. QED  BY <2>1, <2>2, <2>3, <2>4
<1>2. ChannelInApp # ChannelPush
  BY DEF ChannelInApp, ChannelPush
<1>. DEFINE s == IdentityChannels(x)
<1>. HIDE DEF s
<1>3. CASE s = <<>>
  BY <1>3 DEF s
<1>4. CASE s = <<ChannelInApp>>
  BY <1>2, <1>4 DEF s
<1>5. CASE s = <<ChannelPush>>
  BY <1>2, <1>5 DEF s
<1>6. CASE s = <<ChannelInApp, ChannelPush>>
  <2>1. DOMAIN s = {1, 2} /\ s[1] = ChannelInApp /\ s[2] = ChannelPush
    BY <1>6
  <2>. QED  BY <1>2, <2>1 DEF s
<1>. QED  BY <1>1, <1>3, <1>4, <1>5, <1>6 DEF s

\* The lists only grow at their end.
Grown(s, t) == \A l \in DOMAIN s : l \in DOMAIN t /\ t[l] = s[l]

LEMMA GrownBy ==
  ASSUME NEW S, NEW s \in Seq(S), NEW t, t = s \/ \E m \in S : t = Append(s, m)
  PROVE  Grown(s, t)
BY DEF Grown

LEMMA ReachedKept ==
  ASSUME NEW j, NEW n, NEW e, NEW c, NEW u, NEW w, NEW p, NEW w2, NEW p2,
         Reached(j, e, c, u, w, p), n.env = j.env, n.att = j.att,
         c = ChannelPush => n.tokens[u] \in {j.tokens[u], {}},
         Grown(w, w2), Grown(p, p2)
  PROVE  Reached(n, e, c, u, w2, p2)
<1>1. c = ChannelInApp => Told(e, n.att, n.env, u, w2)
  BY DEF Reached, Told, Grown
<1>2. c = ChannelPush /\ n.tokens[u] # {} => Pushed(e, n.att, u, p2)
  BY DEF Reached, Pushed, Grown
<1>. QED  BY <1>1, <1>2 DEF Reached

LEMMA ServedKept ==
  ASSUME NEW j, NEW n, NEW e, NEW d, NEW w, NEW p, NEW w2, NEW p2,
         Served(j, e, d, w, p), n.env = j.env, n.att = j.att,
         \A u \in User : n.tokens[u] \in {j.tokens[u], {}},
         Grown(w, w2), Grown(p, p2)
  PROVE  Served(n, e, d, w2, p2)
<1>1. Channels(n) = Channels(j) /\ \A u, c : Takes(n, u, c) <=> Takes(j, u, c)
  BY DEF Channels, Takes, To, Ident
<1>. SUFFICES ASSUME NEW c \in DOMAIN Channels(j), c < d, NEW u \in User,
                     Takes(j, u, Channels(j)[c])
              PROVE  Reached(n, e, Channels(j)[c], u, w2, p2)
  BY <1>1 DEF Served
<1>2. Reached(j, e, Channels(j)[c], u, w, p)
  BY DEF Served
<1>. QED  BY <1>2, ReachedKept

LEMMA GrownItself == \A s : Grown(s, s)
BY DEF Grown

LEMMA WalkKept ==
  ASSUME NEW j, NEW e, NEW w, NEW p, NEW w2, NEW p2, Walk(j, e, w, p),
         Grown(w, w2), Grown(p, p2)
  PROVE  Walk(j, e, w2, p2)
<1>1. \A d : Served(j, e, d, w, p) => Served(j, e, d, w2, p2)
  BY ServedKept
<1>2. \A c, u : Reached(j, e, c, u, w, p) => Reached(j, e, c, u, w2, p2)
  BY ReachedKept
<1>. QED  BY <1>1, <1>2 DEF Walk

\* Entering a channel, or ending with the last.
LEMMA EnterChannelWalk ==
  ASSUME NEW j \in Job, Arrived(j), NEW e, NEW c \in Nat \ {0}, NEW w, NEW p,
         Served(j, e, c, w, p)
  PROVE  Walk(EnterChannel(j, c), e, w, p)
<1>. DEFINE d == [j EXCEPT !.pc = "done"]
            f == [j EXCEPT !.pc = "filter", !.chan = c, !.i = 1, !.rcpt = <<>>,
                           !.clock = now]
<1>1. Channels(j) \in Seq(Channel) /\ To(j) \in Seq(User)
  BY JobFacts
<1>2. d.env = j.env /\ d.att = j.att /\ d.tokens = j.tokens /\ d.pc = "done"
  BY DEF Job
<1>3. /\ f.env = j.env /\ f.att = j.att /\ f.tokens = j.tokens /\ f.pc = "filter"
      /\ f.chan = c /\ f.i = 1
  BY DEF Job
<1>. HIDE DEF d, f
<1>4. c > Len(Channels(j)) => Walk(d, e, w, p)
  <2>. SUFFICES ASSUME c > Len(Channels(j))
                PROVE  Served(d, e, Len(Channels(d)) + 1, w, p)
    BY <1>2 DEF Walk
  <2>1. Served(j, e, Len(Channels(j)) + 1, w, p)
    BY <1>1 DEF Served
  <2>2. Channels(d) = Channels(j)
    BY <1>2 DEF Channels, Ident
  <2>. QED  BY <1>2, <2>1, <2>2, ServedKept, GrownItself
<1>5. Walk(f, e, w, p)
  <2>1. Served(f, e, c, w, p)
    BY <1>3, ServedKept, GrownItself
  <2>2. \A k \in DOMAIN To(f) : ~(k < f.i)
    BY <1>1, <1>3 DEF To
  <2>. QED  BY <1>3, <2>1, <2>2 DEF Walk
<1>. QED  BY <1>4, <1>5 DEF EnterChannel, d, f

\* The recipients of the channel are all filtered: whoever takes it is kept.
LEMMA AfterFilterWalk ==
  ASSUME NEW j \in Job, Arrived(j), j.pc = "filter", NEW e, NEW w, NEW p,
         j.chan \in DOMAIN Channels(j), Walk(j, e, w, p)
  PROVE  Walk(AfterFilter(j), e, w, p)
<1>. DEFINE n(x) == [j EXCEPT !.i = 1, !.tokens = [u \in User |-> {}], !.pc = x]
<1>1. To(j) \in Seq(User) /\ Channels(j) \in Seq(Channel) /\ j.i \in Nat
  BY JobFacts DEF Job
<1>2. Chan(j) \in Channel
  BY JobFacts DEF Chan
<1>3. Served(j, e, j.chan, w, p)
  BY DEF Walk
<1>4. ~(j.i <= Len(To(j))) => \A u \in User : Takes(j, u, Chan(j)) => InSeq(u, j.rcpt)
  <2>. SUFFICES ASSUME ~(j.i <= Len(To(j))), NEW u \in User, Takes(j, u, Chan(j))
                PROVE  InSeq(u, j.rcpt)
    OBVIOUS
  <2>1. PICK k \in DOMAIN To(j) : To(j)[k] = u
    BY DEF Takes, InSeq
  <2>2. k < j.i
    BY <1>1, <2>1
  <2>. QED  BY <2>1, <2>2 DEF Walk, Takes
<1>5. CASE j.i <= Len(To(j))
  <2>1. ~(j.i > Len(To(j)))
    BY <1>1, <1>5
  <2>. QED  BY <1>5, <2>1 DEF AfterFilter
<1>6. CASE ~(j.i <= Len(To(j))) /\ j.i > Len(To(j)) /\ j.rcpt = <<>>
  <2>1. \A u \in User : ~InSeq(u, j.rcpt)
    BY <1>6 DEF InSeq
  <2>2. Served(j, e, j.chan + 1, w, p)
    <3>. SUFFICES ASSUME NEW c \in DOMAIN Channels(j), c < j.chan + 1, NEW u \in User,
                         Takes(j, u, Channels(j)[c])
                  PROVE  Reached(j, e, Channels(j)[c], u, w, p)
      BY DEF Served
    <3>1. CASE c = j.chan
      BY <1>4, <1>6, <2>1, <3>1 DEF Chan
    <3>2. CASE c # j.chan
      <4>1. c < j.chan
        BY <1>1, <3>2
      <4>. QED  BY <1>3, <4>1 DEF Served
    <3>. QED  BY <3>1, <3>2
  <2>3. j.chan + 1 \in Nat \ {0}
    BY <1>1
  <2>4. AfterFilter(j) = EnterChannel(j, j.chan + 1)
    BY <1>6 DEF AfterFilter
  <2>. QED  BY <2>2, <2>3, <2>4, EnterChannelWalk
<1>7. CASE ~(j.i <= Len(To(j))) /\ ~(j.i > Len(To(j)) /\ j.rcpt = <<>>)
  <2>. DEFINE x == IF Chan(j) = ChannelPush THEN "enrich" ELSE "dispatch"
              m == n(x)
  <2>1. AfterFilter(j) = m
    BY <1>7 DEF AfterFilter
  <2>2. /\ m.env = j.env /\ m.att = j.att /\ m.pc = x /\ m.i = 1
        /\ m.chan = j.chan /\ m.rcpt = j.rcpt /\ m.tokens = [u \in User |-> {}]
    BY DEF Job
  <2>3. x \in {"enrich", "dispatch"} /\ (x = "enrich" => Chan(j) = ChannelPush)
    OBVIOUS
  <2>. HIDE DEF m, x
  <2>4. Chan(m) = Chan(j) /\ \A u, c : Takes(m, u, c) <=> Takes(j, u, c)
    BY <2>2 DEF Chan, Channels, Takes, To, Ident
  <2>5. Served(m, e, m.chan, w, p)
    BY <1>3, <2>2, ServedKept, GrownItself
  <2>6. \A k \in DOMAIN m.rcpt : ~(k < m.i)
    BY <2>2 DEF Job
  <2>7. \A u \in User : Takes(m, u, Chan(m)) => InSeq(u, m.rcpt)
    BY <1>4, <1>7, <2>2, <2>4
  <2>8. Walk(m, e, w, p)
    BY <2>2, <2>3, <2>4, <2>5, <2>6, <2>7 DEF Walk
  <2>. QED  BY <2>1, <2>8
<1>. QED  BY <1>5, <1>6, <1>7

LEMMA AfterEnrichWalk ==
  ASSUME NEW j \in Job, j.pc = "enrich", NEW e, NEW w, NEW p, Walk(j, e, w, p)
  PROVE  Walk(AfterEnrich(j), e, w, p)
<1>. DEFINE m == [j EXCEPT !.pc = "dispatch", !.i = 1]
<1>1. /\ m.env = j.env /\ m.att = j.att /\ m.pc = "dispatch" /\ m.i = 1
      /\ m.chan = j.chan /\ m.rcpt = j.rcpt /\ m.tokens = j.tokens
  BY DEF Job
<1>. HIDE DEF m
<1>2. Chan(m) = Chan(j) /\ \A u, c : Takes(m, u, c) <=> Takes(j, u, c)
  BY <1>1 DEF Chan, Channels, Takes, To, Ident
<1>3. Served(m, e, m.chan, w, p)
  BY <1>1, ServedKept, GrownItself DEF Walk
<1>4. \A k \in DOMAIN m.rcpt : ~(k < m.i)
  BY <1>1 DEF Job
<1>5. Walk(m, e, w, p)
  BY <1>1, <1>2, <1>3, <1>4 DEF Walk
<1>. QED  BY <1>5 DEF AfterEnrich, m

\* The kept recipients are all served: the channel lies behind.
LEMMA AfterDispatchWalk ==
  ASSUME NEW j \in Job, Arrived(j), j.pc = "dispatch", NEW e, NEW w, NEW p,
         j.chan \in DOMAIN Channels(j), Walk(j, e, w, p)
  PROVE  Walk(AfterDispatch(j), e, w, p)
<1>1. j.rcpt \in Seq(User) /\ Channels(j) \in Seq(Channel) /\ j.i \in Nat
  BY JobFacts DEF Job
<1>2. CASE j.i <= Len(j.rcpt)
  BY <1>2 DEF AfterDispatch
<1>3. CASE ~(j.i <= Len(j.rcpt))
  <2>1. Served(j, e, j.chan + 1, w, p)
    <3>. SUFFICES ASSUME NEW c \in DOMAIN Channels(j), c < j.chan + 1, NEW u \in User,
                         Takes(j, u, Channels(j)[c])
                  PROVE  Reached(j, e, Channels(j)[c], u, w, p)
      BY DEF Served
    <3>1. CASE c = j.chan
      <4>1. InSeq(u, j.rcpt)
        BY <3>1 DEF Walk, Chan
      <4>2. PICK k \in DOMAIN j.rcpt : j.rcpt[k] = u
        BY <4>1 DEF InSeq
      <4>3. k < j.i
        BY <1>1, <1>3, <4>2
      <4>. QED  BY <3>1, <4>2, <4>3 DEF Walk, Chan
    <3>2. CASE c # j.chan
      <4>1. c < j.chan
        BY <1>1, <3>2
      <4>. QED  BY <4>1 DEF Served, Walk
    <3>. QED  BY <3>1, <3>2
  <2>2. j.chan + 1 \in Nat \ {0}
    BY <1>1
  <2>3. AfterDispatch(j) = EnterChannel(j, j.chan + 1)
    BY <1>3 DEF AfterDispatch
  <2>. QED  BY <2>1, <2>2, <2>3, EnterChannelWalk
<1>. QED  BY <1>2, <1>3

\* A step that replaces the handling of e by n and adds at most one message
\* to each list keeps the invariant.
LEMMA StepWalk ==
  ASSUME WInv, TInv', NEW e \in Event, NEW n, SetJob(e, n), n.pc # "new",
         job[e].pc # "new" => n.env = job[e].env, Walk(n, e, ws', pushq'),
         ws' = ws \/ \E m \in WSMessage : ws' = Append(ws, m),
         \/ pushq' = pushq
         \/ \E m \in PushMessage : pushq' = Append(pushq, m) /\ PushFollows(m, job', ws')
  PROVE  WInv'
<1>1. job'[e] = n /\ \A x \in Event \ {e} : job'[x] = job[x]
  BY DEF SetJob, WInv, TInv
<1>2. ws \in Seq(WSMessage) /\ pushq \in Seq(PushMessage)
  BY DEF WInv, TInv, StateOK
<1>3. Grown(ws, ws') /\ Grown(pushq, pushq')
  BY <1>2, GrownBy
<1>4. \A x \in Event : Walk(job'[x], x, ws', pushq')
  <2>1. \A x \in Event : Walk(job[x], x, ws', pushq')
    BY <1>3, WalkKept DEF WInv
  <2>. QED  BY <1>1, <2>1
<1>5. \A x \in Event : job[x].pc # "new" => job'[x].pc # "new" /\ job'[x].env = job[x].env
  BY <1>1
<1>6. ASSUME NEW m \in PushMessage, PushFollows(m, job, ws)
      PROVE  PushFollows(m, job', ws')
  <2>1. m.ev \in Event
    BY DEF PushMessage
  <2>2. job'[m.ev].pc # "new" /\ job'[m.ev].env = job[m.ev].env
    BY <1>5, <1>6, <2>1 DEF PushFollows
  <2>3. /\ Channels(job'[m.ev]) = Channels(job[m.ev])
        /\ \A u, c : Takes(job'[m.ev], u, c) <=> Takes(job[m.ev], u, c)
    BY <2>2 DEF Channels, Takes, To, Ident
  <2>4. \A x, a, v, u : Told(x, a, v, u, ws) => Told(x, a, v, u, ws')
    BY <1>3 DEF Told, Grown
  <2>. QED  BY <1>6, <2>2, <2>3, <2>4 DEF PushFollows
<1>7. \A k \in DOMAIN pushq : pushq[k] \in PushMessage /\ PushFollows(pushq[k], job', ws')
  <2>1. \A k \in DOMAIN pushq : pushq[k] \in PushMessage
    BY <1>2
  <2>. QED  BY <1>6, <2>1 DEF WInv
<1>8. \A k \in DOMAIN pushq' : PushFollows(pushq'[k], job', ws')
  <2>1. ASSUME NEW m \in PushMessage, pushq' = Append(pushq, m), PushFollows(m, job', ws')
        PROVE  \A k \in DOMAIN pushq' : PushFollows(pushq'[k], job', ws')
    <3>1. \A k \in DOMAIN pushq' : (k \in DOMAIN pushq /\ pushq'[k] = pushq[k]) \/ pushq'[k] = m
      BY <1>2, <2>1
    <3>. QED  BY <1>7, <2>1, <3>1
  <2>. QED  BY <1>7, <2>1
<1>. QED  BY <1>4, <1>8 DEF WInv

\* Outside the channels there is nothing to account for.
LEMMA WalkIdle ==
  ASSUME NEW j, NEW e, NEW w, NEW p,
         j.pc \notin {"filter", "enrich", "dispatch", "done"}
  PROVE  Walk(j, e, w, p)
BY DEF Walk

LEMMA ArriveWalk ==
  ASSUME WInv, TInv', NEW e \in Event, Arrive(e)
  PROVE  WInv'
<1>1. PICK v \in Envelope : SetJob(e, [job[e] EXCEPT !.env = v, !.pc = "queued"])
  BY Zenon DEF Arrive
<1>. DEFINE n == [job[e] EXCEPT !.env = v, !.pc = "queued"]
<1>2. job[e] \in Job /\ job[e].pc = "new" /\ UNCHANGED <<ws, pushq>>
  BY DEF Arrive, WInv, TInv
<1>3. n.pc = "queued"
  BY <1>2 DEF Job
<1>. HIDE DEF n
<1>. QED  BY <1>1, <1>2, <1>3, WalkIdle, StepWalk DEF n

\* The first channel is entered with none behind it.
LEMMA FirstChannelWalk ==
  ASSUME NEW j \in Job, Arrived(j), NEW e, NEW w, NEW p
  PROVE  Walk(EnterChannel(j, 1), e, w, p)
<1>1. \A c \in DOMAIN Channels(j) : ~(c < 1)
  BY JobFacts
<1>2. Served(j, e, 1, w, p)
  BY <1>1 DEF Served
<1>. QED  BY <1>2, EnterChannelWalk

LEMMA HandleWalk ==
  ASSUME WInv, TInv', NEW e \in Event, Handle(e)
  PROVE  WInv'
<1>. DEFINE j == job[e]
            n(p) == [j EXCEPT !.pc = p]
            fresh == [j EXCEPT !.att = @ + 1, !.i = 1,
                               !.stored = [u \in User |-> Nil],
                               !.counts = [u \in User |-> Nil],
                               !.tokens = [u \in User |-> {}]]
            p == [fresh EXCEPT !.pc = "persist"]
<1>1. j \in Job /\ Arrived(j) /\ UNCHANGED <<ws, pushq>>
  BY DEF Handle, WInv, TInv, JobOK
<1>2. \A x \in {"done", "rejected"} : n(x).pc = x /\ n(x).env = j.env
  BY <1>1 DEF Job
<1>3. CASE ~Validate(j.env)
  <2>. DEFINE m == n(IF j.env.via = "kafka" THEN "done" ELSE "rejected")
  <2>1. SetJob(e, m)
    BY <1>3 DEF Handle
  <2>2. m.pc \in {"done", "rejected"} /\ m.env = j.env
    BY <1>2
  <2>. HIDE DEF m
  <2>3. Walk(m, e, ws', pushq')
    BY <1>3, <2>2 DEF Walk
  <2>4. m.pc # "new"
    BY <2>2
  <2>. QED  BY <1>1, <2>1, <2>2, <2>3, <2>4, StepWalk
<1>4. CASE Validate(j.env) /\ To(j) = <<>>
  <2>. DEFINE m == n("done")
  <2>1. SetJob(e, m)
    BY <1>4 DEF Handle
  <2>2. m.pc = "done" /\ m.env = j.env
    BY <1>2
  <2>. HIDE DEF m
  <2>3. \A u, c : ~Takes(m, u, c)
    BY <1>4, <2>2 DEF Takes, InSeq, To
  <2>4. Walk(m, e, ws', pushq')
    BY <2>2, <2>3 DEF Walk, Served
  <2>. QED  BY <1>1, <2>1, <2>2, <2>4, StepWalk
<1>5. CASE Validate(j.env) /\ To(j) # <<>>
  <2>1. SetJob(e, BeginAttempt(j))
    BY <1>5 DEF Handle
  <2>2. fresh \in Job /\ fresh.env = j.env
    <3>1. /\ j.att \in Nat /\ j.att + 1 \in Nat
          /\ [u \in User |-> Nil] \in [User -> (Nat \ {0}) \cup {Nil}]
          /\ [u \in User |-> Nil] \in [User -> Nat \cup {Nil}]
          /\ [u \in User |-> {}] \in [User -> SUBSET Token]
      BY <1>1 DEF Job
    <3>2. fresh \in Job
      BY <1>1, <3>1 DEF Job
    <3>3. fresh.env = j.env
      BY <1>1 DEF Job
    <3>. QED  BY <3>2, <3>3
  <2>3. p.pc = "persist" /\ p.env = j.env
    BY <2>2 DEF Job
  <2>4. BeginAttempt(j) \in {p, EnterChannel(fresh, 1)}
    BY DEF BeginAttempt
  <2>. HIDE DEF fresh, p
  <2>5. Walk(p, e, ws', pushq')
    BY <2>3, WalkIdle
  <2>6. Walk(EnterChannel(fresh, 1), e, ws', pushq')
    BY <1>1, <2>2, FirstChannelWalk DEF Arrived
  <2>7. Frame(EnterChannel(fresh, 1), fresh)
    BY <2>2, EnterChannelFrame
  <2>8. BeginAttempt(j).env = j.env /\ BeginAttempt(j).pc # "new"
    BY <2>2, <2>3, <2>4, <2>7 DEF Frame
  <2>. QED  BY <1>1, <2>1, <2>4, <2>5, <2>6, <2>8, StepWalk
<1>. QED  BY <1>3, <1>4, <1>5

\* Storing and counting serve nobody yet.
LEMMA PersistWalk ==
  ASSUME WInv, TInv', NEW e \in Event, Persist(e)
  PROVE  WInv'
<1>. DEFINE j == job[e]
            u == To(j)[j.i]
            w == WithRow(j, u, Len(rows) + 1)
            a == AfterPersist(Advance(w))
            b == AfterPersist(Advance(j))
<1>1. j \in Job /\ Arrived(j) /\ j.pc = "persist" /\ u \in User /\ rows \in Seq(Row)
      /\ UNCHANGED <<ws, pushq>>
  <2>1. j \in Job /\ Arrived(j) /\ j.pc = "persist" /\ j.i \in DOMAIN To(j)
        /\ rows \in Seq(Row) /\ UNCHANGED <<ws, pushq>>
    BY DEF Persist, WInv, TInv, JobOK, StateOK
  <2>. QED  BY <2>1, JobFacts
<1>2. ASSUME NEW x \in Job, x.pc = "persist", x.env = j.env
      PROVE  AfterPersist(x).env = j.env /\ AfterPersist(x).pc \in {"persist", "count"}
  <2>. DEFINE m == [x EXCEPT !.pc = "count", !.i = 1]
  <2>1. m.env = j.env /\ m.pc = "count"
    BY <1>2 DEF Job
  <2>. QED  BY <1>2, <2>1 DEF AfterPersist
<1>3. b.env = j.env /\ b.pc \in {"persist", "count"}
  BY <1>1, <1>2, AdvanceFacts
<1>4. a.env = j.env /\ a.pc \in {"persist", "count"}
  <2>1. Len(rows) + 1 \in Nat \ {0}
    BY <1>1
  <2>2. w \in Job /\ w.env = j.env /\ w.pc = "persist"
    BY <1>1, <2>1, WithRowFacts
  <2>. HIDE DEF w
  <2>3. Advance(w) \in Job /\ Advance(w).env = j.env /\ Advance(w).pc = "persist"
    BY <2>2, AdvanceFacts
  <2>. QED  BY <1>2, <2>3
<1>. HIDE DEF a, b
<1>5. SetJob(e, a) \/ SetJob(e, b)
  BY DEF Persist, a, b, w
<1>6. \A m : m.env = j.env /\ m.pc \in {"persist", "count"} =>
        m.pc # "new" /\ Walk(m, e, ws', pushq')
  BY WalkIdle
<1>. QED  BY <1>1, <1>3, <1>4, <1>5, <1>6, StepWalk

LEMMA CountWalk ==
  ASSUME WInv, TInv', NEW e \in Event, Count(e)
  PROVE  WInv'
<1>. DEFINE j == job[e]
            u == To(j)[j.i]
            w == WithCount(j, u, CountUnread(u))
<1>1. j \in Job /\ Arrived(j) /\ j.pc = "count" /\ u \in User /\ UNCHANGED <<ws, pushq>>
  <2>1. j \in Job /\ Arrived(j) /\ j.pc = "count" /\ j.i \in DOMAIN To(j)
        /\ UNCHANGED <<ws, pushq>>
    BY DEF Count, WInv, TInv, JobOK
  <2>. QED  BY <2>1, JobFacts
<1>2. ASSUME NEW x \in Job, x.pc = "count", x.env = j.env
      PROVE  /\ AfterCount(x).env = j.env /\ AfterCount(x).pc # "new"
             /\ Walk(AfterCount(x), e, ws', pushq')
  <2>1. Frame(EnterChannel(x, 1), x) /\ Walk(EnterChannel(x, 1), e, ws', pushq')
    BY <1>1, <1>2, EnterChannelFrame, FirstChannelWalk DEF Arrived
  <2>2. Walk(x, e, ws', pushq')
    BY <1>2, WalkIdle
  <2>. QED  BY <1>2, <2>1, <2>2 DEF AfterCount, Frame
<1>3. Advance(j) \in Job /\ Advance(j).pc = "count" /\ Advance(j).env = j.env
  BY <1>1, AdvanceFacts
<1>4. Advance(w) \in Job /\ Advance(w).pc = "count" /\ Advance(w).env = j.env
  <2>1. CountUnread(u) \in Nat
    BY <1>1, CountUnreadFacts DEF WInv, TInv, StateOK
  <2>2. w \in Job /\ w.env = j.env /\ w.pc = "count"
    BY <1>1, <2>1, WithCountFacts
  <2>. HIDE DEF w
  <2>. QED  BY <2>2, AdvanceFacts
<1>5. SetJob(e, AfterCount(Advance(w))) \/ SetJob(e, AfterCount(Advance(j)))
  BY DEF Count
<1>. HIDE DEF w
<1>. QED  BY <1>1, <1>2, <1>3, <1>4, <1>5, StepWalk

\* Whoever takes the channel whenever asked is kept, whether the lookup
\* succeeds or fails.
LEMMA FilterWalk ==
  ASSUME WInv, TInv', NEW e \in Event, Filter(e)
  PROVE  WInv'
<1>. DEFINE j == job[e]
            u == To(j)[j.i]
            a == Advance(Keep(j, u))
            b == Advance(j)
            c == Advance(KeepBlind(j, u))
<1>1. /\ j \in Job /\ Arrived(j) /\ j.pc = "filter" /\ j.i \in DOMAIN To(j) /\ j.i \in Nat
      /\ u \in User /\ j.chan \in DOMAIN Channels(j) /\ Chan(j) \in Channel
      /\ j.clock \in Clock /\ pref[u] \in PrefOf[u] /\ j.rcpt \in Seq(User)
      /\ To(j) \in Seq(User) /\ Walk(j, e, ws, pushq) /\ UNCHANGED <<ws, pushq>>
  <2>1. /\ j \in Job /\ Arrived(j) /\ j.pc = "filter" /\ j.i \in DOMAIN To(j)
        /\ j.chan \in DOMAIN Channels(j) /\ UNCHANGED <<ws, pushq>>
        /\ Walk(j, e, ws, pushq) /\ \A x \in User : pref[x] \in PrefOf[x]
    BY DEF WInv, TInv, JobOK, StateOK, Filter
  <2>2. j.i \in Nat /\ j.clock \in Clock /\ j.rcpt \in Seq(User)
    BY <2>1 DEF Job
  <2>3. u \in User /\ Chan(j) \in Channel /\ To(j) \in Seq(User)
    BY <2>1, JobFacts DEF Chan
  <2>. QED  BY <2>1, <2>2, <2>3
<1>2. ASSUME NEW m \in Job, m.env = j.env, m.att = j.att, m.tokens = j.tokens,
             m.pc = "filter", m.chan = j.chan, m.i = j.i + 1,
             m.rcpt \in {j.rcpt, Append(j.rcpt, u)},
             Always(u, Ident(j), Chan(j)) => m.rcpt = Append(j.rcpt, u)
      PROVE  /\ Walk(AfterFilter(m), e, ws', pushq') /\ AfterFilter(m).env = j.env
             /\ AfterFilter(m).pc # "new"
  <2>1. /\ To(m) = To(j) /\ Ident(m) = Ident(j) /\ Channels(m) = Channels(j)
        /\ Chan(m) = Chan(j) /\ Arrived(m)
    BY <1>1, <1>2 DEF To, Ident, Channels, Chan, Arrived
  <2>2. \A x : InSeq(x, j.rcpt) => InSeq(x, m.rcpt)
    <3>1. Grown(j.rcpt, Append(j.rcpt, u))
      BY <1>1, GrownBy
    <3>2. \A k \in DOMAIN j.rcpt : k \in DOMAIN m.rcpt /\ m.rcpt[k] = j.rcpt[k]
      BY <1>2, <3>1 DEF Grown
    <3>. QED  BY <3>2 DEF InSeq
  <2>3. Always(u, Ident(j), Chan(j)) => InSeq(u, m.rcpt)
    <3>1. LET s == Append(j.rcpt, u) IN Len(s) \in DOMAIN s /\ s[Len(s)] = u
      BY <1>1
    <3>. QED  BY <1>2, <3>1 DEF InSeq
  <2>4. \A k \in DOMAIN To(m) :
          k < m.i /\ Always(To(m)[k], Ident(m), Chan(m)) => InSeq(To(m)[k], m.rcpt)
    <3>. SUFFICES ASSUME NEW k \in DOMAIN To(j), k < j.i + 1,
                         Always(To(j)[k], Ident(j), Chan(j))
                  PROVE  InSeq(To(j)[k], m.rcpt)
      BY <1>2, <2>1
    <3>1. CASE k = j.i
      BY <2>3, <3>1
    <3>2. CASE k # j.i
      <4>1. k < j.i
        BY <1>1, <3>2
      <4>. QED  BY <1>1, <2>2, <4>1 DEF Walk
    <3>. QED  BY <3>1, <3>2
  <2>5. Served(m, e, m.chan, ws, pushq)
    <3>1. Served(j, e, j.chan, ws, pushq)
      BY <1>1 DEF Walk
    <3>. QED  BY <1>2, <3>1, ServedKept, GrownItself
  <2>6. Walk(m, e, ws, pushq)
    BY <1>2, <2>4, <2>5 DEF Walk
  <2>7. Walk(AfterFilter(m), e, ws, pushq)
    BY <1>1, <1>2, <2>1, <2>6, AfterFilterWalk
  <2>8. Goes(AfterFilter(m), m)
    BY <1>2, <2>1, AfterFilterGoes
  <2>. QED  BY <1>1, <1>2, <2>7, <2>8 DEF Goes, InProcess
<1>3. a \in Job /\ a.env = j.env /\ a.att = j.att /\ a.tokens = j.tokens
      /\ a.pc = "filter" /\ a.chan = j.chan /\ a.i = j.i + 1 /\ a.rcpt = Append(j.rcpt, u)
  <2>. DEFINE x == Keep(j, u)
  <2>1. x \in Job /\ x.env = j.env /\ x.att = j.att /\ x.tokens = j.tokens
        /\ x.pc = j.pc /\ x.chan = j.chan /\ x.i = j.i /\ x.rcpt = Append(j.rcpt, u)
    BY <1>1, KeepFacts, Zenon
  <2>. HIDE DEF x
  <2>. QED  BY <1>1, <2>1, AdvanceFacts DEF x
<1>4. b \in Job /\ b.env = j.env /\ b.att = j.att /\ b.tokens = j.tokens
      /\ b.pc = "filter" /\ b.chan = j.chan /\ b.i = j.i + 1 /\ b.rcpt = j.rcpt
  BY <1>1, AdvanceFacts
<1>5. c \in Job /\ c.env = j.env /\ c.att = j.att /\ c.tokens = j.tokens
      /\ c.pc = "filter" /\ c.chan = j.chan /\ c.i = j.i + 1 /\ c.rcpt = Append(j.rcpt, u)
  <2>. DEFINE x == KeepBlind(j, u)
  <2>1. x \in Job /\ x.env = j.env /\ x.att = j.att /\ x.tokens = j.tokens
        /\ x.pc = j.pc /\ x.chan = j.chan /\ x.i = j.i /\ x.rcpt = Append(j.rcpt, u)
    BY <1>1, KeepBlindFacts, Zenon
  <2>. HIDE DEF x
  <2>. QED  BY <1>1, <2>1, AdvanceFacts DEF x
<1>. HIDE DEF a, b, c
<1>6. \/ SetJob(e, AfterFilter(a))
      \/ ~Allowed(pref[u], Ident(j), Chan(j), j.clock) /\ SetJob(e, AfterFilter(b))
      \/ SetJob(e, AfterFilter(c))
  BY DEF Filter, a, b, c
<1>7. ~Allowed(pref[u], Ident(j), Chan(j), j.clock) => ~Always(u, Ident(j), Chan(j))
  BY <1>1 DEF Always
<1>8. \E m : SetJob(e, AfterFilter(m)) /\ Walk(AfterFilter(m), e, ws', pushq')
             /\ AfterFilter(m).env = j.env /\ AfterFilter(m).pc # "new"
  <2>1. CASE SetJob(e, AfterFilter(a))
    BY <1>2, <1>3, <2>1
  <2>2. CASE ~Allowed(pref[u], Ident(j), Chan(j), j.clock) /\ SetJob(e, AfterFilter(b))
    BY <1>2, <1>4, <1>7, <2>2
  <2>3. CASE SetJob(e, AfterFilter(c))
    BY <1>2, <1>5, <2>3
  <2>. QED  BY <1>6, <2>1, <2>2, <2>3
<1>. QED  BY <1>1, <1>8, StepWalk

\* Tokens are looked up for the push channel only, which is served after.
LEMMA EnrichWalk ==
  ASSUME WInv, TInv', NEW e \in Event, Enrich(e)
  PROVE  WInv'
<1>. DEFINE j == job[e]
            u == j.rcpt[j.i]
            w == WithTokens(j, u, subs[u])
            a == Advance(w)
            b == Advance(j)
<1>1. /\ j \in Job /\ Arrived(j) /\ j.pc = "enrich" /\ u \in User
      /\ subs[u] \in SUBSET Token /\ j.chan \in DOMAIN Channels(j)
      /\ Walk(j, e, ws, pushq) /\ UNCHANGED <<ws, pushq>>
  <2>1. /\ j \in Job /\ Arrived(j) /\ j.pc = "enrich" /\ j.i \in DOMAIN j.rcpt
        /\ j.chan \in DOMAIN Channels(j) /\ subs \in [User -> SUBSET Token]
        /\ Walk(j, e, ws, pushq) /\ UNCHANGED <<ws, pushq>>
    BY DEF WInv, TInv, JobOK, StateOK, Enrich
  <2>2. j.rcpt \in Seq(User)
    BY <2>1 DEF Job
  <2>. QED  BY <2>1, <2>2
<1>2. \A c \in DOMAIN Channels(j) : c < j.chan => Channels(j)[c] # ChannelPush
  <2>1. Channels(j)[j.chan] = ChannelPush /\ Channels(j) \in Seq(Channel)
    BY <1>1, JobFacts DEF Walk, Chan
  <2>2. \A c \in DOMAIN Channels(j) : Channels(j)[c] = ChannelPush => c = j.chan
    BY <1>1, <2>1, ChannelOrder DEF Channels
  <2>. QED  BY <2>1, <2>2
<1>3. ASSUME NEW m \in Job, m.env = j.env, m.att = j.att, m.pc = "enrich",
             m.chan = j.chan, m.rcpt = j.rcpt
      PROVE  /\ Walk(AfterEnrich(m), e, ws', pushq') /\ AfterEnrich(m).env = j.env
             /\ AfterEnrich(m).pc # "new"
  <2>1. /\ Channels(m) = Channels(j) /\ Chan(m) = Chan(j)
        /\ \A x, c : Takes(m, x, c) <=> Takes(j, x, c)
    BY <1>3 DEF To, Ident, Channels, Chan, Takes
  <2>2. Served(m, e, m.chan, ws, pushq)
    <3>. SUFFICES ASSUME NEW c \in DOMAIN Channels(j), c < j.chan, NEW x \in User,
                         Takes(j, x, Channels(j)[c])
                  PROVE  Reached(m, e, Channels(j)[c], x, ws, pushq)
      BY <1>3, <2>1 DEF Served
    <3>1. Reached(j, e, Channels(j)[c], x, ws, pushq)
      BY <1>1 DEF Walk, Served
    <3>. QED  BY <1>2, <1>3, <3>1, ReachedKept, GrownItself
  <2>3. Walk(m, e, ws, pushq)
    BY <1>1, <1>3, <2>1, <2>2 DEF Walk
  <2>4. Walk(AfterEnrich(m), e, ws, pushq) /\ Goes(AfterEnrich(m), m)
    BY <1>3, <2>3, AfterEnrichWalk, AfterEnrichGoes
  <2>. QED  BY <1>1, <1>3, <2>4 DEF Goes, InProcess
<1>4. b \in Job /\ b.env = j.env /\ b.att = j.att /\ b.pc = "enrich"
      /\ b.chan = j.chan /\ b.rcpt = j.rcpt
  BY <1>1, AdvanceFacts
<1>5. a \in Job /\ a.env = j.env /\ a.att = j.att /\ a.pc = "enrich"
      /\ a.chan = j.chan /\ a.rcpt = j.rcpt
  <2>1. w \in Job /\ w.env = j.env /\ w.att = j.att /\ w.pc = j.pc
        /\ w.chan = j.chan /\ w.rcpt = j.rcpt
    BY <1>1, WithTokensFacts, Zenon
  <2>. HIDE DEF w
  <2>. QED  BY <1>1, <2>1, AdvanceFacts
<1>6. SetJob(e, AfterEnrich(a)) \/ SetJob(e, AfterEnrich(b))
  BY DEF Enrich
<1>. HIDE DEF a, b
<1>. QED  BY <1>1, <1>3, <1>4, <1>5, <1>6, StepWalk

\* One more recipient has been served.
LEMMA ServedOne ==
  ASSUME NEW j \in Job, Arrived(j), j.pc = "dispatch", j.chan \in DOMAIN Channels(j),
         NEW e, NEW w, NEW p, NEW w2, NEW p2, Walk(j, e, w, p),
         Grown(w, w2), Grown(p, p2),
         NEW m \in Job, m.env = j.env, m.att = j.att, m.tokens = j.tokens,
         m.pc = "dispatch", m.chan = j.chan, m.rcpt = j.rcpt,
         \A k \in DOMAIN j.rcpt : k < m.i =>
           k < j.i \/ Reached(m, e, Chan(j), j.rcpt[k], w2, p2)
  PROVE  Walk(AfterDispatch(m), e, w2, p2)
<1>1. /\ Channels(m) = Channels(j) /\ Chan(m) = Chan(j) /\ Arrived(m)
      /\ \A x, c : Takes(m, x, c) <=> Takes(j, x, c)
  BY DEF To, Ident, Channels, Chan, Takes, Arrived
<1>2. Walk(j, e, w2, p2)
  BY WalkKept
<1>3. Served(m, e, m.chan, w2, p2)
  BY <1>2, ServedKept, GrownItself DEF Walk
<1>4. \A k \in DOMAIN m.rcpt : k < m.i => Reached(m, e, Chan(m), m.rcpt[k], w2, p2)
  <2>1. \A k \in DOMAIN j.rcpt : k < j.i => Reached(j, e, Chan(j), j.rcpt[k], w2, p2)
    BY <1>2 DEF Walk
  <2>2. \A c, x : Reached(j, e, c, x, w2, p2) => Reached(m, e, c, x, w2, p2)
    BY ReachedKept, GrownItself
  <2>. QED  BY <1>1, <2>1, <2>2
<1>5. Walk(m, e, w2, p2)
  BY <1>1, <1>2, <1>3, <1>4 DEF Walk
<1>. QED  BY <1>1, <1>5, AfterDispatchWalk

LEMMA FailWalk ==
  ASSUME NEW j \in Job, Arrived(j), NEW e, NEW w, NEW p
  PROVE  /\ Walk(FailAttempt(j), e, w, p) /\ FailAttempt(j).env = j.env
         /\ FailAttempt(j).pc # "new"
<1>1. FailAttempt(j).env = j.env /\ FailAttempt(j).pc \in {"failed", "retry", "dlq"}
  BY DEF FailAttempt, Job
<1>. QED  BY <1>1, WalkIdle

\* A broadcast tells everyone, a message its recipient.
LEMMA DispatchInAppWalk ==
  ASSUME WInv, TInv', NEW e \in Event, DispatchInApp(e)
  PROVE  WInv'
<1>. DEFINE j == job[e]
            u == j.rcpt[j.i]
            m == IF IsShared(j.env) THEN Broadcast(j, e) ELSE WSMessageTo(j, e, u)
            all == [j EXCEPT !.i = Len(j.rcpt) + 1]
            one == Advance(j)
            n == IF IsShared(j.env) THEN all ELSE one
<1>1. /\ j \in Job /\ Arrived(j) /\ j.pc = "dispatch" /\ j.i \in Nat /\ u \in User
      /\ j.chan \in DOMAIN Channels(j) /\ Chan(j) = ChannelInApp /\ j.rcpt \in Seq(User)
      /\ ws \in Seq(WSMessage) /\ Walk(j, e, ws, pushq) /\ UNCHANGED pushq
  BY DispatchFacts DEF WInv, TInv, StateOK, DispatchInApp
<1>2. n \in Job /\ n.env = j.env /\ n.att = j.att /\ n.tokens = j.tokens
      /\ n.pc = "dispatch" /\ n.chan = j.chan /\ n.rcpt = j.rcpt
      /\ (~IsShared(j.env) => n.i = j.i + 1)
  <2>1. Len(j.rcpt) + 1 \in Nat
    BY <1>1
  <2>2. all \in Job /\ all.env = j.env /\ all.att = j.att /\ all.tokens = j.tokens
        /\ all.pc = j.pc /\ all.chan = j.chan /\ all.rcpt = j.rcpt
    BY <1>1, <2>1 DEF Job
  <2>3. one \in Job /\ one.env = j.env /\ one.att = j.att /\ one.tokens = j.tokens
        /\ one.pc = j.pc /\ one.chan = j.chan /\ one.rcpt = j.rcpt /\ one.i = j.i + 1
    BY <1>1, AdvanceFacts, Zenon
  <2>. HIDE DEF all, one
  <2>. QED  BY <1>1, <2>2, <2>3
<1>3. m \in WSMessage /\ m.ev = e /\ m.att = j.att
      /\ m.room = IF IsShared(j.env) THEN Shared ELSE u
  <2>1. j.att \in Nat /\ j.stored[u] \in (Nat \ {0}) \cup {Nil} /\ j.counts[u] \in Nat \cup {Nil}
    BY <1>1 DEF Job
  <2>. QED  BY <1>1, <2>1 DEF WSMessage, Broadcast, WSMessageTo
<1>. HIDE DEF m, n
<1>4. \/ ws' = Append(ws, m) /\ SetJob(e, AfterDispatch(n))
      \/ ws' \in {ws, Append(ws, m)} /\ SetJob(e, FailAttempt(j))
  BY DEF DispatchInApp, m, n
<1>5. ws' = ws \/ \E x \in WSMessage : ws' = Append(ws, x)
  BY <1>3, <1>4
<1>6. CASE ws' = Append(ws, m) /\ SetJob(e, AfterDispatch(n))
  <2>1. Grown(ws, ws') /\ Grown(pushq, pushq')
    BY <1>1, <1>5, GrownBy, GrownItself
  <2>2. Len(ws) + 1 \in DOMAIN ws' /\ ws'[Len(ws) + 1] = m
    BY <1>1, <1>3, <1>6
  <2>3. \A k \in DOMAIN j.rcpt : k < n.i =>
          k < j.i \/ Reached(n, e, Chan(j), j.rcpt[k], ws', pushq')
    <3>. SUFFICES ASSUME NEW k \in DOMAIN j.rcpt, k < n.i, ~(k < j.i)
                  PROVE  Reached(n, e, ChannelInApp, j.rcpt[k], ws', pushq')
      BY <1>1
    <3>1. IsShared(j.env) \/ k = j.i
      BY <1>1, <1>2
    <3>2. m.room = IF IsShared(n.env) THEN Shared ELSE j.rcpt[k]
      BY <1>2, <1>3, <3>1
    <3>3. Told(e, n.att, n.env, j.rcpt[k], ws')
      BY <1>2, <1>3, <2>2, <3>2 DEF Told
    <3>. QED  BY <3>3 DEF Reached, ChannelInApp, ChannelPush
  <2>4. Walk(AfterDispatch(n), e, ws', pushq')
    BY <1>1, <1>2, <2>1, <2>3, ServedOne
  <2>5. Goes(AfterDispatch(n), n)
    BY <1>2, AfterDispatchGoes
  <2>6. AfterDispatch(n).env = j.env /\ AfterDispatch(n).pc # "new"
    BY <1>2, <2>5 DEF Goes, InProcess
  <2>. QED  BY <1>1, <1>5, <1>6, <2>4, <2>6, StepWalk
<1>7. CASE ws' \in {ws, Append(ws, m)} /\ SetJob(e, FailAttempt(j))
  BY <1>1, <1>5, <1>7, FailWalk, StepWalk
<1>. QED  BY <1>4, <1>6, <1>7

\* When a push is queued the in-app channel lies behind the attempt.
LEMMA DispatchPushWalk ==
  ASSUME WInv, TInv', NEW e \in Event, DispatchPush(e)
  PROVE  WInv'
<1>. DEFINE j == job[e]
            u == j.rcpt[j.i]
            m == [user |-> u, ev |-> e, att |-> j.att, tokens |-> j.tokens[u]]
            n == Advance(j)
<1>1. /\ j \in Job /\ Arrived(j) /\ j.pc = "dispatch" /\ j.i \in Nat /\ u \in User
      /\ j.chan \in DOMAIN Channels(j) /\ Chan(j) = ChannelPush /\ j.rcpt \in Seq(User)
      /\ pushq \in Seq(PushMessage) /\ Walk(j, e, ws, pushq) /\ UNCHANGED ws
  BY DispatchFacts DEF WInv, TInv, StateOK, DispatchPush
<1>2. n \in Job /\ n.env = j.env /\ n.att = j.att /\ n.tokens = j.tokens
      /\ n.pc = "dispatch" /\ n.chan = j.chan /\ n.rcpt = j.rcpt /\ n.i = j.i + 1
  BY <1>1, AdvanceFacts, Zenon
<1>3. m \in PushMessage /\ m.user = u /\ m.ev = e /\ m.att = j.att
  BY <1>1 DEF PushMessage, Job
<1>4. ASSUME NEW js, js[e].pc # "new", js[e].env = j.env
      PROVE  PushFollows(m, js, ws)
  <2>1. Channels(js[e]) = Channels(j) /\ \A x, c : Takes(js[e], x, c) <=> Takes(j, x, c)
    BY <1>4 DEF Channels, Takes, To, Ident
  <2>. SUFFICES ASSUME InSeq(ChannelInApp, Channels(j)), NEW x \in User,
                       Takes(j, x, ChannelInApp)
                PROVE  Told(e, j.att, j.env, x, ws)
    BY <1>3, <1>4, <2>1 DEF PushFollows
  <2>2. PICK c \in DOMAIN Channels(j) : Channels(j)[c] = ChannelInApp
    BY DEF InSeq
  <2>3. c < j.chan
    BY <1>1, <2>2, ChannelOrder DEF Channels, Chan
  <2>4. Reached(j, e, ChannelInApp, x, ws, pushq)
    BY <1>1, <2>2, <2>3 DEF Walk, Served
  <2>. QED  BY <2>4 DEF Reached
<1>. HIDE DEF m, n
<1>5. \/ j.tokens[u] = {} /\ pushq' = pushq /\ SetJob(e, AfterDispatch(n))
      \/ pushq' = Append(pushq, m) /\ SetJob(e, AfterDispatch(n))
      \/ pushq' \in {pushq, Append(pushq, m)} /\ SetJob(e, FailAttempt(j))
  BY Zenon DEF DispatchPush, m, n
<1>6. pushq' \in {pushq, Append(pushq, m)}
  BY <1>5
<1>7. Grown(pushq, pushq') /\ Grown(ws, ws')
  BY <1>1, <1>3, <1>6, GrownBy, GrownItself
<1>8. ASSUME NEW r, SetJob(e, r), r.pc # "new", r.env = j.env, Walk(r, e, ws', pushq')
      PROVE  WInv'
  <2>1. job'[e] = r
    BY <1>8 DEF SetJob, WInv, TInv
  <2>2. PushFollows(m, job', ws')
    BY <1>1, <1>4, <1>8, <2>1
  <2>. QED  BY <1>1, <1>3, <1>6, <1>8, <2>2, StepWalk
<1>9. CASE SetJob(e, AfterDispatch(n)) /\ (j.tokens[u] # {} => pushq' = Append(pushq, m))
  <2>1. Reached(n, e, ChannelPush, u, ws', pushq')
    <3>1. pushq' = Append(pushq, m) =>
            Len(pushq) + 1 \in DOMAIN pushq' /\ pushq'[Len(pushq) + 1] = m
      BY <1>1, <1>3
    <3>2. j.tokens[u] # {} => Pushed(e, n.att, u, pushq')
      BY <1>2, <1>3, <1>9, <3>1 DEF Pushed
    <3>. QED  BY <1>2, <3>2 DEF Reached, ChannelInApp, ChannelPush
  <2>2. \A k \in DOMAIN j.rcpt : k < n.i =>
          k < j.i \/ Reached(n, e, Chan(j), j.rcpt[k], ws', pushq')
    <3>. SUFFICES ASSUME NEW k \in DOMAIN j.rcpt, k < n.i, ~(k < j.i)
                  PROVE  Reached(n, e, ChannelPush, j.rcpt[k], ws', pushq')
      BY <1>1
    <3>1. k = j.i
      BY <1>1, <1>2
    <3>. QED  BY <2>1, <3>1
  <2>3. Walk(AfterDispatch(n), e, ws', pushq')
    BY <1>1, <1>2, <1>7, <2>2, ServedOne
  <2>4. Goes(AfterDispatch(n), n)
    BY <1>2, AfterDispatchGoes
  <2>5. AfterDispatch(n).env = j.env /\ AfterDispatch(n).pc # "new"
    BY <1>2, <2>4 DEF Goes, InProcess
  <2>. QED  BY <1>8, <1>9, <2>3, <2>5
<1>10. CASE SetJob(e, FailAttempt(j))
  BY <1>1, <1>8, <1>10, FailWalk
<1>. QED  BY <1>5, <1>9, <1>10

LEMMA CrashWalk ==
  ASSUME WInv, TInv', NEW e \in Event, Crash(e)
  PROVE  WInv'
<1>. DEFINE j == job[e]
            a == [j EXCEPT !.pc = "queued", !.tries = 0]
            b == [j EXCEPT !.pc = "lost"]
<1>1. j \in Job /\ UNCHANGED <<ws, pushq>>
  BY DEF Crash, WInv, TInv
<1>2. a.env = j.env /\ a.pc = "queued" /\ b.env = j.env /\ b.pc = "lost"
  BY <1>1 DEF Job
<1>3. SetJob(e, a) \/ SetJob(e, b)
  BY DEF Crash
<1>. HIDE DEF a, b
<1>4. Walk(a, e, ws', pushq') /\ Walk(b, e, ws', pushq')
  BY <1>2, WalkIdle
<1>. QED  BY <1>1, <1>2, <1>3, <1>4, StepWalk

LEMMA NextWalk ==
  ASSUME WInv, TInv', [Next]_vars
  PROVE  WInv'
<1>1. ASSUME NEW e \in Event, Arrive(e) \/ Step(e) \/ Crash(e)
      PROVE  WInv'
  BY <1>1, ArriveWalk, HandleWalk, PersistWalk, CountWalk, FilterWalk, EnrichWalk,
     DispatchInAppWalk, DispatchPushWalk, CrashWalk DEF Step
<1>2. CASE Meanwhile \/ UNCHANGED vars
  <2>1. UNCHANGED <<job, ws, pushq>>
    BY <1>2 DEF Meanwhile, Prefer, Register, Read, Delete, Tick, vars
  <2>. QED  BY <2>1 DEF WInv
<1>. QED  BY <1>1, <1>2 DEF Next

\* What the walk guarantees holds in every state.
THEOREM Walked == Spec => []WInv
<1>1. Init => WInv
  <2>. SUFFICES ASSUME Init  PROVE WInv
    OBVIOUS
  <2>1. \A e \in Event : Walk(NewJob, e, ws, pushq)
    BY WalkIdle DEF NewJob
  <2>. QED  BY <2>1, InitOK DEF WInv, Init
<1>2. WInv /\ [Next]_vars => WInv'
  BY NextOK, NextWalk DEF WInv
<1>. QED  BY <1>1, <1>2, PTL DEF Spec

\* An event is acknowledged only when every recipient who takes a channel has
\* been queued on it by the attempt that ends (Process returns nil).
THEOREM Acked == Spec => []AckedMeansQueued
<1>1. WInv => AckedMeansQueued
  <2>. SUFFICES ASSUME WInv, NEW e \in Event, job[e].pc = "done", Validate(job[e].env),
                       NEW u \in User, InSeq(u, To(job[e]))
                PROVE  /\ InSeq(ChannelInApp, Channels(job[e]))
                          /\ Always(u, Ident(job[e]), ChannelInApp)
                          => \E l \in DOMAIN ws : InAppTells(ws[l], e, job[e].att, u)
                       /\ InSeq(ChannelPush, Channels(job[e]))
                          /\ Always(u, Ident(job[e]), ChannelPush)
                          /\ job[e].tokens[u] # {}
                          => \E l \in DOMAIN pushq :
                               /\ pushq[l].ev = e /\ pushq[l].att = job[e].att
                               /\ pushq[l].user = u
    BY DEF AckedMeansQueued
  <2>. DEFINE j == job[e]
  <2>1. Served(j, e, Len(Channels(j)) + 1, ws, pushq)
    BY DEF WInv, Walk
  <2>2. Channels(j) \in Seq(Channel)
    BY JobFacts DEF WInv, TInv, JobOK
  <2>3. ASSUME NEW c, InSeq(c, Channels(j)), Always(u, Ident(j), c)
        PROVE  Reached(j, e, c, u, ws, pushq)
    <3>1. PICK k \in DOMAIN Channels(j) : Channels(j)[k] = c
      BY <2>3 DEF InSeq
    <3>2. k < Len(Channels(j)) + 1
      BY <2>2, <3>1
    <3>. QED  BY <2>1, <2>3, <3>1, <3>2 DEF Served, Takes
  <2>4. Told(e, j.att, j.env, u, ws) => \E l \in DOMAIN ws : InAppTells(ws[l], e, j.att, u)
    BY DEF Told, InAppTells
  <2>. QED  BY <2>3, <2>4 DEF Reached, Pushed
<1>. QED  BY <1>1, Walked, PTL

\* A push is queued only after the attempt has queued the in-app message of
\* every recipient who takes it (the order of IdentityChannels in Process).
THEOREM PushLast == Spec => []PushAfterInApp
<1>1. WInv => PushAfterInApp
  BY DEF WInv, PushFollows, Takes, Told, InAppTells, PushAfterInApp
<1>. QED  BY <1>1, Walked, PTL

-----------------------------------------------------------------------------
(***************************************************************************)
(* No row is announced twice.  The kept recipients of an attempt differ    *)
(* when the producer names nobody twice, and an attempt that has announced *)
(* a row is past its recipient.                                            *)
(***************************************************************************)
NamedTwice ==
  \E v \in Envelope : \E a, b \in DOMAIN ResolveRecipients(v) :
     a # b /\ ResolveRecipients(v)[a] = ResolveRecipients(v)[b]

InChannel == {"filter", "enrich", "dispatch"}

NoRepeat(j) ==
  /\ j.pc \in InChannel =>
       \A k, l \in DOMAIN j.rcpt : k # l => j.rcpt[k] # j.rcpt[l]
  /\ j.pc = "filter" =>
       \A k \in DOMAIN j.rcpt : \E q \in DOMAIN To(j) : q < j.i /\ j.rcpt[k] = To(j)[q]

\* The in-app channel comes before the c-th.
InAppBefore(j, c) == \E d \in DOMAIN Channels(j) : d < c /\ Channels(j)[d] = ChannelInApp

\* The attempt j has passed the recipient of message m.
Past(j, m) ==
  /\ j.pc \in InChannel
  /\ \/ InAppBefore(j, j.chan)
     \/ /\ j.pc = "dispatch" /\ Chan(j) = ChannelInApp
        /\ \E k \in DOMAIN j.rcpt : k < j.i /\ j.rcpt[k] = m.room

Announced(j, e, w) ==
  \A k \in DOMAIN w : w[k].ev = e /\ w[k].id # Nil =>
    /\ w[k].att <= j.att
    /\ w[k].att = j.att /\ j.pc \in InProcess => Past(j, w[k])

Once(j, e, w) == Announced(j, e, w) /\ (NamedTwice \/ NoRepeat(j))

UInv ==
  /\ SInv
  /\ \A e \in Event : Once(job[e], e, ws)
  /\ NamedTwice \/ \A k, l \in DOMAIN ws :
                     k # l /\ ws[k].id # Nil => ws[k].id # ws[l].id

\* Between the attempts nothing more is announced.
LEMMA IdleOnce ==
  ASSUME NEW j, NEW n, NEW e, NEW w, Announced(j, e, w), n.att = j.att,
         n.pc \notin InProcess
  PROVE  Once(n, e, w)
BY DEF Once, Announced, NoRepeat, InChannel, InProcess

\* While rows are stored and counted the attempt has announced none.
LEMMA StoringOnce ==
  ASSUME NEW j, NEW n, NEW e, NEW w, Announced(j, e, w), n.att = j.att,
         j.pc \in Storing, n.pc \notin InChannel
  PROVE  Once(n, e, w)
BY DEF Once, Announced, Past, NoRepeat, InChannel, InProcess, Storing

LEMMA EnterChannelOnce ==
  ASSUME NEW j \in Job, NEW e, NEW w, NEW c,
         \A k \in DOMAIN w : w[k].ev = e /\ w[k].id # Nil =>
           w[k].att <= j.att /\ (w[k].att = j.att => InAppBefore(j, c))
  PROVE  Once(EnterChannel(j, c), e, w)
<1>. DEFINE d == [j EXCEPT !.pc = "done"]
            f == [j EXCEPT !.pc = "filter", !.chan = c, !.i = 1, !.rcpt = <<>>,
                           !.clock = now]
<1>1. d.att = j.att /\ d.pc = "done"
  BY DEF Job
<1>2. f.env = j.env /\ f.att = j.att /\ f.pc = "filter" /\ f.chan = c /\ f.rcpt = <<>>
  BY DEF Job
<1>. HIDE DEF d, f
<1>3. Once(d, e, w)
  BY <1>1 DEF Once, Announced, NoRepeat, InChannel, InProcess
<1>4. InAppBefore(f, c) <=> InAppBefore(j, c)
  BY <1>2 DEF InAppBefore, Channels, Ident
<1>5. Announced(f, e, w)
  BY <1>2, <1>4 DEF Announced, Past, InChannel
<1>6. NoRepeat(f)
  BY <1>2 DEF NoRepeat
<1>. QED  BY <1>3, <1>5, <1>6 DEF EnterChannel, Once, d, f

\* Later in the same channel, not yet at a dispatch on the in-app channel, or
\* in one that has just begun.
LEMMA ChannelOnce ==
  ASSUME NEW j, NEW n, NEW e, NEW w, Once(j, e, w), j.pc \in InChannel,
         j.pc = "dispatch" => Chan(j) # ChannelInApp,
         n.env = j.env, n.att = j.att, n.chan = j.chan, n.rcpt = j.rcpt,
         n.pc \in {"enrich", "dispatch"}
  PROVE  Once(n, e, w)
<1>1. InAppBefore(n, n.chan) <=> InAppBefore(j, j.chan)
  BY DEF InAppBefore, Channels, Ident
<1>2. Announced(n, e, w)
  BY <1>1 DEF Once, Announced, Past, InChannel, InProcess
<1>3. NoRepeat(j) => NoRepeat(n)
  BY DEF NoRepeat, InChannel
<1>. QED  BY <1>2, <1>3 DEF Once

\* The next channel has the same channels before it, and this one.
LEMMA NextChannelOnce ==
  ASSUME NEW j \in Job, Arrived(j), j.pc \in InChannel, j.chan \in DOMAIN Channels(j),
         NEW e, NEW w, Once(j, e, w)
  PROVE  Once(EnterChannel(j, j.chan + 1), e, w)
<1>1. j.chan \in Nat /\ Channels(j) \in Seq(Channel)
  BY JobFacts DEF Job
<1>2. InAppBefore(j, j.chan) => InAppBefore(j, j.chan + 1)
  BY <1>1 DEF InAppBefore
<1>3. Chan(j) = ChannelInApp => InAppBefore(j, j.chan + 1)
  BY <1>1 DEF InAppBefore, Chan
<1>4. j.pc \in InProcess
  BY DEF InChannel, InProcess
<1>5. \A k \in DOMAIN w : w[k].ev = e /\ w[k].id # Nil =>
        w[k].att <= j.att /\ (w[k].att = j.att => InAppBefore(j, j.chan + 1))
  BY <1>2, <1>3, <1>4 DEF Once, Announced, Past
<1>. QED  BY <1>5, EnterChannelOnce

LEMMA AfterFilterOnce ==
  ASSUME NEW j \in Job, Arrived(j), j.pc = "filter", j.chan \in DOMAIN Channels(j),
         NEW e, NEW w, Once(j, e, w)
  PROVE  Once(AfterFilter(j), e, w)
<1>. DEFINE n(x) == [j EXCEPT !.i = 1, !.tokens = [u \in User |-> {}], !.pc = x]
<1>1. AfterFilter(j) \in {j, EnterChannel(j, j.chan + 1), n("enrich"), n("dispatch")}
  <2>1. CASE j.i <= Len(To(j))
    <3>1. ~(j.i > Len(To(j)))
      BY <2>1, JobFacts DEF Job
    <3>. QED  BY <2>1, <3>1 DEF AfterFilter
  <2>2. CASE ~(j.i <= Len(To(j))) /\ j.i > Len(To(j)) /\ j.rcpt = <<>>
    BY <2>2 DEF AfterFilter
  <2>3. CASE ~(j.i <= Len(To(j))) /\ ~(j.i > Len(To(j)) /\ j.rcpt = <<>>)
    <3>1. AfterFilter(j) = n(IF Chan(j) = ChannelPush THEN "enrich" ELSE "dispatch")
      BY <2>3 DEF AfterFilter
    <3>. QED  BY <3>1
  <2>. QED  BY <2>1, <2>2, <2>3
<1>2. \A x \in {"enrich", "dispatch"} : Once(n(x), e, w)
  <2>1. \A x \in {"enrich", "dispatch"} :
          /\ n(x).env = j.env /\ n(x).att = j.att /\ n(x).chan = j.chan
          /\ n(x).rcpt = j.rcpt /\ n(x).pc = x
    BY DEF Job
  <2>. HIDE DEF n
  <2>. QED  BY <2>1, ChannelOnce DEF InChannel
<1>3. Once(EnterChannel(j, j.chan + 1), e, w)
  BY NextChannelOnce DEF InChannel
<1>. QED  BY <1>1, <1>2, <1>3

LEMMA AfterEnrichOnce ==
  ASSUME NEW j \in Job, j.pc = "enrich", NEW e, NEW w, Once(j, e, w)
  PROVE  Once(AfterEnrich(j), e, w)
<1>. DEFINE m == [j EXCEPT !.pc = "dispatch", !.i = 1]
<1>1. /\ m.env = j.env /\ m.att = j.att /\ m.pc = "dispatch"
      /\ m.chan = j.chan /\ m.rcpt = j.rcpt
  BY DEF Job
<1>. HIDE DEF m
<1>2. Once(m, e, w)
  BY <1>1, ChannelOnce DEF InChannel
<1>. QED  BY <1>2 DEF AfterEnrich, m

LEMMA AfterDispatchOnce ==
  ASSUME NEW j \in Job, Arrived(j), j.pc = "dispatch", j.chan \in DOMAIN Channels(j),
         NEW e, NEW w, Once(j, e, w)
  PROVE  Once(AfterDispatch(j), e, w)
BY NextChannelOnce DEF AfterDispatch, InChannel

-----------------------------------------------------------------------------
\* A step that replaces the handling of e by n and adds at most one message
\* about e, with an id nobody has been sent.
LEMMA StepOnce ==
  ASSUME UInv, SInv', NEW e \in Event, NEW n, SetJob(e, n), Once(n, e, ws'),
         \/ ws' = ws
         \/ \E m \in WSMessage :
              /\ ws' = Append(ws, m) /\ m.ev = e
              /\ NamedTwice \/ \A k \in DOMAIN ws : m.id # Nil => ws[k].id # m.id
  PROVE  UInv'
<1>1. job'[e] = n /\ \A x \in Event \ {e} : job'[x] = job[x]
  BY DEF SetJob, UInv, SInv, TInv
<1>2. ws \in Seq(WSMessage)
  BY DEF UInv, SInv, TInv, StateOK
<1>3. \A x \in Event : Once(job'[x], x, ws')
  <2>. SUFFICES ASSUME NEW x \in Event \ {e}  PROVE Once(job[x], x, ws')
    BY <1>1
  <2>1. \A k \in DOMAIN ws' : (k \in DOMAIN ws /\ ws'[k] = ws[k]) \/ ws'[k].ev # x
    BY <1>2
  <2>2. Once(job[x], x, ws)
    BY DEF UInv
  <2>. QED  BY <2>1, <2>2 DEF Once, Announced
<1>4. ASSUME ~NamedTwice, NEW k \in DOMAIN ws', NEW l \in DOMAIN ws', k # l, ws'[k].id # Nil
      PROVE  ws'[k].id # ws'[l].id
  <2>1. \A a, b \in DOMAIN ws : a # b /\ ws[a].id # Nil => ws[a].id # ws[b].id
    BY <1>4 DEF UInv
  <2>2. CASE ws' = ws
    BY <1>4, <2>1, <2>2
  <2>3. ASSUME NEW m \in WSMessage, ws' = Append(ws, m),
               \A a \in DOMAIN ws : m.id # Nil => ws[a].id # m.id
        PROVE  ws'[k].id # ws'[l].id
    <3>1. \A a \in DOMAIN ws' : \/ a \in DOMAIN ws /\ ws'[a] = ws[a]
                                \/ a = Len(ws) + 1 /\ ws'[a] = m
      BY <1>2, <2>3
    <3>. QED  BY <1>4, <2>1, <2>3, <3>1
  <2>. QED  BY <1>4, <2>2, <2>3
<1>5. NamedTwice' <=> NamedTwice
  BY DEF NamedTwice
<1>. QED  BY <1>3, <1>4, <1>5 DEF UInv

LEMMA ArriveOnce ==
  ASSUME UInv, SInv', NEW e \in Event, Arrive(e)
  PROVE  UInv'
<1>1. PICK v \in Envelope : SetJob(e, [job[e] EXCEPT !.env = v, !.pc = "queued"])
  BY Zenon DEF Arrive
<1>. DEFINE n == [job[e] EXCEPT !.env = v, !.pc = "queued"]
<1>2. job[e] \in Job /\ UNCHANGED ws /\ Announced(job[e], e, ws)
  BY DEF Arrive, UInv, SInv, TInv, Once
<1>3. n.pc = "queued" /\ n.att = job[e].att
  BY <1>2 DEF Job
<1>. HIDE DEF n
<1>4. Once(n, e, ws)
  BY <1>2, <1>3, IdleOnce DEF InProcess
<1>. QED  BY <1>1, <1>2, <1>4, StepOnce DEF n

\* A new attempt has a number no message carries.
LEMMA HandlingOnce ==
  ASSUME UInv, SInv', NEW e \in Event, Handle(e)
  PROVE  UInv'
<1>. DEFINE j == job[e]
            n(p) == [j EXCEPT !.pc = p]
            fresh == [j EXCEPT !.att = @ + 1, !.i = 1,
                               !.stored = [u \in User |-> Nil],
                               !.counts = [u \in User |-> Nil],
                               !.tokens = [u \in User |-> {}]]
            p == [fresh EXCEPT !.pc = "persist"]
<1>1. j \in Job /\ UNCHANGED ws /\ Announced(j, e, ws) /\ ws \in Seq(WSMessage)
  BY DEF Handle, UInv, SInv, TInv, StateOK, Once
<1>2. \A x \in {"done", "rejected"} : Once(n(x), e, ws)
  <2>1. \A x \in {"done", "rejected"} : n(x).pc = x /\ n(x).att = j.att
    BY <1>1 DEF Job
  <2>. HIDE DEF n
  <2>. QED  BY <1>1, <2>1, IdleOnce DEF InProcess
<1>3. Once(BeginAttempt(j), e, ws)
  <2>1. fresh \in Job /\ fresh.att = j.att + 1 /\ j.att \in Nat
    <3>1. /\ j.att \in Nat /\ j.att + 1 \in Nat
          /\ [u \in User |-> Nil] \in [User -> (Nat \ {0}) \cup {Nil}]
          /\ [u \in User |-> Nil] \in [User -> Nat \cup {Nil}]
          /\ [u \in User |-> {}] \in [User -> SUBSET Token]
      BY <1>1 DEF Job
    <3>2. fresh \in Job
      BY <1>1, <3>1 DEF Job
    <3>3. fresh.att = j.att + 1
      BY <1>1 DEF Job
    <3>. QED  BY <3>1, <3>2, <3>3
  <2>2. p.pc = "persist" /\ p.att = fresh.att
    BY <2>1 DEF Job
  <2>3. BeginAttempt(j) \in {p, EnterChannel(fresh, 1)}
    BY DEF BeginAttempt
  <2>. HIDE DEF fresh, p
  <2>4. \A k \in DOMAIN ws : ws[k].ev = e /\ ws[k].id # Nil =>
          ws[k].att <= fresh.att /\ ws[k].att # fresh.att
    <3>1. \A k \in DOMAIN ws : ws[k].att \in Nat
      <4>1. \A k \in DOMAIN ws : ws[k] \in WSMessage
        BY <1>1
      <4>. QED  BY <4>1 DEF WSMessage
    <3>. QED  BY <1>1, <2>1, <3>1 DEF Announced
  <2>5. Once(p, e, ws)
    BY <2>2, <2>4 DEF Once, Announced, NoRepeat, InChannel
  <2>6. Once(EnterChannel(fresh, 1), e, ws)
    BY <2>1, <2>4, EnterChannelOnce
  <2>. QED  BY <2>3, <2>5, <2>6
<1>4. CASE ~Validate(j.env)
  <2>1. SetJob(e, n(IF j.env.via = "kafka" THEN "done" ELSE "rejected"))
    BY <1>4 DEF Handle
  <2>. HIDE DEF n
  <2>. QED  BY <1>1, <1>2, <2>1, StepOnce
<1>5. CASE Validate(j.env) /\ To(j) = <<>>
  <2>1. SetJob(e, n("done"))
    BY <1>5 DEF Handle
  <2>. HIDE DEF n
  <2>. QED  BY <1>1, <1>2, <2>1, StepOnce
<1>6. CASE Validate(j.env) /\ To(j) # <<>>
  <2>1. SetJob(e, BeginAttempt(j))
    BY <1>6 DEF Handle
  <2>. QED  BY <1>1, <1>3, <2>1, StepOnce
<1>. QED  BY <1>4, <1>5, <1>6

LEMMA PersistOnce ==
  ASSUME UInv, SInv', NEW e \in Event, Persist(e)
  PROVE  UInv'
<1>1. job[e].pc = "persist" /\ UNCHANGED ws /\ Announced(job[e], e, ws) /\ TInv
  BY DEF Persist, UInv, SInv, Once
<1>. DEFINE j == job[e]
            u == To(j)[j.i]
            w == WithRow(j, u, Len(rows) + 1)
            a == AfterPersist(Advance(w))
            b == AfterPersist(Advance(j))
<1>2. j \in Job /\ u \in User /\ rows \in Seq(Row)
  <2>1. j \in Job /\ Arrived(j) /\ j.i \in DOMAIN To(j) /\ rows \in Seq(Row)
    BY <1>1 DEF TInv, JobOK, StateOK
  <2>. QED  BY <2>1, JobFacts
<1>3. ASSUME NEW x \in Job, x.pc = "persist", x.att = j.att
      PROVE  Once(AfterPersist(x), e, ws)
  <2>. DEFINE m == [x EXCEPT !.pc = "count", !.i = 1]
  <2>1. m.att = j.att /\ m.pc = "count"
    BY <1>3 DEF Job
  <2>. HIDE DEF m
  <2>2. AfterPersist(x) \in {x, m}
    BY DEF AfterPersist, m
  <2>. QED  BY <1>1, <1>3, <2>1, <2>2, StoringOnce DEF Storing, InChannel
<1>4. Once(b, e, ws)
  BY <1>1, <1>2, <1>3, AdvanceFacts
<1>5. Once(a, e, ws)
  <2>1. Len(rows) + 1 \in Nat \ {0}
    BY <1>2
  <2>2. w \in Job /\ w.att = j.att /\ w.pc = "persist"
    BY <1>1, <1>2, <2>1, WithRowFacts
  <2>. HIDE DEF w
  <2>3. Advance(w) \in Job /\ Advance(w).att = j.att /\ Advance(w).pc = "persist"
    BY <2>2, AdvanceFacts
  <2>. QED  BY <1>3, <2>3
<1>. HIDE DEF a, b
<1>6. SetJob(e, a) \/ SetJob(e, b)
  BY DEF Persist, a, b, w
<1>. QED  BY <1>1, <1>4, <1>5, <1>6, StepOnce

LEMMA CountOnce ==
  ASSUME UInv, SInv', NEW e \in Event, Count(e)
  PROVE  UInv'
<1>. DEFINE j == job[e]
            u == To(j)[j.i]
            w == WithCount(j, u, CountUnread(u))
<1>1. /\ j.pc = "count" /\ UNCHANGED ws /\ Announced(j, e, ws) /\ TInv
      /\ ws \in Seq(WSMessage)
  BY DEF Count, UInv, SInv, TInv, StateOK, Once
<1>2. j \in Job /\ u \in User /\ CountUnread(u) \in Nat
  <2>1. j \in Job /\ Arrived(j) /\ j.i \in DOMAIN To(j) /\ rows \in Seq(Row)
    BY <1>1 DEF TInv, JobOK, StateOK
  <2>. QED  BY <2>1, JobFacts, CountUnreadFacts
<1>3. ASSUME NEW x \in Job, x.pc = "count", x.att = j.att
      PROVE  Once(AfterCount(x), e, ws)
  <2>1. \A k \in DOMAIN ws : ws[k].ev = e /\ ws[k].id # Nil =>
          ws[k].att <= x.att /\ ws[k].att # x.att
    BY <1>1, <1>3 DEF Announced, Past, InProcess, InChannel
  <2>2. Once(EnterChannel(x, 1), e, ws)
    BY <2>1, EnterChannelOnce
  <2>3. Once(x, e, ws)
    BY <1>1, <1>3, StoringOnce DEF Storing, InChannel
  <2>. QED  BY <2>2, <2>3 DEF AfterCount
<1>4. Advance(j) \in Job /\ Advance(j).pc = "count" /\ Advance(j).att = j.att
  BY <1>1, <1>2, AdvanceFacts
<1>5. Advance(w) \in Job /\ Advance(w).pc = "count" /\ Advance(w).att = j.att
  <2>1. w \in Job /\ w.att = j.att /\ w.pc = "count"
    BY <1>1, <1>2, WithCountFacts
  <2>. HIDE DEF w
  <2>. QED  BY <2>1, AdvanceFacts
<1>6. SetJob(e, AfterCount(Advance(w))) \/ SetJob(e, AfterCount(Advance(j)))
  BY DEF Count
<1>. HIDE DEF w
<1>. QED  BY <1>1, <1>3, <1>4, <1>5, <1>6, StepOnce

\* A recipient is kept after those named before it.
LEMMA FilterOnce ==
  ASSUME UInv, SInv', NEW e \in Event, Filter(e)
  PROVE  UInv'
<1>. DEFINE j == job[e]
            u == To(j)[j.i]
            a == Advance(Keep(j, u))
            b == Advance(j)
            c == Advance(KeepBlind(j, u))
<1>1. /\ j \in Job /\ Arrived(j) /\ j.pc = "filter" /\ j.i \in DOMAIN To(j) /\ j.i \in Nat
      /\ u \in User /\ j.chan \in DOMAIN Channels(j) /\ Chan(j) \in Channel
      /\ j.rcpt \in Seq(User) /\ To(j) \in Seq(User) /\ Once(j, e, ws) /\ UNCHANGED ws
  <2>1. /\ j \in Job /\ Arrived(j) /\ j.pc = "filter" /\ j.i \in DOMAIN To(j)
        /\ j.chan \in DOMAIN Channels(j) /\ UNCHANGED ws /\ Once(j, e, ws)
    BY DEF UInv, SInv, TInv, JobOK, Filter
  <2>2. j.i \in Nat /\ j.rcpt \in Seq(User)
    BY <2>1 DEF Job
  <2>3. u \in User /\ Chan(j) \in Channel /\ To(j) \in Seq(User)
    BY <2>1, JobFacts DEF Chan
  <2>. QED  BY <2>1, <2>2, <2>3
<1>2. ASSUME NEW m \in Job, m.env = j.env, m.att = j.att, m.pc = "filter",
             m.chan = j.chan, m.i = j.i + 1, m.rcpt \in {j.rcpt, Append(j.rcpt, u)}
      PROVE  Once(AfterFilter(m), e, ws)
  <2>1. To(m) = To(j) /\ Channels(m) = Channels(j) /\ Arrived(m)
    BY <1>1, <1>2 DEF To, Ident, Channels, Arrived
  <2>2. Announced(m, e, ws)
    <3>1. InAppBefore(m, m.chan) <=> InAppBefore(j, j.chan)
      BY <1>2, <2>1 DEF InAppBefore
    <3>. QED  BY <1>1, <1>2, <3>1 DEF Once, Announced, Past, InChannel, InProcess
  <2>3. ~NamedTwice => NoRepeat(m)
    <3>. SUFFICES ASSUME ~NamedTwice  PROVE NoRepeat(m)
      OBVIOUS
    <3>1. /\ \A k, l \in DOMAIN j.rcpt : k # l => j.rcpt[k] # j.rcpt[l]
          /\ \A k \in DOMAIN j.rcpt :
               \E q \in DOMAIN To(j) : q < j.i /\ j.rcpt[k] = To(j)[q]
      BY <1>1 DEF Once, NoRepeat, InChannel
    <3>2. \A q, r \in DOMAIN To(j) : q # r => To(j)[q] # To(j)[r]
      BY <1>1 DEF NamedTwice, To, Arrived
    <3>3. \A k \in DOMAIN m.rcpt : \/ k \in DOMAIN j.rcpt /\ m.rcpt[k] = j.rcpt[k]
                                   \/ k = Len(j.rcpt) + 1 /\ m.rcpt[k] = u
      <4>. DEFINE r == j.rcpt
      <4>1. r \in Seq(User) /\ u \in User /\ m.rcpt \in {r, Append(r, u)}
        BY <1>1, <1>2
      <4>. HIDE DEF r
      <4>2. CASE m.rcpt = r
        BY <4>2 DEF r
      <4>3. CASE m.rcpt = Append(r, u)
        <5>1. \A k \in 1 .. Len(r) + 1 : k # Len(r) + 1 => k \in 1 .. Len(r)
          BY <4>1
        <5>. QED  BY <4>1, <4>3, <5>1 DEF r
      <4>. QED  BY <4>1, <4>2, <4>3
    <3>4. \A k \in DOMAIN j.rcpt : j.rcpt[k] # u
      BY <1>1, <3>1, <3>2
    <3>5. \A k \in DOMAIN j.rcpt :
            \E q \in DOMAIN To(j) : q < j.i + 1 /\ j.rcpt[k] = To(j)[q]
      BY <1>1, <3>1
    <3>6. j.i < j.i + 1
      BY <1>1
    <3>7. \A k \in DOMAIN m.rcpt : \E q \in DOMAIN To(j) : q < j.i + 1 /\ m.rcpt[k] = To(j)[q]
      BY <1>1, <3>3, <3>5, <3>6
    <3>8. \A k, l \in DOMAIN m.rcpt : k # l => m.rcpt[k] # m.rcpt[l]
      BY <3>1, <3>3, <3>4
    <3>. QED  BY <1>2, <2>1, <3>7, <3>8 DEF NoRepeat
  <2>4. Once(m, e, ws)
    BY <2>2, <2>3 DEF Once
  <2>. QED  BY <1>1, <1>2, <2>1, <2>4, AfterFilterOnce
<1>3. a \in Job /\ a.env = j.env /\ a.att = j.att
      /\ a.pc = "filter" /\ a.chan = j.chan /\ a.i = j.i + 1 /\ a.rcpt = Append(j.rcpt, u)
  <2>. DEFINE x == Keep(j, u)
  <2>1. x \in Job /\ x.env = j.env /\ x.att = j.att
        /\ x.pc = j.pc /\ x.chan = j.chan /\ x.i = j.i /\ x.rcpt = Append(j.rcpt, u)
    BY <1>1, KeepFacts, Zenon
  <2>. HIDE DEF x
  <2>. QED  BY <1>1, <2>1, AdvanceFacts DEF x
<1>4. b \in Job /\ b.env = j.env /\ b.att = j.att
      /\ b.pc = "filter" /\ b.chan = j.chan /\ b.i = j.i + 1 /\ b.rcpt = j.rcpt
  BY <1>1, AdvanceFacts
<1>5. c \in Job /\ c.env = j.env /\ c.att = j.att
      /\ c.pc = "filter" /\ c.chan = j.chan /\ c.i = j.i + 1 /\ c.rcpt = Append(j.rcpt, u)
  <2>. DEFINE x == KeepBlind(j, u)
  <2>1. x \in Job /\ x.env = j.env /\ x.att = j.att
        /\ x.pc = j.pc /\ x.chan = j.chan /\ x.i = j.i /\ x.rcpt = Append(j.rcpt, u)
    BY <1>1, KeepBlindFacts, Zenon
  <2>. HIDE DEF x
  <2>. QED  BY <1>1, <2>1, AdvanceFacts DEF x
<1>. HIDE DEF a, b, c
<1>6. \/ SetJob(e, AfterFilter(a)) \/ SetJob(e, AfterFilter(b)) \/ SetJob(e, AfterFilter(c))
  BY DEF Filter, a, b, c
<1>7. Once(AfterFilter(a), e, ws) /\ Once(AfterFilter(b), e, ws) /\ Once(AfterFilter(c), e, ws)
  BY <1>2, <1>3, <1>4, <1>5
<1>. QED  BY <1>1, <1>6, <1>7, StepOnce

LEMMA EnrichOnce ==
  ASSUME UInv, SInv', NEW e \in Event, Enrich(e)
  PROVE  UInv'
<1>. DEFINE j == job[e]
            u == j.rcpt[j.i]
            w == WithTokens(j, u, subs[u])
            a == Advance(w)
            b == Advance(j)
<1>1. /\ j \in Job /\ j.pc = "enrich" /\ u \in User /\ subs[u] \in SUBSET Token
      /\ Once(j, e, ws) /\ UNCHANGED ws
  <2>1. /\ j \in Job /\ j.pc = "enrich" /\ j.i \in DOMAIN j.rcpt
        /\ subs \in [User -> SUBSET Token] /\ Once(j, e, ws) /\ UNCHANGED ws
    BY DEF UInv, SInv, TInv, JobOK, StateOK, Enrich
  <2>2. j.rcpt \in Seq(User)
    BY <2>1 DEF Job
  <2>. QED  BY <2>1, <2>2
<1>2. ASSUME NEW m \in Job, m.env = j.env, m.att = j.att, m.pc = "enrich",
             m.chan = j.chan, m.rcpt = j.rcpt
      PROVE  Once(AfterEnrich(m), e, ws)
  <2>1. Once(m, e, ws)
    BY <1>1, <1>2, ChannelOnce DEF InChannel
  <2>. QED  BY <1>2, <2>1, AfterEnrichOnce
<1>3. b \in Job /\ b.env = j.env /\ b.att = j.att /\ b.pc = "enrich"
      /\ b.chan = j.chan /\ b.rcpt = j.rcpt
  BY <1>1, AdvanceFacts
<1>4. a \in Job /\ a.env = j.env /\ a.att = j.att /\ a.pc = "enrich"
      /\ a.chan = j.chan /\ a.rcpt = j.rcpt
  <2>1. w \in Job /\ w.env = j.env /\ w.att = j.att /\ w.pc = j.pc
        /\ w.chan = j.chan /\ w.rcpt = j.rcpt
    BY <1>1, WithTokensFacts, Zenon
  <2>. HIDE DEF w
  <2>. QED  BY <1>1, <2>1, AdvanceFacts
<1>5. SetJob(e, AfterEnrich(a)) \/ SetJob(e, AfterEnrich(b))
  BY DEF Enrich
<1>. HIDE DEF a, b
<1>. QED  BY <1>1, <1>2, <1>3, <1>4, <1>5, StepOnce

\* The id sent is that of the row stored for the recipient served, who has
\* not been served by this attempt before.
LEMMA DispatchInAppOnce ==
  ASSUME UInv, SInv', NEW e \in Event, DispatchInApp(e)
  PROVE  UInv'
<1>. DEFINE j == job[e]
            u == j.rcpt[j.i]
            m == IF IsShared(j.env) THEN Broadcast(j, e) ELSE WSMessageTo(j, e, u)
            all == [j EXCEPT !.i = Len(j.rcpt) + 1]
            one == Advance(j)
            n == IF IsShared(j.env) THEN all ELSE one
<1>1. /\ j \in Job /\ Arrived(j) /\ j.pc = "dispatch" /\ j.i \in Nat /\ u \in User
      /\ j.i \in DOMAIN j.rcpt /\ Hist(j, e, rows)
      /\ j.chan \in DOMAIN Channels(j) /\ Chan(j) = ChannelInApp /\ j.rcpt \in Seq(User)
      /\ ws \in Seq(WSMessage) /\ Once(j, e, ws) /\ j.att \in Nat
  <2>1. j.pc = "dispatch" /\ Chan(j) = ChannelInApp /\ TInv /\ Hist(j, e, rows)
        /\ Once(j, e, ws)
    BY DEF DispatchInApp, UInv, SInv
  <2>2. j.i \in DOMAIN j.rcpt /\ ws \in Seq(WSMessage)
    BY <2>1 DEF TInv, JobOK, StateOK
  <2>3. j \in Job /\ Arrived(j) /\ j.i \in Nat /\ u \in User
        /\ j.chan \in DOMAIN Channels(j) /\ j.rcpt \in Seq(User)
    BY <2>1, DispatchFacts
  <2>. QED  BY <2>1, <2>2, <2>3 DEF Job
<1>2. n \in Job /\ n.env = j.env /\ n.att = j.att
      /\ n.pc = "dispatch" /\ n.chan = j.chan /\ n.rcpt = j.rcpt /\ n.i \in Nat
      /\ (~IsShared(j.env) => n.i = j.i + 1) /\ j.i < n.i
  <2>1. Len(j.rcpt) + 1 \in Nat /\ j.i < Len(j.rcpt) + 1
    BY <1>1
  <2>2. all \in Job /\ all.env = j.env /\ all.att = j.att /\ all.pc = j.pc
        /\ all.chan = j.chan /\ all.rcpt = j.rcpt /\ all.i = Len(j.rcpt) + 1
    BY <1>1, <2>1 DEF Job
  <2>3. one \in Job /\ one.env = j.env /\ one.att = j.att /\ one.pc = j.pc
        /\ one.chan = j.chan /\ one.rcpt = j.rcpt /\ one.i = j.i + 1
    BY <1>1, AdvanceFacts, Zenon
  <2>. HIDE DEF all, one
  <2>4. CASE IsShared(j.env)
    <3>1. n = all
      BY <2>4
    <3>. QED  BY <1>1, <2>1, <2>2, <2>4, <3>1
  <2>5. CASE ~IsShared(j.env)
    <3>1. n = one
      BY <2>5
    <3>2. j.i < j.i + 1 /\ j.i + 1 \in Nat
      BY <1>1
    <3>. QED  BY <1>1, <2>3, <3>1, <3>2
  <2>. QED  BY <2>4, <2>5
<1>3. m \in WSMessage /\ m.ev = e /\ m.att = j.att
      /\ (m.id # Nil => ~IsShared(j.env) /\ m.room = u /\ m.id = j.stored[u])
  <2>1. j.stored[u] \in (Nat \ {0}) \cup {Nil} /\ j.counts[u] \in Nat \cup {Nil}
    BY <1>1 DEF Job
  <2>. QED  BY <1>1, <2>1 DEF WSMessage, Broadcast, WSMessageTo
<1>. HIDE DEF m, n
<1>4. \/ ws' = Append(ws, m) /\ SetJob(e, AfterDispatch(n))
      \/ ws' \in {ws, Append(ws, m)} /\ SetJob(e, FailAttempt(j))
  BY DEF DispatchInApp, m, n
<1>5. NamedTwice \/ \A k \in DOMAIN ws : m.id # Nil => ws[k].id # m.id
  <2>. SUFFICES ASSUME ~NamedTwice, NEW k \in DOMAIN ws, m.id # Nil, ws[k].id = m.id
                PROVE  FALSE
    OBVIOUS
  <2>1. rows[m.id].user = u /\ rows[m.id].ev = e /\ rows[m.id].att = j.att
    BY <1>1, <1>3 DEF Hist, StoredOK
  <2>2. rows[m.id].user = ws[k].room /\ rows[m.id].ev = ws[k].ev
        /\ rows[m.id].att = ws[k].att
    BY DEF UInv, SInv, WSOK
  <2>3. Past(j, ws[k])
    BY <1>1, <2>1, <2>2 DEF Once, Announced, InProcess
  <2>4. ~InAppBefore(j, j.chan)
    <3>1. \A d \in DOMAIN Channels(j) : Channels(j)[d] = ChannelInApp => d = j.chan
      BY <1>1, ChannelOrder DEF Channels, Chan
    <3>2. j.chan \in Nat
      BY <1>1 DEF Job
    <3>. QED  BY <3>1, <3>2 DEF InAppBefore
  <2>5. PICK l \in DOMAIN j.rcpt : l < j.i /\ j.rcpt[l] = u
    BY <2>1, <2>2, <2>3, <2>4 DEF Past
  <2>6. l # j.i
    BY <1>1, <2>5
  <2>. QED  BY <1>1, <2>5, <2>6 DEF Once, NoRepeat, InChannel
<1>6. Announced(n, e, Append(ws, m))
  <2>. DEFINE w == Append(ws, m)
  <2>. SUFFICES ASSUME NEW k \in DOMAIN w, w[k].ev = e, w[k].id # Nil
                PROVE  w[k].att <= n.att /\ (w[k].att = n.att => Past(n, w[k]))
    BY DEF Announced
  <2>1. (k \in DOMAIN ws /\ w[k] = ws[k]) \/ w[k] = m
    BY <1>1, <1>3
  <2>. HIDE DEF w
  <2>2. Channels(n) = Channels(j) /\ Chan(n) = Chan(j)
        /\ (InAppBefore(n, n.chan) <=> InAppBefore(j, j.chan))
    BY <1>2 DEF Channels, Chan, Ident, InAppBefore
  <2>3. CASE w[k] = m
    BY <1>1, <1>2, <1>3, <2>2, <2>3 DEF Past, InChannel
  <2>4. CASE k \in DOMAIN ws /\ w[k] = ws[k]
    <3>1. w[k].att <= j.att /\ (w[k].att = j.att => Past(j, w[k]))
      BY <1>1, <2>4 DEF Once, Announced, InProcess
    <3>2. \A l \in DOMAIN j.rcpt : l < j.i => l < n.i
      BY <1>1, <1>2
    <3>3. Past(j, w[k]) => Past(n, w[k])
      BY <1>2, <2>2, <3>2 DEF Past, InChannel
    <3>. QED  BY <1>2, <3>1, <3>3
  <2>. QED  BY <2>1, <2>3, <2>4
<1>7. Once(AfterDispatch(n), e, Append(ws, m))
  <2>1. NoRepeat(j) => NoRepeat(n)
    BY <1>1, <1>2 DEF NoRepeat, InChannel
  <2>2. Once(n, e, Append(ws, m))
    BY <1>1, <1>6, <2>1 DEF Once
  <2>3. Arrived(n) /\ n.chan \in DOMAIN Channels(n)
    BY <1>1, <1>2 DEF Arrived, Channels, Ident
  <2>. QED  BY <1>2, <2>2, <2>3, AfterDispatchOnce
<1>8. \A w \in {ws, Append(ws, m)} : Once(FailAttempt(j), e, w)
  <2>1. FailAttempt(j).att = j.att /\ FailAttempt(j).pc \in {"failed", "retry", "dlq"}
    BY <1>1 DEF FailAttempt, Job
  <2>2. Announced(j, e, ws)
    BY <1>1 DEF Once
  <2>. DEFINE f == FailAttempt(j)
  <2>. HIDE DEF f
  <2>3. Once(f, e, ws)
    BY <2>1, <2>2, IdleOnce DEF InProcess, f
  <2>4. Once(f, e, Append(ws, m))
    <3>1. f.att = n.att /\ f.pc \notin InProcess
      BY <1>2, <2>1 DEF InProcess, f
    <3>. QED  BY <1>6, <3>1, IdleOnce
  <2>. QED  BY <2>3, <2>4 DEF f
<1>. QED  BY <1>3, <1>4, <1>5, <1>7, <1>8, StepOnce

LEMMA DispatchPushOnce ==
  ASSUME UInv, SInv', NEW e \in Event, DispatchPush(e)
  PROVE  UInv'
<1>. DEFINE j == job[e]
            n == Advance(j)
<1>1. /\ j \in Job /\ Arrived(j) /\ j.pc = "dispatch" /\ j.chan \in DOMAIN Channels(j)
      /\ Chan(j) = ChannelPush /\ Once(j, e, ws) /\ UNCHANGED ws
  BY DispatchFacts DEF DispatchPush, UInv, SInv
<1>2. n \in Job /\ n.env = j.env /\ n.att = j.att
      /\ n.pc = "dispatch" /\ n.chan = j.chan /\ n.rcpt = j.rcpt
  BY <1>1, AdvanceFacts, Zenon
<1>. HIDE DEF n
<1>3. SetJob(e, AfterDispatch(n)) \/ SetJob(e, FailAttempt(j))
  BY Zenon DEF DispatchPush, n
<1>4. Once(AfterDispatch(n), e, ws)
  <2>1. Once(n, e, ws)
    BY <1>1, <1>2, ChannelOnce DEF InChannel, ChannelInApp, ChannelPush
  <2>2. Arrived(n) /\ n.chan \in DOMAIN Channels(n)
    BY <1>1, <1>2 DEF Arrived, Channels, Ident
  <2>. QED  BY <1>2, <2>1, <2>2, AfterDispatchOnce
<1>5. Once(FailAttempt(j), e, ws)
  <2>1. FailAttempt(j).att = j.att /\ FailAttempt(j).pc \in {"failed", "retry", "dlq"}
    BY <1>1 DEF FailAttempt, Job
  <2>. DEFINE f == FailAttempt(j)
  <2>. HIDE DEF f
  <2>2. Once(f, e, ws)
    BY <1>1, <2>1, IdleOnce DEF Once, InProcess, f
  <2>. QED  BY <2>2 DEF f
<1>. QED  BY <1>1, <1>3, <1>4, <1>5, StepOnce

LEMMA CrashOnce ==
  ASSUME UInv, SInv', NEW e \in Event, Crash(e)
  PROVE  UInv'
<1>. DEFINE j == job[e]
            a == [j EXCEPT !.pc = "queued", !.tries = 0]
            b == [j EXCEPT !.pc = "lost"]
<1>1. j \in Job /\ UNCHANGED ws /\ Announced(j, e, ws)
  BY DEF Crash, UInv, SInv, TInv, Once
<1>2. a.att = j.att /\ a.pc = "queued" /\ b.att = j.att /\ b.pc = "lost"
  BY <1>1 DEF Job
<1>3. SetJob(e, a) \/ SetJob(e, b)
  BY DEF Crash
<1>. HIDE DEF a, b
<1>4. Once(a, e, ws) /\ Once(b, e, ws)
  BY <1>1, <1>2, IdleOnce DEF InProcess
<1>. QED  BY <1>1, <1>3, <1>4, StepOnce

LEMMA NextOnce ==
  ASSUME UInv, [Next]_vars
  PROVE  UInv'
<1>1. SInv'
  BY NextSafe DEF UInv
<1>2. ASSUME NEW e \in Event, Arrive(e) \/ Step(e) \/ Crash(e)
      PROVE  UInv'
  BY <1>1, <1>2, ArriveOnce, HandlingOnce, PersistOnce, CountOnce, FilterOnce, EnrichOnce,
     DispatchInAppOnce, DispatchPushOnce, CrashOnce DEF Step
<1>3. CASE Meanwhile \/ UNCHANGED vars
  <2>1. UNCHANGED <<job, ws>>
    BY <1>3 DEF Meanwhile, Prefer, Register, Read, Delete, Tick, vars
  <2>. QED  BY <1>1, <2>1 DEF UInv
<1>. QED  BY <1>2, <1>3 DEF Next

\* No two messages announce the same row, over all attempts, redeliveries and
\* crashes, unless a producer names a recipient twice (persistNotifications
\* and InAppDispatcher.Dispatch).
THEOREM OneAnnouncement == Spec => []IdAnnouncedOnce
<1>1. Init => UInv
  <2>. SUFFICES ASSUME Init  PROVE UInv
    OBVIOUS
  <2>1. \A e \in Event : Once(NewJob, e, <<>>)
    BY DEF NewJob, Once, Announced, NoRepeat, InChannel
  <2>. QED  BY <2>1, InitSafe DEF UInv, Init
<1>2. UInv /\ [Next]_vars => UInv'
  BY NextOnce
<1>3. UInv => IdAnnouncedOnce
  BY DEF UInv, NamedTwice, IdAnnouncedOnce
<1>. QED  BY <1>1, <1>2, <1>3, PTL DEF Spec

-----------------------------------------------------------------------------
(***************************************************************************)
(* What the attempts at an event may still push: for each recipient, what  *)
(* has been pushed on notif:ws and what the attempt may still push is no   *)
(* more than one message per attempt and place in the recipient list.      *)
(***************************************************************************)

\* The places of u in s from the i-th on.
PlacesFrom(s, u, i) == {p \in DOMAIN s : p >= i /\ s[p] = u}

Left(s, u, i) == Cardinality(PlacesFrom(s, u, i))

\* There are finitely many places.
LEMMA LeftNat ==
  ASSUME NEW s \in Seq(User), NEW u, NEW i \in Nat
  PROVE  IsFiniteSet(PlacesFrom(s, u, i)) /\ Left(s, u, i) \in Nat
<1>1. IsFiniteSet(1 .. Len(s))
  BY FS_Interval
<1>2. PlacesFrom(s, u, i) \subseteq 1 .. Len(s)
  BY DEF PlacesFrom
<1>3. IsFiniteSet(PlacesFrom(s, u, i))
  BY <1>1, <1>2, FS_Subset
<1>. QED  BY <1>3, FS_CardinalityType DEF Left

\* Past the end there are none.
LEMMA LeftNone ==
  ASSUME NEW s \in Seq(User), NEW u, NEW i \in Nat, ~(i <= Len(s))
  PROVE  Left(s, u, i) = 0
<1>1. PlacesFrom(s, u, i) = {}
  BY DEF PlacesFrom
<1>. QED  BY <1>1, FS_EmptySet DEF Left

\* Going on by one place.
LEMMA LeftNext ==
  ASSUME NEW s \in Seq(User), NEW u, NEW i \in DOMAIN s
  PROVE  /\ s[i] = u => Left(s, u, i) = Left(s, u, i + 1) + 1
         /\ s[i] # u => Left(s, u, i) = Left(s, u, i + 1)
<1>. DEFINE a == PlacesFrom(s, u, i)
            c == PlacesFrom(s, u, i + 1)
<1>1. i \in Nat /\ i + 1 \in Nat
  OBVIOUS
<1>2. i \notin c /\ IsFiniteSet(c)
  <2>1. i \notin c
    BY <1>1 DEF PlacesFrom
  <2>. QED  BY <1>1, <2>1, LeftNat
<1>3. s[i] = u => a = c \cup {i}
  BY DEF PlacesFrom
<1>4. s[i] # u => a = c
  BY DEF PlacesFrom
<1>5. Cardinality(c \cup {i}) = Cardinality(c) + 1
  <2>. HIDE DEF c
  <2>. QED  BY <1>2, FS_AddElement
<1>. QED  BY <1>3, <1>4, <1>5 DEF Left

\* One more at the end.
LEMMA LeftAppend ==
  ASSUME NEW s \in Seq(User), NEW x \in User, NEW u
  PROVE  /\ x = u => Left(Append(s, x), u, 1) = Left(s, u, 1) + 1
         /\ x # u => Left(Append(s, x), u, 1) = Left(s, u, 1)
<1>. DEFINE t == Append(s, x)
            k == Len(s) + 1
            c == PlacesFrom(s, u, 1)
<1>1. /\ t \in Seq(User) /\ Len(t) = k /\ t[k] = x /\ k \in Nat /\ k >= 1
      /\ \A p \in DOMAIN s : t[p] = s[p]
      /\ DOMAIN t = DOMAIN s \cup {k} /\ k \notin DOMAIN s
  OBVIOUS
<1>2. IsFiniteSet(c) /\ k \notin c
  <2>1. k \notin c
    BY <1>1 DEF PlacesFrom
  <2>. QED  BY <2>1, LeftNat
<1>. HIDE DEF t, k
<1>3. x = u => PlacesFrom(t, u, 1) = c \cup {k}
  BY <1>1 DEF PlacesFrom
<1>4. x # u => PlacesFrom(t, u, 1) = c
  BY <1>1 DEF PlacesFrom
<1>5. Cardinality(c \cup {k}) = Cardinality(c) + 1
  <2>. HIDE DEF c
  <2>. QED  BY <1>2, FS_AddElement
<1>. QED  BY <1>3, <1>4, <1>5 DEF Left, t

\* How many messages tell u about e.
Sent(e, u) == Cardinality(Telling(e, u))

\* The messages that tell u about e are finitely many.
LEMMA SentNat ==
  ASSUME ws \in Seq(WSMessage), NEW e, NEW u
  PROVE  IsFiniteSet(Telling(e, u)) /\ Sent(e, u) \in Nat
<1>1. IsFiniteSet(1 .. Len(ws))
  BY FS_Interval
<1>2. Telling(e, u) \subseteq 1 .. Len(ws)
  BY DEF Telling
<1>3. IsFiniteSet(Telling(e, u))
  BY <1>1, <1>2, FS_Subset
<1>. QED  BY <1>3, FS_CardinalityType DEF Sent

\* A message more is one more for the recipient it names, and for no other.
LEMMA SentAppend ==
  ASSUME ws \in Seq(WSMessage), NEW m \in WSMessage, ws' = Append(ws, m), NEW e, NEW u
  PROVE  /\ m.ev = e /\ m.room = u => Sent(e, u)' = Sent(e, u) + 1
         /\ ~(m.ev = e /\ m.room = u) => Sent(e, u)' = Sent(e, u)
<1>. DEFINE k == Len(ws) + 1
            c == Telling(e, u)
            t == ws'
<1>1. /\ t[k] = m /\ \A p \in DOMAIN ws : t[p] = ws[p]
      /\ DOMAIN t = DOMAIN ws \cup {k} /\ k \notin DOMAIN ws
  OBVIOUS
<1>2. IsFiniteSet(c) /\ k \notin c
  <2>1. k \notin c
    BY <1>1 DEF Telling
  <2>. QED  BY <2>1, SentNat
<1>3. Telling(e, u)' = {p \in DOMAIN t : t[p].ev = e /\ t[p].room = u}
  BY DEF Telling
<1>. HIDE DEF t, k
<1>4. m.ev = e /\ m.room = u => Telling(e, u)' = c \cup {k}
  BY <1>1, <1>3 DEF Telling
<1>5. ~(m.ev = e /\ m.room = u) => Telling(e, u)' = c
  BY <1>1, <1>3 DEF Telling
<1>6. Cardinality(c \cup {k}) = Cardinality(c) + 1
  <2>. HIDE DEF c
  <2>. QED  BY <1>2, FS_AddElement
<1>7. Sent(e, u)' = Cardinality(Telling(e, u)')
  BY DEF Sent
<1>. QED  BY <1>4, <1>5, <1>6, <1>7 DEF Sent


\* How many messages the attempt j is in may still push for u: one for each
\* place u has among the recipients still to be filtered or served in-app.
Owed(j, u) ==
  CASE j.pc \in Storing -> Left(To(j), u, 1)
    [] j.pc = "filter" /\ Chan(j) = ChannelInApp ->
         Left(j.rcpt, u, 1) + Left(To(j), u, j.i)
    [] j.pc = "enrich" /\ Chan(j) = ChannelInApp -> Left(j.rcpt, u, 1)
    [] j.pc = "dispatch" /\ Chan(j) = ChannelInApp -> Left(j.rcpt, u, j.i)
    [] OTHER -> 0

\* The handling is in one of the loops over the recipients of a channel.
InLoops == {"filter", "enrich", "dispatch"}

\* What is owed, place by place of the handling.
LEMMA OwedIs ==
  ASSUME NEW j, NEW u
  PROVE  /\ j.pc \in Storing => Owed(j, u) = Left(To(j), u, 1)
         /\ j.pc = "filter" /\ Chan(j) = ChannelInApp
            => Owed(j, u) = Left(j.rcpt, u, 1) + Left(To(j), u, j.i)
         /\ j.pc = "enrich" /\ Chan(j) = ChannelInApp => Owed(j, u) = Left(j.rcpt, u, 1)
         /\ j.pc = "dispatch" /\ Chan(j) = ChannelInApp => Owed(j, u) = Left(j.rcpt, u, j.i)
         /\ j.pc \in InLoops /\ Chan(j) # ChannelInApp => Owed(j, u) = 0
         /\ j.pc \notin Storing \cup InLoops => Owed(j, u) = 0
<1>. DEFINE x == Left(To(j), u, 1)
            y == Left(j.rcpt, u, 1) + Left(To(j), u, j.i)
            z == Left(j.rcpt, u, 1)
            w == Left(j.rcpt, u, j.i)
            c == Chan(j) = ChannelInApp
            p == j.pc
<1>1. Owed(j, u) = CASE p \in Storing -> x [] p = "filter" /\ c -> y [] p = "enrich" /\ c -> z
                     [] p = "dispatch" /\ c -> w [] OTHER -> 0
  BY DEF Owed
<1>. HIDE DEF x, y, z, w, c, p
<1>2. /\ p \in Storing => Owed(j, u) = x
      /\ p = "filter" /\ c => Owed(j, u) = y
      /\ p = "enrich" /\ c => Owed(j, u) = z
      /\ p = "dispatch" /\ c => Owed(j, u) = w
      /\ p \in InLoops /\ ~c => Owed(j, u) = 0
      /\ p \notin Storing \cup InLoops => Owed(j, u) = 0
  BY <1>1 DEF Storing, InLoops
<1>. QED  BY <1>2 DEF x, y, z, w, c, p

\* What is owed is a number.
LEMMA OwedNat ==
  ASSUME NEW j \in Job, Arrived(j), NEW u
  PROVE  Owed(j, u) \in Nat
<1>1. To(j) \in Seq(User) /\ j.rcpt \in Seq(User) /\ j.i \in Nat
  BY JobFacts DEF Job
<1>2. /\ Left(To(j), u, 1) \in Nat /\ Left(To(j), u, j.i) \in Nat
      /\ Left(j.rcpt, u, 1) \in Nat /\ Left(j.rcpt, u, j.i) \in Nat
  BY <1>1, LeftNat
<1>. QED  BY <1>2, OwedIs DEF InLoops

\* What n may still push, j might have pushed too.
OwesNoMore(n, j) == \A u \in User : Owed(n, u) <= Owed(j, u)

\* In-app is the first channel if it is one.
LEMMA NextChannelOther ==
  ASSUME NEW j, Arrived(j), j.chan \in DOMAIN Channels(j),
         j.chan + 1 \in DOMAIN Channels(j)
  PROVE  Channels(j)[j.chan + 1] # ChannelInApp
<1>1. Channels(j) \in Seq(Channel) /\ Channels(j)[j.chan] \in Channel
  BY JobFacts
<1>2. j.chan \in Nat /\ j.chan # j.chan + 1 /\ ~(j.chan + 1 < j.chan)
  BY <1>1
<1>3. Channels(j)[j.chan] \in {ChannelInApp, ChannelPush}
  BY <1>1 DEF Channel
<1>. QED  BY <1>2, <1>3, ChannelOrder DEF Channels

\* A channel that begins owes each recipient its places, in-app only.
LEMMA EnterChannelOwes ==
  ASSUME NEW j \in Job, Arrived(j), NEW c \in Nat \ {0}, NEW u
  PROVE  /\ Owed(EnterChannel(j, c), u) <= Left(To(j), u, 1)
         /\ (c \in DOMAIN Channels(j) => Channels(j)[c] # ChannelInApp)
            => Owed(EnterChannel(j, c), u) = 0
<1>. DEFINE d == [j EXCEPT !.pc = "done"]
            f == [j EXCEPT !.pc = "filter", !.chan = c, !.i = 1, !.rcpt = <<>>,
                           !.clock = now]
<1>1. To(j) \in Seq(User)
  BY JobFacts
<1>2. d.pc = "done"
  BY DEF Job
<1>3. f.env = j.env /\ f.pc = "filter" /\ f.chan = c /\ f.i = 1 /\ f.rcpt = <<>>
  BY DEF Job
<1>4. \/ EnterChannel(j, c) = d
      \/ EnterChannel(j, c) = f /\ c \in DOMAIN Channels(j)
  <2>1. Channels(j) \in Seq(Channel)
    BY JobFacts
  <2>. QED  BY <2>1 DEF EnterChannel
<1>. HIDE DEF d, f
<1>5. Left(To(j), u, 1) \in Nat /\ Left(<<>>, u, 1) = 0
  <2>1. Left(To(j), u, 1) \in Nat
    BY <1>1, LeftNat
  <2>. DEFINE s == <<>>
  <2>2. s \in Seq(User) /\ ~(1 <= Len(s))
    OBVIOUS
  <2>. HIDE DEF s
  <2>3. Left(s, u, 1) = 0
    BY <2>2, LeftNone
  <2>. QED  BY <2>1, <2>3 DEF s
<1>6. Owed(d, u) = 0
  BY <1>2, OwedIs DEF Storing, InLoops
<1>7. To(f) = To(j) /\ Chan(f) = Channels(j)[c]
  BY <1>3 DEF To, Chan, Channels, Ident
<1>8. Chan(f) = ChannelInApp => Owed(f, u) = Left(To(j), u, 1)
  BY <1>3, <1>5, <1>7, OwedIs
<1>9. Chan(f) # ChannelInApp => Owed(f, u) = 0
  BY <1>3, OwedIs DEF InLoops
<1>. QED  BY <1>4, <1>5, <1>6, <1>7, <1>8, <1>9

\* When a channel is done nothing is owed in-app.
LEMMA NextChannelOwes ==
  ASSUME NEW j \in Job, Arrived(j), j.chan \in DOMAIN Channels(j), NEW u
  PROVE  Owed(EnterChannel(j, j.chan + 1), u) = 0
<1>1. Channels(j) \in Seq(Channel)
  BY JobFacts
<1>2. CASE j.chan + 1 \in DOMAIN Channels(j)
  <2>1. j.chan + 1 \in Nat \ {0}
    BY <1>1
  <2>. QED  BY <1>2, <2>1, NextChannelOther, EnterChannelOwes
<1>3. CASE j.chan + 1 \notin DOMAIN Channels(j)
  <2>. DEFINE d == [j EXCEPT !.pc = "done"]
  <2>1. d.pc = "done"
    BY DEF Job
  <2>2. j.chan + 1 > Len(Channels(j))
    BY <1>1, <1>3
  <2>3. EnterChannel(j, j.chan + 1) = d
    BY <2>2 DEF EnterChannel
  <2>. HIDE DEF d
  <2>. QED  BY <2>1, <2>3, OwedIs DEF Storing, InLoops
<1>. QED  BY <1>2, <1>3

-----------------------------------------------------------------------------
\* The transitions between the loops owe nothing new.
LEMMA AfterPersistOwes ==
  ASSUME NEW j \in Job, Arrived(j), j.pc = "persist"
  PROVE  OwesNoMore(AfterPersist(j), j)
<1>. DEFINE n == [j EXCEPT !.pc = "count", !.i = 1]
<1>1. n.env = j.env /\ n.pc = "count"
  BY DEF Job
<1>2. AfterPersist(j) \in {j, n}
  BY DEF AfterPersist
<1>. HIDE DEF n
<1>3. To(n) = To(j)
  BY <1>1 DEF To
<1>. SUFFICES ASSUME NEW u \in User  PROVE Owed(AfterPersist(j), u) <= Owed(j, u)
  BY Zenon DEF OwesNoMore
<1>4. Owed(n, u) = Owed(j, u) /\ Owed(j, u) \in Nat
  BY <1>1, <1>3, OwedIs, OwedNat DEF Storing
<1>. QED  BY <1>2, <1>4

LEMMA AfterCountOwes ==
  ASSUME NEW j \in Job, Arrived(j), j.pc = "count"
  PROVE  OwesNoMore(AfterCount(j), j)
<1>. SUFFICES ASSUME NEW u \in User  PROVE Owed(AfterCount(j), u) <= Owed(j, u)
  BY Zenon DEF OwesNoMore
<1>1. Owed(j, u) = Left(To(j), u, 1) /\ Owed(j, u) \in Nat
  BY OwedIs, OwedNat DEF Storing
<1>2. Owed(EnterChannel(j, 1), u) <= Left(To(j), u, 1)
  BY EnterChannelOwes
<1>3. AfterCount(j) \in {j, EnterChannel(j, 1)}
  BY DEF AfterCount
<1>. QED  BY <1>1, <1>2, <1>3

LEMMA AfterFilterOwes ==
  ASSUME NEW j \in Job, Arrived(j), j.pc = "filter", j.chan \in DOMAIN Channels(j)
  PROVE  OwesNoMore(AfterFilter(j), j)
<1>. DEFINE n(x) == [j EXCEPT !.i = 1, !.tokens = [u \in User |-> {}], !.pc = x]
<1>. SUFFICES ASSUME NEW u \in User  PROVE Owed(AfterFilter(j), u) <= Owed(j, u)
  BY Zenon DEF OwesNoMore
<1>1. To(j) \in Seq(User) /\ j.i \in Nat /\ j.rcpt \in Seq(User)
  BY JobFacts DEF Job
<1>2. Owed(j, u) \in Nat
  BY OwedNat
<1>3. CASE j.i <= Len(To(j))
  <2>1. ~(j.i > Len(To(j)))
    BY <1>1, <1>3
  <2>2. AfterFilter(j) = j
    BY <1>3, <2>1 DEF AfterFilter
  <2>. QED  BY <1>2, <2>2
<1>4. CASE ~(j.i <= Len(To(j))) /\ j.i > Len(To(j)) /\ j.rcpt = <<>>
  <2>1. AfterFilter(j) = EnterChannel(j, j.chan + 1)
    BY <1>4 DEF AfterFilter
  <2>. QED  BY <1>2, <2>1, NextChannelOwes
<1>5. CASE ~(j.i <= Len(To(j))) /\ ~(j.i > Len(To(j)) /\ j.rcpt = <<>>)
  <2>. DEFINE x == IF Chan(j) = ChannelPush THEN "enrich" ELSE "dispatch"
              m == n(x)
  <2>1. AfterFilter(j) = m
    BY <1>5 DEF AfterFilter
  <2>2. m.env = j.env /\ m.pc = x /\ m.i = 1 /\ m.chan = j.chan /\ m.rcpt = j.rcpt
    BY DEF Job
  <2>3. x \in {"enrich", "dispatch"}
    OBVIOUS
  <2>. HIDE DEF m, x
  <2>4. Chan(m) = Chan(j)
    BY <2>2 DEF Chan, Channels, Ident
  <2>5. CASE Chan(j) # ChannelInApp
    <3>1. Owed(m, u) = 0
      BY <2>2, <2>3, <2>4, <2>5, OwedIs DEF InLoops
    <3>. QED  BY <1>2, <2>1, <3>1
  <2>6. CASE Chan(j) = ChannelInApp
    <3>1. Owed(m, u) = Left(j.rcpt, u, 1)
      BY <2>2, <2>3, <2>4, <2>6, OwedIs
    <3>2. Owed(j, u) = Left(j.rcpt, u, 1) + Left(To(j), u, j.i)
      BY <2>6, OwedIs
    <3>3. Left(j.rcpt, u, 1) \in Nat /\ Left(To(j), u, j.i) \in Nat
      BY <1>1, LeftNat
    <3>. QED  BY <2>1, <3>1, <3>2, <3>3
  <2>. QED  BY <2>5, <2>6
<1>. QED  BY <1>3, <1>4, <1>5

LEMMA AfterEnrichOwes ==
  ASSUME NEW j \in Job, Arrived(j), j.pc = "enrich"
  PROVE  OwesNoMore(AfterEnrich(j), j)
<1>. DEFINE m == [j EXCEPT !.pc = "dispatch", !.i = 1]
<1>. SUFFICES ASSUME NEW u \in User  PROVE Owed(AfterEnrich(j), u) <= Owed(j, u)
  BY Zenon DEF OwesNoMore
<1>1. m.env = j.env /\ m.pc = "dispatch" /\ m.i = 1 /\ m.chan = j.chan /\ m.rcpt = j.rcpt
  BY DEF Job
<1>2. AfterEnrich(j) \in {j, m}
  BY DEF AfterEnrich
<1>. HIDE DEF m
<1>3. Chan(m) = Chan(j)
  BY <1>1 DEF Chan, Channels, Ident
<1>4. Owed(m, u) = Owed(j, u)
  <2>1. CASE Chan(j) # ChannelInApp
    BY <1>1, <1>3, <2>1, OwedIs DEF InLoops
  <2>2. CASE Chan(j) = ChannelInApp
    BY <1>1, <1>3, <2>2, OwedIs
  <2>. QED  BY <2>1, <2>2
<1>5. Owed(j, u) \in Nat
  BY OwedNat
<1>. QED  BY <1>2, <1>4, <1>5

LEMMA AfterDispatchOwes ==
  ASSUME NEW j \in Job, Arrived(j), j.pc = "dispatch", j.chan \in DOMAIN Channels(j)
  PROVE  OwesNoMore(AfterDispatch(j), j)
<1>. SUFFICES ASSUME NEW u \in User  PROVE Owed(AfterDispatch(j), u) <= Owed(j, u)
  BY Zenon DEF OwesNoMore
<1>1. AfterDispatch(j) \in {j, EnterChannel(j, j.chan + 1)}
  BY DEF AfterDispatch
<1>2. Owed(j, u) \in Nat
  BY OwedNat
<1>. QED  BY <1>1, <1>2, NextChannelOwes

\* An attempt that failed owes nothing.
LEMMA FailAttemptOwes ==
  ASSUME NEW j \in Job, NEW u
  PROVE  Owed(FailAttempt(j), u) = 0
<1>1. FailAttempt(j).pc \in {"failed", "retry", "dlq"}
  BY DEF FailAttempt, Job
<1>. QED  BY <1>1, OwedIs DEF Storing, InLoops

\* A new attempt owes everyone a message for each place.
LEMMA BeginAttemptOwes ==
  ASSUME NEW j \in Job, Arrived(j), NEW u
  PROVE  /\ Owed(BeginAttempt(j), u) <= Left(To(j), u, 1)
         /\ BeginAttempt(j).att = j.att + 1 /\ BeginAttempt(j).env = j.env
         /\ BeginAttempt(j).pc # "new"
<1>. DEFINE fresh == [j EXCEPT !.att = @ + 1, !.i = 1,
                               !.stored = [v \in User |-> Nil],
                               !.counts = [v \in User |-> Nil],
                               !.tokens = [v \in User |-> {}]]
            p == [fresh EXCEPT !.pc = "persist"]
<1>1. fresh \in Job /\ fresh.env = j.env /\ fresh.att = j.att + 1
  <2>1. /\ j.att \in Nat /\ j.att + 1 \in Nat
        /\ [v \in User |-> Nil] \in [User -> (Nat \ {0}) \cup {Nil}]
        /\ [v \in User |-> Nil] \in [User -> Nat \cup {Nil}]
        /\ [v \in User |-> {}] \in [User -> SUBSET Token]
    BY DEF Job
  <2>2. fresh \in Job
    BY <2>1 DEF Job
  <2>3. fresh.env = j.env /\ fresh.att = j.att + 1
    BY DEF Job
  <2>. QED  BY <2>2, <2>3
<1>2. BeginAttempt(j) \in {EnterChannel(fresh, 1), p}
  BY DEF BeginAttempt
<1>3. p.env = j.env /\ p.pc = "persist" /\ p.att = j.att + 1
  BY <1>1 DEF Job
<1>. HIDE DEF fresh, p
<1>4. To(fresh) = To(j) /\ To(p) = To(j) /\ Arrived(fresh)
  BY <1>1, <1>3 DEF To, Arrived
<1>5. Owed(EnterChannel(fresh, 1), u) <= Left(To(j), u, 1)
  BY <1>1, <1>4, EnterChannelOwes
<1>6. Owed(p, u) = Left(To(j), u, 1)
  BY <1>3, <1>4, OwedIs DEF Storing
<1>7. Left(To(j), u, 1) \in Nat
  BY LeftNat, JobFacts
<1>8. Goes(EnterChannel(fresh, 1), fresh)
  BY <1>1, EnterChannelGoes
<1>9. /\ EnterChannel(fresh, 1).att = j.att + 1 /\ EnterChannel(fresh, 1).env = j.env
      /\ EnterChannel(fresh, 1).pc # "new"
  BY <1>1, <1>8 DEF Goes, InProcess
<1>. QED  BY <1>2, <1>3, <1>5, <1>6, <1>7, <1>9

-----------------------------------------------------------------------------
\* The account of a handling of which n messages tell u.
Accounted(j, u, n) ==
  IF j.pc = "new" THEN n = 0
                  ELSE n + Owed(j, u) <= j.att * Left(To(j), u, 1)

\* The inductive invariant: the accounts of every event with every recipient.
OInv ==
  /\ TInv
  /\ \A e \in Event, u \in User : Accounted(job[e], u, Sent(e, u))

\* What b owes is covered by what the handling of e owed before.
Within(b, e) ==
  \A u \in User : Sent(e, u)' + Owed(b, u) <= Sent(e, u) + Owed(job[e], u)

\* The step is about e: nothing is pushed for another event.
OthersAsBefore(e) == \A x \in Event \ {e}, u \in User : Sent(x, u)' = Sent(x, u)

\* An account that is in order stays so when no more is sent and owed together.
LEMMA AccountedOn ==
  ASSUME NEW j \in Job, NEW n \in Job, Arrived(j), n.env = j.env, n.att = j.att,
         j.pc # "new", n.pc # "new", NEW u \in User, NEW k \in Nat, NEW l \in Nat,
         l + Owed(n, u) <= k + Owed(j, u), Accounted(j, u, k)
  PROVE  Accounted(n, u, l)
<1>1. To(n) = To(j) /\ Arrived(n)
  BY DEF To, Arrived
<1>. DEFINE m == j.att * Left(To(j), u, 1)
<1>2. m \in Nat
  <2>1. j.att \in Nat /\ Left(To(j), u, 1) \in Nat
    BY LeftNat, JobFacts DEF Job
  <2>. QED  BY <2>1
<1>3. k + Owed(j, u) <= m /\ n.att * Left(To(n), u, 1) = m
  BY <1>1 DEF Accounted
<1>. HIDE DEF m
<1>4. Owed(n, u) \in Nat /\ Owed(j, u) \in Nat
  BY <1>1, OwedNat
<1>5. l + Owed(n, u) <= m
  BY <1>2, <1>3, <1>4
<1>. QED  BY <1>3, <1>5 DEF Accounted

\* The number of messages is a number, before a step and after it.
LEMMA SentAlways ==
  ASSUME TInv, TInv', NEW x, NEW u
  PROVE  Sent(x, u) \in Nat /\ Sent(x, u)' \in Nat
<1>. DEFINE t == ws'
            c == {m \in DOMAIN t : t[m].ev = x /\ t[m].room = u}
<1>1. ws \in Seq(WSMessage) /\ t \in Seq(WSMessage)
  BY DEF TInv, StateOK
<1>2. Sent(x, u) \in Nat
  BY <1>1, SentNat
<1>3. c \subseteq 1 .. Len(t)
  BY <1>1
<1>4. Len(t) \in Nat
  BY <1>1
<1>5. \A k \in Nat : IsFiniteSet(1 .. k)
  <2>. SUFFICES ASSUME NEW k \in Nat  PROVE IsFiniteSet(1 .. k)
    OBVIOUS
  <2>1. 1 \in Int /\ k \in Int
    OBVIOUS
  <2>. QED  BY <2>1, FS_Interval, Zenon
<1>6. IsFiniteSet(1 .. Len(t))
  BY <1>4, <1>5
<1>7. Sent(x, u)' = Cardinality(c)
  BY DEF Sent, Telling
<1>. HIDE DEF c, t
<1>8. Cardinality(c) \in Nat
  BY <1>3, <1>6, FS_Subset, FS_CardinalityType
<1>. QED  BY <1>2, <1>7, <1>8

\* The handling of e becomes n; the accounts of the others are as they were.
LEMMA JobStep ==
  ASSUME OInv, TInv', NEW e \in Event, NEW n, SetJob(e, n), OthersAsBefore(e),
         \A u \in User : Accounted(n, u, Sent(e, u)')
  PROVE  OInv'
<1>1. job'[e] = n /\ \A x \in Event \ {e} : job'[x] = job[x]
  BY DEF SetJob, OInv, TInv
<1>2. ASSUME NEW x \in Event \ {e}, NEW u \in User
      PROVE  Accounted(job'[x], u, Sent(x, u)')
  <2>1. Sent(x, u)' = Sent(x, u) /\ job'[x] = job[x]
    BY <1>1 DEF OthersAsBefore
  <2>. QED  BY <2>1 DEF OInv
<1>3. \A x \in Event, u \in User : Accounted(job'[x], u, Sent(x, u)')
  BY <1>1, <1>2
<1>. QED  BY <1>3 DEF OInv

\* A step of the handling of e that keeps within what it owed keeps the accounts.
LEMMA StepOwes ==
  ASSUME OInv, TInv', NEW e \in Event, NEW n, NEW b \in Job, SetJob(e, n),
         n.env = job[e].env, n.att = job[e].att, n.pc # "new", job[e].pc # "new",
         b.env = job[e].env, Within(b, e), OwesNoMore(n, b), OthersAsBefore(e)
  PROVE  OInv'
<1>1. job'[e] = n
  BY DEF SetJob, OInv, TInv
<1>2. n \in Job /\ job[e] \in Job /\ Arrived(job[e]) /\ Arrived(b) /\ Arrived(n)
  BY <1>1 DEF OInv, TInv, JobOK, Arrived
<1>3. ASSUME NEW u \in User  PROVE Accounted(n, u, Sent(e, u)')
  <2>. DEFINE k == Sent(e, u)
              l == Sent(e, u)'
  <2>1. k \in Nat /\ l \in Nat
    BY SentAlways DEF OInv
  <2>2. Owed(n, u) \in Nat /\ Owed(b, u) \in Nat /\ Owed(job[e], u) \in Nat
    BY <1>2, OwedNat
  <2>3. l + Owed(b, u) <= k + Owed(job[e], u) /\ Owed(n, u) <= Owed(b, u)
    BY DEF Within, OwesNoMore
  <2>4. Accounted(job[e], u, k)
    BY DEF OInv
  <2>. HIDE DEF k, l
  <2>5. l + Owed(n, u) <= k + Owed(job[e], u)
    BY <2>1, <2>2, <2>3
  <2>6. Accounted(n, u, l)
    BY <1>2, <2>1, <2>4, <2>5, AccountedOn
  <2>. QED  BY <2>6 DEF l
<1>. QED  BY <1>3, JobStep

\* A step that pushes nothing in-app leaves the number of messages.
LEMMA SameSent ==
  ASSUME ws' = ws
  PROVE  \A x, u : Sent(x, u)' = Sent(x, u)
BY DEF Sent, Telling

\* A step that sends nothing.
LEMMA SilentOwes ==
  ASSUME OInv, NEW e \in Event, NEW b \in Job, OwesNoMore(b, job[e]), ws' = ws,
         b.env = job[e].env, job[e].pc # "new"
  PROVE  Within(b, e) /\ OthersAsBefore(e)
<1>1. \A x, u : Sent(x, u)' = Sent(x, u)
  BY SameSent
<1>2. \A x, u : Sent(x, u) \in Nat
  BY SentNat DEF OInv, TInv, StateOK
<1>3. Arrived(b) /\ Arrived(job[e]) /\ job[e] \in Job
  BY DEF OInv, TInv, JobOK, Arrived
<1>4. \A u : Owed(b, u) \in Nat /\ Owed(job[e], u) \in Nat
  BY <1>3, OwedNat
<1>5. ASSUME NEW u \in User
      PROVE  Sent(e, u)' + Owed(b, u) <= Sent(e, u) + Owed(job[e], u)
  <2>1. Owed(b, u) <= Owed(job[e], u)
    BY DEF OwesNoMore
  <2>. QED  BY <1>1, <1>2, <1>4, <2>1
<1>. QED  BY <1>1, <1>5 DEF Within, OthersAsBefore

\* The handling goes on from b without a message.
LEMMA QuietOwes ==
  ASSUME OInv, TInv', NEW e \in Event, NEW n, NEW b \in Job, SetJob(e, n), Goes(n, b),
         b.env = job[e].env, b.att = job[e].att, job[e].pc # "new", ws' = ws,
         OwesNoMore(b, job[e]), OwesNoMore(n, b)
  PROVE  OInv'
<1>1. Within(b, e) /\ OthersAsBefore(e)
  BY SilentOwes
<1>2. n.env = job[e].env /\ n.att = job[e].att /\ n.pc # "new"
  BY DEF Goes, InProcess
<1>. QED  BY <1>1, <1>2, StepOwes

\* The handling leaves Process without a message.
LEMMA LeaveOwes ==
  ASSUME OInv, TInv', NEW e \in Event, NEW n, SetJob(e, n),
         n.env = job[e].env, n.att = job[e].att, job[e].pc # "new",
         n.pc \notin {"new"} \cup Storing \cup InLoops, ws' = ws
  PROVE  OInv'
<1>1. n \in Job /\ job[e] \in Job /\ Arrived(job[e])
  BY DEF SetJob, OInv, TInv, JobOK
<1>2. \A u \in User : Owed(n, u) = 0 /\ Owed(job[e], u) \in Nat
  BY <1>1, OwedIs, OwedNat
<1>3. OwesNoMore(n, job[e]) /\ OwesNoMore(n, n)
  BY <1>2 DEF OwesNoMore
<1>4. Within(n, e) /\ OthersAsBefore(e)
  BY <1>1, <1>3, SilentOwes
<1>. QED  BY <1>1, <1>3, <1>4, StepOwes

-----------------------------------------------------------------------------
\* One lemma per action.
LEMMA ArriveOwes ==
  ASSUME OInv, TInv', NEW e \in Event, Arrive(e)
  PROVE  OInv'
<1>1. PICK v \in Envelope : SetJob(e, [job[e] EXCEPT !.env = v, !.pc = "queued"])
  BY DEF Arrive
<1>. DEFINE n == [job[e] EXCEPT !.env = v, !.pc = "queued"]
<1>2. n \in Job /\ n.pc = "queued" /\ Arrived(n) /\ job[e].pc = "new" /\ ws' = ws
  <2>1. job[e] \in Job
    BY DEF OInv, TInv
  <2>2. n \in Job /\ n.pc = "queued" /\ n.env = v
    BY <2>1 DEF Job, PC
  <2>. QED  BY <2>2 DEF Arrive, Arrived
<1>3. SetJob(e, n)
  BY <1>1
<1>. HIDE DEF n
<1>4. ASSUME NEW u \in User  PROVE Accounted(n, u, Sent(e, u)')
  <2>1. Sent(e, u)' = 0
    BY <1>2, SameSent DEF OInv, Accounted
  <2>2. Owed(n, u) = 0
    BY <1>2, OwedIs DEF Storing, InLoops
  <2>3. n.att \in Nat /\ Left(To(n), u, 1) \in Nat
    BY <1>2, LeftNat, JobFacts DEF Job
  <2>4. 0 <= n.att * Left(To(n), u, 1)
    <3>. DEFINE x == n.att
                y == Left(To(n), u, 1)
    <3>. HIDE DEF x, y
    <3>1. x \in Nat /\ y \in Nat
      BY <2>3 DEF x, y
    <3>2. 0 <= x * y
      BY <3>1
    <3>. QED  BY <3>2 DEF x, y
  <2>. QED  BY <1>2, <2>1, <2>2, <2>4 DEF Accounted
<1>5. OthersAsBefore(e)
  BY <1>2, SameSent DEF OthersAsBefore
<1>. QED  BY <1>3, <1>4, <1>5, JobStep

\* A new attempt raises what may be sent by as much as it owes.
LEMMA AttemptOwes ==
  ASSUME OInv, TInv', NEW e \in Event, job[e].pc # "new",
         SetJob(e, BeginAttempt(job[e])), ws' = ws
  PROVE  OInv'
<1>. DEFINE j == job[e]
            n == BeginAttempt(j)
<1>1. j \in Job /\ Arrived(j)
  BY DEF OInv, TInv, JobOK
<1>2. n \in Job /\ n.env = j.env /\ n.att = j.att + 1 /\ n.pc # "new"
  BY <1>1, BeginAttemptOwes DEF SetJob, OInv, TInv
<1>3. SetJob(e, n)
  OBVIOUS
<1>4. \A u : Owed(n, u) <= Left(To(j), u, 1)
  BY <1>1, BeginAttemptOwes
<1>. HIDE DEF n
<1>5. To(n) = To(j) /\ Arrived(n)
  BY <1>1, <1>2 DEF To, Arrived
<1>6. ASSUME NEW u \in User  PROVE Accounted(n, u, Sent(e, u)')
  <2>. DEFINE y == Left(To(j), u, 1)
              a == j.att
              s == Sent(e, u)
              o == Owed(j, u)
              p == Owed(n, u)
  <2>1. y \in Nat /\ a \in Nat /\ s \in Nat /\ o \in Nat /\ p \in Nat
    BY <1>1, <1>2, <1>5, LeftNat, JobFacts, OwedNat, SentAlways DEF OInv, Job
  <2>2. s + o <= a * y
    BY DEF OInv, Accounted
  <2>3. p <= y
    BY <1>4
  <2>. HIDE DEF y, a, s, o, p
  <2>4. s + p <= (a + 1) * y
    BY <2>1, <2>2, <2>3
  <2>5. Sent(e, u)' = s
    BY SameSent DEF s
  <2>. QED  BY <1>2, <1>5, <2>4, <2>5 DEF Accounted, y, a, p
<1>7. OthersAsBefore(e)
  BY SameSent DEF OthersAsBefore
<1>. QED  BY <1>3, <1>6, <1>7, JobStep

LEMMA HandleOwes ==
  ASSUME OInv, TInv', NEW e \in Event, Handle(e)
  PROVE  OInv'
<1>. DEFINE j == job[e]
            n(p) == [j EXCEPT !.pc = p]
<1>1. j \in Job /\ j.pc # "new" /\ ws' = ws
  BY DEF Handle, OInv, TInv
<1>2. \A p : n(p).env = j.env /\ n(p).att = j.att /\ n(p).pc = p
  BY <1>1 DEF Job
<1>3. SetJob(e, n("done")) \/ SetJob(e, n("rejected")) \/ SetJob(e, BeginAttempt(j))
  BY DEF Handle
<1>. HIDE DEF n
<1>4. CASE SetJob(e, n("done"))
  BY <1>1, <1>2, <1>4, LeaveOwes DEF Storing, InLoops
<1>5. CASE SetJob(e, n("rejected"))
  BY <1>1, <1>2, <1>5, LeaveOwes DEF Storing, InLoops
<1>6. CASE SetJob(e, BeginAttempt(j))
  BY <1>1, <1>6, AttemptOwes
<1>. QED  BY <1>3, <1>4, <1>5, <1>6

\* While it stores and counts an attempt owes the same.
LEMMA StoringOwes ==
  ASSUME NEW j \in Job, Arrived(j), NEW b, b.env = j.env, j.pc \in Storing, b.pc = j.pc
  PROVE  OwesNoMore(b, j)
<1>1. To(b) = To(j)
  BY DEF To
<1>2. ASSUME NEW u \in User  PROVE Owed(b, u) <= Owed(j, u)
  <2>1. Owed(b, u) = Owed(j, u)
    BY <1>1, OwedIs
  <2>2. Owed(j, u) \in Nat
    BY OwedNat
  <2>. QED  BY <2>1, <2>2
<1>. QED  BY <1>2 DEF OwesNoMore

LEMMA PersistOwes ==
  ASSUME OInv, TInv', NEW e \in Event, Persist(e)
  PROVE  OInv'
<1>. DEFINE j == job[e]
            u == To(j)[j.i]
            id == Len(rows) + 1
            w == WithRow(j, u, id)
            a == Advance(w)
            b == Advance(j)
<1>1. j \in Job /\ Arrived(j) /\ j.pc = "persist" /\ u \in User /\ id \in Nat \ {0} /\ ws' = ws
  <2>1. j \in Job /\ Arrived(j) /\ j.pc = "persist" /\ j.i \in DOMAIN To(j)
        /\ rows \in Seq(Row) /\ ws' = ws
    BY DEF OInv, TInv, JobOK, Persist, StateOK
  <2>. QED  BY <2>1, JobFacts
<1>2. w \in Job /\ w.env = j.env /\ w.pc = j.pc /\ w.att = j.att
  <2>. HIDE DEF j, u, id
  <2>1. WithRow(j, u, id) \in Job
    BY <1>1, WithRowFacts
  <2>2. LET x == WithRow(j, u, id) IN x.env = j.env /\ x.pc = j.pc /\ x.att = j.att
    BY <1>1, WithRowFacts, Zenon
  <2>. QED  BY <2>1, <2>2
<1>. HIDE DEF w
<1>3. a \in Job /\ a.env = j.env /\ a.pc = j.pc /\ a.att = j.att
  BY <1>2, AdvanceFacts
<1>4. b \in Job /\ b.env = j.env /\ b.pc = j.pc /\ b.att = j.att
  BY <1>1, AdvanceFacts
<1>5. SetJob(e, AfterPersist(a)) \/ SetJob(e, AfterPersist(b))
  BY DEF Persist, a, b, w
<1>. HIDE DEF a, b
<1>6. ASSUME NEW c \in Job, c.env = j.env, c.pc = j.pc, c.att = j.att,
             SetJob(e, AfterPersist(c))
      PROVE  OInv'
  <2>1. Arrived(c) /\ c.pc = "persist"
    BY <1>1, <1>6 DEF Arrived
  <2>2. OwesNoMore(c, j)
    BY <1>1, <1>6, StoringOwes DEF Storing
  <2>3. OwesNoMore(AfterPersist(c), c) /\ Goes(AfterPersist(c), c)
    BY <2>1, AfterPersistOwes, AfterPersistGoes
  <2>. QED  BY <1>1, <1>6, <2>2, <2>3, QuietOwes
<1>. QED  BY <1>3, <1>4, <1>5, <1>6

LEMMA CountOwes ==
  ASSUME OInv, TInv', NEW e \in Event, Count(e)
  PROVE  OInv'
<1>. DEFINE j == job[e]
            u == To(j)[j.i]
            n == CountUnread(u)
            w == WithCount(j, u, n)
            a == Advance(w)
            b == Advance(j)
<1>1. j \in Job /\ Arrived(j) /\ j.pc = "count" /\ u \in User /\ n \in Nat /\ ws' = ws
  <2>1. j \in Job /\ Arrived(j) /\ j.pc = "count" /\ j.i \in DOMAIN To(j)
        /\ rows \in Seq(Row) /\ ws' = ws
    BY DEF OInv, TInv, JobOK, Count, StateOK
  <2>2. u \in User
    BY <2>1, JobFacts
  <2>. QED  BY <2>1, <2>2, CountUnreadFacts
<1>2. w \in Job /\ w.env = j.env /\ w.pc = j.pc /\ w.att = j.att
  <2>. HIDE DEF j, u, n
  <2>1. WithCount(j, u, n) \in Job
    BY <1>1, WithCountFacts
  <2>2. LET x == WithCount(j, u, n) IN x.env = j.env /\ x.pc = j.pc /\ x.att = j.att
    BY <1>1, WithCountFacts, Zenon
  <2>. QED  BY <2>1, <2>2
<1>. HIDE DEF w
<1>3. a \in Job /\ a.env = j.env /\ a.pc = j.pc /\ a.att = j.att
  BY <1>2, AdvanceFacts
<1>4. b \in Job /\ b.env = j.env /\ b.pc = j.pc /\ b.att = j.att
  BY <1>1, AdvanceFacts
<1>5. SetJob(e, AfterCount(a)) \/ SetJob(e, AfterCount(b))
  BY DEF Count, a, b, w, n
<1>. HIDE DEF a, b
<1>6. ASSUME NEW c \in Job, c.env = j.env, c.pc = j.pc, c.att = j.att,
             SetJob(e, AfterCount(c))
      PROVE  OInv'
  <2>1. Arrived(c) /\ c.pc = "count"
    BY <1>1, <1>6 DEF Arrived
  <2>2. OwesNoMore(c, j)
    BY <1>1, <1>6, StoringOwes DEF Storing
  <2>3. OwesNoMore(AfterCount(c), c) /\ Goes(AfterCount(c), c)
    BY <2>1, AfterCountOwes, AfterCountGoes
  <2>. QED  BY <1>1, <1>6, <2>2, <2>3, QuietOwes
<1>. QED  BY <1>3, <1>4, <1>5, <1>6

\* A recipient goes from those still to be filtered to those kept, or is let go.
LEMMA FilteredOwes ==
  ASSUME NEW j \in Job, Arrived(j), j.pc = "filter", j.i \in DOMAIN To(j),
         NEW b \in Job, b.env = j.env, b.pc = "filter", b.chan = j.chan, b.i = j.i + 1,
         b.rcpt \in {j.rcpt, Append(j.rcpt, To(j)[j.i])}
  PROVE  OwesNoMore(b, j)
<1>. DEFINE x == To(j)[j.i]
<1>1. /\ To(j) \in Seq(User) /\ j.rcpt \in Seq(User) /\ x \in User
      /\ j.i \in Nat /\ j.i + 1 \in Nat
  BY JobFacts DEF Job
<1>2. To(b) = To(j) /\ Chan(b) = Chan(j)
  BY DEF To, Chan, Channels, Ident
<1>. SUFFICES ASSUME NEW u \in User  PROVE Owed(b, u) <= Owed(j, u)
  BY Zenon DEF OwesNoMore
<1>3. CASE Chan(j) # ChannelInApp
  <2>1. Owed(b, u) = 0 /\ Owed(j, u) = 0
    BY <1>2, <1>3, OwedIs DEF InLoops
  <2>. QED  BY <2>1
<1>4. CASE Chan(j) = ChannelInApp
  <2>. DEFINE k == Left(j.rcpt, u, 1)
              k2 == Left(b.rcpt, u, 1)
              r == Left(To(j), u, j.i)
              r2 == Left(To(j), u, j.i + 1)
  <2>1. Owed(j, u) = k + r
    BY <1>4, OwedIs
  <2>2. Owed(b, u) = k2 + r2
    BY <1>2, <1>4, OwedIs
  <2>3. k \in Nat /\ r \in Nat /\ r2 \in Nat
    BY <1>1, LeftNat
  <2>4. (x = u => r = r2 + 1) /\ (x # u => r = r2)
    BY <1>1, LeftNext
  <2>5. k2 = k \/ (x = u /\ k2 = k + 1)
    <3>1. CASE b.rcpt = j.rcpt
      BY <3>1
    <3>2. CASE b.rcpt = Append(j.rcpt, x)
      BY <1>1, <3>2, LeftAppend
    <3>. QED  BY <3>1, <3>2
  <2>. HIDE DEF k, k2, r, r2, x
  <2>. QED  BY <2>1, <2>2, <2>3, <2>4, <2>5
<1>. QED  BY <1>3, <1>4

LEMMA FilterOwes ==
  ASSUME OInv, TInv', NEW e \in Event, Filter(e)
  PROVE  OInv'
<1>. DEFINE j == job[e]
            u == To(j)[j.i]
            a == Advance(Keep(j, u))
            b == Advance(j)
            c == Advance(KeepBlind(j, u))
            Like(x) == /\ x \in Job /\ x.env = j.env /\ x.att = j.att
                       /\ x.pc = "filter" /\ x.chan = j.chan
<1>1. /\ j \in Job /\ Arrived(j) /\ j.pc = "filter" /\ j.i \in DOMAIN To(j)
      /\ u \in User /\ j.chan \in DOMAIN Channels(j) /\ Chan(j) \in Channel /\ ws' = ws
  <2>1. /\ j \in Job /\ Arrived(j) /\ j.pc = "filter" /\ j.i \in DOMAIN To(j)
        /\ j.chan \in DOMAIN Channels(j) /\ ws' = ws
    BY DEF OInv, TInv, JobOK, Filter
  <2>. QED  BY <2>1, JobFacts DEF Chan
<1>2. Like(a) /\ a.i = j.i + 1 /\ a.rcpt = Append(j.rcpt, u)
  <2>. DEFINE x == Keep(j, u)
  <2>1. Like(x) /\ x.i = j.i /\ x.rcpt = Append(j.rcpt, u)
    BY <1>1, KeepFacts, Zenon
  <2>. HIDE DEF x
  <2>. QED  BY <1>1, <2>1, AdvanceFacts DEF x
<1>3. Like(b) /\ b.i = j.i + 1 /\ b.rcpt = j.rcpt
  BY <1>1, AdvanceFacts
<1>4. Like(c) /\ c.i = j.i + 1 /\ c.rcpt = Append(j.rcpt, u)
  <2>. DEFINE x == KeepBlind(j, u)
  <2>1. Like(x) /\ x.i = j.i /\ x.rcpt = Append(j.rcpt, u)
    BY <1>1, KeepBlindFacts, Zenon
  <2>. HIDE DEF x
  <2>. QED  BY <1>1, <2>1, AdvanceFacts DEF x
<1>5. \/ SetJob(e, AfterFilter(a)) \/ SetJob(e, AfterFilter(b)) \/ SetJob(e, AfterFilter(c))
  BY DEF Filter
<1>. HIDE DEF a, b, c
<1>6. ASSUME NEW m, Like(m), m.i = j.i + 1, m.rcpt \in {j.rcpt, Append(j.rcpt, u)},
             SetJob(e, AfterFilter(m))
      PROVE  OInv'
  <2>1. Arrived(m) /\ Channels(m) = Channels(j)
    BY <1>1, <1>6 DEF Arrived, Channels, Ident
  <2>2. OwesNoMore(m, j)
    BY <1>1, <1>6, FilteredOwes
  <2>3. OwesNoMore(AfterFilter(m), m) /\ Goes(AfterFilter(m), m)
    BY <1>1, <1>6, <2>1, AfterFilterOwes, AfterFilterGoes
  <2>. QED  BY <1>1, <1>6, <2>2, <2>3, QuietOwes
<1>. HIDE DEF Like
<1>. QED  BY <1>2, <1>3, <1>4, <1>5, <1>6

\* Which tokens are found does not matter for what is owed.
LEMMA EnrichOwes ==
  ASSUME OInv, TInv', NEW e \in Event, Enrich(e)
  PROVE  OInv'
<1>. DEFINE j == job[e]
            u == j.rcpt[j.i]
            ts == subs[u]
            w == WithTokens(j, u, ts)
            a == Advance(w)
            b == Advance(j)
            Like(x) == /\ x \in Job /\ x.env = j.env /\ x.att = j.att
                       /\ x.pc = "enrich" /\ x.chan = j.chan /\ x.rcpt = j.rcpt
<1>1. /\ j \in Job /\ Arrived(j) /\ j.pc = "enrich" /\ u \in User
      /\ ts \in SUBSET Token /\ ws' = ws
  <2>1. /\ j \in Job /\ Arrived(j) /\ j.pc = "enrich" /\ j.i \in DOMAIN j.rcpt
        /\ subs \in [User -> SUBSET Token] /\ ws' = ws
    BY DEF OInv, TInv, JobOK, StateOK, Enrich
  <2>2. j.rcpt \in Seq(User)
    BY <2>1 DEF Job
  <2>. QED  BY <2>1, <2>2
<1>2. Like(a)
  <2>1. Like(w)
    <3>. HIDE DEF u, ts
    <3>. QED  BY <1>1, WithTokensFacts, Zenon
  <2>. HIDE DEF w
  <2>. QED  BY <2>1, AdvanceFacts
<1>3. Like(b)
  BY <1>1, AdvanceFacts
<1>4. SetJob(e, AfterEnrich(a)) \/ SetJob(e, AfterEnrich(b))
  BY DEF Enrich
<1>. HIDE DEF a, b
<1>5. ASSUME NEW m, Like(m), SetJob(e, AfterEnrich(m))
      PROVE  OInv'
  <2>1. Arrived(m) /\ Chan(m) = Chan(j)
    BY <1>1, <1>5 DEF Arrived, Chan, Channels, Ident
  <2>2. \A x : Owed(m, x) = Owed(j, x) /\ Owed(j, x) \in Nat
    <3>. SUFFICES ASSUME NEW x  PROVE Owed(m, x) = Owed(j, x) /\ Owed(j, x) \in Nat
      OBVIOUS
    <3>1. CASE Chan(j) = ChannelInApp
      BY <1>1, <1>5, <2>1, <3>1, OwedIs, OwedNat
    <3>2. CASE Chan(j) # ChannelInApp
      BY <1>1, <1>5, <2>1, <3>2, OwedIs, OwedNat DEF InLoops
    <3>. QED  BY <3>1, <3>2
  <2>3. OwesNoMore(m, j)
    BY <2>2 DEF OwesNoMore
  <2>4. OwesNoMore(AfterEnrich(m), m) /\ Goes(AfterEnrich(m), m)
    BY <1>5, <2>1, AfterEnrichOwes, AfterEnrichGoes
  <2>. QED  BY <1>1, <1>5, <2>3, <2>4, QuietOwes
<1>. HIDE DEF Like
<1>. QED  BY <1>2, <1>3, <1>4, <1>5

\* What a message that was pushed, or may have been, adds to the accounts.
LEMMA SentBy ==
  ASSUME TInv, TInv', NEW m \in WSMessage, ws' \in {ws, Append(ws, m)}, NEW u
  PROVE  /\ \A x : x # m.ev => Sent(x, u)' = Sent(x, u)
         /\ m.room # u => Sent(m.ev, u)' = Sent(m.ev, u)
         /\ Sent(m.ev, u)' <= Sent(m.ev, u) + 1
<1>1. ws \in Seq(WSMessage)
  BY DEF TInv, StateOK
<1>2. Sent(m.ev, u) \in Nat
  BY SentAlways
<1>3. CASE ws' = ws
  BY <1>2, <1>3, SameSent
<1>4. CASE ws' = Append(ws, m)
  <2>1. ASSUME NEW x
        PROVE  /\ m.ev = x /\ m.room = u => Sent(x, u)' = Sent(x, u) + 1
               /\ ~(m.ev = x /\ m.room = u) => Sent(x, u)' = Sent(x, u)
    BY <1>1, <1>4, SentAppend
  <2>. QED  BY <1>2, <2>1
<1>. QED  BY <1>3, <1>4

\* Serving the next recipient costs the attempt one of the messages it owed
\* that recipient; a broadcast tells nobody in person.
LEMMA DispatchInAppOwes ==
  ASSUME OInv, TInv', NEW e \in Event, DispatchInApp(e)
  PROVE  OInv'
<1>. DEFINE j == job[e]
            u == j.rcpt[j.i]
            m == IF IsShared(j.env) THEN Broadcast(j, e) ELSE WSMessageTo(j, e, u)
            all == [j EXCEPT !.i = Len(j.rcpt) + 1]
            one == Advance(j)
            n == IF IsShared(j.env) THEN all ELSE one
            f == FailAttempt(j)
<1>1. /\ j \in Job /\ Arrived(j) /\ j.pc = "dispatch" /\ j.i \in Nat /\ u \in User
      /\ j.i \in DOMAIN j.rcpt
      /\ j.chan \in DOMAIN Channels(j) /\ Chan(j) = ChannelInApp /\ j.rcpt \in Seq(User)
  <2>1. TInv /\ j.pc = "dispatch" /\ Chan(j) = ChannelInApp
    BY DEF OInv, DispatchInApp
  <2>2. j.i \in DOMAIN j.rcpt
    BY <2>1 DEF TInv, JobOK
  <2>. QED  BY <2>1, <2>2, DispatchFacts
<1>2. n \in Job /\ n.env = j.env /\ n.att = j.att /\ n.pc = "dispatch"
      /\ n.chan = j.chan /\ n.rcpt = j.rcpt
      /\ (~IsShared(j.env) => n.i = j.i + 1)
      /\ (IsShared(j.env) => n.i = Len(j.rcpt) + 1)
  <2>1. Len(j.rcpt) + 1 \in Nat
    BY <1>1
  <2>2. all \in Job /\ all.env = j.env /\ all.att = j.att
        /\ all.pc = j.pc /\ all.chan = j.chan /\ all.rcpt = j.rcpt /\ all.i = Len(j.rcpt) + 1
    BY <1>1, <2>1 DEF Job
  <2>3. one \in Job /\ one.env = j.env /\ one.att = j.att
        /\ one.pc = j.pc /\ one.chan = j.chan /\ one.rcpt = j.rcpt /\ one.i = j.i + 1
    BY <1>1, AdvanceFacts, Zenon
  <2>. HIDE DEF all, one
  <2>. QED  BY <1>1, <2>2, <2>3
<1>3. m \in WSMessage /\ m.ev = e /\ m.room = IF IsShared(j.env) THEN Shared ELSE u
  <2>1. j.att \in Nat /\ j.stored[u] \in (Nat \ {0}) \cup {Nil} /\ j.counts[u] \in Nat \cup {Nil}
    BY <1>1 DEF Job
  <2>. QED  BY <1>1, <2>1 DEF WSMessage, Broadcast, WSMessageTo
<1>4. f.env = j.env /\ f.att = j.att /\ f.pc # "new"
  BY <1>1, FailAttemptFrame DEF Frame
<1>. HIDE DEF m, n, f
<1>5. \/ ws' = Append(ws, m) /\ SetJob(e, AfterDispatch(n))
      \/ ws' \in {ws, Append(ws, m)} /\ SetJob(e, f)
  BY DEF DispatchInApp, m, n, f
<1>6. OthersAsBefore(e)
  BY <1>3, <1>5, SentBy DEF OthersAsBefore, OInv
<1>7. Chan(n) = Chan(j) /\ Arrived(n) /\ Channels(n) = Channels(j)
  BY <1>1, <1>2 DEF Chan, Channels, Ident, Arrived
<1>8. ASSUME NEW v \in User
      PROVE  /\ Owed(n, v) \in Nat /\ Owed(n, v) <= Owed(j, v)
             /\ v = m.room => Owed(n, v) + 1 <= Owed(j, v)
  <2>1. Owed(j, v) = Left(j.rcpt, v, j.i) /\ Owed(n, v) = Left(j.rcpt, v, n.i)
    BY <1>1, <1>2, <1>7, OwedIs
  <2>2. CASE IsShared(j.env)
    <3>1. v # m.room
      BY <1>3, <2>2, SharedAssumption
    <3>2. Len(j.rcpt) + 1 \in Nat /\ ~(Len(j.rcpt) + 1 <= Len(j.rcpt))
      BY <1>1
    <3>3. Left(j.rcpt, v, n.i) = 0
      BY <1>1, <1>2, <2>2, <3>2, LeftNone
    <3>4. Left(j.rcpt, v, j.i) \in Nat
      BY <1>1, LeftNat
    <3>. QED  BY <2>1, <3>1, <3>3, <3>4
  <2>3. CASE ~IsShared(j.env)
    <3>1. m.room = u
      BY <1>3, <2>3
    <3>2. j.i + 1 \in Nat
      BY <1>1
    <3>3. Left(j.rcpt, v, j.i + 1) \in Nat
      BY <1>1, <3>2, LeftNat
    <3>4. /\ u = v => Left(j.rcpt, v, j.i) = Left(j.rcpt, v, j.i + 1) + 1
          /\ u # v => Left(j.rcpt, v, j.i) = Left(j.rcpt, v, j.i + 1)
      BY <1>1, LeftNext
    <3>. HIDE DEF u
    <3>. QED  BY <1>2, <2>1, <2>3, <3>1, <3>3, <3>4
  <2>. QED  BY <2>2, <2>3
<1>9. ASSUME NEW b, \A v \in User : Owed(b, v) \in Nat /\ Owed(b, v) <= Owed(n, v)
      PROVE  Within(b, e)
  <2>. SUFFICES ASSUME NEW v \in User
                PROVE  Sent(e, v)' + Owed(b, v) <= Sent(e, v) + Owed(j, v)
    BY Zenon DEF Within
  <2>1. Sent(e, v) \in Nat /\ Sent(e, v)' \in Nat
    BY SentAlways DEF OInv
  <2>2. /\ m.room # v => Sent(e, v)' = Sent(e, v)
        /\ Sent(e, v)' <= Sent(e, v) + 1
    BY <1>3, <1>5, SentBy DEF OInv
  <2>3. Owed(j, v) \in Nat
    BY <1>1, OwedNat
  <2>4. Owed(b, v) \in Nat /\ Owed(b, v) <= Owed(n, v)
    BY <1>9
  <2>5. /\ Owed(n, v) \in Nat /\ Owed(n, v) <= Owed(j, v)
        /\ v = m.room => Owed(n, v) + 1 <= Owed(j, v)
    BY <1>8
  <2>. DEFINE s == Sent(e, v)
              t == Sent(e, v)'
  <2>. HIDE DEF s, t, j
  <2>6. t + Owed(b, v) <= s + Owed(j, v)
    <3>1. CASE m.room = v
      BY <2>1, <2>2, <2>3, <2>4, <2>5, <3>1 DEF s, t
    <3>2. CASE m.room # v
      BY <2>1, <2>2, <2>3, <2>4, <2>5, <3>2 DEF s, t
    <3>. QED  BY <3>1, <3>2
  <2>. QED  BY <2>6 DEF s, t
<1>10. CASE ws' = Append(ws, m) /\ SetJob(e, AfterDispatch(n))
  <2>1. Within(n, e)
    BY <1>8, <1>9
  <2>2. OwesNoMore(AfterDispatch(n), n) /\ Goes(AfterDispatch(n), n)
    BY <1>1, <1>2, <1>7, AfterDispatchOwes, AfterDispatchGoes
  <2>3. /\ AfterDispatch(n).env = j.env /\ AfterDispatch(n).att = j.att
        /\ AfterDispatch(n).pc # "new"
    BY <1>2, <2>2 DEF Goes, InProcess
  <2>. QED  BY <1>1, <1>2, <1>6, <1>10, <2>1, <2>2, <2>3, StepOwes
<1>11. CASE ws' \in {ws, Append(ws, m)} /\ SetJob(e, f)
  <2>1. \A v : Owed(f, v) = 0
    BY <1>1, FailAttemptOwes DEF f
  <2>2. Within(f, e)
    BY <1>8, <1>9, <2>1
  <2>3. OwesNoMore(f, f)
    BY <2>1 DEF OwesNoMore
  <2>4. f \in Job
    BY <1>11 DEF SetJob, OInv, TInv
  <2>. QED  BY <1>1, <1>4, <1>6, <1>11, <2>2, <2>3, <2>4, StepOwes
<1>. QED  BY <1>5, <1>10, <1>11

\* A push is not an in-app message.
LEMMA DispatchPushOwes ==
  ASSUME OInv, TInv', NEW e \in Event, DispatchPush(e)
  PROVE  OInv'
<1>. DEFINE j == job[e]
            n == Advance(j)
            f == FailAttempt(j)
<1>1. /\ j \in Job /\ Arrived(j) /\ j.pc = "dispatch" /\ ws' = ws
      /\ j.chan \in DOMAIN Channels(j) /\ Chan(j) = ChannelPush
  BY DispatchFacts DEF OInv, DispatchPush
<1>2. n \in Job /\ n.env = j.env /\ n.att = j.att /\ n.pc = "dispatch" /\ n.chan = j.chan
  BY <1>1, AdvanceFacts
<1>3. f.env = j.env /\ f.att = j.att /\ f.pc \in {"failed", "retry", "dlq"}
  <2>1. f.env = j.env /\ f.att = j.att
    BY <1>1, FailAttemptFrame DEF Frame
  <2>2. f.pc \in {"failed", "retry", "dlq"}
    BY <1>1 DEF FailAttempt, Job
  <2>. QED  BY <2>1, <2>2
<1>4. SetJob(e, AfterDispatch(n)) \/ SetJob(e, f)
  BY DEF DispatchPush
<1>. HIDE DEF n, f
<1>5. CASE SetJob(e, AfterDispatch(n))
  <2>1. Chan(n) = Chan(j) /\ Arrived(n) /\ Channels(n) = Channels(j)
    BY <1>1, <1>2 DEF Chan, Channels, Ident, Arrived
  <2>2. ChannelPush # ChannelInApp
    BY DEF ChannelPush, ChannelInApp
  <2>3. \A u : Owed(n, u) = 0 /\ Owed(j, u) = 0
    BY <1>1, <1>2, <2>1, <2>2, OwedIs DEF InLoops
  <2>4. OwesNoMore(n, j)
    BY <2>3 DEF OwesNoMore
  <2>5. OwesNoMore(AfterDispatch(n), n) /\ Goes(AfterDispatch(n), n)
    BY <1>1, <1>2, <2>1, AfterDispatchOwes, AfterDispatchGoes
  <2>. QED  BY <1>1, <1>2, <1>5, <2>4, <2>5, QuietOwes
<1>6. CASE SetJob(e, f)
  BY <1>1, <1>3, <1>6, LeaveOwes DEF Storing, InLoops
<1>. QED  BY <1>4, <1>5, <1>6

LEMMA CrashOwes ==
  ASSUME OInv, TInv', NEW e \in Event, Crash(e)
  PROVE  OInv'
<1>. DEFINE j == job[e]
            a == [j EXCEPT !.pc = "queued", !.tries = 0]
            b == [j EXCEPT !.pc = "lost"]
<1>1. j \in Job /\ j.pc # "new" /\ ws' = ws
  BY DEF Crash, OInv, TInv, InFlight
<1>2. /\ a.env = j.env /\ a.att = j.att /\ a.pc = "queued"
      /\ b.env = j.env /\ b.att = j.att /\ b.pc = "lost"
  BY <1>1 DEF Job
<1>3. SetJob(e, a) \/ SetJob(e, b)
  BY DEF Crash
<1>. HIDE DEF a, b
<1>4. CASE SetJob(e, a)
  BY <1>1, <1>2, <1>4, LeaveOwes DEF Storing, InLoops
<1>5. CASE SetJob(e, b)
  BY <1>1, <1>2, <1>5, LeaveOwes DEF Storing, InLoops
<1>. QED  BY <1>3, <1>4, <1>5

LEMMA NextOwes ==
  ASSUME OInv, TInv', [Next]_vars
  PROVE  OInv'
<1>1. ASSUME NEW e \in Event, Arrive(e) \/ Step(e) \/ Crash(e)
      PROVE  OInv'
  BY <1>1, ArriveOwes, HandleOwes, PersistOwes, CountOwes, FilterOwes, EnrichOwes,
     DispatchInAppOwes, DispatchPushOwes, CrashOwes DEF Step
<1>2. CASE Meanwhile \/ UNCHANGED vars
  <2>1. job' = job /\ ws' = ws
    BY <1>2 DEF Meanwhile, Prefer, Register, Read, Delete, Tick, vars
  <2>2. \A e, u : Sent(e, u)' = Sent(e, u)
    BY <2>1, SameSent
  <2>. QED  BY <2>1, <2>2 DEF OInv
<1>. QED  BY <1>1, <1>2 DEF Next

LEMMA InitOwes ==
  ASSUME Init
  PROVE  OInv
<1>1. TInv
  BY InitOK
<1>2. \A e \in Event : job[e].pc = "new"
  BY DEF Init, NewJob
<1>3. ASSUME NEW e, NEW u  PROVE Sent(e, u) = 0
  <2>1. Telling(e, u) = {}
    BY DEF Init, Telling
  <2>. QED  BY <2>1, FS_EmptySet DEF Sent
<1>. QED  BY <1>1, <1>2, <1>3 DEF OInv, Accounted

\* No attempt sends a recipient more than one in-app message for each time the
\* producer named it.
THEOREM Accounts == Spec => []OInv
<1>1. Init => OInv
  BY InitOwes
<1>2. OInv /\ [Next]_vars => OInv'
  BY NextOK, NextOwes DEF OInv
<1>. QED  BY <1>1, <1>2, PTL DEF Spec

-----------------------------------------------------------------------------
(***************************************************************************)
(* Why a handling ends: a bound on the steps it has left, which every step *)
(* of it lowers.                                                           *)
(***************************************************************************)

\* The places of a list from the i-th on.
Turns(s, i) == Len(s) - i + 1

\* Filter, Enrich and Dispatch take up a recipient at most once in a channel.
PerChannel(j) == 3 * Len(To(j))

LaterChannels(j) == (Len(Channels(j)) - j.chan) * PerChannel(j)

AllChannels(j) == Len(Channels(j)) * PerChannel(j)

\* The steps that the attempt under way has left at most.
InAttempt(j) ==
  CASE j.pc = "persist"  -> Turns(To(j), j.i) + Len(To(j)) + AllChannels(j)
    [] j.pc = "count"    -> Turns(To(j), j.i) + AllChannels(j)
    [] j.pc = "filter"   -> 3 * Turns(To(j), j.i) + 2 * Len(j.rcpt) + LaterChannels(j)
    [] j.pc = "enrich"   -> Turns(j.rcpt, j.i) + Len(j.rcpt) + LaterChannels(j)
    [] j.pc = "dispatch" -> Turns(j.rcpt, j.i) + LaterChannels(j)
    [] OTHER             -> 0

\* A whole attempt: Handle, then Persist and Count for every recipient.
Attempt(j) == 1 + 2 * Len(To(j)) + AllChannels(j)

\* And those of the attempts that the consumer may still make.
CallsLeft(j) ==
  CASE j.pc \in InProcess           -> InAttempt(j) + (RetryCount - j.tries) * Attempt(j)
    [] j.pc \in {"queued", "retry"} -> (RetryCount - j.tries + 1) * Attempt(j)
    [] OTHER                        -> 0

\* One more factor.
LEMMA Product ==
  ASSUME NEW a \in Nat, NEW b \in Nat
  PROVE  a * b \in Nat /\ (a + 1) * b = a * b + b
OBVIOUS

\* Where the handling can stand, one place past the end of a list included.
Stands(j) ==
  /\ j \in Job /\ Arrived(j)
  /\ j.pc \in {"persist", "count", "filter"} => j.i <= Len(To(j)) + 1
  /\ j.pc \in {"filter", "enrich", "dispatch"} => j.chan \in DOMAIN Channels(j)
  /\ j.pc \in {"enrich", "dispatch"} => j.i <= Len(j.rcpt) + 1

LEMMA InAttemptIs ==
  ASSUME NEW j
  PROVE  /\ j.pc = "persist" => InAttempt(j) = Turns(To(j), j.i) + Len(To(j)) + AllChannels(j)
         /\ j.pc = "count" => InAttempt(j) = Turns(To(j), j.i) + AllChannels(j)
         /\ j.pc = "filter"
            => InAttempt(j) = 3 * Turns(To(j), j.i) + 2 * Len(j.rcpt) + LaterChannels(j)
         /\ j.pc = "enrich"
            => InAttempt(j) = Turns(j.rcpt, j.i) + Len(j.rcpt) + LaterChannels(j)
         /\ j.pc = "dispatch" => InAttempt(j) = Turns(j.rcpt, j.i) + LaterChannels(j)
         /\ j.pc \notin InProcess => InAttempt(j) = 0
<1>. DEFINE a == Turns(To(j), j.i) + Len(To(j)) + AllChannels(j)
            b == Turns(To(j), j.i) + AllChannels(j)
            c == 3 * Turns(To(j), j.i) + 2 * Len(j.rcpt) + LaterChannels(j)
            d == Turns(j.rcpt, j.i) + Len(j.rcpt) + LaterChannels(j)
            f == Turns(j.rcpt, j.i) + LaterChannels(j)
            p == j.pc
<1>1. InAttempt(j) = CASE p = "persist" -> a [] p = "count" -> b [] p = "filter" -> c
                       [] p = "enrich" -> d [] p = "dispatch" -> f [] OTHER -> 0
  BY DEF InAttempt
<1>. HIDE DEF a, b, c, d, f, p
<1>2. /\ p = "persist" => InAttempt(j) = a
      /\ p = "count" => InAttempt(j) = b
      /\ p = "filter" => InAttempt(j) = c
      /\ p = "enrich" => InAttempt(j) = d
      /\ p = "dispatch" => InAttempt(j) = f
      /\ p \notin InProcess => InAttempt(j) = 0
  BY <1>1 DEF InProcess
<1>. QED  BY <1>2 DEF a, b, c, d, f, p

\* The lengths that count.
LEMMA Sizes ==
  ASSUME NEW j \in Job, Arrived(j)
  PROVE  /\ Len(To(j)) \in Nat /\ Len(Channels(j)) \in Nat /\ Len(j.rcpt) \in Nat
         /\ DOMAIN Channels(j) = 1 .. Len(Channels(j))
         /\ DOMAIN To(j) = 1 .. Len(To(j)) /\ DOMAIN j.rcpt = 1 .. Len(j.rcpt)
         /\ PerChannel(j) \in Nat /\ AllChannels(j) \in Nat /\ Attempt(j) \in Nat
         /\ j.i \in Nat /\ j.tries \in Nat /\ RetryCount - j.tries \in Nat
         /\ j.chan \in DOMAIN Channels(j) => LaterChannels(j) \in Nat
<1>1. /\ Len(To(j)) \in Nat /\ Len(Channels(j)) \in Nat /\ Len(j.rcpt) \in Nat
      /\ DOMAIN Channels(j) = 1 .. Len(Channels(j))
      /\ DOMAIN To(j) = 1 .. Len(To(j)) /\ DOMAIN j.rcpt = 1 .. Len(j.rcpt)
  <2>1. To(j) \in Seq(User) /\ Channels(j) \in Seq(Channel) /\ j.rcpt \in Seq(User)
    BY JobFacts DEF Job
  <2>. QED  BY <2>1
<1>2. j.i \in Nat /\ j.tries \in Nat /\ RetryCount - j.tries \in Nat
  BY IngestAssumption DEF Job
<1>3. PerChannel(j) \in Nat
  BY <1>1 DEF PerChannel
<1>4. AllChannels(j) \in Nat
  BY <1>1, <1>3, Product DEF AllChannels
<1>5. Attempt(j) \in Nat
  BY <1>1, <1>4 DEF Attempt
<1>6. j.chan \in DOMAIN Channels(j) => LaterChannels(j) \in Nat
  <2>1. j.chan \in DOMAIN Channels(j) => Len(Channels(j)) - j.chan \in Nat
    BY <1>1
  <2>. QED  BY <1>3, <2>1, Product DEF LaterChannels
<1>. QED  BY <1>1, <1>2, <1>3, <1>4, <1>5, <1>6

LEMMA InAttemptNat ==
  ASSUME NEW j, Stands(j)
  PROVE  InAttempt(j) \in Nat
<1>1. j \in Job /\ Arrived(j)
  BY DEF Stands
<1>2. j.pc \in {"persist", "count", "filter"} => Turns(To(j), j.i) \in Nat
  BY <1>1, Sizes DEF Stands, Turns
<1>3. j.pc \in {"enrich", "dispatch"} => Turns(j.rcpt, j.i) \in Nat
  BY <1>1, Sizes DEF Stands, Turns
<1>4. j.pc \in {"filter", "enrich", "dispatch"} => LaterChannels(j) \in Nat
  BY <1>1, Sizes DEF Stands
<1>5. Len(To(j)) \in Nat /\ AllChannels(j) \in Nat /\ Len(j.rcpt) \in Nat
  BY <1>1, Sizes
<1>. QED  BY <1>2, <1>3, <1>4, <1>5, InAttemptIs DEF InProcess

LEMMA CallsNat ==
  ASSUME NEW j, Stands(j)
  PROVE  CallsLeft(j) \in Nat
<1>1. j \in Job /\ Arrived(j) /\ InAttempt(j) \in Nat
  BY InAttemptNat DEF Stands
<1>. DEFINE r == RetryCount - j.tries
            a == Attempt(j)
<1>2. r \in Nat /\ a \in Nat
  BY <1>1, Sizes
<1>. HIDE DEF r, a
<1>3. r * a \in Nat /\ (r + 1) * a \in Nat
  BY <1>2, Product
<1>4. CallsLeft(j) = CASE j.pc \in InProcess -> InAttempt(j) + r * a
                       [] j.pc \in {"queued", "retry"} -> (r + 1) * a
                       [] OTHER -> 0
  BY DEF CallsLeft, r, a
<1>. QED  BY <1>1, <1>3, <1>4 DEF InProcess

\* Within an attempt the calls left go down with what is left of the attempt.
LEMMA GoesDown ==
  ASSUME NEW j, Stands(j), j.pc \in InProcess,
         NEW n, n.env = j.env, n.tries = j.tries, n.pc \in InProcess \cup {"done"},
         InAttempt(n) \in Nat, InAttempt(n) < InAttempt(j)
  PROVE  CallsLeft(n) < CallsLeft(j)
<1>1. j \in Job /\ Arrived(j) /\ InAttempt(j) \in Nat
  BY InAttemptNat DEF Stands
<1>. DEFINE r == RetryCount - j.tries
            a == Attempt(j)
<1>3. Attempt(n) = a
  BY DEF Attempt, To, AllChannels, PerChannel, Channels, Ident
<1>4. r * a \in Nat
  <2>1. r \in Nat /\ a \in Nat
    BY <1>1, Sizes
  <2>. HIDE DEF r, a
  <2>. QED  BY <2>1, Product
<1>5. CallsLeft(j) = InAttempt(j) + r * a
  BY DEF CallsLeft, InProcess
<1>6. CallsLeft(n) = IF n.pc \in InProcess THEN InAttempt(n) + r * a ELSE 0
  BY <1>3 DEF CallsLeft, InProcess
<1>. HIDE DEF r, a
<1>. QED  BY <1>1, <1>4, <1>5, <1>6

\* What a channel costs that begins.
LEMMA EnterChannelCosts ==
  ASSUME NEW j \in Job, Arrived(j), NEW c \in Nat \ {0}, c <= Len(Channels(j)) + 1
  PROVE  /\ InAttempt(EnterChannel(j, c)) \in Nat
         /\ InAttempt(EnterChannel(j, c)) <= (Len(Channels(j)) - (c - 1)) * PerChannel(j)
<1>. DEFINE d == [j EXCEPT !.pc = "done"]
            f == [j EXCEPT !.pc = "filter", !.chan = c, !.i = 1, !.rcpt = <<>>,
                           !.clock = now]
            m == Len(Channels(j))
            p == PerChannel(j)
            l == Len(To(j))
<1>0. m \in Nat /\ p \in Nat /\ l \in Nat /\ p = 3 * l
  <2>1. m \in Nat /\ p \in Nat /\ l \in Nat
    BY Sizes
  <2>. QED  BY <2>1 DEF PerChannel
<1>1. d.pc = "done"
  BY DEF Job
<1>2. f.env = j.env /\ f.pc = "filter" /\ f.chan = c /\ f.i = 1 /\ f.rcpt = <<>>
  BY DEF Job
<1>. HIDE DEF d, f
<1>3. /\ c > m => EnterChannel(j, c) = d
      /\ ~(c > m) => EnterChannel(j, c) = f
  BY DEF EnterChannel, d, f
<1>. HIDE DEF m, p, l
<1>4. CASE c > m
  <2>1. InAttempt(d) = 0
    BY <1>1, InAttemptIs DEF InProcess
  <2>2. m - (c - 1) \in Nat
    BY <1>0, <1>4 DEF m
  <2>3. (m - (c - 1)) * p \in Nat
    BY <1>0, <2>2, Product
  <2>. QED  BY <1>3, <1>4, <2>1, <2>3 DEF m, p
<1>5. CASE ~(c > m)
  <2>1. Turns(To(f), f.i) = l /\ Len(f.rcpt) = 0 /\ LaterChannels(f) = (m - c) * p
    <3>1. To(f) = To(j) /\ Channels(f) = Channels(j)
      BY <1>2 DEF To, Channels, Ident
    <3>2. PerChannel(f) = p
      BY <3>1 DEF PerChannel, p
    <3>3. LaterChannels(f) = (m - c) * p
      BY <1>2, <3>1, <3>2 DEF LaterChannels, m
    <3>4. Turns(To(f), f.i) = l
      BY <1>0, <1>2, <3>1 DEF Turns, l
    <3>. QED  BY <1>2, <3>3, <3>4
  <2>2. InAttempt(f) = 3 * l + 2 * 0 + (m - c) * p
    BY <1>2, <2>1, InAttemptIs
  <2>3. m - c \in Nat /\ m - (c - 1) = (m - c) + 1
    BY <1>0, <1>5
  <2>4. (m - c) * p \in Nat /\ (m - (c - 1)) * p = (m - c) * p + p
    BY <1>0, <2>3, Product
  <2>5. InAttempt(f) = (m - (c - 1)) * p
    <3>. DEFINE x == (m - c) * p
                y == (m - (c - 1)) * p
    <3>. HIDE DEF x, y
    <3>1. x \in Nat /\ y = x + p /\ InAttempt(f) = 3 * l + 2 * 0 + x
      BY <2>2, <2>4 DEF x, y
    <3>2. InAttempt(f) = y
      BY <1>0, <3>1
    <3>. QED  BY <3>2 DEF y
  <2>. QED  BY <1>0, <1>3, <1>5, <2>4, <2>5 DEF m, p
<1>. QED  BY <1>4, <1>5

\* The transitions between the loops do not lengthen an attempt.
Shorter(n, j) == InAttempt(n) \in Nat /\ InAttempt(n) <= InAttempt(j)

LEMMA AfterPersistShorter ==
  ASSUME NEW j, Stands(j), j.pc = "persist"
  PROVE  Shorter(AfterPersist(j), j)
<1>. DEFINE n == [j EXCEPT !.pc = "count", !.i = 1]
<1>1. j \in Job /\ Arrived(j) /\ InAttempt(j) \in Nat /\ j.i <= Len(To(j)) + 1
  BY InAttemptNat DEF Stands
<1>2. n.env = j.env /\ n.pc = "count" /\ n.i = 1
  BY <1>1 DEF Job
<1>3. AfterPersist(j) = IF j.i <= Len(To(j)) THEN j ELSE n
  BY DEF AfterPersist
<1>. HIDE DEF n
<1>4. Len(To(j)) \in Nat /\ AllChannels(j) \in Nat /\ j.i \in Nat
  BY <1>1, Sizes
<1>5. To(n) = To(j) /\ AllChannels(n) = AllChannels(j)
  BY <1>2 DEF To, AllChannels, PerChannel, Channels, Ident
<1>6. InAttempt(n) = Turns(To(j), 1) + AllChannels(j)
  BY <1>2, <1>5, InAttemptIs
<1>7. InAttempt(j) = Turns(To(j), j.i) + Len(To(j)) + AllChannels(j)
  BY InAttemptIs
<1>8. InAttempt(n) \in Nat /\ InAttempt(n) <= InAttempt(j)
  BY <1>1, <1>4, <1>6, <1>7 DEF Turns
<1>. QED  BY <1>1, <1>3, <1>8 DEF Shorter

LEMMA AfterCountShorter ==
  ASSUME NEW j, Stands(j), j.pc = "count"
  PROVE  Shorter(AfterCount(j), j)
<1>1. j \in Job /\ Arrived(j) /\ InAttempt(j) \in Nat /\ j.i <= Len(To(j)) + 1
  BY InAttemptNat DEF Stands
<1>2. Len(To(j)) \in Nat /\ AllChannels(j) \in Nat /\ j.i \in Nat /\ Len(Channels(j)) \in Nat
  BY <1>1, Sizes
<1>3. InAttempt(j) = Turns(To(j), j.i) + AllChannels(j)
  BY InAttemptIs
<1>4. InAttempt(EnterChannel(j, 1)) \in Nat
      /\ InAttempt(EnterChannel(j, 1)) <= AllChannels(j)
  <2>1. /\ InAttempt(EnterChannel(j, 1)) \in Nat
        /\ InAttempt(EnterChannel(j, 1)) <= (Len(Channels(j)) - (1 - 1)) * PerChannel(j)
    BY <1>1, <1>2, EnterChannelCosts
  <2>2. Len(Channels(j)) - (1 - 1) = Len(Channels(j))
    BY <1>2
  <2>. QED  BY <2>1, <2>2 DEF AllChannels
<1>5. AfterCount(j) \in {j, EnterChannel(j, 1)}
  BY DEF AfterCount
<1>6. AllChannels(j) <= InAttempt(j)
  BY <1>1, <1>2, <1>3 DEF Turns
<1>. QED  BY <1>1, <1>2, <1>4, <1>5, <1>6 DEF Shorter

\* The next channel costs what the channels after this one do.
LEMMA NextChannelCosts ==
  ASSUME NEW j \in Job, Arrived(j), j.chan \in DOMAIN Channels(j)
  PROVE  /\ InAttempt(EnterChannel(j, j.chan + 1)) \in Nat
         /\ InAttempt(EnterChannel(j, j.chan + 1)) <= LaterChannels(j)
<1>. DEFINE c == j.chan + 1
<1>1. c \in Nat \ {0} /\ c <= Len(Channels(j)) + 1
      /\ Len(Channels(j)) - (c - 1) = Len(Channels(j)) - j.chan
  BY Sizes
<1>. HIDE DEF c
<1>2. /\ InAttempt(EnterChannel(j, c)) \in Nat
      /\ InAttempt(EnterChannel(j, c)) <= (Len(Channels(j)) - (c - 1)) * PerChannel(j)
  BY <1>1, EnterChannelCosts
<1>. QED  BY <1>1, <1>2 DEF c, LaterChannels

LEMMA AfterFilterShorter ==
  ASSUME NEW j, Stands(j), j.pc = "filter"
  PROVE  Shorter(AfterFilter(j), j)
<1>. DEFINE n(p) == [j EXCEPT !.i = 1, !.tokens = [u \in User |-> {}], !.pc = p]
            x == n("enrich")
            y == n("dispatch")
            z == EnterChannel(j, j.chan + 1)
            k == Len(j.rcpt)
            l == LaterChannels(j)
<1>1. j \in Job /\ Arrived(j) /\ InAttempt(j) \in Nat /\ j.i <= Len(To(j)) + 1
      /\ j.chan \in DOMAIN Channels(j)
  BY InAttemptNat DEF Stands
<1>2. Len(To(j)) \in Nat /\ k \in Nat /\ j.i \in Nat /\ l \in Nat
  BY <1>1, Sizes
<1>3. /\ x.env = j.env /\ x.pc = "enrich" /\ x.i = 1 /\ x.rcpt = j.rcpt /\ x.chan = j.chan
      /\ y.env = j.env /\ y.pc = "dispatch" /\ y.i = 1 /\ y.rcpt = j.rcpt /\ y.chan = j.chan
  BY <1>1 DEF Job
<1>4. AfterFilter(j) \in {j, x, y, z}
  BY <1>1, <1>2 DEF AfterFilter
<1>5. InAttempt(z) \in Nat /\ InAttempt(z) <= l
  BY <1>1, NextChannelCosts
<1>. HIDE DEF x, y, z
<1>6. LaterChannels(x) = l /\ LaterChannels(y) = l
  BY <1>3 DEF LaterChannels, PerChannel, To, Channels, Ident
<1>. HIDE DEF k, l
<1>7. Turns(j.rcpt, 1) = k
  BY <1>2 DEF Turns, k
<1>8. InAttempt(x) = k + k + l /\ InAttempt(y) = k + l
  BY <1>3, <1>6, <1>7, InAttemptIs DEF k
<1>9. InAttempt(j) = 3 * Turns(To(j), j.i) + 2 * k + l
  BY InAttemptIs DEF k, l
<1>10. Turns(To(j), j.i) \in Nat
  BY <1>1, <1>2 DEF Turns
<1>11. k + k + l <= InAttempt(j)
  BY <1>2, <1>9, <1>10
<1>. QED  BY <1>1, <1>2, <1>4, <1>5, <1>8, <1>11 DEF Shorter

LEMMA AfterEnrichShorter ==
  ASSUME NEW j, Stands(j), j.pc = "enrich"
  PROVE  Shorter(AfterEnrich(j), j)
<1>. DEFINE n == [j EXCEPT !.pc = "dispatch", !.i = 1]
<1>1. j \in Job /\ Arrived(j) /\ InAttempt(j) \in Nat /\ j.i <= Len(j.rcpt) + 1
      /\ j.chan \in DOMAIN Channels(j)
  BY InAttemptNat DEF Stands
<1>2. n.env = j.env /\ n.pc = "dispatch" /\ n.i = 1 /\ n.rcpt = j.rcpt /\ n.chan = j.chan
  BY <1>1 DEF Job
<1>3. AfterEnrich(j) \in {j, n}
  BY DEF AfterEnrich
<1>. HIDE DEF n
<1>4. Len(j.rcpt) \in Nat /\ LaterChannels(j) \in Nat /\ j.i \in Nat
  BY <1>1, Sizes
<1>5. LaterChannels(n) = LaterChannels(j)
  BY <1>2 DEF LaterChannels, PerChannel, To, Channels, Ident
<1>6. InAttempt(n) = Turns(j.rcpt, 1) + LaterChannels(j)
  BY <1>2, <1>5, InAttemptIs
<1>7. InAttempt(j) = Turns(j.rcpt, j.i) + Len(j.rcpt) + LaterChannels(j)
  BY InAttemptIs
<1>8. InAttempt(n) \in Nat /\ InAttempt(n) <= InAttempt(j)
  BY <1>1, <1>4, <1>6, <1>7 DEF Turns
<1>. QED  BY <1>1, <1>3, <1>8 DEF Shorter

LEMMA AfterDispatchShorter ==
  ASSUME NEW j, Stands(j), j.pc = "dispatch"
  PROVE  Shorter(AfterDispatch(j), j)
<1>1. j \in Job /\ Arrived(j) /\ InAttempt(j) \in Nat /\ j.i <= Len(j.rcpt) + 1
      /\ j.chan \in DOMAIN Channels(j)
  BY InAttemptNat DEF Stands
<1>2. Len(j.rcpt) \in Nat /\ LaterChannels(j) \in Nat /\ j.i \in Nat
  BY <1>1, Sizes
<1>3. AfterDispatch(j) \in {j, EnterChannel(j, j.chan + 1)}
  BY DEF AfterDispatch
<1>4. InAttempt(EnterChannel(j, j.chan + 1)) \in Nat
      /\ InAttempt(EnterChannel(j, j.chan + 1)) <= LaterChannels(j)
  BY <1>1, NextChannelCosts
<1>5. InAttempt(j) = Turns(j.rcpt, j.i) + LaterChannels(j)
  BY InAttemptIs
<1>6. LaterChannels(j) <= InAttempt(j)
  BY <1>1, <1>2, <1>5 DEF Turns
<1>. QED  BY <1>1, <1>2, <1>3, <1>4, <1>6 DEF Shorter

LEMMA JobStands ==
  ASSUME TInv, NEW e \in Event, job[e].pc # "new"
  PROVE  Stands(job[e])
<1>. DEFINE j == job[e]
<1>1. JobOK(j) /\ j \in Job /\ Arrived(j)
  BY DEF TInv, JobOK
<1>2. j.pc \in {"persist", "count", "filter"} => j.i <= Len(To(j)) + 1
  BY <1>1, Sizes DEF JobOK
<1>3. j.pc \in {"enrich", "dispatch"} => j.i <= Len(j.rcpt) + 1
  BY <1>1, Sizes DEF JobOK
<1>. QED  BY <1>1, <1>2, <1>3 DEF JobOK, Stands

\* Going on in a list shortens the attempt.
LEMMA OneLess ==
  ASSUME NEW j, Stands(j), j.pc \in InProcess,
         NEW n \in Job, n.env = j.env, n.pc = j.pc, n.chan = j.chan, j.i < n.i,
         j.pc \in {"persist", "count", "filter"} => n.i <= Len(To(j)) + 1,
         j.pc = "filter" => Len(n.rcpt) <= Len(j.rcpt) + 1,
         j.pc \in {"enrich", "dispatch"} => n.rcpt = j.rcpt /\ n.i <= Len(j.rcpt) + 1
  PROVE  Stands(n) /\ InAttempt(n) < InAttempt(j)
<1>1. j \in Job /\ Arrived(j) /\ Arrived(n)
  BY DEF Stands, Arrived
<1>2. /\ To(n) = To(j) /\ Channels(n) = Channels(j) /\ AllChannels(n) = AllChannels(j)
      /\ LaterChannels(n) = LaterChannels(j)
  BY DEF To, Channels, Ident, AllChannels, LaterChannels, PerChannel
<1>3. Stands(n)
  BY <1>1, <1>2 DEF Stands
<1>4. /\ Len(To(j)) \in Nat /\ Len(j.rcpt) \in Nat /\ Len(n.rcpt) \in Nat /\ j.i \in Nat
      /\ n.i \in Nat /\ AllChannels(j) \in Nat
      /\ j.pc \in {"filter", "enrich", "dispatch"} => LaterChannels(j) \in Nat
  <2>1. j.pc \in {"filter", "enrich", "dispatch"} => j.chan \in DOMAIN Channels(j)
    BY DEF Stands
  <2>2. n.i \in Nat /\ Len(n.rcpt) \in Nat
    BY <1>1, Sizes
  <2>. QED  BY <1>1, <2>1, <2>2, Sizes
<1>5. /\ Turns(To(n), n.i) = Len(To(j)) - n.i + 1 /\ Turns(To(j), j.i) = Len(To(j)) - j.i + 1
      /\ Turns(j.rcpt, n.i) = Len(j.rcpt) - n.i + 1 /\ Turns(j.rcpt, j.i) = Len(j.rcpt) - j.i + 1
  BY <1>2 DEF Turns
<1>6. CASE j.pc = "persist"
  <2>1. /\ InAttempt(j) = Turns(To(j), j.i) + Len(To(j)) + AllChannels(j)
        /\ InAttempt(n) = Turns(To(n), n.i) + Len(To(j)) + AllChannels(j)
    BY <1>2, <1>6, InAttemptIs
  <2>. QED  BY <1>3, <1>4, <1>5, <2>1
<1>7. CASE j.pc = "count"
  <2>1. /\ InAttempt(j) = Turns(To(j), j.i) + AllChannels(j)
        /\ InAttempt(n) = Turns(To(n), n.i) + AllChannels(j)
    BY <1>2, <1>7, InAttemptIs
  <2>. QED  BY <1>3, <1>4, <1>5, <2>1
<1>8. CASE j.pc = "filter"
  <2>1. /\ InAttempt(j) = 3 * Turns(To(j), j.i) + 2 * Len(j.rcpt) + LaterChannels(j)
        /\ InAttempt(n) = 3 * Turns(To(n), n.i) + 2 * Len(n.rcpt) + LaterChannels(j)
    BY <1>2, <1>8, InAttemptIs
  <2>. DEFINE a == Len(To(j))
              b == Len(j.rcpt)
              c == Len(n.rcpt)
              d == LaterChannels(j)
              k == j.i
              l == n.i
  <2>2. /\ a \in Nat /\ b \in Nat /\ c \in Nat /\ d \in Nat /\ k \in Nat /\ l \in Nat
        /\ k < l /\ c <= b + 1
        /\ InAttempt(j) = 3 * (a - k + 1) + 2 * b + d
        /\ InAttempt(n) = 3 * (a - l + 1) + 2 * c + d
    BY <1>4, <1>5, <1>8, <2>1
  <2>. HIDE DEF a, b, c, d, k, l
  <2>. QED  BY <1>3, <2>2
<1>9. CASE j.pc = "enrich"
  <2>1. /\ InAttempt(j) = Turns(j.rcpt, j.i) + Len(j.rcpt) + LaterChannels(j)
        /\ InAttempt(n) = Turns(j.rcpt, n.i) + Len(j.rcpt) + LaterChannels(j)
    BY <1>2, <1>9, InAttemptIs
  <2>. DEFINE b == Len(j.rcpt)
              d == LaterChannels(j)
              k == j.i
              l == n.i
  <2>2. /\ b \in Nat /\ d \in Nat /\ k \in Nat /\ l \in Nat /\ k < l
        /\ InAttempt(j) = (b - k + 1) + b + d
        /\ InAttempt(n) = (b - l + 1) + b + d
    BY <1>4, <1>5, <1>9, <2>1
  <2>. HIDE DEF b, d, k, l
  <2>. QED  BY <1>3, <2>2
<1>10. CASE j.pc = "dispatch"
  <2>1. /\ InAttempt(j) = Turns(j.rcpt, j.i) + LaterChannels(j)
        /\ InAttempt(n) = Turns(j.rcpt, n.i) + LaterChannels(j)
    BY <1>2, <1>10, InAttemptIs
  <2>. QED  BY <1>3, <1>4, <1>5, <1>10, <2>1
<1>. QED  BY <1>6, <1>7, <1>8, <1>9, <1>10 DEF InProcess

\* One call, and where the handling goes from there.
LEMMA CallDown ==
  ASSUME NEW j, Stands(j), j.pc \in InProcess,
         NEW n, n.env = j.env, n.pc = j.pc, n.tries = j.tries, InAttempt(n) < InAttempt(j),
         Stands(n), NEW b, Goes(b, n), Shorter(b, n)
  PROVE  CallsLeft(b) < CallsLeft(j)
<1>1. b.env = j.env /\ b.tries = j.tries /\ b.pc \in InProcess \cup {"done"}
  BY DEF Goes
<1>2. InAttempt(b) \in Nat /\ InAttempt(b) < InAttempt(j)
  <2>1. InAttempt(n) \in Nat /\ InAttempt(j) \in Nat
    BY InAttemptNat
  <2>. QED  BY <2>1 DEF Shorter
<1>. QED  BY <1>1, <1>2, GoesDown

\* The number depends on the handling alone.
LEMMA CallsNow ==
  ASSUME NEW e \in Event
  PROVE  CallsLeft(job[e])' = CallsLeft(job'[e])
BY DEF CallsLeft, InAttempt, Attempt, Turns, AllChannels, LaterChannels, PerChannel,
       To, Channels, Ident

\* The new state of the handling of e.
LEMMA SetTo ==
  ASSUME TInv, NEW e \in Event, NEW b, SetJob(e, b)
  PROVE  CallsLeft(job[e])' = CallsLeft(b)
<1>1. job'[e] = b
  BY DEF SetJob, TInv
<1>. QED  BY <1>1, CallsNow

\* An attempt that fails had a call left.
LEMMA FailDown ==
  ASSUME NEW j, Stands(j), j.pc \in InProcess, InAttempt(j) > 0
  PROVE  CallsLeft(FailAttempt(j)) < CallsLeft(j)
<1>. DEFINE n == FailAttempt(j)
            r == RetryCount - j.tries
            a == Attempt(j)
            x == [j EXCEPT !.pc = "retry", !.tries = @ + 1]
            y == [j EXCEPT !.pc = "failed"]
            z == [j EXCEPT !.pc = "dlq"]
<1>1. j \in Job /\ Arrived(j) /\ InAttempt(j) \in Nat
  BY InAttemptNat DEF Stands
<1>2. r \in Nat /\ a \in Nat /\ j.tries \in Nat /\ RetryCount \in Nat
  BY <1>1, Sizes, IngestAssumption
<1>3. r * a \in Nat
  <2>. HIDE DEF r, a
  <2>. QED  BY <1>2, Product
<1>4. CallsLeft(j) = InAttempt(j) + r * a
  BY DEF CallsLeft, InProcess
<1>5. x.env = j.env /\ x.pc = "retry" /\ x.tries = j.tries + 1 /\ y.pc = "failed" /\ z.pc = "dlq"
  BY <1>1 DEF Job
<1>6. n \in {x, y, z}
  BY DEF FailAttempt
<1>. HIDE DEF x, y, z
<1>7. CallsLeft(y) = 0 /\ CallsLeft(z) = 0
  BY <1>5 DEF CallsLeft, InProcess
<1>8. CallsLeft(x) = r * a
  <2>1. Attempt(x) = a
    BY <1>5 DEF Attempt, To, AllChannels, PerChannel, Channels, Ident
  <2>2. RetryCount - x.tries + 1 = r
    BY <1>2, <1>5
  <2>3. CallsLeft(x) = (RetryCount - x.tries + 1) * Attempt(x)
    BY <1>5 DEF CallsLeft, InProcess
  <2>. QED  BY <2>1, <2>2, <2>3
<1>. HIDE DEF n, r, a
<1>9. CallsLeft(n) <= r * a
  BY <1>3, <1>6, <1>7, <1>8
<1>. DEFINE p == r * a
<1>10. p \in Nat /\ CallsLeft(n) <= p /\ CallsLeft(j) = InAttempt(j) + p /\ CallsLeft(n) \in {0, p}
  BY <1>3, <1>4, <1>6, <1>7, <1>8, <1>9
<1>. HIDE DEF p
<1>11. CallsLeft(n) < CallsLeft(j)
  BY <1>1, <1>10
<1>. QED  BY <1>11 DEF n

LEMMA PersistDown ==
  ASSUME TInv, NEW e \in Event, Persist(e)
  PROVE  CallsLeft(job[e])' < CallsLeft(job[e])
<1>. DEFINE j == job[e]
            u == To(j)[j.i]
            w == WithRow(j, u, Len(rows) + 1)
            a == Advance(w)
            b == Advance(j)
<1>1. /\ j \in Job /\ Stands(j) /\ j.pc = "persist" /\ j.i \in DOMAIN To(j)
      /\ u \in User /\ Len(rows) + 1 \in Nat \ {0}
  <2>1. j \in Job /\ Arrived(j) /\ j.pc = "persist" /\ j.i \in DOMAIN To(j) /\ rows \in Seq(Row)
    BY DEF TInv, JobOK, Persist, InProcess, StateOK
  <2>. QED  BY <2>1, JobFacts, JobStands
<1>2. w \in Job /\ w.env = j.env /\ w.pc = j.pc /\ w.tries = j.tries /\ w.i = j.i /\ w.chan = j.chan
  BY <1>1, WithRowFacts
<1>. HIDE DEF w
<1>3. /\ a \in Job /\ a.env = j.env /\ a.pc = j.pc /\ a.tries = j.tries
      /\ a.i = j.i + 1 /\ a.chan = j.chan
  BY <1>2, AdvanceFacts
<1>4. /\ b \in Job /\ b.env = j.env /\ b.pc = j.pc /\ b.tries = j.tries
      /\ b.i = j.i + 1 /\ b.chan = j.chan
  BY <1>1, AdvanceFacts
<1>5. SetJob(e, AfterPersist(a)) \/ SetJob(e, AfterPersist(b))
  BY DEF Persist, w
<1>. HIDE DEF a, b
<1>6. j.i < j.i + 1 /\ j.i + 1 <= Len(To(j)) + 1
  BY <1>1, Sizes DEF Stands
<1>7. ASSUME NEW n \in {a, b}
      PROVE  CallsLeft(AfterPersist(n)) < CallsLeft(j)
  <2>1. n \in Job /\ n.env = j.env /\ n.pc = j.pc /\ n.tries = j.tries /\ n.chan = j.chan
        /\ n.i = j.i + 1
    BY <1>3, <1>4, <1>7
  <2>2. Stands(n) /\ InAttempt(n) < InAttempt(j)
    BY <1>1, <1>6, <2>1, OneLess DEF InProcess
  <2>3. Goes(AfterPersist(n), n) /\ Shorter(AfterPersist(n), n)
    BY <1>1, <2>1, <2>2, AfterPersistGoes, AfterPersistShorter
  <2>. QED  BY <1>1, <2>1, <2>2, <2>3, CallDown DEF InProcess
<1>. QED  BY <1>5, <1>7, SetTo

LEMMA CountDown ==
  ASSUME TInv, NEW e \in Event, Count(e)
  PROVE  CallsLeft(job[e])' < CallsLeft(job[e])
<1>. DEFINE j == job[e]
            u == To(j)[j.i]
            w == WithCount(j, u, CountUnread(u))
            a == Advance(w)
            b == Advance(j)
<1>1. /\ j \in Job /\ Stands(j) /\ j.pc = "count" /\ j.i \in DOMAIN To(j)
      /\ u \in User /\ CountUnread(u) \in Nat
  <2>1. j \in Job /\ Arrived(j) /\ j.pc = "count" /\ j.i \in DOMAIN To(j) /\ rows \in Seq(Row)
    BY DEF TInv, JobOK, Count, InProcess, StateOK
  <2>. QED  BY <2>1, JobFacts, JobStands, CountUnreadFacts
<1>2. w \in Job /\ w.env = j.env /\ w.pc = j.pc /\ w.tries = j.tries /\ w.i = j.i /\ w.chan = j.chan
  BY <1>1, WithCountFacts
<1>. HIDE DEF w
<1>3. /\ a \in Job /\ a.env = j.env /\ a.pc = j.pc /\ a.tries = j.tries
      /\ a.i = j.i + 1 /\ a.chan = j.chan
  BY <1>2, AdvanceFacts
<1>4. /\ b \in Job /\ b.env = j.env /\ b.pc = j.pc /\ b.tries = j.tries
      /\ b.i = j.i + 1 /\ b.chan = j.chan
  BY <1>1, AdvanceFacts
<1>5. SetJob(e, AfterCount(a)) \/ SetJob(e, AfterCount(b))
  BY DEF Count, w
<1>. HIDE DEF a, b
<1>6. j.i < j.i + 1 /\ j.i + 1 <= Len(To(j)) + 1
  BY <1>1, Sizes DEF Stands
<1>7. ASSUME NEW n \in {a, b}
      PROVE  CallsLeft(AfterCount(n)) < CallsLeft(j)
  <2>1. n \in Job /\ n.env = j.env /\ n.pc = j.pc /\ n.tries = j.tries /\ n.chan = j.chan
        /\ n.i = j.i + 1
    BY <1>3, <1>4, <1>7
  <2>2. Stands(n) /\ InAttempt(n) < InAttempt(j)
    BY <1>1, <1>6, <2>1, OneLess DEF InProcess
  <2>3. Goes(AfterCount(n), n) /\ Shorter(AfterCount(n), n)
    BY <1>1, <2>1, <2>2, AfterCountGoes, AfterCountShorter
  <2>. QED  BY <1>1, <2>1, <2>2, <2>3, CallDown DEF InProcess
<1>. QED  BY <1>5, <1>7, SetTo

LEMMA FilterDown ==
  ASSUME TInv, NEW e \in Event, Filter(e)
  PROVE  CallsLeft(job[e])' < CallsLeft(job[e])
<1>. DEFINE j == job[e]
            u == To(j)[j.i]
            v == Keep(j, u)
            w == KeepBlind(j, u)
            a == Advance(v)
            b == Advance(j)
            c == Advance(w)
<1>1. /\ j \in Job /\ Arrived(j) /\ Stands(j) /\ j.pc = "filter" /\ j.i \in DOMAIN To(j)
      /\ u \in User /\ Chan(j) \in Channel /\ j.rcpt \in Seq(User)
  <2>1. j \in Job /\ Arrived(j) /\ j.pc = "filter" /\ j.i \in DOMAIN To(j)
        /\ j.chan \in DOMAIN Channels(j)
    BY DEF TInv, JobOK, Filter, InProcess
  <2>. QED  BY <2>1, JobFacts, JobStands DEF Chan, Job
<1>2. /\ Len(j.rcpt) <= Len(j.rcpt) + 1 /\ Len(Append(j.rcpt, u)) = Len(j.rcpt) + 1
      /\ Len(j.rcpt) \in Nat
  BY <1>1
<1>3. /\ v \in Job /\ v.env = j.env /\ v.pc = j.pc /\ v.tries = j.tries /\ v.i = j.i
      /\ v.chan = j.chan /\ Len(v.rcpt) = Len(j.rcpt) + 1
  BY <1>1, <1>2, KeepFacts
<1>4. /\ w \in Job /\ w.env = j.env /\ w.pc = j.pc /\ w.tries = j.tries /\ w.i = j.i
      /\ w.chan = j.chan /\ Len(w.rcpt) = Len(j.rcpt) + 1
  BY <1>1, <1>2, KeepBlindFacts
<1>5. \/ SetJob(e, AfterFilter(a)) \/ SetJob(e, AfterFilter(b)) \/ SetJob(e, AfterFilter(c))
  BY DEF Filter
<1>. HIDE DEF v, w
<1>6. /\ a \in Job /\ a.env = j.env /\ a.pc = j.pc /\ a.tries = j.tries /\ a.i = j.i + 1
      /\ a.chan = j.chan /\ Len(a.rcpt) = Len(j.rcpt) + 1
  BY <1>3, AdvanceFacts
<1>7. /\ b \in Job /\ b.env = j.env /\ b.pc = j.pc /\ b.tries = j.tries /\ b.i = j.i + 1
      /\ b.chan = j.chan /\ Len(b.rcpt) = Len(j.rcpt)
  BY <1>1, AdvanceFacts
<1>8. /\ c \in Job /\ c.env = j.env /\ c.pc = j.pc /\ c.tries = j.tries /\ c.i = j.i + 1
      /\ c.chan = j.chan /\ Len(c.rcpt) = Len(j.rcpt) + 1
  BY <1>4, AdvanceFacts
<1>. HIDE DEF a, b, c
<1>9. j.i < j.i + 1 /\ j.i + 1 <= Len(To(j)) + 1
  BY <1>1, Sizes
<1>10. ASSUME NEW n \in {a, b, c}
       PROVE  CallsLeft(AfterFilter(n)) < CallsLeft(j)
  <2>1. n \in Job /\ n.env = j.env /\ n.pc = j.pc /\ n.tries = j.tries /\ n.chan = j.chan
        /\ n.i = j.i + 1 /\ Len(n.rcpt) <= Len(j.rcpt) + 1
    BY <1>2, <1>6, <1>7, <1>8, <1>10
  <2>2. Stands(n) /\ InAttempt(n) < InAttempt(j)
    BY <1>1, <1>9, <2>1, OneLess DEF InProcess
  <2>3. Goes(AfterFilter(n), n) /\ Shorter(AfterFilter(n), n)
    BY <1>1, <2>1, <2>2, AfterFilterGoes, AfterFilterShorter DEF Stands
  <2>. QED  BY <1>1, <2>1, <2>2, <2>3, CallDown DEF InProcess
<1>. QED  BY <1>5, <1>10, SetTo

LEMMA EnrichDown ==
  ASSUME TInv, NEW e \in Event, Enrich(e)
  PROVE  CallsLeft(job[e])' < CallsLeft(job[e])
<1>. DEFINE j == job[e]
            u == j.rcpt[j.i]
            w == WithTokens(j, u, subs[u])
            a == Advance(w)
            b == Advance(j)
<1>1. /\ j \in Job /\ Arrived(j) /\ Stands(j) /\ j.pc = "enrich" /\ j.i \in DOMAIN j.rcpt
      /\ u \in User /\ subs[u] \in SUBSET Token
  <2>1. j \in Job /\ Arrived(j) /\ j.pc = "enrich" /\ j.i \in DOMAIN j.rcpt
        /\ subs \in [User -> SUBSET Token]
    BY DEF TInv, JobOK, Enrich, InProcess, StateOK
  <2>2. u \in User
    BY <2>1 DEF Job
  <2>. QED  BY <2>1, <2>2, JobStands
<1>2. w \in Job /\ w.env = j.env /\ w.pc = j.pc /\ w.tries = j.tries /\ w.i = j.i
      /\ w.chan = j.chan /\ w.rcpt = j.rcpt
  BY <1>1, WithTokensFacts
<1>. HIDE DEF w
<1>3. a \in Job /\ a.env = j.env /\ a.pc = j.pc /\ a.tries = j.tries /\ a.i = j.i + 1
      /\ a.chan = j.chan /\ a.rcpt = j.rcpt
  BY <1>2, AdvanceFacts
<1>4. b \in Job /\ b.env = j.env /\ b.pc = j.pc /\ b.tries = j.tries /\ b.i = j.i + 1
      /\ b.chan = j.chan /\ b.rcpt = j.rcpt
  BY <1>1, AdvanceFacts
<1>5. SetJob(e, AfterEnrich(a)) \/ SetJob(e, AfterEnrich(b))
  BY DEF Enrich, w
<1>. HIDE DEF a, b
<1>6. j.i < j.i + 1 /\ j.i + 1 <= Len(j.rcpt) + 1
  BY <1>1, Sizes
<1>7. ASSUME NEW n \in {a, b}
      PROVE  CallsLeft(AfterEnrich(n)) < CallsLeft(j)
  <2>1. n \in Job /\ n.env = j.env /\ n.pc = j.pc /\ n.tries = j.tries /\ n.chan = j.chan
        /\ n.i = j.i + 1 /\ n.rcpt = j.rcpt
    BY <1>3, <1>4, <1>7
  <2>2. Stands(n) /\ InAttempt(n) < InAttempt(j)
    BY <1>1, <1>6, <2>1, OneLess DEF InProcess
  <2>3. Goes(AfterEnrich(n), n) /\ Shorter(AfterEnrich(n), n)
    BY <1>1, <2>1, <2>2, AfterEnrichGoes, AfterEnrichShorter
  <2>. QED  BY <1>1, <2>1, <2>2, <2>3, CallDown DEF InProcess
<1>. QED  BY <1>5, <1>7, SetTo

\* What a dispatch sends or skips brings it on in the list.
LEMMA DispatchDown ==
  ASSUME NEW j, Stands(j), j.pc = "dispatch", j.i \in DOMAIN j.rcpt,
         NEW n \in Job, n.env = j.env, n.pc = j.pc, n.tries = j.tries, n.chan = j.chan,
         n.rcpt = j.rcpt, n.i \in {j.i + 1, Len(j.rcpt) + 1}
  PROVE  /\ CallsLeft(AfterDispatch(n)) < CallsLeft(j)
         /\ CallsLeft(FailAttempt(j)) < CallsLeft(j)
<1>1. j \in Job /\ Arrived(j)
  BY DEF Stands
<1>2. j.i < n.i /\ n.i <= Len(j.rcpt) + 1
  BY <1>1, Sizes
<1>3. Stands(n) /\ InAttempt(n) < InAttempt(j)
  BY <1>2, OneLess DEF InProcess
<1>4. Goes(AfterDispatch(n), n) /\ Shorter(AfterDispatch(n), n)
  BY <1>3, AfterDispatchGoes, AfterDispatchShorter
<1>5. CallsLeft(AfterDispatch(n)) < CallsLeft(j)
  BY <1>3, <1>4, CallDown DEF InProcess
<1>6. InAttempt(j) > 0
  <2>1. InAttempt(j) \in Nat /\ InAttempt(n) \in Nat
    BY <1>3, InAttemptNat
  <2>. QED  BY <1>3, <2>1
<1>. QED  BY <1>5, <1>6, FailDown DEF InProcess

LEMMA DispatchStands ==
  ASSUME TInv, NEW e \in Event, job[e].pc = "dispatch"
  PROVE  /\ job[e] \in Job /\ Stands(job[e]) /\ job[e].i \in DOMAIN job[e].rcpt
         /\ Len(job[e].rcpt) \in Nat
<1>1. job[e] \in Job /\ Arrived(job[e]) /\ job[e].i \in DOMAIN job[e].rcpt
  BY DEF TInv, JobOK
<1>. QED  BY <1>1, JobStands, Sizes

LEMMA DispatchInAppDown ==
  ASSUME TInv, NEW e \in Event, DispatchInApp(e)
  PROVE  CallsLeft(job[e])' < CallsLeft(job[e])
<1>. DEFINE j == job[e]
            a == [j EXCEPT !.i = Len(j.rcpt) + 1]
            b == Advance(j)
<1>1. j \in Job /\ Stands(j) /\ j.pc = "dispatch" /\ j.i \in DOMAIN j.rcpt
      /\ Len(j.rcpt) \in Nat
  BY DispatchStands DEF DispatchInApp
<1>2. a \in Job /\ a.env = j.env /\ a.pc = j.pc /\ a.tries = j.tries /\ a.chan = j.chan
      /\ a.rcpt = j.rcpt /\ a.i = Len(j.rcpt) + 1
  <2>. DEFINE l == Len(j.rcpt) + 1
  <2>1. l \in Nat
    BY <1>1
  <2>. HIDE DEF l
  <2>2. LET x == [j EXCEPT !.i = l] IN
        /\ x \in Job /\ x.env = j.env /\ x.pc = j.pc /\ x.tries = j.tries
        /\ x.chan = j.chan /\ x.rcpt = j.rcpt /\ x.i = l
    BY <1>1, <2>1 DEF Job
  <2>. QED  BY <2>2 DEF l
<1>3. b \in Job /\ b.env = j.env /\ b.pc = j.pc /\ b.tries = j.tries /\ b.chan = j.chan
      /\ b.rcpt = j.rcpt /\ b.i = j.i + 1
  BY <1>1, AdvanceFacts
<1>4. \/ SetJob(e, AfterDispatch(a)) \/ SetJob(e, AfterDispatch(b))
      \/ SetJob(e, FailAttempt(j))
  BY DEF DispatchInApp
<1>. HIDE DEF a, b
<1>5. /\ CallsLeft(AfterDispatch(a)) < CallsLeft(j) /\ CallsLeft(FailAttempt(j)) < CallsLeft(j)
      /\ CallsLeft(AfterDispatch(b)) < CallsLeft(j)
  BY <1>1, <1>2, <1>3, DispatchDown
<1>. QED  BY <1>4, <1>5, SetTo

LEMMA DispatchPushDown ==
  ASSUME TInv, NEW e \in Event, DispatchPush(e)
  PROVE  CallsLeft(job[e])' < CallsLeft(job[e])
<1>. DEFINE j == job[e]
            b == Advance(j)
<1>1. j \in Job /\ Stands(j) /\ j.pc = "dispatch" /\ j.i \in DOMAIN j.rcpt
  BY DispatchStands DEF DispatchPush
<1>2. b \in Job /\ b.env = j.env /\ b.pc = j.pc /\ b.tries = j.tries /\ b.chan = j.chan
      /\ b.rcpt = j.rcpt /\ b.i = j.i + 1
  BY <1>1, AdvanceFacts
<1>3. SetJob(e, AfterDispatch(b)) \/ SetJob(e, FailAttempt(j))
  BY DEF DispatchPush
<1>. HIDE DEF b
<1>4. CallsLeft(AfterDispatch(b)) < CallsLeft(j) /\ CallsLeft(FailAttempt(j)) < CallsLeft(j)
  BY <1>1, <1>2, DispatchDown
<1>. QED  BY <1>3, <1>4, SetTo

\* An attempt that begins costs less than one of the attempts that were left.
LEMMA BeginDown ==
  ASSUME NEW j \in Job, Arrived(j), j.pc \in {"queued", "retry"}
  PROVE  CallsLeft(BeginAttempt(j)) < CallsLeft(j)
<1>. DEFINE fresh == [j EXCEPT !.att = @ + 1, !.i = 1,
                               !.stored = [u \in User |-> Nil],
                               !.counts = [u \in User |-> Nil],
                               !.tokens = [u \in User |-> {}]]
            p == [fresh EXCEPT !.pc = "persist"]
            f == EnterChannel(fresh, 1)
            b == BeginAttempt(j)
            r == RetryCount - j.tries
            a == Attempt(j)
            l == Len(To(j))
            c == AllChannels(j)
<1>1. r \in Nat /\ a \in Nat /\ l \in Nat /\ c \in Nat /\ a = 1 + 2 * l + c
  BY Sizes DEF Attempt
<1>2. fresh \in Job /\ fresh.env = j.env /\ fresh.tries = j.tries /\ fresh.i = 1
  <2>1. /\ j.att \in Nat /\ j.att + 1 \in Nat
        /\ [u \in User |-> Nil] \in [User -> (Nat \ {0}) \cup {Nil}]
        /\ [u \in User |-> Nil] \in [User -> Nat \cup {Nil}]
        /\ [u \in User |-> {}] \in [User -> SUBSET Token]
    BY DEF Job
  <2>2. fresh \in Job
    BY <2>1 DEF Job
  <2>3. fresh.env = j.env /\ fresh.tries = j.tries /\ fresh.i = 1
    BY DEF Job
  <2>. QED  BY <2>2, <2>3
<1>3. /\ p.env = j.env /\ p.tries = j.tries /\ p.i = 1 /\ p.pc = "persist"
  BY <1>2 DEF Job
<1>4. b \in {p, f}
  BY DEF BeginAttempt
<1>5. /\ Arrived(fresh) /\ Len(Channels(fresh)) = Len(Channels(j))
      /\ PerChannel(fresh) = PerChannel(j)
  <2>. HIDE DEF fresh
  <2>. QED  BY <1>2 DEF Arrived, Channels, PerChannel, To, Ident
<1>. HIDE DEF fresh, p
<1>6. f.env = j.env /\ f.tries = j.tries /\ f.pc \in InProcess \cup {"done"}
  BY <1>2, EnterChannelGoes DEF Goes
<1>7. InAttempt(f) \in Nat /\ InAttempt(f) <= c
  <2>1. 1 \in Nat \ {0} /\ 1 <= Len(Channels(fresh)) + 1
    BY <1>2, <1>5, Sizes
  <2>2. /\ InAttempt(f) \in Nat
        /\ InAttempt(f) <= (Len(Channels(fresh)) - (1 - 1)) * PerChannel(fresh)
    BY <1>2, <1>5, <2>1, EnterChannelCosts
  <2>3. Len(Channels(j)) \in Nat
    BY Sizes
  <2>4. (Len(Channels(j)) - (1 - 1)) = Len(Channels(j))
    BY <2>3
  <2>. QED  BY <1>5, <2>2, <2>4 DEF AllChannels
<1>8. InAttempt(p) = l + l + c
  <2>1. To(p) = To(j) /\ AllChannels(p) = c
    BY <1>3 DEF To, AllChannels, PerChannel, Channels, Ident
  <2>2. Turns(To(p), p.i) = l
    BY <1>1, <1>3, <2>1 DEF Turns
  <2>3. InAttempt(p) = Turns(To(p), p.i) + Len(To(p)) + AllChannels(p)
    BY <1>3, InAttemptIs
  <2>. QED  BY <2>1, <2>2, <2>3
<1>. HIDE DEF f, b
<1>9. /\ b.env = j.env /\ b.tries = j.tries /\ b.pc \in InProcess \cup {"done"}
      /\ InAttempt(b) \in Nat /\ InAttempt(b) < a
  <2>1. InAttempt(f) < a
    <3>. HIDE DEF a, l, c
    <3>. QED  BY <1>1, <1>7
  <2>2. InAttempt(p) \in Nat /\ InAttempt(p) < a
    <3>. HIDE DEF a, l, c
    <3>. QED  BY <1>1, <1>8
  <2>3. p.pc \in InProcess
    BY <1>3 DEF InProcess
  <2>. QED  BY <1>3, <1>4, <1>6, <1>7, <2>1, <2>2, <2>3
<1>10. Attempt(b) = a /\ RetryCount - b.tries = r
  BY <1>9 DEF Attempt, To, AllChannels, PerChannel, Channels, Ident
<1>11. CallsLeft(j) = (r + 1) * a
  BY DEF CallsLeft, InProcess
<1>12. CallsLeft(b) \in {0, InAttempt(b) + r * a}
  <2>1. b.pc \in InProcess => CallsLeft(b) = InAttempt(b) + r * a
    <3>1. b.pc \in InProcess
          => CallsLeft(b) = InAttempt(b) + (RetryCount - b.tries) * Attempt(b)
      BY DEF CallsLeft, InProcess
    <3>. QED  BY <1>10, <3>1
  <2>2. b.pc = "done" => CallsLeft(b) = 0
    BY DEF CallsLeft, InProcess
  <2>. QED  BY <1>9, <2>1, <2>2
<1>. HIDE DEF r, a, l, c
<1>13. r * a \in Nat /\ (r + 1) * a = r * a + a
  BY <1>1, Product
<1>. DEFINE q == r * a
<1>14. /\ q \in Nat /\ CallsLeft(j) = q + a /\ CallsLeft(b) \in {0, InAttempt(b) + q}
       /\ InAttempt(b) \in Nat /\ InAttempt(b) < a /\ a \in Nat
  BY <1>1, <1>9, <1>11, <1>12, <1>13
<1>. HIDE DEF q
<1>15. CallsLeft(b) < CallsLeft(j)
  BY <1>14
<1>. QED  BY <1>15 DEF b

LEMMA HandleDown ==
  ASSUME TInv, NEW e \in Event, Handle(e)
  PROVE  CallsLeft(job[e])' < CallsLeft(job[e])
<1>. DEFINE j == job[e]
            n(q) == [j EXCEPT !.pc = q]
<1>1. j \in Job /\ Arrived(j) /\ j.pc \in {"queued", "retry"}
  BY DEF TInv, JobOK, Handle
<1>2. CallsLeft(BeginAttempt(j)) < CallsLeft(j)
  BY <1>1, BeginDown
<1>3. ASSUME NEW q \in {"done", "rejected"}
      PROVE  CallsLeft(n(q)) < CallsLeft(j)
  <2>1. n(q).pc = q
    BY <1>1 DEF Job
  <2>2. CallsLeft(n(q)) = 0
    <3>. HIDE DEF n
    <3>. QED  BY <2>1 DEF CallsLeft, InProcess
  <2>. DEFINE r == RetryCount - j.tries
              a == Attempt(j)
              l == Len(To(j))
              c == AllChannels(j)
  <2>3. r \in Nat /\ a \in Nat /\ l \in Nat /\ c \in Nat /\ a = 1 + 2 * l + c
    BY <1>1, Sizes DEF Attempt
  <2>4. CallsLeft(j) = (r + 1) * a
    BY <1>1 DEF CallsLeft, InProcess
  <2>. HIDE DEF r, a, l, c
  <2>5. r * a \in Nat /\ (r + 1) * a = r * a + a
    BY <2>3, Product
  <2>. DEFINE p == r * a
  <2>6. p \in Nat /\ CallsLeft(j) = p + a
    BY <2>4, <2>5
  <2>. HIDE DEF p
  <2>7. CallsLeft(j) > 0
    BY <2>3, <2>6
  <2>. QED  BY <2>2, <2>7
<1>4. \E m : SetJob(e, m) /\ CallsLeft(m) < CallsLeft(j)
  <2>1. CASE ~Validate(j.env)
    <3>1. SetJob(e, n(IF j.env.via = "kafka" THEN "done" ELSE "rejected"))
      BY <2>1 DEF Handle
    <3>. QED  BY <1>3, <3>1
  <2>2. CASE Validate(j.env) /\ To(j) = <<>>
    <3>1. SetJob(e, n("done"))
      BY <2>2 DEF Handle
    <3>. QED  BY <1>3, <3>1
  <2>3. CASE Validate(j.env) /\ To(j) # <<>>
    <3>1. SetJob(e, BeginAttempt(j))
      BY <2>3 DEF Handle
    <3>. QED  BY <1>2, <3>1
  <2>. QED  BY <2>1, <2>2, <2>3
<1>. QED  BY <1>4, SetTo

\* A crash, an arrival and what others do apart, the number goes down with every
\* step of the handling, and the other handlings keep theirs.
CallsRunOut ==
  \A e \in Event :
    /\ Step(e) => CallsLeft(job'[e]) < CallsLeft(job[e])
    /\ CallsLeft(job'[e]) > CallsLeft(job[e]) => Arrive(e) \/ Crash(e)

LEMMA StepDown ==
  ASSUME TInv, NEW e \in Event, Step(e)
  PROVE  CallsLeft(job'[e]) < CallsLeft(job[e])
<1>. QED  BY CallsNow, HandleDown, PersistDown, CountDown, FilterDown, EnrichDown,
             DispatchInAppDown, DispatchPushDown DEF Step

LEMMA CallsLeftNat ==
  ASSUME TInv, NEW e \in Event
  PROVE  CallsLeft(job[e]) \in Nat
<1>1. CASE job[e].pc = "new"
  BY <1>1 DEF CallsLeft, InProcess
<1>2. CASE job[e].pc # "new"
  BY <1>2, JobStands, CallsNat
<1>. QED  BY <1>1, <1>2

LEMMA OthersStay ==
  ASSUME TInv, NEW e \in Event, [Next]_vars, ~Arrive(e), ~Step(e), ~Crash(e)
  PROVE  job'[e] = job[e]
<1>1. ASSUME NEW d \in Event, d # e, NEW n, SetJob(d, n)
      PROVE  job'[e] = job[e]
  BY <1>1 DEF SetJob
<1>2. ASSUME NEW d \in Event, Arrive(d) \/ Step(d) \/ Crash(d)
      PROVE  \E n : SetJob(d, n)
  <2>1. CASE Arrive(d)
    BY <2>1, Zenon DEF Arrive
  <2>2. CASE Crash(d)
    BY <2>2 DEF Crash
  <2>3. CASE Step(d)
    <3>1. CASE Handle(d)
      BY <3>1, Zenon DEF Handle
    <3>2. CASE Persist(d)
      BY <3>2, Zenon DEF Persist
    <3>3. CASE Count(d)
      BY <3>3, Zenon DEF Count
    <3>4. CASE Filter(d)
      BY <3>4, Zenon DEF Filter
    <3>5. CASE Enrich(d)
      BY <3>5, Zenon DEF Enrich
    <3>6. CASE DispatchInApp(d)
      BY <3>6, Zenon DEF DispatchInApp
    <3>7. CASE DispatchPush(d)
      BY <3>7, Zenon DEF DispatchPush
    <3>. QED  BY <2>3, <3>1, <3>2, <3>3, <3>4, <3>5, <3>6, <3>7 DEF Step
  <2>. QED  BY <1>2, <2>1, <2>2, <2>3
<1>3. CASE Meanwhile \/ UNCHANGED vars
  <2>1. UNCHANGED job
    BY <1>3 DEF Meanwhile, Prefer, Register, Read, Delete, Tick, vars
  <2>. QED  BY <2>1
<1>4. CASE \E d \in Event : Arrive(d) \/ Step(d) \/ Crash(d)
  <2>1. PICK d \in Event : Arrive(d) \/ Step(d) \/ Crash(d)
    BY <1>4
  <2>2. d # e
    BY <2>1
  <2>3. PICK n : SetJob(d, n)
    BY <1>2, <2>1
  <2>. QED  BY <1>1, <2>2, <2>3
<1>. QED  BY <1>3, <1>4 DEF Next

\* The calls left of a handling are a number that every step of it lowers and
\* only an arrival or a crash raises (Process, buildNotificationConsumer).
THEOREM HandlingsEnd ==
  Spec => [](\A e \in Event : CallsLeft(job[e]) \in Nat) /\ [][CallsRunOut]_vars
<1>1. TInv => \A e \in Event : CallsLeft(job[e]) \in Nat
  BY CallsLeftNat
<1>2. TInv' => (\A e \in Event : CallsLeft(job[e]) \in Nat)'
  BY <1>1, PTL
<1>3. ASSUME TInv, TInv', [Next]_vars  PROVE CallsRunOut
  <2>. SUFFICES ASSUME NEW e \in Event
                PROVE  /\ Step(e) => CallsLeft(job'[e]) < CallsLeft(job[e])
                       /\ CallsLeft(job'[e]) > CallsLeft(job[e]) => Arrive(e) \/ Crash(e)
    BY Zenon DEF CallsRunOut
  <2>1. Step(e) => CallsLeft(job'[e]) < CallsLeft(job[e])
    BY <1>3, StepDown
  <2>2. CallsLeft(job[e]) \in Nat
    BY <1>3, CallsLeftNat
  <2>3. CallsLeft(job'[e]) \in Nat
    <3>1. CallsLeft(job[e])' \in Nat
      BY <1>2, <1>3
    <3>. QED  BY <3>1, CallsNow
  <2>4. ASSUME ~Arrive(e), ~Step(e), ~Crash(e)  PROVE job'[e] = job[e]
    BY <1>3, <2>4, OthersStay
  <2>5. ASSUME CallsLeft(job'[e]) > CallsLeft(job[e])  PROVE Arrive(e) \/ Crash(e)
    <3>1. CASE Step(e)
      BY <2>1, <2>2, <2>3, <2>5, <3>1
    <3>2. CASE ~Step(e)
      BY <2>2, <2>4, <2>5, <3>2
    <3>. QED  BY <3>1, <3>2
  <2>. QED  BY <2>1, <2>5
<1>. QED  BY <1>1, <1>3, Typed, PTL DEF Spec

-----------------------------------------------------------------------------
(***************************************************************************)
(* The two deployments together.  The workers' part is that of             *)
(* DispatchProofs, with the list that ingest feeds.                        *)
(***************************************************************************)

\* The proofs about the workers, with the list that ingest feeds.
Workers == INSTANCE DispatchProofs WITH
  pushed <- [m \in DOMAIN ws |-> TRUE], Payload <- {TRUE}

\* What DispatchProofs assumes of its constants.
LEMMA WorkersAssumption ==
  /\ Nil \notin Worker /\ Nil \notin Nat /\ {TRUE} \subseteq BOOLEAN
  /\ MaxPush \in Nat /\ MaxFaults \in Nat /\ MaxStops \in Nat
BY DeliveryAssumption

\* Both instances of DispatchWorker say the same.
LEMMA SameRun ==
  ASSUME NEW w, Dispatch!Run(w)  PROVE Workers!Run(w)
<1>. USE DEF Dispatch!SetWorker, Workers!SetWorker, Dispatch!Goto, Workers!Goto
<1>1. Dispatch!Poll(w) => Workers!Poll(w)
  BY Zenon DEF Dispatch!Poll, Workers!Poll
<1>2. Dispatch!Pop(w) => Workers!Pop(w)
  BY Zenon DEF Dispatch!Pop, Workers!Pop, Dispatch!Waiting, Workers!Waiting,
               Dispatch!Me, Workers!Me
<1>3. Dispatch!PopTimeout(w) => Workers!PopTimeout(w)
  BY Zenon DEF Dispatch!PopTimeout, Workers!PopTimeout, Dispatch!Waiting, Workers!Waiting
<1>4. Dispatch!Handle(w) => Workers!Handle(w)
  BY Zenon DEF Dispatch!Handle, Workers!Handle
<1>5. Dispatch!Reply(w) => Workers!Reply(w)
  BY Zenon DEF Dispatch!Reply, Workers!Reply, Dispatch!Published, Workers!Published
<1>6. Dispatch!Restart(w) => Workers!Restart(w)
  BY Zenon DEF Dispatch!Restart, Workers!Restart
<1>. QED  BY <1>1, <1>2, <1>3, <1>4, <1>5, <1>6 DEF Dispatch!Run, Workers!Run

\* The rest of the actions.
LEMMA SameRest ==
  ASSUME NEW w
  PROVE  /\ Dispatch!Signal(w) => Workers!Signal(w)
         /\ Dispatch!PopError(w) => Workers!PopError(w)
         /\ Dispatch!Fail(w) => Workers!Fail(w)
         /\ Dispatch!Crash(w) => Workers!Crash(w)
         /\ Dispatch!Apply(w) => Workers!Apply(w)
<1>. USE DEF Dispatch!SetWorker, Workers!SetWorker, Dispatch!Goto, Workers!Goto,
             Dispatch!Up, Workers!Up, Dispatch!Abandon, Workers!Abandon
<1>1. Dispatch!Signal(w) => Workers!Signal(w)
  BY Zenon DEF Dispatch!Signal, Workers!Signal
<1>2. Dispatch!PopError(w) => Workers!PopError(w)
  BY Zenon DEF Dispatch!PopError, Workers!PopError, Dispatch!Waiting, Workers!Waiting,
               Dispatch!Nobody, Workers!Nobody
<1>3. Dispatch!Fail(w) => Workers!Fail(w)
  BY Zenon DEF Dispatch!Fail, Workers!Fail
<1>4. Dispatch!Crash(w) => Workers!Crash(w)
  BY Zenon DEF Dispatch!Crash, Workers!Crash
<1>5. Dispatch!Apply(w) => Workers!Apply(w)
  BY Zenon DEF Dispatch!Apply, Workers!Apply
<1>. QED  BY <1>1, <1>2, <1>3, <1>4, <1>5

\* A step of the workers' deployment is a step of their specification.
LEMMA WorkerStepIs ==
  ASSUME WorkerStep
  PROVE  Workers!Next
BY SameRun, SameRest DEF WorkerStep, Workers!Next

-----------------------------------------------------------------------------
\* The list of the workers' specification.
Fed == [m \in DOMAIN ws |-> TRUE]

\* A sequence of one value is a constant function.
LEMMA SameConstant ==
  ASSUME NEW S, NEW a \in Seq(S), NEW c, \A k \in 1 .. Len(a) : a[k] = c
  PROVE  a = [k \in 1 .. Len(a) |-> c]
<1>. DEFINE n == Len(a)
            g == [k \in 1 .. n |-> c]
<1>1. n \in Nat /\ a \in [1 .. n -> S] 
  OBVIOUS
<1>. HIDE DEF n
<1>2. a = [k \in 1 .. n |-> a[k]]
  BY <1>1
<1>3. \A k \in 1 .. n : a[k] = c
  BY DEF n
<1>. QED BY <1>2, <1>3 DEF n

\* A message more on notif:ws is a payload more on the list of the workers.
LEMMA ConstantAppend ==
  ASSUME NEW S, NEW s \in Seq(S), NEW m, NEW c
  PROVE  [k \in DOMAIN Append(s, m) |-> c] = Append([k \in DOMAIN s |-> c], c)
<1>. DEFINE n == Len(s)
            f == [k \in 1 .. n |-> c]
            t == Append(s, m)
            a == Append(f, c)
<1>1. n \in Nat /\ DOMAIN s = 1 .. n /\ DOMAIN t = 1 .. (n + 1)
  OBVIOUS
<1>. HIDE DEF n
<1>2. f \in Seq({c}) /\ Len(f) = n /\ \A k \in 1 .. n : f[k] = c
  <2>1. f \in [1 .. n -> {c}]
    OBVIOUS
  <2>. HIDE DEF f
  <2>. QED  BY <1>1, <2>1
<1>. HIDE DEF f
<1>3. a \in Seq({c}) /\ Len(a) = n + 1
  BY <1>1, <1>2
<1>. HIDE DEF a
<1>4. \A k \in 1 .. Len(a) : a[k] = c
  BY <1>3
<1>5. a = [k \in 1 .. Len(a) |-> c]
  BY <1>3, <1>4, SameConstant
<1>6. a = [k \in 1 .. (n + 1) |-> c]
  BY <1>3, <1>5
<1>. QED  BY <1>1, <1>6 DEF f, a

\* The pipeline adds at most one message to notif:ws, and at its end.
LEMMA IngestAppends ==
  ASSUME TInv, TInv', [Next]_vars
  PROVE  ws' = ws \/ \E m : ws' = Append(ws, m)
BY DEF Next, Step, Meanwhile, vars, Arrive, Handle, Persist, Count, Filter, Enrich,
       DispatchInApp, DispatchPush, Crash, Prefer, Register, Read, Delete, Tick

\* One step of either deployment, and what it does to the list.
LEMMA DeliverySteps ==
  ASSUME TInv, [DeliveryNext]_<<vars, workerVars>>
  PROVE  /\ [Next]_vars
         /\ \/ UNCHANGED workerVars /\ (Fed' = Fed \/ Fed' = Append(Fed, TRUE))
            \/ Fed' = Fed /\ Workers!Next
<1>1. CASE WorkerStep
  BY <1>1, WorkerStepIs DEF WorkerStep, vars, Fed
<1>2. CASE UNCHANGED <<vars, workerVars>>
  BY <1>2 DEF vars, Fed
<1>3. CASE IngestStep
  <2>1. [Next]_vars /\ UNCHANGED workerVars
    BY <1>3 DEF IngestStep
  <2>2. ws' = ws \/ \E m : ws' = Append(ws, m)
    BY <2>1, NextOK, IngestAppends
  <2>3. ws \in Seq(WSMessage)
    BY DEF TInv, StateOK
  <2>4. Fed' = Fed \/ Fed' = Append(Fed, TRUE)
    <3>1. CASE ws' = ws
      BY <3>1 DEF Fed
    <3>2. ASSUME NEW m, ws' = Append(ws, m)
          PROVE  Fed' = Append(Fed, TRUE)
      <4>1. [k \in DOMAIN Append(ws, m) |-> TRUE] = Append([k \in DOMAIN ws |-> TRUE], TRUE)
        BY <2>3, ConstantAppend
      <4>. QED  BY <3>2, <4>1 DEF Fed
    <3>. QED  BY <2>2, <3>1, <3>2
  <2>. QED  BY <2>1, <2>4
<1>. QED  BY <1>1, <1>2, <1>3 DEF DeliveryNext

\* The workers keep their invariant while ingest feeds their list.
LEMMA WorkersInv ==
  ASSUME Workers!DInv, TInv, [DeliveryNext]_<<vars, workerVars>>
  PROVE  Workers!DInv'
<1>1. CASE UNCHANGED workerVars /\ Fed' = Fed
  <2>1. [Workers!Next]_Workers!vars
    BY <1>1 DEF workerVars, Workers!vars, Fed
  <2>. QED  BY <2>1, WorkersAssumption, Workers!NextInv
<1>2. CASE UNCHANGED workerVars /\ Fed' = Append(Fed, TRUE)
  BY <1>2, WorkersAssumption, Workers!PushedInv DEF workerVars, Fed
<1>3. CASE Workers!Next
  BY <1>3, WorkersAssumption, Workers!NextInv
<1>. QED  BY <1>1, <1>2, <1>3, DeliverySteps

\* It holds when both deployments start.
LEMMA WorkersStart ==
  ASSUME DeliveryInit
  PROVE  Workers!DInv
<1>1. Workers!Init
  BY Zenon DEF DeliveryInit, Dispatch!Init, Workers!Init
<1>. QED  BY <1>1, WorkersAssumption, Workers!InitInv

\* The invariants of the two deployments hold together.
BothInv == OInv /\ Workers!DInv

\* A step of either deployment preserves both.
LEMMA BothStep ==
  ASSUME BothInv, [DeliveryNext]_<<vars, workerVars>>
  PROVE  BothInv'
<1>1. TInv /\ [Next]_vars
  BY DeliverySteps DEF BothInv, OInv
<1>2. OInv'
  BY <1>1, NextOK, NextOwes DEF BothInv
<1>3. Workers!DInv'
  BY <1>1, WorkersInv DEF BothInv
<1>. QED  BY <1>2, <1>3 DEF BothInv

\* The two invariants hold in every state of the two deployments.
THEOREM Together == DeliverySpec => []BothInv
<1>1. DeliveryInit => BothInv
  BY InitOwes, WorkersStart DEF DeliveryInit, BothInv
<1>2. BothInv /\ [DeliveryNext]_<<vars, workerVars>> => BothInv'
  BY BothStep
<1>. QED  BY <1>1, <1>2, PTL DEF DeliverySpec

\* A channel without repeats tells no more than the list does.
LEMMA PublishedOnce ==
  ASSUME Workers!Placed, NEW T, IsFiniteSet(T)
  PROVE  Cardinality({k \in DOMAIN channel : channel[k] \in T}) <= Cardinality(T)
<1>. DEFINE S == {k \in DOMAIN channel : channel[k] \in T}
            f == [k \in S |-> channel[k]]
<1>1. \A k, l \in DOMAIN channel : channel[k] = channel[l] => k = l
  BY DEF Workers!Placed
<1>2. f \in Injection(S, T)
  BY <1>1 DEF Injection, IsInjective
<1>. HIDE DEF S, f
<1>3. Cardinality(S) <= Cardinality(T)
  BY <1>2, FS_Injection
<1>. QED  BY <1>3 DEF S

\* What the bound on the copies compares are numbers.
LEMMA CopiesAreNumbers ==
  ASSUME BothInv, NEW e \in Event, NEW u \in User, job[e].env # Nil
  PROVE  /\ Cardinality({k \in DOMAIN channel : channel[k] \in Telling(e, u)}) \in Nat
         /\ Left(To(job[e]), u, 1) \in Nat
         /\ Left(To(job[e]), u, 1)
              = Cardinality({i \in DOMAIN To(job[e]) : To(job[e])[i] = u})
         /\ job[e] \in Job /\ Arrived(job[e]) /\ ws \in Seq(WSMessage)
<1>. DEFINE j == job[e]
<1>1. j \in Job /\ Arrived(j) /\ ws \in Seq(WSMessage)
  <2>1. j \in Job /\ ws \in Seq(WSMessage)
    BY DEF BothInv, OInv, TInv, StateOK
  <2>2. j.env \in Envelope \cup {Nil}
    BY <2>1 DEF Job
  <2>. QED  BY <2>1, <2>2 DEF Arrived
<1>2. Cardinality({k \in DOMAIN channel : channel[k] \in Telling(e, u)}) \in Nat
  <2>1. {k \in DOMAIN channel : channel[k] \in Telling(e, u)} \subseteq 1 .. Len(channel)
        /\ Len(channel) \in Nat
    BY DEF BothInv, Workers!DInv, Workers!TypeOK
  <2>2. IsFiniteSet(1 .. Len(channel))
    BY <2>1, FS_Interval
  <2>3. IsFiniteSet({k \in DOMAIN channel : channel[k] \in Telling(e, u)})
    BY <2>1, <2>2, FS_Subset
  <2>. QED  BY <2>3, FS_CardinalityType
<1>3. To(j) \in Seq(User)
  BY <1>1, JobFacts
<1>4. Left(To(j), u, 1) = Cardinality({i \in DOMAIN To(j) : To(j)[i] = u})
  <2>1. PlacesFrom(To(j), u, 1) = {i \in DOMAIN To(j) : To(j)[i] = u}
    BY <1>3 DEF PlacesFrom
  <2>. QED  BY <2>1 DEF Left
<1>. QED  BY <1>1, <1>2, <1>3, <1>4, LeftNat

\* What the invariants of the two say together bounds the copies.
LEMMA CopiesFollow ==
  ASSUME BothInv
  PROVE  CopiesAreAttempts
<1>. SUFFICES ASSUME NEW e \in Event, NEW u \in User, job[e].env # Nil
              PROVE  Cardinality({k \in DOMAIN channel : channel[k] \in Telling(e, u)})
                       <= job[e].att * Cardinality({i \in DOMAIN To(job[e]) : To(job[e])[i] = u})
  BY DEF CopiesAreAttempts
<1>. DEFINE j == job[e]
            c == Cardinality({k \in DOMAIN channel : channel[k] \in Telling(e, u)})
            n == Cardinality({i \in DOMAIN To(j) : To(j)[i] = u})
<1>1. /\ j \in Job /\ Arrived(j) /\ ws \in Seq(WSMessage)
      /\ c \in Nat /\ n = Left(To(j), u, 1) /\ Left(To(j), u, 1) \in Nat
  BY CopiesAreNumbers
<1>2. IsFiniteSet(Telling(e, u)) /\ Sent(e, u) \in Nat
  BY <1>1, SentNat
<1>3. c <= Sent(e, u)
  BY <1>2, PublishedOnce DEF BothInv, Workers!DInv, Sent
<1>4. j.att \in Nat
  BY <1>1 DEF Job
<1>5. Accounted(j, u, Sent(e, u))
  BY DEF BothInv, OInv
<1>6. Owed(j, u) \in Nat
  BY <1>1, OwedNat
<1>7. Sent(e, u) <= j.att * Left(To(j), u, 1)
  <2>1. CASE j.pc = "new"
    <3>1. Sent(e, u) = 0
      BY <1>5, <2>1 DEF Accounted
    <3>2. j.att * Left(To(j), u, 1) >= 0
      BY <1>1, <1>4
    <3>. QED  BY <3>1, <3>2, <1>1, <1>4
  <2>2. CASE j.pc # "new"
    <3>1. Sent(e, u) + Owed(j, u) <= j.att * Left(To(j), u, 1)
      BY <1>5, <2>2 DEF Accounted
    <3>. QED  BY <1>2, <1>1, <1>4, <1>6, <3>1
  <2>. QED  BY <2>1, <2>2
<1>. HIDE DEF c, n, j
<1>8. c <= j.att * n
  BY <1>1, <1>2, <1>3, <1>4, <1>7
<1>. QED  BY <1>8 DEF c, n, j

\* A recipient finds an event in the room at most once for each attempt at it
\* and each time the producer named the recipient (Process; Consume and the
\* handler of cmd/worker-dispatch).
THEOREM CopiesBounded == DeliverySpec => []CopiesAreAttempts
<1>1. BothInv => CopiesAreAttempts
  BY CopiesFollow
<1>. QED  BY <1>1, Together, PTL

\* Ingest is what the workers' specification takes its producers to be, as long
\* as no more is pushed than that specification's bound on pushes (Enqueue).
THEOREM Feeds == DeliverySpec /\ [](Len(ws) <= MaxPush) => FeedsWorkers
<1>1. DeliveryInit => Dispatch!Init
  BY DEF DeliveryInit
<1>2. BothInv /\ (Len(ws) <= MaxPush)' /\ [DeliveryNext]_<<vars, workerVars>>
      => [Dispatch!Next]_Dispatch!vars
  <2>. SUFFICES ASSUME BothInv, Len(ws') <= MaxPush, [DeliveryNext]_<<vars, workerVars>>
                PROVE  [Dispatch!Next]_Dispatch!vars
    OBVIOUS
  <2>1. CASE WorkerStep
    BY <2>1 DEF WorkerStep, Dispatch!Next
  <2>2. CASE UNCHANGED <<vars, workerVars>>
    BY <2>2 DEF vars, workerVars, Dispatch!vars
  <2>3. CASE IngestStep
    <3>1. TInv /\ [Next]_vars /\ UNCHANGED workerVars
      BY <2>3 DEF IngestStep, BothInv, OInv
    <3>2. ws \in Seq(WSMessage)
      BY <3>1 DEF TInv, StateOK
    <3>3. CASE ws' = ws
      BY <3>1, <3>3 DEF workerVars, Dispatch!vars
    <3>4. ASSUME NEW m, ws' = Append(ws, m)
          PROVE  Dispatch!Push(TRUE)
      <4>1. Fed' = Append(Fed, TRUE)
        <5>1. [k \in DOMAIN Append(ws, m) |-> TRUE] = Append([k \in DOMAIN ws |-> TRUE], TRUE)
          BY <3>2, ConstantAppend
        <5>. QED  BY <3>4, <5>1 DEF Fed
      <4>2. Len(ws') = Len(ws) + 1 /\ Len(Fed) = Len(ws) /\ Len(ws) \in Nat
        BY <3>2, <3>4 DEF Fed
      <4>3. Len(Fed) < MaxPush
        BY <4>2, DeliveryAssumption
      <4>. QED  BY <3>1, <4>1, <4>3 DEF Dispatch!Push, Fed, workerVars
    <3>5. ws' = ws \/ \E m : ws' = Append(ws, m)
      BY <3>1, NextOK, IngestAppends
    <3>. QED  BY <3>3, <3>4, <3>5 DEF Dispatch!Next
  <2>. QED  BY <2>1, <2>2, <2>3 DEF DeliveryNext
<1>. QED  BY <1>1, <1>2, Together, PTL DEF DeliverySpec, FeedsWorkers, Dispatch!Spec

\* What ingest pushes is delivered at most once, with no bound on what it
\* pushes (Enqueue, Consume and the handler of cmd/worker-dispatch).
THEOREM DeliveredAtMostOnce == DeliverySpec => Dispatch!DeliversAtMostOnce
<1>1. DeliveryInit => Dispatch!Abstract!Init
  BY DEF DeliveryInit, Dispatch!Init, Dispatch!Abstract!Init, Dispatch!Lost
<1>2. BothInv /\ [DeliveryNext]_<<vars, workerVars>>
      => [Dispatch!Abstract!Next]_Dispatch!Abstract!vars
  <2>. SUFFICES ASSUME BothInv, [DeliveryNext]_<<vars, workerVars>>
                PROVE  [Dispatch!Abstract!Next]_Dispatch!Abstract!vars
    OBVIOUS
  <2>1. Workers!Abstract!Next \/ UNCHANGED Workers!Abstract!vars
    <3>1. CASE UNCHANGED workerVars /\ Fed' = Fed
      <4>1. [Workers!Next]_Workers!vars
        BY <3>1 DEF workerVars, Workers!vars, Fed
      <4>. QED  BY <4>1, WorkersAssumption, Workers!NextMoves DEF BothInv
    <3>2. CASE UNCHANGED workerVars /\ Fed' = Append(Fed, TRUE)
      BY <3>2, WorkersAssumption, Workers!PushedMoves DEF workerVars, Fed, BothInv
    <3>3. CASE Workers!Next
      BY <3>3, WorkersAssumption, Workers!NextMoves DEF BothInv
    <3>. QED  BY <3>1, <3>2, <3>3, DeliverySteps DEF BothInv, OInv
  <2>2. Workers!Lost = Dispatch!Lost /\ Workers!Lost' = Dispatch!Lost'
    BY DEF Workers!Lost, Dispatch!Lost, Workers!Held, Dispatch!Held, Workers!Published,
           Dispatch!Published
  <2>3. CASE UNCHANGED Workers!Abstract!vars
    BY <2>2, <2>3 DEF Workers!Abstract!vars, Dispatch!Abstract!vars
  <2>4. CASE Workers!Abstract!Next
    BY <2>2, <2>4 DEF Workers!Abstract!Next, Dispatch!Abstract!Next, Workers!Abstract!Send,
       Dispatch!Abstract!Send, Workers!Abstract!Deliver, Dispatch!Abstract!Deliver,
       Workers!Abstract!Lose, Dispatch!Abstract!Lose, Workers!Abstract!Pending,
       Dispatch!Abstract!Pending
  <2>. QED  BY <2>1, <2>3, <2>4
<1>. QED  BY <1>1, <1>2, Together, PTL DEF DeliverySpec, Dispatch!DeliversAtMostOnce,
               Dispatch!Abstract!Spec

\* Fed by ingest the workers keep what they promise by themselves: a stop costs
\* at most one message, the counters are right, and what one worker publishes
\* keeps the order of the list.
THEOREM WorkersKeepPromises ==
  DeliverySpec =>
    [](Dispatch!StopCostsAtMostOne /\ Dispatch!CountedOnce /\ Dispatch!ConfirmedInOrder)
<1>1. BothInv => Dispatch!StopCostsAtMostOne
  BY DEF BothInv, Workers!DInv, Workers!Counted, Workers!StopCostsAtMostOne,
         Dispatch!StopCostsAtMostOne
<1>2. BothInv => Dispatch!CountedOnce
  BY DEF BothInv, Workers!DInv, Workers!Counted, Workers!CountedOnce, Dispatch!CountedOnce,
         Workers!Published, Dispatch!Published, Workers!Me, Dispatch!Me,
         Workers!Up, Dispatch!Up
<1>3. BothInv => Dispatch!ConfirmedInOrder
  BY DEF BothInv, Workers!DInv, Workers!Ordered, Workers!ConfirmedInOrder,
         Dispatch!ConfirmedInOrder
<1>. QED  BY <1>1, <1>2, <1>3, Together, PTL

\* To ingest the workers are not there: all that is proved of the pipeline holds
\* of the two deployments together.
THEOREM PipelineUnchanged == DeliverySpec => Spec
<1>1. DeliveryInit => Init
  BY DEF DeliveryInit
<1>2. [DeliveryNext]_<<vars, workerVars>> => [Next]_vars
  BY DEF DeliveryNext, IngestStep, WorkerStep, vars
<1>. QED  BY <1>1, <1>2, PTL DEF DeliverySpec, Spec

\* The bound on copies while no process of ingest dies.
CopiesAreRetries ==
  crashes = 0 =>
    \A e \in Event, u \in User :
      job[e].env # Nil =>
        Cardinality({k \in DOMAIN channel : channel[k] \in Telling(e, u)})
          <= (RetryCount + 1) * Cardinality({i \in DOMAIN To(job[e]) : To(job[e])[i] = u})

\* While no process of ingest dies, a recipient finds an event in the room at
\* most RetryCount + 1 times for each time the producer named the recipient
\* (Process, and the retries of the Kafka consumer).
THEOREM CopiesWithoutCrash == DeliverySpec => []CopiesAreRetries
<1>1. ASSUME BothInv, AttemptsBounded, CopiesAreAttempts  PROVE CopiesAreRetries
  <2>. SUFFICES ASSUME crashes = 0, NEW e \in Event, NEW u \in User, job[e].env # Nil
                PROVE  Cardinality({k \in DOMAIN channel : channel[k] \in Telling(e, u)})
                         <= (RetryCount + 1)
                            * Cardinality({i \in DOMAIN To(job[e]) : To(job[e])[i] = u})
    BY DEF CopiesAreRetries
  <2>. DEFINE c == Cardinality({k \in DOMAIN channel : channel[k] \in Telling(e, u)})
              n == Cardinality({i \in DOMAIN To(job[e]) : To(job[e])[i] = u})
              a == job[e].att
  <2>1. c <= a * n
    BY <1>1 DEF CopiesAreAttempts
  <2>2. a <= RetryCount + 1
    BY <1>1 DEF AttemptsBounded
  <2>3. c \in Nat /\ n \in Nat /\ job[e] \in Job
    BY <1>1, CopiesAreNumbers
  <2>4. a \in Nat /\ RetryCount \in Nat
    BY <2>3, IngestAssumption DEF Job
  <2>. HIDE DEF c, n, a
  <2>5. a * n <= (RetryCount + 1) * n
    BY <2>2, <2>3, <2>4
  <2>. QED  BY <2>1, <2>3, <2>4, <2>5 DEF c, n
<1>. QED  BY <1>1, Together, CopiesBounded, PipelineUnchanged, Attempts, PTL
=============================================================================
