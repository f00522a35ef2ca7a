------------------------------ MODULE Gateway ------------------------------
(***************************************************************************)
(* internal/gateway: what Centrifugo asks of the service before it lets a  *)
(* client connect, subscribe or publish in the namespace noti.             *)
(*                                                                         *)
(* A channel is a pair of its kind and its id.  The service that knows who *)
(* takes part in a challenge mints subscription tokens, each for one user  *)
(* and one channel; they expire.  Client publishes pass a token bucket per *)
(* user first and the channel policy next.  The module is about the life   *)
(* of one gateway process; the buckets are in its memory.  A request that  *)
(* does not decode or carries no valid connection token changes nothing    *)
(* and is left out.                                                        *)
(***************************************************************************)
EXTENDS Naturals, FiniteSets

CONSTANTS
  User, Topic, Challenge, Nil,
  Rate, Burst, Interval,  \* Rate tokens every Interval, at most Burst
  MaxTime,                \* bound: length of a behaviour
  MaxMint                 \* bound: different subscription tokens minted

Bucket == [tokens : 0 .. Burst, lastFill : Nat]

ASSUME GatewayAssumption ==
  /\ Rate \in Nat \ {0} /\ Burst \in Nat \ {0} /\ Interval \in Nat \ {0}
  /\ MaxTime \in Nat /\ MaxMint \in Nat
  /\ Nil \notin Nat \cup Bucket

VARIABLES
  bucket,    \* user -> the user's token bucket, or Nil
  subs,      \* pairs of a user and a channel the user is subscribed to
  minted,    \* all subscription tokens minted so far
  fresh,     \* those that have not expired
  now,
  from,      \* start of a window of time, any
  hits,      \* user -> publishes that passed the limiter since then
  lastPass,  \* user -> when one did last, or Nil
  answer     \* the last answer to a publish

vars == <<bucket, subs, minted, fresh, now, from, hits, lastPass, answer>>

-----------------------------------------------------------------------------
Room == {"user"} \X User \cup {"topic"} \X Topic
        \cup {"challenge"} \X Challenge \cup {"other"} \X Topic

SubToken == [user : User, channel : Room]

Answer == [user : User, at : Nat, code : {"ok", "too_many", "forbidden"}]

TypeOK ==
  /\ bucket \in [User -> Bucket \cup {Nil}]
  /\ subs \subseteq User \X Room
  /\ minted \subseteq SubToken
  /\ fresh \subseteq minted
  /\ now \in 0 .. MaxTime
  /\ from \in 0 .. MaxTime
  /\ hits \in [User -> Nat]
  /\ lastPass \in [User -> Nat \cup {Nil}]
  /\ answer \in Answer \cup {Nil}

-----------------------------------------------------------------------------
\* A slip: the token is good for every channel of its user.
PolicyAnyChannel(u, ch, tok) ==
  \/ ch[1] = "user" /\ ch[2] = u
  \/ ch[1] = "topic"
  \/ ch[1] = "challenge" /\ tok \in fresh /\ tok.user = u

\* ChannelPolicy.Allow: the owner's own channel, any topic, or a challenge with
\* a token minted for this user and this channel.
Policy(u, ch, tok) ==
  \/ ch[1] = "user" /\ ch[2] = u
  \/ ch[1] = "topic"
  \/ ch[1] = "challenge" /\ tok \in fresh /\ tok.user = u /\ tok.channel = ch

CapTokens(n) == IF n > Burst THEN Burst ELSE n

\* A slip: the time of the last fill is not moved.
RefillUnstamped(b) ==
  LET refill == ((now - b.lastFill) \div Interval) * Rate
  IN  [tokens |-> CapTokens(b.tokens + refill), lastFill |-> b.lastFill]

\* A slip: it is moved although nothing was added.
RefillStamped(b) ==
  LET refill == ((now - b.lastFill) \div Interval) * Rate
  IN  [tokens |-> CapTokens(b.tokens + refill), lastFill |-> now]

\* Whole intervals since the last fill are added; what is over is forgotten.
Refill(b) ==
  LET refill == ((now - b.lastFill) \div Interval) * Rate
  IN  IF refill > 0
      THEN [tokens |-> CapTokens(b.tokens + refill), lastFill |-> now]
      ELSE b

NewBucket == [tokens |-> Burst, lastFill |-> now]

\* The bucket RateLimiter.Allow looks at.
Filled(u) == Refill(IF bucket[u] = Nil THEN NewBucket ELSE bucket[u])

-----------------------------------------------------------------------------
Init ==
  /\ bucket = [u \in User |-> Nil]
  /\ subs = {}
  /\ minted = {}
  /\ fresh = {}
  /\ now = 0
  /\ from \in 0 .. MaxTime
  /\ hits = [u \in User |-> 0]
  /\ lastPass = [u \in User |-> Nil]
  /\ answer = Nil

\* Connect: the client is subscribed to its own channel.
Connect(u) ==
  /\ subs' = subs \cup {<<u, <<"user", u>>>>}
  /\ UNCHANGED <<bucket, minted, fresh, now, from, hits, lastPass, answer>>

\* Subscribe, with a token or none; a refusal changes nothing.
Subscribe(u, ch, tok) ==
  /\ Policy(u, ch, tok)
  /\ subs' = subs \cup {<<u, ch>>}
  /\ UNCHANGED <<bucket, minted, fresh, now, from, hits, lastPass, answer>>

Unsubscribe(u, ch) ==
  /\ subs' = subs \ {<<u, ch>>}
  /\ UNCHANGED <<bucket, minted, fresh, now, from, hits, lastPass, answer>>

\* Publish, refused by the limiter.
TooMany(u) ==
  /\ Filled(u).tokens = 0
  /\ bucket' = [bucket EXCEPT ![u] = Filled(u)]
  /\ answer' = [user |-> u, at |-> now, code |-> "too_many"]
  /\ UNCHANGED <<subs, minted, fresh, now, from, hits, lastPass>>

\* Publish past the limiter: the token is spent although the policy may
\* refuse.  No subscription token comes with a publish.
Publish(u, ch) ==
  /\ Filled(u).tokens > 0
  /\ bucket' = [bucket EXCEPT ![u] = [Filled(u) EXCEPT !.tokens = @ - 1]]
  /\ hits' = [hits EXCEPT ![u] = IF now >= from THEN @ + 1 ELSE @]
  /\ lastPass' = [lastPass EXCEPT ![u] = now]
  /\ answer' = [user |-> u, at |-> now,
                code |-> IF Policy(u, ch, Nil) THEN "ok" ELSE "forbidden"]
  /\ UNCHANGED <<subs, minted, fresh, now, from>>

\* The service that knows the members of a challenge hands out a token.
Mint(u, c) ==
  LET tok == [user |-> u, channel |-> <<"challenge", c>>] IN
  /\ Cardinality(minted \cup {tok}) <= MaxMint
  /\ minted' = minted \cup {tok}
  /\ fresh' = fresh \cup {tok}
  /\ UNCHANGED <<bucket, subs, now, from, hits, lastPass, answer>>

Expire(tok) ==
  /\ fresh' = fresh \ {tok}
  /\ UNCHANGED <<bucket, subs, minted, now, from, hits, lastPass, answer>>

Tick ==
  /\ now < MaxTime
  /\ now' = now + 1
  /\ UNCHANGED <<bucket, subs, minted, fresh, from, hits, lastPass, answer>>

Next ==
  \/ \E u \in User : Connect(u) \/ TooMany(u)
  \/ \E u \in User, ch \in Room :
       \/ Publish(u, ch) \/ Unsubscribe(u, ch)
       \/ \E tok \in minted \cup {Nil} : Subscribe(u, ch, tok)
  \/ \E u \in User, c \in Challenge : Mint(u, c)
  \/ \E tok \in fresh : Expire(tok)
  \/ Tick

Spec == Init /\ [][Next]_vars

-----------------------------------------------------------------------------
(***************************************************************************)
(* Properties.                                                             *)
(***************************************************************************)

\* In a window of time, wherever it starts, a user gets at most Burst publishes
\* past the limiter, and Rate for every interval begun: the refills that are
\* rounded down and the cap keep the promise together (RateLimiter.Allow).
WindowBound ==
  \A u \in User : now >= from =>
    hits[u] <= Burst + Rate * (((now - from) \div Interval) + 1)

\* Nobody starves: a publish is refused for the rate only if one of the same
\* user passed less than an interval ago.  A user who keeps trying does not
\* push the refill away.
NeverStarved ==
  answer # Nil /\ answer.code = "too_many" =>
    /\ lastPass[answer.user] # Nil
    /\ answer.at < lastPass[answer.user] + Interval

\* Nobody listens to another user's channel, and nobody to a challenge without
\* a token minted for that user and that challenge, whatever tokens for other
\* channels or of other users are about.
SubscribersInvited ==
  \A s \in subs :
    /\ s[2][1] = "user" => s[2][2] = s[1]
    /\ s[2][1] = "challenge" => [user |-> s[1], channel |-> s[2]] \in minted
    /\ s[2][1] # "other"
=============================================================================
