------------------------------ MODULE Contract ------------------------------
(***************************************************************************)
(* pkg/contract and pkg/utils: the event envelope producers send, the      *)
(* identities it may carry, the delivery channels of each identity, and    *)
(* who receives an event.  Everything here is a pure function of the       *)
(* envelope.                                                               *)
(*                                                                         *)
(* An envelope is abstracted to what the pipeline tells apart:             *)
(*   via      the transport, "kafka" or "webhook"                          *)
(*   topic    the Kafka topic it was read from (Nil for the webhook)       *)
(*   identity the identity the producer wrote                              *)
(*   actorOK  actor.id and actor.type are both present                     *)
(*   do       one BOOLEAN per do object: it has an id and a type           *)
(*   to       extra.to, Nil when absent                                    *)
(*   audience do[0].data.audience_ids, Nil when absent                     *)
(***************************************************************************)
EXTENDS Naturals, Sequences

CONSTANTS User, Nil

ASSUME NilAssumption == Nil \notin User

ChannelInApp == "in_app"
ChannelPush  == "push"
Channel      == {ChannelInApp, ChannelPush}

LingocastIdentities ==
  {"video_ready", "video_failed", "video_progress", "flashcard_due",
   "streak_at_risk", "achievement_unlocked", "challenge_leaderboard",
   "challenge_ended"}

AllIdentities == {"content_published", "comment_created"} \cup LingocastIdentities

IsValidIdentity(identity) == identity \in AllIdentities

TransientIdentities == {"video_progress", "challenge_leaderboard"}

IsTransient(identity) == identity \in TransientIdentities

\* The delivery channels of an identity, in the order Process walks them.
IdentityChannels(identity) ==
  CASE identity \in TransientIdentities           -> <<ChannelInApp>>
    [] identity = "streak_at_risk"                -> <<ChannelPush>>
    [] identity \notin AllIdentities              -> <<>>
    [] OTHER                                      -> <<ChannelInApp, ChannelPush>>

TopicToIdentity ==
  [t \in {"techinsight.article.created", "techinsight.comment.created"} |->
     IF t = "techinsight.article.created" THEN "content_published"
                                          ELSE "comment_created"]

-----------------------------------------------------------------------------
EnvelopeType ==
  [via : {"kafka"}, topic : DOMAIN TopicToIdentity, identity : STRING,
   actorOK : BOOLEAN, do : Seq(BOOLEAN),
   to : Seq(User) \cup {Nil}, audience : Seq(User) \cup {Nil}]
  \cup
  [via : {"webhook"}, topic : {Nil}, identity : STRING,
   actorOK : BOOLEAN, do : Seq(BOOLEAN),
   to : Seq(User) \cup {Nil}, audience : Seq(User) \cup {Nil}]

\* The Kafka consumer overrides the identity with the one of the topic; the
\* webhook trusts the body.
IdentityOf(v) ==
  IF v.via = "kafka" THEN TopicToIdentity[v.topic] ELSE v.identity

Validate(v) ==
  /\ IdentityOf(v) # ""
  /\ v.actorOK
  /\ v.do # <<>>
  /\ \A k \in DOMAIN v.do : v.do[k]
  /\ IsValidIdentity(IdentityOf(v))

\* extra.to when the producer sent one, even an empty one, else the audience
\* of the first object.
ResolveRecipients(v) ==
  CASE v.to # Nil                     -> v.to
    [] v.to = Nil /\ v.audience # Nil -> v.audience
    [] OTHER                          -> <<>>

\* The event is broadcast on the channel of its challenge.
IsShared(v) == IdentityOf(v) = "challenge_leaderboard"
=============================================================================
