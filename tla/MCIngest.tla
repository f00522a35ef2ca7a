------------------------------ MODULE MCIngest ------------------------------
(***************************************************************************)
(* Small instances of Ingest.  Two minutes make a day, so that a quiet     *)
(* window can hold one of them.                                            *)
(***************************************************************************)
EXTENDS Ingest, TLC

CONSTANTS u1, u2, t1, e1

On    == DefaultPreference
Muted == [On EXCEPT !.muted = {"comment_created", "video_ready"}]
NoPush == [On EXCEPT !.push = FALSE]
Morning == [start |-> 0, end |-> 1, tz |-> 0]

Hook(identity, to) ==
  [via |-> "webhook", topic |-> Nil, identity |-> identity, actorOK |-> TRUE,
   do |-> <<TRUE>>, to |-> to, audience |-> Nil]

Kafka(topic, to) ==
  [via |-> "kafka", topic |-> topic, identity |-> "", actorOK |-> TRUE,
   do |-> <<TRUE>>, to |-> to, audience |-> Nil]

\* One Kafka event to two recipients, who take everything on both channels.
RetryEnvelope == {Kafka("techinsight.comment.created", <<u2, u1>>)}
RetryPrefOf   == (u1 :> {On}) @@ (u2 :> {On})

\* Every kind of envelope: live statuses, a broadcast, a push-only identity, a
\* recipient list taken from the audience, one without recipients, and
\* envelopes that do not validate.
Incomplete == [Hook("video_ready", <<u1>>) EXCEPT !.do = <<TRUE, FALSE>>]
Empty      == [Hook("flashcard_due", Nil) EXCEPT !.audience = <<>>]
Audience   == [Kafka("techinsight.article.created", Nil)
                 EXCEPT !.audience = <<u2>>]
NoActor    == [Kafka("techinsight.comment.created", <<u1>>) EXCEPT !.actorOK = FALSE]
KindEnvelope == {Hook("video_progress", <<u1, u2>>),
                 Hook("challenge_leaderboard", <<u1, u2>>),
                 Hook("streak_at_risk", <<u2>>),
                 Hook("video_uploaded", <<u1>>),
                 Kafka("techinsight.comment.created", <<u1, u2>>),
                 Incomplete, Empty, Audience, NoActor}

\* A recipient who never takes a push, and one who has muted comments, may turn
\* both channels off and on, and may take a quiet window.
KindPrefOf ==
  (u1 :> {NoPush})
  @@ (u2 :> {[Muted EXCEPT !.inApp = on, !.push = on, !.quiet = q] :
               on \in BOOLEAN, q \in {Nil, Morning}})
=============================================================================
