----------------------------- MODULE MCSettings -----------------------------
(***************************************************************************)
(* A small instance of Settings: a day of six minutes, any window on it in *)
(* two time zones, and settings with and without a muted identity.         *)
(***************************************************************************)
EXTENDS Settings

CONSTANT u1

Windows == [start : {0, 2, 5, Nil}, end : {0, 2, 5}, tz : {0, 3, Nil}]

Bodies == [inApp : BOOLEAN, push : {TRUE}, muted : {{}, {"video_ready"}},
           quiet : Windows \cup {Nil}]

\* docs/api.md, Update preferences: updates take effect on the next
\* notification dispatch.
UpdateTakesEffect ==
  asked # Nil =>
    \A x \in Identity, c \in Channel :
      Allowed(Get, x, c, now) <=> Allowed(asked, x, c, now)
=============================================================================
