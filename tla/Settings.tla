------------------------------ MODULE Settings ------------------------------
(***************************************************************************)
(* internal/api/preference_handler.go and internal/store/mongo/            *)
(* preference.go: a user's settings screen, the document it is stored in,  *)
(* and what the preference gate of the pipeline makes of it at any minute. *)
(* Users do not share documents, so one user stands for all.               *)
(***************************************************************************)
EXTENDS Preference

CONSTANTS
  Body,     \* the settings a request may carry
  Identity  \* the identities looked at

ASSUME SettingsAssumption ==
  /\ Body \subseteq PreferenceType
  /\ Nil \notin PreferenceType
  /\ Nil \notin QuietHours

VARIABLES
  doc,    \* the user's document in the preferences collection, or Nil
  asked,  \* the last settings the user was told are saved, or Nil
  now     \* minute of the day

vars == <<doc, asked, now>>

-----------------------------------------------------------------------------
\* PreferenceStore.Get
Get == IF doc = Nil THEN DefaultPreference ELSE doc

Init ==
  /\ doc = Nil
  /\ asked = Nil
  /\ now \in Clock

\* PUT preferences.  When the store fails, the user does not know what is
\* stored: the update may have been applied.
Set(p) ==
  /\ \/ doc' = Saved(doc, p) /\ asked' = p
     \/ doc' \in {doc, Saved(doc, p)} /\ asked' = Nil
  /\ UNCHANGED now

Tick ==
  /\ now' = (now + 1) % Day
  /\ UNCHANGED <<doc, asked>>

Next == (\E p \in Body : Set(p)) \/ Tick

Spec == Init /\ [][Next]_vars

-----------------------------------------------------------------------------
(***************************************************************************)
(* Properties.                                                             *)
(***************************************************************************)

\* What the user blocks is blocked from the next dispatch on: whatever was
\* stored before and however the fields sent merge with it, the gate lets
\* nothing through that the settings last saved would hold back.
BlockedIsBlocked ==
  asked # Nil =>
    \A x \in Identity, c \in Channel :
      Allowed(Get, x, c, now) => Allowed(asked, x, c, now)

\* How far the clock runs from minute a until it shows b.
Ahead(a, b) == IF a <= b THEN b - a ELSE b - a + Day

\* A quiet window is an arc of the day: the minutes less than its length after
\* its start on the user's own clock, whether or not it crosses midnight, and
\* none when start and end coincide (Preference.InQuietHours).
QuietIsAnArc ==
  LET q == Get.quiet IN
  q # Nil /\ q.tz # Nil /\ q.start # Nil /\ q.end # Nil =>
    (InQuietHours(Get, now)
       <=> Ahead(q.start, LocalMinutes(now, q.tz)) < Ahead(q.start, q.end))
=============================================================================
