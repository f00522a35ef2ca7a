----------------------------- MODULE Preference -----------------------------
(***************************************************************************)
(* internal/domain/preference.go and the preference gate of                *)
(* internal/service/notification.go.                                       *)
(*                                                                         *)
(* Times are minutes.  A day has Day of them (1440 in the code; any length *)
(* will do).  A preference is a record                                     *)
(*   inApp, push  the two channel switches                                 *)
(*   muted        the identities the user turned off                       *)
(*   quiet        Nil, or the quiet window [start, end, tz]: start and end *)
(*                are minutes of the day, or Nil when parseHHMM rejects    *)
(*                them; tz is the zone's offset in minutes, or Nil when    *)
(*                the zone is empty or cannot be loaded                    *)
(***************************************************************************)
EXTENDS Contract

CONSTANT Day

ASSUME DayAssumption == Day \in Nat \ {0} /\ Nil \notin Nat

Clock == 0 .. Day - 1

QuietHours == [start : Clock \cup {Nil}, end : Clock \cup {Nil},
               tz : Clock \cup {Nil}]

PreferenceType == [inApp : BOOLEAN, push : BOOLEAN, muted : SUBSET STRING,
                   quiet : QuietHours \cup {Nil}]

\* What Get returns for a user without a document: everything is on.
DefaultPreference == [inApp |-> TRUE, push |-> TRUE, muted |-> {}, quiet |-> Nil]

-----------------------------------------------------------------------------
IsMuted(p, identity) == identity \in p.muted

\* The wall clock of a user whose zone is tz minutes ahead, at time now.
LocalMinutes(now, tz) == IF now + tz < Day THEN now + tz ELSE now + tz - Day

\* A plausible slip: the end of the window is taken as included.
InWindowClosed(start, end, mins) ==
  IF start < end THEN mins >= start /\ mins <= end
                 ELSE mins >= start \/ mins <= end

\* The daily window from start, included, to end, excluded; it crosses
\* midnight when start is later than end, and is empty when they are equal.
InWindow(start, end, mins) ==
  /\ start # end
  /\ IF start < end THEN mins >= start /\ mins < end
                    ELSE mins >= start \/ mins < end

InQuietHours(p, now) ==
  /\ p.quiet # Nil
  /\ p.quiet.tz # Nil
  /\ p.quiet.start # Nil
  /\ p.quiet.end # Nil
  /\ InWindow(p.quiet.start, p.quiet.end, LocalMinutes(now, p.quiet.tz))

\* A plausible slip: what is stored wins over what is sent.
SavedOldWins(old, p) ==
  IF old = Nil THEN p ELSE
  [p EXCEPT !.muted = IF old.muted = {} THEN @ ELSE old.muted,
            !.quiet = IF old.quiet = Nil THEN @ ELSE old.quiet]

\* PreferenceStore.Set: a $set of the fields that are present, into the stored
\* preference or a new one.  An empty list of muted identities and an absent
\* quiet window are left out of the document sent.
Saved(old, p) ==
  IF old = Nil THEN p ELSE
  [p EXCEPT !.muted = IF @ = {} THEN old.muted ELSE @,
            !.quiet = IF @ = Nil THEN old.quiet ELSE @]

\* The three gates of the preference filter, mute first.
Allowed(p, identity, channel, now) ==
  /\ ~IsMuted(p, identity)
  /\ CASE channel = ChannelInApp -> p.inApp
       [] channel = ChannelPush  -> p.push /\ ~InQuietHours(p, now)
       [] OTHER                  -> TRUE
=============================================================================
