--------------------------- MODULE SettingsProofs ---------------------------
(***************************************************************************)
(* Proofs about Settings, for every set of bodies a request may carry and  *)
(* every length of the day.                                                *)
(***************************************************************************)
EXTENDS Settings, TLAPS

\* The stored document repeats whatever was last asked for and present.
Repeats(d, a) ==
  /\ d # Nil
  /\ d.inApp = a.inApp
  /\ d.push = a.push
  /\ a.muted # {} => d.muted = a.muted
  /\ a.quiet # Nil => d.quiet = a.quiet

StInv ==
  /\ doc \in PreferenceType \cup {Nil}
  /\ asked \in PreferenceType \cup {Nil}
  /\ now \in Clock
  /\ asked # Nil => Repeats(doc, asked)

LEMMA SavedType ==
  ASSUME NEW old \in PreferenceType \cup {Nil}, NEW p \in PreferenceType
  PROVE  Saved(old, p) \in PreferenceType /\ Repeats(Saved(old, p), p)
<1>1. Nil \notin PreferenceType
  BY SettingsAssumption
<1>2. CASE old = Nil
  BY <1>1, <1>2 DEF Saved, Repeats
<1>3. CASE old # Nil
  <2>1. old \in PreferenceType
    BY <1>3
  <2>. DEFINE m == IF p.muted = {} THEN old.muted ELSE p.muted
              q == IF p.quiet = Nil THEN old.quiet ELSE p.quiet
              s == [p EXCEPT !.muted = m, !.quiet = q]
  <2>2. m \in SUBSET STRING /\ q \in QuietHours \cup {Nil}
    BY <2>1 DEF PreferenceType
  <2>3. Saved(old, p) = s
    BY <1>3 DEF Saved
  <2>4. s \in PreferenceType /\ s.inApp = p.inApp /\ s.push = p.push /\ s.muted = m /\ s.quiet = q
    <3>. HIDE DEF m, q
    <3>. QED  BY <2>2 DEF PreferenceType
  <2>5. Repeats(s, p)
    BY <2>4, <1>1 DEF Repeats
  <2>. QED  BY <2>3, <2>4, <2>5
<1>. QED  BY <1>2, <1>3

LEMMA StInit == Init => StInv
  BY DEF Init, StInv

LEMMA StNext ==
  ASSUME StInv, [Next]_vars
  PROVE  StInv'
<1>1. ASSUME NEW p \in Body, Set(p)
      PROVE  StInv'
  <2>1. p \in PreferenceType
    BY SettingsAssumption
  <2>2. Saved(doc, p) \in PreferenceType /\ Repeats(Saved(doc, p), p)
    BY <2>1, SavedType DEF StInv
  <2>. QED  BY <1>1, <2>1, <2>2 DEF Set, StInv
<1>2. CASE Tick
  <2>1. (now + 1) % Day \in Clock
    BY DayAssumption DEF StInv, Clock
  <2>. QED  BY <1>2, <2>1 DEF Tick, StInv
<1>3. CASE UNCHANGED vars
  BY <1>3 DEF vars, StInv
<1>. QED  BY <1>1, <1>2, <1>3 DEF Next

\* The invariant: what is stored repeats the settings last confirmed, as far as
\* they were present.
THEOREM SettingsInductive == Spec => []StInv
<1>. QED  BY StInit, StNext, PTL DEF Spec

LEMMA RepeatsBlocks ==
  ASSUME StInv
  PROVE  BlockedIsBlocked
<1>. SUFFICES ASSUME asked # Nil, NEW x \in Identity, NEW c \in Channel,
                     Allowed(Get, x, c, now)
              PROVE  Allowed(asked, x, c, now)
  BY DEF BlockedIsBlocked
<1>1. Get = doc /\ Repeats(doc, asked)
  BY DEF StInv, Get, Repeats
<1>2. ~IsMuted(asked, x)
  BY <1>1 DEF Allowed, IsMuted, Repeats
<1>3. InQuietHours(asked, now) => InQuietHours(doc, now)
  BY <1>1 DEF InQuietHours, Repeats
<1>. QED  BY <1>1, <1>2, <1>3 DEF Allowed, Repeats, Channel, ChannelInApp, ChannelPush

\* For every history of updates, failed ones included, what the user blocks is
\* held back by the gate.
THEOREM Blocks == Spec => []BlockedIsBlocked
<1>. QED  BY SettingsInductive, RepeatsBlocks, PTL

LEMMA WindowIsAnArc ==
  ASSUME NEW s \in Clock, NEW e \in Clock, NEW m \in Clock
  PROVE  InWindow(s, e, m) <=> Ahead(s, m) < Ahead(s, e)
<1>. QED  BY DayAssumption DEF InWindow, Ahead, Clock

\* For every length of the day and every zone, the quiet hours are the arc from
\* start to end on the user's clock.
THEOREM Arc == Spec => []QuietIsAnArc
<1>1. ASSUME StInv  PROVE QuietIsAnArc
  <2>. DEFINE q == Get.quiet
  <2>. SUFFICES ASSUME q # Nil, q.tz # Nil, q.start # Nil, q.end # Nil
                PROVE  InQuietHours(Get, now)
                         <=> Ahead(q.start, LocalMinutes(now, q.tz)) < Ahead(q.start, q.end)
    BY DEF QuietIsAnArc
  <2>1. Get \in PreferenceType
    BY <1>1 DEF Get, StInv, PreferenceType, DefaultPreference
  <2>2. q \in QuietHours
    BY <2>1 DEF PreferenceType
  <2>3. q.start \in Clock /\ q.end \in Clock /\ q.tz \in Clock
    BY <2>2 DEF QuietHours
  <2>4. LocalMinutes(now, q.tz) \in Clock
    BY <1>1, <2>3, DayAssumption DEF LocalMinutes, Clock, StInv
  <2>5. InQuietHours(Get, now) <=> InWindow(q.start, q.end, LocalMinutes(now, q.tz))
    BY DEF InQuietHours
  <2>. HIDE DEF q
  <2>. QED  BY <2>3, <2>4, <2>5, WindowIsAnArc
<1>. QED  BY <1>1, SettingsInductive, PTL
=============================================================================
