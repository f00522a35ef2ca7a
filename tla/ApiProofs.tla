----------------------------- MODULE ApiProofs -----------------------------
(***************************************************************************)
(* Proofs about Api, for any key ids, keys, tokens, number of requests in  *)
(* progress, first key sets and bounds.                                    *)
(***************************************************************************)
EXTENDS Api, FiniteSetTheorems, TLAPS

-----------------------------------------------------------------------------
(***************************************************************************)
(* Types.  A request changes by moving on, and the fields it had otherwise *)
(* stay: the lemmas say so once for every step of a request.               *)
(***************************************************************************)
Stage == Active \cup {"refused"}

LEMMA RequestShape ==
  ASSUME NEW r \in Request
  PROVE  /\ r.pc \in Stage /\ r.token \in Token
         /\ r.sees \in [Kid -> Entry] \cup {Nil}
         /\ r.known \in BOOLEAN /\ r.steady \in BOOLEAN /\ r.failed \in BOOLEAN
  BY DEF Request, Stage

LEMMA MovedTo ==
  ASSUME NEW r \in Request, NEW p \in Stage
  PROVE  LET q == [r EXCEPT !.pc = p] IN
         /\ q \in Request
         /\ q.pc = p /\ q.token = r.token /\ q.sees = r.sees
         /\ q.known = r.known /\ q.steady = r.steady /\ q.failed = r.failed
  BY DEF Request, Stage

LEMMA MovedFetched ==
  ASSUME NEW r \in Request, NEW x \in [Kid -> Entry]
  PROVE  LET q == [r EXCEPT !.pc = "store", !.sees = x] IN
         /\ q \in Request
         /\ q.pc = "store" /\ q.token = r.token /\ q.sees = x
         /\ q.known = r.known /\ q.steady = r.steady /\ q.failed = r.failed
  BY DEF Request, Active

LEMMA MovedStored ==
  ASSUME NEW r \in Request
  PROVE  LET q == [r EXCEPT !.pc = "again", !.sees = Nil] IN
         /\ q \in Request
         /\ q.pc = "again" /\ q.token = r.token /\ q.sees = Nil
         /\ q.known = r.known /\ q.steady = r.steady /\ q.failed = r.failed
  BY DEF Request, Active

LEMMA MovedFailed ==
  ASSUME NEW r \in Request, NEW p \in Stage
  PROVE  LET q == [r EXCEPT !.pc = p, !.failed = TRUE] IN
         /\ q \in Request
         /\ q.pc = p /\ q.token = r.token /\ q.sees = r.sees
         /\ q.known = r.known /\ q.steady = r.steady /\ q.failed = TRUE
  BY DEF Request, Stage

LEMMA Unsteadied ==
  ASSUME NEW r \in Request
  PROVE  LET q == [r EXCEPT !.steady = FALSE] IN
         /\ q \in Request
         /\ q.pc = r.pc /\ q.token = r.token /\ q.sees = r.sees
         /\ q.known = r.known /\ q.steady = FALSE /\ q.failed = r.failed
  BY DEF Request, Stage

LEMMA NewRequest ==
  ASSUME NEW t \in Token, NEW a \in BOOLEAN, NEW b \in BOOLEAN
  PROVE  LET q == [pc |-> "look", token |-> t, sees |-> Nil,
                   known |-> a, steady |-> b, failed |-> FALSE] IN
         /\ q \in Request
         /\ q.pc = "look" /\ q.token = t /\ q.sees = Nil
         /\ q.known = a /\ q.steady = b /\ q.failed = FALSE
  BY DEF Request, Active

LEMMA CheckedShape ==
  ASSUME NEW r \in Request, NEW k \in Key \cup {Nil}
  PROVE  LET q == Checked(r, k) IN
         /\ q \in Request
         /\ q.pc = (IF k = r.token.key THEN "handle" ELSE "refused")
         /\ q.token = r.token /\ q.sees = r.sees
         /\ q.known = r.known /\ q.steady = r.steady /\ q.failed = r.failed
<1>1. "handle" \in Stage /\ "refused" \in Stage
  BY DEF Stage, Active
<1>2. CASE k = r.token.key
  BY <1>1, <1>2, MovedTo DEF Checked
<1>3. CASE k # r.token.key
  BY <1>1, <1>3, MovedTo DEF Checked
<1> QED
  BY <1>2, <1>3

LEMMA TokenShape ==
  ASSUME NEW t \in Token
  PROVE  t.kid \in Kid /\ t.key \in Key
  BY ApiAssumption

LEMMA IdleShape ==
  Idle.pc = "idle" /\ Idle \notin Request
  BY DEF Idle, Request, Active

LEMMA MergedShape ==
  ASSUME NEW c \in [Kid -> Key \cup {Nil}], NEW x
  PROVE  Merged(c, x) \in [Kid -> Key \cup {Nil}]
  BY DEF Merged

\* A slot that is in use holds a request.
LEMMA Occupied ==
  ASSUME TypeOK, NEW s \in Slot, req[s].pc # "idle"
  PROVE  req[s] \in Request
  BY IdleShape DEF TypeOK

LEMMA SlotTyped ==
  ASSUME TypeOK, NEW s \in Slot, NEW q \in Request \cup {Idle},
         req' = [req EXCEPT ![s] = q]
  PROVE  req' \in [Slot -> Request \cup {Idle}]
  BY DEF TypeOK

LEMMA InitTyped == Init => TypeOK
<1> SUFFICES ASSUME Init PROVE TypeOK
  OBVIOUS
<1>1. idp \in [Kid -> Key \cup {Nil}]
  BY ApiAssumption DEF Init
<1>2. idp \in [Kid -> Entry]
  BY <1>1 DEF Entry
<1>3. ever \in [Kid -> SUBSET Key]
  BY <1>1 DEF Init
<1>4. cache \in [Kid -> Key \cup {Nil}]
  BY DEF Init, NoKeys
<1>5. req \in [Slot -> Request \cup {Idle}]
  BY DEF Init
<1>6. verify \in BOOLEAN /\ mongo \in BOOLEAN /\ redis \in BOOLEAN
      /\ db \in BOOLEAN /\ ready \in BOOLEAN /\ late \in BOOLEAN
  BY DEF Init
<1>7. rotations \in 0 .. MaxRotations /\ faults \in 0 .. MaxFaults
      /\ stops \in 0 .. MaxStops
  BY ApiAssumption DEF Init
<1>8. proc \in {"down", "booting", "serving", "deaf", "draining", "closing"}
  BY DEF Init
<1> QED
  BY <1>2, <1>3, <1>4, <1>5, <1>6, <1>7, <1>8 DEF TypeOK

\* What a step of a request may put in its slot.
LEMMA ServeTyped ==
  ASSUME TypeOK, NEW s \in Slot, Serve(s) \/ Leave(s)
  PROVE  req' \in [Slot -> Request \cup {Idle}] /\ cache' \in [Kid -> Key \cup {Nil}]
<1>1. req[s].pc # "idle"
  BY DEF Serve, Leave, Step, Running, Active, Look, Fetch, FetchFails, Store,
         Again, Handle, Sync
<1>2. req[s] \in Request
  BY <1>1, Occupied
<1>3. req[s].token.kid \in Kid
  BY <1>2, RequestShape, TokenShape
<1>4. cache[req[s].token.kid] \in Key \cup {Nil}
  BY <1>3 DEF TypeOK
<1>5. {"fetch", "handle", "store", "again", "sync", "refused"} \subseteq Stage
  BY DEF Stage, Active
<1>6. CASE Look(s)
  <2>1. PICK q \in Request : req' = [req EXCEPT ![s] = q]
    <3>1. CASE ~verify
      <4>1. [req[s] EXCEPT !.pc = "handle"] \in Request
        BY <1>2, <1>5, MovedTo
      <4> QED
        BY <4>1, <3>1, <1>6 DEF Look
    <3>2. CASE verify /\ cache[req[s].token.kid] # Nil
      <4>1. Checked(req[s], cache[req[s].token.kid]) \in Request
        BY <1>2, <1>4, CheckedShape
      <4> QED
        BY <4>1, <3>2, <1>6 DEF Look
    <3>3. CASE verify /\ cache[req[s].token.kid] = Nil
      <4>1. [req[s] EXCEPT !.pc = "fetch"] \in Request
        BY <1>2, <1>5, MovedTo
      <4> QED
        BY <4>1, <3>3, <1>6 DEF Look
    <3> QED
      BY <3>1, <3>2, <3>3
  <2> QED
    BY <2>1, <1>6, SlotTyped DEF Look, TypeOK
<1>7. CASE Fetch(s)
  <2>1. [req[s] EXCEPT !.pc = "store", !.sees = idp] \in Request
    BY <1>2, MovedFetched DEF TypeOK
  <2> QED
    BY <2>1, <1>7, SlotTyped DEF Fetch, TypeOK
<1>8. CASE FetchFails(s)
  <2>1. [req[s] EXCEPT !.pc = "refused", !.failed = TRUE] \in Request
    BY <1>2, <1>5, MovedFailed
  <2> QED
    BY <2>1, <1>8, SlotTyped DEF FetchFails, TypeOK
<1>9. CASE Store(s)
  <2>1. [req[s] EXCEPT !.pc = "again", !.sees = Nil] \in Request
    BY <1>2, MovedStored
  <2>2. cache' \in [Kid -> Key \cup {Nil}]
    BY <1>9, MergedShape DEF Store, TypeOK
  <2> QED
    BY <2>1, <2>2, <1>9, SlotTyped DEF Store
<1>10. CASE Again(s)
  <2>1. Checked(req[s], cache[req[s].token.kid]) \in Request
    BY <1>2, <1>4, CheckedShape
  <2> QED
    BY <2>1, <1>10, SlotTyped DEF Again, TypeOK
<1>11. CASE Handle(s)
  <2>1. [req[s] EXCEPT !.pc = "sync"] \in Request
    BY <1>2, <1>5, MovedTo
  <2>2. PICK q \in Request \cup {Idle} : req' = [req EXCEPT ![s] = q]
    BY <2>1, <1>11 DEF Handle
  <2> QED
    BY <2>2, <1>11, SlotTyped DEF Handle, TypeOK
<1>12. CASE Sync(s)
  BY <1>12, SlotTyped DEF Sync, TypeOK
<1>13. CASE Leave(s)
  BY <1>13, SlotTyped DEF Leave, TypeOK
<1> QED
  BY <1>6, <1>7, <1>8, <1>9, <1>10, <1>11, <1>12, <1>13 DEF Serve

LEMMA GoneTyped ==
  ASSUME TypeOK, Gone, stops' \in 0 .. MaxStops
  PROVE  TypeOK'
<1>1. req' \in [Slot -> Request \cup {Idle}]
  BY DEF TypeOK, Gone
<1>2. cache' \in [Kid -> Key \cup {Nil}]
  BY DEF Gone, NoKeys
<1> QED
  BY <1>1, <1>2 DEF TypeOK, Gone, keyVars

LEMMA NextTyped == TypeOK /\ [Next]_vars => TypeOK'
<1> SUFFICES ASSUME TypeOK, [Next]_vars PROVE TypeOK'
  OBVIOUS
<1> USE ApiAssumption
<1>1. ASSUME NEW k \in Kid, NEW e \in Entry, Rotate(k, e) PROVE TypeOK'
  <2>1. idp' \in [Kid -> Entry]
    BY <1>1 DEF Rotate, TypeOK
  <2>2. ever' \in [Kid -> SUBSET Key]
    BY <1>1 DEF Rotate, TypeOK
  <2>3. req' \in [Slot -> Request \cup {Idle}]
    <3>1. ASSUME NEW s \in Slot, Running(s)
          PROVE  [req[s] EXCEPT !.steady = FALSE] \in Request
      <4>1. req[s] \in Request
        BY <3>1, Occupied DEF Running, Active
      <4> QED
        BY <4>1, Unsteadied
    <3>2. \A s \in Slot : req[s] \in Request \cup {Idle}
      BY DEF TypeOK
    <3> QED
      BY <1>1, <3>1, <3>2 DEF Rotate
  <2>4. rotations' \in 0 .. MaxRotations
    BY <1>1 DEF Rotate, TypeOK
  <2> QED
    BY <1>1, <2>1, <2>2, <2>3, <2>4 DEF Rotate, TypeOK, lifeVars
<1>2. CASE DatabaseDown
  <2>1. faults' \in 0 .. MaxFaults
    <3>1. faults < MaxFaults /\ faults' = faults + 1
      BY <1>2 DEF DatabaseDown
    <3> QED
      BY <3>1 DEF TypeOK
  <2>2. db' = FALSE
        /\ UNCHANGED <<verify, keyVars, proc, mongo, redis, ready, late, stops, cache, req>>
    BY <1>2 DEF DatabaseDown
  <2> QED
    BY <2>1, <2>2 DEF TypeOK, keyVars
<1>3. CASE DatabaseUp
  BY <1>3 DEF DatabaseUp, TypeOK, keyVars
<1>4. ASSUME NEW s \in Slot, Serve(s) \/ Leave(s) PROVE TypeOK'
  <2>1. req' \in [Slot -> Request \cup {Idle}] /\ cache' \in [Kid -> Key \cup {Nil}]
    BY <1>4, ServeTyped
  <2>2. faults' \in 0 .. MaxFaults
    BY <1>4 DEF Serve, Leave, Look, Fetch, FetchFails, Store, Again, Handle, Sync, TypeOK
  <2>3. UNCHANGED <<verify, keyVars, lifeVars>>
    BY <1>4 DEF Serve, Leave, Look, Fetch, FetchFails, Store, Again, Handle, Sync, Step
  <2> QED
    BY <2>1, <2>2, <2>3 DEF TypeOK, keyVars, lifeVars
<1>5. ASSUME NEW s \in Slot, NEW t \in Token, Arrive(s, t) PROVE TypeOK'
  <2>1. [pc |-> "look", token |-> t, sees |-> Nil, known |-> cache[t.kid] = t.key,
         steady |-> idp[t.kid] = t.key, failed |-> FALSE] \in Request
    BY NewRequest
  <2> QED
    BY <2>1, <1>5, SlotTyped DEF Arrive, TypeOK, keyVars, lifeVars
<1>6. CASE Boot
  <2>1. cache' \in [Kid -> Key \cup {Nil}]
    <3>1. NoKeys \in [Kid -> Key \cup {Nil}]
      BY DEF NoKeys
    <3>2. Merged(NoKeys, idp) \in [Kid -> Key \cup {Nil}]
      BY <3>1, MergedShape
    <3> QED
      BY <1>6, <3>1, <3>2 DEF Boot
  <2> QED
    BY <2>1, <1>6 DEF Boot, TypeOK, keyVars
<1>7. CASE Connect
  BY <1>7 DEF Connect, TypeOK, keyVars
<1>8. CASE LiveProbe
  BY <1>8 DEF LiveProbe, Draining, TypeOK, keyVars
<1>9. CASE Drained
  BY <1>9 DEF Drained, TypeOK, keyVars
<1>10. CASE GiveUp
  BY <1>10 DEF GiveUp, TypeOK, keyVars
<1>11. CASE CloseRedis
  BY <1>11 DEF CloseRedis, TypeOK, keyVars
<1>12. CASE CloseMongo
  BY <1>12 DEF CloseMongo, TypeOK, keyVars
<1>13. CASE Exit
  BY <1>13, GoneTyped DEF Exit, TypeOK
<1>14. CASE ReadyProbe
  <2>1. ready' \in BOOLEAN
    BY <1>14, Zenon DEF ReadyProbe
  <2>2. UNCHANGED <<verify, keyVars, proc, mongo, redis, db, late, stops, cache, req, faults>>
    BY <1>14 DEF ReadyProbe
  <2> QED
    BY <2>1, <2>2 DEF TypeOK, keyVars
<1>15. CASE Signal
  BY <1>15 DEF Signal, Draining, TypeOK, keyVars
<1>16. CASE Kill
  <2>1. stops' \in 0 .. MaxStops
    BY <1>16 DEF Kill, TypeOK
  <2> QED
    BY <2>1, <1>16, GoneTyped DEF Kill
<1>17. CASE UNCHANGED vars
  BY <1>17 DEF TypeOK, vars, keyVars, lifeVars
<1> QED
  BY <1>1, <1>2, <1>3, <1>4, <1>5, <1>6, <1>7, <1>8, <1>9, <1>10, <1>11, <1>12,
     <1>13, <1>14, <1>15, <1>16, <1>17 DEF Next, Main

\* Types: nothing a provider answers, a race of refreshes or a stop at any
\* moment leaves the cache with an entry that is not a key.
THEOREM TypeCorrect == Spec => []TypeOK
  BY InitTyped, NextTyped, PTL DEF Spec

-----------------------------------------------------------------------------
(***************************************************************************)
(* Stores and requests: the process closes its stores in a state only that *)
(* no request is in unless the shutdown gave up on one.                    *)
(***************************************************************************)
ProcOK ==
  /\ proc \in {"booting", "serving", "deaf", "draining"} => mongo = TRUE
  /\ \A s \in Slot :
       /\ Running(s) => proc \in {"serving", "draining", "closing"}
       /\ req[s].pc = "sync" /\ proc \in {"serving", "draining"} => redis = TRUE
       /\ proc = "closing" /\ late = FALSE => ~Running(s)

\* A step of a request leaves it running, or it ends.
LEMMA ServeRuns ==
  ASSUME TypeOK, NEW s \in Slot, Serve(s) \/ Leave(s), NEW v \in Slot
  PROVE  /\ Running(v)' => Running(v)
         /\ req'[v].pc = "sync" => req[v].pc = "sync" \/ redis = TRUE
<1>1. CASE v # s
  BY <1>1 DEF Serve, Leave, Look, Fetch, FetchFails, Store, Again, Handle, Sync, Step,
     Running, TypeOK
<1>2. CASE v = s /\ Serve(s)
  <2>1. Running(v)
    BY <1>2 DEF Serve, Look, Fetch, FetchFails, Store, Again, Handle, Sync, Step
  <2>2. ASSUME req'[v].pc = "sync", req[v].pc # "sync" PROVE redis = TRUE
    <3>1. req[s] \in Request
      BY <2>1, <1>2, Occupied DEF Running, Active
    <3>2. req[s].token.kid \in Kid
      BY <3>1, RequestShape, TokenShape
    <3>3. CASE Handle(s)
      <4>1. db /\ mongo /\ redis
        BY <1>2, <2>2, <3>3, IdleShape DEF Handle, TypeOK
      <4> QED
        BY <4>1 DEF TypeOK
    <3>4. CASE Look(s) \/ Again(s)
      <4>1. cache[req[s].token.kid] \in Key \cup {Nil}
        BY <3>2 DEF TypeOK
      <4>2. Checked(req[s], cache[req[s].token.kid]).pc \in {"handle", "refused"}
        BY <3>1, <4>1, CheckedShape
      <4>3. req'[s].pc # "sync"
        BY <3>1, <3>4, <4>2 DEF Look, Again, TypeOK, Request
      <4> QED
        BY <4>3, <1>2, <2>2
    <3>5. CASE Fetch(s) \/ FetchFails(s) \/ Store(s) \/ Sync(s)
      BY <1>2, <2>2, <3>1, <3>5 DEF Fetch, FetchFails, Store, Sync, Idle, TypeOK, Request
    <3> QED
      BY <1>2, <3>3, <3>4, <3>5 DEF Serve
  <2> QED
    BY <2>1, <2>2, <1>2
<1>3. CASE v = s /\ Leave(s)
  BY <1>3 DEF Leave, Running, Active, Idle, TypeOK
<1> QED
  BY <1>1, <1>2, <1>3

LEMMA InitProc == Init => ProcOK
  BY DEF Init, ProcOK, Running, Active, Idle

\* A step after which fewer requests run, in a process that is alive.
LEMMA SameProc ==
  ASSUME ProcOK, UNCHANGED <<proc, mongo, redis, late>>,
         \A s \in Slot : /\ Running(s)' => Running(s)
                         /\ req'[s].pc = "sync" => req[s].pc = "sync" \/ redis = TRUE
  PROVE  ProcOK'
  BY DEF ProcOK

LEMMA GoneProc == Gone => ProcOK'
  BY DEF Gone, ProcOK, Running, Active, Idle

LEMMA NextProc == TypeOK /\ ProcOK /\ [Next]_vars => ProcOK'
<1> SUFFICES ASSUME TypeOK, ProcOK, [Next]_vars PROVE ProcOK'
  OBVIOUS
<1>1. ASSUME NEW k \in Kid, NEW e \in Entry, Rotate(k, e) PROVE ProcOK'
  <2>1. \A s \in Slot : req'[s].pc = req[s].pc
    <3>1. ASSUME NEW s \in Slot, Running(s)
          PROVE  [req[s] EXCEPT !.steady = FALSE].pc = req[s].pc
      BY <3>1, Occupied, Unsteadied DEF Running, Active
    <3> QED
      BY <1>1, <3>1 DEF Rotate, TypeOK
  <2>2. UNCHANGED <<proc, mongo, redis, late>>
    BY <1>1 DEF Rotate, lifeVars
  <2> QED
    BY <2>1, <2>2, SameProc DEF Running
<1>2. CASE DatabaseDown
  BY <1>2, SameProc DEF DatabaseDown, Running
<1>3. CASE DatabaseUp
  BY <1>3, SameProc DEF DatabaseUp, Running
<1>4. ASSUME NEW s \in Slot, Serve(s) \/ Leave(s) PROVE ProcOK'
  <2>1. UNCHANGED <<proc, mongo, redis, late>>
    BY <1>4 DEF Serve, Leave, Look, Fetch, FetchFails, Store, Again, Handle, Sync,
       Step, lifeVars
  <2> QED
    BY <2>1, <1>4, ServeRuns, SameProc
<1>5. ASSUME NEW s \in Slot, NEW t \in Token, Arrive(s, t) PROVE ProcOK'
  <2>1. proc = "serving" /\ UNCHANGED <<proc, mongo, redis, late>>
    BY <1>5 DEF Arrive, lifeVars
  <2>2. \A v \in Slot : v # s => req'[v] = req[v]
    BY <1>5 DEF Arrive, TypeOK
  <2>3. req'[s].pc = "look"
    BY <1>5, NewRequest DEF Arrive, TypeOK
  <2> QED
    BY <2>1, <2>2, <2>3 DEF ProcOK, Running
<1>6. CASE Boot
  BY <1>6 DEF Boot, ProcOK, Running, Active
<1>7. CASE Connect
  BY <1>7 DEF Connect, ProcOK, Running, Active
<1>8. CASE LiveProbe
  BY <1>8 DEF LiveProbe, Draining, ProcOK, Running, Active
<1>9. CASE Drained
  BY <1>9 DEF Drained, ProcOK, Running, Active
<1>10. CASE GiveUp
  BY <1>10 DEF GiveUp, ProcOK, Running, Active
<1>11. CASE CloseRedis
  BY <1>11 DEF CloseRedis, ProcOK, Running, Active
<1>12. CASE CloseMongo
  BY <1>12 DEF CloseMongo, ProcOK, Running, Active
<1>13. CASE Exit
  BY <1>13, GoneProc DEF Exit
<1>14. CASE ReadyProbe
  BY <1>14, SameProc DEF ReadyProbe, Running
<1>15. CASE Signal
  BY <1>15 DEF Signal, Draining, ProcOK, Running, Active
<1>16. CASE Kill
  BY <1>16, GoneProc DEF Kill
<1>17. CASE UNCHANGED vars
  BY <1>17, SameProc DEF vars, lifeVars, Running
<1> QED
  BY <1>1, <1>2, <1>3, <1>4, <1>5, <1>6, <1>7, <1>8, <1>9, <1>10, <1>11, <1>12,
     <1>13, <1>14, <1>15, <1>16, <1>17 DEF Next, Main

\* The deferred Close calls of main run only when nothing needs the stores, for
\* any number of requests in progress, unless the shutdown ran out of time.
THEOREM StoresOutlive == Spec => []StoresOutliveRequests
<1>1. TypeOK /\ ProcOK => StoresOutliveRequests
  <2> SUFFICES ASSUME TypeOK, ProcOK, NEW s \in Slot, Running(s), ~late
               PROVE  mongo /\ (req[s].pc = "sync" => redis)
    BY DEF StoresOutliveRequests
  <2>1. late = FALSE
    BY DEF TypeOK
  <2>2. proc \in {"serving", "draining"}
    BY <2>1 DEF ProcOK
  <2> QED
    BY <2>2 DEF ProcOK
<1> QED
  BY <1>1, InitTyped, NextTyped, InitProc, NextProc, PTL DEF Spec

-----------------------------------------------------------------------------
(***************************************************************************)
(* Keys.  The cache and the answers still to be merged hold only keys that *)
(* the provider published under their ids.  Where an id was given to one   *)
(* key only, these are all the same key, so that the order of the merges   *)
(* does not matter.  v, ip, ev and c are the values of verify, idp, ever   *)
(* and cache: a lemma speaks of a request before and after a step.         *)
(***************************************************************************)
OneOf(E) == \A a, b \in E : a = b

KeysOK ==
  \A k \in Kid :
    /\ IsFiniteSet(ever[k])
    /\ idp[k] \in Key => idp[k] \in ever[k]
    /\ cache[k] # Nil => cache[k] \in ever[k]

SeesOK(r, ev) ==
  r.pc = "store" =>
    /\ r.sees \in [Kid -> Entry]
    /\ \A k \in Kid : r.sees[k] \in Key => r.sees[k] \in ev[k]

PassedOK(r, v, ev) ==
  (v = TRUE /\ r.pc \in {"handle", "sync"}) => r.token.key \in ev[r.token.kid]

KnownOK(r, ev, c) ==
  (r.pc # "idle" /\ r.known = TRUE /\ OneOf(ev[r.token.kid])) =>
    /\ r.pc \in {"look", "handle", "sync"}
    /\ r.pc = "look" => c[r.token.kid] = r.token.key

SteadyOK(r, ip, ev, c) ==
  (r.pc # "idle" /\ r.steady = TRUE /\ OneOf(ev[r.token.kid])) =>
    /\ r.pc \in Active => ip[r.token.kid] = r.token.key
    /\ r.pc = "store" => r.sees[r.token.kid] = r.token.key
    /\ r.pc = "again" => c[r.token.kid] = r.token.key
    /\ r.pc = "refused" => r.failed = TRUE

ReqOK(r, v, ip, ev, c) ==
  SeesOK(r, ev) /\ PassedOK(r, v, ev) /\ KnownOK(r, ev, c) /\ SteadyOK(r, ip, ev, c)

Requests == \A s \in Slot : ReqOK(req[s], verify, idp, ever, cache)

KeyInv == TypeOK /\ KeysOK /\ Requests

LEMMA FaithfulOne ==
  ASSUME NEW k, IsFiniteSet(ever[k])
  PROVE  Faithful(k) <=> OneOf(ever[k])
<1>1. ASSUME Faithful(k), NEW a \in ever[k], NEW b \in ever[k], a # b PROVE FALSE
  <2>1. IsFiniteSet({a, b}) /\ Cardinality({a, b}) = 2
    <3>1. IsFiniteSet({a}) /\ Cardinality({a}) = 1
      BY FS_Singleton
    <3>2. {a, b} = {a} \cup {b} /\ b \notin {a}
      BY <1>1
    <3>3. IsFiniteSet({a} \cup {b}) /\ Cardinality({a} \cup {b}) = Cardinality({a}) + 1
      <4>1. IsFiniteSet({a})
        BY <3>1
      <4>2. /\ IsFiniteSet({a} \cup {b})
            /\ Cardinality({a} \cup {b}) =
                 IF b \in {a} THEN Cardinality({a}) ELSE Cardinality({a}) + 1
        BY ONLY <4>1, FS_AddElement
      <4> QED
        BY <4>2, <3>2
    <3>4. IsFiniteSet({a, b}) /\ Cardinality({a, b}) = Cardinality({a}) + 1
      BY <3>2, <3>3
    <3> QED
      BY <3>1, <3>4
  <2>2. {a, b} \subseteq ever[k]
    OBVIOUS
  <2>3. Cardinality({a, b}) <= Cardinality(ever[k])
    BY <2>2, FS_Subset
  <2>4. Cardinality(ever[k]) \in Nat
    BY FS_CardinalityType
  <2> QED
    BY <1>1, <2>1, <2>3, <2>4 DEF Faithful
<1>2. ASSUME OneOf(ever[k]) PROVE Faithful(k)
  <2>1. CASE ever[k] = {}
    BY <2>1, FS_EmptySet DEF Faithful
  <2>2. CASE ever[k] # {}
    <3>1. PICK a \in ever[k] : TRUE
      BY <2>2
    <3>2. ever[k] = {a}
      BY <3>1, <1>2 DEF OneOf
    <3>3. Cardinality({a}) = 1
      BY FS_Singleton
    <3> QED
      BY <3>2, <3>3 DEF Faithful
  <2> QED
    BY <2>1, <2>2
<1> QED
  BY <1>1, <1>2 DEF OneOf

LEMMA IdleOK ==
  ASSUME NEW v, NEW ip, NEW ev, NEW c
  PROVE  ReqOK(Idle, v, ip, ev, c)
  BY DEF ReqOK, SeesOK, PassedOK, KnownOK, SteadyOK, Idle

\* A merge leaves a request that does not take part as it was: where its key id
\* has one key only, an entry of the cache is replaced by itself.
LEMMA MergedUnder ==
  ASSUME NEW r \in Request, NEW v, NEW ip, NEW c \in [Kid -> Key \cup {Nil}],
         NEW ev \in [Kid -> SUBSET Key], NEW x \in [Kid -> Entry],
         \A k \in Kid : x[k] \in Key => x[k] \in ev[k],
         \A k \in Kid : c[k] # Nil => c[k] \in ev[k],
         ReqOK(r, v, ip, ev, c)
  PROVE  ReqOK(r, v, ip, ev, Merged(c, x))
<1> DEFINE k == r.token.kid
<1>1. k \in Kid /\ r.token.key \in Key
  BY RequestShape, TokenShape
<1>2. ASSUME OneOf(ev[k]), c[k] = r.token.key PROVE Merged(c, x)[k] = r.token.key
  <2>1. CASE x[k] \in Key
    <3>1. x[k] \in ev[k] /\ c[k] \in ev[k]
      BY <1>1, <1>2, <2>1, ApiAssumption
    <3>2. x[k] = r.token.key
      BY <3>1, <1>2 DEF OneOf
    <3> QED
      BY <3>2, <2>1, <1>1 DEF Merged
  <2>2. CASE x[k] \notin Key
    BY <2>2, <1>1, <1>2 DEF Merged
  <2> QED
    BY <2>1, <2>2
<1>3. KnownOK(r, ev, Merged(c, x))
  BY <1>2 DEF ReqOK, KnownOK
<1>4. SteadyOK(r, ip, ev, Merged(c, x))
  BY <1>2 DEF ReqOK, SteadyOK
<1> QED
  BY <1>3, <1>4 DEF ReqOK

LEMMA InitKeys == Init => KeysOK /\ Requests
<1> SUFFICES ASSUME Init PROVE KeysOK /\ Requests
  OBVIOUS
<1>1. Requests
  BY IdleOK DEF Init, Requests
<1>2. ASSUME NEW k \in Kid
      PROVE  /\ IsFiniteSet(ever[k])
             /\ idp[k] \in Key => idp[k] \in ever[k]
             /\ cache[k] # Nil => cache[k] \in ever[k]
  <2>1. ever[k] = {idp[k]} \ {Nil}
    BY DEF Init
  <2>2. IsFiniteSet({idp[k]}) /\ ever[k] \subseteq {idp[k]}
    BY <2>1, FS_Singleton
  <2>3. IsFiniteSet(ever[k])
    BY <2>2, FS_Subset
  <2>4. cache[k] = Nil
    BY DEF Init, NoKeys
  <2> QED
    BY <2>1, <2>3, <2>4, ApiAssumption
<1> QED
  BY <1>1, <1>2 DEF KeysOK

\* The provider changes its keys: what it published before stays in ever, and
\* the requests whose key id is concerned are no longer steady.
LEMMA RotateKeys ==
  ASSUME KeyInv, NEW k \in Kid, NEW e \in Entry, Rotate(k, e)
  PROVE  KeysOK' /\ Requests'
<1> USE DEF KeyInv
<1>1. /\ ever' = [ever EXCEPT ![k] = @ \cup ({e} \cap Key)]
      /\ idp' = [idp EXCEPT ![k] = e]
      /\ cache' = cache /\ verify' = verify
  BY DEF Rotate
<1>2. \A m \in Kid : ever[m] \subseteq ever'[m]
  BY <1>1 DEF TypeOK
<1>3. \A m \in Kid : OneOf(ever'[m]) => OneOf(ever[m])
  BY <1>2 DEF OneOf
<1>4. ASSUME NEW m \in Kid
      PROVE  /\ IsFiniteSet(ever'[m])
             /\ idp'[m] \in Key => idp'[m] \in ever'[m]
             /\ cache'[m] # Nil => cache'[m] \in ever'[m]
  <2>1. CASE m = k
    <3>1. IsFiniteSet({e}) /\ {e} \cap Key \subseteq {e}
      BY FS_Singleton
    <3>2. IsFiniteSet({e} \cap Key)
      BY <3>1, FS_Subset
    <3>3. IsFiniteSet(ever[m])
      BY DEF KeysOK
    <3>4. ever'[m] = ever[m] \cup ({e} \cap Key)
      BY <1>1, <2>1 DEF TypeOK
    <3>5. IsFiniteSet(ever'[m])
      BY <3>2, <3>3, <3>4, FS_Union
    <3>6. idp'[m] = e
      BY <1>1, <2>1 DEF TypeOK
    <3> QED
      BY <1>1, <1>2, <3>4, <3>5, <3>6 DEF KeysOK
  <2>2. CASE m # k
    BY <1>1, <2>2 DEF KeysOK, TypeOK
  <2> QED
    BY <2>1, <2>2
<1>5. ASSUME NEW s \in Slot PROVE ReqOK(req'[s], verify', idp', ever', cache')
  <2>1. CASE req[s].pc = "idle"
    <3>1. req'[s] = req[s]
      BY <2>1 DEF Rotate, Running, Active, TypeOK
    <3>2. req[s] = Idle
      BY <2>1, IdleShape, RequestShape DEF TypeOK, Stage, Active
    <3> QED
      BY <3>1, <3>2, IdleOK
  <2>2. CASE req[s].pc # "idle"
    <3>1. req[s] \in Request
      BY <2>2, Occupied
    <3>2. req[s].token.kid \in Kid
      BY <3>1, RequestShape, TokenShape
    <3>3. ReqOK(req[s], verify, idp, ever, cache)
      BY DEF Requests
    <3>4. CASE Running(s) /\ req[s].token.kid = k
      <4> DEFINE q == [req[s] EXCEPT !.steady = FALSE]
      <4>1. req'[s] = q
        BY <3>4 DEF Rotate
      <4>2. /\ q.pc = req[s].pc /\ q.token = req[s].token /\ q.sees = req[s].sees
            /\ q.known = req[s].known /\ q.steady = FALSE
        BY <3>1, Unsteadied
      <4> HIDE DEF q
      <4>3. SeesOK(q, ever')
        BY <1>2, <3>3, <4>2 DEF ReqOK, SeesOK
      <4>4. PassedOK(q, verify', ever')
        BY <1>1, <1>2, <3>2, <3>3, <4>2 DEF ReqOK, PassedOK
      <4>5. KnownOK(q, ever', cache')
        BY <1>1, <1>3, <3>2, <3>3, <4>2 DEF ReqOK, KnownOK
      <4>6. SteadyOK(q, idp', ever', cache')
        BY <4>2 DEF SteadyOK
      <4> QED
        BY <4>1, <4>3, <4>4, <4>5, <4>6 DEF ReqOK
    <3>5. CASE ~Running(s) \/ req[s].token.kid # k
      <4>1. req'[s] = req[s]
        BY <3>5 DEF Rotate
      <4>2. SeesOK(req[s], ever')
        BY <1>2, <3>3 DEF ReqOK, SeesOK
      <4>3. PassedOK(req[s], verify', ever')
        BY <1>1, <1>2, <3>2, <3>3 DEF ReqOK, PassedOK
      <4>4. KnownOK(req[s], ever', cache')
        BY <1>1, <1>3, <3>2, <3>3 DEF ReqOK, KnownOK
      <4>5. req[s].pc \in Active => idp'[req[s].token.kid] = idp[req[s].token.kid]
        BY <1>1, <3>2, <3>5 DEF Running, TypeOK
      <4>6. SteadyOK(req[s], idp', ever', cache')
        BY <1>1, <1>3, <3>2, <3>3, <4>5 DEF ReqOK, SteadyOK
      <4> QED
        BY <4>1, <4>2, <4>3, <4>4, <4>6 DEF ReqOK
    <3> QED
      BY <3>4, <3>5
  <2> QED
    BY <2>1, <2>2
<1> QED
  BY <1>4, <1>5 DEF KeysOK, Requests

\* A step that changes one request, by q, and neither the keys nor the cache.
LEMMA OneRequest ==
  ASSUME KeyInv, NEW s \in Slot, NEW q, req' = [req EXCEPT ![s] = q],
         UNCHANGED <<verify, idp, ever, cache>>,
         ReqOK(q, verify, idp, ever, cache)
  PROVE  KeysOK' /\ Requests'
<1>1. KeysOK'
  BY DEF KeyInv, KeysOK
<1>2. Requests'
  BY DEF KeyInv, Requests, TypeOK
<1> QED
  BY <1>1, <1>2

\* The key found is compared: with one key to its id, the key of a request whose
\* key is cached is the one found.
LEMMA CheckedOK ==
  ASSUME NEW r \in Request, NEW v, NEW ip, NEW ev, NEW c,
         c[r.token.kid] \in Key \cup {Nil},
         c[r.token.kid] # Nil => c[r.token.kid] \in ev[r.token.kid],
         r.known = TRUE /\ OneOf(ev[r.token.kid]) => c[r.token.kid] = r.token.key,
         r.steady = TRUE /\ OneOf(ev[r.token.kid]) =>
           c[r.token.kid] = r.token.key /\ ip[r.token.kid] = r.token.key
  PROVE  ReqOK(Checked(r, c[r.token.kid]), v, ip, ev, c)
<1> DEFINE q == Checked(r, c[r.token.kid])
<1>1. /\ q.pc = (IF c[r.token.kid] = r.token.key THEN "handle" ELSE "refused")
      /\ q.token = r.token /\ q.known = r.known /\ q.steady = r.steady
  BY CheckedShape
<1>2. r.token.key \in Key
  BY RequestShape, TokenShape
<1> HIDE DEF q
<1>3. SeesOK(q, ev)
  BY <1>1 DEF SeesOK
<1>4. PassedOK(q, v, ev)
  BY <1>1, <1>2, ApiAssumption DEF PassedOK
<1>5. KnownOK(q, ev, c)
  BY <1>1 DEF KnownOK
<1>6. SteadyOK(q, ip, ev, c)
  BY <1>1 DEF SteadyOK
<1> QED
  BY <1>3, <1>4, <1>5, <1>6 DEF ReqOK, q

LEMMA ServeKeys ==
  ASSUME KeyInv, NEW s \in Slot, Serve(s) \/ Leave(s)
  PROVE  KeysOK' /\ Requests'
<1> DEFINE r == req[s]
           k == req[s].token.kid
<1>1. TypeOK /\ KeysOK /\ Requests
  BY DEF KeyInv
<1>2. req[s].pc # "idle"
  BY DEF Serve, Leave, Step, Running, Active, Look, Fetch, FetchFails, Store,
         Again, Handle, Sync
<1>3. r \in Request
  BY <1>1, <1>2, Occupied
<1>4. k \in Kid /\ r.token.key \in Key
  BY <1>3, RequestShape, TokenShape
<1>5. ReqOK(r, verify, idp, ever, cache)
  BY <1>1 DEF Requests
<1>6. cache[k] \in Key \cup {Nil} /\ (cache[k] # Nil => cache[k] \in ever[k])
  BY <1>1, <1>4 DEF TypeOK, KeysOK
<1>7. {"fetch", "handle", "store", "again", "sync", "refused"} \subseteq Stage
  BY DEF Stage, Active
<1>8. UNCHANGED <<verify, idp, ever>>
  BY DEF Serve, Leave, Step, Look, Fetch, FetchFails, Store, Again, Handle, Sync, keyVars
<1> HIDE DEF r, k
<1>9. CASE Look(s)
  <2>1. r.pc = "look" /\ UNCHANGED cache
    BY <1>9 DEF Look, r
  <2>2. CASE ~verify
    <3> DEFINE q == [r EXCEPT !.pc = "handle"]
    <3>1. q.pc = "handle" /\ q.token = r.token /\ q.known = r.known /\ q.steady = r.steady
      BY <1>3, <1>7, MovedTo
    <3>2. req' = [req EXCEPT ![s] = q]
      BY <1>9, <2>2 DEF Look, r
    <3> HIDE DEF q
    <3>3. ReqOK(q, verify, idp, ever, cache)
      BY <1>5, <2>1, <2>2, <3>1 DEF ReqOK, SeesOK, PassedOK, KnownOK, SteadyOK, Active
    <3> QED
      BY <1>8, <2>1, <3>2, <3>3, OneRequest
  <2>3. CASE verify /\ cache[k] # Nil
    <3>1. r.known = TRUE /\ OneOf(ever[k]) => cache[k] = r.token.key
      BY <1>5, <2>1 DEF ReqOK, KnownOK, k, r
    <3>2. r.steady = TRUE /\ OneOf(ever[k]) =>
            cache[k] = r.token.key /\ idp[k] = r.token.key
      <4>1. SUFFICES ASSUME r.steady = TRUE, OneOf(ever[k])
                     PROVE  cache[k] = r.token.key /\ idp[k] = r.token.key
        OBVIOUS
      <4>2. idp[k] = r.token.key
        BY <1>5, <2>1, <4>1 DEF ReqOK, SteadyOK, Active, k, r
      <4>3. idp[k] \in ever[k]
        BY <1>1, <1>4, <4>2 DEF KeysOK
      <4> QED
        BY <1>6, <2>3, <4>1, <4>2, <4>3 DEF OneOf
    <3>3. ReqOK(Checked(r, cache[k]), verify, idp, ever, cache)
      BY <1>3, <1>6, <3>1, <3>2, CheckedOK DEF k, r
    <3>4. req' = [req EXCEPT ![s] = Checked(r, cache[k])]
      BY <1>9, <2>3 DEF Look, r, k
    <3> QED
      BY <1>8, <2>1, <3>3, <3>4, OneRequest
  <2>4. CASE verify /\ cache[k] = Nil
    <3> DEFINE q == [r EXCEPT !.pc = "fetch"]
    <3>1. q.pc = "fetch" /\ q.token = r.token /\ q.known = r.known /\ q.steady = r.steady
      BY <1>3, <1>7, MovedTo
    <3>2. req' = [req EXCEPT ![s] = q]
      BY <1>9, <2>4 DEF Look, r, k
    <3> HIDE DEF q
    <3>3. KnownOK(q, ever, cache)
      BY <1>4, <1>5, <2>1, <2>4, <3>1, ApiAssumption DEF ReqOK, KnownOK, k, r
    <3>4. SteadyOK(q, idp, ever, cache)
      BY <1>5, <2>1, <3>1 DEF ReqOK, SteadyOK, Active
    <3>5. ReqOK(q, verify, idp, ever, cache)
      BY <3>1, <3>3, <3>4 DEF ReqOK, SeesOK, PassedOK
    <3> QED
      BY <1>8, <2>1, <3>2, <3>5, OneRequest
  <2> QED
    BY <2>2, <2>3, <2>4
<1>10. CASE Fetch(s)
  <2> DEFINE q == [r EXCEPT !.pc = "store", !.sees = idp]
  <2>1. /\ q.pc = "store" /\ q.token = r.token /\ q.sees = idp
        /\ q.known = r.known /\ q.steady = r.steady
    BY <1>1, <1>3, MovedFetched DEF TypeOK
  <2>2. r.pc = "fetch" /\ UNCHANGED cache /\ req' = [req EXCEPT ![s] = q]
    BY <1>10 DEF Fetch, r
  <2> HIDE DEF q
  <2>3. SeesOK(q, ever)
    BY <1>1, <2>1 DEF SeesOK, TypeOK, KeysOK
  <2>4. KnownOK(q, ever, cache)
    BY <1>5, <2>1, <2>2 DEF ReqOK, KnownOK
  <2>5. SteadyOK(q, idp, ever, cache)
    BY <1>5, <2>1, <2>2 DEF ReqOK, SteadyOK, Active
  <2>6. ReqOK(q, verify, idp, ever, cache)
    BY <2>1, <2>3, <2>4, <2>5 DEF ReqOK, PassedOK
  <2> QED
    BY <1>8, <2>2, <2>6, OneRequest
<1>11. CASE FetchFails(s)
  <2> DEFINE q == [r EXCEPT !.pc = "refused", !.failed = TRUE]
  <2>1. /\ q.pc = "refused" /\ q.token = r.token /\ q.failed = TRUE
        /\ q.known = r.known /\ q.steady = r.steady
    BY <1>3, <1>7, MovedFailed
  <2>2. r.pc = "fetch" /\ UNCHANGED cache /\ req' = [req EXCEPT ![s] = q]
    BY <1>11 DEF FetchFails, r
  <2> HIDE DEF q
  <2>3. KnownOK(q, ever, cache)
    BY <1>5, <2>1, <2>2 DEF ReqOK, KnownOK
  <2>4. SteadyOK(q, idp, ever, cache)
    BY <2>1 DEF SteadyOK, Active
  <2>5. ReqOK(q, verify, idp, ever, cache)
    BY <2>1, <2>3, <2>4 DEF ReqOK, PassedOK, SeesOK
  <2> QED
    BY <1>8, <2>2, <2>5, OneRequest
<1>12. CASE Store(s)
  <2> DEFINE q == [r EXCEPT !.pc = "again", !.sees = Nil]
             x == r.sees
  <2>1. /\ q.pc = "again" /\ q.token = r.token
        /\ q.known = r.known /\ q.steady = r.steady
    BY <1>3, MovedStored
  <2>2. r.pc = "store" /\ cache' = Merged(cache, x) /\ req' = [req EXCEPT ![s] = q]
    BY <1>12 DEF Store, r
  <2> HIDE DEF q, x
  <2>3. x \in [Kid -> Entry] /\ \A m \in Kid : x[m] \in Key => x[m] \in ever[m]
    BY <1>5, <2>2 DEF ReqOK, SeesOK, x
  <2>4. KeysOK'
    <3>1. \A m \in Kid : cache'[m] # Nil => cache'[m] \in ever[m]
      BY <1>1, <2>2, <2>3 DEF KeysOK, Merged
    <3> QED
      BY <1>1, <1>8, <3>1 DEF KeysOK
  <2>5. KnownOK(q, ever, cache')
    BY <1>5, <2>1, <2>2 DEF ReqOK, KnownOK
  <2>6. SteadyOK(q, idp, ever, cache')
    <3>1. SUFFICES ASSUME r.steady = TRUE, OneOf(ever[k])
                   PROVE  idp[k] = r.token.key /\ cache'[k] = r.token.key
      BY <2>1 DEF SteadyOK, k, r
    <3>2. idp[k] = r.token.key /\ x[k] = r.token.key
      BY <1>5, <2>2, <3>1 DEF ReqOK, SteadyOK, Active, k, r, x
    <3> QED
      BY <1>4, <2>2, <3>2 DEF Merged
  <2>7. ReqOK(q, verify, idp, ever, cache')
    BY <2>1, <2>5, <2>6 DEF ReqOK, PassedOK, SeesOK
  <2>8. ASSUME NEW v \in Slot, v # s PROVE ReqOK(req[v], verify, idp, ever, cache')
    <3>1. ReqOK(req[v], verify, idp, ever, cache)
      BY <1>1 DEF Requests
    <3>2. CASE req[v] \in Request
      <4>1. /\ cache \in [Kid -> Key \cup {Nil}] /\ ever \in [Kid -> SUBSET Key]
            /\ \A m \in Kid : cache[m] # Nil => cache[m] \in ever[m]
        BY <1>1 DEF TypeOK, KeysOK
      <4> QED
        BY <2>2, <2>3, <3>1, <3>2, <4>1, MergedUnder
    <3>3. CASE req[v] = Idle
      BY <3>3, IdleOK
    <3> QED
      BY <1>1, <3>2, <3>3 DEF TypeOK
  <2>9. Requests'
    BY <1>1, <1>8, <2>2, <2>7, <2>8 DEF Requests, TypeOK
  <2> QED
    BY <2>4, <2>9
<1>13. CASE Again(s)
  <2>1. r.pc = "again" /\ UNCHANGED cache
        /\ req' = [req EXCEPT ![s] = Checked(r, cache[k])]
    BY <1>13 DEF Again, r, k
  <2>2. r.known = TRUE /\ OneOf(ever[k]) => cache[k] = r.token.key
    BY <1>5, <2>1 DEF ReqOK, KnownOK, k, r
  <2>3. r.steady = TRUE /\ OneOf(ever[k]) =>
          cache[k] = r.token.key /\ idp[k] = r.token.key
    BY <1>5, <2>1 DEF ReqOK, SteadyOK, Active, k, r
  <2>4. ReqOK(Checked(r, cache[k]), verify, idp, ever, cache)
    BY <1>3, <1>6, <2>2, <2>3, CheckedOK DEF k, r
  <2> QED
    BY <1>8, <2>1, <2>4, OneRequest
<1>14. CASE Handle(s)
  <2> DEFINE q == [r EXCEPT !.pc = "sync"]
  <2>1. q.pc = "sync" /\ q.token = r.token /\ q.known = r.known /\ q.steady = r.steady
    BY <1>3, <1>7, MovedTo
  <2>2. r.pc = "handle" /\ UNCHANGED cache
    BY <1>14 DEF Handle, r
  <2>3. req' = [req EXCEPT ![s] = q] \/ req' = [req EXCEPT ![s] = Idle]
    BY <1>14 DEF Handle, r
  <2> HIDE DEF q
  <2>4. ReqOK(q, verify, idp, ever, cache)
    BY <1>5, <2>1, <2>2 DEF ReqOK, SeesOK, PassedOK, KnownOK, SteadyOK, Active
  <2> QED
    BY <1>8, <2>2, <2>3, <2>4, IdleOK, OneRequest
<1>15. CASE Sync(s) \/ Leave(s)
  <2>1. UNCHANGED cache /\ req' = [req EXCEPT ![s] = Idle]
    BY <1>15 DEF Sync, Leave
  <2> QED
    BY <1>8, <2>1, IdleOK, OneRequest
<1> QED
  BY <1>9, <1>10, <1>11, <1>12, <1>13, <1>14, <1>15 DEF Serve

LEMMA NextKeys == KeyInv /\ ProcOK /\ [Next]_vars => KeysOK' /\ Requests'
<1> SUFFICES ASSUME KeyInv, ProcOK, [Next]_vars PROVE KeysOK' /\ Requests'
  OBVIOUS
<1>1. ASSUME NEW k \in Kid, NEW e \in Entry, Rotate(k, e) PROVE KeysOK' /\ Requests'
  BY <1>1, RotateKeys
<1>2. ASSUME NEW s \in Slot, Serve(s) \/ Leave(s) PROVE KeysOK' /\ Requests'
  BY <1>2, ServeKeys
<1>3. ASSUME NEW s \in Slot, NEW t \in Token, Arrive(s, t) PROVE KeysOK' /\ Requests'
  <2> DEFINE a == cache[t.kid] = t.key
             b == idp[t.kid] = t.key
             q == [pc |-> "look", token |-> t, sees |-> Nil,
                   known |-> a, steady |-> b, failed |-> FALSE]
  <2>1. a \in BOOLEAN /\ b \in BOOLEAN
    OBVIOUS
  <2>2. req' = [req EXCEPT ![s] = q] /\ UNCHANGED <<verify, idp, ever, cache>>
    BY <1>3 DEF Arrive, keyVars
  <2>3. q.pc = "look" /\ q.token = t /\ (q.known = TRUE => a) /\ (q.steady = TRUE => b)
    BY NewRequest
  <2> HIDE DEF q
  <2>4. ReqOK(q, verify, idp, ever, cache)
    BY <2>3 DEF ReqOK, SeesOK, PassedOK, KnownOK, SteadyOK
  <2> QED
    BY <2>2, <2>4, OneRequest
<1>4. CASE Boot
  <2>1. UNCHANGED <<verify, idp, ever, req>>
    BY <1>4 DEF Boot, keyVars
  <2>2. \A s \in Slot : req[s].pc \notin Active
    BY <1>4 DEF Boot, ProcOK, Running
  <2>3. KeysOK'
    <3>1. \A k \in Kid : cache'[k] # Nil => cache'[k] \in ever[k]
      <4>1. \A k \in Kid : Merged(NoKeys, idp)[k] # Nil => idp[k] \in Key /\ Merged(NoKeys, idp)[k] = idp[k]
        BY DEF Merged, NoKeys
      <4>2. \A k \in Kid : NoKeys[k] = Nil
        BY DEF NoKeys
      <4>3. cache' \in {NoKeys, Merged(NoKeys, idp)}
        BY <1>4 DEF Boot
      <4> QED
        BY <4>1, <4>2, <4>3 DEF KeyInv, KeysOK
    <3> QED
      BY <2>1, <3>1 DEF KeyInv, KeysOK
  <2>4. Requests'
    BY <2>1, <2>2 DEF KeyInv, Requests, ReqOK, SeesOK, PassedOK, KnownOK, SteadyOK, Active
  <2> QED
    BY <2>3, <2>4
<1>5. ASSUME Gone PROVE KeysOK' /\ Requests'
  <2>1. UNCHANGED <<verify, idp, ever>> /\ cache' = NoKeys
    BY <1>5 DEF Gone, keyVars
  <2>2. KeysOK'
    BY <2>1 DEF KeyInv, KeysOK, NoKeys
  <2>3. ASSUME NEW s \in Slot PROVE ReqOK(req'[s], verify, idp, ever, cache')
    <3>1. CASE Running(s)
      BY <1>5, <3>1, IdleOK DEF Gone
    <3>2. CASE ~Running(s)
      <4>1. req'[s] = req[s] /\ req[s].pc \notin Active
        BY <1>5, <3>2 DEF Gone, Running
      <4> QED
        BY <4>1 DEF KeyInv, Requests, ReqOK, SeesOK, PassedOK, KnownOK, SteadyOK, Active
    <3> QED
      BY <3>1, <3>2
  <2> QED
    BY <2>1, <2>2, <2>3 DEF Requests
<1>6. ASSUME UNCHANGED <<verify, idp, ever, cache, req>> PROVE KeysOK' /\ Requests'
  BY <1>6 DEF KeyInv, KeysOK, Requests
<1>7. CASE DatabaseDown \/ DatabaseUp \/ ReadyProbe
  BY <1>6, <1>7 DEF DatabaseDown, DatabaseUp, ReadyProbe, keyVars
<1>8. CASE Connect \/ LiveProbe \/ Drained \/ GiveUp \/ CloseRedis \/ CloseMongo
  BY <1>6, <1>8 DEF Connect, LiveProbe, Draining, Drained, GiveUp, CloseRedis,
     CloseMongo, keyVars
<1>9. CASE Signal
  BY <1>6, <1>9 DEF Signal, Draining, keyVars
<1>10. CASE Exit \/ Kill
  BY <1>5, <1>10 DEF Exit, Kill
<1>11. CASE UNCHANGED vars
  BY <1>6, <1>11 DEF vars, keyVars
<1> QED
  BY <1>1, <1>2, <1>3, <1>4, <1>7, <1>8, <1>9, <1>10, <1>11 DEF Next, Main

LEMMA Keys == Spec => [](KeyInv /\ ProcOK)
<1>1. Init => KeyInv /\ ProcOK
  BY InitTyped, InitKeys, InitProc DEF KeyInv
<1>2. KeyInv /\ ProcOK /\ [Next]_vars => (KeyInv /\ ProcOK)'
  BY NextTyped, NextKeys, NextProc DEF KeyInv
<1> QED
  BY <1>1, <1>2, PTL DEF Spec

\* Auth.parse lets nobody through with a key the provider never published under
\* the token's key id, however many refreshes run at the same time and however
\* often the provider changes its keys.
THEOREM AcceptedPublished == Spec => []AcceptedWasPublished
<1>1. KeyInv => AcceptedWasPublished
  <2> SUFFICES ASSUME KeyInv, NEW s \in Slot, verify, Passed(s)
               PROVE  req[s].token.key \in ever[req[s].token.kid]
    BY DEF AcceptedWasPublished
  <2>1. verify = TRUE
    BY DEF KeyInv, TypeOK
  <2> QED
    BY <2>1 DEF KeyInv, Requests, ReqOK, PassedOK, Passed
<1> QED
  BY <1>1, Keys, PTL

\* A request that was refused, whose key id belongs to one key.
LEMMA RefusedKid ==
  ASSUME KeyInv, NEW s \in Slot, req[s].pc = "refused"
  PROVE  /\ req[s] \in Request
         /\ Faithful(req[s].token.kid) <=> OneOf(ever[req[s].token.kid])
         /\ ReqOK(req[s], verify, idp, ever, cache)
<1>1. req[s] \in Request
  BY Occupied DEF KeyInv
<1>2. IsFiniteSet(ever[req[s].token.kid])
  BY <1>1, RequestShape, TokenShape DEF KeyInv, KeysOK
<1> QED
  BY <1>1, <1>2, FaithfulOne DEF KeyInv, Requests

\* A key that is cached is never lost or replaced to the harm of a request that
\* came while it was there, if its id was given to no other key.
THEOREM KnownStays == Spec => []KnownNeedsNoProvider
<1>1. KeyInv => KnownNeedsNoProvider
  <2> SUFFICES ASSUME KeyInv, NEW s \in Slot, req[s].pc = "refused", req[s].known,
                      Faithful(req[s].token.kid)
               PROVE  FALSE
    BY DEF KnownNeedsNoProvider
  <2>1. req[s].known = TRUE
    BY RefusedKid, RequestShape
  <2> QED
    BY <2>1, RefusedKid DEF ReqOK, KnownOK
<1> QED
  BY <1>1, Keys, PTL

\* A key that the provider publishes is found by the request's own refresh, or
\* by another's: only a refresh that failed refuses the request.
THEOREM PublishedAccepted == Spec => []PublishedIsAccepted
<1>1. KeyInv => PublishedIsAccepted
  <2> SUFFICES ASSUME KeyInv, NEW s \in Slot, req[s].pc = "refused", req[s].steady,
                      Faithful(req[s].token.kid)
               PROVE  req[s].failed
    BY DEF PublishedIsAccepted
  <2>1. req[s].steady = TRUE
    BY RefusedKid, RequestShape
  <2>2. req[s].failed = TRUE
    BY <2>1, RefusedKid DEF ReqOK, SteadyOK
  <2> QED
    BY <2>2
<1> QED
  BY <1>1, Keys, PTL

=============================================================================
