-------------------------------- MODULE Api ---------------------------------
(***************************************************************************)
(* cmd/api, internal/api/middleware/auth.go and pkg/health: one replica of *)
(* the API process, the requests it serves, and the cache of the identity  *)
(* provider's public keys that their access tokens are checked with.       *)
(*                                                                         *)
(* Requests share the cache: each reads it under a read lock, fetches the  *)
(* provider's keys without one when its key id is unknown, merges what it  *)
(* got under the write lock and reads again.  Nothing leaves the cache.    *)
(* Around them the process starts, listens or fails to, is probed and told *)
(* to stop, drains, closes its stores and exits.                           *)
(***************************************************************************)
EXTENDS Naturals, FiniteSets

CONSTANTS
  Nil,
  Kid, Key,      \* key ids, and the RSA keys published under them
  Bad,           \* an entry that is no RSA key, or a malformed one
  First,         \* the key sets the provider may begin with
  Token,         \* the access tokens in use: [kid : Kid, key : Key]
  Slot,          \* requests that may be in progress at a time
  MaxRotations,  \* bound: changes of the provider's key set
  MaxFaults,     \* bound: outages, failed fetches, taken ports
  MaxStops       \* bound: signals and kills

ASSUME ApiAssumption ==
  /\ Nil \notin Key /\ Bad \notin Key /\ Bad # Nil
  /\ First \subseteq [Kid -> Key \cup {Nil}]
  /\ Token \subseteq [kid : Kid, key : Key]
  /\ MaxRotations \in Nat /\ MaxFaults \in Nat /\ MaxStops \in Nat

VARIABLES
  verify,    \* whether auth.jwks_url is configured
  idp,       \* key id -> what the provider publishes under it now
  ever,      \* key id -> the keys it published under it at some time
  proc,      \* where main stands
  cache,     \* jwksCache.keys
  mongo,     \* whether the process has an open MongoDB client
  redis,     \* the same for Redis, which it has with read-sync only
  db,        \* whether MongoDB is up
  ready,     \* whether the last readiness probe succeeded
  req,       \* slot -> the request it serves
  late,      \* whether Shutdown gave up on requests still running
  rotations, faults, stops

lifeVars == <<proc, mongo, redis, db, ready, late, stops>>
keyVars == <<idp, ever, rotations>>
vars == <<verify, keyVars, lifeVars, cache, req, faults>>

-----------------------------------------------------------------------------
Entry == Key \cup {Bad, Nil}

Active == {"look", "fetch", "store", "again", "handle", "sync"}
\* A request that was answered by its handler, or cut off, leaves at once; one
\* that was refused is looked at first.
\* sees: what the provider answered to the request's own fetch.  What happened
\* around it: known, its key was cached when it came; steady, its key has been
\* published all the time since; failed, its own fetch failed.
Request == [pc : Active \cup {"refused"}, token : Token, sees : [Kid -> Entry] \cup {Nil},
            known : BOOLEAN, steady : BOOLEAN, failed : BOOLEAN]

Idle == [pc |-> "idle"]

TypeOK ==
  /\ verify \in BOOLEAN
  /\ idp \in [Kid -> Entry]
  /\ ever \in [Kid -> SUBSET Key]
  /\ proc \in {"down", "booting", "serving", "deaf", "draining", "closing"}
  /\ cache \in [Kid -> Key \cup {Nil}]
  /\ mongo \in BOOLEAN /\ redis \in BOOLEAN
  /\ db \in BOOLEAN /\ ready \in BOOLEAN /\ late \in BOOLEAN
  /\ req \in [Slot -> Request \cup {Idle}]
  /\ rotations \in 0 .. MaxRotations
  /\ faults \in 0 .. MaxFaults
  /\ stops \in 0 .. MaxStops

NoKeys == [k \in Kid |-> Nil]

Init ==
  /\ verify \in BOOLEAN
  /\ idp \in First
  /\ ever = [k \in Kid |-> {idp[k]} \ {Nil}]
  /\ proc = "down"
  /\ cache = NoKeys
  /\ mongo = FALSE /\ redis = FALSE
  /\ db = TRUE /\ ready = FALSE
  /\ req = [s \in Slot |-> Idle]
  /\ late = FALSE
  /\ rotations = 0 /\ faults = 0 /\ stops = 0

Running(s) == req[s].pc \in Active

-----------------------------------------------------------------------------
(***************************************************************************)
(* The identity provider and the database.                                 *)
(***************************************************************************)

\* The provider publishes, withdraws or replaces the key of an id (of no interest
\* to a process that does not verify).
Rotate(k, e) ==
  /\ verify /\ rotations < MaxRotations /\ e # idp[k]
  /\ idp' = [idp EXCEPT ![k] = e]
  /\ ever' = [ever EXCEPT ![k] = @ \cup ({e} \cap Key)]
  /\ rotations' = rotations + 1
  /\ req' = [s \in Slot |->
       IF Running(s) /\ req[s].token.kid = k THEN [req[s] EXCEPT !.steady = FALSE] ELSE req[s]]
  /\ UNCHANGED <<verify, lifeVars, cache, faults>>

DatabaseDown ==
  /\ db /\ faults < MaxFaults
  /\ db' = FALSE /\ faults' = faults + 1
  /\ UNCHANGED <<verify, keyVars, proc, mongo, redis, ready, late, stops, cache, req>>

DatabaseUp ==
  /\ ~db /\ db' = TRUE
  /\ UNCHANGED <<verify, keyVars, proc, mongo, redis, ready, late, stops, cache, req, faults>>

-----------------------------------------------------------------------------
(***************************************************************************)
(* Requests.                                                               *)
(***************************************************************************)

\* The answer takes the place of the map.
MergedAnew(keys, sees) == [k \in Kid |-> IF sees[k] \in Key THEN sees[k] ELSE Nil]

\* The entries that parse are added to the map or replace what it has.
Merged(keys, sees) == [k \in Kid |-> IF sees[k] \in Key THEN sees[k] ELSE keys[k]]

\* A known key id is enough.
CheckedByID(r, key) == [r EXCEPT !.pc = IF key # Nil THEN "handle" ELSE "refused"]

\* The signature is checked with the key found.
Checked(r, key) == [r EXCEPT !.pc = IF key = r.token.key THEN "handle" ELSE "refused"]

Step(s) == UNCHANGED <<verify, keyVars, lifeVars>> /\ Running(s)

Arrive(s, t) ==
  /\ proc = "serving" /\ ready /\ req[s] = Idle
  /\ req' = [req EXCEPT ![s] = [pc |-> "look", token |-> t, sees |-> Nil,
                                known |-> cache[t.kid] = t.key,
                                steady |-> idp[t.kid] = t.key, failed |-> FALSE]]
  /\ UNCHANGED <<verify, keyVars, lifeVars, cache, faults>>

\* Auth.parse up to the first reading of the cache.
Look(s) ==
  LET r == req[s] IN
  /\ Step(s) /\ r.pc = "look"
  /\ req' = [req EXCEPT ![s] =
       IF ~verify THEN [r EXCEPT !.pc = "handle"]
       ELSE IF cache[r.token.kid] # Nil THEN Checked(r, cache[r.token.kid])
       ELSE [r EXCEPT !.pc = "fetch"]]
  /\ UNCHANGED <<cache, faults>>

\* The provider answers with the keys it has at that moment,
Fetch(s) ==
  /\ Step(s) /\ req[s].pc = "fetch"
  /\ req' = [req EXCEPT ![s] = [@ EXCEPT !.pc = "store", !.sees = idp]]
  /\ UNCHANGED <<cache, faults>>

\* A refresh that failed is tried again.
FetchFailsRetry(s) ==
  /\ Step(s) /\ req[s].pc = "fetch"
  /\ req' = [req EXCEPT ![s] = [@ EXCEPT !.pc = "look", !.failed = TRUE]]
  /\ UNCHANGED <<cache, faults>>

\* or does not, or not in ten seconds, or with something else than keys.
FetchFails(s) ==
  /\ Step(s) /\ req[s].pc = "fetch" /\ faults < MaxFaults
  /\ req' = [req EXCEPT ![s] = [@ EXCEPT !.pc = "refused", !.failed = TRUE]]
  /\ faults' = faults + 1
  /\ UNCHANGED cache

\* The answer is merged, which may be after later ones were.
Store(s) ==
  /\ Step(s) /\ req[s].pc = "store"
  /\ cache' = Merged(cache, req[s].sees)
  /\ req' = [req EXCEPT ![s] = [@ EXCEPT !.pc = "again", !.sees = Nil]]
  /\ UNCHANGED faults

\* The second reading: an id that is still unknown is refused.
Again(s) ==
  LET r == req[s] IN
  /\ Step(s) /\ r.pc = "again"
  /\ req' = [req EXCEPT ![s] = Checked(r, cache[r.token.kid])]
  /\ UNCHANGED <<cache, faults>>

\* The handler's store calls, which answer or fail; read-sync, where there is one, comes after.
Handle(s) ==
  LET r == req[s] IN
  /\ Step(s) /\ r.pc = "handle"
  /\ req' = [req EXCEPT ![s] =
       IF db /\ mongo /\ redis THEN [r EXCEPT !.pc = "sync"] ELSE Idle]
  /\ UNCHANGED <<cache, faults>>

Sync(s) ==
  /\ Step(s) /\ req[s].pc = "sync"
  /\ req' = [req EXCEPT ![s] = Idle]
  /\ UNCHANGED <<cache, faults>>

Leave(s) ==
  /\ req[s].pc = "refused"
  /\ req' = [req EXCEPT ![s] = Idle]
  /\ UNCHANGED <<verify, keyVars, lifeVars, cache, faults>>

Serve(s) ==
  \/ Look(s) \/ Fetch(s) \/ FetchFails(s) \/ Store(s) \/ Again(s)
  \/ Handle(s) \/ Sync(s)

-----------------------------------------------------------------------------
(***************************************************************************)
(* The process.                                                            *)
(***************************************************************************)

\* Without MongoDB the process exits and is started again.
Connect ==
  /\ proc = "down" /\ db
  /\ proc' = "booting" /\ mongo' = TRUE
  /\ UNCHANGED <<verify, keyVars, redis, db, ready, late, stops, cache, req, faults>>

\* Redis decides on read-sync; the warm-up of the cache may fail unnoticed; a
\* port that is taken is logged, and the process lives on without listening.
Boot ==
  /\ proc = "booting"
  /\ redis' \in BOOLEAN
  /\ cache' \in {NoKeys} \cup (IF verify THEN {Merged(NoKeys, idp)} ELSE {})
  /\ \/ proc' = "serving" /\ UNCHANGED faults
     \/ faults < MaxFaults /\ proc' = "deaf" /\ faults' = faults + 1
  /\ UNCHANGED <<verify, keyVars, mongo, db, ready, late, stops, req>>

\* GET /readyz: without MongoDB, or without a listener, no more requests.
ReadyProbe ==
  /\ ready' = (proc = "serving" /\ db)
  /\ UNCHANGED <<verify, keyVars, proc, mongo, redis, db, late, stops, cache, req, faults>>

\* srv.Shutdown: nothing new is accepted, what runs may end.
Draining ==
  /\ proc' = "draining"
  /\ UNCHANGED <<verify, keyVars, mongo, redis, db, ready, late, cache, req, faults>>

Signal == proc \in {"serving", "deaf"} /\ stops < MaxStops /\ Draining /\ stops' = stops + 1

\* A deployment without a liveness probe.
LiveProbeMissing == FALSE /\ UNCHANGED vars

\* GET /healthz is not answered: the process is told to stop.
LiveProbe == proc = "deaf" /\ Draining /\ UNCHANGED stops

\* The listener is closed, and nobody waited for.
DrainedAtOnce ==
  /\ proc = "draining"
  /\ proc' = "closing"
  /\ UNCHANGED <<verify, keyVars, mongo, redis, db, ready, late, stops, cache, req, faults>>

Drained ==
  /\ proc = "draining" /\ \A s \in Slot : ~Running(s)
  /\ proc' = "closing"
  /\ UNCHANGED <<verify, keyVars, mongo, redis, db, ready, late, stops, cache, req, faults>>

\* app.shutdown_timeout is over and requests are still running.
GiveUp ==
  /\ proc = "draining" /\ \E s \in Slot : Running(s)
  /\ proc' = "closing" /\ late' = TRUE
  /\ UNCHANGED <<verify, keyVars, mongo, redis, db, ready, stops, cache, req, faults>>

\* The deferred calls, last one first.
CloseRedis ==
  /\ proc = "closing" /\ redis
  /\ redis' = FALSE
  /\ UNCHANGED <<verify, keyVars, proc, mongo, db, ready, late, stops, cache, req, faults>>

CloseMongo ==
  /\ proc = "closing" /\ ~redis /\ mongo
  /\ mongo' = FALSE
  /\ UNCHANGED <<verify, keyVars, proc, redis, db, ready, late, stops, cache, req, faults>>

\* What a process that is gone leaves: its requests are cut off.
Gone ==
  /\ proc' = "down" /\ cache' = NoKeys
  /\ mongo' = FALSE /\ redis' = FALSE /\ late' = FALSE /\ ready' = FALSE
  /\ req' = [s \in Slot |->
       IF Running(s) THEN Idle ELSE req[s]]
  /\ UNCHANGED <<verify, keyVars, db, faults>>

Exit == proc = "closing" /\ ~mongo /\ Gone /\ UNCHANGED stops

\* A signal before NotifyContext, a crash, or the end of the grace period.
Kill == proc # "down" /\ stops < MaxStops /\ Gone /\ stops' = stops + 1

Main == Connect \/ Boot \/ LiveProbe \/ Drained \/ GiveUp \/ CloseRedis \/ CloseMongo \/ Exit

Next ==
  \/ \E k \in Kid, e \in Entry : Rotate(k, e)
  \/ DatabaseDown \/ DatabaseUp
  \/ \E s \in Slot : Serve(s) \/ Leave(s) \/ \E t \in Token : Arrive(s, t)
  \/ Main \/ ReadyProbe \/ Signal \/ Kill

Spec == Init /\ [][Next]_vars

\* Go runs every goroutine, every call ends or times out, the kubelet starts
\* and probes the process, and a database that is down is brought back.
FairSpec ==
  /\ Spec
  /\ \A s \in Slot : WF_vars(Serve(s))
  /\ WF_vars(Main) /\ WF_vars(ReadyProbe) /\ WF_vars(DatabaseUp)

-----------------------------------------------------------------------------
(***************************************************************************)
(* Properties.                                                             *)
(***************************************************************************)

Passed(s) == req[s].pc \in {"handle", "sync"}

\* Whom the middleware lets through showed a token signed with a key that the
\* provider published under the token's key id, at that time or before.
AcceptedWasPublished ==
  \A s \in Slot :
    verify /\ Passed(s) => req[s].token.key \in ever[req[s].token.kid]

\* The key id was never given to another key.
Faithful(k) == Cardinality(ever[k]) <= 1

\* A token whose key was cached when the request came needs no provider: it is
\* not refused, whatever the refreshes of other requests do to the cache and
\* in whatever order their answers are merged.
KnownNeedsNoProvider ==
  \A s \in Slot :
    req[s].pc = "refused" /\ req[s].known => ~Faithful(req[s].token.kid)

\* A token whose key has been published ever since the request came is refused
\* only if the provider could not be asked: the key set that other requests
\* refresh at the same time always ends up holding it.
PublishedIsAccepted ==
  \A s \in Slot :
    req[s].pc = "refused" /\ req[s].steady =>
      req[s].failed \/ ~Faithful(req[s].token.kid)

\* No request finds its stores closed under it, unless the shutdown gave up on
\* it: they are closed only after the server has drained.
StoresOutliveRequests ==
  \A s \in Slot :
    Running(s) /\ ~late => mongo /\ (req[s].pc = "sync" => redis)

\* Every request is answered, or cut off with the process.
RequestsEnd == \A s \in Slot : Running(s) ~> ~Running(s)

\* Once nothing fails any more the replica serves: a process that cannot listen
\* is replaced, and one that lost MongoDB is brought back into service.
ServesAgain == <>[](proc = "serving" /\ ready)
=============================================================================
