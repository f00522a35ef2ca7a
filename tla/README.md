# Verification of the notification service

TLA+ models of the service in `src/`, the TLC configurations that check them,
and TLAPS proofs about them. `PROJECT.json` lists the runs, the source lines
behind every definition, the hazards and the theorems; this file explains them.

To check a module: `tlc -config IngestRetry.cfg MCIngest.tla`.
To check proofs: `tlapm IngestProofs.tla`.

## 1. The system

A notification goes through five kinds of processes:

```
 producers --Kafka / POST /webhook--> ingest --LPUSH notif:ws---> worker-dispatch --HTTP--> Centrifugo --> devices
                                        |  \---LPUSH notif:push-> worker-push ----------> FCM --------> devices
                                        v                              |
     devices --REST--> api <------> MongoDB <--------------------------+ (dead tokens)
                        \--LPUSH notif:ws (read sync)
     Centrifugo --connect / subscribe / publish callbacks--> ws-gateway
```

They share three MongoDB collections (`notifications`, `preferences`,
`subscribers`) and two Redis lists; nothing is transactional across them.

| Component | State | Operations | What is hard | What makes it correct | Module |
|---|---|---|---|---|---|
| Event contract (`pkg/contract`, `pkg/utils`) | none | validate, channels of an identity, recipients | fallbacks, invalid envelopes | documents and code agree on who receives what | `Contract` |
| Preference gate (`internal/domain/preference.go`) | none | mute, switches, quiet hours | midnight, zones, malformed times | a quiet window is an arc of the day | `Preference` |
| Ingest (`cmd/ingest`, `internal/handlers`, `internal/service`) | one handling per event; rows, lists | store, count, filter, look up tokens, dispatch; retry, dead-letter | every call may fail with or without effect; retries redo everything; handlings interleave | messages announce what their own attempt stored; an acknowledged event lost nobody and reaches the rooms; opting out is respected | `Ingest`, `Delivery` |
| Redis lists (`internal/queue`) | two lists | enqueue, consume | a pop that returns after the context ended; lost replies | at most once | `DispatchWorker`, `PushWorker` |
| worker-dispatch, Centrifugo client | message at hand, counters | pop, publish | replicas, late requests, signals, crashes | never twice; a stop costs one message; counters tell the truth | `DispatchWorker`, `Delivery` |
| worker-push, FCM sender | message at hand, tokens to delete | pop, send, prune | stale token lists, partial results | only dead tokens are pruned | `PushWorker` |
| Device registrations (`subscriber_handler.go`, store) | pairs of user and token | register, unregister, prune | three writers | see worker-push | `PushWorker`, `Ingest` |
| Notification API, read sync | rows, requests in progress | mark read, mark all, delete, count, get, list | count and push are two steps; several devices at once; pages cut while rows come and go | other devices are told the truth; the badge heals; a walk through the pages misses nothing without a reason | `Inbox`, `Listing` |
| Preference API and store | one document per user | get, set | fields that are left out of the update | what is blocked is blocked | `Settings` |
| ws-gateway (`internal/gateway`, `pkg/centrifugo`) | token buckets | connect, subscribe, publish | rounding in the refill; tokens of others | rooms are private; the limit holds and starves nobody | `Gateway` |
| Notification stores (`internal/store`) | two indexes under a lock, or a collection with its indexes | create, get, mark, mark all, delete, count | the indexes are changed one after the other | the indexes agree; both stores keep the promise of the interface | `Store`, `NotificationStore` |
| API process, authentication, probes (`cmd/api`, `middleware/auth.go`, `pkg/health`) | key cache, requests, open stores | start, listen, verify a token, refresh the keys, drain, close | concurrent refreshes without a lock over the fetch; rotation; a port that is taken; a shutdown under load | a known or published key is not refused; stores outlive requests; the replica serves again | `Api` |
| Index creation, metrics, configuration, generated docs | - | - | - | - | not modelled |

## 2. The modules

`Contract` and `Preference` are pure and the others build on them. `AtMostOnce`
and `Store` are abstract specifications that others implement. `Delivery` composes
`Ingest` with `DispatchWorker`.

**`Ingest`** (MC module `MCIngest`). `job[e]` is the handling of event `e`, a
record with a `pc` that names the store call it is about to make and the fields
of `NotificationParams` (`stored`, `counts`, `tokens`, `rcpt`). One action per
external call: `Persist`, `Count`, `Filter`, `Enrich`, `DispatchInApp`,
`DispatchPush`, each for one recipient, since the loops in
`internal/service/notification.go` make one call per recipient. What the code does between two
calls (ending a loop, filtering out everybody, entering the next channel,
returning an error) is part of the action before it: `AfterPersist`,
`AfterFilter`, `EnterChannel`, `FailAttempt`. `Handle` is the Kafka or webhook
wrapper with validation and the identity's handler. A failed store call may have
been applied. `att` numbers the attempts at an event; no code field holds it,
it only tells the messages and rows of different attempts apart. `blind`
remembers whose preference lookup failed. The Kafka library is external: it is
taken to retry `RetryCount` times, then to dead-letter, and to deliver an event
again after a crash unless its offset was committed. The id of a row,
`uuid.New` in the code, is its position in `rows`. `Meanwhile` is what users do.

**`DispatchWorker`** (`MCDispatchWorker`). The list is what was pushed less what was popped, so
`taken` (who popped each message) is all that is needed. `air` holds publish
requests that Centrifugo has yet to act on, also those whose sender gave up.
The context is looked at at the top of the loop and inside `Publish`, not
during `BRPop`: `Poll`, `Handle` and `Fail` say so. `Abstract` maps it to
`AtMostOnce`, a queue that delivers or loses each message, once.

**`Delivery`** (`MCDelivery`). `cmd/ingest` and `cmd/worker-dispatch` together. The workers are
`INSTANCE DispatchWorker` with the list `ws` of `Ingest` as what was pushed; a step
of one deployment leaves the other's state alone, and each has its own faults,
stops and fairness. That ingest is a producer as the workers' specification
assumes it is a property (`FeedsWorkers`), not an assumption, and proved (section 4).

**`PushWorker`** (`MCPushWorker`). A message carries the tokens `enrich` read. `Send` takes FCM's
answers for all tokens at once, `Prune` is one `DeleteByToken`. What a process
has at its start (credentials, MongoDB) is its `kit`.

**`Inbox`** (`MCInbox`). Requests in progress live in `Slot`s: a request takes one with its
write, counts in a second step, and pushes in a third. The pipeline is there as
`Notify`, and its message may never come to pass (`Drop`). `healed`, `alone`
and `upto` are history, for the properties.

**`Store`, `NotificationStore`, `Listing`** (`MCListing`). `Store` is the interface of
`internal/store/store.go`: for each user a set of notifications, the read ones of
them, and the answer of the last call. `NotificationStore` is both stores at once,
`kind` telling which: rows behind an index by id (`byID`) and a list per user
(`byUser`), with a call as one step, under the memory store's lock or as MongoDB's
statement on one document. They differ in where a row is listed (`Listed`,
`Inserted`) and in `MarkAllRead`, which is a step of the memory store only: MongoDB's
is a `MarkRead` for each row. `Listing` adds a client that walks through the pages
of one user while `Others` write. A page is one step of the memory store (`ShowPage`) and
two of MongoDB's (`Count`, `Find`). `left`, `came` and `late` count what happened to the
listing meanwhile.

**`Api`** (`MCApi`). One replica of `cmd/api`. `proc` is where `main` stands: it connects
to MongoDB or exits (`Connect`), builds everything else (`Boot`), serves, or lives on without a
listener (`deaf`), drains, and runs its deferred calls in their order (`CloseRedis`,
`CloseMongo`). A request goes through `Look`, `Fetch`, `Store` and `Again`, the steps of
`jwksCache.get` between which the lock is free, and then through its handler's store calls. `cache` is
the map of keys; `idp` what the provider publishes, `ever` what it ever did. Keys
are compared instead of signatures computed: a token names the key that signed it.

**`Settings`** (`MCSettings`). One user's document, the settings last confirmed to the user, and
the clock. `Saved` in `Preference` is the `$set` of a struct whose empty muted
list and absent quiet window are `omitempty`.

**`Gateway`** (`MCGateway`). Buckets, subscriptions, subscription tokens, and
time in units that the interval is a multiple of. `from` is an arbitrary start of a window and `hits`
what passed since, so that a bound on `hits` is a bound for all windows.

Operators whose comment begins with "A slip" are plausible mistakes. They
belong to no specification; replacing the definition that follows by one of them
makes the property named in `PROJECT.json` fail, which shows that the property has
teeth.

## 3. What the runs show

| Run | Instance | Result |
|---|---|---|
| `IngestRetry` | 1 Kafka event, 2 recipients who read and delete, 1 retry, storing and queueing fail anywhere | `AnnouncedRowExists`, `IdAnnouncedOnce`, `PushAfterInApp`, `AckedMeansQueued`, `AttemptsBounded`, `BadgeCoversOwnRow` |
| `IngestGate` | 9 kinds of envelopes, a day of 2 minutes, preferences and devices that change, failing counts, lookups and queueing, a crash and the delivery after it | `OptOutRespected`, `TransientLeavesNoTrace` |
| `Delivery` | 1 Kafka event, 2 recipients, 1 retry, queueing fails; 1 dispatch worker, 1 fault, 1 signal | `CopiesAreAttempts`, `EventuallySettled`, `AckedReachesRooms`, `FeedsWorkers` |
| `Dispatch` | 2 replicas, 2 messages, 2 faults, 1 signal | `StopCostsAtMostOne`, `CountedOnce`, `ConfirmedInOrder`, `EveryMessageLeaves`, and the refinement of `AtMostOnce` (`DeliversAtMostOnce`) |
| `InboxSafe` | 2 users, 2 requests at a time, 2 rows, every call may fail | `ReadEventsTrue`, `OwnersOnly`, `BadgeHeals` |
| `Listing` | 2 users, 3 rows, pages of 1 or 2 (or 3 in the memory store), all rows or the unread ones | `IndexesAgree`, `NothingMissed`, `RepeatsBounded`, and the refinement of `Store` (`KeepsPromise`) |
| `Api` | 2 key ids, 2 keys, 2 requests at a time, 1 rotation, 1 fault, 1 signal or kill, with and without verification | `AcceptedWasPublished`, `KnownNeedsNoProvider`, `PublishedIsAccepted`, `StoresOutliveRequests`, `RequestsEnd`, `ServesAgain` |
| `Push` | 1 user, 3 tokens of which FCM takes 2 in a call, 1 worker that may lack FCM or MongoDB, 2 messages, 1 fault or crash | `PrunedOnlyDead`, `DeadTokensLeave` |
| `SettingsGate` | a day of 6 minutes, windows over midnight, 2 zones and malformed ones | `BlockedIsBlocked`, `QuietIsAnArc` |
| `Gateway` | 2 users, 1 token per 2 units, burst 2, 4 units of time, 2 challenges, a subscription token that is passed on and expires | `WindowBound`, `NeverStarved`, `SubscribersInvited` |

Where a type invariant is proved for its module and no run has a mistake of its own for it
(`DispatchWorker`, `PushWorker`, `Gateway`, `Api`), the runs leave it to the proof.

`CopiesAreAttempts` is the service's delivery guarantee from end to end: at
least once towards Kafka and at most once behind the list make "no more copies than
attempts". `NothingMissed` says what a client that pages by number may rely on: each
row it misses is paid for by a row that left the listing before it, or, with MongoDB,
by one that came between the two queries. `KnownNeedsNoProvider` and
`PublishedIsAccepted` are what the cache is for: the
refreshes of other requests, merged in any order, take nothing away.
Both need that a key id keeps to one key (`Faithful`). A provider that reuses an
id keeps the old key in the cache of every process until it ends, since a
cached id is never asked for again.

**Bounds.** The pipeline treats recipients independently but for shared failures, and channels
in a fixed order: two recipients are needed for a failure before, at and after one of them,
and one retry for a failed attempt followed by another one. `IngestRetry` and `Delivery` have one
event: two events at a time meet only on the rows of a user, where one
changes nothing the other has stored, and the theorems of `IngestProofs` are for any number of
them. The crash is in `IngestGate`, where it is the redelivery that
makes the second attempt. Two replicas and two messages exhibit a reordering;
`Delivery` has one replica, because `Dispatch` has two. Workers of
the push list meet only through `reg`, which users change at any time, so one worker
stands for several; three tokens make a message FCM does not take next to one of
which two tokens must be pruned. Two slots are
two devices of a user, or a device and the pipeline. Three rows make two full pages of one, or a full
and a short page of two, with a row to come or go before, on and behind the page shown;
`Count` and `GetByID` change nothing, so they are not interleaved with a walk.
Two requests with one rotation are an old and a new key set merged in either order.
An interval of two units
leaves a fraction to forget; four units see a bucket emptied, refilled and emptied again.
The users, topics and challenges of `Gateway` are interchangeable, which its symmetry set says; it
has no liveness property.
Counters are bounded by `MaxPush`, `MaxFaults`, `MaxStops`, `MaxCrashes`,
`MaxRows`, `MaxRotations`, `MaxMint` and `MaxTime`, guards of the actions that count. `Pop` and
the like do not depend on the bounds, and the proofs are for all values.

**Fairness.** `Delivery` assumes that a handling keeps making steps: Go
schedules the goroutine, and every call returns or fails because the clients
have timeouts. There is no fairness for the environment. `Delivery` and `Dispatch` assume the
same of a worker, that Kubernetes restarts one that ended
(`restartPolicy` of a Deployment), and that Centrifugo acts on a request it
has received. `Push` assumes the same of its workers; a fault
may lose the message that would have pruned a token, so
`DeadTokensLeave` promises nothing once there was one, or while a process lacks FCM
or MongoDB, or for a message with more tokens than FCM takes. `Api` assumes that
a request's goroutine keeps running, `main` too, that the kubelet starts and probes the
process (`deploy/k8s/api-deployment.yaml:37`), and that a database that is down is brought
back; nothing is assumed of the provider, whose fetch ends after ten seconds. Faults are
bounded, so liveness says what happens once they stop.

**Where documents and code disagree.** Two runs check a sentence of
the documents or comments and find a counterexample:

* `ClaimUpdate`: unmuting the last identity, or removing the quiet window, is lost
  (`docs/api.md:231`).
* `ClaimBadge`: two overlapping requests leave a wrong badge, with read-sync
  (`internal/api/read_sync.go:13`).

Others were met while reading and are in the models, without a run of their own:

* A retry stores every recipient's notification again (`docs/CONTRACT.md:211`: one for each).
* An unknown identity is answered 400 (`Validate`), not 202 (`docs/notification-flow.md:266`).
* An empty `extra.to` is final and does not fall back to the audience (`docs/CONTRACT.md:245`).
* `extra.ignore` is not read (`pkg/contract/envelope.go:75`: ids to exclude).
* Replicas publish out of order, although the list is FIFO (`docs/queue.md:14`).
* A message counted as dropped may still be published
  (`cmd/worker-dispatch/main.go:104`): only its reply was lost.
* FCM's refusal of a message costs live devices their registration
  (`pkg/push/fcm.go:101`: it will never succeed again). `PrunedOnlyDead` names the case.
* The topics of `docs/CONTRACT.md:142` are not those of `pkg/contract/topic_mapping.go`.
* The in-memory store lists oldest first where `docs/api.md:62` says newest first (`Listed`).
* A refill adds whole intervals and forgets the fraction (`internal/gateway/ratelimit.go:51`), so that
  a user who publishes at the rate of `docs/websocket-centrifugo.md:148` may be refused.
* The comment of `NewAuth` says that `Required` refuses to run unverified unless
  `allowUnverified` is set (`internal/api/middleware/auth.go:33`). There is no such check: `Look` lets
  every token with a subject through when no URL is configured.
* The default shutdown timeout, 30 seconds (`config/config.go:46`), is as long as
  the grace period of a pod, so that a drain that needs all of it is killed before the stores
  are closed.

## 4. What is proved

All proofs are for every value of the constants allowed by the named
assumptions of the modules (`IngestAssumption`, `WorkerAssumption`, ...), which TLC evaluates
on every run. They state that names are distinct from `Nil`, that bounds are
natural numbers and that inputs are of the right type. `IngestAssumption` also
asks that the preferences a user may come to have are closed under `Saved`.

| Module | Inductive invariant | Theorems |
|---|---|---|
| `IngestProofs` | `TInv`: the types, and that a handling's position lies in the list it walks | `TypeCorrect` |
| | `SInv`: `TInv`, and for each handling that what it has stored is there under its attempt number, that totals were taken after storing, and that who is kept wrongly was looked up in vain; the same for messages sent | `AnnouncedRows`, `BadgeCovers`, `OptOut` |
| | `AInv`: without a crash, the attempts are the retries and the one in progress | `Attempts` |
| | `LInv`: a handling of a live status is never at `persist` or `count` and remembers nothing (`NoTrace`) | `LiveStatuses` |
| | `WInv`: everyone who takes the channel at hand is kept, and everyone behind the `Walk` has been sent the event | `Acked`, `PushLast` |
| | `UInv`: `SInv`, the kept recipients differ (`NoRepeat`), and an attempt that has announced a row is `Past` its recipient | `OneAnnouncement` |
| | `OInv`: for every event and recipient, what has been pushed and what the attempt in progress may still push (`Owed`) is no more than one message per attempt and place in the recipient list | `Accounts` |
| | `TInv`, for a number that every step of a handling lowers (`CallsLeft`) | `HandlingsEnd` |
| | `BothInv`, of `Delivery`: `OInv`, and `DInv` of the workers with the list ingest feeds | `CopiesBounded`, `CopiesWithoutCrash`, `Feeds`, `DeliveredAtMostOnce`, `WorkersKeepPromises`, `PipelineUnchanged` |
| `DispatchProofs` | `DInv`: who owns a message (`Owned`), where it is (`Placed`), what was counted for which process (`Counted`), and that a message being sent comes after all its worker has had confirmed (`Ordered`) | `WorkerTyped`, `StopCosts`, `CountsAreRight`, `InOrder`, `Implements` |
| `InboxProofs` | `IInv`: what each request in progress `Knows` of the rows stays true, and a request that is `Alone` is its user's only one | `InboxTyped`, `ToldTheTruth`, `OnlyOwners`, `Heals` |
| `PushProofs` | `PInv`: tokens about to be deleted are `GoneForGood` | `PushTyped`, `PruningIsSafe` |
| `SettingsProofs` | `StInv`: the document `Repeats` what was confirmed and present | `Blocks`, `Arc` |
| `GatewayProofs` | `GInv`: a bucket `Fits` the hits of the window | `GatewayTyped`, `RateBound`, `NobodyStarves`, `OnlyInvited` |
| `ListingProofs` | `IndexesAgree` with the types of the store | `IndexesAlwaysAgree`, `StoresKeepPromise` |
| | `ListingInv`: that, and `WalkInv`, which weighs the rows still ahead of a walk against what left and came | `WalkTyped`, `NothingIsMissed`, `RepeatsAreBounded` |
| `ApiProofs` | the types, `ProcOK` (which stores are open at which point of `main`), `KeysOK` (the cache holds published keys) and what each request knows of them | `TypeCorrect`, `StoresOutlive`, `AcceptedPublished`, `KnownStays`, `PublishedAccepted` |

*Pipeline.* `TypeOK` is not inductive: that the next recipient exists
depends on the loop the handling is in. `AnnouncedRowExists` speaks of messages
only; it is kept because a message copies `stored`, which an attempt fills
with its own rows and `BeginAttempt` clears. `BadgeCoversOwnRow` needs that
rows never turn unread again. `OptOutRespected` needs that the recipients kept for a
channel were filtered for that channel; it does not need the preference to stay the same,
since `Never` quantifies over all a user may come to have.
Every step inside `Process` goes on within its attempt or fails it (`Proceeds`), from which
`AInv` and `LInv` follow. `AckedMeansQueued` and `PushAfterInApp` are one argument: a
channel is left only when all recipients are filtered and all kept ones served, and no
identity has a channel twice or push before in-app (`ChannelOrder`). `IdAnnouncedOnce`
compares rows: two messages with one id have, by `SInv`, one event, attempt and room, and the
attempt serves a room once.

*Copies.* `CopiesAreAttempts` compares what is published with the attempts. Neither side changes
in the step that matters, a message pushed, so that the invariant keeps accounts instead: an attempt that begins
may push one message per place of a recipient (`BeginAttemptOwes`), filtering, serving
and failing only lower what it owes, and each in-app message pushed is one that was owed
(`DispatchInAppOwes`). A crash forgets what was owed, the next attempt owes afresh. This bounds the messages
on `notif:ws`; the channel holds no more of them because the workers publish none twice (`Placed`), which
`PublishedOnce` turns into an injection from one into the other.

*Why a handling ends.* `EventuallySettled` itself stays with TLC, but the argument behind it is proved for
all values of the constants. `CallsLeft` bounds the steps a handling has left: those of the attempt under way
(`InAttempt`: what the walk has left in the list at hand, and what the later loops and channels can
take at most) and, for every retry that is left, those of a whole attempt. `HandlingsEnd` says that it is a natural
number, that every step of the handling lowers it, a failed call included, and that only
an arrival or a crash raises it, and no step of another handling, of a user or of the clock does. What is left to
fairness is that a step which is possible is taken.

*Two deployments.* `IngestProofs` instantiates `DispatchProofs` with the list that ingest
feeds (`Workers`), so that every lemma about a worker's step holds in `Delivery`
as it stands. What is left to show is that a step of ingest is, to the workers, one payload more at the end of their
list or nothing (`DeliverySteps`, `PushedInv`), and that a step of a worker is nothing to ingest.
`Feeds` carries the hypothesis that no more than `MaxPush` messages are pushed, since the workers'
specification says so of its producers; none of the others does.

*Workers.* `Implements` proves `Spec => Abstract!Spec`, step by step: a pop, a
signal or a restart of the concrete system stutters or loses a message, `Apply` delivers. That a
lost message does not come back rests on `Placed`: what is neither held nor in the
air is not sent by anybody. `StopCosts` rests on the process looking at the
context before every pop.

*Inbox.* A write touches one user's rows, turns none unread, and adds at the end (`WriteOf`);
what a request knows survives every such write, except its total, which
is only claimed for a request that is alone.

*Gateway.* The bound on a window holds for every start `from`, because `Fits` speaks of a
bucket last filled before the window (it holds what is left of one burst) and of one
filled within it (it has been granted the whole intervals that fit into the window, and one more).
The arithmetic is that of integer division: `WholeNat`, `WholeGreatest`.

*Stores.* That the indexes agree is inductive with the types of the store: an id that is
new to the index is new to every list, and removing one occurrence from a list without
repetition removes the row. `StoresKeepPromise` is a step-by-step simulation; that the places of unread
rows in a list are as many as the unread rows of a user is a bijection, for
which the list must not repeat a row.

*A walk through the pages.* `NothingMissed` speaks of a walk that has ended. On the way the invariant
(`OnTheWay`) weighs what is still ahead, the rows `Beyond` the pages asked for: of the rows the walk
began with, those neither shown nor ahead are at most as many as `left`, and of the rows already
shown, those shown again or ahead again at most as many as `came`, and none with the memory store. A row inserted
pushes at most one row back over any boundary (`BeyondInserted`), one removed pulls at most one forward, and a
page moves its rows from ahead to shown. With MongoDB the count may be older than the page, which costs
the rows that came in between (`late`). What `Filtered` yields of a list, and of a list with one row more or
less, is proved by induction over the list. The induction theorems of the library take an operator, so that
`NumberInduction` and `SequenceInduction` are stated with a set in its place (the numbers, or lists, for which the
statement holds) and rest on there being a least number (`LeastNumber`). This reaches recursive
functions, as `Filtered` is one, not `RECURSIVE` operators.

*API.* A request that waits for the provider holds an answer of published keys
(`KeysOK`), so that merging it, however late, gives an id no other key than the one it has
while the id keeps to one key. That one is stated as "any two are
equal" instead of by cardinality. `StoresOutlive` rests on `ProcOK`: the stores are open
from `Boot` to `closing`, which is entered when nothing runs or `late` is set.

**Only model-checked:** the liveness properties, for which this prover has neither fairness nor
`ENABLED`: `EventuallySettled`, `AckedReachesRooms`, `EveryMessageLeaves`, `DeadTokensLeave`,
`RequestsEnd` and `ServesAgain`; and the `Claim` runs, which are counterexamples. Every invariant and
every other action or refinement property of a run is proved.

## 5. What is simplified

* Texts, links, trace data and log lines are left out; an envelope is what
  `Contract` lists. In `Inbox`, `MarkAllRead` is one step although MongoDB updates row after row;
  in `NotificationStore` it is not.
* A Kafka partition is not modelled: events are handled independently, which
  includes the order of a partition. The delay between retries is not modelled.
* A shutdown of the ingest process is a crash, or failing calls, at any point.
* `Delivery` composes ingest and worker-dispatch; the push list and the API's read-sync messages,
  which share `notif:ws`, are left to `PushWorker` and `Inbox`.
* A listing follows the index by user and descending `created_at`, so that rows with the
  same time keep one order between two pages.
* `ListByUserID` is called nowhere. The in-memory store is built by tests only.
* `Api` leaves out the tracing and CORS wrappers, which change no state.
* The limiter's buckets are one process's; several gateway processes each grant the rate.
* Connection tokens are a library's computation: `Connect` is always possible for
  the user the token names.

**Not modelled:** the creation of the indexes (idempotent, at each start), the text format of the
metrics (`pkg/metrics` renders counters that others keep), the parsing of the
configuration (constants of the models; its shutdown timeout is `GiveUp`), and
`docs/docs.go`, which is generated.

## 6. Plan

1. `MarkAllRead` row by row in `Inbox`, and the proofs adapted to it.
2. The push list in `Delivery`.
3. The loss of a partition and committed offsets in `Ingest`.
