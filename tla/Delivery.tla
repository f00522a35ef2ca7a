------------------------------ MODULE Delivery ------------------------------
(***************************************************************************)
(* cmd/ingest and cmd/worker-dispatch together: from an event to the rooms *)
(* of its recipients.  What Process pushes on notif:ws is what the workers *)
(* pop; the message a worker knows as m is ws[m].  The two deployments     *)
(* share nothing else, so that a step of one leaves the other's state      *)
(* alone, and each may fail, be stopped and restarted while the other runs.*)
(***************************************************************************)
EXTENDS Ingest

CONSTANTS
  Worker,     \* the replicas of worker-dispatch
  MaxPush,    \* no behaviour pushes more messages than this
  MaxFaults,  \* bound: Redis and Centrifugo errors and worker crashes
  MaxStops    \* bound: SIGTERMs of workers

ASSUME DeliveryAssumption ==
  /\ Nil \notin Worker
  /\ Nil \notin Nat
  /\ MaxPush \in Nat /\ MaxFaults \in Nat /\ MaxStops \in Nat

VARIABLES taken, worker, air, channel, dispatched, failed, cut, faults, stops

\* DispatchPayload is marshalled by ingest itself: each one decodes.
Dispatch == INSTANCE DispatchWorker WITH
  pushed <- [m \in DOMAIN ws |-> TRUE], Payload <- {TRUE}

workerVars == <<taken, worker, air, channel, dispatched, failed, cut, faults, stops>>

DeliveryInit == Init /\ Dispatch!Init

IngestStep == Next /\ UNCHANGED workerVars

WorkerStep ==
  /\ UNCHANGED vars
  /\ \/ \E w \in Worker :
          \/ Dispatch!Run(w) \/ Dispatch!Signal(w) \/ Dispatch!PopError(w)
          \/ Dispatch!Fail(w) \/ Dispatch!Crash(w)
     \/ \E m \in air : Dispatch!Apply(m)

DeliveryNext == IngestStep \/ WorkerStep

\* The fairness of the two deployments, each of its own process.
DeliveryFairness ==
  /\ \A e \in Event : WF_<<vars, workerVars>>(Step(e) /\ UNCHANGED workerVars)
  /\ \A w \in Worker : WF_<<vars, workerVars>>(UNCHANGED vars /\ Dispatch!Run(w))
  /\ WF_<<vars, workerVars>>(UNCHANGED vars /\ \E m \in air : Dispatch!Apply(m))

DeliverySpec ==
  DeliveryInit /\ [][DeliveryNext]_<<vars, workerVars>> /\ DeliveryFairness

-----------------------------------------------------------------------------
\* The messages that tell u about event e.
Telling(e, u) == {m \in DOMAIN ws : ws[m].ev = e /\ ws[m].room = u}

\* A recipient finds an event in the room at most once for each attempt at it
\* (and each time the producer named the recipient): retries of the consumer
\* are the only source of copies, since no failed, late or repeated request of
\* a worker adds one of its own (notification.go, Process; queue.go, Consume).
CopiesAreAttempts ==
  \A e \in Event, u \in User :
    job[e].env # Nil =>
      Cardinality({k \in DOMAIN channel : channel[k] \in Telling(e, u)})
        <= job[e].att * Cardinality({i \in DOMAIN To(job[e]) : To(job[e])[i] = u})

\* An acknowledged event reaches every recipient who takes in-app messages:
\* one of its messages to that recipient is published, or was lost between
\* Redis and Centrifugo.  Neither the retries of the one deployment nor the
\* restarts of the other leave a recipient waiting.
AckedReachesRooms ==
  \A e \in Event, u \in User :
    (/\ job[e].pc = "done" /\ Validate(job[e].env) /\ ~IsShared(job[e].env)
     /\ InSeq(u, To(job[e])) /\ Always(u, Ident(job[e]), ChannelInApp))
    ~> \E m \in Telling(e, u) : Dispatch!Published(m) \/ m \in Dispatch!Lost

\* What ingest does to the list is what the workers' own specification takes
\* its producers to do: one message at a time, added at the end and never
\* taken back, in any state of either deployment.
FeedsWorkers == Dispatch!Spec

=============================================================================
