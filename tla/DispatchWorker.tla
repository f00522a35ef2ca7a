--------------------------- MODULE DispatchWorker ---------------------------
(***************************************************************************)
(* internal/queue and cmd/worker-dispatch: the Redis list notif:ws, the    *)
(* worker processes that pop it, and Centrifugo's HTTP API they publish to.*)
(*                                                                         *)
(* A message is known by the place at which it was pushed.  LPUSH adds at  *)
(* one end and BRPOP takes from the other, so the list at any moment is    *)
(* what was pushed and not yet popped: the k-th pop takes the k-th push.   *)
(* A worker is a process slot of the Deployment: whenever its process      *)
(* ends, Kubernetes starts another one, with a new life number.            *)
(***************************************************************************)
EXTENDS Naturals, Sequences

CONSTANTS
  Worker,     \* the replicas of the Deployment
  Nil,
  Payload,    \* a payload pushed decodes (TRUE) or does not
  MaxPush,    \* bound: messages pushed
  MaxFaults,  \* bound: Redis and Centrifugo errors and process crashes
  MaxStops    \* bound: SIGTERMs, of rollouts and scale-downs

ASSUME WorkerAssumption ==
  /\ Nil \notin Worker
  /\ Nil \notin Nat
  /\ Payload \subseteq BOOLEAN
  /\ MaxPush \in Nat /\ MaxFaults \in Nat /\ MaxStops \in Nat

VARIABLES
  pushed,      \* the payloads pushed, in order
  taken,       \* for every message popped, the process that received it
  worker,      \* the state of each worker
  air,         \* publish requests Centrifugo has yet to act on
  channel,     \* what Centrifugo has published, in order
  dispatched,  \* messages counted by notif_dispatch_total
  failed,      \* messages counted by notif_dispatch_failed_total
  cut,         \* messages a process gave up because it had been signalled
  faults, stops

vars == <<pushed, taken, worker, air, channel, dispatched, failed, cut, faults, stops>>

-----------------------------------------------------------------------------
PC == {"loop", "pop", "handle", "call", "down"}

Life == [by : Worker \cup {Nil}, life : Nat]

\* A pop whose reply reached no process.
Nobody == [by |-> Nil, life |-> 0]

Message == Nat \ {0}

TypeOK ==
  /\ pushed \in Seq(BOOLEAN)
  /\ taken \in Seq(Life)
  /\ Len(taken) <= Len(pushed)
  /\ worker \in [Worker -> [pc : PC, msg : Message \cup {Nil}, sig : BOOLEAN, life : Nat]]
  /\ \A w \in Worker : worker[w].msg # Nil <=> worker[w].pc \in {"handle", "call"}
  /\ channel \in Seq(Message)
  /\ air \cup dispatched \cup failed \cup cut \subseteq DOMAIN taken
  /\ faults \in 0 .. MaxFaults
  /\ stops \in 0 .. MaxStops

-----------------------------------------------------------------------------
Me(w)      == [by |-> w, life |-> worker[w].life]
Waiting    == Len(taken) < Len(pushed)
Published(m) == \E k \in DOMAIN channel : channel[k] = m
Held(m)    == \E w \in Worker : worker[w].msg = m

\* Popped and out of reach: no process, no request and no channel has it.
Lost == {m \in DOMAIN taken : ~Held(m) /\ m \notin air /\ ~Published(m)}

SetWorker(w, s) == worker' = [worker EXCEPT ![w] = s]

Goto(w, pc) == SetWorker(w, [worker[w] EXCEPT !.pc = pc, !.msg = Nil])

Up(w) == worker[w].pc # "down"

-----------------------------------------------------------------------------
Init ==
  /\ pushed = <<>>
  /\ taken = <<>>
  /\ worker = [w \in Worker |-> [pc |-> "loop", msg |-> Nil, sig |-> FALSE, life |-> 0]]
  /\ air = {}
  /\ channel = <<>>
  /\ dispatched = {}
  /\ failed = {}
  /\ cut = {}
  /\ faults = 0
  /\ stops = 0

\* Queue.Enqueue, called by the ingest service.
Push(ok) ==
  /\ Len(pushed) < MaxPush
  /\ pushed' = Append(pushed, ok)
  /\ UNCHANGED <<taken, worker, air, channel, dispatched, failed, cut, faults, stops>>

\* SIGTERM or SIGINT: sigCtx is cancelled.
Signal(w) ==
  /\ Up(w) /\ ~worker[w].sig
  /\ stops < MaxStops
  /\ stops' = stops + 1
  /\ SetWorker(w, [worker[w] EXCEPT !.sig = TRUE])
  /\ UNCHANGED <<pushed, taken, air, channel, dispatched, failed, cut, faults>>

\* A slip: the loop does not look at the context.
PollForever(w) ==
  /\ worker[w].pc = "loop"
  /\ Goto(w, "pop")
  /\ UNCHANGED <<pushed, taken, air, channel, dispatched, failed, cut, faults, stops>>

\* The top of Consume's loop: leave when the context is done, else BRPop.
Poll(w) ==
  /\ worker[w].pc = "loop"
  /\ Goto(w, IF worker[w].sig THEN "down" ELSE "pop")
  /\ UNCHANGED <<pushed, taken, air, channel, dispatched, failed, cut, faults, stops>>

\* BRPop returns a message.  The call is not interrupted by the context, so
\* this happens to a process that has been signalled as well.
Pop(w) ==
  /\ worker[w].pc = "pop"
  /\ Waiting
  /\ taken' = Append(taken, Me(w))
  /\ SetWorker(w, [worker[w] EXCEPT !.pc = "handle", !.msg = Len(taken) + 1])
  /\ UNCHANGED <<pushed, air, channel, dispatched, failed, cut, faults, stops>>

\* BRPop times out on an empty list: redis.Nil, the loop goes on.
PopTimeout(w) ==
  /\ worker[w].pc = "pop"
  /\ ~Waiting
  /\ Goto(w, "loop")
  /\ UNCHANGED <<pushed, taken, air, channel, dispatched, failed, cut, faults, stops>>

\* The connection breaks, before or after the server has popped a message.
\* The client library asks again, or Consume returns the error and the process
\* ends.
PopError(w) ==
  /\ worker[w].pc = "pop"
  /\ faults < MaxFaults
  /\ faults' = faults + 1
  /\ \/ UNCHANGED taken
     \/ Waiting /\ taken' = Append(taken, Nobody)
  /\ \E pc \in {"pop", "down"} : Goto(w, pc)
  /\ UNCHANGED <<pushed, air, channel, dispatched, failed, cut, stops>>

\* A slip: a payload that does not decode is put back for another try.
HandleRequeue(w) ==
  LET m == worker[w].msg IN
  /\ worker[w].pc = "handle"
  /\ \/ /\ ~pushed[m]
        /\ Goto(w, "loop")
        /\ taken' = SubSeq(taken, 1, Len(taken) - 1)
        /\ UNCHANGED <<air, failed, cut>>
     \/ /\ pushed[m]
        /\ air' = air \cup {m}
        /\ SetWorker(w, [worker[w] EXCEPT !.pc = "call"])
        /\ UNCHANGED <<taken, failed, cut>>
  /\ UNCHANGED <<pushed, channel, dispatched, faults, stops>>

\* The handler up to the publish request: a payload that does not decode is
\* skipped; with the context cancelled the request is not even sent.
Handle(w) ==
  LET m == worker[w].msg IN
  /\ worker[w].pc = "handle"
  /\ \/ /\ ~pushed[m]
        /\ Goto(w, "loop")
        /\ UNCHANGED <<air, failed, cut>>
     \/ /\ pushed[m] /\ worker[w].sig
        /\ failed' = failed \cup {m}
        /\ cut' = cut \cup {m}
        /\ Goto(w, "loop")
        /\ UNCHANGED air
     \/ /\ pushed[m] /\ ~worker[w].sig
        /\ air' = air \cup {m}
        /\ SetWorker(w, [worker[w] EXCEPT !.pc = "call"])
        /\ UNCHANGED <<failed, cut>>
  /\ UNCHANGED <<pushed, taken, channel, dispatched, faults, stops>>

\* Centrifugo acts on a request, also on one whose sender has given up.
Apply(m) ==
  /\ m \in air
  /\ air' = air \ {m}
  /\ channel' = Append(channel, m)
  /\ UNCHANGED <<pushed, taken, worker, dispatched, failed, cut, faults, stops>>

\* A slip: the reply is not waited for.
ReplyEarly(w) ==
  LET m == worker[w].msg IN
  /\ worker[w].pc = "call"
  /\ dispatched' = dispatched \cup {m}
  /\ Goto(w, "loop")
  /\ UNCHANGED <<pushed, taken, air, channel, failed, cut, faults, stops>>

\* Publish returns nil.
Reply(w) ==
  LET m == worker[w].msg IN
  /\ worker[w].pc = "call"
  /\ Published(m)
  /\ dispatched' = dispatched \cup {m}
  /\ Goto(w, "loop")
  /\ UNCHANGED <<pushed, taken, air, channel, failed, cut, faults, stops>>

\* A request its sender no longer waits for: it still arrives, or does not.
Abandon(m) == air' \in {air, air \ {m}}

\* A slip: a message that could not be published goes back to the list.
FailRequeue(w) ==
  LET m == worker[w].msg IN
  /\ worker[w].pc = "call"
  /\ faults < MaxFaults /\ faults' = faults + 1
  /\ taken' = SubSeq(taken, 1, Len(taken) - 1)
  /\ Abandon(m)
  /\ Goto(w, "loop")
  /\ UNCHANGED <<pushed, channel, dispatched, failed, cut, stops>>

\* A slip: the failure is logged but not counted.
FailUncounted(w) ==
  LET m == worker[w].msg IN
  /\ worker[w].pc = "call"
  /\ faults < MaxFaults /\ faults' = faults + 1
  /\ Abandon(m)
  /\ Goto(w, "loop")
  /\ UNCHANGED <<pushed, taken, channel, dispatched, failed, cut, stops>>

\* Publish returns an error: the request fails, the reply is lost or late, or
\* the context is cancelled while the process waits.  The message is logged as
\* dropped and the loop goes on.
Fail(w) ==
  LET m == worker[w].msg IN
  /\ worker[w].pc = "call"
  /\ \/ faults < MaxFaults /\ faults' = faults + 1 /\ UNCHANGED cut
     \/ worker[w].sig /\ cut' = cut \cup {m} /\ UNCHANGED faults
  /\ failed' = failed \cup {m}
  /\ Abandon(m)
  /\ Goto(w, "loop")
  /\ UNCHANGED <<pushed, taken, channel, dispatched, stops>>

\* The process is killed.
Crash(w) ==
  /\ Up(w)
  /\ faults < MaxFaults
  /\ faults' = faults + 1
  /\ Abandon(worker[w].msg)
  /\ Goto(w, "down")
  /\ UNCHANGED <<pushed, taken, channel, dispatched, failed, cut, stops>>

\* Kubernetes starts a new process.
Restart(w) ==
  /\ worker[w].pc = "down"
  /\ SetWorker(w, [pc |-> "loop", msg |-> Nil, sig |-> FALSE, life |-> worker[w].life + 1])
  /\ UNCHANGED <<pushed, taken, air, channel, dispatched, failed, cut, faults, stops>>

-----------------------------------------------------------------------------
\* What a process does by itself.
Run(w) ==
  Poll(w) \/ Pop(w) \/ PopTimeout(w) \/ Handle(w) \/ Reply(w) \/ Restart(w)

Next ==
  \/ \E ok \in Payload : Push(ok)
  \/ \E w \in Worker : Run(w) \/ Signal(w) \/ PopError(w) \/ Fail(w) \/ Crash(w)
  \/ \E m \in air : Apply(m)

Spec == Init /\ [][Next]_vars

\* A live process runs, Kubernetes restarts one that ended, and Centrifugo
\* works off its requests.
Fairness ==
  /\ \A w \in Worker : WF_vars(Run(w))
  /\ WF_vars(\E m \in air : Apply(m))

FairSpec == Spec /\ Fairness

-----------------------------------------------------------------------------
(***************************************************************************)
(* Properties.                                                             *)
(***************************************************************************)
Abstract == INSTANCE AtMostOnce WITH
  sent <- Len(pushed), delivered <- channel, lost <- Lost

\* Delivery is at most once: no error, crash, restart or late request makes
\* Centrifugo publish a message twice, or publish one that was given up for
\* lost (queue.go, the handler of cmd/worker-dispatch).
DeliversAtMostOnce == Abstract!Spec

\* Stopping a process costs at most one message: the one it held, or the one
\* its last BRPop returned after the signal, which the cancelled context keeps
\* it from publishing.  The rest of the list is left to the next process.
StopCostsAtMostOne ==
  \A m, n \in cut : taken[m] = taken[n] => m = n

\* While a process lives, each message it received and has finished with is
\* counted exactly once: as dispatched, and then it was published, or as
\* failed, or else it could not be decoded.  A loss the counters do not show is
\* the loss of a process or of a reply of Redis.
CountedOnce ==
  /\ dispatched \cap failed = {}
  /\ \A m \in dispatched : Published(m)
  /\ \A m \in DOMAIN taken, w \in Worker :
       taken[m] = Me(w) /\ Up(w) /\ worker[w].msg # m /\ pushed[m]
       => m \in dispatched \cup failed

\* What one worker publishes successfully is published in the order of the
\* list, over its restarts and over requests of its own that arrive late.
ConfirmedInOrder ==
  \A k, l \in DOMAIN channel :
    /\ k < l
    /\ {channel[k], channel[l]} \subseteq dispatched
    /\ taken[channel[k]].by = taken[channel[l]].by
    => channel[k] < channel[l]

\* No message waits for ever: each one pushed is published or lost, and no bad
\* payload, failed publish or stopped process stalls the list.
EveryMessageLeaves ==
  \A m \in 1 .. MaxPush :
    m \in DOMAIN pushed ~> Published(m) \/ m \in Lost

=============================================================================
