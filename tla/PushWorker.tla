----------------------------- MODULE PushWorker -----------------------------
(***************************************************************************)
(* The push leg: device registrations, the Redis list notif:push, the      *)
(* processes of cmd/worker-push, and FCM.                                  *)
(*                                                                         *)
(* The list of a user's device tokens is read by the pipeline and travels  *)
(* inside the message, so it may be out of date when the message is sent.  *)
(* FCM answers for each token; the worker deletes the registrations of the *)
(* tokens FCM calls unregistered or invalid, one store call after another, *)
(* while users register and unregister devices through the API.            *)
(***************************************************************************)
EXTENDS Naturals, Sequences, FiniteSets

CONSTANTS
  User, Token, Nil,
  Worker,    \* the replicas of the Deployment
  Kit,       \* what a process may find when it starts: FCM credentials, MongoDB
  Body,      \* "good", "bad": FCM refuses the message itself, "garbled"
  Limit,     \* the most tokens FCM takes in one call
  MaxPush,   \* bound: messages pushed
  MaxFaults  \* bound: calls that fail, and processes killed

ASSUME PushAssumption ==
  /\ Nil \notin User
  /\ Kit \subseteq [fcm : BOOLEAN, mongo : BOOLEAN] /\ Kit # {}
  /\ Body \subseteq {"good", "bad", "garbled"}
  /\ Limit \in Nat /\ MaxPush \in Nat /\ MaxFaults \in Nat

VARIABLES
  reg,      \* the subscribers collection: pairs of a user and a token
  dead,     \* tokens that belong to no installed app any more
  queue,    \* the list notif:push
  worker,   \* the state of each worker
  pruned,   \* what workers deleted: the pair, and the body of the message
  pushed,   \* number of messages pushed
  faults    \* number of calls that failed and of processes killed

vars == <<reg, dead, queue, worker, pruned, pushed, faults>>

-----------------------------------------------------------------------------
Message == [user : User, tokens : SUBSET Token, body : {"good", "bad", "garbled"}]

\* An empty message stands for none.
NoMessage == [user |-> Nil, tokens |-> {}, body |-> "garbled"]

\* gone: the tokens still to be deleted.
WorkerState == [pc : {"pop", "send", "prune", "down"}, msg : Message \cup {NoMessage},
                gone : SUBSET Token, kit : [fcm : BOOLEAN, mongo : BOOLEAN]]

TypeOK ==
  /\ reg \subseteq User \X Token
  /\ dead \subseteq Token
  /\ queue \in Seq(Message)
  /\ worker \in [Worker -> WorkerState]
  /\ \A w \in Worker : worker[w].pc \in {"send", "prune"} <=> worker[w].msg # NoMessage
  /\ \A w \in Worker : worker[w].pc = "prune" <=> worker[w].gone # {}
  /\ pruned \subseteq User \X Token \X {"good", "bad", "garbled"}
  /\ pushed \in 0 .. MaxPush
  /\ faults \in 0 .. MaxFaults

-----------------------------------------------------------------------------
DevicesOf(u) == {t \in Token : <<u, t>> \in reg}

SetWorker(w, s) == worker' = [worker EXCEPT ![w] = s]

Free(s) == [s EXCEPT !.pc = "pop", !.msg = NoMessage, !.gone = {}]

\* Something goes wrong that is not the message's doing.
Fault ==
  /\ faults < MaxFaults
  /\ faults' = faults + 1

Init ==
  /\ reg = {}
  /\ dead = {}
  /\ queue = <<>>
  /\ worker \in [Worker -> {[pc |-> "pop", msg |-> NoMessage, gone |-> {}, kit |-> k] : k \in Kit}]
  /\ pruned = {}
  /\ pushed = 0
  /\ faults = 0

-----------------------------------------------------------------------------
\* SubscriberHandler.Register: an upsert on the pair.
Register(u, t) ==
  /\ reg' = reg \cup {<<u, t>>}
  /\ UNCHANGED <<dead, queue, worker, pruned, pushed, faults>>

\* SubscriberHandler.Delete.
Unregister(u, t) ==
  /\ reg' = reg \ {<<u, t>>}
  /\ UNCHANGED <<dead, queue, worker, pruned, pushed, faults>>

\* The app is uninstalled, or FCM gives the device another token.
Die(t) ==
  /\ dead' = dead \cup {t}
  /\ UNCHANGED <<reg, queue, worker, pruned, pushed, faults>>

\* enrich and PushDispatcher.Dispatch for one recipient, who is skipped without
\* a device.  How old the list of tokens is when it is sent depends on how long
\* the message waits.
Push(u, body) ==
  /\ pushed < MaxPush
  /\ DevicesOf(u) # {}
  /\ queue' = Append(queue, [user |-> u, tokens |-> DevicesOf(u), body |-> body])
  /\ pushed' = pushed + 1
  /\ UNCHANGED <<reg, dead, worker, pruned, faults>>

\* BRPop and the first half of the handler: a message that does not decode is
\* dropped, and so is every one when FCM is not configured.
Pop(w) ==
  LET s == worker[w]
      m == Head(queue)
  IN
  /\ s.pc = "pop"
  /\ queue # <<>>
  /\ queue' = Tail(queue)
  /\ SetWorker(w, IF m.body = "garbled" \/ ~s.kit.fcm THEN s
                  ELSE [s EXCEPT !.pc = "send", !.msg = m])
  /\ UNCHANGED <<reg, dead, pruned, pushed, faults>>

\* What FCM may answer for a token: the message refused means an invalid
\* argument for every token.
Answers(m, t) ==
  (IF m.body = "bad" \/ t \in dead THEN {"gone"} ELSE {"sent"})
  \cup {"failed"}

\* A slip: every token that was not reached is taken for gone.
GoneOrFailed(m, answer) == {t \in m.tokens : answer[t] # "sent"}

\* The tokens reported as unregistered or invalid.
Gone(m, answer) == {t \in m.tokens : answer[t] = "gone"}

\* fcmSender.Send: an answer for each token, or an error for the whole call
\* (among others when it names more tokens than FCM takes); then the message is
\* logged and dropped.
Send(w) ==
  LET s == worker[w] IN
  /\ s.pc = "send"
  /\ \/ /\ Cardinality(s.msg.tokens) > Limit
        /\ SetWorker(w, Free(s))
        /\ UNCHANGED faults
     \/ /\ Fault
        /\ SetWorker(w, Free(s))
     \/ /\ Cardinality(s.msg.tokens) <= Limit
        /\ \E answer \in [s.msg.tokens -> {"sent", "gone", "failed"}] :
             /\ \A t \in s.msg.tokens : answer[t] \in Answers(s.msg, t)
             /\ IF \E t \in s.msg.tokens : answer[t] = "failed" THEN Fault ELSE UNCHANGED faults
             /\ SetWorker(w, IF Gone(s.msg, answer) = {} THEN Free(s)
                             ELSE [s EXCEPT !.pc = "prune", !.gone = Gone(s.msg, answer)])
  /\ UNCHANGED <<reg, dead, queue, pruned, pushed>>

\* One token less to delete.
Shorten(s, t) ==
  IF s.gone = {t} THEN Free(s) ELSE [s EXCEPT !.gone = @ \ {t}]

\* A slip: the handler returns after the first token.
PruneOne(w, t) ==
  LET s == worker[w] IN
  /\ s.pc = "prune" /\ t \in s.gone
  /\ reg' = IF s.kit.mongo THEN reg \ {<<s.msg.user, t>>} ELSE reg
  /\ pruned' = IF s.kit.mongo THEN pruned \cup {<<s.msg.user, t, s.msg.body>>} ELSE pruned
  /\ SetWorker(w, Free(s))
  /\ UNCHANGED <<dead, queue, pushed, faults>>

\* DeleteByToken; an error is logged and the next token taken.
Prune(w, t) ==
  LET s == worker[w] IN
  /\ s.pc = "prune" /\ t \in s.gone
  /\ \/ /\ s.kit.mongo
        /\ reg' = reg \ {<<s.msg.user, t>>}
        /\ pruned' = pruned \cup {<<s.msg.user, t, s.msg.body>>}
        /\ UNCHANGED faults
     \/ /\ ~s.kit.mongo
        /\ UNCHANGED <<reg, pruned, faults>>
     \/ /\ s.kit.mongo /\ Fault
        /\ UNCHANGED <<reg, pruned>>
  /\ SetWorker(w, Shorten(s, t))
  /\ UNCHANGED <<dead, queue, pushed>>

\* The process dies, and what it was doing with it.
Crash(w) ==
  /\ worker[w].pc # "down"
  /\ Fault
  /\ SetWorker(w, [Free(worker[w]) EXCEPT !.pc = "down"])
  /\ UNCHANGED <<reg, dead, queue, pruned, pushed>>

\* Kubernetes starts a new process.
Restart(w) ==
  /\ worker[w].pc = "down"
  /\ \E k \in Kit : SetWorker(w, [worker[w] EXCEPT !.pc = "pop", !.kit = k])
  /\ UNCHANGED <<reg, dead, queue, pruned, pushed, faults>>

-----------------------------------------------------------------------------
Run(w) == Pop(w) \/ Send(w) \/ (\E t \in Token : Prune(w, t)) \/ Restart(w)

Next ==
  \/ \E u \in User, t \in Token : Register(u, t) \/ Unregister(u, t)
  \/ \E t \in Token : Die(t)
  \/ \E u \in User, body \in Body : Push(u, body)
  \/ \E w \in Worker : Run(w) \/ Crash(w)

Spec == Init /\ [][Next]_vars

\* A live process runs, and Kubernetes restarts one that died.
FairSpec == Spec /\ \A w \in Worker : WF_vars(Run(w))

-----------------------------------------------------------------------------
(***************************************************************************)
(* Properties.                                                             *)
(***************************************************************************)

\* Pruning costs no live device its registration: what a worker deletes is a
\* token that no app holds any more, however long ago the list of tokens was
\* read and whatever users registered since; the exception is a message that
\* FCM refuses as such (worker-push, the loop over result.Unregistered).
PrunedOnlyDead ==
  \A p \in pruned : p[2] \in dead \/ p[3] = "bad"

\* A dead token of u is named by a message yet to be sent that FCM can take.
Doomed(u, t) ==
  LET Names(m) == /\ m.user = u /\ t \in m.tokens
                  /\ m.body # "garbled" /\ Cardinality(m.tokens) <= Limit
  IN
  /\ t \in dead
  /\ \/ \E k \in DOMAIN queue : Names(queue[k])
     \/ \E w \in Worker : worker[w].pc = "send" /\ Names(worker[w].msg)

\* A dead token does not stay registered once something is pushed to it: the
\* next message prunes it, next to live tokens of the same user and although
\* the user may register others meanwhile, as long as nothing fails and every
\* process has what it needs (worker-push logs and gives up when it has not).
DeadTokensLeave ==
  \A u \in User, t \in Token :
     Doomed(u, t) ~> \/ <<u, t>> \notin reg
                     \/ faults > 0
                     \/ \E w \in Worker : ~(worker[w].kit.fcm /\ worker[w].kit.mongo)
=============================================================================
