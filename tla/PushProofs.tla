----------------------------- MODULE PushProofs -----------------------------
(***************************************************************************)
(* Proofs about PushWorker, for any users, tokens, workers, equipment and  *)
(* number of failures.                                                *)
(***************************************************************************)
EXTENDS PushWorker, TLAPS

\* A token a worker is about to delete is dead, or the message was refused.
\* Tokens do not come back to life, so this outlasts the time between FCM's
\* answer and the deletion.
GoneForGood(s) == \A t \in s.gone : t \in dead \/ s.msg.body = "bad"

PInv ==
  /\ TypeOK
  /\ \A w \in Worker : GoneForGood(worker[w])
  /\ PrunedOnlyDead

-----------------------------------------------------------------------------
\* A worker's state as TypeOK wants it.
StateOK(s) ==
  /\ s \in WorkerState
  /\ s.pc \in {"send", "prune"} <=> s.msg # NoMessage
  /\ s.pc = "prune" <=> s.gone # {}

LEMMA TypeByWorker ==
  TypeOK <=> /\ reg \subseteq User \X Token
             /\ dead \subseteq Token
             /\ queue \in Seq(Message)
             /\ worker \in [Worker -> WorkerState]
             /\ \A w \in Worker : StateOK(worker[w])
             /\ pruned \subseteq User \X Token \X {"good", "bad", "garbled"}
             /\ pushed \in 0 .. MaxPush
             /\ faults \in 0 .. MaxFaults
BY DEF TypeOK, StateOK

LEMMA FaultsBounded ==
  ASSUME PInv, Fault \/ UNCHANGED faults
  PROVE  faults' \in 0 .. MaxFaults
BY PushAssumption DEF Fault, PInv, TypeOK

LEMMA MessageIsOne ==
  ASSUME NEW m \in Message
  PROVE  m # NoMessage
<1>1. m.user # Nil
  BY PushAssumption DEF Message
<1> QED
  BY <1>1 DEF NoMessage

LEMMA FreeOK ==
  ASSUME NEW s \in WorkerState
  PROVE  StateOK(Free(s)) /\ GoneForGood(Free(s)) /\ Free(s).gone = {}
         /\ Free(s).pc = "pop" /\ Free(s).msg = NoMessage
BY DEF WorkerState, Free, StateOK, GoneForGood

\* One worker moves to a state that is right, the rest is as before.
LEMMA WorkerMoves ==
  ASSUME PInv, NEW w \in Worker, NEW s, StateOK(s), GoneForGood(s),
         SetWorker(w, s), UNCHANGED dead
  PROVE  /\ worker' \in [Worker -> WorkerState]
         /\ \A v \in Worker : StateOK(worker'[v]) /\ GoneForGood(worker[v])'
<1>1. /\ worker \in [Worker -> WorkerState]
      /\ \A v \in Worker : StateOK(worker[v]) /\ GoneForGood(worker[v])
  BY TypeByWorker DEF PInv
<1>2. s \in WorkerState
  BY DEF StateOK
<1>3. worker' \in [Worker -> WorkerState]
  BY <1>1, <1>2 DEF SetWorker
<1>4. ASSUME NEW v \in Worker
      PROVE  StateOK(worker'[v]) /\ GoneForGood(worker[v])'
  <2>1. CASE v = w
    <3>1. worker'[v] = s
      BY <2>1, <1>1 DEF SetWorker
    <3> QED
      BY <3>1 DEF GoneForGood
  <2>2. CASE v # w
    <3>1. worker'[v] = worker[v]
      BY <2>2, <1>1 DEF SetWorker
    <3> QED
      BY <3>1, <1>1 DEF GoneForGood
  <2> QED
    BY <2>1, <2>2
<1> QED
  BY <1>3, <1>4

-----------------------------------------------------------------------------
(***************************************************************************)
(* Every step keeps the invariant.                                         *)
(***************************************************************************)
LEMMA PushInit == Init => PInv
<1> SUFFICES ASSUME Init PROVE PInv
  OBVIOUS
<1>1. \A w \in Worker : worker[w] \in {[pc |-> "pop", msg |-> NoMessage, gone |-> {}, kit |-> k] : k \in Kit}
  BY DEF Init
<1>2. worker \in [Worker -> WorkerState]
  BY PushAssumption DEF Init, WorkerState
<1>3. \A w \in Worker : worker[w].pc = "pop" /\ worker[w].msg = NoMessage /\ worker[w].gone = {}
  BY <1>1
<1>4. TypeOK
  BY <1>2, <1>3, PushAssumption DEF Init, TypeOK
<1> QED
  BY <1>3, <1>4 DEF Init, PInv, GoneForGood, PrunedOnlyDead

\* Steps of the world around the workers.
LEMMA WorldKeeps ==
  ASSUME PInv, UNCHANGED <<worker, pruned, faults>>,
         reg' \subseteq User \X Token, dead \subseteq dead', dead' \subseteq Token,
         queue' \in Seq(Message), pushed' \in 0 .. MaxPush
  PROVE  PInv'
BY DEF PInv, TypeOK, GoneForGood, PrunedOnlyDead

LEMMA EnqueueKeeps ==
  ASSUME PInv, NEW u \in User, NEW body \in Body, Push(u, body)
  PROVE  PInv'
<1>1. [user |-> u, tokens |-> DevicesOf(u), body |-> body] \in Message
  BY PushAssumption DEF Message, DevicesOf
<1>2. queue' \in Seq(Message)
  BY <1>1 DEF Push, PInv, TypeOK
<1>3. pushed' \in 0 .. MaxPush
  BY PushAssumption DEF Push, PInv, TypeOK
<1> QED
  BY <1>2, <1>3, WorldKeeps DEF Push, PInv, TypeOK

LEMMA PopKeeps ==
  ASSUME PInv, NEW w \in Worker, Pop(w)
  PROVE  PInv'
<1> DEFINE s == worker[w]
           m == Head(queue)
           n == IF m.body = "garbled" \/ ~s.kit.fcm THEN s
                ELSE [s EXCEPT !.pc = "send", !.msg = m]
<1>1. /\ StateOK(s) /\ GoneForGood(s) /\ s \in WorkerState
      /\ queue \in Seq(Message) /\ queue # <<>> /\ s.pc = "pop"
  BY TypeByWorker DEF PInv, Pop
<1>2. m \in Message /\ Tail(queue) \in Seq(Message) /\ m # NoMessage
  BY <1>1, MessageIsOne
<1>3. s.gone = {}
  BY <1>1 DEF StateOK
<1>4. StateOK(n) /\ GoneForGood(n)
  BY <1>1, <1>2, <1>3 DEF StateOK, WorkerState, GoneForGood
<1>5. SetWorker(w, n) /\ UNCHANGED dead
  BY DEF Pop
<1> HIDE DEF n
<1>6. /\ worker' \in [Worker -> WorkerState]
      /\ \A v \in Worker : StateOK(worker'[v]) /\ GoneForGood(worker[v])'
  BY <1>4, <1>5, WorkerMoves
<1> QED
  BY <1>2, <1>6 DEF Pop, PInv, TypeOK, StateOK, PrunedOnlyDead

LEMMA SendKeeps ==
  ASSUME PInv, NEW w \in Worker, Send(w)
  PROVE  PInv'
<1> DEFINE s == worker[w]
<1>1. StateOK(s) /\ s \in WorkerState /\ s.pc = "send" /\ s.msg \in Message
  BY TypeByWorker DEF PInv, Send, StateOK, WorkerState
<1>2. UNCHANGED <<reg, dead, queue, pruned, pushed>>
  BY DEF Send
<1>2a. faults' \in 0 .. MaxFaults
  <2>1. Fault \/ UNCHANGED faults
    BY Zenon DEF Send
  <2> QED
    BY <2>1, FaultsBounded
<1>3. ASSUME NEW n, StateOK(n), GoneForGood(n), SetWorker(w, n)
      PROVE  PInv'
  <2>1. /\ worker' \in [Worker -> WorkerState]
        /\ \A v \in Worker : StateOK(worker'[v]) /\ GoneForGood(worker[v])'
    BY <1>2, <1>3, WorkerMoves
  <2> QED
    BY <1>2, <1>2a, <2>1 DEF PInv, TypeOK, StateOK, PrunedOnlyDead
<1>4. CASE SetWorker(w, Free(s))
  BY <1>1, <1>3, <1>4, FreeOK
<1>5. ASSUME NEW answer \in [s.msg.tokens -> {"sent", "gone", "failed"}],
             \A t \in s.msg.tokens : answer[t] \in Answers(s.msg, t),
             Gone(s.msg, answer) # {},
             SetWorker(w, [s EXCEPT !.pc = "prune", !.gone = Gone(s.msg, answer)])
      PROVE  PInv'
  <2> DEFINE g == Gone(s.msg, answer)
             n == [s EXCEPT !.pc = "prune", !.gone = g]
  <2>1. g \subseteq s.msg.tokens /\ \A t \in g : t \in dead \/ s.msg.body = "bad"
    BY <1>5 DEF Gone, Answers
  <2>2. g \subseteq Token /\ g # {}
    BY <1>1, <1>5, <2>1 DEF Message
  <2> HIDE DEF g
  <2>3. /\ n \in WorkerState /\ n.pc = "prune" /\ n.gone = g
        /\ n.msg = s.msg /\ n.msg # NoMessage
    BY <1>1, <2>2, MessageIsOne DEF WorkerState
  <2>4. StateOK(n)
    BY <2>2, <2>3 DEF StateOK
  <2>5. GoneForGood(n)
    BY <2>1, <2>3 DEF GoneForGood
  <2>6. SetWorker(w, n)
    BY <1>5 DEF g
  <2> HIDE DEF n
  <2> QED
    BY <2>4, <2>5, <2>6, <1>3
<1> QED
  BY <1>4, <1>5 DEF Send

LEMMA PruneKeeps ==
  ASSUME PInv, NEW w \in Worker, NEW t \in Token, Prune(w, t)
  PROVE  PInv'
<1> DEFINE s == worker[w]
           n == Shorten(s, t)
<1>1. /\ StateOK(s) /\ GoneForGood(s) /\ s \in WorkerState
      /\ s.pc = "prune" /\ t \in s.gone /\ s.msg \in Message
  BY TypeByWorker DEF PInv, Prune, StateOK, WorkerState
<1>2. StateOK(n) /\ GoneForGood(n)
  <2>1. CASE s.gone = {t}
    BY <2>1, <1>1, FreeOK DEF Shorten
  <2>2. CASE s.gone # {t}
    <3>1. s.gone \ {t} # {}
      BY <2>2, <1>1
    <3>2. n = [s EXCEPT !.gone = s.gone \ {t}]
      BY <2>2 DEF Shorten
    <3>3. /\ n \in WorkerState /\ n.pc = s.pc /\ n.msg = s.msg
          /\ n.gone = s.gone \ {t}
      BY <3>2, <1>1 DEF WorkerState
    <3> QED
      BY <3>1, <3>3, <1>1 DEF StateOK, GoneForGood
  <2> QED
    BY <2>1, <2>2
<1>3. SetWorker(w, n) /\ UNCHANGED <<dead, queue, pushed>>
  BY DEF Prune
<1> HIDE DEF n
<1>4. /\ worker' \in [Worker -> WorkerState]
      /\ \A v \in Worker : StateOK(worker'[v]) /\ GoneForGood(worker[v])'
  BY <1>2, <1>3, WorkerMoves
<1>5. /\ reg' \subseteq reg
      /\ pruned' \subseteq pruned \cup {<<s.msg.user, t, s.msg.body>>}
  BY DEF Prune
<1>6. <<s.msg.user, t, s.msg.body>> \in User \X Token \X {"good", "bad", "garbled"}
  BY <1>1 DEF Message
<1>7. t \in dead \/ s.msg.body = "bad"
  BY <1>1 DEF GoneForGood
<1>8. PrunedOnlyDead'
  BY <1>3, <1>5, <1>7 DEF PInv, PrunedOnlyDead
<1>9. faults' \in 0 .. MaxFaults
  BY FaultsBounded DEF Prune
<1> QED
  BY <1>3, <1>4, <1>5, <1>6, <1>8, <1>9 DEF PInv, TypeOK, StateOK

LEMMA CrashKeeps ==
  ASSUME PInv, NEW w \in Worker, Crash(w) \/ Restart(w)
  PROVE  PInv'
<1>1. StateOK(worker[w]) /\ worker[w] \in WorkerState
  BY TypeByWorker DEF PInv, StateOK
<1>2. ASSUME Crash(w)
      PROVE  PInv'
  <2> DEFINE n == [Free(worker[w]) EXCEPT !.pc = "down"]
  <2>1. StateOK(n) /\ GoneForGood(n)
    BY <1>1 DEF WorkerState, Free, StateOK, GoneForGood
  <2>2. SetWorker(w, n) /\ UNCHANGED <<reg, dead, queue, pruned, pushed>>
    BY <1>2 DEF Crash
  <2>3. faults' \in 0 .. MaxFaults
    BY <1>2, FaultsBounded DEF Crash
  <2> HIDE DEF n
  <2>4. /\ worker' \in [Worker -> WorkerState]
        /\ \A v \in Worker : StateOK(worker'[v]) /\ GoneForGood(worker[v])'
    BY <2>1, <2>2, WorkerMoves
  <2> QED
    BY <2>2, <2>3, <2>4 DEF PInv, TypeOK, StateOK, PrunedOnlyDead
<1>3. ASSUME Restart(w)
      PROVE  PInv'
  <2>1. PICK k \in Kit : SetWorker(w, [worker[w] EXCEPT !.pc = "pop", !.kit = k])
    BY <1>3 DEF Restart
  <2> DEFINE n == [worker[w] EXCEPT !.pc = "pop", !.kit = k]
  <2>2. worker[w].pc = "down" /\ worker[w].gone = {} /\ worker[w].msg = NoMessage
    BY <1>1, <1>3 DEF Restart, StateOK
  <2>3. k \in [fcm : BOOLEAN, mongo : BOOLEAN]
    BY PushAssumption
  <2>4. StateOK(n) /\ GoneForGood(n)
    BY <1>1, <2>2, <2>3 DEF WorkerState, StateOK, GoneForGood
  <2>5. SetWorker(w, n) /\ UNCHANGED <<reg, dead, queue, pruned, pushed, faults>>
    BY <1>3, <2>1 DEF Restart
  <2> HIDE DEF n
  <2>6. /\ worker' \in [Worker -> WorkerState]
        /\ \A v \in Worker : StateOK(worker'[v]) /\ GoneForGood(worker[v])'
    BY <2>4, <2>5, WorkerMoves
  <2> QED
    BY <2>5, <2>6 DEF PInv, TypeOK, StateOK, PrunedOnlyDead
<1> QED
  BY <1>2, <1>3

LEMMA PushStep ==
  ASSUME PInv, [Next]_vars
  PROVE  PInv'
<1>1. ASSUME NEW u \in User, NEW t \in Token, Register(u, t) \/ Unregister(u, t)
      PROVE  PInv'
  BY <1>1, WorldKeeps DEF Register, Unregister, PInv, TypeOK
<1>2. ASSUME NEW t \in Token, Die(t)
      PROVE  PInv'
  BY <1>2, WorldKeeps DEF Die, PInv, TypeOK
<1>3. ASSUME NEW u \in User, NEW body \in Body, Push(u, body)
      PROVE  PInv'
  BY <1>3, EnqueueKeeps
<1>4. ASSUME NEW w \in Worker, Run(w) \/ Crash(w)
      PROVE  PInv'
  BY <1>4, PopKeeps, SendKeeps, PruneKeeps, CrashKeeps DEF Run
<1>5. ASSUME UNCHANGED vars
      PROVE  PInv'
  BY <1>5, WorldKeeps DEF vars, PInv, TypeOK
<1> QED
  BY <1>1, <1>2, <1>3, <1>4, <1>5 DEF Next

-----------------------------------------------------------------------------
(***************************************************************************)
(* The theorems.                                                           *)
(***************************************************************************)

\* The inductive invariant holds in every behaviour.
THEOREM PushInductive == Spec => []PInv
<1>1. Init => PInv
  BY PushInit
<1>2. PInv /\ [Next]_vars => PInv'
  BY PushStep
<1> QED
  BY <1>1, <1>2, PTL DEF Spec

\* Every variable keeps its type.
THEOREM PushTyped == Spec => []TypeOK
<1>1. PInv => TypeOK
  BY DEF PInv
<1> QED
  BY <1>1, PushInductive, PTL

\* Pruning costs no live device its registration, but for a message that FCM
\* refuses as such.
THEOREM PruningIsSafe == Spec => []PrunedOnlyDead
<1>1. PInv => PrunedOnlyDead
  BY DEF PInv
<1> QED
  BY <1>1, PushInductive, PTL
=============================================================================
