--------------------------- MODULE DispatchProofs ---------------------------
(***************************************************************************)
(* Proofs about DispatchWorker, for any number of workers, messages,       *)
(* errors, crashes and stops.                                              *)
(***************************************************************************)
EXTENDS DispatchWorker, TLAPS

-----------------------------------------------------------------------------
(***************************************************************************)
(* The inductive invariant.                                                *)
(***************************************************************************)

\* A message a process holds is one it popped itself, in its present life and
\* later than anything else its worker popped.
Owned ==
  /\ \A w \in Worker : worker[w].msg # Nil =>
       /\ worker[w].msg \in DOMAIN taken
       /\ taken[worker[w].msg] = Me(w)
       /\ \A m \in DOMAIN taken :
            taken[m].by = w /\ m # worker[w].msg => m < worker[w].msg
  /\ \A m \in DOMAIN taken, w \in Worker :
       taken[m].by = w => taken[m].life <= worker[w].life

\* Where a message can be: a request is not published yet, nothing is
\* published twice, a message at hand has not been sent, and one being sent is
\* under way or published.
Placed ==
  /\ \A m \in air : ~Published(m)
  /\ \A k \in DOMAIN channel : channel[k] \in DOMAIN taken
  /\ \A k, l \in DOMAIN channel : channel[k] = channel[l] => k = l
  /\ \A w \in Worker : worker[w].pc = "handle" =>
       worker[w].msg \notin air /\ ~Published(worker[w].msg)
  /\ \A w \in Worker : worker[w].pc = "call" =>
       pushed[worker[w].msg] /\ (worker[w].msg \in air \/ Published(worker[w].msg))

\* What has been counted, and for which process.
Counted ==
  /\ \A w \in Worker : worker[w].msg \notin dispatched \cup failed \cup cut
  /\ \A m \in cut, w \in Worker :
       taken[m] = Me(w) => worker[w].sig /\ worker[w].pc \in {"loop", "down"}
  /\ StopCostsAtMostOne
  /\ CountedOnce

\* A message being sent, once published, is published after all its worker has
\* had confirmed.
Ordered ==
  /\ ConfirmedInOrder
  /\ \A w \in Worker, k, l \in DOMAIN channel :
       /\ worker[w].msg = channel[l]
       /\ channel[k] \in dispatched
       /\ taken[channel[k]].by = w
       => k < l

DInv == TypeOK /\ Owned /\ Placed /\ Counted /\ Ordered

-----------------------------------------------------------------------------
LEMMA InitInv == ASSUME Init PROVE DInv
<1>1. TypeOK
  BY WorkerAssumption DEF Init, TypeOK, PC
<1>2. Owned /\ Placed
  BY DEF Init, Owned, Placed
<1>3. Counted /\ Ordered
  BY DEF Init, Counted, Ordered, StopCostsAtMostOne, CountedOnce, ConfirmedInOrder
<1>. QED  BY <1>1, <1>2, <1>3 DEF DInv

\* A step of one worker: the others stay as they are.
LEMMA SetWorkerFacts ==
  ASSUME TypeOK, NEW w \in Worker, NEW s, SetWorker(w, s)
  PROVE  worker'[w] = s /\ \A x \in Worker \ {w} : worker'[x] = worker[x]
BY DEF SetWorker, TypeOK

LEMMA GotoFacts ==
  ASSUME TypeOK, NEW w \in Worker, NEW pc \in PC, Goto(w, pc)
  PROVE  /\ worker'[w].pc = pc /\ worker'[w].msg = Nil
         /\ worker'[w].sig = worker[w].sig /\ worker'[w].life = worker[w].life
         /\ \A x \in Worker \ {w} : worker'[x] = worker[x]
         /\ worker'[w] \in [pc : PC, msg : Message \cup {Nil}, sig : BOOLEAN, life : Nat]
<1>. DEFINE s == [worker[w] EXCEPT !.pc = pc, !.msg = Nil]
<1>1. worker[w] \in [pc : PC, msg : Message \cup {Nil}, sig : BOOLEAN, life : Nat]
  BY DEF TypeOK
<1>2. /\ s.pc = pc /\ s.msg = Nil /\ s.sig = worker[w].sig /\ s.life = worker[w].life
      /\ s \in [pc : PC, msg : Message \cup {Nil}, sig : BOOLEAN, life : Nat]
  BY <1>1
<1>. HIDE DEF s
<1>3. SetWorker(w, s)
  BY DEF Goto, s
<1>. QED  BY <1>2, <1>3, SetWorkerFacts

\* Different processes hold different messages.
LEMMA HeldOnce ==
  ASSUME TypeOK, Owned, NEW v \in Worker, NEW w \in Worker,
         worker[v].msg # Nil, worker[v].msg = worker[w].msg
  PROVE  v = w
<1>1. taken[worker[v].msg] = Me(v) /\ taken[worker[v].msg] = Me(w)
  BY DEF Owned
<1>2. Me(v).by = v /\ Me(w).by = w
  BY DEF Me
<1>. QED  BY <1>1, <1>2

LEMMA LifeFacts ==
  ASSUME TypeOK
  PROVE  \A m \in DOMAIN taken : taken[m].life \in Nat
<1>1. \A m \in DOMAIN taken : taken[m] \in Life
  BY DEF TypeOK
<1>. QED  BY <1>1 DEF Life

\* Me of every worker but w is what it was; that of w is too, in the same life.
LEMMA MeKept ==
  ASSUME NEW w \in Worker, worker'[w].life = worker[w].life,
         \A x \in Worker \ {w} : worker'[x] = worker[x]
  PROVE  \A x \in Worker : Me(x)' = Me(x)
BY DEF Me

-----------------------------------------------------------------------------
(***************************************************************************)
(* Each action preserves the invariant.                                    *)
(***************************************************************************)
\* A message more on the list, however long it is: the bound on pushes is the
\* runs' and nothing rests on it.
LEMMA PushedInv ==
  ASSUME DInv, NEW ok \in BOOLEAN, pushed' = Append(pushed, ok),
         UNCHANGED <<taken, worker, air, channel, dispatched, failed, cut, faults, stops>>
  PROVE  DInv'
<1>1. TypeOK'
  BY DEF DInv, TypeOK
<1>2. \A m \in DOMAIN taken : pushed'[m] = pushed[m]
  BY DEF DInv, TypeOK
<1>3. Owned'
  BY DEF DInv, Owned, Me
<1>4. Placed'
  BY <1>2 DEF DInv, TypeOK, Owned, Placed, Published
<1>5. Counted'
  BY <1>2 DEF DInv, Counted, StopCostsAtMostOne, CountedOnce, Published, Me, Up
<1>6. Ordered'
  BY DEF DInv, Ordered, ConfirmedInOrder
<1>. QED  BY <1>1, <1>3, <1>4, <1>5, <1>6 DEF DInv

LEMMA PushInv ==
  ASSUME DInv, NEW ok \in Payload, Push(ok)
  PROVE  DInv'
BY PushedInv, WorkerAssumption DEF Push

LEMMA SignalInv ==
  ASSUME DInv, NEW w \in Worker, Signal(w)
  PROVE  DInv'
<1>. DEFINE s == [worker[w] EXCEPT !.sig = TRUE]
<1>1. worker[w] \in [pc : PC, msg : Message \cup {Nil}, sig : BOOLEAN, life : Nat]
  BY DEF DInv, TypeOK
<1>2. /\ s.pc = worker[w].pc /\ s.msg = worker[w].msg /\ s.sig = TRUE
      /\ s.life = worker[w].life
      /\ s \in [pc : PC, msg : Message \cup {Nil}, sig : BOOLEAN, life : Nat]
  BY <1>1
<1>. HIDE DEF s
<1>3. worker'[w] = s /\ \A x \in Worker \ {w} : worker'[x] = worker[x]
  BY SetWorkerFacts DEF DInv, Signal, s
<1>4. /\ \A x \in Worker : worker'[x].pc = worker[x].pc /\ worker'[x].msg = worker[x].msg
                           /\ worker'[x].life = worker[x].life
                           /\ (worker[x].sig => worker'[x].sig)
      /\ \A x \in Worker : Me(x)' = Me(x)
  BY <1>2, <1>3, MeKept
<1>5. TypeOK'
  BY <1>2, <1>3, <1>4, WorkerAssumption DEF DInv, TypeOK, Signal, SetWorker, s
<1>6. Owned'
  BY <1>4 DEF DInv, Owned, Signal
<1>7. Placed'
  BY <1>4 DEF DInv, Placed, Signal, Published
<1>8. Counted'
  BY <1>4 DEF DInv, Counted, Signal, StopCostsAtMostOne, CountedOnce, Published, Up
<1>9. Ordered'
  BY <1>4 DEF DInv, Ordered, Signal, ConfirmedInOrder
<1>. QED  BY <1>5, <1>6, <1>7, <1>8, <1>9 DEF DInv

\* A process that holds nothing moves on.
LEMMA IdleInv ==
  ASSUME DInv, NEW w \in Worker, NEW pc \in {"loop", "pop", "down"},
         worker[w].pc \in {"loop", "pop", "down"}, Goto(w, pc),
         worker[w].pc = "loop" /\ worker[w].sig => pc = "down",
         worker[w].pc # "down" \/ pc = "down",
         faults' \in 0 .. MaxFaults,
         UNCHANGED <<pushed, taken, air, channel, dispatched, failed, cut, stops>>
  PROVE  DInv'
<1>1. /\ worker'[w].pc = pc /\ worker'[w].msg = Nil
      /\ worker'[w].sig = worker[w].sig /\ worker'[w].life = worker[w].life
      /\ \A x \in Worker \ {w} : worker'[x] = worker[x]
      /\ worker'[w] \in [pc : PC, msg : Message \cup {Nil}, sig : BOOLEAN, life : Nat]
  BY GotoFacts DEF DInv, PC
<1>2. worker[w].msg = Nil /\ Nil \notin Message
  BY WorkerAssumption DEF DInv, TypeOK, Message
<1>3. \A x \in Worker : Me(x)' = Me(x)
  BY <1>1, MeKept
<1>4. TypeOK'
  BY <1>1 DEF DInv, TypeOK, Goto, SetWorker
<1>5. Owned'
  BY <1>1, <1>2, <1>3 DEF DInv, Owned
<1>6. Placed'
  BY <1>1 DEF DInv, Placed, Published
<1>7. Counted'
  <2>1. \A m \in cut, x \in Worker :
           taken[m] = Me(x) => worker'[x].sig /\ worker'[x].pc \in {"loop", "down"}
    BY <1>1 DEF DInv, Counted
  <2>2. CountedOnce'
    BY <1>1, <1>2, <1>3 DEF DInv, Counted, CountedOnce, Published, Up
  <2>. QED  BY <1>1, <1>2, <1>3, <2>1, <2>2 DEF DInv, Counted, StopCostsAtMostOne
<1>8. Ordered'
  BY <1>1, <1>2 DEF DInv, Ordered, ConfirmedInOrder
<1>. QED  BY <1>4, <1>5, <1>6, <1>7, <1>8 DEF DInv

\* A pop whose reply is lost is nobody's, and its caller asks again or ends.
LEMMA PopLostInv ==
  ASSUME DInv, NEW w \in Worker, NEW pc \in {"pop", "down"},
         worker[w].pc = "pop", Goto(w, pc), Waiting, taken' = Append(taken, Nobody),
         UNCHANGED <<pushed, air, channel, dispatched, failed, cut, stops>>,
         faults' \in 0 .. MaxFaults
  PROVE  DInv'
<1>1. taken \in Seq(Life) /\ Nobody \in Life /\ Nobody.by \notin Worker
  BY WorkerAssumption DEF DInv, TypeOK, Nobody, Life
<1>2. /\ taken' \in Seq(Life) /\ Len(taken') = Len(taken) + 1
      /\ DOMAIN taken \subseteq DOMAIN taken'
      /\ \A m \in DOMAIN taken : taken'[m] = taken[m]
      /\ \A m \in DOMAIN taken' : m \in DOMAIN taken \/ taken'[m].by \notin Worker
  BY <1>1
<1>3. /\ worker'[w].pc = pc /\ worker'[w].msg = Nil
      /\ worker'[w].sig = worker[w].sig /\ worker'[w].life = worker[w].life
      /\ \A x \in Worker \ {w} : worker'[x] = worker[x]
      /\ worker'[w] \in [pc : PC, msg : Message \cup {Nil}, sig : BOOLEAN, life : Nat]
  BY GotoFacts DEF DInv, PC
<1>4. worker[w].msg = Nil
  BY DEF DInv, TypeOK
<1>5. /\ \A x \in Worker : Me(x)' = Me(x) /\ Me(x).by = x
      /\ \A x \in Worker : worker'[x].msg = worker[x].msg /\ worker'[x].life = worker[x].life
      /\ \A x \in Worker : worker'[x].pc # "down" => worker'[x].pc = worker[x].pc
  BY <1>3, <1>4, MeKept DEF Me
<1>6. TypeOK'
  <2>1. Len(taken') <= Len(pushed')
    BY <1>1, <1>2 DEF DInv, TypeOK, Waiting
  <2>2. worker' \in [Worker -> [pc : PC, msg : Message \cup {Nil}, sig : BOOLEAN, life : Nat]]
    BY <1>3 DEF DInv, TypeOK, Goto, SetWorker
  <2>3. \A x \in Worker : worker'[x].msg # Nil <=> worker'[x].pc \in {"handle", "call"}
    BY <1>3 DEF DInv, TypeOK
  <2>. QED  BY <1>2, <2>1, <2>2, <2>3 DEF DInv, TypeOK
<1>7. Owned'
  BY <1>2, <1>5 DEF DInv, Owned
<1>8. Placed'
  BY <1>2, <1>5 DEF DInv, Placed, Published
<1>9. Counted'
  <2>1. cut \subseteq DOMAIN taken
    BY DEF DInv, TypeOK
  <2>2. StopCostsAtMostOne'
    BY <1>2, <2>1 DEF DInv, Counted, StopCostsAtMostOne
  <2>3. CountedOnce'
    BY <1>2, <1>5 DEF DInv, Counted, CountedOnce, Published, Up
  <2>4. \A m \in cut, x \in Worker :
           taken'[m] = Me(x)' => worker'[x].sig /\ worker'[x].pc \in {"loop", "down"}
    BY <1>2, <1>3, <1>5, <2>1 DEF DInv, Counted
  <2>. QED  BY <1>5, <2>2, <2>3, <2>4 DEF DInv, Counted
<1>10. Ordered'
  <2>1. \A k \in DOMAIN channel : channel[k] \in DOMAIN taken
    BY DEF DInv, Placed
  <2>. QED  BY <1>2, <1>5, <2>1 DEF DInv, Ordered, ConfirmedInOrder
<1>. QED  BY <1>6, <1>7, <1>8, <1>9, <1>10 DEF DInv

LEMMA PopInv ==
  ASSUME DInv, NEW w \in Worker, Pop(w)
  PROVE  DInv'
<1>. DEFINE m == Len(taken) + 1
            s == [worker[w] EXCEPT !.pc = "handle", !.msg = m]
<1>1. /\ worker[w] \in [pc : PC, msg : Message \cup {Nil}, sig : BOOLEAN, life : Nat]
      /\ taken \in Seq(Life) /\ Me(w) \in Life /\ m \in Message /\ m # Nil
      /\ worker[w].msg = Nil /\ worker[w].pc = "pop" /\ Nil \notin Message
  <2>1. worker[w] \in [pc : PC, msg : Message \cup {Nil}, sig : BOOLEAN, life : Nat]
        /\ taken \in Seq(Life)
    BY DEF DInv, TypeOK
  <2>2. worker[w].pc = "pop" /\ worker[w].msg = Nil
    BY DEF DInv, TypeOK, Pop
  <2>3. Me(w) \in Life
    BY <2>1 DEF Me, Life
  <2>. QED  BY <2>1, <2>2, <2>3, WorkerAssumption DEF Message
<1>2. /\ s.pc = "handle" /\ s.msg = m /\ s.sig = worker[w].sig /\ s.life = worker[w].life
      /\ s \in [pc : PC, msg : Message \cup {Nil}, sig : BOOLEAN, life : Nat]
  BY <1>1 DEF PC
<1>. HIDE DEF s
<1>3. worker'[w] = s /\ \A x \in Worker \ {w} : worker'[x] = worker[x]
  BY SetWorkerFacts DEF DInv, Pop, s
<1>4. \A x \in Worker : Me(x)' = Me(x) /\ Me(x).by = x
  BY <1>2, <1>3, MeKept DEF Me
<1>5. /\ taken' \in Seq(Life) /\ DOMAIN taken' = DOMAIN taken \cup {m}
      /\ m \notin DOMAIN taken /\ taken'[m] = Me(w)
      /\ \A x \in DOMAIN taken : taken'[x] = taken[x] /\ x < m
      /\ Len(taken') = m
  BY <1>1 DEF Pop
<1>. HIDE DEF m
<1>6. UNCHANGED <<pushed, air, channel, dispatched, failed, cut, faults, stops>>
  BY DEF Pop
<1>7. TypeOK'
  <2>1. Len(taken') <= Len(pushed')
    BY <1>1, <1>5, <1>6 DEF DInv, TypeOK, Waiting, Pop, m
  <2>2. worker' \in [Worker -> [pc : PC, msg : Message \cup {Nil}, sig : BOOLEAN, life : Nat]]
    BY <1>2 DEF DInv, TypeOK, Pop, SetWorker, s, m
  <2>3. \A x \in Worker : worker'[x].msg # Nil <=> worker'[x].pc \in {"handle", "call"}
    BY <1>1, <1>2, <1>3 DEF DInv, TypeOK
  <2>. QED  BY <1>5, <1>6, <2>1, <2>2, <2>3 DEF DInv, TypeOK
<1>8. Owned'
  <2>1. \A x \in Worker : worker'[x].msg # Nil =>
           /\ worker'[x].msg \in DOMAIN taken'
           /\ taken'[worker'[x].msg] = Me(x)'
           /\ \A n \in DOMAIN taken' :
                taken'[n].by = x /\ n # worker'[x].msg => n < worker'[x].msg
    <3>1. CASE worker[w].msg = Nil
      BY <1>1, <1>2, <1>3, <1>4, <1>5 DEF DInv, Owned
    <3>. QED  BY <1>1, <3>1
  <2>2. \A n \in DOMAIN taken', x \in Worker :
           taken'[n].by = x => taken'[n].life <= worker'[x].life
    <3>1. Me(w).life = worker[w].life /\ worker[w].life \in Nat
      BY <1>1 DEF Me
    <3>. QED  BY <1>2, <1>3, <1>4, <1>5, <3>1 DEF DInv, Owned
  <2>. QED  BY <2>1, <2>2 DEF Owned
<1>9. Placed'
  <2>1. m \notin air /\ ~Published(m)
    BY <1>5 DEF DInv, TypeOK, Placed, Published
  <2>. QED  BY <1>2, <1>3, <1>5, <1>6, <2>1 DEF DInv, Placed, Published
<1>10. Counted'
  <2>1. cut \cup dispatched \cup failed \subseteq DOMAIN taken
    BY DEF DInv, TypeOK
  <2>2. StopCostsAtMostOne'
    BY <1>5, <1>6, <2>1 DEF DInv, Counted, StopCostsAtMostOne
  <2>3. CountedOnce'
    <3>1. \A n \in DOMAIN taken', x \in Worker :
             taken'[n] = Me(x)' /\ Up(x)' /\ worker'[x].msg # n /\ pushed'[n]
             => n \in dispatched' \cup failed'
      <4>. SUFFICES ASSUME NEW n \in DOMAIN taken', NEW x \in Worker,
                           taken'[n] = Me(x)', Up(x)', worker'[x].msg # n, pushed'[n]
                    PROVE  n \in dispatched' \cup failed'
        OBVIOUS
      <4>1. n # m
        BY <1>2, <1>3, <1>4, <1>5
      <4>2. taken[n] = Me(x) /\ n \in DOMAIN taken /\ pushed[n]
        BY <1>4, <1>5, <1>6, <4>1
      <4>3. Up(x) /\ worker[x].msg # n
        <5>1. CASE x = w
          <6>1. n \in Nat
            BY <1>1, <4>2
          <6>. QED  BY <1>1, <5>1, <6>1, WorkerAssumption DEF Up
        <5>2. CASE x # w
          BY <1>3, <5>2 DEF Up
        <5>. QED  BY <5>1, <5>2
      <4>. QED  BY <1>6, <4>2, <4>3 DEF DInv, Counted, CountedOnce
    <3>. QED  BY <1>6, <3>1 DEF DInv, Counted, CountedOnce, Published
  <2>4. \A n \in cut, x \in Worker :
           taken'[n] = Me(x)' => worker'[x].sig /\ worker'[x].pc \in {"loop", "down"}
    <3>1. worker[w].pc = "pop"
      BY DEF Pop
    <3>. QED  BY <1>2, <1>3, <1>4, <1>5, <2>1, <3>1 DEF DInv, Counted
  <2>5. \A x \in Worker : worker'[x].msg \notin dispatched \cup failed \cup cut
    BY <1>2, <1>3, <1>5, <2>1 DEF DInv, Counted
  <2>. QED  BY <1>6, <2>2, <2>3, <2>4, <2>5 DEF Counted
<1>11. Ordered'
  <2>1. \A k \in DOMAIN channel : channel[k] \in DOMAIN taken /\ channel[k] # m
    BY <1>5 DEF DInv, Placed
  <2>. QED  BY <1>2, <1>3, <1>5, <1>6, <2>1 DEF DInv, Ordered, ConfirmedInOrder
<1>. QED  BY <1>7, <1>8, <1>9, <1>10, <1>11 DEF DInv

\* The handler sends the request.
LEMMA SendInv ==
  ASSUME DInv, NEW w \in Worker, worker[w].pc = "handle", pushed[worker[w].msg],
         air' = air \cup {worker[w].msg},
         SetWorker(w, [worker[w] EXCEPT !.pc = "call"]),
         UNCHANGED <<pushed, taken, channel, dispatched, failed, cut, faults, stops>>
  PROVE  DInv'
<1>. DEFINE m == worker[w].msg
            s == [worker[w] EXCEPT !.pc = "call"]
<1>1. /\ worker[w] \in [pc : PC, msg : Message \cup {Nil}, sig : BOOLEAN, life : Nat]
      /\ m # Nil /\ m \in DOMAIN taken
  BY DEF DInv, TypeOK, Owned
<1>2. /\ s.pc = "call" /\ s.msg = m /\ s.sig = worker[w].sig /\ s.life = worker[w].life
      /\ s \in [pc : PC, msg : Message \cup {Nil}, sig : BOOLEAN, life : Nat]
  BY <1>1 DEF PC
<1>. HIDE DEF s
<1>3. worker'[w] = s /\ \A x \in Worker \ {w} : worker'[x] = worker[x]
  BY SetWorkerFacts DEF DInv, s
<1>4. \A x \in Worker : Me(x)' = Me(x) /\ worker'[x].msg = worker[x].msg
                        /\ worker'[x].life = worker[x].life
                        /\ worker'[x].sig = worker[x].sig
  BY <1>2, <1>3, MeKept
<1>5. TypeOK'
  <2>1. worker' \in [Worker -> [pc : PC, msg : Message \cup {Nil}, sig : BOOLEAN, life : Nat]]
    BY <1>2 DEF DInv, TypeOK, SetWorker, s
  <2>2. \A x \in Worker : worker'[x].msg # Nil <=> worker'[x].pc \in {"handle", "call"}
    BY <1>1, <1>2, <1>3 DEF DInv, TypeOK
  <2>. QED  BY <1>1, <2>1, <2>2 DEF DInv, TypeOK
<1>6. Owned'
  BY <1>4 DEF DInv, Owned
<1>7. Placed'
  <2>1. ~Published(m) /\ m \notin air
    BY DEF DInv, Placed
  <2>2. \A x \in Worker \ {w} : worker[x].pc = "handle" => worker[x].msg # m
    BY <1>1, HeldOnce DEF DInv, TypeOK
  <2>3. \A x \in Worker : worker'[x].pc = "handle" => x # w /\ worker'[x] = worker[x]
    BY <1>2, <1>3
  <2>4. \A x \in Worker : worker'[x].pc = "call" =>
           pushed[worker'[x].msg] /\ (worker'[x].msg \in air' \/ Published(worker'[x].msg))
    BY <1>2, <1>3 DEF DInv, Placed
  <2>. QED  BY <2>1, <2>2, <2>3, <2>4 DEF DInv, Placed, Published
<1>8. Counted'
  <2>1. CountedOnce'
    BY <1>2, <1>3, <1>4 DEF DInv, Counted, CountedOnce, Published, Up
  <2>2. \A n \in cut : taken[n] # Me(w)
    BY DEF DInv, Counted
  <2>3. \A n \in cut, x \in Worker :
           taken[n] = Me(x)' => worker'[x].sig /\ worker'[x].pc \in {"loop", "down"}
    BY <1>3, <1>4, <2>2 DEF DInv, Counted
  <2>. QED  BY <1>4, <2>1, <2>3 DEF DInv, Counted, StopCostsAtMostOne
<1>9. Ordered'
  BY <1>4 DEF DInv, Ordered, ConfirmedInOrder
<1>. QED  BY <1>5, <1>6, <1>7, <1>8, <1>9 DEF DInv

LEMMA ApplyInv ==
  ASSUME DInv, NEW m \in air, Apply(m)
  PROVE  DInv'
<1>1. channel \in Seq(Message) /\ m \in DOMAIN taken /\ m \in Message
  BY DEF DInv, TypeOK, Message
<1>2. /\ channel' \in Seq(Message) /\ DOMAIN channel' = 1 .. Len(channel) + 1
      /\ Len(channel) \in Nat /\ DOMAIN channel = 1 .. Len(channel)
      /\ channel'[Len(channel) + 1] = m
      /\ \A k \in DOMAIN channel : k \in DOMAIN channel' /\ channel'[k] = channel[k]
  BY <1>1 DEF Apply
<1>3. UNCHANGED <<pushed, taken, worker, dispatched, failed, cut, faults, stops>>
      /\ air' = air \ {m}
  BY DEF Apply
<1>4. /\ ~Published(m) /\ Published(m)'
      /\ \A n : Published(n)' <=> Published(n) \/ n = m
  BY <1>2 DEF DInv, Placed, Published
<1>5. \A w \in Worker : Me(w)' = Me(w) /\ (Up(w)' <=> Up(w))
  BY <1>3 DEF Me, Up
<1>6. TypeOK'
  BY <1>2, <1>3 DEF DInv, TypeOK
<1>7. Owned'
  BY <1>3, <1>5 DEF DInv, Owned
<1>8. Placed'
  <2>1. \A k \in DOMAIN channel' : channel'[k] \in DOMAIN taken
    BY <1>1, <1>2 DEF DInv, Placed
  <2>2. \A k, l \in DOMAIN channel' : channel'[k] = channel'[l] => k = l
    BY <1>2, <1>4 DEF DInv, Placed, Published
  <2>3. \A w \in Worker : worker[w].pc = "handle" => worker[w].msg # m
    BY DEF DInv, Placed
  <2>. QED  BY <1>3, <1>4, <2>1, <2>2, <2>3 DEF DInv, Placed
<1>9. Counted'
  BY <1>3, <1>4, <1>5 DEF DInv, Counted, StopCostsAtMostOne, CountedOnce
<1>10. Ordered'
  <2>1. m \notin dispatched
    BY <1>4 DEF DInv, Counted, CountedOnce
  <2>. DEFINE end == Len(channel) + 1
  <2>2. \A k \in DOMAIN channel' : k \in DOMAIN channel \/ (k = end /\ channel'[k] = m)
    BY <1>2
  <2>3. \A k \in DOMAIN channel : k < end
    BY <1>2
  <2>. HIDE DEF end
  <2>4. ConfirmedInOrder'
    BY <1>2, <1>3, <2>1, <2>2 DEF DInv, Ordered, ConfirmedInOrder
  <2>5. \A w \in Worker, k, l \in DOMAIN channel' :
           worker[w].msg = channel'[l] /\ channel'[k] \in dispatched
           /\ taken[channel'[k]].by = w => k < l
    BY <1>2, <2>1, <2>2, <2>3 DEF DInv, Ordered
  <2>. QED  BY <1>3, <2>4, <2>5 DEF Ordered
<1>. QED  BY <1>6, <1>7, <1>8, <1>9, <1>10 DEF DInv

\* A process is done with the message it held, in whatever way.
LEMMA ReleaseInv ==
  ASSUME DInv, NEW w \in Worker, worker[w].pc \in {"handle", "call"},
         NEW pc \in {"loop", "down"}, Goto(w, pc),
         UNCHANGED <<pushed, taken, channel>>,
         air' \subseteq air, air \ air' \subseteq {worker[w].msg},
         dispatched' \in {dispatched, dispatched \cup {worker[w].msg}},
         failed' \in {failed, failed \cup {worker[w].msg}},
         cut' \in {cut, cut \cup {worker[w].msg}},
         worker[w].msg \in dispatched' =>
           Published(worker[w].msg) /\ worker[w].msg \notin failed',
         worker[w].msg \in cut' => worker[w].sig /\ pc = "loop",
         pc = "loop" /\ pushed[worker[w].msg] =>
           worker[w].msg \in dispatched' \cup failed',
         faults' \in 0 .. MaxFaults, stops' = stops
  PROVE  DInv'
<1>. DEFINE m == worker[w].msg
<1>1. /\ worker'[w].pc = pc /\ worker'[w].msg = Nil
      /\ worker'[w].sig = worker[w].sig /\ worker'[w].life = worker[w].life
      /\ \A x \in Worker \ {w} : worker'[x] = worker[x]
      /\ worker'[w] \in [pc : PC, msg : Message \cup {Nil}, sig : BOOLEAN, life : Nat]
  BY GotoFacts DEF DInv, PC
<1>2. /\ m # Nil /\ m \in DOMAIN taken /\ taken[m] = Me(w)
      /\ \A n \in DOMAIN taken : taken[n].by = w /\ n # m => n < m
      /\ m \notin dispatched \cup failed \cup cut
      /\ Nil \notin Message /\ DOMAIN taken \subseteq Message
  BY WorkerAssumption DEF DInv, TypeOK, Owned, Counted, Message
<1>3. \A x \in Worker : Me(x)' = Me(x) /\ Me(x).by = x
  BY <1>1, MeKept DEF Me
<1>4. \A x \in Worker \ {w} : worker[x].msg # m
  BY <1>2, HeldOnce DEF DInv
<1>. HIDE DEF m
<1>5. TypeOK'
  <2>1. worker' \in [Worker -> [pc : PC, msg : Message \cup {Nil}, sig : BOOLEAN, life : Nat]]
    BY <1>1 DEF DInv, TypeOK, Goto, SetWorker
  <2>2. \A x \in Worker : worker'[x].msg # Nil <=> worker'[x].pc \in {"handle", "call"}
    BY <1>1 DEF DInv, TypeOK
  <2>3. air' \cup dispatched' \cup failed' \cup cut' \subseteq DOMAIN taken
    BY <1>2 DEF DInv, TypeOK, m
  <2>. QED  BY <2>1, <2>2, <2>3 DEF DInv, TypeOK
<1>6. Owned'
  <2>1. \A x \in Worker : worker'[x].msg # Nil => x # w /\ worker'[x] = worker[x]
    BY <1>1
  <2>2. \A x \in Worker : worker'[x].life = worker[x].life
    BY <1>1
  <2>. QED  BY <1>3, <2>1, <2>2 DEF DInv, Owned
<1>7. Placed'
  <2>1. \A x \in Worker : worker'[x].pc \in {"handle", "call"} =>
           x # w /\ worker'[x] = worker[x] /\ worker[x].msg # m
    BY <1>1, <1>4
  <2>. QED  BY <2>1 DEF DInv, Placed, Published, m
<1>8. Counted'
  <2>1. \A x \in Worker : worker'[x].msg \notin dispatched' \cup failed' \cup cut'
    <3>1. Nil \notin dispatched' \cup failed' \cup cut'
      BY <1>2, <1>5 DEF TypeOK
    <3>2. \A x \in Worker \ {w} : worker[x].msg \notin dispatched' \cup failed' \cup cut'
      BY <1>4 DEF DInv, Counted, m
    <3>. QED  BY <1>1, <3>1, <3>2
  <2>2. \A n \in cut', x \in Worker :
           taken[n] = Me(x) => worker'[x].sig /\ worker'[x].pc \in {"loop", "down"}
    <3>. SUFFICES ASSUME NEW n \in cut', NEW x \in Worker, taken[n] = Me(x)
                  PROVE  worker'[x].sig /\ worker'[x].pc \in {"loop", "down"}
      OBVIOUS
    <3>1. CASE n = m
      <4>1. x = w
        BY <1>2, <1>3, <3>1
      <4>. QED  BY <1>1, <3>1, <4>1 DEF m
    <3>2. CASE n # m
      <4>1. n \in cut
        BY <3>2 DEF m
      <4>2. worker[x].sig /\ worker[x].pc \in {"loop", "down"}
        BY <4>1 DEF DInv, Counted
      <4>. QED  BY <1>1, <4>2
    <3>. QED  BY <3>1, <3>2
  <2>3. StopCostsAtMostOne'
    <3>1. \A n \in cut : taken[n] # Me(w)
      BY DEF DInv, Counted
    <3>. QED  BY <1>2, <3>1 DEF DInv, Counted, StopCostsAtMostOne, m
  <2>4. \A n \in DOMAIN taken, x \in Worker :
           taken[n] = Me(x) /\ worker'[x].pc # "down" /\ worker'[x].msg # n /\ pushed[n]
           => n \in dispatched' \cup failed'
    <3>. SUFFICES ASSUME NEW n \in DOMAIN taken, NEW x \in Worker, taken[n] = Me(x),
                         worker'[x].pc # "down", worker'[x].msg # n, pushed[n]
                  PROVE  n \in dispatched' \cup failed'
      OBVIOUS
    <3>1. CASE n = m
      <4>1. x = w
        BY <1>2, <1>3, <3>1
      <4>. QED  BY <1>1, <3>1, <4>1 DEF m
    <3>2. CASE n # m
      <4>1. worker[x].pc # "down" /\ worker[x].msg # n
        BY <1>1, <3>2 DEF m
      <4>. QED  BY <4>1 DEF DInv, Counted, CountedOnce, Up
    <3>. QED  BY <3>1, <3>2
  <2>5. dispatched' \cap failed' = {} /\ \A n \in dispatched' : Published(n)
    BY <1>2 DEF DInv, Counted, CountedOnce, m
  <2>6. CountedOnce'
    BY <1>3, <2>4, <2>5 DEF CountedOnce, Published, Up
  <2>. QED  BY <1>3, <2>1, <2>2, <2>3, <2>6 DEF Counted
<1>9. Ordered'
  <2>1. \A k \in DOMAIN channel : channel[k] \in DOMAIN taken
    BY DEF DInv, Placed
  <2>2. \A k, l \in DOMAIN channel :
           k < l /\ channel[k] \in dispatched' /\ channel[l] \in dispatched'
           /\ taken[channel[k]].by = taken[channel[l]].by => channel[k] < channel[l]
    <3>. SUFFICES ASSUME NEW k \in DOMAIN channel, NEW l \in DOMAIN channel, k < l,
                         channel[k] \in dispatched', channel[l] \in dispatched',
                         taken[channel[k]].by = taken[channel[l]].by
                  PROVE  channel[k] < channel[l]
      OBVIOUS
    <3>0. k \in Nat /\ l \in Nat /\ taken[m].by = w
      BY <1>2, <1>3 DEF DInv, TypeOK
    <3>1. CASE channel[l] = m
      <4>1. channel[k] # m
        BY <3>0, <3>1 DEF DInv, Placed
      <4>. QED  BY <1>2, <2>1, <3>0, <3>1, <4>1
    <3>2. CASE channel[k] = m /\ channel[l] # m
      <4>1. channel[l] \in dispatched
        BY <3>2 DEF m
      <4>2. l < k
        BY <3>0, <3>2, <4>1 DEF DInv, Ordered, m
      <4>. QED  BY <3>0, <4>2
    <3>3. CASE channel[k] # m /\ channel[l] # m
      BY <3>3 DEF DInv, Ordered, ConfirmedInOrder, m
    <3>. QED  BY <3>1, <3>2, <3>3
  <2>3. \A x \in Worker, k, l \in DOMAIN channel :
           worker'[x].msg = channel[l] /\ channel[k] \in dispatched'
           /\ taken[channel[k]].by = x => k < l
    <3>. SUFFICES ASSUME NEW x \in Worker, NEW k \in DOMAIN channel, NEW l \in DOMAIN channel,
                         worker'[x].msg = channel[l], channel[k] \in dispatched',
                         taken[channel[k]].by = x
                  PROVE  k < l
      OBVIOUS
    <3>1. x # w
      BY <1>1, <1>2, <2>1
    <3>2. worker[x].msg = channel[l] /\ channel[k] # m
      BY <1>1, <1>2, <1>3, <3>1
    <3>. QED  BY <3>2 DEF DInv, Ordered, m
  <2>4. ConfirmedInOrder'
    BY <2>2 DEF ConfirmedInOrder
  <2>. QED  BY <2>3, <2>4 DEF Ordered
<1>. QED  BY <1>5, <1>6, <1>7, <1>8, <1>9 DEF DInv

LEMMA HandleInv ==
  ASSUME DInv, NEW w \in Worker, Handle(w)
  PROVE  DInv'
<1>1. CASE ~pushed[worker[w].msg]
  BY <1>1, ReleaseInv DEF Handle, DInv, TypeOK, Counted
<1>2. CASE pushed[worker[w].msg] /\ worker[w].sig
  <2>1. worker[w].msg \notin dispatched
    BY DEF DInv, Counted
  <2>. QED  BY <1>2, <2>1, ReleaseInv DEF Handle, DInv, TypeOK
<1>3. CASE pushed[worker[w].msg] /\ ~worker[w].sig
  BY <1>3, SendInv DEF Handle
<1>. QED  BY <1>1, <1>2, <1>3

LEMMA ReplyInv ==
  ASSUME DInv, NEW w \in Worker, Reply(w)
  PROVE  DInv'
<1>1. worker[w].msg \notin failed \cup cut
  BY DEF DInv, Counted
<1>. QED  BY <1>1, ReleaseInv DEF Reply, DInv, TypeOK

LEMMA FailInv ==
  ASSUME DInv, NEW w \in Worker, Fail(w)
  PROVE  DInv'
<1>1. worker[w].msg \notin dispatched \cup cut
  BY DEF DInv, Counted
<1>2. faults' \in 0 .. MaxFaults
  BY WorkerAssumption DEF Fail, DInv, TypeOK
<1>3. air' \subseteq air /\ air \ air' \subseteq {worker[w].msg}
  BY DEF Fail, Abandon
<1>. QED  BY <1>1, <1>2, <1>3, ReleaseInv DEF Fail

LEMMA CrashInv ==
  ASSUME DInv, NEW w \in Worker, Crash(w)
  PROVE  DInv'
<1>1. faults' \in 0 .. MaxFaults
  BY WorkerAssumption DEF Crash, DInv, TypeOK
<1>2. air' \subseteq air /\ air \ air' \subseteq {worker[w].msg}
  BY DEF Crash, Abandon
<1>3. CASE worker[w].pc \in {"handle", "call"}
  <2>1. worker[w].msg \notin dispatched \cup failed \cup cut
    BY DEF DInv, Counted
  <2>. QED  BY <1>1, <1>2, <1>3, <2>1, ReleaseInv DEF Crash
<1>4. CASE worker[w].pc \notin {"handle", "call"}
  <2>1. worker[w].pc \in {"loop", "pop", "down"} /\ worker[w].pc # "down" /\ worker[w].msg = Nil
    BY <1>4 DEF Crash, Up, DInv, TypeOK, PC
  <2>2. Nil \notin air
    BY WorkerAssumption DEF DInv, TypeOK
  <2>. QED  BY <1>1, <1>2, <2>1, <2>2, IdleInv DEF Crash
<1>. QED  BY <1>3, <1>4

LEMMA PopErrorInv ==
  ASSUME DInv, NEW w \in Worker, PopError(w)
  PROVE  DInv'
<1>1. faults' \in 0 .. MaxFaults /\ worker[w].pc = "pop"
  BY WorkerAssumption DEF PopError, DInv, TypeOK
<1>2. PICK pc \in {"pop", "down"} : Goto(w, pc)
  BY DEF PopError
<1>3. CASE taken' = taken
  BY <1>1, <1>2, <1>3, IdleInv DEF PopError
<1>4. CASE Waiting /\ taken' = Append(taken, Nobody)
  BY <1>1, <1>2, <1>4, PopLostInv DEF PopError
<1>. QED  BY <1>3, <1>4 DEF PopError

LEMMA RestartInv ==
  ASSUME DInv, NEW w \in Worker, Restart(w)
  PROVE  DInv'
<1>. DEFINE s == [pc |-> "loop", msg |-> Nil, sig |-> FALSE, life |-> worker[w].life + 1]
<1>1. worker[w].life \in Nat /\ worker[w].msg = Nil /\ Nil \notin Message
  BY WorkerAssumption DEF DInv, TypeOK, Restart, Message
<1>2. worker'[w] = s /\ \A x \in Worker \ {w} : worker'[x] = worker[x]
  BY SetWorkerFacts DEF DInv, Restart
<1>3. /\ s.pc = "loop" /\ s.msg = Nil /\ s.life = worker[w].life + 1
      /\ s \in [pc : PC, msg : Message \cup {Nil}, sig : BOOLEAN, life : Nat]
  BY <1>1 DEF PC
<1>4. UNCHANGED <<pushed, taken, air, channel, dispatched, failed, cut, faults, stops>>
  BY DEF Restart
<1>5. TypeOK'
  BY <1>2, <1>3, <1>4 DEF DInv, TypeOK, Restart, SetWorker
<1>. HIDE DEF s
<1>6. \A x \in Worker \ {w} : Me(x)' = Me(x)
  BY <1>2 DEF Me
<1>7. \A m \in DOMAIN taken : taken[m] # Me(w)'
  <2>1. Me(w)'.by = w /\ Me(w)'.life = worker[w].life + 1
    BY <1>2, <1>3 DEF Me
  <2>2. \A m \in DOMAIN taken : taken[m].by = w => taken[m].life <= worker[w].life
    BY DEF DInv, Owned
  <2>3. \A m \in DOMAIN taken : taken[m].life \in Nat
    BY LifeFacts DEF DInv
  <2>. QED  BY <1>1, <2>1, <2>2, <2>3
<1>8. Owned'
  <2>1. \A m \in DOMAIN taken, x \in Worker :
           taken[m].by = x => taken[m].life <= worker'[x].life
    <3>1. \A m \in DOMAIN taken : taken[m].life \in Nat
      BY LifeFacts DEF DInv
    <3>. QED  BY <1>1, <1>2, <1>3, <3>1 DEF DInv, Owned
  <2>. QED  BY <1>2, <1>3, <1>4, <1>6, <2>1 DEF DInv, Owned
<1>9. Placed'
  BY <1>2, <1>3, <1>4 DEF DInv, Placed, Published
<1>10. Counted'
  <2>1. cut \subseteq DOMAIN taken /\ Nil \notin dispatched \cup failed \cup cut
    BY <1>1, WorkerAssumption DEF DInv, TypeOK
  <2>2. CountedOnce'
    BY <1>2, <1>4, <1>6, <1>7 DEF DInv, Counted, CountedOnce, Published, Up
  <2>3. \A m \in cut, x \in Worker :
           taken[m] = Me(x)' => worker'[x].sig /\ worker'[x].pc \in {"loop", "down"}
    BY <1>2, <1>6, <1>7, <2>1 DEF DInv, Counted
  <2>. QED  BY <1>2, <1>3, <1>4, <2>1, <2>2, <2>3 DEF DInv, Counted, StopCostsAtMostOne
<1>11. Ordered'
  <2>1. \A k \in DOMAIN channel : channel[k] # Nil
    BY <1>1 DEF DInv, TypeOK
  <2>. QED  BY <1>2, <1>3, <1>4, <2>1 DEF DInv, Ordered, ConfirmedInOrder
<1>. QED  BY <1>5, <1>8, <1>9, <1>10, <1>11 DEF DInv

LEMMA NextInv ==
  ASSUME DInv, [Next]_vars
  PROVE  DInv'
<1>1. CASE UNCHANGED vars
  <2>1. UNCHANGED <<TypeOK, Owned, Placed>>
    BY <1>1 DEF vars, TypeOK, Owned, Placed, Published, Me
  <2>2. UNCHANGED <<Counted, Ordered>>
    BY <1>1 DEF vars, Counted, Ordered, StopCostsAtMostOne, CountedOnce,
                ConfirmedInOrder, Published, Me, Up
  <2>. QED  BY <2>1, <2>2 DEF DInv
<1>2. ASSUME NEW w \in Worker, Poll(w) \/ PopTimeout(w)
      PROVE  DInv'
  <2>1. faults \in 0 .. MaxFaults
    BY DEF DInv, TypeOK
  <2>2. CASE Poll(w)
    BY <2>1, <2>2, IdleInv DEF Poll
  <2>3. CASE PopTimeout(w)
    BY <2>1, <2>3, IdleInv DEF PopTimeout
  <2>. QED  BY <1>2, <2>2, <2>3
<1>3. ASSUME NEW w \in Worker,
             Pop(w) \/ Handle(w) \/ Reply(w) \/ Restart(w) \/ Signal(w)
             \/ PopError(w) \/ Fail(w) \/ Crash(w)
      PROVE  DInv'
  BY <1>3, PopInv, HandleInv, ReplyInv, RestartInv, SignalInv, PopErrorInv,
     FailInv, CrashInv
<1>4. ASSUME NEW ok \in Payload, Push(ok)  PROVE DInv'
  BY <1>4, PushInv
<1>5. ASSUME NEW m \in air, Apply(m)  PROVE DInv'
  BY <1>5, ApplyInv
<1>. QED  BY <1>1, <1>2, <1>3, <1>4, <1>5 DEF Next, Run

-----------------------------------------------------------------------------
(***************************************************************************)
(* The theorems.                                                           *)
(***************************************************************************)

\* The inductive invariant holds in every state.
THEOREM Inductive == Spec => []DInv
BY InitInv, NextInv, PTL DEF Spec

\* Types, and that a process holds a message exactly while it handles one.
THEOREM WorkerTyped == Spec => []TypeOK
<1>1. DInv => TypeOK
  BY DEF DInv
<1>. QED  BY <1>1, Inductive, PTL

\* Stopping a process costs at most one message (Consume's check of the
\* context, and the publish under the cancelled context).
THEOREM StopCosts == Spec => []StopCostsAtMostOne
<1>1. DInv => StopCostsAtMostOne
  BY DEF DInv, Counted
<1>. QED  BY <1>1, Inductive, PTL

\* The two counters miss no message a live process has finished with, and
\* count none twice (the handler of cmd/worker-dispatch).
THEOREM CountsAreRight == Spec => []CountedOnce
<1>1. DInv => CountedOnce
  BY DEF DInv, Counted
<1>. QED  BY <1>1, Inductive, PTL

\* What one worker publishes successfully keeps the order of the list.
THEOREM InOrder == Spec => []ConfirmedInOrder
<1>1. DInv => ConfirmedInOrder
  BY DEF DInv, Ordered
<1>. QED  BY <1>1, Inductive, PTL

-----------------------------------------------------------------------------
(***************************************************************************)
(* The worker implements the abstract queue: every step sends, delivers or *)
(* loses one message, or none.                                             *)
(***************************************************************************)

\* A message newly lost was pending.
LEMMA LoseStep ==
  ASSUME DInv, NEW m \in DOMAIN taken, m \notin Lost, ~Published(m),
         Lost' = Lost \cup {m}, UNCHANGED <<pushed, channel>>
  PROVE  Abstract!Next
<1>1. m \in 1 .. Len(pushed)
  BY DEF DInv, TypeOK
<1>2. Abstract!Lose(m)
  BY <1>1 DEF Abstract!Lose, Abstract!Pending, Published
<1>. QED  BY <1>1, <1>2 DEF Abstract!Next

\* What a step that leaves the channel alone does to Lost: a message is lost
\* when its process lets it go and its request is not under way.
LEMMA LetGo ==
  ASSUME DInv, NEW w \in Worker, NEW m, m = worker[w].msg, worker'[w].msg = Nil,
         \A x \in Worker \ {w} : worker'[x].msg = worker[x].msg,
         UNCHANGED <<pushed, taken, channel>>,
         air' \subseteq air, air \ air' \subseteq {worker[w].msg}
  PROVE  Abstract!Next \/ UNCHANGED Abstract!vars
<1>0. Nil \notin DOMAIN taken
  BY WorkerAssumption DEF DInv, TypeOK
<1>1. \A n \in DOMAIN taken : n # m => (Held(n)' <=> Held(n)) /\ (n \in air' <=> n \in air)
  BY <1>0 DEF Held
<1>2. \A n : Published(n)' <=> Published(n)
  BY DEF Published
<1>3. m \in DOMAIN taken => Held(m) /\ ~Held(m)' /\ m \notin Lost
  <2>1. m \in DOMAIN taken => \A x \in Worker \ {w} : worker[x].msg # m
    BY <1>0, HeldOnce DEF DInv
  <2>. QED  BY <1>0, <2>1 DEF Held, Lost
<1>4. CASE m \in DOMAIN taken /\ m \notin air' /\ ~Published(m)
  <2>1. Lost' = Lost \cup {m}
    BY <1>1, <1>2, <1>3, <1>4 DEF Lost
  <2>. QED  BY <1>3, <1>4, <2>1, LoseStep
<1>5. CASE ~(m \in DOMAIN taken /\ m \notin air' /\ ~Published(m))
  <2>1. Lost' = Lost
    BY <1>1, <1>2, <1>3, <1>5 DEF Lost
  <2>. QED  BY <2>1 DEF Abstract!vars
<1>. QED  BY <1>4, <1>5

\* Steps that move no message.
LEMMA NothingMoves ==
  ASSUME \A x \in Worker : worker'[x].msg = worker[x].msg,
         UNCHANGED <<pushed, taken, channel, air>>
  PROVE  UNCHANGED Abstract!vars
<1>1. \A n : (Held(n)' <=> Held(n)) /\ (Published(n)' <=> Published(n))
  BY DEF Held, Published
<1>2. Lost' = Lost
  BY <1>1 DEF Lost
<1>. QED  BY <1>2 DEF Abstract!vars

\* A pop takes the next message, for a process or for nobody.
LEMMA PopMoves ==
  ASSUME DInv, NEW w \in Worker, worker[w].msg = Nil, Waiting,
         NEW m, m = Len(taken) + 1,
         NEW r \in Life, taken' = Append(taken, r),
         worker'[w].msg \in {Nil, m},
         \A x \in Worker \ {w} : worker'[x].msg = worker[x].msg,
         UNCHANGED <<pushed, channel, air>>
  PROVE  Abstract!Next \/ UNCHANGED Abstract!vars
<1>1. /\ DOMAIN taken' = DOMAIN taken \cup {m} /\ m \notin DOMAIN taken
      /\ m \in 1 .. Len(pushed)
  BY DEF DInv, TypeOK, Waiting
<1>2. /\ m \notin air /\ ~Published(m) /\ m \notin Lost
      /\ \A x \in Worker : worker[x].msg # m
  <2>1. \A x \in Worker : worker[x].msg # m
    BY <1>1, WorkerAssumption DEF DInv, Owned, TypeOK
  <2>. QED  BY <1>1, <2>1 DEF DInv, TypeOK, Placed, Published, Lost
<1>3. m # Nil /\ Nil \notin DOMAIN taken
  BY WorkerAssumption DEF DInv, TypeOK
<1>4. /\ \A n \in DOMAIN taken : Held(n)' <=> Held(n)
      /\ \A n : Published(n)' <=> Published(n)
  BY <1>1, <1>3 DEF Held, Published
<1>5. CASE worker'[w].msg = m
  <2>1. Held(m)'
    BY <1>5 DEF Held
  <2>2. Lost' = Lost
    BY <1>1, <1>4, <2>1 DEF Lost
  <2>. QED  BY <2>2 DEF Abstract!vars
<1>6. CASE worker'[w].msg = Nil
  <2>1. ~Held(m)'
    BY <1>2, <1>3, <1>6 DEF Held
  <2>2. Lost' = Lost \cup {m}
    BY <1>1, <1>2, <1>4, <2>1 DEF Lost
  <2>3. Abstract!Lose(m)
    BY <1>1, <1>2, <2>2 DEF Abstract!Lose, Abstract!Pending, Published
  <2>. QED  BY <1>1, <2>3 DEF Abstract!Next
<1>. QED  BY <1>5, <1>6

\* The handler sends its message: it is under way now.
LEMMA SendMoves ==
  ASSUME DInv, NEW w \in Worker, worker[w].msg # Nil,
         \A x \in Worker : worker'[x].msg = worker[x].msg,
         air' = air \cup {worker[w].msg}, UNCHANGED <<pushed, taken, channel>>
  PROVE  UNCHANGED Abstract!vars
<1>1. /\ \A n : (Held(n)' <=> Held(n)) /\ (Published(n)' <=> Published(n))
      /\ Held(worker[w].msg)
  BY DEF Held, Published
<1>2. Lost' = Lost
  BY <1>1 DEF Lost
<1>. QED  BY <1>2 DEF Abstract!vars

\* Centrifugo publishes a message that was under way.
LEMMA ApplyMoves ==
  ASSUME DInv, NEW m \in air, Apply(m)
  PROVE  Abstract!Next
<1>1. m \in DOMAIN taken /\ m \in 1 .. Len(pushed) /\ ~Published(m) /\ m \notin Lost
  BY DEF DInv, TypeOK, Placed, Lost
<1>2. channel \in Seq(Message) /\ channel' = Append(channel, m)
      /\ UNCHANGED <<pushed, taken, worker>> /\ air' = air \ {m}
  BY DEF DInv, TypeOK, Apply
<1>3. m \in Message
  BY <1>1 DEF Message
<1>4. \A n : (Published(n)' <=> Published(n) \/ n = m) /\ (Held(n)' <=> Held(n))
  BY <1>2, <1>3 DEF Published, Held
<1>5. Lost' = Lost
  BY <1>1, <1>2, <1>4 DEF Lost
<1>6. Abstract!Deliver(m)
  BY <1>1, <1>2, <1>5 DEF Abstract!Deliver, Abstract!Pending, Published
<1>. QED  BY <1>1, <1>6 DEF Abstract!Next

\* A message more on the list is a message sent.
LEMMA PushedMoves ==
  ASSUME DInv, NEW ok \in BOOLEAN, pushed' = Append(pushed, ok),
         UNCHANGED <<taken, worker, air, channel>>
  PROVE  Abstract!Next
<1>1. Len(pushed') = Len(pushed) + 1
  BY DEF DInv, TypeOK
<1>2. Lost' = Lost
  BY DEF Lost, Held, Published
<1>. QED  BY <1>1, <1>2 DEF Abstract!Next, Abstract!Send

LEMMA NextMoves ==
  ASSUME DInv, [Next]_vars
  PROVE  Abstract!Next \/ UNCHANGED Abstract!vars
<1>0. /\ \A w \in Worker : worker[w].msg # Nil <=> worker[w].pc \in {"handle", "call"}
      /\ TypeOK
  BY DEF DInv, TypeOK
<1>1. CASE UNCHANGED vars
  BY <1>1, NothingMoves DEF vars
<1>2. ASSUME NEW ok \in Payload, Push(ok)
      PROVE  Abstract!Next
  BY <1>2, PushedMoves, WorkerAssumption DEF Push
<1>3. ASSUME NEW w \in Worker, Handle(w) \/ Reply(w) \/ Fail(w) \/ Crash(w)
      PROVE  Abstract!Next \/ UNCHANGED Abstract!vars
  <2>0. UNCHANGED <<pushed, taken, channel>>
    BY <1>3 DEF Handle, Reply, Fail, Crash
  <2>1. ASSUME NEW pc \in PC, Goto(w, pc),
               air' \subseteq air, air \ air' \subseteq {worker[w].msg}
        PROVE  Abstract!Next \/ UNCHANGED Abstract!vars
    <3>1. worker'[w].msg = Nil /\ \A x \in Worker \ {w} : worker'[x].msg = worker[x].msg
      BY <1>0, <2>1, GotoFacts
    <3>. QED  BY <2>0, <2>1, <3>1, LetGo
  <2>2. CASE /\ SetWorker(w, [worker[w] EXCEPT !.pc = "call"])
             /\ worker[w].pc = "handle" /\ air' = air \cup {worker[w].msg}
    <3>1. \A x \in Worker : worker'[x].msg = worker[x].msg
      <4>1. worker[w] \in [pc : PC, msg : Message \cup {Nil}, sig : BOOLEAN, life : Nat]
        BY <1>0 DEF TypeOK
      <4>. QED  BY <1>0, <2>2, <4>1, SetWorkerFacts
    <3>2. worker[w].msg # Nil
      BY <1>0, <2>2
    <3>. QED  BY <2>0, <2>2, <3>1, <3>2, SendMoves
  <2>3. "loop" \in PC /\ "down" \in PC
    BY DEF PC
  <2>4. CASE Handle(w)
    BY <2>1, <2>2, <2>3, <2>4 DEF Handle
  <2>5. CASE Reply(w)
    BY <2>1, <2>3, <2>5 DEF Reply
  <2>6. CASE Fail(w) \/ Crash(w)
    BY <2>1, <2>3, <2>6 DEF Fail, Crash, Abandon
  <2>. QED  BY <1>3, <2>4, <2>5, <2>6
<1>4. ASSUME NEW w \in Worker, Poll(w) \/ PopTimeout(w) \/ Signal(w) \/ Restart(w)
      PROVE  UNCHANGED Abstract!vars
  <2>1. \A x \in Worker : worker'[x].msg = worker[x].msg
    <3>1. CASE Poll(w) \/ PopTimeout(w)
      <4>1. worker[w].msg = Nil /\ \E pc \in PC : Goto(w, pc)
        BY <1>0, <3>1 DEF Poll, PopTimeout, PC
      <4>. QED  BY <1>0, <4>1, GotoFacts
    <3>2. CASE Signal(w)
      <4>1. worker[w] \in [pc : PC, msg : Message \cup {Nil}, sig : BOOLEAN, life : Nat]
        BY <1>0 DEF TypeOK
      <4>. QED  BY <1>0, <3>2, <4>1, SetWorkerFacts DEF Signal
    <3>3. CASE Restart(w)
      <4>1. worker[w].msg = Nil
        BY <1>0, <3>3 DEF Restart
      <4>. QED  BY <1>0, <3>3, <4>1, SetWorkerFacts DEF Restart
    <3>. QED  BY <1>4, <3>1, <3>2, <3>3
  <2>. QED  BY <1>4, <2>1, NothingMoves DEF Poll, PopTimeout, Signal, Restart
<1>5. ASSUME NEW w \in Worker, Pop(w)
      PROVE  Abstract!Next \/ UNCHANGED Abstract!vars
  <2>1. worker[w].msg = Nil /\ Me(w) \in Life
        /\ worker[w] \in [pc : PC, msg : Message \cup {Nil}, sig : BOOLEAN, life : Nat]
    BY <1>0, <1>5 DEF Pop, TypeOK, Me, Life
  <2>2. /\ worker'[w].msg = Len(taken) + 1
        /\ \A x \in Worker \ {w} : worker'[x].msg = worker[x].msg
    <3>. DEFINE s == [worker[w] EXCEPT !.pc = "handle", !.msg = Len(taken) + 1]
    <3>1. s.msg = Len(taken) + 1
      BY <2>1
    <3>. HIDE DEF s
    <3>2. worker'[w] = s /\ \A x \in Worker \ {w} : worker'[x] = worker[x]
      BY <1>0, <1>5, SetWorkerFacts DEF Pop, s
    <3>. QED  BY <3>1, <3>2
  <2>. QED  BY <1>5, <2>1, <2>2, PopMoves DEF Pop
<1>6. ASSUME NEW w \in Worker, PopError(w)
      PROVE  Abstract!Next \/ UNCHANGED Abstract!vars
  <2>1. worker[w].msg = Nil /\ Nobody \in Life
    BY <1>0, <1>6 DEF PopError, Nobody, Life
  <2>2. /\ worker'[w].msg = Nil
        /\ \A x \in Worker \ {w} : worker'[x].msg = worker[x].msg
    BY <1>0, <1>6, GotoFacts DEF PopError, PC
  <2>3. CASE taken' = taken
    BY <1>6, <2>1, <2>2, <2>3, NothingMoves DEF PopError
  <2>4. CASE Waiting /\ taken' = Append(taken, Nobody)
    BY <1>6, <2>1, <2>2, <2>4, PopMoves DEF PopError
  <2>. QED  BY <1>6, <2>3, <2>4 DEF PopError
<1>7. ASSUME NEW m \in air, Apply(m)
      PROVE  Abstract!Next
  BY <1>7, ApplyMoves
<1>. QED  BY <1>1, <1>2, <1>3, <1>4, <1>5, <1>6, <1>7 DEF Next, Run

\* The dispatch worker delivers at most once: it implements AtMostOnce, for
\* any number of workers, errors, crashes and stops.
THEOREM Implements == Spec => DeliversAtMostOnce
<1>1. Init => Abstract!Init
  BY DEF Init, Abstract!Init, Lost
<1>2. DInv /\ [Next]_vars => [Abstract!Next]_(Abstract!vars)
  BY NextMoves
<1>. QED  BY <1>1, <1>2, Inductive, PTL DEF Spec, DeliversAtMostOnce, Abstract!Spec
=============================================================================
