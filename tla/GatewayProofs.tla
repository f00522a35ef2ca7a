--------------------------- MODULE GatewayProofs ---------------------------
(***************************************************************************)
(* Proofs about Gateway, for every rate, burst, interval and length of a   *)
(* behaviour.                                                              *)
(***************************************************************************)
EXTENDS Gateway, TLAPS

\* Whole intervals in a stretch of time.
Whole(t) == t \div Interval

\* One user's bucket b against the hits h since the start of the window and
\* the time p of the last pass.  A bucket last filled before the window has
\* added nothing in it, and holds what is left of at most Burst; if anything
\* passed in the window, that was less than an interval after the filling.
Fits(b, h, p) ==
  /\ b.lastFill <= now
  /\ p \in Nat /\ b.lastFill <= p /\ p <= now
  /\ now < from => h = 0
  /\ b.lastFill < from =>
       /\ h + b.tokens <= Burst
       /\ h > 0 => from < b.lastFill + Interval
  /\ from <= b.lastFill =>
       h + b.tokens <= Burst + Rate * (Whole(b.lastFill - from) + 1)

UserOK(u) ==
  IF bucket[u] = Nil THEN hits[u] = 0 ELSE Fits(bucket[u], hits[u], lastPass[u])

GInv ==
  /\ TypeOK
  /\ \A u \in User : UserOK(u)
  /\ NeverStarved

LEMMA WholeNat ==
  ASSUME NEW t \in Nat
  PROVE  /\ Whole(t) \in Nat
         /\ Whole(t) * Interval <= t
         /\ t < (Whole(t) + 1) * Interval
<1>. QED  BY GatewayAssumption, Z3 DEF Whole

\* The number of whole intervals is the only one that fits.
LEMMA WholeGreatest ==
  ASSUME NEW t \in Nat, NEW k \in Nat, k * Interval <= t
  PROVE  k <= Whole(t)
<1>1. k * Interval < (Whole(t) + 1) * Interval
  BY WholeNat, GatewayAssumption, Z3
<1>. QED  BY <1>1, WholeNat, GatewayAssumption, Z3

LEMMA RateMonotone ==
  ASSUME NEW a \in Nat, NEW b \in Nat, a <= b
  PROVE  Rate * a <= Rate * b
<1>. QED  BY GatewayAssumption, Z3

\* What a refill makes of a bucket: k whole intervals have passed.
LEMMA RefillType ==
  ASSUME now \in Nat, NEW b \in Bucket, b.lastFill <= now,
         NEW k, k = Whole(now - b.lastFill)
  PROVE  /\ Refill(b) \in Bucket
         /\ k = 0 => Refill(b) = b
         /\ k > 0 => /\ Refill(b).lastFill = now
                     /\ Refill(b).tokens > 0
                     /\ Refill(b).tokens <= b.tokens + Rate * k
<1>1. now - b.lastFill \in Nat /\ b.tokens \in 0 .. Burst /\ b.lastFill \in Nat
  BY DEF Bucket
<1>2. k \in Nat
  BY <1>1, WholeNat
<1>. DEFINE refill == k * Rate
<1>3. refill \in Nat /\ (k = 0 => refill = 0) /\ (k > 0 => refill > 0) /\ refill = Rate * k
  BY <1>2, GatewayAssumption, Z3
<1>4. Refill(b) = IF refill > 0
                  THEN [tokens |-> CapTokens(b.tokens + refill), lastFill |-> now]
                  ELSE b
  BY DEF Refill, Whole
<1>. HIDE DEF refill
<1>5. /\ CapTokens(b.tokens + refill) \in 0 .. Burst
      /\ CapTokens(b.tokens + refill) <= b.tokens + refill
      /\ refill > 0 => CapTokens(b.tokens + refill) > 0
  BY <1>1, <1>3, GatewayAssumption DEF CapTokens
<1>. QED  BY <1>1, <1>2, <1>3, <1>4, <1>5 DEF Bucket

\* A publish that passes leaves the bucket in order: the heart of the bound.
LEMMA PassFits ==
  ASSUME now \in Nat, from \in Nat, NEW b \in Bucket, NEW h \in Nat, NEW p,
         Fits(b, h, p), Refill(b).tokens > 0,
         NEW r, r = [Refill(b) EXCEPT !.tokens = @ - 1],
         NEW i, i = IF now >= from THEN h + 1 ELSE h
  PROVE  r \in Bucket /\ Fits(r, i, now)
<1>. DEFINE k == Whole(now - b.lastFill)
<1>1. /\ b.lastFill <= now /\ b.lastFill \in Nat /\ b.tokens \in 0 .. Burst
      /\ now - b.lastFill \in Nat /\ k \in Nat
  BY WholeNat DEF Fits, Bucket
<1>2. /\ Refill(b) \in Bucket
      /\ k = 0 => Refill(b) = b
      /\ k > 0 => /\ Refill(b).lastFill = now
                  /\ Refill(b).tokens > 0
                  /\ Refill(b).tokens <= b.tokens + Rate * k
  BY <1>1, RefillType
<1>3. k * Interval <= now - b.lastFill /\ now - b.lastFill < (k + 1) * Interval
  BY <1>1, WholeNat
<1>4. /\ r \in Bucket
      /\ r.tokens = Refill(b).tokens - 1
      /\ r.lastFill = Refill(b).lastFill
  BY <1>2, GatewayAssumption DEF Bucket
<1>. HIDE DEF k
<1>5. CASE k = 0
  <2>1. r.lastFill = b.lastFill /\ r.tokens = b.tokens - 1
    BY <1>2, <1>4, <1>5
  <2>2. now < b.lastFill + Interval
    BY <1>1, <1>3, <1>5, GatewayAssumption
  <2>3. now < from => i = 0
    BY DEF Fits
  <2>4. ASSUME r.lastFill < from
        PROVE  i + r.tokens <= Burst /\ (i > 0 => from < r.lastFill + Interval)
    BY <1>1, <2>1, <2>2, <2>3, <2>4, GatewayAssumption DEF Fits
  <2>5. ASSUME from <= r.lastFill
        PROVE  i + r.tokens <= Burst + Rate * (Whole(r.lastFill - from) + 1)
    <3>. DEFINE bound == Burst + Rate * (Whole(r.lastFill - from) + 1)
    <3>1. h + b.tokens <= bound
      BY <2>1, <2>5 DEF Fits
    <3>2. bound \in Nat
      <4>1. Whole(r.lastFill - from) \in Nat
        BY <2>1, <2>5, <1>1, WholeNat
      <4>. QED  BY <4>1, GatewayAssumption
    <3>. HIDE DEF bound
    <3>3. i + r.tokens <= bound
      BY <3>1, <3>2, <2>1, <1>1
    <3>. QED  BY <3>3 DEF bound
  <2>. QED  BY <1>1, <1>4, <2>1, <2>3, <2>4, <2>5 DEF Fits
<1>6. CASE k > 0
  <2>. DEFINE K == Whole(now - from)
              t == Refill(b).tokens
  <2>1. r.lastFill = now /\ r.tokens = t - 1 /\ t <= b.tokens + Rate * k
    BY <1>2, <1>4, <1>6
  <2>2. t \in 0 .. Burst
    BY <1>2 DEF Bucket
  <2>3. CASE now < from
    <3>1. i = 0
      BY <2>3 DEF Fits
    <3>. QED  BY <2>1, <2>2, <2>3, <3>1, <1>4, GatewayAssumption DEF Fits
  <2>4. CASE from <= now
    <3>1. K \in Nat
      BY <2>4, WholeNat
    <3>. DEFINE bound == Burst + Rate * (K + 1)
    <3>2. h + t <= bound
      <4>1. CASE h = 0
        <5>1. Rate * (K + 1) \in Nat
          BY <3>1, GatewayAssumption
        <5>. QED  BY <4>1, <5>1, <2>2, GatewayAssumption
      <4>2. CASE h > 0 /\ b.lastFill < from
        <5>1. from < b.lastFill + Interval /\ h + b.tokens <= Burst
          BY <4>2 DEF Fits
        <5>2. k - 1 \in Nat /\ (k - 1) * Interval <= now - from
          <6>1. (k - 1) * Interval = k * Interval - Interval
            BY <1>1, GatewayAssumption, Z3
          <6>. QED  BY <6>1, <5>1, <1>1, <1>3, <1>6, GatewayAssumption
        <5>3. k - 1 <= K
          BY <5>2, <2>4, WholeGreatest
        <5>4. Rate * k <= Rate * (K + 1)
          BY <5>3, <3>1, <1>1, RateMonotone
        <5>. QED
          <6>1. Rate * k \in Nat /\ Rate * (K + 1) \in Nat
            BY <3>1, <1>1, GatewayAssumption
          <6>. QED  BY <5>1, <5>4, <6>1, <2>1, <2>2, <1>1, GatewayAssumption
      <4>3. CASE from <= b.lastFill
        <5>. DEFINE L == Whole(b.lastFill - from)
        <5>1. h + b.tokens <= Burst + Rate * (L + 1)
          BY <4>3 DEF Fits
        <5>2. L \in Nat /\ L * Interval <= b.lastFill - from
          BY <4>3, <1>1, WholeNat
        <5>. HIDE DEF L
        <5>3. (L + k) * Interval <= now - from
          <6>1. (L + k) * Interval = L * Interval + k * Interval
            BY <5>2, <1>1, GatewayAssumption, Z3
          <6>2. L * Interval \in Nat /\ k * Interval \in Nat
            BY <5>2, <1>1, GatewayAssumption
          <6>. QED  BY <6>1, <6>2, <5>2, <1>1, <1>3
        <5>4. L + k <= K
          BY <5>2, <5>3, <1>1, <2>4, WholeGreatest
        <5>5. Rate * (L + k + 1) <= Rate * (K + 1)
          BY <5>4, <5>2, <3>1, <1>1, RateMonotone
        <5>6. Rate * (L + k + 1) = Rate * (L + 1) + Rate * k
          BY <5>2, <1>1, GatewayAssumption, Z3
        <5>7. Rate * (L + 1) \in Nat /\ Rate * k \in Nat /\ Rate * (K + 1) \in Nat
          BY <5>2, <3>1, <1>1, GatewayAssumption
        <5>. HIDE DEF K, t
        <5>. QED  BY <5>1, <5>5, <5>6, <5>7, <2>1, <2>2, <1>1, GatewayAssumption
      <4>. QED  BY <4>1, <4>2, <4>3, <1>1
    <3>3. bound \in Nat
      BY <3>1, GatewayAssumption
    <3>4. i = h + 1
      BY <2>4
    <3>5. Whole(r.lastFill - from) = K
      BY <2>1
    <3>6. i + r.tokens <= bound
      <4>. HIDE DEF bound, t
      <4>. QED  BY <3>2, <3>3, <3>4, <2>1, <2>2
    <3>. QED  BY <3>5, <3>6, <2>1, <2>4, <1>4 DEF Fits
  <2>. QED  BY <2>3, <2>4
<1>. QED  BY <1>1, <1>5, <1>6

-----------------------------------------------------------------------------
\* A publish starts from a bucket in order, be it a new one.
LEMMA StartFits ==
  ASSUME GInv, NEW u \in User, NEW b, b = IF bucket[u] = Nil THEN NewBucket ELSE bucket[u]
  PROVE  /\ b \in Bucket /\ b.lastFill <= now
         /\ \E p : Fits(b, hits[u], p)
<1>1. /\ now \in Nat /\ from \in Nat /\ hits[u] \in Nat
      /\ bucket[u] \in Bucket \cup {Nil}
  BY GatewayAssumption DEF GInv, TypeOK
<1>2. CASE bucket[u] = Nil
  <2>1. b = [tokens |-> Burst, lastFill |-> now] /\ hits[u] = 0
    BY <1>2 DEF NewBucket, GInv, UserOK
  <2>2. b \in Bucket /\ b.lastFill = now /\ b.tokens = Burst
    BY <2>1, <1>1, GatewayAssumption DEF Bucket
  <2>3. from <= now => Burst <= Burst + Rate * (Whole(now - from) + 1)
    <3>1. from <= now => Rate * (Whole(now - from) + 1) \in Nat
      BY <1>1, WholeNat, GatewayAssumption
    <3>. QED  BY <3>1, GatewayAssumption
  <2>4. Fits(b, hits[u], now)
    BY <2>1, <2>2, <2>3, <1>1, GatewayAssumption DEF Fits
  <2>. QED  BY <2>2, <2>4, <1>1
<1>3. CASE bucket[u] # Nil
  <2>1. b = bucket[u] /\ Fits(b, hits[u], lastPass[u])
    BY <1>3 DEF GInv, UserOK
  <2>. QED  BY <2>1, <1>1, <1>3 DEF Fits
<1>. QED  BY <1>2, <1>3

LEMMA PublishKeeps ==
  ASSUME GInv, NEW u \in User, NEW ch \in Room, Publish(u, ch)
  PROVE  GInv'
<1>. DEFINE b == IF bucket[u] = Nil THEN NewBucket ELSE bucket[u]
            r == [Refill(b) EXCEPT !.tokens = @ - 1]
            i == IF now >= from THEN hits[u] + 1 ELSE hits[u]
<1>1. /\ now \in Nat /\ from \in Nat /\ hits[u] \in Nat
      /\ bucket \in [User -> Bucket \cup {Nil}] /\ hits \in [User -> Nat]
      /\ lastPass \in [User -> Nat \cup {Nil}]
  BY GatewayAssumption DEF GInv, TypeOK
<1>2. b \in Bucket /\ \E p : Fits(b, hits[u], p)
  BY StartFits
<1>3. Refill(b).tokens > 0
  BY DEF Publish, Filled
<1>4. r \in Bucket /\ Fits(r, i, now)
  BY <1>1, <1>2, <1>3, PassFits
<1>5. /\ bucket' = [bucket EXCEPT ![u] = r]
      /\ hits' = [hits EXCEPT ![u] = i]
      /\ lastPass' = [lastPass EXCEPT ![u] = now]
      /\ now' = now /\ from' = from
  BY DEF Publish, Filled
<1>. HIDE DEF r
<1>6. i \in Nat
  BY <1>1
<1>. HIDE DEF i
<1>7. ASSUME NEW v \in User  PROVE UserOK(v)'
  <2>1. CASE v = u
    <3>1. bucket'[v] = r /\ hits'[v] = i /\ lastPass'[v] = now
      BY <1>1, <1>5, <2>1
    <3>2. r # Nil
      BY <1>4, GatewayAssumption
    <3>. QED  BY <3>1, <3>2, <1>4, <1>5 DEF UserOK, Fits
  <2>2. CASE v # u
    <3>1. bucket'[v] = bucket[v] /\ hits'[v] = hits[v] /\ lastPass'[v] = lastPass[v]
      BY <1>1, <1>5, <2>2
    <3>. QED  BY <3>1, <1>5 DEF GInv, UserOK, Fits
  <2>. QED  BY <2>1, <2>2
<1>8. TypeOK'
  <2>1. answer' \in Answer
    BY <1>1 DEF Publish, Answer
  <2>2. bucket' \in [User -> Bucket \cup {Nil}]
    BY <1>1, <1>4, <1>5
  <2>3. hits' \in [User -> Nat]
    BY <1>1, <1>5, <1>6
  <2>. QED  BY <1>1, <1>5, <2>1, <2>2, <2>3 DEF Publish, GInv, TypeOK
<1>9. NeverStarved'
  BY DEF Publish, NeverStarved
<1>. QED  BY <1>7, <1>8, <1>9 DEF GInv

\* A refusal: no whole interval has passed, and the bucket is as it was.
LEMMA TooManyKeeps ==
  ASSUME GInv, NEW u \in User, TooMany(u)
  PROVE  GInv'
<1>. DEFINE b == IF bucket[u] = Nil THEN NewBucket ELSE bucket[u]
            k == Whole(now - b.lastFill)
<1>1. /\ now \in Nat
      /\ bucket \in [User -> Bucket \cup {Nil}]
      /\ lastPass \in [User -> Nat \cup {Nil}]
  BY GatewayAssumption DEF GInv, TypeOK
<1>2. b \in Bucket /\ b.lastFill <= now
  BY StartFits
<1>3. Refill(b).tokens = 0 /\ bucket' = [bucket EXCEPT ![u] = Refill(b)]
  BY DEF TooMany, Filled
<1>. HIDE DEF b
<1>4. k \in Nat
  BY <1>1, <1>2, WholeNat DEF Bucket
<1>5. k = 0 /\ Refill(b) = b
  BY <1>1, <1>2, <1>3, <1>4, RefillType
<1>6. bucket[u] # Nil /\ b = bucket[u]
  <2>1. bucket[u] = Nil => b.tokens = Burst
    BY DEF b, NewBucket
  <2>. QED  BY <2>1, <1>3, <1>5, GatewayAssumption DEF b
<1>7. bucket' = bucket
  BY <1>1, <1>3, <1>5, <1>6
<1>8. now < b.lastFill + Interval
  <2>1. now - b.lastFill \in Nat
    BY <1>1, <1>2 DEF Bucket
  <2>2. now - b.lastFill < (k + 1) * Interval
    BY <2>1, WholeNat
  <2>. QED  BY <2>1, <2>2, <1>1, <1>2, <1>5, GatewayAssumption DEF Bucket
<1>9. lastPass[u] \in Nat /\ b.lastFill <= lastPass[u]
  BY <1>6 DEF GInv, UserOK, Fits
<1>10. NeverStarved'
  <2>1. answer' = [user |-> u, at |-> now, code |-> "too_many"] /\ lastPass' = lastPass
    BY DEF TooMany
  <2>2. now < lastPass[u] + Interval
    BY <1>1, <1>2, <1>8, <1>9, GatewayAssumption DEF Bucket
  <2>. QED  BY <2>1, <2>2, <1>9, GatewayAssumption DEF NeverStarved
<1>11. TypeOK'
  <2>1. answer' \in Answer
    BY <1>1 DEF TooMany, Answer
  <2>. QED  BY <2>1, <1>7 DEF TooMany, GInv, TypeOK
<1>12. \A v \in User : UserOK(v)'
  BY <1>7 DEF TooMany, GInv, UserOK, Fits
<1>. QED  BY <1>10, <1>11, <1>12 DEF GInv

LEMMA RestKeeps ==
  ASSUME GInv,
         \/ \E u \in User : Connect(u)
         \/ \E u \in User, ch \in Room : Unsubscribe(u, ch)
         \/ \E u \in User, ch \in Room, tok \in minted \cup {Nil} : Subscribe(u, ch, tok)
         \/ \E u \in User, c \in Challenge : Mint(u, c)
         \/ \E tok \in fresh : Expire(tok)
         \/ Tick
         \/ UNCHANGED vars
  PROVE  GInv'
<1>1. CASE \E u \in User : Connect(u)
  <2>1. PICK u \in User : Connect(u)
    BY <1>1
  <2>2. <<u, <<"user", u>>>> \in User \X Room
    BY DEF Room
  <2>. QED  BY <2>1, <2>2 DEF Connect, GInv, TypeOK, UserOK, Fits, NeverStarved
<1>2. CASE \E u \in User, ch \in Room : Unsubscribe(u, ch)
  BY <1>2 DEF Unsubscribe, GInv, TypeOK, UserOK, Fits, NeverStarved
<1>3. CASE \E u \in User, ch \in Room, tok \in minted \cup {Nil} : Subscribe(u, ch, tok)
  BY <1>3 DEF Subscribe, GInv, TypeOK, UserOK, Fits, NeverStarved
<1>4. CASE \E u \in User, c \in Challenge : Mint(u, c)
  <2>1. PICK u \in User, c \in Challenge : Mint(u, c)
    BY <1>4
  <2>. DEFINE tok == [user |-> u, channel |-> <<"challenge", c>>]
  <2>2. tok \in SubToken
    BY DEF SubToken, Room
  <2>3. minted' = minted \cup {tok} /\ fresh' = fresh \cup {tok}
    BY <2>1 DEF Mint
  <2>. HIDE DEF tok
  <2>. QED  BY <2>1, <2>2, <2>3 DEF Mint, GInv, TypeOK, UserOK, Fits, NeverStarved
<1>5. CASE \E tok \in fresh : Expire(tok)
  BY <1>5 DEF Expire, GInv, TypeOK, UserOK, Fits, NeverStarved
<1>6. CASE Tick
  <2>1. /\ now \in Nat /\ from \in Nat /\ now' = now + 1 /\ now' \in 0 .. MaxTime
        /\ UNCHANGED <<bucket, subs, minted, fresh, from, hits, lastPass, answer>>
    BY <1>6, GatewayAssumption DEF Tick, GInv, TypeOK
  <2>2. ASSUME NEW u \in User  PROVE UserOK(u)'
    <3>1. CASE bucket[u] = Nil
      BY <3>1, <2>1 DEF GInv, UserOK
    <3>2. CASE bucket[u] # Nil
      <4>1. Fits(bucket[u], hits[u], lastPass[u]) /\ bucket[u].lastFill \in Nat
        BY <3>2 DEF GInv, TypeOK, UserOK, Bucket
      <4>2. Fits(bucket[u], hits[u], lastPass[u])'
        BY <4>1, <2>1 DEF Fits
      <4>. QED  BY <4>2, <3>2, <2>1 DEF UserOK
    <3>. QED  BY <3>1, <3>2
  <2>. QED  BY <2>1, <2>2 DEF GInv, TypeOK, NeverStarved
<1>7. CASE UNCHANGED vars
  BY <1>7 DEF vars, GInv, TypeOK, UserOK, Fits, NeverStarved
<1>. QED  BY <1>1, <1>2, <1>3, <1>4, <1>5, <1>6, <1>7

LEMMA GatewayInit == Init => GInv
<1>. SUFFICES ASSUME Init  PROVE GInv
  OBVIOUS
<1>1. TypeOK
  BY GatewayAssumption DEF Init, TypeOK
<1>. QED  BY <1>1 DEF Init, GInv, UserOK, NeverStarved

LEMMA GatewayNext ==
  ASSUME GInv, [Next]_vars
  PROVE  GInv'
<1>1. CASE \E u \in User, ch \in Room : Publish(u, ch)
  BY <1>1, PublishKeeps
<1>2. CASE \E u \in User : TooMany(u)
  BY <1>2, TooManyKeeps
<1>. QED  BY <1>1, <1>2, RestKeeps DEF Next

\* The invariant: for every user, the bucket and the publishes of the window
\* stay within what the window has earned.
THEOREM GatewayInductive == Spec => []GInv
<1>. QED  BY GatewayInit, GatewayNext, PTL DEF Spec

\* Every variable keeps its type.
THEOREM GatewayTyped == Spec => []TypeOK
<1>1. GInv => TypeOK
  BY DEF GInv
<1>. QED  BY <1>1, GatewayInductive, PTL

\* For every window of time: at most Burst, and Rate for each interval begun.
THEOREM RateBound == Spec => []WindowBound
<1>1. ASSUME GInv  PROVE WindowBound
  <2>. SUFFICES ASSUME NEW u \in User, now >= from
                PROVE  hits[u] <= Burst + Rate * (Whole(now - from) + 1)
    BY DEF WindowBound, Whole
  <2>1. /\ now \in Nat /\ from \in Nat /\ hits[u] \in Nat /\ UserOK(u)
        /\ bucket[u] \in Bucket \cup {Nil}
    BY <1>1, GatewayAssumption DEF GInv, TypeOK
  <2>. DEFINE K == Whole(now - from)
  <2>2. K \in Nat /\ Rate * (K + 1) \in Nat
    BY <2>1, WholeNat, GatewayAssumption
  <2>. HIDE DEF K
  <2>3. CASE bucket[u] = Nil
    BY <2>1, <2>2, <2>3, GatewayAssumption DEF UserOK, K
  <2>. DEFINE b == bucket[u]
  <2>4. CASE b # Nil /\ b.lastFill < from
    <3>1. hits[u] + b.tokens <= Burst /\ b.tokens \in Nat
      BY <2>1, <2>4, GatewayAssumption DEF UserOK, Fits, Bucket
    <3>. QED  BY <3>1, <2>1, <2>2, GatewayAssumption DEF K
  <2>5. CASE b # Nil /\ from <= b.lastFill
    <3>. DEFINE L == Whole(b.lastFill - from)
    <3>1. /\ hits[u] + b.tokens <= Burst + Rate * (L + 1)
          /\ b.tokens \in Nat /\ b.lastFill \in Nat /\ b.lastFill <= now
      BY <2>1, <2>5, GatewayAssumption DEF UserOK, Fits, Bucket
    <3>2. L \in Nat /\ L * Interval <= b.lastFill - from
      BY <3>1, <2>1, <2>5, WholeNat
    <3>. HIDE DEF L
    <3>3. L <= K
      <4>1. L * Interval \in Nat
        BY <3>2, GatewayAssumption
      <4>2. L * Interval <= now - from /\ now - from \in Nat
        BY <4>1, <3>1, <3>2, <2>1
      <4>. QED  BY <4>2, <3>2, WholeGreatest DEF K
    <3>4. Rate * (L + 1) <= Rate * (K + 1)
      BY <3>2, <3>3, <2>2, RateMonotone
    <3>5. Rate * (L + 1) \in Nat
      BY <3>2, GatewayAssumption
    <3>. QED  BY <3>1, <3>4, <3>5, <2>1, <2>2, GatewayAssumption DEF K
  <2>6. bucket[u] # Nil => b.lastFill \in Nat
    BY <2>1 DEF Bucket
  <2>. QED  BY <2>1, <2>3, <2>4, <2>5, <2>6
<1>. QED  BY <1>1, GatewayInductive, PTL

\* Nobody is refused for the rate who has not passed less than an interval ago.
THEOREM NobodyStarves == Spec => []NeverStarved
<1>1. GInv => NeverStarved
  BY DEF GInv
<1>. QED  BY <1>1, GatewayInductive, PTL

-----------------------------------------------------------------------------
\* One subscription is in order, given the tokens m.
Invited(s, m) ==
  /\ s[2][1] = "user" => s[2][2] = s[1]
  /\ s[2][1] = "challenge" => [user |-> s[1], channel |-> s[2]] \in m
  /\ s[2][1] # "other"

LEMMA InvitedKeeps ==
  ASSUME TypeOK, SubscribersInvited, [Next]_vars
  PROVE  SubscribersInvited'
<1>1. ASSUME NEW u \in User, Connect(u)
      PROVE  SubscribersInvited'
  <2>. DEFINE s == <<u, <<"user", u>>>>
  <2>1. Invited(s, minted)
    BY DEF Invited
  <2>2. subs' = subs \cup {s} /\ minted' = minted
    BY <1>1 DEF Connect
  <2>. HIDE DEF s
  <2>. QED  BY <2>1, <2>2 DEF SubscribersInvited, Invited
<1>2. ASSUME NEW u \in User, NEW ch \in Room, NEW tok \in minted \cup {Nil}, Subscribe(u, ch, tok)
      PROVE  SubscribersInvited'
  <2>1. ch[1] = "user" => ch[2] = u
    BY <1>2 DEF Subscribe, Policy
  <2>2. ASSUME ch[1] = "challenge"  PROVE [user |-> u, channel |-> ch] \in minted
    <3>1. tok \in fresh /\ tok.user = u /\ tok.channel = ch
      BY <1>2, <2>2 DEF Subscribe, Policy
    <3>2. tok \in minted /\ tok \in SubToken
      BY <3>1 DEF TypeOK
    <3>3. tok = [user |-> u, channel |-> ch]
      BY <3>1, <3>2 DEF SubToken
    <3>. QED  BY <3>2, <3>3
  <2>3. ch[1] # "other"
    BY <1>2 DEF Subscribe, Policy
  <2>. DEFINE s == <<u, ch>>
  <2>4. subs' = subs \cup {s} /\ minted' = minted
    BY <1>2 DEF Subscribe
  <2>5. Invited(s, minted)
    BY <2>1, <2>2, <2>3 DEF Invited
  <2>. HIDE DEF s
  <2>. QED  BY <2>4, <2>5 DEF SubscribersInvited, Invited
<1>3. ASSUME NEW u \in User, NEW c \in Challenge, Mint(u, c)
      PROVE  SubscribersInvited'
  <2>1. minted \subseteq minted' /\ subs' = subs
    BY <1>3 DEF Mint
  <2>. QED  BY <2>1 DEF SubscribersInvited
<1>4. ASSUME NEW u \in User, NEW ch \in Room, Unsubscribe(u, ch)
      PROVE  SubscribersInvited'
  BY <1>4 DEF Unsubscribe, SubscribersInvited
<1>5. ASSUME UNCHANGED <<subs, minted>>
      PROVE  SubscribersInvited'
  BY <1>5 DEF SubscribersInvited
<1>6. ASSUME NEW u \in User, NEW ch \in Room, Publish(u, ch)
      PROVE  UNCHANGED <<subs, minted>>
  BY <1>6 DEF Publish
<1>7. ASSUME NEW u \in User, TooMany(u)
      PROVE  UNCHANGED <<subs, minted>>
  BY <1>7 DEF TooMany
<1>8. ASSUME (\E tok \in fresh : Expire(tok)) \/ Tick \/ UNCHANGED vars
      PROVE  UNCHANGED <<subs, minted>>
  BY <1>8 DEF Expire, Tick, vars
<1>. QED  BY <1>1, <1>2, <1>3, <1>4, <1>5, <1>6, <1>7, <1>8 DEF Next

\* Every subscriber of a personal channel is its owner, and every subscriber of
\* a challenge has been given a token for it.
THEOREM OnlyInvited == Spec => []SubscribersInvited
<1>1. Init => SubscribersInvited
  BY DEF Init, SubscribersInvited
<1>2. TypeOK /\ SubscribersInvited /\ [Next]_vars => SubscribersInvited'
  BY InvitedKeeps
<1>. QED  BY <1>1, <1>2, GatewayTyped, PTL DEF Spec
=============================================================================
