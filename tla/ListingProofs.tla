--------------------------- MODULE ListingProofs ----------------------------
(***************************************************************************)
(* Proofs about the notification stores, their types, the agreement of the *)
(* two indexes and that what they do implements module Store, and about a  *)
(* walk through a listing: what it misses and repeats.                     *)
(***************************************************************************)
EXTENDS Listing, SequenceTheorems, FunctionTheorems, FiniteSetTheorems,
        WellFoundedInduction, TLAPS

-----------------------------------------------------------------------------
(***************************************************************************)
(* Lists without repetition.                                               *)
(***************************************************************************)

\* Appending a new element to a list adds it and repeats nothing.
LEMMA AppendAdds ==
  ASSUME NEW S, NEW s \in Seq(S), NEW e
  PROVE  /\ Range(Append(s, e)) = Range(s) \cup {e}
         /\ e \notin Range(s) /\ IsInjective(s) => IsInjective(Append(s, e))
<1> DEFINE t == Append(s, e)
<1>1. /\ Len(s) \in Nat /\ DOMAIN s = 1 .. Len(s)
      /\ DOMAIN t = 1 .. Len(s) + 1
      /\ t[Len(s) + 1] = e
      /\ \A i \in 1 .. Len(s) : t[i] = s[i]
  BY LenProperties
<1> HIDE DEF t
<1>2. Range(t) = Range(s) \cup {e}
  <2>1. \A x \in Range(s) \cup {e} : x \in Range(t)
    BY <1>1 DEF Range
  <2>2. \A i \in DOMAIN t : t[i] \in Range(s) \cup {e}
    BY <1>1 DEF Range
  <2> QED  BY <2>1, <2>2 DEF Range
<1>3. e \notin Range(s) /\ IsInjective(s) => IsInjective(t)
  BY <1>1 DEF Range, IsInjective
<1> QED  BY <1>2, <1>3 DEF t

\* So does inserting it anywhere.
LEMMA InsertAdds ==
  ASSUME NEW S, NEW s \in Seq(S), NEW e \in S, NEW i \in 1 .. Len(s) + 1
  PROVE  /\ InsertAt(s, i, e) \in Seq(S)
         /\ Range(InsertAt(s, i, e)) = Range(s) \cup {e}
         /\ e \notin Range(s) /\ IsInjective(s) => IsInjective(InsertAt(s, i, e))
<1> DEFINE a == SubSeq(s, 1, i - 1)
           b == SubSeq(s, i, Len(s))
           t == InsertAt(s, i, e)
<1>1. /\ Len(s) \in Nat /\ DOMAIN s = 1 .. Len(s)
      /\ \A j \in 1 .. Len(s) : s[j] \in S
  BY LenProperties
<1>2. /\ a \in Seq(S) /\ Len(a) = i - 1
      /\ \A j \in 1 .. i - 1 : a[j] = s[j]
  BY <1>1, SubSeqProperties
<1>3. /\ b \in Seq(S) /\ Len(b) = Len(s) - i + 1
      /\ \A j \in 1 .. Len(s) - i + 1 : b[j] = s[i + j - 1]
  BY <1>1, SubSeqProperties
<1> HIDE DEF a, b
<1> DEFINE c == a \o <<e>>
<1>4. /\ c \in Seq(S) /\ Len(c) = i
      /\ \A j \in 1 .. i : c[j] = IF j < i THEN s[j] ELSE e
  <2>1. <<e>> \in Seq(S) /\ Len(<<e>>) = 1 /\ <<e>>[1] = e
    OBVIOUS
  <2> QED  BY <1>2, <2>1, ConcatProperties
<1>5. t = c \o b
  BY DEF InsertAt, a, b
<1> HIDE DEF t, c
<1>6. /\ t \in Seq(S) /\ Len(t) = Len(s) + 1
      /\ \A j \in 1 .. Len(s) + 1 :
           /\ j < i => t[j] = s[j]
           /\ j = i => t[j] = e
           /\ j > i => t[j] = s[j - 1]
  <2>1. /\ t \in Seq(S) /\ Len(t) = Len(c) + Len(b)
        /\ \A j \in 1 .. Len(c) + Len(b) :
             t[j] = IF j <= Len(c) THEN c[j] ELSE b[j - Len(c)]
    BY <1>3, <1>4, <1>5, ConcatProperties
  <2>2. Len(c) + Len(b) = Len(s) + 1
    BY <1>1, <1>3, <1>4
  <2>3. ASSUME NEW j \in 1 .. Len(s) + 1
        PROVE  /\ j < i => t[j] = s[j]
               /\ j = i => t[j] = e
               /\ j > i => t[j] = s[j - 1]
    <3>1. CASE j <= i
      <4>1. t[j] = c[j] /\ j \in 1 .. i
        BY <2>1, <2>2, <1>1, <1>4, <3>1
      <4> QED  BY <4>1, <1>4
    <3>2. CASE j > i
      <4>1. t[j] = b[j - i]
        BY <2>1, <2>2, <1>1, <1>4, <3>2
      <4>2. j - i \in 1 .. Len(s) - i + 1 /\ i + (j - i) - 1 = j - 1
        BY <1>1, <3>2
      <4> QED  BY <4>1, <4>2, <1>3, <3>2
    <3> QED  BY <3>1, <3>2, <1>1
  <2> QED  BY <2>1, <2>2, <2>3
<1>7. DOMAIN t = 1 .. Len(s) + 1
  BY <1>6, LenProperties
<1>8. Range(t) = Range(s) \cup {e}
  <2>1. \A j \in 1 .. Len(s) : \E m \in 1 .. Len(s) + 1 : t[m] = s[j]
    <3> TAKE j \in 1 .. Len(s)
    <3>1. CASE j < i  BY <1>1, <1>6, <3>1
    <3>2. CASE ~(j < i)
      <4>1. j + 1 \in 1 .. Len(s) + 1 /\ t[j + 1] = s[j]
        BY <1>1, <1>6, <3>2
      <4> QED  BY <4>1
    <3> QED  BY <3>1, <3>2
  <2>2. ASSUME NEW j \in 1 .. Len(s) + 1  PROVE t[j] \in Range(s) \cup {e}
    <3>1. CASE j < i  BY <1>1, <1>6, <3>1 DEF Range
    <3>2. CASE j = i  BY <1>6, <3>2
    <3>3. CASE j > i
      <4>1. j - 1 \in DOMAIN s /\ t[j] = s[j - 1]
        BY <1>1, <1>6, <3>3
      <4> QED  BY <4>1 DEF Range
    <3> QED  BY <3>1, <3>2, <3>3, <1>1
  <2>3. e \in Range(t)
    BY <1>1, <1>6, <1>7 DEF Range
  <2> QED  BY <2>1, <2>2, <2>3, <1>1, <1>7 DEF Range
<1>9. ASSUME e \notin Range(s), IsInjective(s)  PROVE IsInjective(t)
  <2> DEFINE Old(j) == IF j < i THEN j ELSE j - 1
  <2>1. \A j \in 1 .. Len(s) + 1 : j # i => Old(j) \in DOMAIN s /\ t[j] = s[Old(j)]
    BY <1>1, <1>6
  <2>2. \A j, m \in 1 .. Len(s) + 1 : j # i /\ m # i /\ Old(j) = Old(m) => j = m
    BY <1>1
  <2> HIDE DEF Old
  <2>3. \A j \in 1 .. Len(s) + 1 : j # i => t[j] # e
    BY <2>1, <1>9 DEF Range
  <2>4. \A j, m \in 1 .. Len(s) + 1 : t[j] = t[m] => j = m
    BY <2>1, <2>2, <2>3, <1>6, <1>9 DEF IsInjective
  <2> QED  BY <2>4, <1>7 DEF IsInjective
<1> QED  BY <1>6, <1>8, <1>9 DEF t

\* Removing the element at a place of a list without repetition removes just
\* that element.
LEMMA RemoveRemoves ==
  ASSUME NEW S, NEW s \in Seq(S), NEW i \in 1 .. Len(s), IsInjective(s)
  PROVE  /\ RemoveAt(s, i) \in Seq(S)
         /\ Range(RemoveAt(s, i)) = Range(s) \ {s[i]}
         /\ IsInjective(RemoveAt(s, i))
<1> DEFINE a == SubSeq(s, 1, i - 1)
           b == SubSeq(s, i + 1, Len(s))
           t == RemoveAt(s, i)
<1>1. /\ Len(s) \in Nat /\ DOMAIN s = 1 .. Len(s)
      /\ \A j \in 1 .. Len(s) : s[j] \in S
  BY LenProperties
<1>2. /\ a \in Seq(S) /\ Len(a) = i - 1
      /\ \A j \in 1 .. i - 1 : a[j] = s[j]
  BY <1>1, SubSeqProperties
<1>3. /\ b \in Seq(S) /\ Len(b) = Len(s) - i
      /\ \A j \in 1 .. Len(s) - i : b[j] = s[i + j]
  <2>1. /\ b \in Seq(S)
        /\ Len(b) = IF i + 1 <= Len(s) THEN Len(s) - (i + 1) + 1 ELSE 0
        /\ \A j \in 1 .. Len(s) - (i + 1) + 1 : b[j] = s[(i + 1) + j - 1]
    BY <1>1, SubSeqProperties
  <2> DEFINE n == Len(s)
  <2>2. n \in Nat /\ i \in 1 .. n
    BY <1>1
  <2> HIDE DEF b, n
  <2>3. /\ n - (i + 1) + 1 = n - i
        /\ (IF i + 1 <= n THEN n - (i + 1) + 1 ELSE 0) = n - i
    BY <2>2
  <2>4. \A j \in 1 .. n - i : (i + 1) + j - 1 = i + j
    BY <2>2
  <2> QED  BY <2>1, <2>3, <2>4 DEF n
<1>4. t = a \o b
  BY DEF RemoveAt
<1> HIDE DEF a, b, t
<1>5. /\ t \in Seq(S) /\ Len(t) = Len(s) - 1
      /\ \A j \in 1 .. Len(s) - 1 : t[j] = s[IF j < i THEN j ELSE j + 1]
  <2>1. /\ t \in Seq(S) /\ Len(t) = Len(a) + Len(b)
        /\ \A j \in 1 .. Len(a) + Len(b) :
             t[j] = IF j <= Len(a) THEN a[j] ELSE b[j - Len(a)]
    BY <1>2, <1>3, <1>4, ConcatProperties
  <2>2. Len(a) + Len(b) = Len(s) - 1
    BY <1>1, <1>2, <1>3
  <2>3. ASSUME NEW j \in 1 .. Len(s) - 1
        PROVE  t[j] = s[IF j < i THEN j ELSE j + 1]
    <3>1. CASE j < i
      BY <2>1, <2>2, <1>1, <1>2, <3>1
    <3>2. CASE ~(j < i)
      <4>1. t[j] = b[j - (i - 1)]
        BY <2>1, <2>2, <1>1, <1>2, <3>2
      <4>2. j - (i - 1) \in 1 .. Len(s) - i /\ i + (j - (i - 1)) = j + 1
        BY <1>1, <3>2
      <4> QED  BY <4>1, <4>2, <1>3, <3>2
    <3> QED  BY <3>1, <3>2
  <2> QED  BY <2>1, <2>2, <2>3
<1>6. DOMAIN t = 1 .. Len(s) - 1
  BY <1>5, LenProperties
<1> DEFINE Old(j) == IF j < i THEN j ELSE j + 1
<1>7. /\ \A j \in DOMAIN t : Old(j) \in DOMAIN s /\ Old(j) # i /\ t[j] = s[Old(j)]
      /\ \A j, m \in DOMAIN t : Old(j) = Old(m) => j = m
      /\ \A m \in DOMAIN s : m # i => \E j \in DOMAIN t : Old(j) = m
  <2>1. \A j \in DOMAIN t : Old(j) \in DOMAIN s /\ Old(j) # i /\ t[j] = s[Old(j)]
    BY <1>1, <1>5, <1>6
  <2>2. \A j, m \in DOMAIN t : Old(j) = Old(m) => j = m
    BY <1>1, <1>6
  <2>3. ASSUME NEW m \in DOMAIN s, m # i  PROVE \E j \in DOMAIN t : Old(j) = m
    <3>1. CASE m < i
      <4>1. m \in DOMAIN t /\ Old(m) = m
        BY <3>1, <1>1, <1>6
      <4> QED  BY <4>1
    <3>2. CASE ~(m < i)
      <4>1. m - 1 \in DOMAIN t /\ Old(m - 1) = m
        BY <3>2, <2>3, <1>1, <1>6
      <4> QED  BY <4>1
    <3> QED  BY <3>1, <3>2
  <2> QED  BY <2>1, <2>2, <2>3
<1> HIDE DEF Old
<1>8. Range(t) = Range(s) \ {s[i]}
  BY <1>1, <1>7 DEF Range, IsInjective
<1>9. IsInjective(t)
  BY <1>7 DEF IsInjective
<1> QED  BY <1>5, <1>8, <1>9 DEF t

\* Taking an element out of a list without repetition takes out just that.
LEMMA WithoutRemoves ==
  ASSUME NEW S, NEW s \in Seq(S), NEW e, IsInjective(s)
  PROVE  /\ Without(s, e) \in Seq(S)
         /\ Range(Without(s, e)) = Range(s) \ {e}
         /\ IsInjective(Without(s, e))
<1>1. CASE e \notin Range(s)
  <2>1. Without(s, e) = s
    BY <1>1 DEF Without
  <2>2. Range(s) \ {e} = Range(s)
    BY <1>1
  <2> QED  BY <2>1, <2>2
<1>2. CASE e \in Range(s)
  <2>1. PICK i \in 1 .. Len(s) : s[i] = e /\ Without(s, e) = RemoveAt(s, i)
    <3> DEFINE i == CHOOSE i \in DOMAIN s : s[i] = e
    <3>1. \E j \in DOMAIN s : s[j] = e
      BY <1>2 DEF Range
    <3>2. i \in DOMAIN s /\ s[i] = e
      BY <3>1
    <3>3. Without(s, e) = RemoveAt(s, i)
      BY <1>2 DEF Without
    <3> HIDE DEF i
    <3> QED  BY <3>2, <3>3, LenProperties
  <2> QED  BY <2>1, RemoveRemoves
<1> QED  BY <1>1, <1>2
-----------------------------------------------------------------------------
(***************************************************************************)
(* The stores.                                                             *)
(***************************************************************************)

StoreInv == StoreTypeOK /\ IndexesAgree

LEMMA StoreInitInv == StoreInit => StoreInv
<1> SUFFICES ASSUME StoreInit PROVE StoreInv
  OBVIOUS
<1>1. \A u \in User : byUser[u] = <<>>
  BY DEF StoreInit
<1>2. DOMAIN << >> = {} /\ Range(<< >>) = {} /\ IsInjective(<< >>)
  BY DEF Range, IsInjective
<1>3. IndexesAgree
  BY <1>1, <1>2 DEF StoreInit, IndexesAgree
<1>4. StoreTypeOK
  <2>1. << >> \in Seq(User) /\ Len(<< >>) = 0
    OBVIOUS
  <2>2. byUser \in [User -> Seq(DOMAIN owner)]
    BY DEF StoreInit
  <2>3. reply \in Replies
    BY StoreAssumption DEF StoreInit, Replies, Answer
  <2> QED  BY <2>1, <2>2, <2>3, StoreAssumption DEF StoreInit, StoreTypeOK
<1> QED  BY <1>3, <1>4 DEF StoreInv

LEMMA CreateKeeps ==
  ASSUME StoreInv, NEW u \in User, Create(u)
  PROVE  StoreInv'
<1> DEFINE k == Len(owner) + 1
<1>1. /\ owner \in Seq(User) /\ owner' = Append(owner, u) /\ k \in Id
      /\ byID' = byID \cup {k} /\ byID \subseteq DOMAIN owner
      /\ kind' = kind /\ isRead' = isRead /\ reply' = Answer("done", 0)
      /\ byUser \in [User -> Seq(DOMAIN owner)]
  BY DEF StoreInv, StoreTypeOK, Create
<1>2. /\ DOMAIN owner = 1 .. Len(owner) /\ Len(owner) \in Nat
      /\ owner' \in Seq(User) /\ DOMAIN owner' = DOMAIN owner \cup {k}
      /\ Len(owner') = k
      /\ owner'[k] = u /\ \A j \in DOMAIN owner : owner'[j] = owner[j]
      /\ k \notin DOMAIN owner
  BY <1>1
<1> HIDE DEF k
<1>3. (\A v \in User : byUser[v] \in Seq(DOMAIN owner')) /\ k \in DOMAIN owner'
  <2>1. ASSUME NEW v \in User  PROVE byUser[v] \in Seq(DOMAIN owner')
    <3>1. byUser[v] \in Seq(DOMAIN owner) /\ DOMAIN owner \subseteq DOMAIN owner'
      BY <1>1, <1>2
    <3> QED  BY <3>1, SeqMonotonic
  <2> QED  BY <2>1, <1>2
<1>4. k \notin Range(byUser[u]) /\ IsInjective(byUser[u])
  BY <1>1, <1>2 DEF StoreInv, IndexesAgree
<1>5. PICK list : /\ byUser' = [byUser EXCEPT ![u] = list]
                  /\ list \in Seq(DOMAIN owner')
                  /\ Range(list) = Range(byUser[u]) \cup {k}
                  /\ IsInjective(list)
  <2>1. CASE Listed(u, k)
    <3>1. Append(byUser[u], k) \in Seq(DOMAIN owner')
      BY <1>3
    <3> QED  BY <2>1, <3>1, <1>3, <1>4, AppendAdds DEF Listed
  <2>2. CASE Inserted(u, k)
    <3>1. PICK i \in 1 .. Len(byUser[u]) + 1 :
                 byUser' = [byUser EXCEPT ![u] = InsertAt(byUser[u], i, k)]
      BY <2>2 DEF Inserted
    <3> QED  BY <3>1, <1>3, <1>4, InsertAdds
  <2> QED  BY <2>1, <2>2 DEF Create, k
<1>6. StoreTypeOK'
  <2>2. byUser' \in [User -> Seq(DOMAIN owner')]
    BY <1>1, <1>3, <1>5
  <2>3. reply' \in Replies
    BY <1>1, StoreAssumption DEF Replies, Answer
  <2>4. Len(owner') <= MaxRows
    BY <1>1, <1>2 DEF Id
  <2> QED  BY <2>2, <2>3, <2>4, <1>1, <1>2 DEF StoreInv, StoreTypeOK
<1>7. IndexesAgree'
  <2> SUFFICES ASSUME NEW v \in User
               PROVE  /\ IsInjective(byUser'[v])
                      /\ Range(byUser'[v]) = {j \in byID' : owner'[j] = v}
    BY DEF IndexesAgree
  <2>1. /\ IsInjective(byUser[v])
        /\ Range(byUser[v]) = {j \in byID : owner[j] = v}
    BY DEF StoreInv, IndexesAgree
  <2>2. CASE v = u
    BY <2>1, <2>2, <1>1, <1>2, <1>5
  <2>3. CASE v # u
    BY <2>1, <2>3, <1>1, <1>2, <1>5
  <2> QED  BY <2>2, <2>3
<1> QED  BY <1>6, <1>7 DEF StoreInv

LEMMA DeleteKeeps ==
  ASSUME StoreInv, NEW u \in User, NEW k \in Id, Delete(u, k)
  PROVE  StoreInv'
<1>1. reply' \in Replies
  BY StoreAssumption DEF Delete, Replies, Answer
<1>2. CASE Owned(u, k)
  <2> DEFINE list == Without(byUser[u], k)
  <2>1. /\ byID' = byID \ {k} /\ isRead' = isRead \ {k}
        /\ byUser' = [byUser EXCEPT ![u] = list]
        /\ kind' = kind /\ owner' = owner
    BY <1>2 DEF Delete
  <2>2. /\ list \in Seq(DOMAIN owner)
        /\ Range(list) = Range(byUser[u]) \ {k}
        /\ IsInjective(list)
    <3>1. byUser[u] \in Seq(DOMAIN owner) /\ IsInjective(byUser[u])
      BY DEF StoreInv, StoreTypeOK, IndexesAgree
    <3> QED  BY <3>1, WithoutRemoves
  <2> HIDE DEF list
  <2>3. StoreTypeOK'
    BY <1>1, <2>1, <2>2 DEF StoreInv, StoreTypeOK
  <2>4. IndexesAgree'
    BY <1>2, <2>1, <2>2 DEF StoreInv, StoreTypeOK, IndexesAgree, Owned
  <2> QED  BY <2>3, <2>4 DEF StoreInv
<1>3. CASE ~Owned(u, k)
  BY <1>1, <1>3 DEF Delete, StoreInv, StoreTypeOK, IndexesAgree
<1> QED  BY <1>2, <1>3

\* Counting the places of the list counts the rows.
LEMMA UnreadCounts ==
  ASSUME StoreInv, NEW u \in User
  PROVE  /\ Cardinality(UnreadPlaces(u)) = Cardinality(Range(byUser[u]) \ isRead)
         /\ Cardinality(UnreadPlaces(u)) \in 0 .. MaxRows
<1> DEFINE list == byUser[u]
           P == UnreadPlaces(u)
           T == Range(list) \ isRead
           f == [i \in P |-> list[i]]
<1>1. list \in Seq(DOMAIN owner) /\ DOMAIN list = 1 .. Len(list) /\ Len(list) \in Nat
  <2>1. list \in Seq(DOMAIN owner)
    BY DEF StoreInv, StoreTypeOK
  <2> QED  BY <2>1, LenProperties
<1>2. P \subseteq 1 .. Len(list) /\ IsFiniteSet(P)
  <2>1. P \subseteq 1 .. Len(list)
    BY <1>1 DEF UnreadPlaces
  <2>2. IsFiniteSet(1 .. Len(list))
    BY <1>1, FS_Interval
  <2> QED  BY <2>1, <2>2, FS_Subset
<1>3. f \in Bijection(P, T)
  <2>1. IsInjective(list)
    BY DEF StoreInv, IndexesAgree
  <2>2. f \in [P -> T] /\ \A a, b \in P : f[a] = f[b] => a = b
    BY <2>1, <1>1 DEF UnreadPlaces, Range, IsInjective
  <2>3. \A t \in T : \E p \in P : f[p] = t
    BY DEF UnreadPlaces, Range
  <2> HIDE DEF f, P, T
  <2> QED  BY <2>2, <2>3, Fun_IsBij
<1>4. IsFiniteSet(T) /\ Cardinality(P) = Cardinality(T)
  BY <1>2, <1>3, FS_Bijection, Fun_ExistsBij DEF ExistsBijection
<1>5. T \subseteq 1 .. Len(owner) /\ Len(owner) \in 0 .. MaxRows
  <2>1. T \subseteq byID /\ byID \subseteq DOMAIN owner
    BY DEF StoreInv, StoreTypeOK, IndexesAgree
  <2>2. owner \in Seq(User) /\ Len(owner) <= MaxRows
    BY DEF StoreInv, StoreTypeOK
  <2> QED  BY <2>1, <2>2, LenProperties, StoreAssumption
<1>6. Cardinality(T) \in Nat /\ Cardinality(T) <= Len(owner)
  <2>1. Len(owner) \in Nat
    BY <1>5, StoreAssumption
  <2>2. IsFiniteSet(1 .. Len(owner)) /\ Cardinality(1 .. Len(owner)) = Len(owner)
    BY <2>1, FS_Interval
  <2> HIDE DEF T
  <2>3. Cardinality(T) <= Cardinality(1 .. Len(owner))
    BY <1>5, <2>2, FS_Subset
  <2> QED  BY <1>4, <2>2, <2>3, FS_CardinalityType
<1> QED  BY <1>4, <1>5, <1>6, StoreAssumption

LEMMA StoreStepInv == StoreInv /\ [Write \/ Query]_storeVars => StoreInv'
<1> SUFFICES ASSUME StoreInv, [Write \/ Query]_storeVars  PROVE StoreInv'
  OBVIOUS
<1>1. ASSUME NEW u \in User, MarkAllRead(u)  PROVE StoreInv'
  <2>1. Range(byUser[u]) \subseteq DOMAIN owner
    BY DEF StoreInv, StoreTypeOK, IndexesAgree
  <2>2. reply' \in Replies
    BY <1>1, UnreadCounts DEF MarkAllRead, Replies, Answer
  <2> QED  BY <1>1, <2>1, <2>2 DEF MarkAllRead, StoreInv, StoreTypeOK, IndexesAgree
<1>2. ASSUME NEW u \in User, NEW k \in Id, MarkRead(u, k)  PROVE StoreInv'
  <2>1. reply' \in Replies
    BY <1>2, StoreAssumption DEF MarkRead, Replies, Answer
  <2> QED  BY <1>2, <2>1 DEF MarkRead, Owned, StoreInv, StoreTypeOK, IndexesAgree
<1>3. ASSUME NEW u \in User, CountUnread(u)  PROVE StoreInv'
  <2>1. reply' \in Replies
    BY <1>3, UnreadCounts DEF CountUnread, Replies, Answer
  <2> QED  BY <1>3, <2>1 DEF CountUnread, StoreInv, StoreTypeOK, IndexesAgree
<1>4. ASSUME NEW u \in User, NEW k \in Id, GetByID(u, k)  PROVE StoreInv'
  <2>1. reply' \in Replies
    BY <1>4, StoreAssumption DEF GetByID, Replies, Answer, Id
  <2> QED  BY <1>4, <2>1 DEF GetByID, StoreInv, StoreTypeOK, IndexesAgree
<1>5. CASE UNCHANGED storeVars
  BY <1>5 DEF storeVars, StoreInv, StoreTypeOK, IndexesAgree
<1> QED  BY <1>1, <1>2, <1>3, <1>4, <1>5, CreateKeeps, DeleteKeeps DEF Write, Query

-----------------------------------------------------------------------------
(***************************************************************************)
(* The stores keep the promise of Store.                                   *)
(***************************************************************************)

LEMMA InitKeepsPromise == StoreInit => Promise!Init
<1> SUFFICES ASSUME StoreInit PROVE Promise!Init
  OBVIOUS
<1>1. Range(<< >>) = {}
  BY DEF Range
<1> QED  BY <1>1 DEF StoreInit, Promise!Init, Answer, Promise!Answer

LEMMA StepKeepsPromise ==
  StoreInv /\ StoreInv' /\ [Write \/ Query]_storeVars => [Promise!Next]_Promise!vars
<1> SUFFICES ASSUME StoreInv, StoreInv', [Write \/ Query]_storeVars
             PROVE  [Promise!Next]_Promise!vars
  OBVIOUS
<1> DEFINE mine == [u \in User |-> Range(byUser[u])]
           read == [u \in User |-> Range(byUser[u]) \cap isRead]
<1>0. \A u \in User : /\ Range(byUser[u]) = {k \in byID : owner[k] = u}
                      /\ Range(byUser[u])' = {k \in byID' : owner'[k] = u}
                      /\ mine[u] = Range(byUser[u]) /\ mine'[u] = Range(byUser[u])'
                      /\ read[u] = Range(byUser[u]) \cap isRead
                      /\ read'[u] = Range(byUser[u])' \cap isRead'
  BY DEF StoreInv, IndexesAgree
<1>1. ASSUME NEW u \in User, Create(u)  PROVE Promise!Next
  <2> DEFINE k == Len(owner) + 1
  <2>1. k \in Id /\ Len(owner) \in Nat /\ DOMAIN owner = 1 .. Len(owner)
    BY <1>1, LenProperties DEF Create, StoreInv, StoreTypeOK
  <2>2. /\ owner' = Append(owner, u) /\ byID' = byID \cup {k}
        /\ isRead' = isRead /\ reply' = Answer("done", 0)
        /\ k \notin byID /\ k \notin isRead
    BY <1>1, <2>1 DEF Create, StoreInv, StoreTypeOK
  <2>3. owner'[k] = u /\ \A j \in byID : owner'[j] = owner[j]
    BY <2>1, <2>2, LenProperties DEF StoreInv, StoreTypeOK
  <2> HIDE DEF k
  <2>4. \A v \in User : k \notin mine[v]
    BY <1>0, <2>2
  <2>5. mine' = [mine EXCEPT ![u] = @ \cup {k}]
    <3>1. ASSUME NEW v \in User
          PROVE  mine'[v] = IF v = u THEN mine[v] \cup {k} ELSE mine[v]
      <4>1. /\ mine[v] = {j \in byID : owner[j] = v}
            /\ mine'[v] = {j \in byID' : owner'[j] = v}
        BY <1>0
      <4> HIDE DEF mine
      <4>2. CASE v = u  BY <4>1, <4>2, <2>2, <2>3
      <4>3. CASE v # u  BY <4>1, <4>3, <2>2, <2>3
      <4> QED  BY <4>2, <4>3
    <3> QED  BY <3>1
  <2>6. read' = read
    <3>1. \A v \in User : mine'[v] \cap isRead = mine[v] \cap isRead
      BY <2>2, <2>5
    <3>2. \A v \in User : read'[v] = read[v]
      BY <1>0, <2>2, <3>1
    <3> QED  BY <3>2
  <2>7. Promise!Create(u, k)
    BY <2>2, <2>4, <2>5, <2>6 DEF Promise!Create, Answer, Promise!Answer
  <2> QED  BY <2>1, <2>7 DEF Promise!Next, k
<1>2. ASSUME NEW u \in User, MarkAllRead(u)  PROVE Promise!Next
  <2>1. /\ byUser' = byUser /\ byID' = byID /\ owner' = owner
        /\ isRead' = isRead \cup Range(byUser[u])
        /\ reply' = Answer("count", Cardinality(Range(byUser[u]) \ isRead))
    BY <1>2, UnreadCounts DEF MarkAllRead
  <2>2. read' = [read EXCEPT ![u] = mine[u]]
    BY <1>0, <2>1
  <2>3. mine[u] \ read[u] = Range(byUser[u]) \ isRead
    BY <1>0
  <2>4. Promise!MarkAllRead(u)
    BY <2>1, <2>2, <2>3 DEF Promise!MarkAllRead, Promise!Unread, Answer, Promise!Answer, Promise!Cardinality, Cardinality
  <2> QED  BY <2>4 DEF Promise!Next
<1>3. ASSUME NEW u \in User, CountUnread(u)  PROVE Promise!Next
  <2>1. /\ byUser' = byUser /\ isRead' = isRead
        /\ reply' = Answer("count", Cardinality(Range(byUser[u]) \ isRead))
    BY <1>3, UnreadCounts DEF CountUnread
  <2>2. mine[u] \ read[u] = Range(byUser[u]) \ isRead
    BY <1>0
  <2>3. Promise!CountUnread(u)
    BY <2>1, <2>2 DEF Promise!CountUnread, Promise!Unread, Answer, Promise!Answer, Promise!Cardinality, Cardinality
  <2> QED  BY <2>3 DEF Promise!Next
<1>4. ASSUME NEW u \in User, NEW k \in Id, MarkRead(u, k)  PROVE Promise!Next
  <2>1. byUser' = byUser /\ byID' = byID /\ owner' = owner
    BY <1>4 DEF MarkRead
  <2>2. Owned(u, k) <=> k \in mine[u]
    BY <1>0 DEF Owned
  <2>3. CASE Owned(u, k)
    <3>1. isRead' = isRead \cup {k} /\ reply' = Answer("done", 0)
      BY <1>4, <2>3 DEF MarkRead
    <3>2. \A v \in User : v # u => k \notin mine[v]
      BY <1>0, <2>3 DEF Owned
    <3>3. read' = [read EXCEPT ![u] = @ \cup {k}]
      <4>1. \A v \in User : read'[v] = IF v = u THEN read[v] \cup {k} ELSE read[v]
        BY <1>0, <2>1, <2>2, <2>3, <3>1, <3>2
      <4> QED  BY <4>1
    <3>4. Promise!MarkRead(u, k)
      BY <2>1, <2>2, <2>3, <3>1, <3>3 DEF Promise!MarkRead, Answer, Promise!Answer
    <3> QED  BY <3>4 DEF Promise!Next
  <2>4. CASE ~Owned(u, k)
    <3>1. Promise!MarkRead(u, k)
      BY <1>4, <2>1, <2>2, <2>4 DEF MarkRead, Promise!MarkRead, Answer, Promise!Answer
    <3> QED  BY <3>1 DEF Promise!Next
  <2> QED  BY <2>3, <2>4
<1>5. ASSUME NEW u \in User, NEW k \in Id, Delete(u, k)  PROVE Promise!Next
  <2>1. Owned(u, k) <=> k \in mine[u]
    BY <1>0 DEF Owned
  <2>2. CASE Owned(u, k)
    <3>1. /\ byID' = byID \ {k} /\ isRead' = isRead \ {k} /\ owner' = owner
          /\ reply' = Answer("done", 0)
      BY <1>5, <2>2 DEF Delete
    <3>2. \A v \in User : v # u => k \notin mine[v]
      BY <1>0, <2>2 DEF Owned
    <3>3. mine' = [mine EXCEPT ![u] = @ \ {k}]
      <4>1. ASSUME NEW v \in User
            PROVE  mine'[v] = IF v = u THEN mine[v] \ {k} ELSE mine[v]
        <5>1. /\ mine[v] = {j \in byID : owner[j] = v}
              /\ mine'[v] = {j \in byID' : owner'[j] = v}
          BY <1>0
        <5> HIDE DEF mine
        <5>2. CASE v = u  BY <5>1, <5>2, <3>1
        <5>3. CASE v # u  BY <5>1, <5>3, <3>1, <3>2
        <5> QED  BY <5>2, <5>3
      <4> QED  BY <4>1
    <3>4. read' = [read EXCEPT ![u] = @ \ {k}]
      <4>1. \A v \in User : read'[v] = IF v = u THEN read[v] \ {k} ELSE read[v]
        BY <1>0, <3>1, <3>2
      <4> QED  BY <4>1
    <3>5. Promise!Delete(u, k)
      BY <2>1, <2>2, <3>1, <3>3, <3>4 DEF Promise!Delete, Answer, Promise!Answer
    <3> QED  BY <3>5 DEF Promise!Next
  <2>3. CASE ~Owned(u, k)
    <3>1. Promise!Delete(u, k)
      BY <1>5, <2>1, <2>3 DEF Delete, Promise!Delete, Answer, Promise!Answer
    <3> QED  BY <3>1 DEF Promise!Next
  <2> QED  BY <2>2, <2>3
<1>6. ASSUME NEW u \in User, NEW k \in Id, GetByID(u, k)  PROVE Promise!Next
  <2>1. byUser' = byUser /\ isRead' = isRead
    BY <1>6 DEF GetByID
  <2>2. /\ Owned(u, k) <=> k \in mine[u]
        /\ Owned(u, k) => (k \in isRead <=> k \in read[u])
    BY <1>0 DEF Owned
  <2>3. Promise!GetByID(u, k)
    BY <1>6, <2>1, <2>2 DEF GetByID, Promise!GetByID, Answer, Promise!Answer
  <2> QED  BY <2>3 DEF Promise!Next
<1>7. CASE UNCHANGED storeVars
  BY <1>7 DEF storeVars, Promise!vars
<1> QED  BY <1>1, <1>2, <1>3, <1>4, <1>5, <1>6, <1>7 DEF Write, Query
-----------------------------------------------------------------------------
(***************************************************************************)
(* Induction.  The library's induction theorems take the formula to prove  *)
(* as an operator, which the provers cannot instantiate; here it is given  *)
(* as the set of the numbers, or of the sequences, that satisfy it.        *)
(***************************************************************************)

\* A non-empty set of naturals has a least element.
LEMMA LeastNumber ==
  ASSUME NEW T, T \subseteq Nat, T # {}
  PROVE  \E x \in T : \A y \in T : x <= y
<1> DEFINE R == {ss \in Nat \X Nat : ss[1] < ss[2]}
<1>1. IsWellFoundedOn(R, Nat)
  BY NatLessThanWellFounded DEF OpToRel
<1>2. \A x, y \in Nat : <<y, x>> \in R <=> y < x
  OBVIOUS
<1> HIDE DEF R
<1>3. PICK x \in T : \A y \in T : <<y, x>> \notin R
  BY <1>1, WFMin
<1>4. ASSUME NEW y \in T  PROVE x <= y
  <2>1. x \in Nat /\ y \in Nat
    OBVIOUS
  <2>2. ~ (y < x)
    BY <1>2, <1>3, <2>1
  <2> QED  BY <2>1, <2>2
<1> QED  BY <1>3, <1>4

\* A set that holds 0 and the successor of each of its numbers holds them all.
LEMMA NumberInduction ==
  ASSUME NEW T, 0 \in T, \A n \in Nat : n \in T => n + 1 \in T
  PROVE  Nat \subseteq T
<1> SUFFICES ASSUME Nat \ T # {}  PROVE FALSE
  OBVIOUS
<1>1. PICK x \in Nat \ T : \A y \in Nat \ T : x <= y
  <2>1. Nat \ T \subseteq Nat
    OBVIOUS
  <2> QED  BY <2>1, LeastNumber
<1>2. x - 1 \in Nat /\ x - 1 \in T
  BY <1>1
<1> QED  BY <1>1, <1>2

\* A set that holds the empty sequence and, with each of its sequences, those
\* that are longer by one holds all sequences.
LEMMA SequenceInduction ==
  ASSUME NEW S, NEW T, << >> \in T,
         \A s \in Seq(S), e \in S : s \in T => Append(s, e) \in T
  PROVE  Seq(S) \subseteq T
<1> DEFINE N == {n \in Nat : \A s \in Seq(S) : Len(s) = n => s \in T}
<1>1. 0 \in N
  <2>1. \A s \in Seq(S) : Len(s) = 0 => s = << >>
    BY EmptySeq
  <2> QED  BY <2>1
<1>2. ASSUME NEW n \in Nat, n \in N  PROVE n + 1 \in N
  <2> SUFFICES ASSUME NEW s \in Seq(S), Len(s) = n + 1  PROVE s \in T
    BY <1>2
  <2> DEFINE f == SubSeq(s, 1, n)
             e == s[n + 1]
  <2>1. e \in S /\ f \in Seq(S) /\ Len(f) = n /\ \A i \in 1 .. n : f[i] = s[i]
    BY SubSeqProperties, LenProperties
  <2> HIDE DEF f, e
  <2>2. s = Append(f, e)
    <3>1. /\ Append(f, e) \in Seq(S) /\ Len(Append(f, e)) = n + 1
          /\ Append(f, e)[n + 1] = e /\ \A i \in 1 .. n : Append(f, e)[i] = f[i]
      BY <2>1, AppendProperties
    <3>2. \A i \in 1 .. n + 1 : Append(f, e)[i] = s[i]
      BY <2>1, <3>1 DEF e
    <3> QED  BY <3>1, <3>2, SeqEqual
  <2> QED  BY <1>2, <2>1, <2>2
<1>3. Nat \subseteq N
  <2> HIDE DEF N
  <2> QED  BY <1>1, <1>2, NumberInduction
<1>4. \A s \in Seq(S) : s \in T
  BY <1>3, LenProperties
<1> QED  BY <1>4

-----------------------------------------------------------------------------
(***************************************************************************)
(* What the filter of a listing returns.                                   *)
(***************************************************************************)

\* f filters the first i rows of the list, for every i up to n.
Filters(f, n, list, readOnes, unread) ==
  f = [i \in 0 .. n |->
         IF i = 0 THEN <<>>
         ELSE IF unread /\ list[i] \in readOnes THEN f[i - 1]
         ELSE Append(f[i - 1], list[i])]

\* The recursion of Filtered defines a function.
LEMMA FiltersExists ==
  ASSUME NEW list, NEW R, NEW b, NEW m \in Nat
  PROVE  \E f : Filters(f, m, list, R, b)
<1> DEFINE T == {n \in Nat : \E f : Filters(f, n, list, R, b)}
<1>1. 0 \in T
  <2>1. Filters([i \in 0 .. 0 |-> <<>>], 0, list, R, b)
    BY DEF Filters
  <2> QED  BY <2>1
<1>2. ASSUME NEW n \in Nat, n \in T  PROVE n + 1 \in T
  <2>1. PICK f : Filters(f, n, list, R, b)
    BY <1>2
  <2> DEFINE last == IF b /\ list[n + 1] \in R THEN f[n] ELSE Append(f[n], list[n + 1])
             g == [i \in 0 .. n + 1 |-> IF i = n + 1 THEN last ELSE f[i]]
  <2>2. \A i \in 0 .. n : f[i] = IF i = 0 THEN <<>>
                                 ELSE IF b /\ list[i] \in R THEN f[i - 1]
                                 ELSE Append(f[i - 1], list[i])
    BY <2>1 DEF Filters
  <2>3. g[n + 1] = last /\ \A i \in 0 .. n : g[i] = f[i]
    OBVIOUS
  <2>4. \A i \in 0 .. n + 1 : g[i] = IF i = 0 THEN <<>>
                                     ELSE IF b /\ list[i] \in R THEN g[i - 1]
                                     ELSE Append(g[i - 1], list[i])
    <3>1. ASSUME NEW i \in 0 .. n
          PROVE  g[i] = IF i = 0 THEN <<>>
                        ELSE IF b /\ list[i] \in R THEN g[i - 1]
                        ELSE Append(g[i - 1], list[i])
      <4>1. i # 0 => i - 1 \in 0 .. n
        OBVIOUS
      <4> HIDE DEF g
      <4> QED  BY <4>1, <2>2, <2>3
    <3>2. g[n + 1] = IF b /\ list[n + 1] \in R THEN g[n + 1 - 1]
                     ELSE Append(g[n + 1 - 1], list[n + 1])
      <4>1. n + 1 - 1 = n /\ g[n] = f[n]
        BY <2>3
      <4> HIDE DEF g
      <4> QED  BY <4>1, <2>3
    <3> HIDE DEF g
    <3> QED  BY <3>1, <3>2
  <2>5. Filters(g, n + 1, list, R, b)
    <3>1. g = [i \in 0 .. n + 1 |-> g[i]]
      OBVIOUS
    <3> HIDE DEF g
    <3> QED  BY <3>1, <2>4 DEF Filters
  <2> QED  BY <2>5
<1>3. Nat \subseteq T
  <2> HIDE DEF T
  <2> QED  BY <1>1, <1>2, NumberInduction
<1> QED  BY <1>3

\* So Filtered returns what one such function has for the whole list.
LEMMA FilteredIs ==
  ASSUME NEW S, NEW list \in Seq(S), NEW R, NEW b
  PROVE  \E f : Filters(f, Len(list), list, R, b) /\ Filtered(list, R, b) = f[Len(list)]
<1>1. \E f : Filters(f, Len(list), list, R, b)
  BY FiltersExists, LenProperties
<1> QED  BY <1>1 DEF Filtered, Filters

\* Two of them agree as far as their lists do.
LEMMA FiltersAgree ==
  ASSUME NEW list, NEW other, NEW R, NEW b, NEW f, NEW g, NEW n \in Nat, NEW m \in Nat,
         Filters(f, n, list, R, b), Filters(g, m, other, R, b), n <= m,
         \A i \in 1 .. n : list[i] = other[i]
  PROVE  f[n] = g[n]
<1> DEFINE T == {i \in Nat : i <= n => f[i] = g[i]}
<1>1. /\ \A i \in 0 .. n : f[i] = IF i = 0 THEN <<>>
                                  ELSE IF b /\ list[i] \in R THEN f[i - 1]
                                  ELSE Append(f[i - 1], list[i])
      /\ \A i \in 0 .. m : g[i] = IF i = 0 THEN <<>>
                                  ELSE IF b /\ other[i] \in R THEN g[i - 1]
                                  ELSE Append(g[i - 1], other[i])
  BY DEF Filters
<1>2. 0 \in T
  BY <1>1
<1>3. ASSUME NEW i \in Nat, i \in T  PROVE i + 1 \in T
  <2> SUFFICES ASSUME i + 1 <= n  PROVE f[i + 1] = g[i + 1]
    OBVIOUS
  <2>1. f[i] = g[i] /\ i + 1 \in 1 .. n /\ i + 1 - 1 = i /\ i + 1 # 0
        /\ i + 1 \in 0 .. n /\ i + 1 \in 0 .. m
    BY <1>3
  <2>2. f[i + 1] = IF b /\ list[i + 1] \in R THEN f[i] ELSE Append(f[i], list[i + 1])
    BY <1>1, <2>1
  <2>3. g[i + 1] = IF b /\ other[i + 1] \in R THEN g[i] ELSE Append(g[i], other[i + 1])
    BY <1>1, <2>1
  <2> QED  BY <2>1, <2>2, <2>3
<1>4. Nat \subseteq T
  <2> HIDE DEF T
  <2> QED  BY <1>2, <1>3, NumberInduction
<1> QED  BY <1>4

\* The empty list filters to itself,
LEMMA FilteredEmpty == ASSUME NEW R, NEW b PROVE Filtered(<< >>, R, b) = << >>
<1>1. << >> \in Seq({}) /\ Len(<< >>) = 0
  BY EmptySeq
<1>2. PICK f : Filters(f, 0, << >>, R, b) /\ Filtered(<< >>, R, b) = f[0]
  BY <1>1, FilteredIs
<1> QED  BY <1>2 DEF Filters

\* and one row more is skipped or added last.
LEMMA FilteredStep ==
  ASSUME NEW S, NEW list \in Seq(S), NEW e \in S, NEW R, NEW b
  PROVE  Filtered(Append(list, e), R, b) =
           IF b /\ e \in R THEN Filtered(list, R, b) ELSE Append(Filtered(list, R, b), e)
<1> DEFINE n == Len(list)
           more == Append(list, e)
<1>2. /\ n \in Nat /\ more \in Seq(S) /\ Len(more) = n + 1 /\ more[n + 1] = e
      /\ \A i \in 1 .. n : list[i] = more[i]
  BY LenProperties, AppendProperties
<1>3. PICK f : Filters(f, n, list, R, b) /\ Filtered(list, R, b) = f[n]
  BY FilteredIs
<1>4. PICK g : Filters(g, n + 1, more, R, b) /\ Filtered(more, R, b) = g[n + 1]
  BY <1>2, FilteredIs
<1> HIDE DEF n, more
<1>5. f[n] = g[n]
  <2> DEFINE m == n + 1
  <2>1. n \in Nat /\ m \in Nat /\ n <= m
    BY <1>2
  <2>2. Filters(f, n, list, R, b) /\ Filters(g, m, more, R, b)
    BY <1>3, <1>4
  <2>3. \A i \in 1 .. n : list[i] = more[i]
    BY <1>2
  <2> HIDE DEF m
  <2>4. ASSUME NEW k \in Nat, NEW h, NEW other, n <= k, Filters(h, k, other, R, b),
               \A i \in 1 .. n : list[i] = other[i]
        PROVE  f[n] = h[n]
    BY <2>1, <2>2, <2>4, FiltersAgree
  <2> QED  BY <2>1, <2>2, <2>3, <2>4
<1>6. n + 1 \in 0 .. n + 1 /\ n + 1 # 0 /\ n + 1 - 1 = n
  BY <1>2
<1>7. g[n + 1] = IF b /\ e \in R THEN g[n] ELSE Append(g[n], e)
  <2>1. \A i \in 0 .. n + 1 : g[i] = IF i = 0 THEN <<>>
                                     ELSE IF b /\ more[i] \in R THEN g[i - 1]
                                     ELSE Append(g[i - 1], more[i])
    BY <1>4 DEF Filters
  <2> QED  BY <2>1, <1>2, <1>6
<1>8. Filtered(more, R, b) = IF b /\ e \in R THEN Filtered(list, R, b)
                             ELSE Append(Filtered(list, R, b), e)
  BY <1>3, <1>4, <1>5, <1>7
<1> QED  BY <1>8 DEF more

\* A list that repeats nothing does not hold its last element before.
LEMMA InjectiveAppend ==
  ASSUME NEW S, NEW s \in Seq(S), NEW e \in S, IsInjective(Append(s, e))
  PROVE  IsInjective(s) /\ e \notin Range(s)
<1> DEFINE t == Append(s, e)
<1>1. /\ Len(s) \in Nat /\ DOMAIN s = 1 .. Len(s)
      /\ DOMAIN t = 1 .. Len(s) + 1
      /\ t[Len(s) + 1] = e
      /\ \A i \in 1 .. Len(s) : t[i] = s[i]
  BY LenProperties
<1>2. \A i, j \in DOMAIN t : t[i] = t[j] => i = j
  BY DEF IsInjective
<1> HIDE DEF t
<1>3. IsInjective(s)
  BY <1>1, <1>2 DEF IsInjective
<1>4. \A i \in DOMAIN s : s[i] # e
  BY <1>1, <1>2
<1> QED  BY <1>3, <1>4 DEF Range

LEMMA ConcatAppend ==
  ASSUME NEW S, NEW s \in Seq(S), NEW t \in Seq(S), NEW e \in S
  PROVE  s \o Append(t, e) = Append(s \o t, e)
<1>1. <<e>> \in Seq(S) /\ s \o t \in Seq(S)
  BY ConcatProperties
<1>2. Append(t, e) = t \o <<e>> /\ Append(s \o t, e) = (s \o t) \o <<e>>
  BY <1>1, AppendIsConcat
<1> QED  BY <1>1, <1>2, ConcatAssociative

\* A filtered list holds the rows that pass, and repeats one only if the list does.
LEMMA FilteredProperties ==
  ASSUME NEW S, NEW list \in Seq(S), NEW R, NEW b
  PROVE  /\ Filtered(list, R, b) \in Seq(S)
         /\ Range(Filtered(list, R, b)) = {k \in Range(list) : ~(b /\ k \in R)}
         /\ IsInjective(list) => IsInjective(Filtered(list, R, b))
<1> DEFINE Good(s) == /\ Filtered(s, R, b) \in Seq(S)
                      /\ Range(Filtered(s, R, b)) = {k \in Range(s) : ~(b /\ k \in R)}
                      /\ IsInjective(s) => IsInjective(Filtered(s, R, b))
           T == {s \in Seq(S) : Good(s)}
<1>1. << >> \in T
  <2>1. Filtered(<< >>, R, b) = << >>
    BY FilteredEmpty, EmptySeq
  <2>2. Range(<< >>) = {} /\ << >> \in Seq(S)
    BY EmptySeq DEF Range
  <2> QED  BY <2>1, <2>2
<1>2. ASSUME NEW s \in Seq(S), NEW e \in S, Good(s)  PROVE Good(Append(s, e))
  <2> DEFINE F == Filtered(s, R, b)
             G == Filtered(Append(s, e), R, b)
  <2>1. G = IF b /\ e \in R THEN F ELSE Append(F, e)
    BY FilteredStep
  <2>2. /\ F \in Seq(S) /\ Range(F) = {k \in Range(s) : ~(b /\ k \in R)}
        /\ IsInjective(s) => IsInjective(F)
    BY <1>2
  <2>3. Range(Append(s, e)) = Range(s) \cup {e}
    BY AppendAdds
  <2>4. IsInjective(Append(s, e)) => IsInjective(s) /\ e \notin Range(s)
    BY InjectiveAppend
  <2> HIDE DEF F, G
  <2>5. CASE b /\ e \in R
    <3>1. G = F
      BY <2>1, <2>5
    <3>2. Range(G) = {k \in Range(Append(s, e)) : ~(b /\ k \in R)}
      BY <2>2, <2>3, <2>5, <3>1
    <3>3. IsInjective(Append(s, e)) => IsInjective(G)
      BY <2>2, <2>4, <3>1
    <3> QED  BY <3>1, <3>2, <3>3, <2>2 DEF G
  <2>6. CASE ~(b /\ e \in R)
    <3>1. G = Append(F, e) /\ G \in Seq(S)
      BY <2>1, <2>2, <2>6, AppendProperties
    <3>2. Range(G) = Range(F) \cup {e}
      BY <3>1, <2>2, AppendAdds
    <3>3. Range(G) = {k \in Range(Append(s, e)) : ~(b /\ k \in R)}
      BY <2>2, <2>3, <2>6, <3>2
    <3>4. ASSUME IsInjective(Append(s, e))  PROVE IsInjective(G)
      <4>1. IsInjective(F) /\ e \notin Range(F)
        BY <2>2, <2>4, <3>4
      <4> QED  BY <4>1, <3>1, <2>2, AppendAdds
    <3> QED  BY <3>1, <3>3, <3>4 DEF G
  <2> QED  BY <2>5, <2>6
<1>3. Seq(S) \subseteq T
  <2>1. \A s \in Seq(S), e \in S : s \in T => Append(s, e) \in T
    BY <1>2, AppendProperties
  <2> HIDE DEF T
  <2> QED  BY <1>1, <2>1, SequenceInduction
<1> QED  BY <1>3

\* Only what the filter makes of the rows of the list matters.
LEMMA FilteredAlike ==
  ASSUME NEW S, NEW list \in Seq(S), NEW R, NEW R2, NEW b,
         \A k \in Range(list) : b => (k \in R <=> k \in R2)
  PROVE  Filtered(list, R, b) = Filtered(list, R2, b)
<1> DEFINE Alike(s) == \A k \in Range(s) : b => (k \in R <=> k \in R2)
           Same(s) == Filtered(s, R, b) = Filtered(s, R2, b)
           T == {s \in Seq(S) : Alike(s) => Same(s)}
<1>1. << >> \in T
  <2>1. Same(<< >>) /\ << >> \in Seq(S)
    BY FilteredEmpty, EmptySeq
  <2> QED  BY <2>1
<1>2. ASSUME NEW s \in Seq(S), NEW e \in S, s \in T  PROVE Append(s, e) \in T
  <2>1. Append(s, e) \in Seq(S) /\ Range(Append(s, e)) = Range(s) \cup {e}
    BY AppendProperties, AppendAdds
  <2> SUFFICES ASSUME Alike(Append(s, e))  PROVE Same(Append(s, e))
    BY <2>1
  <2>2. Same(s) /\ (b => (e \in R <=> e \in R2))
    BY <1>2, <2>1
  <2>3. /\ Filtered(Append(s, e), R, b) =
             IF b /\ e \in R THEN Filtered(s, R, b) ELSE Append(Filtered(s, R, b), e)
        /\ Filtered(Append(s, e), R2, b) =
             IF b /\ e \in R2 THEN Filtered(s, R2, b) ELSE Append(Filtered(s, R2, b), e)
    BY FilteredStep
  <2> QED  BY <2>2, <2>3
<1>3. Seq(S) \subseteq T
  <2> HIDE DEF T
  <2> QED  BY <1>1, <1>2, SequenceInduction
<1> QED  BY <1>3

\* A list is filtered part by part.
LEMMA FilteredConcat ==
  ASSUME NEW S, NEW front \in Seq(S), NEW back \in Seq(S), NEW R, NEW b
  PROVE  Filtered(front \o back, R, b) = Filtered(front, R, b) \o Filtered(back, R, b)
<1> DEFINE F(s) == Filtered(s, R, b)
           Apart(s) == F(front \o s) = F(front) \o F(s)
           T == {s \in Seq(S) : Apart(s)}
<1>0. \A s \in Seq(S) : F(s) \in Seq(S)
  BY FilteredProperties
<1>1. << >> \in T
  <2>1. F(<< >>) = << >> /\ << >> \in Seq(S)
    BY FilteredEmpty, EmptySeq
  <2>2. front \o << >> = front /\ F(front) \o << >> = F(front)
    BY <1>0, ConcatEmptySeq
  <2> QED  BY <2>1, <2>2
<1>2. ASSUME NEW s \in Seq(S), NEW e \in S, s \in T  PROVE Append(s, e) \in T
  <2>1. /\ Append(s, e) \in Seq(S) /\ front \o s \in Seq(S)
        /\ front \o Append(s, e) = Append(front \o s, e)
    BY ConcatAppend, AppendProperties, ConcatProperties
  <2>2. F(front) \in Seq(S) /\ F(s) \in Seq(S)
    BY <1>0
  <2>3. F(front) \o Append(F(s), e) = Append(F(front) \o F(s), e)
    <3> HIDE DEF F
    <3> QED  BY <2>2, ConcatAppend
  <2>4. /\ Filtered(Append(s, e), R, b) =
             IF b /\ e \in R THEN Filtered(s, R, b) ELSE Append(Filtered(s, R, b), e)
        /\ Filtered(Append(front \o s, e), R, b) =
             IF b /\ e \in R THEN Filtered(front \o s, R, b)
             ELSE Append(Filtered(front \o s, R, b), e)
    <3>1. ASSUME NEW q \in Seq(S)
          PROVE  Filtered(Append(q, e), R, b) =
                   IF b /\ e \in R THEN Filtered(q, R, b) ELSE Append(Filtered(q, R, b), e)
      BY FilteredStep
    <3> QED  BY <2>1, <3>1
  <2>5. Apart(s)
    BY <1>2
  <2>6. Apart(Append(s, e))
    <3>1. CASE b /\ e \in R  BY <2>1, <2>4, <2>5, <3>1
    <3>2. CASE ~(b /\ e \in R)  BY <2>1, <2>3, <2>4, <2>5, <3>2
    <3> QED  BY <3>1, <3>2
  <2> QED  BY <2>1, <2>6
<1>3. Seq(S) \subseteq T
  <2> HIDE DEF T
  <2> QED  BY <1>1, <1>2, SequenceInduction
<1> QED  BY <1>3

-----------------------------------------------------------------------------
(***************************************************************************)
(* What a change of a list does to the rows that are still to be shown.    *)
(***************************************************************************)

\* The rows after the first n, those a walk that has shown n places expects.
Beyond(rows, n) == {rows[i] : i \in n + 1 .. Len(rows)}

\* new is old with the row e put in at some place.
IsInsertion(S, old, new, e) ==
  \E P, Q \in Seq(S) : old = P \o Q /\ new = Append(P, e) \o Q

\* A row that is inserted pushes at most one row, the last of the first n or
\* itself, beyond them, and pulls none back.  Removing it undoes this.
LEMMA BeyondInserted ==
  ASSUME NEW S, NEW old, NEW new, NEW e \in S, NEW n \in Nat,
         IsInsertion(S, old, new, e)
  PROVE  /\ old \in Seq(S) /\ new \in Seq(S)
         /\ Len(old) \in Nat /\ Len(new) = Len(old) + 1
         /\ Range(new) = Range(old) \cup {e}
         /\ Beyond(old, n) \subseteq Beyond(new, n)
         /\ \E x \in S : Beyond(new, n) \subseteq Beyond(old, n) \cup {x}
<1>0. PICK P, Q \in Seq(S) : old = P \o Q /\ new = Append(P, e) \o Q
  BY DEF IsInsertion
<1> DEFINE one == Append(P, e)
           p == Len(P)
           q == Len(Q)
<1>1. /\ p \in Nat /\ q \in Nat
      /\ old \in Seq(S) /\ Len(old) = p + q
      /\ \A i \in 1 .. p : old[i] = P[i]
      /\ \A i \in 1 .. q : old[p + i] = Q[i]
  <2>1. /\ p \in Nat /\ q \in Nat /\ old \in Seq(S) /\ Len(old) = p + q
        /\ \A i \in 1 .. p + q : old[i] = IF i <= p THEN P[i] ELSE Q[i - p]
    BY <1>0, ConcatProperties, LenProperties
  <2> HIDE DEF p, q
  <2>2. ASSUME NEW i \in 1 .. q  PROVE old[p + i] = Q[i]
    <3>1. p + i \in 1 .. p + q /\ ~(p + i <= p) /\ (p + i) - p = i
      BY <2>1
    <3> QED  BY <2>1, <3>1
  <2> QED  BY <2>1, <2>2
<1>2. /\ one \in Seq(S) /\ Len(one) = p + 1 /\ one[p + 1] = e
      /\ \A i \in 1 .. p : one[i] = P[i]
  BY AppendProperties
<1>3. /\ new \in Seq(S) /\ Len(new) = p + 1 + q
      /\ \A i \in 1 .. p : new[i] = P[i]
      /\ new[p + 1] = e
      /\ \A i \in 1 .. q : new[p + 1 + i] = Q[i]
  <2>1. /\ new \in Seq(S) /\ Len(new) = Len(one) + q
        /\ \A i \in 1 .. Len(one) + q : new[i] = IF i <= Len(one) THEN one[i] ELSE Q[i - Len(one)]
    BY <1>0, <1>2, ConcatProperties
  <2> HIDE DEF one, p, q
  <2>2. \A i \in 1 .. p + 1 + q : new[i] = IF i <= p + 1 THEN one[i] ELSE Q[i - (p + 1)]
    BY <2>1, <1>2
  <2>3. ASSUME NEW i \in 1 .. q  PROVE new[p + 1 + i] = Q[i]
    <3>1. p + 1 + i \in 1 .. p + 1 + q /\ ~(p + 1 + i <= p + 1) /\ (p + 1 + i) - (p + 1) = i
      BY <1>1
    <3> QED  BY <2>2, <3>1
  <2>4. \A i \in 1 .. p + 1 : new[i] = one[i]
    BY <2>2, <1>1
  <2> QED  BY <1>1, <1>2, <2>1, <2>3, <2>4
<1> HIDE DEF one, p, q
<1>4. DOMAIN old = 1 .. p + q /\ DOMAIN new = 1 .. p + 1 + q
  BY <1>1, <1>3, LenProperties
<1> DEFINE To(i) == IF i <= p THEN i ELSE i + 1
<1>5. \A i \in 1 .. p + q : /\ To(i) \in 1 .. p + 1 + q /\ To(i) >= i /\ To(i) # p + 1
                           /\ new[To(i)] = old[i]
  <2> TAKE i \in 1 .. p + q
  <2>1. CASE i <= p  BY <2>1, <1>1, <1>3
  <2>2. CASE ~(i <= p)
    <3> DEFINE d == i - p
    <3>1. d \in 1 .. q /\ p + d = i /\ p + 1 + d = i + 1
      BY <1>1, <2>2
    <3> HIDE DEF d
    <3>2. old[i] = Q[d] /\ new[i + 1] = Q[d]
      BY <3>1, <1>1, <1>3
    <3>3. To(i) = i + 1 /\ i + 1 \in 1 .. p + 1 + q /\ i + 1 # p + 1
      BY <2>2, <1>1
    <3> HIDE DEF To
    <3> QED  BY <3>2, <3>3
  <2> QED  BY <2>1, <2>2
<1>6. \A j \in 1 .. p + 1 + q : j # p + 1 => \E i \in 1 .. p + q : To(i) = j
  <2> TAKE j \in 1 .. p + 1 + q
  <2> HAVE j # p + 1
  <2>1. CASE j <= p
    <3>1. j \in 1 .. p + q /\ To(j) = j
      BY <2>1, <1>1
    <3> QED  BY <3>1
  <2>2. CASE ~(j <= p)
    <3>1. j - 1 \in 1 .. p + q /\ ~(j - 1 <= p) /\ j - 1 + 1 = j
      BY <2>2, <1>1
    <3>2. To(j - 1) = j
      BY <3>1
    <3> HIDE DEF To
    <3> QED  BY <3>1, <3>2
  <2> QED  BY <2>1, <2>2
<1>7. \A i \in 1 .. p + q, j \in 1 .. p + 1 + q : To(i) = j => i = j \/ i + 1 = j
  OBVIOUS
<1> HIDE DEF To
<1>8. Range(new) = Range(old) \cup {e}
  <2>1. \A j \in 1 .. p + 1 + q : new[j] \in Range(old) \cup {e}
    <3> TAKE j \in 1 .. p + 1 + q
    <3>1. CASE j = p + 1  BY <3>1, <1>3
    <3>2. CASE j # p + 1
      <4>1. PICK i \in 1 .. p + q : To(i) = j
        BY <3>2, <1>6
      <4> QED  BY <4>1, <1>4, <1>5 DEF Range
    <3> QED  BY <3>1, <3>2
  <2>2. \A i \in 1 .. p + q : old[i] \in Range(new)
    BY <1>4, <1>5 DEF Range
  <2>3. e \in Range(new)
    BY <1>1, <1>3, <1>4 DEF Range
  <2> QED  BY <2>1, <2>2, <2>3, <1>4 DEF Range
<1>9. Beyond(old, n) \subseteq Beyond(new, n)
  <2> SUFFICES ASSUME NEW i \in n + 1 .. p + q  PROVE old[i] \in Beyond(new, n)
    BY <1>1 DEF Beyond
  <2>1. i \in 1 .. p + q
    BY <1>1
  <2>2. To(i) \in n + 1 .. p + 1 + q /\ new[To(i)] = old[i]
    BY <1>1, <1>5, <2>1
  <2> QED  BY <2>2, <1>3 DEF Beyond
<1>10. ASSUME NEW j \in n + 1 .. p + 1 + q
       PROVE  \/ new[j] \in Beyond(old, n)
              \/ j = p + 1
              \/ (j = n + 1 /\ n + 1 > p + 1)
  <2>1. CASE j = p + 1  BY <2>1
  <2>2. CASE j # p + 1
    <3>1. j \in 1 .. p + 1 + q
      BY <1>1
    <3>2. PICK i \in 1 .. p + q : To(i) = j
      BY <2>2, <1>6, <3>1
    <3>3. CASE i >= n + 1
      <4>1. i \in n + 1 .. Len(old) /\ new[j] = old[i]
        BY <3>2, <3>3, <1>1, <1>5
      <4> QED  BY <4>1 DEF Beyond
    <3>4. CASE ~(i >= n + 1)
      <4>1. i + 1 = j /\ j = n + 1
        BY <3>1, <3>2, <3>4, <1>1, <1>7
      <4>2. ~(i <= p)
        BY <3>2, <4>1, <1>1 DEF To
      <4> QED  BY <4>1, <4>2, <1>1
    <3> QED  BY <3>3, <3>4
  <2> QED  BY <2>1, <2>2
<1>11. Beyond(new, n) \subseteq Beyond(old, n) \cup {new[IF n <= p THEN p + 1 ELSE n + 1]}
  <2> DEFINE x == new[IF n <= p THEN p + 1 ELSE n + 1]
  <2>1. ASSUME NEW j \in n + 1 .. Len(new)  PROVE new[j] \in Beyond(old, n) \cup {x}
    <3>1. \/ new[j] \in Beyond(old, n)
          \/ j = p + 1
          \/ (j = n + 1 /\ n + 1 > p + 1)
      BY <1>3, <1>10
    <3>2. j >= n + 1
      BY <1>1, <1>3
    <3>3. CASE j = p + 1
      <4>1. n <= p
        BY <3>2, <3>3, <1>1
      <4> QED  BY <4>1, <3>3
    <3>4. CASE j = n + 1 /\ n + 1 > p + 1
      <4>1. ~(n <= p)
        BY <3>4, <1>1
      <4> QED  BY <4>1, <3>4
    <3> QED  BY <3>1, <3>3, <3>4
  <2> HIDE DEF x
  <2>2. Beyond(new, n) \subseteq Beyond(old, n) \cup {x}
    BY <2>1 DEF Beyond
  <2> QED  BY <2>2 DEF x
<1>14. \E x \in S : Beyond(new, n) \subseteq Beyond(old, n) \cup {x}
  <2>1. CASE n <= p  BY <2>1, <1>3, <1>11
  <2>2. CASE ~(n <= p)
    <3>1. CASE n + 1 <= Len(new)
      <4>1. new[n + 1] \in S
        BY <1>3, <3>1, ElementOfSeq
      <4> QED  BY <4>1, <2>2, <1>11
    <3>2. CASE ~(n + 1 <= Len(new))
      <4>1. Len(new) \in Nat /\ \A j \in n + 1 .. Len(new) : FALSE
        BY <3>2, <1>1, <1>3
      <4>2. Beyond(new, n) = {}
        BY <4>1 DEF Beyond
      <4> QED  BY <4>2
    <3> QED  BY <3>1, <3>2
  <2> QED  BY <2>1, <2>2
<1>12. Len(old) \in Nat /\ Len(new) = Len(old) + 1
  BY <1>1, <1>3
<1> QED  BY <1>1, <1>3, <1>8, <1>9, <1>14, <1>12

\* A set covered by two finite ones is no larger than both together.
LEMMA CardinalityCovered ==
  ASSUME NEW A, NEW B, NEW C, IsFiniteSet(B), IsFiniteSet(C), A \subseteq B \cup C
  PROVE  /\ IsFiniteSet(A)
         /\ Cardinality(A) \in Nat /\ Cardinality(B) \in Nat /\ Cardinality(C) \in Nat
         /\ Cardinality(A) <= Cardinality(B) + Cardinality(C)
<1>1. /\ IsFiniteSet(B \cup C)
      /\ Cardinality(B \cup C) = Cardinality(B) + Cardinality(C) - Cardinality(B \cap C)
  BY FS_Union
<1>2. IsFiniteSet(B \cap C)
  <2>1. B \cap C \subseteq B
    OBVIOUS
  <2> QED  BY <2>1, FS_Subset
<1>3. IsFiniteSet(A) /\ Cardinality(A) <= Cardinality(B \cup C)
  BY <1>1, FS_Subset
<1>4. /\ Cardinality(A) \in Nat /\ Cardinality(B) \in Nat /\ Cardinality(C) \in Nat
      /\ Cardinality(B \cap C) \in Nat /\ Cardinality(B \cup C) \in Nat
  BY <1>1, <1>2, <1>3, FS_CardinalityType
<1> QED  BY <1>1, <1>3, <1>4

\* What a change of a list costs a walk that has shown n places: of any rows,
\* the list has beyond the n at most as many more as rows were added, unless
\* they are those added, and at most as many fewer as rows were removed.
Costs(old, new, n) ==
  LET came == Range(new) \ Range(old)
      left == Range(old) \ Range(new)
  IN  /\ IsFiniteSet(came) /\ IsFiniteSet(left)
      /\ Len(old) \in Nat /\ Len(new) \in Nat
      /\ Len(new) <= Len(old) + Cardinality(came)
      /\ \A X : IsFiniteSet(X) =>
           /\ Cardinality(X \cap Beyond(new, n))
                <= Cardinality(X \cap Beyond(old, n)) + Cardinality(came)
           /\ Cardinality(X \ Beyond(new, n))
                <= Cardinality(X \ Beyond(old, n)) + Cardinality(left)

LEMMA CostOfNone ==
  ASSUME NEW S, NEW s \in Seq(S), NEW n \in Nat
  PROVE  Costs(s, s, n)
<1>1. Len(s) \in Nat /\ Range(s) \ Range(s) = {}
  BY LenProperties
<1>2. IsFiniteSet({}) /\ Cardinality({}) = 0
  BY FS_EmptySet
<1>3. ASSUME NEW X, IsFiniteSet(X)
      PROVE  /\ Cardinality(X \cap Beyond(s, n)) \in Nat
             /\ Cardinality(X \ Beyond(s, n)) \in Nat
  <2>1. X \cap Beyond(s, n) \subseteq X /\ X \ Beyond(s, n) \subseteq X
    OBVIOUS
  <2> QED  BY <2>1, <1>3, FS_Subset, FS_CardinalityType
<1>4. ASSUME NEW X, IsFiniteSet(X)
      PROVE  /\ Cardinality(X \cap Beyond(s, n)) <= Cardinality(X \cap Beyond(s, n)) + 0
             /\ Cardinality(X \ Beyond(s, n)) <= Cardinality(X \ Beyond(s, n)) + 0
  <2>1. Cardinality(X \cap Beyond(s, n)) \in Nat /\ Cardinality(X \ Beyond(s, n)) \in Nat
    BY <1>3, <1>4
  <2> QED  BY <2>1
<1>5. Len(s) <= Len(s) + 0
  BY <1>1
<1> QED  BY <1>1, <1>2, <1>4, <1>5 DEF Costs

LEMMA CostOfInsertion ==
  ASSUME NEW S, NEW old, NEW new, NEW e \in S, NEW n \in Nat,
         IsInsertion(S, old, new, e), e \notin Range(old)
  PROVE  Costs(old, new, n) /\ Costs(new, old, n)
<1>1. /\ Len(old) \in Nat /\ Len(new) = Len(old) + 1
      /\ Range(new) = Range(old) \cup {e}
      /\ Beyond(old, n) \subseteq Beyond(new, n)
      /\ \E x \in S : Beyond(new, n) \subseteq Beyond(old, n) \cup {x}
  BY BeyondInserted
<1>2. PICK x \in S : Beyond(new, n) \subseteq Beyond(old, n) \cup {x}
  BY <1>1
<1>4. Range(new) \ Range(old) = {e} /\ Range(old) \ Range(new) = {}
  BY <1>1
<1>5. /\ IsFiniteSet({}) /\ Cardinality({}) = 0
      /\ IsFiniteSet({e}) /\ Cardinality({e}) = 1
      /\ IsFiniteSet({x}) /\ Cardinality({x}) = 1
  BY FS_EmptySet, FS_Singleton
<1>6. ASSUME NEW X, IsFiniteSet(X)
      PROVE  /\ Cardinality(X \cap Beyond(new, n)) <= Cardinality(X \cap Beyond(old, n)) + 1
             /\ Cardinality(X \cap Beyond(old, n)) <= Cardinality(X \cap Beyond(new, n)) + 0
             /\ Cardinality(X \ Beyond(new, n)) <= Cardinality(X \ Beyond(old, n)) + 0
             /\ Cardinality(X \ Beyond(old, n)) <= Cardinality(X \ Beyond(new, n)) + 1
  <2>1. /\ X \cap Beyond(new, n) \subseteq (X \cap Beyond(old, n)) \cup {x}
        /\ X \cap Beyond(old, n) \subseteq (X \cap Beyond(new, n)) \cup {}
        /\ X \ Beyond(new, n) \subseteq (X \ Beyond(old, n)) \cup {}
        /\ X \ Beyond(old, n) \subseteq (X \ Beyond(new, n)) \cup {x}
    BY <1>1, <1>2
  <2>2. /\ IsFiniteSet(X \cap Beyond(new, n)) /\ IsFiniteSet(X \cap Beyond(old, n))
        /\ IsFiniteSet(X \ Beyond(new, n)) /\ IsFiniteSet(X \ Beyond(old, n))
    <3>1. /\ X \cap Beyond(new, n) \subseteq X /\ X \cap Beyond(old, n) \subseteq X
          /\ X \ Beyond(new, n) \subseteq X /\ X \ Beyond(old, n) \subseteq X
      OBVIOUS
    <3> QED  BY <3>1, <1>6, FS_Subset
  <2>3. Cardinality(X \cap Beyond(new, n)) <= Cardinality(X \cap Beyond(old, n)) + 1
    BY <2>1, <2>2, <1>5, CardinalityCovered
  <2>4. Cardinality(X \cap Beyond(old, n)) <= Cardinality(X \cap Beyond(new, n)) + 0
    BY <2>1, <2>2, <1>5, CardinalityCovered
  <2>5. Cardinality(X \ Beyond(new, n)) <= Cardinality(X \ Beyond(old, n)) + 0
    BY <2>1, <2>2, <1>5, CardinalityCovered
  <2>6. Cardinality(X \ Beyond(old, n)) <= Cardinality(X \ Beyond(new, n)) + 1
    BY <2>1, <2>2, <1>5, CardinalityCovered
  <2> QED  BY <2>3, <2>4, <2>5, <2>6
<1>7. Costs(old, new, n)
  <2>1. Len(old) \in Nat /\ Len(new) \in Nat /\ Len(new) <= Len(old) + 1
    BY <1>1
  <2> QED  BY <2>1, <1>4, <1>5, <1>6 DEF Costs
<1>8. Costs(new, old, n)
  <2>1. Len(old) \in Nat /\ Len(new) \in Nat /\ Len(old) <= Len(new) + 0
    BY <1>1
  <2> QED  BY <2>1, <1>4, <1>5, <1>6 DEF Costs
<1> QED  BY <1>7, <1>8

LEMMA FiniteRange ==
  ASSUME NEW S, NEW s \in Seq(S)  PROVE IsFiniteSet(Range(s))
<1>1. Len(s) \in Nat /\ DOMAIN s = 1 .. Len(s) /\ IsFiniteSet(1 .. Len(s))
  BY LenProperties, FS_Interval
<1>2. IsFiniteSet({s[i] : i \in 1 .. Len(s)})
  <2> DEFINE T == {s[i] : i \in 1 .. Len(s)}
             f == [i \in 1 .. Len(s) |-> s[i]]
  <2>1. f \in Surjection(1 .. Len(s), T)
    BY DEF Surjection
  <2> HIDE DEF f, T
  <2>2. IsFiniteSet(T)
    BY <2>1, <1>1, FS_Surjection
  <2> QED  BY <2>2 DEF T
<1> QED  BY <1>1, <1>2 DEF Range

LEMMA CostOfClearing ==
  ASSUME NEW S, NEW s \in Seq(S), NEW n \in Nat
  PROVE  Costs(s, << >>, n)
<1>1. /\ Len(s) \in Nat /\ Len(<< >>) = 0 /\ Range(<< >>) = {}
      /\ DOMAIN s = 1 .. Len(s)
  BY LenProperties, EmptySeq DEF Range
<1>2. /\ Beyond(<< >>, n) = {}
      /\ Beyond(s, n) \subseteq Range(s)
  BY <1>1 DEF Beyond, Range
<1>3. /\ IsFiniteSet({}) /\ Cardinality({}) = 0
      /\ IsFiniteSet(Range(s))
  BY FS_EmptySet, FiniteRange
<1>4. ASSUME NEW X, IsFiniteSet(X)
      PROVE  /\ Cardinality(X \cap Beyond(<< >>, n)) <= Cardinality(X \cap Beyond(s, n)) + 0
             /\ Cardinality(X \ Beyond(<< >>, n)) <= Cardinality(X \ Beyond(s, n)) + Cardinality(Range(s))
  <2>1. IsFiniteSet(X \cap Beyond(s, n)) /\ IsFiniteSet(X \ Beyond(s, n))
    <3>1. X \cap Beyond(s, n) \subseteq X /\ X \ Beyond(s, n) \subseteq X
      OBVIOUS
    <3> QED  BY <3>1, <1>4, FS_Subset
  <2>2. /\ X \cap Beyond(<< >>, n) \subseteq (X \cap Beyond(s, n)) \cup {}
        /\ X \ Beyond(<< >>, n) \subseteq (X \ Beyond(s, n)) \cup Range(s)
    BY <1>2
  <2>3. Cardinality(X \cap Beyond(<< >>, n)) <= Cardinality(X \cap Beyond(s, n)) + 0
    BY <2>1, <2>2, <1>3, CardinalityCovered
  <2>4. Cardinality(X \ Beyond(<< >>, n)) <= Cardinality(X \ Beyond(s, n)) + Cardinality(Range(s))
    BY <2>1, <2>2, <1>3, CardinalityCovered
  <2> QED  BY <2>3, <2>4
<1>5. Range(<< >>) \ Range(s) = {} /\ Range(s) \ Range(<< >>) = Range(s)
  BY <1>1
<1>6. 0 <= Len(s) + 0
  BY <1>1
<1> QED  BY <1>1, <1>3, <1>4, <1>5, <1>6 DEF Costs

-----------------------------------------------------------------------------
(***************************************************************************)
(* How the writes of the stores change what a listing filters.             *)
(***************************************************************************)

\* InsertAt and Append insert,
LEMMA InsertInserts ==
  ASSUME NEW S, NEW s \in Seq(S), NEW i \in 1 .. Len(s) + 1, NEW e \in S
  PROVE  IsInsertion(S, s, InsertAt(s, i, e), e)
<1> DEFINE A == SubSeq(s, 1, i - 1)
           B == SubSeq(s, i, Len(s))
<1>1. Len(s) \in Nat /\ \A j \in 1 .. Len(s) : s[j] \in S
  BY LenProperties, ElementOfSeq
<1>2. A \in Seq(S) /\ B \in Seq(S)
  BY <1>1, SubSeqProperties
<1>3. s = A \o B
  <2> DEFINE k == i - 1
  <2>1. k \in 0 .. Len(s) /\ k + 1 = i /\ 1 - 1 = 0
    BY <1>1
  <2>2. SubSeq(s, 1, k) \o SubSeq(s, k + 1, Len(s)) = SubSeq(s, 1, Len(s))
    <3>1. /\ 1 \in 1 .. Len(s) + 1 /\ k \in 1 - 1 .. Len(s) /\ Len(s) \in k .. Len(s)
      BY <1>1, <2>1
    <3> HIDE DEF k
    <3> QED  BY <3>1, ConcatAdjacentSubSeq
  <2> QED  BY <2>1, <2>2, SubSeqFull
<1>4. InsertAt(s, i, e) = (A \o <<e>>) \o B
  BY DEF InsertAt
<1> HIDE DEF A, B
<1>5. A \o <<e>> = Append(A, e)
  BY <1>2, AppendIsConcat
<1> QED  BY <1>2, <1>3, <1>4, <1>5 DEF IsInsertion

LEMMA AppendInserts ==
  ASSUME NEW S, NEW s \in Seq(S), NEW e \in S
  PROVE  IsInsertion(S, s, Append(s, e), e)
<1>1. << >> \in Seq(S) /\ s \o << >> = s /\ Append(s, e) \o << >> = Append(s, e)
  BY EmptySeq, ConcatEmptySeq, AppendProperties
<1> QED  BY <1>1 DEF IsInsertion

\* and Without undoes an insertion.
LEMMA WithoutUndoes ==
  ASSUME NEW S, NEW s \in Seq(S), NEW k \in Range(s), IsInjective(s)
  PROVE  /\ k \in S /\ IsInsertion(S, Without(s, k), s, k)
         /\ k \notin Range(Without(s, k))
<1>1. Len(s) \in Nat /\ DOMAIN s = 1 .. Len(s) /\ \A j \in 1 .. Len(s) : s[j] \in S
  BY LenProperties, ElementOfSeq
<1> DEFINE i == CHOOSE j \in DOMAIN s : s[j] = k
<1>2. i \in 1 .. Len(s) /\ s[i] = k
  BY <1>1 DEF Range
<1>3. Without(s, k) = RemoveAt(s, i)
  BY DEF Without
<1> HIDE DEF i
<1> DEFINE A == SubSeq(s, 1, i - 1)
           B == SubSeq(s, i + 1, Len(s))
<1>4. A \in Seq(S) /\ B \in Seq(S)
  <2>1. /\ i - 1 \in Int /\ i + 1 \in Int
        /\ \A j \in 1 .. i - 1 : s[j] \in S
        /\ \A j \in i + 1 .. Len(s) : s[j] \in S
    BY <1>1, <1>2
  <2> QED  BY <2>1, <1>1, SubSeqProperties
<1>5. Without(s, k) = A \o B
  BY <1>3 DEF RemoveAt
<1>6. k \notin Range(A \o B)
  <2>1. Range(RemoveAt(s, i)) = Range(s) \ {s[i]}
    BY <1>2, RemoveRemoves
  <2> QED  BY <2>1, <1>2, <1>3, <1>5
<1>7. s = Append(A, k) \o B
  <2>1. SubSeq(s, 1, i) = A \o <<s[i]>>
    <3>1. 1 \in 1 .. Len(s) /\ i \in 1 .. Len(s)
      BY <1>1, <1>2
    <3> QED  BY <3>1, SubSeqRecursiveSecond
  <2>2. SubSeq(s, 1, i) \o SubSeq(s, i + 1, Len(s)) = SubSeq(s, 1, Len(s))
    <3>1. /\ 1 \in 1 .. Len(s) + 1 /\ i \in 1 - 1 .. Len(s) /\ Len(s) \in i .. Len(s)
      BY <1>1, <1>2
    <3> QED  BY <3>1, ConcatAdjacentSubSeq
  <2> HIDE DEF A, B
  <2>3. A \o <<s[i]>> = Append(A, s[i])
    BY <1>2, <1>4, AppendIsConcat
  <2> QED  BY <2>1, <2>2, <2>3, <1>2, SubSeqFull DEF B
<1> HIDE DEF A, B
<1> QED  BY <1>1, <1>2, <1>4, <1>5, <1>6, <1>7 DEF IsInsertion

\* A row inserted into a list is inserted into what is filtered, or skipped.
LEMMA FilteredInsertion ==
  ASSUME NEW S, NEW s, NEW t, NEW e \in S, NEW R, NEW b, IsInsertion(S, s, t, e)
  PROVE  /\ s \in Seq(S) /\ Filtered(s, R, b) \in Seq(S)
         /\ Range(Filtered(s, R, b)) \subseteq Range(s)
         /\ b /\ e \in R => Filtered(t, R, b) = Filtered(s, R, b)
         /\ ~(b /\ e \in R) => IsInsertion(S, Filtered(s, R, b), Filtered(t, R, b), e)
<1>0. PICK A, B \in Seq(S) : s = A \o B /\ t = Append(A, e) \o B
  BY DEF IsInsertion
<1> DEFINE F(q) == Filtered(q, R, b)
           A1 == Append(A, e)
<1>1. ASSUME NEW q \in Seq(S), NEW r \in Seq(S)  PROVE F(q \o r) = F(q) \o F(r)
  BY FilteredConcat
<1>2. ASSUME NEW q \in Seq(S)
      PROVE  F(q) \in Seq(S) /\ Range(F(q)) \subseteq Range(q)
  BY FilteredProperties
<1>3. A1 \in Seq(S) /\ A \o B \in Seq(S)
  BY AppendProperties, ConcatProperties
<1>4. /\ b /\ e \in R => F(A1) = F(A)
      /\ ~(b /\ e \in R) => F(A1) = Append(F(A), e)
  <2>1. F(A1) = IF b /\ e \in R THEN F(A) ELSE Append(F(A), e)
    BY FilteredStep
  <2> HIDE DEF F, A1
  <2> QED  BY <2>1
<1> HIDE DEF F, A1
<1>6. F(A1 \o B) = F(A1) \o F(B) /\ F(A \o B) = F(A) \o F(B)
  BY <1>1, <1>3
<1>7. F(A) \in Seq(S) /\ F(B) \in Seq(S)
  BY <1>2
<1>8. s \in Seq(S) /\ F(s) \in Seq(S) /\ Range(F(s)) \subseteq Range(s)
  BY <1>0, <1>2, <1>3
<1>9. b /\ e \in R => F(t) = F(s)
  BY <1>0, <1>4, <1>6 DEF A1
<1>10. ASSUME ~(b /\ e \in R)  PROVE IsInsertion(S, F(s), F(t), e)
  <2>1. F(s) = F(A) \o F(B) /\ F(t) = Append(F(A), e) \o F(B)
    BY <1>0, <1>4, <1>6, <1>10 DEF A1
  <2> QED  BY <2>1, <1>7 DEF IsInsertion
<1> QED  BY <1>8, <1>9, <1>10 DEF F

\* A list whose rows are all read has no unread ones.
LEMMA FilteredNone ==
  ASSUME NEW S, NEW s \in Seq(S), NEW R, NEW b, Range(s) \subseteq R
  PROVE  b => Filtered(s, R, b) = << >>
<1> DEFINE F == Filtered(s, R, b)
<1>1. F \in Seq(S) /\ Range(F) = {k \in Range(s) : ~(b /\ k \in R)}
  BY FilteredProperties
<1> HIDE DEF F
<1> SUFFICES ASSUME b  PROVE F = << >>
  BY DEF F
<1>2. Range(F) = {}
  BY <1>1
<1>3. DOMAIN F = 1 .. Len(F) /\ Len(F) \in Nat
  BY <1>1, LenProperties
<1>4. DOMAIN F = {}
  BY <1>2 DEF Range
<1>5. Len(F) = 0
  BY <1>3, <1>4
<1> QED  BY <1>1, <1>5, EmptySeq

\* A new row costs a walk what an insertion does,
LEMMA FilteredInserted ==
  ASSUME NEW S, NEW s, NEW t, NEW e \in S, IsInsertion(S, s, t, e),
         NEW R, e \notin R, e \notin Range(s), NEW b, NEW n \in Nat
  PROVE  /\ Costs(Filtered(s, R, b), Filtered(t, R, b), n)
         /\ Range(Filtered(t, R, b)) = Range(Filtered(s, R, b)) \cup {e}
<1> DEFINE old == Filtered(s, R, b)
           new == Filtered(t, R, b)
<1>1. IsInsertion(S, old, new, e) /\ Range(old) \subseteq Range(s)
  BY FilteredInsertion
<1> HIDE DEF old, new
<1>2. e \notin Range(old)
  BY <1>1
<1>3. Costs(old, new, n)
  BY <1>1, <1>2, CostOfInsertion
<1>4. Range(new) = Range(old) \cup {e}
  BY <1>1, BeyondInserted
<1> QED  BY <1>3, <1>4 DEF old, new

\* one that is added last puts nothing else beyond the places shown,
LEMMA FilteredAppended ==
  ASSUME NEW S, NEW s \in Seq(S), NEW e \in S, NEW R, e \notin R, NEW b, NEW n \in Nat
  PROVE  Beyond(Filtered(Append(s, e), R, b), n) \subseteq Beyond(Filtered(s, R, b), n) \cup {e}
<1> DEFINE P == Filtered(s, R, b)
           new == Filtered(Append(s, e), R, b)
<1>1. P \in Seq(S)
  BY FilteredProperties
<1>2. new = Append(P, e)
  BY FilteredStep
<1> HIDE DEF P, new
<1>3. /\ Len(P) \in Nat /\ Len(new) = Len(P) + 1 /\ new[Len(P) + 1] = e
      /\ \A i \in 1 .. Len(P) : new[i] = P[i]
  BY <1>1, <1>2, LenProperties, AppendProperties
<1>4. \A i \in n + 1 .. Len(new) : new[i] \in Beyond(P, n) \cup {e}
  <2> TAKE i \in n + 1 .. Len(new)
  <2>1. CASE i = Len(P) + 1
    BY <2>1, <1>3
  <2>2. CASE i # Len(P) + 1
    <3>1. i \in n + 1 .. Len(P) /\ i \in 1 .. Len(P)
      BY <2>2, <1>3
    <3> QED  BY <3>1, <1>3 DEF Beyond
  <2> QED  BY <2>1, <2>2
<1>5. Beyond(new, n) \subseteq Beyond(P, n) \cup {e}
  BY <1>4 DEF Beyond
<1> QED  BY <1>5 DEF P, new

\* removing a row pulls rows back only,
LEMMA FilteredRemoved ==
  ASSUME NEW S, NEW s \in Seq(S), NEW k \in Range(s), IsInjective(s),
         NEW R, NEW b, NEW n \in Nat
  PROVE  /\ Costs(Filtered(s, R, b), Filtered(Without(s, k), R, b), n)
         /\ Range(Filtered(Without(s, k), R, b)) \subseteq Range(Filtered(s, R, b))
         /\ Beyond(Filtered(Without(s, k), R, b), n) \subseteq Beyond(Filtered(s, R, b), n)
<1> DEFINE t == Without(s, k)
           old == Filtered(s, R, b)
           new == Filtered(t, R, b)
<1>1. k \in S /\ IsInsertion(S, t, s, k) /\ k \notin Range(t)
  BY WithoutUndoes
<1> HIDE DEF t
<1>2. /\ new \in Seq(S) /\ Range(new) \subseteq Range(t)
      /\ b /\ k \in R => old = new
      /\ ~(b /\ k \in R) => IsInsertion(S, new, old, k)
  BY <1>1, FilteredInsertion
<1> HIDE DEF old, new
<1>3. CASE old = new
  <2>1. Costs(new, new, n)
    BY <1>2, CostOfNone
  <2> QED  BY <1>3, <2>1 DEF old, new, t
<1>4. CASE IsInsertion(S, new, old, k)
  <2>1. k \notin Range(new)
    BY <1>1, <1>2
  <2>2. Costs(old, new, n)
    BY <1>1, <1>4, <2>1, CostOfInsertion
  <2>3. Range(old) = Range(new) \cup {k} /\ Beyond(new, n) \subseteq Beyond(old, n)
    BY <1>1, <1>4, BeyondInserted
  <2> QED  BY <2>2, <2>3 DEF old, new, t
<1> QED  BY <1>2, <1>3, <1>4

\* and so does marking it read, in a listing of the unread ones.
LEMMA FilteredRead ==
  ASSUME NEW S, NEW s \in Seq(S), NEW k, IsInjective(s),
         NEW R, NEW b, NEW n \in Nat
  PROVE  /\ Costs(Filtered(s, R, b), Filtered(s, R \cup {k}, b), n)
         /\ Range(Filtered(s, R \cup {k}, b)) \subseteq Range(Filtered(s, R, b))
         /\ Beyond(Filtered(s, R \cup {k}, b), n) \subseteq Beyond(Filtered(s, R, b), n)
<1> DEFINE R2 == R \cup {k}
           t == Without(s, k)
           old == Filtered(s, R, b)
           new == Filtered(s, R2, b)
           less == Filtered(t, R, b)
           less2 == Filtered(t, R2, b)
<1>0. old \in Seq(S) /\ k \in R2
  BY FilteredProperties
<1>1. CASE ~b \/ k \notin Range(s)
  <2>1. \A j \in Range(s) : b => (j \in R <=> j \in R2)
    BY <1>1
  <2> HIDE DEF R2
  <2>2. old = new
    BY <2>1, FilteredAlike
  <2> HIDE DEF old, new
  <2>3. Costs(old, old, n)
    BY <1>0, CostOfNone
  <2> QED  BY <2>2, <2>3 DEF old, new, R2
<1>2. CASE b /\ k \in Range(s)
  <2>1. k \in S /\ IsInsertion(S, t, s, k) /\ k \notin Range(t)
    BY <1>2, WithoutUndoes
  <2>2. \A j \in Range(t) : b => (j \in R <=> j \in R2)
    BY <2>1
  <2> HIDE DEF t, R2
  <2>3. /\ less2 \in Seq(S) /\ Range(less2) \subseteq Range(t)
        /\ b /\ k \in R2 => new = less2
        /\ ~(b /\ k \in R2) => IsInsertion(S, less2, new, k)
    BY <2>1, FilteredInsertion
  <2>4. t \in Seq(S)
    BY <2>1, FilteredInsertion
  <2>5. less = less2
    BY <2>2, <2>4, FilteredAlike
  <2> HIDE DEF new, less2
  <2>6. new = less
    BY <1>0, <1>2, <2>3, <2>5
  <2> DEFINE gone == Filtered(t, R, b)
  <2>7. /\ Costs(old, gone, n) /\ Range(gone) \subseteq Range(old)
        /\ Beyond(gone, n) \subseteq Beyond(old, n)
    BY <1>2, FilteredRemoved DEF t
  <2>8. gone = less
    OBVIOUS
  <2> HIDE DEF gone, old, less
  <2> QED  BY <2>6, <2>7, <2>8 DEF old, new, R2
<1> QED  BY <1>1, <1>2

\* What a write may do to a listing: the rows that come are new ones, they and
\* those that leave cost a walk as much, and the memory store lists them last.
Changes(old, new, rows, memory) ==
  /\ \A n \in Nat : Costs(old, new, n)
  /\ (Range(new) \ Range(old)) \cap rows = {}
  /\ memory => \A n \in Nat :
                 Beyond(new, n) \subseteq Beyond(old, n) \cup (Range(new) \ Range(old))

LEMMA ChangesNothing ==
  ASSUME NEW S, NEW s \in Seq(S), NEW rows, NEW memory
  PROVE  Changes(s, s, rows, memory)
<1>1. \A n \in Nat : Costs(s, s, n)
  BY CostOfNone
<1> QED  BY <1>1 DEF Changes

\* Rows that only leave, as long as they pull the others back.
LEMMA ChangesByLeaving ==
  ASSUME NEW S, NEW old \in Seq(S), NEW new, NEW rows, NEW memory,
         \A n \in Nat : Costs(old, new, n) /\ Beyond(new, n) \subseteq Beyond(old, n),
         Range(new) \subseteq Range(old)
  PROVE  Changes(old, new, rows, memory)
<1> QED  BY DEF Changes

LEMMA ChangesInserted ==
  ASSUME NEW S, NEW s, NEW t, NEW e \in S, IsInsertion(S, s, t, e),
         NEW R, e \notin R, e \notin Range(s), NEW b, NEW rows, e \notin rows,
         NEW memory, memory => s \in Seq(S) /\ t = Append(s, e)
  PROVE  Changes(Filtered(s, R, b), Filtered(t, R, b), rows, memory)
<1> DEFINE old == Filtered(s, R, b)
           new == Filtered(t, R, b)
<1>1. ASSUME NEW n \in Nat
      PROVE  Costs(old, new, n) /\ Range(new) = Range(old) \cup {e}
  BY FilteredInserted
<1>2. Range(new) = Range(old) \cup {e}
  <2>1. 0 \in Nat
    OBVIOUS
  <2> HIDE DEF old, new
  <2> QED  BY <1>1, <2>1
<1>3. e \notin Range(old)
  <2>1. IsInsertion(S, s, t, e) => Range(old) \subseteq Range(s)
    BY FilteredInsertion
  <2> HIDE DEF old
  <2> QED  BY <2>1
<1>4. ASSUME memory, NEW n \in Nat  PROVE Beyond(new, n) \subseteq Beyond(old, n) \cup {e}
  <2>1. s \in Seq(S) /\ t = Append(s, e)
    BY <1>4
  <2>2. ASSUME NEW q \in Seq(S)
        PROVE  Beyond(Filtered(Append(q, e), R, b), n) \subseteq Beyond(Filtered(q, R, b), n) \cup {e}
    BY FilteredAppended
  <2> QED  BY <2>1, <2>2
<1> HIDE DEF old, new
<1>5. Range(new) \ Range(old) = {e}
  BY <1>2, <1>3
<1>6. Changes(old, new, rows, memory)
  BY <1>1, <1>4, <1>5 DEF Changes
<1> QED  BY <1>6 DEF old, new

\* The writes of the stores do no more than that.
LEMMA WriteChanges ==
  ASSUME StoreInv, StoreInv', Write, NEW b
  PROVE  /\ kind' = kind /\ DOMAIN owner \subseteq DOMAIN owner'
         /\ Changes(Filtered(byUser[Reader], isRead, b),
                    Filtered(byUser'[Reader], isRead', b),
                    DOMAIN owner, kind = "memory")
<1> DEFINE list == byUser[Reader]
           list2 == byUser'[Reader]
           read == isRead
           read2 == isRead'
           memory == kind = "memory"
           rows == DOMAIN owner
           Goal == Changes(Filtered(list, read, b), Filtered(list2, read2, b), rows, memory)
<1>1. /\ list \in Seq(rows) /\ IsInjective(list)
      /\ Range(list) = {k \in byID : owner[k] = Reader}
      /\ read \subseteq rows /\ Len(owner) \in Nat /\ rows = 1 .. Len(owner)
      /\ owner \in Seq(User) /\ byUser \in [User -> Seq(rows)] /\ byID \subseteq rows
  BY ListingAssumption, LenProperties DEF StoreInv, StoreTypeOK, IndexesAgree
<1>2. ASSUME list2 = list, \A k \in Range(list) : k \in read <=> k \in read2  PROVE Goal
  <2> HIDE DEF list, list2, read, read2, rows, memory
  <2>1. Filtered(list, read, b) = Filtered(list, read2, b)
    BY <1>1, <1>2, FilteredAlike
  <2>2. Filtered(list, read, b) \in Seq(rows)
    BY <1>1, FilteredProperties
  <2> QED  BY <1>2, <2>1, <2>2, ChangesNothing
<1>3. ASSUME NEW u \in User, Create(u)
      PROVE  kind' = kind /\ rows \subseteq DOMAIN owner' /\ Goal
  <2> DEFINE k == Len(owner) + 1
             S == rows \cup {k}
  <2>1. /\ kind' = kind /\ owner' = Append(owner, u) /\ isRead' = isRead
        /\ Listed(u, k) \/ Inserted(u, k)
    BY <1>3 DEF Create
  <2>2. DOMAIN owner' = 1 .. Len(owner) + 1 /\ rows \subseteq DOMAIN owner'
    BY <2>1, <1>1
  <2>3. CASE u # Reader
    <3>1. byUser'[Reader] = byUser[Reader]
      BY <2>1, <2>3, ListingAssumption, <1>1 DEF Listed, Inserted
    <3> QED  BY <1>2, <2>1, <2>2, <3>1
  <2>4. CASE u = Reader
    <3>1. /\ k \notin rows /\ k \notin read /\ k \notin Range(list) /\ k \in S
      BY <1>1
    <3>2. list \in Seq(S)
      <4>1. rows \subseteq S
        OBVIOUS
      <4> HIDE DEF S, list, rows
      <4> QED  BY <1>1, <4>1, SeqMonotonic
    <3>3. CASE Listed(u, k)
      <4>1. list2 = Append(list, k)
        BY <2>4, <3>3, ListingAssumption, <1>1 DEF Listed
      <4> HIDE DEF k, S, list, list2, rows, memory
      <4>2. IsInsertion(S, list, list2, k)
        BY <3>1, <3>2, <4>1, AppendInserts
      <4>3. Changes(Filtered(list, read, b), Filtered(list2, read, b), rows, memory)
        BY <3>1, <3>2, <4>1, <4>2, ChangesInserted
      <4> QED  BY <2>1, <2>2, <4>3
    <3>4. CASE Inserted(u, k)
      <4>1. PICK i \in 1 .. Len(list) + 1 : list2 = InsertAt(list, i, k)
        BY <2>4, <3>4, ListingAssumption, <1>1 DEF Inserted
      <4>2. ~memory
        BY <3>4 DEF Inserted
      <4> HIDE DEF k, S, list, list2, rows, memory
      <4>3. IsInsertion(S, list, list2, k)
        BY <3>1, <3>2, <4>1, InsertInserts
      <4>4. Changes(Filtered(list, read, b), Filtered(list2, read, b), rows, memory)
        BY <3>1, <4>2, <4>3, ChangesInserted
      <4> QED  BY <2>1, <2>2, <4>4
    <3> QED  BY <2>1, <3>3, <3>4
  <2> QED  BY <2>3, <2>4
<1>4. ASSUME NEW u \in User, NEW k \in Id, Delete(u, k)
      PROVE  kind' = kind /\ rows \subseteq DOMAIN owner' /\ Goal
  <2>1. kind' = kind /\ owner' = owner
    BY <1>4 DEF Delete
  <2>2. CASE ~Owned(u, k)
    BY <1>2, <1>4, <2>1, <2>2 DEF Delete
  <2>3. CASE Owned(u, k)
    <3>1. byUser' = [byUser EXCEPT ![u] = Without(@, k)] /\ isRead' = isRead \ {k}
      BY <1>4, <2>3 DEF Delete
    <3>2. CASE u # Reader
      <4>1. list2 = list /\ k \notin Range(list)
        BY <1>1, <2>3, <3>1, <3>2, ListingAssumption DEF Owned
      <4> QED  BY <1>2, <2>1, <3>1, <4>1
    <3>3. CASE u = Reader
      <4>1. list2 = Without(list, k) /\ k \in Range(list)
        BY <1>1, <2>3, <3>1, <3>3, ListingAssumption DEF Owned
      <4> DEFINE old == Filtered(list, read, b)
                 gone == Filtered(Without(list, k), read, b)
                 new == Filtered(list2, read2, b)
      <4>2. old \in Seq(rows)
        <5> HIDE DEF list, read, rows
        <5> QED  BY <1>1, FilteredProperties
      <4>3. gone = new
        <5>1. Without(list, k) \in Seq(rows) /\ Range(Without(list, k)) = Range(list) \ {k}
          <6> HIDE DEF list, rows
          <6> QED  BY <1>1, WithoutRemoves
        <5> DEFINE t == Without(list, k)
        <5>2. /\ t \in Seq(rows) /\ list2 = t
              /\ \A j \in Range(t) : b => (j \in read <=> j \in read2)
          BY <3>1, <4>1, <5>1
        <5> HIDE DEF t, list2, read, read2, rows
        <5>3. Filtered(t, read, b) = Filtered(t, read2, b)
          BY <5>2, FilteredAlike
        <5> QED  BY <5>2, <5>3 DEF t
      <4>4. ASSUME NEW n \in Nat
            PROVE  /\ Costs(old, gone, n) /\ Range(gone) \subseteq Range(old)
                   /\ Beyond(gone, n) \subseteq Beyond(old, n)
        <5> HIDE DEF list, read, rows
        <5> QED  BY <1>1, <4>1, FilteredRemoved
      <4>5. 0 \in Nat
        OBVIOUS
      <4> HIDE DEF old, gone, new, rows, memory
      <4>6. Changes(old, new, rows, memory)
        BY <4>2, <4>3, <4>4, <4>5, ChangesByLeaving
      <4> QED  BY <2>1, <4>6 DEF old, new, rows
    <3> QED  BY <3>2, <3>3
  <2> QED  BY <2>2, <2>3
<1>5. ASSUME NEW u \in User, NEW k \in Id, MarkRead(u, k)
      PROVE  kind' = kind /\ rows \subseteq DOMAIN owner' /\ Goal
  <2>1. kind' = kind /\ owner' = owner /\ byUser' = byUser
    BY <1>5 DEF MarkRead
  <2>2. CASE ~Owned(u, k)
    BY <1>2, <1>5, <2>1, <2>2 DEF MarkRead
  <2>3. CASE Owned(u, k)
    <3>1. isRead' = isRead \cup {k} /\ list2 = list
      BY <1>5, <2>1, <2>3 DEF MarkRead
    <3> DEFINE old == Filtered(list, read, b)
               new == Filtered(list2, read2, b)
               seen == Filtered(list, read \cup {k}, b)
    <3>2. old \in Seq(rows)
      <4> HIDE DEF list, read, rows
      <4> QED  BY <1>1, FilteredProperties
    <3>3. seen = new
      BY <3>1
    <3>4. ASSUME NEW n \in Nat
          PROVE  /\ Costs(old, seen, n) /\ Range(seen) \subseteq Range(old)
                 /\ Beyond(seen, n) \subseteq Beyond(old, n)
      <4> HIDE DEF list, read, rows
      <4> QED  BY <1>1, FilteredRead
    <3>5. 0 \in Nat
      OBVIOUS
    <3> HIDE DEF old, seen, new, rows, memory
    <3>6. Changes(old, new, rows, memory)
      BY <3>2, <3>3, <3>4, <3>5, ChangesByLeaving
    <3> QED  BY <2>1, <3>6 DEF old, new, rows
  <2> QED  BY <2>2, <2>3
<1>6. ASSUME NEW u \in User, MarkAllRead(u)
      PROVE  kind' = kind /\ rows \subseteq DOMAIN owner' /\ Goal
  <2>1. /\ kind' = kind /\ owner' = owner /\ list2 = list
        /\ isRead' = isRead \cup Range(byUser[u])
    BY <1>6 DEF MarkAllRead
  <2>2. CASE u # Reader
    <3>1. \A k \in Range(list) : k \in isRead <=> k \in isRead'
      <4>1. Range(byUser[u]) = {k \in byID : owner[k] = u}
        BY DEF StoreInv, IndexesAgree
      <4> QED  BY <1>1, <2>1, <2>2, <4>1
    <3> QED  BY <1>2, <2>1, <3>1
  <2>3. CASE u = Reader /\ ~b
    <3> DEFINE old == Filtered(list, read, b)
               new == Filtered(list, read2, b)
    <3>1. old \in Seq(rows) /\ old = new
      <4>1. \A k \in Range(list) : b => (k \in read <=> k \in read2)
        BY <2>3
      <4> HIDE DEF list, read, read2, rows
      <4> QED  BY <1>1, <4>1, FilteredProperties, FilteredAlike
    <3> HIDE DEF old, new, rows, memory
    <3>2. Changes(old, new, rows, memory)
      BY <3>1, ChangesNothing
    <3> QED  BY <2>1, <3>2 DEF old, new, rows
  <2>4. CASE u = Reader /\ b
    <3> DEFINE old == Filtered(list, read, b)
               new == Filtered(list, read2, b)
    <3>1. old \in Seq(rows) /\ new = << >>
      <4>1. Range(list) \subseteq read2
        BY <2>1, <2>4
      <4>2. b => Filtered(list, read2, b) = << >>
        <5> HIDE DEF list, read, read2, rows
        <5> QED  BY <1>1, <4>1, FilteredNone
      <4>3. old \in Seq(rows)
        <5> HIDE DEF list, read, read2, rows
        <5> QED  BY <1>1, FilteredProperties
      <4> HIDE DEF list, read2
      <4> QED  BY <2>4, <4>2, <4>3
    <3>2. \A n \in Nat : Costs(old, << >>, n)
      <4> HIDE DEF old, rows
      <4> QED  BY <3>1, CostOfClearing
    <3>3. Range(<< >>) = {} /\ \A n \in Nat : Beyond(<< >>, n) = {}
      BY EmptySeq DEF Range, Beyond
    <3> HIDE DEF old, new, rows, memory
    <3>4. Changes(old, new, rows, memory)
      BY <3>1, <3>2, <3>3, ChangesByLeaving
    <3> QED  BY <2>1, <3>4 DEF old, new, rows
  <2> QED  BY <2>2, <2>3, <2>4
<1> QED  BY <1>3, <1>4, <1>5, <1>6 DEF Write

-----------------------------------------------------------------------------
(***************************************************************************)
(* Pages.                                                                  *)
(***************************************************************************)

\* A page shows the next rows of a list and leaves those beyond it.
LEMMA PageSplits ==
  ASSUME NEW S, NEW rows \in Seq(S), NEW page \in Nat \ {0}, NEW size \in Nat \ {0}
  PROVE  LET pg == PageOf(rows, page, size)
             shown == Beyond(rows, (page - 1) * size)
             after == Beyond(rows, page * size)
         IN  /\ pg \in Seq(S)
             /\ shown = Range(pg) \cup after
             /\ IsInjective(rows) => Range(pg) \cap after = {} /\ IsInjective(pg)
<1> DEFINE c == (page - 1) * size
           d == page * size
           n == Len(rows)
           last == IF d < n THEN d ELSE n
           pg == PageOf(rows, page, size)
<1>1. c \in Nat /\ d \in Nat /\ d = c + size
  <2>1. page - 1 \in Nat /\ size \in Nat /\ page = (page - 1) + 1
    OBVIOUS
  <2>2. ASSUME NEW m \in Nat, NEW k \in Nat  PROVE m * k \in Nat /\ (m + 1) * k = m * k + k
    OBVIOUS
  <2> QED  BY <2>1, <2>2
<1>2. n \in Nat /\ \A i \in 1 .. n : rows[i] \in S
  BY LenProperties, ElementOfSeq
<1>3. pg = SubSeq(rows, c + 1, last)
  BY DEF PageOf
<1> HIDE DEF c, d, n, pg
<1>4. /\ pg \in Seq(S)
      /\ Len(pg) = IF c + 1 <= last THEN last - c ELSE 0
      /\ \A j \in 1 .. last - c : pg[j] = rows[c + j]
  <2>1. /\ last \in Int /\ c + 1 \in Int
        /\ \A i \in c + 1 .. last : rows[i] \in S
    BY <1>1, <1>2
  <2> HIDE DEF last
  <2>2. /\ pg \in Seq(S)
        /\ Len(pg) = IF c + 1 <= last THEN last - (c + 1) + 1 ELSE 0
        /\ \A j \in 1 .. last - (c + 1) + 1 : pg[j] = rows[(c + 1) + j - 1]
    BY <2>1, <1>3, SubSeqProperties
  <2>3. last - (c + 1) + 1 = last - c
    BY <2>1, <1>1
  <2>4. \A j \in 1 .. last - c : (c + 1) + j - 1 = c + j
    BY <2>1, <1>1
  <2> QED  BY <2>2, <2>3, <2>4
<1>5. last \in Nat /\ last <= n /\ (last = d \/ last = n) /\ last <= d
  BY <1>1, <1>2
<1> HIDE DEF last
<1>6. DOMAIN pg = 1 .. Len(pg) /\ Len(pg) \in Nat
  BY <1>4, LenProperties
<1>7. \A j \in DOMAIN pg : c + j \in c + 1 .. last /\ pg[j] = rows[c + j]
  <2> TAKE j \in DOMAIN pg
  <2>1. j \in Nat /\ 1 <= j /\ j <= Len(pg)
    BY <1>6
  <2>2. c + 1 <= last
    BY <1>4, <2>1
  <2>3. j \in 1 .. last - c
    BY <1>1, <1>4, <1>5, <2>1, <2>2
  <2>4. c + j \in c + 1 .. last
    BY <1>1, <1>5, <2>3
  <2> QED  BY <1>4, <2>3, <2>4
<1>8. ASSUME NEW i \in c + 1 .. last  PROVE \E j \in DOMAIN pg : pg[j] = rows[i] /\ c + j = i
  <2> DEFINE j == i - c
  <2>1. j \in 1 .. last - c /\ c + j = i /\ last - c = Len(pg)
    BY <1>1, <1>4, <1>5
  <2> HIDE DEF j
  <2> QED  BY <2>1, <1>4, <1>6
<1>9. Range(pg) = {rows[i] : i \in c + 1 .. last}
  BY <1>7, <1>8 DEF Range
<1>10. \A i \in c + 1 .. n : i \in c + 1 .. last \/ i \in d + 1 .. n
  BY <1>1, <1>2, <1>5
<1>11. (\A i \in c + 1 .. last : i \in c + 1 .. n) /\ (\A i \in d + 1 .. n : i \in c + 1 .. n)
  BY <1>1, <1>2, <1>5
<1>12. Beyond(rows, c) = Range(pg) \cup Beyond(rows, d)
  BY <1>9, <1>10, <1>11 DEF Beyond, n
<1>13. ASSUME IsInjective(rows)  PROVE Range(pg) \cap Beyond(rows, d) = {} /\ IsInjective(pg)
  <2>1. \A i, j \in 1 .. n : rows[i] = rows[j] => i = j
    <3>1. DOMAIN rows = 1 .. n
      BY LenProperties DEF n
    <3> QED  BY <1>13, <3>1 DEF IsInjective
  <2>2. \A i \in c + 1 .. last, j \in d + 1 .. n : i \in 1 .. n /\ j \in 1 .. n /\ i # j
    BY <1>1, <1>2, <1>5
  <2>3. Range(pg) \cap Beyond(rows, d) = {}
    BY <2>1, <2>2, <1>9 DEF Beyond, n
  <2>4. \A j \in DOMAIN pg : c + j \in 1 .. n
    BY <1>1, <1>2, <1>5, <1>7
  <2>5. \A i, j \in DOMAIN pg : c + i = c + j => i = j
    BY <1>1, <1>6
  <2>6. IsInjective(pg)
    BY <2>1, <2>4, <2>5, <1>7 DEF IsInjective
  <2> QED  BY <2>3, <2>6
<1> QED  BY <1>4, <1>12, <1>13 DEF c, d, pg

\* Counting the places of a page that show rows of X counts these rows.
Places(pg, X) == {i \in DOMAIN pg : pg[i] \in X}

LEMMA PlacesCounted ==
  ASSUME NEW S, NEW pg \in Seq(S), IsInjective(pg), NEW X
  PROVE  /\ IsFiniteSet(X \cap Range(pg)) /\ Cardinality(Places(pg, X)) \in Nat
         /\ Cardinality(Places(pg, X)) = Cardinality(X \cap Range(pg))
<1> DEFINE P == {i \in DOMAIN pg : pg[i] \in X}
           T == X \cap Range(pg)
           f == [i \in P |-> pg[i]]
<1>1. Len(pg) \in Nat /\ DOMAIN pg = 1 .. Len(pg)
  BY LenProperties
<1>2. IsFiniteSet(P)
  <2>1. P \subseteq 1 .. Len(pg) /\ IsFiniteSet(1 .. Len(pg))
    BY <1>1, FS_Interval
  <2> HIDE DEF P
  <2> QED  BY <2>1, FS_Subset
<1>3. f \in Bijection(P, T)
  <2>1. f \in [P -> T] /\ \A a, b \in P : f[a] = f[b] => a = b
    BY DEF Range, IsInjective
  <2>2. \A t \in T : \E p \in P : f[p] = t
    BY DEF Range
  <2> HIDE DEF f, P, T
  <2> QED  BY <2>1, <2>2, Fun_IsBij
<1> HIDE DEF f, P, T
<1>4. IsFiniteSet(T) /\ Cardinality(P) = Cardinality(T) /\ Cardinality(P) \in Nat
  BY <1>2, <1>3, FS_Bijection, Fun_ExistsBij, FS_CardinalityType DEF ExistsBijection
<1> QED  BY <1>4 DEF P, T, Places

\* The last page that total announces ends at or after the row of that number.
LEMMA LastPageReaches ==
  ASSUME NEW total \in Nat, NEW page \in Nat, NEW size \in Nat \ {0},
         ~(page < TotalPages(total, size))
  PROVE  total <= page * size
<1> DEFINE q == TotalPages(total, size)
<1>1. q \in Nat /\ total + size - 1 < (q + 1) * size
  BY DEF TotalPages
<1> HIDE DEF q
<1>2. q <= page
  BY <1>1 DEF q
<1>3. q * size <= page * size
  BY <1>1, <1>2
<1>4. (q + 1) * size = q * size + size /\ q * size \in Nat /\ page * size \in Nat
  BY <1>1
<1> QED  BY <1>1, <1>3, <1>4

\* Few rows are beyond all places but a few.
LEMMA FewBeyond ==
  ASSUME NEW S, NEW rows \in Seq(S), NEW n \in Nat, NEW m \in Nat, Len(rows) <= n + m
  PROVE  IsFiniteSet(Beyond(rows, n)) /\ Cardinality(Beyond(rows, n)) <= m
<1> DEFINE A == n + 1 .. Len(rows)
           B == Beyond(rows, n)
           f == [i \in A |-> rows[i]]
<1>1. Len(rows) \in Nat
  BY LenProperties
<1>2. IsFiniteSet(A) /\ Cardinality(A) <= m
  <2> DEFINE a == n + 1
  <2>1. a \in Int /\ Len(rows) \in Int
    BY <1>1
  <2>2. A = a .. Len(rows)
    OBVIOUS
  <2> HIDE DEF a, A
  <2>3. IsFiniteSet(A) /\ Cardinality(A) = IF a > Len(rows) THEN 0 ELSE Len(rows) - a + 1
    BY <2>1, <2>2, FS_Interval
  <2> QED  BY <2>3, <1>1 DEF a
<1>3. f \in Surjection(A, B)
  BY DEF Surjection, Beyond
<1> HIDE DEF A, B, f
<1>4. IsFiniteSet(B) /\ Cardinality(B) <= Cardinality(A)
  BY <1>2, <1>3, FS_Surjection
<1>5. Cardinality(B) \in Nat /\ Cardinality(A) \in Nat
  BY <1>2, <1>4, FS_CardinalityType
<1> QED  BY <1>2, <1>4, <1>5 DEF B

-----------------------------------------------------------------------------
(***************************************************************************)
(* The walk.                                                               *)
(***************************************************************************)

\* A walk on its way, over this list.  The rows of the pages it has asked for
\* are behind it.  Of the rows it has shown no more can be ahead again than came
\* since; of those it began with no more can be behind and not shown than left.
OnTheWay(w, list, rows, memory) ==
  LET ahead == Beyond(list, (w.page - 1) * w.size) IN
  /\ w.page # 0 /\ w.size # 0
  /\ w.items \subseteq rows /\ w.start \subseteq rows
  /\ memory => w.repeats = 0 /\ w.items \cap ahead = {}
  /\ ~memory => w.repeats + Cardinality(w.items \cap ahead) <= w.came
  /\ Cardinality((w.start \ w.items) \ ahead) <= w.left

\* A walk that has ended.
AtTheEnd(w, memory) ==
  /\ Cardinality(w.start \ w.items) <= w.left + w.late
  /\ memory => w.repeats = 0
  /\ ~memory => w.repeats <= w.came

WalkInv ==
  /\ walk \in Walk \cup {Idle}
  /\ walk.pc \in {"ask", "find"} => OnTheWay(walk, Listable, DOMAIN owner, kind = "memory")
  /\ walk.pc = "find" => kind = "mongo" /\ Len(Listable) <= walk.total + walk.late
  /\ walk.pc = "done" => AtTheEnd(walk, kind = "memory")

LEMMA ShownIs ==
  ASSUME NEW w \in Walk, NEW total \in Nat, NEW pg, Range(pg) \subseteq Id,
         Cardinality(Places(pg, w.items)) \in Nat
  PROVE  LET v == Shown(w, total, pg)
             more == w.page < TotalPages(total, w.size)
         IN  /\ v \in Walk
             /\ v.pc = IF more THEN "ask" ELSE "done"
             /\ v.page = IF more THEN w.page + 1 ELSE w.page
             /\ v.items = w.items \cup Range(pg)
             /\ v.repeats = w.repeats + Cardinality(Places(pg, w.items))
             /\ v.size = w.size /\ v.start = w.start /\ v.unread = w.unread
             /\ v.left = w.left /\ v.came = w.came /\ v.late = w.late
<1> DEFINE v == Shown(w, total, pg)
           more == w.page < TotalPages(total, w.size)
           r == w.repeats + Cardinality(Places(pg, w.items))
           p == IF more THEN "ask" ELSE "done"
           q == IF more THEN w.page + 1 ELSE w.page
           t == w.items \cup Range(pg)
<1>1. v = [w EXCEPT !.pc = p, !.page = q, !.total = total, !.items = t, !.repeats = r]
  BY DEF Shown, Places
<1>2. /\ w.page \in Nat /\ w.items \in SUBSET Id /\ w.repeats \in Nat
  BY DEF Walk
<1>3. p \in {"ask", "find", "done"} /\ q \in Nat /\ t \in SUBSET Id /\ r \in Nat
  BY <1>2
<1> HIDE DEF v, p, q, t, r
<1>4. /\ v.pc = p /\ v.page = q /\ v.items = t /\ v.repeats = r
      /\ v.size = w.size /\ v.start = w.start /\ v.unread = w.unread
      /\ v.total = total /\ v.left = w.left /\ v.came = w.came /\ v.late = w.late
      /\ v \in Walk
  BY <1>1, <1>3 DEF Walk
<1> QED  BY <1>4 DEF v, p, q, t, r

\* v is w after a page of the list, counted as total rows not long ago.
Shows(w, total, list, v) ==
  /\ v = Shown(w, total, PageOf(list, w.page, w.size))
  /\ Len(list) <= total + w.late

\* What is shown of a page is behind the walk and no longer ahead.
LEMMA PageShown ==
  ASSUME NEW rows, rows \subseteq Id, IsFiniteSet(rows), NEW memory,
         NEW list \in Seq(rows), IsInjective(list),
         NEW w \in Walk, OnTheWay(w, list, rows, memory),
         NEW total \in Nat, NEW v, Shows(w, total, list, v)
  PROVE  /\ v \in Walk /\ v.pc \in {"ask", "done"} /\ v.unread = w.unread
         /\ v.pc = "ask" => OnTheWay(v, list, rows, memory)
         /\ v.pc = "done" => AtTheEnd(v, memory)
<1> DEFINE pg == PageOf(list, w.page, w.size)
           R == Range(pg)
           c == (w.page - 1) * w.size
           d == w.page * w.size
           P == Places(pg, w.items)
           more == w.page < TotalPages(total, w.size)
           before == Beyond(list, c)
           after == Beyond(list, d)
<1>1. /\ w.page \in Nat \ {0} /\ w.size \in Nat \ {0} /\ w.unread \in BOOLEAN
      /\ w.items \subseteq rows /\ w.start \subseteq rows
      /\ w.items \in SUBSET Id /\ w.start \in SUBSET Id
      /\ w.repeats \in Nat /\ w.left \in Nat /\ w.came \in Nat /\ w.late \in Nat
      /\ memory => w.repeats = 0 /\ w.items \cap before = {}
      /\ ~memory => w.repeats + Cardinality(w.items \cap before) <= w.came
      /\ Cardinality((w.start \ w.items) \ before) <= w.left
  BY DEF Walk, OnTheWay
<1>2. /\ pg \in Seq(rows) /\ before = R \cup after
      /\ R \cap after = {} /\ IsInjective(pg)
  BY <1>1, PageSplits
<1>3. R \subseteq rows
  <2> HIDE DEF pg
  <2> QED  BY <1>2, LenProperties, ElementOfSeq DEF Range
<1>4. /\ IsFiniteSet(w.items \cap R) /\ Cardinality(P) \in Nat
      /\ Cardinality(P) = Cardinality(w.items \cap R)
  <2> HIDE DEF pg
  <2> QED  BY <1>2, PlacesCounted
<1>5. /\ v.pc = IF more THEN "ask" ELSE "done"
      /\ v.page = IF more THEN w.page + 1 ELSE w.page
      /\ v.items = w.items \cup R /\ v.repeats = w.repeats + Cardinality(P)
      /\ v.size = w.size /\ v.start = w.start /\ v.unread = w.unread
      /\ v.left = w.left /\ v.came = w.came /\ v.late = w.late
      /\ v \in Walk
  <2>1. Range(pg) \subseteq Id
    BY <1>3
  <2>2. v = Shown(w, total, pg)
    BY DEF Shows
  <2> HIDE DEF pg
  <2> QED  BY <2>1, <2>2, <1>4, ShownIs
<1>6. /\ IsFiniteSet(w.items) /\ IsFiniteSet(w.start)
  BY <1>1, FS_Subset
<1>7. c \in Nat /\ d \in Nat
  <2>1. \A m, k \in Nat : m * k \in Nat
    OBVIOUS
  <2>2. w.page - 1 \in Nat /\ w.page \in Nat /\ w.size \in Nat
    BY <1>1
  <2> QED  BY <2>1, <2>2
<1> HIDE DEF pg, R, c, d, P, before, after
<1>8. /\ IsFiniteSet(w.items \cap after) /\ IsFiniteSet(w.items \cap before)
      /\ Cardinality(w.items \cap after) \in Nat /\ Cardinality(w.items \cap before) \in Nat
      /\ Cardinality(w.items \cap before) = Cardinality(w.items \cap R) + Cardinality(w.items \cap after)
  <2> DEFINE A == w.items \cap R
             B == w.items \cap after
  <2>1. IsFiniteSet(A) /\ IsFiniteSet(B) /\ w.items \cap before = A \cup B /\ A \cap B = {}
    <3>1. B \subseteq w.items
      OBVIOUS
    <3>2. IsFiniteSet(B)
      BY <1>6, <3>1, FS_Subset
    <3>3. w.items \cap before = A \cup B /\ A \cap B = {}
      BY <1>2
    <3> QED  BY <1>4, <3>2, <3>3
  <2> HIDE DEF A, B
  <2>2. /\ IsFiniteSet(A \cup B)
        /\ Cardinality(A \cup B) = Cardinality(A) + Cardinality(B) - Cardinality(A \cap B)
    BY <2>1, FS_Union
  <2>3. /\ Cardinality(A) \in Nat /\ Cardinality(B) \in Nat /\ Cardinality(A \cup B) \in Nat
        /\ Cardinality(A \cap B) = 0
    BY <2>1, <2>2, FS_CardinalityType, FS_EmptySet
  <2>4. Cardinality(A \cup B) = Cardinality(A) + Cardinality(B)
    BY <2>2, <2>3
  <2> QED  BY <2>1, <2>2, <2>3, <2>4 DEF A, B
<1>9. /\ memory => v.repeats = 0
      /\ ~memory => v.repeats + Cardinality(w.items \cap after) <= v.came
  <2>1. memory => w.items \cap R = {}
    BY <1>1, <1>2
  <2>2. memory => Cardinality(P) = 0
    BY <1>4, <2>1, FS_EmptySet
  <2>3. memory => v.repeats = 0
    BY <1>1, <1>5, <2>2
  <2>4. ~memory => v.repeats + Cardinality(w.items \cap after) <= v.came
    BY <1>1, <1>4, <1>5, <1>8
  <2> QED  BY <2>3, <2>4
<1>10. ASSUME v.pc = "ask"  PROVE OnTheWay(v, list, rows, memory)
  <2>1. v.page = w.page + 1 /\ (v.page - 1) * v.size = d
    <3>1. more
      BY <1>5, <1>10
    <3>2. v.page = w.page + 1 /\ v.page - 1 = w.page
      BY <1>1, <1>5, <3>1
    <3> QED  BY <3>2, <1>5 DEF d
  <2>2. v.page # 0 /\ v.size # 0 /\ v.items \subseteq rows /\ v.start \subseteq rows
    BY <1>1, <1>3, <1>5, <2>1
  <2>3. v.items \cap after = w.items \cap after
    BY <1>2, <1>5
  <2>4. memory => v.items \cap after = {}
    BY <1>1, <1>2, <2>3
  <2>5. (v.start \ v.items) \ after = (w.start \ w.items) \ before
    BY <1>2, <1>5
  <2>6. Cardinality((v.start \ v.items) \ after) <= v.left
    BY <1>1, <1>5, <2>5
  <2>7. ~memory => v.repeats + Cardinality(v.items \cap after) <= v.came
    BY <1>9, <2>3
  <2> QED  BY <2>1, <2>2, <2>4, <2>6, <2>7, <1>9 DEF OnTheWay, after
<1>11. ASSUME v.pc = "done"  PROVE AtTheEnd(v, memory)
  <2>1. ~more
    BY <1>5, <1>11
  <2>2. total <= d
    BY <1>1, <2>1, LastPageReaches DEF d
  <2>3. Len(list) <= d + w.late
    <3>1. Len(list) \in Nat /\ Len(list) <= total + w.late
      BY LenProperties DEF Shows
    <3> QED  BY <3>1, <1>1, <1>7, <2>2
  <2>4. IsFiniteSet(after) /\ Cardinality(after) <= w.late
    BY <1>1, <1>7, <2>3, FewBeyond DEF after
  <2> DEFINE A == v.start \ v.items
             B == (w.start \ w.items) \ before
  <2>5. A \subseteq B \cup after
    BY <1>2, <1>5
  <2>6. IsFiniteSet(B)
    <3>1. B \subseteq w.start
      OBVIOUS
    <3> HIDE DEF B
    <3> QED  BY <1>6, <3>1, FS_Subset
  <2>7. Cardinality(B) <= w.left
    BY <1>1
  <2> HIDE DEF A, B
  <2>8. /\ Cardinality(A) \in Nat /\ Cardinality(B) \in Nat /\ Cardinality(after) \in Nat
        /\ Cardinality(A) <= Cardinality(B) + Cardinality(after)
    BY <2>4, <2>5, <2>6, CardinalityCovered
  <2>9. Cardinality(A) <= v.left + v.late
    BY <1>1, <1>5, <2>4, <2>7, <2>8
  <2>10. ~memory => v.repeats <= v.came
    <3>1. v.repeats \in Nat /\ v.came \in Nat
      BY <1>5 DEF Walk
    <3> QED  BY <3>1, <1>8, <1>9
  <2> QED  BY <2>9, <2>10, <1>9 DEF AtTheEnd, A
<1>12. v.pc \in {"ask", "done"}
  BY <1>5
<1> QED  BY <1>5, <1>10, <1>11, <1>12

\* A walk after the list has changed.
Charged(w, old, new) ==
  [w EXCEPT !.left = @ + Cardinality(Range(old) \ Range(new)),
            !.came = @ + Cardinality(Range(new) \ Range(old)),
            !.late = @ + Cardinality(Range(new) \ Range(old))]

\* A change of the list costs a walk no more than it is charged.
LEMMA ListChanged ==
  ASSUME NEW rows, IsFiniteSet(rows), NEW memory,
         NEW old, NEW new, Changes(old, new, rows, memory),
         NEW w \in Walk, OnTheWay(w, old, rows, memory),
         NEW v, v = Charged(w, old, new)
  PROVE  /\ v \in Walk /\ v.pc = w.pc /\ v.unread = w.unread
         /\ OnTheWay(v, new, rows, memory)
         /\ Len(old) <= w.total + w.late => Len(new) <= v.total + v.late
<1> DEFINE left == Cardinality(Range(old) \ Range(new))
           came == Cardinality(Range(new) \ Range(old))
           c == (w.page - 1) * w.size
           before == Beyond(old, c)
           after == Beyond(new, c)
<1>1. /\ w.page \in Nat /\ w.size \in Nat /\ w.page # 0 /\ w.size # 0
      /\ w.items \subseteq rows /\ w.start \subseteq rows
      /\ w.repeats \in Nat /\ w.left \in Nat /\ w.came \in Nat /\ w.late \in Nat /\ w.total \in Nat
      /\ memory => w.repeats = 0 /\ w.items \cap before = {}
      /\ ~memory => w.repeats + Cardinality(w.items \cap before) <= w.came
      /\ Cardinality((w.start \ w.items) \ before) <= w.left
  BY DEF Walk, OnTheWay
<1>2. c \in Nat
  <2>1. \A m, k \in Nat : m * k \in Nat
    OBVIOUS
  <2>2. w.page - 1 \in Nat /\ w.size \in Nat
    BY <1>1
  <2> QED  BY <2>1, <2>2
<1> HIDE DEF c
<1>3. Costs(old, new, c)
  BY <1>2 DEF Changes
<1>4. /\ left \in Nat /\ came \in Nat
      /\ Len(old) \in Nat /\ Len(new) \in Nat /\ Len(new) <= Len(old) + came
  BY <1>3, FS_CardinalityType DEF Costs
<1>5. \A X : IsFiniteSet(X) =>
           /\ Cardinality(X \cap after) <= Cardinality(X \cap before) + came
           /\ Cardinality(X \ after) <= Cardinality(X \ before) + left
  BY <1>3 DEF Costs
<1>6. /\ (Range(new) \ Range(old)) \cap rows = {}
      /\ memory => after \subseteq before \cup (Range(new) \ Range(old))
  BY <1>2 DEF Changes
<1> HIDE DEF before, after, left, came
<1>7. /\ v \in Walk
      /\ v.pc = w.pc /\ v.page = w.page /\ v.size = w.size /\ v.unread = w.unread
      /\ v.items = w.items /\ v.start = w.start /\ v.total = w.total /\ v.repeats = w.repeats
      /\ v.left = w.left + left /\ v.came = w.came + came /\ v.late = w.late + came
  <2> DEFINE l == w.left + left
             m == w.came + came
             n == w.late + came
  <2>1. v = [w EXCEPT !.left = l, !.came = m, !.late = n]
    BY DEF Charged, left, came
  <2>2. l \in Nat /\ m \in Nat /\ n \in Nat
    <3>1. w.left \in Nat /\ w.came \in Nat /\ w.late \in Nat
      BY <1>1
    <3>2. left \in Nat /\ came \in Nat
      BY <1>4
    <3> QED  BY <3>1, <3>2
  <2> HIDE DEF l, m, n
  <2>3. /\ v \in Walk
        /\ v.pc = w.pc /\ v.page = w.page /\ v.size = w.size /\ v.unread = w.unread
        /\ v.items = w.items /\ v.start = w.start /\ v.total = w.total /\ v.repeats = w.repeats
        /\ v.left = l /\ v.came = m /\ v.late = n
    BY <2>1, <2>2 DEF Walk
  <2> QED  BY <2>3 DEF l, m, n
<1>8. IsFiniteSet(w.items) /\ IsFiniteSet(w.start \ w.items)
  <2>1. w.items \subseteq rows /\ w.start \ w.items \subseteq rows
    BY <1>1
  <2> QED  BY <2>1, FS_Subset
<1>9. /\ IsFiniteSet(w.items \cap before) /\ IsFiniteSet(w.items \cap after)
      /\ Cardinality(w.items \cap before) \in Nat /\ Cardinality(w.items \cap after) \in Nat
      /\ Cardinality((w.start \ w.items) \ before) \in Nat
      /\ Cardinality((w.start \ w.items) \ after) \in Nat
  <2>1. /\ w.items \cap before \subseteq w.items /\ w.items \cap after \subseteq w.items
        /\ (w.start \ w.items) \ before \subseteq w.start \ w.items
        /\ (w.start \ w.items) \ after \subseteq w.start \ w.items
    OBVIOUS
  <2> QED  BY <2>1, <1>8, FS_Subset, FS_CardinalityType
<1>10. memory => v.repeats = 0 /\ v.items \cap after = {}
  BY <1>1, <1>6, <1>7
<1>11. ~memory => v.repeats + Cardinality(v.items \cap after) <= v.came
  <2> DEFINE a == Cardinality(w.items \cap after)
             b == Cardinality(w.items \cap before)
  <2>1. a <= b + came /\ a \in Nat /\ b \in Nat /\ (~memory => w.repeats + b <= w.came)
    BY <1>1, <1>5, <1>8, <1>9
  <2>2. Cardinality(v.items \cap after) = a
    BY <1>7
  <2> HIDE DEF a, b
  <2>3. w.repeats \in Nat /\ w.came \in Nat /\ came \in Nat
    BY <1>1, <1>4
  <2>4. v.repeats = w.repeats /\ v.came = w.came + came
    BY <1>7
  <2> QED  BY <2>1, <2>2, <2>3, <2>4
<1>12. Cardinality((v.start \ v.items) \ after) <= v.left
  <2> DEFINE X == w.start \ w.items
             a == Cardinality(X \ after)
             b == Cardinality(X \ before)
  <2>1. a \in Nat /\ b \in Nat /\ b <= w.left /\ IsFiniteSet(X)
    BY <1>1, <1>8, <1>9
  <2>2. Cardinality((v.start \ v.items) \ after) = a
    BY <1>7
  <2> HIDE DEF X
  <2>3. a <= b + left
    BY <2>1, <1>5
  <2> HIDE DEF a, b
  <2>4. w.left \in Nat /\ left \in Nat /\ v.left = w.left + left
    BY <1>1, <1>4, <1>7
  <2> QED  BY <2>1, <2>2, <2>3, <2>4
<1>13. v.page # 0 /\ v.size # 0 /\ v.items \subseteq rows /\ v.start \subseteq rows
  BY <1>1, <1>7
<1>14. (v.page - 1) * v.size = c
  BY <1>7 DEF c
<1>15. OnTheWay(v, new, rows, memory)
  BY <1>10, <1>11, <1>12, <1>13, <1>14 DEF OnTheWay, after
<1>16. Len(old) <= w.total + w.late => Len(new) <= v.total + v.late
  <2>1. w.total \in Nat /\ w.late \in Nat
    BY <1>1
  <2>2. v.total = w.total /\ v.late = w.late + came
    BY <1>7
  <2>3. Len(old) \in Nat /\ Len(new) \in Nat /\ came \in Nat /\ Len(new) <= Len(old) + came
    BY <1>4
  <2> QED  BY <2>1, <2>2, <2>3
<1> QED  BY <1>7, <1>15, <1>16

-----------------------------------------------------------------------------
ListingInv == StoreInv /\ WalkInv

LEMMA ListableIs ==
  ASSUME StoreInv, NEW b
  PROVE  LET list == Filtered(byUser[Reader], isRead, b)
         IN  /\ DOMAIN owner \subseteq Id /\ IsFiniteSet(DOMAIN owner)
             /\ list \in Seq(DOMAIN owner) /\ IsInjective(list)
             /\ Len(list) \in Nat /\ Range(list) \subseteq DOMAIN owner
             /\ Beyond(list, 0) = Range(list)
<1> DEFINE rows == DOMAIN owner
           mine == byUser[Reader]
           list == Filtered(mine, isRead, b)
<1>1. rows \subseteq Id /\ IsFiniteSet(rows)
  <2>1. owner \in Seq(User) /\ Len(owner) <= MaxRows
    BY DEF StoreInv, StoreTypeOK
  <2>2. Len(owner) \in Nat /\ rows = 1 .. Len(owner)
    BY <2>1, LenProperties
  <2>3. IsFiniteSet(1 .. Len(owner))
    BY <2>2, FS_Interval
  <2> HIDE DEF rows
  <2> QED  BY <2>1, <2>2, <2>3, StoreAssumption DEF Id
<1>2. mine \in Seq(rows) /\ IsInjective(mine)
  BY ListingAssumption DEF StoreInv, StoreTypeOK, IndexesAgree
<1> HIDE DEF mine, rows
<1>3. list \in Seq(rows) /\ IsInjective(list)
  BY <1>2, FilteredProperties
<1> HIDE DEF list
<1>4. Len(list) \in Nat /\ DOMAIN list = 1 .. Len(list) /\ \A i \in 1 .. Len(list) : list[i] \in rows
  BY <1>3, LenProperties, ElementOfSeq
<1>5. Range(list) \subseteq rows /\ Beyond(list, 0) = Range(list)
  BY <1>4 DEF Range, Beyond
<1> QED  BY <1>1, <1>3, <1>4, <1>5 DEF list, mine, rows

LEMMA ListingInitInv == Init => ListingInv
<1> SUFFICES ASSUME Init PROVE ListingInv
  OBVIOUS
<1>1. StoreInv
  BY StoreInitInv DEF Init
<1>2. walk = Idle /\ walk.pc = "idle"
  BY DEF Init, Idle
<1> QED  BY <1>1, <1>2 DEF ListingInv, WalkInv

LEMMA ListingStepInv == ListingInv /\ [Next]_vars => ListingInv'
<1> SUFFICES ASSUME ListingInv, [Next]_vars  PROVE ListingInv'
  OBVIOUS
<1> DEFINE memory == kind = "memory"
           rows == DOMAIN owner
<1>1. StoreInv /\ WalkInv
  BY DEF ListingInv
<1>2. StoreInv'
  <2>1. [Next]_vars => [Write \/ Query]_storeVars
    BY DEF Next, vars, storeVars, Open, ShowPage, Count, Find, Fail, Close, Others
  <2> QED  BY <2>1, <1>1, StoreStepInv
<1>3. kind \in {"memory", "mongo"}
  BY <1>1 DEF StoreInv, StoreTypeOK
<1>4. Idle.pc = "idle" /\ walk \in Walk \cup {Idle}
  BY <1>1 DEF Idle, WalkInv
<1>5. walk.pc \in {"ask", "find"} => walk \in Walk /\ OnTheWay(walk, Listable, rows, memory)
  BY <1>1, <1>4 DEF WalkInv
<1>6. walk.pc = "find" => kind = "mongo" /\ Len(Listable) <= walk.total + walk.late
  BY <1>1 DEF WalkInv
<1>7. ASSUME NEW unread \in BOOLEAN, NEW n \in Sizes, Open(unread, n)  PROVE WalkInv'
  <2> DEFINE list == Filtered(byUser[Reader], isRead, unread)
  <2>1. /\ rows \subseteq Id /\ list \in Seq(rows)
        /\ Range(list) \subseteq rows /\ Beyond(list, 0) = Range(list)
    BY <1>1, ListableIs
  <2>2. PageSize(n) \in Nat /\ PageSize(n) # 0
    BY ListingAssumption DEF PageSize
  <2>3. /\ walk'.pc = "ask" /\ walk'.unread = unread /\ walk'.size = PageSize(n)
        /\ walk'.page = 1 /\ walk'.total = 0 /\ walk'.items = {} /\ walk'.repeats = 0
        /\ walk'.start = Range(list) /\ walk'.left = 0 /\ walk'.came = 0 /\ walk'.late = 0
        /\ UNCHANGED storeVars
    BY <1>7 DEF Open
  <2>4. walk' \in Walk
    BY <1>7, <2>1, <2>2 DEF Open, Walk
  <2>5. Listable' = list
    BY <2>3 DEF Listable, storeVars
  <2> HIDE DEF list
  <2>6. (walk'.page - 1) * walk'.size = 0
    BY <2>2, <2>3
  <2>7. /\ walk'.items \cap Beyond(list, 0) = {}
        /\ (walk'.start \ walk'.items) \ Beyond(list, 0) = {}
    BY <2>1, <2>3
  <2>8. OnTheWay(walk', list, rows, memory)
    <3> DEFINE ahead == Beyond(list, (walk'.page - 1) * walk'.size)
    <3>1. ahead = Beyond(list, 0)
      BY <2>6
    <3>2. /\ walk'.items \cap ahead = {}
          /\ Cardinality(walk'.items \cap ahead) = 0
          /\ Cardinality((walk'.start \ walk'.items) \ ahead) = 0
      BY <2>7, <3>1, FS_EmptySet
    <3>3. walk'.items \subseteq rows /\ walk'.start \subseteq rows
      BY <2>1, <2>3
    <3> HIDE DEF ahead, rows, memory
    <3> QED  BY <2>2, <2>3, <3>2, <3>3 DEF OnTheWay, ahead
  <2> QED  BY <2>3, <2>4, <2>5, <2>8 DEF WalkInv, storeVars
<1>8. ASSUME NEW w \in Walk, NEW total \in Nat, OnTheWay(w, Listable, rows, memory),
             Len(Listable) <= total + w.late, w.unread = walk.unread,
             w.page = walk.page, w.size = walk.size,
             walk' = Shown(w, total, PageOf(Listable, w.page, w.size)), UNCHANGED storeVars
      PROVE  WalkInv'
  <2> DEFINE list == Listable
  <2>1. /\ rows \subseteq Id /\ IsFiniteSet(rows)
        /\ list \in Seq(rows) /\ IsInjective(list)
    BY <1>1, ListableIs DEF Listable
  <2> DEFINE v == walk'
  <2>2. /\ v \in Walk /\ v.pc \in {"ask", "done"} /\ v.unread = w.unread
        /\ v.pc = "ask" => OnTheWay(v, list, rows, memory)
        /\ v.pc = "done" => AtTheEnd(v, memory)
    <3>1. Shows(w, total, list, v) /\ OnTheWay(w, list, rows, memory)
      BY <1>8 DEF Shows
    <3> HIDE DEF list, memory, rows, v
    <3> QED  BY <2>1, <3>1, PageShown
  <2> HIDE DEF list, memory, rows
  <2>3. Listable' = list /\ kind' = kind /\ owner' = owner
    BY <1>8, <2>2 DEF Listable, storeVars, list, v
  <2> QED  BY <2>2, <2>3 DEF WalkInv, memory, rows, v
<1>9. ASSUME ShowPage  PROVE WalkInv'
  <2> DEFINE w == [walk EXCEPT !.late = 0]
  <2>1. walk.pc = "ask" /\ walk \in Walk /\ OnTheWay(walk, Listable, rows, memory)
    BY <1>5, <1>9 DEF ShowPage
  <2>2. /\ w \in Walk /\ w.page = walk.page /\ w.size = walk.size /\ w.unread = walk.unread
        /\ w.items = walk.items /\ w.start = walk.start /\ w.repeats = walk.repeats
        /\ w.left = walk.left /\ w.came = walk.came /\ w.late = 0
    BY <2>1 DEF Walk
  <2>3. /\ walk' = Shown(w, Len(Listable), PageOf(Listable, w.page, w.size))
        /\ UNCHANGED storeVars
    BY <1>9, <2>2 DEF ShowPage
  <2> HIDE DEF w
  <2>4. OnTheWay(w, Listable, rows, memory)
    BY <2>1, <2>2 DEF OnTheWay
  <2>5. Len(Listable) \in Nat
    BY <1>1, ListableIs DEF Listable
  <2>6. Len(Listable) <= Len(Listable) + w.late
    BY <2>2, <2>5
  <2> QED  BY <1>8, <2>2, <2>3, <2>4, <2>5, <2>6
<1>10. ASSUME Count  PROVE WalkInv'
  <2> DEFINE n == Len(Listable)
  <2>1. walk.pc = "ask" /\ walk \in Walk /\ OnTheWay(walk, Listable, rows, memory) /\ kind = "mongo"
    BY <1>5, <1>10 DEF Count
  <2>2. n \in Nat
    BY <1>1, ListableIs DEF Listable
  <2>3. walk' = [walk EXCEPT !.pc = "find", !.total = n, !.late = 0] /\ UNCHANGED storeVars
    BY <1>10 DEF Count
  <2>4. /\ walk' \in Walk /\ walk'.pc = "find" /\ walk'.total = n /\ walk'.late = 0
        /\ walk'.page = walk.page /\ walk'.size = walk.size /\ walk'.unread = walk.unread
        /\ walk'.items = walk.items /\ walk'.start = walk.start /\ walk'.repeats = walk.repeats
        /\ walk'.left = walk.left /\ walk'.came = walk.came
    <3> HIDE DEF n
    <3> QED  BY <2>1, <2>2, <2>3 DEF Walk
  <2>5. Listable' = Listable /\ kind' = kind /\ owner' = owner
    BY <2>3, <2>4 DEF Listable, storeVars
  <2>6. OnTheWay(walk', Listable, rows, memory)
    BY <2>1, <2>4 DEF OnTheWay
  <2>7. Len(Listable) <= walk'.total + walk'.late
    BY <2>2, <2>4
  <2> QED  BY <2>1, <2>4, <2>5, <2>6, <2>7 DEF WalkInv
<1>11. ASSUME Find  PROVE WalkInv'
  <2>1. walk \in Walk /\ OnTheWay(walk, Listable, rows, memory) /\ walk.pc = "find"
    BY <1>5, <1>11 DEF Find
  <2>2. walk.total \in Nat /\ Len(Listable) <= walk.total + walk.late
    BY <1>6, <2>1 DEF Walk
  <2>3. /\ walk' = Shown(walk, walk.total, PageOf(Listable, walk.page, walk.size))
        /\ UNCHANGED storeVars
    BY <1>11 DEF Find
  <2> QED  BY <1>8, <2>1, <2>2, <2>3
<1>12. ASSUME Others  PROVE WalkInv'
  <2> DEFINE b == walk.unread
             old == Filtered(byUser[Reader], isRead, b)
             new == Filtered(byUser'[Reader], isRead', b)
  <2>1. Write /\ walk.pc # "done"
    BY <1>12 DEF Others
  <2>2. CASE walk.pc \in {"ask", "find"}
    <3>1. /\ kind' = kind /\ rows \subseteq DOMAIN owner'
          /\ Changes(old, new, rows, memory)
      <4>1. ASSUME NEW c
            PROVE  /\ kind' = kind /\ DOMAIN owner \subseteq DOMAIN owner'
                   /\ Changes(Filtered(byUser[Reader], isRead, c),
                              Filtered(byUser'[Reader], isRead', c),
                              DOMAIN owner, kind = "memory")
        BY <1>1, <1>2, <2>1, WriteChanges
      <4> QED  BY <4>1
    <3>2. walk' = Charged(walk, old, new)
      BY <1>12, <2>2 DEF Others, Listable, Charged
    <3>3. Listable = old
      BY DEF Listable
    <3>4. IsFiniteSet(rows)
      BY <1>1, ListableIs
    <3>5. walk \in Walk /\ OnTheWay(walk, old, rows, memory)
      BY <1>5, <2>2, <3>3
    <3> DEFINE rows2 == DOMAIN owner'
               list2 == Listable'
    <3>6. Listable' = Filtered(byUser'[Reader], isRead', walk'.unread)
      BY DEF Listable
    <3> DEFINE v == walk'
    <3>7. /\ v \in Walk /\ v.pc = walk.pc /\ v.unread = walk.unread
          /\ OnTheWay(v, new, rows2, memory)
          /\ Len(old) <= walk.total + walk.late => Len(new) <= v.total + v.late
      <4>1. v = Charged(walk, old, new)
        BY <3>2
      <4> HIDE DEF b, old, new, rows, rows2, memory, v
      <4>2. /\ v \in Walk /\ v.pc = walk.pc /\ v.unread = walk.unread
            /\ OnTheWay(v, new, rows, memory)
            /\ Len(old) <= walk.total + walk.late => Len(new) <= v.total + v.late
        BY <3>1, <3>4, <3>5, <4>1, ListChanged
      <4>3. OnTheWay(v, new, rows2, memory)
        BY <3>1, <4>2 DEF OnTheWay, rows2
      <4> QED  BY <4>2, <4>3
    <3> HIDE DEF b, old, new, rows, rows2, memory
    <3>8. Listable' = new
      BY <3>6, <3>7 DEF new, b, v
    <3> QED  BY <1>6, <2>2, <3>1, <3>3, <3>7, <3>8 DEF WalkInv, rows2, memory, v
  <2>3. CASE walk.pc \notin {"ask", "find"}
    <3>1. walk' = walk
      BY <1>12, <2>3 DEF Others
    <3> QED  BY <1>4, <2>1, <2>3, <3>1 DEF WalkInv
  <2> QED  BY <2>2, <2>3
<1>13. ASSUME walk' = Idle  PROVE WalkInv'
  BY <1>4, <1>13 DEF WalkInv
<1>14. ASSUME walk.pc = "idle", UNCHANGED walk  PROVE WalkInv'
  BY <1>4, <1>14 DEF WalkInv
<1>15. ASSUME UNCHANGED vars  PROVE WalkInv'
  <2>1. Listable' = Listable /\ kind' = kind /\ owner' = owner /\ walk' = walk
    BY <1>15 DEF vars, storeVars, Listable
  <2> QED  BY <1>1, <2>1 DEF WalkInv
<1>16. WalkInv'
  <2>1. ASSUME Fail \/ Close  PROVE WalkInv'
    BY <1>13, <2>1 DEF Fail, Close
  <2> QED  BY <1>7, <1>9, <1>10, <1>11, <1>12, <1>14, <1>15, <2>1 DEF Next
<1> QED  BY <1>2, <1>16 DEF ListingInv

\* What ListingInv says of the reader's progress.
LEMMA ListingInvBounds == ListingInv => TypeOK /\ NothingMissed /\ RepeatsBounded
<1> SUFFICES ASSUME ListingInv  PROVE TypeOK /\ NothingMissed /\ RepeatsBounded
  OBVIOUS
<1>1. StoreInv /\ WalkInv
  BY DEF ListingInv
<1>2. TypeOK
  BY <1>1 DEF StoreInv, WalkInv, TypeOK
<1>3. NothingMissed
  BY <1>1 DEF WalkInv, AtTheEnd, NothingMissed, Done, Missed
<1>4. kind \in {"memory", "mongo"}
  BY <1>1 DEF StoreInv, StoreTypeOK
<1>5. RepeatsBounded
  <2> SUFFICES ASSUME walk.pc # "idle"
               PROVE  walk.repeats <= IF kind = "mongo" THEN walk.came ELSE 0
    BY DEF RepeatsBounded
  <2>1. walk \in Walk /\ walk.pc \in {"ask", "find", "done"}
    BY <1>1 DEF WalkInv, Idle, Walk
  <2>2. walk.repeats \in Nat /\ walk.came \in Nat
    BY <2>1 DEF Walk
  <2>3. CASE walk.pc = "done"
    BY <1>1, <1>4, <2>2, <2>3 DEF WalkInv, AtTheEnd
  <2>4. CASE walk.pc \in {"ask", "find"}
    <3> DEFINE X == walk.items \cap Beyond(Listable, (walk.page - 1) * walk.size)
    <3>1. /\ walk.items \subseteq DOMAIN owner
          /\ kind = "memory" => walk.repeats = 0
          /\ kind # "memory" => walk.repeats + Cardinality(X) <= walk.came
      BY <1>1, <2>4 DEF WalkInv, OnTheWay
    <3>2. Cardinality(X) \in Nat
      <4>1. IsFiniteSet(DOMAIN owner)
        BY <1>1, ListableIs
      <4>2. X \subseteq DOMAIN owner
        BY <3>1
      <4> HIDE DEF X
      <4> QED  BY <4>1, <4>2, FS_Subset, FS_CardinalityType
    <3> HIDE DEF X
    <3> QED  BY <1>4, <2>2, <3>1, <3>2
  <2> QED  BY <2>1, <2>3, <2>4
<1> QED  BY <1>2, <1>3, <1>5

-----------------------------------------------------------------------------
(***************************************************************************)
(* Theorems.                                                               *)
(***************************************************************************)

\* Whatever a walk does, the stores only make the steps of their operations.
LEMMA WalkIsStore == Spec => StoreSpec
<1>1. Init => StoreInit
  BY DEF Init
<1>2. [Next]_vars => [Write \/ Query]_storeVars
  BY DEF Next, vars, storeVars, Open, ShowPage, Count, Find, Fail, Close, Others
<1> QED  BY <1>1, <1>2, PTL DEF Spec, StoreSpec

LEMMA StoreAlwaysInv == StoreSpec => []StoreInv
  BY StoreInitInv, StoreStepInv, PTL DEF StoreSpec

\* The two indexes of a store agree: what a user's listing holds, once each, is
\* what can be fetched, marked and deleted by id (memory/notification.go).
THEOREM IndexesAlwaysAgree == Spec => []IndexesAgree
<1>1. StoreInv => IndexesAgree
  BY DEF StoreInv
<1> QED  BY <1>1, WalkIsStore, StoreAlwaysInv, PTL

\* The stores implement the promise of internal/store/store.go: calls of one
\* user neither read nor change the rows of another, and answer what is true.
THEOREM StoresKeepPromise == Spec => KeepsPromise
<1>1. StoreSpec => KeepsPromise
  BY StoreAlwaysInv, InitKeepsPromise, StepKeepsPromise, PTL
     DEF StoreSpec, KeepsPromise, Promise!Spec
<1> QED  BY <1>1, WalkIsStore, PTL

LEMMA ListingAlwaysInv == Spec => []ListingInv
  BY ListingInitInv, ListingStepInv, PTL DEF Spec

\* A walk's record stays what it is declared to be, and the stores' state too,
\* with either store and whatever the other devices and the pipeline do.
THEOREM WalkTyped == Spec => []TypeOK
<1> QED  BY ListingInvBounds, ListingAlwaysInv, PTL

\* A walk to the last page misses no more of the rows it began with than were
\* deleted or read before it got there, and with MongoDB those that came between
\* the last count and its page (notification_handler.go, ListByUserIDPaginated
\* of either store), for every list, page size and number of pages.
THEOREM NothingIsMissed == Spec => []NothingMissed
<1> QED  BY ListingInvBounds, ListingAlwaysInv, PTL

\* It shows no more rows again than came meanwhile, and none with the memory
\* store, which lists new rows last.
THEOREM RepeatsAreBounded == Spec => []RepeatsBounded
<1> QED  BY ListingInvBounds, ListingAlwaysInv, PTL
=============================================================================
