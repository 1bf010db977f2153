-------------------------- MODULE LinkedListProofs --------------------------
(***************************************************************************)
(* Proofs about the linked list of class DatabaseCache, in the machine of  *)
(* NodeCaches.tla: its pointers always form one list of the keys that the  *)
(* map has, and what it does to that list is what LruCache.tla promises.   *)
(***************************************************************************)
EXTENDS NodeCaches, FiniteSetTheorems, WellFoundedInduction, TLAPS

-----------------------------------------------------------------------------
(* The inductive invariant. *)

Values == Keys \cup Roots
RecordOrNull == Keys \cup {Null}

Lists == [cacheMap : SUBSET Keys, head : RecordOrNull, last : RecordOrNull, currentSize : Int,
          prev : [Keys -> RecordOrNull], next : [Keys -> RecordOrNull],
          value : [Keys -> Values \cup {Null}]]

IsOnce(s) == \A i, j \in DOMAIN s : s[i] = s[j] => i = j

\* The pointers of c lead through s.
IsList(c, s) ==
  /\ c \in Lists /\ s \in Seq(Keys) /\ IsOnce(s)
  /\ c.cacheMap = Lru!Cached(s)
  /\ c.currentSize = Lru!SizeOf(s)
  /\ c.head = IF s = <<>> THEN Null ELSE s[1]
  /\ c.last = IF s = <<>> THEN Null ELSE s[Len(s)]
  /\ \A i \in DOMAIN s : /\ c.next[s[i]] = IF i = Len(s) THEN Null ELSE s[i + 1]
                         /\ c.prev[s[i]] = IF i = 1 THEN Null ELSE s[i - 1]

\* A record has the value last added for its key.
HasLatest(c, values) ==
  \A k \in c.cacheMap : c.value[k] = values[k] /\ (k \in Nodes => c.value[k] = k)

ListInv ==
  /\ useAssociativeCache \in BOOLEAN /\ latest \in [Keys -> Values \cup {Null}]
  /\ useAssociativeCache => dbMTCache = List!EmptyCache
  /\ \E s \in Seq(Keys) : IsList(dbMTCache, s)
  /\ HasLatest(dbMTCache, latest)

-----------------------------------------------------------------------------
(* Iteration. *)

LEMMA LeastNumber ==
  ASSUME NEW S \in SUBSET Nat, S # {}
  PROVE  \E x \in S : \A y \in S : x <= y
<1>1. PICK x \in S : \A y \in S : <<y, x>> \notin OpToRel(<, Nat)
  BY NatLessThanWellFounded, WFMin
<1>2. \A y \in S : ~ (y < x)
  BY <1>1 DEF OpToRel
<1> QED
  BY <1>2

\* N steps from first, as a function of the steps made so far.
IsIteration(t, first, Step, N) ==
  t = [n \in 0 .. N |-> IF n = 0 THEN first ELSE Step[<<n, t[n - 1]>>]]

LEMMA Iterated ==
  ASSUME NEW D, NEW N \in Nat, NEW Step \in [(1 .. N) \X D -> D], NEW first \in D
  PROVE  \E t \in [0 .. N -> D] : IsIteration(t, first, Step, N)
<1> DEFINE Runs(M) == {t \in [0 .. M -> D] : IsIteration(t, first, Step, M)}
           bad == {M \in 0 .. N : Runs(M) = {}}
<1>1. SUFFICES ASSUME bad # {} PROVE FALSE
  OBVIOUS
<1>2. PICK M \in bad : \A y \in bad : M <= y
  <2>1. bad \in SUBSET Nat
    OBVIOUS
  <2> HIDE DEF bad
  <2> QED
    BY <1>1, <2>1, LeastNumber
<1>3. CASE M = 0
  <2>1. [n \in 0 .. 0 |-> first] \in Runs(0)
    BY DEF IsIteration
  <2> QED
    BY <1>2, <1>3, <2>1
<1>4. CASE M # 0
  <2>1. M - 1 \in 0 .. N /\ M - 1 \notin bad /\ M \in 1 .. N
    BY <1>2, <1>4
  <2>2. PICK t \in [0 .. M - 1 -> D] :
          t = [n \in 0 .. M - 1 |-> IF n = 0 THEN first ELSE Step[<<n, t[n - 1]>>]]
    BY <2>1 DEF IsIteration
  <2> DEFINE u == [n \in 0 .. M |-> IF n = M THEN Step[<<M, t[M - 1]>>] ELSE t[n]]
  <2>3. u \in [0 .. M -> D]
    <3>1. t[M - 1] \in D
      BY <2>1
    <3>2. Step[<<M, t[M - 1]>>] \in D
      BY <2>1, <3>1
    <3> QED
      BY <2>1, <3>2
  <2>4. \A n \in 0 .. M : u[n] = IF n = 0 THEN first ELSE Step[<<n, u[n - 1]>>]
    <3>1. \A n \in 0 .. M - 1 : u[n] = t[n] /\ t[n] = IF n = 0 THEN first ELSE Step[<<n, t[n - 1]>>]
      BY <2>1, <2>2
    <3>2. u[M] = Step[<<M, u[M - 1]>>]
      <4>1. u[M] = Step[<<M, t[M - 1]>>] /\ M - 1 \in 0 .. M - 1
        BY <2>1
      <4>2. u[M - 1] = t[M - 1]
        BY <3>1, <4>1
      <4> QED
        BY <4>1, <4>2
    <3> HIDE DEF u
    <3>3. ASSUME NEW n \in 0 .. M PROVE u[n] = IF n = 0 THEN first ELSE Step[<<n, u[n - 1]>>]
      <4>1. n = M \/ n \in 0 .. M - 1
        BY <2>1
      <4>2. ASSUME n \in 0 .. M - 1, n # 0 PROVE u[n - 1] = t[n - 1]
        <5>1. n - 1 \in 0 .. M - 1
          BY <2>1, <4>2
        <5> QED
          BY <3>1, <5>1
      <4> QED
        BY <1>4, <3>1, <3>2, <4>1, <4>2
    <3> QED
      BY <3>3
  <2>5. u = [n \in 0 .. M |-> IF n = 0 THEN first ELSE Step[<<n, u[n - 1]>>]]
    BY <2>3, <2>4
  <2> QED
    BY <1>2, <2>3, <2>5 DEF IsIteration
<1> QED
  BY <1>3, <1>4

-----------------------------------------------------------------------------
(* The size of a sequence of records. *)

\* u[n] is the size of the first n records of s.
Sizes(u, s) ==
  /\ u \in [0 .. Len(s) -> Int] /\ u[0] = 0
  /\ \A n \in 1 .. Len(s) : u[n] = u[n - 1] + Size[s[n]]

LEMMA SizesExist ==
  ASSUME NEW s \in Seq(Keys)
  PROVE  \E u : Sizes(u, s)
<1> DEFINE N == Len(s)
           Step == [x \in (1 .. N) \X Int |-> x[2] + Size[s[x[1]]]]
<1>1. N \in Nat /\ Step \in [(1 .. N) \X Int -> Int] /\ 0 \in Int
  <2>1. \A n \in 1 .. N : Size[s[n]] \in Int
    BY CachesAssumption
  <2> QED
    BY <2>1
<1>2. PICK t \in [0 .. N -> Int] : IsIteration(t, 0, Step, N)
  <2> HIDE DEF Step
  <2> QED
    BY <1>1, Iterated
<1>3. t[0] = 0
  BY <1>1, <1>2 DEF IsIteration
<1>4. \A n \in 1 .. N : t[n] = Step[<<n, t[n - 1]>>] /\ t[n - 1] \in Int
  <2> HIDE DEF Step
  <2> SUFFICES ASSUME NEW n \in 1 .. N PROVE t[n] = Step[<<n, t[n - 1]>>] /\ t[n - 1] \in Int
    OBVIOUS
  <2>1. n \in 0 .. N /\ n - 1 \in 0 .. N /\ n # 0
    BY <1>1
  <2> QED
    BY <1>2, <2>1 DEF IsIteration
<1>5. \A n \in 1 .. N : t[n] = t[n - 1] + Size[s[n]]
  BY <1>4
<1> QED
  BY <1>2, <1>3, <1>5 DEF Sizes

LEMMA SizeOfAll ==
  ASSUME NEW s \in Seq(Keys), NEW u, Sizes(u, s)
  PROVE  Lru!SizeOf(s) = u[Len(s)]
<1> DEFINE N == Len(s)
           IsUpTo(t) == t = [n \in 0 .. N |-> IF n = 0 THEN 0 ELSE t[n - 1] + Size[s[n]]]
           upTo == CHOOSE t : IsUpTo(t)
<1>1. N \in Nat
  OBVIOUS
<1>2. IsUpTo(u)
  BY <1>1 DEF Sizes
<1>3. IsUpTo(upTo)
  <2> HIDE DEF IsUpTo
  <2> QED
    BY <1>2
<1>4. Lru!SizeOf(s) = upTo[N]
  BY DEF Lru!SizeOf
<1> HIDE DEF upTo
<1> DEFINE bad == {n \in 0 .. N : upTo[n] # u[n]}
<1>5. SUFFICES ASSUME bad # {} PROVE FALSE
  BY <1>1, <1>4
<1>6. PICK n \in bad : \A m \in bad : n <= m
  <2>1. bad \in SUBSET Nat
    BY <1>1
  <2> HIDE DEF bad
  <2> QED
    BY <1>5, <2>1, LeastNumber
<1>7. upTo[n] = IF n = 0 THEN 0 ELSE upTo[n - 1] + Size[s[n]]
  BY <1>3, <1>6
<1>8. n # 0 /\ n \in 1 .. N /\ n - 1 \in 0 .. N
  BY <1>1, <1>6, <1>7 DEF Sizes
<1>9. upTo[n - 1] = u[n - 1]
  BY <1>1, <1>6, <1>8
<1> QED
  BY <1>6, <1>7, <1>8, <1>9 DEF Sizes

\* The size of a beginning of s.
LEMMA SizeOfFirst ==
  ASSUME NEW s \in Seq(Keys), NEW u, Sizes(u, s), NEW n \in 0 .. Len(s)
  PROVE  Lru!SizeOf(SubSeq(s, 1, n)) = u[n]
<1> DEFINE t == SubSeq(s, 1, n)
           v == [m \in 0 .. n |-> u[m]]
<1>1. /\ t \in Seq(Keys) /\ Len(t) = n /\ n \in Nat /\ Len(s) \in Nat
      /\ \A i \in 1 .. n : t[i] = s[i]
  OBVIOUS
<1> HIDE DEF t
<1>2. Sizes(v, t)
  <2>1. v \in [0 .. Len(t) -> Int] /\ v[0] = 0
    BY <1>1 DEF Sizes
  <2>2. ASSUME NEW i \in 1 .. Len(t) PROVE v[i] = v[i - 1] + Size[t[i]]
    <3>1. i \in 1 .. Len(s) /\ i \in 0 .. n /\ i - 1 \in 0 .. n /\ t[i] = s[i]
      BY <1>1
    <3>2. u[i] = u[i - 1] + Size[s[i]]
      BY <3>1 DEF Sizes
    <3> QED
      BY <3>1, <3>2
  <2> QED
    BY <2>1, <2>2 DEF Sizes
<1>3. v[n] = u[n]
  BY <1>1
<1> HIDE DEF v
<1>4. Lru!SizeOf(t) = v[Len(t)]
  BY <1>1, <1>2, SizeOfAll
<1> QED
  BY <1>1, <1>3, <1>4 DEF t

LEMMA SizeOfLonger ==
  ASSUME NEW s \in Seq(Keys), NEW k \in Keys
  PROVE  Lru!SizeOf(<<k>> \o s) = Lru!SizeOf(s) + Size[k]
<1> DEFINE t == <<k>> \o s
<1>1. PICK u : Sizes(u, s)
  BY SizesExist
<1> DEFINE v == [n \in 0 .. Len(s) + 1 |-> IF n = 0 THEN 0 ELSE u[n - 1] + Size[k]]
<1>2. /\ t \in Seq(Keys) /\ Len(t) = Len(s) + 1 /\ Len(s) \in Nat /\ t[1] = k
      /\ \A i \in 1 .. Len(s) : t[i + 1] = s[i]
  OBVIOUS
<1>3. Size[k] \in Int /\ \A i \in 1 .. Len(s) : Size[s[i]] \in Int
  BY CachesAssumption
<1> HIDE DEF t
<1>4. Sizes(v, t)
  <2>1. v \in [0 .. Len(t) -> Int] /\ v[0] = 0
    BY <1>1, <1>2, <1>3 DEF Sizes
  <2>2. ASSUME NEW n \in 1 .. Len(t) PROVE v[n] = v[n - 1] + Size[t[n]]
    <3>1. CASE n = 1
      BY <1>1, <1>2, <1>3, <3>1 DEF Sizes
    <3>2. CASE n # 1
      <4>1. n - 1 \in 1 .. Len(s) /\ n - 2 \in 0 .. Len(s) /\ n \in Int
        BY <1>2, <3>2
      <4>2. t[n] = s[n - 1]
        BY <1>2, <4>1
      <4>3. u[n - 1] = u[n - 2] + Size[s[n - 1]] /\ u[n - 2] \in Int
        <5>1. (n - 1) - 1 = n - 2
          BY <4>1
        <5>2. u[n - 1] = u[(n - 1) - 1] + Size[s[n - 1]]
          BY <1>1, <4>1 DEF Sizes
        <5> QED
          BY <1>1, <4>1, <5>1, <5>2 DEF Sizes
      <4>4. v[n] = u[n - 1] + Size[k] /\ v[n - 1] = u[n - 2] + Size[k]
        BY <1>2, <4>1
      <4> QED
        BY <1>3, <4>1, <4>2, <4>3, <4>4
    <3> QED
      BY <3>1, <3>2
  <2> QED
    BY <2>1, <2>2 DEF Sizes
<1>5. v[Len(t)] = u[Len(s)] + Size[k]
  BY <1>2
<1> HIDE DEF v
<1>6. Lru!SizeOf(t) = v[Len(t)] /\ Lru!SizeOf(s) = u[Len(s)]
  BY <1>1, <1>2, <1>4, SizeOfAll
<1> QED
  BY <1>5, <1>6 DEF t

LEMMA FrontIsSequence ==
  ASSUME NEW s \in Seq(Keys), NEW p \in DOMAIN s
  PROVE  LET t == Lru!ToFront(s, p) IN
         /\ t \in Seq(Keys) /\ Len(t) = Len(s) /\ DOMAIN t = 1 .. Len(s) /\ DOMAIN s = 1 .. Len(s)
         /\ Len(s) \in Nat
         /\ \A i \in 1 .. Len(s) : t[i] = IF i = 1 THEN s[p] ELSE IF i <= p THEN s[i - 1] ELSE s[i]
<1> DEFINE t == Lru!ToFront(s, p)
<1>1. /\ DOMAIN s = 1 .. Len(s) /\ Len(s) \in Nat
      /\ t = [i \in 1 .. Len(s) |-> IF i = 1 THEN s[p] ELSE IF i <= p THEN s[i - 1] ELSE s[i]]
  BY DEF Lru!ToFront
<1>2. \A i \in 1 .. Len(s) : t[i] \in Keys
  BY <1>1
<1>3. t \in [1 .. Len(s) -> Keys]
  BY <1>1, <1>2
<1>4. t \in Seq(Keys) /\ Len(t) = Len(s)
  <2> HIDE DEF t
  <2> QED
    BY <1>1, <1>3
<1> QED
  BY <1>1, <1>4

LEMMA SizeOfFront ==
  ASSUME NEW s \in Seq(Keys), NEW p \in DOMAIN s
  PROVE  Lru!SizeOf(Lru!ToFront(s, p)) = Lru!SizeOf(s)
<1> DEFINE t == Lru!ToFront(s, p)
           N == Len(s)
<1>1. PICK u : Sizes(u, s)
  BY SizesExist
<1> DEFINE v == [n \in 0 .. N |-> IF n = 0 THEN 0 ELSE IF n <= p THEN u[n - 1] + Size[s[p]] ELSE u[n]]
<1>2. /\ t \in Seq(Keys) /\ Len(t) = N /\ N \in Nat /\ p \in 1 .. N
      /\ \A i \in 1 .. N : t[i] = IF i = 1 THEN s[p] ELSE IF i <= p THEN s[i - 1] ELSE s[i]
  BY FrontIsSequence
<1>3. \A i \in 1 .. N : Size[s[i]] \in Int
  BY CachesAssumption
<1>4. /\ u \in [0 .. N -> Int] /\ u[0] = 0
      /\ \A n \in 1 .. N : u[n] = u[n - 1] + Size[s[n]]
  BY <1>1 DEF Sizes
<1> HIDE DEF t, N
<1>5. Sizes(v, t)
  <2>1. v \in [0 .. N -> Int] /\ v[0] = 0
    <3>1. ASSUME NEW n \in 0 .. N
          PROVE  (IF n = 0 THEN 0 ELSE IF n <= p THEN u[n - 1] + Size[s[p]] ELSE u[n]) \in Int
      <4>1. Size[s[p]] \in Int /\ u[n] \in Int
        BY <1>2, <1>3, <1>4
      <4>2. CASE n = 0
        BY <4>2
      <4>3. CASE n # 0
        <5>1. n - 1 \in 0 .. N
          BY <1>2, <4>3
        <5>2. u[n - 1] \in Int
          BY <1>4, <5>1
        <5> QED
          BY <4>1, <4>3, <5>2
      <4> QED
        BY <4>2, <4>3
    <3>2. 0 \in 0 .. N
      BY <1>2
    <3> QED
      BY <3>1, <3>2
  <2>2. ASSUME NEW n \in 1 .. N PROVE v[n] = v[n - 1] + Size[t[n]]
    <3>1. n \in Int /\ n - 1 \in 0 .. N /\ n \in 0 .. N /\ p \in Int
      BY <1>2
    <3>2. CASE n = 1
      BY <1>2, <1>3, <1>4, <3>1, <3>2
    <3>3. CASE n > 1 /\ n <= p
      <4>1. n - 2 \in 0 .. N /\ n - 1 \in 1 .. N
        BY <1>2, <3>3
      <4>2. u[n - 1] = u[n - 2] + Size[s[n - 1]] /\ t[n] = s[n - 1] /\ u[n - 2] \in Int
        BY <1>2, <1>4, <3>3, <4>1
      <4>3. v[n] = u[n - 1] + Size[s[p]] /\ v[n - 1] = u[n - 2] + Size[s[p]]
        BY <1>2, <3>1, <3>3, <4>1
      <4> HIDE DEF v
      <4> QED
        BY <1>2, <1>3, <4>1, <4>2, <4>3
    <3>4. CASE n > 1 /\ n = p + 1
      <4>1. v[n] = u[n] /\ v[n - 1] = u[n - 2] + Size[s[p]] /\ n - 2 = p - 1 /\ n - 1 = p
        BY <1>2, <3>1, <3>4
      <4>2. u[n] = u[n - 1] + Size[s[n]] /\ u[p] = u[p - 1] + Size[s[p]] /\ t[n] = s[n]
        BY <1>2, <1>4, <3>1, <3>4
      <4> HIDE DEF v
      <4> QED
        BY <4>1, <4>2
    <3>5. CASE n > p + 1
      <4>1. v[n] = u[n] /\ v[n - 1] = u[n - 1]
        BY <1>2, <3>1, <3>5
      <4>2. u[n] = u[n - 1] + Size[s[n]] /\ t[n] = s[n]
        BY <1>2, <1>4, <3>1, <3>5
      <4> HIDE DEF v
      <4> QED
        BY <4>1, <4>2
    <3> QED
      BY <1>2, <3>1, <3>2, <3>3, <3>4, <3>5
  <2> QED
    BY <1>2, <2>1, <2>2 DEF Sizes
<1>6. v[N] = u[N]
  <2>1. N \in 1 .. N /\ p <= N /\ N # 0
    BY <1>2
  <2>2. N <= p => N = p
    BY <1>2
  <2> QED
    BY <1>2, <1>4, <2>1, <2>2
<1> HIDE DEF v
<1>7. Lru!SizeOf(t) = v[Len(t)] /\ Lru!SizeOf(s) = u[N]
  <2>1. Lru!SizeOf(t) = v[Len(t)]
    BY <1>2, <1>5, SizeOfAll
  <2>2. Lru!SizeOf(s) = u[Len(s)]
    BY <1>1, SizeOfAll
  <2> QED
    BY <2>1, <2>2 DEF N
<1> QED
  BY <1>2, <1>6, <1>7 DEF t

-----------------------------------------------------------------------------
(* The operations on the pointers. *)

LEMMA EmptyIsList ==
  IsList(List!EmptyCache, <<>>)
<1> DEFINE c == List!EmptyCache
<1>1. c \in Lists
  BY DEF Lists, List!EmptyCache, RecordOrNull
<1>2. <<>> \in Seq(Keys) /\ IsOnce(<<>>) /\ Lru!Cached(<<>>) = {} /\ Len(<<>>) = 0 /\ DOMAIN <<>> = {}
  BY DEF IsOnce, Lru!Cached
<1>3. Lru!SizeOf(<<>>) = 0
  <2>1. PICK u : Sizes(u, <<>>)
    BY <1>2, SizesExist
  <2>2. Lru!SizeOf(<<>>) = u[Len(<<>>)]
    BY <1>2, <2>1, SizeOfAll
  <2> QED
    BY <1>2, <2>1, <2>2 DEF Sizes
<1>4. c.cacheMap = {} /\ c.currentSize = 0 /\ c.head = Null /\ c.last = Null
  BY DEF List!EmptyCache
<1> QED
  BY <1>1, <1>2, <1>3, <1>4 DEF IsList

\* What there is to know of the list before an operation.
LEMMA ListFacts ==
  ASSUME NEW c, NEW s, IsList(c, s)
  PROVE  /\ DOMAIN s = 1 .. Len(s) /\ Len(s) \in Nat
         /\ \A i \in 1 .. Len(s) : s[i] \in Keys /\ s[i] # Null
         /\ Null \notin Keys
         /\ \A k : k \in c.cacheMap <=> \E i \in 1 .. Len(s) : s[i] = k
<1>1. Null \notin Keys
  BY CachesAssumption
<1>2. s \in Seq(Keys)
  BY DEF IsList
<1>3. DOMAIN s = 1 .. Len(s) /\ Len(s) \in Nat /\ \A i \in 1 .. Len(s) : s[i] \in Keys
  BY <1>2
<1>4. c.cacheMap = {s[i] : i \in 1 .. Len(s)}
  BY <1>3 DEF IsList, Lru!Cached
<1> QED
  BY <1>1, <1>3, <1>4

LEMMA FrontIsOnce ==
  ASSUME NEW s \in Seq(Keys), IsOnce(s), NEW p \in DOMAIN s
  PROVE  IsOnce(Lru!ToFront(s, p)) /\ Lru!Cached(Lru!ToFront(s, p)) = Lru!Cached(s)
<1> DEFINE t == Lru!ToFront(s, p)
           N == Len(s)
<1>1. /\ N \in Nat /\ p \in 1 .. N /\ DOMAIN t = 1 .. N /\ DOMAIN s = 1 .. N
      /\ \A i \in 1 .. N : t[i] = IF i = 1 THEN s[p] ELSE IF i <= p THEN s[i - 1] ELSE s[i]
  BY FrontIsSequence
<1> HIDE DEF t, N
<1> DEFINE from(i) == IF i = 1 THEN p ELSE IF i <= p THEN i - 1 ELSE i
<1>2. \A i \in 1 .. N : from(i) \in 1 .. N /\ t[i] = s[from(i)]
  BY <1>1
<1>3. \A i, j \in 1 .. N : from(i) = from(j) => i = j
  BY <1>1
<1>4. \A m \in 1 .. N : \E i \in 1 .. N : from(i) = m
  <2> SUFFICES ASSUME NEW m \in 1 .. N PROVE \E i \in 1 .. N : from(i) = m
    OBVIOUS
  <2>1. CASE m = p
    BY <1>1, <2>1
  <2>2. CASE m < p
    <3>1. m + 1 \in 1 .. N /\ from(m + 1) = m
      BY <1>1, <2>2
    <3> QED
      BY <3>1
  <2>3. CASE m > p
    BY <1>1, <2>3
  <2> QED
    BY <1>1, <2>1, <2>2, <2>3
<1> HIDE DEF from
<1>5. IsOnce(t)
  BY <1>1, <1>2, <1>3 DEF IsOnce
<1>6. Lru!Cached(t) = Lru!Cached(s)
  <2>1. \A i \in 1 .. N : \E m \in 1 .. N : s[m] = t[i]
    BY <1>2
  <2>2. \A m \in 1 .. N : \E i \in 1 .. N : s[m] = t[i]
    BY <1>2, <1>4
  <2>3. Lru!Cached(t) = {t[i] : i \in 1 .. N} /\ Lru!Cached(s) = {s[i] : i \in 1 .. N}
    BY <1>1 DEF Lru!Cached
  <2> QED
    BY <2>1, <2>2, <2>3
<1> QED
  BY <1>5, <1>6 DEF t

LEMMA PromotedIsList ==
  ASSUME NEW c, NEW s, IsList(c, s), NEW p \in DOMAIN s
  PROVE  LET d == List!Promoted(c, s[p]) IN
         IsList(d, Lru!ToFront(s, p)) /\ d.cacheMap = c.cacheMap /\ d.value = c.value
<1> DEFINE d == List!Promoted(c, s[p])
           t == Lru!ToFront(s, p)
           N == Len(s)
           k == s[p]
<1>1. /\ DOMAIN s = 1 .. N /\ N \in Nat /\ p \in 1 .. N /\ N # 0 /\ s # <<>>
      /\ \A i \in 1 .. N : s[i] \in Keys /\ s[i] # Null
      /\ \A i, j \in 1 .. N : s[i] = s[j] => i = j
      /\ c \in Lists /\ s \in Seq(Keys)
      /\ c.head = s[1] /\ c.last = s[N]
      /\ \A i \in 1 .. N : c.next[s[i]] = IF i = N THEN Null ELSE s[i + 1]
      /\ \A i \in 1 .. N : c.prev[s[i]] = IF i = 1 THEN Null ELSE s[i - 1]
  <2>1. DOMAIN s = 1 .. N /\ N \in Nat /\ p \in 1 .. N /\ \A i \in 1 .. N : s[i] \in Keys /\ s[i] # Null
    BY ListFacts
  <2>2. s \in Seq(Keys) /\ s # <<>> /\ N # 0
    BY <2>1 DEF IsList
  <2>3. \A i, j \in 1 .. N : s[i] = s[j] => i = j
    BY <2>1 DEF IsList, IsOnce
  <2> QED
    BY <2>1, <2>2, <2>3 DEF IsList
<1>2. /\ t \in Seq(Keys) /\ Len(t) = N /\ DOMAIN t = 1 .. N /\ IsOnce(t)
      /\ \A i \in 1 .. N : t[i] = IF i = 1 THEN s[p] ELSE IF i <= p THEN s[i - 1] ELSE s[i]
      /\ Lru!Cached(t) = Lru!Cached(s) /\ Lru!SizeOf(t) = Lru!SizeOf(s)
  BY FrontIsSequence, FrontIsOnce, SizeOfFront DEF IsList
<1> HIDE DEF t, N
<1>3. CASE p = 1
  <2>1. d = c
    BY <1>1, <1>3 DEF List!Promoted
  <2>2. \A i \in 1 .. N : t[i] = s[i]
    BY <1>1, <1>2, <1>3
  <2>3. t = s
    BY <1>1, <1>2, <2>2
  <2> QED
    BY <2>1, <2>3 DEF t
<1>4. CASE p # 1
  <2> DEFINE before == s[p - 1]
             after == IF p = N THEN Null ELSE s[p + 1]
             first == s[1]
  <2>1. /\ p - 1 \in 1 .. N /\ k # first /\ c.prev[k] = before /\ c.next[k] = after
        /\ (c.last = k <=> p = N) /\ p \in Int /\ N \in Int /\ 1 \in 1 .. N
    BY <1>1, <1>4
  <2> DEFINE next == [[c.next EXCEPT ![before] = after] EXCEPT ![k] = first]
             cutPrev == IF p = N THEN c.prev ELSE [c.prev EXCEPT ![after] = before]
             prev == [[cutPrev EXCEPT ![first] = k] EXCEPT ![k] = Null]
             last == IF p = N THEN before ELSE c.last
  <2>2. d = [c EXCEPT !.next = next, !.prev = prev, !.last = last, !.head = k]
    <3> DEFINE cut == [c EXCEPT !.next[c.prev[k]] = c.next[k],
                                !.last = IF c.last = k THEN c.prev[k] ELSE c.last,
                                !.prev = IF c.last = k THEN c.prev
                                         ELSE [c.prev EXCEPT ![c.next[k]] = c.prev[k]]]
    <3>1. d = [cut EXCEPT !.prev[c.head] = k, !.prev[k] = Null,
                          !.next[k] = c.head, !.head = k]
      BY <1>1, <2>1 DEF List!Promoted
    <3> HIDE DEF d
    <3>2. cut = [c EXCEPT !.next = [c.next EXCEPT ![before] = after], !.last = last, !.prev = cutPrev]
      BY <1>1, <2>1 DEF Lists
    <3> HIDE DEF cut, next, prev, last
    <3>3. cut.prev = cutPrev /\ cut.head = c.head
      BY <3>2 DEF Lists
    <3> QED
      BY <1>1, <3>1, <3>2 DEF Lists, next, prev
  <2> HIDE DEF d
  <2>3. before \in Keys /\ k \in Keys /\ first \in Keys /\ (p # N => after \in Keys) /\ after \in RecordOrNull
    BY <1>1, <2>1 DEF RecordOrNull
  <2>4. next \in [Keys -> RecordOrNull] /\ prev \in [Keys -> RecordOrNull] /\ last \in RecordOrNull
    BY <1>1, <2>3 DEF Lists, RecordOrNull
  <2>5. /\ d \in Lists /\ d.next = next /\ d.prev = prev /\ d.last = last /\ d.head = k
        /\ d.cacheMap = c.cacheMap /\ d.value = c.value /\ d.currentSize = c.currentSize
    <3> HIDE DEF next, prev, last, k
    <3> QED
      BY <1>1, <2>2, <2>3, <2>4 DEF Lists, RecordOrNull
  <2>6. \A x \in Keys : next[x] = IF x = k THEN first ELSE IF x = before THEN after ELSE c.next[x]
    BY <1>1, <2>3 DEF Lists
  <2>7. \A x \in Keys : prev[x] = IF x = k THEN Null ELSE IF x = first THEN k
                                  ELSE IF x = after /\ p # N THEN before ELSE c.prev[x]
    BY <1>1, <2>3 DEF Lists
  <2> HIDE DEF next, prev
  <2>8. ASSUME NEW i \in 1 .. N PROVE next[t[i]] = IF i = N THEN Null ELSE t[i + 1]
    <3>1. CASE i = 1
      BY <1>1, <1>2, <1>4, <2>1, <2>3, <2>6, <3>1
    <3>2. CASE i # 1 /\ i <= p
      <4>1. /\ i - 1 \in 1 .. N /\ t[i] = s[i - 1] /\ s[i - 1] # k
            /\ i \in Int /\ (i - 1) + 1 = i
        BY <1>1, <1>2, <2>1, <3>2
      <4>2. CASE i = p
        <5>1. next[t[i]] = after
          BY <1>1, <2>6, <4>1, <4>2
        <5>2. p # N => t[i + 1] = s[p + 1]
          BY <1>2, <1>4, <2>1, <4>2
        <5> QED
          BY <4>2, <5>1, <5>2
      <4>3. CASE i # p
        <5>1. s[i - 1] # before
          BY <1>1, <2>1, <4>1, <4>3
        <5>2. next[t[i]] = c.next[s[i - 1]]
          BY <1>1, <2>6, <4>1, <5>1
        <5>3. i - 1 # N /\ i # N /\ t[i + 1] = s[i]
          BY <1>1, <1>2, <2>1, <3>2, <4>1, <4>3
        <5> QED
          BY <1>1, <4>1, <5>2, <5>3
      <4> QED
        BY <4>2, <4>3
    <3>3. CASE i > p
      <4>1. t[i] = s[i] /\ s[i] # k /\ s[i] # before
        BY <1>1, <1>2, <1>4, <2>1, <3>3
      <4>2. next[t[i]] = c.next[s[i]]
        BY <1>1, <2>6, <4>1
      <4>3. i # N => t[i + 1] = s[i + 1]
        BY <1>2, <2>1, <3>3
      <4> QED
        BY <1>1, <4>2, <4>3
    <3> QED
      BY <2>1, <3>1, <3>2, <3>3
  <2>9. ASSUME NEW i \in 1 .. N PROVE prev[t[i]] = IF i = 1 THEN Null ELSE t[i - 1]
    <3>1. CASE i = 1
      BY <1>1, <1>2, <2>3, <2>7, <3>1
    <3>2. CASE i = 2
      <4>1. t[2] = first /\ t[1] = k
        BY <1>1, <1>2, <1>4, <2>1, <3>2
      <4> QED
        BY <2>1, <2>3, <2>7, <3>2, <4>1
    <3>3. CASE i > 2 /\ i <= p
      <4>1. /\ i - 1 \in 1 .. N /\ i - 2 \in 1 .. N /\ t[i] = s[i - 1] /\ t[i - 1] = s[i - 2]
            /\ (i - 1) - 1 = i - 2 /\ i - 1 # 1
        BY <1>2, <2>1, <3>3
      <4>2. s[i - 1] # k /\ s[i - 1] # first /\ (p # N => s[i - 1] # after)
        <5>1. i - 1 # p /\ i - 1 # 1 /\ i - 1 # p + 1 /\ (p # N => p + 1 \in 1 .. N)
          <6>1. i \in Int /\ p \in Int /\ N \in Int /\ p <= N /\ 1 <= p
            BY <1>1
          <6> QED
            BY <3>3, <6>1
        <5> QED
          BY <1>1, <2>1, <4>1, <5>1
      <4>3. prev[t[i]] = c.prev[s[i - 1]]
        BY <1>1, <2>7, <4>1, <4>2
      <4> QED
        BY <1>1, <3>3, <4>1, <4>3
    <3>4. CASE i > 2 /\ i = p + 1
      <4>1. /\ t[i] = s[p + 1] /\ p # N /\ p + 1 \in 1 .. N /\ t[i - 1] = s[p - 1] /\ t[i] = after
        BY <1>2, <1>4, <2>1, <3>4
      <4>2. s[p + 1] # k /\ s[p + 1] # first
        BY <1>1, <2>1, <4>1
      <4> QED
        BY <1>1, <2>7, <3>4, <4>1, <4>2
    <3>5. CASE i > 2 /\ i > p + 1
      <4>1. t[i] = s[i] /\ t[i - 1] = s[i - 1] /\ p # N /\ p + 1 \in 1 .. N /\ i # 1
        BY <1>2, <2>1, <3>5
      <4>2. s[i] # k /\ s[i] # first /\ s[i] # after
        BY <1>1, <2>1, <3>5, <4>1
      <4>3. prev[t[i]] = c.prev[s[i]]
        BY <1>1, <2>7, <4>1, <4>2
      <4> QED
        BY <1>1, <4>1, <4>3
    <3> QED
      BY <2>1, <3>1, <3>2, <3>3, <3>4, <3>5
  <2>10. d.head = t[1] /\ d.last = t[N]
    <3>1. t[1] = k
      BY <1>2, <2>1
    <3>2. p = N => t[N] = before
      BY <1>1, <1>2, <1>4
    <3>3. p # N => t[N] = s[N]
      BY <1>1, <1>2, <1>4
    <3> QED
      BY <1>1, <2>5, <3>1, <3>2, <3>3
  <2>11. t # <<>>
    BY <1>1, <1>2
  <2>12. \A i \in DOMAIN t : /\ d.next[t[i]] = IF i = Len(t) THEN Null ELSE t[i + 1]
                             /\ d.prev[t[i]] = IF i = 1 THEN Null ELSE t[i - 1]
    BY <1>2, <2>5, <2>8, <2>9
  <2>13. IsList(d, t)
    <3> HIDE DEF last, k
    <3> QED
      BY <1>2, <2>5, <2>10, <2>11, <2>12 DEF IsList
  <2> QED
    BY <2>5, <2>13 DEF d, t
<1> QED
  BY <1>3, <1>4

LEMMA WithHeadIsList ==
  ASSUME NEW c, NEW s, IsList(c, s), NEW k \in Keys, k \notin c.cacheMap, NEW v \in Values
  PROVE  LET d == List!WithHead(c, k, v) IN
         /\ IsList(d, <<k>> \o s) /\ d.cacheMap = c.cacheMap \cup {k}
         /\ d.value = [c.value EXCEPT ![k] = v]
<1> DEFINE d == List!WithHead(c, k, v)
           t == <<k>> \o s
           N == Len(s)
           first == IF s = <<>> THEN Null ELSE s[1]
           last == IF s = <<>> THEN k ELSE c.last
           prev == IF first = Null THEN [c.prev EXCEPT ![k] = Null]
                   ELSE [c.prev EXCEPT ![k] = Null, ![first] = k]
           next == [c.next EXCEPT ![k] = first]
           value == [c.value EXCEPT ![k] = v]
<1>1. /\ DOMAIN s = 1 .. N /\ N \in Nat /\ (s = <<>> <=> N = 0)
      /\ \A i \in 1 .. N : s[i] \in Keys /\ s[i] # Null /\ s[i] # k
      /\ c \in Lists /\ s \in Seq(Keys) /\ c.head = first /\ c.currentSize = Lru!SizeOf(s)
      /\ Size[k] \in Int /\ Null \notin Keys /\ Null # k
      /\ c.cacheMap = Lru!Cached(s) /\ v \in Values
  <2>1. /\ DOMAIN s = 1 .. N /\ N \in Nat /\ \A i \in 1 .. N : s[i] \in Keys /\ s[i] # Null
        /\ Null \notin Keys
    BY ListFacts
  <2>2. \A i \in 1 .. N : s[i] # k
    BY ListFacts
  <2>3. s = <<>> <=> N = 0
    BY <2>1 DEF IsList
  <2>4. Size[k] \in Int
    BY CachesAssumption
  <2> QED
    BY <2>1, <2>2, <2>3, <2>4 DEF IsList
<1>2. /\ \A i \in 1 .. N : c.next[s[i]] = IF i = N THEN Null ELSE s[i + 1]
      /\ \A i \in 1 .. N : c.prev[s[i]] = IF i = 1 THEN Null ELSE s[i - 1]
      /\ \A i, j \in 1 .. N : s[i] = s[j] => i = j
      /\ N # 0 => first = s[1] /\ first \in Keys /\ c.last = s[N]
      /\ N = 0 => first = Null
  <2>1. 1 \in 1 .. N \/ N = 0
    BY <1>1
  <2>2. /\ \A i \in 1 .. N : c.next[s[i]] = IF i = N THEN Null ELSE s[i + 1]
        /\ \A i \in 1 .. N : c.prev[s[i]] = IF i = 1 THEN Null ELSE s[i - 1]
        /\ s # <<>> => c.last = s[N]
        /\ \A i, j \in 1 .. N : s[i] = s[j] => i = j
    BY <1>1 DEF IsList, IsOnce
  <2> QED
    BY <1>1, <2>1, <2>2
<1>3. /\ t \in Seq(Keys) /\ Len(t) = N + 1 /\ DOMAIN t = 1 .. N + 1 /\ t[1] = k
      /\ \A i \in 1 .. N : t[i + 1] = s[i]
  BY <1>1
<1>4. \A i \in 2 .. N + 1 : i - 1 \in 1 .. N /\ t[i] = s[i - 1] /\ (i - 1) + 1 = i
  <2> HIDE DEF t, N
  <2> SUFFICES ASSUME NEW i \in 2 .. N + 1 PROVE i - 1 \in 1 .. N /\ t[i] = s[i - 1] /\ (i - 1) + 1 = i
    OBVIOUS
  <2>1. i - 1 \in 1 .. N /\ (i - 1) + 1 = i
    BY <1>1
  <2> QED
    BY <1>3, <2>1
<1>5. Lru!SizeOf(t) = Lru!SizeOf(s) + Size[k]
  BY <1>1, SizeOfLonger
<1>6. d = [c EXCEPT !.prev = prev, !.next = next, !.value = value, !.last = last, !.head = k,
                    !.cacheMap = c.cacheMap \cup {k}, !.currentSize = c.currentSize + Size[k]]
  <2>1. s = <<>> <=> c.head = Null
    BY <1>1, <1>2
  <2> QED
    BY <1>1, <2>1 DEF List!WithHead, Lists
<1> HIDE DEF d, t, N
<1>7. /\ prev \in [Keys -> RecordOrNull] /\ next \in [Keys -> RecordOrNull]
      /\ last \in RecordOrNull /\ value \in [Keys -> Values \cup {Null}]
  BY <1>1, <1>2 DEF Lists, RecordOrNull
<1>8. /\ \A x \in Keys : next[x] = IF x = k THEN first ELSE c.next[x]
      /\ \A x \in Keys : prev[x] = IF first # Null /\ x = first THEN k
                                   ELSE IF x = k THEN Null ELSE c.prev[x]
  BY <1>1, <1>2 DEF Lists
<1> HIDE DEF prev, next, value, first
<1>9. /\ d \in Lists /\ d.prev = prev /\ d.next = next /\ d.value = value /\ d.last = last
      /\ d.head = k /\ d.cacheMap = c.cacheMap \cup {k} /\ d.currentSize = c.currentSize + Size[k]
  <2> DEFINE size == c.currentSize + Size[k]
             keys == c.cacheMap \cup {k}
  <2>1. size \in Int /\ keys \in SUBSET Keys /\ k \in RecordOrNull
    BY <1>1 DEF Lists, RecordOrNull
  <2> HIDE DEF last, size, keys
  <2>2. d = [c EXCEPT !.prev = prev, !.next = next, !.value = value, !.last = last, !.head = k,
                      !.cacheMap = keys, !.currentSize = size]
    BY <1>6 DEF size, keys
  <2>3. /\ d \in Lists /\ d.prev = prev /\ d.next = next /\ d.value = value /\ d.last = last
        /\ d.head = k /\ d.cacheMap = keys /\ d.currentSize = size
    BY <1>1, <1>7, <2>1, <2>2 DEF Lists
  <2> QED
    BY <2>3 DEF size, keys
<1>10. IsOnce(t)
  <2> SUFFICES ASSUME NEW i \in 1 .. N + 1, NEW j \in 1 .. N + 1, t[i] = t[j] PROVE i = j
    BY <1>3 DEF IsOnce
  <2>1. (i = 1 \/ i \in 2 .. N + 1) /\ (j = 1 \/ j \in 2 .. N + 1)
    BY <1>1
  <2> QED
    BY <1>1, <1>2, <1>3, <1>4, <2>1
<1>11. d.cacheMap = Lru!Cached(t)
  <2>1. Lru!Cached(t) = {t[i] : i \in 1 .. N + 1} /\ c.cacheMap = {s[i] : i \in 1 .. N}
    BY <1>1, <1>3 DEF Lru!Cached
  <2>2. \A i \in 1 .. N + 1 : t[i] = k \/ \E j \in 1 .. N : t[i] = s[j]
    <3>1. \A i \in 1 .. N + 1 : i = 1 \/ i \in 2 .. N + 1
      BY <1>1
    <3> QED
      BY <1>3, <1>4, <3>1
  <2>3. k = t[1] /\ 1 \in 1 .. N + 1 /\ \A j \in 1 .. N : j + 1 \in 1 .. N + 1 /\ s[j] = t[j + 1]
    BY <1>1, <1>3
  <2>4. d.cacheMap \subseteq Lru!Cached(t)
    BY <1>9, <2>1, <2>3
  <2>5. Lru!Cached(t) \subseteq d.cacheMap
    BY <1>9, <2>1, <2>2
  <2> QED
    BY <2>4, <2>5
<1>12. \A i \in 1 .. N + 1 : d.next[t[i]] = IF i = N + 1 THEN Null ELSE t[i + 1]
  <2> SUFFICES ASSUME NEW i \in 1 .. N + 1 PROVE next[t[i]] = IF i = N + 1 THEN Null ELSE t[i + 1]
    BY <1>9
  <2>1. CASE i = 1
    <3>1. N # 0 => t[2] = s[1] /\ first = s[1]
      BY <1>1, <1>2, <1>4
    <3>2. next[t[i]] = first
      BY <1>3, <1>8, <2>1
    <3> QED
      BY <1>1, <1>2, <2>1, <3>1, <3>2
  <2>2. CASE i # 1
    <3>1. i \in 2 .. N + 1 /\ i \in Int
      BY <1>1, <2>2
    <3>2. next[t[i]] = c.next[s[i - 1]] /\ i - 1 \in 1 .. N /\ (i - 1) + 1 = i
      BY <1>1, <1>4, <1>8, <3>1
    <3>3. i # N + 1 => i \in 1 .. N /\ t[i + 1] = s[i]
      BY <1>1, <1>3, <3>1
    <3>4. i = N + 1 <=> i - 1 = N
      BY <1>1, <3>1
    <3> QED
      BY <1>2, <3>2, <3>3, <3>4
  <2> QED
    BY <2>1, <2>2
<1>13. \A i \in 1 .. N + 1 : d.prev[t[i]] = IF i = 1 THEN Null ELSE t[i - 1]
  <2> SUFFICES ASSUME NEW i \in 1 .. N + 1 PROVE prev[t[i]] = IF i = 1 THEN Null ELSE t[i - 1]
    BY <1>9
  <2>1. CASE i = 1
    <3>1. first # k
      BY <1>1, <1>2
    <3> QED
      BY <1>3, <1>8, <2>1, <3>1
  <2>2. CASE i = 2
    <3>1. i \in 2 .. N + 1 /\ N # 0 /\ i - 1 = 1
      BY <1>1, <2>2
    <3>2. t[i] = s[1] /\ first = s[1] /\ first # Null /\ s[1] \in Keys /\ t[i - 1] = k
      BY <1>1, <1>2, <1>3, <1>4, <3>1
    <3> QED
      BY <1>8, <2>2, <3>2
  <2>3. CASE i > 2
    <3>1. /\ i \in 2 .. N + 1 /\ i - 1 \in 2 .. N + 1 /\ i - 1 \in 1 .. N /\ i - 1 # 1
          /\ N # 0 /\ 1 \in 1 .. N /\ i # 1
      BY <1>1, <2>3
    <3>2. t[i] = s[i - 1] /\ t[i - 1] = s[(i - 1) - 1] /\ s[i - 1] # first /\ s[i - 1] # k
      BY <1>1, <1>2, <1>4, <3>1
    <3>3. prev[t[i]] = c.prev[s[i - 1]]
      BY <1>1, <1>8, <3>1, <3>2
    <3> QED
      BY <1>2, <3>1, <3>2, <3>3
  <2> QED
    BY <1>1, <2>1, <2>2, <2>3
<1>14. d.last = t[N + 1] /\ t # <<>>
  <2>1. N # 0 => t[N + 1] = s[N]
    BY <1>1, <1>3
  <2> QED
    BY <1>1, <1>2, <1>3, <1>9, <2>1
<1>15. IsList(d, t)
  <2> HIDE DEF last
  <2> QED
    BY <1>1, <1>3, <1>5, <1>9, <1>10, <1>11, <1>12, <1>13, <1>14 DEF IsList
<1> QED
  BY <1>9, <1>15 DEF d, t, value

MayLose(s) == Len(s) > 1

LEMMA WithoutLastIsList ==
  ASSUME NEW c, NEW s, IsList(c, s), MayLose(s)
  PROVE  LET d == List!WithoutLast(c) IN
         /\ IsList(d, SubSeq(s, 1, Len(s) - 1)) /\ d.cacheMap \subseteq c.cacheMap
         /\ \A k \in d.cacheMap : d.value[k] = c.value[k]
<1> DEFINE d == List!WithoutLast(c)
           N == Len(s)
           M == N - 1
           t == SubSeq(s, 1, M)
           k == s[N]
           next == [c.next EXCEPT ![s[M]] = Null]
           prev == [c.prev EXCEPT ![k] = Null]
           value == [c.value EXCEPT ![k] = Null]
<1>1. /\ DOMAIN s = 1 .. N /\ N \in Nat /\ M \in 1 .. N /\ N \in 1 .. N /\ M # N /\ s # <<>>
      /\ M = N - 1 /\ M \in Nat /\ N = Len(s)
      /\ \A i \in 1 .. N : s[i] \in Keys /\ s[i] # Null
      /\ c \in Lists /\ s \in Seq(Keys) /\ Size[k] \in Int
  <2>1. DOMAIN s = 1 .. N /\ N \in Nat /\ \A i \in 1 .. N : s[i] \in Keys /\ s[i] # Null
    BY ListFacts
  <2>2. M \in 1 .. N /\ N \in 1 .. N /\ M # N /\ M \in Nat
    <3>1. N \in Nat /\ N > 1
      BY <2>1 DEF MayLose
    <3> HIDE DEF N
    <3> QED
      BY <3>1
  <2>3. s # <<>>
    BY <2>1 DEF MayLose
  <2>4. k \in Keys
    BY <2>1, <2>2
  <2>5. Size[k] \in Int
    BY <2>4, CachesAssumption
  <2> QED
    BY <2>1, <2>2, <2>3, <2>5 DEF IsList
<1>N. N \in Int /\ M \in Int /\ 1 <= M /\ M + 1 = N
  <2>1. N \in Nat /\ N > 1
    BY <1>1 DEF MayLose
  <2> HIDE DEF N
  <2> QED
    BY <2>1
<1>S. s \in Seq(Keys) /\ DOMAIN s = 1 .. N /\ Len(s) = N /\ s # <<>> /\ N \in Nat
  BY <1>1
<1>K. \A i \in 1 .. N : s[i] \in Keys /\ s[i] # Null
  BY <1>1
<1>L. c \in Lists /\ k \in Keys /\ s[M] \in Keys /\ Size[k] \in Int
  BY <1>1
<1> HIDE DEF N, M
<1>2. /\ \A i \in 1 .. N : c.next[s[i]] = IF i = N THEN Null ELSE s[i + 1]
      /\ \A i \in 1 .. N : c.prev[s[i]] = IF i = 1 THEN Null ELSE s[i - 1]
      /\ \A i, j \in 1 .. N : s[i] = s[j] => i = j
      /\ c.head = s[1] /\ c.last = k /\ c.currentSize = Lru!SizeOf(s) /\ c.prev[k] = s[M]
      /\ c.cacheMap = {s[i] : i \in 1 .. N}
  <2>1. /\ \A i \in 1 .. N : c.next[s[i]] = IF i = N THEN Null ELSE s[i + 1]
        /\ \A i \in 1 .. N : c.prev[s[i]] = IF i = 1 THEN Null ELSE s[i - 1]
        /\ c.head = s[1] /\ c.last = k /\ c.currentSize = Lru!SizeOf(s)
        /\ \A i, j \in 1 .. N : s[i] = s[j] => i = j
        /\ c.cacheMap = {s[i] : i \in 1 .. N}
    BY <1>S DEF IsList, IsOnce, Lru!Cached
  <2>2. N # 1 /\ N \in 1 .. N /\ N - 1 = M
    BY <1>N
  <2>3. c.prev[s[N]] = s[N - 1]
    BY <2>1, <2>2
  <2> QED
    BY <2>1, <2>2, <2>3
<1>3. t \in Seq(Keys) /\ Len(t) = M /\ DOMAIN t = 1 .. M /\ \A i \in 1 .. M : t[i] = s[i]
  <2>1. M \in 0 .. N /\ 1 <= M
    BY <1>N
  <2> QED
    BY <1>S, <2>1
<1>4. Lru!SizeOf(s) = Lru!SizeOf(t) + Size[k]
  <2>1. PICK u : Sizes(u, s)
    BY <1>S, SizesExist
  <2>2. u[N] = u[M] + Size[s[N]] /\ u[M] \in Int
    <3>1. N \in 1 .. N /\ M \in 0 .. N /\ N - 1 = M
      BY <1>N
    <3>2. u[N] = u[N - 1] + Size[s[N]] /\ u \in [0 .. N -> Int]
      BY <1>S, <2>1, <3>1 DEF Sizes
    <3> QED
      BY <3>1, <3>2
  <2>3. Lru!SizeOf(s) = u[N]
    BY <1>S, <2>1, SizeOfAll
  <2>4. M \in 0 .. Len(s)
    BY <1>S, <1>N
  <2>5. Lru!SizeOf(t) = u[M]
    BY <1>S, <2>1, <2>4, SizeOfFirst
  <2> QED
    BY <2>2, <2>3, <2>5
<1>5. d = [c EXCEPT !.next = next, !.prev = prev, !.value = value, !.last = s[M],
                    !.cacheMap = c.cacheMap \ {k}, !.currentSize = c.currentSize - Size[k]]
  BY <1>1, <1>2 DEF List!WithoutLast, Lists
<1> HIDE DEF d, t
<1>6. /\ \A x \in Keys : next[x] = IF x = s[M] THEN Null ELSE c.next[x]
      /\ \A x \in Keys : prev[x] = IF x = k THEN Null ELSE c.prev[x]
      /\ \A x \in Keys : x # k => value[x] = c.value[x]
  BY <1>L DEF Lists
<1>7. /\ next \in [Keys -> RecordOrNull] /\ prev \in [Keys -> RecordOrNull]
      /\ value \in [Keys -> Values \cup {Null}] /\ s[M] \in RecordOrNull
  BY <1>L DEF Lists, RecordOrNull
<1> HIDE DEF next, prev, value
<1>8. /\ d \in Lists /\ d.next = next /\ d.prev = prev /\ d.value = value /\ d.last = s[M]
      /\ d.head = c.head /\ d.cacheMap = c.cacheMap \ {k} /\ d.currentSize = c.currentSize - Size[k]
  <2> DEFINE size == c.currentSize - Size[k]
             keys == c.cacheMap \ {k}
             m == s[M]
  <2>1. size \in Int /\ keys \in SUBSET Keys /\ m \in RecordOrNull
    BY <1>L, <1>7 DEF Lists
  <2> HIDE DEF size, keys, m
  <2>2. d = [c EXCEPT !.next = next, !.prev = prev, !.value = value, !.last = m,
                      !.cacheMap = keys, !.currentSize = size]
    BY <1>5 DEF size, keys, m
  <2>3. /\ d \in Lists /\ d.prev = prev /\ d.next = next /\ d.value = value /\ d.last = m
        /\ d.head = c.head /\ d.cacheMap = keys /\ d.currentSize = size
    BY <1>L, <1>7, <2>1, <2>2 DEF Lists
  <2> QED
    BY <2>3 DEF size, keys, m
<1>9. t # <<>> /\ t[1] = s[1] /\ t[M] = s[M]
  <2>1. 1 \in 1 .. M /\ M \in 1 .. M
    BY <1>N
  <2> QED
    BY <1>3, <2>1
<1>10. IsOnce(t)
  <2>1. \A i \in 1 .. M : i \in 1 .. N
    BY <1>N
  <2> QED
    BY <1>2, <1>3, <2>1 DEF IsOnce
<1>11. d.cacheMap = Lru!Cached(t)
  <2>1. Lru!Cached(t) = {s[i] : i \in 1 .. M}
    BY <1>3 DEF Lru!Cached
  <2>2. \A i \in 1 .. N : i = N \/ i \in 1 .. M
    BY <1>N
  <2>3. \A i \in 1 .. M : i \in 1 .. N /\ i # N /\ s[i] # k
    <3>1. \A i \in 1 .. M : i \in 1 .. N /\ i # N /\ N \in 1 .. N
      BY <1>N
    <3> QED
      BY <1>2, <3>1
  <2> QED
    BY <1>2, <1>3, <1>8, <2>1, <2>2, <2>3
<1>12. d.currentSize = Lru!SizeOf(t)
  <2>1. \E x \in Int : x = Lru!SizeOf(t)
    <3>1. PICK u : Sizes(u, t)
      BY <1>3, SizesExist
    <3>2. Lru!SizeOf(t) = u[M]
      BY <1>3, <3>1, SizeOfAll
    <3>3. M \in 0 .. Len(t)
      BY <1>3, <1>N
    <3> QED
      BY <3>1, <3>2, <3>3 DEF Sizes
  <2> QED
    BY <1>L, <1>2, <1>4, <1>8, <2>1
<1>13. ASSUME NEW i \in 1 .. M
       PROVE  /\ d.next[t[i]] = IF i = M THEN Null ELSE t[i + 1]
              /\ d.prev[t[i]] = IF i = 1 THEN Null ELSE t[i - 1]
  <2>1. i \in 1 .. N /\ i # N /\ (i # M => i + 1 \in 1 .. M) /\ (i # 1 => i - 1 \in 1 .. M)
        /\ M \in 1 .. N /\ N \in 1 .. N
    BY <1>N
  <2>2. s[i] # k /\ (i # M => s[i] # s[M]) /\ s[i] \in Keys /\ t[i] = s[i]
    BY <1>2, <1>3, <1>K, <2>1
  <2>3. d.next[t[i]] = IF i = M THEN Null ELSE t[i + 1]
    <3>1. next[s[i]] = IF i = M THEN Null ELSE c.next[s[i]]
      BY <1>6, <2>2
    <3>2. i # M => t[i + 1] = s[i + 1]
      BY <1>3, <2>1
    <3> QED
      BY <1>2, <1>8, <2>1, <2>2, <3>1, <3>2
  <2>4. d.prev[t[i]] = IF i = 1 THEN Null ELSE t[i - 1]
    <3>1. prev[s[i]] = c.prev[s[i]]
      BY <1>6, <2>2
    <3>2. i # 1 => t[i - 1] = s[i - 1]
      BY <1>3, <2>1
    <3> QED
      BY <1>2, <1>8, <2>1, <2>2, <3>1, <3>2
  <2> QED
    BY <2>3, <2>4
<1>14. \A x \in d.cacheMap : d.value[x] = c.value[x]
  BY <1>L, <1>6, <1>8 DEF Lists
<1>15. IsList(d, t)
  <2> QED
    BY <1>2, <1>3, <1>8, <1>9, <1>10, <1>11, <1>12, <1>13 DEF IsList
<1> QED
  BY <1>8, <1>14, <1>15 DEF d, t, M, N


-----------------------------------------------------------------------------
(* The loop that makes room, and the keys along the pointers. *)

LEMMA AsManyAsKeys ==
  ASSUME NEW c, NEW s, IsList(c, s)
  PROVE  Cardinality(c.cacheMap) = Len(s)
<1> DEFINE N == Len(s)
           T == {s[i] : i \in 1 .. N}
           f == [i \in 1 .. N |-> s[i]]
<1>1. DOMAIN s = 1 .. N /\ N \in Nat
  BY ListFacts
<1>2. c.cacheMap = T /\ \A i, j \in 1 .. N : s[i] = s[j] => i = j
  BY <1>1 DEF IsList, IsOnce, Lru!Cached
<1> HIDE DEF N
<1>3. ExistsBijection(1 .. N, T)
  <2>1. f \in [1 .. N -> T] /\ \A y \in T : \E i \in 1 .. N : f[i] = y
    OBVIOUS
  <2>2. \A i, j \in 1 .. N : f[i] = f[j] => i = j
    BY <1>2
  <2> HIDE DEF f, T
  <2> QED
    BY <2>1, <2>2 DEF ExistsBijection, Bijection, Injection, Surjection, IsInjective
<1> HIDE DEF T
<1>4. Cardinality(T) = N
  BY <1>1, <1>3, FS_CountingElements
<1> QED
  BY <1>2, <1>4 DEF N

\* d is c without the records behind the first n of s.
IsCut(d, c, s, n) ==
  /\ IsList(d, SubSeq(s, 1, n)) /\ d.cacheMap \subseteq c.cacheMap
  /\ \A k \in d.cacheMap : d.value[k] = c.value[k]

TooBig(d) == d.currentSize > MaxSize /\ d.prev[d.last] # Null

LEMMA FirstOnes ==
  ASSUME NEW s \in Seq(Keys), NEW n \in DOMAIN s
  PROVE  /\ SubSeq(s, 1, n) \in Seq(Keys) /\ Len(SubSeq(s, 1, n)) = n
         /\ DOMAIN SubSeq(s, 1, n) = 1 .. n /\ n \in Nat /\ n # 0
         /\ \A i \in 1 .. n : SubSeq(s, 1, n)[i] = s[i] /\ s[i] \in Keys
OBVIOUS

LEMMA CutTooBig ==
  ASSUME NEW c, NEW d, NEW s \in Seq(Keys), NEW n \in DOMAIN s, IsCut(d, c, s, n)
  PROVE  TooBig(d) <=> ~Lru!MayStay(s, n)
<1> DEFINE t == SubSeq(s, 1, n)
<1>1. /\ Len(t) = n /\ DOMAIN t = 1 .. n /\ n \in Nat /\ n # 0
      /\ \A i \in 1 .. n : t[i] = s[i] /\ s[i] \in Keys
  BY FirstOnes
<1>2. IsList(d, t)
  BY DEF IsCut
<1> HIDE DEF t
<1>3. d.currentSize = Lru!SizeOf(t) /\ d.currentSize \in Int
  BY <1>2 DEF IsList, Lists
<1>4. n \in 1 .. n /\ (n # 1 => n - 1 \in 1 .. n)
  BY <1>1
<1>5. t # <<>>
  BY <1>1, <1>4
<1>6. d.last = t[n] /\ d.prev[t[n]] = IF n = 1 THEN Null ELSE t[n - 1]
  BY <1>1, <1>2, <1>4, <1>5 DEF IsList
<1>7. Null \notin Keys /\ MaxSize \in Int
  BY CachesAssumption
<1>8. d.prev[d.last] = Null <=> n = 1
  BY <1>1, <1>4, <1>6, <1>7
<1>9. ~(d.currentSize > MaxSize) <=> d.currentSize <= MaxSize
  BY <1>3, <1>7
<1> QED
  BY <1>3, <1>8, <1>9 DEF t, TooBig, Lru!MayStay

LEMMA CutShorter ==
  ASSUME NEW c, NEW d, NEW s \in Seq(Keys), NEW n \in DOMAIN s, IsCut(d, c, s, n), n # 1
  PROVE  IsCut(List!WithoutLast(d), c, s, n - 1)
<1> DEFINE t == SubSeq(s, 1, n)
           e == List!WithoutLast(d)
<1>1. t \in Seq(Keys) /\ Len(t) = n /\ n \in Nat /\ n # 0 /\ \A i \in 1 .. n : t[i] = s[i]
  BY FirstOnes
<1>2. IsList(d, t) /\ d.cacheMap \subseteq c.cacheMap /\ \A k \in d.cacheMap : d.value[k] = c.value[k]
  BY DEF IsCut
<1>3. MayLose(t)
  <2> HIDE DEF t
  <2> QED
    BY <1>1 DEF MayLose
<1>4. SubSeq(t, 1, n - 1) = SubSeq(s, 1, n - 1)
  <2>1. n - 1 \in 1 .. n /\ n - 1 \in DOMAIN s
    BY <1>1
  <2> DEFINE u == SubSeq(s, 1, n - 1)
             w == SubSeq(t, 1, n - 1)
  <2>2. DOMAIN u = 1 .. n - 1 /\ \A i \in 1 .. n - 1 : u[i] = s[i]
    BY <2>1, FirstOnes
  <2> HIDE DEF t, u
  <2>3. n - 1 \in DOMAIN t
    BY <1>1, <2>1
  <2>4. DOMAIN w = 1 .. n - 1 /\ \A i \in 1 .. n - 1 : w[i] = t[i]
    BY <1>1, <2>3, FirstOnes
  <2>5. u \in Seq(Keys)
    BY <2>1, FirstOnes DEF u
  <2>6. w \in Seq(Keys)
    BY <1>1, <2>3, FirstOnes
  <2> HIDE DEF w
  <2>7. \A i \in 1 .. n - 1 : w[i] = u[i]
    BY <1>1, <2>2, <2>4
  <2>8. u = [i \in 1 .. n - 1 |-> u[i]] /\ w = [i \in 1 .. n - 1 |-> w[i]]
    BY <2>2, <2>4, <2>5, <2>6
  <2> QED
    BY <2>7, <2>8 DEF u, w
<1> HIDE DEF t
<1>5. /\ IsList(e, SubSeq(t, 1, Len(t) - 1)) /\ e.cacheMap \subseteq d.cacheMap
      /\ \A k \in e.cacheMap : e.value[k] = d.value[k]
  BY <1>2, <1>3, WithoutLastIsList
<1> HIDE DEF e
<1>6. IsList(e, SubSeq(s, 1, n - 1))
  BY <1>1, <1>4, <1>5
<1> QED
  BY <1>2, <1>5, <1>6 DEF IsCut, e

\* No longer beginning of s may stay.
NoneLonger(s, n) == \A m \in DOMAIN s : m > n => ~Lru!MayStay(s, m)

LEMMA NoneLongerThanShorter ==
  ASSUME NEW s \in Seq(Keys), NEW n \in DOMAIN s, n # 1, NoneLonger(s, n), ~Lru!MayStay(s, n)
  PROVE  n - 1 \in DOMAIN s /\ NoneLonger(s, n - 1)
<1>1. DOMAIN s = 1 .. Len(s) /\ Len(s) \in Nat
  OBVIOUS
<1>2. n - 1 \in DOMAIN s
  BY <1>1
<1>3. \A m \in DOMAIN s : m > n - 1 => m = n \/ m > n
  BY <1>1
<1> QED
  BY <1>2, <1>3 DEF NoneLonger

LEMMA ShrunkIsList ==
  ASSUME NEW c, NEW s, IsList(c, s), s # <<>>
  PROVE  \E n \in DOMAIN s : /\ Lru!MayStay(s, n) /\ NoneLonger(s, n)
                             /\ IsCut(List!Shrunk(c), c, s, n)
<1> DEFINE N == Cardinality(c.cacheMap)
           D == {d \in Lists : \E n \in DOMAIN s : NoneLonger(s, n) /\ IsCut(d, c, s, n)}
           Step == [x \in (1 .. N) \X D |-> IF TooBig(x[2]) THEN List!WithoutLast(x[2]) ELSE x[2]]
           IsTurn(t) == t = [n \in 0 .. N |->
                               IF n = 0 THEN c
                               ELSE IF TooBig(t[n - 1]) THEN List!WithoutLast(t[n - 1]) ELSE t[n - 1]]
           turn == CHOOSE t : IsTurn(t)
<1>1. s \in Seq(Keys) /\ c \in Lists
  BY DEF IsList
<1>2. N = Len(s) /\ N \in Nat /\ N # 0 /\ DOMAIN s = 1 .. N
  BY <1>1, AsManyAsKeys
<1>3. SubSeq(s, 1, N) = s
  BY <1>1, <1>2
<1>4. IsCut(c, c, s, N) /\ NoneLonger(s, N) /\ N \in DOMAIN s
  <2> HIDE DEF N
  <2>1. \A m \in DOMAIN s : ~(m > N)
    BY <1>2
  <2>2. NoneLonger(s, N) /\ N \in DOMAIN s
    BY <1>2, <2>1 DEF NoneLonger
  <2>3. IsCut(c, c, s, N)
    BY <1>3 DEF IsCut
  <2> QED
    BY <2>2, <2>3
<1> HIDE DEF N
<1>5. ASSUME NEW d \in D PROVE (IF TooBig(d) THEN List!WithoutLast(d) ELSE d) \in D
  <2>1. PICK n \in DOMAIN s : NoneLonger(s, n) /\ IsCut(d, c, s, n)
    OBVIOUS
  <2>2. CASE TooBig(d)
    <3>1. ~Lru!MayStay(s, n)
      BY <1>1, <2>1, <2>2, CutTooBig
    <3>2. n # 1
      BY <3>1 DEF Lru!MayStay
    <3>3. IsCut(List!WithoutLast(d), c, s, n - 1)
      BY <1>1, <2>1, <3>2, CutShorter
    <3>4. n - 1 \in DOMAIN s /\ NoneLonger(s, n - 1)
      BY <1>1, <2>1, <3>1, <3>2, NoneLongerThanShorter
    <3>5. List!WithoutLast(d) \in Lists
      BY <3>3 DEF IsCut, IsList
    <3> QED
      BY <2>2, <3>3, <3>4, <3>5
  <2> QED
    BY <2>2
<1>6. Step \in [(1 .. N) \X D -> D] /\ c \in D
  <2>1. c \in D
    BY <1>1, <1>4
  <2> HIDE DEF D
  <2>2. \A x \in (1 .. N) \X D : x[2] \in D
    OBVIOUS
  <2> QED
    BY <1>5, <2>1, <2>2
<1>7. PICK t \in [0 .. N -> D] : IsIteration(t, c, Step, N)
  <2> HIDE DEF Step, D
  <2> QED
    BY <1>2, <1>6, Iterated
<1>8. IsTurn(t)
  <2>1. t = [n \in 0 .. N |-> IF n = 0 THEN c ELSE Step[<<n, t[n - 1]>>]]
    BY <1>7 DEF IsIteration
  <2>2. \A n \in 0 .. N : n # 0 => n \in 1 .. N /\ n - 1 \in 0 .. N /\ t[n - 1] \in D
    <3>1. \A n \in 0 .. N : n # 0 => n \in 1 .. N /\ n - 1 \in 0 .. N
      BY <1>2
    <3> HIDE DEF D
    <3> QED
      BY <1>7, <3>1
  <2> HIDE DEF D
  <2>3. \A n \in 0 .. N : n # 0 => Step[<<n, t[n - 1]>>] =
            IF TooBig(t[n - 1]) THEN List!WithoutLast(t[n - 1]) ELSE t[n - 1]
    BY <2>2
  <2> HIDE DEF Step
  <2> QED
    BY <2>1, <2>3
<1>9. IsTurn(turn)
  <2> HIDE DEF IsTurn
  <2> QED
    BY <1>8
<1>10. List!Shrunk(c) = turn[N]
  BY DEF List!Shrunk, TooBig, N, List!Cardinality, Cardinality
<1>11. /\ turn[0] = c
       /\ \A j \in 1 .. N : turn[j] = IF TooBig(turn[j - 1]) THEN List!WithoutLast(turn[j - 1])
                                      ELSE turn[j - 1]
  <2> HIDE DEF turn
  <2>1. 0 \in 0 .. N /\ \A j \in 1 .. N : j \in 0 .. N /\ j # 0
    BY <1>2
  <2> QED
    BY <1>9, <2>1
<1> HIDE DEF turn, IsTurn, D, Step
<1> DEFINE Reached(j, n) == NoneLonger(s, n) /\ IsCut(turn[j], c, s, n)
                            /\ (Lru!MayStay(s, n) \/ n + j = N)
           bad == {j \in 0 .. N : ~ \E n \in DOMAIN s : Reached(j, n)}
<1>12. bad = {}
  <2> SUFFICES ASSUME bad # {} PROVE FALSE
    OBVIOUS
  <2>1. PICK j \in bad : \A i \in bad : j <= i
    <3>1. bad \in SUBSET Nat
      BY <1>2
    <3> HIDE DEF bad
    <3> QED
      BY <3>1, LeastNumber
  <2>2. j # 0
    <3>1. Reached(0, N)
      BY <1>2, <1>4, <1>11
    <3> QED
      BY <1>4, <2>1, <3>1
  <2>3. j \in 1 .. N /\ j - 1 \in 0 .. N /\ ~(j <= j - 1) /\ j \in Int
    BY <1>2, <2>1, <2>2
  <2>4. PICK n \in DOMAIN s : Reached(j - 1, n)
    BY <2>1, <2>3
  <2> DEFINE d == turn[j - 1]
  <2>5. turn[j] = IF TooBig(d) THEN List!WithoutLast(d) ELSE d
    BY <1>11, <2>3
  <2>6. NoneLonger(s, n) /\ IsCut(d, c, s, n) /\ (Lru!MayStay(s, n) \/ n + (j - 1) = N)
    BY <2>4
  <2> HIDE DEF d
  <2>7. TooBig(d) <=> ~Lru!MayStay(s, n)
    BY <1>1, <2>6, CutTooBig
  <2>8. CASE Lru!MayStay(s, n)
    <3>1. Reached(j, n)
      BY <2>5, <2>6, <2>7, <2>8
    <3> QED
      BY <2>1, <3>1
  <2>9. CASE ~Lru!MayStay(s, n)
    <3>1. n # 1
      BY <2>9 DEF Lru!MayStay
    <3>2. IsCut(List!WithoutLast(d), c, s, n - 1)
      BY <1>1, <2>6, <3>1, CutShorter
    <3>3. n - 1 \in DOMAIN s /\ NoneLonger(s, n - 1)
      BY <1>1, <2>6, <2>9, <3>1, NoneLongerThanShorter
    <3>4. n \in Int /\ n + (j - 1) = N
      BY <1>2, <2>6, <2>9
    <3>5. (n - 1) + j = N
      BY <1>2, <2>3, <3>4
    <3>6. Reached(j, n - 1)
      BY <2>5, <2>7, <2>9, <3>2, <3>3, <3>5
    <3> QED
      BY <2>1, <3>3, <3>6
  <2> QED
    BY <2>8, <2>9
<1>13. PICK n \in DOMAIN s : Reached(N, n)
  BY <1>2, <1>12
<1>14. Lru!MayStay(s, n)
  <2>1. n \in 1 .. N /\ ~(n + N = N)
    BY <1>2
  <2> QED
    BY <1>13, <2>1
<1> QED
  BY <1>10, <1>13, <1>14

LEMMA RecentKeysOfList ==
  ASSUME NEW c, NEW s, IsList(c, s)
  PROVE  List!RecentKeys(c) = s
<1> DEFINE N == Cardinality(c.cacheMap)
           IsNode(t) == t = [n \in 1 .. N + 1 |-> IF n = 1 THEN c.head
                               ELSE IF t[n - 1] = Null THEN Null ELSE c.next[t[n - 1]]]
           node == CHOOSE t : IsNode(t)
           met == [n \in 1 .. N + 1 |-> IF n = N + 1 THEN Null ELSE s[n]]
<1>1. s \in Seq(Keys)
  BY DEF IsList
<1>2. N = Len(s) /\ N \in Nat /\ DOMAIN s = 1 .. N
  BY <1>1, AsManyAsKeys
<1>3. \A i \in 1 .. N : s[i] # Null
  BY <1>2, ListFacts
<1>4. /\ c.head = IF N = 0 THEN Null ELSE s[1]
      /\ \A i \in 1 .. N : c.next[s[i]] = IF i = N THEN Null ELSE s[i + 1]
  <2>1. N = 0 <=> s = <<>>
    BY <1>1, <1>2
  <2> QED
    BY <1>2, <2>1 DEF IsList
<1> HIDE DEF N
<1>5. \A n \in 1 .. N + 1 : met[n] = IF n = 1 THEN c.head
                                     ELSE IF met[n - 1] = Null THEN Null ELSE c.next[met[n - 1]]
  <2> SUFFICES ASSUME NEW n \in 1 .. N + 1
               PROVE  met[n] = IF n = 1 THEN c.head
                               ELSE IF met[n - 1] = Null THEN Null ELSE c.next[met[n - 1]]
    OBVIOUS
  <2>1. CASE n = 1
    BY <1>2, <1>4, <2>1
  <2>2. CASE n # 1
    <3>1. /\ n - 1 \in 1 .. N /\ n - 1 \in 1 .. N + 1 /\ n - 1 # N + 1 /\ (n - 1) + 1 = n
          /\ (n - 1 = N <=> n = N + 1)
      BY <1>2, <2>2
    <3>2. met[n - 1] = s[n - 1] /\ s[n - 1] # Null
      BY <1>3, <3>1
    <3>3. c.next[s[n - 1]] = IF n = N + 1 THEN Null ELSE s[n]
      BY <1>4, <3>1
    <3> QED
      BY <2>2, <3>2, <3>3
  <2> QED
    BY <2>1, <2>2
<1>6. IsNode(met)
  <2>1. met = [n \in 1 .. N + 1 |-> met[n]]
    OBVIOUS
  <2> HIDE DEF met
  <2> QED
    BY <1>5, <2>1
<1>7. IsNode(node)
  <2> HIDE DEF IsNode
  <2> QED
    BY <1>6
<1>8. List!RecentKeys(c) = IF node[N + 1] = Null THEN [n \in 1 .. N |-> node[n]] ELSE node
  BY DEF List!RecentKeys, N, List!Cardinality, Cardinality
<1> HIDE DEF node
<1>9. \A n \in 1 .. N + 1 : node[n] = IF n = 1 THEN c.head
                                      ELSE IF node[n - 1] = Null THEN Null ELSE c.next[node[n - 1]]
  BY <1>7
<1> HIDE DEF met, IsNode
<1> DEFINE bad == {n \in 1 .. N + 1 : node[n] # met[n]}
<1>10. bad = {}
  <2> SUFFICES ASSUME bad # {} PROVE FALSE
    OBVIOUS
  <2>1. PICK n \in bad : \A m \in bad : n <= m
    <3>1. bad \in SUBSET Nat
      BY <1>2
    <3> HIDE DEF bad
    <3> QED
      BY <3>1, LeastNumber
  <2>2. n # 1
    BY <1>5, <1>9, <2>1
  <2>3. n - 1 \in 1 .. N + 1 /\ ~(n <= n - 1)
    BY <1>2, <2>1, <2>2
  <2>4. node[n - 1] = met[n - 1]
    BY <2>1, <2>3
  <2> QED
    BY <1>5, <1>9, <2>1, <2>2, <2>4
<1>11. node[N + 1] = Null /\ \A n \in 1 .. N : node[n] = s[n]
  <2>1. N + 1 \in 1 .. N + 1 /\ \A n \in 1 .. N : n \in 1 .. N + 1 /\ n # N + 1
    BY <1>2
  <2> QED
    BY <1>10, <2>1 DEF met
<1>12. s = [n \in 1 .. N |-> s[n]]
  BY <1>1, <1>2
<1> QED
  BY <1>8, <1>11, <1>12

-----------------------------------------------------------------------------
(* The operations of the class are the steps of LruCache.tla. *)

Touches(s, t, k) == \E p \in DOMAIN s : s[p] = k /\ t = Lru!ToFront(s, p)

Inserts(s, t, k) ==
  /\ k \notin Lru!Cached(s)
  /\ \E n \in DOMAIN (<<k>> \o s) :
       /\ Lru!MayStay(<<k>> \o s, n) /\ NoneLonger(<<k>> \o s, n)
       /\ t = SubSeq(<<k>> \o s, 1, n)

LEMMA FindKeyTouches ==
  ASSUME NEW c, NEW s, IsList(c, s), NEW k \in c.cacheMap
  PROVE  /\ \E t \in Seq(Keys) : Touches(s, t, k) /\ IsList(List!FindKey(c, k), t)
         /\ List!FindKey(c, k).cacheMap = c.cacheMap /\ List!FindKey(c, k).value = c.value
<1>1. PICK p \in DOMAIN s : s[p] = k
  BY ListFacts
<1> DEFINE t == Lru!ToFront(s, p)
           d == List!FindKey(c, k)
<1>2. d = List!Promoted(c, s[p])
  BY <1>1 DEF List!FindKey
<1>3. IsList(d, t) /\ d.cacheMap = c.cacheMap /\ d.value = c.value
  <2> HIDE DEF d, t
  <2> QED
    BY <1>2, PromotedIsList DEF t
<1> HIDE DEF d, t
<1>4. t \in Seq(Keys)
  BY <1>3 DEF IsList
<1>5. Touches(s, t, k)
  BY <1>1 DEF Touches, t
<1> QED
  BY <1>3, <1>4, <1>5 DEF d

LEMMA UpdatedIsList ==
  ASSUME NEW c, NEW s, IsList(c, s), NEW k \in Keys, NEW v \in Values, NEW update \in BOOLEAN
  PROVE  LET d == List!Updated(c, k, v, update) IN
         /\ IsList(d, s) /\ d.cacheMap = c.cacheMap
         /\ d.value = IF update THEN [c.value EXCEPT ![k] = v] ELSE c.value
<1> DEFINE d == List!Updated(c, k, v, update)
           value == [c.value EXCEPT ![k] = v]
<1>1. c \in Lists
  BY DEF IsList
<1>2. CASE update
  <2>1. d = [c EXCEPT !.value = value]
    BY <1>1, <1>2 DEF List!Updated, Lists
  <2>2. value \in [Keys -> Values \cup {Null}]
    BY <1>1 DEF Lists
  <2> HIDE DEF value, d
  <2>3. /\ d \in Lists /\ d.value = value /\ d.cacheMap = c.cacheMap
        /\ d.currentSize = c.currentSize /\ d.head = c.head /\ d.last = c.last
        /\ d.next = c.next /\ d.prev = c.prev
    BY <1>1, <2>1, <2>2 DEF Lists
  <2>4. IsList(d, s)
    BY <2>3 DEF IsList
  <2> QED
    BY <1>2, <2>3, <2>4 DEF d, value
<1>3. CASE ~update
  BY <1>3 DEF List!Updated
<1> QED
  BY <1>2, <1>3

LEMMA ShrunkInserts ==
  ASSUME NEW c, NEW s, IsList(c, s), NEW k \in Keys, k \notin c.cacheMap, NEW v \in Values
  PROVE  LET d == List!Shrunk(List!WithHead(c, k, v)) IN
         /\ \E t \in Seq(Keys) : Inserts(s, t, k) /\ IsList(d, t)
         /\ d.cacheMap \subseteq c.cacheMap \cup {k}
         /\ \A x \in d.cacheMap : d.value[x] = IF x = k THEN v ELSE c.value[x]
<1> DEFINE h == List!WithHead(c, k, v)
           d == List!Shrunk(h)
           r == <<k>> \o s
<1>1. s \in Seq(Keys) /\ c \in Lists /\ k \notin Lru!Cached(s)
  BY DEF IsList
<1>2. r # <<>>
  BY <1>1
<1>3. IsList(h, r) /\ h.cacheMap = c.cacheMap \cup {k} /\ h.value = [c.value EXCEPT ![k] = v]
  <2> HIDE DEF h, r
  <2> QED
    BY WithHeadIsList DEF h, r
<1> HIDE DEF h, r
<1>4. PICK n \in DOMAIN r : Lru!MayStay(r, n) /\ NoneLonger(r, n) /\ IsCut(d, h, r, n)
  BY <1>2, <1>3, ShrunkIsList
<1> HIDE DEF d
<1> DEFINE t == SubSeq(r, 1, n)
<1>5. IsList(d, t) /\ d.cacheMap \subseteq h.cacheMap /\ \A x \in d.cacheMap : d.value[x] = h.value[x]
  BY <1>4 DEF IsCut
<1>6. Inserts(s, t, k)
  BY <1>1, <1>4 DEF Inserts, r
<1> HIDE DEF t
<1>7. t \in Seq(Keys)
  BY <1>5 DEF IsList
<1>8. \A x \in d.cacheMap : d.value[x] = IF x = k THEN v ELSE c.value[x]
  <2>1. \A x \in d.cacheMap : x \in Keys
    BY <1>5 DEF IsList, Lists
  <2> QED
    BY <1>1, <1>3, <1>5, <2>1 DEF Lists
<1> QED
  BY <1>3, <1>5, <1>6, <1>7, <1>8 DEF d, h

\* What Next adds to a cache: a node is its own value.
IsAddition(k, v) == k \in Keys /\ v \in Values /\ (k \in Nodes => v = k)

LEMMA AdditionToList ==
  ASSUME NEW c, NEW s, IsList(c, s), NEW values \in [Keys -> Values \cup {Null}],
         HasLatest(c, values), NEW k, NEW v, IsAddition(k, v)
  PROVE  LET d == List!AddKeyValue(c, k, v, k = dbStateRootKey) IN
         /\ \E t \in Seq(Keys) : (Touches(s, t, k) \/ Inserts(s, t, k)) /\ IsList(d, t)
         /\ HasLatest(d, [values EXCEPT ![k] = v])
<1> DEFINE update == k = dbStateRootKey
           d == List!AddKeyValue(c, k, v, update)
           later == [values EXCEPT ![k] = v]
<1>1. /\ k \in Keys /\ v \in Values /\ (k \in Nodes => v = k) /\ update \in BOOLEAN
      /\ (k \in Nodes \/ update) /\ c \in Lists
  BY DEF IsAddition, Keys, IsList
<1>2. \A x \in Keys : later[x] = IF x = k THEN v ELSE values[x]
  BY <1>1
<1>3. c.cacheMap \subseteq Keys
  BY <1>1 DEF Lists
<1> HIDE DEF later
<1>4. CASE k \in c.cacheMap
  <2> DEFINE e == List!FindKey(c, k)
  <2>1. PICK t \in Seq(Keys) : Touches(s, t, k) /\ IsList(e, t)
    BY <1>4, FindKeyTouches
  <2>2. e.cacheMap = c.cacheMap /\ e.value = c.value
    BY <1>4, FindKeyTouches
  <2>3. d = List!Updated(e, k, v, update)
    BY <1>4 DEF List!AddKeyValue
  <2> HIDE DEF e, d
  <2>4. /\ IsList(d, t) /\ d.cacheMap = e.cacheMap
        /\ d.value = IF update THEN [e.value EXCEPT ![k] = v] ELSE e.value
    <3> HIDE DEF update
    <3> QED
      BY <1>1, <2>1, <2>3, UpdatedIsList
  <2>5. ASSUME NEW x \in d.cacheMap
        PROVE  d.value[x] = later[x] /\ (x \in Nodes => d.value[x] = x)
    <3>1. x \in c.cacheMap /\ x \in Keys
      BY <1>3, <2>2, <2>4
    <3>2. c.value[x] = values[x] /\ (x \in Nodes => c.value[x] = x)
      BY <3>1 DEF HasLatest
    <3>3. d.value[x] = IF update /\ x = k THEN v ELSE c.value[x]
      BY <1>1, <2>2, <2>4, <3>1 DEF Lists
    <3> HIDE DEF update
    <3> QED
      BY <1>1, <1>2, <3>1, <3>2, <3>3
  <2>6. HasLatest(d, later)
    BY <2>5 DEF HasLatest
  <2> QED
    BY <2>1, <2>4, <2>6 DEF d, later
<1>5. CASE k \notin c.cacheMap
  <2>1. d = List!Shrunk(List!WithHead(c, k, v))
    BY <1>5 DEF List!AddKeyValue
  <2> HIDE DEF d
  <2>2. /\ \E t \in Seq(Keys) : Inserts(s, t, k) /\ IsList(d, t)
        /\ d.cacheMap \subseteq c.cacheMap \cup {k}
        /\ \A x \in d.cacheMap : d.value[x] = IF x = k THEN v ELSE c.value[x]
    BY <1>1, <1>5, <2>1, ShrunkInserts
  <2>3. ASSUME NEW x \in d.cacheMap
        PROVE  d.value[x] = later[x] /\ (x \in Nodes => d.value[x] = x)
    <3>1. x # k => x \in c.cacheMap /\ x \in Keys
      BY <1>3, <2>2
    <3>2. x # k => c.value[x] = values[x] /\ (x \in Nodes => c.value[x] = x)
      BY <3>1 DEF HasLatest
    <3> QED
      BY <1>1, <1>2, <2>2, <3>1, <3>2
  <2>4. HasLatest(d, later)
    BY <2>3 DEF HasLatest
  <2> QED
    BY <2>2, <2>4 DEF d, later
<1> QED
  BY <1>4, <1>5

-----------------------------------------------------------------------------
(* The steps of the machine. *)

LEMMA InitList == Init => ListInv /\ List!RecentKeys(dbMTCache) = <<>>
<1> SUFFICES ASSUME Init PROVE ListInv /\ List!RecentKeys(dbMTCache) = <<>>
  OBVIOUS
<1>1. dbMTCache = List!EmptyCache /\ useAssociativeCache \in BOOLEAN
  BY DEF Init
<1>2. latest \in [Keys -> Values \cup {Null}]
  BY DEF Init
<1>3. IsList(dbMTCache, <<>>) /\ <<>> \in Seq(Keys)
  BY <1>1, EmptyIsList
<1>4. HasLatest(dbMTCache, latest)
  BY <1>1 DEF HasLatest, List!EmptyCache
<1>5. List!RecentKeys(dbMTCache) = <<>>
  BY <1>3, RecentKeysOfList
<1> QED
  BY <1>1, <1>2, <1>3, <1>4, <1>5 DEF ListInv

\* What a step of Next makes of the list.
ListStep == ListInv' /\ [Lru!Next]_(List!RecentKeys(dbMTCache))

LEMMA AddsToListStep ==
  ASSUME ListInv, NEW k, NEW v, IsAddition(k, v), AddsToList(k, v)
  PROVE  ListStep
<1>1. PICK s \in Seq(Keys) : IsList(dbMTCache, s)
  BY DEF ListInv
<1>2. /\ latest \in [Keys -> Values \cup {Null}] /\ HasLatest(dbMTCache, latest)
      /\ k \in Keys /\ v \in Values
  BY DEF ListInv, IsAddition
<1> DEFINE d == List!AddKeyValue(dbMTCache, k, v, k = dbStateRootKey)
           later == [latest EXCEPT ![k] = v]
<1>3. dbMTCache' = d /\ latest' = later /\ useAssociativeCache' = useAssociativeCache
  BY DEF AddsToList
<1>4. ~useAssociativeCache /\ useAssociativeCache \in BOOLEAN
  BY DEF AddsToList, ListInv
<1>5. PICK t \in Seq(Keys) : (Touches(s, t, k) \/ Inserts(s, t, k)) /\ IsList(d, t)
  BY <1>1, <1>2, AdditionToList
<1>6. HasLatest(d, later)
  BY <1>1, <1>2, AdditionToList
<1>7. later \in [Keys -> Values \cup {Null}]
  BY <1>2
<1> HIDE DEF d, later
<1>8. ListInv'
  BY <1>3, <1>4, <1>5, <1>6, <1>7 DEF ListInv
<1>9. List!RecentKeys(dbMTCache) = s /\ List!RecentKeys(dbMTCache)' = t
  BY <1>1, <1>3, <1>5, RecentKeysOfList
<1>10. Lru!Add(k)
  BY <1>5, <1>9 DEF Touches, Inserts, NoneLonger, Lru!Add, Lru!Touch, Lru!Insert, Lru!IsCached
<1> QED
  BY <1>2, <1>8, <1>10 DEF ListStep, Lru!Next

LEMMA FindsInListStep ==
  ASSUME ListInv, NEW k \in Keys, FindsInList(k)
  PROVE  ListStep
<1>1. PICK s \in Seq(Keys) : IsList(dbMTCache, s)
  BY DEF ListInv
<1> DEFINE d == List!FindKey(dbMTCache, k)
<1>2. dbMTCache' = d /\ latest' = latest /\ useAssociativeCache' = useAssociativeCache
  BY DEF FindsInList
<1>3. ~useAssociativeCache /\ useAssociativeCache \in BOOLEAN
  BY DEF FindsInList, ListInv
<1>4. CASE k \in dbMTCache.cacheMap
  <2>1. PICK t \in Seq(Keys) : Touches(s, t, k) /\ IsList(d, t)
    BY <1>1, <1>4, FindKeyTouches
  <2>2. d.cacheMap = dbMTCache.cacheMap /\ d.value = dbMTCache.value
    BY <1>1, <1>4, FindKeyTouches
  <2> HIDE DEF d
  <2>3. HasLatest(d, latest)
    BY <2>2 DEF ListInv, HasLatest
  <2>4. ListInv'
    BY <1>2, <1>3, <2>1, <2>3 DEF ListInv
  <2>5. List!RecentKeys(dbMTCache) = s /\ List!RecentKeys(dbMTCache)' = t
    BY <1>1, <1>2, <2>1, RecentKeysOfList
  <2>6. Lru!Add(k)
    BY <2>1, <2>5 DEF Touches, Lru!Add, Lru!Touch
  <2> QED
    BY <2>4, <2>6 DEF ListStep, Lru!Next
<1>5. CASE k \notin dbMTCache.cacheMap
  <2>1. dbMTCache' = dbMTCache
    BY <1>2, <1>5 DEF List!FindKey
  <2>2. List!RecentKeys(dbMTCache)' = List!RecentKeys(dbMTCache)
    BY <1>1, <2>1, RecentKeysOfList
  <2> QED
    BY <1>2, <2>1, <2>2 DEF ListInv, ListStep
<1> QED
  BY <1>4, <1>5

LEMMA ClearsCacheStep ==
  ASSUME ListInv, ClearsCache
  PROVE  ListStep
<1>1. /\ dbMTCache' = List!EmptyCache /\ latest' = latest
      /\ useAssociativeCache' = useAssociativeCache /\ ~useAssociativeCache
  BY DEF ClearsCache
<1>2. IsList(dbMTCache', <<>>) /\ <<>> \in Seq(Keys)
  BY <1>1, EmptyIsList
<1>3. HasLatest(dbMTCache', latest')
  BY <1>1 DEF HasLatest, List!EmptyCache
<1>4. ListInv'
  BY <1>1, <1>2, <1>3 DEF ListInv
<1>5. List!RecentKeys(dbMTCache)' = <<>>
  BY <1>2, RecentKeysOfList
<1> QED
  BY <1>4, <1>5 DEF ListStep, Lru!Next, Lru!Clear

LEMMA AddsToRingKeepsList ==
  ASSUME ListInv, NEW k, NEW v, IsAddition(k, v), AddsToRing(k, v)
  PROVE  ListStep
<1>1. /\ dbMTCache' = dbMTCache /\ useAssociativeCache' = useAssociativeCache
      /\ latest' = [latest EXCEPT ![k] = v] /\ dbMTCache = List!EmptyCache
      /\ latest \in [Keys -> Values \cup {Null}] /\ k \in Keys /\ v \in Values
  BY DEF AddsToRing, ListInv, IsAddition
<1>2. latest' \in [Keys -> Values \cup {Null}]
  BY <1>1
<1>3. HasLatest(dbMTCache', latest')
  BY <1>1 DEF HasLatest, List!EmptyCache
<1>4. ListInv'
  BY <1>1, <1>2, <1>3 DEF ListInv
<1>5. List!RecentKeys(dbMTCache)' = List!RecentKeys(dbMTCache)
  <2>1. IsList(dbMTCache, <<>>) /\ IsList(dbMTCache', <<>>)
    BY <1>1, EmptyIsList
  <2> QED
    BY <2>1, RecentKeysOfList
<1> QED
  BY <1>4, <1>5 DEF ListStep

\* Every addition is one of a node or of the state root.
LEMMA Additions ==
  ASSUME Next
  PROVE  \/ \E k, v : IsAddition(k, v) /\ (AddsToList(k, v) \/ AddsToRing(k, v))
         \/ \E k \in Keys : FindsInList(k)
         \/ ClearsCache
<1>1. \A k \in Nodes : IsAddition(k, k)
  BY DEF IsAddition, Keys, Values
<1>2. \A v \in Roots : IsAddition(dbStateRootKey, v)
  BY CachesAssumption DEF IsAddition, Keys, Values
<1> QED
  BY <1>1, <1>2 DEF Next, Adds

LEMMA NextList ==
  ASSUME ListInv, [Next]_vars
  PROVE  ListStep
<1>1. CASE Next
  BY <1>1, Additions, AddsToListStep, AddsToRingKeepsList, FindsInListStep, ClearsCacheStep
<1>2. CASE UNCHANGED vars
  <2>1. PICK s \in Seq(Keys) : IsList(dbMTCache, s)
    BY DEF ListInv
  <2>2. List!RecentKeys(dbMTCache)' = List!RecentKeys(dbMTCache)
    BY <1>2, <2>1, RecentKeysOfList DEF vars
  <2> QED
    BY <1>2, <2>2 DEF vars, ListInv, ListStep
<1> QED
  BY <1>1, <1>2

-----------------------------------------------------------------------------
(* Theorems. *)

\* The pointers of the linked list always form one list of the keys that its
\* map has, with the size and the values that it should have.
THEOREM ListAlwaysOrdered == Spec => []ListInv
<1>1. Init => ListInv
  BY InitList
<1>2. ListInv /\ [Next]_vars => ListInv'
  BY NextList DEF ListStep
<1> QED
  BY <1>1, <1>2, PTL DEF Spec

\* addKeyValue(), findKey() and clear() of DatabaseCache implement the cache of
\* LruCache.tla, for any keys, sizes and limit.
THEOREM ListImplementsLru == Spec => ListIsLru
<1>1. Init => Lru!Init
  BY InitList DEF Lru!Init
<1>2. ListInv /\ [Next]_vars => [Lru!Next]_(List!RecentKeys(dbMTCache))
  BY NextList DEF ListStep
<1> QED
  BY <1>1, <1>2, ListAlwaysOrdered, PTL DEF Spec, ListIsLru, Lru!Spec
=============================================================================
