-------------------------- MODULE NodeCachesProofs --------------------------
(***************************************************************************)
(* Proofs about the caches (NodeCaches.tla), for any keys, places, sizes   *)
(* and width of the counter: a hit is the value last added, and the ring   *)
(* loses no entry before its slot is written again.                        *)
(***************************************************************************)
EXTENDS LinkedListProofs

-----------------------------------------------------------------------------
(* The inductive invariant of the ring. *)

Slots == 0 .. cacheSize - 1

Rings == [indexes : [Assoc!Places -> 0 .. MaxIndex],
          entries : [Slots -> [key : Keys, value : Values] \cup {Null}],
          current : 0 .. MaxIndex,
          exited  : BOOLEAN]

\* The number of the entry that was written a entries ago.
Number(c, a) == IF a <= c.current THEN c.current - a ELSE c.current - a + (MaxIndex + 1)

SlotOf(c, a) == Number(c, a) % cacheSize

\* One of the places of the entry's key has its number.
IsIndexed(c, r) ==
  \E i \in Assoc!Elements : c.indexes[Place[Assoc!EntryOf(c, r).key][i]] = r

\* Until the ring is full, its entries are the first ones and numbers are below
\* the counter, or the one that every place has first.
Filling(c, n) ==
  /\ n \in Nat /\ n <= cacheSize
  /\ \A s \in Slots : c.entries[s] # Null <=> s < n
  /\ n < cacheSize =>
       /\ c.current = n
       /\ \A p \in Assoc!Places : c.indexes[p] < n \/ c.indexes[p] = MaxIndex - cacheSize - 1

\* The ring holds the keys of keys, and nothing else.
Holds(c, keys) ==
  /\ \A a \in 1 .. Len(keys) : c.entries[SlotOf(c, a)].key = keys[Len(keys) + 1 - a]
  /\ \A s \in Slots : c.entries[s] # Null => \E a \in 1 .. Len(keys) : SlotOf(c, a) = s

\* Entries have the last value of their key.
AreLatest(c, values) ==
  \A s \in Slots : c.entries[s] # Null =>
    /\ c.entries[s].value = values[c.entries[s].key]
    /\ c.entries[s].key \in Nodes => c.entries[s].value = c.entries[s].key

Indexed(c, n) == \A a \in 1 .. n : IsIndexed(c, Number(c, a))

\* The ring c holds keys, with values.
RingOK(c, keys, values) ==
  /\ c \in Rings /\ keys \in Seq(Keys) /\ values \in [Keys -> Values \cup {Null}]
  /\ Filling(c, Len(keys))
  /\ Holds(c, keys)
  /\ AreLatest(c, values)
  /\ c.exited \/ Indexed(c, Len(keys))

RingInv ==
  /\ useAssociativeCache \in BOOLEAN
  /\ ~useAssociativeCache => added = <<>>
  /\ RingOK(dbMTACache, added, latest)

-----------------------------------------------------------------------------
(* Arithmetic. *)

LEMMA DivMod ==
  ASSUME NEW x \in Int, NEW n \in Nat \ {0}
  PROVE  x % n \in 0 .. n - 1 /\ x \div n \in Int /\ x = n * (x \div n) + (x % n)
OBVIOUS

LEMMA Multiples ==
  ASSUME NEW q \in Int, NEW n \in Nat \ {0}, q # 0
  PROVE  n * q >= n \/ n * q <= -n
OBVIOUS

LEMMA OneQuotient ==
  ASSUME NEW n \in Nat \ {0}, NEW q \in Int, NEW r \in 0 .. n - 1,
         NEW p \in Int, NEW s \in 0 .. n - 1, n * q + r = n * p + s
  PROVE  r = s
<1>1. n * (q - p) = s - r
  OBVIOUS
<1>2. q - p = 0
  BY <1>1, Multiples
<1> QED
  BY <1>1, <1>2

LEMMA ModOf ==
  ASSUME NEW n \in Nat \ {0}, NEW q \in Int, NEW r \in 0 .. n - 1
  PROVE  (n * q + r) % n = r
<1>1. n * q + r \in Int
  OBVIOUS
<1> QED
  BY <1>1, DivMod, OneQuotient

LEMMA ModPlus ==
  ASSUME NEW n \in Nat \ {0}, NEW x \in Int, NEW q \in Int
  PROVE  (x + n * q) % n = x % n
<1>1. x + n * q = n * (x \div n + q) + (x % n)
  BY DivMod
<1>2. x \div n + q \in Int /\ x % n \in 0 .. n - 1
  BY DivMod
<1> QED
  BY <1>1, <1>2, ModOf

LEMMA ModDiffers ==
  ASSUME NEW n \in Nat \ {0}, NEW x \in Int, NEW d \in 1 .. n - 1
  PROVE  (x + d) % n # x % n
<1>1. SUFFICES ASSUME (x + d) % n = x % n PROVE FALSE
  OBVIOUS
<1>2. n * ((x + d) \div n - x \div n) = d
  BY <1>1, DivMod
<1>3. (x + d) \div n - x \div n \in Int
  BY DivMod
<1> QED
  BY <1>2, <1>3, Multiples

LEMMA ModSmall ==
  ASSUME NEW n \in Nat \ {0}, NEW x \in 0 .. n - 1
  PROVE  x % n = x
<1>1. x = n * 0 + x
  OBVIOUS
<1> QED
  BY <1>1, DivMod, OneQuotient

\* The numbers of the last entries are fresh, and the one that gives way to the
\* next entry has its slot.
LEMMA NumbersAreFresh ==
  ASSUME NEW c, c.current \in 0 .. MaxIndex, NEW a \in 1 .. cacheSize
  PROVE  /\ Number(c, a) \in 0 .. MaxIndex /\ SlotOf(c, a) \in Slots
         /\ ~Assoc!IsStale(c, Number(c, a))
         /\ a < cacheSize => SlotOf(c, a) # c.current % cacheSize
         /\ a = cacheSize => SlotOf(c, a) = c.current % cacheSize
<1> DEFINE n == Number(c, a)
           m == MaxIndex + 1
<1>1. /\ cacheSize \in Nat \ {0} /\ m \in Nat /\ c.current \in Int /\ MaxIndex \in Nat
      /\ m > 2 * cacheSize /\ m % cacheSize = 0
  BY CachesAssumption
<1>2. n \in 0 .. MaxIndex /\ n \in Int /\ (n + a = c.current \/ n + a = c.current + m)
  BY <1>1 DEF Number
<1>3. ~Assoc!IsStale(c, n)
  BY <1>1 DEF Number, Assoc!IsStale
<1> HIDE DEF n, m
<1>4. (c.current + m) % cacheSize = c.current % cacheSize
  <2>1. m = cacheSize * (m \div cacheSize) + (m % cacheSize) /\ m \div cacheSize \in Int
    BY <1>1, DivMod
  <2>2. (c.current + cacheSize * (m \div cacheSize)) % cacheSize = c.current % cacheSize
    BY <1>1, <2>1, ModPlus
  <2> QED
    BY <1>1, <2>1, <2>2
<1>5. (n + a) % cacheSize = c.current % cacheSize
  BY <1>2, <1>4
<1>6. n % cacheSize \in Slots
  BY <1>1, <1>2, DivMod DEF Slots
<1>7. ASSUME a < cacheSize PROVE n % cacheSize # c.current % cacheSize
  <2>1. a \in 1 .. cacheSize - 1 /\ n \in Int
    BY <1>1, <1>2, <1>7
  <2> QED
    BY <1>1, <1>5, <2>1, ModDiffers
<1>8. ASSUME a = cacheSize PROVE n % cacheSize = c.current % cacheSize
  <2>1. (n + cacheSize * 1) % cacheSize = n % cacheSize
    BY <1>1, <1>2, ModPlus, 1 \in Int
  <2> QED
    BY <1>1, <1>5, <1>8, <2>1
<1> QED
  BY <1>2, <1>3, <1>6, <1>7, <1>8 DEF SlotOf, n

\* As the counter goes on, or wraps, each entry is one older.
LEMMA NumbersAge ==
  ASSUME NEW c, c.current \in 0 .. MaxIndex, NEW d,
         d.current = (c.current + 1) % (MaxIndex + 1)
  PROVE  /\ d.current \in 0 .. MaxIndex
         /\ d.current = IF c.current = MaxIndex THEN 0 ELSE c.current + 1
         /\ Number(d, 1) = c.current
         /\ \A a \in 1 .. MaxIndex : Number(d, a + 1) = Number(c, a)
<1>1. MaxIndex + 1 \in Nat \ {0} /\ MaxIndex \in Nat
  BY CachesAssumption
<1>2. c.current # MaxIndex => (c.current + 1) % (MaxIndex + 1) = c.current + 1
  BY <1>1, ModSmall
<1>3. (0 + (MaxIndex + 1) * 1) % (MaxIndex + 1) = 0 % (MaxIndex + 1)
  BY <1>1, ModPlus
<1>4. 0 % (MaxIndex + 1) = 0
  BY <1>1, ModSmall
<1>5. d.current = IF c.current = MaxIndex THEN 0 ELSE c.current + 1
  BY <1>1, <1>2, <1>3, <1>4
<1> QED
  BY <1>1, <1>5 DEF Number

-----------------------------------------------------------------------------
(* Choices. *)

LEMMA FirstIsOne ==
  ASSUME NEW S \in SUBSET Assoc!Elements, S # {}
  PROVE  Assoc!First(S) \in S
<1>1. \E i \in S : \A j \in S : i <= j
  BY LeastNumber DEF Assoc!Elements
<1> QED
  BY <1>1 DEF Assoc!First

LEMMA OldestIsOne ==
  ASSUME NEW d, NEW raws \in SUBSET Nat, ~ (raws \subseteq d.used)
  PROVE  Assoc!Oldest(d, raws) \in raws \ d.used
<1>1. \E r \in raws \ d.used : \A s \in raws \ d.used : r <= s
  BY LeastNumber
<1> QED
  BY <1>1 DEF Assoc!Oldest

-----------------------------------------------------------------------------
(* forcedInsertion(). *)

Chains == [c : Rings, raw : 0 .. MaxIndex, used : SUBSET (0 .. MaxIndex), done : BOOLEAN]

\* What a chain of displaced numbers keeps of the ring b with n entries: each
\* number has a place but for the one in hand.
ChainInv(d, b, n) ==
  /\ d.c.entries = b.entries /\ d.c.current = b.current
  /\ Filling(d.c, n)
  /\ n < cacheSize => d.raw < n
  /\ d.c.exited => d.done
  /\ \/ d.c.exited
     \/ \A a \in 1 .. n : \/ IsIndexed(d.c, Number(d.c, a))
                          \/ ~d.done /\ d.raw = Number(d.c, a)

HeldKey(d) == Assoc!EntryOf(d.c, d.raw).key

PlaceOf(d, i) == Place[HeldKey(d)][i]

\* The number in hand is of an entry.
LEMMA HeldIsEntry ==
  ASSUME NEW d \in Chains, NEW b, NEW n, ChainInv(d, b, n)
  PROVE  HeldKey(d) \in Keys /\ \A i \in Assoc!Elements : PlaceOf(d, i) \in Assoc!Places
<1> DEFINE s == d.raw % cacheSize
<1>1. cacheSize \in Nat \ {0} /\ d.raw \in Nat /\ d.raw \in Int
  BY CachesAssumption DEF Chains
<1>2. s \in Slots
  BY <1>1, DivMod DEF Slots
<1>3. n < cacheSize => s = d.raw
  BY <1>1, ModSmall DEF ChainInv, Filling
<1>4. s < n
  BY <1>1, <1>2, <1>3 DEF ChainInv, Filling, Slots
<1> HIDE DEF s
<1>5. d.c.entries[s] # Null /\ d.c.entries[s] \in [key : Keys, value : Values] \cup {Null}
  BY <1>2, <1>4 DEF ChainInv, Filling, Chains, Rings
<1>6. HeldKey(d) = d.c.entries[s].key
  BY DEF HeldKey, Assoc!EntryOf, s
<1>7. HeldKey(d) \in Keys
  BY <1>5, <1>6
<1> QED
  BY <1>7, CachesAssumption DEF PlaceOf, Assoc!Places

\* What it is to put the number in hand into a place of its key.
IsPut(d, e, p) ==
  /\ e \in Rings /\ e.entries = d.c.entries /\ e.current = d.c.current /\ e.exited = d.c.exited
  /\ IsIndexed(e, d.raw)
  /\ \A r : IsIndexed(d.c, r) /\ r # d.c.indexes[p] => IsIndexed(e, r)

LEMMA PutKeeps ==
  ASSUME NEW d \in Chains, NEW b, NEW n, ChainInv(d, b, n), NEW j \in Assoc!Elements
  PROVE  LET e == Assoc!Put(d, PlaceOf(d, j)) IN
         /\ IsPut(d, e.c, PlaceOf(d, j)) /\ Filling(e.c, n)
         /\ e \in Chains /\ e.raw = d.raw /\ e.used = d.used /\ e.done = d.done
<1> DEFINE p == PlaceOf(d, j)
           e == Assoc!Put(d, p)
<1>1. p \in Assoc!Places
  BY HeldIsEntry
<1>2. /\ e.raw = d.raw /\ e.used = d.used /\ e.done = d.done
      /\ e.c.entries = d.c.entries /\ e.c.current = d.c.current /\ e.c.exited = d.c.exited
      /\ e.c.indexes = [d.c.indexes EXCEPT ![p] = d.raw]
  BY DEF Assoc!Put, Chains, Rings
<1>3. e \in Chains /\ e.c \in Rings
  BY <1>1 DEF Assoc!Put, Chains, Rings
<1>4. /\ e.c.indexes[p] = d.raw
      /\ \A q \in Assoc!Places : q # p => e.c.indexes[q] = d.c.indexes[q]
  BY <1>1, <1>2 DEF Chains, Rings
<1> HIDE DEF p, e
<1>5. IsIndexed(e.c, d.raw)
  BY <1>2, <1>4 DEF IsIndexed, Assoc!EntryOf, p, PlaceOf, HeldKey
<1>6. ASSUME NEW r, IsIndexed(d.c, r), r # d.c.indexes[p] PROVE IsIndexed(e.c, r)
  <2>1. PICK i \in Assoc!Elements : d.c.indexes[Place[Assoc!EntryOf(d.c, r).key][i]] = r
    BY <1>6 DEF IsIndexed
  <2> DEFINE q == Place[Assoc!EntryOf(d.c, r).key][i]
  <2>2. e.c.indexes[q] = r
    BY <1>2, <1>6, <2>1
  <2> QED
    BY <1>2, <2>2 DEF IsIndexed, Assoc!EntryOf
<1>7. Filling(e.c, n)
  BY <1>1, <1>2, <1>4 DEF Filling, ChainInv
<1> QED
  BY <1>2, <1>3, <1>5, <1>6, <1>7 DEF IsPut, p, e

\* Each level puts the number in hand, and takes the one that gives way.
LEMMA PutInKeeps ==
  ASSUME NEW d \in Chains, NEW b, NEW n, ChainInv(d, b, n)
  PROVE  Assoc!PutIn(d) \in Chains /\ ChainInv(Assoc!PutIn(d), b, n)
<1> DEFINE InTheWay(i) == d.c.indexes[PlaceOf(d, i)]
           raws == {InTheWay(i) : i \in Assoc!Elements} \ {MaxIndex}
           stale == {i \in Assoc!Elements : Assoc!IsStale(d.c, InTheWay(i))}
           gives == {i \in Assoc!Elements : InTheWay(i) = Assoc!Oldest(d, raws)}
           E(j) == Assoc!Put(d, PlaceOf(d, j))
           P == Assoc!PutIn(d)
<1>1. P = IF d.done THEN d
          ELSE IF stale # {} THEN [E(Assoc!First(stale)) EXCEPT !.done = TRUE]
          ELSE IF raws \subseteq d.used THEN [d EXCEPT !.done = TRUE, !.c.exited = TRUE]
          ELSE [E(Assoc!First(gives)) EXCEPT
                  !.raw = Assoc!Oldest(d, raws), !.used = d.used \cup {Assoc!Oldest(d, raws)}]
  BY DEF Assoc!PutIn, PlaceOf, HeldKey
<1>2. \A i \in Assoc!Elements : InTheWay(i) \in 0 .. MaxIndex
  BY HeldIsEntry DEF Chains, Rings
<1>3. /\ n \in Nat /\ n <= cacheSize /\ cacheSize \in Nat \ {0} /\ d.c.current \in 0 .. MaxIndex
      /\ MaxIndex \in Nat /\ MaxIndex > 2 * cacheSize
  BY CachesAssumption DEF ChainInv, Filling, Chains, Rings
<1>4. \A a \in 1 .. n : ~Assoc!IsStale(d.c, Number(d.c, a))
  BY <1>3, NumbersAreFresh
<1>5. CASE d.done
  BY <1>1, <1>5
<1>6. CASE ~d.done /\ stale # {}
  <2> DEFINE j == Assoc!First(stale)
             f == [E(j) EXCEPT !.done = TRUE]
  <2>1. P = f /\ j \in Assoc!Elements /\ Assoc!IsStale(d.c, InTheWay(j))
    BY <1>1, <1>6, FirstIsOne
  <2> HIDE DEF P, j, stale, gives, raws
  <2>2. /\ IsPut(d, E(j).c, PlaceOf(d, j)) /\ Filling(E(j).c, n)
        /\ E(j) \in Chains /\ E(j).raw = d.raw
    BY <2>1, PutKeeps
  <2> HIDE DEF E
  <2>3. f \in Chains /\ f.c = E(j).c /\ f.raw = d.raw /\ f.done = TRUE
    BY <2>2 DEF Chains
  <2> HIDE DEF f
  <2>4. ASSUME NEW a \in 1 .. n, ~f.c.exited PROVE IsIndexed(f.c, Number(f.c, a))
    <3>1. IsIndexed(d.c, Number(d.c, a)) \/ d.raw = Number(d.c, a)
      BY <2>2, <2>3, <2>4 DEF ChainInv, IsPut
    <3>2. Number(d.c, a) # InTheWay(j) /\ Number(f.c, a) = Number(d.c, a)
      BY <1>4, <2>1, <2>2, <2>3 DEF IsPut, Number
    <3> QED
      BY <2>2, <2>3, <3>1, <3>2 DEF IsPut
  <2>5. ChainInv(f, b, n)
    BY <2>2, <2>3, <2>4 DEF ChainInv, IsPut
  <2> QED
    BY <2>1, <2>3, <2>5 DEF P
<1>7. CASE ~d.done /\ stale = {} /\ raws \subseteq d.used
  <2> DEFINE f == [d EXCEPT !.done = TRUE, !.c.exited = TRUE]
  <2>1. P = f
    BY <1>1, <1>7
  <2> HIDE DEF P
  <2>2. /\ f \in Chains /\ f.raw = d.raw /\ f.done /\ f.c.exited /\ f.c.entries = d.c.entries
        /\ f.c.current = d.c.current /\ f.c.indexes = d.c.indexes
    BY DEF Chains, Rings
  <2> HIDE DEF f
  <2> QED
    BY <2>1, <2>2 DEF ChainInv, Filling, P
<1>8. CASE ~d.done /\ stale = {} /\ ~ (raws \subseteq d.used)
  <2> DEFINE o == Assoc!Oldest(d, raws)
             j == Assoc!First(gives)
             f == [E(j) EXCEPT !.raw = o, !.used = d.used \cup {o}]
  <2>1. raws \in SUBSET Nat
    BY <1>2, <1>3
  <2>2. o \in raws
    <3> HIDE DEF raws
    <3> QED
      BY <1>8, <2>1, OldestIsOne
  <2>3. gives # {}
    BY <2>2
  <2>4. P = f /\ j \in gives
    BY <1>1, <1>8, <2>3, FirstIsOne
  <2>5. j \in Assoc!Elements /\ InTheWay(j) = o /\ o \in 0 .. MaxIndex /\ ~Assoc!IsStale(d.c, o)
    BY <1>2, <1>8, <2>4
  <2> HIDE DEF P, j, stale, gives, raws, o
  <2>6. /\ IsPut(d, E(j).c, PlaceOf(d, j)) /\ Filling(E(j).c, n)
        /\ E(j) \in Chains /\ E(j).raw = d.raw /\ E(j).done = d.done
    BY <2>5, PutKeeps
  <2> HIDE DEF E
  <2>7. f \in Chains /\ f.c = E(j).c /\ f.raw = o /\ f.done = d.done
    BY <2>5, <2>6 DEF Chains
  <2> HIDE DEF f
  <2>8. ASSUME n < cacheSize PROVE o < n
    <3>1. o < n \/ o = MaxIndex - cacheSize - 1
      BY <2>5, <2>8, HeldIsEntry DEF ChainInv, Filling
    <3>2. d.c.current = n
      BY <2>8 DEF ChainInv, Filling
    <3> QED
      BY <1>3, <2>5, <2>8, <3>1, <3>2 DEF Assoc!IsStale
  <2>9. ASSUME NEW a \in 1 .. n, ~f.c.exited
        PROVE  IsIndexed(f.c, Number(f.c, a)) \/ (~f.done /\ f.raw = Number(f.c, a))
    <3>1. IsIndexed(d.c, Number(d.c, a)) \/ d.raw = Number(d.c, a)
      BY <2>6, <2>7, <2>9 DEF ChainInv, IsPut
    <3>2. Number(f.c, a) = Number(d.c, a)
      BY <2>6, <2>7 DEF IsPut, Number
    <3> QED
      BY <1>8, <2>5, <2>6, <2>7, <3>1, <3>2 DEF IsPut
  <2>10. ChainInv(f, b, n)
    BY <1>8, <2>6, <2>7, <2>8, <2>9 DEF ChainInv, IsPut
  <2> QED
    BY <2>4, <2>7, <2>10 DEF P
<1> QED
  BY <1>5, <1>6, <1>7, <1>8

\* forcedInsertion() leaves every number in a place, or ends the process.
LEMMA InsertionKeeps ==
  ASSUME NEW b \in Rings, NEW raw \in 0 .. MaxIndex, NEW n, ~b.exited, Filling(b, n),
         n < cacheSize => raw < n,
         \A a \in 1 .. n : IsIndexed(b, Number(b, a)) \/ raw = Number(b, a)
  PROVE  LET r == Assoc!ForcedInsertion(b, raw) IN
         /\ r \in Rings /\ r.entries = b.entries /\ r.current = b.current
         /\ Filling(r, n) /\ (r.exited \/ Indexed(r, n))
<1> DEFINE D == {d \in Chains : ChainInv(d, b, n)}
           Step == [x \in (1 .. 9) \X D |-> Assoc!PutIn(x[2])]
           first == [c |-> b, raw |-> raw, used |-> {raw}, done |-> FALSE]
           IsLevels(t) == t = [m \in 0 .. 9 |-> IF m = 0 THEN first ELSE Assoc!PutIn(t[m - 1])]
           level == CHOOSE t : IsLevels(t)
<1>1. first \in D
  BY DEF Chains, ChainInv, Number
<1>2. Step \in [(1 .. 9) \X D -> D]
  <2>1. \A d \in D : Assoc!PutIn(d) \in D
    BY PutInKeeps
  <2> HIDE DEF D
  <2> QED
    BY <2>1
<1>3. \E t : IsLevels(t)
  <2> HIDE DEF D, Step, first
  <2>1. PICK t \in [0 .. 9 -> D] : IsIteration(t, first, Step, 9)
    BY <1>1, <1>2, Iterated, 9 \in Nat
  <2>2. \A m \in 0 .. 9 : m # 0 => m \in 1 .. 9 /\ t[m - 1] \in D
    OBVIOUS
  <2>3. \A m \in 0 .. 9 : m # 0 => Step[<<m, t[m - 1]>>] = Assoc!PutIn(t[m - 1])
    BY <2>2 DEF Step
  <2>4. \A m \in 0 .. 9 : t[m] = IF m = 0 THEN first ELSE Step[<<m, t[m - 1]>>]
    BY <2>1 DEF IsIteration
  <2>5. \A m \in 0 .. 9 : t[m] = IF m = 0 THEN first ELSE Assoc!PutIn(t[m - 1])
    BY <2>3, <2>4
  <2>6. IsLevels(t)
    BY <2>5
  <2> QED
    BY <2>6
<1>4. IsLevels(level)
  <2> HIDE DEF IsLevels
  <2> QED
    BY <1>3
<1>5. Assoc!ForcedInsertion(b, raw) =
        IF level[9].done THEN level[9].c ELSE [level[9].c EXCEPT !.exited = TRUE]
  BY DEF Assoc!ForcedInsertion
<1> HIDE DEF level
<1>6. level[9] \in D
  <2> DEFINE bad == {m \in 0 .. 9 : level[m] \notin D}
  <2>1. SUFFICES ASSUME bad # {} PROVE FALSE
    OBVIOUS
  <2>2. bad \in SUBSET Nat
    OBVIOUS
  <2>3. PICK m \in bad : \A y \in bad : m <= y
    <3> HIDE DEF bad
    <3> QED
      BY <2>1, <2>2, LeastNumber
  <2> HIDE DEF first
  <2>4. level[m] = IF m = 0 THEN first ELSE Assoc!PutIn(level[m - 1])
    BY <1>4
  <2>5. m # 0 /\ m - 1 \in 0 .. 9
    BY <1>1, <2>3, <2>4
  <2>6. level[m - 1] \in D
    BY <2>3, <2>5
  <2> QED
    BY <2>3, <2>4, <2>5, <2>6, PutInKeeps
<1>7. level[9].c \in Rings
  BY <1>6 DEF Chains
<1> DEFINE r == Assoc!ForcedInsertion(b, raw)
           l == level[9]
<1>8. CASE l.done
  <2>1. r = l.c
    BY <1>5, <1>8
  <2> HIDE DEF r, l
  <2>2. ChainInv(l, b, n)
    BY <1>6 DEF l
  <2> QED
    BY <1>7, <1>8, <2>1, <2>2 DEF ChainInv, Indexed, r, l
<1>9. CASE ~l.done
  <2>1. r = [l.c EXCEPT !.exited = TRUE]
    BY <1>5, <1>9
  <2> HIDE DEF r
  <2>2. r \in Rings /\ r.exited /\ r.entries = l.c.entries /\ r.current = l.c.current /\ r.indexes = l.c.indexes
    BY <1>7, <2>1 DEF Rings
  <2> HIDE DEF l
  <2>3. ChainInv(l, b, n)
    BY <1>6 DEF l
  <2> QED
    BY <2>2, <2>3 DEF ChainInv, Filling, r
<1> QED
  BY <1>8, <1>9

-----------------------------------------------------------------------------
(* addKeyValue() of the ring. *)

LEMMA ExtendedKeys ==
  ASSUME NEW keys \in Seq(Keys), NEW k \in Keys, Len(keys) <= cacheSize
  PROVE  LET longer == Extended(keys, k) IN
         /\ longer \in Seq(Keys)
         /\ Len(longer) = IF Len(keys) < cacheSize THEN Len(keys) + 1 ELSE cacheSize
         /\ longer[Len(longer)] = k
         /\ \A a \in 2 .. Len(longer) : longer[Len(longer) + 1 - a] = keys[Len(keys) + 1 - (a - 1)]
<1>1. cacheSize \in Nat \ {0} /\ Len(keys) \in Nat
  BY CachesAssumption
<1>2. CASE Len(keys) < cacheSize
  <2> DEFINE longer == Append(keys, k)
  <2>1. /\ longer \in Seq(Keys) /\ Len(longer) = Len(keys) + 1 /\ longer[Len(keys) + 1] = k
        /\ \A i \in 1 .. Len(keys) : longer[i] = keys[i]
    BY <1>1
  <2> HIDE DEF longer
  <2>2. \A a \in 2 .. Len(longer) : longer[Len(longer) + 1 - a] = keys[Len(keys) + 1 - (a - 1)]
    BY <1>1, <2>1
  <2> QED
    BY <1>1, <1>2, <2>1, <2>2 DEF Extended, longer
<1>3. CASE Len(keys) = cacheSize
  <2> DEFINE rest == Tail(keys)
             longer == Append(rest, k)
  <2>1. /\ rest \in Seq(Keys) /\ Len(rest) = Len(keys) - 1
        /\ \A i \in 1 .. Len(rest) : rest[i] = keys[i + 1]
    BY <1>1, <1>3, keys # <<>>
  <2> HIDE DEF rest
  <2>2. /\ longer \in Seq(Keys) /\ Len(longer) = Len(rest) + 1 /\ longer[Len(rest) + 1] = k
        /\ \A i \in 1 .. Len(rest) : longer[i] = rest[i]
    BY <2>1
  <2> HIDE DEF longer
  <2>3. \A a \in 2 .. Len(longer) : longer[Len(longer) + 1 - a] = keys[Len(keys) + 1 - (a - 1)]
    BY <1>1, <2>1, <2>2
  <2>4. Extended(keys, k) = longer /\ ~(Len(keys) < cacheSize)
    <3>1. ~(Len(keys) < cacheSize)
      BY <1>1, <1>3
    <3> QED
      BY <3>1 DEF Extended, longer, rest
  <2>5. Len(longer) = cacheSize /\ longer[Len(longer)] = k
    BY <1>1, <1>3, <2>1, <2>2
  <2> QED
    BY <2>2, <2>3, <2>4, <2>5
<1>4. Len(keys) < cacheSize \/ Len(keys) = cacheSize
  <2> DEFINE N == Len(keys)
  <2>1. N \in Nat /\ N <= cacheSize
    BY <1>1
  <2> HIDE DEF N
  <2>2. N < cacheSize \/ N = cacheSize
    BY <1>1, <2>1
  <2> QED
    BY <2>2 DEF N
<1> QED
  BY <1>2, <1>3, <1>4, Zenon

\* What it is to write the next entry, into the slot of the oldest one.
IsWritten(c, w, k, longer, after) ==
  /\ w \in Rings /\ w.indexes = c.indexes /\ ~w.exited
  /\ w.current # c.current /\ Number(w, 1) = c.current
  /\ Assoc!EntryOf(w, c.current).key = k
  /\ longer \in Seq(Keys) /\ Filling(w, Len(longer)) /\ Holds(w, longer)
  /\ AreLatest(w, after)
  /\ \A a \in 2 .. Len(longer) : IsIndexed(w, Number(w, a)) /\ ~Assoc!IsStale(c, Number(w, a))
  /\ Len(longer) < cacheSize => c.current < Len(longer)

LEMMA WrittenKeeps ==
  ASSUME NEW c, NEW keys, NEW values, RingOK(c, keys, values), ~c.exited,
         NEW k, NEW v, IsAddition(k, v),
         k \in Nodes \/ \A s \in Slots : c.entries[s] # Null => c.entries[s].key # k
  PROVE  IsWritten(c, Assoc!Written(c, k, v), k, Extended(keys, k), [values EXCEPT ![k] = v])
<1> DEFINE w == Assoc!Written(c, k, v)
           longer == Extended(keys, k)
           n == Len(keys)
           m == Len(longer)
           slot == c.current % cacheSize
           new == [key |-> k, value |-> v]
<1>1. /\ cacheSize \in Nat \ {0} /\ MaxIndex \in Nat /\ MaxIndex > 2 * cacheSize
      /\ c.current \in 0 .. MaxIndex /\ c.current \in Int /\ n \in Nat /\ n <= cacheSize
      /\ k \in Keys /\ new \in [key : Keys, value : Values] /\ new # Null /\ c \in Rings
      /\ keys \in Seq(Keys)
  BY CachesAssumption DEF RingOK, Filling, Rings, IsAddition, Values
<1>2. slot \in Slots
  BY <1>1, DivMod DEF Slots
<1>3. /\ w.indexes = c.indexes /\ w.exited = c.exited
      /\ w.entries = [c.entries EXCEPT ![slot] = new]
      /\ w.current = (c.current + 1) % (MaxIndex + 1)
  BY <1>1 DEF Assoc!Written, Rings
<1>4. /\ longer \in Seq(Keys) /\ longer[m] = k
      /\ m = IF n < cacheSize THEN n + 1 ELSE cacheSize
      /\ \A a \in 2 .. m : longer[m + 1 - a] = keys[n + 1 - (a - 1)]
  BY <1>1, ExtendedKeys
<1>5. /\ w.current \in 0 .. MaxIndex /\ Number(w, 1) = c.current
      /\ w.current = IF c.current = MaxIndex THEN 0 ELSE c.current + 1
      /\ \A a \in 1 .. MaxIndex : Number(w, a + 1) = Number(c, a)
  <2>1. c.current \in 0 .. MaxIndex /\ w.current = (c.current + 1) % (MaxIndex + 1)
    BY <1>1, <1>3
  <2> HIDE DEF w
  <2> QED
    BY <2>1, NumbersAge, Zenon
<1>6. w \in Rings
  <2>1. w.entries \in [Slots -> [key : Keys, value : Values] \cup {Null}]
    BY <1>1, <1>2, <1>3 DEF Rings
  <2>2. w = [c EXCEPT !.entries = w.entries, !.current = w.current]
    BY <1>1 DEF Assoc!Written, Rings
  <2> HIDE DEF w
  <2> QED
    BY <1>1, <1>5, <2>1, <2>2 DEF Rings
<1>7. w.entries[slot] = new /\ \A s \in Slots : s # slot => w.entries[s] = c.entries[s]
  BY <1>1, <1>2, <1>3 DEF Rings
<1> HIDE DEF w, longer, slot, n, m
<1>8. \A a \in 2 .. m : /\ a - 1 \in 1 .. n /\ a - 1 < cacheSize /\ a - 1 \in 1 .. cacheSize
                         /\ Number(w, a) = Number(c, a - 1)
  <2> SUFFICES ASSUME NEW a \in 2 .. m
               PROVE  /\ a - 1 \in 1 .. n /\ a - 1 < cacheSize /\ a - 1 \in 1 .. cacheSize
                      /\ Number(w, a) = Number(c, a - 1)
    OBVIOUS
  <2>1. a - 1 \in 1 .. n /\ a - 1 < cacheSize /\ a - 1 \in 1 .. cacheSize
    BY <1>1, <1>4
  <2>2. a - 1 \in 1 .. MaxIndex /\ (a - 1) + 1 = a
    BY <1>1, <2>1
  <2> QED
    BY <1>5, <2>1, <2>2
<1>9. \A a \in 2 .. m : /\ SlotOf(w, a) = SlotOf(c, a - 1) /\ SlotOf(w, a) \in Slots \ {slot}
                         /\ ~Assoc!IsStale(c, Number(w, a))
  BY <1>1, <1>8, NumbersAreFresh DEF SlotOf, slot
<1>10. SlotOf(w, 1) = slot
  BY <1>5 DEF SlotOf, slot
<1>11. Filling(w, m)
  <2>1. n < cacheSize => slot = n /\ c.current = n
    BY <1>1, ModSmall DEF RingOK, Filling, slot, n
  <2>2. \A s \in Slots : c.entries[s] # Null <=> s < n
    BY DEF RingOK, Filling, n
  <2>3. \A s \in Slots : w.entries[s] # Null <=> s < m
    <3>1. m \in Nat /\ slot \in Nat /\ slot < cacheSize /\ slot < m
      <4>1. slot \in Nat /\ slot < cacheSize
        BY <1>1, <1>2 DEF Slots
      <4> QED
        BY <1>1, <1>4, <2>1, <4>1
    <3>2. ASSUME NEW s \in Slots, s # slot PROVE s < n <=> s < m
      <4>1. s \in Nat /\ s < cacheSize
        BY <1>1 DEF Slots
      <4> QED
        BY <1>1, <1>4, <2>1, <3>2, <4>1
    <3>3. w.entries[slot] # Null
      BY <1>1, <1>7
    <3> QED
      BY <1>7, <2>2, <3>1, <3>2, <3>3
  <2>4. ASSUME m < cacheSize PROVE w.current = m /\ n < cacheSize /\ m = n + 1
    <3>1. n < cacheSize /\ m = n + 1
      BY <1>1, <1>4, <2>4
    <3>2. c.current = n /\ c.current # MaxIndex
      BY <1>1, <2>1, <3>1
    <3>3. w.current = c.current + 1
      BY <1>5, <3>2
    <3> QED
      BY <3>1, <3>2, <3>3
  <2>5. n < cacheSize => \A p \in Assoc!Places : c.indexes[p] < n \/ c.indexes[p] = MaxIndex - cacheSize - 1
    BY DEF RingOK, Filling, n
  <2>6. \A p \in Assoc!Places : c.indexes[p] \in Int
    BY <1>1 DEF Rings
  <2>7. m < cacheSize => \A p \in Assoc!Places : w.indexes[p] < m \/ w.indexes[p] = MaxIndex - cacheSize - 1
    BY <1>1, <1>3, <2>4, <2>5, <2>6
  <2> QED
    BY <1>1, <1>4, <2>3, <2>4, <2>7 DEF Filling
<1>12. Holds(w, longer)
  <2>1. ASSUME NEW a \in 1 .. m PROVE w.entries[SlotOf(w, a)].key = longer[m + 1 - a]
    <3>1. CASE a = 1
      BY <1>1, <1>4, <1>7, <1>10, <3>1
    <3>2. CASE a # 1
      <4>1. a \in 2 .. m
        BY <1>1, <1>4, <3>2
      <4>2. c.entries[SlotOf(c, a - 1)].key = keys[n + 1 - (a - 1)]
        BY <1>8, <4>1 DEF RingOK, Holds, n
      <4> QED
        BY <1>4, <1>7, <1>9, <4>1, <4>2
    <3> QED
      BY <3>1, <3>2
  <2>2. ASSUME NEW s \in Slots, w.entries[s] # Null PROVE \E a \in 1 .. m : SlotOf(w, a) = s
    <3>1. CASE s = slot
      BY <1>1, <1>4, <1>10, <3>1
    <3>2. CASE s # slot
      <4>1. PICK b \in 1 .. n : SlotOf(c, b) = s
        BY <1>7, <2>2, <3>2 DEF RingOK, Holds, n
      <4>2. b # cacheSize /\ b + 1 \in 2 .. m
        BY <1>1, <1>4, <3>2, <4>1, NumbersAreFresh DEF slot
      <4>3. SlotOf(w, b + 1) = SlotOf(c, (b + 1) - 1)
        BY <1>9, <4>2
      <4> QED
        BY <1>1, <4>1, <4>2, <4>3
    <3> QED
      BY <3>1, <3>2
  <2> QED
    BY <2>1, <2>2 DEF Holds, m
<1>13. AreLatest(w, [values EXCEPT ![k] = v])
  <2> DEFINE after == [values EXCEPT ![k] = v]
  <2>1. after[k] = v /\ \A x \in Keys : x # k => after[x] = values[x]
    BY <1>1 DEF RingOK
  <2> HIDE DEF after
  <2> SUFFICES ASSUME NEW s \in Slots, w.entries[s] # Null
               PROVE  /\ w.entries[s].value = after[w.entries[s].key]
                      /\ w.entries[s].key \in Nodes => w.entries[s].value = w.entries[s].key
    BY DEF AreLatest, after
  <2>2. CASE s = slot
    BY <1>7, <2>1, <2>2 DEF IsAddition
  <2>3. CASE s # slot
    <3>1. w.entries[s] = c.entries[s] /\ c.entries[s].key \in Keys
      BY <1>1, <1>7, <2>3 DEF Rings
    <3>2. /\ c.entries[s].value = values[c.entries[s].key]
          /\ c.entries[s].key \in Nodes => c.entries[s].value = c.entries[s].key
      BY <3>1 DEF RingOK, AreLatest
    <3>3. CASE c.entries[s].key # k
      BY <2>1, <3>1, <3>2, <3>3
    <3>4. CASE c.entries[s].key = k
      BY <2>1, <3>1, <3>2, <3>4 DEF IsAddition
    <3> QED
      BY <3>3, <3>4
  <2> QED
    BY <2>2, <2>3
<1>14. \A a \in 2 .. m : IsIndexed(w, Number(w, a))
  <2> SUFFICES ASSUME NEW a \in 2 .. m PROVE IsIndexed(w, Number(w, a))
    OBVIOUS
  <2>1. IsIndexed(c, Number(c, a - 1))
    BY <1>8 DEF RingOK, Indexed, n
  <2>2. w.entries[SlotOf(w, a)] = c.entries[SlotOf(c, a - 1)] /\ Number(w, a) = Number(c, a - 1)
    BY <1>7, <1>8, <1>9
  <2> QED
    BY <1>3, <2>1, <2>2 DEF IsIndexed, Assoc!EntryOf, SlotOf
<1>15. Assoc!EntryOf(w, c.current).key = k
  BY <1>7 DEF Assoc!EntryOf, slot
<1>16. m < cacheSize => c.current < m
  BY <1>1, <1>4 DEF RingOK, Filling, n
<1>17. w.current # c.current
  BY <1>1, <1>5
<1> QED
  BY <1>3, <1>4, <1>5, <1>6, <1>9, <1>11, <1>12, <1>13, <1>14, <1>15, <1>16, <1>17 DEF w, longer, m, IsWritten

\* An entry of the state root can be seen at the one place of its key.
LEMMA RootIsFound ==
  ASSUME NEW c, NEW keys, NEW values, RingOK(c, keys, values), ~c.exited,
         NEW s \in Slots, c.entries[s] # Null, c.entries[s].key = dbStateRootKey
  PROVE  \A i \in Assoc!Elements : LET raw == c.indexes[Place[dbStateRootKey][i]] IN
           /\ ~Assoc!IsStale(c, raw) /\ Assoc!IsEntryOf(c, raw, dbStateRootKey)
           /\ raw % cacheSize = s
<1>1. PICK a \in 1 .. Len(keys) : SlotOf(c, a) = s
  BY DEF RingOK, Holds
<1>2. IsIndexed(c, Number(c, a))
  BY DEF RingOK, Indexed
<1>3. \A i \in Assoc!Elements : c.indexes[Place[dbStateRootKey][i]] = Number(c, a)
  BY <1>1, <1>2, PlaceAssumption DEF IsIndexed, Assoc!EntryOf, SlotOf
<1>4. a \in 1 .. cacheSize /\ c.current \in 0 .. MaxIndex
  <2>1. Len(keys) \in Nat /\ Len(keys) <= cacheSize /\ cacheSize \in Nat
    BY CachesAssumption DEF RingOK, Filling
  <2> QED
    BY <2>1 DEF RingOK, Rings
<1>5. ~Assoc!IsStale(c, Number(c, a))
  BY <1>4, NumbersAreFresh
<1> QED
  BY <1>1, <1>3, <1>5 DEF Assoc!IsEntryOf, Assoc!EntryOf, SlotOf

\* A call of addKeyValue() that goes on to the next entry, or changes the one
\* there is, and what is then kept of the keys and values.
LEMMA AdditionKeeps ==
  ASSUME NEW c, NEW keys, NEW values, RingOK(c, keys, values), ~c.exited,
         NEW k, NEW v, IsAddition(k, v)
  PROVE  LET d == Assoc!AddKeyValue(c, k, v, k = dbStateRootKey) IN
         RingOK(d, IF d.current = c.current THEN keys ELSE Extended(keys, k),
                [values EXCEPT ![k] = v])
<1> DEFINE raw(i) == c.indexes[Place[k][i]]
           decisive == {i \in Assoc!Elements : \/ Assoc!IsStale(c, raw(i))
                                               \/ Assoc!IsEntryOf(c, raw(i), k)}
           first == Assoc!First(decisive)
           w == Assoc!Written(c, k, v)
           d == Assoc!AddKeyValue(c, k, v, k = dbStateRootKey)
           longer == Extended(keys, k)
           m == Len(longer)
           after == [values EXCEPT ![k] = v]
<1>1. d = IF decisive = {} THEN Assoc!ForcedInsertion(w, c.current)
          ELSE IF Assoc!IsStale(c, raw(first))
          THEN [w EXCEPT !.indexes[Place[k][first]] = c.current]
          ELSE IF k = dbStateRootKey THEN [c EXCEPT !.entries[raw(first) % cacheSize].value = v]
          ELSE c
  BY DEF Assoc!AddKeyValue
<1>2. /\ k \in Keys /\ v \in Values /\ (k # dbStateRootKey <=> k \in Nodes)
      /\ after \in [Keys -> Values \cup {Null}] /\ c \in Rings
  BY CachesAssumption DEF IsAddition, RingOK, Keys
<1>3. decisive # {} => first \in decisive
  BY FirstIsOne
<1>4. \A i \in Assoc!Elements : Place[k][i] \in Assoc!Places /\ raw(i) \in 0 .. MaxIndex
  BY <1>2 DEF Assoc!Places, Rings
<1> HIDE DEF d, w, after, longer, m, first, decisive
<1>5. CASE decisive # {} /\ ~Assoc!IsStale(c, raw(first)) /\ k # dbStateRootKey
  <2>1. d = c
    BY <1>1, <1>5
  <2>2. AreLatest(c, after)
    <3>1. \A x \in Keys : after[x] = IF x = k THEN k ELSE values[x]
      BY <1>2, <1>5 DEF after, RingOK, IsAddition
    <3>2. \A s \in Slots : c.entries[s] # Null => c.entries[s].key \in Keys
      BY <1>2 DEF Rings
    <3> QED
      BY <1>2, <1>5, <3>1, <3>2 DEF RingOK, AreLatest
  <2> QED
    BY <1>2, <2>1, <2>2 DEF RingOK, d, after
<1>6. CASE decisive # {} /\ ~Assoc!IsStale(c, raw(first)) /\ k = dbStateRootKey
  <2> DEFINE slot == raw(first) % cacheSize
             old == c.entries[slot]
             new == [old EXCEPT !.value = v]
  <2>1. d = [c EXCEPT !.entries[slot].value = v] /\ first \in Assoc!Elements
    BY <1>1, <1>3, <1>6 DEF decisive
  <2>2. slot \in Slots
    <3> DEFINE r == raw(first)
    <3>1. r \in 0 .. MaxIndex /\ cacheSize \in Nat \ {0}
      BY <1>4, <2>1, CachesAssumption
    <3> HIDE DEF r
    <3>2. r \in Int /\ r % cacheSize \in 0 .. cacheSize - 1
      BY <3>1, DivMod
    <3> QED
      BY <3>2 DEF Slots, r
  <2>3. old # Null /\ old.key = k
    BY <1>3, <1>6 DEF decisive, Assoc!IsEntryOf, Assoc!EntryOf
  <2> HIDE DEF slot
  <2>4. old \in [key : Keys, value : Values]
    BY <1>2, <2>2, <2>3 DEF Rings
  <2>5. new \in [key : Keys, value : Values] /\ new.key = k /\ new.value = v /\ new # Null
    BY <1>2, <2>3, <2>4, CachesAssumption DEF Values
  <2> HIDE DEF old, new
  <2>6. /\ d.entries = [c.entries EXCEPT ![slot] = new]
        /\ d.indexes = c.indexes /\ d.current = c.current /\ d.exited = c.exited
    BY <1>2, <2>1 DEF Rings, old, new
  <2>7. /\ d.entries[slot] = new /\ \A s \in Slots : s # slot => d.entries[s] = c.entries[s]
        /\ d.entries \in [Slots -> [key : Keys, value : Values] \cup {Null}]
    BY <1>2, <2>2, <2>5, <2>6 DEF Rings
  <2>8. d \in Rings
    <3>1. DOMAIN d = DOMAIN c /\ d = [c EXCEPT !.entries = d.entries]
      BY <1>2, <2>1 DEF Rings
    <3> QED
      BY <1>2, <2>7, <3>1 DEF Rings
  <2>9. \A s \in Slots : (d.entries[s] # Null <=> c.entries[s] # Null) /\ d.entries[s].key = c.entries[s].key
    BY <2>3, <2>5, <2>7 DEF old
  <2>10. Filling(d, Len(keys)) /\ Holds(d, keys)
    <3>1. \A a \in 1 .. Len(keys) : SlotOf(d, a) = SlotOf(c, a) /\ SlotOf(c, a) \in Slots
      <4>1. Len(keys) \in Nat /\ Len(keys) <= cacheSize /\ cacheSize \in Nat /\ c.current \in 0 .. MaxIndex
        BY <1>2, CachesAssumption DEF RingOK, Filling, Rings
      <4> QED
        BY <2>6, <4>1, NumbersAreFresh DEF SlotOf, Number
    <3> QED
      BY <2>6, <2>9, <3>1 DEF RingOK, Filling, Holds
  <2>11. Indexed(d, Len(keys))
    <3> SUFFICES ASSUME NEW a \in 1 .. Len(keys) PROVE IsIndexed(d, Number(d, a))
      BY DEF Indexed
    <3>1. IsIndexed(c, Number(c, a)) /\ Number(d, a) = Number(c, a)
      BY <2>6 DEF RingOK, Indexed, Number
    <3>2. SlotOf(c, a) \in Slots
      <4>1. a \in 1 .. cacheSize /\ c.current \in 0 .. MaxIndex
        BY <1>2, CachesAssumption DEF RingOK, Filling, Rings
      <4> QED
        BY <4>1, NumbersAreFresh
    <3> QED
      BY <2>6, <2>9, <3>1, <3>2 DEF IsIndexed, Assoc!EntryOf, SlotOf
  <2>12. AreLatest(d, after)
    <3>1. after[k] = v /\ \A x \in Keys : x # k => after[x] = values[x]
      BY <1>2 DEF RingOK, after
    <3> SUFFICES ASSUME NEW s \in Slots, d.entries[s] # Null
                 PROVE  /\ d.entries[s].value = after[d.entries[s].key]
                        /\ d.entries[s].key \in Nodes => d.entries[s].value = d.entries[s].key
      BY DEF AreLatest
    <3>2. CASE s = slot
      BY <1>2, <1>6, <2>5, <2>7, <3>1, <3>2
    <3>3. CASE s # slot
      <4>1. c.entries[s].key # k
        BY <1>6, <2>1, <2>9, <3>3, RootIsFound DEF slot
      <4>2. c.entries[s].key \in Keys /\ d.entries[s] = c.entries[s]
        BY <1>2, <2>7, <2>9, <3>3 DEF Rings
      <4> QED
        BY <3>1, <4>1, <4>2 DEF RingOK, AreLatest
    <3> QED
      BY <3>2, <3>3
  <2> QED
    BY <1>2, <2>6, <2>8, <2>10, <2>11, <2>12 DEF RingOK, d, after
<1>7. CASE decisive = {} \/ Assoc!IsStale(c, raw(first))
  <2>1. k \in Nodes \/ \A s \in Slots : c.entries[s] # Null => c.entries[s].key # k
    <3> SUFFICES ASSUME k \notin Nodes, NEW s \in Slots, c.entries[s] # Null, c.entries[s].key = k
                 PROVE  FALSE
      OBVIOUS
    <3>1. \A i \in Assoc!Elements : ~Assoc!IsStale(c, raw(i)) /\ Assoc!IsEntryOf(c, raw(i), k)
      BY <1>2, RootIsFound
    <3>2. 1 \in decisive
      BY <3>1 DEF decisive, Assoc!Elements
    <3> QED
      BY <1>3, <1>7, <3>1, <3>2 DEF decisive
  <2>2. /\ w \in Rings /\ w.indexes = c.indexes /\ ~w.exited
        /\ w.current # c.current /\ Number(w, 1) = c.current
        /\ Assoc!EntryOf(w, c.current).key = k
        /\ longer \in Seq(Keys) /\ Filling(w, m) /\ Holds(w, longer) /\ AreLatest(w, after)
        /\ \A a \in 2 .. m : IsIndexed(w, Number(w, a)) /\ ~Assoc!IsStale(c, Number(w, a))
        /\ m < cacheSize => c.current < m
    <3>1. IsWritten(c, w, k, longer, after)
      BY <2>1, WrittenKeeps DEF w, longer, after
    <3> QED
      BY <3>1 DEF IsWritten, m
  <2>3. \A a \in 1 .. m : IsIndexed(w, Number(w, a)) \/ c.current = Number(w, a)
    <3>1. \A a \in 1 .. m : a = 1 \/ a \in 2 .. m
      OBVIOUS
    <3> QED
      BY <2>2, <3>1
  <2>4. CASE decisive = {}
    <3>1. d = Assoc!ForcedInsertion(w, c.current) /\ c.current \in 0 .. MaxIndex
      BY <1>1, <1>2, <2>4 DEF Rings
    <3>2. /\ d \in Rings /\ d.entries = w.entries /\ d.current = w.current
          /\ Filling(d, m) /\ (d.exited \/ Indexed(d, m))
      BY <2>2, <2>3, <3>1, InsertionKeeps
    <3>3. Holds(d, longer)
      BY <2>2, <3>2 DEF Holds, SlotOf, Number
    <3>4. AreLatest(d, after)
      BY <2>2, <3>2 DEF AreLatest
    <3> QED
      BY <1>2, <2>2, <3>2, <3>3, <3>4 DEF RingOK, m, longer, d, after
  <2>5. CASE decisive # {}
    <3> DEFINE p == Place[k][first]
    <3>1. /\ d = [w EXCEPT !.indexes[p] = c.current] /\ Assoc!IsStale(c, c.indexes[p])
          /\ first \in Assoc!Elements /\ p \in Assoc!Places /\ c.current \in 0 .. MaxIndex
      BY <1>1, <1>2, <1>3, <1>4, <1>7, <2>5 DEF decisive, Rings
    <3> HIDE DEF p
    <3>2. /\ d.entries = w.entries /\ d.current = w.current /\ d.exited = w.exited
          /\ d.indexes = [w.indexes EXCEPT ![p] = c.current] /\ d \in Rings
      BY <2>2, <3>1 DEF Rings
    <3>3. d.indexes[p] = c.current /\ \A q \in Assoc!Places : q # p => d.indexes[q] = w.indexes[q]
      BY <2>2, <3>1, <3>2 DEF Rings
    <3>4. Filling(d, m)
      BY <2>2, <3>2, <3>3 DEF Filling
    <3>5. Holds(d, longer)
      BY <2>2, <3>2 DEF Holds, SlotOf, Number
    <3>6. AreLatest(d, after)
      BY <2>2, <3>2 DEF AreLatest
    <3>7. ASSUME NEW a \in 1 .. m PROVE IsIndexed(d, Number(d, a))
      <4>1. Number(d, a) = Number(w, a)
        BY <3>2 DEF Number
      <4>2. CASE a = 1
        <5>1. Number(d, a) = c.current /\ Assoc!EntryOf(d, c.current).key = k
          BY <2>2, <3>2, <4>1, <4>2 DEF Assoc!EntryOf
        <5>2. d.indexes[Place[k][first]] = c.current
          BY <3>3 DEF p
        <5> QED
          BY <3>1, <5>1, <5>2 DEF IsIndexed
      <4>3. CASE a # 1
        <5>1. a \in 2 .. m
          BY <4>3
        <5>2. PICK i \in Assoc!Elements :
                w.indexes[Place[Assoc!EntryOf(w, Number(w, a)).key][i]] = Number(w, a)
          BY <2>2, <5>1 DEF IsIndexed
        <5> DEFINE q == Place[Assoc!EntryOf(w, Number(w, a)).key][i]
        <5>3. d.indexes[q] = Number(w, a)
          <6>1. q # p
            BY <2>2, <3>1, <5>1, <5>2
          <6> QED
            BY <3>2, <5>2, <6>1
        <5> QED
          BY <3>2, <4>1, <5>3 DEF IsIndexed, Assoc!EntryOf
      <4> QED
        BY <4>2, <4>3
    <3> QED
      BY <1>2, <2>2, <3>2, <3>4, <3>5, <3>6, <3>7 DEF RingOK, Indexed, m, longer, d, after
  <2> QED
    BY <2>4, <2>5
<1> QED
  BY <1>5, <1>6, <1>7


-----------------------------------------------------------------------------
(* The steps of the machine. *)

LEMMA InitRing == Init => RingInv
<1> SUFFICES ASSUME Init PROVE RingInv
  OBVIOUS
<1> DEFINE c == Assoc!EmptyCache
<1>1. dbMTACache = c /\ added = <<>> /\ useAssociativeCache \in BOOLEAN
  BY DEF Init
<1>2. latest \in [Keys -> Values \cup {Null}]
  BY DEF Init
<1>3. cacheSize \in Nat \ {0} /\ MaxIndex \in Nat /\ MaxIndex > 2 * cacheSize
  BY CachesAssumption
<1>4. c \in Rings /\ c.current = 0 /\ \A s \in Slots : c.entries[s] = Null
  BY <1>3 DEF Assoc!EmptyCache, Rings, Slots
<1>5. \A p \in Assoc!Places : c.indexes[p] = MaxIndex - cacheSize - 1
  BY DEF Assoc!EmptyCache
<1> HIDE DEF c
<1>6. Len(<<>>) = 0 /\ <<>> \in Seq(Keys)
  OBVIOUS
<1>7. Filling(c, 0)
  <2>1. \A s \in Slots : ~(s < 0)
    BY <1>3 DEF Slots
  <2> QED
    BY <1>3, <1>4, <1>5, <2>1 DEF Filling
<1>8. Holds(c, <<>>) /\ AreLatest(c, latest) /\ Indexed(c, 0)
  BY <1>4, <1>6 DEF Holds, AreLatest, Indexed
<1> QED
  BY <1>1, <1>2, <1>4, <1>6, <1>7, <1>8 DEF RingInv, RingOK

LEMMA AddsToRingStep ==
  ASSUME RingInv, NEW k, NEW v, IsAddition(k, v), AddsToRing(k, v)
  PROVE  RingInv'
<1> DEFINE d == Assoc!AddKeyValue(dbMTACache, k, v, k = dbStateRootKey)
           longer == IF d.current = dbMTACache.current THEN added ELSE Extended(added, k)
           after == [latest EXCEPT ![k] = v]
<1>1. RingOK(dbMTACache, added, latest) /\ ~dbMTACache.exited
  BY DEF RingInv, AddsToRing
<1>2. RingOK(d, longer, after)
  BY <1>1, AdditionKeeps
<1>3. /\ dbMTACache' = d /\ added' = longer /\ latest' = after
      /\ useAssociativeCache /\ useAssociativeCache' = useAssociativeCache
  BY DEF AddsToRing
<1> HIDE DEF d, longer, after
<1> QED
  BY <1>2, <1>3 DEF RingInv

\* Nothing is in the ring that is not used.
LEMMA AddsToListKeepsRing ==
  ASSUME RingInv, NEW k, NEW v, IsAddition(k, v), AddsToList(k, v)
  PROVE  RingInv'
<1>1. /\ RingOK(dbMTACache, added, latest) /\ added = <<>> /\ k \in Keys /\ v \in Values
      /\ dbMTACache' = dbMTACache /\ added' = added /\ latest' = [latest EXCEPT ![k] = v]
      /\ useAssociativeCache' = useAssociativeCache /\ useAssociativeCache \in BOOLEAN
  BY DEF RingInv, AddsToList, IsAddition
<1>2. latest' \in [Keys -> Values \cup {Null}]
  BY <1>1 DEF RingOK
<1>3. \A s \in Slots : dbMTACache.entries[s] = Null
  <2>1. Filling(dbMTACache, 0)
    BY <1>1 DEF RingOK
  <2>2. \A s \in Slots : ~(s < 0)
    BY CachesAssumption DEF Slots
  <2> QED
    BY <2>1, <2>2 DEF Filling
<1>4. AreLatest(dbMTACache, latest')
  BY <1>3 DEF AreLatest
<1>5. RingOK(dbMTACache, added, latest')
  BY <1>1, <1>2, <1>4 DEF RingOK
<1> QED
  BY <1>1, <1>5 DEF RingInv

LEMMA NextRing ==
  ASSUME RingInv, [Next]_vars
  PROVE  RingInv'
<1>1. CASE \E k, v : IsAddition(k, v) /\ (AddsToList(k, v) \/ AddsToRing(k, v))
  BY <1>1, AddsToRingStep, AddsToListKeepsRing
<1>2. ASSUME UNCHANGED <<useAssociativeCache, dbMTACache, latest, added>> PROVE RingInv'
  BY <1>2 DEF RingInv
<1>3. \A k : FindsInList(k) => UNCHANGED <<useAssociativeCache, dbMTACache, latest, added>>
  BY DEF FindsInList
<1>4. ClearsCache \/ UNCHANGED vars => UNCHANGED <<useAssociativeCache, dbMTACache, latest, added>>
  BY DEF ClearsCache, vars
<1> QED
  BY <1>1, <1>2, <1>3, <1>4, Additions

-----------------------------------------------------------------------------
(* Theorems. *)

\* Each of the last cacheSize entries of the ring has its number in a place of
\* its key, across every wrap of the counter, until the process ends.
THEOREM RingAlwaysIndexed == Spec => []RingInv
<1>1. Init => RingInv
  BY InitRing
<1>2. RingInv /\ [Next]_vars => RingInv'
  BY NextRing
<1> QED
  BY <1>1, <1>2, PTL DEF Spec

LEMMA RingFinds ==
  ASSUME RingInv
  PROVE  RecentEntriesAreFound
<1> DEFINE c == dbMTACache
           N == Len(added)
<1>1. /\ RingOK(c, added, latest) /\ added \in Seq(Keys) /\ N \in Nat /\ DOMAIN added = 1 .. N
      /\ cacheSize \in Nat \ {0} /\ N <= cacheSize /\ c.current \in 0 .. MaxIndex
      /\ MaxIndex \in Nat /\ MaxIndex > 2 * cacheSize
  BY CachesAssumption DEF RingInv, RingOK, Filling, Rings
<1> SUFFICES ASSUME ~c.exited, NEW i \in 1 .. N PROVE Assoc!Finds(c, added[i]) # {}
  BY <1>1 DEF RecentEntriesAreFound
<1> HIDE DEF c, N
<1> DEFINE a == N + 1 - i
<1>2. a \in 1 .. N /\ N + 1 - a = i /\ a \in 1 .. cacheSize
  BY <1>1
<1> HIDE DEF a
<1> DEFINE r == Number(c, a)
           s == SlotOf(c, a)
<1>3. ~Assoc!IsStale(c, r) /\ s \in Slots /\ r \in 0 .. MaxIndex
  BY <1>1, <1>2, NumbersAreFresh
<1>4. c.entries[s] # Null
  <2>1. Filling(c, N)
    BY <1>1 DEF RingOK, N
  <2>2. ASSUME N < cacheSize PROVE s < N
    <3>1. c.current = N /\ r = N - a
      BY <1>1, <1>2, <2>1, <2>2 DEF Filling, Number
    <3>2. r \in 0 .. cacheSize - 1 /\ r < N
      BY <1>1, <1>2, <2>2, <3>1
    <3>3. s = r
      BY <1>1, <3>2, ModSmall DEF SlotOf
    <3> QED
      BY <3>2, <3>3
  <2>3. s < cacheSize
    BY <1>1, <1>3 DEF Slots
  <2>4. s < N
    BY <1>1, <2>2, <2>3
  <2> QED
    BY <1>3, <2>1, <2>4 DEF Filling
<1>5. c.entries[s].key = added[i]
  BY <1>1, <1>2 DEF RingOK, Holds, N
<1>6. Assoc!EntryOf(c, r) = c.entries[s]
  BY DEF Assoc!EntryOf, SlotOf
<1>7. PICK j \in Assoc!Elements : c.indexes[Place[added[i]][j]] = r
  <2>1. IsIndexed(c, r)
    BY <1>1, <1>2 DEF RingOK, Indexed, N
  <2> QED
    BY <1>5, <1>6, <2>1 DEF IsIndexed
<1> HIDE DEF r, s
<1>8. j \in Assoc!Finds(c, added[i])
  BY <1>3, <1>4, <1>5, <1>6, <1>7 DEF Assoc!Finds, Assoc!IsEntryOf
<1> QED
  BY <1>8

\* forcedInsertion() moves numbers from place to place, and none is lost: an
\* entry is found until the ring overwrites it, or the process has ended.
THEOREM RingLosesNoEntry == Spec => []RecentEntriesAreFound
<1>1. RingInv => RecentEntriesAreFound
  BY RingFinds
<1> QED
  BY <1>1, RingAlwaysIndexed, PTL

LEMMA RingHits ==
  ASSUME RingInv, NEW k \in Keys, Assoc!Finds(dbMTACache, k) # {}
  PROVE  Assoc!Found(dbMTACache, k) = latest[k]
<1> DEFINE c == dbMTACache
           j == Assoc!First(Assoc!Finds(c, k))
           r == c.indexes[Place[k][j]]
           s == r % cacheSize
<1>1. RingOK(c, added, latest)
  BY DEF RingInv
<1>2. j \in Assoc!Finds(c, k)
  <2>1. Assoc!Finds(c, k) \subseteq Assoc!Elements
    BY DEF Assoc!Finds
  <2> QED
    BY <2>1, FirstIsOne
<1> HIDE DEF c, j
<1>3. j \in Assoc!Elements /\ Assoc!EntryOf(c, r) # Null /\ Assoc!EntryOf(c, r).key = k
  BY <1>2 DEF Assoc!Finds, Assoc!IsEntryOf
<1>4. r \in 0 .. MaxIndex
  BY <1>1, <1>3 DEF RingOK, Rings, Assoc!Places
<1>5. s \in Slots
  <2>1. r \in Int /\ cacheSize \in Nat \ {0}
    BY <1>4, CachesAssumption
  <2> HIDE DEF r
  <2> QED
    BY <2>1, DivMod DEF Slots
<1>6. Assoc!EntryOf(c, r) = c.entries[s]
  BY DEF Assoc!EntryOf
<1> HIDE DEF r, s
<1>7. c.entries[s].value = latest[k]
  BY <1>1, <1>3, <1>5, <1>6 DEF RingOK, AreLatest
<1> QED
  BY <1>6, <1>7 DEF Assoc!Found, c, j, r

\* What either cache answers for a key is the value last added for it, for any
\* keys, places, sizes and width of the ring's counter.
THEOREM CachesAnswerLatest == Spec => []HitsAreLatest
<1>1. ListInv /\ RingInv => HitsAreLatest
  BY RingHits DEF ListInv, HasLatest, HitsAreLatest
<1> QED
  BY <1>1, ListAlwaysOrdered, RingAlwaysIndexed, PTL
=============================================================================
