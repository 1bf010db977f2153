-------------------------- MODULE AssociativeCache --------------------------
(***************************************************************************)
(* Class DatabaseMTAssociativeCache of                                     *)
(* src/src/hashdb/database_associative_cache.cpp as operators on the       *)
(* fields of an object.  Entries are written to a ring, one after the      *)
(* other; each of the four elements of a key names a place of the table of *)
(* indexes, and one of them holds the number of the key's entry.  A number *)
(* is stale when the ring has gone past its entry.                         *)
(*                                                                         *)
(* Numbers are unsigned: MaxIndex stands for UINT32_MAX.                   *)
(***************************************************************************)
EXTENDS Integers, FiniteSets

CONSTANTS Keys,
          Place,        \* key |-> four places of the table, key[i] & indexesMask
          cacheSize,    \* entries in the ring, a power of two
          MaxIndex,     \* UINT32_MAX, far above cacheSize
          NoEntry       \* what a ring slot holds before it is written

Elements == 1 .. 4
Places == {Place[k][i] : k \in Keys, i \in Elements}

EmptyCache ==
  [indexes |-> [p \in Places |-> MaxIndex - cacheSize - 1],
   entries |-> [i \in 0 .. cacheSize - 1 |-> NoEntry],
   current |-> 0,
   exited  |-> FALSE]     \* exitProcess() was called

IsStale(c, raw) ==
  IF c.current >= raw THEN c.current - raw > cacheSize
  ELSE MaxIndex - raw + c.current > cacheSize

EntryOf(c, raw) == c.entries[raw % cacheSize]

IsEntryOf(c, raw, k) == EntryOf(c, raw) # NoEntry /\ EntryOf(c, raw).key = k

\* The first of some elements of a key.
First(elements) == CHOOSE i \in elements : \A j \in elements : i <= j

\* The next entry of the ring is written.
Written(c, k, v) ==
  [c EXCEPT !.entries[c.current % cacheSize] = [key |-> k, value |-> v],
            !.current = (c.current + 1) % (MaxIndex + 1)]

-----------------------------------------------------------------------------
(* forcedInsertion() as a fold over its at most nine levels: number d.raw  *)
(* is to be put into the table, d.used are those that were put.            *)

Put(d, p) == [d EXCEPT !.c.indexes[p] = d.raw]

\* The oldest number among the four places that is not one of d.used.  The
\* search starts at UINT32_MAX and does not take that number itself.
Oldest(d, raws) ==
  CHOOSE r \in raws \ d.used : \A s \in raws \ d.used : r <= s

\* A plausible slip: the number that gives way is not put back.
PutInDropping(d) ==
  LET place == Place[EntryOf(d.c, d.raw).key]
      InTheWay(i) == d.c.indexes[place[i]]
      raws == {InTheWay(i) : i \in Elements} \ {MaxIndex}
      stale == {i \in Elements : IsStale(d.c, InTheWay(i))}
      gives == {i \in Elements : InTheWay(i) = Oldest(d, raws)}
  IN  IF d.done THEN d
      ELSE IF stale # {} THEN [Put(d, place[First(stale)]) EXCEPT !.done = TRUE]
      ELSE IF raws \subseteq d.used THEN [d EXCEPT !.done = TRUE, !.c.exited = TRUE]
      ELSE [Put(d, place[First(gives)]) EXCEPT !.done = TRUE]

PutIn(d) ==
  LET place == Place[EntryOf(d.c, d.raw).key]
      InTheWay(i) == d.c.indexes[place[i]]
      raws == {InTheWay(i) : i \in Elements} \ {MaxIndex}
      stale == {i \in Elements : IsStale(d.c, InTheWay(i))}
      gives == {i \in Elements : InTheWay(i) = Oldest(d, raws)}
  IN  IF d.done THEN d
      ELSE IF stale # {} THEN [Put(d, place[First(stale)]) EXCEPT !.done = TRUE]
      ELSE IF raws \subseteq d.used THEN [d EXCEPT !.done = TRUE, !.c.exited = TRUE]
      ELSE [Put(d, place[First(gives)]) EXCEPT
              !.raw = Oldest(d, raws), !.used = d.used \cup {Oldest(d, raws)}]

\* A tenth level ends the process.
ForcedInsertion(c, raw) ==
  LET level[n \in 0 .. 9] ==
        IF n = 0 THEN [c |-> c, raw |-> raw, used |-> {raw}, done |-> FALSE]
        ELSE PutIn(level[n - 1])
  IN  IF level[9].done THEN level[9].c ELSE [level[9].c EXCEPT !.exited = TRUE]

-----------------------------------------------------------------------------
\* addKeyValue(): the first place that is stale takes the new entry; before
\* one is found, the key's own entry is updated, or left, and that is all.
AddKeyValue(c, k, v, update) ==
  LET raw(i) == c.indexes[Place[k][i]]
      decisive == {i \in Elements : IsStale(c, raw(i)) \/ IsEntryOf(c, raw(i), k)}
      first == First(decisive)
  IN  IF decisive = {}
      THEN ForcedInsertion(Written(c, k, v), c.current)
      ELSE IF IsStale(c, raw(first))
      THEN [Written(c, k, v) EXCEPT !.indexes[Place[k][first]] = c.current]
      ELSE IF update THEN [c EXCEPT !.entries[raw(first) % cacheSize].value = v]
      ELSE c

\* findKey(): the elements whose place leads to an entry of the key.
Finds(c, k) ==
  {i \in Elements : LET raw == c.indexes[Place[k][i]]
                    IN  ~IsStale(c, raw) /\ IsEntryOf(c, raw, k)}

Found(c, k) == EntryOf(c, c.indexes[Place[k][First(Finds(c, k))]]).value
=============================================================================
