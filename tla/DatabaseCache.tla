---------------------------- MODULE DatabaseCache ----------------------------
(***************************************************************************)
(* Class DatabaseCache of src/src/hashdb/database_cache.cpp as operators   *)
(* on the fields of an object: a doubly linked list of records, from the   *)
(* most recently used (head) to the least (last), and a hash map of the    *)
(* keys that have a record.                                                *)
(*                                                                         *)
(* A key has at most one record, so a record is named by its key.  Every   *)
(* operator is one call under the cache's recursive mutex.                 *)
(***************************************************************************)
EXTENDS Integers, Sequences, FiniteSets

CONSTANTS Keys,      \* keys of the table the cache stands in front of
          Size,      \* record->size, by key
          MaxSize,   \* maxSize
          Null       \* no record

EmptyCache ==
  [cacheMap |-> {}, head |-> Null, last |-> Null, currentSize |-> 0,
   prev |-> [k \in Keys |-> Null], next |-> [k \in Keys |-> Null],
   value |-> [k \in Keys |-> Null]]

\* A plausible slip: the last pointer is not moved off the promoted record.
PromotedKeepingLast(c, k) ==
  IF c.head = k THEN c
  ELSE LET cut == [c EXCEPT !.next[c.prev[k]] = c.next[k],
                            !.prev = IF c.last = k THEN c.prev
                                     ELSE [c.prev EXCEPT ![c.next[k]] = c.prev[k]]]
       IN  [cut EXCEPT !.prev[c.head] = k, !.prev[k] = Null,
                       !.next[k] = c.head, !.head = k]

\* findKey() of a key that is present: its record is moved to the head.
Promoted(c, k) ==
  IF c.head = k THEN c
  ELSE LET before == c.prev[k]
           after  == c.next[k]
           \* record->prev->next, then last or record->next->prev
           cut == [c EXCEPT !.next[before] = after,
                            !.last = IF c.last = k THEN before ELSE c.last,
                            !.prev = IF c.last = k THEN c.prev
                                     ELSE [c.prev EXCEPT ![after] = before]]
       IN  [cut EXCEPT !.prev[c.head] = k, !.prev[k] = Null,
                       !.next[k] = c.head, !.head = k]

\* One turn of the loop of addKeyValue() that frees the last record.
WithoutLast(c) ==
  LET k == c.last IN
  [c EXCEPT !.next[c.prev[k]] = Null, !.last = c.prev[k],
            !.cacheMap = c.cacheMap \ {k}, !.currentSize = c.currentSize - Size[k],
            !.prev[k] = Null, !.value[k] = Null]

\* The loop: while the cache is too big and last->prev is not NULL.
Shrunk(c) ==
  LET TooBig(d) == d.currentSize > MaxSize /\ d.prev[d.last] # Null
      turn[n \in 0 .. Cardinality(c.cacheMap)] ==
        IF n = 0 THEN c
        ELSE IF TooBig(turn[n - 1]) THEN WithoutLast(turn[n - 1]) ELSE turn[n - 1]
  IN  turn[Cardinality(c.cacheMap)]

\* A new record at the head of the list.
WithHead(c, k, v) ==
  [c EXCEPT !.prev = IF c.head = Null THEN [c.prev EXCEPT ![k] = Null]
                     ELSE [c.prev EXCEPT ![k] = Null, ![c.head] = k],
            !.next[k] = c.head, !.value[k] = v,
            !.last = IF c.head = Null THEN k ELSE c.last,
            !.head = k,
            !.cacheMap = c.cacheMap \cup {k},
            !.currentSize = c.currentSize + Size[k]]

FindKey(c, k) == IF k \in c.cacheMap THEN Promoted(c, k) ELSE c

\* A plausible slip: a record that is there is left as it is.
NotUpdated(c, k, v, update) == c

\* updateRecord(), where the caller asks for it.
Updated(c, k, v, update) == IF update THEN [c EXCEPT !.value[k] = v] ELSE c

AddKeyValue(c, k, v, update) ==
  IF k \in c.cacheMap THEN Updated(FindKey(c, k), k, v, update)
  ELSE Shrunk(WithHead(c, k, v))

\* What the pointers mean: the keys met from head along next, as many as the
\* map has, and one more where the list does not end there.
RecentKeys(c) ==
  LET many == Cardinality(c.cacheMap)
      node[n \in 1 .. many + 1] ==
        IF n = 1 THEN c.head
        ELSE IF node[n - 1] = Null THEN Null ELSE c.next[node[n - 1]]
  IN  IF node[many + 1] = Null THEN [n \in 1 .. many |-> node[n]] ELSE node
=============================================================================
