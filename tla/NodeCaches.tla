----------------------------- MODULE NodeCaches -----------------------------
(***************************************************************************)
(* The cache of tree nodes of class Database: dbMTCache, a linked list, or *)
(* dbMTACache, a ring with a table of indexes, as useAssociativeCache      *)
(* says.  Database adds nodes (write(), read(), the rows of a tree), whose *)
(* keys are the hashes of their values, and the state root, whose key is a *)
(* constant and whose value changes with every updateStateRoot().          *)
(* clearCache() knows of the linked list only.                             *)
(***************************************************************************)
EXTENDS Integers, Sequences, FiniteSets

CONSTANTS Nodes, dbStateRootKey,
          Roots,                   \* values of the state root
          Size, MaxSize,           \* of the linked list
          Place, cacheSize, MaxIndex,
          Null

Keys == Nodes \cup {dbStateRootKey}

ASSUME CachesAssumption ==
  /\ dbStateRootKey \notin Nodes /\ Null \notin Keys \cup Roots
  /\ Null \notin [key : Keys, value : Keys \cup Roots]
  /\ Size \in [Keys -> Nat \ {0}] /\ MaxSize \in Nat \ {0}
  /\ cacheSize \in Nat \ {0} /\ MaxIndex \in Nat
  /\ (MaxIndex + 1) % cacheSize = 0 /\ MaxIndex > 2 * cacheSize

List  == INSTANCE DatabaseCache
Assoc == INSTANCE AssociativeCache WITH NoEntry <- Null

\* The four elements of dbStateRootvKey are equal.
ASSUME PlaceAssumption ==
  \A i, j \in Assoc!Elements : Place[dbStateRootKey][i] = Place[dbStateRootKey][j]

VARIABLES useAssociativeCache,
          dbMTCache,
          dbMTACache,
          latest,        \* value last added for each key, Null before the first
          added          \* keys of the ring's last cacheSize entries, oldest first

vars == <<useAssociativeCache, dbMTCache, dbMTACache, latest, added>>

-----------------------------------------------------------------------------
Init ==
  /\ useAssociativeCache \in BOOLEAN
  /\ dbMTCache = List!EmptyCache /\ dbMTACache = Assoc!EmptyCache
  /\ latest = [k \in Keys |-> Null]
  /\ added = <<>>

\* Only the state root has a second value, and is added with update = true.
AddsToList(k, v) ==
  /\ ~useAssociativeCache
  /\ dbMTCache' = List!AddKeyValue(dbMTCache, k, v, k = dbStateRootKey)
  /\ latest' = [latest EXCEPT ![k] = v]
  /\ UNCHANGED <<useAssociativeCache, dbMTACache, added>>

\* What the ring has written last, when it has gone on.
Extended(s, k) == IF Len(s) < cacheSize THEN Append(s, k) ELSE Append(Tail(s), k)

AddsToRing(k, v) ==
  /\ useAssociativeCache /\ ~dbMTACache.exited
  /\ dbMTACache' = Assoc!AddKeyValue(dbMTACache, k, v, k = dbStateRootKey)
  /\ latest' = [latest EXCEPT ![k] = v]
  /\ added' = IF dbMTACache'.current = dbMTACache.current THEN added ELSE Extended(added, k)
  /\ UNCHANGED <<useAssociativeCache, dbMTCache>>

\* findKey() of the list; that of the ring changes nothing.
FindsInList(k) ==
  /\ ~useAssociativeCache
  /\ dbMTCache' = List!FindKey(dbMTCache, k)
  /\ UNCHANGED <<useAssociativeCache, dbMTACache, latest, added>>

ClearsCache ==
  /\ ~useAssociativeCache
  /\ dbMTCache' = List!EmptyCache
  /\ UNCHANGED <<useAssociativeCache, dbMTACache, latest, added>>

Adds(k, v) == AddsToList(k, v) \/ AddsToRing(k, v)

Next ==
  \/ \E k \in Nodes : Adds(k, k)
  \/ \E v \in Roots : Adds(dbStateRootKey, v)
  \/ \E k \in Keys : FindsInList(k)
  \/ ClearsCache

Spec == Init /\ [][Next]_vars

-----------------------------------------------------------------------------
(* Properties.                                                             *)

Lru == INSTANCE LruCache WITH recent <- List!RecentKeys(dbMTCache)

\* The linked list, its map and its size implement the abstract cache, through
\* every order of additions, hits, evictions and clears.
ListIsLru == Lru!Spec

\* Whatever a cache answers for a key is the value last added for it, also for
\* the state root: no older entry of the ring comes back through a number
\* that a wrapped counter makes fresh again.
HitsAreLatest ==
  /\ \A k \in dbMTCache.cacheMap : dbMTCache.value[k] = latest[k]
  /\ \A k \in Keys : Assoc!Finds(dbMTACache, k) # {} => Assoc!Found(dbMTACache, k) = latest[k]

\* The ring never loses an entry before it is overwritten: whatever numbers
\* forcedInsertion() moved, or the process has ended.
RecentEntriesAreFound ==
  dbMTACache.exited \/ \A i \in DOMAIN added : Assoc!Finds(dbMTACache, added[i]) # {}
=============================================================================
