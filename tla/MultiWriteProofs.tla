--------------------------- MODULE MultiWriteProofs ---------------------------
(***************************************************************************)
(* The inductive invariant of MultiWrite.tla, and what follows from it for *)
(* every number of keys, roots, readers and flushes.                       *)
(***************************************************************************)
EXTENDS MultiWrite, TLAPS

-----------------------------------------------------------------------------
(* The inductive invariant. *)

Stamped == {r \in Roots : rootStamp[r] # Unwritten}

\* What dbSenderThread leaves behind, and the bounds of the stamps.
SenderInv ==
  /\ ~stored[pending]
  /\ sender = "notify" => /\ ~multiQuery[storing].built
                          /\ storedFlushId = storingFlushId
  /\ readOnly => lastFlushId = 0 /\ dbRoot = 0
  /\ \A x \in Written : stamp[x] <= lastFlushId
  /\ \A r \in Stamped : rootStamp[r] <= lastFlushId

\* How far the set being sent has reached the database.
ProgressInv ==
  /\ multiQuery[storing].built =>
       /\ multiQuery[storing].unsent \subseteq accepted[storing]
       /\ accepted[storing] \ multiQuery[storing].unsent \subseteq dbItems
       /\ multiQuery[storing].root => stateRoot[storing] # 0
       /\ ~multiQuery[storing].root => stateRoot[storing] <= dbRoot
  /\ ~Unstored => /\ accepted[storing] \subseteq dbItems
                  /\ stateRoot[storing] <= dbRoot
  /\ HandedOutIsStored

\* Where a written item is, and how its stamp bounds what may be reported.
ItemsInv ==
  /\ \A i \in {pending, storing} : accepted[i] \cup intray[i] \subseteq Written
  /\ ~readOnly =>
       \A x \in Written :
         \/ x \in dbItems
         \/ InSet(x, pending)
         \/ Unstored /\ x \in accepted[storing]
  /\ \A x \in Written : x \notin dbItems => stamp[x] >= storedFlushId
  /\ \A x \in Written :
       x \notin dbItems \cup accepted[storing] => stamp[x] >= storingFlushId
  /\ \A x \in accepted[storing] : stamp[x] <= storingFlushId

\* The same for roots; they are set, sent and stored in increasing order.
RootsInv ==
  /\ \A i \in {pending, storing} : stateRoot[i] # 0 => stateRoot[i] \in Stamped
  /\ stateRoot[pending] # 0 => /\ stateRoot[pending] > dbRoot
                               /\ stateRoot[pending] > stateRoot[storing]
  /\ Unstored /\ stateRoot[storing] # 0 => stateRoot[storing] >= dbRoot
  /\ ~readOnly =>
       \A r \in Stamped :
         \/ r <= dbRoot
         \/ r <= stateRoot[pending]
         \/ Unstored /\ r <= stateRoot[storing]
  /\ \A r \in Stamped : r > dbRoot => rootStamp[r] >= storedFlushId
  /\ \A r \in Stamped :
       r > dbRoot /\ r > stateRoot[storing] => rootStamp[r] >= storingFlushId

\* The tree of a root is never ahead of the root in the rotation.
TreesInv ==
  ~readOnly =>
    /\ stateRoot[pending] # 0 =>
         rootItems[stateRoot[pending]]
           \subseteq dbItems \cup accepted[pending] \cup intray[pending]
                       \cup accepted[storing]
    /\ Unstored /\ stateRoot[storing] # 0 =>
         rootItems[stateRoot[storing]] \subseteq dbItems \cup accepted[storing]
    /\ StoredRootHasItsTree

IInv ==
  /\ TypeOK
  /\ RolesRotate
  /\ SendsOnlyUnstoredData
  /\ FlushIdsOrdered
  /\ SenderInv
  /\ ProgressInv
  /\ ItemsInv
  /\ RootsInv
  /\ TreesInv

-----------------------------------------------------------------------------
(* The rotation of the indexes. *)

\* Advance() is a cycle of length three.
LEMMA AdvanceRotates ==
  ASSUME NEW i \in DataSets
  PROVE  /\ Advance(i) \in DataSets
         /\ Advance(i) # i
         /\ Advance(Advance(i)) # i
         /\ Advance(Advance(i)) # Advance(i)
         /\ Advance(Advance(Advance(i))) = i
  <1>1. i = 0 \/ i = 1 \/ i = 2
    BY DEF DataSets
  <1>2. Advance(0) = 1 /\ Advance(1) = 2 /\ Advance(2) = 0
    BY DEF Advance
  <1>3. QED
    BY <1>1, <1>2 DEF DataSets

\* The pending set is neither the one being sent nor the one handed out, and the
\* third set is neither of the first two.
LEMMA Apart ==
  ASSUME IInv
  PROVE  /\ pending \in DataSets /\ storing \in DataSets
         /\ synchronizing \in DataSets
         /\ pending = Advance(storing) /\ storing = Advance(Advance(pending))
         /\ Advance(pending) \in DataSets
         /\ pending # storing /\ pending # synchronizing
         /\ Advance(pending) # pending /\ Advance(pending) # storing
         /\ Advance(2) = 0 /\ Advance(0) = 1 /\ Advance(1) = 2
  <1>1. Advance(2) = 0 /\ Advance(0) = 1 /\ Advance(1) = 2
    BY DEF Advance
  <1>2. /\ pending \in DataSets /\ storing \in DataSets
        /\ synchronizing \in DataSets /\ pending = Advance(storing)
        /\ synchronizing \in {storing, Advance(pending)}
    BY DEF IInv, TypeOK, RolesRotate
  <1>3. QED
    BY <1>1, <1>2, AdvanceRotates

\* The roots in memory and in the database are numbers.
LEMMA RootsAreNumbers ==
  ASSUME TypeOK
  PROVE  /\ Roots \subseteq Nat \ {0}
         /\ dbRoot \in Nat
         /\ \A i \in DataSets : stateRoot[i] \in Nat
  <1>1. Roots \subseteq Nat \ {0}
    BY ConstantsAssumption
  <1>2. dbRoot \in Roots \cup {0}
    BY DEF TypeOK
  <1>3. \A i \in DataSets : stateRoot[i] \in Roots \cup {0}
    BY DEF TypeOK
  <1>4. Roots \cup {0} \subseteq Nat
    BY <1>1
  <1>5. QED
    BY <1>1, <1>2, <1>3, <1>4, Zenon

\* Nothing is written yet, and the three roles are apart from the start.
LEMMA InitIInv == Init => IInv
  <1> SUFFICES ASSUME Init PROVE IInv
    OBVIOUS
  <1>1. Advance(2) = 0 /\ Advance(0) = 1
    BY DEF Advance
  <1>2. TypeOK
    <2>1. readOnly \in BOOLEAN /\ dbConnectionsPool \in BOOLEAN
      BY ConstantsAssumption, Zenon DEF Init
    <2>2. /\ multiQuery \in [DataSets -> [built : BOOLEAN, unsent : SUBSET Items,
                                        root : BOOLEAN]]
          /\ connBlocked \in BOOLEAN
      BY DEF Init, NoQueries
    <2>3. QED
      BY <1>1, <2>1, <2>2
         DEF Init, TypeOK, SenderStates, DataSets, Unwritten
  <1>3. RolesRotate
    BY <1>1, ConstantsAssumption
       DEF Init, RolesRotate, Unstored, NoQueries, DataSets,
           Unwritten, Written
  <1>4. SendsOnlyUnstoredData
    BY <1>1, ConstantsAssumption
       DEF Init, SendsOnlyUnstoredData, Unstored, IsEmpty, NoQueries, DataSets,
           Unwritten, Written
  <1>5. FlushIdsOrdered
    BY <1>1, ConstantsAssumption
       DEF Init, FlushIdsOrdered, Unstored, NoQueries, DataSets,
           Unwritten, Written
  <1>6. SenderInv
    BY <1>1, ConstantsAssumption
       DEF Init, SenderInv, Stamped, Written, NoQueries, DataSets,
           Unwritten
  <1>7. ProgressInv
    BY <1>1, ConstantsAssumption
       DEF Init, ProgressInv, Unstored, HandedOutIsStored, NoQueries, DataSets,
           Unwritten, Written
  <1>8. ItemsInv
    BY <1>1, ConstantsAssumption
       DEF Init, ItemsInv, Unstored, InSet, Written, NoQueries, DataSets,
           Unwritten
  <1>9. RootsInv
    BY <1>1, ConstantsAssumption
       DEF Init, RootsInv, Unstored, Stamped, NoQueries, DataSets,
           Unwritten, Written
  <1>10. TreesInv
    BY <1>1, ConstantsAssumption
       DEF Init, TreesInv, Unstored, StoredRootHasItsTree, Stamped, NoQueries,
           DataSets, Unwritten, Written
  <1>11. QED
    BY <1>2, <1>3, <1>4, <1>5, <1>6, <1>7, <1>8, <1>9, <1>10 DEF IInv

-----------------------------------------------------------------------------
(* Every step keeps the invariant. *)

\* A first write is stamped with lastFlushId, which bounds every identifier that
\* may be reported; a repeated one moves nothing.
LEMMA WriteRemoteKeeps ==
  ASSUME IInv, NEW x \in Items, WriteRemote(x),
         UNCHANGED readOnly, UNCHANGED dbConnectionsPool
  PROVE  IInv'
  <1>1. TypeOK'
    BY DEF IInv, TypeOK, SenderStates, WriteRemote, indexVars, flushIds,
           database
  <1>2. RolesRotate'
    BY Apart
       DEF IInv, TypeOK, RolesRotate, Unstored, NoQueries, DataSets,
           WriteRemote, indexVars, flushIds, database
  <1>3. SendsOnlyUnstoredData'
    BY DEF IInv, TypeOK, SendsOnlyUnstoredData, Unstored, IsEmpty,
           WriteRemote, indexVars, flushIds, database
  <1>4. FlushIdsOrdered'
    BY DEF IInv, TypeOK, FlushIdsOrdered, Unstored, WriteRemote, indexVars,
           flushIds, database
  <1>5. SenderInv'
    BY DEF IInv, TypeOK, SenderInv, Stamped, Written, WriteRemote, indexVars,
           flushIds, database
  <1>6. ProgressInv'
    BY DEF IInv, TypeOK, ProgressInv, Unstored, HandedOutIsStored,
           WriteRemote, indexVars, flushIds, database
  <1>7. ItemsInv'
    BY Apart
       DEF IInv, TypeOK, ItemsInv, Unstored, InSet, Written, RolesRotate,
           FlushIdsOrdered, Unwritten, NoQueries, ProgressInv, SenderInv,
           IsEmpty, WriteRemote, indexVars, flushIds, database
  <1>8. RootsInv'
    BY DEF IInv, TypeOK, RootsInv, Unstored, Stamped, WriteRemote, indexVars,
           flushIds, database
  <1>9. TreesInv'
    BY DEF IInv, TypeOK, TreesInv, Unstored, StoredRootHasItsTree, Stamped,
           WriteRemote, indexVars, flushIds, database
  <1>10. QED
    BY <1>1, <1>2, <1>3, <1>4, <1>5, <1>6, <1>7, <1>8, <1>9 DEF IInv

\* The new root is the largest one, so it is the one that the pending set owes,
\* and its tree is made of items that have not been lost.
LEMMA UpdateStateRootKeeps ==
  ASSUME IInv, NEW r \in Roots, UpdateStateRoot(r),
         UNCHANGED readOnly, UNCHANGED dbConnectionsPool
  PROVE  IInv'
  <1>1. TypeOK'
    BY ConstantsAssumption
       DEF IInv, TypeOK, SenderStates, NoQueries, Unwritten, Requests,
           DataSets, Written, UpdateStateRoot, indexVars, flushIds, database
  <1>2. RolesRotate'
    BY DEF IInv, TypeOK, RolesRotate, Unstored, UpdateStateRoot, indexVars,
           flushIds, database
  <1>3. SendsOnlyUnstoredData'
    BY Apart
       DEF IInv, TypeOK, SendsOnlyUnstoredData, Unstored, IsEmpty,
           RolesRotate, NoQueries, DataSets, UpdateStateRoot, indexVars,
           flushIds, database
  <1>4. FlushIdsOrdered'
    BY DEF IInv, TypeOK, FlushIdsOrdered, Unstored, UpdateStateRoot,
           indexVars, flushIds, database
  <1>5. SenderInv'
    BY DEF IInv, TypeOK, SenderInv, Stamped, Written, UpdateStateRoot,
           indexVars, flushIds, database
  <1>6. ProgressInv'
    BY Apart
       DEF IInv, TypeOK, ProgressInv, Unstored, HandedOutIsStored,
           RolesRotate, NoQueries, IsEmpty, UpdateStateRoot, indexVars,
           flushIds, database
  <1>7. ItemsInv'
    BY DEF IInv, TypeOK, ItemsInv, Unstored, InSet, Written, UpdateStateRoot,
           indexVars, flushIds, database
  <1>8. RootsInv'
    <2>1. /\ r \in Nat \ {0} /\ dbRoot \in Nat /\ r > dbRoot
          /\ stateRoot[storing] \in Nat /\ Roots \subseteq Nat
      BY RootsAreNumbers, Apart DEF IInv, UpdateStateRoot
    <2>2. \A q \in Stamped : q < r
      BY <2>1 DEF Stamped, UpdateStateRoot
    <2>3. stateRoot[storing] < r /\ stateRoot[storing] # r
      BY <2>1, <2>2 DEF IInv, RootsInv
    <2>4. Stamped' = Stamped \cup {r}
      BY DEF IInv, TypeOK, FlushIdsOrdered, Stamped, Unwritten,
             UpdateStateRoot
    <2>5. /\ stateRoot'[pending] = r
          /\ stateRoot'[storing] = stateRoot[storing]
          /\ rootStamp'[r] = lastFlushId
          /\ \A q \in Stamped : rootStamp'[q] = rootStamp[q]
      <3>1. stateRoot' = [stateRoot EXCEPT ![pending] = r]
        BY DEF UpdateStateRoot
      <3>2. rootStamp' = [rootStamp EXCEPT ![r] = lastFlushId]
        BY DEF UpdateStateRoot
      <3>3. DOMAIN stateRoot = DataSets /\ DOMAIN rootStamp = Roots
        BY DEF IInv, TypeOK
      <3>4. \A q \in Stamped : q \in Roots /\ q # r
        BY <2>1, <2>2 DEF Stamped
      <3>5. QED
        BY <3>1, <3>2, <3>3, <3>4, Apart
    <2>6. pending' = pending /\ storing' = storing /\ dbRoot' = dbRoot
      BY DEF UpdateStateRoot, indexVars, database
    <2>7. Unstored' = Unstored
      BY DEF UpdateStateRoot, Unstored, indexVars
    <2>8. lastFlushId >= storedFlushId /\ lastFlushId >= storingFlushId
      BY DEF IInv, TypeOK, FlushIdsOrdered
    <2>9. \A q \in Stamped' : q <= r
      BY <2>1, <2>2, <2>4 DEF Stamped
    <2>10. UNCHANGED <<readOnly, storedFlushId, storingFlushId>>
      BY DEF UpdateStateRoot, flushIds
    <2>11. /\ stateRoot[storing] # 0 => stateRoot[storing] \in Stamped
           /\ Unstored /\ stateRoot[storing] # 0 => stateRoot[storing] >= dbRoot
           /\ \A q \in Stamped : q > dbRoot => rootStamp[q] >= storedFlushId
           /\ \A q \in Stamped : q > dbRoot /\ q > stateRoot[storing]
                => rootStamp[q] >= storingFlushId
      BY DEF IInv, RootsInv
    <2>12. QED
      BY <2>1, <2>3, <2>4, <2>5, <2>6, <2>7, <2>8, <2>9, <2>10, <2>11
         DEF RootsInv
  <1>9. TreesInv'
    <2> SUFFICES ASSUME ~readOnly PROVE TreesInv'
      BY DEF TreesInv
    <2>1. /\ stateRoot'[pending] = r
          /\ stateRoot'[storing] = stateRoot[storing]
          /\ rootItems'[r] = Written \cup dbItems
          /\ \A q \in Roots \ {r} : rootItems'[q] = rootItems[q]
      BY Apart DEF IInv, TypeOK, UpdateStateRoot
    <2>2. UNCHANGED <<accepted, intray, multiQuery, sender, pending, storing,
                      dbItems, dbRoot>>
      BY DEF UpdateStateRoot, indexVars, database
    <2>3. Written \subseteq dbItems \cup accepted[pending] \cup intray[pending]
                              \cup accepted[storing]
      BY DEF IInv, ItemsInv, InSet
    <2>4. dbRoot # r
      BY RootsAreNumbers DEF IInv, UpdateStateRoot
    <2>5. stateRoot[storing] # 0 => stateRoot[storing] \in Roots \ {r}
      <3>1. r > 0 /\ rootStamp[r] = Unwritten
        BY RootsAreNumbers DEF IInv, UpdateStateRoot
      <3>2. stateRoot[storing] # 0 => stateRoot[storing] \in Stamped
        BY DEF IInv, RootsInv
      <3>3. QED
        BY <3>1, <3>2 DEF Stamped
    <2>6. dbRoot # 0 => dbRoot \in Roots
      BY DEF IInv, TypeOK
    <2>7. QED
      BY <2>1, <2>2, <2>3, <2>4, <2>5, <2>6
         DEF IInv, TreesInv, StoredRootHasItsTree, Unstored
  <1>10. QED
    BY <1>1, <1>2, <1>3, <1>4, <1>5, <1>6, <1>7, <1>8, <1>9 DEF IInv

\* The intray is merged inside the pending set.
LEMMA SemiFlushKeeps ==
  ASSUME IInv, SemiFlush,
         UNCHANGED readOnly, UNCHANGED dbConnectionsPool
  PROVE  IInv'
  <1>1. TypeOK'
    BY DEF IInv, TypeOK, SenderStates, SemiFlush, AcceptIntray, indexVars,
           flushIds, database, history
  <1>2. RolesRotate'
    BY DEF IInv, TypeOK, RolesRotate, Unstored, SemiFlush, AcceptIntray,
           indexVars, flushIds, database, history
  <1>3. SendsOnlyUnstoredData'
    BY DEF IInv, TypeOK, SendsOnlyUnstoredData, Unstored, IsEmpty, SemiFlush,
           AcceptIntray, indexVars, flushIds, database, history
  <1>4. FlushIdsOrdered'
    BY DEF IInv, TypeOK, FlushIdsOrdered, Unstored, SemiFlush, AcceptIntray,
           indexVars, flushIds, database, history
  <1>5. SenderInv'
    BY DEF IInv, TypeOK, SenderInv, Stamped, Written, SemiFlush, AcceptIntray,
           indexVars, flushIds, database, history
  <1>6. ProgressInv'
    BY Apart
       DEF IInv, TypeOK, ProgressInv, Unstored, HandedOutIsStored,
           RolesRotate, NoQueries, IsEmpty, SemiFlush, AcceptIntray,
           indexVars, flushIds, database, history
  <1>7. ItemsInv'
    BY Apart
       DEF IInv, TypeOK, ItemsInv, Unstored, InSet, Written, SemiFlush,
           AcceptIntray, indexVars, flushIds, database, history
  <1>8. RootsInv'
    BY DEF IInv, TypeOK, RootsInv, Unstored, Stamped, SemiFlush, AcceptIntray,
           indexVars, flushIds, database, history
  <1>9. TreesInv'
    BY DEF IInv, TypeOK, TreesInv, Unstored, StoredRootHasItsTree, Stamped,
           SemiFlush, AcceptIntray, indexVars, flushIds, database, history
  <1>10. QED
    BY <1>1, <1>2, <1>3, <1>4, <1>5, <1>6, <1>7, <1>8, <1>9 DEF IInv

\* The intray is merged, and lastFlushId only grows.
LEMMA FlushKeeps ==
  ASSUME IInv, Flush,
         UNCHANGED readOnly, UNCHANGED dbConnectionsPool
  PROVE  IInv'
  <1>1. TypeOK'
    BY DEF IInv, TypeOK, SenderStates, Flush, AcceptIntray, indexVars,
           database, history
  <1>2. RolesRotate'
    BY DEF IInv, TypeOK, RolesRotate, Unstored, Flush, AcceptIntray,
           indexVars, database, history
  <1>3. SendsOnlyUnstoredData'
    BY DEF IInv, TypeOK, SendsOnlyUnstoredData, Unstored, IsEmpty, Flush,
           AcceptIntray, indexVars, database, history
  <1>4. FlushIdsOrdered'
    BY DEF IInv, TypeOK, FlushIdsOrdered, Unstored, Flush, AcceptIntray,
           indexVars, database, history
  <1>5. SenderInv'
    BY DEF IInv, TypeOK, SenderInv, Stamped, Written, Flush, AcceptIntray,
           indexVars, database, history
  <1>6. ProgressInv'
    BY Apart
       DEF IInv, TypeOK, ProgressInv, Unstored, HandedOutIsStored,
           RolesRotate, NoQueries, IsEmpty, Flush, AcceptIntray, indexVars,
           database, history
  <1>7. ItemsInv'
    BY Apart
       DEF IInv, TypeOK, ItemsInv, Unstored, InSet, Written, Flush,
           AcceptIntray, indexVars, database, history
  <1>8. RootsInv'
    BY DEF IInv, TypeOK, RootsInv, Unstored, Stamped, Flush, AcceptIntray,
           indexVars, database, history
  <1>9. TreesInv'
    BY DEF IInv, TypeOK, TreesInv, Unstored, StoredRootHasItsTree, Stamped,
           Flush, AcceptIntray, indexVars, database, history
  <1>10. QED
    BY <1>1, <1>2, <1>3, <1>4, <1>5, <1>6, <1>7, <1>8, <1>9 DEF IInv

\* Only a read-only process forgets what it has written.
LEMMA FlushReadOnlyKeeps ==
  ASSUME IInv, FlushReadOnly,
         UNCHANGED readOnly, UNCHANGED dbConnectionsPool
  PROVE  IInv'
  <1>1. TypeOK'
    BY ConstantsAssumption, Apart
       DEF IInv, TypeOK, SenderStates, NoQueries, Unwritten, Requests,
           DataSets, Written, FlushReadOnly, Reset, indexVars, flushIds,
           database, history
  <1>2. RolesRotate'
    BY Apart
       DEF IInv, TypeOK, RolesRotate, Unstored, NoQueries, DataSets,
           FlushReadOnly, Reset, indexVars, flushIds, database, history
  <1>3. SendsOnlyUnstoredData'
    BY Apart
       DEF IInv, TypeOK, SendsOnlyUnstoredData, Unstored, IsEmpty,
           RolesRotate, NoQueries, DataSets, FlushReadOnly, Reset, indexVars,
           flushIds, database, history
  <1>4. FlushIdsOrdered'
    BY Apart
       DEF IInv, TypeOK, FlushIdsOrdered, Unstored, NoQueries, FlushReadOnly,
           Reset, indexVars, flushIds, database, history
  <1>5. SenderInv'
    BY Apart
       DEF IInv, TypeOK, SenderInv, Stamped, Written, RolesRotate, NoQueries,
           Unwritten, FlushReadOnly, Reset, indexVars, flushIds, database,
           history
  <1>6. ProgressInv'
    BY Apart
       DEF IInv, TypeOK, ProgressInv, Unstored, HandedOutIsStored,
           RolesRotate, NoQueries, IsEmpty, FlushReadOnly, Reset, indexVars,
           flushIds, database, history
  <1>7. ItemsInv'
    BY Apart
       DEF IInv, TypeOK, ItemsInv, Unstored, InSet, Written, RolesRotate,
           FlushIdsOrdered, Unwritten, NoQueries, ProgressInv, SenderInv,
           IsEmpty, FlushReadOnly, Reset, indexVars, flushIds, database,
           history
  <1>8. RootsInv'
    BY Apart, ConstantsAssumption
       DEF IInv, TypeOK, RootsInv, Unstored, Stamped, FlushIdsOrdered,
           Unwritten, NoQueries, ProgressInv, SenderInv, IsEmpty,
           FlushReadOnly, Reset, indexVars, flushIds, database, history
  <1>9. TreesInv'
    BY DEF IInv, TypeOK, TreesInv, Unstored, StoredRootHasItsTree, Stamped,
           FlushReadOnly, Reset, indexVars, flushIds, database, history
  <1>10. QED
    BY <1>1, <1>2, <1>3, <1>4, <1>5, <1>6, <1>7, <1>8, <1>9 DEF IInv

\* Everything written is in the database already.
LEMMA SenderFindsNothingKeeps ==
  ASSUME IInv, SenderFindsNothing,
         UNCHANGED readOnly, UNCHANGED dbConnectionsPool
  PROVE  IInv'
  <1>1. TypeOK'
    BY DEF IInv, TypeOK, SenderStates, SenderFindsNothing, dataVars,
           indexVars, database, history
  <1>2. RolesRotate'
    BY DEF IInv, TypeOK, RolesRotate, Unstored, SenderFindsNothing, dataVars,
           indexVars, database, history
  <1>3. SendsOnlyUnstoredData'
    BY DEF IInv, TypeOK, SendsOnlyUnstoredData, Unstored, IsEmpty,
           SenderFindsNothing, dataVars, indexVars, database, history
  <1>4. FlushIdsOrdered'
    BY DEF IInv, TypeOK, FlushIdsOrdered, Unstored, SenderFindsNothing,
           dataVars, indexVars, database, history
  <1>5. SenderInv'
    BY DEF IInv, TypeOK, SenderInv, Stamped, Written, SenderFindsNothing,
           dataVars, indexVars, database, history
  <1>6. ProgressInv'
    BY DEF IInv, TypeOK, ProgressInv, Unstored, HandedOutIsStored,
           SenderFindsNothing, dataVars, indexVars, database, history
  <1>7. ItemsInv'
    BY Apart
       DEF IInv, TypeOK, ItemsInv, Unstored, InSet, Written, RolesRotate,
           FlushIdsOrdered, Unwritten, NoQueries, ProgressInv, SenderInv,
           IsEmpty, SenderFindsNothing, dataVars, indexVars, database, history
  <1>8. RootsInv'
    BY Apart, ConstantsAssumption
       DEF IInv, TypeOK, RootsInv, Unstored, Stamped, FlushIdsOrdered,
           Unwritten, NoQueries, ProgressInv, SenderInv, IsEmpty,
           SenderFindsNothing, dataVars, indexVars, database, history
  <1>9. TreesInv'
    BY DEF IInv, TypeOK, TreesInv, Unstored, StoredRootHasItsTree, Stamped,
           SenderFindsNothing, dataVars, indexVars, database, history
  <1>10. QED
    BY <1>1, <1>2, <1>3, <1>4, <1>5, <1>6, <1>7, <1>8, <1>9 DEF IInv

\* The third set is the one that a swap resets: what it held is in the database.
LEMMA SenderSwapsKeeps ==
  ASSUME IInv, SenderSwaps,
         UNCHANGED readOnly, UNCHANGED dbConnectionsPool
  PROVE  IInv'
  <1>1. TypeOK'
    BY ConstantsAssumption, Apart
       DEF IInv, TypeOK, SenderStates, NoQueries, Unwritten, Requests,
           DataSets, Written, SenderSwaps, SwapSets, database, history
  <1>2. RolesRotate'
    BY Apart
       DEF IInv, TypeOK, RolesRotate, Unstored, NoQueries, DataSets,
           SenderSwaps, SwapSets, database, history
  <1>3. SendsOnlyUnstoredData'
    BY Apart
       DEF IInv, TypeOK, SendsOnlyUnstoredData, Unstored, IsEmpty,
           RolesRotate, NoQueries, DataSets, SenderInv, SenderSwaps, SwapSets,
           database, history
  <1>4. FlushIdsOrdered'
    BY DEF IInv, TypeOK, FlushIdsOrdered, Unstored, SenderSwaps, SwapSets,
           database, history
  <1>5. SenderInv'
    BY Apart
       DEF IInv, TypeOK, SenderInv, Stamped, Written, NoQueries,
           SendsOnlyUnstoredData, SenderSwaps, SwapSets, database, history
  <1>6. ProgressInv'
    BY Apart
       DEF IInv, TypeOK, ProgressInv, Unstored, HandedOutIsStored,
           RolesRotate, NoQueries, IsEmpty, SenderSwaps, SwapSets, database,
           history
  <1>7. ItemsInv'
    BY Apart
       DEF IInv, TypeOK, ItemsInv, Unstored, InSet, Written, RolesRotate,
           FlushIdsOrdered, Unwritten, NoQueries, ProgressInv, SenderInv,
           IsEmpty, SenderSwaps, SwapSets, database, history
  <1>8. RootsInv'
    <2>1. /\ stateRoot'[pending'] = 0 /\ stateRoot'[storing'] = stateRoot[pending]
          /\ storing' = pending /\ pending' # storing'
      BY Apart DEF IInv, TypeOK, SenderSwaps, SwapSets
    <2>2. /\ stateRoot[storing] \in Nat /\ stateRoot[pending] \in Nat
          /\ dbRoot \in Nat /\ Roots \subseteq Nat
      BY RootsAreNumbers, Apart DEF IInv
    <2>3. ~Unstored /\ stateRoot[storing] <= dbRoot
      BY DEF IInv, ProgressInv, Unstored, SenderSwaps
    <2>4. Unstored' /\ storingFlushId' = lastFlushId
      BY DEF Unstored, SenderSwaps
    <2>5. UNCHANGED <<dbRoot, rootStamp, Stamped, readOnly, storedFlushId>>
      BY DEF SenderSwaps, Stamped, database, history
    <2>6. \A r \in Stamped : ~readOnly => r <= dbRoot \/ r <= stateRoot[pending]
      BY <2>3 DEF IInv, RootsInv
    <2>7. \A r \in Stamped : rootStamp[r] \in Nat /\ rootStamp[r] >= 0
      BY DEF IInv, TypeOK, Stamped, Unwritten
    <2>8. readOnly => lastFlushId = 0
      BY DEF IInv, SenderInv
    <2>9. \A r \in Stamped : r > dbRoot /\ r > stateRoot[pending]
                                => rootStamp[r] >= lastFlushId
      BY <2>2, <2>6, <2>7, <2>8 DEF Stamped
    <2>10. /\ stateRoot[pending] # 0 => /\ stateRoot[pending] > dbRoot
                                        /\ stateRoot[pending] \in Stamped
           /\ \A r \in Stamped : r > dbRoot => rootStamp[r] >= storedFlushId
      BY DEF IInv, RootsInv
    <2>11. QED
      BY <2>1, <2>2, <2>4, <2>5, <2>6, <2>9, <2>10 DEF RootsInv, Stamped
  <1>9. TreesInv'
    BY Apart
       DEF IInv, TypeOK, TreesInv, Unstored, StoredRootHasItsTree, Stamped,
           RootsInv, ItemsInv, ProgressInv, InSet, Written, Unwritten,
           SenderSwaps, SwapSets, database, history
  <1>10. QED
    BY <1>1, <1>2, <1>3, <1>4, <1>5, <1>6, <1>7, <1>8, <1>9 DEF IInv

\* A failed set is sent again under the identifier it had.
LEMMA SenderResumesKeeps ==
  ASSUME IInv, SenderResumes,
         UNCHANGED readOnly, UNCHANGED dbConnectionsPool
  PROVE  IInv'
  <1>1. TypeOK'
    BY DEF IInv, TypeOK, SenderStates, SenderResumes, dataVars, indexVars,
           flushIds, database, history
  <1>2. RolesRotate'
    BY DEF IInv, TypeOK, RolesRotate, Unstored, SenderResumes, dataVars,
           indexVars, flushIds, database, history
  <1>3. SendsOnlyUnstoredData'
    BY DEF IInv, TypeOK, SendsOnlyUnstoredData, Unstored, IsEmpty,
           SenderResumes, dataVars, indexVars, flushIds, database, history
  <1>4. FlushIdsOrdered'
    BY DEF IInv, TypeOK, FlushIdsOrdered, Unstored, SenderResumes, dataVars,
           indexVars, flushIds, database, history
  <1>5. SenderInv'
    BY DEF IInv, TypeOK, SenderInv, Stamped, Written, SenderResumes, dataVars,
           indexVars, flushIds, database, history
  <1>6. ProgressInv'
    BY DEF IInv, TypeOK, ProgressInv, Unstored, HandedOutIsStored,
           SenderResumes, dataVars, indexVars, flushIds, database, history
  <1>7. ItemsInv'
    BY DEF IInv, TypeOK, ItemsInv, Unstored, InSet, Written, SenderResumes,
           dataVars, indexVars, flushIds, database, history
  <1>8. RootsInv'
    BY DEF IInv, TypeOK, RootsInv, Unstored, Stamped, SenderResumes, dataVars,
           indexVars, flushIds, database, history
  <1>9. TreesInv'
    BY DEF IInv, TypeOK, TreesInv, Unstored, StoredRootHasItsTree, Stamped,
           SenderResumes, dataVars, indexVars, flushIds, database, history
  <1>10. QED
    BY <1>1, <1>2, <1>3, <1>4, <1>5, <1>6, <1>7, <1>8, <1>9 DEF IInv

\* The queries of a set hold all of it.
LEMMA SenderConnectsKeeps ==
  ASSUME IInv, SenderConnects,
         UNCHANGED readOnly, UNCHANGED dbConnectionsPool
  PROVE  IInv'
  <1>1. TypeOK'
    BY DEF IInv, TypeOK, SenderStates, SenderConnects, indexVars, flushIds,
           database, history
  <1>2. RolesRotate'
    BY DEF IInv, TypeOK, RolesRotate, Unstored, SenderConnects, indexVars,
           flushIds, database, history
  <1>3. SendsOnlyUnstoredData'
    BY DEF IInv, TypeOK, SendsOnlyUnstoredData, Unstored, IsEmpty,
           SenderConnects, indexVars, flushIds, database, history
  <1>4. FlushIdsOrdered'
    BY DEF IInv, TypeOK, FlushIdsOrdered, Unstored, SenderConnects, indexVars,
           flushIds, database, history
  <1>5. SenderInv'
    BY DEF IInv, TypeOK, SenderInv, Stamped, Written, SenderConnects, indexVars,
           flushIds, database, history
  <1>6. ProgressInv'
    <2>1. /\ multiQuery'[storing].built /\ Unstored /\ Unstored'
          /\ UNCHANGED <<accepted, stateRoot, storing, synchronizing, dbItems,
                        dbRoot>>
      BY DEF IInv, TypeOK, SenderConnects, Unstored, indexVars, database
    <2>2. CASE multiQuery[storing].built
      <3>1. multiQuery'[storing] = multiQuery[storing]
        BY <2>2 DEF IInv, TypeOK, SenderConnects
      <3>2. QED
        BY <2>1, <2>2, <3>1 DEF IInv, ProgressInv, HandedOutIsStored
    <2>3. CASE ~multiQuery[storing].built
      <3>1. /\ multiQuery'[storing].unsent = accepted[storing]
            /\ multiQuery'[storing].root = (stateRoot[storing] # 0)
        BY <2>3 DEF IInv, TypeOK, SenderConnects
      <3>2. 0 <= dbRoot
        BY ConstantsAssumption DEF IInv, TypeOK
      <3>3. QED
        BY <2>1, <3>1, <3>2 DEF IInv, ProgressInv, HandedOutIsStored
    <2>4. QED
      BY <2>2, <2>3
  <1>7. ItemsInv'
    BY DEF IInv, TypeOK, ItemsInv, Unstored, InSet, Written, SenderConnects,
           indexVars, flushIds, database, history
  <1>8. RootsInv'
    BY DEF IInv, TypeOK, RootsInv, Unstored, Stamped, SenderConnects, indexVars,
           flushIds, database, history
  <1>9. TreesInv'
    BY DEF IInv, TypeOK, TreesInv, Unstored, StoredRootHasItsTree, Stamped,
           SenderConnects, indexVars, flushIds, database, history
  <1>10. QED
    BY <1>1, <1>2, <1>3, <1>4, <1>5, <1>6, <1>7, <1>8, <1>9 DEF IInv

\* A transaction moves its keys, and the root after all of them.
LEMMA SendQueryKeeps ==
  ASSUME IInv, NEW chunk \in SUBSET Items, NEW withRoot \in BOOLEAN,
         SendQuery(chunk, withRoot),
         UNCHANGED readOnly, UNCHANGED dbConnectionsPool
  PROVE  IInv'
  <1>1. TypeOK'
    BY ConstantsAssumption
       DEF IInv, TypeOK, SenderStates, NoQueries, Unwritten, Requests,
           DataSets, Written, SendQuery, CommitQuery, CanSend, IsNextQuery,
           indexVars, flushIds, history
  <1>2. RolesRotate'
    BY DEF IInv, TypeOK, RolesRotate, Unstored, SendQuery, CommitQuery, CanSend,
           IsNextQuery, indexVars, flushIds, history
  <1>3. SendsOnlyUnstoredData'
    BY DEF IInv, TypeOK, SendsOnlyUnstoredData, Unstored, IsEmpty, SendQuery,
           CommitQuery, CanSend, IsNextQuery, indexVars, flushIds, history
  <1>4. FlushIdsOrdered'
    BY DEF IInv, TypeOK, FlushIdsOrdered, Unstored, SendQuery, CommitQuery,
           CanSend, IsNextQuery, indexVars, flushIds, history
  <1>5. SenderInv'
    BY DEF IInv, TypeOK, SenderInv, Stamped, Written, SendQuery, CommitQuery,
           CanSend, IsNextQuery, indexVars, flushIds, history
  <1>6. ProgressInv'
    BY DEF IInv, TypeOK, ProgressInv, Unstored, HandedOutIsStored, SendQuery,
           CommitQuery, CanSend, IsNextQuery, indexVars, flushIds, history
  <1>7. ItemsInv'
    BY DEF IInv, TypeOK, ItemsInv, Unstored, InSet, Written, SendQuery,
           CommitQuery, CanSend, IsNextQuery, indexVars, flushIds, history
  <1>8. RootsInv'
    BY DEF IInv, TypeOK, RootsInv, Unstored, Stamped, SendQuery, CommitQuery,
           CanSend, IsNextQuery, indexVars, flushIds, history
  <1>9. TreesInv'
    BY DEF IInv, TypeOK, TreesInv, Unstored, StoredRootHasItsTree, Stamped,
           SendQuery, CommitQuery, CanSend, IsNextQuery, indexVars, flushIds,
           history
  <1>10. QED
    BY <1>1, <1>2, <1>3, <1>4, <1>5, <1>6, <1>7, <1>8, <1>9 DEF IInv

\* A transaction that is repeated later changes nothing more.
LEMMA SendQueryReplyLostKeeps ==
  ASSUME IInv, NEW chunk \in SUBSET Items, NEW withRoot \in BOOLEAN,
         SendQueryReplyLost(chunk, withRoot),
         UNCHANGED readOnly, UNCHANGED dbConnectionsPool
  PROVE  IInv'
  <1>1. TypeOK'
    BY DEF IInv, TypeOK, SenderStates, SendQueryReplyLost, CommitQuery,
           CanSend, SendDataCatches, IsNextQuery, dataVars, indexVars,
           flushIds, history
  <1>2. RolesRotate'
    BY DEF IInv, TypeOK, RolesRotate, Unstored, SendQueryReplyLost,
            CommitQuery, CanSend, SendDataCatches, IsNextQuery, dataVars,
           indexVars, flushIds, history
  <1>3. SendsOnlyUnstoredData'
    BY DEF IInv, TypeOK, SendsOnlyUnstoredData, Unstored, IsEmpty,
           SendQueryReplyLost, CommitQuery, CanSend, SendDataCatches,
           IsNextQuery, dataVars, indexVars, flushIds, history
  <1>4. FlushIdsOrdered'
    BY DEF IInv, TypeOK, FlushIdsOrdered, Unstored, SendQueryReplyLost,
            CommitQuery, CanSend, SendDataCatches, IsNextQuery, dataVars,
           indexVars, flushIds, history
  <1>5. SenderInv'
    BY DEF IInv, TypeOK, SenderInv, Stamped, Written, SendQueryReplyLost,
            CommitQuery, CanSend, SendDataCatches, IsNextQuery, dataVars,
           indexVars, flushIds, history
  <1>6. ProgressInv'
    <2>1. /\ Unstored /\ synchronizing # storing
          /\ dbRoot' \in {dbRoot, stateRoot[storing]}
          /\ dbItems \subseteq dbItems'
          /\ withRoot => stateRoot[storing] # 0
      BY Apart
         DEF IInv, RolesRotate, ProgressInv, Unstored, SendQueryReplyLost, 
             CommitQuery, CanSend, SendDataCatches, IsNextQuery
    <2>2. /\ dbRoot \in Nat /\ stateRoot[storing] \in Nat
          /\ stateRoot[synchronizing] \in Nat
      BY RootsAreNumbers, Apart DEF IInv
    <2>3. dbRoot <= dbRoot' /\ dbRoot' \in Nat
      BY <2>1, <2>2
         DEF IInv, RootsInv, SendQueryReplyLost, CommitQuery
    <2>4. multiQuery' = multiQuery /\ multiQuery[storing].built
      BY DEF SendQueryReplyLost, CommitQuery, CanSend, SendDataCatches,
             IsNextQuery, dataVars
    <2>5. HandedOutIsStored'
      BY <2>1, <2>2, <2>3
         DEF IInv, ProgressInv, HandedOutIsStored, SendQueryReplyLost,
             dataVars, indexVars
    <2>6. QED
      BY <2>1, <2>2, <2>3, <2>4, <2>5
         DEF IInv, ProgressInv, Unstored, SendQueryReplyLost, dataVars,
             indexVars
  <1>7. ItemsInv'
    BY DEF IInv, TypeOK, ItemsInv, Unstored, InSet, Written,
           SendQueryReplyLost, CommitQuery, CanSend, SendDataCatches,
           IsNextQuery, dataVars, indexVars, flushIds, history
  <1>8. RootsInv'
    BY Apart, ConstantsAssumption
       DEF IInv, TypeOK, RootsInv, Unstored, Stamped, FlushIdsOrdered,
           Unwritten, NoQueries, ProgressInv, SenderInv, IsEmpty,
           SendQueryReplyLost, CommitQuery, CanSend, SendDataCatches,
           IsNextQuery, dataVars, indexVars, flushIds, history
  <1>9. TreesInv'
    BY Apart
       DEF IInv, TypeOK, TreesInv, Unstored, StoredRootHasItsTree, Stamped,
           RootsInv, ItemsInv, ProgressInv, InSet, Written, Unwritten,
           SendQueryReplyLost, CommitQuery, CanSend, SendDataCatches,
           IsNextQuery, dataVars, indexVars, flushIds, history
  <1>10. QED
    BY <1>1, <1>2, <1>3, <1>4, <1>5, <1>6, <1>7, <1>8, <1>9 DEF IInv

\* A failure leaves the queries as they are, to be sent again.
LEMMA SendQueryFailsKeeps ==
  ASSUME IInv, SendQueryFails,
         UNCHANGED readOnly, UNCHANGED dbConnectionsPool
  PROVE  IInv'
  <1>1. TypeOK'
    BY DEF IInv, TypeOK, SenderStates, SendQueryFails, CanSend,
           SendDataCatches, dataVars, indexVars, flushIds, database, history
  <1>2. RolesRotate'
    BY DEF IInv, TypeOK, RolesRotate, Unstored, SendQueryFails, CanSend,
           SendDataCatches, dataVars, indexVars, flushIds, database, history
  <1>3. SendsOnlyUnstoredData'
    BY DEF IInv, TypeOK, SendsOnlyUnstoredData, Unstored, IsEmpty,
           SendQueryFails, CanSend, SendDataCatches, dataVars, indexVars,
           flushIds, database, history
  <1>4. FlushIdsOrdered'
    BY DEF IInv, TypeOK, FlushIdsOrdered, Unstored, SendQueryFails, CanSend,
           SendDataCatches, dataVars, indexVars, flushIds, database, history
  <1>5. SenderInv'
    BY DEF IInv, TypeOK, SenderInv, Stamped, Written, SendQueryFails, CanSend,
           SendDataCatches, dataVars, indexVars, flushIds, database, history
  <1>6. ProgressInv'
    BY DEF IInv, TypeOK, ProgressInv, Unstored, HandedOutIsStored,
           SendQueryFails, CanSend, SendDataCatches, dataVars, indexVars,
           flushIds, database, history
  <1>7. ItemsInv'
    BY DEF IInv, TypeOK, ItemsInv, Unstored, InSet, Written, SendQueryFails,
           CanSend, SendDataCatches, dataVars, indexVars, flushIds, database,
           history
  <1>8. RootsInv'
    BY DEF IInv, TypeOK, RootsInv, Unstored, Stamped, SendQueryFails, CanSend,
           SendDataCatches, dataVars, indexVars, flushIds, database, history
  <1>9. TreesInv'
    BY DEF IInv, TypeOK, TreesInv, Unstored, StoredRootHasItsTree, Stamped,
           SendQueryFails, CanSend, SendDataCatches, dataVars, indexVars,
           flushIds, database, history
  <1>10. QED
    BY <1>1, <1>2, <1>3, <1>4, <1>5, <1>6, <1>7, <1>8, <1>9 DEF IInv

\* With no unsent query left, the whole set is in the database.
LEMMA SendDataReturnsKeeps ==
  ASSUME IInv, SendDataReturns,
         UNCHANGED readOnly, UNCHANGED dbConnectionsPool
  PROVE  IInv'
  <1>1. TypeOK'
    BY ConstantsAssumption
       DEF IInv, TypeOK, SenderStates, NoQueries, Unwritten, Requests,
           DataSets, Written, SendDataReturns, CanSend, indexVars, database,
           history
  <1>2. RolesRotate'
    BY DEF IInv, TypeOK, RolesRotate, Unstored, SendDataReturns, CanSend,
           indexVars, database, history
  <1>3. SendsOnlyUnstoredData'
    BY Apart
       DEF IInv, TypeOK, SendsOnlyUnstoredData, Unstored, IsEmpty, RolesRotate,
           NoQueries, DataSets, SendDataReturns, CanSend, indexVars, database,
           history
  <1>4. FlushIdsOrdered'
    BY DEF IInv, TypeOK, FlushIdsOrdered, Unstored, SendDataReturns, CanSend,
           indexVars, database, history
  <1>5. SenderInv'
    BY Apart
       DEF IInv, TypeOK, SenderInv, Stamped, Written, RolesRotate, NoQueries,
           Unwritten, SendDataReturns, CanSend, indexVars, database, history
  <1>6. ProgressInv'
    BY Apart
       DEF IInv, TypeOK, ProgressInv, Unstored, HandedOutIsStored,
           RolesRotate, NoQueries, IsEmpty, SendDataReturns, CanSend, indexVars,
           database, history
  <1>7. ItemsInv'
    BY Apart
       DEF IInv, TypeOK, ItemsInv, Unstored, InSet, Written, RolesRotate,
           FlushIdsOrdered, Unwritten, NoQueries, ProgressInv, SenderInv,
           IsEmpty, SendDataReturns, CanSend, indexVars, database, history
  <1>8. RootsInv'
    <2>1. /\ stateRoot[storing] <= dbRoot /\ Unstored
          /\ storedFlushId' = storingFlushId
      BY DEF IInv, ProgressInv, Unstored, SendDataReturns, CanSend
    <2>2. /\ stateRoot[storing] \in Nat /\ dbRoot \in Nat
          /\ \A r \in Roots : r \in Nat
      BY RootsAreNumbers, Apart DEF IInv
    <2>3. \A r \in Stamped : r > dbRoot => rootStamp[r] >= storingFlushId
      BY <2>1, <2>2 DEF IInv, RootsInv, Stamped
    <2>4. \A r \in Stamped : ~readOnly => r <= dbRoot \/ r <= stateRoot[pending]
      BY <2>1, <2>2 DEF IInv, RootsInv, Stamped
    <2>5. ~Unstored'
      BY Apart DEF IInv, TypeOK, SendDataReturns, CanSend, Unstored, NoQueries,
                   indexVars
    <2>6. QED
      BY <2>1, <2>3, <2>4, <2>5
         DEF IInv, RootsInv, Stamped, SendDataReturns, CanSend, indexVars,
             database, history
  <1>9. TreesInv'
    BY DEF IInv, TypeOK, TreesInv, Unstored, StoredRootHasItsTree, Stamped,
           SendDataReturns, CanSend, indexVars, database, history
  <1>10. QED
    BY <1>1, <1>2, <1>3, <1>4, <1>5, <1>6, <1>7, <1>8, <1>9 DEF IInv

\* The set handed out becomes the one that was just stored.
LEMMA SenderNotifiesKeeps ==
  ASSUME IInv, SenderNotifies,
         UNCHANGED readOnly, UNCHANGED dbConnectionsPool
  PROVE  IInv'
  <1>1. TypeOK'
    BY ConstantsAssumption, Apart
       DEF IInv, TypeOK, SenderStates, NoQueries, Unwritten, Requests,
           DataSets, Written, SenderNotifies, dataVars, database, history
  <1>2. RolesRotate'
    BY Apart
       DEF IInv, TypeOK, RolesRotate, Unstored, NoQueries, DataSets,
           SenderInv, ProgressInv, SenderNotifies, dataVars, database, history
  <1>3. SendsOnlyUnstoredData'
    BY DEF IInv, TypeOK, SendsOnlyUnstoredData, Unstored, IsEmpty,
           SenderNotifies, dataVars, database, history
  <1>4. FlushIdsOrdered'
    BY DEF IInv, TypeOK, FlushIdsOrdered, Unstored, SenderNotifies, dataVars,
           database, history
  <1>5. SenderInv'
    BY DEF IInv, TypeOK, SenderInv, Stamped, Written, SenderNotifies,
           dataVars, database, history
  <1>6. ProgressInv'
    BY Apart
       DEF IInv, TypeOK, ProgressInv, Unstored, HandedOutIsStored,
           RolesRotate, NoQueries, IsEmpty, SenderInv, SenderNotifies,
           dataVars, database, history
  <1>7. ItemsInv'
    BY Apart
       DEF IInv, TypeOK, ItemsInv, Unstored, InSet, Written, RolesRotate,
           FlushIdsOrdered, Unwritten, NoQueries, ProgressInv, SenderInv,
           IsEmpty, SenderNotifies, dataVars, database, history
  <1>8. RootsInv'
    BY Apart, ConstantsAssumption
       DEF IInv, TypeOK, RootsInv, Unstored, Stamped, FlushIdsOrdered,
           Unwritten, NoQueries, ProgressInv, SenderInv, IsEmpty,
           SenderNotifies, dataVars, database, history
  <1>9. TreesInv'
    BY DEF IInv, TypeOK, TreesInv, Unstored, StoredRootHasItsTree, Stamped,
           SenderNotifies, dataVars, database, history
  <1>10. QED
    BY <1>1, <1>2, <1>3, <1>4, <1>5, <1>6, <1>7, <1>8, <1>9 DEF IInv

\* Handing out data changes only the semaphore.
LEMMA GetFlushDataKeeps ==
  ASSUME IInv, GetFlushData,
         UNCHANGED readOnly, UNCHANGED dbConnectionsPool
  PROVE  IInv'
  <1>1. TypeOK'
    BY DEF IInv, TypeOK, SenderStates, GetFlushData, dataVars, indexVars,
           flushIds, database, history
  <1>2. RolesRotate'
    BY DEF IInv, TypeOK, RolesRotate, Unstored, GetFlushData, dataVars,
           indexVars, flushIds, database, history
  <1>3. SendsOnlyUnstoredData'
    BY DEF IInv, TypeOK, SendsOnlyUnstoredData, Unstored, IsEmpty,
           GetFlushData, dataVars, indexVars, flushIds, database, history
  <1>4. FlushIdsOrdered'
    BY DEF IInv, TypeOK, FlushIdsOrdered, Unstored, GetFlushData, dataVars,
           indexVars, flushIds, database, history
  <1>5. SenderInv'
    BY DEF IInv, TypeOK, SenderInv, Stamped, Written, GetFlushData, dataVars,
           indexVars, flushIds, database, history
  <1>6. ProgressInv'
    BY DEF IInv, TypeOK, ProgressInv, Unstored, HandedOutIsStored,
           GetFlushData, dataVars, indexVars, flushIds, database, history
  <1>7. ItemsInv'
    BY DEF IInv, TypeOK, ItemsInv, Unstored, InSet, Written, GetFlushData,
           dataVars, indexVars, flushIds, database, history
  <1>8. RootsInv'
    BY DEF IInv, TypeOK, RootsInv, Unstored, Stamped, GetFlushData, dataVars,
           indexVars, flushIds, database, history
  <1>9. TreesInv'
    BY DEF IInv, TypeOK, TreesInv, Unstored, StoredRootHasItsTree, Stamped,
           GetFlushData, dataVars, indexVars, flushIds, database, history
  <1>10. QED
    BY <1>1, <1>2, <1>3, <1>4, <1>5, <1>6, <1>7, <1>8, <1>9 DEF IInv

\* A read changes only its reader.
LEMMA ReadKeeps ==
  ASSUME IInv, NEW p \in Readers, Read(p),
         UNCHANGED readOnly, UNCHANGED dbConnectionsPool
  PROVE  IInv'
  <1>1. TypeOK'
    <2>1. reader' \in [Readers -> Requests \cup {NotReading}]
      <3>1. /\ reader \in [Readers -> Requests \cup {NotReading}]
            /\ ReadRetries \in Nat
        BY ConstantsAssumption DEF IInv, TypeOK
      <3>2. ASSUME NEW x \in Items, ReadMissesMemory(p, x)
            PROVE  reader' \in [Readers -> Requests \cup {NotReading}]
        BY <3>1, <3>2 DEF ReadMissesMemory, Requests
      <3>3. CASE ReadRetriesRow(p)
        BY <3>1, <3>3 DEF ReadRetriesRow, CanQuery, Requests
      <3>4. CASE \/ reader' = [reader EXCEPT ![p] = NotReading]
                 \/ reader' = reader
        BY <3>1, <3>4
      <3>5. QED
        BY <3>2, <3>3, <3>4
           DEF Read, ReadFindsRow, ReadFails, ReadBlocks, ReadFindsNoRow
    <2>2. /\ connBlocked' \in BOOLEAN
          /\ UNCHANGED <<dataVars, indexVars, flushIds, sender, flushDataSem,
                        dbItems, dbRoot, history>>
      BY DEF IInv, TypeOK, Read, ReadMissesMemory, ReadFindsRow,
             ReadRetriesRow, ReadFails, ReadBlocks, ReadFindsNoRow, database
    <2>3. QED
      BY <2>1, <2>2
         DEF IInv, TypeOK, dataVars, indexVars, flushIds, history
  <1>2. RolesRotate'
    BY DEF IInv, TypeOK, RolesRotate, Unstored, Read, CanQuery,
           ReadMissesMemory, ReadFindsRow, ReadRetriesRow, ReadFails,
           ReadBlocks, ReadFindsNoRow, dataVars, indexVars, flushIds, database,
           history
  <1>3. SendsOnlyUnstoredData'
    BY DEF IInv, TypeOK, SendsOnlyUnstoredData, Unstored, IsEmpty, Read,
           CanQuery, ReadMissesMemory, ReadFindsRow, ReadRetriesRow, ReadFails,
           ReadBlocks, ReadFindsNoRow, dataVars, indexVars, flushIds, database,
           history
  <1>4. FlushIdsOrdered'
    BY DEF IInv, TypeOK, FlushIdsOrdered, Unstored, Read, CanQuery,
           ReadMissesMemory, ReadFindsRow, ReadRetriesRow, ReadFails,
           ReadBlocks, ReadFindsNoRow, dataVars, indexVars, flushIds, database,
           history
  <1>5. SenderInv'
    BY DEF IInv, TypeOK, SenderInv, Stamped, Written, Read, CanQuery,
           ReadMissesMemory, ReadFindsRow, ReadRetriesRow, ReadFails,
           ReadBlocks, ReadFindsNoRow, dataVars, indexVars, flushIds, database,
           history
  <1>6. ProgressInv'
    BY DEF IInv, TypeOK, ProgressInv, Unstored, HandedOutIsStored, Read,
           CanQuery, ReadMissesMemory, ReadFindsRow, ReadRetriesRow, ReadFails,
           ReadBlocks, ReadFindsNoRow, dataVars, indexVars, flushIds, database,
           history
  <1>7. ItemsInv'
    BY DEF IInv, TypeOK, ItemsInv, Unstored, InSet, Written, Read, CanQuery,
           ReadMissesMemory, ReadFindsRow, ReadRetriesRow, ReadFails,
           ReadBlocks, ReadFindsNoRow, dataVars, indexVars, flushIds, database,
           history
  <1>8. RootsInv'
    BY DEF IInv, TypeOK, RootsInv, Unstored, Stamped, Read, CanQuery,
           ReadMissesMemory, ReadFindsRow, ReadRetriesRow, ReadFails,
           ReadBlocks, ReadFindsNoRow, dataVars, indexVars, flushIds, database,
           history
  <1>9. TreesInv'
    BY DEF IInv, TypeOK, TreesInv, Unstored, StoredRootHasItsTree, Stamped,
           Read, CanQuery, ReadMissesMemory, ReadFindsRow, ReadRetriesRow,
           ReadFails, ReadBlocks, ReadFindsNoRow, dataVars, indexVars,
           flushIds, database, history
  <1>10. QED
    BY <1>1, <1>2, <1>3, <1>4, <1>5, <1>6, <1>7, <1>8, <1>9 DEF IInv

\* A restart is an initial state over what the database kept.
LEMMA CrashKeeps ==
  ASSUME IInv, Crash,
         UNCHANGED readOnly, UNCHANGED dbConnectionsPool
  PROVE  IInv'
  <1>1. TypeOK'
    <2>1. UNCHANGED <<readOnly, dbConnectionsPool, dbItems, dbRoot>>
      BY DEF Crash
    <2>2. connBlocked' \in BOOLEAN
      BY DEF Crash
    <2>3. /\ 0 \in DataSets /\ 2 \in DataSets
          /\ multiQuery' \in [DataSets -> [built : BOOLEAN, unsent : SUBSET Items,
                                         root : BOOLEAN]]
          /\ stored' \in [DataSets -> BOOLEAN]
      BY DEF Crash, NoQueries, DataSets
    <2>4. rootItems' \in [Roots -> SUBSET Items]
      BY DEF Crash, IInv, TypeOK
    <2>5. QED
      BY <2>1, <2>2, <2>3, <2>4
         DEF Crash, IInv, TypeOK, SenderStates, Unwritten
  <1>2. RolesRotate'
    BY Apart
       DEF IInv, TypeOK, RolesRotate, Unstored, NoQueries, DataSets, Crash,
           database
  <1>3. SendsOnlyUnstoredData'
    BY Apart
       DEF IInv, TypeOK, SendsOnlyUnstoredData, Unstored, IsEmpty,
           RolesRotate, NoQueries, DataSets, Crash, database
  <1>4. FlushIdsOrdered'
    BY DEF IInv, TypeOK, FlushIdsOrdered, Unstored, Crash, database
  <1>5. SenderInv'
    BY DEF IInv, TypeOK, SenderInv, Stamped, Written, NoQueries, DataSets,
           Crash, database
  <1>6. ProgressInv'
    BY Apart, ConstantsAssumption
       DEF IInv, TypeOK, ProgressInv, Unstored, HandedOutIsStored,
           RolesRotate, NoQueries, IsEmpty, DataSets, Unwritten, Written,
           Stamped, InSet, Crash, database
  <1>7. ItemsInv'
    BY Apart
       DEF IInv, TypeOK, ItemsInv, Unstored, InSet, Written, RolesRotate,
           FlushIdsOrdered, Unwritten, NoQueries, ProgressInv, SenderInv,
           IsEmpty, DataSets, Stamped, Crash, database
  <1>8. RootsInv'
    BY Apart, ConstantsAssumption
       DEF IInv, TypeOK, RootsInv, Unstored, Stamped, FlushIdsOrdered,
           Unwritten, NoQueries, ProgressInv, SenderInv, IsEmpty, DataSets,
           Written, InSet, Crash, database
  <1>9. TreesInv'
    BY Apart
       DEF IInv, TypeOK, TreesInv, Unstored, StoredRootHasItsTree, Stamped,
           RootsInv, ItemsInv, ProgressInv, InSet, Written, Unwritten,
           DataSets, NoQueries, Crash, database
  <1>10. QED
    BY <1>1, <1>2, <1>3, <1>4, <1>5, <1>6, <1>7, <1>8, <1>9 DEF IInv

\* Every step of the buffer, its sender and its readers keeps the invariant.
LEMMA NextKeeps == IInv /\ [Next]_vars => IInv'
  <1> SUFFICES ASSUME IInv, [Next]_vars PROVE IInv'
    OBVIOUS
  <1>1. CASE UNCHANGED vars
    BY <1>1
       DEF vars, dataVars, indexVars, flushIds, config, database, history, IInv,
           TypeOK, RolesRotate, SendsOnlyUnstoredData, FlushIdsOrdered,
           SenderInv, ProgressInv, ItemsInv, RootsInv, TreesInv, Unstored,
           IsEmpty, HandedOutIsStored, InSet, Written, Stamped,
           StoredRootHasItsTree
  <1>2. CASE Next
    <2>1. UNCHANGED readOnly /\ UNCHANGED dbConnectionsPool
      BY <1>2 DEF Next, config
    <2>2. CASE Batch
      BY <2>1, <2>2, WriteRemoteKeeps, UpdateStateRootKeeps, SemiFlushKeeps,
         FlushKeeps, FlushReadOnlyKeeps
         DEF Batch
    <2>3. CASE Sender
      <3>1. ASSUME NEW chunk \in SUBSET Items, NEW withRoot \in BOOLEAN,
                   \/ SendQuery(chunk, withRoot)
                   \/ SendQueryReplyLost(chunk, withRoot)
            PROVE  IInv'
        BY <2>1, <3>1, SendQueryKeeps, SendQueryReplyLostKeeps
      <3>2. CASE SenderFindsNothing \/ SenderSwaps \/ SenderResumes
        BY <2>1, <3>2, SenderFindsNothingKeeps, SenderSwapsKeeps,
           SenderResumesKeeps
      <3>3. CASE SenderConnects \/ SendQueryFails \/ SendDataReturns
        BY <2>1, <3>3, SenderConnectsKeeps, SendQueryFailsKeeps,
           SendDataReturnsKeeps
      <3>4. CASE SenderNotifies
        BY <2>1, <3>4, SenderNotifiesKeeps
      <3>5. QED
        BY <2>3, <3>1, <3>2, <3>3, <3>4 DEF Sender
    <2>4. CASE GetFlushData \/ (\E p \in Readers : Read(p)) \/ Crash
      BY <2>1, <2>4, GetFlushDataKeeps, ReadKeeps, CrashKeeps
    <2>5. QED
      BY <1>2, <2>2, <2>3, <2>4 DEF Next
  <1>3. QED
    BY <1>1, <1>2

\* The invariant holds in every reachable state.
THEOREM Invariant == Spec => []IInv
  <1>1. QED
    BY InitIInv, NextKeeps, PTL DEF Spec

-----------------------------------------------------------------------------
(* What the invariant says to a caller. *)

\* Every variable keeps its type.
THEOREM TypeCorrect == Spec => []TypeOK
  <1>1. IInv => TypeOK
    BY DEF IInv
  <1>2. QED
    BY <1>1, Invariant, PTL

\* No batch ever writes into a set that dbSenderThread or a synchronization
\* client reads outside the lock.
THEOREM RolesAlwaysRotate == Spec => []RolesRotate
  <1>1. IInv => RolesRotate
    BY DEF IInv
  <1>2. QED
    BY <1>1, Invariant, PTL

\* sendData() never meets an empty set nor one that is stored already.
THEOREM SendsUnstoredData == Spec => []SendsOnlyUnstoredData
  <1>1. IInv => SendsOnlyUnstoredData
    BY DEF IInv
  <1>2. QED
    BY <1>1, Invariant, PTL

\* The identifiers that flush() and getFlushStatus() report stay ordered.
THEOREM FlushIdsStayOrdered == Spec => []FlushIdsOrdered
  <1>1. IInv => FlushIdsOrdered
    BY DEF IInv
  <1>2. QED
    BY <1>1, Invariant, PTL

\* A flush reported as stored is in the database, whatever failed on the way.
THEOREM ReportsAreTrue == Spec => []ReportedIsStored
  <1>1. IInv => ReportedIsStored
    <2> SUFFICES ASSUME IInv PROVE ReportedIsStored
      OBVIOUS
    <2>1. \A x \in Written : stamp[x] \in Nat
      BY DEF IInv, TypeOK, Written
    <2>2. \A r \in Stamped : rootStamp[r] \in Nat /\ r \in Nat
      BY RootsAreNumbers DEF IInv, TypeOK, Stamped
    <2>3. dbRoot \in Nat /\ storedFlushId \in Nat
      BY RootsAreNumbers DEF IInv, TypeOK
    <2>4. /\ \A x \in Written : x \notin dbItems => stamp[x] >= storedFlushId
          /\ \A r \in Stamped : r > dbRoot => rootStamp[r] >= storedFlushId
      BY DEF IInv, ItemsInv, RootsInv
    <2>5. QED
      BY <2>1, <2>2, <2>3, <2>4 DEF ReportedIsStored, Stamped
  <1>2. QED
    BY <1>1, Invariant, PTL

\* The root in the database never lacks a node of its tree.
THEOREM StoredRootIsComplete == Spec => []StoredRootHasItsTree
  <1>1. IInv => StoredRootHasItsTree
    BY DEF IInv, TreesInv, SenderInv, StoredRootHasItsTree
  <1>2. QED
    BY <1>1, Invariant, PTL

\* No swap, failure or repeated query loses a written item.
THEOREM NothingIsEverLost == Spec => []NothingIsLost
  <1>1. IInv => NothingIsLost
    BY DEF IInv, ItemsInv, NothingIsLost
  <1>2. QED
    BY <1>1, Invariant, PTL

\* getFlushData() hands out only stored data.
THEOREM HandsOutStoredData == Spec => []HandedOutIsStored
  <1>1. IInv => HandedOutIsStored
    BY DEF IInv, ProgressInv
  <1>2. QED
    BY <1>1, Invariant, PTL

\* The only nodes that neither memory nor the database shows are those that a
\* swap took between their write() and the flush() of their batch.
THEOREM HiddenNodesAreUnflushed == Spec => []OnlyUnflushedNodesAreHidden
  <1>1. IInv => OnlyUnflushedNodesAreHidden
    <2> SUFFICES ASSUME IInv, ~readOnly, NEW x \in Written \cap Nodes,
                        x \notin dbItems, ~FindNode(x)
                 PROVE  /\ x \in accepted[storing]
                        /\ stamp[x] = storingFlushId
                        /\ storedFlushId = storingFlushId
      BY DEF OnlyUnflushedNodesAreHidden
    <2>1. x \in accepted[storing]
      BY DEF IInv, ItemsInv, FindNode
    <2>2. storedFlushId = storingFlushId
      BY <2>1 DEF FindNode
    <2>3. stamp[x] >= storedFlushId /\ stamp[x] <= storingFlushId
      BY <2>1 DEF IInv, ItemsInv
    <2>4. stamp[x] \in Nat /\ storedFlushId \in Nat
      BY DEF IInv, TypeOK, Written
    <2>5. QED
      BY <2>1, <2>2, <2>3, <2>4
  <1>2. QED
    BY <1>1, Invariant, PTL

-----------------------------------------------------------------------------
(* The readers. *)

\* A program that the database is asked for is already there.
AskedProgramsAreStored ==
  ~readOnly => \A p \in Readers :
    reader[p] # NotReading /\ reader[p].key \in Programs
      => reader[p].key \in dbItems

\* findProgram() misses only what left the set being sent for the database, and
\* nothing leaves the database.
LEMMA NextKeepsAskedPrograms ==
  IInv /\ AskedProgramsAreStored /\ [Next]_vars => AskedProgramsAreStored'
  <1> SUFFICES ASSUME IInv, AskedProgramsAreStored, [Next]_vars
               PROVE  AskedProgramsAreStored'
    OBVIOUS
  <1>1. CASE UNCHANGED <<reader, readOnly, dbItems>>
    BY <1>1 DEF AskedProgramsAreStored
  <1>2. CASE /\ UNCHANGED <<reader, readOnly>>
             /\ dbItems \subseteq dbItems'
    BY <1>2 DEF AskedProgramsAreStored
  <1>3. CASE /\ reader' = [p \in Readers |-> NotReading]
    BY <1>3 DEF AskedProgramsAreStored
  <1>4. ASSUME NEW p \in Readers, Read(p), UNCHANGED readOnly
        PROVE  AskedProgramsAreStored'
    <2>1. reader \in [Readers -> Requests \cup {NotReading}]
      BY DEF IInv, TypeOK
    <2>2. dbItems' = dbItems
      BY <1>4 DEF Read, ReadMissesMemory, ReadFindsRow, ReadRetriesRow,
                  ReadFails, ReadBlocks, ReadFindsNoRow, database
    <2>3. ASSUME NEW x \in Items, ReadMissesMemory(p, x)
          PROVE  AskedProgramsAreStored'
      <3>1. ~readOnly /\ x \in Programs => x \in dbItems
        <4>1. x \in Programs => ~FindProgram(x)
          BY <2>3, ConstantsAssumption DEF ReadMissesMemory, Find
        <4>2. QED
          BY <2>3, <4>1 DEF ReadMissesMemory, FindProgram, IInv, ItemsInv
      <3>2. /\ \A q \in Readers \ {p} : reader'[q] = reader[q]
            /\ reader'[p].key = x
        BY <2>1, <2>3 DEF ReadMissesMemory
      <3>3. QED
        BY <1>4, <2>2, <3>1, <3>2 DEF AskedProgramsAreStored
    <2>4. ASSUME ReadRetriesRow(p) PROVE AskedProgramsAreStored'
      <3>1. /\ \A q \in Readers \ {p} : reader'[q] = reader[q]
            /\ reader'[p].key = reader[p].key
            /\ reader[p] # NotReading
        BY <2>1, <2>4 DEF ReadRetriesRow, CanQuery, Requests
      <3>2. QED
        BY <1>4, <2>2, <3>1 DEF AskedProgramsAreStored
    <2>5. ASSUME reader' = [reader EXCEPT ![p] = NotReading]
          PROVE  AskedProgramsAreStored'
      BY <1>4, <2>1, <2>2, <2>5 DEF AskedProgramsAreStored
    <2>6. ASSUME ReadBlocks(p) PROVE AskedProgramsAreStored'
      BY <1>1, <1>4, <2>2, <2>6 DEF ReadBlocks
    <2>7. QED
      BY <1>4, <2>3, <2>4, <2>5, <2>6
         DEF Read, ReadFindsRow, ReadFails, ReadFindsNoRow
  <1>5. CASE UNCHANGED vars
    BY <1>1, <1>5 DEF vars, config, database
  <1>6. CASE Batch /\ UNCHANGED readOnly
    BY <1>1, <1>6
       DEF Batch, WriteRemote, UpdateStateRoot, SemiFlush, Flush,
           FlushReadOnly, database
  <1>7. CASE Sender /\ UNCHANGED readOnly
    BY <1>1, <1>2, <1>7
       DEF Sender, SenderFindsNothing, SenderSwaps, SenderResumes,
           SenderConnects, SendQuery, SendQueryReplyLost, CommitQuery,
           SendQueryFails, SendDataReturns, SenderNotifies, database
  <1>8. CASE GetFlushData /\ UNCHANGED readOnly
    BY <1>1, <1>8 DEF GetFlushData, database
  <1>9. CASE Crash
    BY <1>3, <1>9 DEF Crash
  <1>10. QED
    BY <1>4, <1>5, <1>6, <1>7, <1>8, <1>9 DEF Next, config

\* getProgram() finds every program written before it was called.
THEOREM ProgramsAreAlwaysFound == Spec => []ProgramsAreFound
  <1>1. Init => AskedProgramsAreStored
    BY DEF Init, AskedProgramsAreStored
  <1>2. AskedProgramsAreStored => ProgramsAreFound
    BY DEF AskedProgramsAreStored, ProgramsAreFound, LastReadsHit
  <1>3. QED
    BY <1>1, <1>2, Invariant, NextKeepsAskedPrograms, PTL DEF Spec

-----------------------------------------------------------------------------
(* The buffer implements the log. *)

\* With no set to send, everything a flush covered is in the database.
LEMMA IdleIsStored ==
  ASSUME IInv, ~Unstored, IsEmpty(pending)
  PROVE  /\ \A x \in Written : stamp[x] < lastFlushId => x \in dbItems
         /\ \A r \in Stamped : rootStamp[r] < lastFlushId => r <= dbRoot
  <1>1. \A x \in Written : stamp[x] \in Nat
    BY DEF IInv, TypeOK, Written
  <1>2. \A r \in Stamped : rootStamp[r] \in Nat /\ r \in Nat \ {0}
    BY RootsAreNumbers DEF IInv, TypeOK, Stamped
  <1>3. CASE readOnly
    BY <1>1, <1>2, <1>3 DEF IInv, SenderInv
  <1>4. CASE ~readOnly
    <2>1. \A x \in Written : x \in dbItems
      BY <1>4 DEF IInv, ItemsInv, IsEmpty, InSet
    <2>2. \A r \in Stamped : r <= dbRoot
      BY <1>2, <1>4 DEF IInv, RootsInv, IsEmpty
    <2>3. QED
      BY <2>1, <2>2
  <1>5. QED
    BY <1>3, <1>4

\* A transaction stores written items, and the root only with its whole tree.
LEMMA CommitPersists ==
  ASSUME IInv, NEW chunk \in SUBSET Items, NEW withRoot \in BOOLEAN,
         CommitQuery(chunk, withRoot), UNCHANGED <<lastFlushId, history>>,
         storedFlushId' = storedFlushId
  PROVE  Log!Persist(chunk, dbRoot')
  <1>1. /\ chunk \subseteq accepted[storing]
        /\ ~readOnly /\ multiQuery[storing].built
        /\ withRoot => /\ multiQuery[storing].root
                       /\ chunk = multiQuery[storing].unsent
    BY DEF CommitQuery, IsNextQuery, IInv, ProgressInv
  <1>2. chunk \subseteq Log!Written(stamp)
    BY <1>1 DEF IInv, TypeOK, ItemsInv, Written, Log!Written, Log!Unwritten,
                Unwritten
  <1>3. dbItems' = dbItems \cup chunk
    BY DEF CommitQuery
  <1>4. CASE ~withRoot
    BY <1>2, <1>3, <1>4 DEF CommitQuery, Log!Persist, history
  <1>5. CASE withRoot
    <2>1. /\ dbRoot' = stateRoot[storing] /\ stateRoot[storing] # 0
          /\ stateRoot[storing] \in Stamped
      BY <1>1, <1>5 DEF CommitQuery, IInv, ProgressInv, RootsInv
    <2>2. dbRoot <= stateRoot[storing]
      BY <1>1, <2>1 DEF IInv, RootsInv, Unstored
    <2>3. accepted[storing] \subseteq dbItems'
      BY <1>1, <1>3, <1>5 DEF IInv, ProgressInv
    <2>4. rootItems[stateRoot[storing]] \subseteq dbItems'
      BY <1>1, <1>3, <2>1, <2>3 DEF IInv, TreesInv, Unstored
    <2>5. /\ dbRoot' \in Roots /\ rootStamp[dbRoot'] # Log!Unwritten
          /\ dbRoot' = dbRoot \/ dbRoot' > dbRoot
      BY <2>1, <2>2, RootsAreNumbers, Apart
         DEF IInv, Stamped, Unwritten, Log!Unwritten
    <2>6. QED
      BY <1>2, <1>3, <2>1, <2>4, <2>5 DEF Log!Persist, history
  <1>6. QED
    BY <1>4, <1>5

\* Every step of the buffer is a step of the log, or changes nothing in it.
LEMMA StepsOfTheLog == IInv /\ [Next]_vars => [Log!Next]_Log!vars
  <1> SUFFICES ASSUME IInv, [Next]_vars PROVE [Log!Next]_Log!vars
    OBVIOUS
  <1> USE DEF Unwritten, Log!Unwritten
  <1>1. DOMAIN stamp = Items /\ DOMAIN rootStamp = Roots
    BY DEF IInv, TypeOK
  <1>2. Log!CoveredBy(stamp, 0) = {} /\ Log!CoveredBy(rootStamp, 0) = {}
    BY <1>1 DEF IInv, TypeOK, Log!CoveredBy
  <1>3. CASE UNCHANGED <<lastFlushId, storedFlushId, dbItems, dbRoot, history>>
    BY <1>3 DEF Log!vars, history
  <1>4. ASSUME NEW x \in Items, WriteRemote(x) PROVE Log!Next
    BY <1>4 DEF WriteRemote, flushIds, database, Log!Write, Log!Next
  <1>5. ASSUME NEW r \in Roots, UpdateStateRoot(r) PROVE Log!Next
    <2> DEFINE known == Written \cup dbItems
    <2>1. known \in SUBSET Items /\ known \subseteq Log!Written(stamp) \cup dbItems
      BY <1>1 DEF IInv, TypeOK, Written, Log!Written
    <2>2. Log!SetRoot(r, known)
      BY <1>5, <2>1, RootsAreNumbers
         DEF IInv, UpdateStateRoot, flushIds, database, Log!SetRoot
    <2>3. QED
      BY <2>1, <2>2 DEF Log!Next
  <1>6. CASE Flush
    BY <1>6 DEF Flush, database, history, Log!Flush, Log!Next
  <1>7. CASE SenderFindsNothing
    <2>1. /\ lastFlushId \in Nat /\ storedFlushId \in Nat
          /\ storedFlushId <= lastFlushId
      BY DEF IInv, TypeOK, FlushIdsOrdered
    <2>2. /\ Log!CoveredBy(stamp, lastFlushId) \subseteq dbItems
          /\ \A r \in Log!CoveredBy(rootStamp, lastFlushId) : dbRoot >= r
      <3>1. ~Unstored /\ IsEmpty(pending)
        BY <1>7 DEF SenderFindsNothing, Unstored
      <3>2. QED
        BY <1>1, <3>1, IdleIsStored, RootsAreNumbers
           DEF IInv, Log!CoveredBy, Written, Stamped
    <2>3. Log!Acknowledge(lastFlushId)
      BY <1>7, <2>1, <2>2
         DEF SenderFindsNothing, database, history, Log!Acknowledge
    <2>4. QED
      BY <2>1, <2>3 DEF Log!Next
  <1>8. ASSUME NEW chunk \in SUBSET Items, NEW withRoot \in BOOLEAN,
               \/ SendQuery(chunk, withRoot)
               \/ SendQueryReplyLost(chunk, withRoot)
        PROVE  Log!Next
    <2>1. Log!Persist(chunk, dbRoot')
      BY <1>8, CommitPersists DEF SendQuery, SendQueryReplyLost, flushIds
    <2>2. dbRoot' \in Roots \cup {0}
      BY <1>8, NextKeeps, Apart
         DEF SendQuery, SendQueryReplyLost, CommitQuery, IInv, TypeOK
    <2>3. QED
      BY <2>1, <2>2 DEF Log!Next
  <1>9. CASE SendDataReturns
    <2>1. /\ storingFlushId \in storedFlushId .. lastFlushId
          /\ storingFlushId \in Nat
      BY <1>9 DEF SendDataReturns, IInv, TypeOK, FlushIdsOrdered, Unstored
    <2>2. accepted[storing] \subseteq dbItems /\ stateRoot[storing] <= dbRoot
      BY <1>9 DEF SendDataReturns, IInv, ProgressInv
    <2>3. Log!CoveredBy(stamp, storingFlushId) \subseteq dbItems
      BY <1>1, <2>1, <2>2
         DEF IInv, TypeOK, ItemsInv, Written, Log!CoveredBy
    <2>4. \A r \in Log!CoveredBy(rootStamp, storingFlushId) : dbRoot >= r
      <3>1. ASSUME NEW r \in Stamped, r > dbRoot
            PROVE  rootStamp[r] >= storingFlushId
        <4>1. r \in Nat /\ dbRoot \in Nat /\ stateRoot[storing] \in Nat
          BY RootsAreNumbers, Apart DEF IInv, Stamped
        <4>2. QED
          BY <2>2, <3>1, <4>1 DEF IInv, RootsInv
      <3>2. \A r \in Stamped : rootStamp[r] \in Nat /\ r \in Nat
        BY RootsAreNumbers DEF IInv, TypeOK, Stamped
      <3>3. QED
        BY <1>1, <2>1, <3>1, <3>2, RootsAreNumbers
           DEF IInv, Stamped, Log!CoveredBy
    <2>5. Log!Acknowledge(storingFlushId)
      BY <1>9, <2>1, <2>3, <2>4
         DEF SendDataReturns, database, history, Log!Acknowledge
    <2>6. QED
      BY <2>1, <2>5 DEF Log!Next
  <1>10. CASE SenderNotifies
    BY <1>3, <1>10 DEF SenderNotifies, IInv, SenderInv, database
  <1>11. CASE Crash
    BY <1>11 DEF Crash, database, Log!Crash, Log!Next
  <1>12. CASE Batch
    BY <1>3, <1>4, <1>5, <1>6, <1>12
       DEF Batch, SemiFlush, FlushReadOnly, flushIds, database
  <1>13. CASE Sender
    BY <1>3, <1>7, <1>8, <1>9, <1>10, <1>13
       DEF Sender, SenderSwaps, SenderResumes, SenderConnects, SendQueryFails,
           flushIds, database
  <1>14. CASE GetFlushData \/ \E p \in Readers : Read(p)
    BY <1>3, <1>14
       DEF GetFlushData, Read, ReadMissesMemory, ReadFindsRow, ReadRetriesRow,
           ReadFails, ReadBlocks, ReadFindsNoRow, database, flushIds
  <1>15. CASE UNCHANGED vars
    BY <1>3, <1>15 DEF vars, flushIds, database
  <1>16. QED
    BY <1>11, <1>12, <1>13, <1>14, <1>15 DEF Next

\* What flush() promises, as FlushLog.tla states it, holds of the buffer, its
\* sender and its restarts.
THEOREM ImplementsTheLog == Spec => ImplementsLog
  <1>1. Init => Log!Init
    BY DEF Init, Log!Init, Unwritten, Log!Unwritten
  <1>2. QED
    BY <1>1, Invariant, StepsOfTheLog, PTL DEF Spec, ImplementsLog, Log!Spec

===============================================================================
