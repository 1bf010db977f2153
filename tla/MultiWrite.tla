------------------------------ MODULE MultiWrite ------------------------------
(***************************************************************************)
(* The multi-write buffer of src/src/hashdb/: class MultiWrite, the        *)
(* Database operations that fill it (write, setProgram, updateStateRoot,   *)
(* semiFlush, flush), the dbSenderThread that stores it, the getFlushData  *)
(* call that hands stored data to other caches, and the readers that look  *)
(* for a key in it before they ask the database.                           *)
(*                                                                         *)
(* Three sets of data rotate.  One collects what the batches write, one is *)
(* being sent to the database, one may be handed to a cache               *)
(* synchronization client.  Every access to the indexes holds              *)
(* MultiWrite::mutex, so a locked section is one action here; sendData()   *)
(* runs outside the lock and is one action per transaction.                *)
(*                                                                         *)
(* Keys are hashes of their values, so a write is the insertion of a key.  *)
(* The n-th call of updateStateRoot() names the root n.                    *)
(***************************************************************************)
EXTENDS Integers, FiniteSets

CONSTANTS Nodes,          \* keys of tree nodes
          Programs,       \* keys of programs
          Roots,          \* names of the successive state roots, 1 .. n
          Readers,        \* threads that read keys
          ReadRetries,    \* config.dbReadRetryCounter
          ReadOnlyModes,  \* the values config.dbReadOnly may have
          PoolModes,      \* the values config.dbConnectionsPool may have
          NotReading,     \* a reader that is not asking the database
          MaxFlushId,     \* bound: flush() is called at most so many times
          MaxSem          \* bound: getFlushDataSem saturates here

Items == Nodes \cup Programs

ASSUME ConstantsAssumption ==
  /\ Nodes \cap Programs = {}
  /\ Roots \subseteq Nat \ {0}
  /\ ReadRetries \in Nat
  /\ ReadOnlyModes \subseteq BOOLEAN
  /\ PoolModes \subseteq BOOLEAN
  /\ NotReading \notin [key : Items, tries : Nat]
  /\ MaxFlushId \in Nat
  /\ MaxSem \in Nat \ {0}

VARIABLES
  \* class MultiWrite
  accepted,             \* data[i].nodes and data[i].program
  intray,               \* data[i].nodesIntray and data[i].programIntray
  stateRoot,            \* data[i].nodesStateRoot, 0 when empty
  multiQuery,           \* data[i].multiQuery: what its unsent queries hold
  stored,               \* data[i].stored
  pending,              \* pendingToFlushDataIndex
  storing,              \* storingDataIndex
  synchronizing,        \* synchronizingDataIndex
  lastFlushId, storedFlushId, storingFlushId,
  readOnly,             \* config.dbReadOnly
  dbConnectionsPool,    \* config.dbConnectionsPool
  \* the threads
  sender,               \* where dbSenderThread is
  flushDataSem,         \* value of getFlushDataSem
  reader,               \* what each reader is asking the database for
  \* the database
  connBlocked,          \* connMutex is held for good, by a thread that waits
                        \* for it itself in queryFailed()
  dbItems, dbRoot,
  \* history, for the properties only
  stamp,                \* lastFlushId when an item was first written
  rootStamp,            \* lastFlushId when a root was set
  rootItems             \* items known when a root was set

dataVars    == <<accepted, intray, stateRoot, multiQuery, stored>>
indexVars   == <<pending, storing, synchronizing>>
flushIds    == <<lastFlushId, storedFlushId, storingFlushId>>
config      == <<readOnly, dbConnectionsPool>>    \* never changes
database    == <<connBlocked, dbItems, dbRoot>>
history     == <<stamp, rootStamp, rootItems>>
vars == <<dataVars, indexVars, flushIds, config, sender, flushDataSem,
          reader, database, history>>

-----------------------------------------------------------------------------
DataSets == 0 .. 2

Unwritten == -1

Requests == [key : Items, tries : Nat]

\* "wait": in sem_timedwait; its result is ignored, so it may return any time.
\* "connect": about to take a connection in sendData(); "send": sending with it;
\* "notify": about to lock after sendData() succeeded.
SenderStates == {"wait", "connect", "send", "notify"}

NoQueries == [built |-> FALSE, unsent |-> {}, root |-> FALSE]

\* Mutant: the index does not wrap.
AdvanceNoWrap(index) == index + 1

Advance(index) == (index + 1) % 3

Written == {x \in Items : stamp[x] # Unwritten}

IsEmpty(i) == accepted[i] = {} /\ intray[i] = {} /\ stateRoot[i] = 0

Init ==
  /\ accepted = [i \in DataSets |-> {}]
  /\ intray = [i \in DataSets |-> {}]
  /\ stateRoot = [i \in DataSets |-> 0]
  /\ multiQuery = [i \in DataSets |-> NoQueries]
  /\ stored = [i \in DataSets |-> FALSE]
  /\ pending = 0 /\ storing = 2 /\ synchronizing = 2
  /\ lastFlushId = 0 /\ storedFlushId = 0 /\ storingFlushId = 0
  /\ readOnly \in ReadOnlyModes
  /\ dbConnectionsPool \in PoolModes
  /\ sender = "wait"
  /\ flushDataSem = 0
  /\ reader = [p \in Readers |-> NotReading]
  /\ connBlocked = FALSE
  /\ dbItems = {} /\ dbRoot = 0
  /\ stamp = [x \in Items |-> Unwritten]
  /\ rootStamp = [r \in Roots |-> Unwritten]
  /\ rootItems = [r \in Roots |-> {}]

-----------------------------------------------------------------------------
(* The batches. *)

\* write() or setProgram() with persistent set, through writeRemote().
WriteRemote(x) ==
  /\ intray' = [intray EXCEPT ![pending] = @ \cup {x}]
  /\ stamp' = [stamp EXCEPT ![x] = IF @ = Unwritten THEN lastFlushId ELSE @]
  /\ UNCHANGED <<accepted, stateRoot, multiQuery, stored, indexVars, flushIds,
                 sender, flushDataSem, reader, database, rootStamp,
                 rootItems>>

\* The caller has written every node of the tree of the new root that the
\* database did not hold already.  The root skips the intray.
UpdateStateRoot(r) ==
  /\ r > dbRoot
  /\ \A q \in Roots : IF q >= r THEN rootStamp[q] = Unwritten
                              ELSE rootStamp[q] # Unwritten \/ q <= dbRoot
  /\ stateRoot' = [stateRoot EXCEPT ![pending] = r]
  /\ rootStamp' = [rootStamp EXCEPT ![r] = lastFlushId]
  /\ rootItems' = [rootItems EXCEPT ![r] = Written \cup dbItems]
  /\ UNCHANGED <<accepted, intray, multiQuery, stored, indexVars, flushIds,
                 sender, flushDataSem, reader, database, stamp>>

\* Mutant: the intray is cleared without being merged.
AcceptIntrayDropped ==
  /\ intray' = [intray EXCEPT ![pending] = {}]
  /\ UNCHANGED accepted

AcceptIntray ==
  /\ accepted' = [accepted EXCEPT ![pending] = @ \cup intray[pending]]
  /\ intray' = [intray EXCEPT ![pending] = {}]

SemiFlush ==
  /\ AcceptIntray
  /\ UNCHANGED <<stateRoot, multiQuery, stored, indexVars, flushIds, sender,
                 flushDataSem, reader, database, history>>

Flush ==
  /\ ~readOnly
  /\ lastFlushId < MaxFlushId
  /\ AcceptIntray
  /\ lastFlushId' = lastFlushId + 1
  /\ UNCHANGED <<stateRoot, multiQuery, stored, indexVars, storedFlushId,
                 storingFlushId, sender, flushDataSem, reader, database,
                 history>>

\* MultiWriteData::Reset() of the set i.
Reset(i) ==
  /\ accepted' = [accepted EXCEPT ![i] = {}]
  /\ intray' = [intray EXCEPT ![i] = {}]
  /\ stateRoot' = [stateRoot EXCEPT ![i] = 0]
  /\ multiQuery' = [multiQuery EXCEPT ![i] = NoQueries]
  /\ stored' = [stored EXCEPT ![i] = FALSE]

\* flush() with config.dbReadOnly only frees the memory of the pending set.
FlushReadOnly ==
  /\ readOnly
  /\ Reset(pending)
  /\ UNCHANGED <<indexVars, flushIds, sender, flushDataSem, reader,
                 database, history>>

-----------------------------------------------------------------------------
(* dbSenderThread and sendData(). *)

\* Mutant: a failed set is forgotten when nothing new is pending.
SenderFindsNothingForgetful ==
  /\ sender = "wait"
  /\ IsEmpty(pending)
  /\ storedFlushId' = lastFlushId
  /\ UNCHANGED <<dataVars, indexVars, lastFlushId, storingFlushId, sender,
                 flushDataSem, reader, database, history>>

\* Mutant: an empty flush is not reported.
SenderFindsNothingSilent ==
  /\ sender = "wait"
  /\ ~multiQuery[storing].built
  /\ IsEmpty(pending)
  /\ UNCHANGED <<dataVars, indexVars, flushIds, sender, flushDataSem, reader,
                 database, history>>

\* Nothing failed and nothing is pending: every flush so far is stored.
SenderFindsNothing ==
  /\ sender = "wait"
  /\ ~multiQuery[storing].built
  /\ IsEmpty(pending)
  /\ storedFlushId' = lastFlushId
  /\ UNCHANGED <<dataVars, indexVars, lastFlushId, storingFlushId, sender,
                 flushDataSem, reader, database, history>>

\* The pending set, intray included, becomes the storing set; the next set is
\* reset and becomes the pending one.
SwapSets ==
  LET next == Advance(pending)
  IN  /\ storing' = Advance(storing)
      /\ pending' = next
      /\ accepted' = [accepted EXCEPT ![pending] = @ \cup intray[pending],
                                      ![next] = {}]
      /\ intray' = [intray EXCEPT ![pending] = {}, ![next] = {}]
      /\ stateRoot' = [stateRoot EXCEPT ![next] = 0]
      /\ multiQuery' = [multiQuery EXCEPT ![next] = NoQueries]
      /\ stored' = [stored EXCEPT ![next] = FALSE]

\* Mutant: the flush identifier of the swapped set is not recorded.
SenderSwapsUnrecorded ==
  /\ sender = "wait"
  /\ ~multiQuery[storing].built
  /\ ~IsEmpty(pending)
  /\ SwapSets
  /\ sender' = "connect"
  /\ UNCHANGED <<synchronizing, flushIds, flushDataSem, reader, database,
                 history>>

SenderSwaps ==
  /\ sender = "wait"
  /\ ~multiQuery[storing].built
  /\ ~IsEmpty(pending)
  /\ SwapSets
  /\ storingFlushId' = lastFlushId
  /\ sender' = "connect"
  /\ UNCHANGED <<synchronizing, lastFlushId, storedFlushId, flushDataSem,
                 reader, database, history>>

\* Mutant: a set sent again is recorded with the latest flush identifier.
SenderResumesRenumbering ==
  /\ sender = "wait"
  /\ multiQuery[storing].built
  /\ sender' = "connect"
  /\ storingFlushId' = lastFlushId
  /\ UNCHANGED <<dataVars, indexVars, lastFlushId, storedFlushId,
                 flushDataSem, reader, database, history>>

\* The last sendData() failed: send the same queries again, without a swap.
SenderResumes ==
  /\ sender = "wait"
  /\ multiQuery[storing].built
  /\ sender' = "connect"
  /\ UNCHANGED <<dataVars, indexVars, flushIds, flushDataSem, reader,
                 database, history>>

\* sendData() takes a connection and, unless an earlier try left its queries,
\* builds them: the nodes, then the programs, then the root.  Without the pool
\* the connection is taken by locking connMutex until sendData() returns.
SenderConnects ==
  /\ sender = "connect"
  /\ ~connBlocked
  /\ multiQuery' = [multiQuery EXCEPT ![storing] =
                      IF @.built THEN @
                                 ELSE [built  |-> TRUE,
                                       unsent |-> accepted[storing],
                                       root   |-> stateRoot[storing] # 0]]
  /\ sender' = "send"
  /\ UNCHANGED <<accepted, intray, stateRoot, stored, indexVars, flushIds,
                 flushDataSem, reader, database, history>>

\* Mutant: the root may be sent before the nodes.
IsNextQueryUnordered(chunk, withRoot) ==
  LET q == multiQuery[storing]
  IN  /\ q.built
      /\ chunk \subseteq q.unsent
      /\ withRoot => q.root
      /\ chunk # {} \/ withRoot

\* The next unsent query holds the keys of chunk, and the root when it is the
\* last query.  How a set is cut into queries depends on the length of the SQL
\* text: any cut in this order is possible.
IsNextQuery(chunk, withRoot) ==
  LET q == multiQuery[storing]
  IN  /\ q.built
      /\ chunk \subseteq q.unsent
      /\ chunk \cap Programs # {} => q.unsent \cap Nodes \subseteq chunk
      /\ withRoot => q.root /\ chunk = q.unsent
      /\ chunk # {} \/ withRoot

CanSend == sender = "send" /\ ~connBlocked

\* One transaction on the database.
CommitQuery(chunk, withRoot) ==
  /\ CanSend
  /\ ~readOnly
  /\ IsNextQuery(chunk, withRoot)
  /\ dbItems' = dbItems \cup chunk
  /\ dbRoot' = IF withRoot THEN stateRoot[storing] ELSE dbRoot

\* w.commit() returns and the query is marked as sent.
SendQuery(chunk, withRoot) ==
  /\ CommitQuery(chunk, withRoot)
  /\ multiQuery' = [multiQuery EXCEPT ![storing].unsent = @ \ chunk,
                                      ![storing].root = @ /\ ~withRoot]
  /\ UNCHANGED <<accepted, intray, stateRoot, stored, indexVars, flushIds,
                 sender, flushDataSem, reader, connBlocked, history>>

\* The catch of sendData().  queryFailed() locks connMutex: with the pool
\* sendData() returns an error, without it this thread holds connMutex itself
\* and waits for ever.
SendDataCatches ==
  \/ dbConnectionsPool /\ sender' = "wait" /\ UNCHANGED connBlocked
  \/ ~dbConnectionsPool /\ connBlocked' = TRUE /\ UNCHANGED sender

\* The transaction commits, but the answer is lost: an exception is raised and
\* the query stays unsent.
SendQueryReplyLost(chunk, withRoot) ==
  /\ CommitQuery(chunk, withRoot)
  /\ SendDataCatches
  /\ UNCHANGED <<dataVars, indexVars, flushIds, flushDataSem, reader,
                 history>>

\* Mutant: dbSenderThread takes the failure for a success.
SendQueryFailsUnnoticed ==
  /\ CanSend
  /\ multiQuery[storing].built
  /\ sender' = "notify"
  /\ UNCHANGED <<dataVars, indexVars, flushIds, flushDataSem, reader, database,
                 history>>

\* The connection or the query fails: an exception, with nothing stored.
SendQueryFails ==
  /\ CanSend
  /\ multiQuery[storing].built
  /\ \E chunk \in SUBSET Items, withRoot \in BOOLEAN :
       IsNextQuery(chunk, withRoot)
  /\ SendDataCatches
  /\ UNCHANGED <<dataVars, indexVars, flushIds, flushDataSem, reader,
                 dbItems, dbRoot, history>>

\* Mutant: the queries are not cleared once they are all sent.
SendDataReturnsUncleared ==
  /\ CanSend
  /\ multiQuery[storing].built
  /\ multiQuery[storing].unsent = {}
  /\ ~multiQuery[storing].root
  /\ stored' = [stored EXCEPT ![storing] = TRUE]
  /\ storedFlushId' = storingFlushId
  /\ sender' = "notify"
  /\ UNCHANGED <<accepted, intray, stateRoot, multiQuery, indexVars,
                 lastFlushId, storingFlushId, flushDataSem, reader, database,
                 history>>

\* The end of sendData(), with its own locked section and the release of the
\* connection.
SendDataReturns ==
  /\ CanSend
  /\ multiQuery[storing].built
  /\ multiQuery[storing].unsent = {}
  /\ ~multiQuery[storing].root
  /\ multiQuery' = [multiQuery EXCEPT ![storing] = NoQueries]
  /\ stored' = [stored EXCEPT ![storing] = TRUE]
  /\ storedFlushId' = storingFlushId
  /\ sender' = "notify"
  /\ UNCHANGED <<accepted, intray, stateRoot, indexVars, lastFlushId,
                 storingFlushId, flushDataSem, reader, database, history>>

\* Mutant: synchronizingDataIndex is not advanced.
SenderNotifiesStuck ==
  /\ sender = "notify"
  /\ storedFlushId' = storingFlushId
  /\ flushDataSem' = IF flushDataSem < MaxSem THEN flushDataSem + 1
                                             ELSE flushDataSem
  /\ sender' = "wait"
  /\ UNCHANGED <<dataVars, indexVars, lastFlushId, storingFlushId, reader,
                 database, history>>

\* Back in dbSenderThread, sendData() having succeeded.
SenderNotifies ==
  /\ sender = "notify"
  /\ storedFlushId' = storingFlushId
  /\ synchronizing' = Advance(synchronizing)
  /\ flushDataSem' = IF flushDataSem < MaxSem THEN flushDataSem + 1
                                             ELSE flushDataSem
  /\ sender' = "wait"
  /\ UNCHANGED <<dataVars, pending, storing, lastFlushId, storingFlushId,
                 reader, database, history>>

-----------------------------------------------------------------------------
(* The cache synchronization client and the readers. *)

GetFlushData ==
  /\ flushDataSem > 0
  /\ flushDataSem' = flushDataSem - 1
  /\ UNCHANGED <<dataVars, indexVars, flushIds, sender, reader, database,
                 history>>

InSet(x, i) == x \in accepted[i] \cup intray[i]

\* Mutant: the set being stored is not searched.
FindNodePendingOnly(x) == InSet(x, pending)

FindNode(x) ==
  \/ InSet(x, pending)
  \/ storingFlushId # storedFlushId /\ x \in accepted[storing]

\* Mutant: the guard that findNode() has and findProgram() has not.
FindProgramGuarded(x) ==
  \/ InSet(x, pending)
  \/ storingFlushId # storedFlushId /\ x \in accepted[storing]

FindProgram(x) == InSet(x, pending) \/ x \in accepted[storing]

Find(x) == IF x \in Nodes THEN FindNode(x) ELSE FindProgram(x)

\* A key neither in the caches nor found in memory is asked to the database.
\* Only a node is asked again when it is not found.  A key that nobody wrote is
\* rightly missing: such reads are left out.
ReadMissesMemory(p, x) ==
  /\ reader[p] = NotReading
  /\ x \in Written \cup dbItems
  /\ ~Find(x)
  /\ reader' = [reader EXCEPT ![p] =
                  [key   |-> x,
                   tries |-> IF x \in Nodes THEN ReadRetries ELSE 0]]
  /\ UNCHANGED <<dataVars, indexVars, flushIds, sender, flushDataSem, database,
                 history>>

\* readRemote() gets a connection; without the pool there is one, which is its
\* user's as long as connMutex is locked.
CanQuery(p) ==
  /\ reader[p] # NotReading
  /\ ~connBlocked
  /\ dbConnectionsPool \/ sender # "send"

ReadFindsRow(p) ==
  /\ CanQuery(p)
  /\ reader[p].key \in dbItems
  /\ reader' = [reader EXCEPT ![p] = NotReading]
  /\ UNCHANGED <<dataVars, indexVars, flushIds, sender, flushDataSem, database,
                 history>>

\* No row, or an error of the database that readRemote() returned from: ask
\* again after dbReadRetryDelay.
ReadRetriesRow(p) ==
  /\ CanQuery(p)
  /\ dbConnectionsPool \/ reader[p].key \notin dbItems
  /\ reader[p].tries > 0
  /\ reader' = [reader EXCEPT ![p].tries = @ - 1]
  /\ UNCHANGED <<dataVars, indexVars, flushIds, sender, flushDataSem, database,
                 history>>

\* ZKR_DB_ERROR: the batch fails, the key is not said to be missing.
ReadFails(p) ==
  /\ CanQuery(p)
  /\ dbConnectionsPool
  /\ reader[p].tries = 0
  /\ reader' = [reader EXCEPT ![p] = NotReading]
  /\ UNCHANGED <<dataVars, indexVars, flushIds, sender, flushDataSem, database,
                 history>>

\* An error without the pool: queryFailed() waits for the connMutex that
\* getConnection() has locked.
ReadBlocks(p) ==
  /\ CanQuery(p)
  /\ ~dbConnectionsPool
  /\ connBlocked' = TRUE
  /\ UNCHANGED <<dataVars, indexVars, flushIds, sender, flushDataSem, reader,
                 dbItems, dbRoot, history>>

\* ZKR_DB_KEY_NOT_FOUND.
ReadFindsNoRow(p) ==
  /\ CanQuery(p)
  /\ reader[p].tries = 0
  /\ reader[p].key \notin dbItems
  /\ reader' = [reader EXCEPT ![p] = NotReading]
  /\ UNCHANGED <<dataVars, indexVars, flushIds, sender, flushDataSem, database,
                 history>>

-----------------------------------------------------------------------------
\* The process dies and starts again: only the database survives.
Crash ==
  /\ accepted' = [i \in DataSets |-> {}]
  /\ intray' = [i \in DataSets |-> {}]
  /\ stateRoot' = [i \in DataSets |-> 0]
  /\ multiQuery' = [i \in DataSets |-> NoQueries]
  /\ stored' = [i \in DataSets |-> FALSE]
  /\ pending' = 0 /\ storing' = 2 /\ synchronizing' = 2
  /\ lastFlushId' = 0 /\ storedFlushId' = 0 /\ storingFlushId' = 0
  /\ sender' = "wait"
  /\ flushDataSem' = 0
  /\ reader' = [p \in Readers |-> NotReading]
  /\ stamp' = [x \in Items |-> Unwritten]
  /\ rootStamp' = [r \in Roots |-> Unwritten]
  /\ rootItems' = [r \in Roots |-> IF r = dbRoot THEN rootItems[r] ELSE {}]
  /\ connBlocked' = FALSE
  /\ UNCHANGED <<dbItems, dbRoot>>

Batch ==
  \/ \E x \in Items : WriteRemote(x)
  \/ \E r \in Roots : UpdateStateRoot(r)
  \/ SemiFlush
  \/ Flush
  \/ FlushReadOnly

Sender ==
  \/ SenderFindsNothing
  \/ SenderSwaps
  \/ SenderResumes
  \/ SenderConnects
  \/ \E chunk \in SUBSET Items, withRoot \in BOOLEAN :
       SendQuery(chunk, withRoot)
  \/ \E chunk \in SUBSET Items, withRoot \in BOOLEAN :
       SendQueryReplyLost(chunk, withRoot)
  \/ SendQueryFails
  \/ SendDataReturns
  \/ SenderNotifies

Read(p) ==
  \/ \E x \in Items : ReadMissesMemory(p, x)
  \/ ReadFindsRow(p)
  \/ ReadRetriesRow(p)
  \/ ReadFails(p)
  \/ ReadBlocks(p)
  \/ ReadFindsNoRow(p)

Next ==
  /\ \/ Batch
     \/ Sender
     \/ GetFlushData
     \/ \E p \in Readers : Read(p)
     \/ Crash
  /\ UNCHANGED config

Spec == Init /\ [][Next]_vars

-----------------------------------------------------------------------------
(* Properties. *)

\* Every variable has its type, and the fields that the code keeps empty
\* outside the set being sent are empty there.
TypeOK ==
  /\ accepted \in [DataSets -> SUBSET Items]
  /\ intray \in [DataSets -> SUBSET Items]
  /\ stateRoot \in [DataSets -> Roots \cup {0}]
  /\ multiQuery \in [DataSets -> [built : BOOLEAN, unsent : SUBSET Items,
                                  root : BOOLEAN]]
  /\ stored \in [DataSets -> BOOLEAN]
  /\ pending \in DataSets /\ storing \in DataSets /\ synchronizing \in DataSets
  /\ lastFlushId \in Nat /\ storedFlushId \in Nat /\ storingFlushId \in Nat
  /\ readOnly \in BOOLEAN /\ dbConnectionsPool \in BOOLEAN
  /\ sender \in SenderStates
  /\ flushDataSem \in Nat
  /\ reader \in [Readers -> Requests \cup {NotReading}]
  /\ connBlocked \in BOOLEAN
  /\ dbItems \in SUBSET Items /\ dbRoot \in Roots \cup {0}
  /\ stamp \in [Items -> Nat \cup {Unwritten}]
  /\ rootStamp \in [Roots -> Nat \cup {Unwritten}]
  /\ rootItems \in [Roots -> SUBSET Items]

\* A set being sent: taken from the batches and not yet marked as stored.
Unstored == sender \in {"connect", "send"} \/ multiQuery[storing].built

\* The three roles rotate together: the set after the storing one collects the
\* batches, and the set handed to synchronization clients is the last one that
\* was stored.  So no batch writes into a set that dbSenderThread or a client
\* reads outside the lock, and the Reset() of a swap frees neither.
RolesRotate ==
  /\ pending = Advance(storing)
  /\ synchronizing = IF Unstored \/ sender = "notify" THEN Advance(pending)
                                                      ELSE storing
  /\ intray[storing] = {} /\ intray[synchronizing] = {}
  /\ \A i \in DataSets : multiQuery[i].built => i = storing

\* sendData() is never entered with an empty set or with one already stored:
\* its two early returns, and the branch of dbSenderThread for a swap that
\* took no data, are unreachable, and so is a swap over unsent data.
SendsOnlyUnstoredData ==
  Unstored => ~stored[storing] /\ ~IsEmpty(storing)

\* The identifiers a client is told are ordered: nothing is reported as stored
\* that no flush() returned, and what is being sent is not reported as stored
\* beyond the identifier it will be reported with.
FlushIdsOrdered ==
  /\ storedFlushId <= lastFlushId
  /\ storingFlushId <= lastFlushId
  /\ Unstored => storedFlushId <= storingFlushId

\* What a client was told is stored is in the database: every item written
\* before flush n once storedFlushId reaches n, and a state root at least as
\* recent as the one set before flush n.
ReportedIsStored ==
  /\ \A x \in Written : stamp[x] < storedFlushId => x \in dbItems
  /\ \A r \in Roots :
       rootStamp[r] # Unwritten /\ rootStamp[r] < storedFlushId => dbRoot >= r

\* The root in the database always has its whole tree there, whatever queries
\* failed, were sent twice or were lost in a crash.
StoredRootHasItsTree == dbRoot # 0 => rootItems[dbRoot] \subseteq dbItems

\* No written item disappears between the sets: it is in the database, or in
\* the pending set, or in the set being sent.
NothingIsLost ==
  ~readOnly =>
    \A x \in Written : \/ x \in dbItems
                       \/ InSet(x, pending)
                       \/ Unstored /\ x \in accepted[storing]

\* A reader whose last query is about to run, for a key of the given kind, gets
\* a row: the key was written before the read began.
LastReadsHit(kind) ==
  ~readOnly =>
    \A p \in Readers :
      reader[p] # NotReading =>
        (reader[p].key \in kind /\ reader[p].tries = 0
           => reader[p].key \in dbItems)

\* A program written before is found by every later getProgram(), although the
\* set that holds it may be swapped and stored between the lookup in memory and
\* the query to the database, and although no query is repeated.
ProgramsAreFound == LastReadsHit(Programs)

\* A node that findNode() does not see and the database does not hold yet was
\* taken by dbSenderThread between its write() and the flush() of its batch,
\* with nothing else to store.
OnlyUnflushedNodesAreHidden ==
  ~readOnly =>
    \A x \in Written \cap Nodes :
      \/ x \in dbItems
      \/ FindNode(x)
      \/ /\ x \in accepted[storing]
         /\ stamp[x] = storingFlushId
         /\ storedFlushId = storingFlushId

\* getFlushData() hands out only what the database holds, although it runs at
\* any time of the rotation.
HandedOutIsStored ==
  /\ accepted[synchronizing] \subseteq dbItems
  /\ stateRoot[synchronizing] <= dbRoot

\* The buffer implements the log of FlushLog.tla.
Log == INSTANCE FlushLog WITH
  last <- lastFlushId, acked <- storedFlushId,
  disk <- dbItems, diskRoot <- dbRoot

ImplementsLog == Log!Spec

\* Every flush() is eventually reported as stored, unless the process dies or,
\* without the pool of connections, a failed query has blocked connMutex: then
\* nothing is stored any more.
FlushIsStored ==
  \A n \in 1 .. MaxFlushId :
    lastFlushId >= n ~> \/ storedFlushId >= n
                        \/ lastFlushId < n
                        \/ connBlocked /\ ~dbConnectionsPool

\* The thread keeps running, and a query that is tried again and again is
\* accepted by the database in the end.
Fairness ==
  /\ WF_vars(SenderFindsNothing /\ UNCHANGED config)
  /\ WF_vars(SenderSwaps /\ UNCHANGED config)
  /\ WF_vars(SenderResumes /\ UNCHANGED config)
  /\ WF_vars(SenderConnects /\ UNCHANGED config)
  /\ SF_vars(\E chunk \in SUBSET Items, withRoot \in BOOLEAN :
               SendQuery(chunk, withRoot) /\ UNCHANGED config)
  /\ WF_vars(SendDataReturns /\ UNCHANGED config)
  /\ WF_vars(SenderNotifies /\ UNCHANGED config)

FairSpec == Spec /\ Fairness

\* What the comments of Database::read() and MultiWrite::findNode() say: a node
\* pending to be stored in the database, but already deleted from the cache, is
\* found.  The run shows the interleaving in which it is not.
NodesAreFound == LastReadsHit(Nodes)

\* What the comment of Database::flush() says of a read-only database: its data
\* is only freed, never sent.  dbSenderThread tries to send it nevertheless.
ReadOnlySendsNothing ==
  readOnly => \A i \in DataSets : ~multiQuery[i].built
===============================================================================
