# A verification project for the zkEVM prover

TLA+ models of the stateful and concurrent parts of the prover under `src/`, the
TLC configurations that check them, and TLAPS proofs of what matters most. Every
definition is read from the code; `PROJECT.json` ("map") gives the lines each
one stands for, and the mutants beside the runs show, for every property, a
plausible bug in that code which breaks it.

    tlc -workers 2 -config MCMultiWrite.cfg MCMultiWrite     # one per run
    tlapm MultiWriteProofs.tla     # and ProverQueueProofs, AggregatorStreamProofs,
                                   # DatabaseReadsProofs, StateManagerProofs,
                                   # LinkedListProofs, NodeCachesProofs, SmtProofs

## 1. The system

The process answers three gRPC clients: a sequencer asks the *executor* to run
batches, an *aggregator* asks for proofs, and other processes read and write the
*HashDB*. A batch is executed by the main state machine, an interpreter of a ROM,
which keeps accounts and storage in a sparse Merkle tree; nodes and programs go
to PostgreSQL through caches and a write buffer; a proof runs the batch again and
feeds the secondary state machines, whose columns go to the STARK prover.

    aggregator --stream--> AggregatorClient --> Prover queues --> proverThread
    sequencer --ProcessBatch--> ExecutorService --> MainExecutor (ROM)
         MainExecutor --> HashDB --> Smt --> StateManager --flush--> Database
                                     Database --> caches, MultiWrite
                                     dbSenderThread: MultiWrite --> PostgreSQL
         cache synchronization client <--getFlushData-- MultiWrite
    proverThread --> Executor --> secondary state machines --> STARK prover

| Component (src/src/...) | State it keeps | Operations | What is hard | What makes it correct |
|---|---|---|---|---|
| Multi-write buffer (`hashdb/multi_write*`, `hashdb/database.cpp`) | three data sets in rotation, three flush identifiers, unsent queries | write, setProgram, updateStateRoot, semiFlush, flush, the sender's loop, getFlushData, read | three kinds of threads; a failed or doubtful transaction; restart | identifiers reported as stored are; nothing is lost; the root in the database has its tree |
| Request queue (`prover/prover.cpp`, `service/aggregator`) | pending and completed requests, the map, a semaphore | submitRequest, the prover's loop, cleaner, GetStatus, GetProof, Cancel | a pop made without the mutex; semaphore posts that outlive their request | every request is computed once, in order; answers are true; no wake-up is lost |
| Sparse Merkle tree (`hashdb/smt.cpp`) | none of its own: trees of nodes | set (seven modes), get | splits and merges of leaves at any depth | the root depends on the contents alone; no node is missing; freed nodes are unused |
| Storage state machine (`sm/storage`) | registers of its ROM | one latch per set or get | agreement with Smt on every mode | every result of Smt latches |
| State manager (`hashdb/state_manager.cpp`) | per batch: txs, sub-states, node pool | setOldStateRoot, write, deleteNode, setNewStateRoot, read, semiFlush, flush | reverts and errors that cut the chain of roots; purging | the flushed tree is complete; only the final root is stored |
| Connection pool (`hashdb/database.cpp:463-547`) | connections in use, a disconnect mark | get, dispose, queryFailed | exhaustion; failures seen by one user of many | no connection is shared; a failed one is made anew |
| Reads and writes without the write buffer (`hashdb/database.cpp:551-1153`) | none beyond the calls | read, getProgram, write, setProgram, clearCache | fallbacks from the cache to the tree to the row, retries, failures in the middle | what is stored is found; what is cached is stored; every call ends |
| Caches (`hashdb/database_cache*`, `database_associative_cache*`) | LRU list; ring with several indexes | add, find, extend, evict | wrap-around of a counter, chains of displaced entries | a hit returns the value stored under that key |
| Aggregator stream and watchdog (`service/aggregator`, `utils/watchdog.cpp`) | the stream, a timer | read, dispatch, write, reconnect | reconnection while a proof is computed | a stalled stream ends the process, a live one does not; a job is proved once, and in the end |
| Executor threads (`executor/executor.cpp`) | the columns, per-machine inputs | ten secondary machines in six threads | who reads what another writes | the threads give what the sequential order gives |
| Main state machine (`main_sm/fork_*`) | registers, memory, contexts | one ROM line | its program is data | the ROM's meaning |
| Secondary state machines (`sm/*`) | columns | one pass over inputs | numerical | columns satisfy the PIL |
| HashDB service and remote client (`service/hashdb`) | none | conversions of calls | configuration switches | equal to the local calls |
| Executor service | none | ProcessBatch, GetFlushStatus | conversions | - |
| Batch, aggregated and final proofs (`prover/prover.cpp`) | files, buffers | a straight pipeline | size | verified by the STARK verifier |
| STARK prover (`starkpil`) | transcripts, Merkle trees, polynomials | commit, challenge, FRI | numerical | soundness of the protocol |
| HashDB64 (`hashdb64`) | as hashdb | as hashdb | as hashdb | as hashdb |

`PROJECT.json` "components" lists the rest (configuration, gate circuits,
generators, vendored code) and why they are left aside; "hazards" lists, at its
line, what a test of this code would hardly reach, and which property is about it.

## 2. The modules

### FlushLog, MultiWrite: the write buffer

`FlushLog` is what `Database::flush()` promises: writes are numbered by the flush
that follows them, a number is acknowledged only when everything it covers is on
disk, and a root appears on disk only with its whole tree, even across a crash.
`MultiWrite` is the code: the sets `data[0..2]` become the functions `accepted`,
`intray`, `stateRoot`, `multiQuery` and `stored`; the indexes keep their names
without "DataIndex". One action is one section under `MultiWrite::mutex`, or one
database transaction of `sendData()`, which runs outside it.

| Actions | Code |
|---|---|
| WriteRemote, UpdateStateRoot, SemiFlush, Flush, FlushReadOnly | Database::write, setProgram, updateStateRoot, semiFlush, flush |
| SenderFindsNothing, SenderSwaps, SenderResumes, SenderNotifies | dbSenderThread |
| SenderConnects, SendQuery, SendQueryReplyLost, SendQueryFails, SendDataReturns | Database::sendData |
| GetFlushData | Database::getFlushData |
| ReadMissesMemory, ReadFindsRow, ReadRetriesRow, ReadFails, ReadFindsNoRow, ReadBlocks | Database::read, readRemote, getProgram |
| Crash | end and restart of the process |

`SendQueryReplyLost` is the transaction that commits and whose answer is lost: the
query is sent again, which the SQL's `ON CONFLICT` makes harmless. How a set is cut
into queries depends on text lengths, so any cut in the order nodes, programs,
root is allowed.

Without the connection pool (`dbConnectionsPool` false) a thread holds `connMutex`
from getConnection() to disposeConnection(), and queryFailed() locks it again: in
the `catch` of sendData() (database.cpp:1561), or of readRemote() (598), the thread
waits for itself, for good. This is `connBlocked` (`SendDataCatches`, `ReadBlocks`):
from then on no query is made by anyone. `PoolModes` has the values the setting may
take; config_prover.json and config_statedb.json ship with dbMultiWrite on and the
pool off.

`stamp`, `rootStamp` and `rootItems` are history, read by the
properties only. The semaphores' timed wait may end at any time.

### ProverQueue: the request queue

`proverThread`, the thread of the aggregator client and `cleanerThread`, with the
mutex and the semaphore. `sem_wait()` comes back without the mutex and the thread
goes on to pop and then to unlock (`prover.cpp:202-220`): the module has these
steps as they are. A critical section on a container takes two actions, what is
read and what is written back, so that two sections that overlap can lose an
update. A computation may fail: the request is then completed with a result that is
not ZKR_SUCCESS (`failed`), and GetProof answers RESULT_COMPLETED_ERROR.
`CleanerRuns` says whether the cleaner, which sleeps for long, wakes in the
time modelled. Its client makes any call at any time: what a well-behaved
aggregator gets from the queue is the subject of the next module.

### AggregatorStream: the stream, the watchdog and the queue together

`AggregatorStream` extends `ProverQueue` with `aggregatorClientThread`, its watchdog,
the stream, and the aggregator at its other end; the calls of the client are now
the ones the messages ask for.

| Actions | Code |
|---|---|
| Connects, ReachesMaxStreams | aggregator_client.cpp: the outer loop, with aggregatorClientMaxStreams |
| Reads, StreamLocks, StreamServes, StreamRejects, Writes | one turn of the inner loop: Read, the call of the prover, Write; restart of the watchdog |
| FindsItBroken, WakesUp | Read or Write fails: stop of the watchdog, sleep, next stream |
| WatchdogExits, and Exits as part of an action | utils/watchdog.cpp: exitProcess; a new process with empty queues |
| ProverRuns | proverThread, with the steps of ProverQueue |
| LinkFails | external: the stream breaks, or goes silent so that Read never returns |
| AsksStatus, AsksFor, Polls, Errs, Hears | external: the aggregator |

The aggregator sends one message at a time, gives a job only to a prover that told it
in this stream to be idle, polls with the identifier it got, and asks again when
that identifier is unknown or its computation failed. A member of `Workloads` says
which jobs it wants and how often something goes wrong, counting the faults of the
outside and the failed computations (`Troubles`). `Errs` lets it cancel or send a message that fails its
checks. A process that exits is started again by its supervisor. The cleaner is
off: a completed request is kept for `requestsPersistence`, an hour, and polls come
faster. The identifier of a request is a UUID, so it is fresh across processes.

### DatabaseReads: the database without the write buffer

`Database` with dbMultiWrite off, with any number of threads inside: the pool, or
the single connection whose mutex is held from get to dispose; the caches, which
are abstract here; the server, which may restart and break every open connection,
refuse a query or a new connection, and which other processes write to. An action
runs to the next access to shared state.

| Actions | Code |
|---|---|
| ReadsCached, ReadsRemote, Writes, WritesVolatile | the entry of Database::read, getProgram, write, setProgram |
| GetsConnection, Disposes, MarksFailed | getConnection, disposeConnection, queryFailed |
| RunsOut | getConnection() finds every connection of the pool in use: exitProcess (database.cpp:479-483) |
| Queries, QueryBreaks | the query of readTreeRemote (get_tree), readRemote, writeRemote; its exception |
| CachesRow, CachesKey | the additions to a cache: row by row for a tree, one key otherwise |
| FindsAgain, MissesAgain | after a tree: the look into the cache, and the fall back to the row |
| Clears | clearCache |
| Restarts, Arrives | external: the server, other processes |

`get_tree` walks a key's path from a root; the model has a fixed path for each node
(`Path`), which is all that a call sees of it. Any exception of a query counts as a
failed try (database.cpp:598, 711, 781). One on a connection older than the last
restart is certain to come, or the connection is opened again first; any other one,
such as a server that is down and refuses the new connection, or a transient error,
is a refusal and may meet any query. A long outage is a restart and as many refusals
as tries fall into it. A write whose query fails may have been committed.

The pool may be too small. initRemote() compares it with the threads of the HashDB
and executor servers that run, plus one for the sender (database.cpp:388-402), and
with nothing when no server runs; the prover's thread, and others that read, it does
not count. `PoolAssumption` is this check and no more: `ServerThreads` are the
threads that it counts, `Threads` all that call.

A member of `Workloads` says which threads make calls, of which keys, how many, and
how often the server restarts or refuses. `wasStored`, `since`, `failedAt` and
`refused` are history. createConnection is the initial state.

### LruCache, DatabaseCache, AssociativeCache, NodeCaches: the caches

`LruCache` is the promise of a cache of limited size: the keys in order of use, of
which some of the oldest may be gone, never the newest. `DatabaseCache` is the code
of the linked list as operators on a record (`head`, `last`, and two pointers in
each entry); `AssociativeCache` that of the ring: a key has four places in the table
of indexes, an index is stale when it lags behind by the size of the ring, the
counter is unsigned and wraps, and forcedInsertion displaces along a chain of
places. `NodeCaches` is the machine of any sequence of calls on either. A chain that
comes back to a displaced entry, or is ten long, ends the process: `exited`.

A key's places are the constant `Place`: any, but for the state root, whose key
`dbStateRootvKey` has four equal elements (database.cpp:28) and so one place
(`PlaceAssumption`). An update of the state root relies on it: addKeyValue stops at
the first place that is stale, and with several places could leave the old value of
the root in a later one.

### SmtTree, StorageMachine, Smt: the tree

`SmtTree` translates `Smt::set` and `Smt::get` as operators on trees; Poseidon is
taken as injective, so a node is its own hash. `StorageMachine` is what the
storage ROM rebuilds from the result (mode, siblings, other key and value) and the
executor's comparison at each latch. `Smt` is the machine of any sequence of
sets. The reference, `CanonicalTree`, is defined from the contents alone.

A key is the bits that the model's trees can part by and a tail for the rest of the
hash. `KeysAssumption` says that keys have bits of one length, that no two have the
same bits (there is no level below the last to part them at) nor the same tail, and
that 0 is not a value, as Smt::set takes it for a deletion. The code has four times
64 bits and no such check: that two keys never agree in all of them, or in all that a
tree of usual depth leaves over, is a property of Poseidon. Only the freeing of nodes
needs the tails: two leaves that store the same remaining key and value would be one
node in the database, and deleting one would take the other with it.

### StateManager: the batches' sub-states

`state[b]` is the BatchState of a UUID; a tx keeps the sub-states of
PERSISTENCE_DATABASE. The tree is a parameter (`NodesUnder`, `SetsOf`) with what
`SetsAreAsAssumed` of SmtProofs proves of the real one as assumption
(`TreeAssumption`); `MCStateManager` gives it the trees of `SmtTree`. The chain that
flush() follows backwards from the current sub-state is `OnTheChain`, the least set
of sub-states that has the current one and, with each but the first, the one
`Before` it; `Kept` are those of the chain that change the root, and `Saved` the
txs that flush() gets to. The actions are what the ROM of fork 5 does to the root,
each with the calls it makes:

| Actions | ROM and code |
|---|---|
| StartBatch, SetGlobalExitRoot, SkipGlobalExitRoot | main.zkasm 16-73 |
| ProcessTx, SaveInitSR | process-tx.zkasm 30, 200 |
| SetState | any SSTORE: Smt::set, which calls setOldStateRoot, write, deleteNode, setNewStateRoot |
| Touch | an SSTORE in the tree of touched addresses (PERSISTENCE_TEMPORARY) |
| Call, Return, Revert | initSR of a context, create-terminate-context.zkasm, utils.zkasm 865 |
| UpdateSystemData | main.zkasm 134, then onFinishTx and semiFlush |
| IntrinsicError, BatchError | process-tx.zkasm 588, utils.zkasm 884, then semiFlush |
| FinishBatch | StateManager::flush |

The calls of one `Smt::set` lock the mutex one by one, but on the state of a UUID
that only one thread uses, so a set is one action. `Revert` allows more sets after
a failed first call than the ROM makes, and a set may choose any key: the model
does more than the ROM, never less.

## 3. What is checked

| Run | States | What it shows |
|---|---|---|
| multi_write | 1,817,870 | TypeOK; the three roles of the sets are distinct and rotate (RolesRotate); only unstored data is sent; identifiers are ordered; an identifier reported as stored is (ReportedIsStored); the stored root has its tree (StoredRootHasItsTree); only unflushed nodes are hidden from a reader; what getFlushData hands out is stored; and every step is a step of FlushLog (ImplementsLog) |
| multi_write_keys | 442,400 | with a node and a program: nothing is lost, a program is always found, and every flush is reported in the end (FlushIsStored), unless, without the pool, a failed query has blocked `connMutex` for good |
| prover_queue | 5,957,574 | TypeOK; NoLostWakeup: the prover never sleeps with a request pending, whatever the client calls and with the cleaner running |
| aggregator_stream | 790,014 | over broken and silent streams, restarts, cancels and bad messages: requests are processed once and in order, an IDLE heard means that all is done, GetProof answers truly, a proof that arrives is of its job and was computed without an error, a job is submitted again only after an outside fault or a failed computation of its own, the watchdog is never called out of turn, and every job is proved and delivered in the end |
| smt | 729 | all contents of six keys of four bits with values 0 to 2, and for each all sets and gets: history independence, right answers, complete and unused nodes, latches |
| state_manager | 2,363,212 | the trees a batch may go back to are readable, the flushed tree is complete, flush() never refuses a batch, only final roots are stored |
| database_read | 2,017,259 | no connection is shared or leaked, and the process ends for want of one only when at least two more threads are at work than initRemote() counted (ConnectionsAreAccounted); the retries of a call do not meet a restart of the server twice (OutageIsMetOnce); what is cached is stored or volatile; read() of a node that was stored when it began finds it, unless each of the dbReadRetryCounter + 1 queries of its row failed for a reason of its own (StoredIsFound); every call ends, unless a thread blocks itself or the process ends (EveryCallEnds) |
| node_caches | 51,391 | the list implements the abstract LRU cache (ListIsLru); a hit of either cache is the latest value of its key; what was added recently enough is found |

Four runs end in a violation, each a disagreement of the code with its own text
(section 6).

### Bounds

- `MaxFlushId` 2, two roots, one node: two flushes are needed for one set to be
  stored while the next collects, and a third would only repeat the rotation by
  three, which two swaps and a crash already pass through. Both settings of the
  pool are initial states of both passing runs. Programs are checked
  apart because the two kinds of keys meet only in the order of the queries. The
  theorems of section 5 hold for all values.
- prover_queue, two requests: one being computed and one coming in; NoLostWakeup
  needs one stale post and one pending request.
- aggregator_stream: two jobs, so that one can wait behind the other; four requests,
  enough for each job to be submitted twice; no limit of streams or a limit of one,
  which makes every reconnection an exit; one thing that goes wrong, an outside fault
  or a failed computation, with two jobs, or two of them with one job, at any step.
  The theorems hold for any number of each.
- database_read: nodes a and b with b below a, and one program; two connections; one
  retry. The cache holds 4, with entries of 3, 2 and 2, so that the tree of a does
  not fit and each node evicts the other. Three workloads, as one with all of it is
  too large: two threads with two calls of any key and one restart or refusal
  (`Pair`), because most hazards of the pool are about two; two restarts or refusals,
  enough to use up the retries, with calls of one node (`Outage`); and three threads
  that ask for one program at a time, more than the connections (`Rush`). One of the
  threads is a server's. `CHECK_DEADLOCK FALSE`: the calls are bounded, without the
  pool a failed query blocks its own thread, and the process may end.
- node_caches: four nodes and the root, whose places overlap, a ring of four and a
  counter of 15: chains of displaced entries, the wrap of the counter and the exits
  of the process all occur. The list holds 11 units. `CHECK_DEADLOCK FALSE`: a
  process that exited stays so.
- Six keys of four bits part at every level from each other, so that every mode
  is met at the root, in the middle and at the last level; deeper trees repeat
  these shapes.
- Two batches of two txs (the second is needed for a dropped tx), four sets in
  all, one nested call, trees of two keys. Four sets make a nonce, a call's set, a
  set after its revert and the system's update in one tx, or two txs of two sets.
  The last step of a batch leaves its counters at fixed values to keep the state
  space small. `CHECK_DEADLOCK FALSE`: when all batches are done the system stops.

### Fairness

Only the three liveness properties use it.

- FlushIsStored assumes that dbSenderThread keeps running (its wait is timed) and
  that a transaction which is tried again and again succeeds in the end: weak
  fairness on the sender's steps, strong fairness on the transactions. Without an end
  to the database's failures nothing is ever stored, so the code promises no more.
  Without the pool the code does not even promise this: one failed query, of the
  sender (database.cpp:1561) or of a reader (598), ends in queryFailed(), which waits
  at 539 for the mutex its own thread holds. The property excepts just that state
  (`connBlocked /\ ~dbConnectionsPool`), so with the pool it has no exception.
- EveryJobIsProved assumes that the threads run and a computation ends (weak
  fairness on ProverRuns and StreamThread), that a thread waiting for the mutex gets
  it in the end (strong fairness on the locks), which pthread mutexes under the
  loads here give, and that the aggregator keeps asking. Failed computations are
  finitely many, as faults are: a job whose computation always fails is submitted
  again for ever and never proved. A silent stream needs no
  assumption about the network: the watchdog's timeout is a step of the thread.
- EveryCallEnds assumes that each thread runs: weak fairness on its steps. It
  excepts the thread that calls queryFailed() while it holds the same mutex, which
  happens without the pool (`dbConnectionsPool` is false in config_prover.json and
  config_statedb.json): see the hazard at database.cpp:539. It also excepts the end
  of the process when the pool runs out.

## 4. Plan

Done: FlushLog and MultiWrite; ProverQueue, then its composition with the stream;
DatabaseReads with the connection pool; StateManager; LruCache and the caches;
SmtTree, StorageMachine and Smt; all with proofs.

Left, in this order:

1. The thread graph of the executor: which of the ten machines reads what another
   wrote, in the six threads and in the sequential order.
2. Reference checks of the memory and padding machines, the transcript and the
   shape of the Merkle trees.

Of composition: StateManager's `db` is what Database::write accepted, which is
MultiWrite's `accepted \cup intray \cup dbItems`; its `storedRoot` is the last root
of UpdateStateRoot, whose precondition (the caller wrote every node before) is
FinalTreeIsReadable here. The two stay apart because MultiWrite's properties do
not tell trees apart, nor StateManager's the threads of the database. DatabaseReads
uses LruCache where the code has DatabaseMTCache and DatabaseProgramCache; ListIsLru
is what allows it. Its keys are cached with the value they have everywhere, which is
HitsAreLatest for hashes.

## 5. What is proved

### MultiWriteProofs

`MultiWriteProofs` proves, for every number of nodes, programs, roots and readers:

- `Invariant`: `Spec => []IInv`, from which TypeCorrect, RolesAlwaysRotate,
  SendsUnstoredData, FlushIdsStayOrdered, ReportsAreTrue, StoredRootIsComplete,
  NothingIsEverLost, HandsOutStoredData and HiddenNodesAreUnflushed follow;
- `ProgramsAreAlwaysFound`, with one more invariant about the programs that a
  reader has asked for;
- `ImplementsTheLog`: `Spec => ImplementsLog`, each step of MultiWrite a step or a
  stutter of FlushLog.

No property is inductive alone. That an identifier is reported only when stored
needs to know what each set holds and which flush it belongs to. `IInv` says so in
five parts: SenderInv (what the sender's position says of the storing set's
queries), ProgressInv (how the three identifiers and three indexes stand to each
other), ItemsInv (where an item written at a given identifier can be: in the
database, the storing set or the pending set), RootsInv (the same for roots, whose
order is their number) and TreesInv (the tree of a root is in the database or
ahead of it in the queue). Each action has a lemma with one step per part it can
disturb. The proofs assume `ConstantsAssumption` only: nodes and programs are
distinct keys, and roots are numbered from 1.

The two invariants that make the log's promise hold across crashes rest on the
order nodes, programs, root of `IsNextQuery`: the mutant without it violates
StoredRootHasItsTree.

### ProverQueueProofs

For any requests, from `QueueAssumption`: `QueueTypes` and `NoWakeupIsLost`. The
invariant `QueueInv` adds HandsInv to the two properties: what each position of the
prover says of the queue and of the request in its hands. NoLostWakeup is then
preserved because a submission posts the semaphore in the step that makes the
request pending, and a wake is followed by a look at the queue.

### AggregatorStreamProofs

For any jobs, requests, limits and number of faults, from `QueueAssumption` and
`StreamAssumption`: OrderIsKept, IdleIsTrue, AnswersAreRight, ProofsAreRight,
WorkIsRepeatedForFaultsOnly, WatchdogIsInTurn. The invariant `StreamInv` has five
parts:

- ShapeInv: where the threads are and what they hold; there is one message at a
  time, and only on a stream that is up;
- OrderInv: at most one submitted request is not completed, and where it is (this
  is why the order of two requests is never at stake, although the pop is made
  without the mutex);
- QuietInv: an IDLE that was heard, or is on its way, stays true until the next
  GenProof;
- TruthInv: identifiers in messages, jobs and results belong together;
- CountInv: each submission of a job is the one that the aggregator now follows, or
  one whose computation failed, or has a fault of its own. A request whose answer was
  lost on a broken stream and one that died with its process are both paid for by the
  fault that caused it; the bound of the property follows by cardinality. That a
  request answered as failed is among the failed ones, and one whose proof arrives is
  not, is ComputedInv and ResultsInv of TruthInv: what a running process knows of its
  requests agrees with what all processes have computed.

### DatabaseReadsProofs

For any threads, keys, sizes and retries, from `ReadsAssumption` and `PoolAssumption`
(just what initRemote() checks): TypesAreKept, PoolIsAccounted, CachesAreStored,
OutagesAreMetOnce and StoredNodesAreFound. `PoolInv` says which thread has which
connection and how many are in use. If getConnection() finds none free, as many
other threads have one as there are connections (pigeonhole); with the one that asks
they are more than the pool has, and taking the servers' threads from them leaves
two that initRemote() did not count (`RunsOutOfThreads`, `TwoAreUncounted`).
`CacheInv` (what a thread is about to cache is stored already), `OutageInv` (once a
call has met a restart, every connection is new, or marked to be opened again) and
`ReadInv` (a call that goes on after a failure has met as many restarts and refusals
as it has retried) build on it.

### StateManagerProofs

For any number of batches, txs, sets and nested calls and any trees, from
`TreeAssumption` and `BoundsAssumption`: TypesAreKept, CurrentTreesAreReadable,
FinalTreesAreReadable, FlushNeverRefuses; and FinalRootsAreStored where
`LateErrorNeedsExitRoot` holds, because without it the property is false (section
6). The invariant `ManagerInv` says of each batch:

- TxInv, of each tx: every sub-state leads from its old tree to its new one (Leads:
  what the new tree has beyond the old one was written, and nothing of it deleted),
  and begins at a root that an earlier one ended in (Continues). A revert or an
  error starts the next sub-state at such a root, which is why Continues cannot say
  that it is the last one's: it says that otherwise some sub-state began there
  already, and so the first sub-state that ended there is on the chain to it;
- TxsInv: the txs that made a set are chained in the same way (LedTo), across those
  that made none;
- OwnInv, RootInv: the roots that the running tx and its open calls may go back to
  are roots that a sub-state of this tx ended in, or the one the tx began at. This is
  what a later revert needs, several steps before it happens;
- BatchInv: what a phase says of the txs, and that no batch is ever refused;
- TreesInv: each root of the batch that is still of use has its nodes in the pool or
  in the database.

That flush() writes the whole final tree (`SavedLeads`) follows the chain of one tx,
then that of the txs, by the least sub-state, and the least tx, for which it would
fail. The chain is a least closed set rather than a recursive function, so no
induction over data is needed; that it is linear (each sub-state leads to one other
at most) makes a deletion on it come after the write it undoes.

### LinkedListProofs

For any keys, record sizes and limit, from `CachesAssumption`: `ListAlwaysOrdered`
and `ListImplementsLru`, that is `Spec => ListIsLru`. `ListInv` says that some
sequence of distinct keys accounts for the whole object (`IsList`): the map has its
keys, the size is the sum of theirs, `head` and `last` are its ends, and each
`next` and `prev` its neighbour. Each operation has a lemma that gives the new
sequence: a hit is `ToFront` (the head, the last and the middle record are cases of
the pointers, not of the sequence), a new record is put before it, and the loop
that evicts leaves the longest beginning that may stay. That loop and the walk along
`next` are recursive functions of a number of turns: that each is defined is
`Iterated`, and what holds of its turns is shown by the first turn for which it
would not (`LeastNumber`). The sizes of sequences are handled in the same way.

### NodeCachesProofs

For any keys, places, size of the ring and width of its counter, from
`CachesAssumption` and `PlaceAssumption`: RingLosesNoEntry (RecentEntriesAreFound)
and CachesAnswerLatest (HitsAreLatest, with `ListInv` for the list). `RingInv` says
that the entry written a entries ago has number `Number(c, a)`, counted back from
the counter across its wrap; that the last cacheSize keys are in the slots of their
numbers; that each entry has the last value of its key; and, until the process
ends, that each number is in a place of its entry's key.

- A number is fresh exactly while its entry is in the ring (NumbersAreFresh), and the
  number that becomes stale is the one whose slot is written: arithmetic modulo
  cacheSize, which divides the range of the counter.
- Along forcedInsertion() (`ChainInv`) each number has a place but the one in hand,
  whatever is displaced, so the end of the chain restores the invariant or ends the
  process.
- While the ring is filled for the first time, places still hold the number they were
  made with. It is stale until then, and `Filling` says that it is not taken for a
  slot that is empty.

### SmtProofs

For any keys, any depth and any values, from `KeysAssumption`: TreeInvariant,
RootsAgree (RootIsCanonical), GetsReadBack (GetsAreRight), TreesAreCovered
(NewTreeIsCovered), PurgeIsSafe (FreedNodesAreUnused), ResultsLatch (LatchesHold); and
SetsAreAsAssumed, which closes the assumption of StateManager. `SmtInv` says that the
root is the tree of the contents. That one set preserves it is the whole content:

- The reference. `TreeOf(c)` is the tree of contents c as a function of prefixes; it
  exists because a prefix refers to longer ones only, and what stands at a prefix
  (`NodeTells`) is empty, a leaf or a branch as there are no, one or many keys below.
- The way down. As long as every place above has many keys below (`Open`), what Smt
  meets at a level is the tree at that prefix of the key (`PathIs`), so the way ends
  at the first prefix that has not (`DescentIs`).
- The change. Each of the seven modes puts at some level the node that the tree of
  the new contents has at that prefix, and that level is still below branches only
  (`Changes`, one lemma per mode). Two are not one step: an insert that finds another
  leaf builds a fork down to where the two keys part (`Forks`), and a delete that
  leaves one leaf alone lifts it to the first level with another child (`StopsAt`).
- The way up. A climb that joins the siblings rebuilds the new tree (`ClimbIs`),
  because beside the way of the key nothing changed (`Elsewhere`).

Since a get reads the contents back from the tree, two contents never share a root
(`RootsTellContents`), so a set changes the root exactly when it changes a value
(`RootTellsChange`).

The nodes under a root are those on the ways of the present keys, and their values
(`NodesAre`); a node of the new tree is off the way of the key and so of the old tree,
or on it and so saved. What is freed is not in the new tree at its place; that it is
at no other place either is that a node stands at one place only, because the leaves
under it have tails that no other leaf has. For the storage machine, what its ROM
climbs from is the place of the old and of the new tree at the level of the result, by
mode (`PlacesHold`), and its own climb and fork are those trees again (`ClimbedIs`,
`ForkedIs`).

No induction over trees as data is used. Path, climb, fork and tree are recursive
functions of a level or of a prefix, and what holds of each level is shown by the
first one for which it would not (`LeastNumber`).

### Only model-checked

Liveness is out of reach of the prover: FlushIsStored, EveryJobIsProved and
EveryCallEnds stay with TLC, and so do the four runs that end in a violation. Every
invariant, every action property and both refinements that a passing run checks are
stated by a theorem.

## 6. Where the code and its text disagree

- `late_batch_error`: `state_manager.cpp:538` says that the txs which are not part
  of the final chain are deleted. When a batch without a new exit root runs out of
  counters after a first tx changed the root, the final root is the batch's first,
  which no tx ended in: flush() logs "could not find it", keeps every tx, writes
  their nodes and stores the root of a tx that the batch dropped. In the passing
  run the constant `LateErrorNeedsExitRoot` leaves this one case out and nothing
  else.
- `prover_mutex`: `prover.hpp:55` says that the mutex protects the requests'
  queues; proverThread pops without it after `sem_wait()`.
- `node_hidden`: findNode() looks into the set being sent only when the two flush
  identifiers differ. A set swapped between the write of a node and the flush of
  its batch is being sent with both equal, and the node is found neither in memory
  nor in the database, though database.cpp:144 says that it is.
- `read_only_sends`: with dbReadOnly a flush should only free its data
  (database.cpp:1286), but dbSenderThread still swaps and tries to send a set that
  was filled since.

`PROJECT.json` "findings" quotes the text for each.

## 7. What is not modelled, and why

Failed memory allocation and exitProcess() end the process: the crash of MultiWrite
and the restart in AggregatorStream are what is left of them. Collisions of hashes,
wrong data from the database and SQL text are outside the models. In DatabaseReads:
createConnection and DatabaseMap, which only
logs what a request read. In StateManager: PERSISTENCE_CACHE (whose flush purges no
tx), failed calls of the database, and the purge options switched off. In SmtTree:
the count of hashes and failed reads. In AggregatorStream: what is in a proof
(whether its computation failed is modelled), and waitForRequestToComplete, which
nothing calls.

Two limits of what the properties say. OnlyFinalRootsAreStored looks at the last root
that a flush() hands to the database, which is the one that stays, not at those it
hands over before. NodeCaches takes the size of the ring and its counter as they are,
but not the 32-bit product `cacheIndex*12` with which the code finds an entry's
value: it overflows from log2CacheSize 29 on, which postConstruct() allows and no
configuration comes near.

By far the most lines of the repository are generated: the evaluation of constraints
(`starkpil/**/chelpers`, some 300,000 lines of straight-line field arithmetic), the
constants of Poseidon, the executors of the main machine for each fork, and
protocol stubs. They have no state between calls and no order to get wrong; what can
be wrong in them is numerical and out of reach of these tools. The hand-written
parts that keep state or share it between threads are the modules above; what is
left of those is listed in section 4.
