---------------------------- MODULE DatabaseReads ----------------------------
(***************************************************************************)
(* Class Database of src/src/hashdb/database.cpp towards PostgreSQL, with  *)
(* dbMultiWrite off: read() and getProgram() through the caches, get_tree  *)
(* and single rows, write() and setProgram(), the connection pool they     *)
(* share, queryFailed(), clearCache(), and a server that restarts, refuses *)
(* queries or connections, and is written to by other processes.           *)
(* MultiWrite.tla has dbMultiWrite on.                                     *)
(*                                                                         *)
(* An action runs to the next access to shared state: a section under      *)
(* connMutex, a query, or a call of a cache, which is under its own mutex. *)
(* The caches are the abstract ones, which NodeCaches.tla shows the linked *)
(* list to implement.                                                      *)
(***************************************************************************)
EXTENDS Integers, Sequences, FiniteSets

CONSTANTS
  Threads,             \* threads that use the database
  ServerThreads,       \* those of the HashDB and executor servers that run
  Nodes, Programs,     \* keys of the two tables
  Path,                \* node |-> the rows get_tree() returns, from it down
  Size, MaxSize, Null,
  dbNumberOfPoolConnections,
  dbReadRetryCounter,
  InitialRows,         \* what the database may hold at first: sets of keys
  LateRows,            \* keys other processes may store meanwhile
  Workloads            \* the threads that make calls, of which keys, how many, and
                       \* how often the server restarts or fails a query

ASSUME ReadsAssumption ==
  /\ Null \notin Threads /\ Null \notin Nat
  /\ Nodes \cap Programs = {}
  /\ Size \in [Nodes \cup Programs -> Nat \ {0}] /\ MaxSize \in Nat \ {0}
  /\ Path \in [Nodes -> Seq(Nodes) \ {<<>>}]
  /\ dbNumberOfPoolConnections \in Nat \ {0}
  /\ dbReadRetryCounter \in Nat
  /\ InitialRows \subseteq SUBSET (Nodes \cup Programs)
  /\ LateRows \subseteq Nodes \cup Programs
  /\ Workloads \subseteq
       [threads : SUBSET Threads, keys : SUBSET (Nodes \cup Programs),
        calls : Nat, troubles : Nat]

\* What initRemote() checks of the pool: one for each thread of a server that
\* runs and one for the sender.  It counts no other thread, the prover's for one,
\* and none at all when no server runs.
ASSUME PoolAssumption ==
  /\ IsFiniteSet(Threads) /\ ServerThreads \subseteq Threads
  /\ ServerThreads # {} => Cardinality(ServerThreads) + 1 <= dbNumberOfPoolConnections

VARIABLES
  dbConnectionsPool,               \* configuration
  connMutex,                       \* its holder between two actions, or Null
  connections,                     \* connectionsPool, or connection at index 0
  nextConnection, usedConnections,
  server,                          \* times the database server restarted
  refusals,                        \* queries it failed without a restart
  stored,                          \* keys with a committed row
  volatile,                        \* keys written with persistent = false
  dbMTCache, dbProgramCache,       \* cached keys, the last used one first
  thread,                          \* the call each thread is in
  workload, calls,                 \* the one of Workloads, the calls started
  exited                           \* exitProcess() was called

NodeCache    == INSTANCE LruCache WITH Keys <- Nodes, recent <- dbMTCache
ProgramCache == INSTANCE LruCache WITH Keys <- Programs, recent <- dbProgramCache

poolVars == <<connMutex, connections, nextConnection, usedConnections>>
cacheVars == <<dbMTCache, dbProgramCache>>
dbVars == <<server, refusals, stored>>
fixed == <<dbConnectionsPool, workload>>
vars == <<fixed, poolVars, dbVars, volatile, cacheVars, thread, calls, exited>>

-----------------------------------------------------------------------------
Keys == Nodes \cup Programs
Pool == 0 .. dbNumberOfPoolConnections - 1
Closed == -1   \* a connection that will be opened by its next query

Restart == Nat \cup {Closed}

Results == {"UNSPECIFIED", "SUCCESS", "DB_ERROR", "DB_KEY_NOT_FOUND"}

\* phase: "tree" for readTreeRemote(), "row" for readRemote(), "insert"
\* for writeRemote(); tries: retries done in the phase; todo: rows of the tree
\* not cached yet.  The rest is history: whether the key was stored when the
\* call began, the restarts until then, and until its last failed query, and the
\* queries of the phase that failed on a connection that no restart had broken.
NoCall == [pc |-> "idle", key |-> Null, phase |-> "row", tries |-> 0,
           conn |-> Null, todo |-> <<>>, result |-> "UNSPECIFIED",
           wasStored |-> FALSE, since |-> 0, failedAt |-> Closed, refused |-> 0]

Pcs == {"idle", "connecting", "querying", "filling", "failing", "disposing", "caching",
        "finding"}
Phases == {"tree", "row", "insert"}
Tries  == 0 .. dbReadRetryCounter
NullOr(S) == S \cup {Null}

CallType ==
  [pc : Pcs, key : NullOr(Keys), phase : Phases, tries : Tries, conn : NullOr(Pool),
   todo : Seq(Nodes), result : Results, wasStored : BOOLEAN, since : Restart,
   failedAt : Restart, refused : Nat]

Init ==
  /\ dbConnectionsPool \in BOOLEAN /\ workload \in Workloads
  /\ connMutex = Null
  /\ connections = [i \in Pool |-> [bInUse |-> FALSE, bDisconnect |-> FALSE, opened |-> 0]]
  /\ nextConnection = 0 /\ usedConnections = 0
  /\ server = 0 /\ refusals = 0
  /\ stored \in InitialRows
  /\ volatile = {}
  /\ NodeCache!Init /\ ProgramCache!Init
  /\ thread = [t \in Threads |-> NoCall]
  /\ calls = 0
  /\ exited = FALSE

At(t, pc) == thread[t].pc = pc

\* The call returns r: what it kept of its own is gone.
Returned(r) == [NoCall EXCEPT !.result = r]

IsCached(k) == IF k \in Nodes THEN NodeCache!IsCached(k) ELSE ProgramCache!IsCached(k)

\* Parts of an action: find() of a key that is cached, and add().
Find(k) ==
  IF k \in Nodes THEN NodeCache!Touch(k) /\ UNCHANGED dbProgramCache
  ELSE ProgramCache!Touch(k) /\ UNCHANGED dbMTCache

Add(k) ==
  IF k \in Nodes THEN NodeCache!Add(k) /\ UNCHANGED dbProgramCache
  ELSE ProgramCache!Add(k) /\ UNCHANGED dbMTCache

-----------------------------------------------------------------------------
(* The calls.                                                              *)

Call(t, call) ==
  /\ At(t, "idle") /\ calls < workload.calls
  /\ calls' = calls + 1
  /\ thread' = [thread EXCEPT ![t] = call]

Asks(t, k, phase) ==
  Call(t, [NoCall EXCEPT !.pc = "connecting", !.key = k, !.phase = phase,
                         !.wasStored = k \in stored, !.since = server])

\* read() or getProgram() of a key that is cached.
ReadsCached(t, k) ==
  /\ IsCached(k)
  /\ Call(t, Returned("SUCCESS"))
  /\ Find(k)
  /\ UNCHANGED <<fixed, poolVars, dbVars, volatile, exited>>

\* ... that is not.  Only read() with keys asks for the tree.
ReadsRemote(t, k) ==
  /\ ~IsCached(k)
  /\ \E phase \in IF k \in Nodes THEN {"tree", "row"} ELSE {"row"} :
       Asks(t, k, phase)
  /\ UNCHANGED <<fixed, poolVars, dbVars, volatile, cacheVars, exited>>

\* A plausible slip: the cache is filled before the row is inserted.
WritesCacheFirst(t, k) ==
  /\ Asks(t, k, "insert")
  /\ Add(k)
  /\ UNCHANGED <<fixed, poolVars, dbVars, volatile, exited>>

\* write() or setProgram(): the row first, then the cache.
Writes(t, k) ==
  /\ Asks(t, k, "insert")
  /\ UNCHANGED <<fixed, poolVars, dbVars, volatile, cacheVars, exited>>

\* ... with persistent = false: the cache is the only place the data goes to.
WritesVolatile(t, k) ==
  /\ Call(t, Returned("SUCCESS"))
  /\ volatile' = volatile \cup {k}
  /\ Add(k)
  /\ UNCHANGED <<fixed, poolVars, dbVars, exited>>

-----------------------------------------------------------------------------
(* The connections.                                                        *)

Taken(c) ==
  [c EXCEPT !.bInUse = TRUE, !.bDisconnect = FALSE,
            !.opened = IF c.bDisconnect THEN Closed ELSE c.opened]

\* A plausible slip: the round robin does not wrap around.
AfterUnwrapped(i) == i + 1

After(i) == (i + 1) % dbNumberOfPoolConnections

\* The first free connection from nextConnection on, as getConnection() finds
\* it.
IsNextFree(i) ==
  LET Turns(j) == (j + dbNumberOfPoolConnections - nextConnection)
                    % dbNumberOfPoolConnections
  IN  /\ ~connections[i].bInUse
      /\ \A j \in Pool : Turns(j) < Turns(i) => connections[j].bInUse

GetsConnection(t) ==
  /\ At(t, "connecting") /\ connMutex = Null
  /\ \/ /\ dbConnectionsPool
        /\ \E i \in Pool :
             /\ IsNextFree(i)
             /\ connections' = [connections EXCEPT ![i] = Taken(connections[i])]
             /\ nextConnection' = After(i)
             /\ thread' = [thread EXCEPT ![t].pc = "querying", ![t].conn = i]
        /\ usedConnections' = usedConnections + 1
        /\ UNCHANGED connMutex
     \/ /\ ~dbConnectionsPool
        /\ connMutex' = t     \* until disposeConnection()
        /\ thread' = [thread EXCEPT ![t].pc = "querying", ![t].conn = 0]
        /\ UNCHANGED <<connections, nextConnection, usedConnections>>
  /\ UNCHANGED <<fixed, dbVars, volatile, cacheVars, calls, exited>>

\* getConnection() finds no free connection, and ends the process.
RunsOut(t) ==
  /\ At(t, "connecting") /\ connMutex = Null
  /\ dbConnectionsPool
  /\ \A i \in Pool : connections[i].bInUse
  /\ exited' = TRUE
  /\ UNCHANGED <<fixed, poolVars, dbVars, volatile, cacheVars, thread, calls>>

\* A plausible slip: the early return for a missing key keeps the connection.
DisposeUnlessMissing(t) ==
  IF thread[t].result = "DB_KEY_NOT_FOUND" THEN UNCHANGED poolVars
  ELSE IF dbConnectionsPool
  THEN /\ connections' = [connections EXCEPT ![thread[t].conn].bInUse = FALSE]
       /\ usedConnections' = usedConnections - 1
       /\ UNCHANGED <<connMutex, nextConnection>>
  ELSE connMutex' = Null /\ UNCHANGED <<connections, nextConnection, usedConnections>>

\* Part of an action: disposeConnection().
Dispose(t) ==
  IF dbConnectionsPool
  THEN /\ connMutex = Null
       /\ connections' = [connections EXCEPT ![thread[t].conn].bInUse = FALSE]
       /\ usedConnections' = usedConnections - 1
       /\ UNCHANGED <<connMutex, nextConnection>>
  ELSE /\ connMutex' = Null
       /\ UNCHANGED <<connections, nextConnection, usedConnections>>

\* A plausible slip: only the connection that failed is marked.
MarksOneFailed(t) ==
  /\ At(t, "failing") /\ connMutex = Null
  /\ connections' = [connections EXCEPT ![thread[t].conn].bDisconnect = TRUE]
  /\ thread' = [thread EXCEPT ![t].pc = "disposing", ![t].result = "DB_ERROR"]
  /\ UNCHANGED <<fixed, connMutex, nextConnection, usedConnections,
                 dbVars, volatile, cacheVars, calls, exited>>

\* queryFailed().  Without the pool its own thread holds connMutex.
MarksFailed(t) ==
  /\ At(t, "failing") /\ connMutex = Null
  /\ connections' = [i \in Pool |-> [connections[i] EXCEPT !.bDisconnect = TRUE]]
  /\ thread' = [thread EXCEPT ![t].pc = "disposing", ![t].result = "DB_ERROR"]
  /\ UNCHANGED <<fixed, connMutex, nextConnection, usedConnections,
                 dbVars, volatile, cacheVars, calls, exited>>

-----------------------------------------------------------------------------
(* The queries.  A connection opened before the last restart is stale.     *)

Opened(t) == connections[thread[t].conn].opened

IsStale(t) == Opened(t) \notin {Closed, server}

Opens(t) == connections' = [connections EXCEPT ![thread[t].conn].opened = server]

\* get_tree(): RAISE EXCEPTION unless every row of the path is there.
TreeIsComplete(k) == \A n \in DOMAIN Path[k] : Path[k][n] \in stored

Queried(t, pc, result) ==
  thread' = [thread EXCEPT ![t].pc = pc, ![t].result = result]

Queries(t) ==
  /\ At(t, "querying") /\ ~IsStale(t)
  /\ Opens(t)
  /\ LET k == thread[t].key IN
     \/ /\ thread[t].phase = "row"
        /\ Queried(t, "disposing", IF k \in stored THEN "SUCCESS" ELSE "DB_KEY_NOT_FOUND")
        /\ UNCHANGED stored
     \/ /\ thread[t].phase = "insert"
        /\ Queried(t, "disposing", "SUCCESS")
        /\ stored' = stored \cup {k}
     \/ /\ thread[t].phase = "tree" /\ TreeIsComplete(k)
        /\ thread' = [thread EXCEPT ![t].pc = "filling", ![t].todo = Path[k]]
        /\ UNCHANGED stored
     \/ /\ thread[t].phase = "tree" /\ ~TreeIsComplete(k)
        /\ Queried(t, "failing", "DB_ERROR")
        /\ UNCHANGED stored
  /\ UNCHANGED <<fixed, connMutex, nextConnection, usedConnections,
                 server, refusals, volatile, cacheVars, calls, exited>>

MoreTrouble == server + refusals < workload.troubles

\* Any exception: of a stale connection, of one that cannot be opened while the
\* server is down, or of the query.  An INSERT may have been committed before.
QueryBreaks(t) ==
  /\ At(t, "querying")
  /\ \/ /\ IsStale(t)
        /\ thread' = [thread EXCEPT ![t].pc = "failing", ![t].failedAt = server]
        /\ UNCHANGED refusals
     \/ /\ ~IsStale(t) /\ MoreTrouble
        /\ thread' = [thread EXCEPT ![t].pc = "failing", ![t].failedAt = server,
                                    ![t].refused = @ + 1]
        /\ refusals' = refusals + 1
  /\ \/ UNCHANGED stored
     \/ thread[t].phase = "insert" /\ stored' = stored \cup {thread[t].key}
  /\ UNCHANGED <<fixed, poolVars, server, volatile, cacheVars, calls, exited>>

\* readTreeRemote() adds the rows one at a time, before it disposes.
CachesRow(t) ==
  /\ At(t, "filling")
  /\ Add(Head(thread[t].todo))
  /\ thread' = [thread EXCEPT ![t].todo = Tail(@),
       ![t].pc = IF Len(thread[t].todo) = 1 THEN "disposing" ELSE "filling",
       ![t].result = IF Len(thread[t].todo) = 1 THEN "SUCCESS" ELSE @]
  /\ UNCHANGED <<fixed, poolVars, dbVars, volatile, calls, exited>>

-----------------------------------------------------------------------------
(* What read(), getProgram(), write() and setProgram() do with the result. *)

MayRetry(c) ==
  c.phase # "insert" /\ c.key \in Nodes /\ c.tries < dbReadRetryCounter

\* Plausible slips: a failed tree is taken for a missing key; retries are not
\* counted.
AfterFailureGivesUp(c) ==
  IF MayRetry(c) THEN [c EXCEPT !.pc = "connecting", !.tries = c.tries + 1]
  ELSE Returned(IF c.phase = "tree" THEN "DB_KEY_NOT_FOUND" ELSE c.result)

AfterFailureUncounted(c) ==
  IF MayRetry(c) THEN [c EXCEPT !.pc = "connecting"]
  ELSE IF c.phase = "tree" THEN [c EXCEPT !.pc = "connecting", !.phase = "row", !.tries = 0,
                                          !.refused = 0]
  ELSE Returned(c.result)

\* After a result that is not SUCCESS: again; from the tree to the row; or out.
AfterFailure(c) ==
  IF MayRetry(c) THEN [c EXCEPT !.pc = "connecting", !.tries = c.tries + 1]
  ELSE IF c.phase = "tree" THEN [c EXCEPT !.pc = "connecting", !.phase = "row", !.tries = 0,
                                          !.refused = 0]
  ELSE Returned(c.result)

AfterQuery(c) ==
  IF c.result # "SUCCESS" THEN AfterFailure(c)
  ELSE [c EXCEPT !.pc = IF c.phase = "tree" THEN "finding" ELSE "caching"]

Disposes(t) ==
  /\ At(t, "disposing")
  /\ Dispose(t)
  /\ thread' = [thread EXCEPT ![t] = AfterQuery([thread[t] EXCEPT !.conn = Null])]
  /\ UNCHANGED <<fixed, dbVars, volatile, cacheVars, calls, exited>>

CachesKey(t) ==
  /\ At(t, "caching")
  /\ Add(thread[t].key)
  /\ thread' = [thread EXCEPT ![t] = Returned("SUCCESS")]
  /\ UNCHANGED <<fixed, poolVars, dbVars, volatile, calls, exited>>

\* After the tree "the value should be present in the cache".
FindsAgain(t) ==
  /\ At(t, "finding") /\ IsCached(thread[t].key)
  /\ Find(thread[t].key)
  /\ thread' = [thread EXCEPT ![t] = Returned("SUCCESS")]
  /\ UNCHANGED <<fixed, poolVars, dbVars, volatile, calls, exited>>

\* It was evicted or cleared in between: the single row is read.
MissesAgain(t) ==
  /\ At(t, "finding") /\ ~IsCached(thread[t].key)
  /\ thread' = [thread EXCEPT ![t].pc = "connecting", ![t].phase = "row",
                              ![t].tries = 0, ![t].refused = 0,
                              ![t].result = "UNSPECIFIED"]
  /\ UNCHANGED <<fixed, poolVars, dbVars, volatile, cacheVars, calls, exited>>

\* clearCache(), by a batch that brings its own database.
Clears ==
  /\ calls < workload.calls /\ calls' = calls + 1
  /\ NodeCache!Clear /\ ProgramCache!Clear
  /\ UNCHANGED <<fixed, poolVars, dbVars, volatile, thread, exited>>

-----------------------------------------------------------------------------
(* Outside the process.                                                    *)

Restarts ==
  /\ MoreTrouble
  /\ server' = server + 1
  /\ UNCHANGED <<fixed, poolVars, refusals, stored, volatile, cacheVars, thread, calls,
                 exited>>

\* A row of another process, or the primary's, reaches the database read here.
Arrives(k) ==
  /\ stored' = stored \cup {k}
  /\ UNCHANGED <<fixed, poolVars, server, refusals, volatile, cacheVars, thread, calls,
                 exited>>

Step(t) ==
  \/ GetsConnection(t) \/ RunsOut(t) \/ Queries(t) \/ QueryBreaks(t) \/ MarksFailed(t)
  \/ CachesRow(t) \/ Disposes(t) \/ CachesKey(t) \/ FindsAgain(t) \/ MissesAgain(t)

Runs(t) == ~exited /\ Step(t)

Asked ==
  \/ \E t \in workload.threads, k \in workload.keys :
       ReadsCached(t, k) \/ ReadsRemote(t, k) \/ Writes(t, k) \/ WritesVolatile(t, k)
  \/ Clears

Outside == Restarts \/ \E k \in LateRows : Arrives(k)

Next == (\E t \in Threads : Runs(t)) \/ (~exited /\ (Asked \/ Outside))

\* A thread that runs goes on; a call that never comes is no failure.
Spec == Init /\ [][Next]_vars /\ \A t \in Threads : WF_vars(Runs(t))

-----------------------------------------------------------------------------
(* Properties.                                                             *)

\* Every variable of the pool, the caches and the calls keeps its type.
TypeOK ==
  /\ dbConnectionsPool \in BOOLEAN /\ workload \in Workloads
  /\ connMutex \in Threads \cup {Null}
  /\ connections \in [Pool -> [bInUse : BOOLEAN, bDisconnect : BOOLEAN, opened : Restart]]
  /\ nextConnection \in Pool /\ usedConnections \in 0 .. dbNumberOfPoolConnections
  /\ server \in Nat /\ refusals \in Nat
  /\ stored \in SUBSET Keys /\ volatile \in SUBSET Keys
  /\ dbMTCache \in Seq(Nodes) /\ dbProgramCache \in Seq(Programs)
  /\ thread \in [Threads -> CallType]
  /\ calls \in 0 .. workload.calls
  /\ exited \in BOOLEAN

HasConnection(t) == thread[t].pc \in {"querying", "filling", "failing", "disposing"}

\* getConnection() and disposeConnection() account for every connection: it is
\* in use when exactly one thread works with it, the counter agrees, and without
\* the pool connMutex is held by the thread that has the connection.  So
\* getConnection() ends the process only when there are more threads at work
\* than connections, two or more of which initRemote() did not count if a server
\* runs: the one it reserves for the sender and another.
ConnectionsAreAccounted ==
  /\ \A t \in Threads : HasConnection(t) <=> thread[t].conn # Null
  /\ \A t, u \in Threads : thread[t].conn = thread[u].conn /\ t # u => thread[t].conn = Null
  /\ dbConnectionsPool =>
       /\ connMutex = Null
       /\ \A i \in Pool : connections[i].bInUse <=> \E t \in Threads : thread[t].conn = i
       /\ usedConnections = Cardinality({i \in Pool : connections[i].bInUse})
  /\ ~dbConnectionsPool =>
       \A t \in Threads : HasConnection(t) <=> connMutex = t
  /\ exited =>
       /\ Cardinality({t \in Threads : ~At(t, "idle")}) > dbNumberOfPoolConnections
       /\ ServerThreads # {} =>
            Cardinality({t \in Threads \ ServerThreads : ~At(t, "idle")}) >= 2

\* queryFailed() makes one broken connection speak for all: a call whose query
\* failed is not given, by its retries, another connection that was opened
\* before the same restart, whoever used or marked it in between.
OutageIsMetOnce ==
  \A t \in Threads : At(t, "querying") /\ IsStale(t) => thread[t].failedAt < server

\* read() of a node that was stored when it began fails only if each of its
\* dbReadRetryCounter + 1 queries of the row failed for a reason of its own: a
\* restart of the server, the first one perhaps before read(), or an exception on
\* a connection that none had broken.  A failed tree, a row evicted before it is
\* looked for, and the other connections a restart broke are all made up for.
StoredIsFound ==
  [][\A t \in Threads :
       LET asked == thread[t] IN
       /\ asked.pc # "idle" /\ thread'[t].pc = "idle"
       /\ asked.key \in Nodes /\ asked.phase # "insert" /\ asked.wasStored
       => \/ thread'[t].result = "SUCCESS"
          \/ (server - asked.since) + asked.refused >= dbReadRetryCounter]_vars

\* What other threads find in the caches is in the database, or was written
\* not to be: a write that failed leaves nothing behind in the caches.
CachedIsStored ==
  {k \in Keys : IsCached(k)} \subseteq stored \cup volatile

\* A thread in queryFailed() that holds the connMutex it waits for.
IsBlockedByItself(t) == At(t, "failing") /\ connMutex = t

\* Every call ends, however the others get on, except when some thread blocks
\* itself, which takes all that need a connection with it: database.cpp:539
\* without the pool, or when the pool runs out and the process ends.
EveryCallEnds ==
  <>[](\/ \A t \in Threads : At(t, "idle")
       \/ exited
       \/ \E t \in Threads : IsBlockedByItself(t))

=============================================================================
