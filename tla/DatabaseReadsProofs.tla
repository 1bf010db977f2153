------------------------- MODULE DatabaseReadsProofs -------------------------
(***************************************************************************)
(* The invariants of DatabaseReads.tla for every number of threads,        *)
(* connections, keys, retries and restarts.                                *)
(***************************************************************************)
EXTENDS DatabaseReads, FiniteSetTheorems, TLAPS

-----------------------------------------------------------------------------
(* The caches: what an action on them may change.                          *)

\* A beginning of a sequence has only elements of the sequence.
LEMMA Beginning ==
  ASSUME NEW S, NEW s \in Seq(S), NEW n \in 0 .. Len(s)
  PROVE  /\ SubSeq(s, 1, n) \in Seq(S)
         /\ \A i \in DOMAIN SubSeq(s, 1, n) : i \in DOMAIN s /\ SubSeq(s, 1, n)[i] = s[i]
  OBVIOUS

\* A new key in front: the rest is what was there.
LEMMA InFront ==
  ASSUME NEW S, NEW s \in Seq(S), NEW k \in S
  PROVE  /\ <<k>> \o s \in Seq(S)
         /\ \A i \in DOMAIN (<<k>> \o s) :
              (<<k>> \o s)[i] = k \/ \E j \in DOMAIN s : (<<k>> \o s)[i] = s[j]
<1> DEFINE r == <<k>> \o s
<1>1. r \in Seq(S) /\ Len(r) = Len(s) + 1 /\ DOMAIN r = 1 .. Len(s) + 1
  OBVIOUS
<1>2. r[1] = k
  OBVIOUS
<1>3. \A i \in 2 .. Len(s) + 1 : r[i] = s[i - 1] /\ i - 1 \in DOMAIN s
  OBVIOUS
<1> QED
  BY <1>1, <1>2, <1>3

\* Adding a key to the cache of the nodes adds at most that key.
LEMMA NodeAdd ==
  ASSUME dbMTCache \in Seq(Nodes), NEW k \in Nodes, NodeCache!Add(k)
  PROVE  /\ dbMTCache' \in Seq(Nodes)
         /\ \A x : NodeCache!IsCached(x)' => NodeCache!IsCached(x) \/ x = k
<1>1. CASE NodeCache!Touch(k)
  <2>1. PICK p \in DOMAIN dbMTCache : /\ dbMTCache[p] = k
                                       /\ dbMTCache' = NodeCache!ToFront(dbMTCache, p)
    BY <1>1 DEF NodeCache!Touch
  <2>2. DOMAIN dbMTCache = 1 .. Len(dbMTCache) /\ Len(dbMTCache) \in Nat
    OBVIOUS
  <2>3. dbMTCache' \in [1 .. Len(dbMTCache) -> Nodes]
    BY <2>1, <2>2 DEF NodeCache!ToFront
  <2>4. dbMTCache' \in Seq(Nodes) /\ DOMAIN dbMTCache' = 1 .. Len(dbMTCache)
    BY <2>2, <2>3
  <2>5. \A i \in DOMAIN dbMTCache' : \E j \in DOMAIN dbMTCache : dbMTCache'[i] = dbMTCache[j]
    BY <2>1, <2>2, <2>4 DEF NodeCache!ToFront
  <2> QED
    BY <2>4, <2>5 DEF NodeCache!IsCached, NodeCache!Cached
<1>2. CASE NodeCache!Insert(k)
  <2> DEFINE r == <<k>> \o dbMTCache
  <2>1. PICK n \in DOMAIN r : dbMTCache' = SubSeq(r, 1, n)
    BY <1>2 DEF NodeCache!Insert
  <2>2. /\ r \in Seq(Nodes)
        /\ \A i \in DOMAIN r : r[i] = k \/ \E j \in DOMAIN dbMTCache : r[i] = dbMTCache[j]
    BY InFront
  <2>3. n \in 0 .. Len(r)
    <3> HIDE DEF r
    <3> QED
      BY <2>1, <2>2
  <2> HIDE DEF r
  <2>4. /\ SubSeq(r, 1, n) \in Seq(Nodes)
        /\ \A i \in DOMAIN SubSeq(r, 1, n) : i \in DOMAIN r /\ SubSeq(r, 1, n)[i] = r[i]
    BY <2>2, <2>3, Beginning
  <2> QED
    BY <2>1, <2>2, <2>4 DEF NodeCache!IsCached, NodeCache!Cached
<1> QED
  BY <1>1, <1>2 DEF NodeCache!Add

\* Adding a key to the cache of the programs adds at most that key.
LEMMA ProgramAdd ==
  ASSUME dbProgramCache \in Seq(Programs), NEW k \in Programs, ProgramCache!Add(k)
  PROVE  /\ dbProgramCache' \in Seq(Programs)
         /\ \A x : ProgramCache!IsCached(x)' => ProgramCache!IsCached(x) \/ x = k
<1>1. CASE ProgramCache!Touch(k)
  <2>1. PICK p \in DOMAIN dbProgramCache : /\ dbProgramCache[p] = k
                                       /\ dbProgramCache' = ProgramCache!ToFront(dbProgramCache, p)
    BY <1>1 DEF ProgramCache!Touch
  <2>2. DOMAIN dbProgramCache = 1 .. Len(dbProgramCache) /\ Len(dbProgramCache) \in Nat
    OBVIOUS
  <2>3. dbProgramCache' \in [1 .. Len(dbProgramCache) -> Programs]
    BY <2>1, <2>2 DEF ProgramCache!ToFront
  <2>4. dbProgramCache' \in Seq(Programs) /\ DOMAIN dbProgramCache' = 1 .. Len(dbProgramCache)
    BY <2>2, <2>3
  <2>5. \A i \in DOMAIN dbProgramCache' : \E j \in DOMAIN dbProgramCache : dbProgramCache'[i] = dbProgramCache[j]
    BY <2>1, <2>2, <2>4 DEF ProgramCache!ToFront
  <2> QED
    BY <2>4, <2>5 DEF ProgramCache!IsCached, ProgramCache!Cached
<1>2. CASE ProgramCache!Insert(k)
  <2> DEFINE r == <<k>> \o dbProgramCache
  <2>1. PICK n \in DOMAIN r : dbProgramCache' = SubSeq(r, 1, n)
    BY <1>2 DEF ProgramCache!Insert
  <2>2. /\ r \in Seq(Programs)
        /\ \A i \in DOMAIN r : r[i] = k \/ \E j \in DOMAIN dbProgramCache : r[i] = dbProgramCache[j]
    BY InFront
  <2>3. n \in 0 .. Len(r)
    <3> HIDE DEF r
    <3> QED
      BY <2>1, <2>2
  <2> HIDE DEF r
  <2>4. /\ SubSeq(r, 1, n) \in Seq(Programs)
        /\ \A i \in DOMAIN SubSeq(r, 1, n) : i \in DOMAIN r /\ SubSeq(r, 1, n)[i] = r[i]
    BY <2>2, <2>3, Beginning
  <2> QED
    BY <2>1, <2>2, <2>4 DEF ProgramCache!IsCached, ProgramCache!Cached
<1> QED
  BY <1>1, <1>2 DEF ProgramCache!Add

CacheTypes == dbMTCache \in Seq(Nodes) /\ dbProgramCache \in Seq(Programs)

\* Whatever the table of the key: add() adds at most that key.
LEMMA AddCaches ==
  ASSUME ReadsAssumption, CacheTypes, NEW k \in Keys, Add(k)
  PROVE  CacheTypes' /\ \A x \in Keys : IsCached(x)' => IsCached(x) \/ x = k
<1>1. CASE k \in Nodes
  <2>1. /\ dbMTCache' \in Seq(Nodes) /\ dbProgramCache' = dbProgramCache
        /\ \A x : NodeCache!IsCached(x)' => NodeCache!IsCached(x) \/ x = k
    BY <1>1, NodeAdd DEF Add, CacheTypes
  <2> QED
    BY <1>1, <2>1 DEF CacheTypes, IsCached, ProgramCache!IsCached, ProgramCache!Cached
<1>2. CASE k \notin Nodes
  <2>1. /\ dbProgramCache' \in Seq(Programs) /\ dbMTCache' = dbMTCache
        /\ \A x : ProgramCache!IsCached(x)' => ProgramCache!IsCached(x) \/ x = k
    BY <1>2, ProgramAdd DEF Add, CacheTypes, Keys
  <2> QED
    BY <1>2, <2>1 DEF CacheTypes, IsCached, NodeCache!IsCached, NodeCache!Cached
<1> QED
  BY <1>1, <1>2

\* find() of a cached key adds none.
LEMMA FindCaches ==
  ASSUME ReadsAssumption, CacheTypes, NEW k \in Keys, IsCached(k), Find(k)
  PROVE  CacheTypes' /\ \A x \in Keys : IsCached(x)' => IsCached(x)
<1>1. Add(k)
  BY DEF Find, Add, NodeCache!Add, ProgramCache!Add
<1> QED
  BY <1>1, AddCaches

\* An action that leaves the caches alone.
LEMMA SameCaches ==
  ASSUME UNCHANGED cacheVars
  PROVE  (CacheTypes => CacheTypes') /\ \A x : IsCached(x)' <=> IsCached(x)
BY DEF cacheVars, CacheTypes, IsCached, NodeCache!IsCached, NodeCache!Cached,
       ProgramCache!IsCached, ProgramCache!Cached

-----------------------------------------------------------------------------
(* Types, but for the counter of the connections in use.                   *)

Types ==
  /\ dbConnectionsPool \in BOOLEAN /\ workload \in Workloads
  /\ connMutex \in Threads \cup {Null}
  /\ connections \in [Pool -> [bInUse : BOOLEAN, bDisconnect : BOOLEAN, opened : Restart]]
  /\ nextConnection \in Pool /\ usedConnections \in Int
  /\ server \in Nat /\ refusals \in Nat
  /\ stored \in SUBSET Keys /\ volatile \in SUBSET Keys
  /\ CacheTypes
  /\ thread \in [Threads -> CallType]
  /\ calls \in 0 .. workload.calls
  /\ exited \in BOOLEAN

LEMMA PoolIsThere == 0 \in Pool /\ Null \notin Pool /\ Pool \subseteq Nat
<1>1. Pool \subseteq Nat /\ 0 \in Pool
  BY ReadsAssumption DEF Pool
<1> QED
  BY <1>1, ReadsAssumption

LEMMA Numbers ==
  /\ dbReadRetryCounter \in Nat
  /\ \A w \in Workloads : w.calls \in Nat
  /\ dbNumberOfPoolConnections \in Nat \ {0}
  /\ 0 \in Tries /\ 0 \in Restart /\ Closed \in Restart
BY ReadsAssumption DEF Tries, Restart, Closed

\* What the fields of a call may be.
LEMMA Values ==
  /\ {"idle", "connecting", "querying", "filling", "failing", "disposing", "caching",
      "finding"} \subseteq Pcs
  /\ {"tree", "row", "insert"} \subseteq Phases
  /\ {"UNSPECIFIED", "SUCCESS", "DB_ERROR", "DB_KEY_NOT_FOUND"} \subseteq Results
  /\ Keys \subseteq NullOr(Keys) /\ Null \in NullOr(Keys)
  /\ Pool \subseteq NullOr(Pool) /\ Null \in NullOr(Pool)
BY DEF Pcs, Phases, Results, NullOr

LEMMA NoCallType == NoCall \in CallType
BY Numbers, Values DEF NoCall, CallType

LEMMA ReturnedType == \A r \in Results : Returned(r) \in CallType
BY NoCallType, Values DEF Returned, CallType

LEMMA AsksType ==
  ASSUME NEW t, NEW k \in Keys, NEW phase \in Phases, Types
  PROVE  [NoCall EXCEPT !.pc = "connecting", !.key = k, !.phase = phase,
                        !.wasStored = k \in stored, !.since = server] \in CallType
<1> DEFINE b == k \in stored
<1>0. b \in BOOLEAN
  OBVIOUS
<1>1. server \in Restart /\ k \in NullOr(Keys) /\ "connecting" \in Pcs
  BY Values DEF Types, Restart
<1> HIDE DEF b
<1>2. [NoCall EXCEPT !.pc = "connecting", !.key = k, !.phase = phase,
                     !.wasStored = b, !.since = server] \in CallType
  BY <1>0, <1>1, NoCallType DEF CallType
<1> QED
  BY <1>2 DEF b

\* A call that starts keeps the types.
LEMMA CallTypes ==
  ASSUME Types, NEW t \in Threads, NEW call \in CallType, Call(t, call)
  PROVE  thread' \in [Threads -> CallType] /\ calls' \in 0 .. workload.calls
BY Numbers DEF Types, Call

LEMMA InitTypes == Init => Types
<1> SUFFICES ASSUME Init PROVE Types
  OBVIOUS
<1>1. CacheTypes
  BY DEF Init, CacheTypes, NodeCache!Init, ProgramCache!Init
<1>2. thread \in [Threads -> CallType]
  BY NoCallType DEF Init
<1>3. connections \in [Pool -> [bInUse : BOOLEAN, bDisconnect : BOOLEAN, opened : Restart]]
  BY ReadsAssumption DEF Init, Restart
<1>4. stored \in SUBSET Keys
  BY ReadsAssumption DEF Init, Keys
<1>5. calls \in 0 .. workload.calls /\ exited \in BOOLEAN
  <2>1. workload.calls \in Nat
    BY Numbers DEF Init
  <2>2. calls = 0 /\ exited = FALSE
    BY DEF Init
  <2>3. calls \in 0 .. workload.calls
    BY <2>1, <2>2
  <2>4. exited \in BOOLEAN
    BY <2>2
  <2> QED
    BY <2>3, <2>4
<1> QED
  BY <1>1, <1>2, <1>3, <1>4, <1>5, PoolIsThere DEF Init, Types

\* What a step may be, besides those of a call in progress.
Calls(t, k) ==
  ReadsCached(t, k) \/ ReadsRemote(t, k) \/ Writes(t, k) \/ WritesVolatile(t, k)

Others == Clears \/ Restarts \/ \E k \in LateRows : Arrives(k)

LEMMA CallsKeepTypes ==
  ASSUME Types, NEW t \in Threads, NEW k \in Keys, Calls(t, k)
  PROVE  Types'
<1>1. CASE ReadsCached(t, k)
  <2>1. CacheTypes'
    BY <1>1, FindCaches, ReadsAssumption DEF ReadsCached, Types
  <2>2. thread' \in [Threads -> CallType] /\ calls' \in 0 .. workload.calls
    BY <1>1, CallTypes, ReturnedType, Values DEF ReadsCached
  <2> QED
    BY <1>1, <2>1, <2>2 DEF ReadsCached, Types, poolVars, dbVars, fixed
<1>2. CASE ReadsRemote(t, k)
  <2>1. CacheTypes'
    BY <1>2, SameCaches DEF ReadsRemote, Types, cacheVars
  <2>2. PICK phase \in Phases : Asks(t, k, phase)
    BY <1>2, Values DEF ReadsRemote
  <2>3. thread' \in [Threads -> CallType] /\ calls' \in 0 .. workload.calls
    BY <2>2, AsksType, CallTypes DEF Asks
  <2> QED
    BY <1>2, <2>1, <2>3 DEF ReadsRemote, Types, poolVars, dbVars, fixed
<1>3. CASE Writes(t, k)
  <2>1. CacheTypes'
    BY <1>3, SameCaches DEF Writes, Types, cacheVars
  <2>2. thread' \in [Threads -> CallType] /\ calls' \in 0 .. workload.calls
    BY <1>3, AsksType, CallTypes, Values DEF Asks, Writes
  <2> QED
    BY <1>3, <2>1, <2>2 DEF Writes, Types, poolVars, dbVars, fixed
<1>4. CASE WritesVolatile(t, k)
  <2>1. CacheTypes'
    BY <1>4, AddCaches, ReadsAssumption DEF WritesVolatile, Types
  <2>2. thread' \in [Threads -> CallType] /\ calls' \in 0 .. workload.calls
    BY <1>4, CallTypes, ReturnedType, Values DEF WritesVolatile
  <2> QED
    BY <1>4, <2>1, <2>2 DEF WritesVolatile, Types, poolVars, dbVars, fixed
<1> QED
  BY <1>1, <1>2, <1>3, <1>4 DEF Calls

\* A change of one call that keeps it a call.
LEMMA StepTypes ==
  ASSUME Types, NEW t \in Threads
  PROVE  /\ thread[t] \in CallType
         /\ \A c \in CallType : [thread EXCEPT ![t] = c] \in [Threads -> CallType]
BY DEF Types

LEMMA ResultTypes ==
  ASSUME Types, NEW t \in Threads, NEW pc \in Pcs, NEW r \in Results
  PROVE  [thread EXCEPT ![t].pc = pc, ![t].result = r] \in [Threads -> CallType]
<1>1. [thread EXCEPT ![t].pc = pc, ![t].result = r]
        = [thread EXCEPT ![t] = [thread[t] EXCEPT !.pc = pc, !.result = r]]
  BY DEF Types
<1>2. [thread[t] EXCEPT !.pc = pc, !.result = r] \in CallType
  BY StepTypes DEF CallType
<1> QED
  BY <1>1, <1>2, StepTypes

LEMMA RowsType == \A k \in Nodes : Path[k] \in Seq(Nodes) /\ Path[k] # <<>>
BY ReadsAssumption

\* What read() and write() make of the result of a query.
LEMMA AfterQueryType ==
  ASSUME NEW c \in CallType
  PROVE  AfterQuery([c EXCEPT !.conn = Null]) \in CallType
<1> DEFINE d == [c EXCEPT !.conn = Null]
<1>1. d \in CallType
  BY Values DEF CallType
<1>2. Returned(d.result) \in CallType
  BY <1>1, ReturnedType DEF CallType
<1>3. MayRetry(d) => [d EXCEPT !.pc = "connecting", !.tries = d.tries + 1] \in CallType
  <2>1. MayRetry(d) => d.tries + 1 \in Tries
    BY <1>1, Numbers DEF CallType, MayRetry, Tries
  <2> HIDE DEF d
  <2> QED
    BY <1>1, <2>1, Values DEF CallType
<1>4. [d EXCEPT !.pc = "connecting", !.phase = "row", !.tries = 0, !.refused = 0] \in CallType
  <2> HIDE DEF d
  <2> QED
    BY <1>1, Numbers, Values DEF CallType
<1>5. AfterFailure(d) \in CallType
  BY <1>2, <1>3, <1>4 DEF AfterFailure
<1>6. [d EXCEPT !.pc = "finding"] \in CallType /\ [d EXCEPT !.pc = "caching"] \in CallType
  BY <1>1, Values DEF CallType
<1> QED
  BY <1>5, <1>6 DEF AfterQuery

LEMMA GetsConnectionTypes ==
  ASSUME Types, NEW t \in Threads, GetsConnection(t)
  PROVE  Types'
<1>1. CacheTypes'
  BY SameCaches DEF GetsConnection, Types
<1>2. ASSUME NEW i \in Pool
      PROVE  [thread EXCEPT ![t].pc = "querying", ![t].conn = i] \in [Threads -> CallType]
  <2>1. [thread EXCEPT ![t].pc = "querying", ![t].conn = i]
          = [thread EXCEPT ![t] = [thread[t] EXCEPT !.pc = "querying", !.conn = i]]
    BY DEF Types
  <2>2. [thread[t] EXCEPT !.pc = "querying", !.conn = i] \in CallType
    BY StepTypes, Values DEF CallType
  <2> QED
    BY <2>1, <2>2, StepTypes
<1>3. CASE dbConnectionsPool
  <2>1. PICK i \in Pool :
          /\ connections' = [connections EXCEPT ![i] = Taken(connections[i])]
          /\ nextConnection' = After(i)
          /\ thread' = [thread EXCEPT ![t].pc = "querying", ![t].conn = i]
    BY <1>3 DEF GetsConnection
  <2>2. /\ usedConnections' = usedConnections + 1 /\ UNCHANGED connMutex
        /\ UNCHANGED <<fixed, server, refusals, stored, volatile, calls, exited>>
    BY <1>3 DEF GetsConnection, dbVars, fixed
  <2>3. After(i) \in Pool
    BY ReadsAssumption DEF After, Pool
  <2>4. Taken(connections[i])
          \in [bInUse : BOOLEAN, bDisconnect : BOOLEAN, opened : Restart]
    BY DEF Types, Taken, Restart
  <2>5. connections' \in [Pool -> [bInUse : BOOLEAN, bDisconnect : BOOLEAN, opened : Restart]]
    BY <2>1, <2>4 DEF Types
  <2>6. thread' \in [Threads -> CallType] /\ nextConnection' \in Pool
    BY <1>2, <2>1, <2>3
  <2> QED
    BY <1>1, <2>2, <2>5, <2>6 DEF Types, fixed
<1>4. CASE ~dbConnectionsPool
  <2>1. /\ connMutex' = t
        /\ thread' = [thread EXCEPT ![t].pc = "querying", ![t].conn = 0]
        /\ UNCHANGED <<connections, nextConnection, usedConnections,
                       fixed, server, refusals, stored, volatile, calls, exited>>
    BY <1>4 DEF GetsConnection, dbVars, fixed
  <2> QED
    BY <1>1, <1>2, <2>1, PoolIsThere DEF Types, fixed
<1> QED
  BY <1>3, <1>4

LEMMA DisposesTypes ==
  ASSUME Types, NEW t \in Threads, Disposes(t), thread[t].conn # Null
  PROVE  Types'
<1>1. CacheTypes'
  BY SameCaches DEF Disposes, Types
<1>2. thread' \in [Threads -> CallType]
  BY AfterQueryType DEF Disposes, Types
<1>3. thread[t].conn \in Pool
  BY DEF Types, CallType, NullOr
<1>4. connections' \in [Pool -> [bInUse : BOOLEAN, bDisconnect : BOOLEAN, opened : Restart]]
  BY <1>3 DEF Disposes, Dispose, Types
<1>5. nextConnection' \in Pool /\ usedConnections' \in Int
  BY DEF Disposes, Dispose, Types
<1>6. connMutex' \in Threads \cup {Null}
  BY DEF Disposes, Dispose, Types
<1> QED
  BY <1>1, <1>2, <1>4, <1>5, <1>6 DEF Disposes, Types, dbVars, fixed

LEMMA MarksFailedTypes ==
  ASSUME Types, NEW t \in Threads, MarksFailed(t)
  PROVE  Types'
<1>1. CacheTypes'
  BY SameCaches DEF MarksFailed, Types
<1>2. thread' \in [Threads -> CallType]
  BY ResultTypes, Values DEF MarksFailed
<1>3. connections' \in [Pool -> [bInUse : BOOLEAN, bDisconnect : BOOLEAN, opened : Restart]]
  BY DEF MarksFailed, Types
<1> QED
  BY <1>1, <1>2, <1>3 DEF MarksFailed, Types, dbVars, fixed

LEMMA QueriesTypes ==
  ASSUME Types, NEW t \in Threads, Queries(t), thread[t].conn # Null,
         thread[t].key \in Keys, thread[t].phase = "tree" => thread[t].key \in Nodes
  PROVE  Types'
<1>1. CacheTypes'
  BY SameCaches DEF Queries, Types
<1>2. connections' \in [Pool -> [bInUse : BOOLEAN, bDisconnect : BOOLEAN, opened : Restart]]
  BY DEF Queries, Opens, Types, CallType, Restart
<1>3. thread' \in [Threads -> CallType] /\ stored' \in SUBSET Keys
  <2> DEFINE k == thread[t].key
  <2>1. CASE thread[t].phase = "row" /\ UNCHANGED stored
             /\ Queried(t, "disposing", IF k \in stored THEN "SUCCESS" ELSE "DB_KEY_NOT_FOUND")
    BY <2>1, ResultTypes, Values DEF Queried, Types
  <2>2. CASE thread[t].phase = "insert" /\ Queried(t, "disposing", "SUCCESS")
             /\ stored' = stored \cup {k}
    BY <2>2, ResultTypes, Values DEF Queried, Types
  <2>3. CASE thread[t].phase = "tree" /\ UNCHANGED stored
             /\ thread' = [thread EXCEPT ![t].pc = "filling", ![t].todo = Path[k]]
    <3>1. Path[k] \in Seq(Nodes) /\ "filling" \in Pcs
      BY <2>3, RowsType, Values
    <3>2. thread \in [Threads -> CallType] /\ stored \in SUBSET Keys
      BY DEF Types
    <3>3. [thread[t] EXCEPT !.pc = "filling", !.todo = Path[k]] \in CallType
      BY <3>1, <3>2 DEF CallType
    <3> QED
      BY <2>3, <3>2, <3>3
  <2>4. CASE UNCHANGED stored /\ Queried(t, "failing", "DB_ERROR")
    BY <2>4, ResultTypes, Values DEF Queried, Types
  <2> QED
    BY <2>1, <2>2, <2>3, <2>4 DEF Queries
<1> QED
  BY <1>1, <1>2, <1>3 DEF Queries, Types, fixed

LEMMA QueryBreaksTypes ==
  ASSUME Types, NEW t \in Threads, QueryBreaks(t), thread[t].key \in Keys
  PROVE  Types'
<1>1. CacheTypes'
  BY SameCaches DEF QueryBreaks, Types
<1>2. thread' \in [Threads -> CallType]
  <2>1. thread \in [Threads -> CallType] /\ server \in Restart
    BY DEF Types, Restart
  <2>2. [thread[t] EXCEPT !.pc = "failing", !.failedAt = server] \in CallType
    BY <2>1, Values DEF CallType
  <2>3. [thread[t] EXCEPT !.pc = "failing", !.failedAt = server,
                          !.refused = thread[t].refused + 1] \in CallType
    <3>1. thread[t].refused + 1 \in Nat
      BY <2>1 DEF CallType
    <3> QED
      BY <2>1, <3>1, Values DEF CallType
  <2>4. CASE thread' = [thread EXCEPT ![t].pc = "failing", ![t].failedAt = server]
    BY <2>1, <2>2, <2>4
  <2>5. CASE thread' = [thread EXCEPT ![t].pc = "failing", ![t].failedAt = server,
                                      ![t].refused = @ + 1]
    BY <2>1, <2>3, <2>5
  <2> QED
    BY <2>4, <2>5 DEF QueryBreaks
<1>3. stored' \in SUBSET Keys
  BY DEF QueryBreaks, Types
<1> QED
  BY <1>1, <1>2, <1>3 DEF QueryBreaks, Types, poolVars, fixed

LEMMA CachesRowTypes ==
  ASSUME Types, NEW t \in Threads, CachesRow(t), thread[t].todo # <<>>
  PROVE  Types'
<1> DEFINE todo == thread[t].todo
<1>1. todo \in Seq(Nodes) /\ Head(todo) \in Keys /\ Tail(todo) \in Seq(Nodes)
  BY DEF Types, CallType, Keys
<1>2. CacheTypes'
  BY <1>1, AddCaches, ReadsAssumption DEF CachesRow, Types
<1>3. thread' \in [Threads -> CallType]
  <2> DEFINE pc == IF Len(todo) = 1 THEN "disposing" ELSE "filling"
             r  == IF Len(todo) = 1 THEN "SUCCESS" ELSE thread[t].result
  <2>1. thread' = [thread EXCEPT ![t] = [thread[t] EXCEPT !.todo = Tail(todo), !.pc = pc,
                                                          !.result = r]]
    BY DEF CachesRow, Types
  <2>2. pc \in Pcs /\ r \in Results /\ thread[t] \in CallType
    BY Values DEF Types, CallType
  <2> HIDE DEF pc, r, todo
  <2>3. [thread[t] EXCEPT !.todo = Tail(todo), !.pc = pc, !.result = r] \in CallType
    BY <1>1, <2>2 DEF CallType
  <2> QED
    BY <2>1, <2>3, StepTypes
<1> QED
  BY <1>2, <1>3 DEF CachesRow, Types, poolVars, dbVars, fixed

\* The steps that end a call, or look into the cache once more.
LEMMA CacheStepTypes ==
  ASSUME Types, NEW t \in Threads, thread[t].key \in Keys,
         CachesKey(t) \/ FindsAgain(t) \/ MissesAgain(t)
  PROVE  Types'
<1>1. [thread EXCEPT ![t] = Returned("SUCCESS")] \in [Threads -> CallType]
  BY ReturnedType, Values DEF Types
<1>2. CASE CachesKey(t)
  <2>1. CacheTypes'
    BY <1>2, AddCaches, ReadsAssumption DEF CachesKey, Types
  <2> QED
    BY <1>1, <1>2, <2>1 DEF CachesKey, Types, poolVars, dbVars, fixed
<1>3. CASE FindsAgain(t)
  <2>1. CacheTypes'
    BY <1>3, FindCaches, ReadsAssumption DEF FindsAgain, Types
  <2> QED
    BY <1>1, <1>3, <2>1 DEF FindsAgain, Types, poolVars, dbVars, fixed
<1>4. CASE MissesAgain(t)
  <2>1. CacheTypes'
    BY <1>4, SameCaches DEF MissesAgain, Types
  <2>2. thread' \in [Threads -> CallType]
    <3> DEFINE c == [thread[t] EXCEPT !.pc = "connecting", !.phase = "row", !.tries = 0,
                                      !.refused = 0, !.result = "UNSPECIFIED"]
    <3>1. thread' = [thread EXCEPT ![t] = c]
      BY <1>4 DEF MissesAgain, Types
    <3>2. c \in CallType
      BY StepTypes, Numbers, Values DEF CallType
    <3> HIDE DEF c
    <3> QED
      BY <3>1, <3>2, StepTypes
  <2> QED
    BY <1>4, <2>1, <2>2 DEF MissesAgain, Types, poolVars, dbVars, fixed
<1> QED
  BY <1>2, <1>3, <1>4

LEMMA OutsideTypes ==
  ASSUME Types, Others
  PROVE  Types'
<1>1. CASE Clears
  <2>1. CacheTypes'
    BY <1>1 DEF Clears, CacheTypes, NodeCache!Clear, ProgramCache!Clear
  <2>2. calls' \in 0 .. workload.calls
    BY <1>1, Numbers DEF Clears, Types
  <2> QED
    BY <1>1, <2>1, <2>2 DEF Clears, Types, poolVars, dbVars, fixed
<1>2. CASE Restarts
  <2>1. CacheTypes'
    BY <1>2, SameCaches DEF Restarts, Types
  <2>2. server' \in Nat
    BY <1>2 DEF Restarts, Types
  <2> QED
    BY <1>2, <2>1, <2>2 DEF Restarts, Types, poolVars, fixed
<1>3. ASSUME NEW k \in LateRows, Arrives(k) PROVE Types'
  <2>1. CacheTypes'
    BY <1>3, SameCaches DEF Arrives, Types
  <2>2. stored' \in SUBSET Keys
    BY <1>3, ReadsAssumption DEF Arrives, Types, Keys
  <2> QED
    BY <1>3, <2>1, <2>2 DEF Arrives, Types, poolVars, fixed
<1> QED
  BY <1>1, <1>2, <1>3 DEF Others

\* The process runs out of connections: nothing changes but that it ended.
LEMMA RunsOutTypes ==
  ASSUME Types, NEW t \in Threads, RunsOut(t)
  PROVE  Types'
<1>1. CacheTypes'
  BY SameCaches DEF RunsOut, Types
<1> QED
  BY <1>1 DEF RunsOut, Types, poolVars, dbVars, fixed

LEMMA NextCases ==
  ASSUME Types, Next
  PROVE  \/ \E t \in Threads : Step(t)
         \/ \E t \in Threads, k \in Keys : Calls(t, k)
         \/ Others
<1>1. workload.threads \subseteq Threads /\ workload.keys \subseteq Keys
  BY ReadsAssumption DEF Types, Keys
<1> QED
  BY <1>1 DEF Next, Runs, Asked, Outside, Calls, Others

-----------------------------------------------------------------------------
(* What an action makes of the call of its thread.                         *)

Became(t, c) == thread' = [thread EXCEPT ![t] = c]

LEMMA Gets ==
  ASSUME Types, NEW t \in Threads, GetsConnection(t)
  PROVE  \E i \in Pool :
           /\ Became(t, [thread[t] EXCEPT !.pc = "querying", !.conn = i])
           /\ dbConnectionsPool =>
                IsNextFree(i) /\ connections' = [connections EXCEPT ![i] = Taken(connections[i])]
           /\ ~dbConnectionsPool => i = 0
BY PoolIsThere DEF GetsConnection, Became, Types

LEMMA QueriesBecomes ==
  ASSUME Types, NEW t \in Threads, Queries(t)
  PROVE  LET c == thread[t] IN
         \/ /\ c.phase = "row" /\ UNCHANGED stored
            /\ Became(t, [c EXCEPT !.pc = "disposing",
                 !.result = IF c.key \in stored THEN "SUCCESS" ELSE "DB_KEY_NOT_FOUND"])
         \/ /\ c.phase = "insert" /\ stored' = stored \cup {c.key}
            /\ Became(t, [c EXCEPT !.pc = "disposing", !.result = "SUCCESS"])
         \/ /\ c.phase = "tree" /\ UNCHANGED stored /\ TreeIsComplete(c.key)
            /\ Became(t, [c EXCEPT !.pc = "filling", !.todo = Path[c.key]])
         \/ /\ c.phase = "tree" /\ UNCHANGED stored
            /\ Became(t, [c EXCEPT !.pc = "failing", !.result = "DB_ERROR"])
BY DEF Queries, Queried, Became, Types

\* Its connection was stale, or one more of its queries was refused.
LEMMA BreaksBecomes ==
  ASSUME Types, NEW t \in Threads, QueryBreaks(t)
  PROVE  LET c == thread[t] IN
         \E n \in Nat :
           /\ n = c.refused + 1 \/ (n = c.refused /\ IsStale(t))
           /\ Became(t, [c EXCEPT !.pc = "failing", !.failedAt = server, !.refused = n])
<1> DEFINE c == thread[t]
<1>1. c \in CallType /\ c.refused \in Nat
  BY DEF Types, CallType
<1>2. CASE /\ IsStale(t)
           /\ thread' = [thread EXCEPT ![t].pc = "failing", ![t].failedAt = server]
  <2>1. [c EXCEPT !.pc = "failing", !.failedAt = server]
          = [c EXCEPT !.pc = "failing", !.failedAt = server, !.refused = c.refused]
    BY <1>1 DEF CallType
  <2> QED
    BY <1>1, <1>2, <2>1 DEF Became, Types
<1>3. CASE thread' = [thread EXCEPT ![t].pc = "failing", ![t].failedAt = server,
                                    ![t].refused = @ + 1]
  <2>1. thread' = [thread EXCEPT ![t] = [c EXCEPT !.pc = "failing", !.failedAt = server,
                                                  !.refused = c.refused + 1]]
    BY <1>3 DEF Types
  <2>2. c.refused + 1 \in Nat
    BY <1>1
  <2> QED
    BY <2>1, <2>2 DEF Became
<1> QED
  BY <1>2, <1>3 DEF QueryBreaks

LEMMA MarksBecomes ==
  ASSUME Types, NEW t \in Threads, MarksFailed(t)
  PROVE  Became(t, [thread[t] EXCEPT !.pc = "disposing", !.result = "DB_ERROR"])
BY DEF MarksFailed, Became, Types

\* More than one row: some are left after the first.
LEMMA TailLeft ==
  ASSUME NEW S, NEW s \in Seq(S), s # <<>>, Len(s) # 1
  PROVE  Tail(s) # <<>>
<1>0. Len(s) # 0
  OBVIOUS
<1>1. Len(s) \in Nat /\ Len(Tail(s)) = Len(s) - 1
  BY <1>0
<1>2. Len(Tail(s)) # 0
  BY <1>1
<1>3. Len(<<>>) = 0
  OBVIOUS
<1> QED
  BY <1>2, <1>3

LEMMA RowBecomes ==
  ASSUME Types, NEW t \in Threads, CachesRow(t), thread[t].todo # <<>>
  PROVE  LET c == thread[t] IN
         \/ Became(t, [c EXCEPT !.pc = "disposing", !.todo = Tail(c.todo), !.result = "SUCCESS"])
         \/ /\ Tail(c.todo) # <<>>
            /\ Became(t, [c EXCEPT !.todo = Tail(c.todo), !.pc = "filling",
                                   !.result = c.result])
<1> DEFINE c == thread[t]
<1>1. c \in CallType /\ c.todo \in Seq(Nodes) /\ c.pc = "filling"
  BY DEF CachesRow, At, Types, CallType
<1>2. CASE Len(c.todo) = 1
  <2>1. thread' = [thread EXCEPT ![t] = [c EXCEPT !.todo = Tail(c.todo), !.pc = "disposing",
                                                  !.result = "SUCCESS"]]
    BY <1>2 DEF CachesRow, Types
  <2> QED
    BY <1>1, <2>1 DEF Became, CallType
<1>3. CASE Len(c.todo) # 1
  <2>1. thread' = [thread EXCEPT ![t] = [c EXCEPT !.todo = Tail(c.todo), !.pc = "filling",
                                                  !.result = c.result]]
    BY <1>3 DEF CachesRow, Types
  <2>2. Tail(c.todo) # <<>>
    BY <1>1, <1>3, TailLeft
  <2> QED
    BY <2>1, <2>2 DEF Became
<1> QED
  BY <1>2, <1>3

LEMMA DisposesBecomes ==
  ASSUME Types, NEW t \in Threads, Disposes(t)
  PROVE  LET c == [thread[t] EXCEPT !.conn = Null] IN
         \/ /\ c.result = "SUCCESS" /\ c.phase = "tree"
            /\ Became(t, [c EXCEPT !.pc = "finding"])
         \/ /\ c.result = "SUCCESS" /\ c.phase # "tree"
            /\ Became(t, [c EXCEPT !.pc = "caching"])
         \/ /\ c.result # "SUCCESS" /\ MayRetry(c)
            /\ Became(t, [c EXCEPT !.pc = "connecting", !.tries = c.tries + 1])
         \/ /\ c.result # "SUCCESS" /\ ~MayRetry(c) /\ c.phase = "tree"
            /\ Became(t, [c EXCEPT !.pc = "connecting", !.phase = "row", !.tries = 0,
                                   !.refused = 0])
         \/ /\ c.result # "SUCCESS" /\ ~MayRetry(c) /\ c.phase # "tree"
            /\ Became(t, Returned(c.result))
BY DEF Disposes, AfterQuery, AfterFailure, Became

LEMMA EndsBecomes ==
  ASSUME Types, NEW t \in Threads, CachesKey(t) \/ FindsAgain(t) \/ MissesAgain(t)
  PROVE  \/ Became(t, Returned("SUCCESS"))
         \/ Became(t, [thread[t] EXCEPT !.pc = "connecting", !.phase = "row", !.tries = 0,
                                        !.refused = 0, !.result = "UNSPECIFIED"])
BY DEF CachesKey, FindsAgain, MissesAgain, Became, Types

LEMMA CallBecomes ==
  ASSUME NEW t \in Threads, NEW k \in Keys, Types,
         Calls(t, k)
  PROVE  /\ thread[t].pc = "idle"
         /\ \/ Became(t, Returned("SUCCESS"))
            \/ \E phase \in Phases :
                 /\ phase = "tree" => k \in Nodes
                 /\ Became(t, [NoCall EXCEPT !.pc = "connecting", !.key = k, !.phase = phase,
                                 !.wasStored = k \in stored, !.since = server])
<1>1. CASE ReadsCached(t, k) \/ WritesVolatile(t, k)
  BY <1>1 DEF ReadsCached, WritesVolatile, Call, At, Became
<1>2. CASE ReadsRemote(t, k)
  <2>1. PICK phase \in IF k \in Nodes THEN {"tree", "row"} ELSE {"row"} : Asks(t, k, phase)
    BY <1>2 DEF ReadsRemote
  <2>2. phase \in Phases /\ (phase = "tree" => k \in Nodes)
    BY <2>1, Values
  <2>3. /\ thread[t].pc = "idle"
        /\ Became(t, [NoCall EXCEPT !.pc = "connecting", !.key = k, !.phase = phase,
                        !.wasStored = k \in stored, !.since = server])
    BY <2>1 DEF Asks, Call, At, Became
  <2> QED
    BY <2>2, <2>3
<1>3. CASE Writes(t, k)
  <2>1. /\ thread[t].pc = "idle"
        /\ Became(t, [NoCall EXCEPT !.pc = "connecting", !.key = k, !.phase = "insert",
                        !.wasStored = k \in stored, !.since = server])
    BY <1>3 DEF Writes, Asks, Call, At, Became
  <2> QED
    BY <2>1, Values
<1> QED
  BY <1>1, <1>2, <1>3 DEF Calls

-----------------------------------------------------------------------------
(* Shapes: what a call in progress holds and works on.                     *)

Holding == {"querying", "filling", "failing", "disposing"}

Shape(c) ==
  /\ c.pc # "idle" => c.key \in Keys
  /\ c.phase = "tree" => c.key \in Nodes
  /\ c.pc = "filling" => c.todo # <<>>
  /\ c.pc \in Holding <=> c.conn # Null

Shapes == \A t \in Threads : Shape(thread[t])

\* A call that changes into another one with a shape.
LEMMA ShapeOfOne ==
  ASSUME Types, Shapes, NEW t \in Threads, NEW c, Shape(c), Became(t, c)
  PROVE  Shapes'
BY DEF Types, Shapes, Became, Shape

LEMMA NoCallShape == \A r : Shape(Returned(r))
BY DEF Returned, NoCall, Shape, Holding

LEMMA SameShapes == Shapes /\ UNCHANGED thread => Shapes'
BY DEF Shapes, Shape

LEMMA StepShapes ==
  ASSUME Types, Shapes, NEW t \in Threads, Step(t)
  PROVE  Shapes'
<1> DEFINE c == thread[t]
<1>1. c \in CallType /\ Shape(c)
  BY DEF Types, Shapes
<1>2. CASE GetsConnection(t)
  <2>1. PICK i \in Pool : Became(t, [c EXCEPT !.pc = "querying", !.conn = i])
    BY <1>2, Gets
  <2>2. c.key \in Keys
    BY <1>1, <1>2 DEF GetsConnection, At, Shape
  <2>3. Shape([c EXCEPT !.pc = "querying", !.conn = i])
    BY <1>1, <2>2, PoolIsThere DEF Shape, CallType, Holding
  <2> QED
    BY <2>1, <2>3, ShapeOfOne
<1>3. CASE Queries(t)
  <2>1. c.pc = "querying" /\ c.key \in Keys
    BY <1>1, <1>3 DEF Queries, At, Shape
  <2>2. \A r : /\ Shape([c EXCEPT !.pc = "disposing", !.result = r])
               /\ Shape([c EXCEPT !.pc = "failing", !.result = r])
    BY <1>1, <2>1 DEF Shape, CallType, Holding
  <2>3. c.phase = "tree" => Shape([c EXCEPT !.pc = "filling", !.todo = Path[c.key]])
    BY <1>1, <2>1, RowsType DEF Shape, CallType, Holding
  <2> HIDE DEF c
  <2> QED
    BY <1>3, <2>2, <2>3, QueriesBecomes, ShapeOfOne DEF c
<1>4. CASE QueryBreaks(t)
  <2>1. \A n : Shape([c EXCEPT !.pc = "failing", !.failedAt = server, !.refused = n])
    BY <1>1, <1>4 DEF QueryBreaks, At, Shape, CallType, Holding
  <2> QED
    BY <1>4, <2>1, BreaksBecomes, ShapeOfOne
<1>5. CASE MarksFailed(t)
  <2>1. Shape([c EXCEPT !.pc = "disposing", !.result = "DB_ERROR"])
    BY <1>1, <1>5 DEF MarksFailed, At, Shape, CallType, Holding
  <2> QED
    BY <1>5, <2>1, MarksBecomes, ShapeOfOne
<1>6. CASE CachesRow(t)
  <2>1. c.pc = "filling" /\ c.todo # <<>>
    BY <1>1, <1>6 DEF CachesRow, At, Shape
  <2>2. Shape([c EXCEPT !.pc = "disposing", !.todo = Tail(c.todo), !.result = "SUCCESS"])
    BY <1>1, <2>1 DEF Shape, CallType, Holding
  <2>3. Tail(c.todo) # <<>>
          => Shape([c EXCEPT !.todo = Tail(c.todo), !.pc = "filling", !.result = c.result])
    BY <1>1, <2>1 DEF Shape, CallType, Holding
  <2> QED
    BY <1>6, <2>1, <2>2, <2>3, RowBecomes, ShapeOfOne
<1>7. CASE Disposes(t)
  <2> DEFINE d == [c EXCEPT !.conn = Null]
  <2>1. c.key \in Keys /\ (c.phase = "tree" => c.key \in Nodes)
    BY <1>1, <1>7 DEF Disposes, At, Shape
  <2>2. /\ Shape([d EXCEPT !.pc = "finding"]) /\ Shape([d EXCEPT !.pc = "caching"])
        /\ \A n : Shape([d EXCEPT !.pc = "connecting", !.tries = n])
        /\ Shape([d EXCEPT !.pc = "connecting", !.phase = "row", !.tries = 0, !.refused = 0])
    BY <1>1, <2>1 DEF Shape, CallType, Holding
  <2> QED
    BY <1>7, <2>2, DisposesBecomes, ShapeOfOne, NoCallShape
<1>8. CASE CachesKey(t) \/ FindsAgain(t) \/ MissesAgain(t)
  <2>1. Shape([c EXCEPT !.pc = "connecting", !.phase = "row", !.tries = 0,
                        !.refused = 0, !.result = "UNSPECIFIED"])
    BY <1>1, <1>8 DEF CachesKey, FindsAgain, MissesAgain, At, Shape, CallType, Holding
  <2> QED
    BY <1>8, <2>1, EndsBecomes, ShapeOfOne, NoCallShape
<1>9. CASE RunsOut(t)
  BY <1>9, SameShapes DEF RunsOut
<1> QED
  BY <1>2, <1>3, <1>4, <1>5, <1>6, <1>7, <1>8, <1>9 DEF Step

LEMMA CallShapes ==
  ASSUME Types, Shapes, NEW t \in Threads, NEW k \in Keys, Calls(t, k)
  PROVE  Shapes'
<1>1. \A phase \in Phases : (phase = "tree" => k \in Nodes) =>
        Shape([NoCall EXCEPT !.pc = "connecting", !.key = k, !.phase = phase,
                             !.wasStored = k \in stored, !.since = server])
  BY DEF NoCall, Shape, Holding
<1> QED
  BY <1>1, CallBecomes, ShapeOfOne, NoCallShape

\* Every step keeps the types as long as the calls have their shapes.
LEMMA NextTypes ==
  ASSUME Types, Shapes, [Next]_vars
  PROVE  Types' /\ Shapes'
<1>1. ASSUME NEW t \in Threads, Step(t) PROVE Types'
  <2>1. Shape(thread[t]) /\ thread[t] \in CallType
    BY DEF Shapes, Types
  <2>2. CASE GetsConnection(t)
    BY <2>2, GetsConnectionTypes
  <2>3. CASE Queries(t)
    BY <2>1, <2>3, QueriesTypes DEF Queries, At, Shape, Holding
  <2>4. CASE QueryBreaks(t)
    BY <2>1, <2>4, QueryBreaksTypes DEF QueryBreaks, At, Shape
  <2>5. CASE MarksFailed(t)
    BY <2>5, MarksFailedTypes
  <2>6. CASE CachesRow(t)
    BY <2>1, <2>6, CachesRowTypes DEF CachesRow, At, Shape
  <2>7. CASE Disposes(t)
    BY <2>1, <2>7, DisposesTypes DEF Disposes, At, Shape, Holding
  <2>8. CASE CachesKey(t) \/ FindsAgain(t) \/ MissesAgain(t)
    <3>1. thread[t].key \in Keys
      BY <2>1, <2>8 DEF CachesKey, FindsAgain, MissesAgain, At, Shape
    <3> QED
      BY <2>8, <3>1, CacheStepTypes
  <2>9. CASE RunsOut(t)
    BY <2>9, RunsOutTypes
  <2> QED
    BY <1>1, <2>2, <2>3, <2>4, <2>5, <2>6, <2>7, <2>8, <2>9 DEF Step
<1>2. CASE Others
  <2>1. UNCHANGED thread
    BY <1>2 DEF Others, Clears, Restarts, Arrives
  <2> QED
    BY <1>2, <2>1, OutsideTypes, SameShapes
<1>3. CASE UNCHANGED vars
  <2>1. CacheTypes' /\ Shapes'
    BY <1>3, SameCaches, SameShapes DEF vars, Types
  <2> QED
    BY <1>3, <2>1 DEF vars, poolVars, dbVars, fixed, Types
<1> QED
  BY <1>1, <1>2, <1>3, NextCases, StepShapes, CallShapes, CallsKeepTypes

LEMMA InitShapes == Init => Shapes
BY NoCallShape DEF Init, Shapes, Shape, NoCall, Holding

-----------------------------------------------------------------------------
(* The pool.                                                               *)

InUse == {i \in Pool : connections[i].bInUse}

Accounts ==
  /\ \A t, u \in Threads : thread[t].conn = thread[u].conn /\ t # u => thread[t].conn = Null
  /\ dbConnectionsPool =>
       /\ connMutex = Null
       /\ \A i \in Pool : connections[i].bInUse <=> \E t \in Threads : thread[t].conn = i
       /\ usedConnections = Cardinality(InUse)
  /\ ~dbConnectionsPool =>
       /\ \A t \in Threads : thread[t].conn # Null <=> connMutex = t
       /\ usedConnections = 0
       /\ \A i \in Pool : ~connections[i].bDisconnect

LEMMA PoolIsFinite ==
  /\ IsFiniteSet(Pool) /\ Cardinality(Pool) = dbNumberOfPoolConnections
  /\ IsFiniteSet(InUse) /\ Cardinality(InUse) <= dbNumberOfPoolConnections
  /\ Cardinality(InUse) \in Nat
<1>1. IsFiniteSet(Pool) /\ Cardinality(Pool) = dbNumberOfPoolConnections
  BY Numbers, FS_Interval DEF Pool
<1>2. InUse \in SUBSET Pool
  BY DEF InUse
<1>3. IsFiniteSet(InUse) /\ Cardinality(InUse) <= Cardinality(Pool)
  BY <1>1, <1>2, FS_Subset
<1> QED
  BY <1>1, <1>3, FS_CardinalityType

\* A step that moves no connection between a thread and the pool.
KeepsPool ==
  /\ \A u \in Threads : thread'[u].conn = thread[u].conn
  /\ \A i \in Pool : connections'[i].bInUse = connections[i].bInUse
  /\ ~dbConnectionsPool => \A i \in Pool : connections'[i].bDisconnect = connections[i].bDisconnect
  /\ UNCHANGED <<dbConnectionsPool, connMutex, usedConnections>>

LEMMA KeepsAccounts ==
  ASSUME Accounts, KeepsPool
  PROVE  Accounts'
<1>1. InUse' = InUse
  BY DEF KeepsPool, InUse
<1> QED
  BY <1>1 DEF KeepsPool, Accounts

\* A connection for t: it was free, and is nobody else's.
LEMMA TakesAccounts ==
  ASSUME Types, Shapes, Accounts, NEW t \in Threads, GetsConnection(t)
  PROVE  Accounts'
<1> DEFINE c == thread[t]
<1>1. c \in CallType /\ c.pc = "connecting" /\ c.conn = Null
  BY DEF Types, Shapes, Shape, GetsConnection, At, Holding
<1>2. PICK i \in Pool :
        /\ Became(t, [c EXCEPT !.pc = "querying", !.conn = i])
        /\ dbConnectionsPool =>
             IsNextFree(i) /\ connections' = [connections EXCEPT ![i] = Taken(connections[i])]
        /\ ~dbConnectionsPool => i = 0
  BY Gets
<1>3. thread'[t].conn = i /\ \A u \in Threads \ {t} : thread'[u].conn = thread[u].conn
  BY <1>1, <1>2 DEF Became, Types, CallType
<1>4. i # Null
  BY PoolIsThere
<1>5. CASE dbConnectionsPool
  <2>1. ~connections[i].bInUse
    BY <1>2, <1>5 DEF IsNextFree
  <2>2. \A u \in Threads : thread[u].conn # i
    BY <1>5, <2>1 DEF Accounts
  <2>3. /\ connections'[i].bInUse
        /\ \A j \in Pool \ {i} : connections'[j].bInUse = connections[j].bInUse
    BY <1>2, <1>5 DEF Types, Taken
  <2>4. InUse' = InUse \cup {i} /\ i \notin InUse
    BY <2>1, <2>3 DEF InUse
  <2>5. Cardinality(InUse') = Cardinality(InUse) + 1
    BY <2>4, PoolIsFinite, FS_AddElement
  <2>6. /\ usedConnections' = usedConnections + 1
        /\ UNCHANGED <<connMutex, dbConnectionsPool>>
    BY <1>5 DEF GetsConnection, fixed
  <2>7. \A j \in Pool : connections'[j].bInUse <=> \E u \in Threads : thread'[u].conn = j
    <3>1. \A j \in Pool \ {i} : connections[j].bInUse <=> \E u \in Threads : thread[u].conn = j
      BY <1>5 DEF Accounts
    <3>2. \A j \in Pool \ {i} : j # Null /\ thread[t].conn # j /\ thread'[t].conn # j
      BY <1>1, <1>3, PoolIsThere
    <3>3. \A j \in Pool \ {i} : (\E u \in Threads : thread[u].conn = j)
                              <=> \E u \in Threads : thread'[u].conn = j
      BY <1>3, <3>2
    <3> QED
      BY <1>3, <2>3, <3>1, <3>3
  <2>8. \A u, v \in Threads : thread'[u].conn = thread'[v].conn /\ u # v
                              => thread'[u].conn = Null
    <3>1. \A u, v \in Threads : thread[u].conn = thread[v].conn /\ u # v
                                => thread[u].conn = Null
      BY DEF Accounts
    <3> QED
      BY <1>3, <2>2, <3>1
  <2>9. connMutex' = Null /\ usedConnections' = Cardinality(InUse')
    BY <1>5, <2>5, <2>6 DEF Accounts
  <2> QED
    BY <1>5, <2>6, <2>7, <2>8, <2>9 DEF Accounts
<1>6. CASE ~dbConnectionsPool
  <2>1. /\ connMutex = Null /\ connMutex' = t
        /\ UNCHANGED <<connections, usedConnections, dbConnectionsPool>>
    BY <1>6 DEF GetsConnection, fixed
  <2>2. \A u \in Threads : thread[u].conn = Null
    BY <1>6, <2>1, ReadsAssumption DEF Accounts
  <2> QED
    BY <1>3, <1>4, <1>6, <2>1, <2>2 DEF Accounts
<1> QED
  BY <1>5, <1>6

LEMMA ReturnsAccounts ==
  ASSUME Types, Shapes, Accounts, NEW t \in Threads, Disposes(t)
  PROVE  Accounts'
<1> DEFINE c == thread[t]
<1>1. c \in CallType /\ c.conn # Null
  BY DEF Types, Shapes, Shape, Disposes, At, Holding
<1>2. c.conn \in Pool
  BY <1>1 DEF CallType, NullOr
<1>3. thread'[t].conn = Null /\ \A u \in Threads \ {t} : thread'[u].conn = thread[u].conn
  <2> DEFINE d == [c EXCEPT !.conn = Null]
  <2>0. d \in CallType /\ d.conn = Null
    BY <1>1, Values DEF CallType
  <2> HIDE DEF d
  <2>1. AfterQuery(d).conn = Null
    BY <2>0 DEF AfterQuery, AfterFailure, Returned, NoCall, CallType
  <2>2. thread' = [thread EXCEPT ![t] = AfterQuery(d)]
    BY DEF Disposes, d
  <2> QED
    BY <2>1, <2>2 DEF Types
<1>4. CASE dbConnectionsPool
  <2>1. /\ connections' = [connections EXCEPT ![c.conn].bInUse = FALSE]
        /\ usedConnections' = usedConnections - 1
        /\ UNCHANGED <<connMutex, dbConnectionsPool>>
    BY <1>4 DEF Disposes, Dispose, fixed
  <2>2. connections[c.conn].bInUse
    BY <1>2, <1>4 DEF Accounts
  <2>3. /\ ~connections'[c.conn].bInUse
        /\ \A j \in Pool \ {c.conn} : connections'[j].bInUse = connections[j].bInUse
    BY <1>2, <2>1 DEF Types
  <2>4. InUse' = InUse \ {c.conn} /\ c.conn \in InUse
    BY <1>2, <2>2, <2>3 DEF InUse
  <2>5. Cardinality(InUse') = Cardinality(InUse) - 1
    BY <2>4, PoolIsFinite, FS_RemoveElement
  <2>6. \A u \in Threads \ {t} : thread[u].conn # c.conn
    BY <1>1 DEF Accounts
  <2> QED
    BY <1>1, <1>2, <1>3, <1>4, <2>1, <2>3, <2>5, <2>6, PoolIsThere DEF Accounts
<1>5. CASE ~dbConnectionsPool
  <2>1. /\ connMutex' = Null
        /\ UNCHANGED <<connections, usedConnections, dbConnectionsPool>>
    BY <1>5 DEF Disposes, Dispose, fixed
  <2>2. connMutex = t
    BY <1>1, <1>5 DEF Accounts
  <2>3. \A u \in Threads \ {t} : thread[u].conn = Null
    BY <1>5, <2>2 DEF Accounts
  <2> QED
    BY <1>3, <1>5, <2>1, <2>3, ReadsAssumption DEF Accounts
<1> QED
  BY <1>4, <1>5

\* A step of t whose call keeps its connection.
LEMMA KeepsConn ==
  ASSUME Types, NEW t \in Threads, NEW c, Became(t, c), c.conn = thread[t].conn
  PROVE  \A u \in Threads : thread'[u].conn = thread[u].conn
BY DEF Types, Became

\* The other steps of a thread move no connection.
LEMMA StepKeepsPool ==
  ASSUME Types, Shapes, Accounts, NEW t \in Threads,
         \/ Queries(t) \/ QueryBreaks(t) \/ MarksFailed(t)
         \/ CachesRow(t) \/ CachesKey(t) \/ FindsAgain(t) \/ MissesAgain(t)
         \/ RunsOut(t)
  PROVE  KeepsPool
<1> DEFINE c == thread[t]
<1>1. c \in CallType /\ Shape(c)
  BY DEF Types, Shapes
<1>2. CASE Queries(t)
  <2> DEFINE r1 == [c EXCEPT !.pc = "disposing",
                      !.result = IF c.key \in stored THEN "SUCCESS" ELSE "DB_KEY_NOT_FOUND"]
             r2 == [c EXCEPT !.pc = "disposing", !.result = "SUCCESS"]
             r3 == [c EXCEPT !.pc = "filling", !.todo = Path[c.key]]
             r4 == [c EXCEPT !.pc = "failing", !.result = "DB_ERROR"]
  <2>1. r1.conn = c.conn /\ r2.conn = c.conn /\ r3.conn = c.conn /\ r4.conn = c.conn
    BY <1>1 DEF CallType
  <2>2. \A u \in Threads : thread'[u].conn = thread[u].conn
    <3>1. Became(t, r1) \/ Became(t, r2) \/ Became(t, r3) \/ Became(t, r4)
      BY <1>2, QueriesBecomes
    <3> HIDE DEF r1, r2, r3, r4
    <3> QED
      BY <2>1, <3>1, KeepsConn
  <2>3. \A i \in Pool : /\ connections'[i].bInUse = connections[i].bInUse
                        /\ connections'[i].bDisconnect = connections[i].bDisconnect
    BY <1>2 DEF Queries, Opens, Types
  <2> QED
    BY <1>2, <2>2, <2>3 DEF Queries, fixed, KeepsPool
<1>3. CASE QueryBreaks(t)
  <2>1. \A n : [c EXCEPT !.pc = "failing", !.failedAt = server, !.refused = n].conn = c.conn
    BY <1>1 DEF CallType
  <2> QED
    BY <1>3, <2>1, BreaksBecomes, KeepsConn DEF QueryBreaks, poolVars, fixed, KeepsPool
<1>4. CASE MarksFailed(t)
  <2>1. [c EXCEPT !.pc = "disposing", !.result = "DB_ERROR"].conn = c.conn
    BY <1>1 DEF CallType
  <2>2. \A i \in Pool : connections'[i].bInUse = connections[i].bInUse
    BY <1>4 DEF MarksFailed, Types
  <2>3. dbConnectionsPool
    BY <1>1, <1>4, ReadsAssumption DEF MarksFailed, At, Shape, Holding, Accounts, Types
  <2> QED
    BY <1>4, <2>1, <2>2, <2>3, MarksBecomes, KeepsConn DEF MarksFailed, fixed, KeepsPool
<1>5. CASE CachesRow(t)
  <2> DEFINE r1 == [c EXCEPT !.pc = "disposing", !.todo = Tail(c.todo), !.result = "SUCCESS"]
             r2 == [c EXCEPT !.todo = Tail(c.todo), !.pc = "filling", !.result = c.result]
  <2>1. r1.conn = c.conn /\ r2.conn = c.conn
    BY <1>1 DEF CallType
  <2>2. c.todo # <<>>
    BY <1>1, <1>5 DEF CachesRow, At, Shape
  <2>3. \A u \in Threads : thread'[u].conn = thread[u].conn
    <3>1. Became(t, r1) \/ Became(t, r2)
      BY <1>5, <2>2, RowBecomes
    <3> HIDE DEF r1, r2
    <3> QED
      BY <2>1, <3>1, KeepsConn
  <2> QED
    BY <1>5, <2>3 DEF CachesRow, poolVars, fixed, KeepsPool
<1>6. CASE CachesKey(t) \/ FindsAgain(t) \/ MissesAgain(t)
  <2>1. c.conn = Null
    BY <1>1, <1>6 DEF CachesKey, FindsAgain, MissesAgain, At, Shape, Holding
  <2>2. /\ Returned("SUCCESS").conn = Null
        /\ [c EXCEPT !.pc = "connecting", !.phase = "row", !.tries = 0,
                     !.refused = 0, !.result = "UNSPECIFIED"].conn = c.conn
    BY <1>1 DEF Returned, NoCall, CallType
  <2>3. \A u \in Threads : thread'[u].conn = thread[u].conn
    BY <1>6, <2>1, <2>2, EndsBecomes, KeepsConn
  <2> QED
    BY <1>6, <2>3 DEF CachesKey, FindsAgain, MissesAgain, poolVars, fixed, KeepsPool
<1>7. CASE RunsOut(t)
  BY <1>7 DEF RunsOut, poolVars, fixed, KeepsPool
<1> QED
  BY <1>2, <1>3, <1>4, <1>5, <1>6, <1>7

LEMMA CallKeepsPool ==
  ASSUME Types, Shapes, NEW t \in Threads, NEW k \in Keys, Calls(t, k)
  PROVE  KeepsPool
<1>1. thread[t].conn = Null
  BY CallBecomes DEF Shapes, Shape, Holding
<1>2. /\ Returned("SUCCESS").conn = Null
      /\ \A phase : [NoCall EXCEPT !.pc = "connecting", !.key = k, !.phase = phase,
                       !.wasStored = k \in stored, !.since = server].conn = Null
  BY DEF Returned, NoCall
<1>3. \A u \in Threads : thread'[u].conn = thread[u].conn
  BY <1>1, <1>2, CallBecomes, KeepsConn
<1>4. UNCHANGED poolVars /\ UNCHANGED dbConnectionsPool
  BY DEF Calls, ReadsCached, ReadsRemote, Writes, WritesVolatile, fixed
<1> QED
  BY <1>3, <1>4 DEF poolVars, fixed, KeepsPool

LEMMA NextAccounts ==
  ASSUME Types, Shapes, Accounts, [Next]_vars
  PROVE  Accounts'
<1>1. ASSUME NEW t \in Threads, Step(t) PROVE Accounts'
  BY <1>1, TakesAccounts, ReturnsAccounts, StepKeepsPool, KeepsAccounts DEF Step
<1>2. ASSUME NEW t \in Threads, NEW k \in Keys, Calls(t, k)
      PROVE  Accounts'
  BY <1>2, CallKeepsPool, KeepsAccounts
<1>3. CASE Others \/ UNCHANGED vars
  <2>1. KeepsPool
    BY <1>3 DEF Others, Clears, Restarts, Arrives, vars, poolVars, fixed, KeepsPool
  <2> QED
    BY <2>1, KeepsAccounts
<1> QED
  BY <1>1, <1>2, <1>3, NextCases

LEMMA InitAccounts == Init => Accounts
<1> SUFFICES ASSUME Init PROVE Accounts
  OBVIOUS
<1>1. \A i \in Pool : ~connections[i].bInUse /\ ~connections[i].bDisconnect
  BY DEF Init
<1>2. \A t \in Threads : thread[t].conn = Null
  BY DEF Init, NoCall
<1>3. InUse = {}
  BY <1>1 DEF InUse
<1>4. usedConnections = Cardinality(InUse)
  BY <1>3, FS_EmptySet DEF Init
<1> QED
  BY <1>1, <1>2, <1>4, PoolIsThere, ReadsAssumption DEF Init, Accounts

\* The threads at work, and what is known of them once the process has ended.
Busy == {t \in Threads : thread[t].pc # "idle"}

Ended ==
  exited => /\ Cardinality(Busy) > dbNumberOfPoolConnections
            /\ ServerThreads # {} => Cardinality(Busy \ ServerThreads) >= 2

\* Every connection is held by another thread, and one more asks for one.
LEMMA RunsOutOfThreads ==
  ASSUME Types, Shapes, Accounts, NEW t \in Threads, RunsOut(t)
  PROVE  Cardinality(Busy) > dbNumberOfPoolConnections
<1> DEFINE Rest == Busy \ {t}
           f == [i \in Pool |-> CHOOSE u \in Rest : thread[u].conn = i]
<1>1. /\ thread[t].conn = Null /\ t \in Busy
      /\ dbConnectionsPool /\ \A i \in Pool : connections[i].bInUse
  BY DEF RunsOut, At, Shapes, Shape, Holding, Busy
<1>2. \A i \in Pool : \E u \in Rest : thread[u].conn = i
  <2> SUFFICES ASSUME NEW i \in Pool PROVE \E u \in Rest : thread[u].conn = i
    OBVIOUS
  <2>1. i # Null
    BY PoolIsThere
  <2>2. PICK u \in Threads : thread[u].conn = i
    BY <1>1 DEF Accounts
  <2>3. u # t /\ thread[u].pc # "idle"
    BY <1>1, <2>1, <2>2 DEF Shapes, Shape, Holding
  <2> QED
    BY <2>2, <2>3 DEF Busy
<1>3. \A i \in Pool : f[i] \in Rest /\ thread[f[i]].conn = i
  BY <1>2
<1>4. f \in [Pool -> Rest]
  BY <1>3
<1>5. IsFiniteSet(Busy)
  BY PoolAssumption, FS_Subset DEF Busy
<1>6. IsFiniteSet(Rest) /\ Cardinality(Rest) = Cardinality(Busy) - 1
  BY <1>1, <1>5, FS_RemoveElement
<1>7. Cardinality(Busy) \in Nat
  BY <1>5, FS_CardinalityType
<1> HIDE DEF f, Rest
<1>8. ~(Cardinality(Rest) < Cardinality(Pool))
  <2> SUFFICES ASSUME Cardinality(Rest) < Cardinality(Pool) PROVE FALSE
    OBVIOUS
  <2>1. PICK i, j \in Pool : i # j /\ f[i] = f[j]
    BY <1>4, <1>6, PoolIsFinite, FS_PigeonHole
  <2> QED
    BY <1>3, <2>1
<1> QED
  BY <1>6, <1>7, <1>8, PoolIsFinite, Numbers

\* initRemote() counted the threads of the servers and the sender: two others.
LEMMA TwoAreUncounted ==
  ASSUME Cardinality(Busy) > dbNumberOfPoolConnections, ServerThreads # {}
  PROVE  Cardinality(Busy \ ServerThreads) >= 2
<1>1. IsFiniteSet(Busy) /\ IsFiniteSet(ServerThreads)
  BY PoolAssumption, FS_Subset DEF Busy
<1>2. Cardinality(Busy \ ServerThreads)
        = Cardinality(Busy) - Cardinality(Busy \cap ServerThreads)
  BY <1>1, FS_Difference
<1>3. Cardinality(Busy \cap ServerThreads) <= Cardinality(ServerThreads)
  BY <1>1, FS_Subset
<1>4. /\ Cardinality(Busy) \in Nat /\ Cardinality(ServerThreads) \in Nat
      /\ Cardinality(Busy \cap ServerThreads) \in Nat
  BY <1>1, FS_CardinalityType, FS_Intersection
<1> QED
  BY <1>2, <1>3, <1>4, PoolAssumption, Numbers

LEMMA NextEnded ==
  ASSUME Types, Shapes, Accounts, Ended, [Next]_vars
  PROVE  Ended'
<1>1. ASSUME NEW t \in Threads, RunsOut(t) PROVE Ended'
  <2>1. Busy' = Busy
    BY <1>1 DEF RunsOut, Busy
  <2>2. Cardinality(Busy) > dbNumberOfPoolConnections
    BY <1>1, RunsOutOfThreads
  <2> QED
    BY <2>1, <2>2, TwoAreUncounted DEF Ended
<1>2. CASE UNCHANGED vars
  BY <1>2 DEF vars, Ended, Busy
<1>3. CASE Next /\ ~ \E t \in Threads : RunsOut(t)
  <2>1. ~exited /\ UNCHANGED exited
    BY <1>3 DEF Next, Runs, Asked, Outside, Step, GetsConnection, Queries, QueryBreaks,
                MarksFailed, CachesRow, Disposes, CachesKey, FindsAgain, MissesAgain,
                ReadsCached, ReadsRemote, Writes, WritesVolatile, Clears, Restarts, Arrives
  <2> QED
    BY <2>1 DEF Ended
<1> QED
  BY <1>1, <1>2, <1>3

-----------------------------------------------------------------------------
PoolInv == Types /\ Shapes /\ Accounts /\ Ended

LEMMA PoolInvHolds == Spec => []PoolInv
<1>1. Init => PoolInv
  BY InitTypes, InitShapes, InitAccounts DEF PoolInv, Init, Ended
<1>2. PoolInv /\ [Next]_vars => PoolInv'
  BY NextTypes, NextAccounts, NextEnded DEF PoolInv
<1> QED
  BY <1>1, <1>2, PTL DEF Spec

\* The pool, the caches and the calls keep their types: among them the counter
\* usedConnections, which getConnection() and disposeConnection() count up and
\* down without a check, and the cursor nextConnection.
THEOREM TypesAreKept == Spec => []TypeOK
<1>1. PoolInv => TypeOK
  <2> SUFFICES ASSUME PoolInv PROVE TypeOK
    OBVIOUS
  <2>1. usedConnections \in 0 .. dbNumberOfPoolConnections
    BY PoolIsFinite, Numbers DEF PoolInv, Accounts, Types
  <2> QED
    BY <2>1 DEF PoolInv, Types, CacheTypes, TypeOK
<1> QED
  BY <1>1, PoolInvHolds, PTL

\* getConnection() and disposeConnection() account for every connection, and
\* the process ends for want of one only when more threads use the database at
\* the same time than there are connections: from what initRemote() checks, two of
\* them are then no threads of the servers.
THEOREM PoolIsAccounted == Spec => []ConnectionsAreAccounted
<1>1. PoolInv => ConnectionsAreAccounted
  <2> SUFFICES ASSUME PoolInv PROVE ConnectionsAreAccounted
    OBVIOUS
  <2>1. \A t \in Threads : HasConnection(t) <=> thread[t].conn # Null
    BY DEF PoolInv, Shapes, Shape, HasConnection, Holding
  <2>2. /\ Busy = {t \in Threads : ~At(t, "idle")}
        /\ Busy \ ServerThreads = {t \in Threads \ ServerThreads : ~At(t, "idle")}
    BY DEF Busy, At
  <2> QED
    BY <2>1, <2>2 DEF PoolInv, Accounts, InUse, Ended, ConnectionsAreAccounted
<1> QED
  BY <1>1, PoolInvHolds, PTL

-----------------------------------------------------------------------------
(* What the caches hold, and what is about to be put there.                *)

Known(c, rows) ==
  /\ c.pc = "filling" => c.phase = "tree" /\ \A n \in DOMAIN c.todo : c.todo[n] \in rows
  /\ c.pc = "caching" => c.key \in rows
  /\ c.pc = "disposing" /\ c.result = "SUCCESS" /\ c.phase # "tree" => c.key \in rows

CacheInv ==
  /\ \A k \in Keys : IsCached(k) => k \in stored \cup volatile
  /\ \A t \in Threads : Known(thread[t], stored)

LEMMA StoredGrows == [Next]_vars => stored \subseteq stored' /\ volatile \subseteq volatile'
BY DEF Next, Runs, Asked, Outside, Step, vars, dbVars, GetsConnection, RunsOut, Queries,
       QueryBreaks, MarksFailed, CachesRow, Disposes, CachesKey, FindsAgain, MissesAgain,
       ReadsCached, ReadsRemote, Writes, WritesVolatile, Clears, Restarts, Arrives

LEMMA KnownOfOne ==
  ASSUME Types, CacheInv, stored \subseteq stored', NEW t \in Threads, NEW c,
         Known(c, stored'), Became(t, c)
  PROVE  \A u \in Threads : Known(thread'[u], stored')
BY DEF Types, CacheInv, Became, Known

\* A step that leaves the caches as they are.
LEMMA SameCached ==
  ASSUME CacheInv, stored \subseteq stored', volatile \subseteq volatile', UNCHANGED cacheVars
  PROVE  \A k \in Keys : IsCached(k)' => k \in stored' \cup volatile'
BY SameCaches DEF CacheInv

LEMMA NoCallKnown == \A r, rows : Known(Returned(r), rows)
BY DEF Returned, NoCall, Known

LEMMA StepCaches ==
  ASSUME Types, Shapes, CacheInv, NEW t \in Threads, Step(t),
         stored \subseteq stored', volatile \subseteq volatile'
  PROVE  CacheInv'
<1> DEFINE c == thread[t]
<1>1. c \in CallType /\ Shape(c) /\ Known(c, stored)
  BY DEF Types, Shapes, CacheInv
<1>2. CASE GetsConnection(t)
  <2>1. PICK i \in Pool : Became(t, [c EXCEPT !.pc = "querying", !.conn = i])
    BY <1>2, Gets
  <2>2. Known([c EXCEPT !.pc = "querying", !.conn = i], stored')
    BY <1>1 DEF Known, CallType
  <2> QED
    BY <1>2, <2>1, <2>2, KnownOfOne, SameCached DEF GetsConnection, CacheInv
<1>3. CASE Queries(t)
  <2> DEFINE r1 == [c EXCEPT !.pc = "disposing",
                      !.result = IF c.key \in stored THEN "SUCCESS" ELSE "DB_KEY_NOT_FOUND"]
             r2 == [c EXCEPT !.pc = "disposing", !.result = "SUCCESS"]
             r3 == [c EXCEPT !.pc = "filling", !.todo = Path[c.key]]
             r4 == [c EXCEPT !.pc = "failing", !.result = "DB_ERROR"]
  <2>1. \/ Became(t, r1)
        \/ Became(t, r2) /\ stored' = stored \cup {c.key}
        \/ Became(t, r3) /\ c.phase = "tree" /\ TreeIsComplete(c.key)
        \/ Became(t, r4)
    BY <1>3, QueriesBecomes
  <2>2. Known(r1, stored')
    BY <1>1 DEF Known, CallType
  <2>3. c.key \in stored' => Known(r2, stored')
    BY <1>1 DEF Known, CallType
  <2>4. c.phase = "tree" /\ TreeIsComplete(c.key) => Known(r3, stored')
    <3>1. r3.pc = "filling" /\ r3.phase = c.phase /\ r3.todo = Path[c.key]
      BY <1>1 DEF CallType
    <3> HIDE DEF r3, c
    <3> QED
      BY <3>1 DEF Known, TreeIsComplete
  <2>5. Known(r4, stored')
    BY <1>1 DEF Known, CallType
  <2>6. stored' = stored \cup {c.key} => c.key \in stored'
    OBVIOUS
  <2> HIDE DEF r1, r2, r3, r4, c
  <2>7. \A u \in Threads : Known(thread'[u], stored')
    BY <2>1, <2>2, <2>3, <2>4, <2>5, <2>6, KnownOfOne
  <2> QED
    BY <1>3, <2>7, SameCached DEF Queries, CacheInv
<1>4. CASE QueryBreaks(t)
  <2>1. \A n : Known([c EXCEPT !.pc = "failing", !.failedAt = server, !.refused = n], stored')
    BY <1>1 DEF Known, CallType
  <2> QED
    BY <1>4, <2>1, BreaksBecomes, KnownOfOne, SameCached DEF QueryBreaks, CacheInv
<1>5. CASE MarksFailed(t)
  <2>1. Known([c EXCEPT !.pc = "disposing", !.result = "DB_ERROR"], stored')
    BY <1>1 DEF Known, CallType
  <2> QED
    BY <1>5, <2>1, MarksBecomes, KnownOfOne, SameCached DEF MarksFailed, CacheInv
<1>6. CASE CachesRow(t)
  <2> DEFINE r1 == [c EXCEPT !.pc = "disposing", !.todo = Tail(c.todo), !.result = "SUCCESS"]
             r2 == [c EXCEPT !.todo = Tail(c.todo), !.pc = "filling", !.result = c.result]
  <2>1. c.pc = "filling" /\ c.todo # <<>> /\ c.todo \in Seq(Nodes)
    BY <1>1, <1>6 DEF CachesRow, At, Shape, CallType
  <2>2. Became(t, r1) \/ Became(t, r2)
    BY <1>6, <2>1, RowBecomes
  <2>3. \A n \in DOMAIN c.todo : c.todo[n] \in stored'
    BY <1>1, <2>1 DEF Known
  <2>4. /\ Tail(c.todo) \in Seq(Nodes)
        /\ \A n \in DOMAIN Tail(c.todo) : Tail(c.todo)[n] = c.todo[n + 1] /\ n + 1 \in DOMAIN c.todo
    <3> HIDE DEF c
    <3> QED
      BY <2>1
  <2>5. Known(r2, stored')
    <3>1. r2.pc = "filling" /\ r2.phase = c.phase /\ r2.todo = Tail(c.todo)
      BY <1>1 DEF CallType
    <3>2. c.phase = "tree"
      BY <1>1, <2>1 DEF Known
    <3> HIDE DEF r2, c
    <3> QED
      BY <2>3, <2>4, <3>1, <3>2 DEF Known
  <2>6. Head(c.todo) \in stored' /\ Head(c.todo) \in Keys
    <3> HIDE DEF c
    <3> QED
      BY <2>1, <2>3 DEF Keys
  <2>7. Known(r1, stored')
    <3>1. r1.pc = "disposing" /\ r1.phase = c.phase
      BY <1>1 DEF CallType
    <3>2. c.phase = "tree"
      BY <1>1, <2>1 DEF Known
    <3> QED
      BY <3>1, <3>2 DEF Known
  <2>8. CacheTypes
    BY DEF Types
  <2>9. \A k \in Keys : IsCached(k)' => IsCached(k) \/ k = Head(c.todo)
    BY <1>6, <2>6, <2>8, AddCaches, ReadsAssumption DEF CachesRow
  <2> HIDE DEF r1, r2, c
  <2> QED
    BY <2>2, <2>5, <2>6, <2>7, <2>9, KnownOfOne DEF CacheInv
<1>7. CASE Disposes(t)
  <2> DEFINE d == [c EXCEPT !.conn = Null]
  <2>1. c.pc = "disposing" /\ d.result = c.result /\ d.phase = c.phase
    BY <1>1, <1>7 DEF Disposes, At, CallType
  <2>2. /\ Known([d EXCEPT !.pc = "finding"], stored')
        /\ Known([d EXCEPT !.pc = "connecting", !.tries = d.tries + 1], stored')
        /\ Known([d EXCEPT !.pc = "connecting", !.phase = "row", !.tries = 0,
                           !.refused = 0], stored')
    BY <1>1 DEF Known, CallType
  <2>3. d.result = "SUCCESS" /\ d.phase # "tree" => Known([d EXCEPT !.pc = "caching"], stored')
    BY <1>1, <2>1 DEF Known, CallType
  <2>4. \A u \in Threads : Known(thread'[u], stored')
    BY <1>7, <2>2, <2>3, DisposesBecomes, KnownOfOne, NoCallKnown
  <2> QED
    BY <1>7, <2>4, SameCached DEF Disposes, CacheInv
<1>8. CASE CachesKey(t) \/ FindsAgain(t) \/ MissesAgain(t)
  <2>1. Known([c EXCEPT !.pc = "connecting", !.phase = "row", !.tries = 0,
                        !.refused = 0, !.result = "UNSPECIFIED"], stored')
    BY <1>1 DEF Known, CallType
  <2>2. \A u \in Threads : Known(thread'[u], stored')
    BY <1>8, <2>1, EndsBecomes, KnownOfOne, NoCallKnown
  <2>3. CacheTypes
    BY DEF Types
  <2>4. CASE CachesKey(t)
    <3>1. c.key \in Keys /\ c.key \in stored
      BY <1>1, <2>4 DEF CachesKey, At, Shape, Known
    <3>2. \A k \in Keys : IsCached(k)' => IsCached(k) \/ k = c.key
      BY <2>3, <2>4, <3>1, AddCaches, ReadsAssumption DEF CachesKey
    <3> QED
      BY <2>2, <3>1, <3>2 DEF CacheInv
  <2>5. CASE FindsAgain(t)
    <3>1. c.key \in Keys
      BY <1>1, <2>5 DEF FindsAgain, At, Shape
    <3>2. \A k \in Keys : IsCached(k)' => IsCached(k)
      BY <2>3, <2>5, <3>1, FindCaches, ReadsAssumption DEF FindsAgain
    <3> QED
      BY <2>2, <3>2 DEF CacheInv
  <2>6. CASE MissesAgain(t)
    BY <2>2, <2>6, SameCached DEF MissesAgain, CacheInv
  <2> QED
    BY <1>8, <2>4, <2>5, <2>6
<1>9. CASE RunsOut(t)
  <2>1. \A u \in Threads : Known(thread'[u], stored')
    BY <1>9 DEF RunsOut, CacheInv, Known, dbVars
  <2> QED
    BY <1>9, <2>1, SameCached DEF RunsOut, CacheInv
<1> QED
  BY <1>2, <1>3, <1>4, <1>5, <1>6, <1>7, <1>8, <1>9 DEF Step

LEMMA CallCaches ==
  ASSUME Types, Shapes, CacheInv, NEW t \in Threads, NEW k \in Keys,
         Calls(t, k),
         stored \subseteq stored', volatile \subseteq volatile'
  PROVE  CacheInv'
<1>1. \A phase \in Phases :
        Known([NoCall EXCEPT !.pc = "connecting", !.key = k, !.phase = phase,
                             !.wasStored = k \in stored, !.since = server], stored')
  BY DEF NoCall, Known
<1>2. \A u \in Threads : Known(thread'[u], stored')
  BY <1>1, CallBecomes, KnownOfOne, NoCallKnown
<1>3. CacheTypes
  BY DEF Types
<1>4. CASE ReadsCached(t, k)
  <2>1. \A x \in Keys : IsCached(x)' => IsCached(x)
    BY <1>3, <1>4, FindCaches, ReadsAssumption DEF ReadsCached
  <2> QED
    BY <1>2, <2>1 DEF CacheInv
<1>5. CASE WritesVolatile(t, k)
  <2>1. \A x \in Keys : IsCached(x)' => IsCached(x) \/ x = k
    BY <1>3, <1>5, AddCaches, ReadsAssumption DEF WritesVolatile
  <2>2. k \in volatile'
    BY <1>5 DEF WritesVolatile
  <2> QED
    BY <1>2, <2>1, <2>2 DEF CacheInv
<1>6. CASE ReadsRemote(t, k) \/ Writes(t, k)
  BY <1>2, <1>6, SameCached DEF ReadsRemote, Writes, CacheInv
<1> QED
  BY <1>4, <1>5, <1>6 DEF Calls

LEMMA NextCaches ==
  ASSUME PoolInv, CacheInv, [Next]_vars
  PROVE  CacheInv'
<1>0. /\ Types /\ Shapes
      /\ stored \subseteq stored' /\ volatile \subseteq volatile'
  BY StoredGrows DEF PoolInv
<1>1. ASSUME NEW t \in Threads, Step(t) PROVE CacheInv'
  BY <1>0, <1>1, StepCaches
<1>2. ASSUME NEW t \in Threads, NEW k \in Keys, Calls(t, k)
      PROVE  CacheInv'
  BY <1>0, <1>2, CallCaches
<1>3. CASE Others \/ UNCHANGED vars
  <2>1. \A u \in Threads : Known(thread'[u], stored')
    <3>1. UNCHANGED thread
      BY <1>3 DEF Others, Clears, Restarts, Arrives, vars
    <3> QED
      BY <1>0, <3>1 DEF CacheInv, Known
  <2>2. CASE Clears
    <3>1. dbMTCache' = <<>> /\ dbProgramCache' = <<>>
      BY <2>2 DEF Clears, NodeCache!Clear, ProgramCache!Clear
    <3>2. \A k : ~IsCached(k)'
      BY <3>1 DEF IsCached, NodeCache!IsCached, NodeCache!Cached, ProgramCache!IsCached,
                  ProgramCache!Cached
    <3> QED
      BY <2>1, <3>2 DEF CacheInv
  <2>3. CASE Restarts \/ (\E k \in LateRows : Arrives(k)) \/ UNCHANGED vars
    <3>1. UNCHANGED cacheVars
      BY <2>3 DEF Restarts, Arrives, vars
    <3> QED
      BY <1>0, <2>1, <3>1, SameCached DEF CacheInv
  <2> QED
    BY <1>3, <2>2, <2>3 DEF Others
<1> QED
  BY <1>0, <1>1, <1>2, <1>3, NextCases

LEMMA InitCaches == Init => CacheInv
<1> SUFFICES ASSUME Init PROVE CacheInv
  OBVIOUS
<1>1. \A k : ~IsCached(k)
  BY DEF Init, NodeCache!Init, ProgramCache!Init, IsCached, NodeCache!IsCached,
         NodeCache!Cached, ProgramCache!IsCached, ProgramCache!Cached
<1>2. \A t \in Threads : Known(thread[t], stored)
  BY DEF Init, NoCall, Known
<1> QED
  BY <1>1, <1>2 DEF CacheInv

\* read(), getProgram(), write() and setProgram() cache a row only after the
\* database has it: whatever queries failed, the caches hold nothing else, but
\* for what was written not to be stored.
THEOREM CachesAreStored == Spec => []CachedIsStored
<1>1. Init => CacheInv
  BY InitCaches
<1>2. PoolInv /\ CacheInv /\ [Next]_vars => CacheInv'
  BY NextCaches
<1>3. CacheInv => CachedIsStored
  BY DEF CacheInv, CachedIsStored
<1> QED
  BY <1>1, <1>2, <1>3, PoolInvHolds, PTL DEF Spec

-----------------------------------------------------------------------------
(* Outages: a connection is fresh when the next query finds it open, or    *)
(* opens it.                                                               *)

Recent(i) == connections[i].opened \in {Closed, server}
Fresh(i)  == connections[i].bDisconnect \/ Recent(i)

Met(c) ==
  /\ c.failedAt <= server
  /\ c.failedAt = server /\ c.pc # "failing" =>
       /\ \A i \in Pool : Fresh(i)
       /\ c.pc = "querying" => Recent(c.conn)

OutageInv == \A t \in Threads : Met(thread[t])

KeepsFresh ==
  /\ UNCHANGED server
  /\ \A i \in Pool : (Fresh(i) => Fresh(i)') /\ (Recent(i) => Recent(i)')

\* A step without a restart keeps what the other calls have met.
LEMMA MetOfOne ==
  ASSUME Types, Shapes, OutageInv, KeepsFresh, NEW t \in Threads, NEW c,
         Became(t, c), /\ c.failedAt <= server
                       /\ c.failedAt = server /\ c.pc # "failing" =>
                            /\ \A i \in Pool : Fresh(i)'
                            /\ c.pc = "querying" => Recent(c.conn)'
  PROVE  OutageInv'
<1>1. \A u \in Threads \ {t} : thread'[u] = thread[u]
  BY DEF Became, Types
<1>2. thread'[t] = c /\ server' = server
  BY DEF Became, Types, KeepsFresh
<1>3. ASSUME NEW u \in Threads \ {t} PROVE Met(thread[u])'
  <2>1. Met(thread[u])
    BY DEF OutageInv
  <2>2. thread[u].pc = "querying" => thread[u].conn \in Pool
    BY DEF Shapes, Shape, Holding, Types, CallType, NullOr
  <2> QED
    BY <1>1, <1>2, <2>1, <2>2 DEF Met, KeepsFresh
<1>4. Met(thread[t])'
  BY <1>2 DEF Met
<1> QED
  BY <1>3, <1>4 DEF OutageInv

LEMMA StepKeepsFresh ==
  ASSUME Types, Shapes, Accounts, NEW t \in Threads, Step(t)
  PROVE  KeepsFresh
<1>0. UNCHANGED server
  BY DEF Step, RunsOut, GetsConnection, Queries, QueryBreaks, MarksFailed, CachesRow, Disposes,
         CachesKey, FindsAgain, MissesAgain, dbVars, fixed
<1>1. CASE GetsConnection(t)
  <2>1. CASE dbConnectionsPool
    <3>1. PICK i \in Pool : connections' = [connections EXCEPT ![i] = Taken(connections[i])]
      BY <1>1, <2>1, Gets
    <3>2. Fresh(i) => Recent(i)'
      BY <1>0, <3>1 DEF Types, Taken, Fresh, Recent
    <3>3. \A j \in Pool \ {i} : connections'[j] = connections[j]
      BY <3>1 DEF Types
    <3> QED
      BY <1>0, <3>2, <3>3 DEF KeepsFresh, Fresh, Recent
  <2>2. CASE ~dbConnectionsPool
    BY <1>0, <1>1, <2>2 DEF GetsConnection, KeepsFresh, Fresh, Recent
  <2> QED
    BY <2>1, <2>2
<1>2. CASE Queries(t)
  <2>1. thread[t].conn \in Pool
    BY <1>2 DEF Queries, At, Shapes, Shape, Holding, Types, CallType, NullOr
  <2>2. connections' = [connections EXCEPT ![thread[t].conn].opened = server]
    BY <1>2 DEF Queries, Opens
  <2> QED
    BY <1>0, <2>1, <2>2 DEF Types, KeepsFresh, Fresh, Recent
<1>3. CASE MarksFailed(t)
  BY <1>0, <1>3 DEF MarksFailed, Types, KeepsFresh, Fresh, Recent
<1>4. CASE Disposes(t)
  BY <1>0, <1>4 DEF Disposes, Dispose, Types, KeepsFresh, Fresh, Recent
<1>5. CASE \/ QueryBreaks(t) \/ CachesRow(t) \/ CachesKey(t) \/ FindsAgain(t) \/ MissesAgain(t)
           \/ RunsOut(t)
  <2>1. UNCHANGED connections
    BY <1>5 DEF QueryBreaks, CachesRow, CachesKey, FindsAgain, MissesAgain, RunsOut, poolVars
  <2> QED
    BY <1>0, <2>1 DEF KeepsFresh, Fresh, Recent
<1> QED
  BY <1>1, <1>2, <1>3, <1>4, <1>5 DEF Step

LEMMA StepOutages ==
  ASSUME Types, Shapes, Accounts, OutageInv, NEW t \in Threads, Step(t)
  PROVE  OutageInv'
<1> DEFINE c == thread[t]
<1>1. c \in CallType /\ Shape(c) /\ Met(c)
  BY DEF Types, Shapes, OutageInv
<1>2. KeepsFresh /\ server \in Nat /\ c.failedAt \in Int /\ c.failedAt <= server
  BY <1>1, StepKeepsFresh, Numbers DEF Types, CallType, Restart, Met, Closed
<1>3. c.failedAt = server /\ c.pc # "failing" => \A i \in Pool : Fresh(i)'
  BY <1>1, <1>2 DEF Met, KeepsFresh
<1>5. CASE GetsConnection(t)
  <2>1. PICK i \in Pool :
          /\ Became(t, [c EXCEPT !.pc = "querying", !.conn = i])
          /\ dbConnectionsPool => connections' = [connections EXCEPT ![i] = Taken(connections[i])]
    BY <1>5, Gets
  <2> DEFINE r == [c EXCEPT !.pc = "querying", !.conn = i]
  <2>2. c.pc = "connecting" /\ r.failedAt = c.failedAt /\ r.conn = i
    BY <1>1, <1>5 DEF GetsConnection, At, CallType
  <2>3. Fresh(i) => Recent(i)'
    <3>1. CASE dbConnectionsPool
      BY <1>2, <2>1, <3>1 DEF Types, Taken, Fresh, Recent, KeepsFresh
    <3>2. CASE ~dbConnectionsPool
      BY <1>2, <3>2 DEF Accounts, Fresh, KeepsFresh
    <3> QED
      BY <3>1, <3>2
  <2>4. c.failedAt = server => Fresh(i)
    BY <1>1, <2>2 DEF Met
  <2> HIDE DEF r, c
  <2> QED
    BY <1>2, <1>3, <2>1, <2>2, <2>3, <2>4, MetOfOne DEF r
<1>6. CASE Queries(t)
  <2> DEFINE r1 == [c EXCEPT !.pc = "disposing",
                      !.result = IF c.key \in stored THEN "SUCCESS" ELSE "DB_KEY_NOT_FOUND"]
             r2 == [c EXCEPT !.pc = "disposing", !.result = "SUCCESS"]
             r3 == [c EXCEPT !.pc = "filling", !.todo = Path[c.key]]
             r4 == [c EXCEPT !.pc = "failing", !.result = "DB_ERROR"]
  <2>1. Became(t, r1) \/ Became(t, r2) \/ Became(t, r3) \/ Became(t, r4)
    BY <1>6, QueriesBecomes
  <2>2. /\ r1.failedAt = c.failedAt /\ r2.failedAt = c.failedAt /\ r3.failedAt = c.failedAt
        /\ r4.failedAt = c.failedAt
        /\ r1.pc # "querying" /\ r2.pc # "querying" /\ r3.pc # "querying" /\ r4.pc # "querying"
    BY <1>1 DEF CallType
  <2>3. c.pc # "failing"
    BY <1>6 DEF Queries, At
  <2> HIDE DEF r1, r2, r3, r4, c
  <2> QED
    BY <1>2, <1>3, <2>1, <2>2, <2>3, MetOfOne
<1>7. CASE QueryBreaks(t)
  <2>0. PICK n \in Nat :
          Became(t, [c EXCEPT !.pc = "failing", !.failedAt = server, !.refused = n])
    BY <1>7, BreaksBecomes
  <2> DEFINE r == [c EXCEPT !.pc = "failing", !.failedAt = server, !.refused = n]
  <2>1. r.failedAt = server /\ r.pc = "failing" /\ Became(t, r)
    BY <1>1, <2>0 DEF CallType
  <2> HIDE DEF r
  <2> QED
    BY <1>2, <2>1, MetOfOne
<1>8. CASE MarksFailed(t)
  <2> DEFINE r == [c EXCEPT !.pc = "disposing", !.result = "DB_ERROR"]
  <2>1. r.failedAt = c.failedAt /\ r.pc = "disposing" /\ Became(t, r)
    BY <1>1, <1>8, MarksBecomes DEF CallType
  <2>2. \A i \in Pool : Fresh(i)'
    BY <1>8 DEF MarksFailed, Types, Fresh
  <2> HIDE DEF r
  <2> QED
    BY <1>2, <2>1, <2>2, MetOfOne
<1>9. CASE CachesRow(t)
  <2> DEFINE r1 == [c EXCEPT !.pc = "disposing", !.todo = Tail(c.todo), !.result = "SUCCESS"]
             r2 == [c EXCEPT !.todo = Tail(c.todo), !.pc = "filling", !.result = c.result]
  <2>1. c.pc = "filling" /\ c.todo # <<>>
    BY <1>1, <1>9 DEF CachesRow, At, Shape
  <2>2. Became(t, r1) \/ Became(t, r2)
    BY <1>9, <2>1, RowBecomes
  <2>3. /\ r1.failedAt = c.failedAt /\ r1.pc = "disposing"
        /\ r2.failedAt = c.failedAt /\ r2.pc = "filling"
    BY <1>1 DEF CallType
  <2> HIDE DEF r1, r2, c
  <2> QED
    BY <1>2, <1>3, <2>1, <2>2, <2>3, MetOfOne
<1>10. CASE Disposes(t)
  <2> DEFINE d  == [c EXCEPT !.conn = Null]
             r1 == [d EXCEPT !.pc = "finding"]
             r2 == [d EXCEPT !.pc = "caching"]
             r3 == [d EXCEPT !.pc = "connecting", !.tries = d.tries + 1]
             r4 == [d EXCEPT !.pc = "connecting", !.phase = "row", !.tries = 0, !.refused = 0]
             r5 == Returned(d.result)
  <2>1. Became(t, r1) \/ Became(t, r2) \/ Became(t, r3) \/ Became(t, r4) \/ Became(t, r5)
    BY <1>10, DisposesBecomes
  <2>2. /\ r1.failedAt = c.failedAt /\ r2.failedAt = c.failedAt /\ r3.failedAt = c.failedAt
        /\ r4.failedAt = c.failedAt
        /\ r1.pc # "querying" /\ r2.pc # "querying" /\ r3.pc # "querying" /\ r4.pc # "querying"
    BY <1>1 DEF CallType
  <2>3. c.pc # "failing"
    BY <1>10 DEF Disposes, At
  <2>4. r5.failedAt <= server /\ r5.failedAt # server
    BY <1>2 DEF Returned, NoCall, Closed
  <2> HIDE DEF r1, r2, r3, r4, r5, d, c
  <2> QED
    BY <1>2, <1>3, <2>1, <2>2, <2>3, <2>4, MetOfOne
<1>11. CASE CachesKey(t) \/ FindsAgain(t) \/ MissesAgain(t)
  <2> DEFINE r1 == Returned("SUCCESS")
             r2 == [c EXCEPT !.pc = "connecting", !.phase = "row", !.tries = 0,
                             !.refused = 0, !.result = "UNSPECIFIED"]
  <2>1. Became(t, r1) \/ Became(t, r2)
    BY <1>11, EndsBecomes
  <2>2. r2.failedAt = c.failedAt /\ r2.pc = "connecting" /\ c.pc # "failing"
    BY <1>1, <1>11 DEF CallType, CachesKey, FindsAgain, MissesAgain, At
  <2>3. r1.failedAt <= server /\ r1.failedAt # server
    BY <1>2 DEF Returned, NoCall, Closed
  <2> HIDE DEF r1, r2, c
  <2> QED
    BY <1>2, <1>3, <2>1, <2>2, <2>3, MetOfOne
<1>12. CASE RunsOut(t)
  BY <1>12 DEF RunsOut, poolVars, dbVars, OutageInv, Met, Fresh, Recent
<1> QED
  BY <1>5, <1>6, <1>7, <1>8, <1>9, <1>10, <1>11, <1>12 DEF Step

LEMMA NextOutages ==
  ASSUME PoolInv, OutageInv, [Next]_vars
  PROVE  OutageInv'
<1>0. Types /\ Shapes /\ Accounts
  BY DEF PoolInv
<1>1. ASSUME NEW t \in Threads, Step(t) PROVE OutageInv'
  BY <1>0, <1>1, StepOutages
<1>2. ASSUME NEW t \in Threads, NEW k \in Keys, Calls(t, k)
      PROVE  OutageInv'
  <2>1. UNCHANGED <<connections, server>>
    BY <1>2 DEF Calls, ReadsCached, ReadsRemote, Writes, WritesVolatile, poolVars, dbVars
  <2>2. KeepsFresh
    BY <2>1 DEF KeepsFresh, Fresh, Recent
  <2>3. server \in Nat
    BY <1>0, Numbers DEF Types
  <2>4. PICK c : Became(t, c) /\ c.failedAt = Closed
    <3>1. Returned("SUCCESS").failedAt = Closed
      BY DEF Returned, NoCall
    <3>2. \A phase : [NoCall EXCEPT !.pc = "connecting", !.key = k, !.phase = phase,
                        !.wasStored = k \in stored, !.since = server].failedAt = Closed
      BY DEF NoCall
    <3> QED
      BY <1>0, <1>2, <3>1, <3>2, CallBecomes
  <2>5. c.failedAt <= server /\ c.failedAt # server
    BY <2>3, <2>4 DEF Closed
  <2> QED
    BY <1>0, <2>2, <2>4, <2>5, MetOfOne
<1>3. CASE Clears \/ (\E k \in LateRows : Arrives(k)) \/ UNCHANGED vars
  <2>1. UNCHANGED <<thread, connections, server>>
    BY <1>3 DEF Clears, Arrives, vars, poolVars, dbVars, fixed
  <2> QED
    BY <2>1 DEF OutageInv, Met, Fresh, Recent
<1>4. CASE Restarts
  <2>1. server' = server + 1 /\ UNCHANGED thread
    BY <1>4 DEF Restarts
  <2>2. \A t \in Threads : thread[t].failedAt \in Int /\ thread[t].failedAt <= server
    BY <1>0, Numbers DEF OutageInv, Met, Types, CallType, Restart, Closed
  <2>3. server \in Nat
    BY <1>0, Numbers DEF Types
  <2>4. \A t \in Threads : thread'[t].failedAt <= server' /\ thread'[t].failedAt # server'
    BY <2>1, <2>2, <2>3
  <2> QED
    BY <2>4 DEF OutageInv, Met
<1> QED
  BY <1>0, <1>1, <1>2, <1>3, <1>4, NextCases DEF Others

LEMMA InitOutages == Init => OutageInv
BY DEF Init, OutageInv, Met, NoCall, Closed

\* queryFailed() makes one broken connection speak for all: no retry of a call
\* is given a second connection that the same restart broke.
THEOREM OutagesAreMetOnce == Spec => []OutageIsMetOnce
<1>1. PoolInv /\ OutageInv /\ [Next]_vars => OutageInv'
  BY NextOutages
<1>2. PoolInv /\ OutageInv => OutageIsMetOnce
  <2> SUFFICES ASSUME PoolInv, OutageInv, NEW t \in Threads,
                      At(t, "querying"), IsStale(t)
               PROVE  thread[t].failedAt < server
    BY DEF OutageIsMetOnce
  <2>1. Met(thread[t]) /\ thread[t].failedAt \in Int /\ server \in Nat
    BY Numbers DEF OutageInv, PoolInv, Types, CallType, Restart, Closed
  <2>2. thread[t].failedAt # server
    BY <2>1 DEF Met, At, IsStale, Opened, Recent
  <2> QED
    BY <2>1, <2>2 DEF Met
<1> QED
  BY <1>1, <1>2, InitOutages, PoolInvHolds, PTL DEF Spec

-----------------------------------------------------------------------------
(* What a read has been through: a restart or a refusal for every query of *)
(* the row that failed.                                                    *)

IsRead(c) == c.pc # "idle" /\ c.key \in Nodes /\ c.phase # "insert" /\ c.wasStored

Tried(c, rows, now) ==
  /\ c.pc = "finding" => c.phase = "tree"
  /\ IsRead(c) =>
       /\ c.key \in rows /\ c.since <= now /\ c.failedAt <= now
       /\ c.phase = "row" /\ c.pc \in {"connecting", "querying"} /\ c.tries > 0
            => c.failedAt + c.refused >= c.since + c.tries - 1
       /\ c.phase = "row" /\ (c.pc = "failing" \/ (c.pc = "disposing" /\ c.result # "SUCCESS"))
            => c.failedAt + c.refused >= c.since + c.tries

ReadInv == \A t \in Threads : Tried(thread[t], stored, server)

LEMMA TriedOfOne ==
  ASSUME Types, ReadInv, stored \subseteq stored', UNCHANGED server, NEW t \in Threads, NEW c,
         Tried(c, stored', server), Became(t, c)
  PROVE  ReadInv'
BY DEF Types, ReadInv, Became, Tried, IsRead

LEMMA NoCallTried == \A r, rows, now : Tried(Returned(r), rows, now)
BY DEF Returned, NoCall, Tried, IsRead

\* The fields the argument is about.
LEMMA CallNumbers ==
  ASSUME NEW c \in CallType
  PROVE  /\ c.since \in Int /\ c.failedAt \in Int /\ c.tries \in Nat /\ c.refused \in Nat
         /\ c.tries <= dbReadRetryCounter
BY Numbers DEF CallType, Restart, Closed, Tries

LEMMA StepReads ==
  ASSUME Types, Shapes, Accounts, OutageInv, ReadInv, NEW t \in Threads, Step(t),
         stored \subseteq stored'
  PROVE  ReadInv'
<1> DEFINE c == thread[t]
<1>1. c \in CallType /\ Shape(c) /\ Tried(c, stored, server) /\ Tried(c, stored', server)
  BY DEF Types, Shapes, ReadInv, Tried
<1>2. UNCHANGED server /\ server \in Nat
  BY StepKeepsFresh, Numbers DEF KeepsFresh, Types
<1>3. CASE GetsConnection(t)
  <2>1. PICK i \in Pool : Became(t, [c EXCEPT !.pc = "querying", !.conn = i])
    BY <1>3, Gets
  <2>2. c.pc = "connecting"
    BY <1>3 DEF GetsConnection, At
  <2>3. Tried([c EXCEPT !.pc = "querying", !.conn = i], stored', server)
    BY <1>1, <2>2 DEF Tried, IsRead, CallType
  <2> QED
    BY <1>2, <2>1, <2>3, TriedOfOne
<1>4. CASE Queries(t)
  <2> DEFINE r1 == [c EXCEPT !.pc = "disposing",
                      !.result = IF c.key \in stored THEN "SUCCESS" ELSE "DB_KEY_NOT_FOUND"]
             r2 == [c EXCEPT !.pc = "disposing", !.result = "SUCCESS"]
             r3 == [c EXCEPT !.pc = "filling", !.todo = Path[c.key]]
             r4 == [c EXCEPT !.pc = "failing", !.result = "DB_ERROR"]
  <2>1. \/ Became(t, r1) \/ Became(t, r2) \/ Became(t, r3)
        \/ Became(t, r4) /\ c.phase = "tree"
    BY <1>4, QueriesBecomes
  <2>2. c.pc = "querying"
    BY <1>4 DEF Queries, At
  <2>3. Tried(r1, stored', server)
    BY <1>1, <2>2 DEF Tried, IsRead, CallType
  <2>4. Tried(r2, stored', server)
    BY <1>1, <2>2 DEF Tried, IsRead, CallType
  <2>5. Tried(r3, stored', server)
    BY <1>1, <2>2 DEF Tried, IsRead, CallType
  <2>6. c.phase = "tree" => Tried(r4, stored', server)
    BY <1>1, <2>2 DEF Tried, IsRead, CallType
  <2> HIDE DEF r1, r2, r3, r4, c
  <2> QED
    BY <1>2, <2>1, <2>3, <2>4, <2>5, <2>6, TriedOfOne
<1>5. CASE QueryBreaks(t)
  <2>0. PICK n \in Nat :
          /\ n = c.refused + 1 \/ (n = c.refused /\ IsStale(t))
          /\ Became(t, [c EXCEPT !.pc = "failing", !.failedAt = server, !.refused = n])
    BY <1>5, BreaksBecomes
  <2> DEFINE r == [c EXCEPT !.pc = "failing", !.failedAt = server, !.refused = n]
  <2>1. c.pc = "querying"
    BY <1>5 DEF QueryBreaks, At
  <2>2. /\ r.pc = "failing" /\ r.failedAt = server /\ r.key = c.key /\ r.phase = c.phase
        /\ r.wasStored = c.wasStored /\ r.since = c.since /\ r.tries = c.tries
        /\ r.refused = n
    BY <1>1 DEF CallType
  <2>3. IsStale(t) => c.failedAt < server
    <3>1. Met(c) /\ c.failedAt \in Int
      BY <1>1, CallNumbers DEF OutageInv
    <3>2. IsStale(t) => c.failedAt # server
      BY <2>1, <3>1 DEF Met, IsStale, Opened, Recent
    <3> QED
      BY <1>2, <3>1, <3>2 DEF Met
  <2>4. IsRead(c) /\ c.phase = "row" => server + n >= c.since + c.tries
    <3> SUFFICES ASSUME IsRead(c), c.phase = "row"
                 PROVE  server + n >= c.since + c.tries
      OBVIOUS
    <3>1. /\ c.since <= server /\ c.failedAt <= server
          /\ c.tries > 0 => c.failedAt + c.refused >= c.since + c.tries - 1
      BY <1>1, <2>1 DEF Tried
    <3>2. /\ c.since \in Int /\ c.failedAt \in Int /\ c.tries \in Nat /\ c.refused \in Nat
          /\ server \in Nat
      BY <1>1, <1>2, CallNumbers
    <3>3. n = c.refused + 1 \/ (n = c.refused /\ c.failedAt < server)
      BY <2>0, <2>3
    <3> HIDE DEF c
    <3> QED
      BY <3>1, <3>2, <3>3
  <2>5. Tried(r, stored', server)
    <3>1. IsRead(r) => IsRead(c)
      BY <2>1, <2>2 DEF IsRead
    <3>2. server \in Nat
      BY <1>2
    <3> HIDE DEF r, c
    <3> QED
      BY <1>1, <2>2, <2>4, <3>1, <3>2 DEF Tried
  <2> QED
    BY <1>2, <2>0, <2>5, TriedOfOne
<1>6. CASE MarksFailed(t)
  <2>1. c.pc = "failing"
    BY <1>6 DEF MarksFailed, At
  <2> DEFINE r == [c EXCEPT !.pc = "disposing", !.result = "DB_ERROR"]
  <2>2. Tried(r, stored', server)
    <3>1. /\ r.pc = "disposing" /\ r.failedAt = c.failedAt /\ r.key = c.key
          /\ r.phase = c.phase /\ r.wasStored = c.wasStored /\ r.since = c.since
          /\ r.tries = c.tries /\ r.refused = c.refused
      BY <1>1 DEF CallType
    <3>2. IsRead(r) => IsRead(c)
      BY <2>1, <3>1 DEF IsRead
    <3>3. c.since \in Int /\ c.tries \in Nat /\ c.failedAt \in Int /\ c.refused \in Nat
      BY <1>1, CallNumbers
    <3>4. IsRead(c) => /\ c.key \in stored' /\ c.since <= server /\ c.failedAt <= server
                       /\ c.phase = "row" => c.failedAt + c.refused >= c.since + c.tries
      BY <1>1, <2>1 DEF Tried
    <3> HIDE DEF r, c
    <3> QED
      BY <3>1, <3>2, <3>3, <3>4 DEF Tried
  <2> QED
    BY <1>2, <1>6, <2>2, MarksBecomes, TriedOfOne
<1>7. CASE CachesRow(t)
  <2> DEFINE r1 == [c EXCEPT !.pc = "disposing", !.todo = Tail(c.todo), !.result = "SUCCESS"]
             r2 == [c EXCEPT !.todo = Tail(c.todo), !.pc = "filling", !.result = c.result]
  <2>1. c.pc = "filling" /\ c.todo # <<>>
    BY <1>1, <1>7 DEF CachesRow, At, Shape
  <2>2. Became(t, r1) \/ Became(t, r2)
    BY <1>7, <2>1, RowBecomes
  <2>3. Tried(r1, stored', server)
    BY <1>1, <2>1 DEF Tried, IsRead, CallType
  <2>4. Tried(r2, stored', server)
    BY <1>1, <2>1 DEF Tried, IsRead, CallType
  <2> HIDE DEF r1, r2
  <2> QED
    BY <1>2, <2>2, <2>3, <2>4, TriedOfOne
<1>8. CASE Disposes(t)
  <2> DEFINE d  == [c EXCEPT !.conn = Null]
             r1 == [d EXCEPT !.pc = "finding"]
             r2 == [d EXCEPT !.pc = "caching"]
             r3 == [d EXCEPT !.pc = "connecting", !.tries = d.tries + 1]
             r4 == [d EXCEPT !.pc = "connecting", !.phase = "row", !.tries = 0, !.refused = 0]
             r5 == Returned(d.result)
  <2>1. \/ d.result = "SUCCESS" /\ d.phase = "tree" /\ Became(t, r1)
        \/ d.result = "SUCCESS" /\ d.phase # "tree" /\ Became(t, r2)
        \/ d.result # "SUCCESS" /\ MayRetry(d) /\ Became(t, r3)
        \/ d.result # "SUCCESS" /\ ~MayRetry(d) /\ d.phase = "tree" /\ Became(t, r4)
        \/ d.result # "SUCCESS" /\ ~MayRetry(d) /\ d.phase # "tree" /\ Became(t, r5)
    BY <1>8, DisposesBecomes
  <2>2. c.pc = "disposing"
    BY <1>8 DEF Disposes, At
  <2>3. d.phase = "tree" => Tried(r1, stored', server)
    BY <1>1, <2>2 DEF Tried, IsRead, CallType
  <2>4. Tried(r2, stored', server)
    BY <1>1, <2>2 DEF Tried, IsRead, CallType
  <2>5. d.result # "SUCCESS" => Tried(r3, stored', server)
    <3>1. /\ r3.pc = "connecting" /\ r3.failedAt = c.failedAt /\ r3.key = c.key
          /\ r3.phase = c.phase /\ r3.wasStored = c.wasStored /\ r3.since = c.since
          /\ r3.tries = c.tries + 1 /\ d.result = c.result
          /\ r3.refused = c.refused
      BY <1>1 DEF CallType
    <3>2. IsRead(r3) => IsRead(c)
      BY <2>2, <3>1 DEF IsRead
    <3>3. c.since \in Int /\ c.tries \in Nat /\ c.failedAt \in Int /\ c.refused \in Nat
      BY <1>1, CallNumbers
    <3> HIDE DEF r3, d, c
    <3> QED
      BY <1>1, <2>2, <3>1, <3>2, <3>3 DEF Tried
  <2>6. d.phase = "tree" => Tried(r4, stored', server)
    <3>1. /\ r4.pc = "connecting" /\ r4.failedAt = c.failedAt /\ r4.key = c.key
          /\ r4.phase = "row" /\ r4.wasStored = c.wasStored /\ r4.since = c.since
          /\ r4.tries = 0 /\ d.phase = c.phase
      BY <1>1 DEF CallType
    <3>2. IsRead(r4) /\ c.phase = "tree" => IsRead(c)
      BY <2>2, <3>1 DEF IsRead
    <3> HIDE DEF r4, d, c
    <3> QED
      BY <1>1, <3>1, <3>2 DEF Tried
  <2>7. Tried(r5, stored', server)
    BY NoCallTried
  <2> HIDE DEF r1, r2, r3, r4, r5, d, c
  <2> QED
    BY <1>2, <2>1, <2>3, <2>4, <2>5, <2>6, <2>7, TriedOfOne
<1>9. CASE CachesKey(t) \/ FindsAgain(t)
  <2>1. Became(t, Returned("SUCCESS"))
    BY <1>9 DEF CachesKey, FindsAgain, Became
  <2> QED
    BY <1>2, <2>1, NoCallTried, TriedOfOne
<1>10. CASE MissesAgain(t)
  <2> DEFINE r == [c EXCEPT !.pc = "connecting", !.phase = "row", !.tries = 0,
                            !.refused = 0, !.result = "UNSPECIFIED"]
  <2>1. c.pc = "finding" /\ Became(t, r)
    BY <1>10 DEF MissesAgain, At, Became, Types
  <2>2. Tried(r, stored', server)
    <3>1. /\ r.pc = "connecting" /\ r.failedAt = c.failedAt /\ r.key = c.key
          /\ r.phase = "row" /\ r.wasStored = c.wasStored /\ r.since = c.since
          /\ r.tries = 0
      BY <1>1 DEF CallType
    <3>2. c.phase = "tree"
      BY <1>1, <2>1 DEF Tried
    <3>3. IsRead(r) => IsRead(c)
      BY <2>1, <3>1, <3>2 DEF IsRead
    <3> HIDE DEF r, c
    <3> QED
      BY <1>1, <3>1, <3>3 DEF Tried
  <2> QED
    BY <1>2, <2>1, <2>2, TriedOfOne
<1>11. CASE RunsOut(t)
  BY <1>2, <1>11 DEF RunsOut, dbVars, ReadInv, Tried, IsRead
<1> QED
  BY <1>3, <1>4, <1>5, <1>6, <1>7, <1>8, <1>9, <1>10, <1>11 DEF Step

LEMMA NextReads ==
  ASSUME PoolInv, OutageInv, ReadInv, [Next]_vars
  PROVE  ReadInv'
<1>0. Types /\ Shapes /\ Accounts /\ stored \subseteq stored' /\ server \in Nat
  BY StoredGrows, Numbers DEF PoolInv, Types
<1>1. ASSUME NEW t \in Threads, Step(t) PROVE ReadInv'
  BY <1>0, <1>1, StepReads
<1>2. ASSUME NEW t \in Threads, NEW k \in Keys, Calls(t, k)
      PROVE  ReadInv'
  <2>1. UNCHANGED server
    BY <1>2 DEF Calls, ReadsCached, ReadsRemote, Writes, WritesVolatile, dbVars
  <2> DEFINE b == k \in stored
             r(phase) == [NoCall EXCEPT !.pc = "connecting", !.key = k, !.phase = phase,
                            !.wasStored = b, !.since = server]
  <2>2. ASSUME NEW phase \in Phases PROVE Tried(r(phase), stored', server)
    <3>1. /\ r(phase).pc = "connecting" /\ r(phase).key = k /\ r(phase).tries = 0
          /\ r(phase).since = server /\ r(phase).failedAt = Closed
          /\ r(phase).wasStored = b
      BY DEF NoCall
    <3>2. b => k \in stored'
      BY <1>0
    <3> HIDE DEF b, r
    <3> QED
      BY <1>0, <3>1, <3>2 DEF Tried, IsRead, Closed
  <2>3. \/ Became(t, Returned("SUCCESS"))
        \/ \E phase \in Phases : Became(t, r(phase))
    BY <1>0, <1>2, CallBecomes
  <2> HIDE DEF r
  <2> QED
    BY <1>0, <2>1, <2>2, <2>3, NoCallTried, TriedOfOne
<1>3. CASE Others \/ UNCHANGED vars
  <2>1. UNCHANGED thread /\ (server' = server \/ server' = server + 1)
    BY <1>3 DEF Others, Clears, Restarts, Arrives, vars, dbVars, fixed
  <2>2. \A t \in Threads : thread[t].since \in Int /\ thread[t].failedAt \in Int
    BY <1>0, CallNumbers DEF Types
  <2> QED
    BY <1>0, <2>1, <2>2 DEF ReadInv, Tried, IsRead
<1> QED
  BY <1>0, <1>1, <1>2, <1>3, NextCases

LEMMA InitReads == Init => ReadInv
BY DEF Init, ReadInv, Tried, IsRead, NoCall

\* The step that returns from read().
LEMMA ReadsEnd ==
  ASSUME PoolInv, ReadInv, [Next]_vars, NEW t \in Threads,
         IsRead(thread[t]), thread'[t].pc = "idle"
  PROVE  \/ thread'[t].result = "SUCCESS"
         \/ (server - thread[t].since) + thread[t].refused >= dbReadRetryCounter
<1> DEFINE c == thread[t]
<1>0. /\ Types /\ Shapes /\ Accounts
      /\ c \in CallType /\ Shape(c) /\ Tried(c, stored, server) /\ server \in Nat
  BY Numbers DEF PoolInv, Types, Shapes, ReadInv
<1>1. thread'[t] # thread[t]
  BY DEF IsRead
<1>2. ASSUME NEW u \in Threads, NEW d, Became(u, d) PROVE u = t /\ thread'[t] = d
  BY <1>0, <1>1, <1>2 DEF Became, Types
<1>3. ASSUME NEW u \in Threads, Step(u) PROVE u = t
  <2>0. ~RunsOut(u)
    BY <1>1 DEF RunsOut
  <2>1. \E d : Became(u, d)
    <3>1. CASE GetsConnection(u)
      BY <1>0, <3>1, Gets
    <3>2. CASE Queries(u)
      BY <1>0, <3>2, QueriesBecomes
    <3>3. CASE QueryBreaks(u)
      BY <1>0, <3>3, BreaksBecomes
    <3>4. CASE MarksFailed(u)
      BY <1>0, <3>4, MarksBecomes
    <3>5. CASE CachesRow(u)
      BY <1>0, <3>5, RowBecomes DEF Shapes, Shape, CachesRow, At
    <3>6. CASE Disposes(u)
      BY <1>0, <3>6, DisposesBecomes
    <3>7. CASE CachesKey(u) \/ FindsAgain(u) \/ MissesAgain(u)
      BY <1>0, <3>7, EndsBecomes
    <3> QED
      BY <1>3, <2>0, <3>1, <3>2, <3>3, <3>4, <3>5, <3>6, <3>7 DEF Step
  <2> QED
    BY <1>2, <2>1
<1>4. Step(t)
  <2>1. ~ \E u \in Threads, k \in Keys : Calls(u, k)
    <3> SUFFICES ASSUME NEW u \in Threads, NEW k \in Keys, Calls(u, k) PROVE FALSE
      OBVIOUS
    <3>1. thread[u].pc = "idle" /\ \E d : Became(u, d)
      BY <1>0, CallBecomes
    <3> QED
      BY <1>2, <3>1 DEF IsRead
  <2>2. ~(Others \/ UNCHANGED vars)
    BY <1>1 DEF Others, Clears, Restarts, Arrives, vars
  <2> QED
    BY <1>0, <1>1, <1>3, <2>1, <2>2, NextCases
<1>5. CASE Disposes(t)
  <2> DEFINE d  == [c EXCEPT !.conn = Null]
             r1 == [d EXCEPT !.pc = "finding"]
             r2 == [d EXCEPT !.pc = "caching"]
             r3 == [d EXCEPT !.pc = "connecting", !.tries = d.tries + 1]
             r4 == [d EXCEPT !.pc = "connecting", !.phase = "row", !.tries = 0, !.refused = 0]
             r5 == Returned(d.result)
  <2>0. \/ d.result = "SUCCESS" /\ d.phase = "tree" /\ Became(t, r1)
        \/ d.result = "SUCCESS" /\ d.phase # "tree" /\ Became(t, r2)
        \/ d.result # "SUCCESS" /\ MayRetry(d) /\ Became(t, r3)
        \/ d.result # "SUCCESS" /\ ~MayRetry(d) /\ d.phase = "tree" /\ Became(t, r4)
        \/ d.result # "SUCCESS" /\ ~MayRetry(d) /\ d.phase # "tree" /\ Became(t, r5)
    BY <1>0, <1>5, DisposesBecomes
  <2>1. /\ d.key = c.key /\ d.phase = c.phase /\ d.tries = c.tries /\ d.result = c.result
        /\ r1.pc # "idle" /\ r2.pc # "idle" /\ r3.pc # "idle" /\ r4.pc # "idle"
        /\ r5.result = d.result
    BY <1>0 DEF CallType, Returned, NoCall
  <2> HIDE DEF d, r1, r2, r3, r4, r5
  <2>2. /\ thread'[t] = r5
        /\ d.result # "SUCCESS" /\ ~MayRetry(d) /\ d.phase # "tree"
    BY <1>2, <2>0, <2>1
  <2>3. c.phase = "row" /\ c.tries >= dbReadRetryCounter
    BY <1>0, <2>1, <2>2, CallNumbers, Numbers DEF MayRetry, IsRead, CallType, Phases
  <2>4. c.failedAt + c.refused >= c.since + c.tries /\ c.failedAt <= server
    BY <1>0, <1>5, <2>1, <2>2, <2>3 DEF Tried, Disposes, At
  <2> QED
    BY <1>0, <2>3, <2>4, CallNumbers, Numbers
<1>6. CASE CachesKey(t) \/ FindsAgain(t) \/ MissesAgain(t)
  <2>1. [c EXCEPT !.pc = "connecting", !.phase = "row", !.tries = 0,
                  !.refused = 0, !.result = "UNSPECIFIED"].pc = "connecting"
    BY <1>0 DEF CallType
  <2>2. thread'[t] = Returned("SUCCESS")
    BY <1>0, <1>2, <1>6, <2>1, EndsBecomes
  <2> QED
    BY <2>2 DEF Returned, NoCall
<1>7. CASE GetsConnection(t) \/ Queries(t) \/ QueryBreaks(t) \/ MarksFailed(t) \/ CachesRow(t)
  <2>1. thread'[t].pc \in {"querying", "disposing", "filling", "failing"}
    BY <1>0, <1>7 DEF GetsConnection, Queries, Queried, QueryBreaks, MarksFailed, CachesRow,
                      Types, CallType
  <2> QED
    BY <2>1
<1>8. ~RunsOut(t)
  BY <1>1 DEF RunsOut
<1> QED
  BY <1>4, <1>5, <1>6, <1>7, <1>8 DEF Step

\* read() of a node that was stored when it began returns it, unless it meets
\* dbReadRetryCounter restarts of the server or exceptions that no restart explains.
THEOREM StoredNodesAreFound == Spec => StoredIsFound
<1>1. PoolInv /\ OutageInv /\ [Next]_vars => OutageInv'
  BY NextOutages
<1>2. PoolInv /\ OutageInv /\ ReadInv /\ [Next]_vars => ReadInv'
  BY NextReads
<1>3. PoolInv /\ ReadInv /\ [Next]_vars =>
        [\A t \in Threads :
           LET asked == thread[t] IN
           /\ asked.pc # "idle" /\ thread'[t].pc = "idle"
           /\ asked.key \in Nodes /\ asked.phase # "insert" /\ asked.wasStored
           => \/ thread'[t].result = "SUCCESS"
              \/ (server - asked.since) + asked.refused >= dbReadRetryCounter]_vars
  BY ReadsEnd DEF IsRead
<1> QED
  BY <1>1, <1>2, <1>3, InitOutages, InitReads, PoolInvHolds, PTL DEF Spec, StoredIsFound

=============================================================================
