SPECIFICATION Spec
CONSTANTS
  a = a
  b = b
  p = p
  t1 = t1
  t2 = t2
  t3 = t3
  Threads = {t1, t2, t3}
  ServerThreads = {t1}
  Nodes = {a, b}
  Programs = {p}
  Path <- MCPath
  Size <- MCSize
  MaxSize = 4
  Null = Null
  dbNumberOfPoolConnections = 2
  dbReadRetryCounter = 1
  InitialRows <- MCInitialRows
  LateRows = {b}
  Workloads <- MCWorkloads
INVARIANTS
  TypeOK
  ConnectionsAreAccounted
  OutageIsMetOnce
  CachedIsStored
PROPERTIES
  StoredIsFound
  EveryCallEnds
CHECK_DEADLOCK FALSE
