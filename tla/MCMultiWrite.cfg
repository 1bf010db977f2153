SPECIFICATION Spec
CONSTANTS
  n1 = n1
  p1 = p1
  t1 = t1
  NotReading = NotReading
  Nodes = {n1}
  Programs = {}
  Roots = {1, 2}
  Readers = {t1}
  ReadRetries = 1
  ReadOnlyModes = {TRUE, FALSE}
  PoolModes = {TRUE, FALSE}
  MaxFlushId = 2
  MaxSem = 1
INVARIANTS
  TypeOK
  RolesRotate
  SendsOnlyUnstoredData
  FlushIdsOrdered
  ReportedIsStored
  StoredRootHasItsTree
  OnlyUnflushedNodesAreHidden
  HandedOutIsStored
PROPERTY ImplementsLog
