SPECIFICATION FairSpec
CONSTANTS
  n1 = n1
  p1 = p1
  t1 = t1
  NotReading = NotReading
  Nodes = {n1}
  Programs = {p1}
  Roots = {}
  Readers = {t1}
  ReadRetries = 0
  ReadOnlyModes = {FALSE}
  PoolModes = {TRUE, FALSE}
  MaxFlushId = 1
  MaxSem = 1
INVARIANTS
  NothingIsLost
  ProgramsAreFound
PROPERTY FlushIsStored
