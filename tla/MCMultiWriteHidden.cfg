SPECIFICATION Spec
CONSTANTS
  n1 = n1
  p1 = p1
  t1 = t1
  NotReading = NotReading
  Nodes = {n1}
  Programs = {}
  Roots = {}
  Readers = {t1}
  ReadRetries = 1
  ReadOnlyModes = {FALSE}
  PoolModes = {TRUE, FALSE}
  MaxFlushId = 1
  MaxSem = 1
INVARIANT NodesAreFound
