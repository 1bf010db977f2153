SPECIFICATION Spec
CONSTANTS
  w = w
  x = x
  y = y
  z = z
  root = root
  Null = Null
  Nodes = {w, x, y, z}
  dbStateRootKey = root
  Roots = {1, 2}
  Size <- MCSize
  MaxSize = 11
  Place <- MCPlace
  cacheSize = 4
  MaxIndex = 15
INVARIANTS
  HitsAreLatest
  RecentEntriesAreFound
PROPERTY ListIsLru
CHECK_DEADLOCK FALSE
