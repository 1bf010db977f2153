SPECIFICATION Spec
CONSTANTS
  Batches = {b1}
  Roots <- MCRoots
  NodesUnder <- MCNodesUnder
  SetsOf <- MCSetsOf
  NoRoot = NoRoot
  MaxTxs = 2
  MaxSets = 4
  MaxCalls = 1
  LateErrorNeedsExitRoot = FALSE
PROPERTY OnlyFinalRootsAreStored
CHECK_DEADLOCK FALSE
