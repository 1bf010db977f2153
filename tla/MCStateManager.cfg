SPECIFICATION Spec
CONSTANTS
  Batches = {b1, b2}
  Roots <- MCRoots
  NodesUnder <- MCNodesUnder
  SetsOf <- MCSetsOf
  NoRoot = NoRoot
  MaxTxs = 2
  MaxSets = 4
  MaxCalls = 1
  LateErrorNeedsExitRoot = TRUE
SYMMETRY Symmetry
INVARIANTS
  TypeOK
  CurrentTreeIsReadable
  FinalTreeIsReadable
  FlushSucceeds
PROPERTY OnlyFinalRootsAreStored
CHECK_DEADLOCK FALSE
