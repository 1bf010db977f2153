SPECIFICATION Spec
CONSTANTS
  Keys <- MCKeys
  Values = {1, 2}
INVARIANTS
  RootIsCanonical
  GetsAreRight
  NewTreeIsCovered
  FreedNodesAreUnused
  LatchesHold
