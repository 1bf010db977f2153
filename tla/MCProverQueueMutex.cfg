SPECIFICATION Spec
CONSTANTS
  r1 = r1
  r2 = r2
  NoRequest = NoRequest
  Requests = {r1, r2}
  CleanerRuns = TRUE
INVARIANT MutexProtectsQueues
