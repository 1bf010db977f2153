SPECIFICATION StreamSpec
CONSTANTS
  r1 = r1
  r2 = r2
  r3 = r3
  r4 = r4
  j1 = j1
  j2 = j2
  NoRequest = NoRequest
  NoJob = NoJob
  Requests = {r1, r2, r3, r4}
  Jobs = {j1, j2}
  StreamLimits = {0, 1}
  Workloads <- SmallWorkloads
  CleanerRuns = FALSE
INVARIANTS
  ProcessedInOrder
  IdleMeansDone
  AnswersAreTrue
  ProofsAreOfTheirJobs
  WorkIsRepeatedOnlyAfterFaults
  WatchdogIsUsedInTurn
PROPERTY EveryJobIsProved
