SPECIFICATION Spec
CONSTANTS
  Files <- MCFiles
  Releases = {"r1", "r2"}
  Hash <- MCHash
  Cut = "cut"
  None = "none"
  MaxPublish = 3
  MaxRuns = 3
INVARIANTS
  CompleteIsComplete
PROPERTIES
  InterruptedIsRetried
