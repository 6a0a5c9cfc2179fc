\* Two runs of the command, each of which may be killed or fail anywhere.
CONSTANTS
  Count = 3
  MaxConcurrency = 2
  BatchSize = 2
  Capacity = 1
  Kinds = {"ingested", "failed"}
  MaxRuns = 2
SPECIFICATION Spec
INVARIANTS
  NothingLost
  NothingTwice
  StageOrder
  CountedIsRecorded
  SuccessIsComplete
PROPERTIES
  RefinesIngestRun
