\* The status of a block is written before the block is stored.
CONSTANTS
  Count = 2
  MaxConcurrency = 1
  BatchSize = 2
  Capacity = 2
  Kinds = {"ingested"}
  MaxRuns = 1
SPECIFICATION Spec
INVARIANTS
  IngestedMeansStored
