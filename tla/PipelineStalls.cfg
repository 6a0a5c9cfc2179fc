\* One run over more slots than the stages can hold at once, with every failure
\* of the store task.
CONSTANTS
  Count = 7
  MaxConcurrency = 1
  BatchSize = 2
  Capacity = 1
  Kinds = {"ingested", "failed"}
  MaxRuns = 1
SPECIFICATION Spec
INVARIANTS
  BoundedMemory
PROPERTIES
  RunEnds
