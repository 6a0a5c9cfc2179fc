\* As MCCandles.cfg; the second run is a re-run.
CONSTANTS
    Slots = {1, 2, 3}
    Intervals = {2, 4}
    NoTime = NoTime
    Chains <- MCChains
    LastTime = 3
    MaxRuns = 2
SPECIFICATION Spec
PROPERTY RerunKeepsVolumes
CHECK_DEADLOCK FALSE
