\* Three slots within four seconds, candles of two and of four seconds.
CONSTANTS
    Slots = {1, 2, 3}
    Intervals = {2, 4}
    NoTime = NoTime
    Chains <- MCChains
    LastTime = 4
    MaxRuns = 2
SPECIFICATION Spec
INVARIANTS CandlesAreReal WholeBucketsExact SeriesAgree
\* The number of runs is bounded.
CHECK_DEADLOCK FALSE
