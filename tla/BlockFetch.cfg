\* Two thirds of a token per tick, a bucket of four thirds: --rate-per-sec
\* 1.33 with two ticks to the second.
SPECIFICATION Spec
CONSTANTS
    Unit = 3
    Refill = 2
    Burst = 4
    Horizon = 5
    Count = 3
    MaxConcurrency = 2
    MaxRetries = 1
    BaseDelay = 1
    MaxDelay = 1
    JitterPercent = 20
INVARIANTS TypeOK GrantsBounded RefusesOnlyAtCap OneTokenPerSlot PoolDiscipline NoOversleep GivesUpOnlyWhenSpent
PROPERTIES RetriesOnlyTransient EverySlotAnswered
CHECK_DEADLOCK FALSE
