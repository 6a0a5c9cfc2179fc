\* --rate-per-sec 2 with the default retry configuration, a tick of 250 ms
\* and no jitter: the requests, retries included, against the limiter's cap.
SPECIFICATION Spec
CONSTANTS
    Unit = 2
    Refill = 1
    Burst = 4
    Horizon = 8
    Count = 3
    MaxConcurrency = 2
    MaxRetries = 5
    BaseDelay = 1
    MaxDelay = 40
    JitterPercent = 0
INVARIANT RequestsUnderCap
CHECK_DEADLOCK FALSE
