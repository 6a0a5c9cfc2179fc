\* Every message of up to 3 static keys and 3 of each kind loaded, and every header up to 4.
CONSTANTS
    MaxKeys = 3
    MaxHeader = 4
SPECIFICATION Spec
INVARIANTS EveryKeyOnce FollowsLayout ProgramsAreIndexed
\* Resolve returns once.
CHECK_DEADLOCK FALSE
