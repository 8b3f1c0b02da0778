\* A period of 3, backoffs 1 2 4 5 5 ..., completions up to time 40.
SPECIFICATION TrainSpec
CONSTANTS
    NULL = NULL
    Period = 3
    Origin = 2
    MaxFailures = 5
    BackoffBase = 1
    BackoffCap = 5
    Horizon = 40
INVARIANTS
    NextIsFirstBeat
    StopsAtMaxFailures
CHECK_DEADLOCK FALSE
