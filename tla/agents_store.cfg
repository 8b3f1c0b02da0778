\* The tables alone: two runs that compete for one place, two supervisors of
\* two builds, any transaction at any time.
SPECIFICATION StoreSpec
CONSTANTS
    NULL = NULL
    Runs = {r1, r2}
    Owners = {p1, p2}
    MaxGen = 1
    Questions = {}
    Versions = {v1, v2}
    MaxActive = 1
INVARIANTS
    StoreTypeOK
    CapacityKept
CHECK_DEADLOCK FALSE
