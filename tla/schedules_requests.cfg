\* Requests race one process: edits, pause, resume and delete,
\* each loaded before and written after other steps.
SPECIFICATION SystemSpec
CONSTANTS
    NULL = NULL
    Keep = Keep
    Schedules = {s1}
    RunIds = {1, 2}
    Procs = {p1}
    Crashable = {}
    SessionProcs = {}
    GoalSchedules = {}
    MayRunNow = {}
    MayPause = {s1}
    MayResume = {s1}
    MayDelete = {s1}
    Editors = {e1}
    LeaseDuration = 2
    HeartbeatInterval = 1
    HeartbeatSlack = 0
    RetryDelay = 1
    StaleAfter = 1
    MaxClaimsPerTick = 1
    Period = 2
    MaxFailures = 2
    BackoffBase = 1
    BackoffCap = 2
    ScheduleLimit = 2
    MaxClock = 2
    MaxCrashes = 0
    LastCrash = 4
    MaxDbErrors = 0
    MaxFaults = 1
    MaxEdits = 2
    Times <- MCTimes
    NewSchedules <- NewExpiring
    Patches <- EditsOfAll
INVARIANTS
    LeaseMatchesRun
CHECK_DEADLOCK FALSE
