\* A /goal loop whose goal is held and released at any time; a crash; runNow.
SPECIFICATION SystemSpec
CONSTANTS
    NULL = NULL
    Keep = Keep
    Schedules = {s1}
    RunIds = {1, 2}
    Procs = {p1}
    Crashable = {p1}
    SessionProcs = {}
    GoalSchedules = {s1}
    MayRunNow = {s1}
    MayPause = {}
    MayResume = {}
    MayDelete = {}
    Editors = {e1}
    LeaseDuration = 2
    HeartbeatInterval = 1
    HeartbeatSlack = 0
    RetryDelay = 1
    StaleAfter = 1
    MaxClaimsPerTick = 1
    Period = 2
    MaxFailures = 2
    BackoffBase = 1
    BackoffCap = 2
    ScheduleLimit = 2
    MaxClock = 3
    MaxCrashes = 1
    LastCrash = 1
    MaxDbErrors = 1
    MaxFaults = 1
    MaxEdits = 0
    Times <- MCTimes
    NewSchedules <- NewRecurring
    Patches <- NoSet
INVARIANTS
    ActiveIsArmed
PROPERTIES
    HeldGoalStopsSchedule
CHECK_DEADLOCK FALSE
