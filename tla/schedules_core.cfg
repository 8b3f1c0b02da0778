\* Two processes poll one schedule (an expiring loop or a one-time run); one
\* may crash, both may have the thread loaded.  Crashes stop at LastCrash, early
\* enough for every lease they leave behind to lapse before MaxClock.
SPECIFICATION FairSpec
CONSTANTS
    NULL = NULL
    Keep = Keep
    Schedules = {s1}
    RunIds = {1, 2}
    Procs = {p1, p2}
    Crashable = {p1}
    SessionProcs = {p2}
    GoalSchedules = {}
    MayRunNow = {}
    MayPause = {}
    MayResume = {}
    MayDelete = {}
    Editors = {e1}
    LeaseDuration = 2
    HeartbeatInterval = 1
    HeartbeatSlack = 0
    RetryDelay = 2
    StaleAfter = 1
    MaxClaimsPerTick = 1
    Period = 3
    MaxFailures = 2
    BackoffBase = 1
    BackoffCap = 2
    ScheduleLimit = 2
    MaxClock = 3
    MaxCrashes = 1
    LastCrash = 1
    MaxDbErrors = 0
    MaxFaults = 1
    MaxEdits = 0
    Times <- MCTimes
    NewSchedules <- NewMixed
    Patches <- NoSet
INVARIANTS
    TypeOK
    LeaseMatchesRun
    OnceCompletesOnce
PROPERTIES
    OutcomesAreFinal
    HealthyRunIsKept
    EveryRunEnds
CHECK_DEADLOCK FALSE
