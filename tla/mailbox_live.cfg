\* Two punctual dispatchers resume an unloaded thread; one may crash once,
\* a database call may fail, and the user starts turns of his own.
SPECIFICATION FairSpec
CONSTANTS
    NULL = NULL
    m1 = m1
    m2 = m2
    t1 = t1
    p1 = p1
    p2 = p2
    Messages = {m1}
    Threads = {t1}
    Attempts = {1, 2}
    Procs = {p1, p2}
    Times <- MCTimes
    TargetOf <- OneThread
    Policy <- AllResume
    Priority <- Rising
    MaxAttempts <- Two
    Control = {}
    ClientMessages = {}
    Crashable = {p1}
    LoadedAtStart <- NotLoaded
    UserTurns = TRUE
    MayRefuse = TRUE
    MayUnload = FALSE
    LeaseDuration = 2
    RetryDelay = 1
    StaleAfter = 1
    MaxClaimsPerTick = 1
    Enqueues <- Now
    DispatchTime = 1
    RefreshTime = 1
    MaxClock = 7
    MaxCrashes = 1
    LastCrash = 1
    LastEnqueue = 0
    MaxDbErrors = 1
INVARIANTS
    OneOwnerPerThread
PROPERTIES
    EveryMessageSettles
    AcknowledgedIsConsumed
CHECK_DEADLOCK FALSE
