\* A dispatcher that may outlive its leases, and clients that claim by hand
\* and answer late or never; messages may expire, threads be unloaded.
SPECIFICATION SystemSpec
CONSTANTS
    NULL = NULL
    m1 = m1
    m2 = m2
    t1 = t1
    p1 = p1
    p2 = p2
    Messages = {m1, m2}
    Threads = {t1}
    Attempts = {1, 2, 3}
    Procs = {p1}
    Times <- MCTimes
    TargetOf <- OneThread
    Policy <- ManualThenResume
    Priority <- Rising
    MaxAttempts <- Two
    Control = {}
    ClientMessages = {m1, m2}
    Crashable = {}
    LoadedAtStart <- NotLoaded
    UserTurns = FALSE
    MayRefuse = FALSE
    MayUnload = TRUE
    LeaseDuration = 1
    RetryDelay = 1
    StaleAfter = 1
    MaxClaimsPerTick = 2
    Enqueues <- NowOrExpiring
    DispatchTime = 9
    RefreshTime = 9
    MaxClock = 2
    MaxCrashes = 0
    LastCrash = 9
    LastEnqueue = 0
    MaxDbErrors = 0
INVARIANTS
    TypeOK
    ClaimMatchesAttempt
    PoisonedIsDeadLetter
    ReceiptsTellStatus
PROPERTIES
    SettledIsFinal
CHECK_DEADLOCK FALSE
