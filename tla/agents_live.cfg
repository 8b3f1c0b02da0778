\* Two daemons, one of which may crash, and so may its worker processes.
SPECIFICATION FairSpec
CONSTANTS
    NULL = NULL
    r1 = r1
    p1 = p1
    p2 = p2
    q1 = q1
    v1 = v1
    v2 = v2
    Runs = {r1}
    Owners = {p1, p2}
    MaxGen = 2
    Questions = {}
    Versions = {v1}
    MaxActive = 1
    PassLimit = 1
    Daemons = {p1, p2}
    VersionOf <- SameVersion
    Goals = TRUE
    Crashable = {p1}
    Closable = {}
    Faults = {"crash", "busy", "defer"}
    MaxFaults = 1
    MaxRequests = 1
INVARIANTS
    PromptOnce
PROPERTIES
    StopCompletes
    NobodyIsForgotten
CHECK_DEADLOCK FALSE
