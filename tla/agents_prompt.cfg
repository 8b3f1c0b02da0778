\* Two app-servers with workers of their own; one may crash.
SPECIFICATION Spec
CONSTANTS
    NULL = NULL
    r1 = r1
    p1 = p1
    p2 = p2
    q1 = q1
    v1 = v1
    v2 = v2
    Runs = {r1}
    Owners = {p1, p2}
    MaxGen = 2
    Questions = {}
    Versions = {v1}
    MaxActive = 1
    PassLimit = 1
    Daemons = {}
    VersionOf <- SameVersion
    Goals = FALSE
    Crashable = {p1}
    Closable = {}
    Faults = {"crash"}
    MaxFaults = 1
    MaxRequests = 0
INVARIANTS
    PromptOnce
CHECK_DEADLOCK FALSE
