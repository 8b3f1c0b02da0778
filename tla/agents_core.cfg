\* An app-server with workers of its own and a daemon; one run.
SPECIFICATION Spec
CONSTANTS
    NULL = NULL
    r1 = r1
    p1 = p1
    p2 = p2
    q1 = q1
    v1 = v1
    v2 = v2
    Runs = {r1}
    Owners = {p1, p2}
    MaxGen = 2
    Questions = {q1}
    Versions = {v1, v2}
    MaxActive = 1
    PassLimit = 1
    Daemons = {p2}
    VersionOf <- SameVersion
    Goals = FALSE
    Crashable = {p2}
    Closable = {p1}
    Faults = {"stall"}
    MaxFaults = 1
    MaxRequests = 1
INVARIANTS
    AgentsTypeOK
    LeaseNamesOwner
    NoInheritedQuestion
PROPERTIES
    FailureIsOwn
    AnsweredOnce
    StopWins
    ImplementsLifecycle
CHECK_DEADLOCK FALSE
