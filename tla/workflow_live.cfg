\* Two steps that run one at a time; the run may be paused, resumed and
\* cancelled, and one fault may hit either process.
SPECIFICATION FairSpec
CONSTANTS
    Deps <- Independent
    StepOf <- VerifyFirst
    Procs = {p1, p2}
    Steps = {1, 2}
    Gated = {}
    Isolated = {}
    Keyed = {}
    HasKey = {}
    Verifiers = {1}
    MaxAttempts = 1
    MaxParallel = 1
    MaxWorktrees = 1
    MaxAgents = 2
    Worked = {}
    Crashable = {p1}
    MaxFaults = 1
    MaxRequests = 2
    Nobody = Nobody
PROPERTIES
    CancelCompletes
    RunSettles
CHECK_DEADLOCK FALSE
