\* Two processes, one without the provider key; the other may crash.  Step 2
\* is gated and verified, step 3 needs it; goals of 1 and 2 may complete.
SPECIFICATION FairSpec
CONSTANTS
    Deps <- NeedsGated
    StepOf <- VerifySecond
    Procs = {p1, p2}
    Steps = {1, 2, 3}
    Gated = {2}
    Isolated = {1, 2}
    Keyed = {3}
    HasKey = {p1}
    Verifiers = {1}
    MaxAttempts = 2
    MaxParallel = 2
    MaxWorktrees = 1
    MaxAgents = 2
    Worked = {1, 2}
    Crashable = {p1}
    MaxFaults = 1
    MaxRequests = 1
    Nobody = Nobody
INVARIANTS
    WorkflowTypeOK
    NothingRunsWithoutConsent
    BranchLimits
    CancelledRunIsQuiet
    SuccessIsVerified
PROPERTIES
    ResultIsCurrent
    EndedRunIsFinal
CHECK_DEADLOCK FALSE
