SPECIFICATION ReqSpec
CONSTANTS
    w1 = w1
    q1 = q1
    q2 = q2
    NoWorker = NoWorker
    Jobs = {1, 2}
    Workers <- MCWorkers
    Repos <- MCRepos
    Profiles <- MCProfiles
    Submissions <- MCSubmissions
    Supports <- MCSupports
    Capacity <- MCCapacity
    MaxAttempts = 2
    LeaseTicks = 1
    LeaseBound = 2
    Requests <- MCRequests
    RequestSub <- MCRequestSub
    Supersedes <- MCSupersedes
    AutoCheck = "auto"
    MaxDirect = 1
    MaxAttestations = 2
INVARIANTS
    OneJobPerRequest
    TerminalTellsTheTruth
    LagOnlyWhereUnreconciled
    LinkedIsProven
PROPERTIES
    RequestMovesForward
    StartLeavesNoLag
SYMMETRY MCSymmetry
