SPECIFICATION PatientSpec
CONSTANTS
    w1 = w1
    q1 = q1
    q2 = q2
    NoWorker = NoWorker
    Jobs = {1}
    Workers = {}
    Repos <- MCRepos
    Profiles <- MCProfiles
    Submissions <- MCSubmissions
    Supports <- MCSupports
    Capacity <- MCCapacity
    MaxAttempts = 1
    LeaseTicks = 1
    LeaseBound = 1
    Requests = {q1}
    RequestSub <- MCRequestSub
    Supersedes <- MCSupersedes
    AutoCheck = "none"
    MaxDirect = 0
    MaxAttestations = 0
    Controllers = {g1, g2}
    Threads = {t1, t2}
    NoRequest = NoRequest
    NoLeader = NoLeader
    MaxCrashes = 1
    MaxFailures = 1
INVARIANTS
    OneThreadPerRequest
PROPERTIES
    WaitingEnds
