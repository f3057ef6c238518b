SPECIFICATION Spec
CONSTANTS
    w1 = w1
    w2 = w2
    NoWorker = NoWorker
    Jobs = {1, 2}
    Workers <- MCWorkers
    Repos <- MCRepos
    Profiles <- MCProfiles
    Submissions <- MCSubmissions
    Supports <- MCSupports
    Capacity <- MCCapacity
    MaxAttempts = 2
    LeaseTicks = 1
    LeaseBound = 2
INVARIANTS
    CountersExact
    PointerOwnsJob
    CapacityRespected
    ResultFromLatestAttempt
    SupersedeLinks
PROPERTIES
    SettledIsFinal
    LeaseSpec
SYMMETRY MCSymmetry
