SPECIFICATION FairAgentSpec
CONSTANTS
    w1 = w1
    NoWorker = NoWorker
    Jobs = {1}
    Workers <- MCWorkers
    Repos <- MCRepos
    Profiles <- MCProfiles
    Submissions <- MCSubmissions
    Supports <- MCSupports
    Capacity <- MCCapacity
    MaxAttempts = 2
    LeaseTicks = 1
    LeaseBound = 2
    MaxStops = 1
PROPERTIES
    UnwantedAttemptStops
    OrphanedAttemptRecovered
