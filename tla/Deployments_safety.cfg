SPECIFICATION Spec
CONSTANTS
    Deployments <- MCDeploymentIds
    Commits <- MCCommits
    Ways <- MCQueuedWays
    IdlePolls = FALSE
    MaxFaults = 1
INVARIANTS
    CancelledNeverRan
    RegistryOnlyVerified
PROPERTIES
    CancelledIsFinal
    CallbacksKeepOutcome
    ScriptStartsOnce
CHECK_DEADLOCK FALSE
