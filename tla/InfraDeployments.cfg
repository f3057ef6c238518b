CONSTANTS
    b0 = b0
    b1 = b1
    u1 = u1
    u2 = u2
    down = down
    Deployments <- MC_Deployments
    Commits <- MC_Commits
    Clients <- MC_Clients
    NoBuild = down
    MaxFaults = 1
SPECIFICATION FairSpec
INVARIANTS
    OneActive
    RecoverySound
PROPERTIES
    RowsAreRevisioned
    PassedIsProven
    SwitchesExpected
    DeploymentEnds
\* The bounds stop the system.
CHECK_DEADLOCK FALSE
