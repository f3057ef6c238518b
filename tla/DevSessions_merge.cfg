\* A task that is validated, merged and closed.
CONSTANTS
    c1 = c1
    c2 = c2
    b0 = b0
    b1 = b1
    w1 = w1
    m2 = m2
    x1 = x1
    main = main
    stack = stack
    none = none
    Clients <- Merge_Clients
    Branches <- Merge_Branches
    Trunk <- Merge_Trunk
    FirstBase <- Merge_FirstBase
    Commits <- Merge_Commits
    Child <- Merge_Child
    Before <- Merge_Child
    Menu <- Merge_Calls
    NoCommit = none
    MaxWsRev = 3
    MaxSessRev = 6
    MaxMoves = 1
SPECIFICATION Spec
INVARIANTS
    MergedIsExact
PROPERTIES
    ReadyIsProven
\* The bounds stop the system.
CHECK_DEADLOCK FALSE
