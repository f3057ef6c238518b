\* Two writes at a time while the branch and its base move.
CONSTANTS
    c1 = c1
    c2 = c2
    b0 = b0
    b1 = b1
    w1 = w1
    m2 = m2
    x1 = x1
    main = main
    stack = stack
    none = none
    Clients <- Pair_Clients
    Branches <- Pair_Branches
    Trunk <- Pair_Trunk
    FirstBase <- Pair_FirstBase
    Commits <- Pair_Commits
    Child <- Pair_Child
    Before <- Pair_Before
    Menu <- Pair_Calls
    NoCommit = none
    MaxWsRev = 4
    MaxSessRev = 4
    MaxMoves = 1
SPECIFICATION Spec
INVARIANTS
    RevisionNamesIdentity
    OnePinnedBase
PROPERTIES
    ForwardOnly
    RowsAreRevisioned
SYMMETRY Symmetric
\* The bounds stop the system.
CHECK_DEADLOCK FALSE
