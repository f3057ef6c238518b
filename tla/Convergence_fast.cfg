\* One caller of a fast convergence, no faults.
CONSTANTS
    c1 = c1
    c2 = c2
    k1 = k1
    k2 = k2
    context = context
    Clients = {c1}
    Keys = {k1}
    Others = {}
    Mode <- Fast_Mode
    Stages = {context}
    Commits = {0}
    TreeOf <- MC_TreeOf
    KeepLimit = 1
    NoJob = NoJob
    NoRun = NoRun
    MaxUpsets = 0
SPECIFICATION FairSpec
PROPERTIES
    FastSettles
CHECK_DEADLOCK FALSE
