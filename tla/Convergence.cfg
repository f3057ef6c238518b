\* Two callers of full convergences while the branch moves once.
CONSTANTS
    c1 = c1
    c2 = c2
    k1 = k1
    k2 = k2
    context = context
    Clients = {c1, c2}
    Keys = {k1, k2}
    Others = {k2}
    Mode <- MC_Mode
    Stages = {context}
    Commits = {0, 1}
    TreeOf <- MC_TreeOf
    KeepLimit = 1
    NoJob = NoJob
    NoRun = NoRun
    MaxUpsets = 1
SPECIFICATION FairSpec
PROPERTIES
    EvidenceBound
    RunsAdvance
    RunSettles
