\* One request, two callers, two faults or moves of others.
CONSTANTS
    c1 = c1
    c2 = c2
    p = p
    d = d
    u = u
    g = g
    f = f
    kp = kp
    kr = kr
    kd = kd
    ku = ku
    kg = kg
    kf = kf
    none = none
    Clients <- MC_Clients
    Requests <- MC_Requests
    Kind <- MC_Kind
    KeysOf <- MC_KeysOf
    NoKey = none
    MaxAsked = 1
    MaxFaults = 2
SPECIFICATION FairSpec
PROPERTIES
    WrittenOnce
    ClaimSettles
\* A request that was answered may never be repeated.
CHECK_DEADLOCK FALSE
