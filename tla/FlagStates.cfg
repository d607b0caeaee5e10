SPECIFICATION FairSpec
CONSTANTS
    c0 = c0
    c1 = c1
    Envs = {dev, prod}
    Configs = {c0, c1}
    Blank = c0
    Patches <- MCPatches
    Shipped = {0, 50}
    Editors = {w1, w2}
    Servers = {s1, s2}
    NoServer = NoServer
    MaxEdits = 2
    MaxTime = 1
INVARIANTS
    TypeOK
    LastRequestHolds
    OneTickAtATime
PROPERTIES
    DueIsApplied
CHECK_DEADLOCK FALSE
