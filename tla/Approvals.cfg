SPECIFICATION ApprovalSpec
CONSTANTS
    c0 = c0
    c1 = c1
    prod = prod
    Envs = {prod}
    Configs = {c0, c1}
    Blank = c0
    Patches <- MCPatches
    Shipped = {50}
    Editors = {w1}
    Servers = {s1}
    NoServer = NoServer
    MaxEdits = 1
    MaxTime = 1
    Requests = {a1}
    People = {u1, u2, u3}
    Calls = {k1, k2}
    Payloads <- BothPayloads
    MaxFailures = 1
INVARIANTS
    ApprovalTypeOK
    FourEyes
    AppliedWasWritten
    LastRequestHolds
CHECK_DEADLOCK FALSE
