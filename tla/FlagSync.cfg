SPECIFICATION Spec
CONSTANTS
    Clients = {c1}
    Polls = {p1, p2}
    BufferSize = 1
    WireSize = 2
    MaxVersion = 4
INVARIANT TypeOK
INVARIANT StreamAccounts
PROPERTY PollingCatchesUp
PROPERTY StreamingCatchesUp
PROPERTY ClosedGoesQuiet
