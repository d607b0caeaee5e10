SPECIFICATION Spec
CONSTANTS
    Calls = {g1, g2, w1}
    Gets = {g1, g2}
    NoCall = NoCall
    MaxAttempts = 2
INVARIANT TypeOK
INVARIANT CallsAreBounded
INVARIANT WaitersAreServed
PROPERTY QuietSignOut
PROPERTY EveryCallSettles
