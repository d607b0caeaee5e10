SPECIFICATION FairSpec
CONSTANTS
    Servers = {s1}
    Envs = {e1}
    Flags = {f1}
    Requests = {r1, r2}
    NoRuleset = NoRuleset
    MaxStates = 2
    MaxFlags = 1
INVARIANTS
    TypeOK
    StaleIsExplained
    AnnouncedIsVisible
PROPERTIES
    StaleIsDropped
    InvalidationIsAnnounced
CHECK_DEADLOCK FALSE
