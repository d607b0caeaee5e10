SPECIFICATION Spec
CONSTANTS
    NumFlags = 4
    Groups = {}
    Full = 1
    Conditions = {}
    Segments = {}
    FlagRequests <- DiamondRequests
    StatePatches <- TurnOn
    SegmentRequests = {}
    Users <- OneUser
    MaxEdits = 8
INVARIANT PrerequisitesAsDocumented
CHECK_DEADLOCK FALSE
