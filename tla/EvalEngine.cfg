SPECIFICATION Spec
CONSTANTS
    NumFlags = 3
    Groups = {"g"}
    Full = 3
    Conditions = {"c"}
    Segments = {"s"}
    FlagRequests <- MCFlagRequests
    StatePatches <- MCStatePatches
    SegmentRequests <- MCSegmentRequests
    Users <- MCUsers
    MaxEdits = 5
INVARIANTS
    TypeOK
    OneFlagPerGroup
    ServedNeedsPrerequisites
    CyclesAreOff
PROPERTIES
    RampKeepsUsers
    EditsAreLocal
CHECK_DEADLOCK FALSE
