SPECIFICATION Spec
CONSTANTS
    NumBearers = 2
    Price <- MCPrice
    Units <- MCUnits
    Packs <- MCPacks
    Keys = {k1}
    NoKey = NoKey
    Periods = {jan, feb}
    w1 = w1
    w2 = w2
    g1 = g1
    g2 = g2
    Callers = {w1, w2}
    Granters = {g1, g2}
    MaxBought = 2
SYMMETRY Symmetric
INVARIANTS
    TypeOK
    Conserved
    ChargedOnce
    AnsweredIsCharged
