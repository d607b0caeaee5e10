SPECIFICATION Spec
CONSTANTS
    Chains = {k1, k2, k3, k4}
    First = k1
    NoChain = NoChain
    MaxFailed = 5
    MaxClicks = 2
PROPERTY DisconnectsOnUnmount
CHECK_DEADLOCK FALSE
