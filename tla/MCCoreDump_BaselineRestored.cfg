CONSTANTS
    Limits <- MCLimits
    GetMayFail = TRUE
    PrctlMayFail = TRUE
SPECIFICATION CdSpec
PROPERTY BaselineRestored
