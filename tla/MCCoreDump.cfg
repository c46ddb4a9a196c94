CONSTANTS
    Limits <- MCLimits
    GetMayFail = TRUE
    PrctlMayFail = TRUE
SPECIFICATION CdSpec
INVARIANT CoreOffUntilEnabled
