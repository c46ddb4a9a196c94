CONSTANTS
    Threads = {t1}
    MaxBreaks = 12
SPECIFICATION DpSpec
INVARIANTS NoUncaughtTrap IInv
