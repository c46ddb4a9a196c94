CONSTANTS
    Threads = {t1}
    MaxBreaks = 3
SPECIFICATION DpSpec
INVARIANT BreakStopsUnderDebugger
