CONSTANTS
    Threads = {t1, t2}
    Objs = {o1, o2}
    Addrs = {a1}
    Bufs = {b1, b2}
    NULL = NULL
    NoMarker = NoMarker
    NoOwner = NoOwner
    NoObj = NoObj
    CbSize = 2
    AllocFailures = 1
SPECIFICATION Spec
PROPERTY PrintFindsFreed
CHECK_DEADLOCK FALSE
