CONSTANTS
    Threads = {t1, t2}
    Objs = {o1, o2}
    Addrs = {a1}
    Bufs = {b1, b2}
    NULL = NULL
    NoMarker = NoMarker
    NoOwner = NoOwner
    NoObj = NoObj
    CbSize <- MCCbSize
    AllocFailures = 1
SPECIFICATION Spec
INVARIANTS TypeOK IInv
PROPERTIES Refinement AttachCompletes
