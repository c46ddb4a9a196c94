CONSTANTS
    c1 = c1
    c2 = c2
    c3 = c3
    nullctx = nullctx
    NULL = NULL
    Ctxs <- MCCtxs
    Parent <- MCParent
    NullCtx = nullctx
    MayFail = TRUE
SPECIFICATION MrSpec
INVARIANTS FdsReleased WalkStopsBeforeNull IInv
CHECK_DEADLOCK FALSE
