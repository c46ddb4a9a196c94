CONSTANTS
    Chars <- MCChars
    PACap = 6
    CmdSlack = 1
    FileCap = 3
    Pid <- MCPid
    WritableFiles <- MCWritable
    Templates <- MCTemplates
    Programs <- MCPrograms
    Sigs = {"SEGV", "USR1"}
    DumpableInit = {0, 1, 2}
    PrctlMayFail = TRUE
SPECIFICATION Spec
INVARIANT TypeOK
INVARIANT DumpableRestored
INVARIANT VetInv
PROPERTY ExecVetted
CHECK_DEADLOCK FALSE
