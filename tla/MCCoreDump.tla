---------------------------- MODULE MCCoreDump ----------------------------
(* The TLC instance of CoreDump: limits 0, 1 and 2 (2 standing for         *)
(* RLIM_INFINITY), privileged and unprivileged processes, every failure.   *)
EXTENDS CoreDump

MCLimits == {0, 1, 2}
=============================================================================
