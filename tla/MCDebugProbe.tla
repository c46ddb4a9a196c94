---------------------------- MODULE MCDebugProbe ----------------------------
(* The TLC instances of DebugProbe: one caller, or two racing the first    *)
(* probe; a debugger attaching and detaching at any point.                 *)
EXTENDS DebugProbeProofs
=============================================================================
