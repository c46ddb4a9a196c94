----------------------------- MODULE DebugProbe -----------------------------
(***************************************************************************)
(* The debugger probe of src/lib/debug.c (lines 83, 95-117): fr_debug_break *)
(* tests the static fr_debugger_present; at -1 it sets it to 0, installs   *)
(* _sigtrap_handler for SIGTRAP and raises SIGTRAP; at 1 it raises SIGTRAP. *)
(* A debugger attached to the process stops it on the trap and then        *)
(* passes the signal on to the process or not; _sigtrap_handler sets the   *)
(* flag to 0 and restores SIG_DFL.  The disposition is process-wide; the   *)
(* flag is a plain int read and written without synchronisation.           *)
(***************************************************************************)
EXTENDS Integers

CONSTANTS
    Threads,    \* threads that may call fr_debug_break
    MaxBreaks   \* calls of fr_debug_break per thread

ASSUME DebugProbeAssumption == MaxBreaks \in Nat \ {0}

VARIABLES
    present,    \* fr_debugger_present: -1 unknown, 0 absent, 1 present
    disp,       \* the SIGTRAP disposition: "dfl" or "handler"
    debugger,   \* "none", or a debugger that stops on SIGTRAP and then
                \* passes it on ("pass") or discards it ("nopass")
    pc,         \* pc[t]: where thread t is in fr_debug_break
    calls,      \* calls[t]: fr_debug_break calls thread t has made
    killed,     \* SIGTRAP was delivered with its default action
    intercepted,\* a debugger stopped the process on the probe's trap
    missed      \* a call returned without trapping while a debugger that
                \* had intercepted the probe was still attached

dpVars == <<present, disp, debugger, pc, calls, killed, intercepted, missed>>

Debuggers == {"none", "pass", "nopass"}

DpInit ==
    /\ present = -1
    /\ disp = "dfl"
    /\ debugger \in Debuggers
    /\ pc = [t \in Threads |-> "idle"]
    /\ calls = [t \in Threads |-> 0]
    /\ killed = FALSE
    /\ intercepted = FALSE
    /\ missed = FALSE

\* Mutant: any determined state re-raises (present != -1 for == 1).
BreakAlwaysRaise(t) ==
    /\ pc[t] = "idle" /\ calls[t] < MaxBreaks /\ ~killed
    /\ calls' = [calls EXCEPT ![t] = @ + 1]
    /\ pc' = [pc EXCEPT ![t] = IF present = -1 THEN "set" ELSE "raise"]
    /\ UNCHANGED <<present, disp, debugger, killed, intercepted, missed>>

\* fr_debug_break is called; its test of fr_debugger_present.
Break(t) ==
    /\ pc[t] = "idle" /\ calls[t] < MaxBreaks /\ ~killed
    /\ calls' = [calls EXCEPT ![t] = @ + 1]
    /\ pc' = [pc EXCEPT ![t] = CASE present = -1 -> "set"
                                 [] present = 1  -> "raise"
                                 [] OTHER        -> "idle"]
    /\ missed' = (missed \/ (present = 0 /\ intercepted /\ debugger # "none"))
    /\ UNCHANGED <<present, disp, debugger, killed, intercepted>>

\* fr_debugger_present = 0.
SetAbsent(t) ==
    /\ pc[t] = "set" /\ ~killed
    /\ present' = 0
    /\ pc' = [pc EXCEPT ![t] = "install"]
    /\ UNCHANGED <<disp, debugger, calls, killed, intercepted, missed>>

\* signal(SIGTRAP, _sigtrap_handler).
Install(t) ==
    /\ pc[t] = "install" /\ ~killed
    /\ disp' = "handler"
    /\ pc' = [pc EXCEPT ![t] = "raise"]
    /\ UNCHANGED <<present, debugger, calls, killed, intercepted, missed>>

(***************************************************************************)
(* raise(SIGTRAP) on thread t: a debugger stops the process first; the     *)
(* signal then reaches the process unless the debugger discards it, and    *)
(* runs _sigtrap_handler, or kills the process under SIG_DFL.              *)
(***************************************************************************)
Raise(t) ==
    /\ pc[t] = "raise" /\ ~killed
    /\ pc' = [pc EXCEPT ![t] = "idle"]
    /\ intercepted' = (intercepted \/ debugger = "nopass")
    /\ IF debugger = "nopass"
          THEN UNCHANGED <<present, disp, killed>>
          ELSE IF disp = "handler"
                  THEN present' = 0 /\ disp' = "dfl" /\ UNCHANGED killed
                  ELSE killed' = TRUE /\ UNCHANGED <<present, disp>>
    /\ UNCHANGED <<debugger, calls, missed>>

\* A debugger attaches to or detaches from the running process.
Debug(d) ==
    /\ ~killed /\ d # debugger
    /\ debugger' = d
    /\ UNCHANGED <<present, disp, pc, calls, killed, intercepted, missed>>

DpNext ==
    \/ \E t \in Threads : Break(t) \/ SetAbsent(t) \/ Install(t) \/ Raise(t)
    \/ \E d \in Debuggers : Debug(d)

DpSpec == DpInit /\ [][DpNext]_dpVars

-----------------------------------------------------------------------------
(* Properties.                                                             *)

(***************************************************************************)
(* Spec section 8: without a debugger, fr_debug_break never raises a       *)
(* SIGTRAP that nobody catches: the probe's trap always finds              *)
(* _sigtrap_handler installed, and later calls do not raise.               *)
(***************************************************************************)
NoUncaughtTrap == ~killed

(***************************************************************************)
(* Spec section 4.4: once a debugger has intercepted the probe's trap, the *)
(* process knows it is present, and every later fr_debug_break stops in    *)
(* the debugger for as long as it stays attached.                          *)
(***************************************************************************)
BreakStopsUnderDebugger == ~missed
=============================================================================
