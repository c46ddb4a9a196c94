-------------------------- MODULE DebugProbeProofs --------------------------
(***************************************************************************)
(* TLAPS proofs about the debugger probe of DebugProbe.  The theorem is    *)
(* for one calling thread: with two, TLC finds the second trap meeting     *)
(* the SIG_DFL that the first trap's handler restored (README, hazards).   *)
(***************************************************************************)
EXTENDS DebugProbe, TLAPS

ProbePCs == {"idle", "set", "install", "raise"}

DpTypeOK ==
    /\ present \in {-1, 0, 1}
    /\ disp \in {"dfl", "handler"}
    /\ debugger \in Debuggers
    /\ pc \in [Threads -> ProbePCs]
    /\ calls \in [Threads -> 0 .. MaxBreaks]
    /\ killed \in BOOLEAN /\ intercepted \in BOOLEAN /\ missed \in BOOLEAN

(***************************************************************************)
(* NoUncaughtTrap is not inductive: a state about to raise under SIG_DFL   *)
(* satisfies it.  The strengthening says that fr_debugger_present is never *)
(* 1 (nothing stores 1, so the re-raise branch is never taken) and that a  *)
(* caller about to raise has installed _sigtrap_handler, which nothing     *)
(* else resets while it is the only caller.                                *)
(***************************************************************************)
IInv ==
    /\ DpTypeOK
    /\ ~killed
    /\ present \in {-1, 0}
    /\ \A t \in Threads : pc[t] = "raise" => disp = "handler"

LEMMA InitIInv == DpInit => IInv
<1> SUFFICES ASSUME DpInit PROVE IInv
    OBVIOUS
<1>1. pc \in [Threads -> ProbePCs] BY DEF DpInit, ProbePCs
<1>2. calls \in [Threads -> 0 .. MaxBreaks] BY DebugProbeAssumption DEF DpInit
<1>3. \A t \in Threads : pc[t] = "idle" BY DEF DpInit
<1>4. QED BY <1>1, <1>2, <1>3 DEF DpInit, IInv, DpTypeOK

(***************************************************************************)
(* Every step of the only caller t0, and every debugger attach or detach,  *)
(* keeps IInv.  The caller reaches "raise" only through Install (the -1    *)
(* branch), since present is never 1; its own Raise leaves "raise".        *)
(***************************************************************************)
LEMMA NextIInv ==
    ASSUME NEW t0, Threads = {t0}
    PROVE  IInv /\ [DpNext]_dpVars => IInv'
<1> SUFFICES ASSUME IInv, [DpNext]_dpVars PROVE IInv'
    OBVIOUS
<1> USE DEF IInv, DpTypeOK, ProbePCs
<1>1. CASE Break(t0)
      BY <1>1, DebugProbeAssumption DEF Break
<1>2. CASE SetAbsent(t0) BY <1>2 DEF SetAbsent
<1>3. CASE Install(t0) BY <1>3 DEF Install
<1>4. CASE Raise(t0)
      <2>1. pc[t0] = "raise" /\ disp = "handler" BY <1>4 DEF Raise
      <2>2. CASE debugger = "nopass" BY <1>4, <2>1, <2>2 DEF Raise
      <2>3. CASE debugger # "nopass" BY <1>4, <2>1, <2>3 DEF Raise
      <2>4. QED BY <2>2, <2>3
<1>5. CASE \E d \in Debuggers : Debug(d) BY <1>5 DEF Debug
<1>6. CASE UNCHANGED dpVars BY <1>6 DEF dpVars
<1>7. QED BY <1>1, <1>2, <1>3, <1>4, <1>5, <1>6 DEF DpNext

(***************************************************************************)
(* With one caller of fr_debug_break: fr_debugger_present is never 1, the  *)
(* process is never killed, and a caller about to raise SIGTRAP has        *)
(* installed _sigtrap_handler.                                             *)
(***************************************************************************)
THEOREM IInvSafe ==
    ASSUME NEW t0, Threads = {t0}
    PROVE  DpSpec => []IInv
BY InitIInv, NextIInv, PTL DEF DpSpec

(***************************************************************************)
(* Spec section 8, for a process with one thread calling fr_debug_break,   *)
(* any number of calls, and a debugger attaching, detaching, passing or    *)
(* discarding the trap at any moment: the probe never raises a SIGTRAP     *)
(* that reaches the default action and kills the process.                  *)
(***************************************************************************)
THEOREM SingleCallerNoTrap ==
    ASSUME NEW t0, Threads = {t0}
    PROVE  DpSpec => []NoUncaughtTrap
<1>1. DpInit => IInv BY InitIInv
<1>2. IInv /\ [DpNext]_dpVars => IInv' BY NextIInv
<1>3. IInv => NoUncaughtTrap BY DEF IInv, NoUncaughtTrap
<1>4. QED BY <1>1, <1>2, <1>3, PTL DEF DpSpec

=============================================================================
