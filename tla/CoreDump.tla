------------------------------ MODULE CoreDump ------------------------------
(***************************************************************************)
(* The core-dump policy calls of src/lib/debug.c: fr_set_dumpable_init     *)
(* captures RLIMIT_CORE into the static core_limits (lines 323-332), and   *)
(* fr_set_dumpable turns core dumps off by setting both limits to 0, or    *)
(* on by raising PR_DUMPABLE and restoring core_limits (lines 338-372).    *)
(*                                                                         *)
(* The kernel side is setrlimit's rule: lowering a limit is always         *)
(* allowed, raising the hard limit needs CAP_SYS_RESOURCE.                 *)
(***************************************************************************)
EXTENDS Naturals

CONSTANTS
    Limits,         \* values a core-size limit can take (RLIM_INFINITY the largest)
    GetMayFail,     \* getrlimit may fail
    PrctlMayFail    \* prctl(PR_SET_DUMPABLE) may fail

ASSUME CoreDumpAssumption ==
    /\ Limits \subseteq Nat /\ 0 \in Limits
    /\ GetMayFail \in BOOLEAN /\ PrctlMayFail \in BOOLEAN

\* An rlimit pair the kernel accepts: soft at most hard.
Rlimits == {r \in [cur : Limits, max : Limits] : r.cur <= r.max}

NoCore == [cur |-> 0, max |-> 0]

VARIABLES
    rlim,           \* the process's RLIMIT_CORE
    core_limits,    \* static struct rlimit core_limits
    dumpable,       \* the raw PR_DUMPABLE flag
    privileged,     \* the process holds CAP_SYS_RESOURCE
    pc,             \* where the caller is: "app", or inside fr_set_dumpable(true)
    baseline,       \* ghost: RLIMIT_CORE when the process started
    mode            \* ghost: the argument of the last fr_set_dumpable that returned 0

cdVars == <<rlim, core_limits, dumpable, privileged, pc, baseline, mode>>

\* setrlimit(RLIMIT_CORE, &r) succeeds when it raises no hard limit, or
\* when the process is privileged.
SetrlimitOk(r) == r.max <= rlim.max \/ privileged

CdInit ==
    /\ rlim \in Rlimits
    /\ core_limits = NoCore
    /\ dumpable \in {0, 1, 2}
    /\ privileged \in BOOLEAN
    /\ pc = "app"
    /\ baseline = rlim
    /\ mode = "none"

\* fr_set_dumpable_init: getrlimit into core_limits, or -1.
SetDumpableInit ==
    /\ pc = "app"
    /\ \/ core_limits' = rlim
       \/ GetMayFail /\ UNCHANGED core_limits
    /\ UNCHANGED <<rlim, dumpable, privileged, pc, baseline, mode>>

\* fr_set_dumpable(false): setrlimit to 0/0, which only lowers.
SetDumpableOff ==
    /\ pc = "app"
    /\ rlim' = NoCore
    /\ mode' = "off"
    /\ UNCHANGED <<core_limits, dumpable, privileged, pc, baseline>>

\* Mutant: the limits are restored before the flag is raised, and a
\* failing prctl returns -1 with core dumps already back on.
SetDumpableOnLimitsFirst ==
    /\ pc = "app"
    /\ rlim' = IF SetrlimitOk(core_limits) THEN core_limits ELSE rlim
    /\ \/ /\ dumpable' = 1
          /\ mode' = IF SetrlimitOk(core_limits) THEN "on" ELSE mode
       \/ PrctlMayFail /\ UNCHANGED <<dumpable, mode>>
    /\ UNCHANGED <<core_limits, privileged, pc, baseline>>

\* fr_set_dumpable(true), first step: fr_set_dumpable_flag(true); on
\* failure -1 is returned.
SetDumpableOn ==
    /\ pc = "app"
    /\ \/ dumpable' = 1 /\ pc' = "rlimit"
       \/ PrctlMayFail /\ UNCHANGED <<dumpable, pc>>
    /\ UNCHANGED <<rlim, core_limits, privileged, baseline, mode>>

\* fr_set_dumpable(true), second step: setrlimit(RLIMIT_CORE, &core_limits);
\* EPERM returns -1 with PR_DUMPABLE already raised.
RestoreLimits ==
    /\ pc = "rlimit"
    /\ pc' = "app"
    /\ IF SetrlimitOk(core_limits)
          THEN rlim' = core_limits /\ mode' = "on"
          ELSE UNCHANGED <<rlim, mode>>
    /\ UNCHANGED <<core_limits, dumpable, privileged, baseline>>

CdNext == SetDumpableInit \/ SetDumpableOff \/ SetDumpableOn \/ RestoreLimits

CdSpec == CdInit /\ [][CdNext]_cdVars

-----------------------------------------------------------------------------
(* Properties.                                                             *)

CdTypeOK ==
    /\ rlim \in Rlimits /\ core_limits \in Rlimits
    /\ dumpable \in {0, 1, 2} /\ privileged \in BOOLEAN
    /\ pc \in {"app", "rlimit"} /\ mode \in {"none", "off", "on"}

(***************************************************************************)
(* Once fr_set_dumpable(false) has succeeded, no core can be written until *)
(* a fr_set_dumpable(true) succeeds: every failure of a later enable, at   *)
(* the prctl or at the setrlimit, leaves both limits at 0.                 *)
(***************************************************************************)
CoreOffUntilEnabled == mode = "off" => rlim = NoCore

(***************************************************************************)
(* Spec section 8: fr_set_dumpable(false) followed by fr_set_dumpable(true) *)
(* restores the limits captured at start-up.  Stated for a process that    *)
(* captured them with fr_set_dumpable_init before changing them: after     *)
(* the enable, RLIMIT_CORE is the baseline again.                          *)
(***************************************************************************)
BaselineRestored ==
    [][pc = "rlimit" /\ core_limits = baseline => rlim' = baseline]_cdVars
=============================================================================
