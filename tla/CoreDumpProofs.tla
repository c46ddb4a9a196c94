--------------------------- MODULE CoreDumpProofs ---------------------------
(***************************************************************************)
(* TLAPS proofs about the core-dump policy of CoreDump.                    *)
(***************************************************************************)
EXTENDS CoreDump, TLAPS

(***************************************************************************)
(* The type invariant together with CoreOffUntilEnabled.  The policy      *)
(* invariant is inductive on its own; the two are proved together so that *)
(* the type of every variable is established for all constants as well.   *)
(***************************************************************************)
IInv == CdTypeOK /\ CoreOffUntilEnabled

LEMMA InitIInv == CdInit => IInv
PROOF BY CoreDumpAssumption DEF CdInit, IInv, CdTypeOK, CoreOffUntilEnabled,
                                Rlimits, NoCore

(***************************************************************************)
(* Every step keeps IInv: a disable sets both limits to 0 and the mode to  *)
(* "off"; an enable changes the limits only in the step that also records  *)
(* mode "on"; a failed prctl or setrlimit changes neither.                 *)
(***************************************************************************)
LEMMA NextIInv == IInv /\ [CdNext]_cdVars => IInv'
<1> SUFFICES ASSUME IInv, [CdNext]_cdVars PROVE IInv'
    OBVIOUS
<1>1. CASE SetDumpableInit
      BY <1>1, CoreDumpAssumption DEF SetDumpableInit, IInv, CdTypeOK,
                                     CoreOffUntilEnabled
<1>2. CASE SetDumpableOff
      BY <1>2, CoreDumpAssumption DEF SetDumpableOff, IInv, CdTypeOK,
                                     CoreOffUntilEnabled, Rlimits, NoCore
<1>3. CASE SetDumpableOn
      BY <1>3 DEF SetDumpableOn, IInv, CdTypeOK, CoreOffUntilEnabled
<1>4. CASE RestoreLimits
      <2>1. CASE SetrlimitOk(core_limits)
            BY <1>4, <2>1 DEF RestoreLimits, IInv, CdTypeOK, CoreOffUntilEnabled
      <2>2. CASE ~SetrlimitOk(core_limits)
            BY <1>4, <2>2 DEF RestoreLimits, IInv, CdTypeOK, CoreOffUntilEnabled
      <2>3. QED BY <2>1, <2>2
<1>5. CASE UNCHANGED cdVars
      BY <1>5 DEF cdVars, IInv, CdTypeOK, CoreOffUntilEnabled
<1>6. QED BY <1>1, <1>2, <1>3, <1>4, <1>5 DEF CdNext

(***************************************************************************)
(* Once fr_set_dumpable(false) has succeeded, RLIMIT_CORE stays 0/0 until   *)
(* a fr_set_dumpable(true) succeeds, for every set of limit values and     *)
(* whichever of getrlimit, prctl and setrlimit fail.                       *)
(***************************************************************************)
THEOREM CoreOffSafe == CdSpec => []CoreOffUntilEnabled
<1>1. CdInit => IInv BY InitIInv
<1>2. IInv /\ [CdNext]_cdVars => IInv' BY NextIInv
<1>3. IInv => CoreOffUntilEnabled BY DEF IInv
<1>4. QED BY <1>1, <1>2, <1>3, PTL DEF CdSpec
=============================================================================
