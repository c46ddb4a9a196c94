-------------------------- MODULE MemReportProofs ---------------------------
(***************************************************************************)
(* TLAPS proofs about the memory report of MemReport: the descriptor that  *)
(* fr_log_talloc_report dups is released on every path, whether the       *)
(* report is the application's or the SIGUSR2 handler's, and however the   *)
(* two interleave.                                                         *)
(***************************************************************************)
EXTENDS MemReport, TLAPS

\* Where the application thread can be, and where the handler can be.
AppPCs == {"idle", "malloc", "dup", "fdopen", "walk", "close"}
HandlerPCs == {"none", "dup", "fdopen", "report", "close"}

MrTypeOK ==
    /\ open \in Nat
    /\ heap \in {"none", "app", "handler"}
    /\ app \in [pc : AppPCs, ctx : Ctxs \cup {NULL},
                levels : Seq(Ctxs \cup {NULL}), arg : Ctxs \cup {NULL}]
    /\ hpc \in HandlerPCs

\* A report holds one descriptor from a successful dup until its fclose,
\* or until the close on fdopen's failure.
AppHolds == IF app.pc \in {"fdopen", "walk", "close"} THEN 1 ELSE 0
HandlerHolds == IF hpc \in {"fdopen", "report", "close"} THEN 1 ELSE 0

(***************************************************************************)
(* FdsReleased is not inductive: a state inside a report holding no        *)
(* descriptor, or holding two, satisfies it and reaches a violation.  The  *)
(* strengthening counts the open descriptors exactly.                      *)
(***************************************************************************)
IInv == MrTypeOK /\ open = AppHolds + HandlerHolds

LEMMA InitIInv == MrInit => IInv
PROOF BY MemReportAssumption
      DEF MrInit, IInv, MrTypeOK, Idle, AppPCs, HandlerPCs, AppHolds,
          HandlerHolds

(***************************************************************************)
(* The application's steps: each moves app.pc, and changes open by exactly *)
(* the descriptor the move takes or gives back.                            *)
(***************************************************************************)
LEMMA AppStepIInv ==
    ASSUME IInv,
           \/ AppMalloc \/ AppMallocDone \/ \E c \in Ctxs \cup {NULL} : ReportStart(c)
           \/ Dup \/ Fdopen \/ Fclose
    PROVE  IInv'
<1> USE DEF IInv, MrTypeOK, AppPCs, HandlerPCs, AppHolds, HandlerHolds
<1>1. CASE AppMalloc BY <1>1 DEF AppMalloc
<1>2. CASE AppMallocDone BY <1>2 DEF AppMallocDone
<1>3. CASE \E c \in Ctxs \cup {NULL} : ReportStart(c) BY <1>3 DEF ReportStart
<1>4. CASE Dup
      <2>1. CASE open' = open + 1 /\ app' = [app EXCEPT !.pc = "fdopen"]
            BY <1>4, <2>1 DEF Dup
      <2>2. CASE MayFail /\ app' = Idle /\ UNCHANGED open
            BY <1>4, <2>2 DEF Dup, Idle
      <2>3. QED BY <1>4, <2>1, <2>2 DEF Dup
<1>5. CASE Fdopen
      <2>1. CASE app' = [app EXCEPT !.pc = "walk"] /\ UNCHANGED open
            BY <1>5, <2>1 DEF Fdopen
      <2>2. CASE MayFail /\ open' = open - 1 /\ app' = Idle
            BY <1>5, <2>2 DEF Fdopen, Idle
      <2>3. QED BY <1>5, <2>1, <2>2 DEF Fdopen
<1>6. CASE Fclose BY <1>6 DEF Fclose, Idle
<1>7. QED BY <1>1, <1>2, <1>3, <1>4, <1>5, <1>6

(***************************************************************************)
(* One level of the walk: the record stays well typed (the next context is *)
(* a talloc_parent, so a context or NULL) and no descriptor moves.         *)
(***************************************************************************)
LEMMA WalkIInv == IInv /\ Walk => IInv'
<1> SUFFICES ASSUME IInv, Walk PROVE IInv'
    OBVIOUS
<1>1. app.pc = "walk" /\ app.ctx \in Ctxs \cup {NULL}
      BY DEF Walk, IInv, MrTypeOK
<1>2. app.ctx # NULL => Parent[app.ctx] \in Ctxs \cup {NULL}
      BY <1>1, MemReportAssumption
<1> DEFINE c == app.ctx
           done == c = NULL \/ Parent[c] \in {NULL, NullCtx}
<1>3. app' = [app EXCEPT !.levels = Append(app.levels, c),
                         !.ctx = IF done THEN NULL ELSE Parent[c],
                         !.pc = IF done THEN "close" ELSE "walk"]
      BY DEF Walk
<1>4. Append(app.levels, c) \in Seq(Ctxs \cup {NULL})
      BY <1>1 DEF IInv, MrTypeOK
<1>5. (IF done THEN NULL ELSE Parent[c]) \in Ctxs \cup {NULL}
      BY <1>2
<1>6. app' \in [pc : AppPCs, ctx : Ctxs \cup {NULL},
                levels : Seq(Ctxs \cup {NULL}), arg : Ctxs \cup {NULL}]
      BY <1>3, <1>4, <1>5 DEF IInv, MrTypeOK, AppPCs
<1>7. app'.pc \in {"walk", "close"}
      BY <1>1 DEF Walk, IInv, MrTypeOK
<1>8. QED BY <1>6, <1>7 DEF Walk, IInv, MrTypeOK, AppHolds, HandlerHolds, AppPCs

\* The handler's steps, and the delivery of SIGUSR2.
LEMMA HandlerIInv == IInv /\ (Sigusr2 \/ HandlerStep) => IInv'
<1> SUFFICES ASSUME IInv, Sigusr2 \/ HandlerStep PROVE IInv'
    OBVIOUS
<1> USE DEF IInv, MrTypeOK, AppPCs, HandlerPCs, AppHolds, HandlerHolds
<1>1. CASE Sigusr2 BY <1>1 DEF Sigusr2, AppRuns
<1>2. CASE HandlerDup BY <1>2 DEF HandlerDup
<1>3. CASE HandlerFdopen BY <1>3 DEF HandlerFdopen
<1>4. CASE HandlerReport BY <1>4 DEF HandlerReport
<1>5. CASE HandlerFclose BY <1>5 DEF HandlerFclose
<1>6. QED BY <1>1, <1>2, <1>3, <1>4, <1>5 DEF HandlerStep

LEMMA NextIInv == IInv /\ [MrNext]_mrVars => IInv'
<1> SUFFICES ASSUME IInv, [MrNext]_mrVars PROVE IInv'
    OBVIOUS
<1>1. CASE Walk BY <1>1, WalkIInv
<1>2. CASE Sigusr2 \/ HandlerStep BY <1>2, HandlerIInv
<1>3. CASE UNCHANGED mrVars
      BY <1>3 DEF mrVars, IInv, MrTypeOK, AppHolds, HandlerHolds
<1>4. QED BY <1>1, <1>2, <1>3, AppStepIInv DEF MrNext

(***************************************************************************)
(* The descriptor count the memory report keeps: in every reachable state  *)
(* the number of open dup'ed descriptors is the number of reports, the     *)
(* application's and the SIGUSR2 handler's, between a successful dup and   *)
(* its close.                                                              *)
(***************************************************************************)
THEOREM IInvSafe == MrSpec => []IInv
BY InitIInv, NextIInv, PTL DEF MrSpec

(***************************************************************************)
(* Spec 4.5, for every talloc tree and whichever dup or fdopen fails: when *)
(* neither the application nor the SIGUSR2 handler is inside a report, no  *)
(* duplicated descriptor is left open.                                     *)
(***************************************************************************)
THEOREM FdsReleasedSafe == MrSpec => []FdsReleased
<1>1. MrInit => IInv BY InitIInv
<1>2. IInv /\ [MrNext]_mrVars => IInv' BY NextIInv
<1>3. IInv => FdsReleased
      BY DEF IInv, MrTypeOK, AppHolds, HandlerHolds, FdsReleased
<1>4. QED BY <1>1, <1>2, <1>3, PTL DEF MrSpec

=============================================================================
