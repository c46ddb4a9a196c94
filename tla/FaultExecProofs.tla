-------------------------- MODULE FaultExecProofs --------------------------
(***************************************************************************)
(* Proofs about what fr_fault() hands to system(): a panic action that     *)
(* passed the permission check, expanded in full, for every size of the    *)
(* buffers, every set of templates and every nesting of handlers.          *)
(***************************************************************************)
EXTENDS FaultProofs

\* Where a frame has passed the check, and where it holds the command.
Vetted == {"cb", "expand", "elevate", "system", "restore"}
Expanded == {"elevate", "system", "restore"}

\* Frame f is consistent with the panic action pa it runs against.
VetOKFor(pa, f) ==
    /\ f.pc \in Vetted => PermOk(pa)
    /\ f.pc \in Expanded => f.cmd = FaultCmd(pa) /\ Len(f.cmd) < CmdCap

VetIn(pa, F) == \A i \in 1 .. Len(F) : VetOKFor(pa, F[i])

(***************************************************************************)
(* ExecVetted is an action property and speaks only of the running        *)
(* handler.  The invariant behind it speaks of every frame on the stack:  *)
(* a handler interrupted between its check and its system() call resumes  *)
(* after the nested one returns, so the nested one must not have changed   *)
(* what it checked.  It holds because fr_fault_setup() writes             *)
(* panic_action only from application code, with no frame on the stack.  *)
(***************************************************************************)
VetInv == VetIn(panic_action, frames)

-----------------------------------------------------------------------------
(* Lemmas on the stack: replacing, pushing and popping the running frame.  *)

LEMMA SetTopVet ==
    ASSUME frames \in Seq(Frame), frames # << >>, NEW pa,
           VetIn(pa, frames), NEW f, VetOKFor(pa, f)
    PROVE  VetIn(pa, SetTop(f))
<1>1. Len(frames) \in Nat \ {0} BY LenProperties, EmptySeq
<1>2. Len(SetTop(f)) = Len(frames) /\ SetTop(f)[Len(frames)] = f
      /\ \A i \in 1 .. Len(frames) - 1 : SetTop(f)[i] = frames[i]
      BY <1>1 DEF SetTop
<1>3. QED BY <1>1, <1>2 DEF VetIn

LEMMA PushVet ==
    ASSUME frames \in Seq(Frame), NEW pa, VetIn(pa, frames),
           NEW f \in Frame, f.pc = "check"
    PROVE  VetIn(pa, Append(frames, f))
<1>1. VetOKFor(pa, f) BY DEF VetOKFor, Vetted, Expanded
<1>2. QED BY <1>1, PushType DEF VetIn

LEMMA PopVet ==
    ASSUME frames \in Seq(Frame), frames # << >>, NEW pa, VetIn(pa, frames)
    PROVE  VetIn(pa, Pop)
BY PopType DEF VetIn

\* The command field survives a change of pc or of disable.
LEMMA KeepCmd ==
    ASSUME NEW g \in Frame, NEW pc, NEW d
    PROVE  /\ [g EXCEPT !.pc = pc].cmd = g.cmd
           /\ [g EXCEPT !.pc = pc, !.disable = d].cmd = g.cmd
           /\ [g EXCEPT !.pc = pc, !.cmd = d].cmd = d
BY DEF Frame

-----------------------------------------------------------------------------
(* The step proof: one case per action.                                    *)

LEMMA InitVetInv == Init => VetInv
BY DEF Init, VetInv, VetIn

\* A step of the running handler that moves its pc to q and keeps its
\* command: past the check only if it passed, past %p only if expanded.
LEMMA GotoVet ==
    ASSUME TypeOK, VetInv, frames # << >>, NEW q \in PCs,
           Top.pc \in Expanded \/ q \notin Expanded,
           Top.pc \in Vetted \/ q \notin Vetted \/ PermOk(panic_action)
    PROVE  /\ VetIn(panic_action, SetTop([Top EXCEPT !.pc = q]))
           /\ VetIn(panic_action, SetTop([Top EXCEPT !.pc = q, !.disable = TRUE]))
<1>1. Top \in Frame /\ VetOKFor(panic_action, Top)
      BY TopFrame DEF TypeOK, VetInv, VetIn, Top
<1> DEFINE g1 == [Top EXCEPT !.pc = q]
           g2 == [Top EXCEPT !.pc = q, !.disable = TRUE]
<1>2. g1.pc = q /\ g2.pc = q /\ g1.cmd = Top.cmd /\ g2.cmd = Top.cmd
      BY <1>1, SetPc, SetPcDisable, KeepCmd
<1>3. VetOKFor(panic_action, g1) /\ VetOKFor(panic_action, g2)
      BY <1>1, <1>2 DEF VetOKFor, Vetted, Expanded
<1>4. QED BY <1>3, SetTopVet DEF TypeOK, VetInv

LEMMA NextVetInv == TypeOK /\ VetInv /\ [Next]_vars => VetInv'
<1> SUFFICES ASSUME TypeOK, VetInv, [Next]_vars PROVE VetInv'
    OBVIOUS
<1>0. frames # << >> => Top \in Frame /\ VetOKFor(panic_action, Top)
      BY TopFrame DEF TypeOK, VetInv, VetIn, Top
<1>1. ASSUME NEW t \in Templates, NEW prog \in Programs, FaultSetup(t, prog)
      PROVE  VetInv'
      BY <1>1 DEF FaultSetup, Running, VetInv, VetIn
<1>2. ASSUME NEW cb \in {"none", "ok", "fail"}, FaultSetCb(cb)
      PROVE  VetInv'
      BY <1>2 DEF FaultSetCb, VetInv
<1>3. ASSUME NEW sig \in Sigs, Signal(sig)
      PROVE  VetInv'
  <2> DEFINE f == [sig |-> sig, pc |-> "check", cmd |-> << >>, disable |-> FALSE]
  <2>1. f \in Frame /\ f.pc = "check" BY DEF Frame, PCs
  <2>2. VetIn(panic_action, Append(frames, f)) BY <2>1, PushVet DEF TypeOK, VetInv
  <2>3. QED BY <1>3, <2>2 DEF Signal, VetInv
<1>4. CASE FaultCheck
  <2>1. frames # << >> /\ Top.pc = "check" /\ UNCHANGED panic_action
        BY <1>4 DEF FaultCheck, HandlerStep, Goto
  <2>2. CASE PermOk(panic_action)
    <3>1. VetIn(panic_action, SetTop([Top EXCEPT !.pc = "cb"]))
      <4>1. "cb" \in PCs /\ "cb" \notin Expanded BY DEF PCs, Expanded
      <4>2. QED BY <2>1, <2>2, <4>1, GotoVet
    <3>2. QED BY <1>4, <2>1, <2>2, <3>1 DEF FaultCheck, Goto, VetInv
  <2>3. CASE ~PermOk(panic_action)
    <3>1. VetIn(panic_action, SetTop([Top EXCEPT !.pc = "finish"]))
      <4>1. "finish" \in PCs /\ "finish" \notin Expanded /\ "finish" \notin Vetted
            BY DEF PCs, Expanded, Vetted
      <4>2. QED BY <2>1, <4>1, GotoVet
    <3>2. QED BY <1>4, <2>1, <2>3, <3>1 DEF FaultCheck, Goto, VetInv
  <2>4. QED BY <2>2, <2>3
<1>5. CASE FaultCb
  <2>1. frames # << >> /\ Top.pc = "cb" /\ UNCHANGED panic_action
        BY <1>5 DEF FaultCb, HandlerStep, Goto
  <2>2. /\ VetIn(panic_action, SetTop([Top EXCEPT !.pc = "expand"]))
        /\ VetIn(panic_action, SetTop([Top EXCEPT !.pc = "finish"]))
    <3>1. "expand" \in PCs /\ "expand" \notin Expanded /\ Top.pc \in Vetted
          BY <2>1 DEF PCs, Expanded, Vetted
    <3>2. "finish" \in PCs /\ "finish" \notin Expanded /\ "finish" \notin Vetted
          BY DEF PCs, Expanded, Vetted
    <3>3. QED BY <2>1, <3>1, <3>2, GotoVet
  <2>3. QED BY <1>5, <2>1, <2>2 DEF FaultCb, Goto, VetInv
<1>6. CASE FaultExpand
  <2>1. frames # << >> /\ Top.pc = "expand" BY <1>6 DEF FaultExpand, HandlerStep
  <2>2. CASE FaultFits(panic_action)
    <3> DEFINE g == [Top EXCEPT !.pc = "elevate", !.cmd = FaultCmd(panic_action)]
    <3>1. Top \in Frame /\ PermOk(panic_action) BY <1>0, <2>1 DEF VetOKFor, Vetted
    <3>2. g.pc = "elevate" /\ g.cmd = FaultCmd(panic_action) BY <3>1, SetPcCmd, KeepCmd
    <3>3. Len(FaultCmd(panic_action)) < CmdCap BY <2>2 DEF FaultFits, ExpandFits, FaultCmd
    <3>4. VetOKFor(panic_action, g) BY <3>1, <3>2, <3>3 DEF VetOKFor
    <3>5. VetIn(panic_action, SetTop(g)) BY <2>1, <3>4, SetTopVet DEF TypeOK, VetInv
    <3>6. QED BY <1>6, <2>2, <3>5 DEF FaultExpand, VetInv
  <2>3. CASE ~FaultFits(panic_action)
        BY <1>6, <2>3 DEF FaultExpand, Die, VetInv
  <2>4. QED BY <2>2, <2>3
<1>7. CASE FaultElevate
  <2>1. frames # << >> /\ Top.pc = "elevate" BY <1>7 DEF FaultElevate, HandlerStep
  <2>2. \/ frames' = SetTop([Top EXCEPT !.pc = "system"])
        \/ frames' = SetTop([Top EXCEPT !.pc = "system", !.disable = TRUE])
        BY <1>7 DEF FaultElevate
  <2>3. /\ VetIn(panic_action, SetTop([Top EXCEPT !.pc = "system"]))
        /\ VetIn(panic_action, SetTop([Top EXCEPT !.pc = "system", !.disable = TRUE]))
    <3>1. "system" \in PCs /\ Top.pc \in Expanded BY <2>1 DEF PCs, Expanded
    <3>2. Top.pc \in Vetted BY <2>1 DEF Vetted
    <3>3. QED BY <2>1, <3>1, <3>2, GotoVet
  <2>4. QED BY <1>7, <2>2, <2>3 DEF FaultElevate, VetInv
<1>8. CASE FaultSystem
  <2>1. frames # << >> /\ Top.pc = "system" BY <1>8 DEF FaultSystem, HandlerStep
  <2>2. frames' = SetTop([Top EXCEPT !.pc = "restore"]) /\ UNCHANGED panic_action
        BY <1>8 DEF FaultSystem, Goto
  <2>3. VetIn(panic_action, SetTop([Top EXCEPT !.pc = "restore"]))
    <3>1. "restore" \in PCs /\ Top.pc \in Expanded BY <2>1 DEF PCs, Expanded
    <3>2. Top.pc \in Vetted BY <2>1 DEF Vetted
    <3>3. QED BY <2>1, <3>1, <3>2, GotoVet
  <2>4. QED BY <2>2, <2>3 DEF VetInv
<1>9. CASE FaultRestore
  <2>1. frames # << >> BY <1>9 DEF FaultRestore, HandlerStep
  <2>2. CASE Die BY <2>2 DEF Die, VetInv
  <2>3. CASE frames' = SetTop([Top EXCEPT !.pc = "finish"]) /\ UNCHANGED panic_action
    <3>1. VetIn(panic_action, SetTop([Top EXCEPT !.pc = "finish"]))
          BY <2>1, GotoVet DEF PCs, Expanded, Vetted
    <3>2. QED BY <2>3, <3>1 DEF VetInv
  <2>4. QED BY <1>9, <2>2, <2>3 DEF FaultRestore, Goto
<1>10. CASE FaultFinish
  <2>1. frames # << >> BY <1>10 DEF FaultFinish, HandlerStep
  <2>2. VetIn(panic_action, Pop) BY <2>1, PopVet DEF TypeOK, VetInv
  <2>3. QED BY <1>10, <2>2 DEF FaultFinish, Die, VetInv
<1>11. CASE UNCHANGED vars BY <1>11 DEF vars, VetInv
<1>12. QED BY <1>1, <1>2, <1>3, <1>4, <1>5, <1>6, <1>7, <1>8, <1>9, <1>10, <1>11
       DEF Next

(***************************************************************************)
(* Every frame on the stack of fr_fault() invocations that has passed the  *)
(* permission check ran it on the current panic_action, and every frame    *)
(* past the %p substitution holds the complete expansion of it, shorter    *)
(* than cmd[], however handlers nest and whatever fr_fault_setup() wrote.  *)
(***************************************************************************)
THEOREM VetInvSafe == Spec => []VetInv
<1>1. Init => TypeOK /\ VetInv BY InitTypeOK, InitVetInv
<1>2. TypeOK /\ VetInv /\ [Next]_vars => TypeOK' /\ VetInv'
      BY NextTypeOK, NextVetInv
<1>3. QED BY <1>1, <1>2, PTL DEF Spec

(***************************************************************************)
(* Spec 4.1 and 7: system() in fr_fault() runs only a command whose        *)
(* panic_action passed fr_fault_check_permissions(), and that command is   *)
(* the complete %p expansion of it, never a truncated one, for every size  *)
(* of the buffers, every set of templates and every nesting of handlers.   *)
(***************************************************************************)
THEOREM ExecVettedSafe == Spec => ExecVetted
<1>1. TypeOK /\ VetInv => [FaultSystem => /\ PermOk(panic_action)
                                          /\ Top.cmd = FaultCmd(panic_action)
                                          /\ Len(Top.cmd) < CmdCap]_vars
  <2> SUFFICES ASSUME TypeOK, VetInv, FaultSystem
               PROVE  /\ PermOk(panic_action)
                      /\ Top.cmd = FaultCmd(panic_action)
                      /\ Len(Top.cmd) < CmdCap
      OBVIOUS
  <2>1. frames # << >> /\ Top.pc = "system" BY DEF FaultSystem, HandlerStep
  <2>2. VetOKFor(panic_action, Top)
        BY <2>1, TopFrame DEF TypeOK, VetInv, VetIn, Top
  <2>3. QED BY <2>1, <2>2 DEF VetOKFor, Vetted, Expanded
<1>2. QED BY <1>1, VetInvSafe, TypeCorrect, PTL DEF ExecVetted

====
