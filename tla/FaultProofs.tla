---------------------------- MODULE FaultProofs ----------------------------
(***************************************************************************)
(* Proofs about the fault controller: type correctness, and that fr_fault()*)
(* hands control back to the interrupted code with the dumpable flag it    *)
(* found, for every size of the buffers, every set of templates and every  *)
(* nesting of handlers.                                                    *)
(***************************************************************************)
EXTENDS Fault, SequenceTheorems, TLAPS

\* The normalised flag the interrupted code established.
PolicyFlag == IF dumpPolicy = 1 THEN 1 ELSE 0

\* Frame f has raised the flag and not yet put it back.
ElevatedOf(f) == f.disable /\ f.pc \in {"system", "restore"}

\* Frame f has not reached the step that raises the flag.
EarlyOK(f) == f.pc \in {"check", "cb", "expand", "elevate"} => ~f.disable

SomeElevatedIn(F) == \E i \in 1 .. Len(F) : ElevatedOf(F[i])

OneElevatedIn(F) ==
    \A i, j \in 1 .. Len(F) : ElevatedOf(F[i]) /\ ElevatedOf(F[j]) => i = j

NotYetRaisedIn(F) == \A i \in 1 .. Len(F) : EarlyOK(F[i])

(***************************************************************************)
(* The inductive invariant behind DumpableRestored.  At most one frame has *)
(* the flag raised, because a frame raises it only when it reads 0 and the *)
(* raised flag reads 1; a frame has disable set only from the elevate step *)
(* on; the frame that raised it saw the interrupted code's value 0; while  *)
(* a frame has it raised the flag reads 1, and otherwise it reads what the *)
(* interrupted code left.                                                  *)
(***************************************************************************)
DumpInv ==
    /\ OneElevatedIn(frames)
    /\ NotYetRaisedIn(frames)
    /\ SomeElevatedIn(frames) => PolicyFlag = 0
    /\ ~exited => GetDumpable = IF SomeElevatedIn(frames) THEN 1 ELSE PolicyFlag

IInv == TypeOK /\ DumpInv

-----------------------------------------------------------------------------
(***************************************************************************)
(* Lemmas on the string operators.                                         *)
(***************************************************************************)

\* A string shorter than the buffer fits it.
LEMMA FitsBuffer ==
    ASSUME NEW s \in Seq(Chars), NEW n \in Nat, Len(s) < n
    PROVE  s \in StrFit(n)
BY LenProperties DEF StrFit

\* What fr_fault_setup() leaves in panic_action[] fits panic_action[].
LEMMA SetupWriteFits ==
    ASSUME NEW old \in StrFit(PACap), NEW t \in Templates,
           NEW prog \in Programs
    PROVE  SetupWrite(old, t, prog) \in StrFit(PACap)
<1> DEFINE full == Expand(t, "e", prog)
           written == Len(full) - TailLen(t, "e")
           k == LesserOf(PACap - 1, written)
<1>1. full \in Seq(Chars) /\ written \in 0 .. Len(full)
  BY ExpandAssumption
<1>2. CASE ExpandFits(t, "e", prog, PACap)
  BY <1>1, <1>2, FitsBuffer, PanicActionAssumption DEF SetupWrite, ExpandFits
<1>3. CASE ~ExpandFits(t, "e", prog, PACap) /\ Occ(t, "e") = {}
  BY <1>3 DEF SetupWrite
<1>4. CASE ~ExpandFits(t, "e", prog, PACap) /\ Occ(t, "e") # {}
  <2>1. k \in 0 .. Len(full) /\ k < PACap
    BY <1>1, LenProperties, PanicActionAssumption DEF LesserOf, k
  <2>2. SubSeq(full, 1, k) \in Seq(Chars) /\ Len(SubSeq(full, 1, k)) = k
    <3>1. \A i \in 1 .. k : full[i] \in Chars
      BY <1>1, <2>1, LenProperties
    <3>2. QED
      BY <3>1, <2>1, SubSeqProperties
  <2>3. SubSeq(full, 1, k) \in StrFit(PACap)
    BY <2>1, <2>2, FitsBuffer, PanicActionAssumption
  <2>4. QED
    BY <1>4, <2>3 DEF SetupWrite
<1>5. QED
  BY <1>2, <1>3, <1>4

\* A string that fits panic_action[] is a sequence of characters.
LEMMA FitIsSeq ==
    ASSUME NEW n \in Nat, NEW s \in StrFit(n)
    PROVE  s \in Seq(Chars)
BY DEF StrFit

-----------------------------------------------------------------------------
(***************************************************************************)
(* Type correctness.                                                       *)
(***************************************************************************)

LEMMA InitTypeOK == Init => TypeOK
<1> SUFFICES ASSUME Init PROVE TypeOK
  OBVIOUS
<1>1. << >> \in Seq(Chars) /\ Len(<< >>) = 0
  OBVIOUS
<1>2. << >> \in StrFit(PACap)
  <2>1. PACap \in Nat /\ 0 < PACap
    BY PanicActionAssumption
  <2>2. QED
    BY <1>1, <2>1, FitsBuffer
<1>3. dumpable \in 0 .. 2 /\ dumpPolicy \in 0 .. 2
  BY FaultAssumption DEF Init
<1>4. frames \in Seq(Frame)
  BY DEF Init
<1>5. QED
  BY <1>2, <1>3, <1>4 DEF Init, TypeOK

-----------------------------------------------------------------------------
(***************************************************************************)
(* Lemmas on the stack of handler frames.                                  *)
(***************************************************************************)

\* The running handler is a frame, and so is its next state.
LEMMA TopFrame ==
    ASSUME frames \in Seq(Frame), frames # << >>
    PROVE  /\ Len(frames) \in 1 .. Len(frames)
           /\ Top \in Frame
BY LenProperties, EmptySeq DEF Top

LEMMA SetTopType ==
    ASSUME frames \in Seq(Frame), frames # << >>, NEW f \in Frame
    PROVE  /\ SetTop(f) \in Seq(Frame)
           /\ Len(SetTop(f)) = Len(frames)
           /\ SetTop(f)[Len(frames)] = f
           /\ \A i \in 1 .. Len(frames) - 1 : SetTop(f)[i] = frames[i]
<1>1. Len(frames) \in 1 .. Len(frames)
  BY TopFrame
<1>2. QED
  BY <1>1, ExceptSeq, LenProperties DEF SetTop

\* The length SubSeq(s, 1, k - 1) has, for a nonempty s of length k.
LEMMA PredLen ==
    ASSUME NEW k \in Nat \ {0}, NEW x, x = IF 1 <= k - 1 THEN k - 1 ELSE 0
    PROVE  x = k - 1
OBVIOUS

LEMMA PopType ==
    ASSUME frames \in Seq(Frame), frames # << >>
    PROVE  /\ Pop \in Seq(Frame)
           /\ Len(Pop) = Len(frames) - 1
           /\ \A i \in 1 .. Len(frames) - 1 : Pop[i] = frames[i]
<1> DEFINE n == Len(frames)
<1>1. n \in Nat \ {0}
  BY LenProperties, EmptySeq DEF n
<1>2. \A i \in 1 .. n - 1 : frames[i] \in Frame
  BY <1>1, LenProperties DEF n
<1>3. /\ SubSeq(frames, 1, n - 1) \in Seq(Frame)
      /\ Len(SubSeq(frames, 1, n - 1)) = IF 1 <= n - 1 THEN n - 1 ELSE 0
      /\ \A i \in 1 .. n - 1 : SubSeq(frames, 1, n - 1)[i] = frames[i]
  BY <1>1, <1>2, SubSeqProperties
<1>4. Len(SubSeq(frames, 1, n - 1)) = n - 1
  BY <1>1, <1>3, PredLen
<1>5. QED
  BY <1>3, <1>4 DEF Pop, n

LEMMA PushType ==
    ASSUME frames \in Seq(Frame), NEW f \in Frame
    PROVE  /\ Append(frames, f) \in Seq(Frame)
           /\ Len(Append(frames, f)) = Len(frames) + 1
           /\ Append(frames, f)[Len(frames) + 1] = f
           /\ \A i \in 1 .. Len(frames) : Append(frames, f)[i] = frames[i]
BY AppendProperties

\* A frame with a new pc, command or disable flag is a frame.
LEMMA FramePc ==
    ASSUME NEW f \in Frame, NEW pc \in PCs
    PROVE  [f EXCEPT !.pc = pc] \in Frame
BY DEF Frame

LEMMA FrameCmd ==
    ASSUME NEW f \in Frame, NEW pc \in PCs, NEW c \in Seq(Chars)
    PROVE  [f EXCEPT !.pc = pc, !.cmd = c] \in Frame
BY DEF Frame

LEMMA FrameDisable ==
    ASSUME NEW f \in Frame, NEW pc \in PCs, NEW d \in BOOLEAN
    PROVE  [f EXCEPT !.pc = pc, !.disable = d] \in Frame
BY DEF Frame

\* The fields of a frame whose pc, command or disable flag is replaced.
LEMMA SetPc ==
    ASSUME NEW g \in Frame, NEW pc
    PROVE  /\ [g EXCEPT !.pc = pc].pc = pc
           /\ [g EXCEPT !.pc = pc].disable = g.disable
BY DEF Frame

LEMMA SetPcCmd ==
    ASSUME NEW g \in Frame, NEW pc, NEW c
    PROVE  /\ [g EXCEPT !.pc = pc, !.cmd = c].pc = pc
           /\ [g EXCEPT !.pc = pc, !.cmd = c].disable = g.disable
BY DEF Frame

LEMMA SetPcDisable ==
    ASSUME NEW g \in Frame, NEW pc, NEW d
    PROVE  /\ [g EXCEPT !.pc = pc, !.disable = d].pc = pc
           /\ [g EXCEPT !.pc = pc, !.disable = d].disable = d
BY DEF Frame

-----------------------------------------------------------------------------
\* Every step keeps the types.
LEMMA NextTypeOK == TypeOK /\ [Next]_vars => TypeOK'
<1> SUFFICES ASSUME TypeOK, [Next]_vars PROVE TypeOK'
  OBVIOUS
<1> USE DEF TypeOK
\* A step of the running handler that sets its pc.
<1>0. ASSUME frames # << >>, NEW pc \in PCs,
             frames' = SetTop([Top EXCEPT !.pc = pc])
      PROVE  frames' \in Seq(Frame)
  <2>1. [Top EXCEPT !.pc = pc] \in Frame
    BY <1>0, TopFrame, FramePc
  <2>2. QED
    BY <1>0, <2>1, SetTopType
<1>1. ASSUME NEW t \in Templates, NEW prog \in Programs, FaultSetup(t, prog)
      PROVE  TypeOK'
  BY <1>1, SetupWriteFits DEF FaultSetup
<1>2. ASSUME NEW cb \in {"none", "ok", "fail"}, FaultSetCb(cb)
      PROVE  TypeOK'
  BY <1>2 DEF FaultSetCb
<1>3. ASSUME NEW sig \in Sigs, Signal(sig)
      PROVE  TypeOK'
  <2>1. [sig |-> sig, pc |-> "check", cmd |-> << >>, disable |-> FALSE]
          \in Frame
    BY DEF Frame, PCs
  <2>2. QED
    BY <1>3, <2>1, PushType DEF Signal
<1>4. CASE FaultCheck
  BY <1>4, <1>0 DEF FaultCheck, Goto, HandlerStep, PCs
<1>5. CASE FaultCb
  BY <1>5, <1>0 DEF FaultCb, Goto, HandlerStep, PCs
<1>6. CASE FaultExpand
  <2>1. CASE FaultFits(panic_action)
    <3>1. FaultCmd(panic_action) \in Seq(Chars)
      BY ExpandAssumption
    <3>2. frames # << >>
      BY <1>6 DEF FaultExpand, HandlerStep
    <3>3. [Top EXCEPT !.pc = "elevate", !.cmd = FaultCmd(panic_action)]
            \in Frame
      BY <3>1, <3>2, TopFrame, FrameCmd DEF PCs
    <3>4. frames' \in Seq(Frame)
      BY <1>6, <2>1, <3>2, <3>3, SetTopType DEF FaultExpand
    <3>5. QED
      BY <1>6, <2>1, <3>4 DEF FaultExpand
  <2>2. CASE ~FaultFits(panic_action)
    BY <1>6, <2>2 DEF FaultExpand, Die
  <2>3. QED
    BY <2>1, <2>2
<1>7. CASE FaultElevate
  <2>1. frames # << >> /\ Top \in Frame
    BY <1>7, TopFrame DEF FaultElevate, HandlerStep
  <2>2. /\ [Top EXCEPT !.pc = "system", !.disable = TRUE] \in Frame
        /\ [Top EXCEPT !.pc = "system"] \in Frame
    BY <2>1, FrameDisable, FramePc DEF PCs
  <2>3. frames' \in Seq(Frame)
    BY <1>7, <2>1, <2>2, SetTopType DEF FaultElevate
  <2>4. dumpable' \in 0 .. 2
    BY <1>7 DEF FaultElevate
  <2>5. QED
    BY <1>7, <2>3, <2>4 DEF FaultElevate
<1>8. CASE FaultSystem
  BY <1>8, <1>0 DEF FaultSystem, Goto, HandlerStep, PCs
<1>9. CASE FaultRestore
  <2>1. frames # << >>
    BY <1>9 DEF FaultRestore, HandlerStep
  <2>2. CASE Goto("finish")
    BY <2>2, <2>1, <1>0 DEF Goto, PCs
  <2>3. CASE /\ dumpable' = 0
             /\ frames' = SetTop([Top EXCEPT !.pc = "finish"])
             /\ UNCHANGED <<panic_action, panic_cb, setup, installed, exited,
                            dumpPolicy, lastGood>>
    <3>1. frames' \in Seq(Frame)
      BY <2>3, <2>1, <1>0 DEF PCs
    <3>2. QED
      BY <2>3, <3>1
  <2>4. CASE Die
    BY <2>4 DEF Die
  <2>5. QED
    BY <1>9, <2>2, <2>3, <2>4 DEF FaultRestore
<1>10. CASE FaultFinish
  <2>1. frames # << >>
    BY <1>10 DEF FaultFinish, HandlerStep
  <2>2. QED
    BY <1>10, <2>1, PopType DEF FaultFinish, Die
<1>11. CASE UNCHANGED vars
  BY <1>11 DEF vars
<1>12. QED
  BY <1>1, <1>2, <1>3, <1>4, <1>5, <1>6, <1>7, <1>8, <1>9, <1>10, <1>11
     DEF Next

(***************************************************************************)
(* fr_fault_setup() never leaves more in panic_action[] than fits, and the *)
(* handler frames keep their shape, for every size of the buffers.         *)
(***************************************************************************)
THEOREM TypeCorrect == Spec => []TypeOK
BY InitTypeOK, NextTypeOK, PTL DEF Spec
-----------------------------------------------------------------------------
(***************************************************************************)
(* Lemmas on frame stacks.  G agrees with F on the frames 1 .. m (the ones *)
(* a step leaves below the running handler) and neither has a raised frame *)
(* above m.                                                                *)
(***************************************************************************)
LEMMA KeepSome ==
    ASSUME NEW F \in Seq(Frame), NEW G \in Seq(Frame), NEW m \in Nat,
           m <= Len(F), m <= Len(G),
           \A i \in 1 .. m : ElevatedOf(G[i]) <=> ElevatedOf(F[i]),
           \A i \in (m + 1) .. Len(F) : ~ElevatedOf(F[i]),
           \A i \in (m + 1) .. Len(G) : ~ElevatedOf(G[i])
    PROVE  SomeElevatedIn(G) <=> SomeElevatedIn(F)
<1>1. ASSUME NEW i \in 1 .. Len(G), ElevatedOf(G[i])
      PROVE  i \in 1 .. m /\ i \in 1 .. Len(F) /\ ElevatedOf(F[i])
  BY <1>1
<1>2. ASSUME NEW i \in 1 .. Len(F), ElevatedOf(F[i])
      PROVE  i \in 1 .. m /\ i \in 1 .. Len(G) /\ ElevatedOf(G[i])
  BY <1>2
<1>3. QED
  BY <1>1, <1>2 DEF SomeElevatedIn

LEMMA KeepOne ==
    ASSUME NEW F \in Seq(Frame), NEW G \in Seq(Frame), NEW m \in Nat,
           m <= Len(F), m <= Len(G),
           \A i \in 1 .. m : ElevatedOf(G[i]) <=> ElevatedOf(F[i]),
           \A i \in (m + 1) .. Len(F) : ~ElevatedOf(F[i]),
           \A i \in (m + 1) .. Len(G) : ~ElevatedOf(G[i])
    PROVE  OneElevatedIn(G) <=> OneElevatedIn(F)
<1>1. ASSUME NEW i \in 1 .. Len(G), ElevatedOf(G[i])
      PROVE  i \in 1 .. m /\ i \in 1 .. Len(F) /\ ElevatedOf(F[i])
  BY <1>1
<1>2. ASSUME NEW i \in 1 .. Len(F), ElevatedOf(F[i])
      PROVE  i \in 1 .. m /\ i \in 1 .. Len(G) /\ ElevatedOf(G[i])
  BY <1>2
<1>3. OneElevatedIn(F) => OneElevatedIn(G)
  BY <1>1, Zenon DEF OneElevatedIn
<1>4. OneElevatedIn(G) => OneElevatedIn(F)
  BY <1>2, Zenon DEF OneElevatedIn
<1>5. QED
  BY <1>3, <1>4

LEMMA KeepNotYet ==
    ASSUME NEW F \in Seq(Frame), NEW G \in Seq(Frame), NEW m \in Nat,
           m <= Len(F), m <= Len(G),
           \A i \in 1 .. m : G[i] = F[i],
           \A i \in (m + 1) .. Len(G) : EarlyOK(G[i]),
           NotYetRaisedIn(F)
    PROVE  NotYetRaisedIn(G)
BY DEF NotYetRaisedIn

\* Replacing the running frame by f, which is raised iff the old one was.
LEMMA SetTopKeeps ==
    ASSUME frames \in Seq(Frame), frames # << >>, NEW f \in Frame,
           ElevatedOf(f) <=> ElevatedOf(Top), EarlyOK(f),
           NotYetRaisedIn(frames)
    PROVE  /\ SomeElevatedIn(SetTop(f)) <=> SomeElevatedIn(frames)
           /\ OneElevatedIn(SetTop(f)) <=> OneElevatedIn(frames)
           /\ NotYetRaisedIn(SetTop(f))
<1> DEFINE n == Len(frames)
           G == SetTop(f)
<1>1. n \in Nat /\ 1 <= n
  BY TopFrame DEF n
<1>2. /\ G \in Seq(Frame) /\ Len(G) = n /\ G[n] = f
      /\ \A i \in 1 .. n - 1 : G[i] = frames[i]
  BY SetTopType DEF G, n
<1>3. \A i \in 1 .. n : ElevatedOf(G[i]) <=> ElevatedOf(frames[i])
  BY <1>1, <1>2 DEF Top, n
<1>4. \A i \in (n - 1 + 1) .. n : EarlyOK(G[i])
  BY <1>1, <1>2
<1>5. SomeElevatedIn(G) <=> SomeElevatedIn(frames)
  BY <1>1, <1>2, <1>3, KeepSome DEF n
<1>6. OneElevatedIn(G) <=> OneElevatedIn(frames)
  BY <1>1, <1>2, <1>3, KeepOne DEF n
<1>7. NotYetRaisedIn(G)
  <2>1. n - 1 \in Nat /\ n - 1 <= n
    BY <1>1
  <2>2. QED
    BY <1>2, <1>4, <2>1, KeepNotYet DEF n
<1>8. QED
  BY <1>5, <1>6, <1>7 DEF G
\* A step of a handler that has not raised the flag and does not raise it.
LEMMA EarlyStepKeeps ==
    ASSUME frames \in Seq(Frame), frames # << >>, NEW f \in Frame,
           f.disable = Top.disable,
           Top.pc \in {"check", "cb", "expand", "elevate"},
           f.pc \in {"check", "cb", "expand", "elevate", "finish"},
           NotYetRaisedIn(frames)
    PROVE  /\ SomeElevatedIn(SetTop(f)) <=> SomeElevatedIn(frames)
           /\ OneElevatedIn(SetTop(f)) <=> OneElevatedIn(frames)
           /\ NotYetRaisedIn(SetTop(f))
<1>1. EarlyOK(Top)
  BY TopFrame DEF NotYetRaisedIn, Top
<1>2. ~Top.disable
  BY <1>1 DEF EarlyOK
<1>3. ~ElevatedOf(f) /\ ~ElevatedOf(Top) /\ EarlyOK(f)
  BY <1>2 DEF ElevatedOf, EarlyOK
<1>4. QED
  BY <1>3, SetTopKeeps

\* fr_fault() being entered: the new frame has not raised the flag.
LEMMA PushKeeps ==
    ASSUME frames \in Seq(Frame), NEW f \in Frame, f.pc = "check",
           ~f.disable, NotYetRaisedIn(frames)
    PROVE  /\ SomeElevatedIn(Append(frames, f)) <=> SomeElevatedIn(frames)
           /\ OneElevatedIn(Append(frames, f)) <=> OneElevatedIn(frames)
           /\ NotYetRaisedIn(Append(frames, f))
<1> DEFINE n == Len(frames)
           G == Append(frames, f)
<1>1. n \in Nat
  BY LenProperties DEF n
<1>2. /\ G \in Seq(Frame) /\ Len(G) = n + 1 /\ G[n + 1] = f
      /\ \A i \in 1 .. n : G[i] = frames[i]
  BY PushType, AppendProperties DEF G, n
<1>3. /\ \A i \in (n + 1) .. Len(G) : ~ElevatedOf(G[i])
      /\ \A i \in (n + 1) .. Len(G) : EarlyOK(G[i])
  BY <1>1, <1>2 DEF ElevatedOf, EarlyOK
<1>4. \A i \in (n + 1) .. n : ~ElevatedOf(frames[i])
  BY <1>1
<1>5. \A i \in 1 .. n : ElevatedOf(G[i]) <=> ElevatedOf(frames[i])
  BY <1>2
<1>0. n <= Len(frames) /\ n <= Len(G) /\ frames \in Seq(Frame)
  BY <1>1, <1>2 DEF n
<1>6. SomeElevatedIn(G) <=> SomeElevatedIn(frames)
  BY <1>0, <1>1, <1>2, <1>3, <1>4, <1>5, KeepSome, Zenon
<1>7. OneElevatedIn(G) <=> OneElevatedIn(frames)
  BY <1>0, <1>1, <1>2, <1>3, <1>4, <1>5, KeepOne, Zenon
<1>8. NotYetRaisedIn(G)
  BY <1>0, <1>1, <1>2, <1>3, KeepNotYet, Zenon
<1>9. QED
  BY <1>6, <1>7, <1>8 DEF G

\* A SIGUSR1 handler returning from its finish step.
LEMMA PopKeeps ==
    ASSUME frames \in Seq(Frame), frames # << >>, Top.pc = "finish",
           NotYetRaisedIn(frames)
    PROVE  /\ SomeElevatedIn(Pop) <=> SomeElevatedIn(frames)
           /\ OneElevatedIn(Pop) <=> OneElevatedIn(frames)
           /\ NotYetRaisedIn(Pop)
<1> DEFINE n == Len(frames)
<1>1. n \in Nat /\ 1 <= n /\ n - 1 \in Nat
  BY TopFrame DEF n
<1>2. /\ Pop \in Seq(Frame) /\ Len(Pop) = n - 1
      /\ \A i \in 1 .. n - 1 : Pop[i] = frames[i]
  BY PopType DEF n
<1>3. \A i \in (n - 1 + 1) .. n : ~ElevatedOf(frames[i])
  BY <1>1 DEF ElevatedOf, Top, n
<1>4. \A i \in (n - 1 + 1) .. (n - 1) : ~ElevatedOf(Pop[i]) /\ EarlyOK(Pop[i])
  BY <1>1
<1>5. \A i \in 1 .. n - 1 : ElevatedOf(Pop[i]) <=> ElevatedOf(frames[i])
  BY <1>2
<1>6. n - 1 <= n
  BY <1>1
<1>7. QED
  BY <1>1, <1>2, <1>3, <1>4, <1>5, <1>6, KeepSome, KeepOne, KeepNotYet DEF n
\* The running handler raises the flag while no frame has it raised.
LEMMA RaiseKeeps ==
    ASSUME frames \in Seq(Frame), frames # << >>, NEW f \in Frame,
           ElevatedOf(f), EarlyOK(f),
           ~SomeElevatedIn(frames), NotYetRaisedIn(frames)
    PROVE  /\ SomeElevatedIn(SetTop(f))
           /\ OneElevatedIn(SetTop(f))
           /\ NotYetRaisedIn(SetTop(f))
<1> DEFINE n == Len(frames)
           G == SetTop(f)
<1>1. n \in Nat /\ 1 <= n /\ n - 1 \in Nat /\ n - 1 <= n
  BY TopFrame DEF n
<1>2. /\ G \in Seq(Frame) /\ Len(G) = n /\ G[n] = f
      /\ \A i \in 1 .. n - 1 : G[i] = frames[i]
  BY SetTopType DEF G, n
<1>3. \A i \in 1 .. n - 1 : ~ElevatedOf(G[i])
  BY <1>1, <1>2 DEF SomeElevatedIn, n
<1>4. SomeElevatedIn(G)
  BY <1>1, <1>2 DEF SomeElevatedIn
<1>5. OneElevatedIn(G)
  BY <1>1, <1>2, <1>3 DEF OneElevatedIn
<1>6. NotYetRaisedIn(G)
  <2>1. \A i \in (n - 1 + 1) .. Len(G) : EarlyOK(G[i])
    BY <1>1, <1>2
  <2>2. n - 1 <= Len(frames) /\ n - 1 <= Len(G) /\ frames \in Seq(Frame)
    BY <1>1, <1>2 DEF n
  <2>3. QED
    BY <1>1, <1>2, <2>1, <2>2, KeepNotYet, Zenon
<1>7. QED
  BY <1>4, <1>5, <1>6 DEF G

\* The raised running handler puts the flag back: no frame is left raised.
LEMMA LowerKeeps ==
    ASSUME frames \in Seq(Frame), frames # << >>, NEW f \in Frame,
           ~ElevatedOf(f), EarlyOK(f), ElevatedOf(Top),
           OneElevatedIn(frames), NotYetRaisedIn(frames)
    PROVE  /\ ~SomeElevatedIn(SetTop(f))
           /\ OneElevatedIn(SetTop(f))
           /\ NotYetRaisedIn(SetTop(f))
<1> DEFINE n == Len(frames)
           G == SetTop(f)
<1>1. n \in Nat /\ 1 <= n /\ n - 1 \in Nat /\ n - 1 <= n
  BY TopFrame DEF n
<1>2. /\ G \in Seq(Frame) /\ Len(G) = n /\ G[n] = f
      /\ \A i \in 1 .. n - 1 : G[i] = frames[i]
  BY SetTopType DEF G, n
<1>3. \A i \in 1 .. n - 1 : ~ElevatedOf(frames[i])
  BY <1>1 DEF OneElevatedIn, Top, n
<1>4. \A i \in 1 .. n : ~ElevatedOf(G[i])
  BY <1>1, <1>2, <1>3
<1>5. ~SomeElevatedIn(G) /\ OneElevatedIn(G)
  BY <1>2, <1>4 DEF SomeElevatedIn, OneElevatedIn
<1>6. NotYetRaisedIn(G)
  <2>1. \A i \in (n - 1 + 1) .. Len(G) : EarlyOK(G[i])
    BY <1>1, <1>2
  <2>2. n - 1 <= Len(frames) /\ n - 1 <= Len(G) /\ frames \in Seq(Frame)
    BY <1>1, <1>2 DEF n
  <2>3. QED
    BY <1>1, <1>2, <2>1, <2>2, KeepNotYet, Zenon
<1>7. QED
  BY <1>5, <1>6 DEF G
-----------------------------------------------------------------------------
Early == {"check", "cb", "expand", "elevate"}

LEMMA NextDumpInv == TypeOK /\ DumpInv /\ [Next]_vars => DumpInv'
<1> SUFFICES ASSUME TypeOK, DumpInv, [Next]_vars PROVE DumpInv'
  OBVIOUS
<1> USE DEF TypeOK
\* A step that leaves the flag, the policy and the process alone.
<1>0. ASSUME dumpable' = dumpable, dumpPolicy' = dumpPolicy, exited' = exited,
             SomeElevatedIn(frames') <=> SomeElevatedIn(frames),
             OneElevatedIn(frames') <=> OneElevatedIn(frames),
             NotYetRaisedIn(frames')
      PROVE  DumpInv'
  BY <1>0 DEF DumpInv, PolicyFlag, GetDumpable
\* A step that ends in fr_exit_now(1).
<1>1. ASSUME Die PROVE DumpInv'
  BY <1>1 DEF Die, DumpInv, PolicyFlag
\* A step of a handler that has not raised the flag and does not raise it.
<1>2. ASSUME frames # << >>, Top.pc \in Early, NEW f \in Frame,
             f.disable = Top.disable, f.pc \in Early \cup {"finish"},
             frames' = SetTop(f),
             UNCHANGED <<dumpable, exited, dumpPolicy>>
      PROVE  DumpInv'
  <2>1. /\ SomeElevatedIn(frames') <=> SomeElevatedIn(frames)
        /\ OneElevatedIn(frames') <=> OneElevatedIn(frames)
        /\ NotYetRaisedIn(frames')
    BY <1>2, EarlyStepKeeps DEF DumpInv, Early
  <2>2. QED
    BY <1>2, <2>1, <1>0
<1>3. ASSUME NEW t \in Templates, NEW prog \in Programs, FaultSetup(t, prog)
      PROVE  DumpInv'
  <2>1. UNCHANGED <<frames, dumpable, exited, dumpPolicy>>
    BY <1>3 DEF FaultSetup
  <2>2. QED
    BY <2>1 DEF DumpInv, PolicyFlag, GetDumpable
<1>4. ASSUME NEW cb \in {"none", "ok", "fail"}, FaultSetCb(cb)
      PROVE  DumpInv'
  <2>1. UNCHANGED <<frames, dumpable, exited, dumpPolicy>>
    BY <1>4 DEF FaultSetCb
  <2>2. QED
    BY <2>1 DEF DumpInv, PolicyFlag, GetDumpable
<1>5. ASSUME NEW sig \in Sigs, Signal(sig)
      PROVE  DumpInv'
  <2> DEFINE f == [sig |-> sig, pc |-> "check", cmd |-> << >>,
                   disable |-> FALSE]
  <2>1. f \in Frame /\ f.pc = "check" /\ ~f.disable
    BY DEF Frame, PCs, f
  <2>2. CASE installed
    <3>1. frames' = Append(frames, f)
      BY <1>5, <2>2 DEF Signal, f
    <3>2. /\ SomeElevatedIn(frames') <=> SomeElevatedIn(frames)
          /\ OneElevatedIn(frames') <=> OneElevatedIn(frames)
          /\ NotYetRaisedIn(frames')
      BY <2>1, <3>1, PushKeeps DEF DumpInv
    <3>3. QED
      BY <1>5, <2>2, <3>2, <1>0 DEF Signal
  <2>3. CASE ~installed
    BY <1>5, <2>3 DEF Signal, DumpInv, PolicyFlag
  <2>4. QED
    BY <2>2, <2>3
\* A handler step that only moves an early frame to pc.
<1>6. ASSUME frames # << >>, Top \in Frame, Top.pc \in Early,
             NEW pc \in Early \cup {"finish"}, Goto(pc)
      PROVE  DumpInv'
  <2> DEFINE f == [Top EXCEPT !.pc = pc]
  <2>1. pc \in PCs
    BY DEF PCs, Early
  <2>2. f \in Frame
    BY <1>6, <2>1, FramePc DEF f
  <2>3. f.pc = pc /\ f.disable = Top.disable
    BY <1>6, SetPc DEF f
  <2>4. frames' = SetTop(f) /\ UNCHANGED <<dumpable, exited, dumpPolicy>>
    BY <1>6 DEF Goto, f
  <2>5. QED
    BY <1>6, <2>2, <2>3, <2>4, <1>2, Zenon
<1>7. CASE FaultCheck
  <2>1. frames # << >> /\ Top \in Frame /\ Top.pc \in Early
    BY <1>7, TopFrame DEF FaultCheck, HandlerStep, Early
  <2>2. CASE PermOk(panic_action)
    BY <1>7, <2>1, <2>2, <1>6 DEF FaultCheck, Early
  <2>3. CASE ~PermOk(panic_action)
    BY <1>7, <2>1, <2>3, <1>6 DEF FaultCheck, Early
  <2>4. QED
    BY <2>2, <2>3
<1>8. CASE FaultCb
  <2>1. frames # << >> /\ Top \in Frame /\ Top.pc \in Early
    BY <1>8, TopFrame DEF FaultCb, HandlerStep, Early
  <2>2. CASE panic_cb = "fail" \/ panic_action = << >>
    BY <1>8, <2>1, <2>2, <1>6 DEF FaultCb, Early
  <2>3. CASE ~(panic_cb = "fail" \/ panic_action = << >>)
    BY <1>8, <2>1, <2>3, <1>6 DEF FaultCb, Early
  <2>4. QED
    BY <2>2, <2>3
<1>9. CASE FaultExpand
  <2>1. frames # << >> /\ Top \in Frame /\ Top.pc \in Early
    BY <1>9, TopFrame DEF FaultExpand, HandlerStep, Early
  <2>2. CASE FaultFits(panic_action)
    <3> DEFINE f == [Top EXCEPT !.pc = "elevate",
                                !.cmd = FaultCmd(panic_action)]
    <3>1. FaultCmd(panic_action) \in Seq(Chars) /\ "elevate" \in PCs
      BY ExpandAssumption DEF PCs
    <3>2. f \in Frame
      BY <2>1, <3>1, FrameCmd, Zenon DEF f
    <3>3. f.pc = "elevate" /\ f.disable = Top.disable
      BY <2>1, SetPcCmd DEF f
    <3>4. frames' = SetTop(f) /\ UNCHANGED <<dumpable, exited, dumpPolicy>>
      BY <1>9, <2>2 DEF FaultExpand, f
    <3>5. QED
      BY <2>1, <3>2, <3>3, <3>4, <1>2, Zenon DEF Early
  <2>3. CASE ~FaultFits(panic_action)
    BY <1>9, <2>3, <1>1 DEF FaultExpand
  <2>4. QED
    BY <2>2, <2>3
<1>10. CASE FaultElevate
  <2>1. frames # << >> /\ Top \in Frame /\ Top.pc = "elevate" /\ ~exited
    BY <1>10, TopFrame DEF FaultElevate, HandlerStep
  <2>2. ~Top.disable
    BY <2>1, TopFrame DEF DumpInv, NotYetRaisedIn, EarlyOK, Top
  <2>3. "system" \in PCs /\ TRUE \in BOOLEAN
    BY DEF PCs
  <2>4. CASE /\ GetDumpable = 0
             /\ dumpable' = 1
             /\ frames' = SetTop([Top EXCEPT !.pc = "system", !.disable = TRUE])
             /\ UNCHANGED <<panic_action, panic_cb, setup, installed, exited,
                            dumpPolicy, lastGood>>
    <3> DEFINE f == [Top EXCEPT !.pc = "system", !.disable = TRUE]
    <3>1. f \in Frame
      BY <2>1, <2>3, FrameDisable, Zenon DEF f
    <3>2. f.pc = "system" /\ f.disable = TRUE
      BY <2>1, SetPcDisable DEF f
    <3>3. ElevatedOf(f) /\ EarlyOK(f)
      BY <3>2 DEF ElevatedOf, EarlyOK
    <3>4. ~SomeElevatedIn(frames) /\ PolicyFlag = 0
      BY <2>1, <2>4 DEF DumpInv
    <3>5. /\ SomeElevatedIn(SetTop(f))
          /\ OneElevatedIn(SetTop(f))
          /\ NotYetRaisedIn(SetTop(f))
      BY <2>1, <3>1, <3>3, <3>4, RaiseKeeps DEF DumpInv
    <3>6. frames' = SetTop(f)
      BY <2>4 DEF f
    <3>7. QED
      BY <2>4, <3>4, <3>5, <3>6 DEF DumpInv, GetDumpable, PolicyFlag
  <2>5. CASE /\ frames' = SetTop([Top EXCEPT !.pc = "system"])
             /\ UNCHANGED <<panic_action, panic_cb, setup, installed, exited,
                            dumpable, dumpPolicy, lastGood>>
    <3> DEFINE f == [Top EXCEPT !.pc = "system"]
    <3>1. f \in Frame
      BY <2>1, <2>3, FramePc DEF f
    <3>2. f.pc = "system" /\ f.disable = Top.disable
      BY <2>1, SetPc DEF f
    <3>3. ~ElevatedOf(f) /\ ~ElevatedOf(Top) /\ EarlyOK(f)
      BY <2>2, <3>2 DEF ElevatedOf, EarlyOK
    <3>4. /\ SomeElevatedIn(SetTop(f)) <=> SomeElevatedIn(frames)
          /\ OneElevatedIn(SetTop(f)) <=> OneElevatedIn(frames)
          /\ NotYetRaisedIn(SetTop(f))
      BY <2>1, <3>1, <3>3, SetTopKeeps DEF DumpInv
    <3>5. frames' = SetTop(f)
      BY <2>5 DEF f
    <3>6. QED
      BY <2>5, <3>4, <3>5, <1>0
  <2>6. QED
    BY <1>10, <2>4, <2>5 DEF FaultElevate
<1>11. CASE FaultSystem
  <2>1. frames # << >> /\ Top \in Frame /\ Top.pc = "system"
    BY <1>11, TopFrame DEF FaultSystem, HandlerStep
  <2> DEFINE f == [Top EXCEPT !.pc = "restore"]
  <2>0. "restore" \in PCs
    BY DEF PCs
  <2>2. f \in Frame
    BY <2>1, <2>0, FramePc, Zenon DEF f
  <2>3. f.pc = "restore" /\ f.disable = Top.disable
    BY <2>1, SetPc DEF f
  <2>4. (ElevatedOf(f) <=> ElevatedOf(Top)) /\ EarlyOK(f)
    BY <2>1, <2>3 DEF ElevatedOf, EarlyOK
  <2>5. /\ SomeElevatedIn(SetTop(f)) <=> SomeElevatedIn(frames)
        /\ OneElevatedIn(SetTop(f)) <=> OneElevatedIn(frames)
        /\ NotYetRaisedIn(SetTop(f))
    BY <2>1, <2>2, <2>4, SetTopKeeps DEF DumpInv
  <2>6. frames' = SetTop(f) /\ UNCHANGED <<dumpable, exited, dumpPolicy>>
    BY <1>11 DEF FaultSystem, Goto, f
  <2>7. QED
    BY <2>5, <2>6, <1>0
<1>12. CASE FaultRestore
  <2>1. frames # << >> /\ Top \in Frame /\ Top.pc = "restore" /\ ~exited
    BY <1>12, TopFrame DEF FaultRestore, HandlerStep
  <2> DEFINE f == [Top EXCEPT !.pc = "finish"]
  <2>0. "finish" \in PCs
    BY DEF PCs
  <2>2. f \in Frame
    BY <2>1, <2>0, FramePc, Zenon DEF f
  <2>3. f.pc = "finish" /\ f.disable = Top.disable
    BY <2>1, SetPc DEF f
  <2>4. ~ElevatedOf(f) /\ EarlyOK(f)
    BY <2>3 DEF ElevatedOf, EarlyOK
  <2>5. CASE ~Top.disable /\ Goto("finish")
    <3>1. ~ElevatedOf(Top)
      BY <2>5 DEF ElevatedOf
    <3>2. /\ SomeElevatedIn(SetTop(f)) <=> SomeElevatedIn(frames)
          /\ OneElevatedIn(SetTop(f)) <=> OneElevatedIn(frames)
          /\ NotYetRaisedIn(SetTop(f))
      BY <2>1, <2>2, <2>4, <3>1, SetTopKeeps DEF DumpInv
    <3>3. frames' = SetTop(f) /\ UNCHANGED <<dumpable, exited, dumpPolicy>>
      BY <2>5 DEF Goto, f
    <3>4. QED
      BY <3>2, <3>3, <1>0
  <2>6. CASE /\ Top.disable
             /\ dumpable' = 0
             /\ frames' = SetTop([Top EXCEPT !.pc = "finish"])
             /\ UNCHANGED <<panic_action, panic_cb, setup, installed, exited,
                            dumpPolicy, lastGood>>
    <3>1. ElevatedOf(Top)
      BY <2>1, <2>6 DEF ElevatedOf
    <3>2. SomeElevatedIn(frames)
      BY <2>1, <3>1, TopFrame DEF SomeElevatedIn, Top
    <3>3. PolicyFlag = 0
      BY <3>2 DEF DumpInv
    <3>4. /\ ~SomeElevatedIn(SetTop(f))
          /\ OneElevatedIn(SetTop(f))
          /\ NotYetRaisedIn(SetTop(f))
      BY <2>1, <2>2, <2>4, <3>1, LowerKeeps DEF DumpInv
    <3>5. frames' = SetTop(f)
      BY <2>6 DEF f
    <3>6. QED
      BY <2>6, <3>3, <3>4, <3>5 DEF DumpInv, GetDumpable, PolicyFlag
  <2>7. CASE Top.disable /\ PrctlMayFail /\ Die
    BY <2>7, <1>1
  <2>8. QED
    BY <1>12, <2>5, <2>6, <2>7 DEF FaultRestore
<1>13. CASE FaultFinish
  <2>1. frames # << >> /\ Top.pc = "finish"
    BY <1>13 DEF FaultFinish, HandlerStep
  <2>2. CASE Top.sig = "USR1"
    <3>1. /\ SomeElevatedIn(Pop) <=> SomeElevatedIn(frames)
          /\ OneElevatedIn(Pop) <=> OneElevatedIn(frames)
          /\ NotYetRaisedIn(Pop)
      BY <2>1, PopKeeps DEF DumpInv
    <3>2. frames' = Pop /\ UNCHANGED <<dumpable, exited, dumpPolicy>>
      BY <1>13, <2>2 DEF FaultFinish
    <3>3. QED
      BY <3>1, <3>2, <1>0
  <2>3. CASE Top.sig # "USR1"
    BY <1>13, <2>3, <1>1 DEF FaultFinish
  <2>4. QED
    BY <2>2, <2>3
<1>14. CASE UNCHANGED vars
  BY <1>14 DEF vars, DumpInv, PolicyFlag, GetDumpable
<1>15. QED
  BY <1>3, <1>4, <1>5, <1>7, <1>8, <1>9, <1>10, <1>11, <1>12, <1>13, <1>14
     DEF Next

LEMMA InitDumpInv == Init => DumpInv
<1> SUFFICES ASSUME Init PROVE DumpInv
  OBVIOUS
<1>1. Len(frames) = 0
  BY DEF Init
<1>2. ~SomeElevatedIn(frames) /\ OneElevatedIn(frames) /\ NotYetRaisedIn(frames)
  BY <1>1 DEF SomeElevatedIn, OneElevatedIn, NotYetRaisedIn
<1>3. GetDumpable = PolicyFlag
  BY DEF Init, GetDumpable, PolicyFlag
<1>4. QED
  BY <1>2, <1>3 DEF DumpInv

LEMMA IInvInductive == Spec => []IInv
<1>1. Init => IInv
  BY InitTypeOK, InitDumpInv DEF IInv
<1>2. IInv /\ [Next]_vars => IInv'
  BY NextTypeOK, NextDumpInv DEF IInv
<1>3. QED
  BY <1>1, <1>2, PTL DEF Spec

(***************************************************************************)
(* Whenever the application runs, between handlers or after a SIGUSR1      *)
(* handler returned, fr_get_dumpable_flag() reads what the application     *)
(* itself established: fr_fault() puts back the flag it raised for the     *)
(* panic action, for every nesting of handlers and every failure of prctl. *)
(***************************************************************************)
THEOREM DumpableSafe == Spec => []DumpableRestored
<1>1. IInv => DumpableRestored
  <2> SUFFICES ASSUME IInv, Running PROVE GetDumpable = PolicyFlag
    BY DEF DumpableRestored, PolicyFlag
  <2>1. Len(frames) = 0
    BY DEF Running
  <2>2. ~SomeElevatedIn(frames)
    BY <2>1 DEF SomeElevatedIn
  <2>3. QED
    BY <2>2 DEF IInv, DumpInv, Running
<1>2. QED
  BY <1>1, IInvInductive, PTL

=============================================================================
