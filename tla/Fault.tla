------------------------------- MODULE Fault -------------------------------
(***************************************************************************)
(* The fault controller of src/lib/debug.c: fr_fault_setup(),              *)
(* fr_fault_set_cb() and the signal handler fr_fault().                    *)
(*                                                                         *)
(* fr_fault() runs in signal context on the thread it interrupts, so the   *)
(* interrupted code makes no step until the handler returns.  A handler is *)
(* a frame on a stack: while it runs, its own signal is blocked (sigaction *)
(* without SA_NODEFER) but another handled signal can interrupt it and     *)
(* push a new frame.  SIGUSR1 frames return; all other frames end in       *)
(* fr_exit_now(1).  Before fr_fault_setup() installs the handlers, a       *)
(* signal takes its default action and the process dies.                   *)
(***************************************************************************)
EXTENDS PanicAction

CONSTANTS
    Templates,      \* the cmd arguments fr_fault_setup() is called with
    Programs,       \* the program arguments (NULL is the empty string)
    Sigs,           \* the signals fr_fault is installed for
    DumpableInit,   \* values PR_GET_DUMPABLE may report at start
    PrctlMayFail    \* whether prctl(PR_SET_DUMPABLE) may fail

ASSUME FaultAssumption ==
    /\ Templates \subseteq Seq(Chars)
    /\ Programs \subseteq Seq(Chars)
    /\ "USR1" \in Sigs
    /\ DumpableInit \subseteq 0 .. 2
    /\ DumpableInit # {}
    /\ PrctlMayFail \in BOOLEAN

(***************************************************************************)
(* What the model relies on from the string operators, checked by TLC on   *)
(* every instance: the expansions are strings, the %e loop has written at *)
(* most the whole expansion before its tail.                               *)
(***************************************************************************)
ASSUME ExpandAssumption ==
    /\ \A t \in Templates, prog \in Programs :
          /\ Expand(t, "e", prog) \in Seq(Chars)
          /\ Len(Expand(t, "e", prog)) - TailLen(t, "e")
                \in 0 .. Len(Expand(t, "e", prog))
    /\ \A s \in StrFit(PACap) : FaultCmd(s) \in Seq(Chars)

VARIABLES
    panic_action,   \* static char panic_action[512]
    panic_cb,       \* static fr_fault_cb_t panic_cb: "none", "ok", "fail"
    setup,          \* static bool setup in fr_fault_setup()
    installed,      \* fr_fault is the disposition of the signals in Sigs
    dumpable,       \* the kernel's dumpable attribute (0, 1 or 2)
    frames,         \* stack of running fr_fault() invocations
    exited,         \* the process has terminated
    dumpPolicy,     \* ghost: dumpable as the interrupted code left it
    lastGood        \* ghost: panic_action after the last successful setup

vars == <<panic_action, panic_cb, setup, installed, dumpable, frames,
          exited, dumpPolicy, lastGood>>

\* The steps of fr_fault(), named after the code they run next.
PCs == {"check", "cb", "expand", "elevate", "system", "restore", "finish"}

Frame == [sig : Sigs, pc : PCs, cmd : Seq(Chars), disable : BOOLEAN]

\* fr_get_dumpable_flag(): "Linux is crazy and prctl sometimes returns 2".
GetDumpable == IF dumpable = 1 THEN 1 ELSE 0

\* The running handler, and its replacement in the stack.
Top == frames[Len(frames)]

SetTop(f) == [frames EXCEPT ![Len(frames)] = f]

Pop == SubSeq(frames, 1, Len(frames) - 1)

Blocked == {frames[i].sig : i \in 1 .. Len(frames)}

-----------------------------------------------------------------------------
Init ==
    /\ panic_action = << >>
    /\ panic_cb = "none"
    /\ setup = FALSE
    /\ installed = FALSE
    /\ dumpable \in DumpableInit
    /\ frames = << >>
    /\ exited = FALSE
    /\ dumpPolicy = dumpable
    /\ lastGood = << >>

\* Application code runs only when no handler is on its stack.
Running == ~exited /\ frames = << >>

(***************************************************************************)
(* fr_fault_setup(cmd, program): expand %e into panic_action, check the    *)
(* result, and on the first success install the handlers.  Every failure   *)
(* returns -1 after panic_action has already been written.                 *)
(***************************************************************************)
FaultSetup(t, prog) ==
    /\ Running
    /\ panic_action' = SetupWrite(panic_action, t, prog)
    /\ IF ExpandFits(t, "e", prog, PACap) /\ PermOk(panic_action')
          THEN /\ setup' = TRUE
               /\ installed' = TRUE
               /\ lastGood' = panic_action'
          ELSE UNCHANGED <<setup, installed, lastGood>>
    /\ UNCHANGED <<panic_cb, dumpable, frames, exited, dumpPolicy>>

\* fr_fault_set_cb(func).
FaultSetCb(cb) ==
    /\ Running
    /\ panic_cb' = cb
    /\ UNCHANGED <<panic_action, setup, installed, dumpable, frames, exited,
                   dumpPolicy, lastGood>>

(***************************************************************************)
(* Delivery of a signal of Sigs that is not blocked: the default action    *)
(* kills the process before setup; afterwards fr_fault(sig) starts.        *)
(***************************************************************************)
Signal(sig) ==
    /\ ~exited
    /\ sig \notin Blocked
    /\ IF installed
          THEN /\ frames' = Append(frames,
                       [sig |-> sig, pc |-> "check", cmd |-> << >>,
                        disable |-> FALSE])
               /\ UNCHANGED exited
          ELSE /\ exited' = TRUE
               /\ UNCHANGED frames
    /\ UNCHANGED <<panic_action, panic_cb, setup, installed, dumpable,
                   dumpPolicy, lastGood>>

\* A step of the running handler that changes only its frame.
Goto(pc) ==
    /\ frames' = SetTop([Top EXCEPT !.pc = pc])
    /\ UNCHANGED <<panic_action, panic_cb, setup, installed, dumpable,
                   exited, dumpPolicy, lastGood>>

\* A step of the running handler that ends in fr_exit_now(1).
Die ==
    /\ exited' = TRUE
    /\ UNCHANGED <<panic_action, panic_cb, setup, installed, dumpable,
                   frames, dumpPolicy, lastGood>>

HandlerStep == ~exited /\ frames # << >>

\* Mutant: a failed permission check is only logged.
FaultCheckLogOnly ==
    /\ HandlerStep /\ Top.pc = "check"
    /\ Goto("cb")

\* "Check for administrator sanity."
FaultCheck ==
    /\ HandlerStep /\ Top.pc = "check"
    /\ Goto(IF PermOk(panic_action) THEN "cb" ELSE "finish")

\* The callback, the backtrace, and "No panic action set".
FaultCb ==
    /\ HandlerStep /\ Top.pc = "cb"
    /\ Goto(IF panic_cb = "fail" \/ panic_action = << >>
               THEN "finish" ELSE "expand")

\* Substitute %p for the pid; "Panic action too long" exits.
FaultExpand ==
    /\ HandlerStep /\ Top.pc = "expand"
    /\ IF FaultFits(panic_action)
          THEN /\ frames' = SetTop([Top EXCEPT !.pc = "elevate",
                                               !.cmd = FaultCmd(panic_action)])
               /\ UNCHANGED <<panic_action, panic_cb, setup, installed,
                              dumpable, exited, dumpPolicy, lastGood>>
          ELSE Die

(***************************************************************************)
(* If fr_get_dumpable_flag() is 0, set it to 1; disable is set only when   *)
(* the set succeeded and a re-read returns non-zero.                       *)
(***************************************************************************)
FaultElevate ==
    /\ HandlerStep /\ Top.pc = "elevate"
    /\ \/ /\ GetDumpable = 0
          /\ dumpable' = 1
          /\ frames' = SetTop([Top EXCEPT !.pc = "system", !.disable = TRUE])
       \/ /\ GetDumpable = 0 /\ PrctlMayFail
          /\ frames' = SetTop([Top EXCEPT !.pc = "system"])
          /\ UNCHANGED dumpable
       \/ /\ GetDumpable # 0
          /\ frames' = SetTop([Top EXCEPT !.pc = "system"])
          /\ UNCHANGED dumpable
    /\ UNCHANGED <<panic_action, panic_cb, setup, installed, exited,
                   dumpPolicy, lastGood>>

\* code = system(cmd).
FaultSystem ==
    /\ HandlerStep /\ Top.pc = "system"
    /\ Goto("restore")

\* Mutant: a failure to reset the flag is logged but does not exit.
FaultRestoreNoExit ==
    /\ HandlerStep /\ Top.pc = "restore"
    /\ \/ /\ ~Top.disable
          /\ Goto("finish")
       \/ /\ Top.disable
          /\ dumpable' = 0
          /\ frames' = SetTop([Top EXCEPT !.pc = "finish"])
          /\ UNCHANGED <<panic_action, panic_cb, setup, installed, exited,
                         dumpPolicy, lastGood>>
       \/ /\ Top.disable /\ PrctlMayFail
          /\ Goto("finish")

(***************************************************************************)
(* If disable, reset the flag to 0; a failure there exits "due to          *)
(* insecure process state".                                                *)
(***************************************************************************)
FaultRestore ==
    /\ HandlerStep /\ Top.pc = "restore"
    /\ \/ /\ ~Top.disable
          /\ Goto("finish")
       \/ /\ Top.disable
          /\ dumpable' = 0
          /\ frames' = SetTop([Top EXCEPT !.pc = "finish"])
          /\ UNCHANGED <<panic_action, panic_cb, setup, installed, exited,
                         dumpPolicy, lastGood>>
       \/ /\ Top.disable /\ PrctlMayFail
          /\ Die

\* finish: SIGUSR1 returns to the interrupted code, anything else exits.
FaultFinish ==
    /\ HandlerStep /\ Top.pc = "finish"
    /\ IF Top.sig = "USR1"
          THEN /\ frames' = Pop
               /\ UNCHANGED <<panic_action, panic_cb, setup, installed,
                              dumpable, exited, dumpPolicy, lastGood>>
          ELSE Die

Next ==
    \/ \E t \in Templates, prog \in Programs : FaultSetup(t, prog)
    \/ \E cb \in {"none", "ok", "fail"} : FaultSetCb(cb)
    \/ \E sig \in Sigs : Signal(sig)
    \/ FaultCheck
    \/ FaultCb
    \/ FaultExpand
    \/ FaultElevate
    \/ FaultSystem
    \/ FaultRestore
    \/ FaultFinish

Spec == Init /\ [][Next]_vars

-----------------------------------------------------------------------------
(***************************************************************************)
(* Properties.                                                             *)
(***************************************************************************)

\* Type invariant.
TypeOK ==
    /\ panic_action \in StrFit(PACap)
    /\ panic_cb \in {"none", "ok", "fail"}
    /\ setup \in BOOLEAN
    /\ installed \in BOOLEAN
    /\ dumpable \in 0 .. 2
    /\ frames \in Seq(Frame)
    /\ exited \in BOOLEAN
    /\ dumpPolicy \in 0 .. 2
    /\ lastGood \in StrFit(PACap)

(***************************************************************************)
(* fr_fault() makes the process dumpable only for the panic action: when   *)
(* control is back in the interrupted code (every handler frame has        *)
(* returned) fr_get_dumpable_flag() reads what it read before the signal,  *)
(* whatever handlers nested and whichever prctl() calls failed.            *)
(***************************************************************************)
DumpableRestored ==
    Running => GetDumpable = (IF dumpPolicy = 1 THEN 1 ELSE 0)

(***************************************************************************)
(* The spec's stronger wording, "restore the prior policy": the kernel's   *)
(* dumpable value itself is back.  Expected to fail when it started at 2.  *)
(***************************************************************************)
DumpableExactlyRestored ==
    Running => dumpable = dumpPolicy

(***************************************************************************)
(* system() runs only a command whose panic_action passed the permission   *)
(* check, and that command is the complete %p expansion of it: never a     *)
(* truncated one.                                                          *)
(***************************************************************************)
ExecVetted ==
    [][FaultSystem => /\ PermOk(panic_action)
                      /\ Top.cmd = FaultCmd(panic_action)
                      /\ Len(Top.cmd) < CmdCap]_vars

(***************************************************************************)
(* The binary system() runs is not world writable: the permission check    *)
(* looks at the same file the command executes.  Expected to fail: the     *)
(* check reads panic_action before %p is substituted.                      *)
(***************************************************************************)
ExecBinaryNotWritable ==
    [][FaultSystem => FirstWord(Top.cmd) \notin WritableFiles]_vars

(***************************************************************************)
(* The panic action fr_fault() runs is the one the last successful         *)
(* fr_fault_setup() configured.  Expected to fail: a setup that returns    *)
(* "Panic action too long" leaves a truncated command behind.              *)
(***************************************************************************)
ExecConfigured ==
    [][FaultSystem => panic_action = lastGood]_vars
=============================================================================
