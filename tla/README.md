# Verification of the fault and crash-diagnostics subsystem (src/src/lib/debug.c)

This directory holds TLA+ models of `src/src/lib/debug.c`, the TLC configurations
that check them, and TLAPS proofs about them. The file is FreeRADIUS's
process-level fault handler. It catches fatal signals, optionally runs an
operator-supplied "panic action" command with the process temporarily made
dumpable, and keeps backtrace, core-dump and memory-report helpers.

## 1. The system

| Part (spec section) | Code | State | Operations |
|---|---|---|---|
| Fault controller (4.1) | `fr_fault_setup` 641-737, `fr_fault_set_cb` 744, `fr_fault` 423-551, `fr_fault_check_permissions` 378-417 | `panic_action[512]`, `panic_cb`, `static bool setup`, the installed handlers | setup, set callback, signal delivery, the handler's steps |
| Dumpable flag (4.3) | `fr_get_dumpable_flag` 294-309, `fr_set_dumpable_flag` 272-281 | the kernel's PR_DUMPABLE (0, 1 or 2) | get (2 reads as 0), set 0/1 (may fail) |
| Core-dump limits (4.3) | `fr_set_dumpable_init` 323, `fr_set_dumpable` 338-372 | `core_limits`, RLIMIT_CORE | capture baseline, disable, enable |
| Backtrace registry (4.2) | `fr_backtrace_attach` 208, `_fr_do_bt` 124, `backtrace_print` 147 | `*cbuff` per handle, `fr_debug_init` mutex, markers | attach (double-checked lazy init), destructor insert, print |
| Debugger probe (4.4) | `fr_debug_break` 108, `_sigtrap_handler` 95 | `fr_debugger_present` in {-1,0,1} | probe by raising SIGTRAP |
| Memory report (4.5) | `fr_log_talloc_report` 577, `_fr_fault_mem_report` 618 | a dup of `fr_fault_log_fd` | dup/fdopen/report/close, walk of the parent chain |
| Panic on free | `fr_panic_on_free` 259, `_panic_on_free` 248 | a talloc destructor | a direct call of `fr_fault(SIGUSR1)` |

How the parts interact: `fr_fault_setup` writes `panic_action` and installs `fr_fault`
for SEGV, BUS, ABRT, FPE and USR1 (and the memory report for USR2). `fr_fault` runs on the
interrupted thread. It checks permissions, calls the callback, prints a backtrace,
substitutes `%p`, raises the dumpable flag if it reads 0, runs `system()`, and
resets the flag. SIGUSR1 then returns; any other signal exits.

What makes this code hard: it runs in signal context, and handlers nest. A handler's
own signal is blocked, but a different signal can interrupt it halfway,
for example between raising the dumpable flag and resetting it. Every `prctl` call
may fail. Each string step (`snprintf` into a fixed buffer, the `%e`/`%p` loops, the
filename copy) has an overflow edge. `fr_fault_setup` writes the global
buffer before it knows whether it will fail.

## 2. Modules

* `PanicAction.tla`: the string operators of the controller. A C string is a sequence
  of characters over the small alphabet `Chars`, and the space character is written `SP`.
  * `Expand(s, c, r)` is the result of the `strstr`/`snprintf` substitution loop when no
    limit is hit. It is a recursive *function*, so the proof module can extend it.
  * `ExpandFits` states the loop's success condition in closed form. Each `left <= ret`
    test and the final `strlen(p) >= left` test fail exactly when the full expansion
    plus its NUL exceeds the buffer.
  * `SetupWrite` is what the setup loop leaves in `panic_action[]` on each outcome:
    * the full text when it fits;
    * the old contents when there is no `%e` and the text does not fit;
    * otherwise the prefix of length min(511, written).
  * `FirstWord`/`PermOk` model `fr_fault_check_permissions`: the first word, the
    `is_truncated` test at 256, and the world-writable test. A path that does not exist passes.
* `Fault.tla`: the controller as a state machine.
  * Variables:
    * `panic_action`, `panic_cb`, `setup`, `installed` (the handlers are in place) and `dumpable` (the raw PR_DUMPABLE);
    * `frames`, the stack of running `fr_fault` invocations. Each frame has its signal, a program counter, its `cmd[]` and its `disable` local;
    * `exited`, set when the process has called `fr_exit_now(1)` or died of a signal's default action;
    * two ghost variables. `dumpPolicy` is the raw flag the application left. `lastGood` is `panic_action` after the last successful setup.
  * Actions: one per operation and one per step of the handler between the points
    where the code reads or writes shared state.
    * `FaultSetup` and `FaultSetCb` run only when application code runs (no frame open).
    * `Signal` is delivery. It kills the process before setup; otherwise it pushes a frame, for a signal not already on the stack.
    * `FaultCheck`, `FaultCb`, `FaultExpand`, `FaultElevate`, `FaultSystem`, `FaultRestore` and `FaultFinish` are the steps of the handler. Each `prctl` call is a disjunct per outcome: success, or failure when `PrctlMayFail`.
* `CoreDump.tla`: `fr_set_dumpable_init` and `fr_set_dumpable`.
  * Variables: `rlim` (the process's RLIMIT_CORE), `core_limits` (the static), `dumpable`,
    `privileged` (CAP_SYS_RESOURCE), `pc` (between the two steps of an enable), and two ghosts:
    `baseline`, the limit at start, and `mode`, the argument of the last call that returned 0.
  * `SetrlimitOk(r)` is the kernel's rule: lowering is always allowed, raising the hard limit needs the capability.
  * Actions: `SetDumpableInit` (getrlimit, or its failure), `SetDumpableOff` (0/0),
    and the enable in two steps, `SetDumpableOn` (prctl, or its failure) then `RestoreLimits`
    (setrlimit to `core_limits`, or EPERM).
* `BacktraceLog.tla`: the abstract registry (what spec 4.2 promises). One buffer, created once;
  markers bound to it; a log of at most `Cap` records that drops its oldest; `BacktracePrint(arg)`
  prints the records the `p == obj` loop prints and removes the records it consumes.
* `BacktraceRegistry.tla`: the detailed registry.
  * Variables: `cbuff` (the static pointer), `allocated`, `rings` (each buffer's array and
    in/out indices), `lock` (owner of `fr_debug_init`), per thread `pc` and `tobj`, per object
    `markers`, `destroyed`, `shown` (the last print) and `failures`.
  * Per thread, one action per step of `fr_backtrace_attach`: `Attach` (entry and the unlocked
    test), `Lock`, `Recheck`, `Alloc` (NULL, or a fresh buffer), `Unlock`, `Marker` (the talloc and
    the second unlocked read of `*cbuff`, or NULL).
  * `Free(o)` is `talloc_free` running `_fr_do_bt`: no buffer, a failed `talloc_zero`, or an insert.
    `Reuse(o)` lets the allocator hand a freed address out again. `BacktracePrint(arg)` is the debugger's call.
  * `fr_cbuff_*` is not in this repository. It is modelled from the spec: a power-of-two array
    with one empty slot, FIFO overwrite, `fr_cbuff_rp_next` advancing the read index.
  * `BL == INSTANCE BacktraceLog WITH buf <- cbuff, log <- Contents` is the refinement mapping:
    the abstract log is the ring's contents from the read index to the write index.
* `DebugProbe.tla`: `fr_debug_break` and `_sigtrap_handler`. Variables: `present`
  (`fr_debugger_present`), `disp` (the SIGTRAP disposition), `debugger` (none, or one that passes
  or discards the trap), per thread `pc` and `calls`, and the ghosts `killed`, `intercepted`, `missed`.
  Actions: `Break` (the test), `SetAbsent` (store 0), `Install` (`signal(SIGTRAP, ...)`),
  `Raise` (the trap, with its three outcomes), and `Debug(d)`, a debugger attaching or detaching.
* `MemReport.tla`: `fr_log_talloc_report` step by step (`Dup`, `Fdopen` with its close on
  failure, one `Walk` step per level with the null-context test, `Fclose`) on the application
  thread, and the SIGUSR2 handler `_fr_fault_mem_report` (`Sigusr2`, `HandlerDup`, `HandlerFdopen`,
  `HandlerReport`, `HandlerFclose`) running on top of it. `heap` is the holder of the malloc lock,
  which every step that allocates or frees needs free; `AppMalloc` is other application code inside malloc.
* `MCFault`, `MCCoreDump`, `MCBacktrace`, `MCDebugProbe`, `MCMemReport` and the `.cfg` files: the TLC instances.
  `MCFault`, `MCBacktrace`, `MCDebugProbe` and `MCMemReport` extend the proof modules, so that their runs
  also check the inductive invariants (`VetInv`, `IInv`) the proofs rest on.
* `FaultProofs.tla`, `FaultExecProofs.tla`, `CoreDumpProofs.tla`, `BacktraceProofs.tla`,
  `DebugProbeProofs.tla` and `MemReportProofs.tla`: TLAPS proofs (section 4).

## 3. Runs

| Run | Config | Expect | Checks |
|---|---|---|---|
| fault_safety | `MCFault.cfg` | pass | `TypeOK`, `DumpableRestored`, `VetInv`, `[][...]` `ExecVetted` |
| dumpable_exact | `MCFault_DumpableExactlyRestored.cfg` | violation | `DumpableExactlyRestored` |
| exec_binary_writable | `MCFault_ExecBinaryNotWritable.cfg` | violation | `ExecBinaryNotWritable` |
| exec_configured | `MCFault_ExecConfigured.cfg` | violation | `ExecConfigured` |
| backtrace | `MCBacktrace.cfg` | pass | `TypeOK`, `IInv`, `Refinement`, `AttachCompletes` |
| backtrace_print_by_object | `MCBacktrace_PrintFindsFreed.cfg` | violation | `PrintFindsFreed` |
| core_dump_policy | `MCCoreDump.cfg` | pass | `CoreOffUntilEnabled` |
| core_baseline_restored | `MCCoreDump_BaselineRestored.cfg` | violation | `BaselineRestored` |
| probe_single_caller | `MCDebugProbe.cfg` | pass | `NoUncaughtTrap`, `IInv` |
| probe_remembers_debugger | `MCDebugProbe_BreakStopsUnderDebugger.cfg` | violation | `BreakStopsUnderDebugger` |
| mem_report | `MCMemReport.cfg` | pass | `FdsReleased`, `WalkStopsBeforeNull`, `IInv` |
| mem_report_in_signal | `MCMemReport_HandlerReturns.cfg` | violation | `HandlerReturns` |

The fault controller's runs come first.

The passing run checks four properties:
* `DumpableRestored`: whenever application code runs, the normalised dumpable flag is the one the application left. It must hold across nested handlers and every prctl failure.
* `ExecVetted`: `system()` runs only the `%p` expansion of the current `panic_action`, that text passed the permission check, and it fits `cmd[]`.
* `TypeOK`: it includes that `panic_action` always fits its buffer with its NUL.
* `VetInv`: the invariant behind `ExecVetted` (section 4). Every frame past the permission check
  checked the current `panic_action`, and every frame past the `%p` step holds its full expansion.

Each has a mutant that TLC must catch:
* the NUL not reserved on overflow breaks `TypeOK`;
* a permission failure that is only logged breaks `ExecVetted` and `VetInv`;
* a failed reset that does not exit breaks `DumpableRestored`.

The three violation runs are the findings:

1. **The dumpable flag 2 becomes 0.** The spec (4.3) says the prior policy is
   restored. `fr_get_dumpable_flag` reads 2 as 0 (line 307), so `fr_fault` raises
   the flag and resets it to 0 (line 534). A process whose PR_DUMPABLE was 2
   (suid_dumpable) comes back from a SIGUSR1 panic action with 0.
2. **The checked path is not the executed path.** The permission check runs on
   `panic_action` before `%p` is substituted (line 444 versus 492-505). With a first
   word containing `%p`, the check stats a path that does not exist and passes.
   `system()` then runs the substituted path, which may be world-writable.
3. **A failed setup leaves a live command.** `fr_fault_setup` returns
   "Panic action too long" after it has written a truncated prefix into `panic_action`
   (lines 653-664). Handlers from an earlier successful call then execute that prefix.
   Spec section 7 says failures log before any state change, and section 4.1 says setup fails
   with ConfigError.

### Bounds and why they are enough

* Buffers are 6 bytes for `panic_action`, 7 for `cmd` and 3 for `filename`, standing for 512, 532 and 256.
* The pid is 3 characters ("111").
* The program names have 1 and 4 characters.
* Two templates have first words of 2 and 3 characters, one below and one at `FileCap`.

With these sizes every outcome of both loops happens: an exact fit, an overflow inside a
`snprintf`, and an overflow of the tail. The permission check meets a writable binary and
both sides of the `is_truncated` edge. "xx %p" passes and reaches `system()`; "xxx x" is
refused. `%p` overflows `cmd[]` while `panic_action` fits.

`VetInv` and `ExecVetted` state that the check passed in the terms of `PermOk` itself. They
show that no path reaches `system()` around the check, but not that `PermOk` translates
`is_truncated` correctly: that rests on the reading of lines 378-417.

* Signals: SEGV (fatal) and USR1 (returns). Two signals are enough for a nested handler inside a returning one, in both orders.
* `DumpableInit = {0,1,2}` covers the three kernel values.
* `PrctlMayFail = TRUE` enables every failure disjunct. The model leaves out two cases: a `PR_GET_DUMPABLE` that returns -1, and a
  successful `PR_SET_DUMPABLE` whose re-read still gives 0 (lines 516-523).

The passing run reaches 22,404 distinct states at depth 27 and fires every action and disjunct.

Deadlock checking is off (`CHECK_DEADLOCK FALSE`) because the process really stops:
every path through a fatal signal ends in `fr_exit_now(1)`, and the model then has no
step. No fairness is assumed for the fault controller.

Assumption about code outside this repository: `fr_set_signal` installs handlers
without `SA_NODEFER`, so a handler's own signal is blocked while it runs (`Blocked`).
Handler installation is modelled as always succeeding.

### The backtrace registry

`backtrace` checks four properties on two threads, two objects, one record address,
two buffer addresses, a ring of 4 slots (3 records) and `AllocFailures = 1`:
* `Refinement == BL!AbsSpec`: the double-checked creation, the second unlocked read of
  `*cbuff` for the marker, and the ring together behave as the atomic `BacktraceLog`. A
  second buffer, a marker bound to another buffer than the handle's, or a ring that loses
  or reorders records breaks it. Mutant: the locked re-test dropped (`RecheckSkip`), so both racing
  threads allocate.
* `AttachCompletes`: every call of `fr_backtrace_attach` returns. Mutant: the unlock skipped
  on the path that finds `*cbuff` already set (`UnlockKeep`).
* `TypeOK`, with the ring indices in range. Mutant: the read index advanced without the wrap (`CbTakeNoWrap`).
* `IInv` (from `BacktraceProofs`): `fr_debug_init` has exactly the owner whose pc is between lock and
  unlock, a thread about to allocate saw `*cbuff` NULL under the mutex, every marker that reports to a
  buffer reports to `*cbuff`, and an object being attached is live, unmarked and attached by one thread.
  Mutant: `UnlockKeep` leaves the mutex owned by a thread past its unlock.

Fairness: weak fairness of each thread's steps inside `fr_backtrace_attach`. A thread
that can move is eventually scheduled, and the mutex holder always releases it. The
pthread mutex is not fair: with allocations failing for ever, TLC finds a thread overtaken
for ever. `AllocFailures` bounds the failures in a behaviour, and the property holds under that bound.
The bounds let the race happen (two threads both pass the unlocked test), let the ring
wrap and evict (4 frees fill 3 slots), and let an address be reused. The run reaches
482,956 distinct states in about 45 s.

Finding 4, **print by object never matches** (`backtrace_print_by_object`). `backtrace_print`
compares the record pointer with the argument (`p == obj`, line 155), and `_fr_do_bt` never sets
`bt->obj`. A lookup by the freed object's address consumes every record and prints nothing.
Spec section 8 says it shows the object's frames.

### Core-dump limits

`core_dump_policy` runs every order of init, disable and enable, privileged or not,
with limits in {0,1,2} and every getrlimit, prctl and setrlimit failure (220 states).
`CoreOffUntilEnabled`: after a successful disable, no failed enable brings core dumps back.
Mutant: the limits restored before the flag is raised (`SetDumpableOnLimitsFirst`).

Finding 5, **enable after disable does not restore** (`core_baseline_restored`). Disable sets the
hard limit to 0 too (line 348). Without CAP_SYS_RESOURCE the later setrlimit fails with EPERM
(line 365), leaving PR_DUMPABLE 1 and the limits 0. Spec section 8 says the captured limits return.

### Debugger probe

`probe_single_caller` has one caller making up to 12 calls while a debugger attaches,
detaches, passes or discards the trap at any point (117 states). `NoUncaughtTrap`: the
probe's SIGTRAP never meets SIG_DFL. `IInv` (from `DebugProbeProofs`): additionally,
`fr_debugger_present` is never 1 and a caller about to raise has installed the handler.
Mutant for both: every known state re-raises (`BreakAlwaysRaise`).
With two callers the property fails: both pass the -1 test, and the second trap finds the
disposition already reset by the first trap's handler. The spec calls the probe best-effort,
so this is recorded as a hazard and not as a run.

Finding 6, **a debugger is never remembered** (`probe_remembers_debugger`). The probe stores 0
before raising (line 111), and nothing stores 1. A debugger that discards the trap leaves "absent",
and later breaks never stop. Spec 4.4 says the interception tells presence.

### Memory report

`mem_report` runs application reports of each context of a chain `c1 -> c2 -> null_context`,
of a context with a NULL parent, and of NULL, with dup and fdopen failing. A SIGUSR2 report
may interrupt any step (113 states). Two invariants hold:
* `FdsReleased`: no descriptor is held once both reports have returned. Mutant: fdopen failure without the close.
* `WalkStopsBeforeNull`: a report covers its context and each ancestor once, and stops before the null context.
  Mutant: the walk stops only at a NULL parent.
* `IInv` (from `MemReportProofs`): the number of open descriptors equals the number of reports
  between a successful dup and its close. Mutant: fdopen failure without the close.

Deadlock checking is off in this run, because a handler that waits for the malloc lock has no step;
that hang is the next run.

Finding 7, **the SIGUSR2 report can hang** (`mem_report_in_signal`). The handler's report
allocates. Delivered while the interrupted code is inside malloc, it waits for a lock its
own thread holds (line 622). `HandlerReturns` fails even under weak fairness of the handler's steps.
Spec section 5 says handlers avoid such locks.

## 4. What is proved (TLAPS)

* `TypeCorrect == Spec => []TypeOK`. It holds for every value of the constants under
  `PanicActionAssumption`, `FaultAssumption` and `ExpandAssumption`.
  * The key lemma is `SetupWriteFits`: each outcome of the setup loop fits `panic_action[]`.
  * The stack lemmas (`PopType`, `PushType`, `SetTopType`) keep every frame well formed.
* `DumpableSafe == Spec => []DumpableRestored`. It holds for every buffer size, every
  signal set and every nesting depth. `DumpableRestored` alone is not inductive, so the
  proof goes through `IInv == TypeOK /\ DumpInv`, where `DumpInv` says:
  1. at most one frame has the flag raised (`disable` set, pc at system or restore);
  2. no frame before its elevate step has `disable` set;
  3. if some frame has it raised, the application's flag was 0;
  4. while the process lives, the flag reads 1 if some frame has it raised, and otherwise what the application left.

  Conjunct 2 is needed for the step of a nested handler: the handler sees
  the raised flag, leaves `disable` false, and so never lowers a flag it did not raise.
  TLC checked `IInv` as an invariant of the run before the proof was written. The step
  proof (`NextDumpInv`) has one case per action, and rests on frame-stack lemmas
  (`KeepSome`, `KeepOne`, `KeepNotYet`, `SetTopKeeps`, `PushKeeps`, `PopKeeps`,
  `RaiseKeeps`, `LowerKeeps`).

`FaultExecProofs.tla` proves `ExecVettedSafe == Spec => ExecVetted`, the action property that
`system()` runs only a checked, fully expanded and fitting command. The proof goes through
`VetInvSafe == Spec => []VetInv`, also for every value of the constants. `VetInv` says this of
every frame on the stack, not only of the top:
* a frame at or past the callback step (`cb` to `restore`) has `PermOk(panic_action)`;
* a frame at or past `elevate` has `cmd = FaultCmd(panic_action)` and `Len(cmd) < CmdCap`.

The whole stack is needed because a nested handler's frame is popped and the frame below it
becomes the top again. `VetInv` is inductive because `fr_fault_setup` changes `panic_action`
only while no handler runs (`Running` is false). Without that, a frame checked against the old
text would run the new one. The proof has stack lemmas (`SetTopVet`, `PushVet`, `PopVet`), a
lemma `GotoVet` for a step that only moves the pc forward, and `NextVetInv`, with one case per
action. `ExecVettedSafe` then follows from `VetOKFor` of the top frame at a `FaultSystem` step.

`MemReportProofs`, `DebugProbeProofs` and `BacktraceProofs` also state their strengthenings as
theorems (`IInvSafe == Spec => []IInv`). `DebugProbeProofs` does this under the one-caller
hypothesis. These are the invariants that the runs check beside the properties.

`ExpandAssumption` states that `Expand` yields a string, and the bound on the length
written before the tail. Both would need induction over the recursive function,
which the provers cannot do. TLC evaluates the assumption on every run for the constants
given.

`CoreDumpProofs.tla` proves `CoreOffSafe == CdSpec => []CoreOffUntilEnabled` under
`CoreDumpAssumption` (any set of natural limit values containing 0). The invariant is
inductive as it stands and is proved together with `CdTypeOK` (`IInv`). A disable sets both limits
to 0 and the mode to "off". An enable changes the limits only in the step that also records
mode "on". A failed prctl or setrlimit changes neither. `NextIInv` has one case per action, and
`RestoreLimits` splits on `SetrlimitOk(core_limits)`.

`MemReportProofs.tla` proves `FdsReleasedSafe == MrSpec => []FdsReleased` under
`MemReportAssumption`, for every talloc tree. `FdsReleased` is not inductive: a state inside a
report that holds no descriptor, or two, satisfies it. The strengthening
`IInv == MrTypeOK /\ open = AppHolds + HandlerHolds` counts the descriptors exactly: a report
holds one from a successful dup until its fclose, or until the close after a failed fdopen.
There is one lemma per group of actions. The application's steps (`AppStepIInv`) split `Dup`
and `Fdopen` on their success and failure disjuncts; the walk (`WalkIInv`) keeps the record
well typed because a talloc parent is a context or NULL; the handler's steps (`HandlerIInv`)
cover the delivery of SIGUSR2 at any application step.

`DebugProbeProofs.tla` proves `SingleCallerNoTrap`: with `Threads = {t0}`,
`DpSpec => []NoUncaughtTrap`. The hypothesis is stated in the theorem because the property is
false with two callers (section 3). The strengthening says that `fr_debugger_present` is never 1
(nothing stores 1, so the re-raise branch never runs), that the process is alive, and that a
caller about to raise has installed `_sigtrap_handler`, which nothing else resets while it is the
only caller. `NextIInv` has one case per action, and the raise splits on whether the debugger
passes the trap on.

`BacktraceProofs.tla` proves two theorems about the registry, for every number of threads,
objects, record and buffer addresses, every `AllocFailures` and every ring size in
`BacktraceRegistryAssumption`:
* `TypeCorrect == Spec => []TypeOK`;
* `Refines == Spec => Refinement`, that is, `Spec => BL!AbsSpec`.

Both go through `IInv` (model-checked by `backtrace`): `TypeOK`, each ring in `Ring`, the mutex
owner exactly the thread between lock and unlock, `*cbuff` NULL while a thread allocates, every
marker in a buffer bound to `*cbuff`, and attached objects live, unmarked and distinct. The
refinement needs all of it:
* `Alloc` is `Create` only because the allocating thread holds the mutex and saw `*cbuff` NULL.
* `Marker` is `Attach` only because its object is still unmarked and live.
* `Free` appends to the abstract log only because its marker's buffer is `*cbuff`.

The proof goes step by step. `InitRefines` maps the initial state. `ThreadRefines` maps `Alloc`
to `Create`, a successful `Marker` to `Attach`, and the other steps of `fr_backtrace_attach` to
stutters. `FreeRefines`, `ReuseRefines` and `PrintRefines` cover the other actions. The ring
lemmas underneath are proved once:
* `ContentsDef`: `CbContents` is a sequence of length `RLen`.
* `InsertPush`: `fr_cbuff_rp_insert` is the abstract `Push`. It appends when there is room
  (`InsertNotFull`); when full it drops the head and appends (`InsertFull`, through `PosShift`).
* `TakeSubSeq`: k reads drop the first k records.
* `TakenVal`: the loop of `backtrace_print` takes between none and all records. Its first match
  exists by `NatMin`, which is obtained from `WFMin` and `NatLessThanWellFounded`. The
  library's `SmallestNatural` takes an operator parameter, which the provers cannot instantiate.

Only model-checked, and why:
* `WalkStopsBeforeNull`: it speaks of the ancestors of a context, through the transitive
  closure of `Parent`. Proving it means induction over the chain, which the provers cannot do.
* `AttachCompletes`: liveness under fairness, which TLAPS cannot check here.
* The violated properties are shown by TLC's counterexamples.
* `NoUncaughtTrap` for more than one caller is false, so only the one-caller theorem is stated.

Out of TLAPS's reach in general: liveness and ENABLED, induction over data, and RECURSIVE operators.

## 5. Not modelled, and the plan

Not modelled, and why:
* `fr_panic_on_free`, `_panic_on_free` and `_fr_talloc_fault` call `fr_fault` directly, not through a signal.
  They are an extra entry into `Fault` still to be added.
* `fr_fault_set_log_fn`, `fr_fault_set_log_fd`, `_fr_fault_log` and `_fr_talloc_log` only route output.
* `fr_verify_vp` and `fr_verify_list` are excluded by the spec.
* Log formatting and backtrace symbolisation are output only. talloc, `fr_cbuff` and `fr_set_signal`
  are outside this file; `fr_cbuff` is modelled from the spec.
* Weak-memory reordering of the unlocked reads of `*cbuff`: the model publishes the pointer and
  the initialised buffer in one step.
* A partial failure of `fr_set_signal` during setup: installation always succeeds in the model.

Plan for later sittings:
1. Add the direct `fr_fault(SIGUSR1)` of `fr_panic_on_free` to `Fault`.
2. Add a setup write that a signal can interrupt halfway.
