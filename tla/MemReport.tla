----------------------------- MODULE MemReport -----------------------------
(***************************************************************************)
(* The memory report of src/lib/debug.c: fr_log_talloc_report (577-612)    *)
(* dups fr_fault_log_fd, wraps it with fdopen, reports one talloc context  *)
(* per level up the parent chain and fcloses; _fr_fault_mem_report         *)
(* (618-623), the SIGUSR2 handler fr_fault_setup installs, runs it for the *)
(* root context.                                                           *)
(*                                                                         *)
(* The application thread runs reports of its own and other code that      *)
(* allocates.  fdopen, fprintf, talloc_report_full and fclose allocate or  *)
(* free, under the malloc lock, which is not recursive: "heap" is its      *)
(* holder.  SIGUSR2 may arrive whenever the application runs; the handler  *)
(* runs to its end before the application resumes, and SIGUSR2 is blocked  *)
(* while it runs.                                                          *)
(***************************************************************************)
EXTENDS Naturals, Sequences, FiniteSets, Relation

CONSTANTS
    Ctxs,       \* talloc contexts
    Parent,     \* talloc_parent: Parent[c] is a context or NULL
    NullCtx,    \* the null_context chunk, named talloc_get_name(NULL)
    NULL,
    MayFail     \* dup and fdopen may fail

ASSUME MemReportAssumption ==
    /\ NullCtx \in Ctxs /\ NULL \notin Ctxs
    /\ Parent \in [Ctxs -> Ctxs \cup {NULL}]
    /\ MayFail \in BOOLEAN

VARIABLES
    open,       \* descriptors the reports hold (dup'd, or inside a FILE)
    heap,       \* holder of the malloc lock: "none", "app" or "handler"
    app,        \* the application thread: [pc, ctx, levels, arg]
    hpc         \* where the SIGUSR2 handler is, "none" when not running

mrVars == <<open, heap, app, hpc>>

Idle == [pc |-> "idle", ctx |-> NULL, levels |-> << >>, arg |-> NULL]

MrInit ==
    /\ open = 0
    /\ heap = "none"
    /\ app = Idle
    /\ hpc = "none"

\* The application runs only while no handler is on its stack.
AppRuns == hpc = "none"

\* Other application code enters malloc, and leaves it.
AppMalloc ==
    /\ AppRuns /\ app.pc = "idle" /\ heap = "none"
    /\ heap' = "app" /\ app' = [app EXCEPT !.pc = "malloc"]
    /\ UNCHANGED <<open, hpc>>

AppMallocDone ==
    /\ AppRuns /\ app.pc = "malloc"
    /\ heap' = "none" /\ app' = [app EXCEPT !.pc = "idle"]
    /\ UNCHANGED <<open, hpc>>

\* fr_log_talloc_report(ctx) is called, ctx a context or NULL.
ReportStart(c) ==
    /\ AppRuns /\ app.pc = "idle"
    /\ app' = [pc |-> "dup", ctx |-> c, levels |-> << >>, arg |-> c]
    /\ UNCHANGED <<open, heap, hpc>>

\* fd = dup(fr_fault_log_fd); -1 is returned when it fails.
Dup ==
    /\ AppRuns /\ app.pc = "dup"
    /\ \/ open' = open + 1 /\ app' = [app EXCEPT !.pc = "fdopen"]
       \/ MayFail /\ app' = Idle /\ UNCHANGED open
    /\ UNCHANGED <<heap, hpc>>

(***************************************************************************)
(* The steps below allocate or free: each takes and drops the malloc lock, *)
(* so each needs it free.                                                  *)
(***************************************************************************)

\* Mutant: the fdopen failure path returns without close(fd).
FdopenNoClose ==
    /\ AppRuns /\ app.pc = "fdopen" /\ heap = "none"
    /\ \/ app' = [app EXCEPT !.pc = "walk"]
       \/ MayFail /\ app' = Idle
    /\ UNCHANGED <<open, heap, hpc>>

\* log = fdopen(fd, "w"); on failure the fd is closed and -1 returned.
Fdopen ==
    /\ AppRuns /\ app.pc = "fdopen" /\ heap = "none"
    /\ \/ app' = [app EXCEPT !.pc = "walk"] /\ UNCHANGED open
       \/ MayFail /\ open' = open - 1 /\ app' = Idle
    /\ UNCHANGED <<heap, hpc>>

\* Mutant: the walk stops only at a NULL parent.
WalkToNull ==
    /\ AppRuns /\ app.pc = "walk" /\ heap = "none"
    /\ LET c == app.ctx
           done == c = NULL \/ Parent[c] = NULL
       IN  app' = [app EXCEPT !.levels = Append(@, c),
                              !.ctx = IF done THEN NULL ELSE Parent[c],
                              !.pc = IF done THEN "close" ELSE "walk"]
    /\ UNCHANGED <<open, heap, hpc>>

(***************************************************************************)
(* One level of the report: talloc_report_full(ctx, log), then the test    *)
(* (ctx = talloc_parent(ctx)) && talloc_get_name(ctx) != null_ctx.  With   *)
(* ctx NULL there is a single report of the root.                          *)
(***************************************************************************)
Walk ==
    /\ AppRuns /\ app.pc = "walk" /\ heap = "none"
    /\ LET c == app.ctx
           done == c = NULL \/ Parent[c] \in {NULL, NullCtx}
       IN  app' = [app EXCEPT !.levels = Append(@, c),
                              !.ctx = IF done THEN NULL ELSE Parent[c],
                              !.pc = IF done THEN "close" ELSE "walk"]
    /\ UNCHANGED <<open, heap, hpc>>

\* fclose(log), which closes the fd; 0 is returned.
Fclose ==
    /\ AppRuns /\ app.pc = "close" /\ heap = "none"
    /\ open' = open - 1
    /\ app' = Idle
    /\ UNCHANGED <<heap, hpc>>

\* SIGUSR2 is delivered: _fr_fault_mem_report calls fr_log_talloc_report(NULL).
Sigusr2 ==
    /\ AppRuns
    /\ hpc' = "dup"
    /\ UNCHANGED <<open, heap, app>>

\* The handler's report, step by step; it fails and returns on the same paths.
HandlerDup ==
    /\ hpc = "dup"
    /\ \/ open' = open + 1 /\ hpc' = "fdopen"
       \/ MayFail /\ hpc' = "none" /\ UNCHANGED open
    /\ UNCHANGED <<heap, app>>

HandlerFdopen ==
    /\ hpc = "fdopen" /\ heap = "none"
    /\ \/ hpc' = "report" /\ UNCHANGED open
       \/ MayFail /\ open' = open - 1 /\ hpc' = "none"
    /\ UNCHANGED <<heap, app>>

HandlerReport ==
    /\ hpc = "report" /\ heap = "none"
    /\ hpc' = "close"
    /\ UNCHANGED <<open, heap, app>>

HandlerFclose ==
    /\ hpc = "close" /\ heap = "none"
    /\ open' = open - 1 /\ hpc' = "none"
    /\ UNCHANGED <<heap, app>>

HandlerStep == HandlerDup \/ HandlerFdopen \/ HandlerReport \/ HandlerFclose

MrNext ==
    \/ AppMalloc \/ AppMallocDone \/ \E c \in Ctxs \cup {NULL} : ReportStart(c)
    \/ Dup \/ Fdopen \/ Walk \/ Fclose
    \/ Sigusr2 \/ HandlerStep

\* A handler that can take a step is scheduled: it holds the thread.
MrSpec == MrInit /\ [][MrNext]_mrVars /\ WF_mrVars(HandlerStep)

-----------------------------------------------------------------------------
(* Properties.                                                             *)

(***************************************************************************)
(* Spec 4.5: the report closes the duplicated descriptor on every exit     *)
(* path: whenever neither the application nor the handler is inside a      *)
(* report, no descriptor is held, whichever step failed and however the    *)
(* two reports interleaved.                                                *)
(***************************************************************************)
FdsReleased ==
    app.pc \in {"idle", "malloc"} /\ hpc = "none" => open = 0

\* The contexts above c: the transitive closure of talloc_parent.
Above(c) ==
    LET R == [x, y \in Ctxs |-> Parent[x] = y]
    IN  {d \in Ctxs : TransitiveClosure(R, Ctxs)[c, d]}

(***************************************************************************)
(* Spec 4.5: a report for a context covers the context and each of its    *)
(* ancestors once, bottom up, and stops just before the null context.      *)
(***************************************************************************)
WalkStopsBeforeNull ==
    app.pc = "close" /\ app.arg # NULL =>
        /\ app.levels[1] = app.arg
        /\ Len(app.levels) = Cardinality({app.arg} \cup (Above(app.arg) \ {NullCtx}))
        /\ {app.levels[i] : i \in 1 .. Len(app.levels)}
              = {app.arg} \cup (Above(app.arg) \ {NullCtx})

(***************************************************************************)
(* Spec section 5: a signal handler must not take a lock the interrupted   *)
(* thread may hold.  Every SIGUSR2 report returns to the application.      *)
(***************************************************************************)
HandlerReturns == hpc # "none" ~> hpc = "none"
=============================================================================
