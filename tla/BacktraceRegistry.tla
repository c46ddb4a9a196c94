-------------------------- MODULE BacktraceRegistry --------------------------
(***************************************************************************)
(* The backtrace registry of src/lib/debug.c (lines 60-74, 124-235):       *)
(* threads call fr_backtrace_attach on one static fr_cbuff_t pointer; the  *)
(* first ones race through the unlocked test of *cbuff, the fr_debug_init  *)
(* mutex and the second test; a marker's destructor (_fr_do_bt) inserts a *)
(* record into the circular buffer; backtrace_print reads records off it.  *)
(*                                                                         *)
(* The circular buffer (fr_cbuff_alloc, fr_cbuff_rp_insert,                *)
(* fr_cbuff_rp_next) is not part of this repository: it is modelled from   *)
(* the spec as a power-of-two array with an in and an out index, FIFO      *)
(* overwrite when full.  Its operations take the buffer's own lock (it is  *)
(* allocated with lock = true), so each is one step.                       *)
(***************************************************************************)
EXTENDS Naturals, Sequences

CONSTANTS
    Threads,        \* threads calling fr_backtrace_attach
    Objs, Addrs, Bufs, NULL, NoMarker,
    CbSize,         \* slots of the circular buffer (MAX_BT_CBUFF)
    NoOwner,        \* fr_debug_init is not held
    NoObj,          \* a thread is not inside fr_backtrace_attach
    AllocFailures   \* how many times fr_cbuff_alloc, talloc and talloc_zero
                    \* may return NULL in a behaviour

ASSUME BacktraceRegistryAssumption ==
    /\ CbSize \in {2, 4, 8, 16}
    /\ NULL \notin Objs \cup Addrs \cup Bufs
    /\ Objs \cap Addrs = {}
    /\ NoMarker \notin Bufs \cup {NULL}
    /\ NoOwner \notin Threads
    /\ NoObj \notin Objs
    /\ AllocFailures \in Nat

\* One slot stays empty so that in = out means empty.
Cap == CbSize - 1

VARIABLES
    cbuff,      \* *cbuff, the handle's static pointer
    allocated,  \* buffers fr_cbuff_alloc has returned
    rings,      \* rings[b]: the array and indices of buffer b
    lock,       \* the owner of fr_debug_init
    pc,         \* pc[t]: where thread t is in fr_backtrace_attach
    tobj,       \* tobj[t]: the object thread t is attaching
    markers,    \* markers[o]: NoMarker, or marker->cbuff of o's marker
    destroyed,  \* addresses whose object has been freed
    shown,      \* what the last backtrace_print call printed
    failures    \* allocations that have failed so far

vars == <<cbuff, allocated, rings, lock, pc, tobj, markers, destroyed,
          shown, failures>>

-----------------------------------------------------------------------------
(* The circular buffer, from the spec.                                     *)

Slots == 0 .. CbSize - 1

CbEmpty == [elem |-> [i \in Slots |-> NULL], in |-> 0, out |-> 0]

\* fr_cbuff_rp_insert: write at in, advance in; when in meets out the
\* oldest record is overwritten and out advances too.
CbInsert(cb, r) ==
    LET in2 == (cb.in + 1) % CbSize
    IN  [elem |-> [cb.elem EXCEPT ![cb.in] = r],
         in   |-> in2,
         out  |-> IF in2 = cb.out THEN (cb.out + 1) % CbSize ELSE cb.out]

\* The records fr_cbuff_rp_next will return, in order.
CbContents(cb) ==
    [k \in 1 .. (cb.in - cb.out + CbSize) % CbSize |->
        cb.elem[(cb.out + k - 1) % CbSize]]

\* Mutant: the read index is advanced without the wrap-around mask.
CbTakeNoWrap(cb, k) == [cb EXCEPT !.out = @ + k]

\* k calls of fr_cbuff_rp_next: the read index advances past k records.
CbTake(cb, k) == [cb EXCEPT !.out = (@ + k) % CbSize]

-----------------------------------------------------------------------------

Contents == IF cbuff \in Bufs THEN CbContents(rings[cbuff]) ELSE << >>

BL == INSTANCE BacktraceLog WITH buf <- cbuff, log <- Contents

Init ==
    /\ cbuff = NULL
    /\ allocated = {}
    /\ rings = [b \in Bufs |-> CbEmpty]
    /\ lock = NoOwner
    /\ pc = [t \in Threads |-> "idle"]
    /\ tobj = [t \in Threads |-> NoObj]
    /\ markers = [o \in Objs |-> NoMarker]
    /\ destroyed = {}
    /\ shown = BL!NoShow
    /\ failures = 0

Busy == {tobj[t] : t \in Threads}

\* fr_backtrace_attach is entered; the first, unlocked, test of *cbuff.
Attach(t, o) ==
    /\ pc[t] = "idle" /\ markers[o] = NoMarker
    /\ o \notin destroyed \cup Busy
    /\ tobj' = [tobj EXCEPT ![t] = o]
    /\ pc' = [pc EXCEPT ![t] = IF cbuff = NULL THEN "lock" ELSE "marker"]
    /\ UNCHANGED <<cbuff, allocated, rings, lock, markers, destroyed,
                   shown, failures>>

\* PTHREAD_MUTEX_LOCK(&fr_debug_init).
Lock(t) ==
    /\ pc[t] = "lock" /\ lock = NoOwner
    /\ lock' = t
    /\ pc' = [pc EXCEPT ![t] = "recheck"]
    /\ UNCHANGED <<cbuff, allocated, rings, tobj, markers, destroyed,
                   shown, failures>>

\* Mutant: the second test is dropped, as if *cbuff were still NULL.
RecheckSkip(t) ==
    /\ pc[t] = "recheck"
    /\ pc' = [pc EXCEPT ![t] = "alloc"]
    /\ UNCHANGED <<cbuff, allocated, rings, lock, tobj, markers,
                   destroyed, shown, failures>>

\* The second test of *cbuff, under the mutex.
Recheck(t) ==
    /\ pc[t] = "recheck"
    /\ pc' = [pc EXCEPT ![t] = IF cbuff = NULL THEN "alloc" ELSE "unlock"]
    /\ UNCHANGED <<cbuff, allocated, rings, lock, tobj, markers,
                   destroyed, shown, failures>>

\* A call may fail: talloc-style allocators return NULL.
MayFail == failures < AllocFailures

\* *cbuff = fr_cbuff_alloc(ctx, MAX_BT_CBUFF, true): NULL on failure, or
\* a new buffer.
Alloc(t) ==
    /\ pc[t] = "alloc"
    /\ \/ /\ MayFail /\ failures' = failures + 1
          /\ pc' = [pc EXCEPT ![t] = "unlock"]
          /\ UNCHANGED <<cbuff, allocated, rings>>
       \/ \E b \in Bufs \ allocated :
            /\ cbuff' = b
            /\ allocated' = allocated \cup {b}
            /\ rings' = [rings EXCEPT ![b] = CbEmpty]
            /\ pc' = [pc EXCEPT ![t] = "unlock"]
            /\ UNCHANGED failures
    /\ UNCHANGED <<lock, tobj, markers, destroyed, shown>>

\* Mutant: the path that finds *cbuff set misses the unlock.
UnlockKeep(t) ==
    /\ pc[t] = "unlock"
    /\ lock' = IF cbuff # NULL THEN lock ELSE NoOwner
    /\ pc' = [pc EXCEPT ![t] = "marker"]
    /\ UNCHANGED <<cbuff, allocated, rings, tobj, markers, destroyed,
                   shown, failures>>

\* PTHREAD_MUTEX_UNLOCK(&fr_debug_init).
Unlock(t) ==
    /\ pc[t] = "unlock"
    /\ lock' = NoOwner
    /\ pc' = [pc EXCEPT ![t] = "marker"]
    /\ UNCHANGED <<cbuff, allocated, rings, tobj, markers, destroyed,
                   shown, failures>>

\* talloc(obj, fr_bt_marker_t), marker->cbuff = *cbuff (a second unlocked
\* read), the destructor set; NULL is returned when talloc fails.
Marker(t) ==
    /\ pc[t] = "marker"
    /\ \/ markers' = [markers EXCEPT ![tobj[t]] = cbuff] /\ UNCHANGED failures
       \/ MayFail /\ failures' = failures + 1 /\ UNCHANGED markers
    /\ pc' = [pc EXCEPT ![t] = "idle"]
    /\ tobj' = [tobj EXCEPT ![t] = NoObj]
    /\ UNCHANGED <<cbuff, allocated, rings, lock, destroyed, shown>>

(***************************************************************************)
(* talloc_free of an object runs its marker's destructor _fr_do_bt: the    *)
(* fr_assert on marker->cbuff, talloc_zero of the record, its insertion.   *)
(* A destructor that returns -1 leaves no record; talloc still frees the   *)
(* object and keeps the marker.                                            *)
(***************************************************************************)
Free(o) ==
    /\ o \notin destroyed \cup Busy
    /\ destroyed' = destroyed \cup {o}
    /\ \/ /\ markers[o] \notin Bufs
          /\ UNCHANGED <<rings, failures>>
       \/ /\ markers[o] \in Bufs /\ MayFail
          /\ failures' = failures + 1 /\ UNCHANGED rings
       \/ \E a \in Addrs :
            /\ markers[o] \in Bufs
            /\ rings' = [rings EXCEPT ![markers[o]] = CbInsert(@, [addr |-> a, of |-> o])]
            /\ UNCHANGED failures
    /\ UNCHANGED <<cbuff, allocated, lock, pc, tobj, markers, shown>>

\* The allocator hands a freed address out again, as a new object.
Reuse(o) ==
    /\ o \in destroyed
    /\ destroyed' = destroyed \ {o}
    /\ markers' = [markers EXCEPT ![o] = NoMarker]
    /\ UNCHANGED <<cbuff, allocated, rings, lock, pc, tobj, shown,
                   failures>>

\* backtrace_print(*cbuff, arg), from the debugger.
BacktracePrint(arg) ==
    /\ cbuff # NULL
    /\ LET s == CbContents(rings[cbuff])
       IN  /\ shown' = [arg |-> arg, out |-> BL!Printed(s, arg)]
           /\ rings' = [rings EXCEPT ![cbuff] = CbTake(@, BL!Taken(s, arg))]
    /\ UNCHANGED <<cbuff, allocated, lock, pc, tobj, markers,
                   destroyed, failures>>

Step(t) == Lock(t) \/ Recheck(t) \/ Alloc(t) \/ Unlock(t)
           \/ Marker(t)

Next ==
    \/ \E t \in Threads : Step(t) \/ \E o \in Objs : Attach(t, o)
    \/ \E o \in Objs : Free(o) \/ Reuse(o)
    \/ \E arg \in BL!PrintArgs : BacktracePrint(arg)

\* A thread inside fr_backtrace_attach is scheduled; the mutex is a
\* pthread mutex whose holder always releases it.
Spec == Init /\ [][Next]_vars /\ \A t \in Threads : WF_vars(Step(t))

-----------------------------------------------------------------------------
(* Properties.                                                             *)

TypeOK ==
    /\ cbuff \in Bufs \cup {NULL}
    /\ allocated \subseteq Bufs /\ failures \in 0 .. AllocFailures
    /\ lock \in Threads \cup {NoOwner}
    /\ tobj \in [Threads -> Objs \cup {NoObj}]
    /\ markers \in [Objs -> Bufs \cup {NULL, NoMarker}]
    /\ destroyed \subseteq Objs
    /\ \A b \in Bufs : rings[b].in \in Slots /\ rings[b].out \in Slots

(***************************************************************************)
(* The double-checked creation under fr_debug_init, the markers' second    *)
(* read of *cbuff and the circular buffer together behave as the atomic    *)
(* registry of BacktraceLog: one buffer per handle, every marker bound to  *)
(* it, FIFO eviction of the oldest record, print taking records in order.  *)
(***************************************************************************)
Refinement == BL!AbsSpec

(***************************************************************************)
(* Every call of fr_backtrace_attach returns: no thread waits for ever on  *)
(* fr_debug_init, whatever the interleaving of the first calls.            *)
(***************************************************************************)
AttachCompletes == \A t \in Threads : pc[t] # "idle" ~> pc[t] = "idle"

(***************************************************************************)
(* Spec section 8, end to end: after an object with a marker is freed,     *)
(* backtrace_print with that object's address prints its record, as long  *)
(* as the record is still in the buffer.                                   *)
(***************************************************************************)
PrintFindsFreed ==
    [][\A o \in Objs :
         (BacktracePrint(o) /\ \E i \in DOMAIN Contents : Contents[i].of = o)
            => shown'.out # << >>]_vars

=============================================================================
