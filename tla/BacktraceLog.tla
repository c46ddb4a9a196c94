---------------------------- MODULE BacktraceLog ----------------------------
(***************************************************************************)
(* What the backtrace registry of src/lib/debug.c promises (spec 4.2),     *)
(* with the lazy creation of the buffer and the ring taken as atomic:      *)
(*                                                                         *)
(*  - the first attach creates the one buffer of the handle;               *)
(*  - an attached object's marker refers to that buffer;                   *)
(*  - freeing a marked object appends a record to a log that keeps the     *)
(*    last Cap records, dropping the oldest;                               *)
(*  - printing takes records off the front of the log.                     *)
(*                                                                         *)
(* BacktraceRegistry refines this module.                                  *)
(***************************************************************************)
EXTENDS Naturals, Sequences

CONSTANTS
    Objs,       \* addresses of the talloc chunks markers are attached to
    Addrs,      \* addresses of fr_bt_info_t records
    Bufs,       \* addresses a circular buffer can be allocated at
    Cap,        \* records the circular buffer holds
    NULL,       \* the NULL pointer
    NoMarker    \* an object no marker is attached to

VARIABLES
    buf,        \* the static fr_cbuff_t pointer of the handle
    markers,    \* markers[o]: NoMarker, or the buffer its marker reports to
    log,        \* the records in the buffer, oldest first
    destroyed,  \* addresses whose object has been freed
    shown       \* what the last backtrace_print call printed

absVars == <<buf, markers, log, destroyed, shown>>

(***************************************************************************)
(* A record is known by its address: _fr_do_bt never sets bt->obj, which   *)
(* talloc_zero leaves NULL.  Its field "of" is a ghost naming the object   *)
(* whose destructor made it.  backtrace_print takes a pointer: an          *)
(* object's, a record's or NULL.                                           *)
(***************************************************************************)
PrintArgs == Objs \cup Addrs \cup {NULL}

NoShow == [arg |-> NULL, out |-> << >>]

\* Insertion into a full buffer drops the oldest record.
Push(s, r) == IF Len(s) = Cap THEN Append(Tail(s), r) ELSE Append(s, r)

(***************************************************************************)
(* The loop of backtrace_print over the records s: the records it prints   *)
(* and how many it takes off the buffer.  A record matches when it is the  *)
(* pointer arg (p == obj), or when arg is NULL; with a non-NULL argument   *)
(* the loop stops at the first match.                                      *)
(***************************************************************************)
Hits(s, arg) == {i \in 1 .. Len(s) : arg = NULL \/ s[i].addr = arg}

FirstHit(s, arg) == CHOOSE i \in Hits(s, arg) : \A j \in Hits(s, arg) : i <= j

Taken(s, arg) ==
    IF arg # NULL /\ Hits(s, arg) # {} THEN FirstHit(s, arg) ELSE Len(s)

Printed(s, arg) ==
    IF arg = NULL THEN s
    ELSE IF Hits(s, arg) # {} THEN <<s[FirstHit(s, arg)]>> ELSE << >>

AbsInit ==
    /\ buf = NULL
    /\ markers = [o \in Objs |-> NoMarker]
    /\ log = << >>
    /\ destroyed = {}
    /\ shown = NoShow

\* The buffer is created, once.
Create(b) ==
    /\ buf = NULL /\ b \in Bufs
    /\ buf' = b
    /\ UNCHANGED <<markers, log, destroyed, shown>>

\* A marker is attached; it reports to the buffer, or to NULL when none
\* could be created.
Attach(o) ==
    /\ markers[o] = NoMarker /\ o \notin destroyed
    /\ markers' = [markers EXCEPT ![o] = buf]
    /\ UNCHANGED <<buf, log, destroyed, shown>>

\* An object is freed; a marker reporting to the buffer may leave a record.
Free(o) ==
    /\ o \notin destroyed
    /\ destroyed' = destroyed \cup {o}
    /\ \/ log' = log
       \/ /\ markers[o] \in Bufs
          /\ \E a \in Addrs : log' = Push(log, [addr |-> a, of |-> o])
    /\ UNCHANGED <<buf, markers, shown>>

\* The allocator hands a freed address out again, as a new object.
Reuse(o) ==
    /\ o \in destroyed
    /\ destroyed' = destroyed \ {o}
    /\ markers' = [markers EXCEPT ![o] = NoMarker]
    /\ UNCHANGED <<buf, log, shown>>

BacktracePrint(arg) ==
    /\ buf # NULL
    /\ shown' = [arg |-> arg, out |-> Printed(log, arg)]
    /\ log' = SubSeq(log, Taken(log, arg) + 1, Len(log))
    /\ UNCHANGED <<buf, markers, destroyed>>

AbsNext ==
    \/ \E b \in Bufs : Create(b)
    \/ \E o \in Objs : Attach(o) \/ Free(o) \/ Reuse(o)
    \/ \E arg \in PrintArgs : BacktracePrint(arg)

AbsSpec == AbsInit /\ [][AbsNext]_absVars
=============================================================================
