--------------------------- MODULE BacktraceProofs ---------------------------
(***************************************************************************)
(* TLAPS proofs about the backtrace registry: BacktraceRegistry is type    *)
(* correct and implements the abstract registry BacktraceLog under the     *)
(* refinement mapping buf <- cbuff, log <- Contents, for every number of   *)
(* threads, objects and buffer addresses and every ring size.              *)
(***************************************************************************)
EXTENDS BacktraceRegistry, WellFoundedInduction, SequenceTheorems, TLAPS

-----------------------------------------------------------------------------
(* Arithmetic of the ring indices.                                         *)

LEMMA SizeFacts == CbSize \in Nat /\ CbSize >= 2 /\ Cap = CbSize - 1
BY BacktraceRegistryAssumption DEF Cap

\* An index sum below two turns of the ring wraps at most once.
LEMMA ModOnce ==
    ASSUME NEW x \in 0 .. 2 * CbSize - 1
    PROVE  x % CbSize = IF x < CbSize THEN x ELSE x - CbSize
BY SizeFacts


-----------------------------------------------------------------------------
(* The circular buffer: what CbContents makes of CbInsert, CbTake and      *)
(* CbEmpty.  These are the facts the refinement rests on.                  *)

\* A record _fr_do_bt inserts; an array slot holds one or NULL.
Elems == [addr : Addrs, of : Objs]
Ring == [elem : [Slots -> Elems \cup {NULL}], in : Slots, out : Slots]

\* The number of records between the read and the write index.
RLen(cb) == (cb.in - cb.out + CbSize) % CbSize

\* The slot of the k-th record, counting from the read index.
Pos(cb, k) == (cb.out + k - 1) % CbSize

LEMMA RLenVal ==
    ASSUME NEW cb \in Ring
    PROVE  /\ RLen(cb) = IF cb.in >= cb.out THEN cb.in - cb.out
                                            ELSE cb.in - cb.out + CbSize
           /\ RLen(cb) \in 0 .. Cap
<1> DEFINE x == cb.in - cb.out + CbSize
<1>1. x \in 0 .. 2 * CbSize - 1 BY SizeFacts DEF Ring, Slots
<1>2. x % CbSize = IF x < CbSize THEN x ELSE x - CbSize BY <1>1, ModOnce
<1>3. QED BY <1>2, SizeFacts DEF Ring, Slots, RLen

\* The records occupy the slots from out up to, and not including, in.
LEMMA PosVal ==
    ASSUME NEW cb \in Ring, NEW k \in 1 .. RLen(cb) + 1
    PROVE  /\ Pos(cb, k) \in Slots
           /\ k <= RLen(cb) => Pos(cb, k) # cb.in
           /\ k = RLen(cb) + 1 => Pos(cb, k) = cb.in
<1> DEFINE x == cb.out + k - 1
<1>1. RLen(cb) \in 0 .. Cap /\ cb.out \in Slots /\ cb.in \in Slots
      BY RLenVal DEF Ring
<1>2. x \in 0 .. 2 * CbSize - 1 BY <1>1, SizeFacts DEF Slots
<1>3. x % CbSize = IF x < CbSize THEN x ELSE x - CbSize BY <1>2, ModOnce
<1>4. QED BY <1>1, <1>3, RLenVal, SizeFacts DEF Slots, Pos

LEMMA ContentsDef ==
    ASSUME NEW cb \in Ring
    PROVE  /\ CbContents(cb) = [k \in 1 .. RLen(cb) |-> cb.elem[Pos(cb, k)]]
           /\ CbContents(cb) \in Seq(Elems \cup {NULL})
           /\ Len(CbContents(cb)) = RLen(cb)
<1>1. CbContents(cb) = [k \in 1 .. RLen(cb) |-> cb.elem[Pos(cb, k)]]
      BY DEF CbContents, RLen, Pos
<1>2. \A k \in 1 .. RLen(cb) : cb.elem[Pos(cb, k)] \in Elems \cup {NULL}
      BY RLenVal, PosVal DEF Ring
<1>3. RLen(cb) \in Nat BY RLenVal, SizeFacts
<1>. QED BY <1>1, <1>2, <1>3

LEMMA EmptyContents == CbEmpty \in Ring /\ CbContents(CbEmpty) = << >>
BY SizeFacts DEF CbEmpty, CbContents, Ring, Slots

\* What fr_cbuff_rp_insert does to the indices and the array.
LEMMA InsertFields ==
    ASSUME NEW cb \in Ring, NEW r \in Elems
    PROVE  /\ CbInsert(cb, r) \in Ring
           /\ CbInsert(cb, r).elem = [cb.elem EXCEPT ![cb.in] = r]
           /\ RLen(cb) < Cap => CbInsert(cb, r).out = cb.out
           /\ RLen(cb) < Cap => RLen(CbInsert(cb, r)) = RLen(cb) + 1
           /\ RLen(cb) = Cap => CbInsert(cb, r).out = (cb.out + 1) % CbSize
           /\ RLen(cb) = Cap => RLen(CbInsert(cb, r)) = Cap
<1> DEFINE y == cb.in + 1
           z == cb.out + 1
<1>1. y \in 0 .. 2 * CbSize - 1 /\ z \in 0 .. 2 * CbSize - 1
      BY SizeFacts DEF Ring, Slots
<1>2. y % CbSize = IF y < CbSize THEN y ELSE y - CbSize BY <1>1, ModOnce
<1>3. z % CbSize = IF z < CbSize THEN z ELSE z - CbSize BY <1>1, ModOnce
<1>0. RLen(cb) = IF cb.in >= cb.out THEN cb.in - cb.out
                                     ELSE cb.in - cb.out + CbSize
      BY RLenVal
<1>4. (y % CbSize = cb.out) <=> RLen(cb) = Cap
      BY <1>0, <1>2, SizeFacts DEF Ring, Slots
<1>5. /\ CbInsert(cb, r).elem = [cb.elem EXCEPT ![cb.in] = r]
      /\ CbInsert(cb, r).in = y % CbSize
      /\ CbInsert(cb, r).out = IF y % CbSize = cb.out THEN z % CbSize
                                                    ELSE cb.out
      /\ CbInsert(cb, r) = [elem |-> CbInsert(cb, r).elem,
                            in |-> CbInsert(cb, r).in,
                            out |-> CbInsert(cb, r).out]
      BY DEF CbInsert
<1>6. CbInsert(cb, r) \in Ring
  <2>1. [cb.elem EXCEPT ![cb.in] = r] \in [Slots -> Elems \cup {NULL}]
        BY DEF Ring
  <2>2. y % CbSize \in Slots /\ z % CbSize \in Slots
        BY <1>1, <1>2, <1>3, SizeFacts DEF Slots
  <2>3. QED BY <1>5, <2>1, <2>2 DEF Ring
<1> DEFINE c2 == CbInsert(cb, r)
<1>7. RLen(c2) = IF c2.in >= c2.out THEN c2.in - c2.out
                                    ELSE c2.in - c2.out + CbSize
      BY <1>6, RLenVal
<1>8. c2.in = y % CbSize /\ c2.elem = [cb.elem EXCEPT ![cb.in] = r]
      BY <1>5
<1>9. RLen(cb) < Cap => c2.out = cb.out BY <1>4, <1>5, SizeFacts DEF c2
<1>10. RLen(cb) = Cap => c2.out = z % CbSize BY <1>4, <1>5, SizeFacts DEF c2
<1>11. RLen(cb) < Cap => RLen(c2) = RLen(cb) + 1
       BY <1>0, <1>2, <1>7, <1>8, <1>9, SizeFacts DEF Ring, Slots
<1>12. RLen(cb) = Cap => RLen(c2) = Cap
  <2> SUFFICES ASSUME RLen(cb) = Cap PROVE RLen(c2) = Cap
      OBVIOUS
  <2>1. c2.in = cb.out BY <1>4, <1>8
  <2>2. c2.out = IF cb.out + 1 < CbSize THEN cb.out + 1 ELSE 0
        BY <1>3, <1>10, SizeFacts DEF Ring, Slots, z
  <2>3. QED BY <2>1, <2>2, <1>7, SizeFacts DEF Ring, Slots
<1>13. QED BY <1>6, <1>8, <1>9, <1>10, <1>11, <1>12

\* Inserting into a buffer with room appends the record.
LEMMA InsertNotFull ==
    ASSUME NEW cb \in Ring, NEW r \in Elems, RLen(cb) < Cap
    PROVE  CbContents(CbInsert(cb, r)) = Append(CbContents(cb), r)
<1> DEFINE c2 == CbInsert(cb, r)
           n == RLen(cb)
<1>1. c2 \in Ring /\ c2.out = cb.out /\ RLen(c2) = n + 1
      /\ c2.elem = [cb.elem EXCEPT ![cb.in] = r]
      BY InsertFields
<1>2. n \in Nat BY RLenVal, SizeFacts
<1>3. \A k \in 1 .. n + 1 : Pos(c2, k) = Pos(cb, k)
      BY <1>1 DEF Pos
<1>4. \A k \in 1 .. n + 1 :
         c2.elem[Pos(c2, k)] = IF k <= n THEN cb.elem[Pos(cb, k)] ELSE r
      BY <1>1, <1>2, <1>3, PosVal DEF Ring
<1>5. CbContents(c2) = [k \in 1 .. n + 1 |-> c2.elem[Pos(c2, k)]]
      BY <1>1, ContentsDef
<1>6. CbContents(cb) = [k \in 1 .. n |-> cb.elem[Pos(cb, k)]]
      BY ContentsDef
<1>7. QED BY <1>2, <1>4, <1>5, <1>6

\* Advancing the read index by j shifts every position by j.
LEMMA PosShift ==
    ASSUME NEW c1 \in Ring, NEW c2 \in Ring, NEW j \in 0 .. CbSize,
           c2.out = (c1.out + j) % CbSize,
           NEW k \in 1 .. CbSize - j
    PROVE  Pos(c2, k) = Pos(c1, k + j)
<1> DEFINE pa == c1.out + j
           pb == c2.out + k - 1
           pc1 == c1.out + k + j - 1
<1>0. c1.out \in 0 .. CbSize - 1 /\ c2.out \in 0 .. CbSize - 1
      BY DEF Ring, Slots
<1>1. pa \in 0 .. 2 * CbSize - 1 /\ pc1 \in 0 .. 2 * CbSize - 1
      BY <1>0, SizeFacts DEF pa, pc1
<1>2. pa % CbSize = IF pa < CbSize THEN pa ELSE pa - CbSize BY <1>1, ModOnce
<1>3. pc1 % CbSize = IF pc1 < CbSize THEN pc1 ELSE pc1 - CbSize BY <1>1, ModOnce
<1>4. pb \in 0 .. 2 * CbSize - 1 BY <1>0, SizeFacts DEF pb
<1>5. pb % CbSize = IF pb < CbSize THEN pb ELSE pb - CbSize BY <1>4, ModOnce
<1>6. c2.out = IF pa < CbSize THEN pa ELSE pa - CbSize BY <1>2 DEF pa
<1>7. Pos(c2, k) = pb % CbSize BY <1>0, SizeFacts DEF Pos, pb
<1>8. Pos(c1, k + j) = pc1 % CbSize BY <1>0, SizeFacts DEF Pos, pc1
<1>9. pb = IF pa < CbSize THEN pc1 ELSE pc1 - CbSize BY <1>0, <1>6, SizeFacts DEF pa, pb, pc1
<1>10. QED BY <1>1, <1>3, <1>4, <1>5, <1>7, <1>8, <1>9, SizeFacts

\* Append as a function on 1 .. Len(t) + 1.
LEMMA AppendFcn ==
    ASSUME NEW t \in Seq(Elems \cup {NULL}), NEW e \in Elems \cup {NULL}
    PROVE  Append(t, e) = [k \in 1 .. Len(t) + 1 |-> IF k <= Len(t) THEN t[k] ELSE e]
<1> DEFINE a == Append(t, e)
<1>1. /\ a \in Seq(Elems \cup {NULL})
      /\ Len(a) = Len(t) + 1
      /\ \A i \in 1 .. Len(t) : a[i] = t[i]
      /\ a[Len(t) + 1] = e
      BY AppendProperties DEF a
<1>2. DOMAIN a = 1 .. Len(t) + 1 /\ a = [k \in DOMAIN a |-> a[k]]
      BY <1>1, LenProperties
<1>3. Len(t) \in Nat BY LenProperties
<1>4. QED BY <1>1, <1>2, <1>3

\* Inserting into a full buffer overwrites the oldest record.
LEMMA InsertFull ==
    ASSUME NEW cb \in Ring, NEW r \in Elems, RLen(cb) = Cap
    PROVE  CbContents(CbInsert(cb, r)) = Append(Tail(CbContents(cb)), r)
<1> DEFINE c2 == CbInsert(cb, r)
           s == CbContents(cb)
           t == Tail(s)
           m == Cap - 1
<1>1. c2 \in Ring /\ c2.out = (cb.out + 1) % CbSize /\ RLen(c2) = Cap
      /\ c2.elem = [cb.elem EXCEPT ![cb.in] = r]
      BY InsertFields
<1>2. Cap \in Nat /\ Cap >= 1 /\ m \in Nat /\ m + 1 = Cap BY SizeFacts DEF m
<1>3. \A k \in 1 .. Cap : Pos(c2, k) = Pos(cb, k + 1)
      BY <1>1, SizeFacts, PosShift
<1>4. \A k \in 1 .. Cap :
         c2.elem[Pos(c2, k)] = IF k < Cap THEN cb.elem[Pos(cb, k + 1)] ELSE r
      BY <1>1, <1>2, <1>3, PosVal DEF Ring
<1>5. s = [k \in 1 .. Cap |-> cb.elem[Pos(cb, k)]] /\ s \in Seq(Elems \cup {NULL})
      /\ Len(s) = Cap
      BY ContentsDef
<1>6. t = [k \in 1 .. m |-> cb.elem[Pos(cb, k + 1)]]
      BY <1>2, <1>5 DEF t, m
<1>7. CbContents(c2) = [k \in 1 .. Cap |-> c2.elem[Pos(c2, k)]]
      BY <1>1, ContentsDef
<1>8. t \in Seq(Elems \cup {NULL}) /\ Len(t) = m
      BY <1>2, <1>5, <1>6
<1>13. t \in Seq(Elems \cup {NULL}) BY <1>8
<1>9. Append(t, r) = [k \in 1 .. m + 1 |-> IF k <= m THEN t[k] ELSE r]
  <2>1. Append(t, r) = [k \in 1 .. Len(t) + 1 |-> IF k <= Len(t) THEN t[k] ELSE r]
        <3>1. r \in Elems \cup {NULL} OBVIOUS
        <3>2. QED BY <1>13, <3>1, AppendFcn
  <2>2. QED BY <2>1, <1>8, Zenon
<1>10. \A k \in 1 .. Cap : (IF k <= m THEN t[k] ELSE r) = c2.elem[Pos(c2, k)]
  <2> TAKE k \in 1 .. Cap
  <2>1. CASE k <= m
        <3>1. t[k] = cb.elem[Pos(cb, k + 1)]
          <4>1. k \in 1 .. m BY <2>1, <1>2
          <4>2. QED BY <4>1, <1>6, Zenon
        <3>2. k < Cap BY <2>1, <1>2
        <3>3. QED BY <2>1, <3>1, <3>2, <1>4
  <2>2. CASE ~(k <= m)
        <3>1. k = Cap BY <2>2, <1>2
        <3>2. QED BY <2>2, <3>1, <1>4, <1>2
  <2>3. QED BY <2>1, <2>2
<1>11. 1 .. m + 1 = 1 .. Cap BY <1>2
<1>12. QED BY <1>7, <1>9, <1>10, <1>11, Zenon

\* Together: CbInsert behaves as BacktraceLog's Push.
LEMMA InsertPush ==
    ASSUME NEW cb \in Ring, NEW r \in Elems
    PROVE  /\ CbInsert(cb, r) \in Ring
           /\ CbContents(CbInsert(cb, r)) = BL!Push(CbContents(cb), r)
<1>1. Len(CbContents(cb)) = RLen(cb) /\ RLen(cb) \in 0 .. Cap
      BY ContentsDef, RLenVal
<1>2. CASE RLen(cb) = Cap BY <1>1, <1>2, InsertFull, InsertFields DEF BL!Push
<1>3. CASE RLen(cb) # Cap
  <2>1. RLen(cb) < Cap BY <1>1, <1>3, SizeFacts
  <2>2. Len(CbContents(cb)) # Cap BY <1>1, <2>1
  <2>3. CbContents(CbInsert(cb, r)) = Append(CbContents(cb), r)
        BY <2>1, InsertNotFull
  <2>4. QED BY <2>2, <2>3, InsertFields DEF BL!Push
<1>4. QED BY <1>2, <1>3

\* k calls of fr_cbuff_rp_next drop the first k records.
LEMMA TakeSubSeq ==
    ASSUME NEW cb \in Ring, NEW k \in 0 .. RLen(cb)
    PROVE  /\ CbTake(cb, k) \in Ring
           /\ CbContents(CbTake(cb, k))
                = SubSeq(CbContents(cb), k + 1, Len(CbContents(cb)))
<1> DEFINE c2 == CbTake(cb, k)
           n == RLen(cb)
           a == cb.out + k
<1>1. n \in 0 .. Cap BY RLenVal
<1>2. a \in 0 .. 2 * CbSize - 1 BY <1>1, SizeFacts DEF Ring, Slots
<1>3. a % CbSize = IF a < CbSize THEN a ELSE a - CbSize BY <1>2, ModOnce
<1>4. c2 = [elem |-> cb.elem, in |-> cb.in, out |-> a % CbSize]
      BY DEF CbTake, Ring
<1>5. c2 \in Ring BY <1>3, <1>4, SizeFacts DEF Ring, Slots
<1>6. RLen(c2) = n - k
  <2>1. RLen(c2) = IF c2.in >= c2.out THEN c2.in - c2.out
                                      ELSE c2.in - c2.out + CbSize
        BY <1>5, RLenVal
  <2>2. n = IF cb.in >= cb.out THEN cb.in - cb.out ELSE cb.in - cb.out + CbSize
        BY RLenVal
  <2>3. c2.in = cb.in /\ c2.out = IF a < CbSize THEN a ELSE a - CbSize
        BY <1>3, <1>4
  <2>4. cb.in \in 0 .. CbSize - 1 /\ cb.out \in 0 .. CbSize - 1 /\ k \in 0 .. n
        BY DEF Ring, Slots, n
  <2>5. QED BY <1>1, <2>1, <2>2, <2>3, <2>4, SizeFacts DEF a, n
<1>7. \A j \in 1 .. n - k : Pos(c2, j) = Pos(cb, j + k)
      BY <1>1, <1>4, <1>5, SizeFacts, PosShift
<1>8. CbContents(c2) = [j \in 1 .. n - k |-> cb.elem[Pos(cb, j + k)]]
      BY <1>4, <1>5, <1>6, <1>7, ContentsDef
<1>9. CbContents(cb) = [j \in 1 .. n |-> cb.elem[Pos(cb, j)]]
      /\ Len(CbContents(cb)) = n
      BY ContentsDef
<1>10. QED BY <1>1, <1>5, <1>8, <1>9, SizeFacts

-----------------------------------------------------------------------------
(* backtrace_print's loop: the first match is a match.                     *)

\* A non-empty set of naturals has a least element.
LEMMA NatMin ==
    ASSUME NEW T, T \subseteq Nat, T # {}
    PROVE  \E x \in T : \A y \in T : x <= y
<1> DEFINE R == OpToRel(<, Nat)
<1>1. \E x \in T : \A y \in T : ~(<<y, x>> \in R)
      BY NatLessThanWellFounded, WFMin, Zenon
<1>2. PICK x \in T : \A y \in T : ~(<<y, x>> \in R) BY <1>1
<1>3. ASSUME NEW y \in T PROVE x <= y
  <2>1. y \in Nat /\ x \in Nat OBVIOUS
  <2>2. y < x => <<y, x>> \in Nat \X Nat /\ <<y, x>>[1] < <<y, x>>[2]
        BY <2>1
  <2>3. y < x => <<y, x>> \in R BY <2>2, Zenon DEF R, OpToRel
  <2>4. ~(<<y, x>> \in R) BY <1>2, Zenon
  <2>5. ~(y < x) BY <2>3, <2>4, Zenon
  <2>6. QED BY <2>1, <2>5
<1>4. QED BY <1>3

\* The loop takes between none and all of the records.
LEMMA TakenVal ==
    ASSUME NEW s \in Seq(Elems \cup {NULL}), NEW arg
    PROVE  BL!Taken(s, arg) \in 0 .. Len(s)
<1>1. BL!Hits(s, arg) \subseteq 1 .. Len(s) BY DEF BL!Hits
<1>2. CASE arg # NULL /\ BL!Hits(s, arg) # {}
  <2>1. \E x \in BL!Hits(s, arg) : \A y \in BL!Hits(s, arg) : x <= y
        BY <1>1, <1>2, NatMin
  <2>2. BL!FirstHit(s, arg) \in BL!Hits(s, arg)
        BY <2>1 DEF BL!FirstHit
  <2>3. QED BY <1>1, <1>2, <2>2 DEF BL!Taken
<1>3. CASE ~(arg # NULL /\ BL!Hits(s, arg) # {})
      BY <1>3 DEF BL!Taken
<1>4. QED BY <1>2, <1>3

-----------------------------------------------------------------------------
(* The registry's inductive invariant.                                     *)

PCs == {"idle", "lock", "recheck", "alloc", "unlock", "marker"}

\* Where a thread holds fr_debug_init.
Locked == {"recheck", "alloc", "unlock"}

(***************************************************************************)
(* TypeOK is not inductive, and the refinement needs more: a thread about  *)
(* to allocate holds fr_debug_init and has seen *cbuff NULL under it; the  *)
(* mutex has one owner; every marker that reports to a buffer reports to   *)
(* *cbuff; an object being attached has no marker, is not freed, and is    *)
(* attached by one thread only.                                            *)
(***************************************************************************)
IInv ==
    /\ TypeOK
    /\ rings \in [Bufs -> Ring]
    /\ pc \in [Threads -> PCs]
    /\ \A t \in Threads : lock = t <=> pc[t] \in Locked
    /\ \A t \in Threads : pc[t] = "alloc" => cbuff = NULL
    /\ \A o \in Objs : markers[o] \in Bufs => markers[o] = cbuff
    /\ \A t \in Threads : pc[t] = "idle" <=> tobj[t] = NoObj
    /\ \A t \in Threads : pc[t] # "idle" =>
          /\ tobj[t] \in Objs /\ markers[tobj[t]] = NoMarker
          /\ tobj[t] \notin destroyed
    /\ \A t, u \in Threads :
          t # u /\ pc[t] # "idle" /\ pc[u] # "idle" => tobj[t] # tobj[u]

LEMMA InitIInv == Init => IInv
<1> SUFFICES ASSUME Init PROVE IInv
    OBVIOUS
<1>1. rings \in [Bufs -> Ring] BY EmptyContents DEF Init
<1>2. TypeOK BY <1>1, BacktraceRegistryAssumption DEF Init, TypeOK, Ring
<1>3. QED BY <1>1, <1>2, BacktraceRegistryAssumption DEF Init, IInv, PCs, Locked

\* The double-checked lock: entering, testing and leaving fr_debug_init.
LEMMA LockIInv ==
    ASSUME IInv, NEW t \in Threads, Lock(t) \/ Recheck(t) \/ Unlock(t)
    PROVE  IInv'
<1> USE DEF IInv, TypeOK, PCs, Locked
<1>1. CASE Lock(t) BY <1>1, BacktraceRegistryAssumption DEF Lock
<1>2. CASE Recheck(t) BY <1>2 DEF Recheck
<1>3. CASE Unlock(t) BY <1>3, BacktraceRegistryAssumption DEF Unlock
<1>4. QED BY <1>1, <1>2, <1>3

\* fr_cbuff_alloc under the mutex: no other thread can be allocating, and
\* no marker reports to a buffer yet.
LEMMA AllocIInv ==
    ASSUME IInv, NEW t \in Threads, Alloc(t)
    PROVE  IInv'
<1>1. lock = t /\ cbuff = NULL BY DEF Alloc, IInv, Locked
<1>2. \A o \in Objs : markers[o] \notin Bufs
      BY <1>1, BacktraceRegistryAssumption DEF IInv
<1>3. \A u \in Threads : u # t => pc[u] \notin Locked
      BY <1>1 DEF IInv
<1> USE DEF IInv, TypeOK, PCs, Locked
<1>4. CASE MayFail /\ failures' = failures + 1
           /\ pc' = [pc EXCEPT ![t] = "unlock"]
           /\ UNCHANGED <<cbuff, allocated, rings>>
  <2>1. UNCHANGED <<lock, tobj, markers, destroyed, shown>> BY DEF Alloc
  <2>2. \A u \in Threads : lock' = u <=> pc'[u] \in Locked BY <1>1, <1>3, <1>4, <2>1
  <2>3. \A u \in Threads : pc'[u] = "alloc" => cbuff' = NULL BY <1>3, <1>4
  <2>4. failures' \in 0 .. AllocFailures BY <1>4, BacktraceRegistryAssumption DEF MayFail
  <2>5. QED BY <1>4, <2>1, <2>2, <2>3, <2>4
<1>5. CASE \E b \in Bufs \ allocated :
            /\ cbuff' = b
            /\ allocated' = allocated \cup {b}
            /\ rings' = [rings EXCEPT ![b] = CbEmpty]
            /\ pc' = [pc EXCEPT ![t] = "unlock"]
            /\ UNCHANGED failures
  <2>1. PICK b \in Bufs \ allocated :
            /\ cbuff' = b
            /\ allocated' = allocated \cup {b}
            /\ rings' = [rings EXCEPT ![b] = CbEmpty]
            /\ pc' = [pc EXCEPT ![t] = "unlock"]
            /\ UNCHANGED failures
        BY <1>5
  <2>2. rings' \in [Bufs -> Ring] BY <2>1, EmptyContents
  <2>3. \A c \in Bufs : rings'[c].in \in Slots /\ rings'[c].out \in Slots
        BY <2>2 DEF Ring
  <2>4. UNCHANGED <<lock, tobj, markers, destroyed, shown>> BY DEF Alloc
  <2>5. \A u \in Threads : lock' = u <=> pc'[u] \in Locked BY <1>1, <1>3, <2>1, <2>4
  <2>6. \A u \in Threads : pc'[u] = "alloc" => cbuff' = NULL BY <1>3, <2>1
  <2>7. \A o \in Objs : markers'[o] \in Bufs => markers'[o] = cbuff' BY <1>2, <2>4
  <2>8. QED BY <2>1, <2>2, <2>3, <2>4, <2>5, <2>6, <2>7
<1>6. QED BY <1>4, <1>5 DEF Alloc

\* The marker is made, or talloc fails; the thread leaves the call.
LEMMA MarkerIInv ==
    ASSUME IInv, NEW t \in Threads, Marker(t)
    PROVE  IInv'
<1>1. tobj[t] \in Objs /\ pc[t] = "marker" BY DEF Marker, IInv, PCs
<1>2. \A u \in Threads : u # t /\ pc[u] # "idle" => tobj[u] # tobj[t]
      BY <1>1 DEF IInv
<1> USE DEF IInv, TypeOK, PCs, Locked
<1>3. CASE markers' = [markers EXCEPT ![tobj[t]] = cbuff] /\ UNCHANGED failures
      BY <1>1, <1>2, <1>3, BacktraceRegistryAssumption DEF Marker
<1>4. CASE MayFail /\ failures' = failures + 1 /\ UNCHANGED markers
      BY <1>1, <1>4, BacktraceRegistryAssumption DEF Marker, MayFail
<1>5. QED BY <1>3, <1>4 DEF Marker

LEMMA AttachIInv ==
    ASSUME IInv, NEW t \in Threads, NEW o \in Objs, Attach(t, o)
    PROVE  IInv'
<1>1. \A u \in Threads : tobj[u] # o BY DEF Attach, Busy
<1> USE DEF IInv, TypeOK, PCs, Locked
<1>2. QED BY <1>1, BacktraceRegistryAssumption DEF Attach

\* talloc_free: the object is not being attached; a record may be inserted.
LEMMA FreeIInv ==
    ASSUME IInv, NEW o \in Objs, Free(o)
    PROVE  IInv'
<1>1. \A u \in Threads : tobj[u] # o BY DEF Free, Busy
<1>2. UNCHANGED <<cbuff, allocated, lock, pc, tobj, markers, shown>> BY DEF Free
<1>3. failures' \in 0 .. AllocFailures
  <2>1. failures' = failures \/ (MayFail /\ failures' = failures + 1)
        BY DEF Free
  <2>2. QED BY <2>1, BacktraceRegistryAssumption DEF MayFail, IInv, TypeOK
<1>4. rings' \in [Bufs -> Ring]
  <2>1. CASE UNCHANGED rings BY <2>1 DEF IInv
  <2>2. CASE \E a \in Addrs :
              /\ markers[o] \in Bufs
              /\ rings' = [rings EXCEPT ![markers[o]] = CbInsert(@, [addr |-> a, of |-> o])]
    <3>1. PICK a \in Addrs :
              /\ markers[o] \in Bufs
              /\ rings' = [rings EXCEPT ![markers[o]] = CbInsert(@, [addr |-> a, of |-> o])]
          BY <2>2
    <3>2. rings[markers[o]] \in Ring /\ [addr |-> a, of |-> o] \in Elems
          BY <3>1 DEF IInv, Elems
    <3>3. CbInsert(rings[markers[o]], [addr |-> a, of |-> o]) \in Ring
          BY <3>2, InsertFields
    <3>4. QED BY <3>1, <3>3 DEF IInv
  <2>3. QED BY <2>1, <2>2 DEF Free
<1>5. \A b \in Bufs : rings'[b].in \in Slots /\ rings'[b].out \in Slots
      BY <1>4 DEF Ring
<1>6. destroyed' = destroyed \cup {o} BY DEF Free
<1> USE DEF IInv, TypeOK
<1>7. QED BY <1>1, <1>2, <1>3, <1>4, <1>5, <1>6

\* The allocator reuses a freed address: no thread is attaching it.
LEMMA ReuseIInv ==
    ASSUME IInv, NEW o \in Objs, Reuse(o)
    PROVE  IInv'
<1>1. \A u \in Threads : pc[u] # "idle" => tobj[u] # o BY DEF Reuse, IInv
<1> USE DEF IInv, TypeOK
<1>2. QED BY <1>1, BacktraceRegistryAssumption DEF Reuse

\* backtrace_print moves only the read index of *cbuff.
LEMMA PrintIInv ==
    ASSUME IInv, NEW arg, BacktracePrint(arg)
    PROVE  IInv'
<1> DEFINE s == CbContents(rings[cbuff])
           k == BL!Taken(s, arg)
<1>1. cbuff \in Bufs /\ rings[cbuff] \in Ring
      BY BacktraceRegistryAssumption DEF BacktracePrint, IInv, TypeOK
<1>2. s \in Seq(Elems \cup {NULL}) /\ Len(s) = RLen(rings[cbuff])
      BY <1>1, ContentsDef
<1>3. k \in 0 .. RLen(rings[cbuff]) BY <1>2, TakenVal
<1>4. CbTake(rings[cbuff], k) \in Ring BY <1>1, <1>3, TakeSubSeq
<1>5. rings' = [rings EXCEPT ![cbuff] = CbTake(@, k)] BY DEF BacktracePrint, s, k
<1>6. rings' \in [Bufs -> Ring] BY <1>1, <1>4, <1>5 DEF IInv
<1>7. \A b \in Bufs : rings'[b].in \in Slots /\ rings'[b].out \in Slots
      BY <1>6 DEF Ring
<1>8. UNCHANGED <<cbuff, allocated, lock, pc, tobj, markers, destroyed, failures>>
      BY DEF BacktracePrint
<1> USE DEF IInv, TypeOK
<1>9. QED BY <1>6, <1>7, <1>8

LEMMA NextIInv == IInv /\ [Next]_vars => IInv'
<1> SUFFICES ASSUME IInv, [Next]_vars PROVE IInv'
    OBVIOUS
<1>1. CASE \E t \in Threads : Step(t) \/ \E o \in Objs : Attach(t, o)
  <2>1. PICK t \in Threads : Step(t) \/ \E o \in Objs : Attach(t, o) BY <1>1
  <2>2. CASE Lock(t) \/ Recheck(t) \/ Unlock(t) BY <2>2, LockIInv
  <2>3. CASE Alloc(t) BY <2>3, AllocIInv
  <2>4. CASE Marker(t) BY <2>4, MarkerIInv
  <2>5. CASE \E o \in Objs : Attach(t, o) BY <2>5, AttachIInv
  <2>6. QED BY <2>1, <2>2, <2>3, <2>4, <2>5 DEF Step
<1>2. CASE \E o \in Objs : Free(o) \/ Reuse(o) BY <1>2, FreeIInv, ReuseIInv
<1>3. CASE \E arg \in BL!PrintArgs : BacktracePrint(arg) BY <1>3, PrintIInv
<1>4. CASE UNCHANGED vars BY <1>4 DEF vars, IInv, TypeOK
<1>5. QED BY <1>1, <1>2, <1>3, <1>4 DEF Next

(***************************************************************************)
(* For every number of threads, objects, record and buffer addresses and   *)
(* every ring size, and however the first calls of fr_backtrace_attach     *)
(* interleave: the registry's pointers, indices and counters stay in their *)
(* ranges.                                                                 *)
(***************************************************************************)
THEOREM TypeCorrect == Spec => []TypeOK
<1>1. Init => IInv BY InitIInv
<1>2. IInv /\ [Next]_vars => IInv' BY NextIInv
<1>3. IInv => TypeOK BY DEF IInv
<1>4. QED BY <1>1, <1>2, <1>3, PTL DEF Spec

-----------------------------------------------------------------------------
(* The refinement of BacktraceLog, step by step.                           *)

LEMMA InitRefines == Init => BL!AbsInit
BY BacktraceRegistryAssumption DEF Init, BL!AbsInit, Contents

\* Steps that leave *cbuff, the markers, the records, the freed set and
\* the last print alone are stutters of the registry.
LEMMA Stutter ==
    ASSUME UNCHANGED <<cbuff, rings, markers, destroyed, shown>>
    PROVE  UNCHANGED BL!absVars
BY DEF Contents, BL!absVars

\* Inside fr_backtrace_attach, every step but the allocation and the
\* marker's creation is internal.
LEMMA ThreadRefines ==
    ASSUME IInv, NEW t \in Threads,
           Step(t) \/ \E o \in Objs : Attach(t, o)
    PROVE  [BL!AbsNext]_BL!absVars
<1>1. CASE Lock(t) \/ Recheck(t) \/ Unlock(t) \/ \E o \in Objs : Attach(t, o)
      BY <1>1, Stutter DEF Lock, Recheck, Unlock, Attach
<1>2. CASE Alloc(t)
  <2>1. cbuff = NULL BY <1>2 DEF Alloc, IInv
  <2>2. CASE UNCHANGED <<cbuff, allocated, rings>>
        BY <1>2, <2>2, Stutter DEF Alloc
  <2>3. CASE \E b \in Bufs \ allocated :
               /\ cbuff' = b /\ rings' = [rings EXCEPT ![b] = CbEmpty]
    <3>1. PICK b \in Bufs \ allocated :
               cbuff' = b /\ rings' = [rings EXCEPT ![b] = CbEmpty]
          BY <2>3
    <3>2. rings'[b] = CbEmpty BY <3>1 DEF IInv
    <3>3. Contents = << >> /\ Contents' = << >>
          BY <2>1, <3>1, <3>2, EmptyContents, BacktraceRegistryAssumption
          DEF Contents
    <3>4. BL!Create(b) BY <1>2, <2>1, <3>1, <3>3 DEF Alloc, BL!Create
    <3>5. QED BY <3>4 DEF BL!AbsNext
  <2>4. QED BY <1>2, <2>2, <2>3 DEF Alloc
<1>3. CASE Marker(t)
  <2>1. pc[t] = "marker" BY <1>3 DEF Marker
  <2>2. tobj[t] \in Objs /\ markers[tobj[t]] = NoMarker /\ tobj[t] \notin destroyed
        BY <2>1 DEF IInv
  <2>3. CASE markers' = [markers EXCEPT ![tobj[t]] = cbuff]
    <3>1. UNCHANGED <<cbuff, rings, destroyed, shown>> BY <1>3 DEF Marker
    <3>2. UNCHANGED Contents BY <3>1 DEF Contents
    <3>3. BL!Attach(tobj[t]) BY <2>2, <2>3, <3>1, <3>2 DEF BL!Attach
    <3>4. QED BY <2>2, <3>3 DEF BL!AbsNext
  <2>4. CASE UNCHANGED markers BY <1>3, <2>4, Stutter DEF Marker
  <2>5. QED BY <1>3, <2>3, <2>4 DEF Marker
<1>4. QED BY <1>1, <1>2, <1>3 DEF Step

\* _fr_do_bt's insertion is the abstract Push onto the one buffer: the
\* marker reports to *cbuff.
LEMMA FreeRefines ==
    ASSUME IInv, NEW o \in Objs, Free(o)
    PROVE  BL!Free(o)
<1>1. o \notin destroyed /\ destroyed' = destroyed \cup {o}
      /\ UNCHANGED <<cbuff, markers, shown>>
      BY DEF Free
<1>2. CASE UNCHANGED rings
      BY <1>1, <1>2 DEF BL!Free, Contents
<1>3. CASE \E a \in Addrs :
             /\ markers[o] \in Bufs
             /\ rings' = [rings EXCEPT ![markers[o]] = CbInsert(@, [addr |-> a, of |-> o])]
  <2>1. PICK a \in Addrs :
             /\ markers[o] \in Bufs
             /\ rings' = [rings EXCEPT ![markers[o]] = CbInsert(@, [addr |-> a, of |-> o])]
        BY <1>3
  <2>2. markers[o] = cbuff /\ cbuff \in Bufs BY <2>1 DEF IInv
  <2>3. rings[cbuff] \in Ring /\ [addr |-> a, of |-> o] \in Elems
        BY <2>2 DEF IInv, Elems
  <2>4. rings'[cbuff] = CbInsert(rings[cbuff], [addr |-> a, of |-> o])
        BY <2>1, <2>2 DEF IInv
  <2>5. Contents = CbContents(rings[cbuff])
        /\ Contents' = CbContents(rings'[cbuff])
        BY <1>1, <2>2 DEF Contents
  <2>6. Contents' = BL!Push(Contents, [addr |-> a, of |-> o])
        BY <2>3, <2>4, <2>5, InsertPush
  <2>7. QED BY <1>1, <2>1, <2>6 DEF BL!Free
<1>4. QED BY <1>2, <1>3 DEF Free

LEMMA ReuseRefines ==
    ASSUME NEW o \in Objs, Reuse(o)
    PROVE  BL!Reuse(o)
BY DEF Reuse, BL!Reuse, Contents

\* backtrace_print takes the records it passes off the front of the log.
LEMMA PrintRefines ==
    ASSUME IInv, NEW arg, BacktracePrint(arg)
    PROVE  BL!BacktracePrint(arg)
<1> DEFINE s == CbContents(rings[cbuff])
           k == BL!Taken(s, arg)
<1>1. cbuff \in Bufs /\ rings[cbuff] \in Ring
      BY BacktraceRegistryAssumption DEF BacktracePrint, IInv, TypeOK
<1>2. s \in Seq(Elems \cup {NULL}) /\ Len(s) = RLen(rings[cbuff])
      BY <1>1, ContentsDef
<1>3. k \in 0 .. RLen(rings[cbuff]) BY <1>2, TakenVal
<1>4. CbContents(CbTake(rings[cbuff], k)) = SubSeq(s, k + 1, Len(s))
      BY <1>1, <1>3, TakeSubSeq
<1>5. rings' = [rings EXCEPT ![cbuff] = CbTake(@, k)]
      /\ UNCHANGED <<cbuff, markers, destroyed>>
      /\ shown' = [arg |-> arg, out |-> BL!Printed(s, arg)]
      BY DEF BacktracePrint, s, k
<1>6. Contents = s /\ Contents' = CbContents(CbTake(rings[cbuff], k))
      BY <1>1, <1>5 DEF Contents, IInv, s
<1>7. QED BY <1>1, <1>4, <1>5, <1>6, BacktraceRegistryAssumption DEF BL!BacktracePrint, s, k

LEMMA NextRefines == IInv /\ [Next]_vars => [BL!AbsNext]_BL!absVars
<1> SUFFICES ASSUME IInv, [Next]_vars PROVE [BL!AbsNext]_BL!absVars
    OBVIOUS
<1>1. CASE \E t \in Threads : Step(t) \/ \E o \in Objs : Attach(t, o)
      BY <1>1, ThreadRefines
<1>2. CASE \E o \in Objs : Free(o)
      BY <1>2, FreeRefines DEF BL!AbsNext
<1>3. CASE \E o \in Objs : Reuse(o)
      BY <1>3, ReuseRefines DEF BL!AbsNext
<1>4. CASE \E arg \in BL!PrintArgs : BacktracePrint(arg)
      BY <1>4, PrintRefines DEF BL!AbsNext
<1>5. CASE UNCHANGED vars BY <1>5, Stutter DEF vars
<1>6. QED BY <1>1, <1>2, <1>3, <1>4, <1>5 DEF Next

(***************************************************************************)
(* For every number of threads, objects, record and buffer addresses and   *)
(* every ring size: fr_backtrace_attach's double-checked creation under    *)
(* fr_debug_init, the markers' unlocked read of *cbuff, _fr_do_bt's        *)
(* insertion into the circular buffer and backtrace_print's reads together *)
(* implement BacktraceLog: one buffer, created once; every marker bound to *)
(* it; FIFO eviction of the oldest record; print taking records in order.  *)
(***************************************************************************)
THEOREM Refines == Spec => Refinement
<1>1. Init => BL!AbsInit BY InitRefines
<1>2. Init => IInv BY InitIInv
<1>3. IInv /\ [Next]_vars => IInv' BY NextIInv
<1>4. IInv /\ [Next]_vars => [BL!AbsNext]_BL!absVars BY NextRefines
<1>5. QED BY <1>1, <1>2, <1>3, <1>4, PTL DEF Spec, Refinement, BL!AbsSpec

(***************************************************************************)
(* However the first calls of fr_backtrace_attach interleave: the mutex    *)
(* fr_debug_init has exactly the owner between lock and unlock, a thread   *)
(* about to allocate saw *cbuff NULL under it, every marker that reports   *)
(* to a buffer reports to *cbuff, and an object being attached is live,    *)
(* unmarked and attached by one thread.                                    *)
(***************************************************************************)
THEOREM IInvSafe == Spec => []IInv
BY InitIInv, NextIInv, PTL DEF Spec

=============================================================================
