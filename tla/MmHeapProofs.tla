---------------------------- MODULE MmHeapProofs ----------------------------
(***************************************************************************)
(* The buddy heap of MmHeap for every number of classes, every block size  *)
(* that doubles from class to class, every header size and every set of    *)
(* request lengths.                                                        *)
(***************************************************************************)
EXTENDS MmHeap, WellFoundedInduction, SequenceTheorems, TLAPS

(* A product grows by a factor for each step of the other.                 *)
LEMMA MulStep ==
    ASSUME NEW w \in Nat, NEW i \in Nat, NEW j \in Nat, i < j
    PROVE  w * i + w <= w * j /\ w * i \in Nat /\ w * j \in Nat
  <1>1. PICK d \in Nat : j = i + 1 + d
    <2>1. j - i - 1 \in Nat /\ j = i + 1 + (j - i - 1)
      OBVIOUS
    <2> QED
      BY <2>1
  <1>2. w * j = w * i + w + w * d
    BY <1>1
  <1>3. w * d \in Nat /\ w * i \in Nat /\ w * j \in Nat
    OBVIOUS
  <1> QED
    BY <1>2, <1>3

(* Quotient and remainder.                                                 *)
LEMMA DivMod ==
    ASSUME NEW a \in Nat, NEW w \in Nat, w > 0
    PROVE  a \div w \in Nat /\ a % w \in 0 .. w - 1 /\ a = w * (a \div w) + (a % w)
  OBVIOUS

(* There is only one quotient and one remainder.                           *)
LEMMA DivUnique ==
    ASSUME NEW w \in Nat, w > 0, NEW q \in Nat, NEW r \in 0 .. w - 1
    PROVE  (q * w + r) \div w = q /\ (q * w + r) % w = r
  <1> DEFINE a == q * w + r
  <1>1. a \in Nat /\ q * w = w * q
    OBVIOUS
  <1>2. a \div w \in Nat /\ a % w \in 0 .. w - 1 /\ a = w * (a \div w) + (a % w)
    BY <1>1, DivMod
  <1> DEFINE p == a \div w
             s == a % w
  <1>3. p \in Nat /\ s \in 0 .. w - 1 /\ w * q + r = w * p + s
    BY <1>1, <1>2
  <1> HIDE DEF p, s
  <1>4. ~(p < q)
    <2>1. p < q => w * p + w <= w * q /\ w * p \in Nat /\ w * q \in Nat
      BY <1>3, MulStep
    <2> QED
      BY <1>3, <2>1
  <1>5. ~(q < p)
    <2>1. q < p => w * q + w <= w * p /\ w * p \in Nat /\ w * q \in Nat
      BY <1>3, MulStep
    <2> QED
      BY <1>3, <2>1
  <1>6. p = q
    BY <1>3, <1>4, <1>5
  <1>7. s = r
    BY <1>3, <1>6
  <1> QED
    BY <1>6, <1>7 DEF p, s

(* Every set of natural numbers that is not empty has a least element.     *)
LEMMA LeastNat ==
    ASSUME NEW T, T \subseteq Nat, T # {}
    PROVE  \E x \in T : \A y \in T : x <= y
  <1> DEFINE R == OpToRel(<, Nat)
  <1>1. IsWellFoundedOn(R, Nat)
    BY NatLessThanWellFounded
  <1>2. R = {ss \in Nat \X Nat : ss[1] < ss[2]}
    BY DEF OpToRel
  <1>3. \A x, y \in Nat : x < y => <<x, y>> \in R
    BY <1>2
  <1> HIDE DEF R
  <1>4. PICK x \in T : \A y \in T : ~(<<y, x>> \in R)
    BY <1>1, WFMin
  <1>5. ASSUME NEW y \in T PROVE x <= y
    <2>1. x \in Nat /\ y \in Nat
      OBVIOUS
    <2>2. ~(y < x)
      BY <1>3, <1>4, <2>1
    <2> QED
      BY <2>1, <2>2
  <1> QED
    BY <1>5

(* Induction, with the property given as the set of numbers that have it.  *)
LEMMA SetInduction ==
    ASSUME NEW S, 0 \in S, \A n \in Nat : n \in S => n + 1 \in S
    PROVE  \A n \in Nat : n \in S
  <1> DEFINE T == {n \in Nat : n \notin S}
  <1> SUFFICES ASSUME T # {} PROVE FALSE
    OBVIOUS
  <1>1. PICK x \in T : \A y \in T : x <= y
    BY LeastNat
  <1>2. x \in Nat /\ x # 0 /\ x \notin S
    BY <1>1
  <1>3. x - 1 \in Nat /\ x - 1 \notin T
    BY <1>1, <1>2
  <1>4. (x - 1) + 1 \in S
    BY <1>3
  <1>5. (x - 1) + 1 = x
    BY <1>2
  <1> QED
    BY <1>2, <1>4, <1>5
-----------------------------------------------------------------------------
(* The inductive invariant: the blocks tile the heap and the free lists    *)
(* hold exactly the free blocks that the running call does not hold.       *)
IInv ==
    /\ TypeOK
    /\ CallState
    /\ BlocksDisjoint
    /\ BlocksCover
    /\ ListsSound
    /\ ListsComplete

Injective(s) == \A i, j \in DOMAIN s : s[i] = s[j] => i = j
-----------------------------------------------------------------------------
(* Pushing a block at the head of a list.                                  *)
LEMMA PushElems ==
    ASSUME NEW s \in Seq(Nat), NEW b \in Nat, Injective(s), b \notin Elems(s)
    PROVE  /\ <<b>> \o s \in Seq(Nat)
           /\ Elems(<<b>> \o s) = {b} \cup Elems(s)
           /\ Injective(<<b>> \o s)
  <1> DEFINE t == <<b>> \o s
  <1>1. t \in Seq(Nat) /\ Len(t) = Len(s) + 1
    OBVIOUS
  <1>2. t[1] = b /\ \A i \in 1 .. Len(s) : t[i + 1] = s[i]
    OBVIOUS
  <1>3. DOMAIN t = 1 .. Len(s) + 1 /\ DOMAIN s = 1 .. Len(s) /\ Len(s) \in Nat
    BY <1>1
  <1>4. \A i \in DOMAIN t : i = 1 \/ (i - 1 \in DOMAIN s /\ t[i] = s[i - 1])
    BY <1>2, <1>3
  <1> HIDE DEF t
  <1>5. Elems(t) = {b} \cup Elems(s)
    <2>1. ASSUME NEW x \in Elems(t) PROVE x \in {b} \cup Elems(s)
      BY <1>2, <1>4 DEF Elems
    <2>2. ASSUME NEW x \in {b} \cup Elems(s) PROVE x \in Elems(t)
      <3>1. CASE x = b
        BY <3>1, <1>2, <1>3 DEF Elems
      <3>2. CASE x \in Elems(s)
        <4>1. PICK i \in DOMAIN s : x = s[i]
          BY <3>2 DEF Elems
        <4>2. i + 1 \in DOMAIN t /\ t[i + 1] = x
          BY <4>1, <1>2, <1>3
        <4> QED
          BY <4>2 DEF Elems
      <3> QED
        BY <3>1, <3>2
    <2> QED
      BY <2>1, <2>2
  <1>6. Injective(t)
    <2> SUFFICES ASSUME NEW i \in DOMAIN t, NEW j \in DOMAIN t, t[i] = t[j]
                 PROVE  i = j
      BY DEF Injective
    <2>1. \A k \in DOMAIN s : s[k] # b
      BY DEF Elems
    <2> QED
      BY <1>2, <1>3, <1>4, <2>1 DEF Injective
  <1> QED
    BY <1>1, <1>5, <1>6 DEF t

(* Taking the head off a list.                                             *)
LEMMA PopElems ==
    ASSUME NEW s \in Seq(Nat), s # <<>>, Injective(s)
    PROVE  /\ Head(s) \in Elems(s)
           /\ Tail(s) \in Seq(Nat)
           /\ Elems(Tail(s)) = Elems(s) \ {Head(s)}
           /\ Injective(Tail(s))
  <1> DEFINE t == Tail(s)
  <1>1. t \in Seq(Nat) /\ Len(t) = Len(s) - 1 /\ Len(s) \in Nat /\ Len(s) > 0
    OBVIOUS
  <1>2. Head(s) = s[1] /\ \A i \in 1 .. Len(t) : t[i] = s[i + 1]
    OBVIOUS
  <1>3. DOMAIN t = 1 .. Len(s) - 1 /\ DOMAIN s = 1 .. Len(s)
    BY <1>1
  <1>4. Head(s) \in Elems(s)
    BY <1>1, <1>2, <1>3 DEF Elems
  <1> HIDE DEF t
  <1>5. Elems(t) = Elems(s) \ {Head(s)}
    <2>1. ASSUME NEW x \in Elems(t) PROVE x \in Elems(s) \ {Head(s)}
      <3>1. PICK i \in DOMAIN t : x = t[i]
        BY DEF Elems
      <3>2. i + 1 \in DOMAIN s /\ x = s[i + 1] /\ i + 1 # 1 /\ 1 \in DOMAIN s
        BY <3>1, <1>1, <1>2, <1>3
      <3>3. x # s[1]
        BY <3>2 DEF Injective
      <3> QED
        BY <3>2, <3>3, <1>2 DEF Elems
    <2>2. ASSUME NEW x \in Elems(s), x # Head(s) PROVE x \in Elems(t)
      <3>1. PICK i \in DOMAIN s : x = s[i]
        BY DEF Elems
      <3>2. i - 1 \in 1 .. Len(t) /\ (i - 1) + 1 = i
        BY <2>2, <3>1, <1>1, <1>2, <1>3
      <3>3. t[i - 1] = x
        BY <3>1, <3>2, <1>2
      <3> QED
        BY <3>2, <3>3, <1>1, <1>3 DEF Elems
    <2> QED
      BY <2>1, <2>2
  <1>6. Injective(t)
    <2> SUFFICES ASSUME NEW i \in DOMAIN t, NEW j \in DOMAIN t, t[i] = t[j]
                 PROVE  i = j
      BY DEF Injective
    <2>1. \A k \in DOMAIN t : k + 1 \in DOMAIN s /\ t[k] = s[k + 1]
      <3> SUFFICES ASSUME NEW k \in DOMAIN t
                   PROVE  k + 1 \in DOMAIN s /\ t[k] = s[k + 1]
        OBVIOUS
      <3>0. Len(t) \in Nat /\ Len(s) \in Nat /\ Len(s) = Len(t) + 1
        BY <1>1
      <3>1. k \in 1 .. Len(t)
        BY <1>1, <1>3
      <3> HIDE DEF t
      <3>2. k + 1 \in 1 .. Len(s)
        <4> DEFINE m == Len(t)
                   n == Len(s)
        <4>1. k \in 1 .. m /\ m \in Nat /\ n = m + 1
          BY <3>0, <3>1
        <4> HIDE DEF m, n
        <4>2. k + 1 \in 1 .. n
          BY <4>1
        <4> QED
          BY <4>2 DEF n
      <3> QED
        BY <3>1, <3>2, <1>2, <1>3
    <2>2. i + 1 \in DOMAIN s /\ j + 1 \in DOMAIN s /\ s[i + 1] = s[j + 1]
      BY <2>1
    <2>3. i + 1 = j + 1
      BY <2>2 DEF Injective
    <2> QED
      BY <2>3, <1>3
  <1> QED
    BY <1>1, <1>4, <1>5, <1>6 DEF t

(* Taking a given block out of the middle of a list.                       *)
LEMMA UnlinkElems ==
    ASSUME NEW s \in Seq(Nat), NEW b \in Elems(s), Injective(s)
    PROVE  /\ Unlink(s, b) \in Seq(Nat)
           /\ Elems(Unlink(s, b)) = Elems(s) \ {b}
           /\ Injective(Unlink(s, b))
  <1> DEFINE t == Unlink(s, b)
             p == Place(s, b)
  <1>1. DOMAIN s = 1 .. Len(s) /\ Len(s) \in Nat
    OBVIOUS
  <1>2. p \in DOMAIN s /\ s[p] = b
    BY DEF Elems, Place
  <1>3. DOMAIN t = 1 .. Len(s) - 1
    BY DEF Unlink
  <1>4. \A i \in 1 .. Len(s) - 1 : t[i] = IF i < p THEN s[i] ELSE s[i + 1]
    BY DEF Unlink
  <1>5. Len(s) - 1 \in Nat
    BY <1>1, <1>2
  <1>6. \A i \in DOMAIN s : s[i] \in Nat
    BY <1>1
  <1> HIDE DEF p
  <1>7. t \in Seq(Nat)
    <2>1. t \in [1 .. Len(s) - 1 -> Nat]
      BY <1>1, <1>2, <1>5, <1>6 DEF Unlink, p
    <2> QED
      BY <2>1, <1>5, SeqDef
  <1> HIDE DEF t
  <1>8. Elems(t) = Elems(s) \ {b}
    <2>1. ASSUME NEW x \in Elems(t) PROVE x \in Elems(s) /\ x # b
      <3>1. PICK i \in DOMAIN t : x = t[i]
        BY DEF Elems
      <3>2. CASE i < p
        <4>1. i \in DOMAIN s /\ x = s[i] /\ i # p
          BY <3>1, <3>2, <1>1, <1>2, <1>3, <1>4
        <4> QED
          BY <4>1, <1>2 DEF Elems, Injective
      <3>3. CASE ~(i < p)
        <4>1. i + 1 \in DOMAIN s /\ x = s[i + 1] /\ i + 1 # p
          BY <3>1, <3>3, <1>1, <1>2, <1>3, <1>4
        <4> QED
          BY <4>1, <1>2 DEF Elems, Injective
      <3> QED
        BY <3>2, <3>3
    <2>2. ASSUME NEW x \in Elems(s), x # b PROVE x \in Elems(t)
      <3>1. PICK i \in DOMAIN s : x = s[i]
        BY DEF Elems
      <3>2. CASE i < p
        <4>1. i \in DOMAIN t /\ t[i] = x
          BY <3>1, <3>2, <1>1, <1>2, <1>3, <1>4
        <4> QED
          BY <4>1 DEF Elems
      <3>3. CASE i > p
        <4>1. i - 1 \in DOMAIN t /\ (i - 1) + 1 = i /\ ~(i - 1 < p)
          BY <3>3, <1>1, <1>2, <1>3
        <4>2. t[i - 1] = x
          BY <3>1, <4>1, <1>3, <1>4
        <4> QED
          BY <4>1, <4>2 DEF Elems
      <3>4. i # p
        BY <2>2, <3>1, <1>2
      <3> QED
        BY <3>2, <3>3, <3>4, <1>1, <1>2
    <2> QED
      BY <2>1, <2>2
  <1>9. Injective(t)
    <2> SUFFICES ASSUME NEW i \in DOMAIN t, NEW j \in DOMAIN t, t[i] = t[j]
                 PROVE  i = j
      BY DEF Injective
    <2> DEFINE up(k) == IF k < p THEN k ELSE k + 1
    <2>1. up(i) \in DOMAIN s /\ t[i] = s[up(i)]
      BY <1>1, <1>2, <1>3, <1>4
    <2>2. up(j) \in DOMAIN s /\ t[j] = s[up(j)]
      BY <1>1, <1>2, <1>3, <1>4
    <2>3. up(i) = up(j)
      BY <2>1, <2>2 DEF Injective
    <2> QED
      BY <2>3, <1>1, <1>2, <1>3
  <1> QED
    BY <1>7, <1>8, <1>9 DEF t
-----------------------------------------------------------------------------
(* What writing and wiping a header does to the header map.                *)
LEMMA InitBlock ==
    ASSUME NEW m, NEW a, NEW c, NEW f
    PROVE  /\ DOMAIN block_init(m, a, c, f) = DOMAIN m \cup {a}
           /\ block_init(m, a, c, f)[a] = [class |-> c, is_free |-> f]
           /\ \A x \in DOMAIN m \ {a} : block_init(m, a, c, f)[x] = m[x]
  BY DEF block_init

LEMMA InitBlockType ==
    ASSUME NEW m, DOMAIN m \subseteq Nat, m \in [DOMAIN m -> Header_t],
           NEW a \in Nat, NEW c \in Class, NEW f \in BOOLEAN
    PROVE  /\ DOMAIN block_init(m, a, c, f) \subseteq Nat
           /\ block_init(m, a, c, f) \in [DOMAIN block_init(m, a, c, f) -> Header_t]
  BY DEF block_init, Header_t

LEMMA CleanBlock ==
    ASSUME NEW m, NEW a
    PROVE  /\ DOMAIN block_clean(m, a) = DOMAIN m \ {a}
           /\ \A x \in DOMAIN m \ {a} : block_clean(m, a)[x] = m[x]
  BY DEF block_clean

LEMMA CleanBlockType ==
    ASSUME NEW m, DOMAIN m \subseteq Nat, m \in [DOMAIN m -> Header_t], NEW a
    PROVE  /\ DOMAIN block_clean(m, a) \subseteq Nat
           /\ block_clean(m, a) \in [DOMAIN block_clean(m, a) -> Header_t]
  BY DEF block_clean

(* A failed assertion freezes the heap.                                    *)
LEMMA PanicKeeps ==
    ASSUME IInv,
           NEW r \in CallerErrors \cup OutOfFrames \cup InternalErrors,
           Panic(r)
    PROVE  IInv'
  <1> USE DEF Panic, heap, call
  <1>1. TypeOK'
    BY DEF IInv, TypeOK, PCs
  <1>2. CallState'
    BY DEF IInv, CallState
  <1>3. BlocksDisjoint' /\ BlocksCover'
    BY DEF IInv, BlocksDisjoint, BlocksCover, SizeAt
  <1>4. ListsSound' /\ ListsComplete'
    BY DEF IInv, ListsSound, ListsComplete
  <1> QED
    BY <1>1, <1>2, <1>3, <1>4 DEF IInv

LEMMA InitIInv == Init => IInv
  <1> SUFFICES ASSUME Init PROVE IInv
    OBVIOUS
  <1> USE DEF Init
  <1>1. TypeOK
    BY ClassAssumption DEF TypeOK, PCs, Class, Header_t
  <1>2. CallState
    BY DEF CallState
  <1>3. BlocksDisjoint /\ BlocksCover
    BY DEF BlocksDisjoint, BlocksCover
  <1>4. ListsSound /\ ListsComplete
    BY DEF ListsSound, ListsComplete, Elems
  <1> QED
    BY <1>1, <1>2, <1>3, <1>4 DEF IInv

LEMMA AllocKeeps == ASSUME IInv, NEW l \in Lens, mm_heap_alloc(l) PROVE IInv'
  <1>1. CASE l = 0 \/ l + Header > Size[Top] \/ free_class(l) \notin Class
    <2>1. \E r \in CallerErrors \cup OutOfFrames \cup InternalErrors : Panic(r)
      BY <1>1 DEF mm_heap_alloc, CallerErrors, InternalErrors
    <2> QED
      BY <2>1, PanicKeeps
  <1>2. CASE ~(l = 0 \/ l + Header > Size[Top] \/ free_class(l) \notin Class)
    <2>1. /\ pc = "idle" /\ pc' = "dequeue"
          /\ want' = free_class(l) /\ cur' = free_class(l) /\ len' = l
          /\ UNCHANGED <<meta, free_list, heap_end, blk, panic>>
          /\ free_class(l) \in Class
      BY <1>2 DEF mm_heap_alloc, heap
    <2>2. TypeOK'
      BY <2>1, BoundAssumption DEF IInv, TypeOK, PCs
    <2>3. CallState'
      <3>1. l > 0 /\ free_class(l) >= free_class(l)
        BY <1>2, <2>1, BoundAssumption DEF Class
      <3> QED
        BY <3>1, <2>1 DEF IInv, CallState
    <2>4. BlocksDisjoint' /\ BlocksCover'
      BY <2>1 DEF IInv, BlocksDisjoint, BlocksCover, SizeAt
    <2>5. ListsSound' /\ ListsComplete'
      BY <2>1 DEF IInv, ListsSound, ListsComplete
    <2> QED
      BY <2>2, <2>3, <2>4, <2>5 DEF IInv
  <1> QED
    BY <1>1, <1>2

LEMMA SplitFromKeeps == ASSUME IInv, split_from PROVE IInv'
  <1> USE DEF split_from, heap
  <1>1. TypeOK'
    BY ClassAssumption DEF IInv, TypeOK, PCs, Class, Top
  <1>2. CallState'
    BY DEF IInv, CallState, TypeOK, Class
  <1>3. BlocksDisjoint' /\ BlocksCover'
    BY DEF IInv, BlocksDisjoint, BlocksCover, SizeAt
  <1>4. ListsSound' /\ ListsComplete'
    BY DEF IInv, ListsSound, ListsComplete
  <1> QED
    BY <1>1, <1>2, <1>3, <1>4 DEF IInv

LEMMA DequeueKeeps == ASSUME IInv, free_list_dequeue PROVE IInv'
  <1> DEFINE s == free_list[cur]
             b == Head(s)
  <1>0. /\ s \in Seq(Nat) /\ s # <<>> /\ Injective(s) /\ cur \in Class
        /\ b \in Elems(s) /\ b \in DOMAIN meta /\ b \in Nat
        /\ meta[b] = [class |-> cur, is_free |-> TRUE]
    <2>1. s \in Seq(Nat) /\ s # <<>> /\ Injective(s) /\ cur \in Class
      BY DEF free_list_dequeue, IInv, TypeOK, ListsSound, Injective
    <2>2. b \in Elems(s)
      BY <2>1, PopElems
    <2> QED
      BY <2>1, <2>2 DEF IInv, TypeOK, ListsSound
  <1>1. /\ pc = "dequeue" /\ blk' = b
        /\ free_list' = [free_list EXCEPT ![cur] = Tail(s)]
        /\ pc' = IF cur = want THEN "check_out" ELSE "split"
        /\ UNCHANGED <<meta, heap_end, cur, want, len, panic>>
    BY <1>0 DEF free_list_dequeue
  <1>2. /\ Tail(s) \in Seq(Nat)
        /\ Elems(Tail(s)) = Elems(s) \ {b}
        /\ Injective(Tail(s))
    BY <1>0, PopElems
  <1>3. /\ free_list'[cur] = Tail(s)
        /\ \A c \in Class \ {cur} : free_list'[c] = free_list[c]
        /\ free_list' \in [Class -> Seq(Nat)]
    BY <1>0, <1>1, <1>2 DEF IInv, TypeOK
  <1> HIDE DEF s, b
  <1>4. TypeOK'
    BY <1>0, <1>1, <1>3 DEF IInv, TypeOK, PCs
  <1>5. CallState'
    BY <1>0, <1>1 DEF IInv, CallState, TypeOK, Class
  <1>6. BlocksDisjoint' /\ BlocksCover'
    BY <1>1 DEF IInv, BlocksDisjoint, BlocksCover, SizeAt
  <1>7. ListsSound'
    BY <1>0, <1>1, <1>2, <1>3 DEF IInv, ListsSound, Injective, s
  <1>8. ListsComplete'
    <2>1. blk = NULL
      BY <1>1 DEF IInv, CallState
    <2> SUFFICES ASSUME NEW a \in DOMAIN meta, meta[a].is_free, a # b
                 PROVE  a \in Elems(free_list'[meta[a].class])
      BY <1>1 DEF ListsComplete
    <2>2. a \in Nat /\ meta[a].class \in Class
      BY DEF IInv, TypeOK, Header_t
    <2>3. a \in Elems(free_list[meta[a].class])
      BY <2>1, <2>2 DEF IInv, ListsComplete, NULL
    <2> QED
      BY <2>2, <2>3, <1>2, <1>3 DEF s
  <1> QED
    BY <1>4, <1>5, <1>6, <1>7, <1>8 DEF IInv

LEMMA ExpandKeeps == ASSUME IInv, expand_heap PROVE IInv'
  <1>1. CASE heap_end >= MaxExpand * Size[Top]
    BY <1>1, PanicKeeps DEF expand_heap, OutOfFrames
  <1>2. CASE ~(heap_end >= MaxExpand * Size[Top])
    <2>0. Top \in Class /\ Size[Top] \in Nat /\ Size[Top] > 0
      BY ClassAssumption, SizeAssumption DEF Class, Top
    <2>1. /\ pc = "dequeue" /\ cur = Top /\ free_list[Top] = <<>>
          /\ meta' = block_init(meta, heap_end, Top, TRUE)
          /\ free_list' = [free_list EXCEPT ![Top] = <<heap_end>> \o @]
          /\ heap_end' = heap_end + Size[Top]
          /\ UNCHANGED <<pc, blk, cur, want, len, panic>>
      BY <1>2 DEF expand_heap, call
    <2>2. /\ DOMAIN meta' = DOMAIN meta \cup {heap_end}
          /\ meta'[heap_end] = [class |-> Top, is_free |-> TRUE]
          /\ \A x \in DOMAIN meta \ {heap_end} : meta'[x] = meta[x]
      BY <2>1 DEF block_init
    <2>3. \A a \in DOMAIN meta :
             /\ a \in Nat /\ a # heap_end /\ meta'[a] = meta[a]
             /\ meta[a].class \in Class /\ SizeAt(a) \in Nat /\ SizeAt(a) > 0
             /\ a + SizeAt(a) <= heap_end
      BY <2>2, SizeAssumption DEF IInv, TypeOK, Header_t, BlocksDisjoint, SizeAt
    <2>4. heap_end \in Nat
      BY DEF IInv, TypeOK
    <2>5. /\ free_list'[Top] = <<heap_end>> /\ Elems(free_list'[Top]) = {heap_end}
          /\ \A c \in Class \ {Top} : free_list'[c] = free_list[c]
          /\ free_list' \in [Class -> Seq(Nat)]
      <3>1. <<heap_end>> \o <<>> = <<heap_end>> /\ <<heap_end>> \in Seq(Nat)
        BY <2>4
      <3>2. Elems(<<heap_end>>) = {heap_end}
        BY <2>4 DEF Elems
      <3>3. free_list' = [free_list EXCEPT ![Top] = <<heap_end>>]
        BY <2>1, <3>1
      <3> QED
        BY <2>0, <3>1, <3>2, <3>3 DEF IInv, TypeOK
    <2>6. TypeOK'
      <3>1. DOMAIN meta' \subseteq Nat /\ meta' \in [DOMAIN meta' -> Header_t]
        BY <2>0, <2>1, <2>4, InitBlockType DEF IInv, TypeOK
      <3>2. heap_end' \in Nat /\ free_list' \in [Class -> Seq(Nat)]
        BY <2>0, <2>1, <2>4, <2>5
      <3>3. /\ pc' \in PCs /\ blk' \in Nat \cup {NULL}
            /\ cur' \in Class /\ want' \in Class /\ len' \in Nat
            /\ panic' \in {"none"} \cup CallerErrors \cup OutOfFrames \cup InternalErrors
        BY <2>1 DEF IInv, TypeOK
      <3> QED
        BY <3>1, <3>2, <3>3 DEF TypeOK
    <2>7. CallState'
      BY <2>1 DEF IInv, CallState
    <2> DEFINE old == DOMAIN meta
               e == heap_end
               new(x) == Size[meta'[x].class]
    <2>12. /\ new(e) = Size[Top]
           /\ \A a \in old : new(a) = SizeAt(a)
      BY <2>2, <2>3 DEF SizeAt
    <2>8. BlocksDisjoint'
      <3>1. ASSUME NEW a \in old PROVE a + new(a) <= heap_end'
        <4>1. a \in Nat /\ SizeAt(a) \in Nat /\ a + SizeAt(a) <= heap_end
          BY <2>3
        <4>2. a + SizeAt(a) <= heap_end + Size[Top]
          BY <4>1, <2>0, <2>4
        <4>3. new(a) = SizeAt(a) /\ heap_end' = heap_end + Size[Top]
          BY <2>1, <2>12
        <4> HIDE DEF new
        <4> QED
          BY <4>2, <4>3
      <3>2. e + new(e) <= heap_end'
        BY <2>0, <2>1, <2>4, <2>12
      <3>3. \A a, b \in old : a < b => a + new(a) <= b
        BY <2>12 DEF IInv, BlocksDisjoint
      <3>4. \A a \in old : a < e /\ a + new(a) <= e
        BY <2>3, <2>4, <2>12
      <3> QED
        BY <3>1, <3>2, <3>3, <3>4, <2>2, <2>3, <2>4 DEF BlocksDisjoint, SizeAt
    <2>9. BlocksCover'
      <3>1. \A a \in old : a + SizeAt(a) \in DOMAIN meta'
        BY <2>2 DEF IInv, BlocksCover
      <3>2. e + new(e) = heap_end'
        BY <2>1, <2>12
      <3>3. 0 \in DOMAIN meta'
        BY <2>2, <2>4 DEF IInv, BlocksCover
      <3> QED
        BY <3>1, <3>2, <3>3, <2>2, <2>12 DEF BlocksCover, SizeAt
    <2>10. ListsSound'
      <3>1. blk = NULL /\ heap_end # NULL
        BY <2>1, <2>4 DEF IInv, CallState, NULL
      <3>2. ASSUME NEW c \in Class, c # Top, NEW a \in Elems(free_list'[c])
            PROVE  /\ a \in DOMAIN meta' /\ a # blk
                   /\ meta'[a] = [class |-> c, is_free |-> TRUE]
        BY <3>2, <2>2, <2>3, <2>5 DEF IInv, ListsSound
      <3>3. ASSUME NEW c \in Class, NEW i \in DOMAIN free_list'[c],
                   NEW j \in DOMAIN free_list'[c], free_list'[c][i] = free_list'[c][j]
            PROVE  i = j
        <4>1. DOMAIN <<heap_end>> = {1}
          OBVIOUS
        <4> QED
          BY <3>3, <4>1, <2>5 DEF IInv, ListsSound
      <3> QED
        BY <3>1, <3>2, <3>3, <2>1, <2>2, <2>5 DEF ListsSound
    <2>11. ListsComplete'
      <3> SUFFICES ASSUME NEW a \in DOMAIN meta', meta'[a].is_free, a # blk
                   PROVE  a \in Elems(free_list'[meta'[a].class])
        BY <2>1 DEF ListsComplete
      <3>1. CASE a = heap_end
        BY <3>1, <2>2, <2>5
      <3>2. CASE a \in DOMAIN meta
        <4>1. a \in Elems(free_list[meta[a].class]) /\ meta'[a] = meta[a]
          BY <3>2, <2>3 DEF IInv, ListsComplete
        <4>2. meta[a].class # Top
          BY <4>1, <2>1 DEF Elems
        <4> QED
          BY <4>1, <4>2, <3>2, <2>3, <2>5
      <3> QED
        BY <3>1, <3>2, <2>2
    <2> QED
      BY <2>6, <2>7, <2>8, <2>9, <2>10, <2>11 DEF IInv
  <1> QED
    BY <1>1, <1>2

LEMMA CheckOutKeeps == ASSUME IInv, check_out PROVE IInv'
  <1>0. /\ pc = "check_out" /\ blk \in DOMAIN meta /\ meta[blk].is_free
        /\ meta[blk].class = want /\ want \in Class /\ blk \in Nat
    BY DEF check_out, IInv, CallState, TypeOK
  <1>1. CASE Size[want] - Header < len
    BY <1>0, <1>1, PanicKeeps DEF check_out, InternalErrors
  <1>2. CASE ~(Size[want] - Header < len)
    <2>1. /\ meta' = block_init(meta, blk, want, FALSE)
          /\ UNCHANGED <<free_list, heap_end, panic>>
          /\ pc' = "idle" /\ blk' = NULL /\ cur' = 0 /\ want' = 0 /\ len' = 0
      BY <1>0, <1>2 DEF check_out, Return
    <2>2. /\ DOMAIN meta' = DOMAIN meta
          /\ meta'[blk] = [class |-> want, is_free |-> FALSE]
          /\ \A x \in DOMAIN meta \ {blk} : meta'[x] = meta[x]
      BY <1>0, <2>1 DEF block_init
    <2>3. \A a \in DOMAIN meta : meta'[a].class = meta[a].class
      BY <1>0, <2>2
    <2>4. TypeOK'
      <3>1. DOMAIN meta' \subseteq Nat /\ meta' \in [DOMAIN meta' -> Header_t]
        BY <1>0, <2>1, InitBlockType DEF IInv, TypeOK
      <3>2. heap_end' \in Nat /\ free_list' \in [Class -> Seq(Nat)]
        BY <2>1 DEF IInv, TypeOK
      <3>3. /\ pc' \in PCs /\ blk' \in Nat \cup {NULL}
            /\ cur' \in Class /\ want' \in Class /\ len' \in Nat
            /\ panic' \in {"none"} \cup CallerErrors \cup OutOfFrames \cup InternalErrors
        BY <2>1, ClassAssumption DEF IInv, TypeOK, PCs, Class
      <3> QED
        BY <3>1, <3>2, <3>3 DEF TypeOK
    <2>5. CallState'
      BY <2>1 DEF CallState
    <2>6. BlocksDisjoint' /\ BlocksCover'
      BY <2>1, <2>2, <2>3 DEF IInv, BlocksDisjoint, BlocksCover, SizeAt
    <2>7. ListsSound'
      <3> SUFFICES ASSUME NEW c \in Class, NEW a \in Elems(free_list[c])
                   PROVE  /\ a \in DOMAIN meta'
                          /\ meta'[a] = [class |-> c, is_free |-> TRUE]
                          /\ a # NULL
        BY <2>1 DEF IInv, ListsSound
      <3>1. a \in DOMAIN meta /\ meta[a] = [class |-> c, is_free |-> TRUE] /\ a # blk
        BY DEF IInv, ListsSound
      <3> QED
        BY <3>1, <2>2 DEF IInv, TypeOK, NULL
    <2>8. ListsComplete'
      <3> SUFFICES ASSUME NEW a \in DOMAIN meta', meta'[a].is_free
                   PROVE  a \in Elems(free_list'[meta'[a].class])
        BY DEF ListsComplete
      <3>1. a # blk /\ a \in DOMAIN meta /\ meta'[a] = meta[a]
        BY <2>2
      <3> QED
        BY <3>1, <2>1 DEF IInv, ListsComplete
    <2> QED
      BY <2>4, <2>5, <2>6, <2>7, <2>8 DEF IInv
  <1> QED
    BY <1>1, <1>2

LEMMA FreeKeeps == ASSUME IInv, NEW a \in Nat, mm_heap_free(a) PROVE IInv'
  <1>1. CASE a \notin DOMAIN meta \/ meta[a].is_free
    <2>1. \E r \in CallerErrors : Panic(r)
      BY <1>1 DEF mm_heap_free, CallerErrors
    <2> QED
      BY <2>1, PanicKeeps
  <1>2. CASE a \in DOMAIN meta /\ ~meta[a].is_free
    <2>1. /\ pc = "idle" /\ pc' = "coalesce" /\ blk' = a
          /\ meta' = block_init(meta, a, meta[a].class, TRUE)
          /\ UNCHANGED <<free_list, heap_end, cur, want, len, panic>>
      BY <1>2 DEF mm_heap_free
    <2>2. /\ DOMAIN meta' = DOMAIN meta
          /\ meta'[a] = [class |-> meta[a].class, is_free |-> TRUE]
          /\ \A x \in DOMAIN meta \ {a} : meta'[x] = meta[x]
      BY <1>2, <2>1 DEF block_init
    <2>3. \A x \in DOMAIN meta : meta'[x].class = meta[x].class
      BY <1>2, <2>2
    <2>4. TypeOK'
      <3>0. meta[a].class \in Class
        BY <1>2 DEF IInv, TypeOK, Header_t
      <3>1. DOMAIN meta' \subseteq Nat /\ meta' \in [DOMAIN meta' -> Header_t]
        BY <3>0, <2>1, InitBlockType DEF IInv, TypeOK
      <3>2. /\ heap_end' \in Nat /\ free_list' \in [Class -> Seq(Nat)]
            /\ pc' \in PCs /\ blk' \in Nat \cup {NULL}
            /\ cur' \in Class /\ want' \in Class /\ len' \in Nat
            /\ panic' \in {"none"} \cup CallerErrors \cup OutOfFrames \cup InternalErrors
        BY <2>1 DEF IInv, TypeOK, PCs
      <3> QED
        BY <3>1, <3>2 DEF TypeOK
    <2>5. CallState'
      <3>1. a \in DOMAIN meta' /\ meta'[a].is_free
        BY <1>2, <2>2
      <3> QED
        BY <3>1, <2>1 DEF IInv, CallState
    <2>6. BlocksDisjoint' /\ BlocksCover'
      BY <2>1, <2>2, <2>3 DEF IInv, BlocksDisjoint, BlocksCover, SizeAt
    <2>7. ListsSound'
      <3> SUFFICES ASSUME NEW c \in Class, NEW x \in Elems(free_list[c])
                   PROVE  /\ x \in DOMAIN meta'
                          /\ meta'[x] = [class |-> c, is_free |-> TRUE]
                          /\ x # a
        BY <2>1 DEF IInv, ListsSound
      <3>1. x \in DOMAIN meta /\ meta[x] = [class |-> c, is_free |-> TRUE]
        BY DEF IInv, ListsSound
      <3> QED
        BY <3>1, <2>2, <1>2
    <2>8. ListsComplete'
      <3> SUFFICES ASSUME NEW x \in DOMAIN meta, meta'[x].is_free, x # a
                   PROVE  x \in Elems(free_list[meta'[x].class])
        BY <2>1, <2>2 DEF ListsComplete
      <3>1. x # blk
        BY <2>1 DEF IInv, CallState, TypeOK, NULL
      <3> QED
        BY <3>1, <2>2 DEF IInv, ListsComplete
    <2> QED
      BY <2>4, <2>5, <2>6, <2>7, <2>8 DEF IInv
  <1> QED
    BY <1>1, <1>2

LEMMA EnqueueKeeps == ASSUME IInv, free_list_enqueue PROVE IInv'
  <1> DEFINE c == meta[blk].class
             s == free_list[c]
  <1>0. /\ pc = "coalesce" /\ blk \in DOMAIN meta /\ blk \in Nat
        /\ meta[blk].is_free /\ c \in Class /\ meta[blk] \in Header_t
        /\ s \in Seq(Nat) /\ Injective(s) /\ blk \notin Elems(s)
    BY DEF free_list_enqueue, IInv, CallState, TypeOK, Header_t, ListsSound, Injective
  <1>1. CASE c < Top /\ ~buddy_ok(blk, c)
    BY <1>1, PanicKeeps DEF free_list_enqueue, InternalErrors
  <1>2. CASE ~(c < Top /\ ~buddy_ok(blk, c))
    <2>1. /\ free_list' = [free_list EXCEPT ![c] = <<blk>> \o s]
          /\ meta' = block_init(meta, blk, c, TRUE)
          /\ UNCHANGED <<heap_end, panic>>
          /\ pc' = "idle" /\ blk' = NULL /\ cur' = 0 /\ want' = 0 /\ len' = 0
      BY <1>0, <1>2 DEF free_list_enqueue, Return
    <2>2. meta' = meta
      <3>1. meta[blk] = [class |-> c, is_free |-> TRUE]
        BY <1>0 DEF Header_t
      <3>2. meta = [x \in DOMAIN meta |-> meta[x]]
        BY DEF IInv, TypeOK
      <3> HIDE DEF c
      <3>3. meta' = [x \in DOMAIN meta |-> meta[x]]
        BY <1>0, <2>1, <3>1 DEF block_init
      <3> QED
        BY <3>2, <3>3
    <2>10. blk' = NULL /\ \A x \in Nat : x # NULL
      BY <2>1 DEF NULL
    <2>3. /\ <<blk>> \o s \in Seq(Nat)
          /\ Elems(<<blk>> \o s) = {blk} \cup Elems(s)
          /\ Injective(<<blk>> \o s)
      BY <1>0, PushElems
    <2>4. /\ free_list'[c] = <<blk>> \o s
          /\ \A d \in Class \ {c} : free_list'[d] = free_list[d]
          /\ free_list' \in [Class -> Seq(Nat)]
      BY <1>0, <2>1, <2>3 DEF IInv, TypeOK
    <2>5. TypeOK'
      <3>1. /\ heap_end' \in Nat
            /\ pc' \in PCs /\ blk' \in Nat \cup {NULL}
            /\ cur' \in Class /\ want' \in Class /\ len' \in Nat
            /\ panic' \in {"none"} \cup CallerErrors \cup OutOfFrames \cup InternalErrors
        BY <2>1, ClassAssumption DEF IInv, TypeOK, PCs, Class
      <3> QED
        BY <3>1, <2>2, <2>4 DEF IInv, TypeOK
    <2>6. CallState'
      BY <2>1 DEF CallState
    <2>7. BlocksDisjoint' /\ BlocksCover'
      BY <2>1, <2>2 DEF IInv, BlocksDisjoint, BlocksCover, SizeAt
    <2>8. ListsSound'
      <3>1. ASSUME NEW d \in Class, NEW a \in Elems(free_list'[d])
            PROVE  /\ a \in DOMAIN meta' /\ a # blk'
                   /\ meta'[a] = [class |-> d, is_free |-> TRUE]
        <4>1. CASE d = c /\ a = blk
          BY <4>1, <1>0, <2>2, <2>10 DEF Header_t
        <4>2. CASE ~(d = c /\ a = blk)
          <5>1. a \in Elems(free_list[d])
            BY <4>2, <2>3, <2>4
          <5>2. a \in DOMAIN meta /\ meta[a] = [class |-> d, is_free |-> TRUE] /\ a \in Nat
            BY <5>1 DEF IInv, ListsSound, TypeOK
          <5> QED
            BY <5>2, <2>2, <2>10
        <4> QED
          BY <4>1, <4>2
      <3>2. \A d \in Class : Injective(free_list'[d])
        BY <2>3, <2>4 DEF IInv, ListsSound, Injective
      <3> QED
        BY <3>1, <3>2 DEF ListsSound, Injective
    <2>9. ListsComplete'
      <3> SUFFICES ASSUME NEW a \in DOMAIN meta, meta[a].is_free
                   PROVE  a \in Elems(free_list'[meta[a].class])
        BY <2>2 DEF ListsComplete
      <3>1. CASE a = blk
        BY <3>1, <2>3, <2>4
      <3>2. CASE a # blk
        <4>1. a \in Elems(free_list[meta[a].class]) /\ meta[a].class \in Class
          BY <3>2 DEF IInv, ListsComplete, TypeOK, Header_t
        <4> QED
          BY <4>1, <2>3, <2>4
      <3> QED
        BY <3>1, <3>2
    <2> QED
      BY <2>5, <2>6, <2>7, <2>8, <2>9 DEF IInv
  <1> QED
    BY <1>1, <1>2

(* What the tiling says of one block: a positive size, inside the heap.    *)
LEMMA BlockFacts ==
    ASSUME IInv, NEW a \in DOMAIN meta
    PROVE  /\ a \in Nat /\ heap_end \in Nat /\ meta[a].class \in Class
           /\ SizeAt(a) \in Nat /\ SizeAt(a) > 0
           /\ a + SizeAt(a) <= heap_end
           /\ a + SizeAt(a) \in DOMAIN meta \cup {heap_end}
           /\ \A b \in DOMAIN meta : a < b => a + SizeAt(a) <= b
  <1>1. a \in Nat /\ heap_end \in Nat /\ meta[a].class \in Class
    BY DEF IInv, TypeOK, Header_t
  <1>2. SizeAt(a) \in Nat /\ SizeAt(a) > 0
    BY <1>1, SizeAssumption DEF SizeAt
  <1> QED
    BY <1>1, <1>2 DEF IInv, BlocksDisjoint, BlocksCover

LEMMA SplitKeeps == ASSUME IInv, split PROVE IInv'
  <1>1. CASE free_list[cur - 1] # <<>>
    BY <1>1, PanicKeeps DEF split, InternalErrors
  <1>2. CASE free_list[cur - 1] = <<>>
    <2> DEFINE low == blk
               z == Size[cur - 1]
               high == low + z
               old == DOMAIN meta
               new(x) == Size[meta'[x].class]
    <2>0. /\ pc = "split" /\ low \in old /\ low \in Nat /\ meta[low].class = cur
          /\ cur \in Class /\ cur - 1 \in Class /\ cur - 1 # cur
          /\ (cur - 1) + 1 = cur
      <3>1. /\ pc = "split" /\ blk \in DOMAIN meta /\ meta[blk].class = cur
            /\ cur > want /\ cur \in Class /\ want \in Class
        BY DEF split, IInv, CallState, TypeOK
      <3>2. blk \in Nat
        BY <3>1 DEF IInv, TypeOK
      <3>3. cur - 1 \in Class /\ cur - 1 # cur /\ (cur - 1) + 1 = cur
        BY <3>1, ClassAssumption DEF Class
      <3> QED
        BY <3>1, <3>2, <3>3
    <2>1. /\ z \in Nat /\ z > 0 /\ SizeAt(low) = 2 * z /\ high \in Nat
          /\ high = low + z /\ high # low
      <3>1. z \in Nat /\ z > 0
        BY <2>0, SizeAssumption
      <3>2. Size[cur] = 2 * Size[cur - 1]
        BY <2>0, SizeAssumption
      <3> HIDE DEF z
      <3> QED
        BY <3>1, <3>2, <2>0 DEF SizeAt, z
    <2>2. /\ meta' = block_init(block_init(meta, low, cur - 1, TRUE), high, cur - 1, TRUE)
          /\ free_list' = [free_list EXCEPT ![cur - 1] = <<high, low>>]
          /\ cur' = cur - 1 /\ blk' = NULL /\ pc' = "dequeue"
          /\ UNCHANGED <<heap_end, want, len, panic>>
      BY <1>2 DEF split, next_size
    <2>3. high \notin old
      BY <2>0, <2>1, BlockFacts
    <2>4. /\ DOMAIN meta' = old \cup {high}
          /\ meta'[low] = [class |-> cur - 1, is_free |-> TRUE]
          /\ meta'[high] = [class |-> cur - 1, is_free |-> TRUE]
          /\ \A x \in old \ {low} : meta'[x] = meta[x]
      BY <2>0, <2>1, <2>2, <2>3 DEF block_init
    <2>5. /\ free_list'[cur - 1] = <<high, low>>
          /\ Elems(free_list'[cur - 1]) = {high, low}
          /\ Injective(free_list'[cur - 1])
          /\ \A d \in Class \ {cur - 1} : free_list'[d] = free_list[d]
          /\ free_list' \in [Class -> Seq(Nat)]
      <3> HIDE DEF low, high
      <3>1. free_list'[cur - 1] = <<high, low>>
        BY <2>0, <2>2 DEF IInv, TypeOK
      <3>2. DOMAIN <<high, low>> = {1, 2} /\ <<high, low>> \in Seq(Nat)
        BY <2>0, <2>1
      <3>3. Elems(<<high, low>>) = {high, low}
        BY <3>2 DEF Elems
      <3>4. Injective(<<high, low>>)
        BY <3>2, <2>1 DEF Injective
      <3> QED
        BY <3>1, <3>2, <3>3, <3>4, <2>0, <2>2 DEF IInv, TypeOK
    <2>6. /\ new(low) = z /\ new(high) = z
          /\ \A x \in old \ {low} : new(x) = SizeAt(x)
      BY <2>4 DEF SizeAt
    <2>7. TypeOK'
      <3>1. DOMAIN meta' \subseteq Nat /\ meta' \in [DOMAIN meta' -> Header_t]
        BY <2>0, <2>1, <2>2, InitBlockType DEF IInv, TypeOK
      <3>2. /\ heap_end' \in Nat
            /\ pc' \in PCs /\ blk' \in Nat \cup {NULL}
            /\ cur' \in Class /\ want' \in Class /\ len' \in Nat
            /\ panic' \in {"none"} \cup CallerErrors \cup OutOfFrames \cup InternalErrors
        BY <2>0, <2>2 DEF IInv, TypeOK, PCs
      <3> QED
        BY <3>1, <3>2, <2>5 DEF TypeOK
    <2>8. CallState'
      BY <2>0, <2>2 DEF IInv, CallState, TypeOK, Class
    <2> HIDE DEF high, z, new, low, old
    <2>9. BlocksDisjoint'
      <3>1. ASSUME NEW a \in DOMAIN meta' PROVE a + new(a) <= heap_end'
        <4>1. heap_end' = heap_end /\ low + 2 * z <= heap_end /\ heap_end \in Nat
          BY <2>0, <2>1, <2>2, BlockFacts DEF old
        <4>2. CASE a = low \/ a = high
          BY <4>1, <4>2, <2>0, <2>1, <2>6
        <4>3. CASE a \in old \ {low}
          BY <4>1, <4>3, <2>6, BlockFacts DEF old
        <4> QED
          BY <4>2, <4>3, <2>4
      <3>2. ASSUME NEW a \in DOMAIN meta', NEW b \in DOMAIN meta', a < b
            PROVE  a + new(a) <= b
        <4>1. \A x \in old : low < x => low + 2 * z <= x
          BY <2>0, <2>1, BlockFacts DEF old
        <4>2. CASE a = low
          <5>1. b = high \/ low + 2 * z <= b
            BY <3>2, <4>1, <4>2, <2>4
          <5>2. b \in Nat
            BY <2>1, <2>4, BlockFacts DEF old
          <5> QED
            BY <5>1, <5>2, <4>2, <2>0, <2>1, <2>6
        <4>3. CASE a = high
          <5>1. b \in old /\ low < b /\ b \in Nat
            BY <3>2, <4>3, <2>0, <2>1, <2>4, BlockFacts DEF old
          <5> QED
            BY <5>1, <4>1, <4>3, <2>0, <2>1, <2>6
        <4>4. CASE a \in old \ {low} /\ b = high
          <5>1. a \in Nat /\ ~(low < a)
            BY <3>2, <4>1, <4>4, <2>0, <2>1, BlockFacts DEF old
          <5>2. a < low
            BY <5>1, <4>4, <2>0
          <5>3. a + SizeAt(a) <= low /\ SizeAt(a) \in Nat
            BY <5>2, <4>4, <2>0, BlockFacts DEF old
          <5> QED
            BY <5>1, <5>3, <4>4, <2>0, <2>1, <2>6
        <4>5. CASE a \in old \ {low} /\ b \in old
          BY <3>2, <4>5, <2>6, BlockFacts DEF old
        <4> QED
          BY <4>2, <4>3, <4>4, <4>5, <2>4
      <3> QED
        BY <3>1, <3>2 DEF BlocksDisjoint, SizeAt, new
    <2>10. BlocksCover'
      <3>1. \A a \in old : a + SizeAt(a) \in old \cup {heap_end}
        BY BlockFacts DEF old
      <3>2. low + z = high /\ high + z = low + SizeAt(low)
        BY <2>0, <2>1
      <3>3. \A a \in DOMAIN meta' : a + new(a) \in DOMAIN meta' \cup {heap_end}
        BY <3>1, <3>2, <2>0, <2>4, <2>6
      <3>4. heap_end > 0 => 0 \in DOMAIN meta'
        BY <2>4 DEF IInv, BlocksCover, old
      <3> QED
        BY <3>3, <3>4, <2>2 DEF BlocksCover, SizeAt, new
    <2>11. ListsSound'
      <3>1. blk' = NULL /\ \A x \in Nat : x # NULL
        BY <2>2 DEF NULL
      <3>2. ASSUME NEW d \in Class, NEW a \in Elems(free_list'[d])
            PROVE  /\ a \in DOMAIN meta' /\ a # blk'
                   /\ meta'[a] = [class |-> d, is_free |-> TRUE]
        <4>1. CASE d = cur - 1
          BY <4>1, <3>1, <2>0, <2>1, <2>4, <2>5
        <4>2. CASE d # cur - 1
          <5>1. a \in Elems(free_list[d])
            BY <4>2, <2>5
          <5>2. a \in old /\ meta[a] = [class |-> d, is_free |-> TRUE] /\ a # low /\ a \in Nat
            BY <5>1 DEF IInv, ListsSound, TypeOK, low, old
          <5> QED
            BY <5>2, <3>1, <2>4
        <4> QED
          BY <4>1, <4>2
      <3>3. ASSUME NEW d \in Class PROVE Injective(free_list'[d])
        <4>1. Injective(free_list[d])
          BY DEF IInv, ListsSound, Injective
        <4> QED
          BY <4>1, <2>0, <2>5
      <3> QED
        BY <3>2, <3>3 DEF ListsSound, Injective
    <2>12. ListsComplete'
      <3> SUFFICES ASSUME NEW a \in DOMAIN meta', meta'[a].is_free
                   PROVE  a \in Elems(free_list'[meta'[a].class])
        BY DEF ListsComplete
      <3>1. CASE a = low \/ a = high
        <4>1. meta'[a].class = cur - 1
          BY <3>1, <2>4
        <4> QED
          BY <4>1, <3>1, <2>5
      <3>2. CASE a \in old \ {low}
        <4>1. /\ a \in Elems(free_list[meta[a].class])
              /\ meta[a].class \in Class /\ meta'[a] = meta[a]
          BY <3>2, <2>4 DEF IInv, ListsComplete, TypeOK, Header_t, low, old
        <4>2. meta[a].class # cur - 1
          BY <4>1, <1>2 DEF Elems
        <4> QED
          BY <4>1, <4>2, <2>5
      <3> QED
        BY <3>1, <3>2, <2>4
    <2> QED
      BY <2>7, <2>8, <2>9, <2>10, <2>11, <2>12 DEF IInv
  <1> QED
    BY <1>1, <1>2

(* The merge: the two halves lie next to each other, whichever of them was *)
(* freed last, so the block of the next class covers exactly both.         *)
LEMMA CoalesceKeeps == ASSUME IInv, coalescing_block PROVE IInv'
  <1> DEFINE c == meta[blk].class
             buddy == find_buddy(blk, c)
             low == IF buddy < blk THEN buddy ELSE blk
             high == IF buddy < blk THEN blk ELSE buddy
             z == Size[c]
             s == free_list[c]
             old == DOMAIN meta
             new(x) == Size[meta'[x].class]
  <1>1. CASE buddy \notin Elems(s)
    BY <1>1, PanicKeeps DEF coalescing_block, InternalErrors
  <1>2. CASE buddy \in Elems(s)
    <2>1. /\ pc = "coalesce" /\ blk \in old /\ blk \in Nat
          /\ c \in Class /\ c + 1 \in Class /\ c < Top
          /\ buddy \in old /\ buddy \in Nat /\ meta[buddy].class = c
      <3>1. pc = "coalesce" /\ blk \in old /\ c < Top /\ buddy \in old /\ meta[buddy].class = c
        BY DEF coalescing_block, Coalesces, buddy_ok, IInv, CallState
      <3>2. blk \in Nat /\ buddy \in Nat /\ c \in Class
        BY <3>1 DEF IInv, TypeOK, Header_t
      <3> HIDE DEF c
      <3>3. c + 1 \in Class
        BY <3>1, <3>2, ClassAssumption DEF Class, Top
      <3> QED
        BY <3>1, <3>2, <3>3
    <2>2. z \in Nat /\ z > 0 /\ Size[c + 1] = 2 * z
      BY <2>1, SizeAssumption
    <2>3. buddy = blk - z \/ buddy = blk + z
      BY DEF find_buddy
    <2>4. /\ free_list' = [free_list EXCEPT ![c] = Unlink(s, buddy)]
          /\ meta' = block_init(block_clean(meta, high), low, c + 1, TRUE)
          /\ blk' = low
          /\ UNCHANGED <<heap_end, pc, cur, want, len, panic>>
      BY <1>2 DEF coalescing_block
    <2>5. s \in Seq(Nat) /\ Injective(s)
      BY <2>1 DEF IInv, TypeOK, ListsSound, Injective
    <2>6. /\ Unlink(s, buddy) \in Seq(Nat)
          /\ Elems(Unlink(s, buddy)) = Elems(s) \ {buddy}
          /\ Injective(Unlink(s, buddy))
      BY <1>2, <2>5, UnlinkElems
    <2>7. /\ free_list'[c] = Unlink(s, buddy)
          /\ \A d \in Class \ {c} : free_list'[d] = free_list[d]
          /\ free_list' \in [Class -> Seq(Nat)]
      BY <2>1, <2>4, <2>6 DEF IInv, TypeOK
    <2> HIDE DEF buddy, c, z, s, old
    <2>8. /\ low \in old /\ high \in old /\ low \in Nat /\ high \in Nat
          /\ high = low + z /\ low # high /\ {low, high} = {blk, buddy}
      BY <2>1, <2>2, <2>3
    <2> HIDE DEF low, high
    <2>9. /\ DOMAIN meta' = old \ {high}
          /\ meta'[low] = [class |-> c + 1, is_free |-> TRUE]
          /\ \A x \in old \ {low, high} : meta'[x] = meta[x]
      BY <2>4, <2>8 DEF block_init, block_clean, old
    <2>10. /\ new(low) = 2 * z /\ SizeAt(low) = z /\ SizeAt(high) = z
           /\ \A x \in old \ {low, high} : new(x) = SizeAt(x)
      <3>1. meta[low].class = c /\ meta[high].class = c
        BY <2>1, <2>8 DEF c
      <3> QED
        BY <3>1, <2>2, <2>9 DEF SizeAt, z
    <2> HIDE DEF new
    <2>11. TypeOK'
      <3>1. /\ DOMAIN block_clean(meta, high) \subseteq Nat
            /\ block_clean(meta, high) \in [DOMAIN block_clean(meta, high) -> Header_t]
        BY CleanBlockType DEF IInv, TypeOK
      <3>2. DOMAIN meta' \subseteq Nat /\ meta' \in [DOMAIN meta' -> Header_t]
        BY <3>1, <2>1, <2>4, <2>8, InitBlockType
      <3>3. /\ heap_end' \in Nat
            /\ pc' \in PCs /\ blk' \in Nat \cup {NULL}
            /\ cur' \in Class /\ want' \in Class /\ len' \in Nat
            /\ panic' \in {"none"} \cup CallerErrors \cup OutOfFrames \cup InternalErrors
        BY <2>4, <2>8 DEF IInv, TypeOK
      <3> QED
        BY <3>2, <3>3, <2>7 DEF TypeOK
    <2>12. CallState'
      <3>1. low \in DOMAIN meta' /\ meta'[low].is_free
        BY <2>8, <2>9
      <3> QED
        BY <3>1, <2>1, <2>4 DEF IInv, CallState
    <2>13. \A x \in old : x \in Nat /\ (low < x /\ x # high => high + z <= x)
      <3> SUFFICES ASSUME NEW x \in old, low < x, x # high
                   PROVE  high + z <= x
        BY BlockFacts DEF old
      <3>1. x \in Nat /\ low + z <= x
        BY <2>8, <2>10, BlockFacts DEF old
      <3>2. high < x
        BY <3>1, <2>8
      <3> QED
        BY <3>2, <2>8, <2>10, BlockFacts DEF old
    <2>14. BlocksDisjoint'
      <3>1. ASSUME NEW a \in old \ {high} PROVE a + new(a) <= heap_end
        <4>1. CASE a = low
          <5>1. high + z <= heap_end
            BY <2>8, <2>10, BlockFacts DEF old
          <5> QED
            BY <4>1, <5>1, <2>2, <2>8, <2>10
        <4>2. CASE a # low
          BY <4>2, <2>10, BlockFacts DEF old
        <4> QED
          BY <4>1, <4>2
      <3>2. ASSUME NEW a \in old \ {high}, NEW b \in old \ {high}, a < b
            PROVE  a + new(a) <= b
        <4>1. CASE a = low
          <5>1. high + z <= b /\ b \in Nat
            BY <3>2, <4>1, <2>13
          <5> QED
            BY <4>1, <5>1, <2>2, <2>8, <2>10
        <4>2. CASE a # low
          BY <3>2, <4>2, <2>10, BlockFacts DEF old
        <4> QED
          BY <4>1, <4>2
      <3> QED
        BY <3>1, <3>2, <2>4, <2>9 DEF BlocksDisjoint, SizeAt, new
    <2>15. BlocksCover'
      <3>1. ASSUME NEW a \in old \ {high}
            PROVE  a + new(a) \in (old \ {high}) \cup {heap_end}
        <4>1. CASE a = low
          <5>1. high + z \in old \cup {heap_end} /\ high + z # high
            BY <2>2, <2>8, <2>10, BlockFacts DEF old
          <5>2. low + 2 * z = high + z
            BY <2>2, <2>8
          <5> QED
            BY <4>1, <5>1, <5>2, <2>10
        <4>2. CASE a # low
          <5>1. a + SizeAt(a) \in old \cup {heap_end} /\ a \in Nat
                /\ SizeAt(a) \in Nat /\ SizeAt(a) > 0
            BY BlockFacts DEF old
          <5>2. a + SizeAt(a) # high
            <6>1. CASE a < low
              <7>1. a + SizeAt(a) <= low
                BY <6>1, <2>8, BlockFacts DEF old
              <7> QED
                BY <7>1, <5>1, <2>2, <2>8
            <6>2. CASE low < a
              <7>1. high + z <= a
                BY <6>2, <2>13
              <7> QED
                BY <7>1, <5>1, <2>2, <2>8
            <6> QED
              BY <6>1, <6>2, <4>2, <5>1, <2>8
          <5> QED
            BY <4>2, <5>1, <5>2, <2>10
        <4> QED
          BY <4>1, <4>2
      <3>2. heap_end > 0 => 0 \in old \ {high}
        <4>1. high # 0
          BY <2>2, <2>8
        <4> QED
          BY <4>1 DEF IInv, BlocksCover, old
      <3> QED
        BY <3>1, <3>2, <2>4, <2>9 DEF BlocksCover, SizeAt, new
    <2>16. ListsSound'
      <3>1. ASSUME NEW d \in Class, NEW a \in Elems(free_list'[d])
            PROVE  /\ a \in DOMAIN meta' /\ a # blk'
                   /\ meta'[a] = [class |-> d, is_free |-> TRUE]
        <4>1. a \in Elems(free_list[d]) /\ (d = c => a # buddy)
          BY <2>6, <2>7 DEF s
        <4>2. a \in old /\ meta[a] = [class |-> d, is_free |-> TRUE] /\ a # blk
          BY <4>1 DEF IInv, ListsSound, old
        <4>3. a # buddy
          BY <4>1, <4>2, <2>1
        <4>4. a # low /\ a # high
          BY <4>2, <4>3, <2>8
        <4> QED
          BY <4>2, <4>4, <2>4, <2>9
      <3>2. ASSUME NEW d \in Class PROVE Injective(free_list'[d])
        <4>1. Injective(free_list[d])
          BY DEF IInv, ListsSound, Injective
        <4> QED
          BY <4>1, <2>6, <2>7
      <3> QED
        BY <3>1, <3>2 DEF ListsSound, Injective
    <2>17. ListsComplete'
      <3> SUFFICES ASSUME NEW a \in DOMAIN meta', meta'[a].is_free, a # low
                   PROVE  a \in Elems(free_list'[meta'[a].class])
        BY <2>4 DEF ListsComplete
      <3>1. a \in old /\ meta'[a] = meta[a] /\ a # blk /\ a # buddy
        BY <2>8, <2>9
      <3>2. a \in Elems(free_list[meta[a].class]) /\ meta[a].class \in Class
        BY <3>1 DEF IInv, ListsComplete, TypeOK, Header_t, old
      <3> QED
        BY <3>1, <3>2, <2>6, <2>7 DEF s
    <2> QED
      BY <2>11, <2>12, <2>14, <2>15, <2>16, <2>17 DEF IInv
  <1> QED
    BY <1>1, <1>2
-----------------------------------------------------------------------------
(* Every step of the heap preserves the invariant.                         *)
LEMMA NextIInv == IInv /\ [Next]_vars => IInv'
  <1> SUFFICES ASSUME IInv, [Next]_vars PROVE IInv'
    OBVIOUS
  <1>1. ASSUME NEW l \in Lens, mm_heap_alloc(l) PROVE IInv'
    BY <1>1, AllocKeeps
  <1>2. ASSUME NEW n \in 0 .. (heap_end \div Page) - 1, mm_heap_free(n * Page)
        PROVE  IInv'
    <2>1. Page \in Nat
      BY ClassAssumption, SizeAssumption DEF Page, Class
    <2>2. n \in Nat
      BY <2>1, SizeAssumption, ClassAssumption DEF IInv, TypeOK
    <2>3. n * Page \in Nat
      BY <2>1, <2>2
    <2> QED
      BY <1>2, <2>3, FreeKeeps
  <1>3. CASE Step
    BY <1>3, DequeueKeeps, SplitFromKeeps, ExpandKeeps, SplitKeeps,
       CheckOutKeeps, CoalesceKeeps, EnqueueKeeps DEF Step
  <1>4. CASE halt \/ UNCHANGED vars
    <2>1. UNCHANGED vars
      BY <1>4 DEF halt
    <2>2. TypeOK' /\ CallState'
      BY <2>1 DEF vars, IInv, TypeOK, CallState
    <2>3. BlocksDisjoint' /\ BlocksCover' /\ ListsSound' /\ ListsComplete'
      BY <2>1 DEF vars, IInv, BlocksDisjoint, BlocksCover, ListsSound, ListsComplete, SizeAt
    <2> QED
      BY <2>2, <2>3 DEF IInv
  <1> QED
    BY <1>1, <1>2, <1>3, <1>4 DEF Next

(* The invariant holds in every state of every behaviour.                  *)
LEMMA SpecIInv == Spec => []IInv
  BY InitIInv, NextIInv, PTL DEF Spec

(* The types of mm_heap.c's globals and locals.                            *)
THEOREM HeapTypeCorrect == Spec => []TypeOK
  <1>1. IInv => TypeOK
    BY DEF IInv
  <1> QED
    BY <1>1, SpecIInv, PTL

(* The blocks tile the heap: no byte is given out twice and none is lost,  *)
(* whatever is allocated, freed, split and merged in whatever order.       *)
THEOREM HeapTiling == Spec => []Tiling
  <1>1. IInv => Tiling
    BY DEF IInv, Tiling
  <1> QED
    BY <1>1, SpecIInv, PTL

(* The free lists hold exactly the free blocks, each once and in the list  *)
(* of its class, except the block the running call works on.               *)
THEOREM HeapListsExact == Spec => []ListsExact
  <1>1. IInv => ListsExact
    BY DEF IInv, ListsExact
  <1> QED
    BY <1>1, SpecIInv, PTL
-----------------------------------------------------------------------------
(* The heap implements HeapAbs, and leaves the blocks it handed out alone: *)
(* every header a call rewrites is that of a free block.                   *)

(* A step that neither checks a block out nor takes one back.              *)
Quiet == Held' = Held /\ \A a \in Held : meta'[a] = meta[a]

LEMMA SameMetaIsQuiet == meta' = meta => Quiet
  BY DEF Quiet, Held

LEMMA ExpandIsQuiet == ASSUME IInv, expand_heap PROVE Quiet
  <1>1. CASE meta' = meta
    BY <1>1, SameMetaIsQuiet
  <1>2. CASE meta' # meta
    <2>1. meta' = block_init(meta, heap_end, Top, TRUE)
      BY <1>2 DEF expand_heap, Panic, heap
    <2>2. \A a \in DOMAIN meta : a # heap_end
      <3>1. ASSUME NEW a \in DOMAIN meta PROVE a # heap_end
        BY BlockFacts
      <3> QED
        BY <3>1
    <2>3. /\ DOMAIN meta' = DOMAIN meta \cup {heap_end}
          /\ meta'[heap_end].is_free
          /\ \A a \in DOMAIN meta : meta'[a] = meta[a]
      BY <2>1, <2>2 DEF block_init
    <2> QED
      BY <2>3 DEF Quiet, Held
  <1> QED
    BY <1>1, <1>2

LEMMA SplitIsQuiet == ASSUME IInv, split PROVE Quiet
  <1>1. CASE meta' = meta
    BY <1>1, SameMetaIsQuiet
  <1>2. CASE meta' # meta
    <2> DEFINE high == blk + Size[cur - 1]
    <2>1. meta' = block_init(block_init(meta, blk, cur - 1, TRUE), high, cur - 1, TRUE)
      BY <1>2 DEF split, Panic, heap, next_size
    <2>2. /\ blk \in DOMAIN meta /\ meta[blk].is_free /\ meta[blk].class = cur
          /\ cur > want /\ cur \in Class /\ want \in Class
      BY DEF split, IInv, CallState, TypeOK
    <2>3. cur - 1 \in Class /\ (cur - 1) + 1 = cur
      BY <2>2, ClassAssumption DEF Class
    <2>4. SizeAt(blk) = 2 * Size[cur - 1] /\ Size[cur - 1] \in Nat /\ Size[cur - 1] > 0
      <3>1. Size[cur] = 2 * Size[cur - 1] /\ Size[cur - 1] \in Nat /\ Size[cur - 1] > 0
        BY <2>2, <2>3, SizeAssumption
      <3> QED
        BY <3>1, <2>2 DEF SizeAt
    <2>5. high \notin DOMAIN meta
      BY <2>2, <2>4, BlockFacts
    <2> HIDE DEF high
    <2>6. /\ DOMAIN meta' = DOMAIN meta \cup {high}
          /\ meta'[blk].is_free /\ meta'[high].is_free
          /\ \A a \in DOMAIN meta \ {blk} : meta'[a] = meta[a]
      BY <2>1, <2>2, <2>5 DEF block_init
    <2> QED
      BY <2>2, <2>6 DEF Quiet, Held
  <1> QED
    BY <1>1, <1>2

LEMMA CoalesceIsQuiet == ASSUME IInv, coalescing_block PROVE Quiet
  <1>1. CASE meta' = meta
    BY <1>1, SameMetaIsQuiet
  <1>2. CASE meta' # meta
    <2> DEFINE c == meta[blk].class
               buddy == find_buddy(blk, c)
               low == IF buddy < blk THEN buddy ELSE blk
               high == IF buddy < blk THEN blk ELSE buddy
    <2>1. meta' = block_init(block_clean(meta, high), low, c + 1, TRUE)
      BY <1>2 DEF coalescing_block, Panic, heap
    <2>2. /\ blk \in DOMAIN meta /\ meta[blk].is_free
          /\ buddy \in DOMAIN meta /\ meta[buddy].is_free
      BY DEF coalescing_block, Coalesces, buddy_ok, IInv, CallState
    <2> HIDE DEF c, buddy
    <2>3. /\ low \in DOMAIN meta /\ meta[low].is_free
          /\ high \in DOMAIN meta /\ meta[high].is_free
      BY <2>2
    <2> HIDE DEF low, high
    <2>4. /\ DOMAIN meta' \subseteq DOMAIN meta
          /\ meta'[low].is_free
          /\ \A a \in DOMAIN meta \ {low, high} : a \in DOMAIN meta' /\ meta'[a] = meta[a]
          /\ \A a \in DOMAIN meta' : a = low \/ a \in DOMAIN meta \ {low, high}
      BY <2>1, <2>3 DEF block_init, block_clean
    <2> QED
      BY <2>3, <2>4 DEF Quiet, Held
  <1> QED
    BY <1>1, <1>2

LEMMA EnqueueIsQuiet == ASSUME IInv, free_list_enqueue PROVE Quiet
  <1>1. CASE meta' = meta
    BY <1>1, SameMetaIsQuiet
  <1>2. CASE meta' # meta
    <2>1. meta' = block_init(meta, blk, meta[blk].class, TRUE)
      BY <1>2 DEF free_list_enqueue, Panic, heap
    <2>2. blk \in DOMAIN meta /\ meta[blk].is_free
      BY DEF free_list_enqueue, IInv, CallState
    <2>3. /\ DOMAIN meta' = DOMAIN meta /\ meta'[blk].is_free
          /\ \A a \in DOMAIN meta \ {blk} : meta'[a] = meta[a]
      BY <2>1, <2>2 DEF block_init
    <2> QED
      BY <2>2, <2>3 DEF Quiet, Held
  <1> QED
    BY <1>1, <1>2
-----------------------------------------------------------------------------
(* A quiet step keeps the extents.                                         *)
LEMMA QuietKeepsExtents ==
    ASSUME Quiet PROVE {Extent(a) : a \in Held}' = {Extent(a) : a \in Held}
  <1>1. \A a \in Held : Extent(a)' = Extent(a)
    BY DEF Quiet, Extent, SizeAt
  <1> QED
    BY <1>1 DEF Quiet

(* _block_check_out grants a new extent, apart from all others.            *)
LEMMA CheckOutGrants == ASSUME IInv, check_out PROVE [Abs!Next]_(Abs!absvars)
  <1>1. CASE UNCHANGED <<meta, heap_end, len>>
    <2>1. Quiet
      BY <1>1, SameMetaIsQuiet
    <2> QED
      BY <1>1, <2>1, QuietKeepsExtents DEF Abs!absvars
  <1>2. CASE ~UNCHANGED <<meta, heap_end, len>>
    <2>1. /\ meta' = block_init(meta, blk, want, FALSE) /\ heap_end' = heap_end
          /\ len' = 0 /\ ~(Size[want] - Header < len)
      BY <1>2 DEF check_out, Panic, Return, heap, call
    <2>2. /\ blk \in DOMAIN meta /\ meta[blk].is_free /\ meta[blk].class = want
          /\ len > 0 /\ len \in Nat /\ want \in Class
      BY DEF check_out, IInv, CallState, TypeOK
    <2>3. /\ DOMAIN meta' = DOMAIN meta
          /\ meta'[blk] = [class |-> want, is_free |-> FALSE]
          /\ \A a \in DOMAIN meta \ {blk} : meta'[a] = meta[a]
      BY <2>1, <2>2 DEF block_init
    <2>4. Held' = Held \cup {blk} /\ blk \notin Held
      BY <2>2, <2>3 DEF Held
    <2> DEFINE r == [start |-> blk + Header, size |-> Size[want] - Header]
               ext(a) == [start |-> a + Header, size |-> SizeAt(a) - Header]
               own == {ext(a) : a \in Held}
               own2 == {[start |-> a + Header, size |-> Size[meta'[a].class] - Header]
                          : a \in Held'}
    <2>5. own2 = own \cup {r}
      <3>1. \A a \in Held : Size[meta'[a].class] = SizeAt(a)
        BY <2>3, <2>4 DEF Held, SizeAt
      <3>2. Size[meta'[blk].class] = Size[want]
        BY <2>3
      <3> QED
        BY <2>4, <3>1, <3>2
    <2>6. ASSUME NEW a \in Held PROVE ext(a) # r /\ Abs!Apart(r, ext(a))
      <3>1. /\ a \in DOMAIN meta /\ a # blk /\ a \in Nat /\ blk \in Nat
            /\ SizeAt(a) \in Nat /\ SizeAt(blk) \in Nat /\ SizeAt(blk) = Size[want]
            /\ a < blk => a + SizeAt(a) <= blk
            /\ blk < a => blk + SizeAt(blk) <= a
        BY <2>2, <2>4, BlockFacts DEF Held, SizeAt
      <3>2. a + SizeAt(a) <= blk \/ blk + Size[want] <= a
        BY <3>1
      <3>3. Header \in Nat
        BY BoundAssumption
      <3>4. /\ r.start = blk + Header /\ r.size = Size[want] - Header
            /\ ext(a).start = a + Header /\ ext(a).size = SizeAt(a) - Header
        OBVIOUS
      <3>5. Abs!Apart(r, ext(a))
        <4> HIDE DEF r, ext
        <4> QED
          BY <3>1, <3>2, <3>3, <3>4 DEF Abs!Apart
      <3>6. r.start # ext(a).start
        <4> HIDE DEF r, ext
        <4> QED
          BY <3>1, <3>3, <3>4
      <3> QED
        BY <3>5, <3>6
    <2>7. /\ r.size >= len
          /\ r.start + r.size <= heap_end
      <3>1. SizeAt(blk) = Size[want] /\ blk + SizeAt(blk) <= heap_end
            /\ blk \in Nat /\ SizeAt(blk) \in Nat /\ heap_end \in Nat
        BY <2>2, BlockFacts DEF SizeAt
      <3>2. Header \in Nat
        BY BoundAssumption
      <3> QED
        BY <3>1, <3>2, <2>1, <2>2
    <2> HIDE DEF r, ext
    <2>8. /\ r \notin own
          /\ \A x \in own : Abs!Apart(r, x)
      BY <2>6
    <2> HIDE DEF own, own2
    <2>9. \E x \in own2 \ own :
             /\ own2 = own \cup {x} /\ x.size >= len /\ x.start + x.size <= heap_end
             /\ \A y \in own : Abs!Apart(x, y)
      BY <2>5, <2>7, <2>8
    <2>10. own = {Extent(a) : a \in Held} /\ own2 = {Extent(a) : a \in Held}'
      BY DEF own, own2, ext, Extent, SizeAt
    <2>11. Abs!Grant
      BY <2>1, <2>2, <2>9, <2>10 DEF Abs!Grant
    <2> QED
      BY <2>11 DEF Abs!Next
  <1> QED
    BY <1>1, <1>2

(* _block_check_in gives one extent back.                                  *)
LEMMA FreeGivesBack ==
    ASSUME IInv, NEW a \in Nat, mm_heap_free(a) PROVE [Abs!Next]_(Abs!absvars)
  <1>1. CASE UNCHANGED <<meta, heap_end, len>>
    <2>1. Quiet
      BY <1>1, SameMetaIsQuiet
    <2> QED
      BY <1>1, <2>1, QuietKeepsExtents DEF Abs!absvars
  <1>2. CASE ~UNCHANGED <<meta, heap_end, len>>
    <2>1. /\ meta' = block_init(meta, a, meta[a].class, TRUE)
          /\ heap_end' = heap_end /\ len' = len
          /\ a \in DOMAIN meta /\ ~meta[a].is_free /\ len = 0
      BY <1>2 DEF mm_heap_free, Panic, heap, call, IInv, CallState
    <2>2. /\ DOMAIN meta' = DOMAIN meta
          /\ meta'[a] = [class |-> meta[a].class, is_free |-> TRUE]
          /\ \A x \in DOMAIN meta \ {a} : meta'[x] = meta[x]
      BY <2>1 DEF block_init
    <2>3. Held' = Held \ {a} /\ a \in Held
      <3>0. meta'[a].is_free
        BY <2>2
      <3>1. a \in Held /\ a \notin Held'
        BY <3>0, <2>1 DEF Held
      <3>2. \A x : x # a => (x \in Held' <=> x \in Held)
        BY <2>2 DEF Held
      <3> QED
        BY <3>1, <3>2
    <2> DEFINE ext(x) == [start |-> x + Header, size |-> SizeAt(x) - Header]
               own == {ext(x) : x \in Held}
               own2 == {[start |-> x + Header, size |-> Size[meta'[x].class] - Header]
                          : x \in Held'}
    <2>4. \A x \in Held \ {a} : ext(x) # ext(a)
      <3>1. ASSUME NEW x \in Held \ {a} PROVE ext(x) # ext(a)
        <4>1. x \in Nat /\ x # a /\ Header \in Nat
          BY BoundAssumption DEF Held, IInv, TypeOK
        <4>2. ext(x).start # ext(a).start
          BY <4>1
        <4> QED
          BY <4>2
      <3> QED
        BY <3>1
    <2>5. \A x \in Held \ {a} : Size[meta'[x].class] = SizeAt(x)
      BY <2>2 DEF Held, SizeAt
    <2>6. own2 = {ext(x) : x \in Held \ {a}}
      BY <2>3, <2>5
    <2> HIDE DEF ext
    <2>7. own2 = own \ {ext(a)} /\ ext(a) \in own
      <3>1. ASSUME NEW r \in own, r # ext(a) PROVE r \in {ext(x) : x \in Held \ {a}}
        BY <3>1
      <3>2. ASSUME NEW r \in {ext(x) : x \in Held \ {a}} PROVE r \in own /\ r # ext(a)
        BY <2>4
      <3>3. ext(a) \in own
        BY <2>3
      <3> HIDE DEF own, own2
      <3> QED
        BY <3>1, <3>2, <3>3, <2>6
    <2> HIDE DEF own, own2
    <2>8. own = {Extent(x) : x \in Held} /\ own2 = {Extent(x) : x \in Held}'
      BY DEF own, own2, ext, Extent, SizeAt
    <2>9. Abs!GiveBack
      BY <2>1, <2>7, <2>8 DEF Abs!GiveBack
    <2> QED
      BY <2>9 DEF Abs!Next
  <1> QED
    BY <1>1, <1>2

(* Every step of the heap is a step of HeapAbs or leaves it unchanged.     *)
LEMMA StepSimulates == IInv /\ [Next]_vars => [Abs!Next]_(Abs!absvars)
  <1> SUFFICES ASSUME IInv, [Next]_vars PROVE [Abs!Next]_(Abs!absvars)
    OBVIOUS
  <1>0. ASSUME Quiet, UNCHANGED <<heap_end, len>> PROVE [Abs!Next]_(Abs!absvars)
    BY <1>0, QuietKeepsExtents DEF Abs!absvars
  <1>1. ASSUME NEW l \in Lens, mm_heap_alloc(l) PROVE [Abs!Next]_(Abs!absvars)
    <2>1. Quiet /\ heap_end' = heap_end
      BY <1>1, SameMetaIsQuiet DEF mm_heap_alloc, Panic, heap
    <2>2. {Extent(a) : a \in Held}' = {Extent(a) : a \in Held}
      BY <2>1, QuietKeepsExtents
    <2>3. CASE len' = len
      BY <2>1, <2>3, <1>0
    <2>4. CASE len' # len
      <3>1. l # 0 /\ len' = l /\ len = 0 /\ l \in Nat
        BY <1>1, <2>4, BoundAssumption DEF mm_heap_alloc, Panic, call, IInv, CallState
      <3>2. len' > 0
        BY <3>1
      <3>3. Abs!Request
        BY <3>1, <3>2, <2>1, <2>2 DEF Abs!Request
      <3> QED
        BY <3>3 DEF Abs!Next
    <2> QED
      BY <2>3, <2>4
  <1>2. ASSUME NEW n \in 0 .. (heap_end \div Page) - 1, mm_heap_free(n * Page)
        PROVE  [Abs!Next]_(Abs!absvars)
    <2>1. n * Page \in Nat
      <3>1. Page \in Nat /\ n \in Nat
        BY ClassAssumption, SizeAssumption DEF Page, Class
      <3> QED
        BY <3>1
    <2> QED
      BY <1>2, <2>1, FreeGivesBack
  <1>3. CASE free_list_dequeue \/ split_from
    <2>1. UNCHANGED <<meta, heap_end, len>>
      BY <1>3 DEF free_list_dequeue, split_from, Panic, heap, call
    <2> QED
      BY <2>1, <1>0, SameMetaIsQuiet
  <1>4. CASE expand_heap
    <2>1. {Extent(a) : a \in Held}' = {Extent(a) : a \in Held}
      BY <1>4, ExpandIsQuiet, QuietKeepsExtents
    <2>2. len' = len /\ (heap_end' = heap_end \/ heap_end' = heap_end + Size[Top])
      BY <1>4 DEF expand_heap, Panic, heap, call
    <2>3. len > 0 /\ heap_end \in Nat /\ Size[Top] \in Nat /\ Size[Top] > 0
      <3>1. len > 0 /\ heap_end \in Nat
        BY <1>4 DEF expand_heap, IInv, CallState, TypeOK
      <3>2. Top \in Class
        BY ClassAssumption DEF Class, Top
      <3> QED
        BY <3>1, <3>2, SizeAssumption
    <2>4. CASE heap_end' = heap_end
      BY <2>1, <2>2, <2>4 DEF Abs!absvars
    <2>5. CASE heap_end' = heap_end + Size[Top]
      <3>1. heap_end' > heap_end
        BY <2>3, <2>5
      <3>2. Abs!Grow
        BY <3>1, <2>1, <2>2, <2>3 DEF Abs!Grow
      <3> QED
        BY <3>2 DEF Abs!Next
    <2> QED
      BY <2>2, <2>4, <2>5
  <1>5. CASE split
    <2>1. UNCHANGED <<heap_end, len>>
      BY <1>5 DEF split, Panic, heap, call
    <2> QED
      BY <1>5, <2>1, <1>0, SplitIsQuiet
  <1>6. CASE check_out
    BY <1>6, CheckOutGrants
  <1>7. CASE coalescing_block
    <2>1. UNCHANGED <<heap_end, len>>
      BY <1>7 DEF coalescing_block, Panic, heap, call
    <2> QED
      BY <1>7, <2>1, <1>0, CoalesceIsQuiet
  <1>8. CASE free_list_enqueue
    <2>1. UNCHANGED <<heap_end, len>>
      <3>1. len = 0
        BY <1>8 DEF free_list_enqueue, IInv, CallState
      <3>2. heap_end' = heap_end /\ (len' = len \/ len' = 0)
        BY <1>8 DEF free_list_enqueue, Panic, Return, heap, call
      <3> QED
        BY <3>1, <3>2
    <2> QED
      BY <1>8, <2>1, <1>0, EnqueueIsQuiet
  <1>9. CASE halt \/ UNCHANGED vars
    <2>1. UNCHANGED <<meta, heap_end, len>>
      BY <1>9 DEF halt, vars
    <2> QED
      BY <2>1, <1>0, SameMetaIsQuiet
  <1> QED
    BY <1>1, <1>2, <1>3, <1>4, <1>5, <1>6, <1>7, <1>8, <1>9 DEF Next, Step

(* mm_heap_alloc and mm_heap_free implement a heap: whatever the order of  *)
(* calls, an extent is granted only for a request, is long enough, lies in *)
(* the heap and overlaps no other, and only mm_heap_free takes it back.    *)
THEOREM HeapImplementsHeapAbs == Spec => ImplementsHeapAbs
  <1>1. Init => Abs!Init
    <2>1. Init => Held = {}
      BY DEF Init, Held
    <2> QED
      BY <2>1 DEF Init, Abs!Init
  <1> QED
    BY <1>1, StepSimulates, SpecIInv, PTL DEF Spec, Abs!Spec, ImplementsHeapAbs

(* Nothing but a mm_heap_free of that very block changes the header of a   *)
(* block that is checked out.                                              *)
THEOREM HeapHeldBlockKept == Spec => HeldBlockKept
  <1> DEFINE A == \A a \in DOMAIN meta :
                    ~meta[a].is_free =>
                      \/ a \in DOMAIN meta' /\ meta'[a] = meta[a]
                      \/ pc = "idle" /\ pc' = "coalesce" /\ blk' = a
  <1>1. IInv /\ [Next]_vars => [A]_vars
    <2> SUFFICES ASSUME IInv, Next PROVE A
      OBVIOUS
    <2>0. Quiet => A
      BY DEF Quiet, Held
    <2>1. ASSUME meta' = meta PROVE A
      BY <2>1
    <2>2. ASSUME NEW n \in 0 .. (heap_end \div Page) - 1, mm_heap_free(n * Page)
          PROVE  A
      BY <2>2 DEF mm_heap_free, Panic, heap, block_init
    <2>3. CASE check_out
      <3>1. blk \in DOMAIN meta /\ meta[blk].is_free
        BY <2>3 DEF check_out, IInv, CallState
      <3> QED
        BY <3>1, <2>3 DEF check_out, Panic, heap, block_init
    <2>4. CASE expand_heap \/ split \/ coalescing_block \/ free_list_enqueue
      BY <2>0, <2>4, ExpandIsQuiet, SplitIsQuiet, CoalesceIsQuiet, EnqueueIsQuiet
    <2>5. CASE halt \/ split_from \/ free_list_dequeue \/ \E l \in Lens : mm_heap_alloc(l)
      <3>1. meta' = meta
        BY <2>5 DEF halt, vars, split_from, free_list_dequeue, mm_heap_alloc, Panic, heap
      <3> QED
        BY <3>1, <2>1
    <2> QED
      BY <2>2, <2>3, <2>4, <2>5 DEF Next, Step
  <1> QED
    BY <1>1, SpecIInv, PTL DEF Spec, HeldBlockKept
-----------------------------------------------------------------------------
(* Free buddies are always merged, and no assertion about the heap's own   *)
(* state fails, for every page that is a power of two.                     *)

(* Every block starts at a multiple of its size.                           *)
AllAligned ==
    /\ heap_end % Size[Top] = 0
    /\ \A a \in DOMAIN meta : a % SizeAt(a) = 0

(* The class that was picked for a request has room for it.                *)
RequestFits == pc \in {"dequeue", "split", "check_out"} => len + Header <= Size[want]

(* The lists below the one _split_from has reached are empty.              *)
LowerListsEmpty ==
    pc \in {"dequeue", "split"} =>
        \A c \in Class : want <= c /\ c < cur => free_list[c] = <<>>

(* Free buddies that are not merged are the two halves that have just been *)
(* split, or one of them is in the hands of the running call.              *)
Unmerged(a, b) ==
    /\ meta[a].class < Top /\ meta[a].is_free
    /\ meta[b].class = meta[a].class /\ meta[b].is_free
    /\ b = find_buddy(a, meta[a].class)
PairsInHand ==
    pc # "panic" =>
        \A a, b \in DOMAIN meta : Unmerged(a, b) =>
            \/ pc \in {"split", "check_out", "coalesce"} /\ (blk = a \/ blk = b)
            \/ pc = "dequeue" /\ (free_list[cur] = <<a, b>> \/ free_list[cur] = <<b, a>>)

BInv == AllAligned /\ RequestFits /\ LowerListsEmpty /\ PairsInHand /\ NoInternalPanic
-----------------------------------------------------------------------------
(* The equation of util_math_log_2_up's loop has a solution, so Halvings   *)
(* is one.                                                                 *)
HalvesTo(h, n) ==
    /\ h \in [0 .. n -> Nat]
    /\ \A v \in 0 .. n : h[v] = IF v \div 2 = 0 THEN 0 ELSE 1 + h[v \div 2]

LEMMA HalfBelow ==
    ASSUME NEW v \in Nat
    PROVE  v \div 2 \in Nat /\ v \div 2 <= v /\ (v > 0 => v \div 2 < v)
           /\ (v \div 2 = 0 <=> v < 2) /\ (v = 2 * (v \div 2) \/ v = 2 * (v \div 2) + 1)
  OBVIOUS

LEMMA HalvesExist ==
    ASSUME NEW n \in Nat
    PROVE  \E h : HalvesTo(h, n)
  <1> DEFINE S == {k \in Nat : \E h : HalvesTo(h, k)}
  <1>1. 0 \in S
    <2> DEFINE h == [v \in 0 .. 0 |-> 0]
    <2>1. HalvesTo(h, 0)
      BY DEF HalvesTo
    <2> QED
      BY <2>1
  <1>2. ASSUME NEW k \in Nat, k \in S PROVE k + 1 \in S
    <2>1. PICK h : HalvesTo(h, k)
      BY <1>2
    <2> DEFINE m == k + 1
               g == [v \in 0 .. m |-> IF v = m THEN IF m \div 2 = 0 THEN 0 ELSE 1 + h[m \div 2] ELSE h[v]]
    <2>2. m \in Nat /\ m > 0 /\ m \div 2 \in 0 .. k /\ m \div 2 # m
      BY HalfBelow
    <2>3. h \in [0 .. k -> Nat] /\ h[m \div 2] \in Nat
      BY <2>1, <2>2 DEF HalvesTo
    <2>4. g \in [0 .. m -> Nat]
      BY <2>2, <2>3
    <2>5. ASSUME NEW v \in 0 .. m PROVE g[v] = IF v \div 2 = 0 THEN 0 ELSE 1 + g[v \div 2]
      <3>1. CASE v = m
        <4>1. g[m \div 2] = h[m \div 2]
          BY <2>2
        <4> QED
          BY <2>2, <3>1, <4>1
      <3>2. CASE v # m
        <4>1. v \in 0 .. k /\ v \div 2 \in 0 .. k /\ v \div 2 # m
          BY <3>2, HalfBelow
        <4>2. g[v] = h[v] /\ g[v \div 2] = h[v \div 2]
          BY <2>2, <4>1, <3>2
        <4> HIDE DEF g
        <4> QED
          BY <2>1, <4>1, <4>2 DEF HalvesTo
      <3> QED
        BY <3>1, <3>2
    <2> HIDE DEF g
    <2>6. HalvesTo(g, m)
      BY <2>4, <2>5 DEF HalvesTo
    <2> QED
      BY <2>2, <2>6
  <1> HIDE DEF S
  <1>3. n \in S
    BY <1>1, <1>2, SetInduction
  <1> QED
    BY <1>3 DEF S

LEMMA HalvesAgree ==
    ASSUME NEW n \in Nat, NEW m \in Nat, NEW h, NEW g, HalvesTo(h, n), HalvesTo(g, m), NEW v \in 0 .. n, v <= m
    PROVE  h[v] = g[v]
  <1> DEFINE T == {x \in 0 .. n : x <= m /\ h[x] # g[x]}
  <1> SUFFICES ASSUME T # {} PROVE FALSE
    OBVIOUS
  <1>1. T \subseteq Nat
    OBVIOUS
  <1>2. PICK x \in T : \A y \in T : x <= y
    BY <1>1, LeastNat
  <1>3. x \in Nat /\ x <= n /\ x <= m /\ h[x] # g[x]
    BY <1>2
  <1>4. CASE x < 2
    BY <1>3, <1>4, HalfBelow DEF HalvesTo
  <1>5. CASE ~(x < 2)
    <2>1. x \div 2 \in Nat /\ x \div 2 < x /\ x \div 2 # 0
      BY <1>3, <1>5, HalfBelow
    <2>2. x \div 2 \notin T
      BY <1>2, <1>3, <2>1
    <2>3. h[x \div 2] = g[x \div 2]
      BY <1>3, <2>1, <2>2
    <2>4. h[x] = 1 + h[x \div 2] /\ g[x] = 1 + g[x \div 2]
      BY <1>3, <2>1 DEF HalvesTo
    <2> QED
      BY <1>3, <2>3, <2>4
  <1> QED
    BY <1>4, <1>5

LEMMA HalvingsIs ==
    /\ Halvings \in [Nat -> Nat]
    /\ \A v \in Nat : Halvings[v] = IF v \div 2 = 0 THEN 0 ELSE 1 + Halvings[v \div 2]
  <1> DEFINE pick(v) == CHOOSE h : HalvesTo(h, v)
             F == [v \in Nat |-> pick(v)[v]]
             Sol(f) == f = [v \in Nat |-> IF v \div 2 = 0 THEN 0 ELSE 1 + f[v \div 2]]
  <1>1. ASSUME NEW v \in Nat PROVE HalvesTo(pick(v), v)
    BY HalvesExist
  <1> HIDE DEF pick
  <1>2. ASSUME NEW v \in Nat PROVE F[v] \in Nat /\ F[v] = IF v \div 2 = 0 THEN 0 ELSE 1 + F[v \div 2]
    <2>1. F[v] = pick(v)[v] /\ F[v] \in Nat
      BY <1>1 DEF HalvesTo
    <2>2. v \div 2 \in Nat /\ v \div 2 \in 0 .. v
      BY HalfBelow
    <2>3. pick(v)[v] = IF v \div 2 = 0 THEN 0 ELSE 1 + pick(v)[v \div 2]
      <3>1. HalvesTo(pick(v), v) /\ v \in 0 .. v
        BY <1>1
      <3> QED
        BY <3>1, Zenon DEF HalvesTo
    <2>4. pick(v)[v \div 2] = pick(v \div 2)[v \div 2]
      BY <1>1, <2>2, HalvesAgree
    <2>5. F[v \div 2] = pick(v \div 2)[v \div 2]
      BY <2>2
    <2> QED
      BY <2>1, <2>3, <2>4, <2>5
  <1>3. Sol(F)
    <2> DEFINE G == [v \in Nat |-> IF v \div 2 = 0 THEN 0 ELSE 1 + F[v \div 2]]
    <2>1. F = [v \in Nat |-> F[v]]
      OBVIOUS
    <2> HIDE DEF F
    <2>2. \A v \in Nat : F[v] = G[v]
      BY <1>2
    <2>3. G = [v \in Nat |-> G[v]]
      OBVIOUS
    <2> HIDE DEF G
    <2>4. F = G
      BY <2>1, <2>2, <2>3
    <2> QED
      BY <2>4 DEF G
  <1> HIDE DEF F
  <1>4. Halvings = CHOOSE f : Sol(f)
    BY DEF Halvings
  <1>5. Sol(Halvings)
    BY <1>3, <1>4
  <1>6. DOMAIN Halvings = Nat /\ Halvings = [v \in Nat |-> Halvings[v]]
    BY <1>5
  <1>7. \A v \in Nat : Halvings[v] = IF v \div 2 = 0 THEN 0 ELSE 1 + Halvings[v \div 2]
    BY <1>5
  <1>8. \A v \in Nat : Halvings[v] \in Nat
    <2> DEFINE T == {v \in Nat : Halvings[v] \notin Nat}
    <2> SUFFICES ASSUME T # {} PROVE FALSE
      OBVIOUS
    <2>1. PICK x \in T : \A y \in T : x <= y
      BY LeastNat
    <2>2. x \in Nat /\ Halvings[x] \notin Nat
      BY <2>1
    <2>3. x \div 2 \in Nat /\ x \div 2 # 0 /\ x \div 2 < x
      BY <1>7, <2>2, HalfBelow
    <2>4. Halvings[x \div 2] \in Nat
      BY <2>1, <2>2, <2>3
    <2> QED
      BY <1>7, <2>2, <2>3, <2>4
  <1> QED
    BY <1>6, <1>7, <1>8

(* More halvings for larger numbers.                                       *)
LEMMA HalvingsGrow ==
    ASSUME NEW v \in Nat, NEW w \in Nat, v <= w
    PROVE  Halvings[v] <= Halvings[w]
  <1> DEFINE T == {y \in Nat : \E x \in Nat : x <= y /\ ~(Halvings[x] <= Halvings[y])}
  <1> SUFFICES ASSUME T # {} PROVE FALSE
    OBVIOUS
  <1>1. PICK y \in T : \A z \in T : y <= z
    BY LeastNat
  <1>2. PICK x \in Nat : x <= y /\ ~(Halvings[x] <= Halvings[y])
    BY <1>1
  <1>3. y \in Nat /\ Halvings[x] \in Nat /\ Halvings[y] \in Nat
    BY <1>1, HalvingsIs
  <1>4. x \div 2 # 0
    BY <1>2, <1>3, HalvingsIs
  <1>5. x \div 2 \in Nat /\ y \div 2 \in Nat /\ x \div 2 <= y \div 2 /\ y \div 2 < y /\ y \div 2 # 0
    BY <1>2, <1>3, <1>4
  <1>6. Halvings[x] = 1 + Halvings[x \div 2] /\ Halvings[y] = 1 + Halvings[y \div 2]
    BY <1>3, <1>4, <1>5, HalvingsIs
  <1>7. y \div 2 \notin T
    BY <1>1, <1>3, <1>5
  <1>8. Halvings[x \div 2] <= Halvings[y \div 2]
    BY <1>5, <1>7
  <1>9. Halvings[x \div 2] \in Nat /\ Halvings[y \div 2] \in Nat
    BY <1>5, HalvingsIs
  <1> QED
    BY <1>2, <1>6, <1>8, <1>9

(* For a power of two, at least as many halvings for all that is not below *)
(* it as for the number before it are more.                                *)
PowerOfTwo(p) == p \in Nat /\ p >= 2 /\ \A d \in 2 .. p : p % d = 0 => d % 2 = 0

LEMMA HalfOfPower ==
    ASSUME NEW p, PowerOfTwo(p), p > 2
    PROVE  p \div 2 \in Nat /\ p = 2 * (p \div 2) /\ p \div 2 < p /\ PowerOfTwo(p \div 2)
  <1>1. p \in Nat /\ p % p = 0 /\ p \in 2 .. p
    BY DivUnique DEF PowerOfTwo
  <1>2. p % 2 = 0
    BY <1>1 DEF PowerOfTwo
  <1> DEFINE q == p \div 2
  <1>3. q \in Nat /\ p = 2 * q /\ q < p /\ q >= 2
    BY <1>1, <1>2
  <1> HIDE DEF q
  <1>4. ASSUME NEW d \in 2 .. q, q % d = 0 PROVE d % 2 = 0
    <2>1. d \in Nat /\ d > 0 /\ d \in 2 .. p
      BY <1>3
    <2>2. q = d * (q \div d) /\ q \div d \in Nat
      <3>1. q \div d \in Nat /\ q = d * (q \div d) + (q % d)
        BY <1>3, <2>1, DivMod
      <3>2. d * (q \div d) \in Nat
        BY <2>1, <3>1
      <3> QED
        BY <1>4, <3>1, <3>2
    <2>3. PICK k \in Nat : q = d * k
      BY <2>2
    <2>4. p = (2 * k) * d + 0 /\ 2 * k \in Nat /\ 0 \in 0 .. d - 1
      BY <1>3, <2>1, <2>3
    <2>5. p % d = 0
      BY <2>1, <2>4, DivUnique
    <2> QED
      BY <2>1, <2>5 DEF PowerOfTwo
  <1>5. PowerOfTwo(q)
    BY <1>3, <1>4 DEF PowerOfTwo
  <1> QED
    BY <1>3, <1>5 DEF q

LEMMA PowerSeparates ==
    ASSUME NEW p, PowerOfTwo(p), NEW v \in Nat, Halvings[v] <= Halvings[p - 1]
    PROVE  v < p
  <1> DEFINE T == {x \in Nat : PowerOfTwo(x) /\ \E y \in Nat : Halvings[y] <= Halvings[x - 1] /\ ~(y < x)}
  <1> SUFFICES ASSUME T # {} PROVE FALSE
    BY DEF PowerOfTwo
  <1>1. PICK x \in T : \A z \in T : x <= z
    BY LeastNat
  <1>2. PICK y \in Nat : Halvings[y] <= Halvings[x - 1] /\ ~(y < x)
    BY <1>1
  <1>3. x \in Nat /\ x >= 2 /\ PowerOfTwo(x)
    BY <1>1 DEF PowerOfTwo
  <1>4. y \div 2 \in Nat /\ y \div 2 # 0 /\ Halvings[y] = 1 + Halvings[y \div 2] /\ Halvings[y \div 2] \in Nat
    BY <1>2, <1>3, HalfBelow, HalvingsIs
  <1>5. CASE x = 2
    <2>1. Halvings[1] = 0
      BY HalvingsIs
    <2> QED
      BY <1>2, <1>4, <1>5, <2>1
  <1>6. CASE x > 2
    <2> DEFINE q == x \div 2
    <2>1. q \in Nat /\ x = 2 * q /\ q < x /\ PowerOfTwo(q)
      BY <1>3, <1>6, HalfOfPower
    <2> HIDE DEF q
    <2>2. q >= 2 /\ q - 1 \in Nat /\ q - 1 # 0 /\ x - 1 \in Nat
      BY <2>1 DEF PowerOfTwo
    <2>3. (x - 1) \div 2 = q - 1
      BY <2>1, <2>2
    <2>4. Halvings[x - 1] = 1 + Halvings[q - 1] /\ Halvings[q - 1] \in Nat
      BY <2>2, <2>3, HalvingsIs
    <2>5. Halvings[y \div 2] <= Halvings[q - 1]
      BY <1>2, <1>4, <2>4
    <2>6. q \notin T
      BY <1>1, <1>3, <2>1
    <2>7. y \div 2 < q
      BY <1>4, <2>1, <2>5, <2>6
    <2> QED
      BY <1>2, <2>1, <2>7
  <1> QED
    BY <1>3, <1>5, <1>6

(* The classes.                                                            *)
LEMMA Classes ==
    /\ MAX_CLASS \in Nat /\ MAX_CLASS >= 1 /\ Top \in Nat /\ Top \in Class /\ 0 \in Class
    /\ \A c \in Class : c \in Nat /\ c <= Top /\ Size[c] \in Nat /\ Size[c] > 0
    /\ \A c \in Class : c < Top => c + 1 \in Class /\ Size[c + 1] = 2 * Size[c]
    /\ \A c \in Nat : c <= Top => c \in Class
    /\ Page = Size[0] /\ PowerOfTwo(Page)
  <1>1. MAX_CLASS \in Nat /\ MAX_CLASS >= 1
    BY ClassAssumption
  <1>2. Top = MAX_CLASS - 1 /\ Class = 0 .. MAX_CLASS - 1
    BY DEF Top, Class
  <1>3. \A c \in Class : Size[c] \in Nat /\ Size[c] > 0
    BY SizeAssumption
  <1>4. \A c \in Class : c < Top => c + 1 \in Class
    BY <1>1, <1>2
  <1>5. \A c \in Class : c < Top => Size[c + 1] = 2 * Size[c]
    BY <1>4, SizeAssumption
  <1>6. 0 \in Class
    BY <1>1, <1>2
  <1>7. PowerOfTwo(Page)
    <2>1. Page \in Nat
      BY <1>3, <1>6 DEF Page
    <2> QED
      BY <2>1, PageAssumption, Zenon DEF PowerOfTwo
  <1> QED
    BY <1>1, <1>2, <1>3, <1>4, <1>5, <1>6, <1>7 DEF Page

(* What fits a class, in halvings.                                         *)
LEMMA ClassByHalvings ==
    ASSUME NEW e \in Class, NEW w \in Nat
    PROVE  w < Size[e] <=> Halvings[w] <= Halvings[Page - 1] + e
  <1> DEFINE S == {c \in Nat : c <= Top => \A v \in Nat : v < Size[c] <=> Halvings[v] <= Halvings[Page - 1] + c}
             H == Halvings[Page - 1]
  <1>1. Page \in Nat /\ Page >= 2 /\ Page - 1 \in Nat /\ H \in Nat /\ Page = Size[0] /\ PowerOfTwo(Page)
    BY Classes, HalvingsIs DEF PowerOfTwo
  <1>2. 0 \in S
    <2>1. ASSUME NEW v \in Nat, v < Size[0] PROVE Halvings[v] <= H + 0
      <3>1. v <= Page - 1
        BY <1>1, <2>1
      <3>2. Halvings[v] <= H
        BY <1>1, <3>1, HalvingsGrow
      <3> QED
        BY <1>1, <3>2
    <2>2. ASSUME NEW v \in Nat, Halvings[v] <= H + 0 PROVE v < Size[0]
      <3>1. Halvings[v] <= H
        BY <1>1, <2>2
      <3> QED
        BY <1>1, <3>1, PowerSeparates
    <2> QED
      BY <2>1, <2>2
  <1>3. ASSUME NEW c \in Nat, c \in S PROVE c + 1 \in S
    <2> SUFFICES ASSUME c + 1 <= Top, NEW v \in Nat
                 PROVE  v < Size[c + 1] <=> Halvings[v] <= Halvings[Page - 1] + (c + 1)
      OBVIOUS
    <2>1. c \in Class /\ c < Top /\ c <= Top
      BY Classes
    <2>2. Size[c] \in Nat /\ Size[c] > 0 /\ Size[c + 1] = 2 * Size[c]
      BY <2>1, Classes
    <2>3. CASE v < 2
      <3>1. Halvings[v] = 0
        BY <2>3, HalvingsIs, HalfBelow
      <3> QED
        BY <1>1, <2>2, <2>3, <3>1
    <2>4. CASE ~(v < 2)
      <3>1. v \div 2 \in Nat /\ v \div 2 # 0 /\ (v = 2 * (v \div 2) \/ v = 2 * (v \div 2) + 1)
        BY <2>4, HalfBelow
      <3>2. Halvings[v] = 1 + Halvings[v \div 2] /\ Halvings[v \div 2] \in Nat
        BY <3>1, HalvingsIs
      <3>3. v \div 2 < Size[c] <=> Halvings[v \div 2] <= H + c
        BY <1>3, <2>1, <3>1
      <3>4. v < Size[c + 1] <=> v \div 2 < Size[c]
        BY <2>2, <3>1
      <3> HIDE DEF H
      <3>5. Halvings[v] <= H + (c + 1) <=> Halvings[v \div 2] <= H + c
        BY <1>1, <3>2
      <3> QED
        BY <3>3, <3>4, <3>5 DEF H
    <2> QED
      BY <2>3, <2>4
  <1> HIDE DEF S
  <1>4. e \in S
    BY <1>2, <1>3, SetInduction, Classes
  <1> QED
    BY <1>4, Classes DEF S

(* mm_heap_alloc picks a class that exists and has room for the request.   *)
LEMMA ClassOfRequest ==
    ASSUME NEW l \in Nat, l # 0, l + Header <= Size[Top]
    PROVE  free_class(l) \in Class /\ l + Header <= Size[free_class(l)]
  <1> DEFINE v == l + Header - 1
             H == Halvings[Page - 1]
             G == Halvings[v]
  <1>1. Header \in Nat /\ v \in Nat /\ l + Header # 0
    BY BoundAssumption
  <1>2. Page \in Nat /\ Page >= 2 /\ Page - 1 \in Nat /\ Page # 0
    BY Classes DEF PowerOfTwo
  <1>3. H \in Nat /\ G \in Nat
    BY <1>1, <1>2, HalvingsIs
  <1>4. PAGE_SIZE_LOG = 1 + H
    BY <1>2 DEF PAGE_SIZE_LOG, log_2_up
  <1>5. log_2_up(l + Header) = 1 + G
    BY <1>1 DEF log_2_up
  <1>6. Top \in Class /\ Size[Top] \in Nat
    BY Classes
  <1>7. v < Size[Top]
    BY <1>1, <1>6
  <1>8. G <= H + Top
    BY <1>1, <1>6, <1>7, ClassByHalvings
  <1> DEFINE c == IF 1 + G <= 1 + H THEN 0 ELSE (1 + G) - (1 + H)
  <1>9. free_class(l) = c
    BY <1>4, <1>5 DEF free_class
  <1>10. c \in Nat /\ c <= Top /\ G <= H + c
    BY <1>3, <1>8, Classes
  <1>11. c \in Class
    BY <1>10, Classes
  <1> HIDE DEF c, H, G
  <1>12. v < Size[c]
    BY <1>1, <1>10, <1>11, ClassByHalvings DEF G, H
  <1>13. Size[c] \in Nat
    BY <1>11, Classes
  <1>14. l + Header <= Size[c]
    BY <1>1, <1>12, <1>13
  <1> QED
    BY <1>9, <1>11, <1>14
-----------------------------------------------------------------------------
(* Multiples.                                                              *)
IsMult(n, d) == \E k \in Int : n = k * d

LEMMA IntMulStep ==
    ASSUME NEW w \in Nat, NEW i \in Int, NEW j \in Int, i < j
    PROVE  w * i + w <= w * j /\ w * i \in Int /\ w * j \in Int
  <1>1. PICK d \in Nat : j = i + 1 + d
    <2>1. j - i - 1 \in Nat /\ j = i + 1 + (j - i - 1)
      OBVIOUS
    <2> QED
      BY <2>1
  <1>2. w * j = w * i + w + w * d
    BY <1>1
  <1>3. w * d \in Nat /\ w * i \in Int /\ w * j \in Int
    OBVIOUS
  <1> QED
    BY <1>2, <1>3

(* Multiples of d are at least d apart.                                    *)
LEMMA MultApart ==
    ASSUME NEW d \in Nat, NEW m \in Int, NEW n \in Int, IsMult(m, d), IsMult(n, d), m < n
    PROVE  m + d <= n
  <1>1. PICK i \in Int : m = i * d
    BY DEF IsMult
  <1>2. PICK j \in Int : n = j * d
    BY DEF IsMult
  <1>3. m = d * i /\ n = d * j
    BY <1>1, <1>2
  <1>4. ~(j < i)
    <2>1. j < i => d * j + d <= d * i /\ d * j \in Int /\ d * i \in Int
      BY IntMulStep
    <2> QED
      BY <1>3, <2>1
  <1>5. i # j
    BY <1>3
  <1>6. i < j
    BY <1>4, <1>5
  <1>7. d * i + d <= d * j
    BY <1>6, IntMulStep
  <1> QED
    BY <1>3, <1>7

LEMMA MultSum ==
    ASSUME NEW d \in Nat, NEW m \in Int, NEW n \in Int, IsMult(m, d), IsMult(n, d)
    PROVE  IsMult(m + n, d) /\ IsMult(m - n, d)
  <1>1. PICK i \in Int : m = i * d
    BY DEF IsMult
  <1>2. PICK j \in Int : n = j * d
    BY DEF IsMult
  <1>3. m + n = (i + j) * d /\ m - n = (i - j) * d
    BY <1>1, <1>2
  <1>4. i + j \in Int /\ i - j \in Int
    OBVIOUS
  <1> QED
    BY <1>3, <1>4 DEF IsMult

LEMMA MultTrans ==
    ASSUME NEW n, NEW d \in Int, NEW e \in Int, IsMult(n, d), IsMult(d, e)
    PROVE  IsMult(n, e)
  <1>1. PICK i \in Int : n = i * d
    BY DEF IsMult
  <1>2. PICK j \in Int : d = j * e
    BY DEF IsMult
  <1>3. n = (i * j) * e /\ i * j \in Int
    BY <1>1, <1>2
  <1> QED
    BY <1>3 DEF IsMult

LEMMA MultSelf ==
    ASSUME NEW d \in Int
    PROVE  IsMult(d, d) /\ IsMult(2 * d, d) /\ IsMult(0, d)
  <1>1. d = 1 * d /\ 2 * d = 2 * d /\ 0 = 0 * d
    OBVIOUS
  <1> QED
    BY <1>1 DEF IsMult

(* Remainder 0.                                                            *)
LEMMA ModMult ==
    ASSUME NEW n \in Int, NEW d \in Nat, d > 0
    PROVE  n % d = 0 <=> IsMult(n, d)
  <1> DEFINE q == n \div d
             r == n % d
  <1>1. q \in Int /\ r \in 0 .. d - 1 /\ n = d * q + r
    OBVIOUS
  <1> HIDE DEF q, r
  <1>2. d * q = q * d /\ q * d \in Int
    BY <1>1
  <1>3. r = 0 => n = q * d
    BY <1>1, <1>2
  <1>4. ASSUME IsMult(n, d) PROVE r = 0
    <2>1. IsMult(q * d, d)
      BY <1>1 DEF IsMult
    <2>2. ~(q * d < n)
      <3>1. q * d < n => q * d + d <= n
        BY <1>2, <1>4, <2>1, MultApart
      <3> QED
        BY <1>1, <1>2, <3>1
    <2> QED
      BY <1>1, <1>2, <2>2
  <1> QED
    BY <1>1, <1>3, <1>4 DEF IsMult, r

(* Every multiple is even or odd, and not both.                            *)
LEMMA MultParity ==
    ASSUME NEW n \in Int, NEW d \in Nat, d > 0, IsMult(n, d)
    PROVE  /\ IsMult(n, 2 * d) \/ (IsMult(n - d, 2 * d) /\ IsMult(n + d, 2 * d))
           /\ ~(IsMult(n, 2 * d) /\ IsMult(n - d, 2 * d)) /\ ~(IsMult(n, 2 * d) /\ IsMult(n + d, 2 * d))
  <1>1. PICK k \in Int : n = k * d
    BY DEF IsMult
  <1>2. PICK j \in Int : k = 2 * j \/ k = 2 * j + 1
    <2>1. k \div 2 \in Int /\ (k = 2 * (k \div 2) \/ k = 2 * (k \div 2) + 1)
      OBVIOUS
    <2> QED
      BY <2>1
  <1>3. ASSUME k = 2 * j PROVE IsMult(n, 2 * d)
    <2>1. n = j * (2 * d)
      BY <1>1, <1>3
    <2> QED
      BY <2>1 DEF IsMult
  <1>4. ASSUME k = 2 * j + 1 PROVE IsMult(n - d, 2 * d) /\ IsMult(n + d, 2 * d)
    <2>1. n - d = j * (2 * d) /\ n + d = (j + 1) * (2 * d) /\ j + 1 \in Int
      BY <1>1, <1>4
    <2> QED
      BY <2>1 DEF IsMult
  <1>5. 2 * d \in Nat
    OBVIOUS
  <1>6. ~(IsMult(n, 2 * d) /\ IsMult(n - d, 2 * d))
    <2>1. IsMult(n, 2 * d) /\ IsMult(n - d, 2 * d) => (n - d) + 2 * d <= n
      BY <1>5, MultApart
    <2> QED
      BY <2>1
  <1>7. ~(IsMult(n, 2 * d) /\ IsMult(n + d, 2 * d))
    <2>1. IsMult(n, 2 * d) /\ IsMult(n + d, 2 * d) => n + 2 * d <= n + d
      BY <1>5, MultApart
    <2> QED
      BY <2>1
  <1> QED
    BY <1>2, <1>3, <1>4, <1>6, <1>7

(* Larger classes are multiples of smaller ones.                           *)
LEMMA SizeMult ==
    ASSUME NEW c \in Class, NEW e \in Class, c <= e
    PROVE  IsMult(Size[e], Size[c]) /\ (c < e => IsMult(Size[e], 2 * Size[c]))
  <1> DEFINE S == {k \in Nat : c + k <= Top => IsMult(Size[c + k], Size[c]) /\ (k > 0 => IsMult(Size[c + k], 2 * Size[c]))}
  <1>1. c \in Nat /\ Size[c] \in Nat /\ Size[c] > 0
    BY Classes
  <1>2. 0 \in S
    <2>1. IsMult(Size[c + 0], Size[c])
      BY <1>1, MultSelf
    <2> QED
      BY <2>1
  <1>3. ASSUME NEW k \in Nat, k \in S PROVE k + 1 \in S
    <2> SUFFICES ASSUME c + (k + 1) <= Top
                 PROVE  IsMult(Size[c + (k + 1)], Size[c]) /\ IsMult(Size[c + (k + 1)], 2 * Size[c])
      OBVIOUS
    <2>1. c + k \in Class /\ c + k < Top /\ c + k <= Top /\ c + (k + 1) = (c + k) + 1
      BY <1>1, Classes
    <2>2. Size[c + k] \in Nat /\ Size[c + (k + 1)] = 2 * Size[c + k]
      BY <2>1, Classes
    <2>3. PICK i \in Int : Size[c + k] = i * Size[c]
      BY <1>3, <2>1 DEF IsMult
    <2>4. Size[c + (k + 1)] = (2 * i) * Size[c] /\ Size[c + (k + 1)] = i * (2 * Size[c]) /\ 2 * i \in Int
      BY <1>1, <2>2, <2>3
    <2> QED
      BY <2>4 DEF IsMult
  <1> HIDE DEF S
  <1>4. e - c \in Nat /\ c + (e - c) = e /\ e <= Top
    BY Classes
  <1>5. e - c \in S
    BY <1>2, <1>3, <1>4, SetInduction
  <1> QED
    BY <1>1, <1>4, <1>5, Classes DEF S

(* _block_find_buddy: the upper neighbour of an even block, the lower one  *)
(* of an odd one, in every expansion.                                      *)
LEMMA FindBuddy ==
    ASSUME NEW c \in Class, c < Top, NEW a \in Nat, IsMult(a, Size[c])
    PROVE  /\ IsMult(a, 2 * Size[c]) => find_buddy(a, c) = a + Size[c]
           /\ ~IsMult(a, 2 * Size[c]) => find_buddy(a, c) = a - Size[c]
           /\ (a % Size[Top]) % Size[c] = 0
  <1> DEFINE z == Size[c]
             t == Size[Top]
             offs == a % t
             q == a \div t
  <1>1. z \in Nat /\ z > 0 /\ t \in Nat /\ t > 0 /\ 2 * z \in Nat /\ 2 * z > 0
    BY Classes
  <1>2. IsMult(t, z) /\ IsMult(t, 2 * z)
    BY SizeMult, Classes
  <1>3. IsMult(a, z)
    OBVIOUS
  <1>4. find_buddy(a, c) = IF (offs - z) % (2 * z) = 0 THEN a - z ELSE a + z
    BY DEF find_buddy
  <1> HIDE DEF z, t
  <1>5. q \in Int /\ offs \in Int /\ a = t * q + offs /\ t * q = q * t
    BY <1>1
  <1> HIDE DEF offs, q
  <1>6. IsMult(q * t, t) /\ q * t \in Int
    BY <1>1, <1>5 DEF IsMult
  <1>7. IsMult(q * t, z) /\ IsMult(q * t, 2 * z)
    BY <1>1, <1>2, <1>6, MultTrans
  <1>8. offs = a - q * t /\ offs - z = (a - z) - q * t /\ a - z = (offs - z) + q * t /\ offs - z \in Int /\ a - z \in Int
    BY <1>1, <1>5, <1>6
  <1>9. IsMult(offs, z)
    <2>1. IsMult(a - q * t, z)
      BY <1>1, <1>3, <1>6, <1>7, MultSum
    <2> QED
      BY <1>8, <2>1
  <1>10. IsMult(offs - z, 2 * z) <=> IsMult(a - z, 2 * z)
    <2>1. IsMult(a - z, 2 * z) => IsMult((a - z) - q * t, 2 * z)
      BY <1>1, <1>6, <1>7, <1>8, MultSum
    <2>2. IsMult(offs - z, 2 * z) => IsMult((offs - z) + q * t, 2 * z)
      BY <1>1, <1>6, <1>7, <1>8, MultSum
    <2> QED
      BY <1>8, <2>1, <2>2
  <1>11. (offs - z) % (2 * z) = 0 <=> IsMult(a - z, 2 * z)
    BY <1>1, <1>8, <1>10, ModMult
  <1>12. IsMult(a, 2 * z) <=> ~IsMult(a - z, 2 * z)
    BY <1>1, <1>3, MultParity
  <1>13. offs % z = 0
    BY <1>1, <1>5, <1>9, ModMult
  <1>14. /\ IsMult(a, 2 * z) => find_buddy(a, c) = a + z
         /\ ~IsMult(a, 2 * z) => find_buddy(a, c) = a - z
    BY <1>4, <1>11, <1>12
  <1> QED
    BY <1>13, <1>14 DEF offs, z, t

(* Every address below the end of the heap is in a block.                  *)
LEMMA InBlock ==
    ASSUME IInv, NEW x \in Nat, x < heap_end
    PROVE  \E b \in DOMAIN meta : b <= x /\ x < b + SizeAt(b)
  <1> DEFINE T == {n \in Nat : \E b \in DOMAIN meta : b <= x /\ n = x - b}
  <1>1. 0 \in DOMAIN meta
    BY DEF IInv, BlocksCover, TypeOK
  <1>2. x \in T
    BY <1>1
  <1>3. PICK n \in T : \A m \in T : n <= m
    BY <1>2, LeastNat
  <1>4. PICK b \in DOMAIN meta : b <= x /\ n = x - b
    BY <1>3
  <1>5. /\ b \in Nat /\ heap_end \in Nat /\ SizeAt(b) \in Nat /\ SizeAt(b) > 0
        /\ b + SizeAt(b) \in DOMAIN meta \cup {heap_end}
    BY BlockFacts
  <1>6. x < b + SizeAt(b)
    <2> SUFFICES ASSUME ~(x < b + SizeAt(b)) PROVE FALSE
      OBVIOUS
    <2>1. b + SizeAt(b) \in DOMAIN meta /\ b + SizeAt(b) <= x
      BY <1>5
    <2>2. x - (b + SizeAt(b)) \in T
      BY <1>5, <2>1
    <2> HIDE DEF T
    <2> QED
      BY <1>3, <1>4, <1>5, <2>2
  <1> QED
    BY <1>4, <1>6

(* Blocks and the end of the heap, in multiples.                           *)
LEMMA Alignment ==
    ASSUME IInv, AllAligned
    PROVE  /\ IsMult(heap_end, Size[Top])
           /\ \A a \in DOMAIN meta : IsMult(a, SizeAt(a))
  <1>1. heap_end \in Nat /\ Size[Top] \in Nat /\ Size[Top] > 0
    BY Classes DEF IInv, TypeOK
  <1>2. IsMult(heap_end, Size[Top])
    BY <1>1, ModMult DEF AllAligned
  <1>3. ASSUME NEW a \in DOMAIN meta PROVE IsMult(a, SizeAt(a))
    <2>1. a \in Nat /\ SizeAt(a) \in Nat /\ SizeAt(a) > 0 /\ a % SizeAt(a) = 0
      BY BlockFacts DEF AllAligned
    <2> QED
      BY <2>1, ModMult
  <1> QED
    BY <1>2, <1>3

(* A block and its buddy are each other's buddies, next to each other, and *)
(* the lower one starts at a multiple of the next class.                   *)
LEMMA BuddyOf ==
    ASSUME NEW c \in Class, c < Top, NEW a \in Nat, IsMult(a, Size[c]), NEW b, b = find_buddy(a, c)
    PROVE  /\ b \in Nat /\ b # a /\ IsMult(b, Size[c]) /\ find_buddy(b, c) = a
           /\ b < a => b + Size[c] = a /\ IsMult(b, 2 * Size[c])
           /\ a < b => a + Size[c] = b /\ IsMult(a, 2 * Size[c])
  <1> DEFINE z == Size[c]
  <1>1. z \in Nat /\ z > 0 /\ 2 * z \in Nat /\ IsMult(a, z) /\ IsMult(z, z) /\ IsMult(2 * z, z)
    BY Classes, MultSelf
  <1>2. /\ IsMult(a, 2 * z) => b = a + z
        /\ ~IsMult(a, 2 * z) => b = a - z
    BY FindBuddy
  <1>3. \A x \in Nat : IsMult(x, z) => /\ IsMult(x, 2 * z) => find_buddy(x, c) = x + z
                                       /\ ~IsMult(x, 2 * z) => find_buddy(x, c) = x - z
    BY FindBuddy
  <1> HIDE DEF z
  <1>4. CASE IsMult(a, 2 * z)
    <2>1. b = a + z /\ b \in Nat /\ a < b
      BY <1>1, <1>2, <1>4
    <2>2. IsMult(b, z)
      BY <1>1, <2>1, MultSum
    <2>3. ~IsMult(b, 2 * z)
      BY <1>1, <1>4, <2>1, MultParity
    <2>4. find_buddy(b, c) = b - z
      BY <1>3, <2>1, <2>2, <2>3
    <2> QED
      BY <1>1, <1>4, <2>1, <2>2, <2>4 DEF z
  <1>5. CASE ~IsMult(a, 2 * z)
    <2>1. a # 0
      BY <1>1, <1>5, MultSelf
    <2>2. 0 + z <= a
      <3>1. IsMult(0, z) /\ 0 < a
        BY <1>1, <2>1, MultSelf
      <3> QED
        BY <1>1, <3>1, MultApart
    <2>3. b = a - z /\ b \in Nat /\ b < a
      BY <1>1, <1>2, <1>5, <2>2
    <2>4. IsMult(b, z)
      BY <1>1, <2>3, MultSum
    <2>5. IsMult(b, 2 * z)
      BY <1>1, <1>5, <2>3, MultParity
    <2>6. find_buddy(b, c) = b + z
      BY <1>3, <2>3, <2>4, <2>5
    <2> QED
      BY <1>1, <2>3, <2>4, <2>5, <2>6 DEF z
  <1> QED
    BY <1>4, <1>5

(* The buddy of a block always exists and is no larger, so the assertions  *)
(* of _block_find_buddy hold.                                              *)
LEMMA BuddyThere ==
    ASSUME IInv, AllAligned, NEW a \in DOMAIN meta, NEW c, c = meta[a].class, c < Top, NEW b, b = find_buddy(a, c)
    PROVE  b \in DOMAIN meta /\ meta[b].class <= c /\ buddy_ok(a, c)
  <1> DEFINE z == Size[c]
  <1>1. /\ a \in Nat /\ heap_end \in Nat /\ c \in Class /\ SizeAt(a) = z /\ a + SizeAt(a) <= heap_end
        /\ a + SizeAt(a) \in DOMAIN meta \cup {heap_end}
    BY BlockFacts DEF SizeAt
  <1>2. z \in Nat /\ z > 0 /\ 2 * z \in Nat /\ c \in Nat
    BY <1>1, Classes
  <1>3. IsMult(a, z) /\ IsMult(heap_end, Size[Top])
    BY <1>1, Alignment
  <1>4. /\ b \in Nat /\ b # a /\ IsMult(b, z)
        /\ b < a => b + z = a /\ IsMult(b, 2 * z)
        /\ a < b => a + z = b /\ IsMult(a, 2 * z)
    BY <1>1, <1>3, BuddyOf
  <1>5. IsMult(heap_end, 2 * z)
    <2>1. IsMult(Size[Top], 2 * z) /\ Size[Top] \in Int
      BY <1>1, SizeMult, Classes
    <2> QED
      BY <1>2, <1>3, <2>1, MultTrans
  <1>6. (a % Size[Top]) % z = 0
    BY <1>1, <1>3, FindBuddy
  \* A block at a multiple of the size of a larger class is even.
  <1>7. ASSUME NEW x \in DOMAIN meta
        PROVE  /\ x \in Nat /\ SizeAt(x) \in Nat /\ SizeAt(x) > 0 /\ meta[x].class \in Nat /\ meta[x].class \in Class
               /\ IsMult(x, SizeAt(x))
               /\ meta[x].class > c => IsMult(x, 2 * z) /\ IsMult(x + SizeAt(x), 2 * z)
               /\ meta[x].class <= c => IsMult(z, SizeAt(x))
    <2> DEFINE e == meta[x].class
               y == SizeAt(x)
    <2>1. x \in Nat /\ e \in Class /\ y \in Nat /\ y > 0 /\ y = Size[e]
      BY BlockFacts DEF SizeAt
    <2>2. e \in Nat /\ IsMult(x, y)
      BY <2>1, Alignment, Classes
    <2> HIDE DEF e, y
    <2>3. ASSUME e > c PROVE IsMult(x, 2 * z) /\ IsMult(x + y, 2 * z)
      <3>1. IsMult(y, 2 * z)
        BY <1>1, <1>2, <2>1, <2>2, <2>3, SizeMult
      <3>2. IsMult(x, 2 * z)
        BY <1>2, <2>1, <2>2, <3>1, MultTrans
      <3> QED
        BY <1>2, <2>1, <3>1, <3>2, MultSum
    <2>4. e <= c => IsMult(z, y)
      BY <1>1, <2>1, SizeMult
    <2> QED
      BY <2>1, <2>2, <2>3, <2>4 DEF e, y
  <1>8. IsMult(a, 2 * z) => ~IsMult(a + z, 2 * z)
    BY <1>1, <1>2, <1>3, MultParity
  <1> HIDE DEF z
  <1>9. CASE a < b
    <2>1. b = a + z /\ ~IsMult(b, 2 * z)
      BY <1>4, <1>8, <1>9
    <2>2. b # heap_end
      BY <1>5, <2>1
    <2>3. b \in DOMAIN meta
      BY <1>1, <2>1, <2>2
    <2>4. meta[b].class <= c
      BY <1>2, <1>7, <2>1, <2>3
    <2> QED
      BY <1>6, <2>3, <2>4 DEF buddy_ok, z
  <1>10. CASE b < a
    <2>1. b + z = a /\ IsMult(b, 2 * z)
      BY <1>4, <1>10
    <2>2. ~IsMult(a, 2 * z)
      BY <1>2, <1>4, <2>1, MultParity
    <2>3. PICK x \in DOMAIN meta : x <= b /\ b < x + SizeAt(x)
      BY <1>1, <1>2, <1>4, <1>10, InBlock
    <2> DEFINE y == SizeAt(x)
               e == meta[x].class
    <2>4. /\ x \in Nat /\ y \in Nat /\ y > 0 /\ e \in Nat /\ IsMult(x, y)
          /\ e > c => IsMult(x, 2 * z) /\ IsMult(x + y, 2 * z)
          /\ e <= c => IsMult(z, y)
      BY <1>7
    <2>5. x + y <= a
      BY <1>1, <1>4, <1>10, <2>3, BlockFacts
    <2>6. x <= b /\ b < x + y
      BY <2>3
    <2> HIDE DEF y, e
    <2>7. e <= c
      <3> SUFFICES ASSUME e > c PROVE FALSE
        BY <1>2, <2>4
      <3>1. IsMult(x + y, 2 * z) /\ x + y \in Nat
        BY <2>4
      <3>2. b + 2 * z <= x + y
        BY <1>2, <1>4, <2>1, <2>6, <3>1, MultApart
      <3> QED
        BY <1>1, <1>2, <1>4, <2>1, <2>4, <2>5, <3>2
    <2>8. IsMult(b, y)
      BY <1>2, <1>4, <2>4, <2>7, MultTrans
    <2>9. x = b
      <3> SUFFICES ASSUME x < b PROVE FALSE
        BY <1>4, <2>4, <2>6
      <3>1. x + y <= b
        BY <1>4, <2>4, <2>8, MultApart
      <3> QED
        BY <1>4, <2>4, <2>6, <3>1
    <2>10. b \in DOMAIN meta /\ meta[b].class <= c
      BY <2>3, <2>7, <2>9 DEF e
    <2> QED
      BY <1>6, <2>10 DEF buddy_ok, z
  <1> QED
    BY <1>1, <1>4, <1>9, <1>10
-----------------------------------------------------------------------------
(* Headers that a step leaves alone make no new pair.                      *)
LEMMA SamePair ==
    ASSUME NEW a, NEW b, meta'[a] = meta[a], meta'[b] = meta[b], Unmerged(a, b)'
    PROVE  Unmerged(a, b)
  BY DEF Unmerged

(* Of a pair each is the buddy of the other.                               *)
LEMMA PairBothWays ==
    ASSUME IInv, AllAligned, NEW a \in DOMAIN meta, NEW b \in DOMAIN meta, Unmerged(a, b)
    PROVE  Unmerged(b, a)
  <1> DEFINE c == meta[a].class
  <1>1. c \in Class /\ c < Top /\ a \in Nat /\ SizeAt(a) = Size[c] /\ b = find_buddy(a, c)
    BY BlockFacts DEF Unmerged, SizeAt
  <1>2. IsMult(a, Size[c])
    BY <1>1, Alignment
  <1>3. find_buddy(b, c) = a
    BY <1>1, <1>2, BuddyOf
  <1> QED
    BY <1>3 DEF Unmerged

(* A failed assertion about the caller or the frames freezes the heap.     *)
LEMMA PanicBInv ==
    ASSUME BInv, NEW r, r \notin InternalErrors, Panic(r)
    PROVE  BInv'
  <1> USE DEF Panic, heap, call
  <1>1. AllAligned'
    BY DEF BInv, AllAligned, SizeAt
  <1>2. RequestFits' /\ LowerListsEmpty' /\ PairsInHand'
    BY DEF RequestFits, LowerListsEmpty, PairsInHand
  <1>3. NoInternalPanic'
    BY DEF NoInternalPanic
  <1> QED
    BY <1>1, <1>2, <1>3 DEF BInv

LEMMA InitBInv == Init => BInv
  <1> SUFFICES ASSUME Init PROVE BInv
    OBVIOUS
  <1>1. AllAligned
    <2>1. Size[Top] \in Nat /\ Size[Top] > 0
      BY Classes
    <2>2. 0 % Size[Top] = 0
      BY <2>1, MultSelf, ModMult
    <2> QED
      BY <2>2 DEF Init, AllAligned
  <1>2. RequestFits /\ LowerListsEmpty /\ PairsInHand /\ NoInternalPanic
    BY DEF Init, RequestFits, LowerListsEmpty, PairsInHand, NoInternalPanic, InternalErrors
  <1> QED
    BY <1>1, <1>2 DEF BInv

LEMMA AllocBInv == ASSUME IInv, BInv, NEW l \in Lens, mm_heap_alloc(l) PROVE BInv'
  <1>0. l \in Nat /\ Header \in Nat /\ Size[Top] \in Nat
    BY BoundAssumption, Classes
  <1>1. CASE l = 0 \/ l + Header > Size[Top]
    BY <1>1, PanicBInv DEF mm_heap_alloc, InternalErrors
  <1>2. CASE ~(l = 0 \/ l + Header > Size[Top])
    <2>1. free_class(l) \in Class /\ l + Header <= Size[free_class(l)]
      BY <1>0, <1>2, ClassOfRequest
    <2>2. /\ pc = "idle" /\ pc' = "dequeue"
          /\ want' = free_class(l) /\ cur' = free_class(l) /\ len' = l
          /\ UNCHANGED <<meta, free_list, heap_end, blk, panic>>
      BY <1>2, <2>1 DEF mm_heap_alloc, heap
    <2>3. AllAligned' /\ NoInternalPanic'
      BY <2>2 DEF BInv, AllAligned, SizeAt, NoInternalPanic
    <2>4. RequestFits'
      BY <2>1, <2>2 DEF RequestFits
    <2>5. LowerListsEmpty'
      <3>1. ASSUME NEW c \in Class PROVE ~(free_class(l) <= c /\ c < free_class(l))
        <4>1. c \in Nat /\ free_class(l) \in Nat
          BY <2>1, Classes
        <4> QED
          BY <4>1
      <3> QED
        BY <2>2, <3>1 DEF LowerListsEmpty
    <2>6. PairsInHand'
      <3> SUFFICES ASSUME NEW a \in DOMAIN meta', NEW b \in DOMAIN meta', Unmerged(a, b)' PROVE FALSE
        BY DEF PairsInHand
      <3>1. Unmerged(a, b) /\ a \in DOMAIN meta /\ b \in DOMAIN meta
        BY <2>2, SamePair
      <3> QED
        BY <2>2, <3>1 DEF BInv, PairsInHand
    <2> QED
      BY <2>3, <2>4, <2>5, <2>6 DEF BInv
  <1> QED
    BY <1>1, <1>2

LEMMA SplitFromBInv == ASSUME IInv, BInv, split_from PROVE BInv'
  <1>1. /\ pc = "dequeue" /\ pc' = "dequeue" /\ free_list[cur] = <<>> /\ cur < Top /\ cur' = cur + 1
        /\ UNCHANGED <<meta, free_list, heap_end, blk, want, len, panic>>
    BY DEF split_from, heap
  <1>2. cur \in Class /\ cur \in Nat
    BY Classes DEF IInv, TypeOK
  <1>3. AllAligned' /\ NoInternalPanic' /\ RequestFits'
    BY <1>1 DEF BInv, AllAligned, SizeAt, NoInternalPanic, RequestFits
  <1>4. LowerListsEmpty'
    <2> SUFFICES ASSUME NEW c \in Class, want <= c, c < cur + 1 PROVE free_list[c] = <<>>
      BY <1>1 DEF LowerListsEmpty
    <2>1. c = cur \/ c < cur
      BY <1>2, Classes
    <2> QED
      BY <1>1, <2>1 DEF BInv, LowerListsEmpty
  <1>5. PairsInHand'
    <2> SUFFICES ASSUME NEW a \in DOMAIN meta', NEW b \in DOMAIN meta', Unmerged(a, b)' PROVE FALSE
      BY DEF PairsInHand
    <2>1. Unmerged(a, b) /\ a \in DOMAIN meta /\ b \in DOMAIN meta
      BY <1>1, SamePair
    <2> QED
      BY <1>1, <2>1 DEF BInv, PairsInHand
  <1> QED
    BY <1>3, <1>4, <1>5 DEF BInv

LEMMA DequeueBInv == ASSUME IInv, BInv, free_list_dequeue PROVE BInv'
  <1> DEFINE s == free_list[cur]
             h == Head(s)
  <1>1. /\ s \in Seq(Nat) /\ s # <<>> /\ cur \in Class /\ pc = "dequeue"
        /\ h \in DOMAIN meta /\ meta[h].class = cur
    <2>1. s \in Seq(Nat) /\ s # <<>> /\ Injective(s) /\ cur \in Class /\ pc = "dequeue"
      BY DEF free_list_dequeue, IInv, TypeOK, ListsSound, Injective
    <2>2. h \in Elems(s)
      BY <2>1, PopElems
    <2>3. h \in DOMAIN meta /\ meta[h] = [class |-> cur, is_free |-> TRUE]
      BY <2>1, <2>2, Zenon DEF IInv, ListsSound
    <2> QED
      BY <2>1, <2>3
  <1>2. /\ blk' = h /\ pc' = IF cur = want THEN "check_out" ELSE "split"
        /\ free_list' = [free_list EXCEPT ![cur] = Tail(s)]
        /\ UNCHANGED <<meta, heap_end, cur, want, len, panic>>
    BY <1>1 DEF free_list_dequeue
  <1>3. cur \in Nat /\ \A c \in Class \ {cur} : free_list'[c] = free_list[c]
    BY <1>1, <1>2, Classes DEF IInv, TypeOK
  <1>4. AllAligned' /\ NoInternalPanic' /\ RequestFits'
    BY <1>1, <1>2 DEF BInv, AllAligned, SizeAt, NoInternalPanic, RequestFits
  <1>5. LowerListsEmpty'
    <2> SUFFICES ASSUME NEW c \in Class, want <= c, c < cur PROVE free_list'[c] = <<>>
      BY <1>2 DEF LowerListsEmpty
    <2>1. c # cur
      BY <1>3
    <2> QED
      BY <1>1, <1>3, <2>1 DEF BInv, LowerListsEmpty
  <1>6. PairsInHand'
    <2> SUFFICES ASSUME NEW a \in DOMAIN meta', NEW b \in DOMAIN meta', Unmerged(a, b)' PROVE blk' = a \/ blk' = b
      BY <1>2 DEF PairsInHand
    <2>1. Unmerged(a, b) /\ a \in DOMAIN meta /\ b \in DOMAIN meta
      BY <1>2, SamePair
    <2>2. s = <<a, b>> \/ s = <<b, a>>
      BY <1>1, <2>1 DEF BInv, PairsInHand
    <2>3. h = a \/ h = b
      <3>1. Head(<<a, b>>) = a /\ Head(<<b, a>>) = b
        OBVIOUS
      <3> QED
        BY <2>2, <3>1
    <2> QED
      BY <1>2, <2>3
  <1> QED
    BY <1>4, <1>5, <1>6 DEF BInv

LEMMA ExpandBInv == ASSUME IInv, BInv, expand_heap PROVE BInv'
  <1>1. CASE heap_end >= MaxExpand * Size[Top]
    BY <1>1, PanicBInv DEF expand_heap, InternalErrors
  <1>2. CASE ~(heap_end >= MaxExpand * Size[Top])
    <2>1. /\ pc = "dequeue" /\ cur = Top /\ free_list[cur] = <<>>
          /\ meta' = block_init(meta, heap_end, Top, TRUE)
          /\ free_list' = [free_list EXCEPT ![Top] = <<heap_end>> \o @]
          /\ heap_end' = heap_end + Size[Top]
          /\ UNCHANGED <<pc, blk, cur, want, len, panic>>
      BY <1>2 DEF expand_heap, call
    <2>2. /\ DOMAIN meta' = DOMAIN meta \cup {heap_end}
          /\ meta'[heap_end] = [class |-> Top, is_free |-> TRUE]
          /\ \A x \in DOMAIN meta \ {heap_end} : meta'[x] = meta[x]
      BY <2>1 DEF block_init
    <2>3. heap_end \in Nat /\ Size[Top] \in Nat /\ Size[Top] > 0 /\ Top \in Nat /\ Top \in Class
      BY Classes DEF IInv, TypeOK
    <2>4. \A c \in Class : c # Top => free_list'[c] = free_list[c]
      BY <2>1, <2>3 DEF IInv, TypeOK
    <2>5. AllAligned'
      <3>1. IsMult(heap_end, Size[Top]) /\ IsMult(Size[Top], Size[Top])
        BY <2>3, Alignment, MultSelf DEF BInv
      <3>2. IsMult(heap_end + Size[Top], Size[Top])
        BY <2>3, <3>1, MultSum
      <3>3. heap_end' % Size[Top] = 0 /\ heap_end % Size[Top] = 0
        BY <2>1, <2>3, <3>1, <3>2, ModMult
      <3>4. ASSUME NEW a \in DOMAIN meta' PROVE a % Size[meta'[a].class] = 0
        <4>1. CASE a = heap_end
          BY <2>2, <3>3, <4>1
        <4>2. CASE a # heap_end
          BY <2>2, <4>2 DEF BInv, AllAligned, SizeAt
        <4> QED
          BY <4>1, <4>2
      <3> QED
        BY <3>3, <3>4 DEF AllAligned, SizeAt
    <2>6. NoInternalPanic' /\ RequestFits'
      BY <2>1 DEF BInv, NoInternalPanic, RequestFits
    <2>7. LowerListsEmpty'
      <3> SUFFICES ASSUME NEW c \in Class, want <= c, c < Top PROVE free_list'[c] = <<>>
        BY <2>1 DEF LowerListsEmpty
      <3>1. c # Top
        BY <2>3
      <3> QED
        BY <2>1, <2>4, <3>1 DEF BInv, LowerListsEmpty
    <2>8. PairsInHand'
      <3> SUFFICES ASSUME NEW a \in DOMAIN meta', NEW b \in DOMAIN meta', Unmerged(a, b)' PROVE FALSE
        BY DEF PairsInHand
      <3>1. a # heap_end /\ b # heap_end
        BY <2>2, <2>3 DEF Unmerged
      <3>2. Unmerged(a, b) /\ a \in DOMAIN meta /\ b \in DOMAIN meta
        BY <2>2, <3>1, SamePair
      <3> QED
        BY <2>1, <3>2 DEF BInv, PairsInHand
    <2> QED
      BY <2>5, <2>6, <2>7, <2>8 DEF BInv
  <1> QED
    BY <1>1, <1>2

(* The two halves are each other's buddies, and the only new pair.         *)
LEMMA SplitBInv == ASSUME IInv, BInv, split PROVE BInv'
  <1> DEFINE low == blk
             c == cur - 1
             z == Size[c]
             high == low + z
  <1>1. /\ pc = "split" /\ low \in DOMAIN meta /\ low \in Nat /\ meta[low].class = cur
        /\ c \in Class /\ c \in Nat /\ c < Top /\ c + 1 = cur /\ want <= c /\ c < cur /\ cur \in Nat
    <2>1. pc = "split" /\ low \in DOMAIN meta /\ meta[low].class = cur /\ cur > want
      BY DEF split, IInv, CallState
    <2>2. cur \in Nat /\ want \in Nat /\ cur <= Top /\ Top \in Nat /\ low \in Nat
      BY <2>1, Classes, BlockFacts DEF IInv, TypeOK
    <2>3. c \in Nat /\ c < Top /\ c <= Top /\ c + 1 = cur /\ want <= c /\ c < cur
      BY <2>1, <2>2
    <2> QED
      BY <2>1, <2>2, <2>3, Classes
  <1>2. free_list[c] = <<>>
    BY <1>1 DEF BInv, LowerListsEmpty
  <1>3. /\ meta' = block_init(block_init(meta, low, c, TRUE), high, c, TRUE)
        /\ free_list' = [free_list EXCEPT ![c] = <<high, low>>]
        /\ cur' = c /\ pc' = "dequeue"
        /\ UNCHANGED <<heap_end, want, len, panic>>
    BY <1>2 DEF split, next_size
  <1> HIDE DEF c
  <1>4. z \in Nat /\ z > 0 /\ Size[cur] = 2 * z /\ SizeAt(low) = 2 * z /\ high \in Nat /\ high # low
    <2>1. z \in Nat /\ z > 0 /\ Size[c + 1] = 2 * z
      BY <1>1, Classes
    <2> HIDE DEF z
    <2> QED
      BY <1>1, <2>1 DEF SizeAt
  <1>5. /\ IsMult(low, 2 * z) /\ IsMult(low, z) /\ IsMult(high, z)
        /\ find_buddy(low, c) = high /\ find_buddy(high, c) = low
    <2>1. IsMult(low, 2 * z)
      BY <1>1, <1>4, Alignment DEF BInv
    <2>2. IsMult(z, z) /\ IsMult(2 * z, z) /\ 2 * z \in Int
      BY <1>4, MultSelf
    <2>3. IsMult(low, z)
      BY <1>4, <2>1, <2>2, MultTrans
    <2>4. IsMult(high, z)
      BY <1>1, <1>4, <2>2, <2>3, MultSum
    <2>5. find_buddy(low, c) = high
      BY <1>1, <2>1, <2>3, FindBuddy
    <2>6. find_buddy(high, c) = low
      BY <1>1, <2>3, <2>5, BuddyOf
    <2> QED
      BY <2>1, <2>3, <2>4, <2>5, <2>6
  <1>6. free_list'[c] = <<high, low>> /\ \A e \in Class : e # c => free_list'[e] = free_list[e]
    BY <1>1, <1>3 DEF IInv, TypeOK
  <1> HIDE DEF high, z, low
  <1>7. /\ DOMAIN meta' = DOMAIN meta \cup {high}
        /\ meta'[low] = [class |-> c, is_free |-> TRUE]
        /\ meta'[high] = [class |-> c, is_free |-> TRUE]
        /\ \A x \in DOMAIN meta \ {low, high} : meta'[x] = meta[x]
    BY <1>1, <1>3, <1>4 DEF block_init
  <1>8. AllAligned'
    <2>1. low % z = 0 /\ high % z = 0
      BY <1>1, <1>4, <1>5, ModMult
    <2>2. ASSUME NEW a \in DOMAIN meta' PROVE a % Size[meta'[a].class] = 0
      <3>1. CASE a = low \/ a = high
        BY <1>7, <2>1, <3>1 DEF z
      <3>2. CASE a # low /\ a # high
        BY <1>7, <3>2 DEF BInv, AllAligned, SizeAt
      <3> QED
        BY <3>1, <3>2
    <2> QED
      BY <1>3, <2>2 DEF BInv, AllAligned, SizeAt
  <1>9. NoInternalPanic' /\ RequestFits'
    BY <1>1, <1>3 DEF BInv, NoInternalPanic, RequestFits
  <1>10. LowerListsEmpty'
    <2> SUFFICES ASSUME NEW e \in Class, want <= e, e < c PROVE free_list'[e] = <<>>
      BY <1>3 DEF LowerListsEmpty
    <2>1. e # c /\ e < cur
      BY <1>1, Classes
    <2> QED
      BY <1>1, <1>6, <2>1 DEF BInv, LowerListsEmpty
  <1>11. PairsInHand'
    <2> SUFFICES ASSUME NEW a \in DOMAIN meta', NEW b \in DOMAIN meta', Unmerged(a, b)'
                 PROVE  (a = low /\ b = high) \/ (a = high /\ b = low)
      BY <1>3, <1>6 DEF PairsInHand
    <2>1. CASE a = low \/ a = high
      <3>1. meta'[a].class = c /\ b = find_buddy(a, meta'[a].class)
        BY <1>7, <2>1 DEF Unmerged
      <3> QED
        BY <1>5, <2>1, <3>1
    <2>2. CASE a # low /\ a # high /\ (b = low \/ b = high)
      <3>1. a \in DOMAIN meta /\ meta'[a] = meta[a]
        BY <1>7, <2>2
      <3>2. meta'[b].class = c /\ meta'[a].class = c /\ b = find_buddy(a, c)
        BY <1>7, <2>2 DEF Unmerged
      <3>3. a \in Nat /\ IsMult(a, z)
        BY <3>1, <3>2, BlockFacts, Alignment DEF BInv, SizeAt, z
      <3>4. find_buddy(b, c) = a
        BY <1>1, <3>2, <3>3, BuddyOf DEF z
      <3> QED
        BY <1>5, <2>2, <3>4
    <2>3. CASE a # low /\ a # high /\ b # low /\ b # high
      <3>1. Unmerged(a, b) /\ a \in DOMAIN meta /\ b \in DOMAIN meta
        BY <1>7, <2>3, SamePair
      <3> QED
        BY <1>1, <2>3, <3>1 DEF BInv, PairsInHand, low
    <2> QED
      BY <2>1, <2>2, <2>3
  <1> QED
    BY <1>8, <1>9, <1>10, <1>11 DEF BInv

(* The block handed out is no longer free, and it was in every pair.       *)
LEMMA CheckOutBInv == ASSUME IInv, BInv, check_out PROVE BInv'
  <1>1. /\ pc = "check_out" /\ blk \in DOMAIN meta /\ meta[blk].class = want /\ meta[blk].is_free
        /\ want \in Class /\ len \in Nat /\ Header \in Nat
    BY BoundAssumption DEF check_out, IInv, CallState, TypeOK
  <1>2. ~(Size[want] - Header < len)
    <2>1. len + Header <= Size[want] /\ Size[want] \in Nat
      BY <1>1, Classes DEF BInv, RequestFits
    <2> QED
      BY <1>1, <2>1
  <1>3. /\ meta' = block_init(meta, blk, want, FALSE) /\ pc' = "idle"
        /\ UNCHANGED <<free_list, heap_end, panic>>
    BY <1>1, <1>2 DEF check_out, Return
  <1>4. /\ DOMAIN meta' = DOMAIN meta
        /\ meta'[blk] = [class |-> want, is_free |-> FALSE]
        /\ \A x \in DOMAIN meta : meta'[x].class = meta[x].class
        /\ \A x \in DOMAIN meta \ {blk} : meta'[x] = meta[x]
    BY <1>1, <1>3 DEF block_init
  <1>5. AllAligned'
    BY <1>3, <1>4 DEF BInv, AllAligned, SizeAt
  <1>6. NoInternalPanic' /\ RequestFits' /\ LowerListsEmpty'
    BY <1>3 DEF BInv, NoInternalPanic, RequestFits, LowerListsEmpty
  <1>7. PairsInHand'
    <2> SUFFICES ASSUME NEW a \in DOMAIN meta', NEW b \in DOMAIN meta', Unmerged(a, b)' PROVE FALSE
      BY DEF PairsInHand
    <2>1. a # blk /\ b # blk
      BY <1>4 DEF Unmerged
    <2>2. Unmerged(a, b) /\ a \in DOMAIN meta /\ b \in DOMAIN meta
      BY <1>4, <2>1, SamePair
    <2> QED
      BY <1>1, <2>1, <2>2 DEF BInv, PairsInHand
  <1> QED
    BY <1>5, <1>6, <1>7 DEF BInv

(* The block handed back is in every new pair.                             *)
LEMMA FreeBInv == ASSUME IInv, BInv, NEW f, mm_heap_free(f) PROVE BInv'
  <1>1. CASE f \notin DOMAIN meta \/ meta[f].is_free
    BY <1>1, PanicBInv DEF mm_heap_free, InternalErrors
  <1>2. CASE ~(f \notin DOMAIN meta \/ meta[f].is_free)
    <2>1. /\ pc = "idle" /\ meta' = block_init(meta, f, meta[f].class, TRUE)
          /\ blk' = f /\ pc' = "coalesce"
          /\ UNCHANGED <<free_list, heap_end, cur, want, len, panic>>
      BY <1>2 DEF mm_heap_free
    <2>2. /\ DOMAIN meta' = DOMAIN meta
          /\ \A x \in DOMAIN meta : meta'[x].class = meta[x].class
          /\ \A x \in DOMAIN meta \ {f} : meta'[x] = meta[x]
      BY <1>2, <2>1 DEF block_init
    <2>3. AllAligned'
      BY <2>1, <2>2 DEF BInv, AllAligned, SizeAt
    <2>4. NoInternalPanic' /\ RequestFits' /\ LowerListsEmpty'
      BY <2>1 DEF BInv, NoInternalPanic, RequestFits, LowerListsEmpty
    <2>5. PairsInHand'
      <3> SUFFICES ASSUME NEW a \in DOMAIN meta', NEW b \in DOMAIN meta', Unmerged(a, b)', a # f, b # f PROVE FALSE
        BY <2>1 DEF PairsInHand
      <3>1. Unmerged(a, b) /\ a \in DOMAIN meta /\ b \in DOMAIN meta
        BY <2>2, SamePair
      <3> QED
        BY <2>1, <3>1 DEF BInv, PairsInHand
    <2> QED
      BY <2>3, <2>4, <2>5 DEF BInv
  <1> QED
    BY <1>1, <1>2

(* The buddy is found in its list, and the merged block starts where a     *)
(* block of the next class may start.                                      *)
LEMMA CoalesceBInv == ASSUME IInv, BInv, coalescing_block PROVE BInv'
  <1> DEFINE c == meta[blk].class
             buddy == find_buddy(blk, c)
             low == IF buddy < blk THEN buddy ELSE blk
             high == IF buddy < blk THEN blk ELSE buddy
             z == Size[c]
  <1>1. /\ pc = "coalesce" /\ blk \in DOMAIN meta /\ c < Top
        /\ buddy \in DOMAIN meta /\ meta[buddy].class = c /\ meta[buddy].is_free
    BY DEF coalescing_block, Coalesces, buddy_ok, IInv, CallState
  <1>2. blk \in Nat /\ c \in Class /\ c + 1 \in Class /\ Size[c + 1] = 2 * z /\ z \in Nat /\ z > 0 /\ SizeAt(blk) = z
    BY <1>1, BlockFacts, Classes DEF SizeAt
  <1>3. /\ buddy \in Nat /\ buddy # blk /\ IsMult(buddy, z)
        /\ buddy < blk => buddy + z = blk /\ IsMult(buddy, 2 * z)
        /\ blk < buddy => blk + z = buddy /\ IsMult(blk, 2 * z)
    <2>1. IsMult(blk, z)
      BY <1>1, <1>2, Alignment DEF BInv
    <2> QED
      BY <1>1, <1>2, <2>1, BuddyOf
  <1>4. buddy \in Elems(free_list[c])
    BY <1>1, <1>3 DEF IInv, ListsComplete
  <1>5. /\ meta' = block_init(block_clean(meta, high), low, c + 1, TRUE)
        /\ blk' = low /\ pc' = "coalesce"
        /\ UNCHANGED <<heap_end, cur, want, len, panic>>
    BY <1>1, <1>4 DEF coalescing_block
  <1> HIDE DEF c, buddy, z
  <1>6. low \in Nat /\ high # low /\ {low, high} = {blk, buddy} /\ low \in DOMAIN meta /\ IsMult(low, 2 * z)
    BY <1>1, <1>2, <1>3
  <1> HIDE DEF low, high
  <1>7. /\ DOMAIN meta' = DOMAIN meta \ {high}
        /\ meta'[low] = [class |-> c + 1, is_free |-> TRUE]
        /\ \A x \in DOMAIN meta \ {low, high} : meta'[x] = meta[x]
    BY <1>5, <1>6 DEF block_init, block_clean
  <1>8. AllAligned'
    <2>1. low % (2 * z) = 0
      BY <1>2, <1>6, ModMult
    <2>2. ASSUME NEW a \in DOMAIN meta' PROVE a % Size[meta'[a].class] = 0
      <3>1. CASE a = low
        BY <1>2, <1>7, <2>1, <3>1
      <3>2. CASE a # low
        BY <1>7, <3>2 DEF BInv, AllAligned, SizeAt
      <3> QED
        BY <3>1, <3>2
    <2> QED
      BY <1>5, <2>2 DEF BInv, AllAligned, SizeAt
  <1>9. NoInternalPanic' /\ RequestFits' /\ LowerListsEmpty'
    BY <1>5 DEF BInv, NoInternalPanic, RequestFits, LowerListsEmpty
  <1>10. PairsInHand'
    <2> SUFFICES ASSUME NEW a \in DOMAIN meta', NEW b \in DOMAIN meta', Unmerged(a, b)', a # low, b # low PROVE FALSE
      BY <1>5 DEF PairsInHand
    <2>1. a # high /\ b # high
      BY <1>7
    <2>2. Unmerged(a, b) /\ a \in DOMAIN meta /\ b \in DOMAIN meta
      BY <1>7, <2>1, SamePair
    <2>3. blk = a \/ blk = b
      BY <1>1, <2>2 DEF BInv, PairsInHand
    <2> QED
      BY <1>6, <2>1, <2>3
  <1> QED
    BY <1>8, <1>9, <1>10 DEF BInv

(* When no more merges are possible the block in hand is in no pair.       *)
LEMMA EnqueueBInv == ASSUME IInv, BInv, free_list_enqueue PROVE BInv'
  <1> DEFINE c == meta[blk].class
  <1>1. pc = "coalesce" /\ blk \in DOMAIN meta /\ meta[blk].is_free /\ ~Coalesces /\ c \in Class
    BY DEF free_list_enqueue, IInv, CallState, TypeOK, Header_t
  <1>2. c < Top => buddy_ok(blk, c)
    BY <1>1, BuddyThere DEF BInv
  <1>3. /\ meta' = block_init(meta, blk, c, TRUE) /\ pc' = "idle"
        /\ UNCHANGED <<heap_end, panic>>
    BY <1>2 DEF free_list_enqueue, Return
  <1>4. /\ DOMAIN meta' = DOMAIN meta
        /\ \A x \in DOMAIN meta : meta'[x].class = meta[x].class /\ (meta'[x].is_free => meta[x].is_free)
    BY <1>1, <1>3 DEF block_init
  <1>5. AllAligned'
    BY <1>3, <1>4 DEF BInv, AllAligned, SizeAt
  <1>6. NoInternalPanic' /\ RequestFits' /\ LowerListsEmpty'
    BY <1>3 DEF BInv, NoInternalPanic, RequestFits, LowerListsEmpty
  <1>7. PairsInHand'
    <2> SUFFICES ASSUME NEW a \in DOMAIN meta', NEW b \in DOMAIN meta', Unmerged(a, b)' PROVE FALSE
      BY DEF PairsInHand
    <2>1. a \in DOMAIN meta /\ b \in DOMAIN meta
      BY <1>4
    <2>2. Unmerged(a, b)
      BY <1>4, <2>1 DEF Unmerged
    <2>3. Unmerged(b, a)
      BY <2>1, <2>2, PairBothWays DEF BInv
    <2>4. blk = a \/ blk = b
      BY <1>1, <2>1, <2>2 DEF BInv, PairsInHand
    <2>5. ASSUME NEW x \in DOMAIN meta, Unmerged(blk, x) PROVE Coalesces
      BY <1>2, <2>5 DEF Unmerged, Coalesces
    <2> QED
      BY <1>1, <2>1, <2>2, <2>3, <2>4, <2>5
  <1> QED
    BY <1>5, <1>6, <1>7 DEF BInv

LEMMA NextBInv == IInv /\ BInv /\ [Next]_vars => BInv'
  <1> SUFFICES ASSUME IInv, BInv, [Next]_vars PROVE BInv'
    OBVIOUS
  <1>1. ASSUME NEW l \in Lens, mm_heap_alloc(l) PROVE BInv'
    BY <1>1, AllocBInv
  <1>2. ASSUME NEW n \in 0 .. (heap_end \div Page) - 1, mm_heap_free(n * Page) PROVE BInv'
    BY <1>2, FreeBInv
  <1>3. CASE Step
    BY <1>3, DequeueBInv, SplitFromBInv, ExpandBInv, SplitBInv, CheckOutBInv, CoalesceBInv, EnqueueBInv DEF Step
  <1>4. CASE halt \/ UNCHANGED vars
    <2>1. UNCHANGED vars
      BY <1>4 DEF halt
    <2>2. AllAligned' /\ RequestFits' /\ LowerListsEmpty' /\ NoInternalPanic'
      BY <2>1 DEF vars, BInv, AllAligned, SizeAt, RequestFits, LowerListsEmpty, NoInternalPanic
    <2>3. PairsInHand'
      BY <2>1 DEF vars, BInv, PairsInHand, Unmerged
    <2> QED
      BY <2>2, <2>3 DEF BInv
  <1> QED
    BY <1>1, <1>2, <1>3, <1>4 DEF Next

(* Blocks stay aligned to their size, every request has a class with room  *)
(* for it, and free buddies stay unmerged only in the hands of a call.     *)
THEOREM BuddyInvariant == Spec => []BInv
  <1>1. Init => BInv
    BY InitBInv
  <1>2. IInv /\ BInv /\ [Next]_vars => BInv'
    BY NextBInv
  <1> QED
    BY <1>1, <1>2, SpecIInv, PTL DEF Spec

(* No assertion of mm_heap.c about the heap's own state ever fails: only   *)
(* a bad argument or running out of frames can stop the kernel in it.      *)
THEOREM HeapNeverPanics == Spec => []NoInternalPanic
  <1>1. BInv => NoInternalPanic
    BY DEF BInv
  <1> QED
    BY <1>1, BuddyInvariant, PTL

(* Between calls no two free buddies are left apart: whatever the order of *)
(* frees, _coalescing_block has merged all that can be merged.             *)
THEOREM HeapFullyCoalesced == Spec => []FullyCoalesced
  <1>1. BInv => FullyCoalesced
    <2> SUFFICES ASSUME BInv, pc = "idle", NEW a \in DOMAIN meta, meta[a].class < Top, meta[a].is_free,
                        find_buddy(a, meta[a].class) \in DOMAIN meta,
                        meta[find_buddy(a, meta[a].class)].is_free,
                        meta[find_buddy(a, meta[a].class)].class = meta[a].class
                 PROVE  FALSE
      BY DEF FullyCoalesced
    <2>1. Unmerged(a, find_buddy(a, meta[a].class))
      BY DEF Unmerged
    <2> QED
      BY <2>1 DEF BInv, PairsInHand
  <1> QED
    BY <1>1, BuddyInvariant, PTL
=============================================================================
