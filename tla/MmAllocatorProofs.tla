------------------------- MODULE MmAllocatorProofs --------------------------
(***************************************************************************)
(* The region allocators for every size of a page and of the heap, every   *)
(* set of sizes and alignments and any number of allocators and objects.   *)
(***************************************************************************)
EXTENDS MmAllocator, WellFoundedInduction, SequenceTheorems, FiniteSetTheorems, TLAPS

(* A product grows by a factor for each step of the other.                 *)
LEMMA MulStep ==
    ASSUME NEW w \in Nat, NEW i \in Nat, NEW j \in Nat, i < j
    PROVE  w * i + w <= w * j /\ w * i \in Nat /\ w * j \in Nat
  <1>1. PICK d \in Nat : j = i + 1 + d
    <2>1. j - i - 1 \in Nat /\ j = i + 1 + (j - i - 1)
      OBVIOUS
    <2> QED
      BY <2>1
  <1>2. w * j = w * i + w + w * d
    BY <1>1
  <1>3. w * d \in Nat /\ w * i \in Nat /\ w * j \in Nat
    OBVIOUS
  <1> QED
    BY <1>2, <1>3

(* Quotient and remainder.                                                 *)
LEMMA DivMod ==
    ASSUME NEW a \in Nat, NEW w \in Nat, w > 0
    PROVE  a \div w \in Nat /\ a % w \in 0 .. w - 1 /\ a = w * (a \div w) + (a % w)
  OBVIOUS

(* There is only one quotient and one remainder.                           *)
LEMMA DivUnique ==
    ASSUME NEW w \in Nat, w > 0, NEW q \in Nat, NEW r \in 0 .. w - 1
    PROVE  (q * w + r) \div w = q /\ (q * w + r) % w = r
  <1> DEFINE a == q * w + r
  <1>1. a \in Nat /\ q * w = w * q
    OBVIOUS
  <1>2. a \div w \in Nat /\ a % w \in 0 .. w - 1 /\ a = w * (a \div w) + (a % w)
    BY <1>1, DivMod
  <1> DEFINE p == a \div w
             s == a % w
  <1>3. p \in Nat /\ s \in 0 .. w - 1 /\ w * q + r = w * p + s
    BY <1>1, <1>2
  <1> HIDE DEF p, s
  <1>4. ~(p < q)
    <2>1. p < q => w * p + w <= w * q /\ w * p \in Nat /\ w * q \in Nat
      BY <1>3, MulStep
    <2> QED
      BY <1>3, <2>1
  <1>5. ~(q < p)
    <2>1. q < p => w * q + w <= w * p /\ w * p \in Nat /\ w * q \in Nat
      BY <1>3, MulStep
    <2> QED
      BY <1>3, <2>1
  <1>6. p = q
    BY <1>3, <1>4, <1>5
  <1>7. s = r
    BY <1>3, <1>6
  <1> QED
    BY <1>6, <1>7 DEF p, s

(* Every set of natural numbers that is not empty has a least element.     *)
LEMMA LeastNat ==
    ASSUME NEW T, T \subseteq Nat, T # {}
    PROVE  \E x \in T : \A y \in T : x <= y
  <1> DEFINE R == OpToRel(<, Nat)
  <1>1. IsWellFoundedOn(R, Nat)
    BY NatLessThanWellFounded
  <1>2. R = {ss \in Nat \X Nat : ss[1] < ss[2]}
    BY DEF OpToRel
  <1>3. \A x, y \in Nat : x < y => <<x, y>> \in R
    BY <1>2
  <1> HIDE DEF R
  <1>4. PICK x \in T : \A y \in T : ~(<<y, x>> \in R)
    BY <1>1, WFMin
  <1>5. ASSUME NEW y \in T PROVE x <= y
    <2>1. x \in Nat /\ y \in Nat
      OBVIOUS
    <2>2. ~(y < x)
      BY <1>3, <1>4, <2>1
    <2> QED
      BY <2>1, <2>2
  <1> QED
    BY <1>5
-----------------------------------------------------------------------------
(* The bytes of a heap block.                                              *)
lo(b) == b.page * PAGE
hi(b) == b.page * PAGE + b.pages * PAGE
Separate(b, c) == hi(b) <= lo(c) \/ hi(c) <= lo(b)

Block == [page : Nat, pages : BlockPages]
Area == [block : Nat, block_len : Nat, use_len : Nat, heap : Block]

(* The parts of the inductive invariant name the state they speak of, so   *)
(* that they can be stated of the state halfway through mm_allocate too:   *)
(* heap blocks us, recycled allocators fs, lists ls, guard words gd,       *)
(* objects os and panic pn.                                                *)

(* Heap blocks in use do not overlap.                                      *)
BlocksOK(us) ==
    /\ us \subseteq Block
    /\ \A b, c \in us : b # c => Separate(b, c)

(* An area fills its heap block between the area_t and the guard word,     *)
(* where its allocator is noted, and is never filled to the end unless     *)
(* that has just stopped the kernel.                                       *)
AreaOK(us, gd, pn, all, a) ==
    /\ a \in Area /\ a.heap \in us
    /\ a.block = lo(a.heap) + BLOCK_T + AREA_T
    /\ a.block + a.block_len + PTR = hi(a.heap)
    /\ a.use_len <= a.block_len /\ (pn = "none" => a.use_len < a.block_len)
    /\ hi(a.heap) - PTR \in DOMAIN gd /\ gd[hi(a.heap) - PTR] = all

AreasOK(us, ls, gd, pn) ==
    /\ DOMAIN ls \subseteq Nat /\ IsFiniteSet(DOMAIN ls)
    /\ \A all \in DOMAIN ls :
          /\ ls[all] \in Seq(Area)
          /\ \A i \in DOMAIN ls[all] : AreaOK(us, gd, pn, all, ls[all][i])
    /\ \A all, live \in DOMAIN ls : \A i \in DOMAIN ls[all], j \in DOMAIN ls[live] :
          ls[all][i].heap = ls[live][j].heap => all = live /\ i = j

(* No guard word outlives its area.                                        *)
GuardsOK(ls, gd) ==
    /\ DOMAIN gd \subseteq Nat
    /\ \A g \in DOMAIN gd : \E all \in DOMAIN ls : \E i \in DOMAIN ls[all] :
          g = hi(ls[all][i].heap) - PTR

(* Objects lie below the mark of an area.                                  *)
InArea(o, a) == a.block <= o.start /\ o.start + o.size <= a.block + a.use_len
ObjectsOK(ls, os) ==
    /\ os \subseteq [all : Nat, start : Nat, size : Sizes, align : Aligns]
    /\ \A o \in os :
          /\ o.start % o.align = 0 /\ o.all \in DOMAIN ls
          /\ \E i \in DOMAIN ls[o.all] : InArea(o, ls[o.all][i])
    /\ \A o, p \in os : o # p => Apart(o.start, o.size, p.start, p.size)

(* Allocator structures lie in heap blocks that are no areas; every heap   *)
(* block that is no area holds one.                                        *)
Alls(fs, ls) == Range(fs) \cup DOMAIN ls
IsArea(ls, b) == \E all \in DOMAIN ls : \E i \in DOMAIN ls[all] : ls[all][i].heap = b
Holds(b, x) == lo(b) < x /\ x + ALLOC_T <= hi(b)
StructsOK(us, fs, ls) ==
    /\ fs \in Seq(Nat)
    /\ \A i, j \in DOMAIN fs : fs[i] = fs[j] => i = j
    /\ Range(fs) \cap DOMAIN ls = {}
    /\ \A x, y \in Alls(fs, ls) : x # y => Apart(x, ALLOC_T, y, ALLOC_T)
    /\ \A x \in Alls(fs, ls) : \E b \in us : ~IsArea(ls, b) /\ Holds(b, x)
    /\ \A b \in us : IsArea(ls, b) \/ \E x \in Alls(fs, ls) : Holds(b, x)

StateOK(us, fs, ls, gd, os, pn) ==
    /\ BlocksOK(us)
    /\ AreasOK(us, ls, gd, pn)
    /\ GuardsOK(ls, gd)
    /\ ObjectsOK(ls, os)
    /\ StructsOK(us, fs, ls)

(* The inductive invariant.                                                *)
IInv == StateOK(used, free_alls, list, guard, objs, panic) /\ OnlyKnownPanics
-----------------------------------------------------------------------------
(* The constants.                                                          *)
LEMMA Constants ==
    /\ PAGE \in Nat /\ PAGE >= 48 /\ Pages \in Nat /\ Sizes \subseteq Nat /\ Aligns \subseteq Nat
    /\ \A size \in Sizes : size > 0
    /\ \A align \in Aligns : align > 0
    /\ BLOCK_T = 24 /\ AREA_T = 32 /\ ALLOC_T = 16 /\ PTR = 8
    /\ \A p \in BlockPages : p \in Nat /\ p >= 1
  BY AllocatorAssumption DEF BLOCK_T, AREA_T, ALLOC_T, PTR, BlockPages, MAX_BLOCK

(* mm_heap_alloc returns long enough blocks.                               *)
LEMMA PagesFor ==
    ASSUME NEW len \in Nat, len + BLOCK_T <= PAGE * MAX_BLOCK
    PROVE  pages_for(len) \in BlockPages /\ len + BLOCK_T <= PAGE * pages_for(len)
  <1> DEFINE fits == {p \in BlockPages : len + BLOCK_T <= PAGE * p}
  <1>1. MAX_BLOCK \in fits /\ fits \subseteq Nat
    BY Constants DEF BlockPages
  <1> HIDE DEF fits
  <1>2. \E p \in fits : \A q \in fits : p <= q
    BY <1>1, LeastNat
  <1>3. pages_for(len) = CHOOSE p \in fits : \A q \in fits : p <= q
    BY DEF pages_for, fits
  <1>4. pages_for(len) \in fits
    BY <1>2, <1>3
  <1> QED
    BY <1>4 DEF fits

(* The bytes of a block.                                                   *)
LEMMA BlockBytes ==
    ASSUME NEW b \in Block
    PROVE  /\ b.page \in Nat /\ b.pages \in Nat /\ b.pages >= 1
           /\ lo(b) \in Nat /\ hi(b) \in Nat /\ hi(b) = lo(b) + b.pages * PAGE /\ lo(b) + PAGE <= hi(b)
           /\ payload(b) = lo(b) + BLOCK_T /\ payload_len(b) = hi(b) - lo(b) - BLOCK_T
           /\ guard_at(b) = hi(b) - PTR
  <1>1. b.page \in Nat /\ b.pages \in Nat /\ b.pages >= 1 /\ PAGE \in Nat
    BY Constants DEF Block
  <1> DEFINE x == b.page * PAGE
             y == b.pages * PAGE
  <1>2. x \in Nat /\ y \in Nat
    BY <1>1
  <1>3. PAGE <= y
    <2>1. PAGE * 0 + PAGE <= PAGE * b.pages
      BY <1>1, MulStep
    <2> QED
      BY <1>1, <2>1
  <1>4. lo(b) = x /\ hi(b) = x + y /\ payload(b) = x + BLOCK_T /\ payload_len(b) = y - BLOCK_T
    BY DEF lo, hi, payload, payload_len
  <1>5. guard_at(b) = payload(b) + payload_len(b) - PTR
    BY DEF guard_at
  <1> HIDE DEF x, y
  <1>6. hi(b) = lo(b) + b.pages * PAGE
    BY <1>4 DEF y
  <1> QED
    BY <1>1, <1>2, <1>3, <1>4, <1>5, <1>6, Constants

(* Blocks without a common page have no common byte.                       *)
LEMMA PagesApart ==
    ASSUME NEW b \in Block, NEW c \in Block, (b.page .. b.page + b.pages - 1) \cap (c.page .. c.page + c.pages - 1) = {}
    PROVE  Separate(b, c)
  <1>1. /\ b.page \in Nat /\ b.pages \in Nat /\ b.pages >= 1 /\ c.page \in Nat /\ c.pages \in Nat /\ c.pages >= 1
        /\ PAGE \in Nat
    BY BlockBytes, Constants
  <1>2. ASSUME NEW x \in Nat, NEW m \in Nat, NEW y \in Nat, x + m <= y
        PROVE  x * PAGE + m * PAGE <= y * PAGE
    <2>1. y - x - m \in Nat /\ y = x + m + (y - x - m)
      BY <1>2
    <2>2. PICK d \in Nat : y = x + m + d
      BY <2>1
    <2>3. y * PAGE = x * PAGE + m * PAGE + d * PAGE
      BY <1>1, <2>2
    <2>4. d * PAGE \in Nat /\ x * PAGE \in Nat /\ m * PAGE \in Nat
      BY <1>1
    <2> QED
      BY <2>3, <2>4
  <1>3. b.page + b.pages <= c.page \/ c.page + c.pages <= b.page
    <2> SUFFICES ASSUME ~(b.page + b.pages <= c.page), ~(c.page + c.pages <= b.page) PROVE FALSE
      OBVIOUS
    <2>1. CASE b.page <= c.page
      <3>1. c.page \in (b.page .. b.page + b.pages - 1) /\ c.page \in (c.page .. c.page + c.pages - 1)
        BY <1>1, <2>1
      <3> QED
        BY <3>1
    <2>2. CASE c.page <= b.page
      <3>1. b.page \in (b.page .. b.page + b.pages - 1) /\ b.page \in (c.page .. c.page + c.pages - 1)
        BY <1>1, <2>2
      <3> QED
        BY <3>1
    <2> QED
      BY <1>1, <2>1, <2>2
  <1> QED
    BY <1>1, <1>2, <1>3 DEF Separate, lo, hi

(* A block that is granted is new, long enough and apart from the others.  *)
LEMMA Granted ==
    ASSUME BlocksOK(used), NEW len \in Nat, len + BLOCK_T <= PAGE * MAX_BLOCK, NEW b \in Grants(len)
    PROVE  /\ b \in Block /\ b \notin used /\ len + BLOCK_T <= hi(b) - lo(b)
           /\ \A c \in used : Separate(b, c) /\ Separate(c, b)
  <1>1. pages_for(len) \in BlockPages /\ len + BLOCK_T <= PAGE * pages_for(len)
    BY PagesFor
  <1>2. /\ b \in [page : 0 .. Pages - 1, pages : {pages_for(len)}]
        /\ (b.page .. b.page + b.pages - 1) \cap Taken(used) = {}
    BY DEF Grants
  <1>3. b \in Block /\ b.pages = pages_for(len)
    BY <1>1, <1>2, Constants DEF Block
  <1>4. len + BLOCK_T <= hi(b) - lo(b)
    <2> DEFINE x == b.pages * PAGE
    <2>1. hi(b) = lo(b) + x /\ lo(b) \in Nat /\ hi(b) \in Nat
      BY <1>3, BlockBytes
    <2>2. PAGE * pages_for(len) = x /\ x \in Nat
      BY <1>3, Constants, BlockBytes
    <2> HIDE DEF x
    <2> QED
      BY <1>1, <2>1, <2>2, Constants
  <1>5. ASSUME NEW c \in used PROVE Separate(b, c) /\ Separate(c, b)
    <2>1. c \in Block
      BY DEF BlocksOK
    <2>2. (c.page .. c.page + c.pages - 1) \subseteq Taken(used)
      BY DEF Taken
    <2>3. Separate(b, c)
      BY <1>2, <1>3, <2>1, <2>2, PagesApart
    <2> QED
      BY <2>3 DEF Separate
  <1>6. ~Separate(b, b)
    <2>1. lo(b) \in Nat /\ hi(b) \in Nat /\ lo(b) + PAGE <= hi(b)
      BY <1>3, BlockBytes
    <2> QED
      BY <2>1, Constants DEF Separate
  <1> QED
    BY <1>3, <1>4, <1>5, <1>6

(* Blocks that are apart end at different addresses.                       *)
LEMMA EndsDiffer ==
    ASSUME NEW b \in Block, NEW c \in Block, Separate(b, c)
    PROVE  hi(b) # hi(c) /\ hi(b) - PTR # hi(c) - PTR
  <1>1. lo(b) \in Nat /\ hi(b) \in Nat /\ lo(b) + PAGE <= hi(b) /\ lo(c) \in Nat /\ hi(c) \in Nat /\ lo(c) + PAGE <= hi(c)
    BY BlockBytes
  <1> QED
    BY <1>1, Constants DEF Separate
(* The structures carved out of a block lie in it, one behind the other.   *)
LEMMA CarvedOK ==
    ASSUME NEW b \in Block
    PROVE  /\ Carved(b) \in Seq(Nat) /\ Carved(b) # <<>>
           /\ \A i \in DOMAIN Carved(b) : Holds(b, Carved(b)[i])
           /\ \A i, j \in DOMAIN Carved(b) : i # j =>
                 Carved(b)[i] # Carved(b)[j] /\ Apart(Carved(b)[i], ALLOC_T, Carved(b)[j], ALLOC_T)
  <1> DEFINE first == align_up(payload(b), PTR)
             full(k) == first + k * STRIDE + ALLOC_T - payload(b) > payload_len(b)
             least(k) == full(k) /\ \A j \in 0 .. k - 1 : first + j * STRIDE + ALLOC_T - payload(b) <= payload_len(b)
             n == CHOOSE k \in 0 .. payload_len(b) : least(k)
  <1>1. /\ lo(b) \in Nat /\ hi(b) \in Nat /\ lo(b) + PAGE <= hi(b)
        /\ payload(b) = lo(b) + 24 /\ payload_len(b) = hi(b) - lo(b) - 24
    BY BlockBytes, Constants
  <1>2. first \in Nat /\ first >= payload(b) /\ first <= payload(b) + 7
    <2>1. first = ((lo(b) + 31) \div 8) * 8
      BY <1>1, Constants DEF align_up
    <2>2. lo(b) + 31 \in Nat
      BY <1>1
    <2>3. /\ (lo(b) + 31) \div 8 \in Nat /\ (lo(b) + 31) % 8 \in 0 .. 7
          /\ lo(b) + 31 = 8 * ((lo(b) + 31) \div 8) + ((lo(b) + 31) % 8)
      <3> DEFINE q == lo(b) + 31
      <3>1. q \in Nat
        BY <2>2
      <3> HIDE DEF q
      <3>2. q \div 8 \in Nat /\ q % 8 \in 0 .. 7 /\ q = 8 * (q \div 8) + (q % 8)
        BY <3>1
      <3> QED
        BY <3>2 DEF q
    <2> HIDE DEF first
    <2> QED
      BY <1>1, <2>1, <2>3
  <1>3. STRIDE = 256
    BY Constants DEF STRIDE
  <1> HIDE DEF first
  <1>4. full(payload_len(b)) /\ payload_len(b) \in Nat
    BY <1>1, <1>2, <1>3, Constants
  <1>5. \E k \in 0 .. payload_len(b) : least(k)
    <2> DEFINE T == {k \in Nat : full(k)}
    <2>1. T \subseteq Nat /\ T # {}
      BY <1>4, Constants
    <2> HIDE DEF T
    <2>2. PICK k \in T : \A j \in T : k <= j
      BY <2>1, LeastNat
    <2>3. k \in Nat /\ full(k) /\ k <= payload_len(b)
      BY <1>4, <2>2, Constants DEF T
    <2>4. ASSUME NEW j \in 0 .. k - 1
          PROVE  first + j * STRIDE + ALLOC_T - payload(b) <= payload_len(b)
      <3>1. j \in Nat /\ j < k /\ ~full(j)
        BY <2>2, <2>3 DEF T
      <3> QED
        BY <3>1, <1>1, <1>2, <1>3, Constants
    <2> QED
      BY <1>4, <2>3, <2>4
  <1>6. n \in 0 .. payload_len(b) /\ least(n)
    BY <1>5
  <1>7. Carved(b) = [k \in 1 .. n |-> first + (n - k) * STRIDE]
    BY DEF Carved, first
  <1>8. n # 0
    BY <1>1, <1>2, <1>3, <1>6, Constants
  <1> HIDE DEF n
  <1>9. n \in Nat /\ n >= 1
    BY <1>4, <1>6, <1>8
  <1>10. ASSUME NEW i \in 1 .. n
         PROVE  Carved(b)[i] = first + (n - i) * 256 /\ Carved(b)[i] \in Nat /\ Holds(b, Carved(b)[i])
    <2>1. n - i \in 0 .. n - 1 /\ (n - i) * 256 \in Nat
      BY <1>9
    <2>2. first + (n - i) * STRIDE + ALLOC_T - payload(b) <= payload_len(b)
      BY <1>6, <2>1
    <2>3. Carved(b)[i] = first + (n - i) * 256
      BY <1>3, <1>7
    <2> QED
      BY <1>1, <1>2, <1>3, <2>1, <2>2, <2>3, Constants DEF Holds
  <1>11. ASSUME NEW i \in 1 .. n, NEW j \in 1 .. n, i # j
         PROVE  Carved(b)[i] # Carved(b)[j] /\ Apart(Carved(b)[i], ALLOC_T, Carved(b)[j], ALLOC_T)
    BY <1>2, <1>9, <1>10, <1>11, Constants DEF Apart
  <1>12. DOMAIN Carved(b) = 1 .. n /\ Carved(b) \in Seq(Nat)
    <2>1. Carved(b) \in [1 .. n -> Nat]
      BY <1>7, <1>10
    <2> QED
      BY <1>7, <1>9, <2>1
  <1>13. Carved(b) # <<>>
    BY <1>9, <1>12
  <1> QED
    BY <1>10, <1>11, <1>12, <1>13

(* Elements of a sequence and of its tail.                                 *)
LEMMA HeadAndTail ==
    ASSUME NEW S, NEW s \in Seq(S), s # <<>>
    PROVE  /\ Head(s) = s[1] /\ 1 \in DOMAIN s /\ Tail(s) \in Seq(S)
           /\ \A i \in DOMAIN Tail(s) : i + 1 \in DOMAIN s /\ Tail(s)[i] = s[i + 1] /\ i \in Nat
           /\ Range(s) = {Head(s)} \cup Range(Tail(s))
  <1>1. /\ Head(s) = s[1] /\ Len(s) \in Nat /\ Len(s) >= 1 /\ DOMAIN s = 1 .. Len(s)
        /\ Tail(s) \in Seq(S) /\ Len(Tail(s)) = Len(s) - 1 /\ DOMAIN Tail(s) = 1 .. Len(s) - 1
        /\ \A i \in 1 .. Len(s) - 1 : Tail(s)[i] = s[i + 1]
    OBVIOUS
  <1>2. \A i \in DOMAIN Tail(s) : i + 1 \in DOMAIN s /\ Tail(s)[i] = s[i + 1] /\ i \in Nat
    BY <1>1
  <1>3. \A i \in DOMAIN s : i = 1 \/ (i - 1 \in DOMAIN Tail(s) /\ Tail(s)[i - 1] = s[i])
    BY <1>1
  <1>4. \A i \in DOMAIN s : s[i] \in {Head(s)} \cup Range(Tail(s))
    BY <1>1, <1>3, Zenon DEF Range
  <1>5. \A x \in Range(Tail(s)) : x \in Range(s)
    BY <1>2, Zenon DEF Range
  <1>6. Head(s) \in Range(s) /\ 1 \in DOMAIN s
    BY <1>1 DEF Range
  <1>7. Range(s) = {Head(s)} \cup Range(Tail(s))
    <2>1. Range(s) \subseteq {Head(s)} \cup Range(Tail(s))
      BY <1>4, Zenon DEF Range
    <2> QED
      BY <1>5, <1>6, <2>1
  <1> QED
    BY <1>1, <1>2, <1>6, <1>7
-----------------------------------------------------------------------------
(* What a state says of one area.                                          *)
LEMMA AreaFacts ==
    ASSUME NEW us, NEW gd, NEW pn, NEW all, NEW a, AreaOK(us, gd, pn, all, a)
    PROVE  /\ a.block \in Nat /\ a.block_len \in Nat /\ a.use_len \in Nat /\ a.heap \in Block /\ a.heap \in us
           /\ lo(a.heap) \in Nat /\ hi(a.heap) \in Nat
           /\ a.block = lo(a.heap) + 56 /\ a.block + a.block_len = hi(a.heap) - 8
           /\ area_block_end(a) = hi(a.heap) - PTR
           /\ a.use_len <= a.block_len
  <1>1. a.block \in Nat /\ a.block_len \in Nat /\ a.use_len \in Nat /\ a.heap \in Block /\ a.heap \in us
    BY DEF AreaOK, Area
  <1>2. lo(a.heap) \in Nat /\ hi(a.heap) \in Nat
    BY <1>1, BlockBytes
  <1>3. a.block = lo(a.heap) + BLOCK_T + AREA_T /\ a.block + a.block_len + PTR = hi(a.heap) /\ a.use_len <= a.block_len
    BY DEF AreaOK
  <1>4. area_block_end(a) = a.block + a.block_len
    BY DEF area_block_end
  <1> QED
    BY <1>1, <1>2, <1>3, <1>4, Constants

(* A guard word belongs to one block only.                                 *)
LEMMA OneGuard ==
    ASSUME NEW us, BlocksOK(us), NEW b \in us, NEW c \in us, b # c
    PROVE  hi(b) - PTR # hi(c) - PTR
  BY EndsDiffer DEF BlocksOK

(* mm_allocator_new hands out the head of a pool that is in order.         *)
LEMMA HandOutOK ==
    ASSUME NEW us, NEW fs, NEW ls, NEW gd, NEW os, NEW pn, NEW ls2,
           StateOK(us, fs, ls, gd, os, pn), fs # <<>>,
           ls2 = [a \in DOMAIN ls \cup {Head(fs)} |-> IF a = Head(fs) THEN <<>> ELSE ls[a]]
    PROVE  StateOK(us, Tail(fs), ls2, gd, os, pn)
  <1> USE DEF StateOK
  <1>1. fs \in Seq(Nat) /\ Range(fs) \cap DOMAIN ls = {}
    BY DEF StructsOK
  <1> DEFINE h == Head(fs)
  <1>2. /\ h = fs[1] /\ 1 \in DOMAIN fs /\ Tail(fs) \in Seq(Nat)
        /\ \A i \in DOMAIN Tail(fs) : i + 1 \in DOMAIN fs /\ Tail(fs)[i] = fs[i + 1] /\ i \in Nat
        /\ Range(fs) = {h} \cup Range(Tail(fs))
    BY <1>1, HeadAndTail
  <1>3. DOMAIN ls2 = DOMAIN ls \cup {h} /\ ls2[h] = <<>> /\ (\A a \in DOMAIN ls : a # h => ls2[a] = ls[a])
    OBVIOUS
  <1> HIDE DEF h
  <1>4. h \in Nat /\ h \in Range(fs) /\ h \notin DOMAIN ls
    <2>1. h \in Range(fs)
      BY <1>2, Zenon
    <2> QED
      BY <1>1, <1>2, <2>1
  <1>5. h \notin Range(Tail(fs))
    <2>1. \A i, j \in DOMAIN fs : fs[i] = fs[j] => i = j
      BY DEF StructsOK
    <2>2. ASSUME NEW i \in DOMAIN Tail(fs) PROVE Tail(fs)[i] # h
      BY <1>2, <2>1
    <2> QED
      BY <2>2, Zenon DEF Range
  <1>6. DOMAIN ls2[h] = {}
    BY <1>3
  <1>7. AreasOK(us, ls2, gd, pn)
    <2>1. DOMAIN ls2 \subseteq Nat /\ IsFiniteSet(DOMAIN ls2)
      BY <1>3, <1>4, FS_AddElement DEF AreasOK
    <2>2. ls2[h] \in Seq(Area)
      BY <1>3, EmptySeq
    <2> QED
      BY <1>3, <1>4, <1>6, <2>1, <2>2 DEF AreasOK
  <1>8. GuardsOK(ls2, gd)
    BY <1>3, <1>4 DEF GuardsOK
  <1>9. ObjectsOK(ls2, os)
    BY <1>3, <1>4 DEF ObjectsOK
  <1>10. \A b : IsArea(ls2, b) <=> IsArea(ls, b)
    BY <1>3, <1>4, <1>6, Zenon DEF IsArea
  <1>11. Alls(Tail(fs), ls2) = Alls(fs, ls)
    BY <1>2, <1>3 DEF Alls
  <1>12. StructsOK(us, Tail(fs), ls2)
    <2>1. \A i, j \in DOMAIN Tail(fs) : Tail(fs)[i] = Tail(fs)[j] => i = j
      <3>1. \A i, j \in DOMAIN fs : fs[i] = fs[j] => i = j
        BY DEF StructsOK
      <3>2. SUFFICES ASSUME NEW i \in DOMAIN Tail(fs), NEW j \in DOMAIN Tail(fs), Tail(fs)[i] = Tail(fs)[j] PROVE i = j
        OBVIOUS
      <3>3. i + 1 = j + 1 /\ i \in Nat /\ j \in Nat
        BY <1>2, <3>1, <3>2
      <3> QED
        BY <3>3
    <2>2. Range(Tail(fs)) \cap DOMAIN ls2 = {}
      BY <1>1, <1>2, <1>3, <1>5
    <2>3. /\ \A x, y \in Alls(fs, ls) : x # y => Apart(x, ALLOC_T, y, ALLOC_T)
          /\ \A x \in Alls(fs, ls) : \E b \in us : ~IsArea(ls, b) /\ Holds(b, x)
          /\ \A b \in us : IsArea(ls, b) \/ \E x \in Alls(fs, ls) : Holds(b, x)
      BY DEF StructsOK
    <2> QED
      BY <1>2, <1>10, <1>11, <2>1, <2>2, <2>3 DEF StructsOK
  <1> QED
    BY <1>7, <1>8, <1>9, <1>12

(* One list of areas is replaced.                                          *)
LEMMA ListsAfter ==
    ASSUME NEW ls, NEW all \in DOMAIN ls, NEW areas, NEW ls2, ls2 = [ls EXCEPT ![all] = areas]
    PROVE  DOMAIN ls2 = DOMAIN ls /\ ls2[all] = areas /\ \A a \in DOMAIN ls : a # all => ls2[a] = ls[a]
  OBVIOUS

(* The head of a list is replaced, or a new head is put in front.          *)
LEMMA NewHead ==
    ASSUME NEW S, NEW s \in Seq(S), NEW e \in S
    PROVE  /\ <<e>> \o s \in Seq(S) /\ <<e>> \o s # <<>> /\ Head(<<e>> \o s) = e /\ Tail(<<e>> \o s) = s
           /\ DOMAIN (<<e>> \o s) = 1 .. Len(s) + 1 /\ DOMAIN s = 1 .. Len(s) /\ Len(s) \in Nat
           /\ (<<e>> \o s)[1] = e /\ \A i \in DOMAIN s : (<<e>> \o s)[i + 1] = s[i]
  <1>1. <<e>> \o s \in Seq(S) /\ Len(<<e>> \o s) = Len(s) + 1 /\ Len(s) \in Nat
    OBVIOUS
  <1>2. (<<e>> \o s)[1] = e /\ \A i \in 1 .. Len(s) : (<<e>> \o s)[i + 1] = s[i]
    OBVIOUS
  <1>3. Tail(<<e>> \o s) = s
    OBVIOUS
  <1> QED
    BY <1>1, <1>2, <1>3

LEMMA OtherHead ==
    ASSUME NEW S, NEW s \in Seq(S), NEW e \in S, s # <<>>
    PROVE  /\ <<e>> \o Tail(s) \in Seq(S) /\ DOMAIN (<<e>> \o Tail(s)) = DOMAIN s
           /\ 1 \in DOMAIN s /\ Head(s) = s[1] /\ (<<e>> \o Tail(s))[1] = e
           /\ \A i \in DOMAIN s : i # 1 => (<<e>> \o Tail(s))[i] = s[i]
  <1>1. Tail(s) \in Seq(S) /\ Len(Tail(s)) = Len(s) - 1 /\ Len(s) \in Nat /\ Len(s) >= 1 /\ DOMAIN s = 1 .. Len(s) /\ Head(s) = s[1]
    OBVIOUS
  <1>2. \A i \in 1 .. Len(s) - 1 : Tail(s)[i] = s[i + 1]
    OBVIOUS
  <1> DEFINE t == Tail(s)
  <1> HIDE DEF t
  <1>3. t \in Seq(S)
    BY <1>1 DEF t
  <1>4. /\ <<e>> \o t \in Seq(S) /\ DOMAIN (<<e>> \o t) = 1 .. Len(t) + 1 /\ DOMAIN t = 1 .. Len(t)
        /\ (<<e>> \o t)[1] = e /\ \A i \in DOMAIN t : (<<e>> \o t)[i + 1] = t[i]
    BY <1>3, NewHead
  <1>5. DOMAIN (<<e>> \o t) = DOMAIN s
    BY <1>1, <1>4 DEF t
  <1>6. ASSUME NEW i \in DOMAIN s, i # 1 PROVE (<<e>> \o t)[i] = s[i]
    <2>1. i - 1 \in 1 .. Len(s) - 1 /\ i - 1 + 1 = i
      BY <1>1, <1>6
    <2>2. PICK j \in 1 .. Len(s) - 1 : j + 1 = i
      BY <2>1
    <2>3. j \in DOMAIN t /\ t[j] = s[j + 1]
      BY <1>1, <1>2, <1>4 DEF t
    <2> QED
      BY <1>4, <2>2, <2>3
  <1> QED
    BY <1>1, <1>4, <1>5, <1>6 DEF t

(* The bounds of an area in a block from x to y.                           *)
LEMMA NewAreaBounds ==
    ASSUME NEW x \in Nat, NEW y \in Nat, y - x > 64
    PROVE  /\ x + 56 = x + 24 + 32 /\ (x + 56) + (y - 8 - (x + 56)) + 8 = y
           /\ 0 < y - 8 - (x + 56) /\ 0 <= y - 8 - (x + 56)
  OBVIOUS

(* _allocator_new_area puts a new area in front of a list.                 *)
AreaAdded(ls, gd, all, b, ls2, gd2) ==
    /\ ls2 = [ls EXCEPT ![all] = <<new_area(b)>> \o ls[all]]
    /\ gd2 = [g \in DOMAIN gd \cup {guard_at(b)} |-> IF g = guard_at(b) THEN all ELSE gd[g]]

LEMMA NewAreaOK ==
    ASSUME NEW us, NEW fs, NEW ls, NEW gd, NEW os, StateOK(us, fs, ls, gd, os, "none"),
           NEW all \in DOMAIN ls, NEW b \in Block, b \notin us, hi(b) - lo(b) > 64,
           \A c \in us : Separate(b, c) /\ Separate(c, b),
           NEW ls2, NEW gd2, AreaAdded(ls, gd, all, b, ls2, gd2)
    PROVE  StateOK(us \cup {b}, fs, ls2, gd2, os, "none")
  <1> USE DEF StateOK
  <1> DEFINE n == new_area(b)
             areas == <<n>> \o ls[all]
  <1>1. ls[all] \in Seq(Area) /\ ls[all] = ls[all]
    BY DEF AreasOK
  <1>2. /\ lo(b) \in Nat /\ hi(b) \in Nat /\ guard_at(b) = hi(b) - 8 /\ payload(b) = lo(b) + 24
        /\ guard_at(b) \in Nat /\ guard_at(b) = hi(b) - PTR
    BY BlockBytes, Constants
  <1>3. /\ n.block = lo(b) + 56 /\ n.block_len = hi(b) - 8 - (lo(b) + 56) /\ n.use_len = 0 /\ n.heap = b
        /\ n \in Area
    BY <1>2, Constants DEF new_area, Area
  <1> HIDE DEF n
  <1>4. /\ areas \in Seq(Area) /\ DOMAIN areas = 1 .. Len(ls[all]) + 1 /\ DOMAIN ls[all] = 1 .. Len(ls[all])
        /\ Len(ls[all]) \in Nat /\ areas[1] = n /\ \A i \in DOMAIN ls[all] : areas[i + 1] = ls[all][i]
    BY <1>1, <1>3, NewHead
  <1>5. DOMAIN ls2 = DOMAIN ls /\ ls2[all] = areas /\ \A a \in DOMAIN ls : a # all => ls2[a] = ls[a]
    <2>1. ls2 = [ls EXCEPT ![all] = areas]
      BY DEF AreaAdded, n
    <2> QED
      BY <2>1, ListsAfter
  <1> HIDE DEF areas
  <1>6. BlocksOK(us \cup {b})
    BY DEF BlocksOK
  \* The areas of the new lists are the old ones and n.
  <1>7. ASSUME NEW l \in DOMAIN ls, NEW i \in DOMAIN ls2[l]
        PROVE  (l = all /\ i = 1 /\ ls2[l][i] = n) \/ (\E j \in DOMAIN ls[l] : ls2[l][i] = ls[l][j] /\ (i = IF l = all THEN j + 1 ELSE j))
    <2>1. CASE l # all
      BY <1>5, <2>1
    <2>2. CASE l = all /\ i = 1
      BY <1>4, <1>5, <2>2
    <2>3. CASE l = all /\ i # 1
      <3>1. i - 1 \in DOMAIN ls[all] /\ i = (i - 1) + 1
        BY <1>4, <1>5, <2>3
      <3> QED
        BY <1>4, <1>5, <2>3, <3>1
    <2> QED
      BY <2>1, <2>2, <2>3
  <1>8. ASSUME NEW l \in DOMAIN ls, NEW j \in DOMAIN ls[l]
        PROVE  /\ AreaOK(us, gd, "none", l, ls[l][j]) /\ ls[l][j].heap # b
               /\ \E i \in DOMAIN ls2[l] : ls2[l][i] = ls[l][j]
    <2>1. AreaOK(us, gd, "none", l, ls[l][j])
      BY DEF AreasOK
    <2>2. ls[l][j].heap \in us
      BY <2>1 DEF AreaOK
    <2>3. CASE l # all
      BY <1>5, <2>1, <2>2, <2>3
    <2>4. CASE l = all
      <3>1. j + 1 \in DOMAIN areas /\ areas[j + 1] = ls[all][j]
        BY <1>4, <2>4
      <3> QED
        BY <1>5, <2>1, <2>2, <2>4, <3>1
    <2> QED
      BY <2>3, <2>4
  <1>9. ASSUME NEW l \in DOMAIN ls, NEW j \in DOMAIN ls[l]
        PROVE  AreaOK(us \cup {b}, gd2, "none", l, ls[l][j])
    <2> DEFINE a == ls[l][j]
    <2>1. AreaOK(us, gd, "none", l, a)
      BY <1>8
    <2> HIDE DEF a
    <2>2. a.heap \in us /\ a.heap \in Block /\ hi(a.heap) - PTR \in DOMAIN gd /\ gd[hi(a.heap) - PTR] = l
      BY <2>1, AreaFacts DEF AreaOK
    <2>3. hi(a.heap) - PTR # hi(b) - PTR
      BY <2>2, EndsDiffer
    <2>4. hi(a.heap) - PTR \in DOMAIN gd2 /\ gd2[hi(a.heap) - PTR] = l
      BY <1>2, <2>2, <2>3 DEF AreaAdded
    <2>5. AreaOK(us \cup {b}, gd2, "none", l, a)
      BY <2>1, <2>2, <2>4 DEF AreaOK
    <2> QED
      BY <2>5 DEF a
  <1>10. AreaOK(us \cup {b}, gd2, "none", all, n)
    <2>1. hi(b) - PTR \in DOMAIN gd2 /\ gd2[hi(b) - PTR] = all
      BY <1>2 DEF AreaAdded
    <2>2. n.block = lo(b) + BLOCK_T + AREA_T /\ n.block + n.block_len + PTR = hi(b) /\ n.use_len < n.block_len /\ n.use_len <= n.block_len
      <3>1. BLOCK_T = 24 /\ AREA_T = 32 /\ PTR = 8
        BY Constants
      <3> QED
        BY <1>2, <1>3, <3>1, NewAreaBounds
    <2>3. n \in Area /\ n.heap = b /\ b \in us \cup {b}
      BY <1>3
    <2> QED
      BY <2>1, <2>2, <2>3, Zenon DEF AreaOK
  <1>11. AreasOK(us \cup {b}, ls2, gd2, "none")
    <2>1. DOMAIN ls2 \subseteq Nat /\ IsFiniteSet(DOMAIN ls2)
      BY <1>5 DEF AreasOK
    <2>2. ASSUME NEW l \in DOMAIN ls2
          PROVE  ls2[l] \in Seq(Area) /\ \A i \in DOMAIN ls2[l] : AreaOK(us \cup {b}, gd2, "none", l, ls2[l][i])
      <3>1. ls2[l] \in Seq(Area)
        BY <1>4, <1>5 DEF AreasOK
      <3>2. ASSUME NEW i \in DOMAIN ls2[l] PROVE AreaOK(us \cup {b}, gd2, "none", l, ls2[l][i])
        <4>1. l \in DOMAIN ls
          BY <1>5
        <4>2. CASE l = all /\ i = 1 /\ ls2[l][i] = n
          BY <1>10, <4>2, Zenon
        <4>3. CASE \E j \in DOMAIN ls[l] : ls2[l][i] = ls[l][j]
          BY <1>9, <4>1, <4>3, Zenon
        <4> QED
          BY <1>7, <4>1, <4>2, <4>3, Zenon
      <3> QED
        BY <3>1, <3>2
    <2>3. ASSUME NEW l \in DOMAIN ls2, NEW m \in DOMAIN ls2, NEW i \in DOMAIN ls2[l], NEW j \in DOMAIN ls2[m],
                 ls2[l][i].heap = ls2[m][j].heap
          PROVE  l = m /\ i = j
      <3>1. l \in DOMAIN ls /\ m \in DOMAIN ls
        BY <1>5
      <3>2. CASE l = all /\ i = 1 /\ ls2[l][i] = n
        <4>1. ~(\E k \in DOMAIN ls[m] : ls2[m][j] = ls[m][k])
          BY <1>3, <1>8, <2>3, <3>1, <3>2
        <4> QED
          BY <1>7, <3>1, <3>2, <4>1
      <3>3. CASE m = all /\ j = 1 /\ ls2[m][j] = n
        <4>1. ~(\E k \in DOMAIN ls[l] : ls2[l][i] = ls[l][k])
          BY <1>3, <1>8, <2>3, <3>1, <3>3
        <4> QED
          BY <1>7, <3>1, <3>3, <4>1
      <3>4. CASE /\ \E k \in DOMAIN ls[l] : ls2[l][i] = ls[l][k] /\ (i = IF l = all THEN k + 1 ELSE k)
                 /\ \E k \in DOMAIN ls[m] : ls2[m][j] = ls[m][k] /\ (j = IF m = all THEN k + 1 ELSE k)
        <4>1. PICK k \in DOMAIN ls[l] : ls2[l][i] = ls[l][k] /\ (i = IF l = all THEN k + 1 ELSE k)
          BY <3>4
        <4>2. PICK q \in DOMAIN ls[m] : ls2[m][j] = ls[m][q] /\ (j = IF m = all THEN q + 1 ELSE q)
          BY <3>4
        <4>3. ls[l][k].heap = ls[m][q].heap
          BY <2>3, <4>1, <4>2
        <4>4. l = m /\ k = q
          BY <3>1, <4>3 DEF AreasOK
        <4> QED
          BY <4>1, <4>2, <4>4
      <3> QED
        BY <1>7, <3>1, <3>2, <3>3, <3>4
    <2> QED
      BY <2>1, <2>2, <2>3 DEF AreasOK
  <1>12. GuardsOK(ls2, gd2)
    <2>1. DOMAIN gd2 = DOMAIN gd \cup {hi(b) - PTR} /\ DOMAIN gd2 \subseteq Nat
      BY <1>2 DEF AreaAdded, GuardsOK
    <2>2. ASSUME NEW g \in DOMAIN gd PROVE \E l \in DOMAIN ls2 : \E i \in DOMAIN ls2[l] : g = hi(ls2[l][i].heap) - PTR
      <3>1. PICK l \in DOMAIN ls : \E j \in DOMAIN ls[l] : g = hi(ls[l][j].heap) - PTR
        BY DEF GuardsOK
      <3>2. PICK j \in DOMAIN ls[l] : g = hi(ls[l][j].heap) - PTR
        BY <3>1
      <3>3. PICK i \in DOMAIN ls2[l] : ls2[l][i] = ls[l][j]
        BY <1>8
      <3> QED
        BY <1>5, <3>2, <3>3
    <2>3. \E l \in DOMAIN ls2 : \E i \in DOMAIN ls2[l] : hi(b) - PTR = hi(ls2[l][i].heap) - PTR
      <3>1. 1 \in DOMAIN ls2[all] /\ ls2[all][1].heap = b
        BY <1>3, <1>4, <1>5
      <3> QED
        BY <1>5, <3>1
    <2>4. ASSUME NEW g \in DOMAIN gd2 PROVE \E l \in DOMAIN ls2 : \E i \in DOMAIN ls2[l] : g = hi(ls2[l][i].heap) - PTR
      <3>1. g \in DOMAIN gd \/ g = hi(b) - PTR
        BY <2>1
      <3>2. CASE g \in DOMAIN gd
        BY <2>2, <3>2
      <3>3. CASE g = hi(b) - PTR
        BY <2>3, <3>3
      <3> QED
        BY <3>1, <3>2, <3>3
    <2> QED
      BY <2>1, <2>4, Zenon DEF GuardsOK
  <1>13. ObjectsOK(ls2, os)
    <2>1. ASSUME NEW o \in os
          PROVE  o.start % o.align = 0 /\ o.all \in DOMAIN ls2 /\ \E i \in DOMAIN ls2[o.all] : InArea(o, ls2[o.all][i])
      <3>1. o.start % o.align = 0 /\ o.all \in DOMAIN ls /\ \E j \in DOMAIN ls[o.all] : InArea(o, ls[o.all][j])
        BY DEF ObjectsOK
      <3>2. PICK j \in DOMAIN ls[o.all] : InArea(o, ls[o.all][j])
        BY <3>1
      <3>3. PICK i \in DOMAIN ls2[o.all] : ls2[o.all][i] = ls[o.all][j]
        BY <1>8, <3>1
      <3> QED
        BY <1>5, <3>1, <3>2, <3>3
    <2> QED
      BY <2>1 DEF ObjectsOK
  <1>14. IsArea(ls2, b) /\ \A c \in us : IsArea(ls2, c) <=> IsArea(ls, c)
    <2>1. IsArea(ls2, b)
      <3>1. 1 \in DOMAIN ls2[all] /\ ls2[all][1].heap = b
        BY <1>3, <1>4, <1>5
      <3> QED
        BY <1>5, <3>1 DEF IsArea
    <2>2. ASSUME NEW c \in us, IsArea(ls2, c) PROVE IsArea(ls, c)
      <3>1. PICK l \in DOMAIN ls2 : \E i \in DOMAIN ls2[l] : ls2[l][i].heap = c
        BY <2>2 DEF IsArea
      <3>2. PICK i \in DOMAIN ls2[l] : ls2[l][i].heap = c
        BY <3>1
      <3>3. c # b /\ l \in DOMAIN ls
        BY <1>5
      <3>4. PICK j \in DOMAIN ls[l] : ls2[l][i] = ls[l][j]
        BY <1>3, <1>7, <3>2, <3>3
      <3> QED
        BY <3>2, <3>3, <3>4 DEF IsArea
    <2>3. ASSUME NEW c \in us, IsArea(ls, c) PROVE IsArea(ls2, c)
      <3>1. PICK l \in DOMAIN ls : \E j \in DOMAIN ls[l] : ls[l][j].heap = c
        BY <2>3 DEF IsArea
      <3>2. PICK j \in DOMAIN ls[l] : ls[l][j].heap = c
        BY <3>1
      <3>3. PICK i \in DOMAIN ls2[l] : ls2[l][i] = ls[l][j]
        BY <1>8
      <3> QED
        BY <1>5, <3>2, <3>3 DEF IsArea
    <2> QED
      BY <2>1, <2>2, <2>3
  <1>15. StructsOK(us \cup {b}, fs, ls2)
    <2>1. Alls(fs, ls2) = Alls(fs, ls)
      BY <1>5 DEF Alls
    <2>2. \A x \in Alls(fs, ls2) : \E c \in us \cup {b} : ~IsArea(ls2, c) /\ Holds(c, x)
      <3>1. \A x \in Alls(fs, ls) : \E c \in us : ~IsArea(ls, c) /\ Holds(c, x)
        BY DEF StructsOK
      <3> QED
        BY <1>14, <2>1, <3>1
    <2>3. \A c \in us \cup {b} : IsArea(ls2, c) \/ \E x \in Alls(fs, ls2) : Holds(c, x)
      <3>1. \A c \in us : IsArea(ls, c) \/ \E x \in Alls(fs, ls) : Holds(c, x)
        BY DEF StructsOK
      <3> QED
        BY <1>14, <2>1, <3>1
    <2> QED
      BY <1>5, <2>1, <2>2, <2>3 DEF StructsOK
  <1> QED
    BY <1>6, <1>11, <1>12, <1>13, <1>15

(* slop makes an address a multiple of the alignment and costs less than   *)
(* the alignment.                                                          *)
LEMMA SlopAligns ==
    ASSUME NEW p \in Nat, NEW align \in Nat, align > 0
    PROVE  /\ slop(p, align) \in Nat /\ slop(p, align) < align
           /\ (p + slop(p, align)) % align = 0
  <1> DEFINE q == p \div align
             r == p % align
  <1>1. q \in Nat /\ r \in 0 .. align - 1 /\ p = align * q + r
    BY DivMod
  <1>2. slop(p, align) = IF r > 0 THEN align - r ELSE 0
    BY DEF slop
  <1> HIDE DEF q, r
  <1>3. CASE r = 0
    <2>1. p + slop(p, align) = q * align + 0
      BY <1>1, <1>2, <1>3
    <2>2. (q * align + 0) % align = 0
      BY <1>1, DivUnique
    <2>3. slop(p, align) = 0
      BY <1>2, <1>3
    <2> QED
      BY <2>1, <2>2, <2>3
  <1>4. CASE r > 0
    <2>1. slop(p, align) = align - r
      BY <1>2, <1>4
    <2>2. align * q = q * align /\ (q + 1) * align = q * align + align /\ q * align \in Nat
      BY <1>1
    <2>3. p + slop(p, align) = (q + 1) * align + 0
      <3> DEFINE z == q * align
      <3>1. z \in Nat /\ p = z + r /\ (q + 1) * align = z + align
        BY <1>1, <2>2
      <3> HIDE DEF z
      <3> QED
        BY <1>1, <2>1, <3>1
    <2>4. q + 1 \in Nat /\ 0 \in 0 .. align - 1
      BY <1>1
    <2>5. ((q + 1) * align + 0) % align = 0
      BY <2>4, DivUnique
    <2> QED
      BY <1>1, <1>4, <2>1, <2>3, <2>5
  <1> QED
    BY <1>1, <1>3, <1>4

(* What lies in two areas on separate blocks is apart.                     *)
LEMMA AreasApart ==
    ASSUME NEW l1 \in Nat, NEW h1 \in Nat, NEW l2 \in Nat, NEW h2 \in Nat, h1 <= l2 \/ h2 <= l1,
           NEW s1 \in Nat, NEW n1 \in Nat, NEW s2 \in Nat, NEW n2 \in Nat,
           l1 <= s1, s1 + n1 <= h1, l2 <= s2, s2 + n2 <= h2
    PROVE  Apart(s1, n1, s2, n2) /\ Apart(s2, n2, s1, n1)
  BY DEF Apart

(* mm_allocate bumps the newest area a by size and slop s, with room for   *)
(* both: the area becomes a2, the lists ls2, and object o is handed out.   *)
Bumped(ls, all, size, align, a, s, a2, ls2, o, pn) ==
    /\ ls[all] # <<>> /\ a = Head(ls[all])
    /\ s = slop(area_free_start(a), align)
    /\ area_free_len(a) >= size + s
    /\ a2 = [a EXCEPT !.use_len = @ + (size + s)]
    /\ ls2 = [ls EXCEPT ![all] = <<a2>> \o Tail(ls[all])]
    /\ o = [all |-> all, start |-> area_free_start(a) + s, size |-> size, align |-> align]
    /\ pn = IF a.use_len + (size + s) < a.block_len THEN "none" ELSE "area is full"

LEMMA BumpOK ==
    ASSUME NEW us, NEW fs, NEW ls, NEW gd, NEW os, StateOK(us, fs, ls, gd, os, "none"),
           NEW all \in DOMAIN ls, NEW size \in Sizes, NEW align \in Aligns,
           NEW a, NEW s, NEW a2, NEW ls2, NEW o, NEW pn,
           Bumped(ls, all, size, align, a, s, a2, ls2, o, pn)
    PROVE  StateOK(us, fs, ls2, gd, os \cup {o}, pn)
  <1> USE DEF StateOK
  <1>1. ls[all] \in Seq(Area) /\ all \in Nat /\ DOMAIN ls \subseteq Nat
    BY DEF AreasOK
  <1>2. 1 \in DOMAIN ls[all] /\ a = ls[all][1]
    <2>1. ls[all] # <<>> /\ a = Head(ls[all])
      BY DEF Bumped
    <2> QED
      BY <1>1, <2>1, HeadAndTail
  <1>3. AreaOK(us, gd, "none", all, a)
    BY <1>2 DEF AreasOK
  <1>4. /\ a.block \in Nat /\ a.block_len \in Nat /\ a.use_len \in Nat /\ a.heap \in Block /\ a.heap \in us
        /\ lo(a.heap) \in Nat /\ hi(a.heap) \in Nat
        /\ a.block = lo(a.heap) + 56 /\ a.block + a.block_len = hi(a.heap) - 8 /\ a \in Area
    BY <1>3, AreaFacts DEF AreaOK
  <1>5. size \in Nat /\ align \in Nat /\ align > 0
    BY Constants
  <1>6. /\ area_free_start(a) = a.block + a.use_len /\ area_free_start(a) \in Nat
        /\ area_free_len(a) = a.block_len - a.use_len
    BY <1>4 DEF area_free_start, area_free_len
  <1>7. s \in Nat /\ (area_free_start(a) + s) % align = 0
    <2>1. s = slop(area_free_start(a), align)
      BY DEF Bumped
    <2> QED
      BY <1>5, <1>6, <2>1, SlopAligns
  <1>8. /\ a2 \in Area /\ a2.heap = a.heap /\ a2.block = a.block /\ a2.block_len = a.block_len
        /\ a2.use_len = a.use_len + (size + s)
    <2>1. a2 = [a EXCEPT !.use_len = @ + (size + s)]
      BY DEF Bumped
    <2> QED
      BY <1>4, <1>5, <1>7, <2>1 DEF Area
  <1>9. a2.use_len <= a2.block_len /\ (pn = "none" => a2.use_len < a2.block_len) /\ a.use_len <= a2.use_len
    <2>1. area_free_len(a) >= size + s /\ (pn = "none" => a.use_len + (size + s) < a.block_len)
      BY DEF Bumped
    <2> QED
      BY <1>4, <1>5, <1>6, <1>7, <1>8, <2>1
  <1>10. /\ <<a2>> \o Tail(ls[all]) \in Seq(Area) /\ DOMAIN (<<a2>> \o Tail(ls[all])) = DOMAIN ls[all]
         /\ (<<a2>> \o Tail(ls[all]))[1] = a2
         /\ \A i \in DOMAIN ls[all] : i # 1 => (<<a2>> \o Tail(ls[all]))[i] = ls[all][i]
    <2>1. ls[all] # <<>>
      BY DEF Bumped
    <2> QED
      BY <1>1, <1>8, <2>1, OtherHead
  <1>11. /\ DOMAIN ls2 = DOMAIN ls /\ ls2[all] = <<a2>> \o Tail(ls[all])
         /\ \A l \in DOMAIN ls : l # all => ls2[l] = ls[l]
    <2>1. ls2 = [ls EXCEPT ![all] = <<a2>> \o Tail(ls[all])]
      BY DEF Bumped
    <2> QED
      BY <2>1, ListsAfter
  \* The lists keep their shape: only the use of the newest area grows.
  <1>12. \A l \in DOMAIN ls : ls2[l] \in Seq(Area) /\ DOMAIN ls2[l] = DOMAIN ls[l]
    BY <1>10, <1>11 DEF AreasOK
  <1>13. ASSUME NEW l \in DOMAIN ls, NEW i \in DOMAIN ls[l]
         PROVE  (l = all /\ i = 1 /\ ls2[l][i] = a2) \/ ls2[l][i] = ls[l][i]
    BY <1>10, <1>11
  <1>14. \A l \in DOMAIN ls : \A i \in DOMAIN ls[l] : ls2[l][i].heap = ls[l][i].heap
    BY <1>2, <1>8, <1>13
  <1>15. AreasOK(us, ls2, gd, pn)
    <2>1. ASSUME NEW l \in DOMAIN ls, NEW i \in DOMAIN ls[l]
          PROVE  AreaOK(us, gd, pn, l, ls2[l][i])
      <3>1. CASE l = all /\ i = 1 /\ ls2[l][i] = a2
        <4>1. AreaOK(us, gd, pn, all, a2)
          BY <1>3, <1>8, <1>9 DEF AreaOK
        <4> QED
          BY <3>1, <4>1
      <3>2. CASE ls2[l][i] = ls[l][i]
        <4>1. AreaOK(us, gd, "none", l, ls[l][i])
          BY DEF AreasOK
        <4>2. AreaOK(us, gd, pn, l, ls[l][i])
          BY <4>1, Zenon DEF AreaOK
        <4> QED
          BY <3>2, <4>2
      <3> QED
        BY <1>13, <3>1, <3>2
    <2>2. \A l, m \in DOMAIN ls2 : \A i \in DOMAIN ls2[l], j \in DOMAIN ls2[m] :
             ls2[l][i].heap = ls2[m][j].heap => l = m /\ i = j
      BY <1>11, <1>12, <1>14 DEF AreasOK
    <2>3. DOMAIN ls2 \subseteq Nat /\ IsFiniteSet(DOMAIN ls2)
      BY <1>11 DEF AreasOK
    <2>4. \A l \in DOMAIN ls2 : ls2[l] \in Seq(Area) /\ \A i \in DOMAIN ls2[l] : AreaOK(us, gd, pn, l, ls2[l][i])
      BY <1>11, <1>12, <2>1
    <2> QED
      BY <2>2, <2>3, <2>4, Zenon DEF AreasOK
  <1>16. GuardsOK(ls2, gd)
    BY <1>11, <1>12, <1>14 DEF GuardsOK
  <1>17. \A b : IsArea(ls2, b) <=> IsArea(ls, b)
    BY <1>11, <1>12, <1>14, ZenonT(40) DEF IsArea
  <1>18. StructsOK(us, fs, ls2)
    <2>1. Alls(fs, ls2) = Alls(fs, ls)
      BY <1>11 DEF Alls
    <2> QED
      BY <1>11, <1>17, <2>1 DEF StructsOK
  <1>19. /\ o \in [all : Nat, start : Nat, size : Sizes, align : Aligns]
         /\ o.all = all /\ o.start = a.block + a.use_len + s /\ o.size = size /\ o.align = align
         /\ o.start % o.align = 0
    <2>1. o = [all |-> all, start |-> area_free_start(a) + s, size |-> size, align |-> align]
      BY DEF Bumped
    <2>2. o.all = all /\ o.start = area_free_start(a) + s /\ o.size = size /\ o.align = align
      BY <2>1
    <2>3. area_free_start(a) + s \in Nat /\ area_free_start(a) + s = a.block + a.use_len + s
      BY <1>4, <1>6, <1>7
    <2>4. o \in [all : Nat, start : Nat, size : Sizes, align : Aligns]
      BY <1>1, <2>1, <2>3
    <2> QED
      BY <1>7, <2>2, <2>3, <2>4
  <1>20. InArea(o, a2)
    BY <1>4, <1>5, <1>7, <1>8, <1>19 DEF InArea
  \* Objects stay in their areas, which only grow.
  <1>21. ASSUME NEW x \in os
         PROVE  /\ x.start \in Nat /\ x.size \in Nat /\ x.all \in DOMAIN ls /\ x.start % x.align = 0
                /\ \E i \in DOMAIN ls[x.all] :
                      InArea(x, ls[x.all][i]) /\ InArea(x, ls2[x.all][i])
    <2>1. /\ x \in [all : Nat, start : Nat, size : Sizes, align : Aligns]
          /\ x.start % x.align = 0 /\ x.all \in DOMAIN ls
          /\ \E i \in DOMAIN ls[x.all] : InArea(x, ls[x.all][i])
      BY DEF ObjectsOK
    <2>2. x.start \in Nat /\ x.size \in Nat
      BY <2>1, Constants
    <2>3. PICK i \in DOMAIN ls[x.all] : InArea(x, ls[x.all][i])
      BY <2>1
    <2>4. InArea(x, ls2[x.all][i])
      <3>1. CASE ls2[x.all][i] = ls[x.all][i]
        BY <2>3, <3>1
      <3>2. CASE x.all = all /\ i = 1 /\ ls2[x.all][i] = a2
        <4>1. InArea(x, a)
          BY <1>2, <2>3, <3>2
        <4>2. InArea(x, a2)
          BY <1>4, <1>5, <1>7, <1>8, <2>2, <4>1 DEF InArea
        <4> QED
          BY <3>2, <4>2
      <3> QED
        BY <1>13, <2>1, <3>1, <3>2
    <2> QED
      BY <2>1, <2>2, <2>3, <2>4
  <1>22. ASSUME NEW x \in os
         PROVE  Apart(o.start, o.size, x.start, x.size) /\ Apart(x.start, x.size, o.start, o.size)
    <2>1. PICK i \in DOMAIN ls[x.all] : InArea(x, ls[x.all][i])
      BY <1>21
    <2>2. x.start \in Nat /\ x.size \in Nat /\ x.all \in DOMAIN ls
      BY <1>21
    <2>3. CASE x.all = all /\ i = 1
      <3>1. InArea(x, a)
        BY <1>2, <2>1, <2>3
      <3>2. x.start + x.size <= o.start
        BY <1>4, <1>7, <1>19, <2>2, <3>1 DEF InArea
      <3> QED
        BY <3>2 DEF Apart
    <2>4. CASE ~(x.all = all /\ i = 1)
      <3> DEFINE c == ls[x.all][i]
      <3>1. AreaOK(us, gd, "none", x.all, c) /\ c.heap # a.heap
        BY <1>2, <2>2, <2>4 DEF AreasOK
      <3>2. InArea(x, c)
        BY <2>1
      <3> HIDE DEF c
      <3>3. /\ c.block \in Nat /\ c.block_len \in Nat /\ c.use_len \in Nat /\ c.heap \in us
            /\ lo(c.heap) \in Nat /\ hi(c.heap) \in Nat /\ c.use_len <= c.block_len
            /\ c.block = lo(c.heap) + 56 /\ c.block + c.block_len = hi(c.heap) - 8
        BY <3>1, AreaFacts
      <3>4. Separate(a.heap, c.heap)
        BY <1>4, <3>1, <3>3 DEF BlocksOK
      <3>5. lo(c.heap) <= x.start /\ x.start + x.size <= hi(c.heap)
        BY <2>2, <3>2, <3>3 DEF InArea
      <3>6. lo(a.heap) <= o.start /\ o.start + o.size <= hi(a.heap)
        BY <1>4, <1>5, <1>7, <1>8, <1>9, <1>19
      <3>7. hi(a.heap) <= lo(c.heap) \/ hi(c.heap) <= lo(a.heap)
        BY <3>4 DEF Separate
      <3>8. o.start \in Nat /\ o.size \in Nat
        BY <1>4, <1>5, <1>7, <1>19
      <3> QED
        BY <1>4, <2>2, <3>3, <3>5, <3>6, <3>7, <3>8, AreasApart
    <2> QED
      BY <2>3, <2>4
  <1>23. ObjectsOK(ls2, os \cup {o})
    <2>1. os \cup {o} \subseteq [all : Nat, start : Nat, size : Sizes, align : Aligns]
      BY <1>19 DEF ObjectsOK
    <2>2. ASSUME NEW x \in os \cup {o}
          PROVE  /\ x.start % x.align = 0 /\ x.all \in DOMAIN ls2
                 /\ \E i \in DOMAIN ls2[x.all] : InArea(x, ls2[x.all][i])
      <3>1. CASE x \in os
        BY <1>11, <1>12, <1>21, <3>1
      <3>2. CASE x = o
        <4>1. 1 \in DOMAIN ls2[all] /\ ls2[all][1] = a2
          BY <1>2, <1>10, <1>11
        <4> QED
          BY <1>11, <1>19, <1>20, <3>2, <4>1
      <3> QED
        BY <3>1, <3>2
    <2>3. \A x, y \in os : x # y => Apart(x.start, x.size, y.start, y.size)
      BY DEF ObjectsOK
    <2>4. \A x, y \in os \cup {o} : x # y => Apart(x.start, x.size, y.start, y.size)
      BY <1>22, <2>3
    <2> QED
      BY <2>1, <2>2, <2>4 DEF ObjectsOK
  <1> QED
    BY <1>15, <1>16, <1>18, <1>23

(* mm_allocator_free takes an allocator out of the lists, its areas out of *)
(* the heap, its guard words and its objects away, and recycles it.        *)
Freed(us, fs, ls, gd, os, all, us2, fs2, ls2, gd2, os2) ==
    /\ us2 = us \ freed_areas(ls[all])
    /\ gd2 = [g \in DOMAIN gd \ {area_block_end(ls[all][i]) : i \in DOMAIN ls[all]} |-> gd[g]]
    /\ ls2 = [a \in DOMAIN ls \ {all} |-> ls[a]]
    /\ fs2 = <<all>> \o fs
    /\ os2 = {o \in os : o.all # all}

LEMMA FreeOK ==
    ASSUME NEW us, NEW fs, NEW ls, NEW gd, NEW os, NEW pn, StateOK(us, fs, ls, gd, os, pn), NEW all \in DOMAIN ls,
           NEW us2, NEW fs2, NEW ls2, NEW gd2, NEW os2, Freed(us, fs, ls, gd, os, all, us2, fs2, ls2, gd2, os2)
    PROVE  StateOK(us2, fs2, ls2, gd2, os2, pn)
  <1> USE DEF StateOK
  <1>1. DOMAIN ls2 = DOMAIN ls \ {all} /\ \A l \in DOMAIN ls2 : ls2[l] = ls[l]
    BY DEF Freed
  <1>2. us2 \subseteq us /\ \A b \in us : b \notin us2 <=> \E i \in DOMAIN ls[all] : b = ls[all][i].heap
    BY DEF Freed, freed_areas
  <1>3. ASSUME NEW i \in DOMAIN ls[all]
        PROVE  /\ AreaOK(us, gd, pn, all, ls[all][i]) /\ ls[all][i].heap \in us
               /\ area_block_end(ls[all][i]) = hi(ls[all][i].heap) - PTR
    <2>1. AreaOK(us, gd, pn, all, ls[all][i])
      BY DEF AreasOK
    <2> QED
      BY <2>1, AreaFacts
  <1>4. /\ DOMAIN gd2 = {g \in DOMAIN gd : ~\E i \in DOMAIN ls[all] : g = hi(ls[all][i].heap) - PTR}
        /\ \A g \in DOMAIN gd2 : gd2[g] = gd[g]
    <2>1. DOMAIN gd2 = DOMAIN gd \ {area_block_end(ls[all][i]) : i \in DOMAIN ls[all]} /\ \A g \in DOMAIN gd2 : gd2[g] = gd[g]
      BY DEF Freed
    <2>2. {area_block_end(ls[all][i]) : i \in DOMAIN ls[all]} = {hi(ls[all][i].heap) - PTR : i \in DOMAIN ls[all]}
      BY <1>3
    <2> QED
      BY <2>1, <2>2
  <1>5. BlocksOK(us2)
    BY <1>2 DEF BlocksOK
  <1>6. ASSUME NEW l \in DOMAIN ls2, NEW i \in DOMAIN ls2[l] PROVE AreaOK(us2, gd2, pn, l, ls2[l][i])
    <2> DEFINE a == ls[l][i]
    <2>1. l \in DOMAIN ls /\ l # all /\ i \in DOMAIN ls[l] /\ ls2[l][i] = a
      BY <1>1
    <2>2. AreaOK(us, gd, pn, l, a)
      BY <2>1 DEF AreasOK
    <2>3. \A j \in DOMAIN ls[all] : ls[all][j].heap # a.heap
      BY <2>1 DEF AreasOK
    <2> HIDE DEF a
    <2>4. a.heap \in us /\ hi(a.heap) - PTR \in DOMAIN gd /\ gd[hi(a.heap) - PTR] = l
      BY <2>2 DEF AreaOK
    <2>5. a.heap \in us2
      BY <1>2, <2>3, <2>4
    <2>6. \A j \in DOMAIN ls[all] : hi(ls[all][j].heap) - PTR # hi(a.heap) - PTR
      BY <1>3, <2>3, <2>4, OneGuard
    <2>7. hi(a.heap) - PTR \in DOMAIN gd2 /\ gd2[hi(a.heap) - PTR] = l
      BY <1>4, <2>4, <2>6
    <2>8. AreaOK(us2, gd2, pn, l, a)
      BY <2>2, <2>5, <2>7, Zenon DEF AreaOK
    <2> QED
      BY <2>1, <2>8
  <1>7. AreasOK(us2, ls2, gd2, pn)
    <2>1. DOMAIN ls2 \subseteq Nat /\ IsFiniteSet(DOMAIN ls2)
      BY <1>1, FS_Subset DEF AreasOK
    <2>2. \A l \in DOMAIN ls2 : ls2[l] \in Seq(Area)
      BY <1>1 DEF AreasOK
    <2>3. \A l, m \in DOMAIN ls2 : \A i \in DOMAIN ls2[l], j \in DOMAIN ls2[m] :
             ls2[l][i].heap = ls2[m][j].heap => l = m /\ i = j
      BY <1>1 DEF AreasOK
    <2> QED
      BY <1>6, <2>1, <2>2, <2>3, Zenon DEF AreasOK
  <1>8. GuardsOK(ls2, gd2)
    <2>1. DOMAIN gd2 \subseteq Nat
      BY <1>4 DEF GuardsOK
    <2>2. ASSUME NEW g \in DOMAIN gd2 PROVE \E l \in DOMAIN ls2 : \E i \in DOMAIN ls2[l] : g = hi(ls2[l][i].heap) - PTR
      <3>1. PICK l \in DOMAIN ls : \E i \in DOMAIN ls[l] : g = hi(ls[l][i].heap) - PTR
        BY <1>4 DEF GuardsOK
      <3>2. l # all
        BY <1>4, <3>1
      <3> QED
        BY <1>1, <3>1, <3>2
    <2> QED
      BY <2>1, <2>2 DEF GuardsOK
  <1>9. ObjectsOK(ls2, os2)
    <2>1. os2 \subseteq os /\ \A o \in os2 : o.all # all
      BY DEF Freed
    <2> QED
      BY <1>1, <2>1 DEF ObjectsOK
  <1>10. \A b \in us2 : IsArea(ls2, b) <=> IsArea(ls, b)
    <2>1. ASSUME NEW b \in us2, IsArea(ls2, b) PROVE IsArea(ls, b)
      BY <1>1, <2>1 DEF IsArea
    <2>2. ASSUME NEW b \in us2, IsArea(ls, b) PROVE IsArea(ls2, b)
      <3>1. PICK l \in DOMAIN ls : \E i \in DOMAIN ls[l] : ls[l][i].heap = b
        BY <2>2 DEF IsArea
      <3>2. l # all
        BY <1>2, <3>1
      <3> QED
        BY <1>1, <3>1, <3>2 DEF IsArea
    <2> QED
      BY <2>1, <2>2
  <1>11. \A b \in us : ~IsArea(ls, b) => b \in us2
    BY <1>2 DEF IsArea
  <1>12. /\ fs2 \in Seq(Nat) /\ DOMAIN fs2 = 1 .. Len(fs) + 1 /\ DOMAIN fs = 1 .. Len(fs) /\ Len(fs) \in Nat
         /\ fs2[1] = all /\ \A i \in DOMAIN fs : fs2[i + 1] = fs[i]
    <2>1. fs \in Seq(Nat) /\ all \in Nat /\ fs2 = <<all>> \o fs
      BY DEF StructsOK, AreasOK, Freed
    <2> QED
      BY <2>1, NewHead
  <1>13. \A i \in DOMAIN fs2 : i = 1 \/ (i - 1 \in DOMAIN fs /\ fs2[i] = fs[i - 1])
    <2>1. ASSUME NEW i \in DOMAIN fs2, i # 1 PROVE i - 1 \in DOMAIN fs /\ fs2[i] = fs[i - 1]
      <3>1. i - 1 \in DOMAIN fs /\ (i - 1) + 1 = i
        BY <1>12, <2>1
      <3> QED
        BY <1>12, <3>1
    <2> QED
      BY <2>1
  <1>14. Range(fs2) = {all} \cup Range(fs)
    <2>1. \A i \in DOMAIN fs : i + 1 \in DOMAIN fs2 /\ 1 \in DOMAIN fs2
      BY <1>12
    <2>2. Range(fs) \subseteq Range(fs2)
      BY <1>12, <2>1, Zenon DEF Range
    <2>3. all \in Range(fs2)
      <3>1. 1 \in DOMAIN fs2
        BY <1>12
      <3> QED
        BY <1>12, <3>1, Zenon DEF Range
    <2>4. Range(fs2) \subseteq {all} \cup Range(fs)
      <3>1. \A i \in DOMAIN fs : fs[i] \in Range(fs)
        BY Zenon DEF Range
      <3>2. \A i \in DOMAIN fs2 : fs2[i] \in {all} \cup Range(fs)
        BY <1>12, <1>13, <3>1
      <3> QED
        BY <3>2, Zenon DEF Range
    <2> QED
      BY <2>2, <2>3, <2>4
  <1>15. StructsOK(us2, fs2, ls2)
    <2>1. Alls(fs2, ls2) = Alls(fs, ls)
      BY <1>1, <1>14 DEF Alls
    <2>2. all \notin Range(fs) /\ Range(fs) \cap DOMAIN ls = {}
      BY DEF StructsOK
    <2>3. \A i \in DOMAIN fs : fs[i] # all
      BY <2>2, Zenon DEF Range
    <2>4. \A i, j \in DOMAIN fs2 : fs2[i] = fs2[j] => i = j
      <3>1. SUFFICES ASSUME NEW i \in DOMAIN fs2, NEW j \in DOMAIN fs2, fs2[i] = fs2[j] PROVE i = j
        OBVIOUS
      <3>2. \A x, y \in DOMAIN fs : fs[x] = fs[y] => x = y
        BY DEF StructsOK
      <3>3. CASE i = 1 \/ j = 1
        BY <1>12, <1>13, <2>3, <3>1, <3>3
      <3>4. CASE i # 1 /\ j # 1
        <4>1. i - 1 = j - 1 /\ i \in Nat /\ j \in Nat
          BY <1>12, <1>13, <3>1, <3>2, <3>4
        <4> QED
          BY <4>1
      <3> QED
        BY <3>3, <3>4
    <2>5. Range(fs2) \cap DOMAIN ls2 = {}
      BY <1>1, <1>14, <2>2
    <2>6. \A x \in Alls(fs2, ls2) : \E b \in us2 : ~IsArea(ls2, b) /\ Holds(b, x)
      <3>1. \A x \in Alls(fs, ls) : \E b \in us : ~IsArea(ls, b) /\ Holds(b, x)
        BY DEF StructsOK
      <3> QED
        BY <1>10, <1>11, <2>1, <3>1
    <2>7. \A b \in us2 : IsArea(ls2, b) \/ \E x \in Alls(fs2, ls2) : Holds(b, x)
      <3>1. \A b \in us : IsArea(ls, b) \/ \E x \in Alls(fs, ls) : Holds(b, x)
        BY DEF StructsOK
      <3> QED
        BY <1>2, <1>10, <2>1, <3>1
    <2>8. \A x, y \in Alls(fs2, ls2) : x # y => Apart(x, ALLOC_T, y, ALLOC_T)
      BY <2>1 DEF StructsOK
    <2> QED
      BY <1>12, <2>4, <2>5, <2>6, <2>7, <2>8, Zenon DEF StructsOK
  <1> QED
    BY <1>5, <1>7, <1>8, <1>9, <1>15

(* mm_allocator_new carves structures out of a block when none is left.    *)
LEMMA CarveOK ==
    ASSUME NEW us, NEW ls, NEW gd, NEW os, NEW pn, StateOK(us, <<>>, ls, gd, os, pn),
           NEW b \in Block, b \notin us, \A c \in us : Separate(b, c) /\ Separate(c, b)
    PROVE  StateOK(us \cup {b}, Carved(b), ls, gd, os, pn)
  <1> USE DEF StateOK
  <1> DEFINE cs == Carved(b)
  <1>1. /\ cs \in Seq(Nat) /\ \A i \in DOMAIN cs : Holds(b, cs[i])
        /\ \A i, j \in DOMAIN cs : i # j => cs[i] # cs[j] /\ Apart(cs[i], ALLOC_T, cs[j], ALLOC_T)
        /\ cs # <<>>
    BY CarvedOK
  <1> HIDE DEF cs
  <1>2. BlocksOK(us \cup {b})
    BY DEF BlocksOK
  <1>3. AreasOK(us \cup {b}, ls, gd, pn)
    <2>1. \A all, a : AreaOK(us, gd, pn, all, a) => AreaOK(us \cup {b}, gd, pn, all, a)
      BY DEF AreaOK
    <2> QED
      BY <2>1 DEF AreasOK
  <1>4. ~IsArea(ls, b)
    <2>1. \A l \in DOMAIN ls : \A i \in DOMAIN ls[l] : ls[l][i].heap \in us
      BY DEF AreasOK, AreaOK
    <2> QED
      BY <2>1 DEF IsArea
  <1>5. /\ \A x \in Range(cs) : x \in Nat /\ Holds(b, x)
        /\ \A x, y \in Range(cs) : x # y => Apart(x, ALLOC_T, y, ALLOC_T)
        /\ Range(cs) # {}
    <2>1. \A x \in Range(cs) : \E i \in DOMAIN cs : x = cs[i]
      BY Zenon DEF Range
    <2>2. 1 \in DOMAIN cs /\ \A i \in DOMAIN cs : cs[i] \in Nat
      BY <1>1
    <2>3. cs[1] \in Range(cs)
      BY <2>2, Zenon DEF Range
    <2> QED
      BY <1>1, <2>1, <2>2, <2>3
  <1>6. DOMAIN ls \subseteq Nat /\ \A y \in DOMAIN ls : \E c \in us : ~IsArea(ls, c) /\ Holds(c, y)
    BY DEF StructsOK, AreasOK, Alls
  <1>7. ASSUME NEW x \in Range(cs), NEW y \in DOMAIN ls
        PROVE  x # y /\ Apart(x, ALLOC_T, y, ALLOC_T) /\ Apart(y, ALLOC_T, x, ALLOC_T)
    <2>1. PICK c \in us : Holds(c, y)
      BY <1>6
    <2>2. Holds(b, x) /\ x \in Nat /\ y \in Nat
      BY <1>5, <1>6
    <2>3. c \in Block
      BY DEF BlocksOK
    <2>4. lo(b) \in Nat /\ hi(b) \in Nat /\ lo(c) \in Nat /\ hi(c) \in Nat
      BY <2>3, BlockBytes
    <2>5. hi(b) <= lo(c) \/ hi(c) <= lo(b)
      BY <2>1 DEF Separate
    <2>6. ALLOC_T = 16
      BY Constants
    <2>7. lo(b) < x /\ x + 16 <= hi(b) /\ lo(c) < y /\ y + 16 <= hi(c)
      BY <2>1, <2>2, <2>6 DEF Holds
    <2> QED
      BY <2>2, <2>4, <2>5, <2>6, <2>7 DEF Apart
  <1>8. Range(<<>>) = {}
    <2>1. DOMAIN <<>> = {}
      OBVIOUS
    <2> QED
      BY <2>1, Zenon DEF Range
  <1>9. StructsOK(us \cup {b}, cs, ls)
    <2>1. Range(cs) \cap DOMAIN ls = {}
      BY <1>7
    <2>2. \A x, y \in DOMAIN ls : x # y => Apart(x, ALLOC_T, y, ALLOC_T)
      BY DEF StructsOK, Alls
    <2>3. \A x, y \in Alls(cs, ls) : x # y => Apart(x, ALLOC_T, y, ALLOC_T)
      BY <1>5, <1>7, <2>2 DEF Alls
    <2>4. \A x \in Alls(cs, ls) : \E c \in us \cup {b} : ~IsArea(ls, c) /\ Holds(c, x)
      BY <1>4, <1>5, <1>6 DEF Alls
    <2>5. \A c \in us : IsArea(ls, c) \/ \E x \in DOMAIN ls : Holds(c, x)
      BY <1>8 DEF StructsOK, Alls
    <2>6. \A c \in us \cup {b} : IsArea(ls, c) \/ \E x \in Alls(cs, ls) : Holds(c, x)
      BY <1>5, <2>5 DEF Alls
    <2> QED
      BY <1>1, <2>1, <2>3, <2>4, <2>6 DEF StructsOK
  <1> QED
    BY <1>2, <1>3, <1>9 DEF cs

(* A failed assertion leaves everything as it is.                          *)
LEMMA PanicOK ==
    ASSUME NEW us, NEW fs, NEW ls, NEW gd, NEW os, NEW pn, StateOK(us, fs, ls, gd, os, "none")
    PROVE  StateOK(us, fs, ls, gd, os, pn)
  <1>1. \A all, a : AreaOK(us, gd, "none", all, a) => AreaOK(us, gd, pn, all, a)
    BY Zenon DEF AreaOK
  <1> QED
    BY <1>1, Zenon DEF StateOK, AreasOK
-----------------------------------------------------------------------------
LEMMA PanicKeeps ==
    ASSUME IInv, panic = "none", Panic("heap")
    PROVE  IInv'
  <1>1. StateOK(used, free_alls, list, guard, objs, "none")
    BY DEF IInv
  <1>2. StateOK(used, free_alls, list, guard, objs, "heap")
    BY <1>1, PanicOK
  <1> QED
    BY <1>2 DEF IInv, Panic, OnlyKnownPanics

(* A heap block for one byte.                                              *)
LEMMA OneByte == 1 \in Nat /\ 1 + BLOCK_T <= PAGE * MAX_BLOCK
  BY Constants DEF MAX_BLOCK

LEMMA NewKeeps ==
    ASSUME IInv, mm_allocator_new
    PROVE  IInv'
  <1>1. StateOK(used, free_alls, list, guard, objs, panic) /\ panic = "none" /\ BlocksOK(used)
    BY DEF IInv, mm_allocator_new, StateOK
  <1>2. CASE free_alls # <<>> /\ HandOut(free_alls) /\ UNCHANGED used
    <2>1. StateOK(used, Tail(free_alls), list', guard, objs, panic)
      BY <1>1, <1>2, HandOutOK DEF HandOut
    <2> QED
      BY <1>1, <1>2, <2>1 DEF HandOut, IInv, OnlyKnownPanics
  <1>3. CASE free_alls = <<>> /\ \E b \in Grants(1) : used' = used \cup {b} /\ HandOut(Carved(b))
    <2>1. PICK b \in Grants(1) : used' = used \cup {b} /\ HandOut(Carved(b))
      BY <1>3
    <2>2. b \in Block /\ b \notin used /\ \A c \in used : Separate(b, c) /\ Separate(c, b)
      BY <1>1, OneByte, Granted
    <2>3. StateOK(used \cup {b}, Carved(b), list, guard, objs, panic)
      BY <1>1, <1>3, <2>2, CarveOK
    <2>4. Carved(b) # <<>>
      BY <2>2, CarvedOK
    <2>5. StateOK(used \cup {b}, Tail(Carved(b)), list', guard, objs, panic)
      BY <2>1, <2>3, <2>4, HandOutOK DEF HandOut
    <2> QED
      BY <1>1, <2>1, <2>5 DEF HandOut, IInv, OnlyKnownPanics
  <1>4. CASE free_alls = <<>> /\ Panic("heap")
    BY <1>1, <1>4, PanicKeeps
  <1> QED
    BY <1>2, <1>3, <1>4 DEF mm_allocator_new

LEMMA FreeKeeps ==
    ASSUME IInv, NEW all \in DOMAIN list, mm_allocator_free(all)
    PROVE  IInv'
  <1>1. StateOK(used, free_alls, list, guard, objs, panic) /\ panic = "none"
    BY DEF IInv, mm_allocator_free
  <1>2. ASSUME NEW i \in DOMAIN list[all]
        PROVE  area_block_end(list[all][i]) \in DOMAIN guard /\ guard[area_block_end(list[all][i])] = all
    <2>1. AreaOK(used, guard, panic, all, list[all][i])
      BY <1>1 DEF StateOK, AreasOK
    <2>2. area_block_end(list[all][i]) = hi(list[all][i].heap) - PTR
      BY <2>1, AreaFacts
    <2> QED
      BY <2>1, <2>2 DEF AreaOK
  <1>3. Freed(used, free_alls, list, guard, objs, all, used', free_alls', list', guard', objs') /\ panic' = panic
    BY <1>2 DEF mm_allocator_free, Freed
  <1>4. StateOK(used', free_alls', list', guard', objs', panic)
    BY <1>1, <1>3, FreeOK
  <1> QED
    BY <1>3, <1>4 DEF IInv, OnlyKnownPanics

(* Bump on a list of areas whose newest has room.                          *)
LEMMA BumpIs ==
    ASSUME NEW all \in DOMAIN list, NEW ls, DOMAIN ls = DOMAIN list, \A l \in DOMAIN list : l # all => ls[l] = list[l],
           ls[all] # <<>>, NEW size \in Sizes, NEW align \in Aligns,
           area_free_len(Head(ls[all])) \in Int, slop(area_free_start(Head(ls[all])), align) \in Int,
           area_free_len(Head(ls[all])) >= size + slop(area_free_start(Head(ls[all])), align),
           Bump(all, ls[all], size, align)
    PROVE  \E a, s, a2, o : /\ Bumped(ls, all, size, align, a, s, a2, list', o, panic')
                            /\ objs' = objs \cup {o}
                            /\ panic' \in {"none", "area is full"}
  <1> DEFINE a == Head(ls[all])
             s == slop(area_free_start(a), align)
             a2 == [a EXCEPT !.use_len = @ + (size + s)]
             o == [all |-> all, start |-> area_free_start(a) + s, size |-> size, align |-> align]
             tl == <<a2>> \o Tail(ls[all])
  <1>1. size \in Int /\ ~(area_free_len(a) < size + s)
    BY Constants
  <1>2. /\ list' = [list EXCEPT ![all] = tl] /\ objs' = objs \cup {o}
        /\ panic' = IF a.use_len + (size + s) < a.block_len THEN "none" ELSE "area is full"
    BY <1>1, Zenon DEF Bump
  <1>3. ls[all] # <<>> /\ area_free_len(a) >= size + s
    OBVIOUS
  <1> HIDE DEF tl
  <1>4. list' = [ls EXCEPT ![all] = tl]
    BY <1>2
  <1>5. list' = [ls EXCEPT ![all] = <<a2>> \o Tail(ls[all])]
    BY <1>4, Zenon DEF tl
  <1>6. Bumped(ls, all, size, align, a, s, a2, list', o, panic')
    BY <1>2, <1>3, <1>5, Zenon DEF Bumped
  <1>7. panic' \in {"none", "area is full"}
    BY <1>2
  <1> QED
    BY <1>2, <1>6, <1>7, Zenon

(* The newest area of an allocator.                                        *)
LEMMA NewestArea ==
    ASSUME NEW us, NEW fs, NEW ls, NEW gd, NEW os, StateOK(us, fs, ls, gd, os, "none"),
           NEW all \in DOMAIN ls, ls[all] # <<>>, NEW align \in Aligns
    PROVE  LET a == Head(ls[all])
           IN  /\ area_free_len(a) \in Nat /\ area_free_len(a) > 0
               /\ slop(area_free_start(a), align) \in Nat /\ slop(area_free_start(a), align) < align
  <1> DEFINE a == Head(ls[all])
  <1>1. ls[all] \in Seq(Area)
    BY DEF StateOK, AreasOK
  <1>2. 1 \in DOMAIN ls[all] /\ a = ls[all][1]
    BY <1>1, HeadAndTail
  <1>3. AreaOK(us, gd, "none", all, a)
    BY <1>2 DEF StateOK, AreasOK
  <1> HIDE DEF a
  <1>4. a.block \in Nat /\ a.block_len \in Nat /\ a.use_len \in Nat
    BY <1>3, AreaFacts
  <1>5. a.use_len < a.block_len
    BY <1>3 DEF AreaOK
  <1>6. area_free_start(a) \in Nat /\ area_free_len(a) \in Nat /\ area_free_len(a) > 0
    BY <1>4, <1>5 DEF area_free_start, area_free_len
  <1>7. slop(area_free_start(a), align) \in Nat /\ slop(area_free_start(a), align) < align
    BY <1>6, SlopAligns, Constants
  <1> QED
    BY <1>6, <1>7 DEF a

LEMMA AllocateKeeps ==
    ASSUME IInv, NEW all \in DOMAIN list, NEW size \in Sizes, NEW align \in Aligns, mm_allocate(all, size, align)
    PROVE  IInv'
  <1>1. StateOK(used, free_alls, list, guard, objs, "none") /\ panic = "none" /\ BlocksOK(used)
    BY DEF IInv, mm_allocate, StateOK
  <1>2. ~(list[all] # <<>> /\ area_free_len(Head(list[all])) = 0)
    BY <1>1, NewestArea
  <1>3. size \in Nat /\ size > 0 /\ align \in Nat /\ align > 0
    BY Constants
  <1>4. CASE Fits(all, size, align) /\ Bump(all, list[all], size, align) /\ UNCHANGED <<used, free_alls, guard>>
    <2>1. list[all] # <<>> /\ area_free_len(Head(list[all])) >= size + slop(area_free_start(Head(list[all])), align)
      BY <1>4 DEF Fits
    <2>2. area_free_len(Head(list[all])) \in Int /\ slop(area_free_start(Head(list[all])), align) \in Int
      BY <1>1, <2>1, NewestArea
    <2>3. PICK a, s, a2, o : /\ Bumped(list, all, size, align, a, s, a2, list', o, panic')
                             /\ objs' = objs \cup {o} /\ panic' \in {"none", "area is full"}
      BY <1>4, <2>1, <2>2, BumpIs
    <2>4. StateOK(used, free_alls, list', guard, objs \cup {o}, panic')
      BY <1>1, <2>3, BumpOK
    <2> QED
      BY <1>4, <2>3, <2>4 DEF IInv, OnlyKnownPanics
  <1>5. ASSUME NEW b \in Grants(need_size(size + align)), used' = used \cup {b}, UNCHANGED free_alls,
               guard' = [g \in DOMAIN guard \cup {guard_at(b)} |-> IF g = guard_at(b) THEN all ELSE guard[g]],
               Bump(all, <<new_area(b)>> \o list[all], size, align)
        PROVE  IInv'
    <2>1. need_size(size + align) = size + align + 40 /\ need_size(size + align) \in Nat
      BY <1>3, Constants DEF need_size
    <2>2. need_size(size + align) + BLOCK_T <= PAGE * MAX_BLOCK
      BY RequestAssumption
    <2>3. /\ b \in Block /\ b \notin used /\ need_size(size + align) + BLOCK_T <= hi(b) - lo(b)
          /\ \A c \in used : Separate(b, c) /\ Separate(c, b)
      BY <1>1, <1>5, <2>1, <2>2, Granted
    <2>4. lo(b) \in Nat /\ hi(b) \in Nat /\ payload(b) = lo(b) + 24 /\ guard_at(b) = hi(b) - 8
      BY <2>3, BlockBytes, Constants
    <2>5. hi(b) - lo(b) > 64 /\ hi(b) - 8 - (lo(b) + 56) >= size + align
      BY <1>3, <2>1, <2>3, <2>4, Constants
    <2> DEFINE areas == <<new_area(b)>> \o list[all]
               ls == [list EXCEPT ![all] = areas]
    <2>6. StateOK(used', free_alls, ls, guard', objs, "none")
      <3>1. StateOK(used \cup {b}, free_alls, ls, guard', objs, "none")
        <4>1. AreaAdded(list, guard, all, b, ls, guard')
          BY <1>5 DEF AreaAdded
        <4> HIDE DEF ls
        <4> QED
          BY <1>1, <2>3, <2>5, <4>1, NewAreaOK
      <3> QED
        BY <1>5, <3>1
    <2>7. DOMAIN ls = DOMAIN list /\ ls[all] = areas /\ \A l \in DOMAIN list : l # all => ls[l] = list[l]
      BY ListsAfter
    <2>8. new_area(b) \in Area /\ list[all] \in Seq(Area)
      <3>1. new_area(b) \in Area
        BY <2>3, <2>4, <2>5, <1>3, Constants DEF new_area, Area
      <3> QED
        BY <1>1, <3>1 DEF StateOK, AreasOK
    <2>9. areas # <<>> /\ Head(areas) = new_area(b)
      BY <2>8, NewHead
    <2> HIDE DEF areas, ls
    <2>10. area_free_len(new_area(b)) = hi(b) - 8 - (lo(b) + 56)
      BY <2>4, Constants DEF area_free_len, new_area
    <2>11. /\ area_free_len(Head(ls[all])) \in Nat
           /\ slop(area_free_start(Head(ls[all])), align) \in Nat /\ slop(area_free_start(Head(ls[all])), align) < align
      BY <2>6, <2>7, <2>9, NewestArea
    <2>12. area_free_len(Head(ls[all])) >= size + slop(area_free_start(Head(ls[all])), align)
      <3> DEFINE z == slop(area_free_start(Head(ls[all])), align)
      <3> HIDE DEF z
      <3>1. z \in Nat /\ z < align
        BY <2>11 DEF z
      <3>2. area_free_len(Head(ls[all])) >= size + align /\ area_free_len(Head(ls[all])) \in Nat
        BY <2>5, <2>7, <2>9, <2>10, <2>11
      <3>3. area_free_len(Head(ls[all])) >= size + z
        BY <1>3, <3>1, <3>2
      <3> QED
        BY <3>3 DEF z
    <2>13. Bump(all, ls[all], size, align)
      BY <1>5, <2>7 DEF areas
    <2>14. PICK a, s, a2, o : /\ Bumped(ls, all, size, align, a, s, a2, list', o, panic')
                              /\ objs' = objs \cup {o} /\ panic' \in {"none", "area is full"}
      <3>1. area_free_len(Head(ls[all])) \in Int /\ slop(area_free_start(Head(ls[all])), align) \in Int
        BY <2>11
      <3> QED
        BY <2>7, <2>9, <2>12, <2>13, <3>1, BumpIs
    <2>15. StateOK(used', free_alls, list', guard', objs \cup {o}, panic')
      BY <2>6, <2>7, <2>14, BumpOK
    <2> QED
      BY <1>5, <2>14, <2>15 DEF IInv, OnlyKnownPanics
  <1>6. CASE Panic("heap")
    BY <1>1, <1>6, PanicKeeps
  <1> QED
    BY <1>2, <1>4, <1>5, <1>6 DEF mm_allocate

LEMMA StutterKeeps ==
    ASSUME IInv, UNCHANGED vars
    PROVE  IInv'
  BY DEF IInv, vars, OnlyKnownPanics

LEMMA NextKeeps ==
    ASSUME IInv, [Next]_vars
    PROVE  IInv'
  <1>1. CASE mm_allocator_new
    BY <1>1, NewKeeps
  <1>2. ASSUME NEW all \in DOMAIN list, NEW size \in Sizes, NEW align \in Aligns, mm_allocate(all, size, align)
        PROVE  IInv'
    BY <1>2, AllocateKeeps
  <1>3. ASSUME NEW all \in DOMAIN list, mm_allocator_free(all) PROVE IInv'
    BY <1>3, FreeKeeps
  <1>4. CASE halt \/ UNCHANGED vars
    BY <1>4, StutterKeeps DEF halt
  <1> QED
    BY <1>1, <1>2, <1>3, <1>4 DEF Next

LEMMA InitHolds == Init => IInv
  <1> SUFFICES ASSUME Init PROVE IInv
    OBVIOUS
  <1>1. used = {} /\ free_alls = <<>> /\ DOMAIN list = {} /\ DOMAIN guard = {} /\ objs = {} /\ panic = "none"
    BY DEF Init
  <1>2. Range(free_alls) = {} /\ DOMAIN free_alls = {} /\ free_alls \in Seq(Nat)
    <2>1. DOMAIN free_alls = {} /\ free_alls \in Seq(Nat)
      BY <1>1
    <2> QED
      BY <2>1, Zenon DEF Range
  <1>3. BlocksOK(used) /\ GuardsOK(list, guard) /\ ObjectsOK(list, objs) /\ OnlyKnownPanics
    BY <1>1 DEF BlocksOK, GuardsOK, ObjectsOK, OnlyKnownPanics
  <1>4. AreasOK(used, list, guard, panic)
    BY <1>1, FS_EmptySet DEF AreasOK
  <1>5. StructsOK(used, free_alls, list)
    BY <1>1, <1>2 DEF StructsOK, Alls
  <1> QED
    BY <1>3, <1>4, <1>5 DEF IInv, StateOK

(* The inductive invariant holds always.                                   *)
THEOREM InductiveInvariant == Spec => []IInv
  BY InitHolds, NextKeeps, PTL DEF Spec
-----------------------------------------------------------------------------
(* The state keeps its types: the areas of an allocator always sit on heap *)
(* blocks that are in use, and allocated sizes and alignments are those    *)
(* asked for.                                                              *)
THEOREM TypeCorrect == Spec => []TypeOK
  <1>1. IInv => TypeOK
    <2> SUFFICES ASSUME IInv PROVE TypeOK
      OBVIOUS
    <2>1. /\ BlocksOK(used) /\ AreasOK(used, list, guard, panic) /\ GuardsOK(list, guard) /\ ObjectsOK(list, objs)
          /\ StructsOK(used, free_alls, list) /\ OnlyKnownPanics
      BY DEF IInv, StateOK
    <2>2. used \subseteq [page : Nat, pages : Nat]
      BY <2>1, Constants DEF BlocksOK, Block
    <2>3. ASSUME NEW all \in DOMAIN list, NEW i \in DOMAIN list[all]
          PROVE  list[all][i] \in [block : Nat, block_len : Nat, use_len : Nat, heap : used]
      <3>1. list[all][i] \in Area /\ list[all][i].heap \in used
        BY <2>1 DEF AreasOK, AreaOK
      <3> QED
        BY <3>1 DEF Area
    <2>4. \A all \in DOMAIN list : Range(list[all]) \subseteq [block : Nat, block_len : Nat, use_len : Nat, heap : used]
      BY <2>3, Zenon DEF Range
    <2>5. DOMAIN list \subseteq Nat /\ DOMAIN guard \subseteq Nat /\ free_alls \in Seq(Nat)
      BY <2>1 DEF AreasOK, GuardsOK, StructsOK
    <2>6. objs \subseteq [all : Nat, start : Nat, size : Sizes, align : Aligns]
      BY <2>1 DEF ObjectsOK
    <2>7. panic \in Panics
      BY <2>1 DEF OnlyKnownPanics, Panics
    <2> QED
      BY <2>2, <2>4, <2>5, <2>6, <2>7, Zenon DEF TypeOK
  <1> QED
    BY <1>1, InductiveInvariant, PTL

(* A sequence without repetitions counts its elements.                     *)
LEMMA CountElements ==
    ASSUME NEW fs \in Seq(Nat), \A i, j \in DOMAIN fs : fs[i] = fs[j] => i = j
    PROVE  IsFiniteSet(Range(fs)) /\ Cardinality(Range(fs)) = Len(fs)
  <1> DEFINE R == Range(fs)
  <1>1. Len(fs) \in Nat /\ DOMAIN fs = 1 .. Len(fs)
    OBVIOUS
  <1>2. \A r \in R : \E i \in DOMAIN fs : fs[i] = r
    BY Zenon DEF Range
  <1>3. \A i \in DOMAIN fs : fs[i] \in R
    BY Zenon DEF Range
  <1>4. fs \in [1 .. Len(fs) -> R]
    <2> HIDE DEF R
    <2> QED
      BY <1>1, <1>3
  <1> HIDE DEF R
  <1>5. fs \in Bijection(1 .. Len(fs), R)
    BY <1>1, <1>2, <1>4 DEF Bijection, Injection, Surjection, IsInjective
  <1>6. ExistsBijection(1 .. Len(fs), R)
    BY <1>5 DEF ExistsBijection
  <1>7. IsFiniteSet(1 .. Len(fs))
    BY <1>1, FS_Interval
  <1>8. IsFiniteSet(R) /\ Cardinality(R) = Len(fs)
    BY <1>1, <1>6, <1>7, FS_Bijection, FS_CountingElements
  <1> QED
    BY <1>8 DEF R

(* A structure that a block holds is not in another block.                 *)
LEMMA NotInOther ==
    ASSUME NEW l1 \in Nat, NEW h1 \in Nat, NEW l2 \in Nat, NEW h2 \in Nat, h1 <= l2 \/ h2 <= l1,
           NEW x \in Nat, l1 < x, x + 16 <= h1
    PROVE  (x + 16 <= l2 \/ h2 <= x) /\ ~(l2 < x /\ x < h2)
  OBVIOUS

(* Structures lie outside the heap blocks of areas.                        *)
LEMMA StructsOutside ==
    ASSUME IInv, NEW x \in Range(free_alls) \cup DOMAIN list, NEW all \in DOMAIN list, NEW i \in DOMAIN list[all]
    PROVE  LET h == list[all][i].heap
           IN  Apart(x, ALLOC_T, h.page * PAGE, h.pages * PAGE) /\ ~(lo(h) < x /\ x < hi(h))
  <1>1. /\ BlocksOK(used) /\ AreasOK(used, list, guard, panic) /\ StructsOK(used, free_alls, list)
    BY DEF IInv, StateOK
  <1> DEFINE h == list[all][i].heap
  <1>2. h \in used /\ IsArea(list, h)
    BY <1>1 DEF AreasOK, AreaOK, IsArea
  <1> HIDE DEF h
  <1>3. PICK b \in used : ~IsArea(list, b) /\ Holds(b, x)
    BY <1>1 DEF StructsOK, Alls
  <1>4. Separate(b, h) /\ b \in Block /\ h \in Block
    BY <1>1, <1>2, <1>3 DEF BlocksOK
  <1>5. /\ lo(b) \in Nat /\ hi(b) \in Nat /\ lo(h) \in Nat /\ hi(h) \in Nat
        /\ lo(h) = h.page * PAGE /\ hi(h) = h.page * PAGE + h.pages * PAGE
    BY <1>4, BlockBytes DEF lo, hi
  <1>6. hi(b) <= lo(h) \/ hi(h) <= lo(b)
    BY <1>4 DEF Separate
  <1>7. x \in Nat
    <2>1. free_alls \in Seq(Nat) /\ DOMAIN list \subseteq Nat
      BY <1>1 DEF AreasOK, StructsOK
    <2>2. \A k \in DOMAIN free_alls : free_alls[k] \in Nat
      BY <2>1
    <2>3. Range(free_alls) \subseteq Nat
      BY <2>2, Zenon DEF Range
    <2> QED
      BY <2>1, <2>3
  <1>8. ALLOC_T = 16
    BY Constants
  <1>9. lo(b) < x /\ x + 16 <= hi(b)
    BY <1>3, <1>8 DEF Holds
  <1>10. (x + 16 <= lo(h) \/ hi(h) <= x) /\ ~(lo(h) < x /\ x < hi(h))
    BY <1>5, <1>6, <1>7, <1>9, NotInOther
  <1>11. Apart(x, ALLOC_T, h.page * PAGE, h.pages * PAGE)
    <2>1. x + ALLOC_T <= h.page * PAGE \/ h.page * PAGE + h.pages * PAGE <= x
      BY <1>5, <1>8, <1>10
    <2> QED
      BY <2>1, Zenon DEF Apart
  <1> QED
    BY <1>10, <1>11 DEF h

(* The memory handed out is disjoint: objects lie aligned in an area of    *)
(* their own allocator, apart from each other and from the guard words,    *)
(* and allocator structures lie apart from each other and from all areas,  *)
(* through any sequence of mm_allocator_new, mm_allocate and               *)
(* mm_allocator_free.                                                      *)
THEOREM ObjectsAlwaysApart == Spec => []ObjectsApart
  <1>1. IInv => ObjectsApart
    <2> SUFFICES ASSUME IInv PROVE ObjectsApart
      OBVIOUS
    <2> DEFINE alls == Range(free_alls) \cup DOMAIN list
    <2>1. /\ BlocksOK(used) /\ AreasOK(used, list, guard, panic) /\ GuardsOK(list, guard) /\ ObjectsOK(list, objs)
          /\ StructsOK(used, free_alls, list)
      BY DEF IInv, StateOK
    <2>2. ASSUME NEW o \in objs
          PROVE  /\ o.start \in Nat /\ o.size \in Nat /\ o.start % o.align = 0 /\ o.all \in DOMAIN list
                 /\ \E i \in DOMAIN list[o.all] : InArea(o, list[o.all][i])
      <3>1. /\ o \in [all : Nat, start : Nat, size : Sizes, align : Aligns]
            /\ o.start % o.align = 0 /\ o.all \in DOMAIN list
            /\ \E i \in DOMAIN list[o.all] : InArea(o, list[o.all][i])
        BY <2>1 DEF ObjectsOK
      <3> QED
        BY <3>1, Constants
    \* Where an object lies in its area's block.
    <2>3. ASSUME NEW o \in objs, NEW i \in DOMAIN list[o.all], InArea(o, list[o.all][i]), NEW a, a = list[o.all][i]
          PROVE  /\ o.start >= a.block /\ o.start + o.size <= area_block_end(a) /\ a.heap \in used /\ a.heap \in Block
                 /\ lo(a.heap) \in Nat /\ hi(a.heap) \in Nat
                 /\ lo(a.heap) <= o.start /\ o.start + o.size <= hi(a.heap) - 8
      <3>1. AreaOK(used, guard, panic, o.all, a)
        BY <2>1, <2>2, <2>3 DEF AreasOK
      <3>2. /\ a.block \in Nat /\ a.block_len \in Nat /\ a.use_len \in Nat /\ a.heap \in Block /\ a.heap \in used
            /\ lo(a.heap) \in Nat /\ hi(a.heap) \in Nat
            /\ a.block = lo(a.heap) + 56 /\ a.block + a.block_len = hi(a.heap) - 8
            /\ a.use_len <= a.block_len
        BY <3>1, AreaFacts
      <3>3. a.block <= o.start /\ o.start + o.size <= a.block + a.use_len /\ o.start \in Nat /\ o.size \in Nat
        BY <2>2, <2>3 DEF InArea
      <3>4. area_block_end(a) = a.block + a.block_len
        BY DEF area_block_end
      <3> QED
        BY <3>2, <3>3, <3>4
    <2>4. ASSUME NEW o \in objs
          PROVE  /\ o.start % o.align = 0 /\ o.all \in DOMAIN list
                 /\ \E a \in Range(list[o.all]) : o.start >= a.block /\ o.start + o.size <= area_block_end(a)
      <3>1. PICK i \in DOMAIN list[o.all] : InArea(o, list[o.all][i])
        BY <2>2
      <3>2. o.start >= list[o.all][i].block /\ o.start + o.size <= area_block_end(list[o.all][i])
        BY <2>3, <3>1
      <3>3. list[o.all][i] \in Range(list[o.all])
        BY Zenon DEF Range
      <3> QED
        BY <2>2, <3>2, <3>3
    <2>5. \A o, p \in objs : o # p => Apart(o.start, o.size, p.start, p.size)
      BY <2>1 DEF ObjectsOK
    <2>6. ASSUME NEW o \in objs, NEW g \in DOMAIN guard PROVE Apart(o.start, o.size, g, PTR)
      <3>1. PICK i \in DOMAIN list[o.all] : InArea(o, list[o.all][i])
        BY <2>2
      <3>2. PICK l \in DOMAIN list : \E j \in DOMAIN list[l] : g = hi(list[l][j].heap) - PTR
        BY <2>1 DEF GuardsOK
      <3>3. PICK j \in DOMAIN list[l] : g = hi(list[l][j].heap) - PTR
        BY <3>2
      <3> DEFINE h == list[o.all][i].heap
                 c == list[l][j].heap
      <3>4. h \in used /\ lo(h) \in Nat /\ hi(h) \in Nat /\ lo(h) <= o.start /\ o.start + o.size <= hi(h) - 8
        BY <2>3, <3>1
      <3>5. c \in used /\ c \in Block
        BY <2>1 DEF AreasOK, AreaOK, BlocksOK
      <3>6. g = hi(c) - 8
        BY <3>3, Constants
      <3> HIDE DEF h, c
      <3>7. lo(c) \in Nat /\ hi(c) \in Nat /\ lo(c) + PAGE <= hi(c)
        BY <3>5, BlockBytes
      <3>8. h = c \/ hi(h) <= lo(c) \/ hi(c) <= lo(h)
        BY <2>1, <3>4, <3>5 DEF BlocksOK, Separate
      <3>9. o.start \in Nat /\ o.size \in Nat /\ PTR = 8 /\ PAGE >= 48 /\ PAGE \in Nat
        BY <2>2, Constants
      <3>10. o.start + o.size <= g \/ g + PTR <= o.start
        BY <3>4, <3>6, <3>7, <3>8, <3>9
      <3> QED
        BY <3>10 DEF Apart
    <2>7. Cardinality(alls) = Len(free_alls) + Cardinality(DOMAIN list)
      <3>1. /\ free_alls \in Seq(Nat) /\ \A i, j \in DOMAIN free_alls : free_alls[i] = free_alls[j] => i = j
            /\ Range(free_alls) \cap DOMAIN list = {} /\ IsFiniteSet(DOMAIN list)
        BY <2>1 DEF StructsOK, AreasOK
      <3>2. IsFiniteSet(Range(free_alls)) /\ Cardinality(Range(free_alls)) = Len(free_alls)
        BY <3>1, CountElements
      <3>3. Cardinality(alls) = Cardinality(Range(free_alls)) + Cardinality(DOMAIN list)
                                - Cardinality(Range(free_alls) \cap DOMAIN list)
        BY <3>1, <3>2, FS_Union
      <3>4. Cardinality(Range(free_alls) \cap DOMAIN list) = 0
        BY <3>1, FS_EmptySet
      <3>5. Cardinality(DOMAIN list) \in Nat /\ Len(free_alls) \in Nat
        BY <3>1, FS_CardinalityType
      <3> QED
        BY <3>2, <3>3, <3>4, <3>5
    <2>8. \A x, y \in alls : x # y => Apart(x, ALLOC_T, y, ALLOC_T)
      BY <2>1 DEF StructsOK, Alls
    <2>9. ASSUME NEW x \in alls, NEW live \in DOMAIN list, NEW a \in Range(list[live])
          PROVE  Apart(x, ALLOC_T, a.heap.page * PAGE, a.heap.pages * PAGE)
      <3>1. PICK i \in DOMAIN list[live] : a = list[live][i]
        BY Zenon DEF Range
      <3> QED
        BY <3>1, StructsOutside
    <2> HIDE DEF alls
    <2>10. ObjectsApart <=> /\ \A o \in objs :
                                  /\ o.start % o.align = 0
                                  /\ o.all \in DOMAIN list
                                  /\ \E a \in Range(list[o.all]) :
                                        o.start >= a.block /\ o.start + o.size <= area_block_end(a)
                            /\ \A o, p \in objs : o # p => Apart(o.start, o.size, p.start, p.size)
                            /\ \A o \in objs, g \in DOMAIN guard : Apart(o.start, o.size, g, PTR)
                            /\ Cardinality(alls) = Len(free_alls) + Cardinality(DOMAIN list)
                            /\ \A x, y \in alls : x # y => Apart(x, ALLOC_T, y, ALLOC_T)
                            /\ \A x \in alls, live \in DOMAIN list : \A a \in Range(list[live]) :
                                  Apart(x, ALLOC_T, a.heap.page * PAGE, a.heap.pages * PAGE)
      BY Zenon DEF ObjectsApart, alls
    <2> QED
      BY <2>4, <2>5, <2>6, <2>7, <2>8, <2>9, <2>10, Zenon
  <1> QED
    BY <1>1, InductiveInvariant, PTL

(* No heap block is lost and none is used twice: the blocks in use are     *)
(* those of live areas, each of one area only, and those that hold         *)
(* allocator structures.                                                   *)
THEOREM NeverLeaks == Spec => []NoHeapLeak
  <1>1. IInv => NoHeapLeak
    <2> SUFFICES ASSUME IInv PROVE NoHeapLeak
      OBVIOUS
    <2> DEFINE areas == UNION {{<<all, i>> : i \in DOMAIN list[all]} : all \in DOMAIN list}
               heap_of(x) == list[x[1]][x[2]].heap
               carved == {b \in used : \E x \in Range(free_alls) \cup DOMAIN list :
                             b.page * PAGE < x /\ x < (b.page + b.pages) * PAGE}
    <2>1. BlocksOK(used) /\ AreasOK(used, list, guard, panic) /\ StructsOK(used, free_alls, list)
      BY DEF IInv, StateOK
    <2>2. \A x \in areas : x = <<x[1], x[2]>> /\ x[1] \in DOMAIN list /\ x[2] \in DOMAIN list[x[1]]
      OBVIOUS
    <2>3. \A all \in DOMAIN list : \A i \in DOMAIN list[all] : <<all, i>> \in areas /\ heap_of(<<all, i>>) = list[all][i].heap
      OBVIOUS
    <2>4. ASSUME NEW b \in used PROVE b.page * PAGE = lo(b) /\ (b.page + b.pages) * PAGE = hi(b)
      <3>1. b \in Block
        BY <2>1 DEF BlocksOK
      <3>2. b.page \in Nat /\ b.pages \in Nat /\ PAGE \in Nat
        BY <3>1, BlockBytes, Constants
      <3>3. (b.page + b.pages) * PAGE = b.page * PAGE + b.pages * PAGE
        BY <3>2
      <3> QED
        BY <3>3 DEF lo, hi
    <2>5. \A b \in used : b \in carved <=> \E x \in Range(free_alls) \cup DOMAIN list : lo(b) < x /\ x < hi(b)
      BY <2>4
    <2>6. \A x \in areas : heap_of(x) \in used
      <3>1. \A all \in DOMAIN list : \A i \in DOMAIN list[all] : list[all][i].heap \in used
        BY <2>1 DEF AreasOK, AreaOK
      <3> QED
        BY <2>2, <3>1
    <2>7. \A x, y \in areas : heap_of(x) = heap_of(y) => x = y
      <3> SUFFICES ASSUME NEW x \in areas, NEW y \in areas, heap_of(x) = heap_of(y) PROVE x = y
        OBVIOUS
      <3>1. x[1] = y[1] /\ x[2] = y[2]
        BY <2>1, <2>2 DEF AreasOK
      <3> QED
        BY <2>2, <3>1
    <2>8. ASSUME NEW x \in areas PROVE heap_of(x) \notin carved
      <3>1. \A y \in Range(free_alls) \cup DOMAIN list : ~(lo(heap_of(x)) < y /\ y < hi(heap_of(x)))
        BY <2>2, StructsOutside
      <3> QED
        BY <2>5, <2>6, <3>1
    <2>9. ASSUME NEW b \in used PROVE b \in carved \/ \E x \in areas : heap_of(x) = b
      <3>1. CASE IsArea(list, b)
        BY <2>3, <3>1 DEF IsArea
      <3>2. CASE \E x \in Alls(free_alls, list) : Holds(b, x)
        <4>1. PICK x \in Alls(free_alls, list) : Holds(b, x)
          BY <3>2
        <4>2. x \in Range(free_alls) \cup DOMAIN list
          BY DEF Alls
        <4>3. lo(b) < x /\ x + 16 <= hi(b)
          BY <4>1, Constants DEF Holds
        <4>4. x \in Nat
          <5>1. free_alls \in Seq(Nat) /\ DOMAIN list \subseteq Nat
            BY <2>1 DEF AreasOK, StructsOK
          <5>2. \A k \in DOMAIN free_alls : free_alls[k] \in Nat
            BY <5>1
          <5>3. Range(free_alls) \subseteq Nat
            BY <5>2, Zenon DEF Range
          <5> QED
            BY <4>2, <5>1, <5>3
        <4>5. hi(b) \in Nat
          BY <2>1, BlockBytes DEF BlocksOK
        <4>6. lo(b) < x /\ x < hi(b)
          BY <4>3, <4>4, <4>5
        <4> QED
          BY <2>5, <4>2, <4>6
      <3> QED
        BY <2>1, <3>1, <3>2 DEF StructsOK
    <2>10. used = carved \cup {heap_of(x) : x \in areas}
      <3>1. carved \subseteq used
        OBVIOUS
      <3> HIDE DEF carved, areas, heap_of
      <3> QED
        BY <2>6, <2>9, <3>1
    <2> QED
      BY <2>7, <2>8, <2>10, Zenon DEF NoHeapLeak
  <1> QED
    BY <1>1, InductiveInvariant, PTL

(* No guard check fails, no object is refused by the area made for it and  *)
(* no full area is used again: only an exhausted heap or an area filled to *)
(* the last byte stops the kernel here.                                    *)
THEOREM NoOtherPanics == Spec => []OnlyKnownPanics
  BY InductiveInvariant, PTL DEF IInv
=============================================================================
