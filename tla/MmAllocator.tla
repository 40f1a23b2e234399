----------------------------- MODULE MmAllocator -----------------------------
(***************************************************************************)
(* The region allocators of mm/mm_allocator.c.  An allocator owns a list   *)
(* of areas, each a heap block with an area_t in front, a guard word at    *)
(* the end and objects bumped in between; freeing the allocator frees all  *)
(* areas at once.  The allocator structures themselves are carved out of   *)
(* heap blocks and recycled through _free_alls.                            *)
(*                                                                         *)
(* The heap is seen through what MmHeap shows of it: mm_heap_alloc returns *)
(* a block of the smallest fitting class, aligned to its size and disjoint *)
(* from all others.  Calls do not interleave (see MmHeap).                 *)
(*                                                                         *)
(* slop_back, new_area_over_guard, HandOut_without_pop,                    *)
(* Fits_ignoring_slop and freed_areas_but_last are plausible mistakes in   *)
(* the definition they precede, kept to show that a property can fail.     *)
(***************************************************************************)
EXTENDS Integers, Sequences, FiniteSets, Functions

CONSTANTS
    PAGE,      \* bytes of the smallest heap block
    Pages,     \* pages the heap can hand out
    Sizes,     \* sizes passed to mm_allocate
    Aligns,    \* alignments passed to mm_allocate
    MaxLive,   \* bound: allocators in use at the same time
    MaxObjs    \* bound: objects in use at the same time

BLOCK_T == 24   \* sizeof(block_t), the heap's header
AREA_T == 32    \* sizeof(area_t)
ALLOC_T == 16   \* sizeof(mm_allocator_t)
PTR == 8        \* sizeof(mm_allocator_t *)

ASSUME AllocatorAssumption ==
    /\ PAGE \in Nat /\ Pages \in Nat /\ MaxLive \in Nat /\ MaxObjs \in Nat
    /\ PAGE % PTR = 0 /\ PAGE >= BLOCK_T + PTR + ALLOC_T
    /\ Sizes \subseteq Nat \ {0} /\ Aligns \subseteq Nat \ {0}

VARIABLES
    used,       \* heap blocks in use: [page, pages]
    free_alls,  \* _free_alls: the recycled allocators, head first
    list,       \* live allocator -> its areas, newest first
    guard,      \* address of a guard word -> the allocator written there
    objs,       \* objects handed out: [all, start, size, align]
    panic       \* the assertion that failed

vars == <<used, free_alls, list, guard, objs, panic>>
-----------------------------------------------------------------------------
(* mm_heap_alloc: blocks come in powers of two of a page, one for each     *)
(* class.                                                                  *)
MAX_BLOCK == 32768
BlockPages == {1, 2, 4, 8, 16, 32, 64, 128, 256, 512, 1024, 2048, 4096, 8192, 16384, MAX_BLOCK}
pages_for(len) == LET fits == {p \in BlockPages : len + BLOCK_T <= PAGE * p}
                  IN  CHOOSE p \in fits : \A q \in fits : p <= q

Taken(used_blocks) == UNION {b.page .. b.page + b.pages - 1 : b \in used_blocks}

(* The blocks mm_heap_alloc(len) may return.                               *)
Grants(len) ==
    {b \in [page : 0 .. Pages - 1, pages : {pages_for(len)}] :
        /\ b.page % b.pages = 0
        /\ b.page + b.pages <= Pages
        /\ (b.page .. b.page + b.pages - 1) \cap Taken(used) = {}}

payload(b) == b.page * PAGE + BLOCK_T
payload_len(b) == b.pages * PAGE - BLOCK_T

(* mm_align_up *)
align_up(p, a) == ((p + a - 1) \div a) * a

(* mm_allocator_new: the allocators carved out of a minimum block, in the  *)
(* order the loop pushes them.  `all += sizeof(mm_allocator_t)' advances   *)
(* by that many structures, not bytes.                                     *)
STRIDE == ALLOC_T * ALLOC_T
Carved(b) ==
    LET first == align_up(payload(b), PTR)
        n == CHOOSE k \in 0 .. payload_len(b) :
                /\ first + k * STRIDE + ALLOC_T - payload(b) > payload_len(b)
                /\ \A j \in 0 .. k - 1 :
                      first + j * STRIDE + ALLOC_T - payload(b) <= payload_len(b)
    IN  [k \in 1 .. n |-> first + (n - k) * STRIDE]

(* An area: block is the address behind its area_t.                        *)
area_free_len(a) == a.block_len - a.use_len
area_free_start(a) == a.block + a.use_len
area_block_end(a) == a.block + a.block_len

slop_back(addr, align) == 0 - (addr % align)
slop(addr, align) == LET s == addr % align IN IF s > 0 THEN align - s ELSE 0

(* _allocator_new_area on heap block b: where it writes the guard word,    *)
(* and the area.                                                           *)
guard_at(b) == payload(b) + payload_len(b) - PTR
new_area_over_guard(b) ==
    [block |-> payload(b) + AREA_T, block_len |-> payload_len(b) - AREA_T,
     use_len |-> 0, heap |-> b]
new_area(b) ==
    [block |-> payload(b) + AREA_T, block_len |-> guard_at(b) - (payload(b) + AREA_T),
     use_len |-> 0, heap |-> b]
need_size(block_min) == block_min + AREA_T + PTR

(* No request is longer than the largest block; mm_heap_alloc fails an     *)
(* assertion for one that is.                                              *)
ASSUME RequestAssumption ==
    \A size \in Sizes, align \in Aligns : need_size(size + align) + BLOCK_T <= PAGE * MAX_BLOCK
-----------------------------------------------------------------------------
(* mm_allocator_bootstrap *)
Init ==
    /\ used = {}
    /\ free_alls = <<>>
    /\ list = [all \in {} |-> <<>>]
    /\ guard = [g \in {} |-> 0]
    /\ objs = {}
    /\ panic = "none"

Panic(reason) == panic' = reason /\ UNCHANGED <<used, free_alls, list, guard, objs>>

(* Pop the head of pool and start it with no areas.                        *)
HandOut_without_pop(pool) ==
    /\ free_alls' = pool
    /\ list' = [a \in DOMAIN list \cup {Head(pool)} |->
                   IF a = Head(pool) THEN <<>> ELSE list[a]]
    /\ UNCHANGED <<guard, objs, panic>>
HandOut(pool) ==
    /\ free_alls' = Tail(pool)
    /\ list' = [a \in DOMAIN list \cup {Head(pool)} |->
                   IF a = Head(pool) THEN <<>> ELSE list[a]]
    /\ UNCHANGED <<guard, objs, panic>>

(* mm_allocator_new, with a recycled allocator or after carving new ones.  *)
mm_allocator_new ==
    /\ panic = "none"
    /\ Cardinality(DOMAIN list) < MaxLive
    /\ \/ /\ free_alls # <<>>
          /\ HandOut(free_alls)
          /\ UNCHANGED used
       \/ /\ free_alls = <<>>
          /\ \E b \in Grants(1) : used' = used \cup {b} /\ HandOut(Carved(b))
       \/ /\ free_alls = <<>>
          /\ Grants(1) = {}
          /\ Panic("heap")

(* mm_allocate once its area is settled: bump, and the assertion that the  *)
(* area is not full afterwards.                                            *)
Bump(all, areas, size, align) ==
    LET a    == Head(areas)
        ret  == area_free_start(a) + slop(area_free_start(a), align)
        need == size + slop(area_free_start(a), align)
    IN  IF area_free_len(a) < need THEN Panic("object does not fit")
        ELSE /\ list' = [list EXCEPT ![all] =
                            <<[a EXCEPT !.use_len = @ + need]>> \o Tail(areas)]
             /\ objs' = objs \cup {[all |-> all, start |-> ret, size |-> size, align |-> align]}
             /\ panic' = IF a.use_len + need < a.block_len THEN "none" ELSE "area is full"

(* Does the request fit the newest area?                                   *)
Fits_ignoring_slop(all, size, align) ==
    /\ list[all] # <<>>
    /\ area_free_len(Head(list[all])) >= size
Fits(all, size, align) ==
    /\ list[all] # <<>>
    /\ LET a == Head(list[all])
       IN  area_free_len(a) >= size + slop(area_free_start(a), align)

mm_allocate(all, size, align) ==
    /\ panic = "none"
    /\ Cardinality(objs) < MaxObjs
    /\ IF list[all] # <<>> /\ area_free_len(Head(list[all])) = 0
       THEN Panic("no free start")
       ELSE \/ /\ Fits(all, size, align)
               /\ Bump(all, list[all], size, align)
               /\ UNCHANGED <<used, free_alls, guard>>
            \/ /\ ~Fits(all, size, align)
               /\ \E b \in Grants(need_size(size + align)) :
                     /\ used' = used \cup {b}
                     /\ guard' = [g \in DOMAIN guard \cup {guard_at(b)} |->
                                     IF g = guard_at(b) THEN all ELSE guard[g]]
                     /\ Bump(all, <<new_area(b)>> \o list[all], size, align)
                     /\ UNCHANGED free_alls
            \/ /\ ~Fits(all, size, align)
               /\ Grants(need_size(size + align)) = {}
               /\ Panic("heap")

(* mm_allocator_free: every area goes back to the heap, newest first, and  *)
(* the allocator is recycled.                                              *)
freed_areas_but_last(areas) == {areas[i].heap : i \in 1 .. Len(areas) - 1}
freed_areas(areas) == {areas[i].heap : i \in DOMAIN areas}

mm_allocator_free(all) ==
    LET areas == list[all] IN
    /\ panic = "none"
    /\ IF \E i \in DOMAIN areas : area_block_end(areas[i]) \notin DOMAIN guard
                                  \/ guard[area_block_end(areas[i])] # all
       THEN Panic("guard")
       ELSE /\ used' = used \ freed_areas(areas)
            /\ guard' = [g \in DOMAIN guard \ {area_block_end(areas[i]) : i \in DOMAIN areas}
                            |-> guard[g]]
            /\ list' = [a \in DOMAIN list \ {all} |-> list[a]]
            /\ free_alls' = <<all>> \o free_alls
            /\ objs' = {o \in objs : o.all # all}
            /\ UNCHANGED panic

(* A failed assertion never returns.                                       *)
halt == panic # "none" /\ UNCHANGED vars

Next ==
    \/ mm_allocator_new
    \/ \E all \in DOMAIN list, size \in Sizes, align \in Aligns :
          mm_allocate(all, size, align)
    \/ \E all \in DOMAIN list : mm_allocator_free(all)
    \/ halt

Spec == Init /\ [][Next]_vars
-----------------------------------------------------------------------------
Panics == {"none", "heap", "area is full", "object does not fit", "no free start", "guard"}

(* Types of the allocator's state.                                         *)
TypeOK ==
    /\ used \subseteq [page : Nat, pages : Nat]
    /\ free_alls \in Seq(Nat)
    /\ DOMAIN list \subseteq Nat
    /\ \A all \in DOMAIN list : Range(list[all]) \subseteq
          [block : Nat, block_len : Nat, use_len : Nat, heap : used]
    /\ DOMAIN guard \subseteq Nat
    /\ objs \subseteq [all : Nat, start : Nat, size : Sizes, align : Aligns]
    /\ panic \in Panics

Apart(s1, n1, s2, n2) == s1 + n1 <= s2 \/ s2 + n2 <= s1

(* Every object is aligned as asked, lies in an area of its own allocator, *)
(* and overlaps no other object and no guard word: a user that stays       *)
(* inside its object disturbs nobody and trips no guard check.  An         *)
(* allocator is free or live, never both, and no allocator structure       *)
(* overlaps another or a heap block that an area uses.                     *)
ObjectsApart ==
    LET alls == Range(free_alls) \cup DOMAIN list IN
    /\ \A o \in objs :
          /\ o.start % o.align = 0
          /\ o.all \in DOMAIN list
          /\ \E a \in Range(list[o.all]) :
                o.start >= a.block /\ o.start + o.size <= area_block_end(a)
    /\ \A o, p \in objs : o # p => Apart(o.start, o.size, p.start, p.size)
    /\ \A o \in objs, g \in DOMAIN guard : Apart(o.start, o.size, g, PTR)
    /\ Cardinality(alls) = Len(free_alls) + Cardinality(DOMAIN list)
    /\ \A x, y \in alls : x # y => Apart(x, ALLOC_T, y, ALLOC_T)
    /\ \A x \in alls, live \in DOMAIN list : \A a \in Range(list[live]) :
          Apart(x, ALLOC_T, a.heap.page * PAGE, a.heap.pages * PAGE)

(* Nothing leaks: the heap blocks in use are those of live areas and those *)
(* that hold allocator structures; each belongs to one area at most.       *)
NoHeapLeak ==
    LET areas == UNION {{<<all, i>> : i \in DOMAIN list[all]} : all \in DOMAIN list}
        heap_of(x) == list[x[1]][x[2]].heap
        carved == {b \in used : \E x \in Range(free_alls) \cup DOMAIN list :
                      b.page * PAGE < x /\ x < (b.page + b.pages) * PAGE}
    IN  /\ used = carved \cup {heap_of(x) : x \in areas}
        /\ \A x, y \in areas : heap_of(x) = heap_of(y) => x = y
        /\ \A x \in areas : heap_of(x) \notin carved

(* The guard words and the sizes computed for new areas never fail an      *)
(* assertion; only an exhausted heap or an exactly filled area stops here. *)
OnlyKnownPanics == panic \in {"none", "heap", "area is full"}
=============================================================================
