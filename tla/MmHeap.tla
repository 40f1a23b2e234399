------------------------------- MODULE MmHeap -------------------------------
(***************************************************************************)
(* The kernel heap of mm/mm_heap.c: a binary buddy allocator that grows by *)
(* one block of the largest class at a time.                               *)
(*                                                                         *)
(* Addresses are byte offsets from VA_48_HEAP.  A call of mm_heap_alloc or *)
(* mm_heap_free is a sequence of steps, one per step of the recursions     *)
(* _split_from and _coalescing_block; no other call starts before it has   *)
(* returned, because the heap has no lock and no interrupt handler uses    *)
(* it.  A failed kernel_assert / kernel_assert_d stops the kernel: pc      *)
(* becomes "panic" and `panic' says which assertion it was.                *)
(*                                                                         *)
(* A definition x_with_a_slip that precedes x is x as a plausible mistake  *)
(* would have written it; each is used to show that a property can fail.   *)
(***************************************************************************)
EXTENDS Integers, Sequences, UtilMath

CONSTANTS
    MAX_CLASS,   \* _BLOCK_MAX_CLASS: classes are 0 .. MAX_CLASS - 1
    Size,        \* _size_of_class: class -> bytes
    Header,      \* sizeof(block_t)
    MaxExpand,   \* how many heap expansions physical memory can back
    Lens         \* lengths that callers ask for

Class == 0 .. MAX_CLASS - 1
Top == MAX_CLASS - 1

(* _size_of_class: a page, doubled once per class.                         *)
ASSUME ClassAssumption == MAX_CLASS \in Nat \ {0}
ASSUME SizeAssumption ==
    /\ Size \in [Class -> Nat \ {0}]
    /\ \A c \in Class : c + 1 \in Class => Size[c + 1] = 2 * Size[c]
ASSUME BoundAssumption ==
    /\ Header \in Nat
    /\ MaxExpand \in Nat
    /\ Lens \subseteq Nat

Page == Size[0]
NULL == -1

(* A page is a power of two, not 1: every divisor but 1 is even.           *)
ASSUME PageAssumption ==
    /\ Page >= 2
    /\ \A d \in 2 .. Page : Page % d = 0 => d % 2 = 0

VARIABLES
    meta,       \* block headers with a valid magic: address -> [class, is_free]
    free_list,  \* _free_list: class -> the blocks linked through next_free
    heap_end,   \* _heap_end
    pc,         \* where the running call is
    blk,        \* the block in the hands of the running call
    cur,        \* the class _split_from is working on
    want,       \* free_class, the class mm_heap_alloc was asked for
    len,        \* len, the payload it was asked for
    panic       \* the assertion that failed

heap == <<meta, free_list, heap_end>>
call == <<blk, cur, want, len>>
vars == <<meta, free_list, heap_end, pc, blk, cur, want, len, panic>>

CallerErrors == {"len is 0", "len too large", "magic of freed block", "block already free"}
OutOfFrames == {"no frame"}
InternalErrors == {"class of request", "free list class", "lower list not empty",
                   "checked out block", "payload too small", "top list not empty",
                   "buddy", "buddy not in its list"}
-----------------------------------------------------------------------------
(* _block_init writes a header; next_free is the block's place in its      *)
(* list.  mm_clean of a header takes the address out of the domain.        *)
block_init(m, a, c, free) ==
    [x \in DOMAIN m \cup {a} |->
        IF x = a THEN [class |-> c, is_free |-> free] ELSE m[x]]

block_clean_forgotten(m, a) == m
block_clean(m, a) == [x \in DOMAIN m \ {a} |-> m[x]]

(* mm_heap_alloc: the class whose blocks hold len bytes and a header.      *)
PAGE_SIZE_LOG == log_2_up(Page)
free_class_without_header(l) ==
    LET log == log_2_up(l)
    IN  IF log <= PAGE_SIZE_LOG THEN 0 ELSE log - PAGE_SIZE_LOG
free_class(l) ==
    LET log == log_2_up(l + Header)
    IN  IF log <= PAGE_SIZE_LOG THEN 0 ELSE log - PAGE_SIZE_LOG

(* _split_from: the size of each half of a block of class c.               *)
next_size_of_whole(c) == Size[c]
next_size(c) == Size[c - 1]

(* _block_find_buddy, without its assertions: the other half of the block  *)
(* of the next class, relative to the expansion the block lies in.         *)
find_buddy(a, c) ==
    LET offs == a % Size[Top]
    IN  IF (offs - Size[c]) % (2 * Size[c]) = 0 THEN a - Size[c] ELSE a + Size[c]

(* The assertions of _block_find_buddy.                                    *)
buddy_ok(a, c) ==
    /\ (a % Size[Top]) % Size[c] = 0
    /\ find_buddy(a, c) \in DOMAIN meta
    /\ meta[find_buddy(a, c)].class <= c

(* The blocks of list s, where b sits in it, and s without that link.      *)
Elems(s) == {s[i] : i \in DOMAIN s}
Place(s, b) == CHOOSE i \in DOMAIN s : s[i] = b
Unlink_rest_too(s, b) == SubSeq(s, 1, Place(s, b) - 1)
Unlink(s, b) ==
    [i \in 1 .. Len(s) - 1 |-> IF i < Place(s, b) THEN s[i] ELSE s[i + 1]]
-----------------------------------------------------------------------------
(* mm_heap_bootstrap *)
Init ==
    /\ meta = [a \in {} |-> [class |-> 0, is_free |-> TRUE]]
    /\ free_list = [c \in Class |-> <<>>]
    /\ heap_end = 0
    /\ pc = "idle"
    /\ blk = NULL /\ cur = 0 /\ want = 0 /\ len = 0
    /\ panic = "none"

Panic(reason) ==
    /\ pc' = "panic"
    /\ panic' = reason
    /\ UNCHANGED <<heap, call>>

Return ==
    /\ pc' = "idle"
    /\ blk' = NULL /\ cur' = 0 /\ want' = 0 /\ len' = 0
    /\ UNCHANGED panic

(* mm_heap_alloc up to the first _free_list_dequeue.                       *)
mm_heap_alloc(l) ==
    /\ pc = "idle"
    /\ IF l = 0 THEN Panic("len is 0")
       ELSE IF l + Header > Size[Top] THEN Panic("len too large")
       ELSE IF free_class(l) \notin Class THEN Panic("class of request")
       ELSE /\ pc' = "dequeue"
            /\ want' = free_class(l)
            /\ cur' = free_class(l)
            /\ len' = l
            /\ UNCHANGED <<heap, blk, panic>>

(* _free_list_dequeue finds a block: the caller checks it out if it is of  *)
(* the wanted class, and splits it otherwise.                              *)
free_list_dequeue ==
    /\ pc = "dequeue"
    /\ free_list[cur] # <<>>
    /\ LET b == Head(free_list[cur]) IN
       IF b \notin DOMAIN meta \/ meta[b].class # cur
       THEN Panic("free list class")
       ELSE /\ blk' = b
            /\ free_list' = [free_list EXCEPT ![cur] = Tail(@)]
            /\ pc' = IF cur = want THEN "check_out" ELSE "split"
            /\ UNCHANGED <<meta, heap_end, cur, want, len, panic>>

split_from_past_top ==
    /\ pc = "dequeue"
    /\ free_list[cur] = <<>>
    /\ cur <= Top
    /\ cur' = cur + 1
    /\ UNCHANGED <<heap, pc, blk, want, len, panic>>

split_from_same_class ==
    /\ pc = "dequeue"
    /\ free_list[cur] = <<>>
    /\ cur < Top
    /\ cur' = cur
    /\ UNCHANGED <<heap, pc, blk, want, len, panic>>

(* The list is empty: _split_from is called for the next class.            *)
split_from ==
    /\ pc = "dequeue"
    /\ free_list[cur] = <<>>
    /\ cur < Top
    /\ cur' = cur + 1
    /\ UNCHANGED <<heap, pc, blk, want, len, panic>>

expand_heap_by_a_page ==
    /\ pc = "dequeue"
    /\ free_list[cur] = <<>>
    /\ cur = Top
    /\ IF heap_end >= MaxExpand * Size[Top] THEN Panic("no frame")
       ELSE /\ meta' = block_init(meta, heap_end, Top, TRUE)
            /\ free_list' = [free_list EXCEPT ![Top] = <<heap_end>> \o @]
            /\ heap_end' = heap_end + Page
            /\ UNCHANGED <<pc, call, panic>>

(* _expand_heap: every frame of one largest block is allocated and mapped, *)
(* then the block is enqueued.                                             *)
expand_heap ==
    /\ pc = "dequeue"
    /\ free_list[cur] = <<>>
    /\ cur = Top
    /\ IF heap_end >= MaxExpand * Size[Top] THEN Panic("no frame")
       ELSE /\ meta' = block_init(meta, heap_end, Top, TRUE)
            /\ free_list' = [free_list EXCEPT ![Top] = <<heap_end>> \o @]
            /\ heap_end' = heap_end + Size[Top]
            /\ UNCHANGED <<pc, call, panic>>

(* The tail of _split_from: both halves go into the lower list, the high   *)
(* one last, and the caller dequeues from there.                           *)
split ==
    /\ pc = "split"
    /\ IF free_list[cur - 1] # <<>> THEN Panic("lower list not empty")
       ELSE LET low  == blk
                high == blk + next_size(cur)
            IN  /\ meta' = block_init(block_init(meta, low, cur - 1, TRUE),
                                      high, cur - 1, TRUE)
                /\ free_list' = [free_list EXCEPT ![cur - 1] = <<high, low>>]
                /\ cur' = cur - 1
                /\ blk' = NULL
                /\ pc' = "dequeue"
                /\ UNCHANGED <<heap_end, want, len, panic>>

(* _block_check_out and the assertions of mm_heap_alloc around it.         *)
check_out ==
    /\ pc = "check_out"
    /\ IF meta[blk].class # want \/ ~meta[blk].is_free
       THEN Panic("checked out block")
       ELSE IF Size[want] - Header < len THEN Panic("payload too small")
       ELSE /\ meta' = block_init(meta, blk, want, FALSE)
            /\ UNCHANGED <<free_list, heap_end>>
            /\ Return

(* mm_heap_free up to _block_check_in.  The caller may hand over any block *)
(* start it ever saw, also one it has freed before.  An address that is    *)
(* not a block now has no magic (its payload is taken not to contain it).  *)
mm_heap_free(a) ==
    /\ pc = "idle"
    /\ IF a \notin DOMAIN meta THEN Panic("magic of freed block")
       ELSE IF meta[a].is_free THEN Panic("block already free")
       ELSE /\ meta' = block_init(meta, a, meta[a].class, TRUE)
            /\ blk' = a
            /\ pc' = "coalesce"
            /\ UNCHANGED <<free_list, heap_end, cur, want, len, panic>>

Coalesces_below_top_only ==
    LET c == meta[blk].class
    IN  /\ c < Top - 1
        /\ buddy_ok(blk, c)
        /\ meta[find_buddy(blk, c)].class = c
        /\ meta[find_buddy(blk, c)].is_free

(* _coalescing_block: the buddy is whole and free.                         *)
Coalesces ==
    LET c == meta[blk].class
    IN  /\ c < Top
        /\ buddy_ok(blk, c)
        /\ meta[find_buddy(blk, c)].class = c
        /\ meta[find_buddy(blk, c)].is_free

(* One level of _coalescing_block that merges: the buddy leaves its list,  *)
(* the higher header is wiped and the lower one covers both.               *)
coalescing_block ==
    /\ pc = "coalesce"
    /\ Coalesces
    /\ LET c     == meta[blk].class
           buddy == find_buddy(blk, c)
           low   == IF buddy < blk THEN buddy ELSE blk
           high  == IF buddy < blk THEN blk ELSE buddy
       IN  IF buddy \notin Elems(free_list[c]) THEN Panic("buddy not in its list")
           ELSE /\ free_list' = [free_list EXCEPT ![c] = Unlink(@, buddy)]
                /\ meta' = block_init(block_clean(meta, high), low, c + 1, TRUE)
                /\ blk' = low
                /\ UNCHANGED <<heap_end, pc, cur, want, len, panic>>

(* The last level of _coalescing_block and the _free_list_enqueue that     *)
(* ends mm_heap_free.                                                      *)
free_list_enqueue ==
    /\ pc = "coalesce"
    /\ ~Coalesces
    /\ LET c == meta[blk].class IN
       IF c < Top /\ ~buddy_ok(blk, c) THEN Panic("buddy")
       ELSE /\ free_list' = [free_list EXCEPT ![c] = <<blk>> \o @]
            /\ meta' = block_init(meta, blk, c, TRUE)
            /\ UNCHANGED heap_end
            /\ Return

(* kernel_panic never returns.                                             *)
halt == pc = "panic" /\ UNCHANGED vars

(* A step of the call that is running.                                     *)
Step == free_list_dequeue \/ split_from \/ expand_heap \/ split \/ check_out
        \/ coalescing_block \/ free_list_enqueue

Next ==
    \/ \E l \in Lens : mm_heap_alloc(l)
    \/ \E n \in 0 .. (heap_end \div Page) - 1 : mm_heap_free(n * Page)
    \/ Step
    \/ halt

Spec == Init /\ [][Next]_vars

(* A call runs to its end: the kernel has one thread and the heap never    *)
(* waits for anything.                                                     *)
FairSpec == Spec /\ WF_vars(Step)
-----------------------------------------------------------------------------
PCs == {"idle", "dequeue", "split", "check_out", "coalesce", "panic"}
Header_t == [class : Class, is_free : BOOLEAN]

(* Types of the heap's state and of the running call's locals.             *)
TypeOK ==
    /\ DOMAIN meta \subseteq Nat
    /\ meta \in [DOMAIN meta -> Header_t]
    /\ free_list \in [Class -> Seq(Nat)]
    /\ heap_end \in Nat
    /\ pc \in PCs
    /\ blk \in Nat \cup {NULL}
    /\ cur \in Class /\ want \in Class /\ len \in Nat
    /\ panic \in {"none"} \cup CallerErrors \cup OutOfFrames \cup InternalErrors

SizeAt(a) == Size[meta[a].class]

(* No two blocks overlap and none reaches past _heap_end: neither a split, *)
(* a merge nor an expansion ever gives out a byte twice.                   *)
BlocksDisjoint ==
    /\ \A a \in DOMAIN meta : a + SizeAt(a) <= heap_end
    /\ \A a, b \in DOMAIN meta : a < b => a + SizeAt(a) <= b

(* No byte of the heap is lost: every block ends where the next begins or  *)
(* at _heap_end, which is what _heap_validate walks along.                 *)
BlocksCover ==
    /\ heap_end > 0 => 0 \in DOMAIN meta
    /\ \A a \in DOMAIN meta : a + SizeAt(a) \in DOMAIN meta \cup {heap_end}

(* Every block that is in a list is free and of the list's class, no block *)
(* is in a list twice, and the block in the hands of a call is in no list. *)
ListsSound ==
    \A c \in Class :
        /\ \A a \in Elems(free_list[c]) :
              /\ a \in DOMAIN meta
              /\ meta[a] = [class |-> c, is_free |-> TRUE]
              /\ a # blk
        /\ \A i, j \in DOMAIN free_list[c] :
              free_list[c][i] = free_list[c][j] => i = j

(* The blocks tile the heap: every byte below _heap_end is in exactly one  *)
(* block, in the middle of a split or a merge too.                         *)
Tiling == BlocksDisjoint /\ BlocksCover

(* What the running call has in its hands, by program counter.             *)
CallState ==
    /\ pc \in {"idle", "dequeue"} => blk = NULL
    /\ pc \in {"idle", "coalesce"} => len = 0
    /\ pc \in {"dequeue", "split", "check_out"} => len > 0
    /\ pc = "dequeue" => cur >= want
    /\ pc = "split" => cur > want /\ meta[blk].class = cur
    /\ pc = "check_out" => meta[blk].class = want
    /\ pc \in {"split", "check_out", "coalesce"} =>
           blk \in DOMAIN meta /\ meta[blk].is_free

(* No free block is leaked: it is in the list of its class unless the      *)
(* running call holds it.                                                  *)
ListsComplete ==
    \A a \in DOMAIN meta :
        meta[a].is_free /\ a # blk => a \in Elems(free_list[meta[a].class])

(* The free lists hold exactly the free blocks: each once, in the list of  *)
(* its class, all but the one the running call is working on.              *)
ListsExact == ListsSound /\ ListsComplete

(* Between calls no two free buddies are left unmerged.                    *)
FullyCoalesced ==
    pc = "idle" =>
        \A a \in DOMAIN meta :
            (meta[a].class < Top /\ meta[a].is_free) =>
                LET b == find_buddy(a, meta[a].class)
                IN  b \in DOMAIN meta =>
                       ~(meta[b].is_free /\ meta[b].class = meta[a].class)

(* The only assertions that can stop the kernel here are those on what the *)
(* caller passed and the one on running out of frames: no assertion about  *)
(* the allocator's own state ever fails.                                   *)
NoInternalPanic == panic \notin InternalErrors

(* A block keeps its header until its owner passes it to mm_heap_free: no  *)
(* split, merge or expansion around it touches it.                         *)
HeldBlockKept ==
    [][\A a \in DOMAIN meta :
          ~meta[a].is_free =>
              \/ a \in DOMAIN meta' /\ meta'[a] = meta[a]
              \/ pc = "idle" /\ pc' = "coalesce" /\ blk' = a]_vars

(* Every mm_heap_alloc and mm_heap_free returns or stops the kernel.       *)
CallReturns == (pc # "idle") ~> (pc \in {"idle", "panic"})

(* The payloads of the blocks that are checked out, as extents of HeapAbs. *)
Held == {a \in DOMAIN meta : ~meta[a].is_free}
Extent(a) == [start |-> a + Header, size |-> SizeAt(a) - Header]
Abs == INSTANCE HeapAbs WITH
    owned <- {Extent(a) : a \in Held},
    brk <- heap_end,
    ask <- len

(* What the heap promises its users: every mm_heap_alloc that returns has  *)
(* granted at least the length asked for, inside the heap and disjoint     *)
(* from all extents still in use, and nothing else changes who owns what.  *)
ImplementsHeapAbs == Abs!Spec
=============================================================================
