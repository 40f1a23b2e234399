------------------------------- MODULE MemHeap -------------------------------
(***************************************************************************)
(* The page heap of mem/mem_heap.c: a buddy system over page numbers whose *)
(* free lists, one per class, are queues of slots in a map of 64-bit words *)
(* behind the heap structure.  mem_heap_new_bootstrap builds the map; the  *)
(* file has no other entry point and the kernel does not call it yet.      *)
(*                                                                         *)
(* The build is the default one, in which kernel_assert_d checks.  The     *)
(* call is made before MEM_BOOTSTRAP_STAGE_FINISH, as its first assertion  *)
(* wants it.                                                               *)
(***************************************************************************)
EXTENDS Integers, TLC, UtilMath

CONSTANTS
    PAGE,       \* PAGE_SIZE_VALUE_4K, in bytes
    WORD,       \* sizeof(u64_t)
    CLASS_MAX,  \* _CLASS_MAX
    BUFF_SIZE,  \* _BOOTSTRAP_BUFF_SIZE
    Adds, Sizes \* memory that callers ask to be managed, in bytes

VARIABLES
    pc,      \* "idle", the loop of _map_init that runs, "panic" or "wild"
    call,    \* arguments: [add, size], size cut to what the map can manage
    queue,   \* queue[c], c < CLASS_MAX: free list of class c; else the spare slots
    slots,   \* the slots written so far: [page, next]
    slot,    \* loop variable of the first loop
    cut      \* loop variable of the second loop, in bytes

vars == <<pc, call, queue, slots, slot, cut>>

NULL == -1                               \* _MAP_NULL
Empty == [head |-> NULL, tail |-> NULL]
SLOTS == CLASS_MAX                       \* _map_slots_idx
-----------------------------------------------------------------------------
map_size == BUFF_SIZE - PAGE
map_header_len == WORD * 2 * (CLASS_MAX + 1)

(* Bytes behind the header halved, although a slot is two words.           *)
map_slot_max == (map_size - map_header_len) \div 2

(* The word a slot starts at; the header's length counts as words here.    *)
map_slot_idx(s) == map_header_len + s * 2
InMap(s) == (map_slot_idx(s) + 2) * WORD <= map_size

map_max_heap == ((map_size - map_header_len) \div (WORD * 2 * 2)) * PAGE

IsSlot(s) == s \in 0..(map_slot_max - 1)
IsPage(p) == p \in 0..((call.size \div PAGE) - 1)
aligned(v) == v % PAGE = 0

Init ==
    /\ pc = "idle" /\ call = [add |-> 0, size |-> 0]
    /\ queue = [c \in 0..SLOTS |-> Empty] /\ slots = <<>> /\ slot = 0 /\ cut = 0

Panic == pc' = "panic" /\ UNCHANGED <<call, queue, slots, slot, cut>>

(* A store behind the map, which is the end of a static array.             *)
Wild == pc' = "wild" /\ UNCHANGED <<call, queue, slots, slot, cut>>

(* What _map_init checks before it touches the map.                        *)
init_refused(size) ==
    \/ ~aligned(map_size) \/ map_size <= map_header_len
    \/ (map_size - map_header_len) % (WORD * 2) # 0
    \/ size <= PAGE

(* mem_heap_new_bootstrap up to the loops of _map_init.                    *)
mem_heap_new_bootstrap(heap_add, heap_size) ==
    LET size == IF heap_size < map_max_heap THEN heap_size ELSE map_max_heap IN
    /\ pc = "idle"
    /\ aligned(heap_add) /\ aligned(heap_size)
    /\ IF init_refused(size)
       THEN Panic
       ELSE /\ pc' = "slots" /\ slot' = 0 /\ cut' = 0
            /\ call' = [add |-> heap_add, size |-> size]
            /\ queue' = [c \in 0..SLOTS |-> Empty]
            /\ UNCHANGED slots

(* It returns NULL for memory that does not start and end with a page.     *)
returns_null(heap_add, heap_size) ==
    /\ pc = "idle"
    /\ ~(aligned(heap_add) /\ aligned(heap_size))
    /\ UNCHANGED vars
-----------------------------------------------------------------------------
Free == [page |-> NULL, next |-> NULL]

(* _map_slots_enqueue and one round of the loop that calls it.  A spare    *)
(* slot holds its successor in both words.  The tail stays where it is.    *)
enqueue_refused ==
    LET q == queue[SLOTS] IN
    IF q.head = NULL
    THEN q.tail # NULL
    ELSE ~IsSlot(q.tail) \/ slots[q.tail] # Free

map_slots_enqueue ==
    LET q == queue[SLOTS]
    IN  /\ pc = "slots" /\ slot < map_slot_max
        /\ CASE enqueue_refused -> Panic
             [] ~enqueue_refused /\ ~InMap(slot) -> Wild
             [] OTHER ->
                  /\ slots' = (IF q.head = NULL THEN <<>> ELSE q.tail :> [page |-> slot, next |-> slot])
                              @@ (slot :> Free) @@ slots
                  /\ queue' = IF q.head = NULL
                              THEN [queue EXCEPT ![SLOTS] = [head |-> slot, tail |-> slot]]
                              ELSE queue
                  /\ slot' = slot + 1
                  /\ UNCHANGED <<pc, call, cut>>

slots_end ==
    /\ pc = "slots" /\ slot >= map_slot_max
    /\ pc' = "cut"
    /\ UNCHANGED <<call, queue, slots, slot, cut>>

(* _map_slots_dequeue: what it removes is the head, what it returns is the *)
(* element behind the head.                                                *)
dequeue_refused ==
    LET q == queue[SLOTS] IN
    \/ q.head = NULL \/ q.tail = NULL \/ ~IsSlot(q.head)
    \/ slots[q.head].page # slots[q.head].next
    \/ (slots[q.head].next = NULL) # (q.head = q.tail)

dequeued == slots[queue[SLOTS].head].next
after_dequeue ==
    IF dequeued = NULL THEN Empty ELSE [queue[SLOTS] EXCEPT !.head = dequeued]

(* _map_list_enqueue, whose tail does not move either.                     *)
list_refused(class, page) ==
    LET q == queue[class] IN
    \/ ~IsSlot(dequeued) \/ ~IsPage(page)
    \/ IF q.head = NULL THEN q.tail # NULL ELSE q.tail = NULL \/ slots[q.tail].next # NULL

map_list_enqueue(class, page) ==
    LET q == queue[class]
        new == dequeued :> [page |-> page, next |-> NULL]
    IN  /\ slots' = (IF q.head = NULL THEN <<>> ELSE q.tail :> [slots[q.tail] EXCEPT !.next = dequeued])
                    @@ new @@ slots
        /\ queue' = [queue EXCEPT
                       ![SLOTS] = after_dequeue,
                       ![class] = IF q.head = NULL THEN [head |-> dequeued, tail |-> dequeued] ELSE q]

(* One round of the loop that puts the memory into the free lists.  The    *)
(* class is the logarithm of bytes, and counts pages.                      *)
more_to_cut == cut < call.size /\ call.size - cut >= PAGE

cut_block ==
    LET class == log_2_down(call.size - cut)
        page  == cut \div PAGE
    IN  /\ pc = "cut" /\ more_to_cut
        /\ IF \/ class >= CLASS_MAX \/ page % (2^class) # 0
              \/ dequeue_refused \/ list_refused(class, page)
           THEN Panic
           ELSE /\ map_list_enqueue(class, page)
                /\ cut' = cut + (2^class) * PAGE
                /\ UNCHANGED <<pc, call, slot>>

map_init_end ==
    /\ pc = "cut" /\ ~more_to_cut
    /\ pc' = "idle"
    /\ UNCHANGED <<call, queue, slots, slot, cut>>

(* _kernel_assert_fail stops; behind a wild store anything goes, the model *)
(* stops there too.                                                        *)
halt == pc \in {"panic", "wild"} /\ UNCHANGED vars

Next ==
    \/ \E add \in Adds, size \in Sizes : mem_heap_new_bootstrap(add, size) \/ returns_null(add, size)
    \/ map_slots_enqueue \/ slots_end \/ cut_block \/ map_init_end
    \/ halt

Spec == Init /\ [][Next]_vars
-----------------------------------------------------------------------------
(* The assertions of the queue hold: while _map_init links up the spare    *)
(* slots, the slot a queue calls its tail has no successor, as             *)
(* _map_slots_enqueue asserts (mem_heap.c:169), and no assertion stops the *)
(* kernel on memory that is a whole number of pages and more than one.     *)
HeapMapBuilt == pc # "panic"
=============================================================================
