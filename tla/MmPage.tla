------------------------------- MODULE MmPage -------------------------------
(***************************************************************************)
(* Paging of mm/mm_page.c and the frame list of mm/mm_frame.c.             *)
(*                                                                         *)
(* Physical memory is one variable: a frame is FAN words, and a word is a  *)
(* page table entry, the link of a free frame, or data.  Tables, free list *)
(* and data therefore overlay each other as they do in the machine.  Every *)
(* access goes through a virtual address, by the TLB or by a walk of the   *)
(* tables: client pages, and the one-page window of                        *)
(* mm_page_direct_access_setup, whose entry lies in the tables themselves. *)
(*                                                                         *)
(* A virtual page is the tuple of its four table indices, level 4 first.   *)
(* Init is the state after mm_page_early_bootstrap and                     *)
(* _init_direct_access: identity-mapped huge pages below, the window       *)
(* above.  mm_page_bootstrap then unmaps the huge pages behind the kernel, *)
(* and clients map and unmap single pages.                                 *)
(*                                                                         *)
(* Nothing preempts these functions (the interrupt handlers do not touch   *)
(* memory management), so one action is one loop iteration and only call   *)
(* boundaries are shared.  A definition with a suffix (tlb_flush_nothing,  *)
(* ...) is a plausible mistake in the definition it precedes.              *)
(***************************************************************************)
EXTENDS Integers, FiniteSets

CONSTANTS
    FAN,         \* words per frame, entries per table, frames per huge page
    HUGES,       \* huge pages of the identity mapping, the kernel in page 0
    KeptHuges,   \* those in PCIe configuration space, which stay mapped
    FreedHuges,  \* those whose frames mm_page_bootstrap frees
    VAs,         \* the pages clients map
    MaxHeld      \* bound: frames allocated and not yet mapped

ASSUME PageAssumption ==
    /\ FAN \in Nat /\ FAN > 1
    /\ HUGES \in 1 .. FAN * FAN
    /\ KeptHuges \subseteq 1 .. HUGES - 1
    /\ FreedHuges \subseteq (1 .. HUGES - 1) \ KeptHuges
    /\ VAs \subseteq (1 .. FAN - 1) \X (0 .. FAN - 1) \X (0 .. FAN - 1) \X (0 .. FAN - 1)
    /\ <<FAN - 1, 0, 0, 0>> \notin VAs     \* the window is mm_page.c's own
    /\ MaxHeld \in Nat

NULL == 0
Idx == 0 .. FAN - 1
Lowest == 1
Highest == 4

(* Frames of RAM, numbered by address, and the frames of the kernel image: *)
(* _tab_4, the early pool's level 3 and level 2 tables, _direct_tab[2..0]. *)
Ram == FAN .. HUGES * FAN - 1
ROOT == HUGES * FAN
EARLY3 == ROOT + 1
EARLY2(k) == ROOT + 2 + k
DT3 == EARLY2(FAN)
DT2 == DT3 + 1
DT1 == DT3 + 2
Early == {EARLY2(k) : k \in 0 .. (HUGES - 1) \div FAN}
Kernel == {ROOT, EARLY3, DT3, DT2, DT1}
Frames == Ram \cup Early \cup Kernel

WIN == <<FAN - 1, 0, 0, 0>>                     \* VA_48_DIRECT_ACCESS_PAGE
huge_va(k) == <<0, k \div FAN, k % FAN, 0>>
idx(va, lv) == va[Highest + 1 - lv]             \* _vadd_tab_index

VARIABLES
    mem,         \* frame -> index -> word
    free_head,   \* _free_head
    free_count,  \* _free_count
    tlb,         \* page -> frame the TLB caches for it, or NULL
    held,        \* frames a client has allocated and not mapped
    failed,      \* some mm_page_map ran out of frames
    boot,        \* the next huge page mm_page_bootstrap unmaps
    call,        \* the locals of the running function
    pc

vars == <<mem, free_head, free_count, tlb, held, failed, boot, call, pc>>
-----------------------------------------------------------------------------
(* Words.  A link is an address without the present bit.                   *)
Word == [present : BOOLEAN, huge : BOOLEAN, pa : 0 .. DT1]
Zero == [present |-> FALSE, huge |-> FALSE, pa |-> 0]
link(pa) == [Zero EXCEPT !.pa = pa]
tab_entry(pa) == [Zero EXCEPT !.present = TRUE, !.pa = pa]
huge_entry(pa) == [tab_entry(pa) EXCEPT !.huge = TRUE]
Data == link(1)

tab_zero(m, f) == [m EXCEPT ![f] = [i \in Idx |-> Zero]]
tab_is_zero(m, f) == \A i \in Idx : m[f][i] = Zero

(* The table an entry leads to, and the tables a walk of va passes:        *)
(* Path(va)[lv].  An entry that is not there leads to NULL, whose frame    *)
(* reads as zeros.                                                         *)
Leads == [w \in Word |-> IF w.present /\ ~w.huge /\ w.pa \in Frames THEN w.pa ELSE NULL]
Path(va) ==
    LET t3 == Leads[mem[ROOT][va[1]]]
        t2 == Leads[mem[t3][va[2]]]
    IN  <<Leads[mem[t2][va[3]]], t2, t3, ROOT>>

(* What the hardware makes of va: the frame, or NULL for a page fault.     *)
Translate(va) ==
    LET p  == Path(va)
        w1 == mem[p[1]][idx(va, 1)]
        w2 == mem[p[2]][idx(va, 2)]
    IN  IF w1.present THEN w1.pa
        ELSE IF w2.present /\ w2.huge THEN w2.pa + idx(va, 1)
        ELSE NULL
Via(va) == IF tlb[va] # NULL THEN tlb[va] ELSE Translate(va)

(* mm_page_direct_access_setup and _reset, and the frame reached between   *)
(* them.                                                                   *)
setup(m, f) == [m EXCEPT ![DT1][idx(WIN, 1)] = tab_entry(f)]
reset(m) == [m EXCEPT ![DT1][idx(WIN, 1)] = Zero]
reset_tlb(t, f) == [t EXCEPT ![WIN] = NULL]
reached(f) == IF tlb[WIN] # NULL THEN tlb[WIN] ELSE IF Path(WIN)[1] = DT1 THEN f ELSE NULL
(* The assertion of setup, and no page fault behind it.                    *)
accessible(f) == mem[DT1][idx(WIN, 1)] = Zero /\ reached(f) # NULL

(* mm_frame_free(va, pa) where va reaches frame f.                         *)
frame_free(m, f, head) == [m EXCEPT ![f][0] = link(head)]
-----------------------------------------------------------------------------
Idle == [va |-> WIN, pa |-> NULL, lv |-> 0, tab |-> [lv \in 0 .. 4 |-> NULL],
         frame |-> NULL, ok |-> TRUE, huge |-> FALSE, free |-> FALSE]

Init ==
    /\ mem = [f \in Frames \cup {NULL} |-> [i \in Idx |->
          CASE f = ROOT /\ i = 0                 -> tab_entry(EARLY3)
            [] f = ROOT /\ i = FAN - 1           -> tab_entry(DT3)
            [] f = EARLY3 /\ EARLY2(i) \in Early -> tab_entry(EARLY2(i))
            [] f \in Early /\ (f - EARLY2(0)) * FAN + i < HUGES ->
                 huge_entry(((f - EARLY2(0)) * FAN + i) * FAN)
            [] f = DT3 /\ i = 0                  -> tab_entry(DT2)
            [] f = DT2 /\ i = 0                  -> tab_entry(DT1)
            [] f \in Ram                         -> Data
            [] OTHER                             -> Zero]]
    /\ free_head = NULL
    /\ free_count = 0
    /\ tlb = [va \in VAs \cup {WIN} \cup {huge_va(k) : k \in 0 .. HUGES - 1} |-> NULL]
    /\ held = {}
    /\ failed = FALSE
    /\ boot = 1
    /\ call = Idle
    /\ pc = "boot"

(* A failed assertion or a page fault never returns.                       *)
Panic == pc' = "panic" /\ UNCHANGED <<mem, free_head, free_count, tlb, held, failed, boot, call>>

(* mm_frame_alloc: the head of the list, its link read through the window. *)
next_free == mem[reached(free_head)][0].pa

count_taken_forgotten(count) == count
count_taken(count) == count - 1

(* A client takes a frame.                                                 *)
mm_frame_alloc ==
    /\ pc = "idle" /\ Cardinality(held) < MaxHeld /\ free_head # NULL
    /\ IF ~accessible(free_head) THEN Panic
       ELSE /\ held' = held \cup {free_head}
            /\ free_head' = next_free
            /\ free_count' = count_taken(free_count)
            /\ tlb' = reset_tlb(tlb, free_head)
            /\ UNCHANGED <<mem, failed, boot, call, pc>>

(* A client reads and writes its page.                                     *)
use(va) ==
    /\ pc = "idle" /\ Translate(va) # NULL
    /\ tlb' = [tlb EXCEPT ![va] = Via(va)]
    /\ mem' = [mem EXCEPT ![Via(va)] = [i \in Idx |-> Data]]
    /\ UNCHANGED <<free_head, free_count, held, failed, boot, call, pc>>
-----------------------------------------------------------------------------
(* mm_page_map(va, pa), for a page that is not mapped.                     *)
mm_page_map(va, pa) ==
    /\ pc = "idle" /\ Translate(va) = NULL
    /\ call' = [Idle EXCEPT !.va = va, !.pa = pa, !.lv = 4, !.tab[4] = ROOT]
    /\ pc' = "map_frame"
    /\ UNCHANGED <<mem, free_head, free_count, tlb, held, failed, boot>>

(* Top of the loop: hold a zeroed frame before a table is opened.          *)
map_frame ==
    /\ pc = "map_frame"
    /\ \/ /\ call.frame # NULL
          /\ pc' = "map_entry"
          /\ UNCHANGED <<mem, free_head, free_count, tlb, held, failed, boot, call>>
       \/ /\ call.frame = NULL /\ free_head = NULL
          /\ call' = [call EXCEPT !.ok = FALSE]
          /\ failed' = TRUE
          /\ pc' = "map_back"
          /\ UNCHANGED <<mem, free_head, free_count, tlb, held, boot>>
       \/ /\ call.frame = NULL /\ free_head # NULL
          /\ IF ~accessible(free_head) THEN Panic
             ELSE /\ call' = [call EXCEPT !.frame = free_head]
                  /\ free_head' = next_free
                  /\ free_count' = count_taken(free_count)
                  /\ mem' = tab_zero(mem, reached(free_head))
                  /\ tlb' = reset_tlb(tlb, free_head)
                  /\ pc' = "map_entry"
                  /\ UNCHANGED <<held, failed, boot>>

(* The rest of the loop: enter the table below, linking the frame when     *)
(* there is none.                                                          *)
map_entry_frame_lost(frame, was_present) == NULL
map_entry_frame_kept(frame, was_present) == frame
map_entry_frame(frame, was_present) == IF was_present THEN frame ELSE NULL

lower_same(lv) == lv
lower(lv) == lv - 1

map_entry ==
    LET t == call.tab[call.lv]
        i == idx(call.va, call.lv)
        w == setup(mem, t)[reached(t)][i]
        linked == IF w.present THEN w ELSE tab_entry(call.frame)
    IN  /\ pc = "map_entry"
        /\ IF ~accessible(t) \/ (~w.present /\ (w # Zero \/ call.frame = NULL)) THEN Panic
           ELSE /\ mem' = reset([setup(mem, t) EXCEPT ![reached(t)][i] = linked])
                /\ tlb' = reset_tlb(tlb, t)
                /\ call' = [call EXCEPT !.frame = map_entry_frame(@, w.present),
                                        !.lv = lower(@), !.tab[call.lv - 1] = linked.pa]
                /\ pc' = IF lower(call.lv) > Lowest THEN "map_frame" ELSE "map_leaf"
                /\ UNCHANGED <<free_head, free_count, held, failed, boot>>

map_leaf ==
    LET t == call.tab[1]
        i == idx(call.va, 1)
    IN  /\ pc = "map_leaf"
        /\ IF ~accessible(t) \/ setup(mem, t)[reached(t)][i] # Zero THEN Panic
           ELSE /\ mem' = reset([setup(mem, t) EXCEPT ![reached(t)][i] = tab_entry(call.pa)])
                /\ tlb' = reset_tlb(tlb, t)
                /\ held' = held \ {call.pa}
                /\ pc' = "map_back"
                /\ UNCHANGED <<free_head, free_count, failed, boot, call>>

(* Give back the frame that was not needed.                                *)
map_back ==
    /\ pc = "map_back"
    /\ IF call.frame = NULL
       THEN /\ call' = Idle /\ pc' = "idle"
            /\ UNCHANGED <<mem, free_head, free_count, tlb, held, failed, boot>>
       ELSE IF ~accessible(call.frame) THEN Panic
       ELSE /\ mem' = reset(frame_free(setup(mem, call.frame), reached(call.frame), free_head))
            /\ free_head' = call.frame
            /\ free_count' = free_count + 1
            /\ tlb' = reset_tlb(tlb, call.frame)
            /\ call' = Idle /\ pc' = "idle"
            /\ UNCHANGED <<held, failed, boot>>
-----------------------------------------------------------------------------
(* _unmap: the walk down to the page, checking every entry.                *)
unmap_walk ==
    LET p == Path(call.va)
        huge == p[1] = NULL
        bottom == IF huge THEN 2 ELSE 1
    IN  /\ pc = "unmap_walk"
        /\ IF \/ \E lv \in bottom .. 4 : p[lv] = NULL \/ ~accessible(p[lv])
              \/ ~mem[p[bottom]][idx(call.va, bottom)].present
              \/ huge # call.huge
           THEN Panic
           ELSE /\ call' = [call EXCEPT !.lv = bottom,
                       !.pa = mem[p[bottom]][idx(call.va, bottom)].pa,
                       !.tab = [lv \in 0 .. 4 |-> IF lv < bottom THEN NULL ELSE p[lv]]]
                /\ tlb' = reset_tlb(tlb, ROOT)
                /\ pc' = "unmap_leaf"
                /\ UNCHANGED <<mem, free_head, free_count, held, failed, boot>>

(* Free the frame, or the frames of the huge page in ascending order, each *)
(* through the page that is about to go.                                   *)
unmap_leaf ==
    LET n == IF call.huge THEN FAN ELSE 1
        target(j) == IF call.huge THEN Translate([call.va EXCEPT ![4] = j])
                                  ELSE Via(call.va)
        head(j) == IF j = 0 THEN free_head ELSE call.pa + j - 1
    IN  /\ pc = "unmap_leaf"
        /\ IF call.free /\ \E j \in 0 .. n - 1 : target(j) \notin Frames THEN Panic
           ELSE /\ IF call.free
                   THEN /\ mem' = [f \in DOMAIN mem |->
                              IF \E j \in 0 .. n - 1 : f = target(j)
                              THEN [mem[f] EXCEPT ![0] =
                                      link(head(CHOOSE j \in 0 .. n - 1 : f = target(j)))]
                              ELSE mem[f]]
                        /\ free_head' = call.pa + n - 1
                        /\ free_count' = free_count + n
                   ELSE UNCHANGED <<mem, free_head, free_count>>
                /\ pc' = "unmap_table"
                /\ UNCHANGED <<tlb, held, failed, boot, call>>

(* One turn of the way up: clear the entry, free the table if that was its *)
(* last one.                                                               *)
table_goes_whenever_cleared(m, f) == TRUE
table_goes(m, f) == tab_is_zero(m, f)

unmap_table ==
    LET t == call.tab[call.lv]
        m == [setup(mem, t) EXCEPT ![reached(t)][idx(call.va, call.lv)] = Zero]
        goes == table_goes(m, reached(t))
    IN  /\ pc = "unmap_table"
        /\ IF ~accessible(t) THEN Panic
           ELSE /\ mem' = reset(IF goes THEN frame_free(m, reached(t), free_head) ELSE m)
                /\ free_head' = IF goes THEN t ELSE free_head
                /\ free_count' = IF goes THEN free_count + 1 ELSE free_count
                /\ tlb' = reset_tlb(tlb, t)
                /\ call' = [call EXCEPT !.lv = @ + 1]
                /\ pc' = IF goes /\ call.lv < Highest THEN "unmap_table" ELSE "unmap_flush"
                /\ UNCHANGED <<held, failed, boot>>

tlb_flush_nothing(t, va) == t
tlb_flush(t, va) == [t EXCEPT ![va] = NULL]

unmap_flush ==
    /\ pc = "unmap_flush"
    /\ tlb' = tlb_flush(tlb, call.va)
    /\ call' = Idle
    /\ pc' = IF boot <= HUGES THEN "boot" ELSE "idle"
    /\ UNCHANGED <<mem, free_head, free_count, held, failed, boot>>

unmap(va, huge, free) ==
    /\ call' = [Idle EXCEPT !.va = va, !.huge = huge, !.free = free]
    /\ pc' = "unmap_walk"
    /\ UNCHANGED <<mem, free_head, free_count, tlb, held, failed>>

(* A client unmaps its page and frees the frame, as _test_paging does.     *)
unmap_page(va) ==
    pc = "idle" /\ Translate(va) # NULL /\ unmap(va, FALSE, TRUE) /\ UNCHANGED boot

(* The loop of mm_page_bootstrap.                                          *)
mm_page_bootstrap ==
    /\ pc = "boot"
    /\ boot' = boot + 1
    /\ \/ /\ boot \in (1 .. HUGES - 1) \ KeptHuges
          /\ unmap(huge_va(boot), TRUE, boot \in FreedHuges)
       \/ /\ boot \in KeptHuges \cup {HUGES}
          /\ pc' = IF boot = HUGES THEN "idle" ELSE "boot"
          /\ UNCHANGED <<mem, free_head, free_count, tlb, held, failed, call>>

Step == map_frame \/ map_entry \/ map_leaf \/ map_back
        \/ unmap_walk \/ unmap_leaf \/ unmap_table \/ unmap_flush \/ mm_page_bootstrap

Next ==
    \/ Step
    \/ mm_frame_alloc
    \/ \E va \in VAs : use(va) \/ unmap_page(va) \/ \E pa \in held : mm_page_map(va, pa)

(* A running function keeps running: there is one CPU and no preemption.   *)
Spec == Init /\ [][Next]_vars /\ WF_vars(Step)
-----------------------------------------------------------------------------
(* The free list, following the links: the frame n links behind the head,  *)
(* or NULL, for more links than there are frames.                          *)
FreeAt[n \in 0 .. Cardinality(Frames)] ==
    IF n = 0 THEN free_head
    ELSE IF FreeAt[n - 1] \in Frames THEN mem[FreeAt[n - 1]][0].pa ELSE NULL
FreeLinks == LET at == FreeAt IN {n \in DOMAIN at : at[n] # NULL}
Free == LET at == FreeAt IN {at[n] : n \in DOMAIN at} \ {NULL}

Children(tabs) == {Leads[mem[t][i]] : t \in tabs, i \in Idx} \ {NULL}
UpperTables == LET c3 == Children({ROOT}) IN {ROOT} \cup c3 \cup Children(c3)
Tables == UpperTables \cup Children(UpperTables)
Mapped == {Translate(va) : va \in VAs} \ {NULL}

(* The early tables that still map something after bootstrap.              *)
KeptEarly == {EARLY2(k \div FAN) : k \in {0} \cup KeptHuges}

AtRest == pc \in {"boot", "idle"}

(* Types of the paging state.                                              *)
TypeOK ==
    /\ mem \in [Frames \cup {NULL} -> [Idx -> Word]]
    /\ free_head \in Frames \cup {NULL}
    /\ free_count \in 0 .. Cardinality(Ram \cup Early)
    /\ \A va \in DOMAIN tlb : tlb[va] \in Frames \cup {NULL}
    /\ held \subseteq Ram \cup Early
    /\ boot \in 1 .. HUGES + 1
    /\ call.frame \in Frames \cup {NULL}

(* Between calls every frame has one role: on the free list once, a table  *)
(* reached by one entry only, behind one client page, or allocated.  The   *)
(* kernel's own tables stay tables; in particular the table that holds the *)
(* window's entry, and the root, are never found empty and freed.          *)
FramesAccounted ==
    LET tabs == Tables
        free == Free
    IN  AtRest =>
        /\ free_count = Cardinality(FreeLinks)
        /\ free_count = Cardinality(free)
        /\ free \cap (tabs \cup Mapped \cup held) = {}
        /\ tabs \cap (Mapped \cup held) = {}
        /\ Mapped \cap held = {}
        /\ Kernel \subseteq tabs
        /\ \A va, vb \in VAs : Translate(va) # NULL /\ va # vb
                                  => Translate(va) # Translate(vb)
        /\ Cardinality({e \in UpperTables \X Idx : Leads[mem[e[1]][e[2]]] # NULL})
              = Cardinality(tabs \ {ROOT})

(* A mapped page that the TLB remembers is remembered right, and the       *)
(* window is closed: no later access reaches a frame that went elsewhere.  *)
NoStaleTranslation ==
    AtRest =>
        /\ mem[DT1][idx(WIN, 1)] = Zero /\ tlb[WIN] = NULL
        /\ \A va \in DOMAIN tlb : tlb[va] # NULL => tlb[va] = Translate(va)

(* What _test_paging asserts of one run, for all: with every client page   *)
(* unmapped and nothing held, the free list is as long as after bootstrap, *)
(* unless a mapping ran out of frames half way.  That costs at most the    *)
(* empty tables on the way, which stay linked: no frame is ever lost.      *)
NoFrameLost ==
    pc = "idle" =>
        /\ Free \cup Mapped \cup held \cup (Tables \ Kernel) =
              Early \cup {f \in Ram : f \div FAN \in FreedHuges}
        /\ Mapped = {} /\ held = {} /\ ~failed =>
              /\ Tables = Kernel \cup KeptEarly
              /\ free_count = FAN * Cardinality(FreedHuges) + Cardinality(Early \ KeptEarly)

(* Every call returns.  In particular, with clients that map free pages    *)
(* and unmap mapped ones no assertion of these functions fails and no      *)
(* table access faults, whatever the clients wrote into their pages before *)
(* the frames came back.                                                   *)
CallReturns == []<>(pc = "idle")

(* The call that PageAbs sees: a client's call takes effect when its page  *)
(* gets its entry, or loses it in the first turn of unmap_table.           *)
AbsOp ==
    IF call.huge \/ pc \in {"boot", "idle", "panic"} THEN "none"
    ELSE CASE pc \in {"map_frame", "map_entry", "map_leaf"} -> "map"
           [] pc \in {"unmap_walk", "unmap_leaf"}           -> "unmap"
           [] pc = "unmap_table" -> IF call.lv = Lowest THEN "unmap" ELSE "return"
           [] pc \in {"map_back", "unmap_flush"}            -> "return"

(* The translations the hardware sees change as PageAbs allows: mm_page_map *)
(* and _unmap change their own page, once, and nothing else ever does.     *)
Abs == INSTANCE PageAbs WITH
    pmap <- [va \in VAs |-> Translate(va)],
    req <- [op |-> AbsOp,
            page |-> IF AbsOp \in {"map", "unmap"} THEN call.va ELSE NULL,
            frame |-> IF AbsOp = "map" THEN call.pa ELSE NULL],
    Page <- VAs, Frame <- Ram \cup Early
ImplementsPageAbs == Abs!Spec
=============================================================================
