------------------------------ MODULE MemBoot ------------------------------
(***************************************************************************)
(* The memory manager that kernel_main boots: mem/mem.c, mem/mem_frame.c   *)
(* and mem/mem_page.c.                                                     *)
(*                                                                         *)
(* Addresses are small numbers.  A page table hierarchy is the set of its  *)
(* entries that point to a table, each named by its root, its level and    *)
(* the part of the address space it covers, and the function from mapped   *)
(* pages to physical addresses.  Frames are counted, not named: all of     *)
(* them come from an array inside the kernel image.                        *)
(***************************************************************************)
EXTENDS Integers, Sequences, FiniteSets

CONSTANTS
    Machines,      \* what firmware and loader may report
    SMALL,         \* PAGE_SIZE_4K
    ENTRIES,       \* _TAB_ENTRY_COUNT
    WORDS,         \* 64-bit words in a page
    LARGE_SECTION, \* sections up to this length are ignored, 8 MB
    PA_MAX,        \* pa_max, 1 TB
    SEC_CAP,       \* _SECTION_CAP
    FRAME_CAP,     \* _FRAME_CAP_BOOTSTRAP
    LIST_CAP,      \* _PA_LIST_CAP_BOOTSTRAP, in words
    FbVa, FbEnd,   \* VA_48_FRAME_BUFFER, VA_48_FRAME_BUFFER_END
    MapCalls,      \* the calls they make: [va, n_pg, list]
    MAX_CALLS      \* bound: client calls in a behaviour

BIG == SMALL * ENTRIES

ASSUME MemBootAssumption ==
    /\ \A k \in {SMALL, ENTRIES, WORDS} : k \in Nat \ {0}
    /\ \A k \in {LARGE_SECTION, PA_MAX, SEC_CAP, FRAME_CAP, LIST_CAP, MAX_CALLS} : k \in Nat
    /\ FbVa \in Nat /\ FbEnd \in Nat /\ PA_MAX <= FbVa /\ FbVa % SMALL = 0

(* scripts/linker.ld pads every loaded section to a page, so the part of   *)
(* the image that is in memory ends at a page; it and the frame buffer lie *)
(* below the last big page of the identity mapping.                        *)
ASSUME MachineAssumption ==
    \A m \in Machines :
        /\ m.mmap \in Seq([type : Nat, base : Nat, len : Nat])
        /\ {m.kernel.start, m.kernel.alloc_end, m.kernel.end, m.fb, m.fb_len} \subseteq Nat
        /\ \A c \in m.cfg : c.pa \in Nat /\ c.len \in Nat
        /\ m.kernel.alloc_end % SMALL = 0 /\ m.kernel.alloc_end <= m.kernel.end
        /\ m.kernel.end + BIG <= PA_MAX
        /\ m.fb + m.fb_len + BIG <= PA_MAX

ASSUME CallsAssumption ==
    \A c \in MapCalls : /\ c.va \in Nat /\ c.n_pg \in Nat
                        /\ c.list \in Seq([pa : Nat, n_pg : Nat])

VARIABLES
    machine,     \* [mmap, kernel, fb, fb_len, cfg]
    stage,       \* boot_stage
    secs,        \* _sections
    n,           \* loop variable
    frames,      \* _frame_count_bootstrap
    list_next,   \* _pa_list_bootstrap_next
    tables,      \* entries that point to a table
    leaf,        \* <<root, page>> -> physical address
    cr3,         \* the root that is loaded
    fb_addr,     \* d_vesa's _buf
    pa_len,      \* bytes in large sections
    frame_map,   \* [addr, pages], _frame_map and its length
    job,         \* arguments and loop variables of _map_impl
    calls,       \* client calls so far
    why,         \* the assertion that failed
    pc

vars == <<machine, stage, secs, n, frames, list_next, tables, leaf, cr3, fb_addr,
          pa_len, frame_map, job, calls, why, pc>>
paging == <<frames, list_next, tables, leaf, cr3>>
frame_vars == <<pa_len, frame_map>>

NoMap == [addr |-> 0, pages |-> 0]
NoJob == [root |-> "none", va |-> 0, n_pg |-> 0, list |-> <<>>, i |-> 0, idx |-> 1, page |-> 0,
          next |-> "none"]

Init ==
    /\ machine \in Machines
    /\ stage = 0 /\ secs = <<>> /\ n = 1 /\ frames = 0 /\ list_next = 0
    /\ tables = {} /\ leaf = <<>> /\ cr3 = "boot.asm" /\ fb_addr = 0
    /\ pa_len = 0 /\ frame_map = NoMap /\ job = NoJob /\ calls = 0 /\ why = "" /\ pc = "mmap"

Panic(reason) == pc' = "panic" /\ why' = reason
Go(label, first) == pc' = label /\ n' = first /\ UNCHANGED why
-----------------------------------------------------------------------------
(* mem_frame.c                                                             *)
SecEnd(s) == s.base + s.len
pa_start == secs[1].base
pa_end == SecEnd(secs[Len(secs)])

pa_range_overlaps_start_inside(a1, len1, a2, len2) == a1 <= a2 /\ a2 <= a1 + len1
pa_range_overlaps(a1, len1, a2, len2) == ~(a1 + len1 < a2 \/ a2 + len2 < a1)
pa_range_valid(start, end) ==
    \E i \in DOMAIN secs : secs[i].base <= start /\ SecEnd(secs[i]) > end

(* _bootstrap_mmap_info, one entry                                         *)
section_refused_adjacent(s) ==
    Len(secs) = SEC_CAP \/ s.base % SMALL # 0
section_refused(s) ==
    \/ Len(secs) = SEC_CAP
    \/ s.base % SMALL # 0
    \/ secs # <<>> /\ s.base <= pa_end

mmap_entry ==
    /\ pc = "mmap" /\ n <= Len(machine.mmap)
    /\ LET e == machine.mmap[n]
           s == [base |-> e.base, len |-> e.len]
       IN  IF e.type # 1 THEN Go("mmap", n + 1) /\ UNCHANGED secs
           ELSE IF section_refused(s) THEN Panic("section") /\ UNCHANGED <<secs, n>>
           ELSE secs' = Append(secs, s) /\ Go("mmap", n + 1)
    /\ UNCHANGED <<machine, stage, paging, fb_addr, frame_vars, job, calls>>

(* _bootstrap_kernel_elf_symbols, and what mem_page_bootstrap_1 asserts.   *)
kernel_elf ==
    /\ pc = "mmap" /\ n > Len(machine.mmap)
    /\ IF /\ secs # <<>>
          /\ pa_range_valid(machine.kernel.start, machine.kernel.end)
          /\ pa_start < machine.kernel.start
          /\ machine.kernel.end < pa_end
       THEN Go("map_1", 0)
       ELSE Panic("kernel") /\ UNCHANGED n
    /\ UNCHANGED <<machine, stage, secs, paging, fb_addr, frame_vars, job, calls>>

(* mem_frame_bootstrap_2: first loop, one section; its assertions are      *)
(* repeated by the second loop.                                            *)
sum_section ==
    /\ pc = "sum" /\ n <= Len(secs)
    /\ LET s == secs[n]
       IN  IF s.len <= LARGE_SECTION THEN Go("sum", n + 1) /\ UNCHANGED pa_len
           ELSE IF \/ \E c \in machine.cfg : pa_range_overlaps(s.base, s.len, c.pa, c.len)
                   \/ pa_range_overlaps(s.base, s.len, fb_addr, machine.fb_len)
                THEN Panic("section overlaps device") /\ UNCHANGED <<n, pa_len>>
           ELSE pa_len' = pa_len + s.len /\ Go("sum", n + 1)
    /\ UNCHANGED <<machine, stage, secs, paging, fb_addr, frame_map, job, calls>>

map_page_cnt(cap) == cap \div WORDS + 2

(* The rest: the frame map goes behind the first page of the first large   *)
(* section.                                                                *)
place_frame_map ==
    /\ pc = "sum" /\ n > Len(secs)
    /\ LET large == {i \in DOMAIN secs : secs[i].len > LARGE_SECTION}
           pages == map_page_cnt((pa_len \div SMALL) * 2)
       IN  IF large = {}
           THEN frame_map' = [NoMap EXCEPT !.pages = pages] /\ Go("map_2", 0)
           ELSE LET s == secs[CHOOSE i \in large : \A j \in large : i <= j]
                    addr == ((s.base + SMALL + SMALL - 1) \div SMALL) * SMALL
                IN  /\ frame_map' = [addr |-> addr, pages |-> pages]
                    /\ IF addr + pages * SMALL < SecEnd(s) THEN Go("map_2", 0)
                       ELSE Panic("frame map") /\ UNCHANGED n
    /\ UNCHANGED <<machine, stage, secs, paging, fb_addr, pa_len, job, calls>>
-----------------------------------------------------------------------------
(* mem_page.c                                                              *)
Pow[k \in Nat] == IF k = 0 THEN 1 ELSE ENTRIES * Pow[k - 1]
Span(lv) == SMALL * Pow[lv - 1]
entry(root, lv, va) == <<root, lv, va \div Span(lv)>>

(* The walk from level 4 down to the level above lowest: a frame for each  *)
(* table that is missing.                                                  *)
missing(root, va, lowest) == {entry(root, lv, va) : lv \in lowest + 1 .. 4} \ tables
frames_missing(root, va, lowest) == frames + Cardinality(missing(root, va, lowest)) > FRAME_CAP

(* What _map_bootstrap and _map_page do when no assertion fails; when one  *)
(* does the kernel stops, and the tables made on the way no longer matter. *)
install(root, va, pa, lowest) ==
    /\ tables' = tables \cup missing(root, va, lowest)
    /\ frames' = frames + Cardinality(missing(root, va, lowest))
    /\ leaf' = [x \in DOMAIN leaf \cup {<<root, va>>} |-> IF x = <<root, va>> THEN pa ELSE leaf[x]]

(* mem_page_bootstrap_1: identity mapping with big pages.                  *)
map_bootstrap ==
    /\ pc = "map_1" /\ n + BIG < PA_MAX
    /\ IF frames_missing("bootstrap", n, 2)
       THEN Panic("no frame") /\ UNCHANGED <<n, frames, tables, leaf>>
       ELSE install("bootstrap", n, n, 2) /\ Go("map_1", n + BIG)
    /\ UNCHANGED <<machine, stage, secs, list_next, cr3, fb_addr, frame_vars, job, calls>>

load_bootstrap ==
    /\ pc = "map_1" /\ n + BIG >= PA_MAX
    /\ cr3' = "bootstrap" /\ stage' = 1 /\ Go("devices", 0)
    /\ UNCHANGED <<machine, secs, frames, list_next, tables, leaf, fb_addr, frame_vars, job, calls>>

(* kernel_main between the two stages: d_vesa_bootstrap.                   *)
devices ==
    /\ pc = "devices"
    /\ fb_addr' = machine.fb /\ Go("sum", 1)
    /\ UNCHANGED <<machine, stage, secs, paging, frame_vars, job, calls>>

(* A list of ranges takes three words and two for each range.              *)
list_words(len) == 3 + 2 * len
Begin(root, va, n_pg, list, next) ==
    /\ job' = [NoJob EXCEPT !.root = root, !.va = va, !.n_pg = n_pg, !.list = list, !.next = next]
    /\ Go("map", 0)

(* The image is mapped from address 0 on.                                  *)
ker_n_page_of_image == (machine.kernel.end - machine.kernel.start) \div SMALL
ker_n_page == machine.kernel.end \div SMALL

(* mem_page_bootstrap_2 clears the root and maps the kernel image.         *)
map_kernel ==
    /\ pc = "map_2"
    /\ leaf' = [x \in {y \in DOMAIN leaf : y[1] # "tab_4"} |-> leaf[x]]
    /\ tables' = {e \in tables : e[1] # "tab_4"}
    /\ IF list_next + list_words(1) > LIST_CAP
       THEN Panic("list pool") /\ UNCHANGED <<n, list_next, job>>
       ELSE /\ list_next' = list_next + list_words(1)
            /\ Begin("tab_4", 0, ker_n_page, <<[pa |-> 0, n_pg |-> ker_n_page]>>, "frame_buffer")
    /\ UNCHANGED <<machine, stage, secs, frames, cr3, fb_addr, frame_vars, calls>>

(* The frame buffer's new address is announced before it is mapped.        *)
frame_buffer_refused == \/ fb_addr % SMALL # 0
                        \/ machine.fb_len % SMALL # 0
                        \/ machine.fb_len >= FbEnd - FbVa
frame_buffer_at_once ==
    /\ pc = "frame_buffer"
    /\ fb_addr' = FbVa
    /\ IF frame_buffer_refused THEN Panic("frame buffer") /\ UNCHANGED <<n, job>>
       ELSE LET pages == machine.fb_len \div SMALL
            IN  Begin("tab_4", FbVa, pages, <<[pa |-> fb_addr, n_pg |-> pages]>>, "load")
    /\ UNCHANGED <<machine, stage, secs, paging, frame_vars, calls>>
frame_buffer ==
    /\ pc = "frame_buffer"
    /\ IF frame_buffer_refused THEN Panic("frame buffer") /\ UNCHANGED <<n, job, fb_addr>>
       ELSE /\ fb_addr' = FbVa
            /\ LET pages == machine.fb_len \div SMALL
               IN  Begin("tab_4", FbVa, pages, <<[pa |-> fb_addr, n_pg |-> pages]>>, "load")
    /\ UNCHANGED <<machine, stage, secs, paging, frame_vars, calls>>

load_tab_4 ==
    /\ pc = "load"
    /\ cr3' = "tab_4" /\ stage' = 2 /\ Go("done", 0)
    /\ UNCHANGED <<machine, secs, frames, list_next, tables, leaf, fb_addr, frame_vars, job, calls>>

(* _map_impl, one iteration: the next page of the current range, or the    *)
(* next range.                                                             *)
page_taken_unchecked(root, va) == FALSE
page_taken(root, va) == <<root, va>> \in DOMAIN leaf
next_range_keeps_page == [job EXCEPT !.idx = @ + 1]
next_range_stuck == [job EXCEPT !.page = 0]
next_range == [job EXCEPT !.idx = @ + 1, !.page = 0]
map_impl ==
    LET va == job.va + job.i * SMALL
        pa == job.list[job.idx].pa + job.page * SMALL
    IN  /\ pc = "map" /\ job.i < job.n_pg
        /\ IF job.idx > Len(job.list)
           THEN Panic("range") /\ UNCHANGED <<frames, tables, leaf, job>>
           ELSE IF job.page >= job.list[job.idx].n_pg
           THEN job' = next_range /\ UNCHANGED <<frames, tables, leaf, pc, why>>
           ELSE IF frames_missing(job.root, va, 1) \/ page_taken(job.root, va)
           THEN Panic("map page") /\ UNCHANGED <<frames, tables, leaf, job>>
           ELSE /\ install(job.root, va, pa, 1)
                /\ job' = [job EXCEPT !.i = @ + 1, !.page = @ + 1]
                /\ UNCHANGED <<pc, why>>
        /\ UNCHANGED <<machine, stage, secs, n, list_next, cr3, fb_addr, frame_vars, calls>>

map_end ==
    /\ pc = "map" /\ job.i = job.n_pg
    /\ Go(job.next, 0)
    /\ UNCHANGED <<machine, stage, secs, paging, fb_addr, frame_vars, job, calls>>

(* A client builds a list, maps it and frees it, which gives nothing back. *)
list_pages(list) ==
    LET f[i \in 0 .. Len(list)] == IF i = 0 THEN 0 ELSE f[i - 1] + list[i].n_pg
    IN  f[Len(list)]
mem_page_map(c) ==
    /\ pc \in {"devices", "done"} /\ stage > 0 /\ calls < MAX_CALLS
    /\ calls' = calls + 1
    /\ IF list_next + list_words(Len(c.list)) > LIST_CAP
       THEN Panic("list pool") /\ UNCHANGED <<n, list_next, job>>
       ELSE /\ list_next' = list_next + list_words(Len(c.list))
            /\ IF c.va % SMALL # 0 \/ c.n_pg # list_pages(c.list)
               THEN Panic("list") /\ UNCHANGED <<n, job>>
               ELSE Begin("tab_4", c.va, c.n_pg, c.list, pc)
    /\ UNCHANGED <<machine, stage, secs, frames, tables, leaf, cr3, fb_addr, frame_vars>>

halt == pc \in {"done", "panic"} /\ UNCHANGED vars

Boot == mmap_entry \/ kernel_elf \/ map_bootstrap \/ load_bootstrap \/ devices
        \/ sum_section \/ place_frame_map \/ map_kernel \/ frame_buffer \/ load_tab_4
        \/ map_impl \/ map_end
Next == Boot \/ (\E c \in MapCalls : mem_page_map(c)) \/ halt

(* Nothing else runs: interrupts are off, so bootstrap goes on.            *)
Spec == Init /\ [][Next]_vars /\ WF_vars(Boot)
-----------------------------------------------------------------------------
Cells(a, len) == a .. a + len - 1
FbCells == Cells(machine.fb, machine.fb_len)
CfgCells == UNION {Cells(c.pa, c.len) : c \in machine.cfg}
MapCells == Cells(frame_map.addr, frame_map.pages * SMALL)
PageSize(root) == IF root = "bootstrap" THEN BIG ELSE SMALL
(* What the CPU sees at address a; boot.asm maps what kernel_main needs.   *)
Translates(a, pa) ==
    LET page == (a \div PageSize(cr3)) * PageSize(cr3)
    IN  cr3 = "boot.asm" \/ (<<cr3, page>> \in DOMAIN leaf /\ leaf[<<cr3, page>>] + (a - page) = pa)

(* Types and limits of the bootstrap state.                                *)
TypeOK ==
    /\ stage \in 0 .. 2 /\ Len(secs) <= SEC_CAP /\ frames \in 0 .. FRAME_CAP
    /\ list_next \in 0 .. LIST_CAP /\ n \in Nat
    /\ \A i \in 2 .. Len(secs) : SecEnd(secs[i - 1]) < secs[i].base
    /\ cr3 \in {"boot.asm", "bootstrap", "tab_4"}
    /\ pc \in {"mmap", "map_1", "devices", "sum", "map_2", "map", "frame_buffer", "load",
               "done", "panic"}

(* Whichever root is loaded, the code, data, stack and page tables of the  *)
(* kernel are at their physical addresses: the instruction after the load  *)
(* of cr3 can be fetched.                                                  *)
KernelReachable ==
    \A a \in machine.kernel.start .. machine.kernel.alloc_end - 1 : Translates(a, a)

(* The frame pool ran out while the frame buffer was being mapped.         *)
Starved == /\ pc = "panic" /\ job.next = "load"
           /\ frames_missing("tab_4", FbVa + job.i * SMALL, 1)

(* The console is where the driver believes it to be whenever something is *)
(* logged: before and after bootstrap, and in a failed assertion, although *)
(* d_vesa_set_frame_buffer comes before the mapping and the new root. The  *)
(* one failure whose report goes to an unmapped address is named.          *)
ConsoleReachable ==
    /\ fb_addr # 0 /\ pc \in {"devices", "sum", "map_2", "done", "panic"}
    /\ ~Starved
    => \A i \in 0 .. machine.fb_len - 1 : Translates(fb_addr + i, machine.fb + i)

(* Once the frame map is placed, no memory that counts as usable shares a  *)
(* byte with a device, and if there is any such memory the map lies in it  *)
(* and holds two words for each of its pages and a page more.              *)
FrameMapFits ==
    pc \in {"map_2", "frame_buffer", "load"} /\ pa_len > 0 =>
        /\ frame_map.pages * WORDS >= 2 * (pa_len \div SMALL) + WORDS
        /\ \E i \in DOMAIN secs : MapCells \subseteq Cells(secs[i].base, secs[i].len)
        /\ MapCells \cap (FbCells \cup CfgCells) = {}
        /\ \A i \in DOMAIN secs : secs[i].len > LARGE_SECTION =>
              Cells(secs[i].base, secs[i].len) \cap (FbCells \cup CfgCells) = {}

(* The pages of a list of ranges one by one: those of its first i ranges   *)
(* for each i, and all of them.                                            *)
FlatUpTo(list) ==
    LET f[i \in 0 .. Len(list)] ==
            IF i = 0 THEN <<>>
            ELSE f[i - 1] \o [k \in 1 .. list[i].n_pg |-> list[i].pa + (k - 1) * SMALL]
    IN  f
Flat(list) == FlatUpTo(list)[Len(list)]

(* A translation of the loaded root is never changed or lost, so no TLB    *)
(* entry needs to be flushed; and _map_impl leads the i-th page of the     *)
(* virtual range to the i-th page of the list, across ranges and through   *)
(* empty ones.                                                             *)
LoadedRootOnlyGrows ==
    [][/\ \A x \in DOMAIN leaf : x[1] = cr3 => x \in DOMAIN leaf' /\ leaf'[x] = leaf[x]
       /\ pc = "map" => \A i \in job.i .. job'.i - 1 :
             leaf'[<<job.root, job.va + i * SMALL>>] = Flat(job.list)[i + 1]]_vars

(* Bootstrap and every mapping come to an end, in success or in a failed   *)
(* assertion.                                                              *)
CallsEnd == []<>(pc \in {"done", "panic"})
=============================================================================
