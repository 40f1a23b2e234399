------------------------------- MODULE MmBoot -------------------------------
(***************************************************************************)
(* Which memory the mm/ bootstrap maps, frees and keeps: the memory map of *)
(* mm/mm_frame.c, mm_early_bootstrap and mm_bootstrap of mm/mm.c, and the  *)
(* bootstrap functions of mm/mm_page.c.                                    *)
(*                                                                         *)
(* Addresses are small numbers; SMALL and BIG stand for the 4K and the 2M  *)
(* page and GIG for what one early table maps.  Page tables are seen       *)
(* through what MmPage shows of them: the set of identity-mapped big       *)
(* pages, the high pages mapped, and the number of free frames.  Upper     *)
(* half addresses are page numbers behind VA_48_HIGH_START.                *)
(***************************************************************************)
EXTENDS Integers, Sequences, FiniteSets

CONSTANTS
    Machines,    \* what firmware and loader may report
    SMALL, BIG, GIG,
    SEC_MAX,     \* _PHY_MEM_SECTION_MAX
    EARLY_CAP,   \* _EARLY_FRAME_CAP
    CFG_LEN,     \* d_pcie_group_get_cfg_len()
    StackPages,  \* pages from VA_48_STACK_TOP to VA_48_STACK_BOTTOM
    PcieVa,      \* page of VA_48_PCIE_CFG_START
    PcieVaEnd    \* page of VA_48_PCIE_CFG_END

StackVa == 1                       \* VA_48_STACK_TOP, behind a guard page
FrameBufferVa == StackVa + StackPages + 1

ASSUME BootAssumption ==
    /\ {SMALL, BIG, GIG, CFG_LEN} \subseteq Nat \ {0}
    /\ BIG % SMALL = 0 /\ GIG % BIG = 0 /\ CFG_LEN % SMALL = 0
    /\ {SEC_MAX, EARLY_CAP, StackPages, PcieVa, PcieVaEnd} \subseteq Nat
    /\ FrameBufferVa <= PcieVa

align_up(a, to) == ((a + to - 1) \div to) * to

(* Configuration space starts at a big page.  A frame buffer that is too   *)
(* large for its window is found when the window behind it is mapped.      *)
ASSUME MachineAssumption ==
    \A m \in Machines :
        /\ m.mmap \in Seq([base : Nat, len : Nat, type : Nat])
        /\ {m.kernel.start, m.kernel.end, m.fb, m.fb_len} \subseteq Nat
        /\ m.groups \in Seq({g \in Nat : g % BIG = 0})
        /\ \/ m.groups # <<>>
           \/ FrameBufferVa + align_up(m.fb_len, SMALL) \div SMALL <= PcieVa

VARIABLES
    machine,     \* [mmap, kernel, fb, fb_len, groups]
    secs,        \* _phy_mem_secs
    n,           \* loop variable: an index, an address or a page
    early_used,  \* _early_frame_count
    early_end,   \* _early_map_end
    mapped,      \* identity-mapped big pages
    freed,       \* big pages whose frames were freed
    free_count,  \* _free_count
    high,        \* high page -> physical address
    why,         \* what stopped the kernel
    pc

vars == <<machine, secs, n, early_used, early_end, mapped, freed, free_count,
          high, why, pc>>
paging == <<early_used, early_end, mapped, freed, free_count, high>>

last(s) == s[Len(s)]
pa_start == secs[1].base
pa_end == last(secs).base + last(secs).len

pa_range_valid_end_only(start, end) == \E i \in DOMAIN secs : secs[i].base + secs[i].len > end
pa_range_valid(start, end) ==
    \E i \in DOMAIN secs : secs[i].base <= start /\ secs[i].base + secs[i].len > end

(* _bootstrap_pa_inside_pcie_cfg_space *)
inside_pcie_cfg(page) ==
    \E i \in DOMAIN machine.groups :
        page >= machine.groups[i] /\ page < machine.groups[i] + CFG_LEN
-----------------------------------------------------------------------------
Init ==
    /\ machine \in Machines
    /\ secs = <<>> /\ n = 1
    /\ early_used = 0 /\ early_end = 0
    /\ mapped = {} /\ freed = {} /\ free_count = 0
    /\ high = [va \in {} |-> 0]
    /\ why = "running"
    /\ pc = "mmap"

Panic(reason) ==
    /\ why' = reason /\ pc' = "panic"
    /\ UNCHANGED <<machine, secs, n, paging>>

(* _bootstrap_mmap_info, one entry.                                        *)
section_refused(e) == Len(secs) = SEC_MAX \/ (secs # <<>> /\ e.base <= pa_end)

mmap_entry ==
    LET e == machine.mmap[n] IN
    /\ pc = "mmap" /\ n <= Len(machine.mmap)
    /\ IF e.type = 1 /\ section_refused(e) THEN Panic("memory map")
       ELSE /\ secs' = IF e.type = 1 THEN Append(secs, [base |-> e.base, len |-> e.len])
                                     ELSE secs
            /\ n' = n + 1
            /\ UNCHANGED <<machine, paging, why, pc>>

(* _bootstrap_kernel_elf_symbols, and the assertions that open             *)
(* mm_page_early_bootstrap.                                                *)
kernel_elf ==
    LET k == machine.kernel IN
    /\ pc = "mmap" /\ n > Len(machine.mmap)
    /\ IF /\ secs # <<>>
          /\ pa_range_valid(k.start, k.end)
          /\ pa_start < k.start /\ pa_end > k.end /\ k.start < k.end
       THEN /\ n' = 0 /\ pc' = "early"
            /\ UNCHANGED <<machine, secs, paging, why>>
       ELSE Panic("kernel image")

(* _map_early(n, n): frames for the tables that are missing.  When none is *)
(* missing, `ok' is returned without having been assigned.                 *)
tables_missing == IF n = 0 THEN 2 ELSE IF n % GIG = 0 THEN 1 ELSE 0
map_early_ok ==
    IF tables_missing > 0 THEN {early_used + tables_missing <= EARLY_CAP} ELSE BOOLEAN

early_continues(page) == page + BIG < pa_end

map_early ==
    /\ pc = "early" /\ early_continues(n)
    /\ \E ok \in map_early_ok :
          /\ early_used' = IF early_used + tables_missing <= EARLY_CAP
                           THEN early_used + tables_missing ELSE EARLY_CAP
          /\ mapped' = IF ok THEN mapped \cup {n} ELSE mapped
          /\ n' = IF ok THEN n + BIG ELSE n
          /\ early_end' = IF ok THEN early_end ELSE n
          /\ pc' = IF ok THEN "early" ELSE "root"
    /\ UNCHANGED <<machine, secs, freed, free_count, high, why>>

map_early_end ==
    /\ pc = "early" /\ ~early_continues(n)
    /\ early_end' = n /\ pc' = "root"
    /\ UNCHANGED <<machine, secs, n, early_used, mapped, freed, free_count, high, why>>

(* _tab_root_load: from here on the code itself must be mapped.            *)
big_pages(start, end) == {p \in 0 .. end : p % BIG = 0 /\ p + BIG > start /\ p < end}
kernel_pages == big_pages(machine.kernel.start, machine.kernel.end)

root_load ==
    /\ pc = "root"
    /\ IF kernel_pages \subseteq mapped
       THEN pc' = "direct" /\ UNCHANGED <<machine, secs, n, paging, why>>
       ELSE Panic("kernel not mapped")

(* mm_frame_bootstrap and the opening of mm_page_bootstrap.  Where the     *)
(* tables of the direct-access window are placed is left out.              *)

first_unmapped_in_kernel == align_up(machine.kernel.start, BIG)
first_unmapped == align_up(machine.kernel.end + 1, BIG)

init_direct_access ==
    /\ pc = "direct"
    /\ IF machine.fb % BIG # 0 THEN Panic("frame buffer alignment")
       ELSE /\ n' = first_unmapped
            /\ pc' = "unmap"
            /\ UNCHANGED <<machine, secs, paging, why>>

(* The loop of mm_page_bootstrap.  The second condition compares fb with   *)
(* itself: nothing below the frame buffer is freed.                        *)
free_frame(page) ==
    /\ pa_range_valid(page, page + BIG)
    /\ \/ page > machine.fb + machine.fb_len
       \/ machine.fb + BIG < machine.fb

next_big(page) == page + BIG

unmap_big ==
    /\ pc = "unmap" /\ n + BIG < pa_end
    /\ IF inside_pcie_cfg(n)
       THEN n' = next_big(n) /\ UNCHANGED <<machine, secs, paging, why, pc>>
       ELSE IF n \notin mapped THEN Panic("not mapped")
       ELSE /\ mapped' = mapped \ {n}
            /\ freed' = IF free_frame(n) THEN freed \cup {n} ELSE freed
            /\ free_count' = free_count
                 + (IF free_frame(n) THEN BIG \div SMALL ELSE 0)
                 + (IF \A p \in mapped \ {n} : p \div GIG # n \div GIG THEN 1 ELSE 0)
            /\ n' = next_big(n)
            /\ UNCHANGED <<machine, secs, early_used, early_end, high, why, pc>>

unmap_end ==
    /\ pc = "unmap" /\ n + BIG >= pa_end
    /\ IF n # early_end THEN Panic("early map end")
       ELSE n' = 0 /\ pc' = "fb" /\ UNCHANGED <<machine, secs, paging, why>>

(* mm_page_map(va, pa): up to two tables are missing, and a spare frame is *)
(* taken even when none is.  Its caller asserts that it succeeds, or does  *)
(* not look; then the frames spent on tables stay spent.                   *)
Map(va, pa, frames, asserted) ==
    IF va \in DOMAIN high THEN Panic("mapped twice")
    ELSE \E missing \in 0 .. 2 :
            LET ok == frames >= missing /\ frames > 0 IN
            IF ~ok /\ asserted THEN Panic("no frame")
            ELSE /\ high' = IF ok THEN [v \in DOMAIN high \cup {va} |->
                                          IF v = va THEN pa ELSE high[v]]
                           ELSE high
                 /\ free_count' = IF ok THEN frames - missing ELSE 0
                 /\ n' = n + 1
                 /\ UNCHANGED <<machine, secs, early_used, early_end, mapped, freed,
                                why, pc>>

Go(phase) == n' = 0 /\ pc' = phase /\ UNCHANGED <<machine, secs, paging, why>>

(* _bootstrap_vesa_frame_buffer *)
fb_pages_rounded_down == machine.fb_len \div SMALL
fb_pages == align_up(machine.fb_len, SMALL) \div SMALL

bootstrap_frame_buffer ==
    /\ pc = "fb"
    /\ IF n < fb_pages THEN Map(FrameBufferVa + n, machine.fb + n * SMALL, free_count, TRUE)
       ELSE Go("pcie")

(* _bootstrap_pcie_cfg_space: all groups, one after the other.             *)
cfg_pages == CFG_LEN \div SMALL
bootstrap_pcie_cfg_space ==
    /\ pc = "pcie"
    /\ IF n = Len(machine.groups) * cfg_pages THEN Go("stack")
       ELSE IF PcieVa + n >= PcieVaEnd THEN Panic("no room for PCIe")
       ELSE Map(PcieVa + n,
                machine.groups[n \div cfg_pages + 1] + (n % cfg_pages) * SMALL, free_count, TRUE)

(* _bootstrap_stack_memory: a frame for the page (its address does not     *)
(* matter here), then the page; mm_page_map's result is dropped.           *)
frame_missing == free_count = 0

bootstrap_stack_memory ==
    /\ pc = "stack"
    /\ IF n = StackPages THEN Go("done")
       ELSE IF frame_missing THEN Panic("no frame")
       ELSE Map(StackVa + n, 0, free_count - 1, FALSE)

halt == pc \in {"done", "panic"} /\ UNCHANGED vars

Step == mmap_entry \/ kernel_elf \/ map_early \/ map_early_end \/ root_load
        \/ init_direct_access \/ unmap_big \/ unmap_end
        \/ bootstrap_frame_buffer \/ bootstrap_pcie_cfg_space \/ bootstrap_stack_memory

Next == Step \/ halt

Spec == Init /\ [][Next]_vars /\ WF_vars(Step)
-----------------------------------------------------------------------------
Cells(start, len) == start .. start + len - 1
Ram == UNION {Cells(machine.mmap[i].base, machine.mmap[i].len) :
                 i \in {j \in DOMAIN machine.mmap : machine.mmap[j].type = 1}}
Devices == Cells(machine.fb, machine.fb_len)
           \cup UNION {Cells(machine.groups[i], CFG_LEN) : i \in DOMAIN machine.groups}
KernelCells == machine.kernel.start .. machine.kernel.end - 1

(* A frame on the free list is RAM, and neither part of the kernel image   *)
(* nor of a device window: nothing a device or the running code uses is    *)
(* ever handed out.                                                        *)
FreedOnlySpare ==
    \A p \in freed : /\ Cells(p, BIG) \subseteq Ram \ (Devices \cup KernelCells)
                     /\ p \notin mapped

(* The kernel image and the PCIe configuration space stay identity-mapped  *)
(* while everything behind the kernel is unmapped.                         *)
KernelStaysMapped ==
    pc \in {"direct", "unmap", "fb", "pcie", "stack", "done"} =>
        /\ kernel_pages \subseteq mapped
        /\ \A p \in 0 .. early_end : p % BIG = 0 /\ p < early_end /\ inside_pcie_cfg(p)
                                        => p \in mapped

(* When bootstrap is done, frame buffer and configuration space are mapped *)
(* to the last byte, each page to its own address, the stack that the      *)
(* kernel moves to is mapped although the result of mm_page_map is dropped *)
(* (the page that starts at VA_48_STACK_BOTTOM is the only one that may    *)
(* miss), and the guard pages around the stack are not mapped.             *)
WindowsMapped ==
    pc = "done" =>
        /\ \A a \in Cells(machine.fb, machine.fb_len) :
              \E va \in DOMAIN high : va >= FrameBufferVa /\ va < PcieVa
                                      /\ high[va] = (a \div SMALL) * SMALL
        /\ \A i \in DOMAIN machine.groups : \A a \in Cells(machine.groups[i], CFG_LEN) :
              \E va \in DOMAIN high : va >= PcieVa /\ high[va] = (a \div SMALL) * SMALL
        /\ StackVa .. StackVa + StackPages - 2 \subseteq DOMAIN high
        /\ 0 \notin DOMAIN high /\ FrameBufferVa - 1 \notin DOMAIN high

(* The early mapping reached the end of memory.                            *)
EarlyComplete == early_end + BIG >= pa_end

(* mm_private.h: the whole physical address space is mapped in the early   *)
(* stage.                                                                  *)
WholeMemoryMapped ==
    pc \in {"root", "direct"} /\ early_used < EARLY_CAP => EarlyComplete
=============================================================================
