# A TLA+ model of the cing kernel

cing (its boot message says *cold_spot*) is a single-CPU x86-64 kernel: boot code, two memory
managers, interrupts, a console and a few drivers. This directory holds TLA+ modules that model its
core, TLC configurations that check them on small instances, and TLAPS proofs of the safety
properties of all but one of them for all sizes. Paths below are relative to `src/src/` of the repository.

How to run: `tlc -config MCMmHeap.cfg MCMmHeap` (each run's module and configuration are in
`PROJECT.json`), and `tlapm MmHeapProofs.tla` or another of the modules of section 4.

## 1. The system

| Component | State | Operations | Talks to |
|---|---|---|---|
| boot code, `boot/` | 1 GB identity mapping, GDT, one page of stack | enter long mode, call `kernal_main` | everything starts here |
| boot order, `kernel/kernel_main.c` | saved multiboot tags | parse tags, call each component's bootstrap | all |
| panic, `kernel/kernel_panic.c` | none | print, log, `hlt` for ever | screen, log |
| heap, `mm/mm_heap.c` | block headers inside the heap, one free list per class | `mm_heap_alloc`, `mm_heap_free`; split, coalesce, expand | frames, paging |
| region allocators, `mm/mm_allocator.c` | areas, guard words, recycled allocator structures | `mm_allocator_new`, `mm_allocate`, `mm_allocator_free` | heap |
| frames, `mm/mm_frame.c` | memory sections, early pool, free list threaded through the frames | allocate, free, both bootstraps | paging |
| paging, `mm/mm_page.c` | four levels of tables, a one-page window for reaching frames, TLB | map, unmap, bootstrap | frames, VESA, PCIe |
| booted memory manager, `mem/mem.c`, `mem_frame.c`, `mem_page.c` | boot stage, sections, frame pool, lists of ranges, two roots | `mem_bootstrap_1`, `_2`, `mem_page_map` | VESA, PCIe |
| page heap, `mem/mem_heap.c` | a map of slots, queues of them for spare slots and for each class | `mem_heap_new_bootstrap`; no caller yet | |
| interrupts, `interrupts/` | IDT, `handlers[]`, 8259 pair | init, enable, disable, register, dispatch | timer, keyboard |
| console, `log/`, `video/`, `drivers_vesa.c`, `drivers_screen.c`, `drivers_serial.c` | cursor, frame buffer address and geometry | log lines, draw characters | every component logs |
| panels and tui | a ring of text rows | write row, draw | screen |
| discovery, `drivers_acpi.c`, `drivers_pcie.c`, `drivers_nvme.c` | tables of groups, functions, controllers | scan | memory managers read the windows |
| strings and utilities | none | formatting into a buffer, powers, logarithms | every line that is logged |

There are two memory managers. `mm/` is complete and has self tests, but `kernal_main` no longer
calls `mm_bootstrap`; `mem/` is its unfinished successor and is the one that boots. Both are modelled.

What is hard here. The kernel has no locks and no second thread, so calls into the memory managers
do not interleave; what interleaves is interrupts with the thread and with each other. The
memory managers are hard because they work on the memory they manage: a frame is a table, a link of
the free list or data depending on history, tables are reached through a mapping stored in
themselves, and heap headers live next to stale headers. Bootstrap is hard because the ground moves:
roots, stack and frame buffer change address while code runs and may log or fail, and tables of fixed size are
filled from what firmware says. And failed
assertions are the only error handling, so *which* assertion can fail is itself a property.

`PROJECT.json` lists the hazards with the lines where they bite and the properties about them.

## 2. Modules

| Module | Models | Runs |
|---|---|---|
| `UtilMath` | logarithms of `util/util_math.c` | |
| `MmHeap` | `mm/mm_heap.c`; one action per step of the two recursions | `heap` |
| `HeapAbs` | what a heap promises: grants inside the heap, long enough, disjoint | refined by `MmHeap` |
| `MmAllocator` | `mm/mm_allocator.c` over the heap's interface | `allocator` |
| `MmPage` | `mm/mm_page.c` and the free list of `mm/mm_frame.c` | `page` |
| `PageAbs` | what paging promises: only map and unmap change translations, and only of their page | refined by `MmPage` |
| `MmBoot` | bootstrap of `mm/` | `boot`, `boot_early_map` |
| `MemBoot` | both stages of `mem/`, and `mem_page_map` | `mem_boot` |
| `MemHeap` | `mem/mem_heap.c` | `mem_heap` |
| `Interrupts` | `interrupts/`, timer and keyboard handlers | `interrupts`, `interrupts_rdi`, `interrupts_isr_gates` |
| `Strings` | buffer limits of `containers/containers_string.c` | part of `kernel_main` |
| `Console` | cursor, clipping and geometry of `log/log.c`, `video/video.c`, `drivers/drivers_vesa.c`; extends `Strings` | part of `kernel_main` |
| `Discovery` | `drivers/drivers_acpi.c`, `drivers/drivers_pcie.c` | part of `kernel_main` |
| `KernelMain` | `kernel/kernel_main.c`, `kernel/kernel_panic.c`; composes `Console` and `Discovery` | `kernel_main` |
| `PanelText` | `panel/panel.c`, `panel/panel_text.c` over the cells of `drivers/drivers_screen.c` | `panel` |
| `TextLog` | what a text panel promises: an append-only log of limited length | refined by `PanelText` |
| `MmHeapProofs`, `MmAllocatorProofs`, `MmPageProofs`, `MmBootProofs`, `MemBootProofs`, `InterruptsProofs`, `KernelMainProofs`, `PanelTextProofs` | proofs about the module they are named after | |
| `MC*` | values of the constants | |

Conventions. Definitions keep the names of the C functions. A failed `kernel_assert` (and
`kernel_assert_d`, which is on in the default build) sets `pc` to `"panic"` and records the reason.
A definition `x_with_some_slip` in front of `x` is `x` as a plausible mistake would have written it;
substituted for `x`, it makes one of the properties fail.

**MmHeap.** `meta` maps the address of each valid block header to its class and free bit, `free_list` holds
the free lists, `pc`, `blk`, `cur`, `want` and `len` are the locals of the one running call. The code's
header magic is membership in `DOMAIN meta`, so stale headers are really gone only if the code wipes them.

**MmAllocator.** Byte-accurate: areas have the sizes of `area_t`, pointer and guard word, because the
questions are about offsets.

**MmPage.** Physical memory is a function from frames to words, and a word is an entry, a link or data
whichever way it is read. Every access goes through the TLB or a walk, including those to the tables.

**MmBoot, MemBoot.** Addresses are small numbers, tables are seen through what they map. `machine` is
what firmware reports: memory map, kernel image, frame buffer, PCIe windows. MmBoot lets the
unassigned return value of `_map_early` be either truth value. MemBoot keeps for each root the set
of entries that point to a table, which is the number of frames in use, and the mapped pages.

**Interrupts.** The CPU is a thread and a stack of frames; a frame goes gate, `cli`, `mov rdi`, push,
dispatch, handler, return. Gates do not clear IF (section 5), so interrupts nest between gate and
`cli`. The 8259 pair, the keyboard controller and the CPU's acceptance of interrupts are external.
An instruction runs only if no interrupt is deliverable, which is how the CPU behaves.

**MemHeap.** `queue` holds the head and tail words of the free lists and of the list of spare slots, `slots` the
two words of every slot written so far. The constants are those of the code.

**Strings, Console, KernelMain.** A line being logged is the sequence of its pieces, one `log_str_len` each, so a
failure can begin in the middle of a row. A message is the parts of its format, each with the length of what it
stands for; `str_buf_marshal_format_v` says whether the call returns and how much was written. Lengths are
unsigned and wrap at `USZ_MOD`. `machine` is what the loader hands over: tags, total size,
screen. The memory manager appears as a component that logs lines and may fail at
any time; what it does is in `MemBoot`. `why` says what failed last; a failure in the report of a failure starts a new report, as in the code.

**Discovery.** `firmware` is what ACPI and the configuration space show: tables, among them MCFG tables with their
groups, and the functions that answer, by address. One action per turn of each loop. Writing past the table of
functions leads to `pc = "wild"`, where the model stops: what lies behind the table is not known.
An entry names its group by index, as the code's pointer does, so overwriting a group changes what old entries mean.

**PanelText.** The screen is a function from cells to characters, `buf` one array into which rows are cut at
computed offsets. `Log` reads the rows back out of that array; it is the refinement mapping.

## 3. What is checked

| Run | States | Shows |
|---|---|---|
| `heap` | 41 thousand | blocks tile the heap; lists hold exactly the free blocks; between calls no two buddies are both free; a checked-out block keeps its header; no assertion fails except for caller errors and lack of frames; calls return; `HeapAbs` is implemented |
| `allocator` | 137 thousand | objects, guard words and allocator structures never overlap; no heap block is lost; only two assertions can fail |
| `page` | 91 thousand | each frame has one role; no TLB entry or table reaches a frame that has another owner; mapping and unmapping gives all frames back, also after a failure half way; calls return, none in a failed assertion; `PageAbs` is implemented |
| `boot` | 1.2 thousand | only spare RAM goes to the free list; the kernel stays mapped; devices and stack end up mapped |
| `mem_boot` | 11 thousand | kernel and console stay reachable over both changes of root, also in a failed assertion; devices are not taken for RAM; the frame map is large enough; lists of ranges are mapped page by page; a loaded translation never changes; calls end |
| `interrupts` | 69 thousand | the handler called is the one of the vector; EOIs match frames one to one; nesting is bounded by the levels; lines are served and keys read, except after a key lost before `intr_init` (section 5) |
| `kernel_main` | 128 thousand | the console never fails an assertion of its own; a message that left its buffer is never used, and one that fits is not refused; between tables the functions listed are exactly those the last MCFG table leads to, each once and through its own group; every failure is reported in full and halts, except in the window described in section 5; every well-formed loader and firmware is accepted, with tags of any length, a table of groups full to the last entry and one function fewer than the table of functions has entries |
| `panel` | 21 thousand | the ring of rows is an append-only log; a redraw shows its first rows inside a whole frame |

Bounds, and why they are enough:

* `heap`: three classes and two expansions. Splits and merges can happen twice in a row and can stop
  half way, and blocks of two expansions can meet. Double frees and frees of stale addresses are tried.
* `allocator`: 3 allocators, 3 objects, 5 pages of 512 bytes, the heap's 16 classes of blocks; 447 is the length with which two requests fill an area.
* `page`: fan-out 3, four huge pages (one freed at bootstrap), four client pages: one in the window's
  lowest table, two that share a lowest table, and one behind a root entry of its own, for which a level 3 table is made and freed as in `_test_paging`.
  Four frames, which is just enough for that page and its tables, and fewer than mapping all pages needs.
* `boot`, `mem_boot`: ten and twenty machines, one for each way the memory map, the image end and
  the devices can lie to each other; page and table sizes are 2 cells and 2 to 4 entries. `mem_boot`
  has 28 frames, enough for bootstrap and one large client mapping but not for more, and
  adds three client mappings, before or after the second stage, with empty and several ranges, page counts that disagree, unaligned and taken addresses.
* `kernel_main`: seventeen loaders, that keep to the format or miss it in one point, among them a tag of size 0, which the parser reads a second time
  and then refuses, and one shorter than its header, whose saved length wraps (`U32_MOD`); screens of
  24 by 2 and 12 by 1 characters, with pixels left over, so that every line is cut, also inside its
  prefix, and rows wrap; lines by components in five formats, among them literal text that runs over the end of the
  buffer with and without more behind it. The lines of a report
  are assumed to fit the buffer, which has 256 bytes (`ReportAssumption`). Eleven firmwares: no MCFG table, one, two
  of different length; groups that start behind the first bus, devices with one and with all functions, one that answers only as
  function 1, a full and an overfull table of functions, a misaligned group, too many groups, a class without a name, a
  list of tables that is no whole number of entries. A machine has 4 buses, 2 devices a bus and 2 functions a device, and room for 5 functions and 2 groups.
* `panel`: a screen of 5 by 6 cells and a ring of four rows, so that the ring fills up, more rows are kept than shown,
  and rows of every length occur, also those that are refused. With two characters a row that overwrites another is seen.
* `interrupts`: timer, keyboard, COM1 and a slave line, three interrupts; three is the number needed for
  a nested one with another pending.

Fairness. `WF(Step)` for the memory managers and for `KernelMain`: nothing preempts a call for ever, since handlers run to
completion. `WF(Cpu)` for interrupts: the CPU executes stubs and takes deliverable interrupts;
devices and the thread owe nothing. Liveness of an interrupt is claimed only while the thread
leaves interrupts on and no interrupt context has panicked. `PanelText` and `MemHeap` state safety only: each call is one step,
and the second has no call that ends.

Deadlock is checked in every run; a halted kernel is a step that changes nothing (`hlt`).

## 4. What is proved

Heap, region allocators, paging, both bootstraps, interrupts, the kernel's start and the panels have their safety properties proved
for every value of the constants that the assumptions below admit, not only on the instances of section 3. Each proof states an inductive invariant (checked with TLC before it was
proved, except that of paging, whose quantified functions TLC cannot enumerate), shows that every action preserves it, and derives the properties from it.

**Heap** (`MmHeapProofs`). Assumed: at least one class, sizes that double from class to
class, a page that is a power of two and not 1 (`PageAssumption` says it as: every divisor but 1 is even); header size,
number of expansions and request lengths are arbitrary.

* `HeapTypeCorrect`, `HeapTiling`, `HeapListsExact`. The tiling is not inductive alone: `_coalescing_block` trusts the header at
  the computed buddy address, so one must know that a free buddy of the same class is in its list and a block in a list is
  free; and in the middle of a call one block is in nobody's list. `IInv` joins types, `CallState` (what the running
  call holds, for each `pc`), disjointness, covering, soundness and completeness of the lists.
* `HeapImplementsHeapAbs`, `HeapHeldBlockKept`. Checked-out blocks are the grants; every action but `check_out` and
  `mm_heap_free` leaves them alone (`Quiet`), those two are the abstract steps.
* `BuddyInvariant`, `HeapNeverPanics`, `HeapFullyCoalesced`. `BInv` adds that blocks lie at multiples of their size, that the
  class of the request has room, that the lists below a split are empty, and that two free buddies are apart only if
  a call holds one of them or has just split them. Alignment makes `_block_find_buddy` an involution (`BuddyOf`) whose
  result is always a block that is no larger (`BuddyThere`). That `log_2_up` picks a class with room (`ClassOfRequest`) goes by induction on
  the halvings of its loop; it is where a page that is no power of two would fail.

**Region allocators** (`MmAllocatorProofs`). Assumed: a page is a multiple of a pointer and holds a header and one allocator;
sizes and alignments are positive and a request with its guard and alignment fits the largest heap block
(`RequestAssumption`; otherwise `mm_heap_alloc` stops the kernel). `TypeCorrect`, `ObjectsAlwaysApart`, `NeverLeaks`,
`NoOtherPanics`. The invariant ties areas to heap blocks (between header and guard word, no two areas in one block), objects
to areas (below the mark) and allocator structures to blocks that are no areas. It is stated of an arbitrary
state so that it can be used in the middle of `mm_allocate`, between making an area and cutting the object out of it.

**Paging** (`MmPageProofs`). Assumed (`PageAssumption`): at least two entries a table, huge pages within two levels of tables, client pages
behind any entry of the root but the first, where the identity mapping is, and not the window, which `mm_page.c` keeps for itself. `PagingTypes`, `FramesHaveOneRole`,
`TranslationsNeverStale`, `NoFrameIsLost`, `PagingNeverPanics`, `PagingImplementsPageAbs`.

* `PageInv` gives each frame a role that is not in memory: its level as a table (`lev`), 0 behind a client page, or one off the tree
  (free, held, spare, not yet freed); for a frame of the tree the table and index of its entry (`pt`, `pi`), for a free one its place in the
  list (`rank`, `q`). `Down` says that an entry leads only to the frame whose `pt` and `pi` it is, `Up` that every frame of the tree has its entry;
  together they exclude sharing and cycles, and `WalkTables` and `WalkLeaf` derive what a hardware walk finds. `Full` says that a table has an entry
  unless a mapping has failed or is at work on it.
* `_unmap` breaks this on its way up: it frees a table before it clears the entry above. `View` is memory without that one stale entry, and
  the shape is stated of `View`. `Stale` says what the entry leads to, a free frame whose words are not present, so that no walk finds
  anything through it (`StalePages`) although the free list has already written its link there. The TLB is wrong about at most the page being unmapped (`Remembers`).
* That the window works is itself a fact about the tables (`Window`): its entry lies in a table that the invariant keeps in the tree, and
  it never reads as empty, since the entry of the window is in it while it is read. `KernelFull` has the root and the tables between.
* `FreeWalk` shows that following the links from the head visits exactly the free frames, each once, by induction over the rank; `TablesLevel`,
  `MappedLevel` and `OneEntry` turn roles into the sets that the properties speak of.
* For the refinement every step lemma also says what becomes of the translations. They change in `map_leaf` and in the first turn of `unmap_table`; everywhere else
  frames of level 0 keep their place (`SamePages`) or the words that walks read are the same (`AlikePages`).

**Bootstrap of `mm/`** (`MmBootProofs`). Assumed (`BootAssumption`, `MachineAssumption`): page sizes divide each other, configuration
space is a whole number of pages and starts at a big page, its window is not below the frame buffer's, and a machine without
configuration space has a frame buffer that fits its window: with one, the page behind the buffer is refused when it is taken, without one
nobody would notice. `OnlySpareFreed`, `KernelAlwaysMapped`, `WindowsAlwaysMapped`, for either value of the unassigned result of `_map_early`.
`BootInv` says that the early mapping has no holes up to where its loop is, that the loop which unmaps it keeps to big pages behind the
image, that nothing but the windows is mapped in the high half, and each window up to the page its loop has reached. That the stack has no hole although
the results of its mappings are not looked at follows from the free list: a mapping fails only if it empties the list, and then
the allocation for the next page fails an assertion. Only the last page, behind the stack proper, has no successor to notice.

**Bootstrap of `mem/`** (`MemBootProofs`). Assumed (`MachineAssumption`): sections in memory end at a page, as `linker.ld` pads them, and
image and frame buffer lie below the last big page of the identity mapping. Lists and calls are arbitrary (`CallsAssumption` types them).
`MemTypes`, `KernelAlwaysReachable`, `ConsoleAlwaysReachable`, `FrameMapAlwaysFits`, `LoadedRootAlwaysGrows`. `MemInv` has which root is
loaded in which phase (`Loaded`), what each root maps (`Roots`), that in the middle of stage 2 nothing but the pages done so far is mapped where the frame buffer goes
(`Stage2`: so no assertion about a taken page fails behind `d_vesa_set_frame_buffer`), that `i` is the number of pages in the ranges
done plus `page` (`Position`), and which sections have been compared with devices (`FrameMap`). The place of the i-th page of a list
(`FlatAt`) goes by induction over the ranges. The attempt to prove `ConsoleReachable` without its exception failed for a
reason: if clients used up the frames in stage 1, the frame buffer's mapping stops half way with its new address already announced, and the report
goes to an unmapped page. `Starved` names this state and the `mem_boot` run reaches it.

**Interrupts** (`InterruptsProofs`). Assumed: lines 0 to 15, exceptions 0 to 31. `TypeCorrect`, `RightHandlerAlways`, `LevelsAlwaysMatch`,
`NestingAlwaysBounded`, and `StackBounded`: at most nine frames, so the interrupt stack cannot grow without limit although gates leave
interrupts on. The key is that an end of interrupt always ends the level of the frame that sends it (`EoiEndsOwnLevel`), which needs that levels
fall from frame to frame (`LevelsFall`) and that only the topmost frame is behind its `cli` (`LowerAtGate`, `PastCli`).

**Start of the kernel** (`KernelMainProofs`). `BootTypesCorrect`, `ConsoleNeverFails`, `MessagesStayInBuffer`, `FunctionsAlwaysFound`. Assumed of
the loader (`LoaderAssumption`): there is an end tag or `total_size` ends no later than the tags, and the screen has at least 16 pixel
rows, which nothing in `d_vesa_bootstrap` checks and without which `log.c:134` divides by zero. Assumed of the firmware
(`FirmwareAssumption`): the groups of an MCFG table are as many as its length says and no two share a bus. Of messages (`FormatAssumption`): the buffer is
smaller than the range of a length. The invariant of the scan (`ListOK`) says that the table of functions holds exactly what the four nested
loops have passed, each once; the others are about the cursor, before and after the screen has a geometry, and the parser's place.

**Panels** (`PanelTextProofs`). Assumed: a screen of more than 3 columns and 4 rows, and a buffer with room for the width squared, since
`panel_text_init` divides twice (`BufferAssumption`). `ScreenAlwaysShowsLog`, `DrawNeverPanics`, `PanelImplementsTextLog`.
The weight is in the arithmetic of offsets: rows of the buffer, and cells of the screen, do not overlap.

Each of these modules begins with the facts about numbers it needs: quotients, aligned addresses and the page of an address, least elements,
induction over sets of numbers, the existence of functions defined by recursion. Induction is done with sets instead of the library's theorems with an operator as a parameter, which the installed provers cannot use.

Only model-checked:

* liveness (`CallReturns`, `IrqServed`, `CallsEnd`, `FailureReported`, `BootCompletes`): the prover has no rules for fairness and `ENABLED`;
* `MemHeap`, whose property fails.

## 5. Where code and text disagree

Each is a run that TLC must find violated; the text is quoted in `PROJECT.json`.

* `boot_early_map`: `_map_early` returns an unassigned variable when no table is missing.
* `interrupts_rdi`: the stubs overwrite rdi before they save it.
* `interrupts_isr_gates`: IRQ 5 to 15 end in the exception stub even with a handler registered.
* `mem_heap`: the queue of spare slots does not move its tail, so linking the third slot fails an assertion. What would follow
  is modelled too: `_map_slot_max` counts bytes where slots are two words, so that slots lie behind the map;
  `_map_slots_dequeue` returns the slot behind the one it removes; the class of a block is the logarithm of bytes, not of pages.

Others have no run of their own:

* Two requests that fill an area to its last byte pass the check for room in `mm_allocate` and fail the assertion at `mm_allocator.c:146`;
  `OnlyKnownPanics` names this case.
* `mm_page.c:660` tests for memory below the frame buffer by comparing the buffer with itself. On a machine whose memory ends
  there nothing is freed, and bootstrap stops for lack of frames; the `boot` run contains such a machine.
* `drivers_pcie.c:564` does not ask the bus `bus_end`, which an MCFG table includes; `FunctionsFound` uses the loop's reading.
* `drivers_pcie.c:499` writes the 129th function behind the table. The 128th still fits, but the table's reader, `d_pcie_get_func_cnt`, asserts `_func_cnt < _FUNCTIONS_CAP`
  (line 436), so a table that discovery has filled to its last entry fails there. Its only caller, `d_nvme_bootstrap`, is not called at this commit. `BootCompletes`
  is therefore claimed for fewer than 128 functions, and says that the reader accepts the table; the `kernel_main` run contains tables one short of full, full and overfull.
* `containers_string.c:207` writes literal text behind the buffer before the assertion at line 246 notices. The buffer is on the stack; what the overwritten
  bytes do is not followed, so in the model such a call just fails.
* A build path that makes the second line of a report longer than its buffer would make every failure fail in its report, without end.
* `str_buf_marshal_uint_in_size` neither moves on behind the unit it writes nor takes the written part off the value.
* `panel_text_init` divides the buffer by the width and `_buf_row_total` does so again, so most of the buffer is never used.
* A failure after `log_enable_video_write` and before `d_vesa_bootstrap` has the geometry logs to a screen of zero rows: `log.c:134`
  divides by zero with no IDT loaded, and the machine resets. `FailureReported` names exactly this exception.
* The pointer arithmetic of the direct tables in `mm_page.c` puts two of them outside their array; the hazard in `PROJECT.json` has the line.
* A byte that the keyboard controller shows before `intr_init` raises line 1 too early: initialising the 8259s drops the edge, and `keyboard_init`
  (`drivers_keyboard.c:84`) does not read port 0x60. The buffer stays full, so no later key makes a new edge and the keyboard stays silent. `IrqServed`
  names exactly this exception (`lost`), which the `interrupts` run reaches.
* `interrupts.c:356` encodes gates asked for as interrupt gates as trap gates, so interrupts stay on
  until the stub's `cli`, against the comment at line 346. `RightHandler` and `NestingBounded` hold nevertheless.
* `mem_page.c:298` rounds the kernel's page count down; symbol tables in a last partial page are not mapped.
  `KernelReachable` is about the allocated sections, which end at a page; the symbol tables are read in stage 1 only, before the change of root.
* `mem_page.c:196` leaves out the last big page below 1 TB, which the comment at line 179 includes.
* `mem_frame.c:302` puts the frame map one page behind the start of the first large section, where a PC's loader puts the kernel image. Nothing writes to the
  map yet; `FrameMapFits` checks its size and its distance from devices.
* `mem_page_map` accepts calls in stage 1, and stage 2 discards what they mapped but not the frames they used.
* `mem_page.c:313` announces the frame buffer's new address before it is mapped; a frame pool that runs out in between (16384 frames, of which bootstrap
  itself needs about a thousand) cannot be reported. `ConsoleReachable` names this exception.

Nothing calls `intr_irq_enable`, `time_init` or `keyboard_init` at this commit, so the findings on
interrupts wait for their first caller.

## 6. Not modelled, and what is left

Left out:

* boot assembly: straight-line code and constant tables; its result is the initial state of `MemBoot` and `MmBoot`;
* port access, serial output, colours, fonts and pixels: pure I/O, or data without control;
* `tui/`: drawing only, and `tui_start` is not called;
* `drivers_nvme.c`: called from nowhere; it reads one register of each controller discovery found;
* exceptions in the kernel's own interrupt stubs and handlers: `Interrupts` raises exceptions in the thread only. A fault inside a handler would nest
  whatever the levels, and stop the kernel in `intr_isr_handler`;
* loaders whose tags have other types than the parser knows: the format allows them, the parser refuses them with an assertion, and `WellFormed` leaves them out;
* requests to `mm_heap_alloc` so long that adding the header wraps 64 bits;
* hexadecimal and size formatting, which nothing that runs calls, and the digits of numbers;
* names of vendors and classes, entry bits other than present and huge, spurious interrupts,
  `mem_bootstrap_3` (sets a variable), the pseudo-random step, `_file_strip`.

Every safety property that a passing run checks is also proved; what is left is liveness, which stays with TLC.
