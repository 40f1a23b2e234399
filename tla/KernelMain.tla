----------------------------- MODULE KernelMain -----------------------------
(***************************************************************************)
(* kernel/kernel_main.c and kernel/kernel_panic.c: the loader's tags, the  *)
(* order in which components are brought up, and the report of a failure   *)
(* through the very console that is being brought up.                      *)
(*                                                                         *)
(* Discovery runs in full.  What the memory manager does is left to        *)
(* MemBoot: here it logs, and succeeds or fails an assertion.  A failing   *)
(* assertion never returns, so only the innermost one matters.             *)
(***************************************************************************)
EXTENDS Console, Discovery

CONSTANTS
    Machines,   \* what the loader may hand over
    Firmwares,  \* what ACPI and PCIe may show
    Formats,    \* messages components log
    ExprLen,    \* length of a failed expression
    PathLen,    \* length of a source file's path
    U32_MOD,    \* 2^32: the size of a tag is unsigned
    MAX_LINES   \* bound: lines logged by components

ASSUME BoundAssumption == MAX_LINES \in Nat /\ U32_MOD \in Nat /\ U32_MOD > 0
ASSUME FormatAssumption ==
    Formats \subseteq Seq(Part) /\ {ExprLen, PathLen} \subseteq Nat /\ BUF_CAP < USZ_MOD

(* The report of a failure, and the lines kernal_main logs.                *)
expr_line == <<literal(3), str(ExprLen)>>
file_line == <<literal(2), str(PathLen), literal(2), uint(LineDigits)>>
main_line == <<literal(5), uint(2)>>

(* A source tree with a path so long that the report does not fit would    *)
(* make every failure fail again in the report.                            *)
ASSUME ReportAssumption ==
    \A format \in {expr_line, file_line} : str_buf_marshal_format_v(format, BUF_CAP).returns

MMAP == 6
FRAME_BUFFER == 8
ELF_SYMBOLS == 9
ACPI_OLD == 14
ACPI_NEW == 15
known_types_any == Nat
known_types == {1, 2, 4, 5, MMAP, 7, FRAME_BUFFER, ELF_SYMBOLS, 10, ACPI_OLD, ACPI_NEW}

VARIABLES
    machine,  \* [tags, total, header_ok, screen]
    pc,
    n,        \* the tag the parser looks at
    ptr,      \* its offset
    saved,    \* _boot_info: type -> length of the saved tag
    idt,      \* intr_init has loaded the IDT
    why,      \* what failed
    left,     \* lines of the failure report not yet begun
    lines     \* lines logged by components so far

boot == <<machine, n, ptr, saved, idt, lines>>
failure == <<why, left>>
vars == <<console, discovery, boot, pc, failure>>

Tag == machine.tags[n]
align_up(x) == ((x + 7) \div 8) * 8

(* Where the tags end and total_size, as a loader computes them: padded    *)
(* tags behind eight bytes.                                                *)
Ends(tags) ==
    LET f[i \in 0 .. Len(tags)] == IF i = 0 THEN 8 ELSE align_up(f[i - 1] + tags[i].size)
    IN  f
TotalOf(tags) == Ends(tags)[Len(tags)]

(* The tags are what is there to be read: up to an end tag, or up to the   *)
(* size the loader states.  And a screen has room for a row of characters, *)
(* which nothing in d_vesa_bootstrap checks.                               *)
ASSUME LoaderAssumption ==
    \A m \in Machines :
        /\ m.tags \in Seq([type : Nat, size : Nat]) /\ m.total \in Nat
        /\ \A i \in DOMAIN m.tags : m.tags[i].size < U32_MOD
        /\ m.total <= TotalOf(m.tags) \/ \E i \in DOMAIN m.tags : m.tags[i].type = 0
        /\ m.screen.width \in Nat /\ m.screen.height \in Nat /\ m.screen.height >= 16

(* The groups are those that the length of an MCFG table, if it is         *)
(* accepted, speaks of; no two of them share a bus.                        *)
ASSUME FirmwareAssumption ==
    \A f \in Firmwares :
        /\ f.tables \in Seq([mcfg : BOOLEAN, len : Nat, groups : Seq(GroupType)])
        /\ \A i \in DOMAIN f.tables : f.tables[i].mcfg =>
              /\ \A k \in 1 .. GROUP_CAP : f.tables[i].len = 44 + 16 * k => Len(f.tables[i].groups) = k
              /\ GroupsApart(f.tables[i].groups)

Init ==
    /\ machine \in Machines /\ firmware \in Firmwares /\ DiscoveryInit
    /\ pc = "start" /\ n = 1 /\ ptr = 0 /\ saved = << >> /\ idt = FALSE
    /\ why = "none" /\ left = 0 /\ lines = 0
    /\ write_screen = FALSE /\ screen_row = 0 /\ screen_col = 0
    /\ width = 0 /\ height = 0 /\ line = <<>>
-----------------------------------------------------------------------------
(* _kernel_assert_fail and _kernel_panic: two lines, then hlt for ever.    *)
Fail(reason) ==
    /\ pc' = "failed" /\ why' = reason /\ left' = 1
    /\ line' = log_line_format(expr_line)

(* The console is left as it is, in the middle of a row perhaps.           *)
FailHere(reason) ==
    Fail(reason) /\ UNCHANGED <<discovery, boot, write_screen, cursor, geometry>>

report ==
    /\ pc = "failed" /\ line = <<>> /\ left > 0
    /\ line' = log_line_format(file_line) /\ left' = left - 1
    /\ UNCHANGED <<discovery, boot, pc, why, write_screen, cursor, geometry>>

report_end ==
    /\ pc = "failed" /\ line = <<>> /\ left = 0
    /\ pc' = "hlt" /\ UNCHANGED <<console, discovery, boot, failure>>

(* A logged piece, or a failure of the logging itself.                     *)
log ==
    \/ (log_str_len \/ log_line_end) /\ UNCHANGED <<discovery, boot, pc, failure>>
    \/ LogFault # "none" /\ FailHere(LogFault)

(* Exception 0: a panic of intr_isr_handler, or no handler and a reset.    *)
divide_error ==
    /\ DividesByZero
    /\ IF idt THEN FailHere("exception")
       ELSE /\ pc' = "reset" /\ line' = <<>>
            /\ UNCHANGED <<discovery, boot, failure, write_screen, cursor, geometry>>
-----------------------------------------------------------------------------
(* kernal_main.  It goes on when the line it logged is out.                *)
Main(label) == pc = label /\ line = <<>>
Log(format) == line' = log_line_format(format)
Go(label) == pc' = label /\ UNCHANGED failure
Screen == UNCHANGED <<write_screen, cursor, geometry>>

(* serial_init and the first two lines.                                    *)
start ==
    /\ Main("start") /\ Go("save")
    /\ line' = log_line_format(main_line) \o log_line_format(main_line)
    /\ Screen /\ UNCHANGED <<discovery, boot>>

(* The head of _multi_boot_info_save.                                      *)
multi_boot_info_save ==
    /\ Main("save")
    /\ IF machine.header_ok
       THEN ptr' = 8 /\ Go("tags") /\ UNCHANGED <<line, n>>
       ELSE Fail("loader") /\ UNCHANGED <<ptr, n>>
    /\ Screen /\ UNCHANGED <<discovery, machine, saved, idt, lines>>

next_tag_unaligned(p, size) == p + size
next_tag(p, size) == align_up(p + size)

MoreTags == ptr < machine.total /\ ptr % 8 = 0 /\ Tag.type # 0

(* One turn of the loop over the tags.  The length saved is that of the    *)
(* tag without its head, modulo 2^32 if the tag is shorter than its head.  *)
(* A tag of size 0 ends where it begins and is read again.                 *)
save_tag ==
    /\ Main("tags") /\ MoreTags
    /\ IF Tag.type \in known_types /\ Tag.type \notin DOMAIN saved
       THEN /\ saved' = [t \in DOMAIN saved \cup {Tag.type} |->
                            IF t = Tag.type THEN (Tag.size - 8) % U32_MOD ELSE saved[t]]
            /\ ptr' = next_tag(ptr, Tag.size)
            /\ n' = IF Tag.size = 0 THEN n ELSE n + 1
            /\ Go(pc) /\ UNCHANGED line
       ELSE Fail("loader") /\ UNCHANGED <<saved, ptr, n>>
    /\ Screen /\ UNCHANGED <<discovery, machine, idt, lines>>

(* The loop ends at the end tag or at the end of the information; kernel   *)
(* and memory map are then looked for.                                     *)
Saved(type) == type \in DOMAIN saved /\ saved[type] # 0
save_end ==
    /\ Main("tags") /\ ~MoreTags
    /\ LET end == IF ptr < machine.total THEN ptr + 8 ELSE ptr
       IN  IF ptr % 8 = 0 /\ end = machine.total /\ Saved(ELF_SYMBOLS) /\ Saved(MMAP)
           THEN Go("mem_1") /\ UNCHANGED line
           ELSE Fail("loader")
    /\ Screen /\ UNCHANGED <<discovery, boot>>

(* Inside mem_bootstrap_1, acpi_bootstrap_* and mem_bootstrap_2.           *)
AcpiTag == IF ACPI_NEW \in DOMAIN saved THEN ACPI_NEW ELSE ACPI_OLD
New == AcpiTag = ACPI_NEW
InMemory == Main("mem_1") \/ Main("mem_2")
InAcpi == Main("acpi") /\ Saved(AcpiTag)
component_log(format) ==
    /\ InMemory \/ InAcpi
    /\ lines < MAX_LINES
    /\ Log(format) /\ lines' = lines + 1
    /\ Screen /\ UNCHANGED <<discovery, machine, n, ptr, saved, idt, pc, failure>>
component_fails == InMemory /\ FailHere("component")

mem_bootstrap_1 ==
    /\ Main("mem_1") /\ Go("vesa")
    /\ write_screen' = TRUE          \* log_enable_video_write
    /\ UNCHANGED <<discovery, boot, line, cursor, geometry>>

(* d_vesa_bootstrap: the assertions on the tag come before the geometry.   *)
vesa_refused == ~Saved(FRAME_BUFFER) \/ saved[FRAME_BUFFER] # 30 \/ ~machine.screen.rgb32
d_vesa_bootstrap ==
    /\ Main("vesa")
    /\ IF vesa_refused THEN Fail("loader") /\ UNCHANGED geometry
       ELSE /\ width' = machine.screen.width /\ height' = machine.screen.height
            /\ Go("acpi") /\ Log(main_line)
    /\ UNCHANGED <<discovery, boot, write_screen, cursor>>

(* acpi_bootstrap_64 or acpi_bootstrap_32: the tag of the new version      *)
(* wins, even if it is empty.  Behind the table of functions nothing is    *)
(* known any more once it is overrun.                                      *)
acpi_bootstrap ==
    \/ InAcpi /\ ~table_overrun /\ discover(New) /\ UNCHANGED <<console, boot, pc, failure>>
    \/ InAcpi /\ discovered /\ Go("intr") /\ UNCHANGED <<console, discovery, boot>>
acpi_fails == \/ Main("acpi") /\ ~Saved(AcpiTag) /\ FailHere("loader")
              \/ InAcpi /\ discovery_fails(New) /\ FailHere("firmware")
acpi_overrun == InAcpi /\ table_overrun /\ Go("wild") /\ UNCHANGED <<console, discovery, boot>>

intr_init ==
    /\ Main("intr") /\ Go("mem_2") /\ idt' = TRUE /\ Log(main_line)
    /\ Screen /\ UNCHANGED <<discovery, machine, n, ptr, saved, lines>>

mem_bootstrap_2 ==
    /\ Main("mem_2") /\ Go("ended") /\ Log(main_line)
    /\ Screen /\ UNCHANGED <<discovery, boot>>

kernel_halt ==
    /\ Main("ended") /\ Go("hlt") /\ UNCHANGED <<console, discovery, boot>>

hlt == pc = "hlt" /\ UNCHANGED vars

(* A reset hands the machine back to the firmware; a kernel whose data are *)
(* overwritten is not followed further.                                    *)
reset == pc \in {"reset", "wild"} /\ UNCHANGED vars

Step == \/ log \/ divide_error \/ report \/ report_end
        \/ start \/ multi_boot_info_save \/ save_tag \/ save_end
        \/ mem_bootstrap_1 \/ d_vesa_bootstrap \/ acpi_bootstrap \/ acpi_fails \/ acpi_overrun
        \/ intr_init \/ mem_bootstrap_2 \/ kernel_halt
        \/ component_fails \/ \E format \in Formats : component_log(format)
Next == Step \/ hlt \/ reset

(* One CPU with interrupts off: the kernel runs on until it halts.         *)
Spec == Init /\ [][Next]_vars /\ WF_vars(Step)
-----------------------------------------------------------------------------
(* Types; only known tags are saved.                                       *)
TypeOK ==
    /\ pc \in {"start", "save", "tags", "mem_1", "vesa", "acpi", "intr", "mem_2", "ended",
               "failed", "hlt", "reset", "wild"}
    /\ write_screen \in BOOLEAN /\ idt \in BOOLEAN
    /\ {screen_row, screen_col, width, height, ptr} \subseteq Nat
    /\ \A i \in DOMAIN line : line[i].kind \in {"text", "message", "end"}
    /\ n \in 1 .. Len(machine.tags) + 1 /\ left \in 0 .. 1 /\ lines \in 0 .. MAX_LINES
    /\ stage \in {"idle", "tables", "groups", "scan"} /\ tab \in 1 .. Len(firmware.tables) + 1
    /\ Len(functions) <= FUNCTIONS_CAP /\ group_cnt <= GROUP_CAP /\ DOMAIN groups \subseteq 1 .. GROUP_CAP
    /\ DOMAIN saved \subseteq {1, 2, 4, 5, 6, 7, 8, 9, 10, 14, 15}
    /\ why \in {"none", "loader", "component", "message", "logger", "exception",
                "firmware"}

(* The console never fails an assertion of its own, whatever is logged     *)
(* before, during and after the change of its geometry, and wherever in a  *)
(* row a failure report begins: otherwise reporting a failure would fail   *)
(* again, without end.                                                     *)
LoggerNeverFails == why # "logger"

(* Whatever is logged, a message that has been written outside its buffer  *)
(* is never used: the call that formats it fails.  The check for room in   *)
(* %s and %lu does not see to that, because it wraps around once literal   *)
(* text has run over the end.  And a message with room for a terminator is *)
(* not refused.                                                            *)
FormatInBuffer ==
    At("message") =>
        /\ Formatted.returns => Formatted.written = Formatted.len /\ Formatted.len <= BUF_CAP
        /\ Offsets(Head(line).parts)[Len(Head(line).parts)] < BUF_CAP => Formatted.returns

(* Every failure is reported with both of its lines and then halts, unless *)
(* it happens after log_enable_video_write and before d_vesa_bootstrap has *)
(* the geometry: there the first line divides by zero, without an IDT.     *)
FailureReported ==
    (pc = "failed") ~>
        \/ pc = "hlt" /\ left = 0 /\ line = <<>>
        \/ pc = "reset" /\ write_screen /\ height = 0

(* A loader that keeps to the format, with all tags that boot needs and    *)
(* none of a type the parser does not know.  The multiboot2 format has     *)
(* others (EFI, network, module tags); with one of them boot ends in a     *)
(* panic, by the code's own choice.                                        *)
WellFormed ==
    /\ machine.header_ok /\ machine.screen.rgb32 /\ machine.total = TotalOf(machine.tags)
    /\ \A i, j \in DOMAIN machine.tags :
          machine.tags[i].type = machine.tags[j].type => i = j
    /\ \A i \in DOMAIN machine.tags :
          /\ machine.tags[i].type \in known_types \cup {0}
          /\ (machine.tags[i].type = 0) <=> (i = Len(machine.tags))
          /\ machine.tags[i].type # 0 => machine.tags[i].size > 8
          /\ machine.tags[i].type = FRAME_BUFFER => machine.tags[i].size = 38
    /\ {MMAP, ELF_SYMBOLS, FRAME_BUFFER} \subseteq {machine.tags[i].type : i \in DOMAIN machine.tags}
    /\ {ACPI_OLD, ACPI_NEW} \cap {machine.tags[i].type : i \in DOMAIN machine.tags} # {}

(* Firmware that keeps to the format, within the tables' capacities, of    *)
(* the functions one less than there are entries: a full table is refused  *)
(* by its reader, d_pcie_get_func_cnt.                                     *)
FirmwareWellFormed ==
    /\ firmware.rsdp_ok /\ firmware.rest = 0
    /\ \A i \in DOMAIN firmware.tables : firmware.tables[i].mcfg =>
          /\ Len(firmware.tables[i].groups) \in 1 .. GROUP_CAP
          /\ firmware.tables[i].len = 44 + 16 * Len(firmware.tables[i].groups)
          /\ \A g \in DOMAIN firmware.tables[i].groups : aligned(firmware.tables[i].groups[g])
          /\ Cardinality(Addresses(firmware.tables[i])) < FUNCTIONS_CAP
    /\ \A a \in DOMAIN firmware.space : firmware.space[a].class # "todo"

(* A loader and firmware that keep to their formats, whatever lengths the  *)
(* tags have, with as many groups as there are entries and one function    *)
(* less, are accepted: boot ends with the last line of kernal_main, or in a *)
(* failure of the memory manager, or in a message that is too long, and    *)
(* d_pcie_get_func_cnt will accept the table of functions it left.         *)
BootCompletes ==
    WellFormed /\ FirmwareWellFormed ~>
        pc = "hlt" /\ why \in {"none", "component", "message"} /\ d_pcie_get_func_cnt_ok
=============================================================================
