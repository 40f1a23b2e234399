---------------------------- MODULE MCKernelMain ----------------------------
(* Loaders that keep to the format and loaders that miss it in one point;  *)
(* screens whose size is and is not a multiple of a character.             *)
EXTENDS KernelMain

tag(type, size) == [type |-> type, size |-> size]
end == tag(0, 8)
mmap == tag(MMAP, 24)
elf == tag(ELF_SYMBOLS, 43)
fb == tag(FRAME_BUFFER, 38)
old == tag(ACPI_OLD, 28)
new == tag(ACPI_NEW, 44)

wide == [width |-> 8 * 24 + 3, height |-> 16 * 2 + 5, rgb32 |-> TRUE]
narrow == [width |-> 8 * 12, height |-> 16, rgb32 |-> TRUE]

Loader(tags, screen) ==
    [tags |-> tags, total |-> TotalOf(tags), header_ok |-> TRUE, screen |-> screen]
good == <<tag(1, 13), mmap, fb, elf, old, new, end>>

MCMachines ==
    {Loader(good, wide), Loader(<<elf, old, fb, mmap, end>>, narrow),
     [Loader(good, wide) EXCEPT !.header_ok = FALSE],
     [Loader(good, wide) EXCEPT !.total = @ + 8],
     [Loader(good, wide) EXCEPT !.screen.rgb32 = FALSE],
     Loader(<<mmap, elf, fb, new>>, narrow),           \* no end tag
     Loader(<<mmap, end, elf, fb, new, end>>, wide),   \* an end tag too early
     Loader(<<mmap, elf, fb, mmap, new, end>>, wide),  \* twice the same
     Loader(<<mmap, tag(12, 16), elf, fb, new, end>>, wide),
     Loader(<<mmap, fb, new, end>>, wide),
     Loader(<<mmap, elf, new, end>>, wide),
     Loader(<<mmap, elf, tag(FRAME_BUFFER, 40), new, end>>, wide),
     Loader(<<tag(MMAP, 8), elf, fb, new, end>>, wide),
     Loader(<<mmap, elf, fb, old, tag(ACPI_NEW, 8), end>>, wide),
     Loader(<<mmap, tag(1, 0), elf, fb, new, end>>, wide),
     Loader(<<mmap, tag(ELF_SYMBOLS, 5), tag(FRAME_BUFFER, 6), new, end>>, wide),
     Loader(<<mmap, elf, fb, end>>, wide)}

(* Literal text may run over the end, in front of an argument and behind.  *)
MCFormats == {<<literal(3)>>, <<literal(2), str(BUF_CAP - 3)>>, <<str(BUF_CAP - 1), literal(4), uint(2)>>,
              <<uint(2), literal(1), prefix(BUF_CAP - 3)>>, <<prefix(2), str(BUF_CAP - 2)>>}

(* Two groups of three buses with two devices of two functions.            *)
base == [i \in 1 .. 3 |-> i * CONFIG_SPACE_ALIGN]
group(i, bus_start, bus_end) == [base |-> base[i], bus_start |-> bus_start, bus_end |-> bus_end]
mcfg(groups_) == [mcfg |-> TRUE, len |-> 44 + 16 * Len(groups_), groups |-> groups_]
madt == [mcfg |-> FALSE, len |-> 50, groups |-> <<>>]
fn(multi, class) == [multi |-> multi, class |-> class]
loc(i, bus, dev, fun) == cfg_space_pa([base |-> base[i]], bus, dev, fun)
Space(where) == [a \in where |-> fn(a % FUNCTION_MAX = 0 /\ a + 1 \in where, "other")]
Firmware(tables, where) ==
    [rsdp_ok |-> TRUE, rest |-> 0, tables |-> tables, space |-> Space(where)]

one == {loc(1, 0, 0, 0)}
many == {loc(1, 0, 1, 0), loc(1, 0, 1, 1), loc(1, 1, 0, 0), loc(1, 1, 1, 1), loc(1, 2, 0, 0), loc(2, 1, 0, 0)}
full == many \cup {loc(2, 1, 1, 0)}
over == full \cup {loc(2, 0, 0, 0)}
usual == <<madt, mcfg(<<group(1, 0, 2), group(2, 0, 2)>>)>>
MCFirmwares ==
    {Firmware(usual, many), Firmware(usual, full), Firmware(usual, over), Firmware(<<madt>>, one),
     Firmware(<<mcfg(<<group(2, 1, 2), group(1, 1, 2)>>), madt, mcfg(<<group(1, 0, 1)>>)>>, full),
     [Firmware(usual, one) EXCEPT !.rest = 4], [Firmware(usual, one) EXCEPT !.rsdp_ok = FALSE],
     [Firmware(usual, one) EXCEPT !.tables[2].len = 40], [Firmware(usual, one) EXCEPT !.tables[2].len = 44 + 48],
     [Firmware(usual, many) EXCEPT !.tables[2].groups[2].base = @ + 1],
     [Firmware(usual, many) EXCEPT !.space[loc(1, 1, 0, 0)].class = "todo"]}
=============================================================================
