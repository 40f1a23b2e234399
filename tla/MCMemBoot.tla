----------------------------- MODULE MCMemBoot -----------------------------
(* Machines and calls for MemBoot: a page has 2 cells and a table 2        *)
(* entries, so a big page has 4 cells; PA_MAX is 48.                       *)
EXTENDS MemBoot

e(type, base, len) == [type |-> type, base |-> base, len |-> len]
kernel(end) == [start |-> 4, alloc_end |-> 14, end |-> end]
usual == [mmap |-> <<e(1, 0, 1), e(2, 1, 1), e(1, 2, 26)>>, kernel |-> kernel(15),
          fb |-> 36, fb_len |-> 4, cfg |-> {[pa |-> 32, len |-> 2]}]

MCMachines == {
    usual,
    [usual EXCEPT !.kernel = kernel(14)],
    [usual EXCEPT !.mmap = @ \o <<e(1, 30, 1)>>],           \* a small section is ignored
    [usual EXCEPT !.mmap = @ \o <<e(1, 28, 1)>>],           \* adjacent sections
    [usual EXCEPT !.mmap = @ \o <<e(1, 31, 1)>>],           \* unaligned section
    [usual EXCEPT !.mmap = <<e(2, 0, 2)>>],                 \* no usable memory
    [usual EXCEPT !.mmap = <<e(1, 0, 1), e(1, 2, 26), e(1, 30, 1), e(1, 40, 1)>>],
    [usual EXCEPT !.mmap = <<e(1, 4, 24)>>],                \* kernel starts the memory
    [usual EXCEPT !.mmap = <<e(1, 0, 1), e(1, 4, 11)>>, !.kernel = kernel(14)],  \* no large section
    [usual EXCEPT !.fb = 26],                               \* frame buffer in RAM
    [usual EXCEPT !.fb = 28],                               \* frame buffer adjacent to RAM
    [usual EXCEPT !.fb = 0, !.fb_len = 30],                 \* RAM inside the device
    [usual EXCEPT !.fb = 37],
    [usual EXCEPT !.fb_len = 3],
    [usual EXCEPT !.fb_len = 6],
    [usual EXCEPT !.fb_len = 8],                            \* does not fit its window
    [usual EXCEPT !.cfg = {}],
    [usual EXCEPT !.cfg = {[pa |-> 32, len |-> 2], [pa |-> 20, len |-> 2]}],
    [usual EXCEPT !.mmap = <<e(1, 2, 14), e(1, 18, 12)>>],
    [usual EXCEPT !.mmap = <<e(1, 2, 14), e(1, 18, 12)>>, !.kernel = kernel(14)] }

r(pa, n_pg) == [pa |-> pa, n_pg |-> n_pg]
MCCalls == {
    [va |-> 96, n_pg |-> 1, list |-> <<r(20, 1)>>],
    [va |-> 98, n_pg |-> 3, list |-> <<r(22, 0), r(20, 2), r(24, 0), r(16, 1)>>],
    [va |-> 96, n_pg |-> 3, list |-> <<r(20, 2), r(16, 1)>>],
    [va |-> 100, n_pg |-> 4, list |-> <<r(20, 1), r(16, 3)>>],
    [va |-> 112, n_pg |-> 2, list |-> <<r(20, 1), r(20, 1)>>],
    [va |-> 96, n_pg |-> 2, list |-> <<r(20, 1)>>],
    [va |-> 97, n_pg |-> 1, list |-> <<r(20, 1)>>] }
=============================================================================
