------------------------------ MODULE MCMmBoot ------------------------------
(* Machines: low memory below the kernel, then memory below and above a    *)
(* hole with a frame buffer and two PCIe segment groups, as on a PC with   *)
(* more than 4 GB; the same with a large frame buffer, with a misaligned   *)
(* one, with adjacent or too many sections, with a kernel at the end of    *)
(* memory; and a PC whose memory ends below the hole.                      *)
EXTENDS MmBoot

sec(base, len) == [base |-> base, len |-> len, type |-> 1]
gap(base, len) == [base |-> base, len |-> len, type |-> 2]
pc_map == <<sec(0, 2), gap(2, 1), sec(3, 21), gap(24, 16), sec(40, 25)>>
big_pc == [mmap |-> pc_map, kernel |-> [start |-> 4, end |-> 7],
           fb |-> 24, fb_len |-> 5, groups |-> <<32, 36>>]
small_pc == [mmap |-> <<sec(0, 2), sec(3, 29)>>, kernel |-> [start |-> 4, end |-> 7],
             fb |-> 40, fb_len |-> 5, groups |-> <<48>>]
BigPc == {big_pc}
AllMachines ==
    {big_pc, small_pc,
     [big_pc EXCEPT !.fb_len = 8],
     [big_pc EXCEPT !.fb = 26],
     [big_pc EXCEPT !.groups = <<32, 36, 28>>],
     [big_pc EXCEPT !.groups = <<36>>],
     [big_pc EXCEPT !.mmap = <<sec(0, 2), sec(2, 22), sec(40, 25)>>],
     [big_pc EXCEPT !.mmap = <<sec(0, 1), sec(2, 1)>> \o pc_map],
     [big_pc EXCEPT !.mmap = <<sec(0, 2), sec(3, 2), sec(6, 2), sec(9, 30)>>],
     [small_pc EXCEPT !.kernel = [start |-> 24, end |-> 31]]}
=============================================================================
