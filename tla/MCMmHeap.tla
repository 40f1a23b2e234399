----------------------------- MODULE MCMmHeap -----------------------------
(* The heap with few classes and expansions, and the kernel's page and     *)
(* header sizes.                                                           *)
EXTENDS MmHeap

MCSize == [c \in 0 .. MAX_CLASS - 1 |-> 2^c * 4096]

(* The lengths around each class boundary, the smallest and the largest    *)
(* request, and two that the code must refuse.                             *)
MCLens == {0, 1} \cup UNION {{Size[c] - Header, Size[c] - Header + 1} : c \in Class}
===========================================================================
