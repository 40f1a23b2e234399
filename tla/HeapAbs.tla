------------------------------ MODULE HeapAbs ------------------------------
(***************************************************************************)
(* What a heap promises: each request is answered with an extent at least  *)
(* as long as asked for, inside the heap and disjoint from every extent    *)
(* that is still owned.                                                    *)
(***************************************************************************)
EXTENDS Integers

VARIABLES
    owned,   \* extents [start, size] handed out and not given back
    brk,     \* the heap occupies 0 .. brk - 1
    ask      \* length of the outstanding request, 0 when there is none

absvars == <<owned, brk, ask>>

Apart(r, s) == r.start + r.size <= s.start \/ s.start + s.size <= r.start

Init == owned = {} /\ brk = 0 /\ ask = 0

Request ==
    /\ ask = 0
    /\ ask' > 0
    /\ UNCHANGED <<owned, brk>>

Grow ==
    /\ ask > 0
    /\ brk' > brk
    /\ UNCHANGED <<owned, ask>>

Grant ==
    /\ ask > 0
    /\ ask' = 0
    /\ \E r \in owned' \ owned :
          /\ owned' = owned \cup {r}
          /\ r.size >= ask
          /\ r.start + r.size <= brk
          /\ \A s \in owned : Apart(r, s)
    /\ UNCHANGED brk

GiveBack ==
    /\ ask = 0
    /\ \E r \in owned : owned' = owned \ {r}
    /\ UNCHANGED <<brk, ask>>

Next == Request \/ Grow \/ Grant \/ GiveBack

Spec == Init /\ [][Next]_absvars
=============================================================================
