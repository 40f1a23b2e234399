------------------------------ MODULE TextLog -------------------------------
(* What a text panel promises to its writers: rows are kept in the order   *)
(* they were written and never change; a row is refused only when the      *)
(* panel is full.                                                          *)
EXTENDS Naturals, Sequences

CONSTANT Capacity

VARIABLES
    log,     \* the rows kept
    call     \* the last row written and the answer to it

Init == log = <<>> /\ call = [row |-> <<>>, ok |-> TRUE]

Write(row) ==
    /\ call' = [row |-> row, ok |-> Len(log) < Capacity]
    /\ log' = IF Len(log) < Capacity THEN Append(log, row) ELSE log

Spec == Init /\ [][Write(call'.row)]_<<log, call>>
=============================================================================
