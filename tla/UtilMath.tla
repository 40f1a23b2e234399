------------------------------ MODULE UtilMath ------------------------------
(***************************************************************************)
(* The integer helpers of util/util_math.c that the memory manager uses.   *)
(***************************************************************************)
EXTENDS Integers

(* The loop of util_math_log_2_up: how often v can be halved before it     *)
(* becomes 0, not counting the halving that reaches 0.                     *)
Halvings[v \in Nat] == IF v \div 2 = 0 THEN 0 ELSE 1 + Halvings[v \div 2]

(* util_math_log_2_up: the number of binary digits of val - 1, except that *)
(* 0 and 1 both give 1.                                                    *)
log_2_up(val) == IF val = 0 THEN 1 ELSE 1 + Halvings[val - 1]

(* util_math_log_2_down: the exponent of the largest power of two that is  *)
(* not above val, which the code finds by doubling and one step back; it   *)
(* asserts that val is not 0.                                              *)
log_2_down(val) == Halvings[val]
=============================================================================
