------------------------------ MODULE Strings -------------------------------
(***************************************************************************)
(* containers/containers_string.c: how much the marshalling functions      *)
(* write into a buffer of cap bytes and where they stop.  Texts are seen   *)
(* as their lengths.                                                       *)
(***************************************************************************)
EXTENDS Integers, Sequences, FiniteSetsExt

CONSTANT USZ_MOD   \* 2^64: lengths and offsets are unsigned
ASSUME WidthAssumption == USZ_MOD \in Nat /\ USZ_MOD > 0

(* buf_len - buf_off, which wraps around for an offset behind the end.     *)
room(cap, off) == (cap - off) % USZ_MOD

(* The assertion of str_buf_marshal_str and of str_buf_marshal_uint, which *)
(* keep one byte for a terminator.                                         *)
marshal_ok(cap, off, len) == room(cap, off) > len

(* The parts of a format: text up to the next %, %s, %lu and %.Ns, with    *)
(* the lengths of what they stand for.                                     *)
literal(len) == [kind |-> "literal", len |-> len]
str(len) == [kind |-> "str", len |-> len]
uint(len) == [kind |-> "uint", len |-> len]
prefix(len) == [kind |-> "prefix", len |-> len]
Part == [kind : {"literal", "str", "uint", "prefix"}, len : Nat]

(* Literal text is copied without a look at the buffer; %.Ns looks at it   *)
(* for each character.                                                     *)
part_ok(part, cap, off) ==
    CASE part.kind = "literal" -> TRUE
      [] part.kind = "prefix"  -> part.len = 0 \/ off + part.len <= cap
      [] OTHER                 -> marshal_ok(cap, off, part.len)

(* The assertion behind the loop.                                          *)
format_end_ok_unchecked(cap, off) == TRUE
format_end_ok(cap, off) == off <= cap

(* buf_ptr after the first i parts of a format.                            *)
Offsets(parts) ==
    LET f[i \in 0 .. Len(parts)] == IF i = 0 THEN 0 ELSE f[i - 1] + parts[i].len
    IN  f

(* Whether the call returns, with which length, and how much has been      *)
(* written when it returns or fails: of the part that fails, nothing, or   *)
(* for %.Ns what still fits.  Literal text behind the buffer overwrites    *)
(* the caller's stack, and later arguments may be read from what it wrote; *)
(* of that only the later failure is kept here.                            *)
str_buf_marshal_format_v(parts, cap) ==
    LET off == Offsets(parts)
        bad == {i \in DOMAIN parts : ~part_ok(parts[i], cap, off[i - 1])}
        copied == IF bad = {} THEN Len(parts) ELSE Min(bad) - 1
    IN  [returns |-> bad = {} /\ format_end_ok(cap, off[Len(parts)]),
         len |-> off[Len(parts)],
         written |-> IF bad # {} /\ parts[Min(bad)].kind = "prefix" /\ off[copied] < cap THEN cap
                     ELSE off[copied]]
=============================================================================
