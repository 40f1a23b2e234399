----------------------------- MODULE PanelText ------------------------------
(***************************************************************************)
(* panel/panel.c and panel/panel_text.c over the cells of                  *)
(* drivers/drivers_screen.c: a ring of text rows and the box it is drawn   *)
(* into.  Colours are left out.                                            *)
(***************************************************************************)
EXTENDS Integers, Sequences

CONSTANTS
    SCREEN_WIDTH, SCREEN_HEIGHT,
    BUF_BYTES,   \* size of the array buf
    Chars        \* characters of the rows

ASSUME ScreenAssumption ==
    SCREEN_WIDTH \in Nat /\ SCREEN_WIDTH > 3 /\ SCREEN_HEIGHT \in Nat /\ SCREEN_HEIGHT > 4

VARIABLES
    pc,
    screen,       \* _video_buffer: offset of a character -> character
    buf,          \* the text: offset -> character
    row_lens,     \* lengths of the rows
    buf_tail, window_head, write_cnt,
    last,         \* the last row written and the answer
    drawn         \* nothing was written since the panel was drawn

ring == <<buf, row_lens, buf_tail, window_head, write_cnt>>
vars == <<pc, screen, ring, last, drawn>>

CHAR_NULL == "null"
start_row == 1
start_col == 0
end_row == SCREEN_HEIGHT - 2
end_col == SCREEN_WIDTH - 1

panel_text_width == end_col - start_col - 1
panel_text_height == end_row - start_row - 1

(* One row at least; the array has a megabyte.                             *)
ASSUME BufferAssumption ==
    BUF_BYTES \in Nat /\ BUF_BYTES >= panel_text_width * panel_text_width

(* buf_len counts rows already, and is divided by the width once more.     *)
buf_len == BUF_BYTES \div panel_text_width
buf_row_total == buf_len \div panel_text_width
buf_row_offs(row) == panel_text_width * row
buf_tail_next == (buf_tail + 1) % buf_row_total
panel_text_is_full_never == FALSE
panel_text_is_full == buf_tail_next = window_head
txt_start_row == start_row + 1
txt_start_col_on_border == start_col
txt_start_col == start_col + 1

offset_of_char(row, col) == row * SCREEN_WIDTH + col
Rows == 0 .. SCREEN_HEIGHT - 1
Cols == 0 .. SCREEN_WIDTH - 1
Offsets == {offset_of_char(row, col) : row \in Rows, col \in Cols}

Init ==
    /\ pc = "start" /\ screen \in [Offsets -> {CHAR_NULL}]
    /\ buf = [i \in 0 .. BUF_BYTES - 1 |-> CHAR_NULL] /\ row_lens = [i \in 0 .. BUF_BYTES - 1 |-> 0]
    /\ buf_tail = 0 /\ window_head = 0 /\ write_cnt = 0
    /\ last = [row |-> <<>>, ok |-> TRUE] /\ drawn = FALSE
-----------------------------------------------------------------------------
(* The frame of the box, by position; none elsewhere.                      *)
border(row, col) ==
    CASE row \in {start_row, end_row} /\ col \in {start_col, end_col} -> "corner"
      [] row \in {start_row, end_row} /\ start_col < col /\ col < end_col -> "horizontal"
      [] col \in {start_col, end_col} /\ start_row < row /\ row < end_row -> "vertical"
      [] OTHER -> "none"

(* _draw_txt: the first rows from window_head on.                          *)
row_cnt == IF write_cnt < panel_text_height THEN write_cnt ELSE panel_text_height
InText(row, col) ==
    /\ row \in txt_start_row .. txt_start_row + row_cnt - 1
    /\ col \in txt_start_col .. txt_start_col + row_lens[row - txt_start_row + window_head] - 1
text_char(row, col) ==
    buf[buf_row_offs(row - txt_start_row + window_head) + col - txt_start_col]

(* The assertions on rows of the ring and on columns of the screen.        *)
draw_ok ==
    \A i \in 0 .. row_cnt - 1 :
        /\ i + window_head < buf_row_total
        /\ txt_start_col + row_lens[i + window_head] < SCREEN_WIDTH

cell(offset) == <<offset \div SCREEN_WIDTH, offset % SCREEN_WIDTH>>
Drawn(old) ==
    [o \in Offsets |->
        LET row == cell(o)[1]
            col == cell(o)[2]
        IN  IF InText(row, col) THEN text_char(row, col)
            ELSE IF border(row, col) # "none" THEN border(row, col)
            ELSE old[o]]

panel_text_draw ==
    /\ pc = "ready"
    /\ IF draw_ok THEN screen' = Drawn(screen) /\ drawn' = TRUE /\ UNCHANGED pc
       ELSE pc' = "panic" /\ UNCHANGED <<screen, drawn>>
    /\ UNCHANGED <<ring, last>>

(* The row of menus, "Log" from column 2 on.                               *)
nav(col) == IF col \in 2 .. 4 THEN "menu" ELSE CHAR_NULL
panel_start ==
    /\ pc = "start" /\ pc' = "ready"
    /\ screen' = Drawn([o \in Offsets |-> IF cell(o)[1] = 0 THEN nav(o) ELSE CHAR_NULL])
    /\ drawn' = TRUE /\ UNCHANGED <<ring, last>>

(* A row that is not shorter than the panel is wide fails an assertion.    *)
panel_text_write_row(row) ==
    /\ pc = "ready"
    /\ IF Len(row) >= panel_text_width
       THEN pc' = "panic" /\ UNCHANGED <<ring, last, drawn>>
       ELSE /\ last' = [row |-> row, ok |-> ~panel_text_is_full]
            /\ IF panel_text_is_full THEN UNCHANGED <<ring, drawn>>
               ELSE LET off == buf_row_offs(buf_tail)
                    IN  /\ buf' = [i \in DOMAIN buf |->
                                      IF i \in off .. off + Len(row) - 1 THEN row[i - off + 1] ELSE buf[i]]
                        /\ row_lens' = [row_lens EXCEPT ![buf_tail] = Len(row)]
                        /\ buf_tail' = buf_tail_next /\ write_cnt' = write_cnt + 1
                        /\ drawn' = FALSE /\ UNCHANGED window_head
            /\ UNCHANGED pc
    /\ UNCHANGED screen

hlt == pc = "panic" /\ UNCHANGED vars

RowsUpTo(n) == UNION {[1 .. k -> Chars] : k \in 0 .. n}
Next == \/ panel_start \/ panel_text_draw \/ hlt
        \/ \E row \in RowsUpTo(panel_text_width) : panel_text_write_row(row)
Spec == Init /\ [][Next]_vars
-----------------------------------------------------------------------------
Log == [i \in 1 .. write_cnt |-> [k \in 1 .. row_lens[i - 1] |-> buf[buf_row_offs(i - 1) + k - 1]]]
Abstract == INSTANCE TextLog WITH
    log <- Log, call <- last, Capacity <- buf_row_total - 1

(* The panel keeps its rows as TextLog says: the text of a row, cut out of *)
(* one array at computed offsets, is never touched by another row, and a   *)
(* row is refused only when the ring is full, which is one row early.      *)
ImplementsTextLog == Abstract!Spec

(* Once the panel has been drawn, the box shows the first rows of the log, *)
(* from its left edge, and its frame is whole: no row that was accepted is *)
(* too long for it.                                                        *)
ScreenShowsLog ==
    /\ drawn => \A i \in 1 .. Len(Log), k \in 1 .. panel_text_width :
          i <= panel_text_height /\ k <= Len(Log[i]) =>
              screen[offset_of_char(start_row + i, start_col + k)] = Log[i][k]
    /\ pc # "start" => \A row \in Rows, col \in Cols :
          border(row, col) # "none" => screen[offset_of_char(row, col)] = border(row, col)
=============================================================================
