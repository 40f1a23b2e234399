-------------------------- MODULE PanelTextProofs ---------------------------
(***************************************************************************)
(* The text panel for every size of the screen, every size of the buffer   *)
(* that has room for a row, and every set of characters.                   *)
(***************************************************************************)
EXTENDS PanelText, SequenceTheorems, TLAPS

(* A product grows by a factor for each step of the other.                 *)
LEMMA MulStep ==
    ASSUME NEW w \in Nat, NEW i \in Nat, NEW j \in Nat, i < j
    PROVE  w * i + w <= w * j /\ w * i \in Nat /\ w * j \in Nat
  <1>1. PICK d \in Nat : j = i + 1 + d
    <2>1. j - i - 1 \in Nat /\ j = i + 1 + (j - i - 1)
      OBVIOUS
    <2> QED
      BY <2>1
  <1>2. w * j = w * i + w + w * d
    BY <1>1
  <1>3. w * d \in Nat /\ w * i \in Nat /\ w * j \in Nat
    OBVIOUS
  <1> QED
    BY <1>2, <1>3

(* Quotient and remainder.                                                 *)
LEMMA DivMod ==
    ASSUME NEW a \in Nat, NEW w \in Nat, w > 0
    PROVE  a \div w \in Nat /\ a % w \in 0 .. w - 1 /\ a = w * (a \div w) + (a % w)
  OBVIOUS

(* There is only one quotient and one remainder.                           *)
LEMMA DivUnique ==
    ASSUME NEW w \in Nat, w > 0, NEW q \in Nat, NEW r \in 0 .. w - 1
    PROVE  (q * w + r) \div w = q /\ (q * w + r) % w = r
  <1> DEFINE a == q * w + r
  <1>1. a \in Nat /\ q * w = w * q
    OBVIOUS
  <1>2. a \div w \in Nat /\ a % w \in 0 .. w - 1 /\ a = w * (a \div w) + (a % w)
    BY <1>1, DivMod
  <1> DEFINE p == a \div w
             s == a % w
  <1>3. p \in Nat /\ s \in 0 .. w - 1 /\ w * q + r = w * p + s
    BY <1>1, <1>2
  <1> HIDE DEF p, s
  <1>4. ~(p < q)
    <2>1. p < q => w * p + w <= w * q /\ w * p \in Nat /\ w * q \in Nat
      BY <1>3, MulStep
    <2> QED
      BY <1>3, <2>1
  <1>5. ~(q < p)
    <2>1. q < p => w * q + w <= w * p /\ w * p \in Nat /\ w * q \in Nat
      BY <1>3, MulStep
    <2> QED
      BY <1>3, <2>1
  <1>6. p = q
    BY <1>3, <1>4, <1>5
  <1>7. s = r
    BY <1>3, <1>6
  <1> QED
    BY <1>6, <1>7 DEF p, s
-----------------------------------------------------------------------------
(* The ring: nothing ever moves the window, so the tail counts the rows,   *)
(* and the last row of the buffer stays unused.                            *)
RingOK ==
    /\ pc \in {"start", "ready", "panic"}
    /\ window_head = 0 /\ buf_tail = write_cnt
    /\ write_cnt \in 0 .. buf_row_total - 1
    /\ pc = "start" => write_cnt = 0
    /\ buf \in [0 .. BUF_BYTES - 1 -> Chars \cup {CHAR_NULL}]
    /\ row_lens \in [0 .. BUF_BYTES - 1 -> 0 .. panel_text_width - 1]
    /\ DOMAIN screen = Offsets

(* The inductive invariant.                                                *)
IInv == RingOK /\ ScreenShowsLog
-----------------------------------------------------------------------------
(* The measures of the panel, and of the buffer.                           *)
LEMMA BufferHoldsRows ==
    /\ panel_text_width \in Nat /\ panel_text_width > 1 /\ panel_text_width = SCREEN_WIDTH - 2
    /\ panel_text_height \in Nat /\ panel_text_height > 0 /\ panel_text_height = SCREEN_HEIGHT - 4
    /\ buf_row_total \in Nat /\ buf_row_total > 0
    /\ panel_text_width * buf_row_total <= BUF_BYTES
    /\ buf_row_total <= BUF_BYTES
  <1> DEFINE w == panel_text_width
             h == panel_text_height
             bl == BUF_BYTES \div w
             total == bl \div w
  <1>1. w = SCREEN_WIDTH - 2 /\ h = SCREEN_HEIGHT - 4
    BY ScreenAssumption
       DEF panel_text_width, panel_text_height, start_row, start_col, end_row, end_col
  <1>2. w \in Nat /\ w > 1 /\ h \in Nat /\ h > 0
    BY <1>1, ScreenAssumption
  <1>3. BUF_BYTES \in Nat /\ BUF_BYTES >= w * w
    BY BufferAssumption
  <1>4. total = buf_row_total
    BY DEF buf_row_total, buf_len
  <1> HIDE DEF w, h
  <1>5. bl \in Nat /\ BUF_BYTES % w \in 0 .. w - 1 /\ BUF_BYTES = w * bl + (BUF_BYTES % w)
    BY <1>2, <1>3, DivMod
  <1>6. bl >= w
    <2> SUFFICES ASSUME bl < w PROVE FALSE
      BY <1>2, <1>5
    <2>1. w * bl + w <= w * w /\ w * bl \in Nat /\ w * w \in Nat
      BY <1>2, <1>5, MulStep
    <2> HIDE DEF bl
    <2> QED
      BY <1>2, <1>3, <1>5, <2>1
  <1> HIDE DEF bl
  <1>7. total \in Nat /\ bl % w \in 0 .. w - 1 /\ bl = w * total + (bl % w)
    BY <1>2, <1>5, DivMod
  <1> HIDE DEF total
  <1>8. total # 0
    BY <1>2, <1>6, <1>7
  <1>9. w * bl \in Nat /\ bl <= w * bl /\ w * total \in Nat /\ total <= w * total
    <2>1. \A x \in Nat : w * x \in Nat /\ x <= w * x
      <3> TAKE x \in Nat
      <3>1. w - 1 \in Nat /\ w = (w - 1) + 1
        BY <1>2
      <3>2. PICK v \in Nat : w = v + 1
        BY <3>1
      <3>3. w * x = v * x + x /\ v * x \in Nat
        BY <3>2
      <3> QED
        BY <3>3
    <2> QED
      BY <2>1, <1>5, <1>7
  <1>10. w * total <= BUF_BYTES /\ total <= BUF_BYTES
    <2> DEFINE a == w * bl
               b == w * total
               c == BUF_BYTES % w
               d == bl % w
    <2>1. /\ a \in Nat /\ b \in Nat /\ bl \in Nat /\ total \in Nat
          /\ bl <= a /\ total <= b /\ BUF_BYTES = a + c /\ bl = b + d
          /\ c \in 0 .. w - 1 /\ d \in 0 .. w - 1
      BY <1>5, <1>7, <1>9
    <2>2. w \in Nat /\ c >= 0 /\ d >= 0 /\ c \in Int /\ d \in Int
      BY <1>2, <2>1
    <2> HIDE DEF a, b, c, d
    <2>3. b <= BUF_BYTES /\ total <= BUF_BYTES
      BY <2>1, <2>2, <1>3
    <2> QED
      BY <2>3 DEF b
  <1> QED
    BY <1>1, <1>2, <1>4, <1>7, <1>8, <1>10 DEF w, h

(* What the proofs need to know of the measures.                           *)
LEMMA Measures ==
    /\ SCREEN_WIDTH \in Nat /\ SCREEN_HEIGHT \in Nat /\ BUF_BYTES \in Nat
    /\ panel_text_width \in Nat /\ panel_text_width > 1 /\ SCREEN_WIDTH = panel_text_width + 2
    /\ panel_text_height \in Nat /\ panel_text_height > 0 /\ SCREEN_HEIGHT = panel_text_height + 4
    /\ buf_row_total \in Nat /\ buf_row_total > 0 /\ buf_row_total <= BUF_BYTES
  <1>1. SCREEN_WIDTH \in Nat /\ SCREEN_HEIGHT \in Nat /\ BUF_BYTES \in Nat
    BY ScreenAssumption, BufferAssumption
  <1> QED
    BY <1>1, BufferHoldsRows

(* The place of a character of the ring's rows in the array.               *)
LEMMA PlaceInBuffer ==
    ASSUME NEW n \in 0 .. buf_row_total - 1, NEW k \in 0 .. panel_text_width - 1
    PROVE  /\ buf_row_offs(n) \in Nat
           /\ buf_row_offs(n) + k \in 0 .. BUF_BYTES - 1
  <1> DEFINE w == panel_text_width
             total == buf_row_total
  <1>1. w \in Nat /\ total \in Nat /\ w * total <= BUF_BYTES /\ n \in Nat /\ n < total
    BY BufferHoldsRows
  <1> HIDE DEF w, total
  <1>2. w * n + w <= w * total /\ w * n \in Nat /\ w * total \in Nat
    BY <1>1, MulStep
  <1>3. buf_row_offs(n) = w * n /\ k \in 0 .. w - 1
    BY DEF buf_row_offs, w
  <1> QED
    BY <1>1, <1>2, <1>3, BufferAssumption

(* Two rows of the ring share no byte.                                     *)
LEMMA RowsApart ==
    ASSUME NEW m \in 0 .. buf_row_total - 1, NEW n \in 0 .. buf_row_total - 1, m # n,
           NEW j \in 0 .. panel_text_width - 1, NEW k \in 0 .. panel_text_width - 1
    PROVE  buf_row_offs(m) + j # buf_row_offs(n) + k
  <1> DEFINE w == panel_text_width
  <1>1. w \in Nat /\ m \in Nat /\ n \in Nat /\ j \in 0 .. w - 1 /\ k \in 0 .. w - 1
    BY Measures
  <1>2. buf_row_offs(m) = w * m /\ buf_row_offs(n) = w * n
    BY DEF buf_row_offs
  <1> HIDE DEF w
  <1>3. m < n => w * m + w <= w * n /\ w * n \in Nat /\ w * m \in Nat
    BY <1>1, MulStep
  <1>4. n < m => w * n + w <= w * m /\ w * n \in Nat /\ w * m \in Nat
    BY <1>1, MulStep
  <1> QED
    BY <1>1, <1>2, <1>3, <1>4

(* The rows the array stands for.                                          *)
LEMMA LogIs ==
    ASSUME RingOK
    PROVE  /\ Log \in Seq(Seq(Chars \cup {CHAR_NULL})) /\ Len(Log) = write_cnt
           /\ \A i \in 1 .. write_cnt :
                 /\ i - 1 \in 0 .. BUF_BYTES - 1
                 /\ Len(Log[i]) = row_lens[i - 1] /\ row_lens[i - 1] \in 0 .. panel_text_width - 1
                 /\ \A k \in 1 .. row_lens[i - 1] : Log[i][k] = buf[buf_row_offs(i - 1) + k - 1]
  <1> DEFINE C == Chars \cup {CHAR_NULL}
             chars(i) == [k \in 1 .. row_lens[i - 1] |-> buf[buf_row_offs(i - 1) + k - 1]]
  <1>1. \A i \in 1 .. write_cnt :
           /\ i - 1 \in 0 .. BUF_BYTES - 1 /\ i - 1 \in 0 .. buf_row_total - 1
           /\ row_lens[i - 1] \in 0 .. panel_text_width - 1
    BY Measures DEF RingOK
  <1>2. ASSUME NEW i \in 1 .. write_cnt
        PROVE  chars(i) \in Seq(C) /\ Len(chars(i)) = row_lens[i - 1]
    <2>1. ASSUME NEW k \in 1 .. row_lens[i - 1] PROVE buf[buf_row_offs(i - 1) + k - 1] \in C
      <3>1. k - 1 \in 0 .. panel_text_width - 1 /\ k \in Nat
        BY <1>1, Measures
      <3>2. buf_row_offs(i - 1) \in Nat /\ buf_row_offs(i - 1) + (k - 1) \in 0 .. BUF_BYTES - 1
        BY <3>1, <1>1, PlaceInBuffer
      <3>3. buf_row_offs(i - 1) + k - 1 \in 0 .. BUF_BYTES - 1
        BY <3>1, <3>2
      <3> QED
        BY <3>3 DEF RingOK
    <2>2. row_lens[i - 1] \in Nat
      BY <1>1, Measures
    <2> QED
      BY <2>1, <2>2
  <1>3. Log = [i \in 1 .. write_cnt |-> chars(i)] /\ write_cnt \in Nat
    BY Measures DEF Log, RingOK
  <1>4. Log \in Seq(Seq(C)) /\ Len(Log) = write_cnt
    BY <1>2, <1>3
  <1>5. \A i \in 1 .. write_cnt : Log[i] = chars(i)
    BY <1>3
  <1> QED
    BY <1>1, <1>2, <1>4, <1>5
-----------------------------------------------------------------------------
(* The cell of an offset, and back.                                        *)
LEMMA CellOf ==
    ASSUME NEW row \in Rows, NEW col \in Cols
    PROVE  /\ offset_of_char(row, col) \in Offsets
           /\ cell(offset_of_char(row, col))[1] = row
           /\ cell(offset_of_char(row, col))[2] = col
  <1>1. row \in Nat /\ col \in 0 .. SCREEN_WIDTH - 1 /\ SCREEN_WIDTH \in Nat /\ SCREEN_WIDTH > 0
    BY ScreenAssumption DEF Rows, Cols
  <1>2. (row * SCREEN_WIDTH + col) \div SCREEN_WIDTH = row /\ (row * SCREEN_WIDTH + col) % SCREEN_WIDTH = col
    BY <1>1, DivUnique
  <1> QED
    BY <1>2 DEF Offsets, offset_of_char, cell

(* What panel_text_draw leaves in a cell.                                  *)
LEMMA DrawnCell ==
    ASSUME NEW old, NEW row \in Rows, NEW col \in Cols
    PROVE  Drawn(old)[offset_of_char(row, col)] =
               IF InText(row, col) THEN text_char(row, col)
               ELSE IF border(row, col) # "none" THEN border(row, col)
               ELSE old[offset_of_char(row, col)]
  BY CellOf DEF Drawn

(* The rows that are drawn.                                                *)
LEMMA RowCount ==
    ASSUME RingOK
    PROVE  row_cnt \in Nat /\ row_cnt <= write_cnt /\ row_cnt <= panel_text_height
           /\ \A i \in Nat : i <= write_cnt /\ i <= panel_text_height => i <= row_cnt
  BY Measures DEF row_cnt, RingOK

(* No assertion of the drawing can fail: the rows that are counted are in  *)
(* the ring, and none is longer than the panel.                            *)
LEMMA DrawOk == ASSUME RingOK PROVE draw_ok
  <1> SUFFICES ASSUME NEW i \in 0 .. row_cnt - 1
               PROVE  /\ i + window_head < buf_row_total
                      /\ txt_start_col + row_lens[i + window_head] < SCREEN_WIDTH
    BY DEF draw_ok
  <1>1. i \in Nat /\ i < write_cnt /\ write_cnt \in 0 .. buf_row_total - 1 /\ i + window_head = i
    BY RowCount DEF RingOK
  <1>2. i < buf_row_total /\ i \in 0 .. BUF_BYTES - 1
    BY <1>1, Measures
  <1>3. row_lens[i] \in 0 .. panel_text_width - 1
    BY <1>2 DEF RingOK
  <1> QED
    BY <1>1, <1>2, <1>3, Measures DEF txt_start_col, start_col

(* The text lies strictly inside the frame.                                *)
LEMMA TextInside ==
    ASSUME RingOK, NEW row \in Rows, NEW col \in Cols, InText(row, col)
    PROVE  border(row, col) = "none"
  <1>1. row \in 2 .. 2 + row_cnt - 1 /\ row \in Int /\ col \in Int
    BY DEF InText, txt_start_row, start_row, Rows, Cols
  <1>2. row - 2 \in 0 .. row_cnt - 1 /\ row - txt_start_row + window_head = row - 2
    BY <1>1, RowCount DEF RingOK, txt_start_row, start_row
  <1>3. /\ row_cnt \in Nat /\ write_cnt \in Nat /\ buf_row_total \in Nat /\ BUF_BYTES \in Nat
        /\ row_cnt <= write_cnt /\ write_cnt < buf_row_total /\ buf_row_total <= BUF_BYTES
    BY RowCount, Measures DEF RingOK
  <1>4. row - 2 \in 0 .. BUF_BYTES - 1
    BY <1>1, <1>2, <1>3
  <1>5. row_lens[row - 2] \in 0 .. panel_text_width - 1
    BY <1>4 DEF RingOK
  <1>6. col \in 1 .. row_lens[row - 2]
    BY <1>2, <1>5, Measures DEF InText, txt_start_col, start_col
  <1>7. 0 < col /\ col < end_col
    BY <1>5, <1>6, Measures DEF end_col
  <1>8. 1 < row /\ row < end_row
    BY <1>1, RowCount, Measures DEF end_row
  <1>9. row \notin {start_row, end_row} /\ col \notin {start_col, end_col}
    BY <1>1, <1>7, <1>8, ScreenAssumption DEF start_row, start_col, end_row, end_col
  <1> QED
    BY <1>9 DEF border

(* A screen that has just been drawn shows the log and the frame.          *)
LEMMA DrawShows ==
    ASSUME RingOK, NEW old, screen' = Drawn(old), UNCHANGED ring
    PROVE  ScreenShowsLog' /\ DOMAIN screen' = Offsets
  <1>1. Log' = Log
    BY DEF Log, ring, buf_row_offs, panel_text_width, end_col, start_col
  <1>2. ASSUME NEW i \in 1 .. Len(Log), NEW k \in 1 .. panel_text_width,
               i <= panel_text_height, k <= Len(Log[i])
        PROVE  screen'[offset_of_char(start_row + i, start_col + k)] = Log[i][k]
    <2>1. /\ write_cnt \in Nat /\ i \in 1 .. write_cnt /\ i \in Nat /\ k \in Nat
          /\ i - 1 \in 0 .. BUF_BYTES - 1
          /\ Len(Log[i]) = row_lens[i - 1] /\ row_lens[i - 1] \in 0 .. panel_text_width - 1
      BY LogIs, Measures DEF RingOK
    <2>2. row_lens[i - 1] \in Nat /\ k \in 1 .. row_lens[i - 1]
      BY <1>2, <2>1, Measures
    <2>3. k \in 1 .. row_lens[i - 1] /\ Log[i][k] = buf[buf_row_offs(i - 1) + k - 1]
      BY <2>1, <2>2, LogIs
    <2>4. i <= row_cnt /\ row_cnt \in Nat
      BY <1>2, <2>1, RowCount
    <2> DEFINE row == start_row + i
               col == start_col + k
    <2>5. row \in Rows /\ col \in Cols
      BY <1>2, <2>1, <2>3, Measures DEF Rows, Cols, start_row, start_col
    <2>6. row - txt_start_row + window_head = i - 1 /\ col - txt_start_col = k - 1
      BY <2>1 DEF RingOK, txt_start_row, txt_start_col, start_row, start_col
    <2>7. InText(row, col)
      <3>1. row \in txt_start_row .. txt_start_row + row_cnt - 1
        BY <2>1, <2>4 DEF txt_start_row, start_row
      <3>2. col \in txt_start_col .. txt_start_col + row_lens[i - 1] - 1
        BY <2>1, <2>3, Measures DEF txt_start_col, start_col
      <3> QED
        BY <3>1, <3>2, <2>6 DEF InText
    <2>8. text_char(row, col) = buf[buf_row_offs(i - 1) + k - 1]
      <3>1. text_char(row, col) = buf[buf_row_offs(i - 1) + col - txt_start_col]
        BY <2>6 DEF text_char
      <3>2. buf_row_offs(i - 1) \in Int
        <4>1. i - 1 \in Int /\ panel_text_width \in Int
          BY <2>1, Measures
        <4> QED
          BY <4>1 DEF buf_row_offs
      <3>3. buf_row_offs(i - 1) + col - txt_start_col = buf_row_offs(i - 1) + k - 1
        BY <3>2, <2>1 DEF txt_start_col, start_col
      <3> QED
        BY <3>1, <3>3
    <2> HIDE DEF row, col
    <2>9. screen'[offset_of_char(row, col)] = text_char(row, col)
      BY <2>5, <2>7, DrawnCell
    <2> QED
      BY <2>3, <2>8, <2>9 DEF row, col
  <1>3. ASSUME NEW row \in Rows, NEW col \in Cols, border(row, col) # "none"
        PROVE  screen'[offset_of_char(row, col)] = border(row, col)
    BY <1>3, DrawnCell, TextInside
  <1>4. DOMAIN screen' = Offsets
    BY DEF Drawn
  <1> QED
    BY <1>1, <1>2, <1>3, <1>4 DEF ScreenShowsLog
-----------------------------------------------------------------------------
(* A row of the panel's writers.                                           *)
LEMMA RowIs ==
    ASSUME NEW row \in RowsUpTo(panel_text_width)
    PROVE  row \in Seq(Chars) /\ Len(row) \in Nat /\ DOMAIN row = 1 .. Len(row)
  <1>1. PICK k \in 0 .. panel_text_width : row \in [1 .. k -> Chars]
    BY DEF RowsUpTo
  <1>2. k \in Nat
    BY <1>1, Measures
  <1> QED
    BY <1>1, <1>2

(* A row is refused exactly when the ring has one row left.                *)
LEMMA FullIs == ASSUME RingOK PROVE /\ panel_text_is_full <=> write_cnt = buf_row_total - 1
                                    /\ ~panel_text_is_full => buf_tail_next = write_cnt + 1
  <1> DEFINE t == buf_row_total
             n == write_cnt
  <1>1. t \in Nat /\ t > 0 /\ n \in 0 .. t - 1
    BY Measures DEF RingOK
  <1>2. buf_tail_next = (n + 1) % t /\ window_head = 0
    BY DEF buf_tail_next, RingOK
  <1> HIDE DEF t, n
  <1>3. CASE n = t - 1
    <2>1. n + 1 = 1 * t + 0 /\ 0 \in 0 .. t - 1
      BY <1>1, <1>3
    <2>2. (n + 1) % t = 0
      BY <1>1, <2>1, DivUnique
    <2> QED
      BY <1>2, <1>3, <2>2 DEF panel_text_is_full, t, n
  <1>4. CASE n < t - 1
    <2>1. n + 1 = 0 * t + (n + 1) /\ n + 1 \in 0 .. t - 1 /\ n + 1 # 0 /\ n # t - 1
      BY <1>1, <1>4
    <2>2. (n + 1) % t = n + 1
      BY <1>1, <2>1, DivUnique
    <2> QED
      BY <1>2, <2>1, <2>2 DEF panel_text_is_full, t, n
  <1> QED
    BY <1>1, <1>3, <1>4

(* Writing a row that is accepted appends it to the log.                   *)
LEMMA WriteAppends ==
    ASSUME RingOK, NEW row \in RowsUpTo(panel_text_width), panel_text_write_row(row),
           pc' = "ready", ~panel_text_is_full
    PROVE  RingOK' /\ Log' = Append(Log, row)
  <1> DEFINE w == panel_text_width
             t == buf_row_total
             n == write_cnt
             off == buf_row_offs(n)
             C == Chars \cup {CHAR_NULL}
  <1>1. /\ row \in Seq(Chars) /\ Len(row) \in Nat /\ DOMAIN row = 1 .. Len(row)
    BY RowIs
  <1>2. ~(Len(row) >= w) /\ pc = "ready"
    BY DEF panel_text_write_row
  <1>3. /\ buf' = [i \in DOMAIN buf |-> IF i \in off .. off + Len(row) - 1 THEN row[i - off + 1] ELSE buf[i]]
        /\ row_lens' = [row_lens EXCEPT ![n] = Len(row)]
        /\ buf_tail' = buf_tail_next /\ write_cnt' = n + 1
        /\ window_head' = window_head /\ screen' = screen
    BY <1>2 DEF panel_text_write_row, RingOK
  <1>4. n \in Nat /\ t \in Nat /\ n < t - 1 /\ w \in Nat /\ n \in 0 .. t - 1 /\ t <= BUF_BYTES
    BY FullIs, Measures DEF RingOK
  <1>5. n \in 0 .. BUF_BYTES - 1 /\ off \in Nat
    <2>1. 0 \in 0 .. w - 1
      BY Measures
    <2> QED
      BY <1>4, <2>1, PlaceInBuffer, BufferAssumption
  <1>6. row_lens' \in [0 .. BUF_BYTES - 1 -> 0 .. w - 1]
    BY <1>1, <1>2, <1>3, <1>4, <1>5 DEF RingOK
  <1>7. buf' \in [0 .. BUF_BYTES - 1 -> C]
    <2>1. ASSUME NEW i \in off .. off + Len(row) - 1 PROVE row[i - off + 1] \in Chars
      <3>1. i - off + 1 \in 1 .. Len(row)
        BY <1>1, <1>5
      <3> QED
        BY <1>1, <3>1
    <2>2. buf \in [0 .. BUF_BYTES - 1 -> C]
      BY DEF RingOK
    <2> QED
      BY <1>3, <2>1, <2>2
  <1>8. RingOK'
    <2>1. write_cnt' \in 0 .. t - 1 /\ buf_tail' = write_cnt'
      BY <1>3, <1>4, FullIs
    <2>2. /\ buf_row_total' = t /\ panel_text_width' = w /\ Offsets' = Offsets
      BY DEF buf_row_total, buf_len, panel_text_width, end_col, start_col, Offsets
    <2> QED
      BY <1>3, <1>6, <1>7, <2>1, <2>2 DEF RingOK
  <1>9. Log \in Seq(Seq(C)) /\ Len(Log) = n
    BY LogIs
  <1>10. \A i \in 1 .. n + 1 :
           /\ i - 1 \in 0 .. t - 1 /\ i - 1 \in 0 .. BUF_BYTES - 1
           /\ i <= n => row_lens'[i - 1] = row_lens[i - 1]
           /\ i = n + 1 => row_lens'[i - 1] = Len(row)
    <2> TAKE i \in 1 .. n + 1
    <2>1. i - 1 \in 0 .. t - 1 /\ i - 1 \in 0 .. BUF_BYTES - 1 /\ (i <= n => i - 1 # n)
          /\ (i = n + 1 => i - 1 = n)
      BY <1>4, BufferAssumption
    <2>2. \A j \in 0 .. BUF_BYTES - 1 : row_lens'[j] = IF j = n THEN Len(row) ELSE row_lens[j]
      BY <1>3, <1>5 DEF RingOK
    <2> HIDE DEF n, t
    <2> QED
      BY <2>1, <2>2
  <1> DEFINE at(x) == [k \in 1 .. row_lens'[x] |-> buf'[buf_row_offs(x) + k - 1]]
  <1>11. Log' = [i \in 1 .. n + 1 |-> at(i - 1)]
    BY <1>3 DEF Log, buf_row_offs, panel_text_width, end_col, start_col
  <1>12. ASSUME NEW i \in 1 .. n PROVE at(i - 1) = Log[i]
    <2>1. /\ i \in 1 .. n + 1 /\ i - 1 \in 0 .. t - 1 /\ i - 1 # n /\ row_lens'[i - 1] = row_lens[i - 1]
          /\ row_lens[i - 1] \in 0 .. w - 1
      <3>1. i \in 1 .. n + 1 /\ i <= n /\ i - 1 # n
        BY <1>4
      <3>2. row_lens[i - 1] \in 0 .. w - 1
        BY LogIs
      <3> QED
        BY <3>1, <3>2, <1>10
    <2>2. ASSUME NEW k \in 1 .. row_lens[i - 1]
          PROVE  buf'[buf_row_offs(i - 1) + k - 1] = buf[buf_row_offs(i - 1) + k - 1]
      <3>1. k - 1 \in 0 .. w - 1 /\ k \in Int
        BY <1>4, <2>1
      <3>2. buf_row_offs(i - 1) \in Nat /\ buf_row_offs(i - 1) + (k - 1) \in 0 .. BUF_BYTES - 1
        BY <2>1, <3>1, PlaceInBuffer
      <3>3. \A j \in 0 .. w - 1 : buf_row_offs(i - 1) + (k - 1) # off + j
        BY <1>4, <2>1, <3>1, RowsApart
      <3> DEFINE b == buf_row_offs(i - 1)
      <3>4. b + k - 1 = b + (k - 1) /\ b \in Int
        BY <3>1, <3>2
      <3>5. b + (k - 1) \notin off .. off + Len(row) - 1
        <4> SUFFICES ASSUME b + (k - 1) \in off .. off + Len(row) - 1 PROVE FALSE
          OBVIOUS
        <4> DEFINE j == b + (k - 1) - off
        <4>1. j \in 0 .. w - 1 /\ b + (k - 1) = off + j
          BY <1>1, <1>2, <1>4, <1>5, <3>1, <3>2
        <4> QED
          BY <3>3, <4>1
      <3>6. b + (k - 1) \in DOMAIN buf
        BY <3>2 DEF RingOK
      <3> QED
        BY <1>3, <3>4, <3>5, <3>6
    <2>3. Log[i] = [k \in 1 .. row_lens[i - 1] |-> buf[buf_row_offs(i - 1) + k - 1]]
      BY DEF Log
    <2> QED
      BY <2>1, <2>2, <2>3
  <1>13. at(n) = row
    <2>1. n + 1 - 1 = n /\ n + 1 \in 1 .. n + 1
      BY <1>4
    <2>2. row_lens'[n] = Len(row)
      BY <1>3, <1>5 DEF RingOK
    <2>3. ASSUME NEW k \in 1 .. Len(row) PROVE buf'[off + k - 1] = row[k]
      <3>1. k \in Int /\ k - 1 \in 0 .. w - 1
        BY <1>1, <1>2, <1>4
      <3>2. off + (k - 1) \in 0 .. BUF_BYTES - 1 /\ off + k - 1 = off + (k - 1)
        BY <1>4, <1>5, <3>1, PlaceInBuffer
      <3>3. off + k - 1 \in off .. off + Len(row) - 1 /\ (off + k - 1) - off + 1 = k
        BY <1>1, <1>5, <3>1
      <3>4. off + k - 1 \in DOMAIN buf
        BY <3>2 DEF RingOK
      <3> QED
        BY <1>3, <3>3, <3>4
    <2>4. at(n) = [k \in 1 .. Len(row) |-> buf'[off + k - 1]]
      BY <2>2
    <2>5. row = [k \in 1 .. Len(row) |-> row[k]]
      BY <1>1
    <2> QED
      BY <2>3, <2>4, <2>5
  <1> HIDE DEF at
  <1>14. Append(Log, row) = [i \in 1 .. n + 1 |-> IF i = n + 1 THEN row ELSE Log[i]]
    <2>1. row \in Seq(C)
      BY <1>1
    <2> DEFINE z == Append(Log, row)
    <2>2. z \in Seq(Seq(C)) /\ Len(z) = n + 1
      BY <1>9, <2>1
    <2>3. \A i \in 1 .. n + 1 : z[i] = IF i = n + 1 THEN row ELSE Log[i]
      BY <1>4, <1>9
    <2> HIDE DEF z
    <2>4. z = [i \in 1 .. n + 1 |-> z[i]]
      BY <2>2
    <2>5. z = [i \in 1 .. n + 1 |-> IF i = n + 1 THEN row ELSE Log[i]]
      BY <2>4, <2>3
    <2> QED
      BY <2>5 DEF z
  <1>15. \A i \in 1 .. n + 1 : at(i - 1) = IF i = n + 1 THEN row ELSE Log[i]
    <2> TAKE i \in 1 .. n + 1
    <2>1. i \in 1 .. n \/ (i = n + 1 /\ i - 1 = n)
      BY <1>4
    <2>2. i \in 1 .. n => i # n + 1
      BY <1>4
    <2> HIDE DEF n
    <2> QED
      BY <2>1, <2>2, <1>12, <1>13
  <1> QED
    BY <1>8, <1>11, <1>14, <1>15
-----------------------------------------------------------------------------
(* A step that leaves the ring and the screen alone.                       *)
LEMMA QuietKeeps ==
    ASSUME IInv, UNCHANGED <<ring, screen>>, drawn' = drawn, pc' = pc \/ (pc = "ready" /\ pc' = "panic")
    PROVE  IInv'
  <1>1. RingOK'
    BY DEF IInv, RingOK, ring, buf_row_total, buf_len, panel_text_width, end_col, start_col, Offsets
  <1>2. Log' = Log
    BY DEF Log, ring, buf_row_offs, panel_text_width, end_col, start_col
  <1>3. ScreenShowsLog'
    BY <1>2 DEF IInv, ScreenShowsLog
  <1> QED
    BY <1>1, <1>3 DEF IInv

(* Every step keeps the invariant.                                         *)
LEMMA NextKeeps == IInv /\ [Next]_vars => IInv'
  <1> SUFFICES ASSUME IInv, [Next]_vars PROVE IInv'
    OBVIOUS
  <1>1. RingOK
    BY DEF IInv
  <1>2. CASE panel_start
    <2>1. PICK old : screen' = Drawn(old)
      BY <1>2 DEF panel_start
    <2>2. ScreenShowsLog' /\ DOMAIN screen' = Offsets
      BY <1>1, <1>2, <2>1, DrawShows DEF panel_start
    <2>3. RingOK'
      BY <1>1, <1>2, <2>2 DEF panel_start, RingOK, ring
    <2> QED
      BY <2>2, <2>3 DEF IInv
  <1>3. CASE panel_text_draw
    <2>1. screen' = Drawn(screen) /\ UNCHANGED ring /\ pc' = pc
      BY <1>1, <1>3, DrawOk DEF panel_text_draw
    <2>2. ScreenShowsLog' /\ DOMAIN screen' = Offsets
      BY <1>1, <2>1, DrawShows
    <2>3. RingOK'
      BY <1>1, <2>1, <2>2 DEF RingOK, ring
    <2> QED
      BY <2>2, <2>3 DEF IInv
  <1>4. ASSUME NEW row \in RowsUpTo(panel_text_width), panel_text_write_row(row) PROVE IInv'
    <2>1. CASE pc' = "ready" /\ ~panel_text_is_full
      <3>1. RingOK'
        BY <1>1, <1>4, <2>1, WriteAppends
      <3>2. ~drawn' /\ screen' = screen /\ pc = "ready"
        BY <1>4, <2>1 DEF panel_text_write_row
      <3>3. ScreenShowsLog'
        BY <3>2 DEF IInv, ScreenShowsLog
      <3> QED
        BY <3>1, <3>3 DEF IInv
    <2>2. CASE ~(pc' = "ready" /\ ~panel_text_is_full)
      BY <1>4, <2>2, QuietKeeps DEF panel_text_write_row
    <2> QED
      BY <2>1, <2>2
  <1>5. CASE hlt \/ UNCHANGED vars
    BY <1>5, QuietKeeps DEF hlt, vars
  <1> QED
    BY <1>2, <1>3, <1>4, <1>5 DEF Next

(* The initial state.                                                      *)
LEMMA InitHolds == Init => IInv
  <1> SUFFICES ASSUME Init PROVE IInv
    OBVIOUS
  <1>1. 0 \in 0 .. buf_row_total - 1 /\ 0 \in 0 .. panel_text_width - 1 /\ write_cnt = 0
    BY Measures DEF Init
  <1>2. RingOK
    BY <1>1 DEF Init, RingOK
  <1>3. Len(Log) = 0
    BY <1>1, <1>2, LogIs
  <1>4. ScreenShowsLog
    BY <1>3 DEF Init, ScreenShowsLog
  <1> QED
    BY <1>2, <1>4 DEF IInv

(* The inductive invariant holds in every state.                           *)
THEOREM InductiveInvariant == Spec => []IInv
  BY InitHolds, NextKeeps, PTL DEF Spec

(* Whatever is written and drawn, a drawn panel shows the first rows of    *)
(* the log and a whole frame.                                              *)
THEOREM ScreenAlwaysShowsLog == Spec => []ScreenShowsLog
  <1>1. IInv => ScreenShowsLog
    BY DEF IInv
  <1> QED
    BY <1>1, InductiveInvariant, PTL

(* No assertion of _draw_txt ever fails: not that on the row of the ring,  *)
(* nor that on the column of the screen.                                   *)
THEOREM DrawNeverPanics == Spec => []draw_ok
  <1>1. IInv => draw_ok
    BY DrawOk DEF IInv
  <1> QED
    BY <1>1, InductiveInvariant, PTL
-----------------------------------------------------------------------------
(* Every step is a write of the abstract log or changes nothing in it.     *)
LEMMA StepSimulates ==
    IInv /\ [Next]_vars => [Abstract!Write(last'.row)]_<<Log, last>>
  <1> SUFFICES ASSUME IInv, [Next]_vars
               PROVE  Abstract!Write(last'.row) \/ (Log' = Log /\ last' = last)
    OBVIOUS
  <1>1. RingOK /\ Len(Log) = write_cnt /\ write_cnt \in 0 .. buf_row_total - 1
    BY LogIs DEF IInv, RingOK
  <1>2. UNCHANGED ring => Log' = Log
    BY DEF Log, ring, buf_row_offs, panel_text_width, end_col, start_col
  <1>3. ASSUME NEW row \in RowsUpTo(panel_text_width), panel_text_write_row(row)
        PROVE  Abstract!Write(last'.row) \/ (Log' = Log /\ last' = last)
    <2>1. CASE Len(row) >= panel_text_width
      BY <1>2, <1>3, <2>1 DEF panel_text_write_row
    <2>2. CASE ~(Len(row) >= panel_text_width)
      <3>1. last' = [row |-> row, ok |-> ~panel_text_is_full] /\ last'.row = row /\ pc' = "ready"
        BY <1>3, <2>2 DEF panel_text_write_row
      <3>2. Len(Log) < buf_row_total - 1 <=> ~panel_text_is_full
        BY <1>1, FullIs, Measures
      <3>3. CASE panel_text_is_full
        <4>1. Log' = Log
          BY <1>2, <1>3, <2>2, <3>3 DEF panel_text_write_row
        <4> QED
          BY <3>1, <3>2, <3>3, <4>1 DEF Abstract!Write
      <3>4. CASE ~panel_text_is_full
        <4>1. Log' = Append(Log, row)
          BY <1>1, <1>3, <3>1, <3>4, WriteAppends
        <4> QED
          BY <3>1, <3>2, <3>4, <4>1 DEF Abstract!Write
      <3> QED
        BY <3>3, <3>4
    <2> QED
      BY <2>1, <2>2
  <1>4. CASE panel_start \/ panel_text_draw \/ hlt \/ UNCHANGED vars
    BY <1>2, <1>4 DEF panel_start, panel_text_draw, hlt, vars, ring
  <1> QED
    BY <1>3, <1>4 DEF Next

(* The panel implements the log it promises to its writers: rows stay as   *)
(* they were written, in order, and one is refused only by a full panel.   *)
THEOREM PanelImplementsTextLog == Spec => ImplementsTextLog
  <1>1. Init => Abstract!Init
    <2> SUFFICES ASSUME Init PROVE Abstract!Init
      OBVIOUS
    <2>1. Log \in Seq(Seq(Chars \cup {CHAR_NULL})) /\ Len(Log) = 0
      BY InitHolds, LogIs DEF IInv, Init
    <2>2. Log = <<>>
      BY <2>1
    <2> QED
      BY <2>2 DEF Abstract!Init, Init
  <1> QED
    BY <1>1, StepSimulates, InductiveInvariant, PTL DEF Spec, ImplementsTextLog, Abstract!Spec
=============================================================================
