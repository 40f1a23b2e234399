------------------------------ MODULE Console -------------------------------
(***************************************************************************)
(* The console every component logs to: log/log.c over the geometry of     *)
(* video/video.c and drivers/drivers_vesa.c.                               *)
(*                                                                         *)
(* A line that is being logged is the sequence of the pieces that are      *)
(* still to be written, one log_str_len each, with their lengths or, for   *)
(* the message, with the parts of its format.  The serial port takes every *)
(* piece in full; the screen takes what fits into the row.                 *)
(***************************************************************************)
EXTENDS Strings

CONSTANTS
    PREFIX_LEN,  \* _LINE_PREFIX_LEVEL_LEN
    FileLen,     \* length of the stripped file name
    LineDigits,  \* digits of the line number
    BUF_CAP      \* the buffer a message is formatted into

ASSUME ConsoleAssumption == {PREFIX_LEN, FileLen, LineDigits, BUF_CAP} \subseteq Nat \ {0}

VARIABLES
    write_screen,   \* _write_screen
    screen_row,     \* _screen_row
    screen_col,     \* _screen_col
    width,          \* the frame buffer's width in pixels, 0 before vesa
    height,         \* its height
    line            \* pieces of the line being logged

geometry == <<width, height>>
cursor == <<screen_row, screen_col>>
console == <<write_screen, cursor, geometry, line>>

video_char_row_max == height \div 16
video_char_col_max == width \div 8

(* The assertions of video_draw_char and of d_vesa_draw_pixel for the last *)
(* pixel of the character.                                                 *)
video_draw_char_ok(row, col) ==
    /\ row < video_char_row_max /\ col < video_char_col_max
    /\ col * 8 + 7 < width /\ row * 16 + 15 < height

Piece(kind, parts) == [kind |-> kind, parts |-> parts]
text(len) == Piece("text", <<literal(len)>>)
(* _log_line_start, the message, _log_line_end.                            *)
log_line_format(format) ==
    <<text(PREFIX_LEN), text(1), text(FileLen), text(1), text(LineDigits), text(1),
      Piece("message", format), Piece("end", <<literal(2)>>)>>

(* How much of a piece fits into the row.                                  *)
write_len_past_end(len) == len
write_len(len) ==
    IF video_char_col_max - screen_col < len THEN video_char_col_max - screen_col ELSE len

next_row_unwrapped == screen_row + 1
next_row == (screen_row + 1) % video_char_row_max

At(kind) == line # <<>> /\ Head(line).kind = kind

(* A message is formatted into a buffer first.                             *)
Formatted == str_buf_marshal_format_v(Head(line).parts, BUF_CAP)
MessageTooLong == At("message") /\ ~Formatted.returns
piece_len == IF At("message") THEN Formatted.len ELSE Offsets(Head(line).parts)[1]

(* The assertions of log_str_len and of what it draws.                     *)
str_ok(len) ==
    /\ screen_col <= video_char_col_max
    /\ \A i \in 0 .. write_len(len) - 1 : video_draw_char_ok(screen_row, screen_col + i)
LoggerFails ==
    /\ At("text") \/ (At("message") /\ ~MessageTooLong)
    /\ write_screen /\ ~str_ok(piece_len)

LogFault == IF MessageTooLong THEN "message" ELSE IF LoggerFails THEN "logger" ELSE "none"

log_str_len ==
    /\ At("text") \/ At("message")
    /\ LogFault = "none"
    /\ screen_col' = screen_col + (IF write_screen THEN write_len(piece_len) ELSE 0)
    /\ line' = Tail(line)
    /\ UNCHANGED <<write_screen, screen_row, geometry>>

(* A screen of no rows makes the remainder of _log_line_end a division by  *)
(* zero.                                                                   *)
DividesByZero == At("end") /\ write_screen /\ video_char_row_max = 0

log_line_end ==
    /\ At("end") /\ ~DividesByZero
    /\ IF write_screen THEN screen_row' = next_row /\ screen_col' = 0 ELSE UNCHANGED cursor
    /\ line' = Tail(line)
    /\ UNCHANGED <<write_screen, geometry>>
=============================================================================
