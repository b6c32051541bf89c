------------------------------ MODULE VgaBuffer ------------------------------
(***************************************************************************)
(* The VGA text buffer (kernel/src/drivers/vga_buffer.rs): text rows that  *)
(* scroll, and below them the row of the shell.  Text is a sequence of     *)
(* bytes.  print! goes to the serial port, so that in this kernel the text *)
(* rows are written only through fmt::Write for Writer, by a test.         *)
(***************************************************************************)
EXTENDS Integers, Sequences

CONSTANTS BUFFER_HEIGHT, BUFFER_WIDTH,  \* 25 and 80 in the code
          BootText,                     \* what is on the screen at the start
          Strings,                      \* what is written in one call
          MaxLog                        \* bound on the bytes written as text

ASSUME BufferAssumption == /\ BUFFER_HEIGHT \in Nat /\ BUFFER_HEIGHT >= 2
                           /\ BUFFER_WIDTH \in Nat /\ BUFFER_WIDTH >= 2
                           /\ BootText \in Seq(0..255) /\ Strings \subseteq Seq(0..255)

VARIABLES writer,   \* the Writer
          log,      \* all bytes written as text
          wrapped   \* a shell line was longer than its row

vgaVars == <<writer, log, wrapped>>

TEXT_HEIGHT == BUFFER_HEIGHT - 1
SHELL_ROW == BUFFER_HEIGHT - 1
Rows == 0..(BUFFER_HEIGHT - 1)
Cols == 0..(BUFFER_WIDTH - 1)

NL == 10
Space == 32
Prompt == 62
Dot == 254
Printable == 32..126

ScreenChar(byte, color) == [ascii_character |-> byte, color_code |-> color]

clear_row(w, row, start) ==
  [w EXCEPT !.chars = [r \in Rows |-> [c \in Cols |->
     IF r = row /\ c >= start THEN ScreenChar(Space, w.color_code) ELSE w.chars[r][c]]]]

new_line(w) ==
  LET scrolled == [w EXCEPT !.chars = [r \in Rows |->
                     IF r < TEXT_HEIGHT - 1 THEN w.chars[r + 1] ELSE w.chars[r]]]
  IN  [clear_row(scrolled, TEXT_HEIGHT - 1, 0) EXCEPT !.column_position = 0]

(* Mutant: a full row is left as soon as its last column is written. *)
write_byte_eager(w, byte) ==
  IF byte = NL THEN new_line(w)
  ELSE LET v == [w EXCEPT !.chars[w.row_position][w.column_position] =
                            ScreenChar(byte, w.color_code), !.column_position = @ + 1]
       IN  IF v.column_position >= BUFFER_WIDTH THEN new_line(v) ELSE v

write_byte(w, byte) ==
  IF byte = NL THEN new_line(w)
  ELSE LET v == IF w.column_position >= BUFFER_WIDTH THEN new_line(w) ELSE w
       IN  [v EXCEPT !.chars[v.row_position][v.column_position] = ScreenChar(byte, v.color_code),
                     !.column_position = @ + 1]

Shown(byte) == IF byte \in Printable \cup {NL} THEN byte ELSE Dot

write_string(w, s) ==
  LET written[i \in 0..Len(s)] == IF i = 0 THEN w ELSE write_byte(written[i - 1], Shown(s[i]))
  IN  written[Len(s)]

(* The two halves of the position go to the registers 0x0F and 0x0E of the cursor. *)
set_cursor_x(w, x) ==
  LET position == TEXT_HEIGHT * BUFFER_WIDTH + x + 2
  IN  [w EXCEPT !.cursor = [low |-> position % 256, high |-> (position \div 256) % 256]]

init_shell(w) ==
  set_cursor_x([w EXCEPT !.chars[SHELL_ROW][0] = ScreenChar(Prompt, "Blue")], 0)

write_shell_line(w, text) ==
  LET start == [clear_row(w, SHELL_ROW, 2) EXCEPT !.row_position = SHELL_ROW,
                                                  !.column_position = 2]
  IN  [write_string(start, text) EXCEPT !.row_position = w.row_position,
                                        !.column_position = w.column_position]

set_color(w, color) == [w EXCEPT !.color_code = color]
reset_color(w) == set_color(w, "Magenta")

NewWriter ==
  [row_position |-> TEXT_HEIGHT - 1, column_position |-> 0, color_code |-> "Magenta",
   chars |-> [r \in Rows |-> [c \in Cols |-> ScreenChar(Space, "Magenta")]],
   cursor |-> [low |-> 0, high |-> 0]]

-----------------------------------------------------------------------------
(* The screen at the start, and text written through fmt::Write. *)

Init == /\ writer = init_shell(write_string(NewWriter, BootText))
        /\ log = BootText /\ wrapped = FALSE

WriteText(s) == /\ Len(log) + Len(s) <= MaxLog
                /\ writer' = write_string(writer, s)
                /\ log' = log \o s
                /\ UNCHANGED wrapped

-----------------------------------------------------------------------------
(* Properties. *)

(* What a terminal shows: the bytes in rows, a new one after a newline or when a
   byte does not fit any more. *)
AddByte(rows, byte) ==
  LET n == Len(rows)
  IN  IF byte = NL THEN Append(rows, <<>>)
      ELSE IF Len(rows[n]) = BUFFER_WIDTH THEN Append(rows, <<Shown(byte)>>)
      ELSE [rows EXCEPT ![n] = Append(@, Shown(byte))]

RowsOf(s) ==
  LET rows[i \in 0..Len(s)] == IF i = 0 THEN <<<<>>>> ELSE AddByte(rows[i - 1], s[i])
  IN  rows[Len(s)]

LogRows == RowsOf(log)

RowAt(r) == LET i == Len(LogRows) - (TEXT_HEIGHT - 1) + r
            IN  IF i >= 1 THEN LogRows[i] ELSE <<>>

(* The text rows show the last rows of everything written so far, whatever shell
   lines were drawn in between, as long as these fit their row; and between two calls
   the writer stands in the last text row, also after a line that wrapped. *)
ScreenShowsTail ==
  /\ writer.row_position = TEXT_HEIGHT - 1 /\ writer.column_position \in 0..BUFFER_WIDTH
  /\ ~wrapped => \A r \in 0..(TEXT_HEIGHT - 1), c \in Cols :
    writer.chars[r][c].ascii_character =
      IF c < Len(RowAt(r)) THEN RowAt(r)[c + 1] ELSE Space

=============================================================================
