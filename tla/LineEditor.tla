----------------------------- MODULE LineEditor ------------------------------
(***************************************************************************)
(* The line editor of the shell (kernel/src/shell/mod.rs), which redraws   *)
(* its line on the VGA text buffer after every key.  A character is its    *)
(* UTF-8 bytes; the line is a sequence of bytes, as in a String, and the   *)
(* cursor is an index into it.  The build has overflow checks.             *)
(***************************************************************************)
EXTENDS VgaBuffer

CONSTANTS Characters,  \* what a key can type, as bytes
          CursorLimit, \* 78 in the code
          MaxLine      \* bound on the bytes of a line

Continuation == 128..191

(* Enter is a key of its own; a String holds whole characters; and the position of the
   cursor has 16 bits. *)
ASSUME LineAssumption ==
  /\ \A c \in Characters : c \in Seq((0..255) \ {NL}) /\ c # <<>> /\ c[1] \notin Continuation
  /\ CursorLimit \in Nat /\ TEXT_HEIGHT * BUFFER_WIDTH + CursorLimit + 2 < 65536
  /\ MaxLine \in Nat /\ TEXT_HEIGHT * BUFFER_WIDTH + MaxLine + 2 < 65536

VARIABLES current_command, cursor_pos,
          astray,   \* a key was pressed that has no place in the line, since the last Enter
          outcome   \* "running", "panicked" or "exited"

editVars == <<current_command, cursor_pos, astray, outcome, vgaVars>>

(* The places of the line between two characters. *)
is_char_boundary(i) == /\ i \in 0..Len(current_command)
                       /\ i < Len(current_command) => current_command[i + 1] \notin Continuation

cursor_at_end == cursor_pos = Len(current_command)

(* The byte where the character that ends or starts at byte i has its other end. *)
CharStart(i) == CHOOSE j \in 0..(i - 1) :
                  is_char_boundary(j) /\ \A k \in (j + 1)..(i - 1) : ~is_char_boundary(k)
CharEnd(i) == CHOOSE j \in (i + 1)..Len(current_command) :
                is_char_boundary(j) /\ \A k \in (i + 1)..(j - 1) : ~is_char_boundary(k)

Cut(a, b) == SubSeq(current_command, 1, a) \o SubSeq(current_command, b + 1, Len(current_command))

(* Mutant: the line is drawn as it was before the key. *)
redraw_stale == /\ writer' = write_shell_line(set_cursor_x(writer, cursor_pos'), current_command)
                /\ wrapped' = (wrapped \/ Len(current_command') > BUFFER_WIDTH - 2)
                /\ UNCHANGED log

redraw == /\ writer' = write_shell_line(set_cursor_x(writer, cursor_pos'), current_command')
          /\ wrapped' = (wrapped \/ Len(current_command') > BUFFER_WIDTH - 2)
          /\ UNCHANGED log

Panic == outcome' = "panicked" /\ UNCHANGED <<current_command, cursor_pos, vgaVars>>

EInit == /\ Init
         /\ current_command = <<>> /\ cursor_pos = 0 /\ astray = FALSE /\ outcome = "running"

Running == outcome = "running"

(* At the end of the line pop() takes the last character, else remove() the one that
   starts before the cursor; then the cursor moves.  Each may panic. *)
Backspace ==
  /\ Running
  /\ UNCHANGED astray
  /\ IF \/ cursor_pos = 0
        \/ ~cursor_at_end /\ (~is_char_boundary(cursor_pos - 1) \/ cursor_pos > Len(current_command))
     THEN Panic
     ELSE /\ current_command' = IF cursor_at_end THEN Cut(CharStart(cursor_pos), cursor_pos)
                                ELSE Cut(cursor_pos - 1, CharEnd(cursor_pos - 1))
          /\ cursor_pos' = cursor_pos - 1
          /\ redraw /\ UNCHANGED outcome

(* Mutant: the character always goes to the end of the line. *)
CharacterAppends(c) ==
  /\ Running /\ Len(current_command) + Len(c) <= MaxLine
  /\ astray' = (astray \/ Len(c) > 1)
  /\ current_command' = current_command \o c
  /\ cursor_pos' = cursor_pos + 1
  /\ redraw /\ UNCHANGED outcome

Character(c) ==
  /\ Running /\ Len(current_command) + Len(c) <= MaxLine
  /\ astray' = (astray \/ Len(c) > 1)
  /\ IF ~is_char_boundary(cursor_pos)
     THEN Panic
     ELSE /\ current_command' = SubSeq(current_command, 1, cursor_pos) \o c
                                \o SubSeq(current_command, cursor_pos + 1, Len(current_command))
          /\ cursor_pos' = cursor_pos + 1
          /\ redraw /\ UNCHANGED outcome

ArrowLeft == /\ Running
             /\ cursor_pos' = IF cursor_pos = 0 THEN 0 ELSE cursor_pos - 1
             /\ UNCHANGED <<current_command, astray, outcome>> /\ redraw

ArrowRight == /\ Running
              /\ astray' = (astray \/ cursor_pos >= Len(current_command) \/ cursor_pos >= CursorLimit)
              /\ cursor_pos' = IF cursor_pos + 1 < CursorLimit THEN cursor_pos + 1 ELSE CursorLimit
              /\ UNCHANGED <<current_command, outcome>> /\ redraw

(* Any other key is printed to the serial port. *)
RawKey == /\ Running
          /\ UNCHANGED <<current_command, cursor_pos, astray, outcome>> /\ redraw

(* enter_pressed: the colour goes to yellow and back around a line that is printed
   elsewhere; the command returns, or exits or panics. *)
Enter == /\ Running
         /\ \/ /\ current_command' = <<>> /\ cursor_pos' = 0 /\ astray' = FALSE
               /\ writer' = write_shell_line(
                    set_cursor_x(reset_color(set_color(writer, "Yellow")), 0), <<>>)
               /\ UNCHANGED <<outcome, log, wrapped>>
            \/ outcome' = "exited" /\ UNCHANGED <<current_command, cursor_pos, astray, vgaVars>>

(* Text from elsewhere, between two keys. *)
OtherText(s) == Running /\ WriteText(s) /\ UNCHANGED <<current_command, cursor_pos, astray, outcome>>

HltLoop == ~Running /\ UNCHANGED editVars

ENext == \/ \E s \in Strings : OtherText(s)
         \/ Backspace \/ \E c \in Characters : Character(c)
         \/ ArrowLeft \/ ArrowRight \/ RawKey \/ Enter \/ HltLoop

ESpec == EInit /\ [][ENext]_editVars

-----------------------------------------------------------------------------
(* Properties. *)

(* The editor follows the abstract one for as long as the keys stay in the line: no
   backspace at its start, no arrow past its end or past the limit, no character of
   several bytes.  Only after such a key can an editing key bring the kernel down,
   and Enter makes up for it. *)
Abstract == INSTANCE LineBuffer WITH
  Chars <- {c[1] : c \in Characters},
  left <- IF astray \/ ~Running THEN <<>> ELSE SubSeq(current_command, 1, cursor_pos),
  right <- IF astray \/ ~Running THEN <<>>
           ELSE SubSeq(current_command, cursor_pos + 1, Len(current_command)),
  status <- IF ~Running THEN outcome ELSE IF astray THEN "astray" ELSE "editing"
ImplementsLineBuffer == Abstract!Spec

Fits(s) == Len(s) <= BUFFER_WIDTH - 2

(* A line that fits is on the screen as it is in memory, byte by byte, in the colour
   of the shell, the rest of its row is blank, and the cursor stands where the next
   key will act.  The prompt stays in front of it until a line wraps over it. *)
ShowsLine ==
  /\ ~wrapped => writer.chars[SHELL_ROW][0] = ScreenChar(Prompt, "Blue")
  /\ Fits(current_command) =>
    /\ \A c \in 2..(BUFFER_WIDTH - 1) :
         writer.chars[SHELL_ROW][c] =
           ScreenChar(IF c - 1 <= Len(current_command) THEN Shown(current_command[c - 1]) ELSE Space,
                      "Magenta")
    /\ writer.cursor.high * 256 + writer.cursor.low = TEXT_HEIGHT * BUFFER_WIDTH + 2 + cursor_pos

=============================================================================
