---------------------------- MODULE ScreenProofs ----------------------------
(***************************************************************************)
(* Proofs about what is on the screen, for every size of it.               *)
(*                                                                         *)
(* In text mode: the rows show the last of what was written, the bottom    *)
(* row shows the line that is being edited, with the cursor where the next *)
(* key acts, and the keys edit that line as LineBuffer says.               *)
(*                                                                         *)
(* In graphics mode: draw_rect draws its rectangle, on a screen that is at *)
(* least as wide as high.  (It compares the rectangle's lower edge with    *)
(* the width of the screen: on a screen that is higher than wide, it       *)
(* refuses rectangles that it could draw.)                                 *)
(***************************************************************************)
EXTENDS Framebuffer, LineEditor, WellFoundedInduction, TLAPS

Byte == 0..255
Colors == {"Magenta", "Yellow", "Blue"}
Cells == [ascii_character : Byte, color_code : Colors]
Screens == [Rows -> [Cols -> Cells]]
Writers == [row_position : Rows, column_position : 0..BUFFER_WIDTH, color_code : Colors,
            chars : Screens, cursor : [low : Byte, high : Byte]]

(* The text above, the line of the shell below. *)
LEMMA Sizes ==
  /\ BUFFER_HEIGHT \in Nat /\ BUFFER_HEIGHT >= 2 /\ BUFFER_WIDTH \in Nat /\ BUFFER_WIDTH >= 2
  /\ TEXT_HEIGHT \in Nat /\ TEXT_HEIGHT >= 1 /\ SHELL_ROW = TEXT_HEIGHT
  /\ Rows = 0..TEXT_HEIGHT /\ Cols = 0..(BUFFER_WIDTH - 1)
BY BufferAssumption DEF TEXT_HEIGHT, SHELL_ROW, Rows, Cols

(* A cell of the screen is a byte and a colour. *)
LEMMA CellIs ==
  ASSUME NEW byte \in Byte, NEW hue \in Colors
  PROVE  /\ ScreenChar(byte, hue) \in Cells
         /\ ScreenChar(byte, hue).ascii_character = byte
BY DEF ScreenChar, Cells

(* clear_row blanks one row. *)
LEMMA ClearRow ==
  ASSUME NEW w \in Writers, NEW s \in Rows, NEW start \in Nat
  PROVE  LET v == clear_row(w, s, start)
         IN  /\ v \in Writers
             /\ v.row_position = w.row_position /\ v.column_position = w.column_position
             /\ v.color_code = w.color_code /\ v.cursor = w.cursor
             /\ \A r \in Rows, c \in Cols : v.chars[r][c] =
                  IF r = s /\ c >= start THEN ScreenChar(Space, w.color_code) ELSE w.chars[r][c]
<1> DEFINE blank == ScreenChar(Space, w.color_code)
           cs == [r \in Rows |-> [c \in Cols |->
                    IF r = s /\ c >= start THEN blank ELSE w.chars[r][c]]]
<1>1. blank \in Cells
  BY CellIs DEF Writers, Space, Byte
<1> HIDE DEF blank
<1>2. cs \in Screens
  BY <1>1 DEF Writers, Screens
<1>3. clear_row(w, s, start) = [w EXCEPT !.chars = cs]
  BY DEF clear_row, blank
<1>4. \A r \in Rows, c \in Cols : cs[r][c] = IF r = s /\ c >= start THEN blank ELSE w.chars[r][c]
  OBVIOUS
<1> HIDE DEF cs
<1>5. [w EXCEPT !.chars = cs] \in Writers /\ [w EXCEPT !.chars = cs].chars = cs
  BY <1>2 DEF Writers
<1>6. LET v == [w EXCEPT !.chars = cs]
      IN  /\ v.row_position = w.row_position /\ v.column_position = w.column_position
          /\ v.color_code = w.color_code /\ v.cursor = w.cursor
  BY DEF Writers
<1> QED BY <1>3, <1>4, <1>5, <1>6 DEF blank

(* new_line moves every row of the text up by one. *)
LEMMA NewLine ==
  ASSUME NEW w \in Writers
  PROVE  LET v == new_line(w)
         IN  /\ v \in Writers
             /\ v.row_position = w.row_position /\ v.column_position = 0
             /\ v.color_code = w.color_code /\ v.cursor = w.cursor
             /\ \A r \in Rows, c \in Cols : v.chars[r][c] =
                  IF r = TEXT_HEIGHT - 1 THEN ScreenChar(Space, w.color_code)
                  ELSE IF r < TEXT_HEIGHT - 1 THEN w.chars[r + 1][c] ELSE w.chars[r][c]
<1> DEFINE cs == [r \in Rows |-> IF r < TEXT_HEIGHT - 1 THEN w.chars[r + 1] ELSE w.chars[r]]
           u == [w EXCEPT !.chars = cs]
           x == clear_row(u, TEXT_HEIGHT - 1, 0)
           v == [x EXCEPT !.column_position = 0]
<1>1. cs \in Screens
  <2>1. \A r \in Rows : r < TEXT_HEIGHT - 1 => r + 1 \in Rows
    BY Sizes
  <2> QED BY <2>1 DEF Writers, Screens
<1>2. \A r \in Rows : cs[r] = IF r < TEXT_HEIGHT - 1 THEN w.chars[r + 1] ELSE w.chars[r]
  OBVIOUS
<1>3. new_line(w) = v
  BY DEF new_line
<1> HIDE DEF cs
<1>4. /\ u \in Writers /\ u.chars = cs
      /\ u.row_position = w.row_position /\ u.color_code = w.color_code /\ u.cursor = w.cursor
  BY <1>1 DEF Writers
<1> HIDE DEF u
<1>5. TEXT_HEIGHT - 1 \in Rows /\ 0 \in Nat /\ 0 \in 0..BUFFER_WIDTH
  BY Sizes
<1>6. /\ x \in Writers
      /\ x.row_position = u.row_position /\ x.color_code = u.color_code /\ x.cursor = u.cursor
      /\ \A r \in Rows, c \in Cols : x.chars[r][c] =
           IF r = TEXT_HEIGHT - 1 /\ c >= 0 THEN ScreenChar(Space, u.color_code) ELSE u.chars[r][c]
  BY <1>4, <1>5, ClearRow, SMTT(30)
<1> HIDE DEF x
<1>7. /\ v \in Writers /\ v.column_position = 0 /\ v.chars = x.chars
      /\ v.row_position = x.row_position /\ v.color_code = x.color_code /\ v.cursor = x.cursor
  BY <1>5, <1>6 DEF Writers
<1> HIDE DEF v
<1>8. \A c \in Cols : c >= 0
  BY Sizes
<1> QED BY <1>2, <1>3, <1>4, <1>6, <1>7, <1>8

(* The byte goes to the cell at the writer's place. *)
LEMMA PutByte ==
  ASSUME NEW w \in Writers, NEW byte \in Byte, byte # NL, w.column_position < BUFFER_WIDTH
  PROVE  LET v == write_byte(w, byte)
         IN  /\ v \in Writers
             /\ v.row_position = w.row_position /\ v.column_position = w.column_position + 1
             /\ v.color_code = w.color_code /\ v.cursor = w.cursor
             /\ \A r \in Rows, c \in Cols : v.chars[r][c] =
                  IF r = w.row_position /\ c = w.column_position
                  THEN ScreenChar(byte, w.color_code) ELSE w.chars[r][c]
<1> DEFINE p == w.row_position
           q == w.column_position
           cell == ScreenChar(byte, w.color_code)
           cs == [w.chars EXCEPT ![p][q] = cell]
           v == [w EXCEPT !.chars[p][q] = cell, !.column_position = q + 1]
<1>1. p \in Rows /\ q \in Cols /\ q \in 0..BUFFER_WIDTH /\ q + 1 \in 0..BUFFER_WIDTH
  BY Sizes DEF Writers
<1>2. cell \in Cells
  BY CellIs DEF Writers
<1>3. write_byte(w, byte) = v
  <2>1. (IF w.column_position >= BUFFER_WIDTH THEN new_line(w) ELSE w) = w
    BY Sizes, <1>1
  <2>2. write_byte(w, byte) = [w EXCEPT !.chars[p][q] = cell, !.column_position = @ + 1]
    BY <2>1, Zenon DEF write_byte
  <2> QED BY <2>2 DEF Writers
<1> HIDE DEF cell
<1>4. w.chars \in Screens
  BY DEF Writers
<1>5. /\ cs \in Screens
      /\ \A r \in Rows, c \in Cols : cs[r][c] = IF r = p /\ c = q THEN cell ELSE w.chars[r][c]
  BY <1>1, <1>2, <1>4 DEF Screens
<1>6. v = [w EXCEPT !.chars = cs, !.column_position = q + 1]
  BY DEF Writers
<1> HIDE DEF cs, v
<1>7. /\ v \in Writers /\ v.chars = cs /\ v.column_position = q + 1
      /\ v.row_position = w.row_position /\ v.color_code = w.color_code /\ v.cursor = w.cursor
  BY <1>1, <1>5, <1>6, Zenon DEF Writers
<1> QED BY <1>3, <1>5, <1>7 DEF cell

(* Past the end of a row there is a new line first. *)
LEMMA WrapByte ==
  ASSUME NEW w \in Writers, NEW byte \in Byte, byte # NL, w.column_position >= BUFFER_WIDTH
  PROVE  write_byte(w, byte) = write_byte(new_line(w), byte)
<1>1. ~ (new_line(w).column_position >= BUFFER_WIDTH)
  BY NewLine, Sizes
<1> QED BY <1>1, Zenon DEF write_byte

(* What is shown of a byte is a byte, and a newline only of a newline. *)
LEMMA ShownByte ==
  ASSUME NEW byte \in Byte
  PROVE  Shown(byte) \in Byte /\ (Shown(byte) = NL <=> byte = NL)
BY DEF Shown, Printable, Dot, NL, Byte

(* Whatever is written, the writer keeps its row, its colour and its cursor. *)
LEMMA WriteByte ==
  ASSUME NEW w \in Writers, NEW byte \in Byte
  PROVE  LET v == write_byte(w, byte)
         IN  /\ v \in Writers /\ v.row_position = w.row_position
             /\ v.color_code = w.color_code /\ v.cursor = w.cursor
<1>1. CASE byte = NL
  <2>1. write_byte(w, byte) = new_line(w)
    BY <1>1 DEF write_byte
  <2> QED BY <2>1, NewLine
<1>2. CASE byte # NL /\ w.column_position < BUFFER_WIDTH
  BY <1>2, PutByte
<1>3. CASE byte # NL /\ w.column_position >= BUFFER_WIDTH
  <2> DEFINE u == new_line(w)
  <2>1. /\ u \in Writers /\ u.row_position = w.row_position /\ u.column_position = 0
        /\ u.color_code = w.color_code /\ u.cursor = w.cursor
    BY NewLine
  <2>2. write_byte(w, byte) = write_byte(u, byte)
    BY <1>3, WrapByte
  <2> HIDE DEF u
  <2>3. u.column_position < BUFFER_WIDTH
    BY <2>1, Sizes
  <2> QED BY <1>3, <2>1, <2>2, <2>3, PutByte
<1> QED BY <1>1, <1>2, <1>3, Sizes DEF Writers
(* A byte written above the row of the shell leaves it alone. *)
LEMMA ByteAbove ==
  ASSUME NEW w \in Writers, NEW byte \in Byte, w.row_position # SHELL_ROW, NEW c \in Cols
  PROVE  write_byte(w, byte).chars[SHELL_ROW][c] = w.chars[SHELL_ROW][c]
<1>0. SHELL_ROW \in Rows /\ SHELL_ROW # TEXT_HEIGHT - 1 /\ ~(SHELL_ROW < TEXT_HEIGHT - 1)
  BY Sizes
<1> DEFINE u == new_line(w)
<1>1. u \in Writers /\ u.row_position = w.row_position /\ u.column_position = 0
      /\ u.chars[SHELL_ROW][c] = w.chars[SHELL_ROW][c]
  BY <1>0, NewLine
<1>2. CASE byte = NL
  <2>1. write_byte(w, byte) = u
    BY <1>2 DEF write_byte
  <2> QED BY <2>1, <1>1
<1>3. CASE byte # NL /\ w.column_position < BUFFER_WIDTH
  BY <1>0, <1>3, PutByte
<1>4. CASE byte # NL /\ w.column_position >= BUFFER_WIDTH
  <2>1. write_byte(w, byte) = write_byte(u, byte)
    BY <1>4, WrapByte
  <2> HIDE DEF u
  <2>2. u.column_position < BUFFER_WIDTH
    BY <1>1, Sizes
  <2> QED BY <1>0, <1>1, <1>4, <2>1, <2>2, PutByte
<1> QED BY <1>2, <1>3, <1>4, Sizes DEF Writers

(* What holds at the start and is kept by every turn holds after every turn. *)
LEMMA EveryTurn ==
  ASSUME NEW n \in Nat, NEW K, 0 \in K, \A i \in 1..n : i - 1 \in K => i \in K
  PROVE  \A i \in 0..n : i \in K
<1> SUFFICES ASSUME {i \in 0..n : i \notin K} # {} PROVE FALSE
  OBVIOUS
<1> DEFINE B == {i \in 0..n : i \notin K}
<1>1. PICK m \in B : \A k \in B : ~(<<k, m>> \in OpToRel(<, Nat))
  <2>1. B \subseteq Nat /\ B # {}
    OBVIOUS
  <2> HIDE DEF B
  <2> QED BY <2>1, NatLessThanWellFounded, WFMin, Zenon
<1>2. m \in B /\ \A k \in B : ~(k < m)
  <2>1. B \subseteq Nat
    OBVIOUS
  <2> HIDE DEF B
  <2> SUFFICES ASSUME NEW k \in B PROVE ~(k < m)
    BY <1>1, Zenon
  <2>2. k \in Nat /\ m \in Nat /\ <<k, m>> \notin OpToRel(<, Nat)
    BY <1>1, <2>1, Zenon
  <2> QED BY <2>2 DEF OpToRel
<1>3. m \in 1..n /\ m - 1 \in 0..n /\ m - 1 < m
  BY <1>2
<1>4. m - 1 \notin B
  BY <1>2, <1>3
<1> QED BY <1>3, <1>4

(* The states of the writer while it writes s. *)
Writing(w, s, h) ==
  h = [i \in 0..Len(s) |-> IF i = 0 THEN w ELSE write_byte(h[i - 1], Shown(s[i]))]

(* The loop of write_string has a turn for each byte. *)
LEMMA WritingIs ==
  ASSUME NEW w, NEW s, Len(s) \in Nat
  PROVE  \E h : Writing(w, s, h)
<1> DEFINE n == Len(s)
           Good(k, h) == /\ DOMAIN h = 0..k /\ h[0] = w
                         /\ \A i \in 1..k : h[i] = write_byte(h[i - 1], Shown(s[i]))
           K == {k \in 0..n : \E h : Good(k, h)}
<1>1. 0 \in K
  <2> DEFINE h == [i \in 0..0 |-> w]
  <2>1. DOMAIN h = 0..0 /\ h[0] = w /\ 1..0 = {}
    OBVIOUS
  <2>2. Good(0, h)
    BY <2>1
  <2> HIDE DEF h, Good
  <2> QED BY <2>2
<1>2. ASSUME NEW k \in 1..n, k - 1 \in K PROVE k \in K
  <2>1. PICK h : Good(k - 1, h)
    BY <1>2
  <2> DEFINE g == [i \in 0..k |-> IF i = k THEN write_byte(h[k - 1], Shown(s[k])) ELSE h[i]]
  <2>2. DOMAIN g = 0..k /\ g[k] = write_byte(h[k - 1], Shown(s[k])) /\ \A i \in 0..(k - 1) : g[i] = h[i]
    OBVIOUS
  <2> HIDE DEF g
  <2>3. \A i \in 1..k : g[i] = write_byte(g[i - 1], Shown(s[i]))
    <3> SUFFICES ASSUME NEW i \in 1..k PROVE g[i] = write_byte(g[i - 1], Shown(s[i]))
      OBVIOUS
    <3>1. i - 1 \in 0..(k - 1)
      OBVIOUS
    <3>2. CASE i = k
      BY <3>1, <3>2, <2>2
    <3>3. CASE i # k
      <4>1. i \in 1..(k - 1) /\ i \in 0..(k - 1)
        BY <3>3
      <4> QED BY <4>1, <3>1, <2>1, <2>2
    <3> QED BY <3>2, <3>3
  <2>4. g[0] = w
    BY <2>1, <2>2
  <2>5. Good(k, g)
    BY <2>2, <2>3, <2>4
  <2> HIDE DEF Good
  <2> QED BY <2>5
<1>3. n \in K
  <2> HIDE DEF K, n
  <2>1. n \in Nat /\ \A i \in 1..n : i - 1 \in K => i \in K
    BY <1>2 DEF n
  <2>2. \A i \in 0..n : i \in K
    BY <1>1, <2>1, EveryTurn
  <2> QED BY <2>1, <2>2
<1>4. PICK h : Good(n, h)
  BY <1>3
<1> DEFINE g == [i \in 0..n |-> h[i]]
<1>5. \A i \in 0..n : g[i] = IF i = 0 THEN w ELSE write_byte(g[i - 1], Shown(s[i]))
  <2> SUFFICES ASSUME NEW i \in 0..n PROVE g[i] = IF i = 0 THEN w ELSE write_byte(g[i - 1], Shown(s[i]))
    OBVIOUS
  <2>1. CASE i = 0
    BY <2>1, <1>4
  <2>2. CASE i # 0
    <3>1. i \in 1..n /\ i - 1 \in 0..n
      BY <2>2
    <3>2. g[i] = h[i] /\ g[i - 1] = h[i - 1]
      BY <3>1
    <3> QED BY <2>2, <3>1, <3>2, <1>4
  <2> QED BY <2>1, <2>2
<1>6. g = [i \in 0..n |-> g[i]]
  OBVIOUS
<1> HIDE DEF g
<1>7. g = [i \in 0..n |-> IF i = 0 THEN w ELSE write_byte(g[i - 1], Shown(s[i]))]
  BY <1>5, <1>6, Zenon
<1> QED BY <1>7 DEF Writing, n

(* The rows of the prefixes of s. *)
Filling(s, h) ==
  h = [i \in 0..Len(s) |-> IF i = 0 THEN <<<<>>>> ELSE AddByte(h[i - 1], s[i])]

(* The rows of a text grow byte by byte. *)
LEMMA FillingIs ==
  ASSUME NEW s, Len(s) \in Nat
  PROVE  \E h : Filling(s, h)
<1> DEFINE n == Len(s)
           b == <<<<>>>>
           Good(k, h) == /\ DOMAIN h = 0..k /\ h[0] = b
                         /\ \A i \in 1..k : h[i] = AddByte(h[i - 1], s[i])
           K == {k \in 0..n : \E h : Good(k, h)}
<1> HIDE DEF b
<1>1. 0 \in K
  <2> DEFINE h == [i \in 0..0 |-> b]
  <2>1. DOMAIN h = 0..0 /\ h[0] = b /\ 1..0 = {}
    OBVIOUS
  <2>2. Good(0, h)
    BY <2>1
  <2> HIDE DEF h, Good
  <2> QED BY <2>2
<1>2. ASSUME NEW k \in 1..n, k - 1 \in K PROVE k \in K
  <2>1. PICK h : Good(k - 1, h)
    BY <1>2
  <2> DEFINE g == [i \in 0..k |-> IF i = k THEN AddByte(h[k - 1], s[k]) ELSE h[i]]
  <2>2. DOMAIN g = 0..k /\ g[k] = AddByte(h[k - 1], s[k]) /\ \A i \in 0..(k - 1) : g[i] = h[i]
    OBVIOUS
  <2> HIDE DEF g
  <2>3. \A i \in 1..k : g[i] = AddByte(g[i - 1], s[i])
    <3> SUFFICES ASSUME NEW i \in 1..k PROVE g[i] = AddByte(g[i - 1], s[i])
      OBVIOUS
    <3>1. i - 1 \in 0..(k - 1)
      OBVIOUS
    <3>2. CASE i = k
      BY <3>1, <3>2, <2>2
    <3>3. CASE i # k
      <4>1. i \in 1..(k - 1) /\ i \in 0..(k - 1)
        BY <3>3
      <4> QED BY <4>1, <3>1, <2>1, <2>2
    <3> QED BY <3>2, <3>3
  <2>4. g[0] = b
    BY <2>1, <2>2
  <2>5. Good(k, g)
    BY <2>2, <2>3, <2>4
  <2> HIDE DEF Good
  <2> QED BY <2>5
<1>3. n \in K
  <2> HIDE DEF K, n
  <2>1. n \in Nat /\ \A i \in 1..n : i - 1 \in K => i \in K
    BY <1>2 DEF n
  <2>2. \A i \in 0..n : i \in K
    BY <1>1, <2>1, EveryTurn
  <2> QED BY <2>1, <2>2
<1>4. PICK h : Good(n, h)
  BY <1>3
<1> DEFINE g == [i \in 0..n |-> h[i]]
<1>5. \A i \in 0..n : g[i] = IF i = 0 THEN b ELSE AddByte(g[i - 1], s[i])
  <2> SUFFICES ASSUME NEW i \in 0..n PROVE g[i] = IF i = 0 THEN b ELSE AddByte(g[i - 1], s[i])
    OBVIOUS
  <2>1. CASE i = 0
    BY <2>1, <1>4
  <2>2. CASE i # 0
    <3>1. i \in 1..n /\ i - 1 \in 0..n
      BY <2>2
    <3>2. g[i] = h[i] /\ g[i - 1] = h[i - 1]
      BY <3>1
    <3> QED BY <2>2, <3>1, <3>2, <1>4
  <2> QED BY <2>1, <2>2
<1>6. g = [i \in 0..n |-> g[i]]
  OBVIOUS
<1> HIDE DEF g
<1>7. g = [i \in 0..n |-> IF i = 0 THEN b ELSE AddByte(g[i - 1], s[i])]
  BY <1>5, <1>6
<1> QED BY <1>7 DEF Filling, n, b

(* What writing s comes to, one byte after the other. *)
LEMMA WriteSteps ==
  ASSUME NEW w, NEW s, Len(s) \in Nat
  PROVE  \E h : /\ h[0] = w /\ write_string(w, s) = h[Len(s)]
               /\ \A i \in 1..Len(s) : h[i] = write_byte(h[i - 1], Shown(s[i]))
<1> DEFINE g == CHOOSE v : Writing(w, s, v)
<1>1. Writing(w, s, g)
  BY WritingIs, Zenon
<1>2. write_string(w, s) = g[Len(s)]
  BY DEF write_string, Writing
<1> HIDE DEF g
<1>3. g[0] = w /\ \A i \in 1..Len(s) : g[i] = write_byte(g[i - 1], Shown(s[i]))
  BY <1>1 DEF Writing
<1> QED BY <1>2, <1>3

(* RowsOf, byte by byte. *)
LEMMA FillSteps ==
  ASSUME NEW s, Len(s) \in Nat
  PROVE  \E h : /\ h[0] = <<<<>>>> /\ RowsOf(s) = h[Len(s)]
               /\ \A i \in 1..Len(s) : h[i] = AddByte(h[i - 1], s[i])
<1> DEFINE g == CHOOSE v : Filling(s, v)
<1>1. Filling(s, g)
  BY FillingIs, Zenon
<1>2. RowsOf(s) = g[Len(s)]
  BY DEF RowsOf, Filling
<1> HIDE DEF g
<1>3. g[0] = <<<<>>>> /\ \A i \in 1..Len(s) : g[i] = AddByte(g[i - 1], s[i])
  BY <1>1, SMTT(30) DEF Filling
<1> QED BY <1>2, <1>3

(* Whatever is written, the writer keeps its row, its colour and its cursor; and text
   leaves the row of the shell alone. *)
LEMMA WriteString ==
  ASSUME NEW w \in Writers, NEW s \in Seq(Byte)
  PROVE  LET v == write_string(w, s)
         IN  /\ v \in Writers /\ v.row_position = w.row_position
             /\ v.color_code = w.color_code /\ v.cursor = w.cursor
             /\ w.row_position # SHELL_ROW =>
                  \A c \in Cols : v.chars[SHELL_ROW][c] = w.chars[SHELL_ROW][c]
<1> DEFINE n == Len(s)
<1>1. n \in Nat /\ \A i \in 1..n : s[i] \in Byte
  OBVIOUS
<1>2. PICK h : /\ h[0] = w /\ write_string(w, s) = h[n]
               /\ \A i \in 1..n : h[i] = write_byte(h[i - 1], Shown(s[i]))
  BY <1>1, WriteSteps, SMTT(20)
<1> DEFINE Kept(v) == /\ v \in Writers /\ v.row_position = w.row_position
                      /\ v.color_code = w.color_code /\ v.cursor = w.cursor
                      /\ w.row_position # SHELL_ROW =>
                           \A c \in Cols : v.chars[SHELL_ROW][c] = w.chars[SHELL_ROW][c]
           K == {i \in 0..n : Kept(h[i])}
<1>3. 0 \in K
  BY <1>1, <1>2
<1>4. ASSUME NEW i \in 1..n, i - 1 \in K PROVE i \in K
  <2> DEFINE u == h[i - 1]
             b == Shown(s[i])
  <2>1. Kept(u) /\ b \in Byte /\ h[i] = write_byte(u, b)
    BY <1>1, <1>2, <1>4, ShownByte
  <2> HIDE DEF u, b
  <2>2. /\ write_byte(u, b) \in Writers /\ write_byte(u, b).row_position = w.row_position
        /\ write_byte(u, b).color_code = w.color_code /\ write_byte(u, b).cursor = w.cursor
    BY <2>1, WriteByte
  <2>3. ASSUME w.row_position # SHELL_ROW, NEW c \in Cols
        PROVE  write_byte(u, b).chars[SHELL_ROW][c] = u.chars[SHELL_ROW][c]
    BY <2>1, <2>3, ByteAbove
  <2>4. Kept(h[i])
    BY <2>1, <2>2, <2>3
  <2> QED BY <2>4
<1>5. n \in K
  <2> HIDE DEF K, n
  <2>1. \A i \in 0..n : i \in K
    <3>1. \A i \in 1..n : i - 1 \in K => i \in K
      BY <1>4
    <3> QED BY <1>1, <1>3, <3>1, EveryTurn, Zenon
  <2> QED BY <1>1, <2>1
<1>6. Kept(write_string(w, s))
  BY <1>2, <1>5
<1> QED BY <1>6

(* A text that fits its row stands there byte by byte, and nothing else is written. *)
LEMMA LineFits ==
  ASSUME NEW w \in Writers, NEW s \in Seq(Byte), \A i \in 1..Len(s) : s[i] # NL,
         w.row_position = SHELL_ROW, w.column_position = 2, Len(s) + 2 <= BUFFER_WIDTH
  PROVE  \A r \in Rows, c \in Cols : write_string(w, s).chars[r][c] =
           IF r = SHELL_ROW /\ 2 <= c /\ c < Len(s) + 2
           THEN ScreenChar(Shown(s[c - 1]), w.color_code) ELSE w.chars[r][c]
<1> DEFINE n == Len(s)
<1>1. n \in Nat /\ \A i \in 1..n : s[i] \in Byte /\ s[i] # NL
  OBVIOUS
<1>2. PICK h : /\ h[0] = w /\ write_string(w, s) = h[n]
               /\ \A i \in 1..n : h[i] = write_byte(h[i - 1], Shown(s[i]))
  BY <1>1, WriteSteps
<1> DEFINE Far(v, i) == \A r \in Rows, c \in Cols : v.chars[r][c] =
                          IF r = SHELL_ROW /\ 2 <= c /\ c < i + 2
                          THEN ScreenChar(Shown(s[c - 1]), w.color_code) ELSE w.chars[r][c]
           At(v, i) == /\ v \in Writers /\ v.row_position = SHELL_ROW
                       /\ v.column_position = i + 2 /\ v.color_code = w.color_code
           K == {i \in 0..n : At(h[i], i) /\ Far(h[i], i)}
<1>3. 0 \in K
  <2>1. At(h[0], 0)
    BY <1>2
  <2>2. Far(h[0], 0)
    BY <1>2, Sizes
  <2> QED BY <1>1, <2>1, <2>2
<1>4. ASSUME NEW i \in 1..n, i - 1 \in K PROVE i \in K
  <2> DEFINE u == h[i - 1]
             b == Shown(s[i])
             v == write_byte(u, b)
  <2>1. /\ At(u, i - 1) /\ Far(u, i - 1) /\ b \in Byte /\ b # NL /\ h[i] = v
        /\ b = Shown(s[i]) /\ (i - 1) + 2 = i + 1
    BY <1>1, <1>2, <1>4, ShownByte
  <2> HIDE DEF u, b
  <2>2. u.column_position = i + 1 /\ i + 1 < BUFFER_WIDTH
    BY <1>1, <2>1, Sizes
  <2>3. /\ v \in Writers /\ v.row_position = SHELL_ROW /\ v.column_position = i + 2
        /\ v.color_code = w.color_code
        /\ \A r \in Rows, c \in Cols : v.chars[r][c] =
             IF r = SHELL_ROW /\ c = i + 1 THEN ScreenChar(b, w.color_code) ELSE u.chars[r][c]
    BY <2>1, <2>2, PutByte
  <2> HIDE DEF v
  <2>4. Far(v, i)
    <3> SUFFICES ASSUME NEW r \in Rows, NEW c \in Cols
                 PROVE  v.chars[r][c] = IF r = SHELL_ROW /\ 2 <= c /\ c < i + 2
                          THEN ScreenChar(Shown(s[c - 1]), w.color_code) ELSE w.chars[r][c]
      OBVIOUS
    <3>1. CASE r = SHELL_ROW /\ c = i + 1
      <4>1. c - 1 = i /\ 2 <= c /\ c < i + 2
        BY <3>1
      <4> QED BY <3>1, <4>1, <2>1, <2>3
    <3>2. CASE ~(r = SHELL_ROW /\ c = i + 1)
      <4>1. v.chars[r][c] = u.chars[r][c]
        BY <3>2, <2>3
      <4>2. u.chars[r][c] = IF r = SHELL_ROW /\ 2 <= c /\ c < (i - 1) + 2
                            THEN ScreenChar(Shown(s[c - 1]), w.color_code) ELSE w.chars[r][c]
        BY <2>1
      <4>3. (r = SHELL_ROW /\ 2 <= c /\ c < i + 2) <=> (r = SHELL_ROW /\ 2 <= c /\ c < (i - 1) + 2)
        BY <3>2, Sizes
      <4> QED BY <4>1, <4>2, <4>3
    <3> QED BY <3>1, <3>2
  <2>5. At(v, i)
    BY <2>3
  <2> QED BY <2>1, <2>4, <2>5
<1>5. n \in K
  <2> HIDE DEF K, n
  <2>1. \A i \in 0..n : i \in K
    <3>1. \A i \in 1..n : i - 1 \in K => i \in K
      BY <1>4
    <3> QED BY <1>1, <1>3, <3>1, EveryTurn, Zenon
  <2> QED BY <1>1, <2>1
<1>6. Far(write_string(w, s), n)
  BY <1>2, <1>5
<1> QED BY <1>6

-----------------------------------------------------------------------------
(* The text rows. *)

Texts == Seq(Seq(Byte))

(* RowAt, of any rows. *)
RowIn(rows, r) == LET i == Len(rows) - (TEXT_HEIGHT - 1) + r
                  IN  IF i >= 1 THEN rows[i] ELSE <<>>

(* What the text row r of the writer w shows. *)
ShowsRow(w, r, t) == \A c \in Cols : w.chars[r][c].ascii_character =
                                       IF c < Len(t) THEN t[c + 1] ELSE Space

(* The writer stands at the end of the rows and shows the last of them. *)
Shows(w, rows) ==
  /\ w \in Writers /\ w.row_position = TEXT_HEIGHT - 1
  /\ rows \in Texts /\ rows # <<>> /\ w.column_position = Len(rows[Len(rows)])
  /\ \A r \in 0..(TEXT_HEIGHT - 1) : ShowsRow(w, r, RowIn(rows, r))

(* A sequence with one more element. *)
LEMMA AppendIs ==
  ASSUME NEW S, NEW s \in Seq(S), NEW x \in S
  PROVE  /\ Append(s, x) \in Seq(S) /\ Len(Append(s, x)) = Len(s) + 1 /\ Len(s) \in Nat
         /\ Append(s, x)[Len(s) + 1] = x /\ \A i \in 1..Len(s) : Append(s, x)[i] = s[i]
         /\ Append(s, x) # <<>>
OBVIOUS

(* A sequence with another last element. *)
LEMMA ReplaceLast ==
  ASSUME NEW S, NEW s \in Seq(S), s # <<>>, NEW x \in S
  PROVE  LET n == Len(s) t == [s EXCEPT ![n] = x]
         IN  /\ t \in Seq(S) /\ Len(t) = n /\ n \in Nat /\ n > 0 /\ t # <<>> /\ t[n] = x
             /\ \A i \in 1..(n - 1) : t[i] = s[i]
OBVIOUS

(* An element appended and replaced is the other element appended. *)
LEMMA AppendOther ==
  ASSUME NEW S, NEW s \in Seq(S), NEW x \in S, NEW y \in S
  PROVE  LET f == Append(s, x)
         IN  [f EXCEPT ![Len(f)] = y] = Append(s, y) /\ f[Len(f)] = x
<1> DEFINE f == Append(s, x)
           g == Append(s, y)
           n == Len(s) + 1
           e == [f EXCEPT ![n] = y]
<1>1. /\ f \in Seq(S) /\ Len(f) = n /\ f[n] = x /\ \A i \in 1..Len(s) : f[i] = s[i]
      /\ g \in Seq(S) /\ Len(g) = n /\ g[n] = y /\ \A i \in 1..Len(s) : g[i] = s[i]
      /\ Len(s) \in Nat
  BY AppendIs
<1> HIDE DEF f, g
<1>2. e \in Seq(S) /\ Len(e) = n /\ \A i \in 1..n : e[i] = IF i = n THEN y ELSE f[i]
  BY <1>1
<1> HIDE DEF e
<1>3. \A i \in 1..n : e[i] = g[i]
  BY <1>1, <1>2
<1>4. e = g
  BY <1>1, <1>2, <1>3
<1> QED BY <1>1, <1>4 DEF e, f, g

(* A newline begins an empty row of the text. *)
LEMMA ShowsNewLine ==
  ASSUME NEW w, NEW rows, Shows(w, rows)
  PROVE  Shows(new_line(w), Append(rows, <<>>))
<1> DEFINE v == new_line(w)
           g == Append(rows, <<>>)
           n == Len(rows)
<1>1. w \in Writers /\ w.row_position = TEXT_HEIGHT - 1 /\ rows \in Texts
  BY DEF Shows
<1>2. <<>> \in Seq(Byte) /\ Len(<<>>) = 0
  OBVIOUS
<1>3. /\ g \in Texts /\ Len(g) = n + 1 /\ n \in Nat /\ g # <<>>
      /\ g[n + 1] = <<>> /\ \A i \in 1..n : g[i] = rows[i]
  <2>1. \A x \in Seq(Byte) : LET f == Append(rows, x)
                              IN  /\ f \in Texts /\ Len(f) = n + 1 /\ n \in Nat /\ f # <<>>
                                  /\ f[n + 1] = x /\ \A i \in 1..n : f[i] = rows[i]
    BY <1>1, AppendIs DEF Texts
  <2> QED BY <1>2, <2>1, Zenon
<1> HIDE DEF g
<1>4. /\ v \in Writers /\ v.row_position = w.row_position /\ v.column_position = 0
      /\ \A r \in Rows, c \in Cols : v.chars[r][c] =
           IF r = TEXT_HEIGHT - 1 THEN ScreenChar(Space, w.color_code)
           ELSE IF r < TEXT_HEIGHT - 1 THEN w.chars[r + 1][c] ELSE w.chars[r][c]
  BY <1>1, NewLine
<1> HIDE DEF v
<1>5. ASSUME NEW r \in 0..(TEXT_HEIGHT - 1) PROVE ShowsRow(v, r, RowIn(g, r))
  <2>0. TEXT_HEIGHT \in Nat /\ TEXT_HEIGHT >= 1 /\ r \in Rows /\ r \in Nat
    BY Sizes
  <2>1. CASE r = TEXT_HEIGHT - 1
    <3>1. RowIn(g, r) = <<>>
      BY <1>3, <2>0, <2>1 DEF RowIn
    <3>2. ScreenChar(Space, w.color_code).ascii_character = Space
      BY DEF ScreenChar
    <3>3. \A c \in Cols : v.chars[r][c] = ScreenChar(Space, w.color_code)
      BY <1>4, <2>0, <2>1
    <3>4. \A c \in Cols : ~(c < Len(<<>>))
      BY <1>2, Sizes
    <3> QED BY <3>1, <3>2, <3>3, <3>4 DEF ShowsRow
  <2>2. CASE r < TEXT_HEIGHT - 1
    <3>1. r + 1 \in 0..(TEXT_HEIGHT - 1) /\ r # TEXT_HEIGHT - 1
      BY <2>0, <2>2
    <3>2. RowIn(g, r) = RowIn(rows, r + 1)
      <4> DEFINE i == n - (TEXT_HEIGHT - 1) + (r + 1)
      <4>1. Len(g) - (TEXT_HEIGHT - 1) + r = i /\ i <= n /\ i \in Int
        BY <1>3, <2>0, <2>2
      <4>2. i >= 1 => g[i] = rows[i]
        BY <4>1, <1>3
      <4> QED BY <4>1, <4>2 DEF RowIn
    <3>3. ShowsRow(w, r + 1, RowIn(rows, r + 1))
      BY <3>1 DEF Shows
    <3>4. \A c \in Cols : v.chars[r][c] = w.chars[r + 1][c]
      BY <1>4, <2>0, <2>2, <3>1
    <3> QED BY <3>2, <3>3, <3>4 DEF ShowsRow
  <2> QED BY <2>0, <2>1, <2>2
<1>6. v.column_position = Len(g[Len(g)])
  BY <1>2, <1>3, <1>4
<1>7. v.row_position = TEXT_HEIGHT - 1
  BY <1>1, <1>4
<1> QED BY <1>3, <1>4, <1>5, <1>6, <1>7 DEF Shows, g, v

(* A byte goes on with the last row. *)
LEMMA ShowsPut ==
  ASSUME NEW w, NEW rows, Shows(w, rows), w.column_position < BUFFER_WIDTH,
         NEW byte \in Byte, byte # NL
  PROVE  Shows(write_byte(w, byte), [rows EXCEPT ![Len(rows)] = Append(rows[Len(rows)], byte)])
<1> DEFINE v == write_byte(w, byte)
           n == Len(rows)
           t == Append(rows[n], byte)
           g == [rows EXCEPT ![n] = t]
<1>1. w \in Writers /\ w.row_position = TEXT_HEIGHT - 1 /\ rows \in Texts /\ rows # <<>>
  BY DEF Shows
<1>2. n \in Nat /\ n > 0 /\ rows[n] \in Seq(Byte) /\ w.column_position = Len(rows[n])
  BY <1>1 DEF Texts, Shows
<1>3. /\ t \in Seq(Byte) /\ Len(t) = Len(rows[n]) + 1 /\ Len(rows[n]) \in Nat
      /\ t[Len(rows[n]) + 1] = byte /\ \A i \in 1..Len(rows[n]) : t[i] = rows[n][i]
  BY <1>2, AppendIs
<1> HIDE DEF t
<1>5. /\ g \in Texts /\ Len(g) = n /\ g # <<>> /\ g[n] = t
      /\ \A i \in 1..(n - 1) : g[i] = rows[i]
  BY <1>1, <1>3, ReplaceLast DEF Texts
<1> HIDE DEF g
<1>6. /\ v \in Writers /\ v.row_position = w.row_position
      /\ v.column_position = w.column_position + 1
      /\ \A r \in Rows, c \in Cols : v.chars[r][c] =
           IF r = w.row_position /\ c = w.column_position
           THEN ScreenChar(byte, w.color_code) ELSE w.chars[r][c]
  BY <1>1, PutByte
<1> HIDE DEF v
<1>7. ASSUME NEW r \in 0..(TEXT_HEIGHT - 1) PROVE ShowsRow(v, r, RowIn(g, r))
  <2>0. TEXT_HEIGHT \in Nat /\ TEXT_HEIGHT >= 1 /\ r \in Rows /\ r \in Nat
    BY Sizes
  <2>1. ShowsRow(w, r, RowIn(rows, r))
    BY DEF Shows
  <2>2. CASE r = TEXT_HEIGHT - 1
    <3>1. RowIn(g, r) = t /\ RowIn(rows, r) = rows[n]
      BY <1>2, <1>5, <2>0, <2>2 DEF RowIn
    <3>2. ScreenChar(byte, w.color_code).ascii_character = byte
      BY DEF ScreenChar
    <3> SUFFICES ASSUME NEW c \in Cols
                 PROVE  v.chars[r][c].ascii_character = IF c < Len(t) THEN t[c + 1] ELSE Space
      BY <3>1 DEF ShowsRow
    <3>3. w.chars[r][c].ascii_character = IF c < Len(rows[n]) THEN rows[n][c + 1] ELSE Space
      BY <2>1, <3>1 DEF ShowsRow
    <3>4. c \in Nat
      BY Sizes
    <3>5. CASE c = Len(rows[n])
      BY <1>1, <1>2, <1>3, <1>6, <2>0, <2>2, <3>2, <3>5
    <3>6. CASE c # Len(rows[n])
      <4>1. v.chars[r][c] = w.chars[r][c]
        BY <1>2, <1>6, <2>0, <3>6
      <4>2. c < Len(t) <=> c < Len(rows[n])
        BY <1>3, <3>4, <3>6
      <4>3. c < Len(rows[n]) => t[c + 1] = rows[n][c + 1]
        BY <1>3, <3>4
      <4> QED BY <3>3, <4>1, <4>2, <4>3
    <3> QED BY <3>5, <3>6
  <2>3. CASE r < TEXT_HEIGHT - 1
    <3>1. RowIn(g, r) = RowIn(rows, r)
      <4> DEFINE i == n - (TEXT_HEIGHT - 1) + r
      <4>1. i \in Int /\ i <= n - 1
        BY <1>2, <2>0, <2>3
      <4>2. i >= 1 => g[i] = rows[i]
        BY <4>1, <1>5
      <4> QED BY <4>2, <1>5 DEF RowIn
    <3>2. \A c \in Cols : v.chars[r][c] = w.chars[r][c]
      BY <1>1, <1>6, <2>0, <2>3
    <3> QED BY <2>1, <3>1, <3>2 DEF ShowsRow
  <2> QED BY <2>0, <2>2, <2>3
<1>8. v.column_position = Len(g[Len(g)]) /\ v.row_position = TEXT_HEIGHT - 1
  BY <1>1, <1>2, <1>3, <1>5, <1>6
<1> QED BY <1>5, <1>6, <1>7, <1>8, Zenon DEF Shows, g, v, t

(* One byte: what the writer does is what happens to the rows. *)
LEMMA ShowsByte ==
  ASSUME NEW w, NEW rows, Shows(w, rows), NEW byte \in Byte
  PROVE  Shows(write_byte(w, Shown(byte)), AddByte(rows, byte))
<1> DEFINE b == Shown(byte)
           n == Len(rows)
<1>1. b \in Byte /\ (b = NL <=> byte = NL)
  BY ShownByte
<1>2. /\ w \in Writers /\ rows \in Texts /\ rows # <<>> /\ w.column_position = Len(rows[n])
      /\ w.column_position \in 0..BUFFER_WIDTH /\ n \in DOMAIN rows
  BY DEF Shows, Texts, Writers
<1>3. CASE byte = NL
  <2>1. write_byte(w, b) = new_line(w) /\ AddByte(rows, byte) = Append(rows, <<>>)
    BY <1>1, <1>3 DEF write_byte, AddByte
  <2> QED BY <2>1, ShowsNewLine
<1>4. CASE byte # NL /\ w.column_position < BUFFER_WIDTH
  <2>1. AddByte(rows, byte) = [rows EXCEPT ![n] = Append(rows[n], b)]
    BY <1>2, <1>4, Sizes DEF AddByte
  <2> HIDE DEF b
  <2>2. Shows(write_byte(w, b), [rows EXCEPT ![Len(rows)] = Append(rows[Len(rows)], b)])
    BY <1>1, <1>4, ShowsPut
  <2> QED BY <2>1, <2>2 DEF b
<1>5. CASE byte # NL /\ w.column_position >= BUFFER_WIDTH
  <2> DEFINE u == new_line(w)
             g == Append(rows, <<>>)
             k == Len(g)
  <2>1. Shows(u, g) /\ u.column_position = 0
    BY <1>2, ShowsNewLine, NewLine
  <2>2. write_byte(w, b) = write_byte(u, b)
    BY <1>1, <1>2, <1>5, WrapByte
  <2>3. AddByte(rows, byte) = Append(rows, <<b>>)
    BY <1>2, <1>5, Sizes DEF AddByte
  <2>4. [g EXCEPT ![k] = Append(g[k], b)] = Append(rows, <<b>>)
    <3>1. \A x, y \in Seq(Byte) : LET f == Append(rows, x)
                                   IN  /\ [f EXCEPT ![Len(f)] = y] = Append(rows, y)
                                       /\ f[Len(f)] = x
      BY <1>2, AppendOther DEF Texts
    <3>2. <<>> \in Seq(Byte) /\ <<b>> \in Seq(Byte) /\ Append(<<>>, b) = <<b>>
      BY <1>1
    <3>3. g[k] = <<>> /\ [g EXCEPT ![k] = <<b>>] = Append(rows, <<b>>)
      BY <3>1, <3>2, Zenon
    <3> HIDE DEF g, k
    <3>4. Append(g[k], b) = <<b>>
      BY <3>2, <3>3
    <3> QED BY <3>3, <3>4
  <2> HIDE DEF u, b
  <2>5. u.column_position < BUFFER_WIDTH
    BY <2>1, Sizes
  <2> HIDE DEF g
  <2>6. Shows(write_byte(u, b), [g EXCEPT ![k] = Append(g[k], b)])
    BY <1>1, <1>5, <2>1, <2>5, ShowsPut
  <2>7. Shows(write_byte(w, b), AddByte(rows, byte))
    BY <2>2, <2>3, <2>4, <2>6, Zenon
  <2> QED BY <2>7 DEF b
<1> QED BY <1>2, <1>3, <1>4, <1>5, Sizes

(* The rows of a text that is continued start from the rows of the text. *)
LEMMA RowsContinue ==
  ASSUME NEW a \in Seq(Byte), NEW s \in Seq(Byte)
  PROVE  \E h : /\ h[0] = RowsOf(a) /\ RowsOf(a \o s) = h[Len(s)]
                /\ \A i \in 1..Len(s) : h[i] = AddByte(h[i - 1], s[i])
<1> DEFINE m == Len(a)
           n == Len(s)
           t == a \o s
<1>1. /\ m \in Nat /\ n \in Nat /\ Len(t) = m + n
      /\ \A i \in 1..m : t[i] = a[i]
      /\ \A i \in 1..n : t[m + i] = s[i]
  OBVIOUS
<1> HIDE DEF t, m, n
<1>2. PICK f : /\ f[0] = <<<<>>>> /\ RowsOf(a) = f[m]
               /\ \A i \in 1..m : f[i] = AddByte(f[i - 1], a[i])
  BY <1>1, FillSteps, Zenon DEF m
<1>3. Len(t) \in Nat
  BY <1>1
<1>4. PICK g : /\ g[0] = <<<<>>>> /\ RowsOf(t) = g[Len(t)]
               /\ \A i \in 1..Len(t) : g[i] = AddByte(g[i - 1], t[i])
  BY <1>3, FillSteps, Zenon
<1> DEFINE K == {i \in 0..m : f[i] = g[i]}
<1>5. 0 \in K
  <2>1. f[0] = g[0]
    BY <1>2, <1>4, Zenon
  <2>2. 0 \in 0..m
    BY <1>1
  <2> QED BY <2>1, <2>2
<1>6. ASSUME NEW i \in 1..m, i - 1 \in K PROVE i \in K
  <2>1. i \in 1..Len(t) /\ t[i] = a[i] /\ f[i - 1] = g[i - 1] /\ i \in 0..m
    BY <1>1, <1>6
  <2>2. f[i] = AddByte(f[i - 1], a[i]) /\ g[i] = AddByte(g[i - 1], t[i])
    BY <1>2, <1>4, <2>1
  <2> QED BY <2>1, <2>2
<1>7. f[m] = g[m]
  <2> HIDE DEF K
  <2>1. \A i \in 1..m : i - 1 \in K => i \in K
    BY <1>6
  <2>2. \A i \in 0..m : i \in K
    BY <1>1, <1>5, <2>1, EveryTurn, Zenon
  <2>3. m \in K
    BY <1>1, <2>2
  <2> QED BY <2>3 DEF K
<1> DEFINE h == [i \in 0..n |-> g[m + i]]
<1>8. h[0] = g[m] /\ h[n] = g[m + n] /\ \A i \in 1..n : h[i] = g[m + i] /\ h[i - 1] = g[m + i - 1]
  <2>1. \A i \in 0..n : h[i] = g[m + i]
    OBVIOUS
  <2>2. 0 \in 0..n /\ n \in 0..n /\ m + 0 = m
    BY <1>1
  <2>3. \A i \in 1..n : i \in 0..n /\ i - 1 \in 0..n /\ m + (i - 1) = m + i - 1
    BY <1>1
  <2> HIDE DEF h
  <2> QED BY <2>1, <2>2, <2>3
<1> HIDE DEF h
<1>9. \A i \in 1..n : h[i] = AddByte(h[i - 1], s[i])
  <2> SUFFICES ASSUME NEW i \in 1..n PROVE h[i] = AddByte(h[i - 1], s[i])
    OBVIOUS
  <2>1. m + i \in 1..Len(t) /\ t[m + i] = s[i]
    BY <1>1
  <2>2. g[m + i] = AddByte(g[m + i - 1], t[m + i])
    <3> DEFINE j == m + i
    <3> HIDE DEF j
    <3>1. j \in 1..Len(t)
      BY <2>1 DEF j
    <3>2. g[j] = AddByte(g[j - 1], t[j])
      BY <1>4, <3>1, Zenon
    <3>3. j - 1 = m + i - 1 /\ j = m + i
      BY <1>1 DEF j
    <3> QED BY <3>2, <3>3
  <2> QED BY <1>8, <2>1, <2>2
<1>10. h[0] = RowsOf(a) /\ RowsOf(t) = h[n]
  BY <1>1, <1>2, <1>4, <1>7, <1>8
<1> QED BY <1>9, <1>10 DEF t, n

(* A string: the writer goes on to show the tail of all that was written. *)
LEMMA ShowsString ==
  ASSUME NEW a \in Seq(Byte), NEW s \in Seq(Byte), NEW w, Shows(w, RowsOf(a))
  PROVE  Shows(write_string(w, s), RowsOf(a \o s))
<1> DEFINE n == Len(s)
<1>1. n \in Nat /\ \A i \in 1..n : s[i] \in Byte
  OBVIOUS
<1>2. PICK g : /\ g[0] = RowsOf(a) /\ RowsOf(a \o s) = g[n]
               /\ \A i \in 1..n : g[i] = AddByte(g[i - 1], s[i])
  BY RowsContinue
<1>3. PICK h : /\ h[0] = w /\ write_string(w, s) = h[n]
               /\ \A i \in 1..n : h[i] = write_byte(h[i - 1], Shown(s[i]))
  BY <1>1, WriteSteps
<1> DEFINE K == {i \in 0..n : Shows(h[i], g[i])}
<1>4. 0 \in K
  BY <1>1, <1>2, <1>3
<1>5. ASSUME NEW i \in 1..n, i - 1 \in K PROVE i \in K
  <2>1. Shows(h[i - 1], g[i - 1]) /\ s[i] \in Byte
    BY <1>1, <1>5
  <2>2. Shows(write_byte(h[i - 1], Shown(s[i])), AddByte(g[i - 1], s[i]))
    BY <2>1, ShowsByte
  <2>3. h[i] = write_byte(h[i - 1], Shown(s[i])) /\ g[i] = AddByte(g[i - 1], s[i])
    BY <1>2, <1>3
  <2> QED BY <2>2, <2>3
<1> HIDE DEF K, n
<1>6. n \in K
  <2>1. \A i \in 1..n : i - 1 \in K => i \in K
    BY <1>5
  <2>2. \A i \in 0..n : i \in K
    BY <1>1, <1>4, <2>1, EveryTurn, Zenon
  <2> QED BY <1>1, <2>2
<1> QED BY <1>2, <1>3, <1>6 DEF K

-----------------------------------------------------------------------------
(* The row of the shell. *)

(* write_shell_line leaves the writer where it was. *)
LEMMA ShellLineStays ==
  ASSUME NEW w \in Writers, NEW s \in Seq(Byte)
  PROVE  LET v == write_shell_line(w, s)
         IN  /\ v \in Writers
             /\ v.row_position = w.row_position /\ v.column_position = w.column_position
             /\ v.color_code = w.color_code /\ v.cursor = w.cursor
             /\ (\A i \in 1..Len(s) : s[i] # NL) /\ Len(s) + 2 <= BUFFER_WIDTH =>
                  \A r \in Rows, c \in Cols : v.chars[r][c] =
                    IF r # SHELL_ROW \/ c < 2 THEN w.chars[r][c]
                    ELSE ScreenChar(IF c < Len(s) + 2 THEN Shown(s[c - 1]) ELSE Space, w.color_code)
<1> DEFINE x == clear_row(w, SHELL_ROW, 2)
           start == [x EXCEPT !.row_position = SHELL_ROW, !.column_position = 2]
           y == write_string(start, s)
           v == [y EXCEPT !.row_position = w.row_position, !.column_position = w.column_position]
<1>0. write_shell_line(w, s) = v
  BY DEF write_shell_line
<1>1. SHELL_ROW \in Rows /\ 2 \in Nat /\ 2 \in 0..BUFFER_WIDTH
  BY Sizes
<1>2. /\ x \in Writers /\ x.color_code = w.color_code /\ x.cursor = w.cursor
      /\ \A r \in Rows, c \in Cols : x.chars[r][c] =
           IF r = SHELL_ROW /\ c >= 2 THEN ScreenChar(Space, w.color_code) ELSE w.chars[r][c]
  BY <1>1, ClearRow
<1> HIDE DEF x
<1>3. /\ start \in Writers /\ start.row_position = SHELL_ROW /\ start.column_position = 2
      /\ start.color_code = x.color_code /\ start.cursor = x.cursor /\ start.chars = x.chars
  BY <1>1, <1>2, Zenon DEF Writers
<1> HIDE DEF start
<1>4. y \in Writers /\ y.color_code = w.color_code /\ y.cursor = w.cursor
  BY <1>2, <1>3, WriteString
<1>5. ASSUME \A i \in 1..Len(s) : s[i] # NL, Len(s) + 2 <= BUFFER_WIDTH,
             NEW r \in Rows, NEW c \in Cols
      PROVE  y.chars[r][c] =
               IF r # SHELL_ROW \/ c < 2 THEN w.chars[r][c]
               ELSE ScreenChar(IF c < Len(s) + 2 THEN Shown(s[c - 1]) ELSE Space, w.color_code)
  <2>1. y.chars[r][c] = IF r = SHELL_ROW /\ 2 <= c /\ c < Len(s) + 2
                        THEN ScreenChar(Shown(s[c - 1]), start.color_code) ELSE start.chars[r][c]
    BY <1>3, <1>5, LineFits
  <2>2. start.chars[r][c] = IF r = SHELL_ROW /\ c >= 2 THEN ScreenChar(Space, w.color_code)
                            ELSE w.chars[r][c]
    BY <1>2, <1>3
  <2>3. start.color_code = w.color_code /\ c \in Int
    BY <1>2, <1>3, Sizes
  <2> HIDE DEF y
  <2> QED BY <2>1, <2>2, <2>3
<1> HIDE DEF y
<1>6. /\ v \in Writers /\ v.chars = y.chars
      /\ v.row_position = w.row_position /\ v.column_position = w.column_position
      /\ v.color_code = y.color_code /\ v.cursor = y.cursor
  BY <1>4, Zenon DEF Writers
<1> HIDE DEF v
<1> QED BY <1>0, <1>4, <1>5, <1>6

(* The two registers hold the position, if that has 16 bits. *)
LEMMA SetCursor ==
  ASSUME NEW w \in Writers, NEW x \in Nat, TEXT_HEIGHT * BUFFER_WIDTH + x + 2 < 65536
  PROVE  LET v == set_cursor_x(w, x)
         IN  /\ v \in Writers
             /\ v.row_position = w.row_position /\ v.column_position = w.column_position
             /\ v.color_code = w.color_code /\ v.chars = w.chars
             /\ v.cursor.high * 256 + v.cursor.low = TEXT_HEIGHT * BUFFER_WIDTH + 2 + x
<1> DEFINE base == TEXT_HEIGHT * BUFFER_WIDTH
           p == base + x + 2
           k == [low |-> p % 256, high |-> (p \div 256) % 256]
           v == [w EXCEPT !.cursor = k]
<1>1. base \in Nat
  BY Sizes
<1>2. set_cursor_x(w, x) = v
  BY DEF set_cursor_x
<1> HIDE DEF base
<1>3. p \in Nat /\ p < 65536 /\ p = base + 2 + x
  BY <1>1 DEF base
<1> HIDE DEF p
<1> DEFINE q == p \div 256
           m == p % 256
           h == q % 256
<1>4. q \in Nat /\ m \in Byte /\ p = 256 * q + m /\ h \in Byte
  <2>1. q \in Int /\ m \in 0..255 /\ p = 256 * q + m
    BY <1>3
  <2> HIDE DEF q, m
  <2>2. q \in Nat
    BY <1>3, <2>1
  <2>3. h \in 0..255
    BY <2>2
  <2> QED BY <2>1, <2>2, <2>3 DEF Byte
<1>5. k \in [low : Byte, high : Byte] /\ k.high * 256 + k.low = p
  <2>1. k = [low |-> m, high |-> h]
    OBVIOUS
  <2> HIDE DEF k, q, m
  <2>2. q < 256
    BY <1>3, <1>4 DEF Byte
  <2>3. h = q
    BY <1>4, <2>2
  <2> HIDE DEF h
  <2>4. h * 256 + m = p
    BY <1>4, <2>3 DEF Byte
  <2> QED BY <1>4, <2>1, <2>4
<1> HIDE DEF k
<1>6. /\ v \in Writers /\ v.cursor = k
      /\ v.row_position = w.row_position /\ v.column_position = w.column_position
      /\ v.color_code = w.color_code /\ v.chars = w.chars
  BY <1>5 DEF Writers
<1> HIDE DEF v
<1> QED BY <1>2, <1>3, <1>5, <1>6 DEF base

(* What is shown depends on nothing but the rows of the text. *)
LEMMA ShowsSame ==
  ASSUME NEW w, NEW rows, Shows(w, rows), NEW v \in Writers,
         v.row_position = w.row_position, v.column_position = w.column_position,
         \A r \in Rows, c \in Cols : r # SHELL_ROW => v.chars[r][c] = w.chars[r][c]
  PROVE  Shows(v, rows)
<1>1. ASSUME NEW r \in 0..(TEXT_HEIGHT - 1) PROVE ShowsRow(v, r, RowIn(rows, r))
  <2>1. r \in Rows /\ r # SHELL_ROW
    BY Sizes
  <2>2. ShowsRow(w, r, RowIn(rows, r))
    BY DEF Shows
  <2>3. \A c \in Cols : v.chars[r][c] = w.chars[r][c]
    BY <2>1
  <2> QED BY <2>2, <2>3 DEF ShowsRow
<1> QED BY <1>1 DEF Shows

(* The writer w between two keys, when lg was written as text; wr: a line wrapped. *)
ScreenOk(w, lg, wr) ==
  /\ w \in Writers /\ w.row_position = TEXT_HEIGHT - 1 /\ w.color_code = "Magenta"
  /\ lg \in Seq(Byte)
  /\ ~wr => Shows(w, RowsOf(lg)) /\ w.chars[SHELL_ROW][0] = ScreenChar(Prompt, "Blue")

(* A line and a cursor the editor can have. *)
EditOk(cc, cp) == /\ cc \in Seq(Byte) /\ \A i \in 1..Len(cc) : cc[i] # NL
                  /\ cc # <<>> => cc[1] \notin Continuation
                  /\ cp \in Nat /\ TEXT_HEIGHT * BUFFER_WIDTH + cp + 2 < 65536

(* The line cc is in the row of the shell. *)
LineOk(w, cc, cp) ==
  Fits(cc) =>
    /\ \A c \in 2..(BUFFER_WIDTH - 1) :
         w.chars[SHELL_ROW][c] =
           ScreenChar(IF c - 1 <= Len(cc) THEN Shown(cc[c - 1]) ELSE Space, "Magenta")
    /\ w.cursor.high * 256 + w.cursor.low = TEXT_HEIGHT * BUFFER_WIDTH + 2 + cp

(* redraw: the line is shown, and the text above it stays. *)
LEMMA Redrawn ==
  ASSUME NEW w, NEW lg, NEW wr, ScreenOk(w, lg, wr), NEW cc, NEW cp, EditOk(cc, cp)
  PROVE  LET v == write_shell_line(set_cursor_x(w, cp), cc)
         IN  /\ ScreenOk(v, lg, wr \/ Len(cc) > BUFFER_WIDTH - 2)
             /\ LineOk(v, cc, cp)
<1> DEFINE u == set_cursor_x(w, cp)
           v == write_shell_line(u, cc)
           wr2 == wr \/ Len(cc) > BUFFER_WIDTH - 2
<1>1. /\ w \in Writers /\ w.row_position = TEXT_HEIGHT - 1 /\ w.color_code = "Magenta"
      /\ lg \in Seq(Byte)
  BY DEF ScreenOk
<1>2. /\ cc \in Seq(Byte) /\ Len(cc) \in Nat /\ \A i \in 1..Len(cc) : cc[i] # NL
      /\ cp \in Nat /\ TEXT_HEIGHT * BUFFER_WIDTH + cp + 2 < 65536
  BY DEF EditOk
<1>3. /\ u \in Writers /\ u.row_position = w.row_position /\ u.column_position = w.column_position
      /\ u.color_code = w.color_code /\ u.chars = w.chars
      /\ u.cursor.high * 256 + u.cursor.low = TEXT_HEIGHT * BUFFER_WIDTH + 2 + cp
  BY <1>1, <1>2, SetCursor
<1> HIDE DEF u
<1>4. /\ v \in Writers
      /\ v.row_position = u.row_position /\ v.column_position = u.column_position
      /\ v.color_code = u.color_code /\ v.cursor = u.cursor
  BY <1>2, <1>3, ShellLineStays
<1>5. ASSUME Len(cc) + 2 <= BUFFER_WIDTH, NEW r \in Rows, NEW c \in Cols
      PROVE  v.chars[r][c] = IF r # SHELL_ROW \/ c < 2 THEN u.chars[r][c]
                             ELSE ScreenChar(IF c < Len(cc) + 2 THEN Shown(cc[c - 1]) ELSE Space, u.color_code)
  BY <1>2, <1>3, <1>5, ShellLineStays
<1> HIDE DEF v
<1>6. Len(cc) > BUFFER_WIDTH - 2 <=> ~(Len(cc) + 2 <= BUFFER_WIDTH)
  BY <1>2, Sizes
<1>7. ASSUME ~wr2
      PROVE  Shows(v, RowsOf(lg)) /\ v.chars[SHELL_ROW][0] = ScreenChar(Prompt, "Blue")
  <2>1. ~wr /\ Len(cc) + 2 <= BUFFER_WIDTH
    BY <1>6, <1>7
  <2>2. Shows(w, RowsOf(lg)) /\ w.chars[SHELL_ROW][0] = ScreenChar(Prompt, "Blue")
    BY <2>1 DEF ScreenOk
  <2>3. \A r \in Rows, c \in Cols : r # SHELL_ROW => v.chars[r][c] = w.chars[r][c]
    BY <1>3, <1>5, <2>1
  <2>4. v.row_position = w.row_position /\ v.column_position = w.column_position
    BY <1>3, <1>4
  <2>5. Shows(v, RowsOf(lg))
    BY <1>4, <2>2, <2>3, <2>4, ShowsSame
  <2>6. SHELL_ROW \in Rows /\ 0 \in Cols /\ 0 < 2
    BY Sizes
  <2>7. v.chars[SHELL_ROW][0] = w.chars[SHELL_ROW][0]
    BY <1>3, <1>5, <2>1, <2>6
  <2> QED BY <2>2, <2>5, <2>7
<1>8. ScreenOk(v, lg, wr2)
  BY <1>1, <1>3, <1>4, <1>7 DEF ScreenOk
<1>9. LineOk(v, cc, cp)
  <2> SUFFICES ASSUME Fits(cc)
               PROVE  /\ \A c \in 2..(BUFFER_WIDTH - 1) :
                           v.chars[SHELL_ROW][c] =
                             ScreenChar(IF c - 1 <= Len(cc) THEN Shown(cc[c - 1]) ELSE Space, "Magenta")
                      /\ v.cursor.high * 256 + v.cursor.low = TEXT_HEIGHT * BUFFER_WIDTH + 2 + cp
    BY DEF LineOk
  <2>1. Len(cc) + 2 <= BUFFER_WIDTH
    BY <1>2, Sizes DEF Fits
  <2>2. ASSUME NEW c \in 2..(BUFFER_WIDTH - 1)
        PROVE  v.chars[SHELL_ROW][c] =
                 ScreenChar(IF c - 1 <= Len(cc) THEN Shown(cc[c - 1]) ELSE Space, "Magenta")
    <3>1. SHELL_ROW \in Rows /\ c \in Cols /\ ~(c < 2) /\ (c < Len(cc) + 2 <=> c - 1 <= Len(cc))
      BY <1>2, Sizes
    <3>2. v.chars[SHELL_ROW][c] =
            ScreenChar(IF c < Len(cc) + 2 THEN Shown(cc[c - 1]) ELSE Space, u.color_code)
      BY <1>5, <2>1, <3>1
    <3> QED BY <1>1, <1>3, <3>1, <3>2
  <2> QED BY <1>3, <1>4, <2>2
<1> QED BY <1>8, <1>9 DEF v, u

(* Text: the screen goes on, and the line stays. *)
LEMMA TextWritten ==
  ASSUME NEW w, NEW lg, NEW wr, ScreenOk(w, lg, wr), NEW cc, NEW cp, LineOk(w, cc, cp),
         NEW s \in Seq(Byte)
  PROVE  LET v == write_string(w, s)
         IN  ScreenOk(v, lg \o s, wr) /\ LineOk(v, cc, cp)
<1> DEFINE v == write_string(w, s)
<1>1. /\ w \in Writers /\ w.row_position = TEXT_HEIGHT - 1 /\ w.color_code = "Magenta"
      /\ lg \in Seq(Byte)
  BY DEF ScreenOk
<1>2. w.row_position # SHELL_ROW /\ 0 \in Cols /\ 2..(BUFFER_WIDTH - 1) \subseteq Cols
  BY <1>1, Sizes
<1>3. /\ v \in Writers /\ v.row_position = w.row_position
      /\ v.color_code = w.color_code /\ v.cursor = w.cursor
      /\ \A c \in Cols : v.chars[SHELL_ROW][c] = w.chars[SHELL_ROW][c]
  BY <1>1, <1>2, WriteString
<1>4. ~wr => Shows(v, RowsOf(lg \o s))
  BY <1>1, ShowsString DEF ScreenOk
<1>5. lg \o s \in Seq(Byte)
  BY <1>1
<1> HIDE DEF v
<1>6. ScreenOk(v, lg \o s, wr)
  BY <1>1, <1>2, <1>3, <1>4, <1>5 DEF ScreenOk
<1>7. LineOk(v, cc, cp)
  BY <1>2, <1>3 DEF LineOk
<1> QED BY <1>6, <1>7 DEF v

-----------------------------------------------------------------------------
(* The line. *)

(* No byte of s continues a character. *)
Plain(s) == \A i \in 1..Len(s) : s[i] \notin Continuation

(* A set of numbers up to n that is not empty has a least and a greatest element. *)
LEMMA LeastOf ==
  ASSUME NEW T \in SUBSET Nat, T # {}
  PROVE  \E m \in T : \A k \in T : m <= k
<1>1. PICK m \in T : \A k \in T : ~(<<k, m>> \in OpToRel(<, Nat))
  BY NatLessThanWellFounded, WFMin, Zenon
<1>2. ASSUME NEW k \in T PROVE m <= k
  <2>1. k \in Nat /\ m \in Nat /\ <<k, m>> \notin OpToRel(<, Nat)
    BY <1>1, Zenon
  <2> QED BY <2>1 DEF OpToRel
<1> QED BY <1>2

(* A bounded set of numbers that is not empty has a greatest. *)
LEMMA GreatestOf ==
  ASSUME NEW n \in Nat, NEW T \in SUBSET (0..n), T # {}
  PROVE  \E m \in T : \A k \in T : k <= m
<1> DEFINE U == {n - k : k \in T}
<1>1. U \in SUBSET Nat /\ U # {}
  <2>1. \A k \in T : n - k \in Nat /\ n - k \in U
    OBVIOUS
  <2> QED BY <2>1, Zenon
<1>2. PICK u \in U : \A k \in U : u <= k
  BY <1>1, LeastOf, Zenon
<1>3. PICK m \in T : u = n - m
  BY <1>2
<1>4. ASSUME NEW k \in T PROVE k <= m
  <2>1. n - k \in U /\ k \in Int /\ m \in Int
    OBVIOUS
  <2>2. u <= n - k
    BY <1>2, <2>1
  <2> QED BY <1>3, <2>1, <2>2
<1> QED BY <1>4

(* pop(): the last character starts somewhere in the line. *)
LEMMA StartIs ==
  ASSUME EditOk(current_command, cursor_pos), NEW i \in 1..Len(current_command)
  PROVE  /\ CharStart(i) \in 0..(i - 1)
         /\ Plain(current_command) => CharStart(i) = i - 1
<1> DEFINE n == Len(current_command)
           T == {j \in 0..(i - 1) : is_char_boundary(j)}
           IsStart(j) == is_char_boundary(j) /\ \A k \in (j + 1)..(i - 1) : ~is_char_boundary(k)
<1>1. n \in Nat /\ n > 0 /\ i \in 1..n /\ current_command[1] \notin Continuation
  BY DEF EditOk
<1>2. is_char_boundary(0)
  BY <1>1 DEF is_char_boundary
<1> HIDE DEF n
<1>3. i - 1 \in Nat /\ T \in SUBSET (0..(i - 1)) /\ T # {}
  BY <1>1, <1>2
<1>4. PICK m \in T : \A k \in T : k <= m
  <2> HIDE DEF T
  <2> QED BY <1>3, GreatestOf, Zenon
<1>5. m \in 0..(i - 1) /\ IsStart(m)
  <2>1. \A k \in (m + 1)..(i - 1) : k \in 0..(i - 1) /\ ~(k <= m)
    BY <1>1
  <2> QED BY <1>4, <2>1
<1>6. CharStart(i) = CHOOSE j \in 0..(i - 1) : IsStart(j)
  BY DEF CharStart
<1> HIDE DEF IsStart
<1>7. CharStart(i) \in 0..(i - 1) /\ IsStart(CharStart(i))
  BY <1>5, <1>6
<1>8. ASSUME Plain(current_command) PROVE CharStart(i) = i - 1
  <2>1. is_char_boundary(i - 1)
    BY <1>1, <1>8 DEF is_char_boundary, Plain, n
  <2>2. ASSUME CharStart(i) < i - 1 PROVE FALSE
    <3>1. i - 1 \in (CharStart(i) + 1)..(i - 1)
      BY <1>1, <1>7, <2>2
    <3> QED BY <1>7, <2>1, <3>1 DEF IsStart
  <2> QED BY <1>1, <1>7, <2>2
<1> QED BY <1>7, <1>8

(* remove(i): the character ends somewhere in the line. *)
LEMMA EndIs ==
  ASSUME EditOk(current_command, cursor_pos), NEW i \in Nat, i < Len(current_command)
  PROVE  /\ CharEnd(i) \in (i + 1)..Len(current_command) /\ is_char_boundary(CharEnd(i))
         /\ Plain(current_command) => CharEnd(i) = i + 1
<1> DEFINE n == Len(current_command)
           T == {j \in (i + 1)..n : is_char_boundary(j)}
           IsEnd(j) == is_char_boundary(j) /\ \A k \in (i + 1)..(j - 1) : ~is_char_boundary(k)
<1>1. n \in Nat /\ i < n
  BY DEF EditOk
<1>2. is_char_boundary(n)
  BY <1>1 DEF is_char_boundary
<1> HIDE DEF n
<1>3. T \in SUBSET Nat /\ T # {}
  BY <1>1, <1>2
<1>4. PICK m \in T : \A k \in T : m <= k
  <2> HIDE DEF T
  <2> QED BY <1>3, LeastOf
<1>5. m \in (i + 1)..n /\ IsEnd(m)
  <2>1. \A k \in (i + 1)..(m - 1) : k \in (i + 1)..n /\ ~(m <= k)
    BY <1>1
  <2> QED BY <1>4, <2>1
<1>6. CharEnd(i) = CHOOSE j \in (i + 1)..n : IsEnd(j)
  BY DEF CharEnd, n
<1> HIDE DEF IsEnd
<1>7. CharEnd(i) \in (i + 1)..n /\ IsEnd(CharEnd(i))
  BY <1>5, <1>6
<1>8. ASSUME Plain(current_command) PROVE CharEnd(i) = i + 1
  <2>1. is_char_boundary(i + 1)
    BY <1>1, <1>8 DEF is_char_boundary, Plain, n
  <2>2. ASSUME CharEnd(i) > i + 1 PROVE FALSE
    <3>1. i + 1 \in (i + 1)..(CharEnd(i) - 1)
      BY <1>1, <1>7, <2>2
    <3> QED BY <1>7, <2>1, <3>1 DEF IsEnd
  <2> QED BY <1>1, <1>7, <2>2
<1> QED BY <1>7, <1>8 DEF IsEnd, n

(* A part of a sequence, element by element. *)
LEMMA SubSeqIs ==
  ASSUME NEW S, NEW s \in Seq(S), NEW a \in Nat, a >= 1, NEW b \in Nat, a <= b + 1, b <= Len(s)
  PROVE  /\ SubSeq(s, a, b) \in Seq(S) /\ Len(SubSeq(s, a, b)) = b - a + 1
         /\ \A i \in 1..(b - a + 1) : SubSeq(s, a, b)[i] = s[a + i - 1]
OBVIOUS

(* Two sequences, one after the other, element by element. *)
LEMMA ConcatIs ==
  ASSUME NEW S, NEW a \in Seq(S), NEW b \in Seq(S)
  PROVE  /\ a \o b \in Seq(S) /\ Len(a \o b) = Len(a) + Len(b)
         /\ \A i \in 1..Len(a) : (a \o b)[i] = a[i]
         /\ \A i \in 1..Len(b) : (a \o b)[Len(a) + i] = b[i]
OBVIOUS

(* The bytes after a, up to b, are gone. *)
LEMMA CutIs ==
  ASSUME NEW S, current_command \in Seq(S), NEW a \in Nat, NEW b \in Nat, a < b, b <= Len(current_command)
  PROVE  LET s == Cut(a, b)
         IN  /\ s \in Seq(S) /\ Len(s) = Len(current_command) - (b - a)
             /\ \A i \in 1..a : s[i] = current_command[i]
             /\ \A i \in 1..(Len(current_command) - b) : s[a + i] = current_command[b + i]
<1> DEFINE n == Len(current_command)
           x == SubSeq(current_command, 1, a)
           y == SubSeq(current_command, b + 1, n)
<1>1. n \in Nat /\ a <= n /\ 1 <= a + 1 /\ b + 1 >= 1 /\ b + 1 <= n + 1 /\ b + 1 \in Nat /\ 1 \in Nat
  OBVIOUS
<1> HIDE DEF n
<1>2. x \in Seq(S) /\ Len(x) = a /\ \A i \in 1..a : x[i] = current_command[i]
  <2>1. /\ x \in Seq(S) /\ Len(x) = a - 1 + 1
        /\ \A i \in 1..(a - 1 + 1) : x[i] = current_command[1 + i - 1]
    BY <1>1, SubSeqIs DEF n
  <2>2. a - 1 + 1 = a /\ \A i \in 1..a : 1 + i - 1 = i
    OBVIOUS
  <2> HIDE DEF x
  <2> QED BY <2>1, <2>2
<1>3. y \in Seq(S) /\ Len(y) = n - b /\ \A i \in 1..(n - b) : y[i] = current_command[b + i]
  <2>1. /\ y \in Seq(S) /\ Len(y) = n - (b + 1) + 1
        /\ \A i \in 1..(n - (b + 1) + 1) : y[i] = current_command[b + 1 + i - 1]
    BY <1>1, SubSeqIs DEF n
  <2>2. n - (b + 1) + 1 = n - b /\ \A i \in 1..(n - b) : b + 1 + i - 1 = b + i
    BY <1>1
  <2> HIDE DEF y
  <2> QED BY <2>1, <2>2
<1> HIDE DEF x, y
<1>4. /\ x \o y \in Seq(S) /\ Len(x \o y) = Len(x) + Len(y)
      /\ \A i \in 1..Len(x) : (x \o y)[i] = x[i]
      /\ \A i \in 1..Len(y) : (x \o y)[Len(x) + i] = y[i]
  <2>1. x \in Seq(S) /\ y \in Seq(S)
    BY <1>2, <1>3
  <2> QED BY <2>1, ConcatIs
<1>5. Cut(a, b) = x \o y
  BY DEF Cut, x, y, n
<1>6. a + (n - b) = n - (b - a)
  BY <1>1
<1> DEFINE s == x \o y
<1> HIDE DEF s
<1>7. /\ s \in Seq(S) /\ Len(s) = n - (b - a)
      /\ \A i \in 1..a : s[i] = current_command[i]
      /\ \A i \in 1..(n - b) : s[a + i] = current_command[b + i]
  BY <1>2, <1>3, <1>4, <1>6, Zenon DEF s
<1> QED BY <1>5, <1>7, Zenon DEF s, n

(* The bytes c stand after the first p of the line. *)
LEMMA InsertIs ==
  ASSUME NEW S, NEW l \in Seq(S), NEW c \in Seq(S), NEW p \in 0..Len(l)
  PROVE  LET s == SubSeq(l, 1, p) \o c \o SubSeq(l, p + 1, Len(l))
         IN  /\ s \in Seq(S) /\ Len(s) = Len(l) + Len(c)
             /\ \A i \in 1..p : s[i] = l[i]
             /\ \A i \in 1..Len(c) : s[p + i] = c[i]
             /\ \A i \in 1..(Len(l) - p) : s[p + Len(c) + i] = l[p + i]
<1> DEFINE n == Len(l)
           k == Len(c)
           x == SubSeq(l, 1, p)
           y == SubSeq(l, p + 1, n)
           z == x \o c
           s == z \o y
<1>1. /\ n \in Nat /\ k \in Nat /\ p \in Nat /\ p <= n
      /\ 1 <= p + 1 /\ p + 1 >= 1 /\ p + 1 <= n + 1 /\ p + 1 \in Nat /\ 1 \in Nat
  OBVIOUS
<1> HIDE DEF n, k
<1>2. x \in Seq(S) /\ Len(x) = p /\ \A i \in 1..p : x[i] = l[i]
  <2>1. /\ x \in Seq(S) /\ Len(x) = p - 1 + 1
        /\ \A i \in 1..(p - 1 + 1) : x[i] = l[1 + i - 1]
    BY <1>1, SubSeqIs DEF n
  <2>2. p - 1 + 1 = p /\ \A i \in 1..p : 1 + i - 1 = i
    OBVIOUS
  <2> HIDE DEF x
  <2> QED BY <2>1, <2>2
<1>3. y \in Seq(S) /\ Len(y) = n - p /\ \A i \in 1..(n - p) : y[i] = l[p + i]
  <2>1. /\ y \in Seq(S) /\ Len(y) = n - (p + 1) + 1
        /\ \A i \in 1..(n - (p + 1) + 1) : y[i] = l[p + 1 + i - 1]
    BY <1>1, SubSeqIs DEF n
  <2>2. n - (p + 1) + 1 = n - p /\ \A i \in 1..(n - p) : p + 1 + i - 1 = p + i
    BY <1>1
  <2> HIDE DEF y
  <2> QED BY <2>1, <2>2
<1>4. s = SubSeq(l, 1, p) \o c \o SubSeq(l, p + 1, Len(l))
  BY DEF n
<1> HIDE DEF x, y
<1>5. /\ z \in Seq(S) /\ Len(z) = p + k
      /\ \A i \in 1..p : z[i] = x[i]
      /\ \A i \in 1..k : z[p + i] = c[i]
  <2>1. x \in Seq(S)
    BY <1>2
  <2>2. /\ x \o c \in Seq(S) /\ Len(x \o c) = Len(x) + Len(c)
        /\ \A i \in 1..Len(x) : (x \o c)[i] = x[i]
        /\ \A i \in 1..Len(c) : (x \o c)[Len(x) + i] = c[i]
    BY <2>1, ConcatIs
  <2> QED BY <1>2, <2>2 DEF k
<1> HIDE DEF z
<1>6. /\ s \in Seq(S) /\ Len(s) = (p + k) + (n - p)
      /\ \A i \in 1..(p + k) : s[i] = z[i]
      /\ \A i \in 1..(n - p) : s[p + k + i] = y[i]
  <2>1. z \in Seq(S) /\ y \in Seq(S)
    BY <1>3, <1>5
  <2>2. /\ z \o y \in Seq(S) /\ Len(z \o y) = Len(z) + Len(y)
        /\ \A i \in 1..Len(z) : (z \o y)[i] = z[i]
        /\ \A i \in 1..Len(y) : (z \o y)[Len(z) + i] = y[i]
    BY <2>1, ConcatIs
  <2> QED BY <1>3, <1>5, <2>2, SMTT(20)
<1> HIDE DEF s
<1>7. (p + k) + (n - p) = n + k /\ \A i \in 1..p : i \in 1..(p + k)
  BY <1>1
<1>8. \A i \in 1..k : p + i \in 1..(p + k)
  BY <1>1
<1>9. /\ s \in Seq(S) /\ Len(s) = n + k
      /\ \A i \in 1..p : s[i] = l[i]
      /\ \A i \in 1..k : s[p + i] = c[i]
      /\ \A i \in 1..(n - p) : s[p + k + i] = l[p + i]
  BY <1>2, <1>3, <1>5, <1>6, <1>7, <1>8
<1> QED BY <1>4, <1>9, Zenon DEF n, k

-----------------------------------------------------------------------------
(* The inductive invariant: the screen follows the text and the line, and as long as no
   key went astray the cursor is in the line and every character is one byte. *)
EditInv == /\ EditOk(current_command, cursor_pos)
           /\ ScreenOk(writer, log, wrapped) /\ LineOk(writer, current_command, cursor_pos)
           /\ ~astray => cursor_pos <= Len(current_command) /\ Plain(current_command)

(* A screen with another cell. *)
LEMMA PutCell ==
  ASSUME NEW w \in Writers, NEW p \in Rows, NEW q \in Cols, NEW cell \in Cells
  PROVE  LET v == [w EXCEPT !.chars[p][q] = cell]
         IN  /\ v \in Writers
             /\ v.row_position = w.row_position /\ v.column_position = w.column_position
             /\ v.color_code = w.color_code /\ v.cursor = w.cursor
             /\ \A r \in Rows, c \in Cols : v.chars[r][c] =
                  IF r = p /\ c = q THEN cell ELSE w.chars[r][c]
<1> DEFINE cs == [w.chars EXCEPT ![p][q] = cell]
           v == [w EXCEPT !.chars[p][q] = cell]
<1>1. w.chars \in Screens
  BY DEF Writers
<1>2. /\ cs \in Screens
      /\ \A r \in Rows, c \in Cols : cs[r][c] = IF r = p /\ c = q THEN cell ELSE w.chars[r][c]
  BY <1>1 DEF Screens
<1>3. v = [w EXCEPT !.chars = cs]
  BY DEF Writers
<1> HIDE DEF cs, v
<1>4. /\ v \in Writers /\ v.chars = cs
      /\ v.row_position = w.row_position /\ v.column_position = w.column_position
      /\ v.color_code = w.color_code /\ v.cursor = w.cursor
  BY <1>2, <1>3 DEF Writers
<1> QED BY <1>2, <1>4, Zenon DEF v

(* The writer that boots. *)
LEMMA NewWriterIs ==
  /\ NewWriter \in Writers /\ NewWriter.row_position = TEXT_HEIGHT - 1
  /\ NewWriter.color_code = "Magenta" /\ NewWriter.column_position = 0
  /\ \A r \in Rows, c \in Cols : NewWriter.chars[r][c] = ScreenChar(Space, "Magenta")
<1> DEFINE cell == ScreenChar(Space, "Magenta")
           cs == [r \in Rows |-> [c \in Cols |-> cell]]
           k == [low |-> 0, high |-> 0]
<1>1. cell \in Cells
  BY CellIs DEF Colors, Byte, Space
<1> HIDE DEF cell
<1>2. cs \in Screens /\ \A r \in Rows, c \in Cols : cs[r][c] = cell
  BY <1>1 DEF Screens
<1>3. k \in [low : Byte, high : Byte]
  BY DEF Byte
<1>4. NewWriter = [row_position |-> TEXT_HEIGHT - 1, column_position |-> 0,
                   color_code |-> "Magenta", chars |-> cs, cursor |-> k]
  BY DEF NewWriter, cell
<1> HIDE DEF cs, k
<1>5. TEXT_HEIGHT - 1 \in Rows /\ 0 \in 0..BUFFER_WIDTH /\ "Magenta" \in Colors
  BY Sizes DEF Colors
<1> QED BY <1>2, <1>3, <1>4, <1>5 DEF Writers, cell

(* It shows an empty text. *)
LEMMA NewShows == Shows(NewWriter, RowsOf(<<>>))
<1>1. RowsOf(<<>>) = <<<<>>>>
  <2>1. \A s : Len(s) = 0 => RowsOf(s) = <<<<>>>>
    <3> SUFFICES ASSUME NEW s, Len(s) = 0 PROVE RowsOf(s) = <<<<>>>>
      OBVIOUS
    <3>1. Len(s) \in Nat
      OBVIOUS
    <3>2. PICK h : h[0] = <<<<>>>> /\ RowsOf(s) = h[Len(s)]
      BY <3>1, FillSteps, Zenon
    <3>3. h[Len(s)] = h[0]
      OBVIOUS
    <3> QED BY <3>2, <3>3, Zenon
  <2>2. Len(<<>>) = 0
    OBVIOUS
  <2> QED BY <2>1, <2>2
<1> DEFINE e == <<>>
           rows == <<e>>
<1>2. e \in Seq(Byte) /\ Len(e) = 0
  OBVIOUS
<1>3. rows = <<<<>>>>
  OBVIOUS
<1> HIDE DEF e
<1>4. rows \in Texts /\ rows # <<>> /\ Len(rows) = 1 /\ rows[1] = e
  BY <1>2 DEF Texts
<1> HIDE DEF rows
<1>5. ASSUME NEW r \in 0..(TEXT_HEIGHT - 1) PROVE ShowsRow(NewWriter, r, RowIn(rows, r))
  <2>1. r \in Rows /\ r \in Nat /\ TEXT_HEIGHT \in Nat
    BY Sizes
  <2>2. Len(RowIn(rows, r)) = 0
    <3>1. 1 - (TEXT_HEIGHT - 1) + r \in Int /\ 1 - (TEXT_HEIGHT - 1) + r <= 1
      BY <2>1
    <3>2. RowIn(rows, r) = e
      BY <1>4, <3>1 DEF RowIn, e
    <3> QED BY <1>2, <3>2
  <2>3. \A c \in Cols : ~(c < Len(RowIn(rows, r)))
    BY <2>2, Sizes
  <2>4. ScreenChar(Space, "Magenta").ascii_character = Space
    BY DEF ScreenChar
  <2>5. \A c \in Cols : NewWriter.chars[r][c] = ScreenChar(Space, "Magenta")
    BY <2>1, NewWriterIs
  <2> QED BY <2>3, <2>4, <2>5 DEF ShowsRow
<1>6. Shows(NewWriter, rows)
  BY <1>2, <1>4, <1>5, NewWriterIs DEF Shows
<1> QED BY <1>1, <1>3, <1>6

(* Shell::new establishes the invariant. *)
LEMMA EditInitInv == EInit => EditInv
<1> SUFFICES ASSUME EInit PROVE EditInv
  OBVIOUS
<1> DEFINE b == write_string(NewWriter, BootText)
           cell == ScreenChar(Prompt, "Blue")
           k == [b EXCEPT !.chars[SHELL_ROW][0] = cell]
           v == set_cursor_x(k, 0)
<1>1. BootText \in Seq(Byte) /\ <<>> \in Seq(Byte) /\ <<>> \o BootText = BootText
  BY BufferAssumption DEF Byte
<1>2. SHELL_ROW \in Rows /\ 0 \in Cols /\ TEXT_HEIGHT - 1 # SHELL_ROW
  BY Sizes
<1>3. /\ b \in Writers /\ b.row_position = TEXT_HEIGHT - 1 /\ b.color_code = "Magenta"
      /\ \A c \in Cols : b.chars[SHELL_ROW][c] = ScreenChar(Space, "Magenta")
  BY <1>1, <1>2, NewWriterIs, WriteString
<1>4. Shows(b, RowsOf(BootText))
  <2>1. Shows(b, RowsOf(<<>> \o BootText))
    BY <1>1, NewShows, ShowsString, Zenon
  <2> QED BY <1>1, <2>1
<1> HIDE DEF b
<1>5. cell \in Cells
  BY CellIs DEF Colors, Byte, Prompt
<1> HIDE DEF cell
<1>6. /\ k \in Writers
      /\ k.row_position = b.row_position /\ k.column_position = b.column_position
      /\ k.color_code = b.color_code
      /\ \A r \in Rows, c \in Cols : k.chars[r][c] =
           IF r = SHELL_ROW /\ c = 0 THEN cell ELSE b.chars[r][c]
  BY <1>2, <1>3, <1>5, PutCell
<1> HIDE DEF k
<1>7. 0 \in Nat /\ TEXT_HEIGHT * BUFFER_WIDTH + 0 + 2 < 65536
  <2> DEFINE base == TEXT_HEIGHT * BUFFER_WIDTH
  <2>1. base \in Nat /\ CursorLimit \in Nat /\ base + CursorLimit + 2 < 65536
    BY Sizes, LineAssumption
  <2> HIDE DEF base
  <2>2. base + 0 + 2 < 65536
    BY <2>1
  <2> QED BY <2>2 DEF base
<1>8. /\ v \in Writers /\ v.row_position = k.row_position /\ v.column_position = k.column_position
      /\ v.color_code = k.color_code /\ v.chars = k.chars
      /\ v.cursor.high * 256 + v.cursor.low = TEXT_HEIGHT * BUFFER_WIDTH + 2 + 0
  BY <1>6, <1>7, SetCursor
<1> HIDE DEF v
<1>9. Shows(v, RowsOf(BootText))
  <2>1. v.row_position = b.row_position /\ v.column_position = b.column_position
    BY <1>6, <1>8
  <2>2. \A r \in Rows, c \in Cols : r # SHELL_ROW => v.chars[r][c] = b.chars[r][c]
    BY <1>6, <1>8
  <2> QED BY <1>4, <1>8, <2>1, <2>2, ShowsSame
<1>10. v.chars[SHELL_ROW][0] = cell
  BY <1>2, <1>6, <1>8
<1>11. ScreenOk(v, BootText, FALSE)
  BY <1>1, <1>3, <1>6, <1>8, <1>9, <1>10 DEF ScreenOk, cell
<1>12. writer = v /\ log = BootText /\ wrapped = FALSE
  BY DEF EInit, Init, init_shell, v, k, b, cell
<1>13. current_command = <<>> /\ cursor_pos = 0 /\ astray = FALSE
  BY DEF EInit
<1>14. /\ current_command \in Seq(Byte) /\ Len(current_command) = 0 /\ cursor_pos = 0
       /\ 1..Len(current_command) = {}
  BY <1>13
<1>15. EditOk(current_command, cursor_pos)
  BY <1>7, <1>13, <1>14 DEF EditOk
<1>16. LineOk(writer, current_command, cursor_pos)
  <2>1. \A c \in 2..(BUFFER_WIDTH - 1) : c \in Cols /\ c # 0 /\ ~(c - 1 <= Len(current_command))
    BY <1>14, Sizes
  <2>2. \A c \in 2..(BUFFER_WIDTH - 1) : v.chars[SHELL_ROW][c] = ScreenChar(Space, "Magenta")
    BY <1>2, <1>3, <1>6, <1>8, <2>1
  <2> QED BY <1>8, <1>12, <1>14, <2>1, <2>2 DEF LineOk
<1>17. cursor_pos <= Len(current_command) /\ Plain(current_command)
  BY <1>14 DEF Plain
<1>18. ScreenOk(writer, log, wrapped)
  BY <1>11, <1>12, Zenon
<1> QED BY <1>15, <1>16, <1>17, <1>18 DEF EditInv

(* Erasing leaves whole characters. *)
LEMMA CutOk ==
  ASSUME EditOk(current_command, cursor_pos), cursor_pos # 0,
         NEW a \in Nat, NEW b \in Nat, a < b, b <= Len(current_command), is_char_boundary(b)
  PROVE  /\ EditOk(Cut(a, b), cursor_pos - 1)
         /\ Len(Cut(a, b)) = Len(current_command) - (b - a)
         /\ Plain(current_command) => Plain(Cut(a, b))
<1> DEFINE n == Len(current_command)
           s == Cut(a, b)
<1>1. /\ current_command \in Seq(Byte) /\ n \in Nat /\ \A i \in 1..n : current_command[i] # NL
      /\ current_command # <<>> => current_command[1] \notin Continuation
      /\ cursor_pos \in Nat
  BY DEF EditOk
<1>2. /\ s \in Seq(Byte) /\ Len(s) = n - (b - a)
      /\ \A i \in 1..a : s[i] = current_command[i]
      /\ \A i \in 1..(n - b) : s[a + i] = current_command[b + i]
  BY <1>1, CutIs, Zenon
<1> HIDE DEF s
<1>3. ASSUME NEW i \in 1..Len(s) PROVE \E j \in 1..n : s[i] = current_command[j]
  <2>1. CASE i <= a
    <3>1. i \in 1..a /\ i \in 1..n
      BY <1>1, <1>2, <2>1
    <3> QED BY <1>2, <3>1
  <2>2. CASE i > a
    <3> DEFINE k == i - a
    <3>1. k \in 1..(n - b) /\ a + k = i /\ b + k \in 1..n
      BY <1>1, <1>2, <2>2
    <3> HIDE DEF k
    <3>2. s[a + k] = current_command[b + k]
      BY <1>2, <3>1
    <3> QED BY <3>1, <3>2
  <2> QED BY <1>2, <2>1, <2>2
<1>4. \A i \in 1..Len(s) : s[i] # NL
  BY <1>1, <1>3
<1>5. Plain(current_command) => Plain(s)
  BY <1>3 DEF Plain
<1>6. s # <<>> => s[1] \notin Continuation
  <2> SUFFICES ASSUME s # <<>> PROVE s[1] \notin Continuation
    OBVIOUS
  <2>1. Len(s) > 0 /\ Len(s) \in Nat
    BY <1>2
  <2>2. CASE a >= 1
    <3>1. 1 \in 1..a
      BY <2>2
    <3>2. current_command # <<>>
      BY <1>1, <2>2
    <3> QED BY <1>1, <1>2, <3>1, <3>2
  <2>3. CASE a = 0
    <3>1. 1 \in 1..(n - b) /\ b < n /\ a + 1 = 1
      BY <1>1, <1>2, <2>1, <2>3
    <3>2. s[a + 1] = current_command[b + 1]
      BY <1>2, <3>1
    <3>3. current_command[b + 1] \notin Continuation
      BY <3>1 DEF is_char_boundary
    <3> QED BY <3>1, <3>2, <3>3
  <2> QED BY <2>2, <2>3
<1>7. cursor_pos - 1 \in Nat /\ TEXT_HEIGHT * BUFFER_WIDTH + (cursor_pos - 1) + 2 < 65536
  <2> DEFINE base == TEXT_HEIGHT * BUFFER_WIDTH
  <2>1. base \in Nat /\ base + cursor_pos + 2 < 65536
    BY Sizes DEF EditOk
  <2> HIDE DEF base
  <2>2. cursor_pos - 1 \in Nat /\ base + (cursor_pos - 1) + 2 < 65536
    BY <1>1, <2>1
  <2> QED BY <2>2 DEF base
<1>8. EditOk(s, cursor_pos - 1)
  BY <1>2, <1>4, <1>6, <1>7 DEF EditOk
<1> QED BY <1>2, <1>5, <1>8 DEF s

(* So does typing. *)
LEMMA InsertOk ==
  ASSUME NEW l, EditOk(l, cursor_pos), NEW c \in Characters, NEW p \in 0..Len(l),
         Len(l) + Len(c) <= MaxLine
  PROVE  LET s == SubSeq(l, 1, p) \o c \o SubSeq(l, p + 1, Len(l))
         IN  /\ EditOk(s, p + 1) /\ Len(s) = Len(l) + Len(c) /\ Len(c) >= 1
             /\ Plain(l) /\ Len(c) = 1 => Plain(s)
<1> DEFINE n == Len(l)
           k == Len(c)
           s == SubSeq(l, 1, p) \o c \o SubSeq(l, p + 1, Len(l))
<1>1. /\ l \in Seq(Byte) /\ n \in Nat /\ \A i \in 1..n : l[i] # NL
      /\ l # <<>> => l[1] \notin Continuation
  BY DEF EditOk
<1>2. /\ c \in Seq(Byte) /\ k \in Nat /\ k >= 1 /\ \A i \in 1..k : c[i] # NL
      /\ c[1] \notin Continuation
  <2>1. c \in Seq((0..255) \ {NL}) /\ c # <<>> /\ c[1] \notin Continuation
    BY LineAssumption
  <2>2. \A i \in 1..k : c[i] \in Byte /\ c[i] # NL
    BY <2>1 DEF Byte
  <2>3. k \in Nat /\ k >= 1
    BY <2>1
  <2>4. c \in Seq(Byte)
    BY <2>1, <2>2
  <2> QED BY <2>1, <2>2, <2>3, <2>4
<1>3. /\ s \in Seq(Byte) /\ Len(s) = n + k
      /\ \A i \in 1..p : s[i] = l[i]
      /\ \A i \in 1..k : s[p + i] = c[i]
      /\ \A i \in 1..(n - p) : s[p + k + i] = l[p + i]
  <2>1. l \in Seq(Byte) /\ c \in Seq(Byte) /\ p \in 0..Len(l)
    BY <1>1, <1>2
  <2> HIDE DEF n, k
  <2>2. /\ s \in Seq(Byte) /\ Len(s) = Len(l) + Len(c)
        /\ \A i \in 1..p : s[i] = l[i]
        /\ \A i \in 1..Len(c) : s[p + i] = c[i]
        /\ \A i \in 1..(Len(l) - p) : s[p + Len(c) + i] = l[p + i]
    BY <2>1, InsertIs, ZenonT(40)
  <2> QED BY <2>2, Zenon DEF n, k
<1> HIDE DEF s, n, k
<1>4. ASSUME NEW i \in 1..Len(s)
      PROVE  (\E j \in 1..n : s[i] = l[j]) \/ (\E j \in 1..k : s[i] = c[j])
  <2>0. p \in 0..n
    BY DEF n
  <2>1. CASE i <= p
    <3>1. i \in 1..p /\ i \in 1..n
      BY <1>1, <1>3, <2>0, <2>1
    <3> QED BY <1>3, <3>1
  <2>2. CASE i > p /\ i <= p + k
    <3> DEFINE j == i - p
    <3>1. j \in 1..k /\ p + j = i
      BY <1>2, <2>0, <2>2
    <3> HIDE DEF j
    <3>2. s[p + j] = c[j]
      BY <1>3, <3>1
    <3> QED BY <3>1, <3>2
  <2>3. CASE i > p + k
    <3> DEFINE j == i - (p + k)
    <3>1. j \in 1..(n - p) /\ p + k + j = i /\ p + j \in 1..n
      BY <1>1, <1>2, <1>3, <2>0, <2>3
    <3> HIDE DEF j
    <3>2. s[p + k + j] = l[p + j]
      BY <1>3, <3>1
    <3> QED BY <3>1, <3>2
  <2> QED BY <1>1, <1>2, <1>3, <2>0, <2>1, <2>2, <2>3
<1>5. \A i \in 1..Len(s) : s[i] # NL
  BY <1>1, <1>2, <1>4
<1>6. Plain(l) /\ k = 1 => Plain(s)
  <2> SUFFICES ASSUME Plain(l), k = 1, NEW i \in 1..Len(s) PROVE s[i] \notin Continuation
    BY DEF Plain
  <2>1. \A j \in 1..k : c[j] \notin Continuation
    BY <1>2
  <2>2. \A j \in 1..n : l[j] \notin Continuation
    BY DEF Plain, n
  <2> QED BY <1>4, <2>1, <2>2
<1>7. s[1] \notin Continuation
  <2>0. p \in 0..n
    BY DEF n
  <2>1. CASE p >= 1
    <3>1. 1 \in 1..p /\ l # <<>>
      BY <1>1, <2>0, <2>1 DEF n
    <3> QED BY <1>1, <1>3, <3>1
  <2>2. CASE p = 0
    <3>1. 1 \in 1..k /\ p + 1 = 1
      BY <1>2, <2>2
    <3> QED BY <1>2, <1>3, <3>1
  <2> QED BY <2>0, <2>1, <2>2
<1>8. p + 1 \in Nat /\ TEXT_HEIGHT * BUFFER_WIDTH + (p + 1) + 2 < 65536
  <2> DEFINE base == TEXT_HEIGHT * BUFFER_WIDTH
  <2>1. base \in Nat /\ MaxLine \in Nat /\ base + MaxLine + 2 < 65536
    BY Sizes, LineAssumption
  <2> HIDE DEF base
  <2>2. p \in 0..n /\ n + k <= MaxLine
    BY DEF n, k
  <2>3. p + 1 \in Nat /\ base + (p + 1) + 2 < 65536
    BY <1>1, <1>2, <2>1, <2>2
  <2> QED BY <2>3 DEF base
<1>9. EditOk(s, p + 1)
  BY <1>3, <1>5, <1>7, <1>8 DEF EditOk
<1> QED BY <1>2, <1>3, <1>6, <1>9, Zenon DEF s, n, k

(* Redrawing the line keeps the invariant. *)
LEMMA RedrawKeeps ==
  ASSUME EditInv, redraw, EditOk(current_command', cursor_pos'),
         ~astray' => cursor_pos' <= Len(current_command') /\ Plain(current_command')
  PROVE  EditInv'
<1>1. ScreenOk(writer, log, wrapped)
  BY DEF EditInv
<1>2. /\ writer' = write_shell_line(set_cursor_x(writer, cursor_pos'), current_command')
      /\ wrapped' = (wrapped \/ Len(current_command') > BUFFER_WIDTH - 2) /\ log' = log
  BY DEF redraw
<1>3. ScreenOk(writer', log', wrapped') /\ LineOk(writer', current_command', cursor_pos')
  BY <1>1, <1>2, Redrawn
<1> QED BY <1>3 DEF EditInv

(* Backspace keeps it, or ends in a panic. *)
LEMMA BackspaceKeeps == EditInv /\ Backspace => EditInv'
<1> SUFFICES ASSUME EditInv, Backspace PROVE EditInv'
  OBVIOUS
<1> DEFINE n == Len(current_command)
<1>1. /\ EditOk(current_command, cursor_pos) /\ n \in Nat /\ cursor_pos \in Nat
      /\ ~astray => cursor_pos <= n /\ Plain(current_command)
  BY DEF EditInv, EditOk
<1>2. CASE Panic
  BY <1>2 DEF Panic, vgaVars, EditInv, Backspace
<1>3. CASE /\ cursor_pos # 0
           /\ cursor_at_end \/ (is_char_boundary(cursor_pos - 1) /\ cursor_pos <= n)
           /\ current_command' = IF cursor_at_end THEN Cut(CharStart(cursor_pos), cursor_pos)
                                 ELSE Cut(cursor_pos - 1, CharEnd(cursor_pos - 1))
           /\ cursor_pos' = cursor_pos - 1 /\ redraw
  <2>1. PICK a \in Nat, b \in Nat :
          /\ a < b /\ b <= n /\ is_char_boundary(b) /\ current_command' = Cut(a, b)
          /\ ~astray => b = a + 1
    <3>1. CASE cursor_at_end
      <4>1. cursor_pos \in 1..n /\ cursor_pos = n
        BY <1>1, <1>3, <3>1 DEF cursor_at_end
      <4>2. /\ CharStart(cursor_pos) \in 0..(cursor_pos - 1)
            /\ Plain(current_command) => CharStart(cursor_pos) = cursor_pos - 1
        BY <1>1, <4>1, StartIs
      <4>3. is_char_boundary(cursor_pos)
        BY <1>1, <4>1 DEF is_char_boundary
      <4>4. current_command' = Cut(CharStart(cursor_pos), cursor_pos)
        BY <1>3, <3>1
      <4>5. /\ CharStart(cursor_pos) \in Nat /\ CharStart(cursor_pos) < cursor_pos /\ cursor_pos <= n
            /\ ~astray => cursor_pos = CharStart(cursor_pos) + 1
        BY <1>1, <4>1, <4>2
      <4> QED BY <1>1, <4>3, <4>4, <4>5
    <3>2. CASE ~cursor_at_end
      <4>1. cursor_pos - 1 \in Nat /\ cursor_pos - 1 < n
        BY <1>1, <1>3, <3>2
      <4> DEFINE e == CharEnd(cursor_pos - 1)
      <4>2. /\ e \in ((cursor_pos - 1) + 1)..n /\ is_char_boundary(e)
            /\ Plain(current_command) => e = (cursor_pos - 1) + 1
        BY <1>1, <4>1, EndIs
      <4>3. current_command' = Cut(cursor_pos - 1, e)
        BY <1>3, <3>2
      <4> HIDE DEF e
      <4>4. e \in Nat /\ cursor_pos - 1 < e /\ e <= n
        BY <1>1, <4>1, <4>2
      <4> QED BY <1>1, <4>1, <4>2, <4>3, <4>4
    <3> QED BY <3>1, <3>2
  <2>2. /\ EditOk(Cut(a, b), cursor_pos - 1) /\ Len(Cut(a, b)) = n - (b - a)
        /\ Plain(current_command) => Plain(Cut(a, b))
    BY <1>1, <1>3, <2>1, CutOk
  <2>3. EditOk(current_command', cursor_pos')
    BY <1>3, <2>1, <2>2
  <2>4. ~astray' => cursor_pos' <= Len(current_command') /\ Plain(current_command')
    <3>1. astray' = astray
      BY DEF Backspace
    <3> SUFFICES ASSUME ~astray
                 PROVE  cursor_pos' <= Len(current_command') /\ Plain(current_command')
      BY <3>1
    <3>2. Plain(current_command')
      BY <1>1, <2>1, <2>2
    <3>3. Len(current_command') = n - 1
      BY <1>1, <2>1, <2>2
    <3>4. cursor_pos' <= n - 1
      BY <1>1, <1>3
    <3> QED BY <3>2, <3>3, <3>4
  <2> QED BY <1>3, <2>3, <2>4, RedrawKeeps
<1>4. \/ Panic
      \/ /\ cursor_pos # 0
         /\ cursor_at_end \/ (is_char_boundary(cursor_pos - 1) /\ cursor_pos <= n)
         /\ current_command' = IF cursor_at_end THEN Cut(CharStart(cursor_pos), cursor_pos)
                               ELSE Cut(cursor_pos - 1, CharEnd(cursor_pos - 1))
         /\ cursor_pos' = cursor_pos - 1 /\ redraw
  <2>1. cursor_pos > n <=> ~(cursor_pos <= n)
    BY <1>1
  <2> QED BY <2>1, Zenon DEF Backspace
<1> QED BY <1>2, <1>3, <1>4

(* So does a character. *)
LEMMA CharacterKeeps ==
  ASSUME EditInv, NEW c \in Characters, Character(c)
  PROVE  EditInv'
<1> DEFINE n == Len(current_command)
           s == SubSeq(current_command, 1, cursor_pos) \o c
                  \o SubSeq(current_command, cursor_pos + 1, Len(current_command))
<1>1. /\ EditOk(current_command, cursor_pos) /\ n \in Nat /\ cursor_pos \in Nat
      /\ ~astray => cursor_pos <= n /\ Plain(current_command)
  BY DEF EditInv, EditOk
<1>2. CASE ~is_char_boundary(cursor_pos)
  <2>1. ASSUME ~astray PROVE FALSE
    <3>1. is_char_boundary(cursor_pos)
      BY <1>1, <2>1 DEF is_char_boundary, Plain
    <3> QED BY <1>2, <3>1
  <2>2. astray
    BY <2>1
  <2>3. Panic /\ astray' = (astray \/ Len(c) > 1)
    BY <1>2 DEF Character
  <2>4. astray'
    BY <2>2, <2>3, Zenon
  <2> QED BY <2>3, <2>4 DEF Panic, vgaVars, EditInv
<1>3. CASE is_char_boundary(cursor_pos)
  <2>1. /\ current_command' = s /\ cursor_pos' = cursor_pos + 1 /\ redraw
        /\ astray' = (astray \/ Len(c) > 1) /\ n + Len(c) <= MaxLine
    BY <1>3, Zenon DEF Character
  <2>2. cursor_pos \in 0..n
    BY <1>3 DEF is_char_boundary
  <2>3. /\ EditOk(s, cursor_pos + 1) /\ Len(s) = n + Len(c) /\ Len(c) >= 1
        /\ Plain(current_command) /\ Len(c) = 1 => Plain(s)
    BY <1>1, <2>1, <2>2, InsertOk, Zenon
  <2> HIDE DEF s
  <2>4. EditOk(current_command', cursor_pos')
    BY <2>1, <2>3
  <2>5. Len(c) \in Nat
    BY LineAssumption
  <2>6. ~astray' => cursor_pos' <= Len(current_command') /\ Plain(current_command')
    <3> SUFFICES ASSUME ~astray'
                 PROVE  cursor_pos' <= Len(current_command') /\ Plain(current_command')
      OBVIOUS
    <3>1. ~astray /\ ~(Len(c) > 1)
      BY <2>1, Zenon
    <3>2. Len(c) = 1
      <4>1. Len(c) >= 1
        BY <2>3
      <4>2. \A k \in Nat : k >= 1 /\ ~(k > 1) => k = 1
        OBVIOUS
      <4> QED BY <2>5, <3>1, <4>1, <4>2, Zenon
    <3> QED BY <1>1, <2>1, <2>2, <2>3, <3>1, <3>2
  <2> QED BY <2>1, <2>4, <2>6, RedrawKeeps
<1> QED BY <1>2, <1>3

(* So do the arrows and the keys without a meaning. *)
LEMMA ArrowKeeps == EditInv /\ (ArrowLeft \/ ArrowRight \/ RawKey) => EditInv'
<1> SUFFICES ASSUME EditInv, ArrowLeft \/ ArrowRight \/ RawKey PROVE EditInv'
  OBVIOUS
<1> DEFINE n == Len(current_command)
           base == TEXT_HEIGHT * BUFFER_WIDTH
<1>1. /\ EditOk(current_command, cursor_pos) /\ n \in Nat /\ cursor_pos \in Nat
      /\ base \in Nat /\ base + cursor_pos + 2 < 65536
      /\ ~astray => cursor_pos <= n /\ Plain(current_command)
  BY Sizes DEF EditInv, EditOk
<1>2. CursorLimit \in Nat /\ base + CursorLimit + 2 < 65536
  BY LineAssumption
<1>3. current_command' = current_command /\ redraw
  BY DEF ArrowLeft, ArrowRight, RawKey
<1> HIDE DEF base
<1>4. cursor_pos' \in Nat /\ base + cursor_pos' + 2 < 65536
  <2>1. \/ cursor_pos' = cursor_pos \/ cursor_pos' = 0 \/ cursor_pos' = CursorLimit
        \/ (cursor_pos # 0 /\ cursor_pos' = cursor_pos - 1)
        \/ (cursor_pos + 1 < CursorLimit /\ cursor_pos' = cursor_pos + 1)
    BY DEF ArrowLeft, ArrowRight, RawKey
  <2> QED BY <1>1, <1>2, <2>1
<1>5. EditOk(current_command', cursor_pos')
  BY <1>1, <1>3, <1>4 DEF EditOk, base
<1>6. ~astray' => cursor_pos' <= n
  <2>1. CASE ArrowLeft \/ RawKey
    BY <1>1, <2>1 DEF ArrowLeft, RawKey
  <2>2. CASE ArrowRight
    <3>1. /\ astray' = (astray \/ cursor_pos >= n \/ cursor_pos >= CursorLimit)
          /\ cursor_pos' = IF cursor_pos + 1 < CursorLimit THEN cursor_pos + 1 ELSE CursorLimit
      BY <2>2 DEF ArrowRight
    <3> SUFFICES ASSUME ~astray' PROVE cursor_pos' <= n
      OBVIOUS
    <3>2. ~(cursor_pos >= n) /\ ~(cursor_pos >= CursorLimit)
      BY <3>1, Zenon
    <3> QED BY <1>1, <1>2, <3>1, <3>2
  <2> QED BY <2>1, <2>2
<1>7. ~astray' => Plain(current_command)
  <2>1. ~astray' => ~astray
    BY Zenon DEF ArrowLeft, ArrowRight, RawKey
  <2> QED BY <1>1, <2>1
<1>8. ~astray' => cursor_pos' <= Len(current_command') /\ Plain(current_command')
  BY <1>3, <1>6, <1>7
<1> QED BY <1>3, <1>5, <1>8, RedrawKeeps

(* So does Enter. *)
LEMMA EnterKeeps == EditInv /\ Enter => EditInv'
<1> SUFFICES ASSUME EditInv, Enter PROVE EditInv'
  OBVIOUS
<1>1. CASE UNCHANGED <<current_command, cursor_pos, astray, vgaVars>>
  BY <1>1 DEF vgaVars, EditInv
<1>2. CASE /\ current_command' = <<>> /\ cursor_pos' = 0 /\ astray' = FALSE
           /\ writer' = write_shell_line(
                set_cursor_x(reset_color(set_color(writer, "Yellow")), 0), <<>>)
           /\ UNCHANGED <<log, wrapped>>
  <2>1. ScreenOk(writer, log, wrapped) /\ writer \in Writers /\ writer.color_code = "Magenta"
    BY DEF EditInv, ScreenOk
  <2>2. reset_color(set_color(writer, "Yellow")) = writer
    BY <2>1, Zenon DEF reset_color, set_color, Writers
  <2> DEFINE e == current_command'
  <2>3. e \in Seq(Byte) /\ Len(e) = 0 /\ 1..Len(e) = {} /\ e = <<>>
    BY <1>2
  <2>4. EditOk(e, 0)
    <3> DEFINE base == TEXT_HEIGHT * BUFFER_WIDTH
    <3>1. base \in Nat /\ CursorLimit \in Nat /\ base + CursorLimit + 2 < 65536
      BY Sizes, LineAssumption
    <3> HIDE DEF base
    <3>2. base + 0 + 2 < 65536
      BY <3>1
    <3> HIDE DEF e
    <3> QED BY <2>3, <3>2 DEF EditOk, base
  <2>5. writer' = write_shell_line(set_cursor_x(writer, 0), e)
    BY <1>2, <2>2
  <2> HIDE DEF e
  <2>6. ScreenOk(writer', log, wrapped \/ Len(e) > BUFFER_WIDTH - 2) /\ LineOk(writer', e, 0)
    BY <2>1, <2>4, <2>5, Redrawn
  <2>7. ~(Len(e) > BUFFER_WIDTH - 2)
    BY <2>3, Sizes
  <2>8. ScreenOk(writer', log, wrapped)
    BY <2>6, <2>7 DEF ScreenOk
  <2>9. Plain(e) /\ 0 <= Len(e)
    BY <2>3 DEF Plain
  <2>10. cursor_pos' = 0 /\ log' = log /\ wrapped' = wrapped
    BY <1>2
  <2> QED BY <2>4, <2>6, <2>8, <2>9, <2>10 DEF EditInv, e
<1> QED BY <1>1, <1>2, Zenon DEF Enter

(* Every step preserves it. *)
LEMMA EditStepKeeps == EditInv /\ [ENext]_editVars => EditInv'
<1> SUFFICES ASSUME EditInv, [ENext]_editVars PROVE EditInv'
  OBVIOUS
<1>1. ASSUME NEW s \in Strings, OtherText(s) PROVE EditInv'
  <2>1. s \in Seq(Byte)
    BY BufferAssumption DEF Byte
  <2>2. /\ writer' = write_string(writer, s) /\ log' = log \o s /\ wrapped' = wrapped
        /\ current_command' = current_command /\ cursor_pos' = cursor_pos /\ astray' = astray
    BY <1>1 DEF OtherText, WriteText
  <2>3. ScreenOk(writer, log, wrapped) /\ LineOk(writer, current_command, cursor_pos)
    BY DEF EditInv
  <2>4. ScreenOk(writer', log', wrapped') /\ LineOk(writer', current_command', cursor_pos')
    BY <2>1, <2>2, <2>3, TextWritten
  <2> QED BY <2>2, <2>4 DEF EditInv
<1>2. ASSUME UNCHANGED editVars PROVE EditInv'
  BY <1>2 DEF editVars, vgaVars, EditInv
<1>3. HltLoop => UNCHANGED editVars
  BY DEF HltLoop
<1> QED BY <1>1, <1>2, <1>3, BackspaceKeeps, CharacterKeeps, ArrowKeeps, EnterKeeps DEF ENext

(* It holds throughout. *)
LEMMA EditInvariant == ESpec => []EditInv
BY EditInitInv, EditStepKeeps, PTL DEF ESpec

(* Whatever is typed and printed, a line that fits its row is on the screen as it is in
   memory, with the cursor where the next key acts (Shell::redraw and
   Writer::write_shell_line). *)
THEOREM LinesAreShown == ESpec => []ShowsLine
<1>1. EditInv => ShowsLine
  BY DEF EditInv, ScreenOk, LineOk, ShowsLine
<1> QED BY <1>1, EditInvariant, PTL

(* The text rows show the end of all text that was written, on a screen of any size, and
   the shell's line never moves the writer (Writer::write_byte, new_line and
   write_shell_line). *)
THEOREM TextIsShown == ESpec => []ScreenShowsTail
<1>1. EditInv => ScreenShowsTail
  <2> SUFFICES ASSUME EditInv PROVE ScreenShowsTail
    OBVIOUS
  <2>1. /\ writer \in Writers /\ writer.row_position = TEXT_HEIGHT - 1
        /\ ~wrapped => Shows(writer, RowsOf(log))
    BY DEF EditInv, ScreenOk
  <2>2. writer.column_position \in 0..BUFFER_WIDTH
    BY <2>1 DEF Writers
  <2>3. ASSUME ~wrapped, NEW r \in 0..(TEXT_HEIGHT - 1), NEW c \in Cols
        PROVE  writer.chars[r][c].ascii_character =
                 IF c < Len(RowAt(r)) THEN RowAt(r)[c + 1] ELSE Space
    <3>1. ShowsRow(writer, r, RowIn(RowsOf(log), r))
      BY <2>1, <2>3 DEF Shows
    <3>2. RowAt(r) = RowIn(RowsOf(log), r)
      BY DEF RowAt, RowIn, LogRows
    <3> QED BY <3>1, <3>2 DEF ShowsRow
  <2> QED BY <2>1, <2>2, <2>3 DEF ScreenShowsTail
<1> QED BY <1>1, EditInvariant, PTL

-----------------------------------------------------------------------------
(* The two sides of the cursor. *)

(* Sequences that agree everywhere are equal. *)
LEMMA SameSeq ==
  ASSUME NEW S, NEW a \in Seq(S), NEW b \in Seq(S), Len(a) = Len(b),
         \A i \in 1..Len(a) : a[i] = b[i]
  PROVE  a = b
OBVIOUS

(* Of the line l, what is before the cursor at p, and what is after it. *)
Before(l, p) == SubSeq(l, 1, p)
After(l, p) == SubSeq(l, p + 1, Len(l))

(* The two sides of the cursor, element by element. *)
LEMMA SidesAre ==
  ASSUME NEW S, NEW l \in Seq(S), NEW p \in 0..Len(l)
  PROVE  /\ Before(l, p) \in Seq(S) /\ Len(Before(l, p)) = p
         /\ \A i \in 1..p : Before(l, p)[i] = l[i]
         /\ After(l, p) \in Seq(S) /\ Len(After(l, p)) = Len(l) - p
         /\ \A i \in 1..(Len(l) - p) : After(l, p)[i] = l[p + i]
<1> DEFINE n == Len(l)
           x == SubSeq(l, 1, p)
           y == SubSeq(l, p + 1, n)
<1>1. /\ n \in Nat /\ p \in Nat /\ p <= n
      /\ 1 <= p + 1 /\ p + 1 >= 1 /\ p + 1 <= n + 1 /\ p + 1 \in Nat /\ 1 \in Nat
  OBVIOUS
<1> HIDE DEF n
<1>2. x \in Seq(S) /\ Len(x) = p /\ \A i \in 1..p : x[i] = l[i]
  <2>1. /\ x \in Seq(S) /\ Len(x) = p - 1 + 1
        /\ \A i \in 1..(p - 1 + 1) : x[i] = l[1 + i - 1]
    BY <1>1, SubSeqIs DEF n
  <2>2. p - 1 + 1 = p /\ \A i \in 1..p : 1 + i - 1 = i
    OBVIOUS
  <2> HIDE DEF x
  <2> QED BY <2>1, <2>2
<1>3. y \in Seq(S) /\ Len(y) = n - p /\ \A i \in 1..(n - p) : y[i] = l[p + i]
  <2>1. /\ y \in Seq(S) /\ Len(y) = n - (p + 1) + 1
        /\ \A i \in 1..(n - (p + 1) + 1) : y[i] = l[p + 1 + i - 1]
    BY <1>1, SubSeqIs DEF n
  <2>2. n - (p + 1) + 1 = n - p /\ \A i \in 1..(n - p) : p + 1 + i - 1 = p + i
    BY <1>1
  <2> HIDE DEF y
  <2> QED BY <2>1, <2>2
<1> QED BY <1>2, <1>3 DEF Before, After, n

IsSides(S, l, p, a, b) ==
  /\ a \in Seq(S) /\ Len(a) = p /\ \A i \in 1..p : a[i] = l[i]
  /\ b \in Seq(S) /\ Len(b) = Len(l) - p /\ \A i \in 1..(Len(l) - p) : b[i] = l[p + i]

(* The same as one predicate, which the provers need not look into. *)
LEMMA SidesOf ==
  ASSUME NEW S, NEW l \in Seq(S), NEW p \in 0..Len(l)
  PROVE  IsSides(S, l, p, Before(l, p), After(l, p))
BY SidesAre, Zenon DEF IsSides

(* A byte typed at p. *)
LEMMA TypeSides ==
  ASSUME NEW S, NEW l \in Seq(S), NEW p \in 0..Len(l), NEW x \in S, NEW s \in Seq(S),
         Len(s) = Len(l) + 1, \A i \in 1..p : s[i] = l[i], s[p + 1] = x,
         \A i \in 1..(Len(l) - p) : s[p + 1 + i] = l[p + i]
  PROVE  Before(s, p + 1) = Append(Before(l, p), x) /\ After(s, p + 1) = After(l, p)
<1> DEFINE n == Len(l)
           a == Before(l, p)
           b == After(l, p)
           c == Before(s, p + 1)
           d == After(s, p + 1)
           e == Append(a, x)
<1>0. n \in Nat /\ p \in Nat /\ p <= n /\ p + 1 \in 0..Len(s)
  OBVIOUS
<1>1. /\ a \in Seq(S) /\ Len(a) = p /\ \A i \in 1..p : a[i] = l[i]
      /\ b \in Seq(S) /\ Len(b) = n - p /\ \A i \in 1..(n - p) : b[i] = l[p + i]
  BY SidesAre, ZenonT(40)
<1>2. /\ c \in Seq(S) /\ Len(c) = p + 1 /\ \A i \in 1..(p + 1) : c[i] = s[i]
      /\ d \in Seq(S) /\ Len(d) = Len(s) - (p + 1)
      /\ \A i \in 1..(Len(s) - (p + 1)) : d[i] = s[p + 1 + i]
  BY <1>0, SidesAre, ZenonT(40)
<1> HIDE DEF a, b, c, d
<1>3. /\ e \in Seq(S) /\ Len(e) = Len(a) + 1 /\ e[Len(a) + 1] = x
      /\ \A i \in 1..Len(a) : e[i] = a[i]
  <2>1. a \in Seq(S)
    BY <1>1
  <2> QED BY <2>1, AppendIs
<1> HIDE DEF e
<1>4. c = e
  <2>1. \A i \in 1..(p + 1) : c[i] = e[i]
    BY <1>0, <1>1, <1>2, <1>3
  <2> QED BY <1>0, <1>1, <1>2, <1>3, <2>1, SameSeq, SMTT(20)
<1>5. d = b
  <2>1. Len(d) = Len(b) /\ Len(d) = n - p
    BY <1>0, <1>1, <1>2
  <2>2. \A i \in 1..(n - p) : d[i] = b[i]
    BY <1>0, <1>1, <1>2, <2>1
  <2> QED BY <1>1, <1>2, <2>1, <2>2, SameSeq, Zenon
<1> QED BY <1>4, <1>5 DEF a, b, c, d, e

(* The byte before p erased. *)
LEMMA EraseSides ==
  ASSUME NEW S, NEW l \in Seq(S), NEW p \in 1..Len(l), NEW s \in Seq(S),
         Len(s) = Len(l) - 1, \A i \in 1..(p - 1) : s[i] = l[i],
         \A i \in 1..(Len(l) - p) : s[p - 1 + i] = l[p + i]
  PROVE  /\ Before(s, p - 1) = SubSeq(Before(l, p), 1, Len(Before(l, p)) - 1)
         /\ After(s, p - 1) = After(l, p) /\ Before(l, p) # <<>>
<1> DEFINE n == Len(l)
           a == Before(l, p)
           b == After(l, p)
           c == Before(s, p - 1)
           d == After(s, p - 1)
           e == Before(a, p - 1)
<1>0. n \in Nat /\ p \in Nat /\ p <= n /\ p \in 0..n /\ p - 1 \in 0..Len(s) /\ p - 1 \in 0..p
  OBVIOUS
<1>1. /\ a \in Seq(S) /\ Len(a) = p /\ \A i \in 1..p : a[i] = l[i]
      /\ b \in Seq(S) /\ Len(b) = n - p /\ \A i \in 1..(n - p) : b[i] = l[p + i]
  <2>1. p \in 0..Len(l)
    BY <1>0
  <2>2. IsSides(S, l, p, a, b)
    BY <2>1, SidesOf
  <2> HIDE DEF a, b
  <2> QED BY <2>2 DEF IsSides
<1>2. /\ c \in Seq(S) /\ Len(c) = p - 1 /\ \A i \in 1..(p - 1) : c[i] = s[i]
      /\ d \in Seq(S) /\ Len(d) = Len(s) - (p - 1)
      /\ \A i \in 1..(Len(s) - (p - 1)) : d[i] = s[p - 1 + i]
  <2>1. p - 1 \in 0..Len(s)
    BY <1>0
  <2>2. IsSides(S, s, p - 1, c, d)
    BY <2>1, SidesOf
  <2> HIDE DEF c, d
  <2> QED BY <2>2, Zenon DEF IsSides
<1> HIDE DEF a, b, c, d
<1>3. e \in Seq(S) /\ Len(e) = p - 1 /\ \A i \in 1..(p - 1) : e[i] = a[i]
  <2>1. a \in Seq(S) /\ p - 1 \in 0..Len(a)
    BY <1>0, <1>1
  <2> QED BY <2>1, SidesAre, ZenonT(40)
<1>4. e = SubSeq(a, 1, Len(a) - 1)
  BY <1>1 DEF Before
<1> HIDE DEF e
<1>5. c = e
  <2>1. \A i \in 1..(p - 1) : c[i] = e[i]
    BY <1>0, <1>1, <1>2, <1>3
  <2> QED BY <1>2, <1>3, <2>1, SameSeq, Zenon
<1>6. d = b
  <2>1. Len(d) = Len(b) /\ Len(d) = n - p
    BY <1>0, <1>1, <1>2, SMTT(30)
  <2>2. \A i \in 1..(n - p) : d[i] = b[i]
    BY <1>0, <1>1, <1>2, <2>1
  <2> QED BY <1>1, <1>2, <2>1, <2>2, SameSeq, Zenon
<1>7. a # <<>>
  BY <1>0, <1>1
<1> QED BY <1>4, <1>5, <1>6, <1>7 DEF a, b, c, d

(* The cursor at p moved to the left, and to the right. *)
LEMMA LeftSides ==
  ASSUME NEW S, NEW l \in Seq(S), NEW p \in 1..Len(l)
  PROVE  /\ Before(l, p - 1) = SubSeq(Before(l, p), 1, Len(Before(l, p)) - 1)
         /\ After(l, p - 1) = <<Before(l, p)[Len(Before(l, p))]>> \o After(l, p)
         /\ Before(l, p) # <<>>
<1> DEFINE n == Len(l)
           a == Before(l, p)
           b == After(l, p)
           c == Before(l, p - 1)
           d == After(l, p - 1)
           e == Before(a, p - 1)
           x == <<a[Len(a)]>>
<1>0. n \in Nat /\ p \in Nat /\ p <= n /\ p \in 0..n /\ p - 1 \in 0..n /\ p - 1 \in 0..p
  OBVIOUS
<1>1. /\ a \in Seq(S) /\ Len(a) = p /\ \A i \in 1..p : a[i] = l[i]
      /\ b \in Seq(S) /\ Len(b) = n - p /\ \A i \in 1..(n - p) : b[i] = l[p + i]
  <2>1. p \in 0..Len(l)
    BY <1>0
  <2> QED BY <2>1, SidesAre, Zenon
<1>2. /\ c \in Seq(S) /\ Len(c) = p - 1 /\ \A i \in 1..(p - 1) : c[i] = l[i]
      /\ d \in Seq(S) /\ Len(d) = n - (p - 1)
      /\ \A i \in 1..(n - (p - 1)) : d[i] = l[p - 1 + i]
  <2>1. p - 1 \in 0..Len(l)
    BY <1>0
  <2> QED BY <2>1, SidesAre, ZenonT(40)
<1> HIDE DEF a, b, c, d
<1>3. e \in Seq(S) /\ Len(e) = p - 1 /\ \A i \in 1..(p - 1) : e[i] = a[i]
  <2>1. a \in Seq(S) /\ p - 1 \in 0..Len(a)
    BY <1>0, <1>1
  <2> QED BY <2>1, SidesAre
<1>4. e = SubSeq(a, 1, Len(a) - 1)
  BY <1>1 DEF Before
<1> HIDE DEF e
<1>5. c = e
  <2>1. \A i \in 1..(p - 1) : c[i] = e[i]
    BY <1>0, <1>1, <1>2, <1>3
  <2> QED BY <1>2, <1>3, <2>1, SameSeq, Zenon
<1>6. d = x \o b
  <2>1. x \in Seq(S) /\ Len(x) = 1 /\ x[1] = l[p]
    BY <1>0, <1>1
  <2> HIDE DEF x
  <2> DEFINE y == x \o b
  <2>2. /\ y \in Seq(S) /\ Len(y) = 1 + (n - p)
        /\ y[1] = l[p] /\ \A i \in 1..(n - p) : y[1 + i] = b[i]
    <3>1. x \in Seq(S) /\ b \in Seq(S)
      BY <1>1, <2>1
    <3>2. /\ x \o b \in Seq(S) /\ Len(x \o b) = Len(x) + Len(b)
          /\ \A i \in 1..Len(x) : (x \o b)[i] = x[i]
          /\ \A i \in 1..Len(b) : (x \o b)[Len(x) + i] = b[i]
      BY <3>1, ConcatIs
    <3> QED BY <1>1, <2>1, <3>2
  <2> HIDE DEF y
  <2>3. Len(d) = Len(y) /\ Len(d) = n - p + 1
    BY <1>0, <1>2, <2>2
  <2>4. ASSUME NEW i \in 1..(n - p + 1) PROVE d[i] = y[i]
    <3>1. d[i] = l[p - 1 + i]
      BY <1>0, <1>2
    <3>2. CASE i = 1
      <4>1. p - 1 + i = p
        BY <1>0, <3>2
      <4> QED BY <2>2, <3>1, <3>2, <4>1
    <3>3. CASE i # 1
      <4> DEFINE j == i - 1
      <4>1. j \in 1..(n - p) /\ 1 + j = i /\ p + j = p - 1 + i
        BY <1>0, <3>3
      <4> HIDE DEF j
      <4>2. y[1 + j] = l[p + j]
        BY <1>1, <2>2, <4>1
      <4> QED BY <3>1, <4>1, <4>2
    <3> QED BY <3>2, <3>3
  <2>5. d = y
    BY <1>2, <2>2, <2>3, <2>4, SameSeq, Zenon
  <2> QED BY <2>5 DEF y
<1>7. a # <<>>
  BY <1>0, <1>1
<1> QED BY <1>4, <1>5, <1>6, <1>7 DEF a, b, c, d

(* Moving right takes the head of the right side. *)
LEMMA RightSides ==
  ASSUME NEW S, NEW l \in Seq(S), NEW p \in 0..Len(l), p < Len(l)
  PROVE  /\ Before(l, p + 1) = Append(Before(l, p), Head(After(l, p)))
         /\ After(l, p + 1) = Tail(After(l, p)) /\ After(l, p) # <<>>
<1> DEFINE n == Len(l)
           a == Before(l, p)
           b == After(l, p)
           c == Before(l, p + 1)
           d == After(l, p + 1)
<1>0. n \in Nat /\ p \in Nat /\ p <= n /\ p + 1 \in 0..n
  OBVIOUS
<1>1. /\ a \in Seq(S) /\ Len(a) = p /\ \A i \in 1..p : a[i] = l[i]
      /\ b \in Seq(S) /\ Len(b) = n - p /\ \A i \in 1..(n - p) : b[i] = l[p + i]
  BY SidesAre
<1>2. /\ c \in Seq(S) /\ Len(c) = p + 1 /\ \A i \in 1..(p + 1) : c[i] = l[i]
      /\ d \in Seq(S) /\ Len(d) = n - (p + 1)
      /\ \A i \in 1..(n - (p + 1)) : d[i] = l[p + 1 + i]
  BY <1>0, SidesAre, ZenonT(40)
<1> HIDE DEF a, b, c, d
<1>3. /\ b # <<>> /\ Head(b) = l[p + 1] /\ Head(b) \in S
      /\ Tail(b) \in Seq(S) /\ Len(Tail(b)) = n - p - 1
      /\ \A i \in 1..(n - p - 1) : Tail(b)[i] = b[i + 1]
  <2>1. Len(b) > 0 /\ 1 \in 1..(n - p)
    BY <1>0, <1>1
  <2>2. b # <<>> /\ Head(b) = b[1] /\ Head(b) \in S /\ Tail(b) \in Seq(S) /\ Len(Tail(b)) = Len(b) - 1
    BY <1>1, <2>1
  <2>3. \A i \in 1..(Len(b) - 1) : Tail(b)[i] = b[i + 1]
    BY <1>1, <2>1
  <2> QED BY <1>0, <1>1, <2>1, <2>2, <2>3
<1> DEFINE x == Head(b)
           t == Tail(b)
           e == Append(a, x)
<1>4. x = l[p + 1] /\ x \in S /\ t \in Seq(S) /\ Len(t) = n - p - 1
      /\ \A i \in 1..(n - p - 1) : t[i] = b[i + 1]
  BY <1>3
<1> HIDE DEF x, t
<1>5. /\ e \in Seq(S) /\ Len(e) = Len(a) + 1 /\ e[Len(a) + 1] = x
      /\ \A i \in 1..Len(a) : e[i] = a[i]
  BY <1>1, <1>4, AppendIs
<1> HIDE DEF e
<1>6. c = e
  <2>1. \A i \in 1..(p + 1) : c[i] = e[i]
    BY <1>0, <1>1, <1>2, <1>4, <1>5
  <2> QED BY <1>0, <1>1, <1>2, <1>5, <2>1, SameSeq
<1>7. d = t
  <2>1. Len(d) = Len(t) /\ Len(d) = n - p - 1
    BY <1>0, <1>2, <1>4
  <2>2. ASSUME NEW i \in 1..(n - p - 1) PROVE d[i] = t[i]
    <3>1. i \in 1..(n - (p + 1)) /\ i + 1 \in 1..(n - p) /\ p + (i + 1) = p + 1 + i
      BY <1>0
    <3>2. d[i] = l[p + 1 + i] /\ t[i] = b[i + 1] /\ b[i + 1] = l[p + (i + 1)]
      BY <1>1, <1>2, <1>4, <3>1
    <3> QED BY <3>1, <3>2
  <2> QED BY <1>2, <1>4, <2>1, <2>2, SameSeq, Zenon
<1> QED BY <1>3, <1>6, <1>7 DEF a, b, c, d, e, x, t

-----------------------------------------------------------------------------
(* The refinement: what the abstract editor sees of a state. *)

Left == IF astray \/ ~Running THEN <<>> ELSE Before(current_command, cursor_pos)
Right == IF astray \/ ~Running THEN <<>> ELSE After(current_command, cursor_pos)
Status == IF ~Running THEN outcome ELSE IF astray THEN "astray" ELSE "editing"

Views == <<Left, Right, Status>>

(* The steps of LineBuffer, in these terms. *)
LEMMA AbstractSteps ==
  /\ Abstract!vars = Views
  /\ Abstract!Init <=> Left = <<>> /\ Right = <<>> /\ Status = "editing"
  /\ \A c : Abstract!Type(c) <=> /\ Status = "editing" /\ Status' = "editing"
                                 /\ Left' = Append(Left, c) /\ Right' = Right
  /\ Abstract!Erase <=> /\ Status = "editing" /\ Status' = "editing" /\ Left # <<>>
                        /\ Left' = SubSeq(Left, 1, Len(Left) - 1) /\ Right' = Right
  /\ Abstract!MoveLeft <=> /\ Status = "editing" /\ Status' = "editing" /\ Left # <<>>
                           /\ Left' = SubSeq(Left, 1, Len(Left) - 1)
                           /\ Right' = <<Left[Len(Left)]>> \o Right
  /\ Abstract!MoveRight <=> /\ Status = "editing" /\ Status' = "editing" /\ Right # <<>>
                            /\ Left' = Append(Left, Head(Right)) /\ Right' = Tail(Right)
<1> USE DEF Left, Right, Status, Before, After
<1>1. Abstract!vars = Views
  BY Zenon DEF Abstract!vars, Views
<1>2. Abstract!Init <=> Left = <<>> /\ Right = <<>> /\ Status = "editing"
  BY Zenon DEF Abstract!Init
<1>3. \A c : Abstract!Type(c) <=> /\ Status = "editing" /\ Status' = "editing"
                                 /\ Left' = Append(Left, c) /\ Right' = Right
  BY Zenon DEF Abstract!Type, Abstract!Edit
<1>4. Abstract!Erase <=> /\ Status = "editing" /\ Status' = "editing" /\ Left # <<>>
                        /\ Left' = SubSeq(Left, 1, Len(Left) - 1) /\ Right' = Right
  BY Zenon DEF Abstract!Erase, Abstract!Edit
<1>5. Abstract!MoveLeft <=> /\ Status = "editing" /\ Status' = "editing" /\ Left # <<>>
                           /\ Left' = SubSeq(Left, 1, Len(Left) - 1)
                           /\ Right' = <<Left[Len(Left)]>> \o Right
  BY Zenon DEF Abstract!MoveLeft, Abstract!Edit
<1>6. Abstract!MoveRight <=> /\ Status = "editing" /\ Status' = "editing" /\ Right # <<>>
                            /\ Left' = Append(Left, Head(Right)) /\ Right' = Tail(Right)
  BY Zenon DEF Abstract!MoveRight, Abstract!Edit
<1> QED BY <1>1, <1>2, <1>3, <1>4, <1>5, <1>6, Zenon

(* And those that leave the line. *)
LEMMA AbstractTurns ==
  /\ Abstract!GoAstray <=> /\ Status = "editing" /\ Status' = "astray"
                           /\ Left' = <<>> /\ Right' = <<>>
  /\ Abstract!EraseNothing <=> /\ Status = "editing" /\ Left = <<>> /\ Status' = "panicked"
                               /\ Right' = <<>> /\ Left' = Left
  /\ Abstract!Enter <=> /\ Status \in {"editing", "astray"} /\ Status' \in {"editing", "exited"}
                        /\ Left' = <<>> /\ Right' = <<>>
  /\ Abstract!Crash <=> /\ Status = "astray" /\ Status' = "panicked"
                        /\ Left' = Left /\ Right' = Right
<1> USE DEF Left, Right, Status, Before, After
<1>1. Abstract!GoAstray <=> /\ Status = "editing" /\ Status' = "astray"
                           /\ Left' = <<>> /\ Right' = <<>>
  BY Zenon DEF Abstract!GoAstray
<1>2. Abstract!EraseNothing <=> /\ Status = "editing" /\ Left = <<>> /\ Status' = "panicked"
                               /\ Right' = <<>> /\ Left' = Left
  BY Zenon DEF Abstract!EraseNothing
<1>3. Abstract!Enter <=> /\ Status \in {"editing", "astray"} /\ Status' \in {"editing", "exited"}
                        /\ Left' = <<>> /\ Right' = <<>>
  BY Zenon DEF Abstract!Enter
<1>4. Abstract!Crash <=> /\ Status = "astray" /\ Status' = "panicked"
                        /\ Left' = Left /\ Right' = Right
  BY Zenon DEF Abstract!Crash
<1> QED BY <1>1, <1>2, <1>3, <1>4, Zenon

(* What the abstract editor sees while the keys stay in the line, and when they do not. *)
LEMMA SeesLine ==
  ASSUME outcome = "running", ~astray
  PROVE  /\ Status = "editing"
         /\ Left = Before(current_command, cursor_pos) /\ Right = After(current_command, cursor_pos)
BY Zenon DEF Left, Right, Status, Running

(* Once they are astray, it sees no line, *)
LEMMA SeesAstray ==
  ASSUME outcome = "running", astray
  PROVE  Status = "astray" /\ Left = <<>> /\ Right = <<>>
BY Zenon DEF Left, Right, Status, Running

(* nor does it once the shell is left or has panicked. *)
LEMMA SeesEnd ==
  ASSUME outcome # "running"
  PROVE  Status = outcome /\ Left = <<>> /\ Right = <<>>
BY Zenon DEF Left, Right, Status, Running

(* The same of the state after a step, while the keys stay in the line, *)
LEMMA SeesLineNext ==
  ASSUME outcome' = "running", ~astray'
  PROVE  /\ Status' = "editing"
         /\ Left' = Before(current_command', cursor_pos') /\ Right' = After(current_command', cursor_pos')
BY Zenon DEF Left, Right, Status, Running, Before, After

(* once they are astray, *)
LEMMA SeesAstrayNext ==
  ASSUME outcome' = "running", astray'
  PROVE  Status' = "astray" /\ Left' = <<>> /\ Right' = <<>>
BY Zenon DEF Left, Right, Status, Running

(* and once the shell is left or has panicked. *)
LEMMA SeesEndNext ==
  ASSUME outcome' # "running"
  PROVE  Status' = outcome' /\ Left' = <<>> /\ Right' = <<>>
BY Zenon DEF Left, Right, Status, Running

(* While the keys are astray, a key leaves them so or is the end. *)
LEMMA AstraySteps ==
  ASSUME outcome = "running", astray, astray', outcome' = "running" \/ outcome' = "panicked"
  PROVE  Abstract!Crash \/ UNCHANGED Views
<1>1. Status = "astray" /\ Left = <<>> /\ Right = <<>>
  BY SeesAstray
<1>2. CASE outcome' = "running"
  <2>1. Status' = "astray" /\ Left' = <<>> /\ Right' = <<>>
    BY <1>2, SeesAstrayNext
  <2> QED BY <1>1, <2>1, Zenon DEF Views
<1>3. CASE outcome' = "panicked"
  <2>1. outcome' # "running"
    BY <1>3
  <2>2. Status' = "panicked" /\ Left' = <<>> /\ Right' = <<>>
    BY <1>3, <2>1, SeesEndNext
  <2> QED BY <1>1, <2>2, AbstractTurns, Zenon
<1> QED BY <1>2, <1>3

(* A key that leads astray is the step GoAstray. *)
LEMMA GoesAstray ==
  ASSUME outcome = "running", ~astray, outcome' = "running", astray'
  PROVE  Abstract!GoAstray
<1>1. Status = "editing"
  BY SeesLine
<1>2. Status' = "astray" /\ Left' = <<>> /\ Right' = <<>>
  BY SeesAstrayNext
<1> QED BY <1>1, <1>2, AbstractTurns, Zenon

(* Backspace erases, or panics where there is nothing to erase. *)
LEMMA BackspaceRefines == EditInv /\ Backspace => [Abstract!Next]_Views
<1> SUFFICES ASSUME EditInv, Backspace PROVE [Abstract!Next]_Views
  OBVIOUS
<1> DEFINE n == Len(current_command)
<1>0. outcome = "running" /\ astray' = astray
  BY DEF Backspace, Running
<1>1. /\ EditOk(current_command, cursor_pos) /\ current_command \in Seq(Byte) /\ n \in Nat
      /\ cursor_pos \in Nat
      /\ ~astray => cursor_pos <= n /\ Plain(current_command)
  BY DEF EditInv, EditOk
<1>2. outcome' = "running" \/ outcome' = "panicked"
  <2>1. Panic \/ outcome' = outcome
    BY Zenon DEF Backspace
  <2> QED BY <1>0, <2>1 DEF Panic
<1>3. CASE astray
  <2>1. astray'
    BY <1>0, <1>3
  <2> QED BY <1>0, <1>2, <1>3, <2>1, AstraySteps DEF Abstract!Next
<1>4. CASE ~astray /\ cursor_pos = 0
  <2>1. outcome' = "panicked"
    BY <1>4 DEF Backspace, Panic
  <2>2. Status = "editing" /\ Left = Before(current_command, cursor_pos)
    BY <1>0, <1>4, SeesLine
  <2>3. Before(current_command, cursor_pos) = <<>>
    BY <1>1, <1>4 DEF Before
  <2>4. outcome' # "running"
    BY <2>1
  <2>5. Status' = "panicked" /\ Left' = <<>> /\ Right' = <<>>
    BY <2>1, <2>4, SeesEndNext
  <2>6. Left = <<>> /\ Left' = Left
    BY <2>2, <2>3, <2>5, Zenon
  <2>7. Abstract!EraseNothing
    BY <2>2, <2>5, <2>6, AbstractTurns, Zenon
  <2> QED BY <2>7 DEF Abstract!Next
<1>5. CASE ~astray /\ cursor_pos # 0
  <2>1. cursor_pos \in 1..n /\ Plain(current_command) /\ cursor_pos - 1 \in Nat /\ cursor_pos - 1 < n
    BY <1>1, <1>5
  <2>2. ~cursor_at_end => is_char_boundary(cursor_pos - 1) /\ ~(cursor_pos > n)
    BY <1>1, <2>1 DEF is_char_boundary, Plain
  <2>3. /\ current_command' = IF cursor_at_end THEN Cut(CharStart(cursor_pos), cursor_pos)
                              ELSE Cut(cursor_pos - 1, CharEnd(cursor_pos - 1))
        /\ cursor_pos' = cursor_pos - 1 /\ outcome' = outcome
    BY <1>5, <2>2, Zenon DEF Backspace
  <2>4. CharStart(cursor_pos) = cursor_pos - 1
    BY <1>1, <2>1, StartIs
  <2>5. CharEnd(cursor_pos - 1) = cursor_pos
    <3>1. CharEnd(cursor_pos - 1) = (cursor_pos - 1) + 1
      BY <1>1, <2>1, EndIs
    <3> QED BY <1>1, <3>1
  <2>6. current_command' = Cut(cursor_pos - 1, cursor_pos)
    BY <2>3, <2>4, <2>5
  <2> DEFINE s == Cut(cursor_pos - 1, cursor_pos)
  <2>7. /\ s \in Seq(Byte) /\ Len(s) = n - 1
        /\ \A i \in 1..(cursor_pos - 1) : s[i] = current_command[i]
        /\ \A i \in 1..(n - cursor_pos) : s[cursor_pos - 1 + i] = current_command[cursor_pos + i]
    <3>1. /\ s \in Seq(Byte) /\ Len(s) = n - (cursor_pos - (cursor_pos - 1))
          /\ \A i \in 1..(cursor_pos - 1) : s[i] = current_command[i]
          /\ \A i \in 1..(n - cursor_pos) : s[cursor_pos - 1 + i] = current_command[cursor_pos + i]
      <4>1. cursor_pos - 1 < cursor_pos /\ cursor_pos <= n
        BY <2>1
      <4> QED BY <1>1, <2>1, <4>1, CutIs, Zenon
    <3> HIDE DEF s
    <3>2. n - (cursor_pos - (cursor_pos - 1)) = n - 1
      BY <1>1
    <3> QED BY <3>1, <3>2
  <2> HIDE DEF s
  <2> DEFINE a == Before(current_command, cursor_pos)
             b == After(current_command, cursor_pos)
  <2>8. Before(s, cursor_pos - 1) = SubSeq(a, 1, Len(a) - 1) /\ After(s, cursor_pos - 1) = b /\ a # <<>>
    BY <1>1, <2>1, <2>7, EraseSides, Zenon
  <2>9. Status = "editing" /\ Left = a /\ Right = b
    BY <1>0, <1>5, SeesLine
  <2> HIDE DEF a, b
  <2>10. outcome' = "running" /\ ~astray'
    BY <1>0, <1>5, <2>3
  <2>11. Status' = "editing" /\ Left' = Before(s, cursor_pos - 1) /\ Right' = After(s, cursor_pos - 1)
    BY <2>3, <2>6, <2>10, SeesLineNext DEF s
  <2>12. Abstract!Erase
    BY <2>8, <2>9, <2>11, AbstractSteps, Zenon
  <2> QED BY <2>12 DEF Abstract!Next
<1> QED BY <1>3, <1>4, <1>5

(* A character is typed, or leads astray when it has several bytes. *)
LEMMA CharacterRefines ==
  ASSUME EditInv, NEW c \in Characters, Character(c)
  PROVE  [Abstract!Next]_Views
<1> DEFINE n == Len(current_command)
           p == cursor_pos
           s == SubSeq(current_command, 1, p) \o c \o SubSeq(current_command, p + 1, n)
<1>0. outcome = "running" /\ astray' = (astray \/ Len(c) > 1)
  BY DEF Character, Running
<1>1. /\ EditOk(current_command, p) /\ current_command \in Seq(Byte) /\ n \in Nat /\ p \in Nat
      /\ ~astray => p <= n /\ Plain(current_command)
  BY DEF EditInv, EditOk
<1>2. outcome' = "running" \/ outcome' = "panicked"
  <2>1. Panic \/ outcome' = outcome
    BY Zenon DEF Character
  <2> QED BY <1>0, <2>1 DEF Panic
<1>3. CASE astray
  <2>1. astray'
    BY <1>0, <1>3, Zenon
  <2> QED BY <1>0, <1>2, <1>3, <2>1, AstraySteps DEF Abstract!Next
<1>4. ASSUME ~astray
      PROVE  /\ p \in 0..n /\ outcome' = "running"
             /\ current_command' = s /\ cursor_pos' = p + 1 /\ n + Len(c) <= MaxLine
  <2>1. p \in 0..n /\ is_char_boundary(p)
    BY <1>1, <1>4 DEF is_char_boundary, Plain
  <2>2. /\ current_command' = s /\ cursor_pos' = p + 1 /\ outcome' = outcome
        /\ n + Len(c) <= MaxLine
    BY <2>1, Zenon DEF Character
  <2> QED BY <1>0, <2>1, <2>2
<1>5. c \in Seq(Byte) /\ Len(c) \in Nat /\ Len(c) >= 1
  <2>1. c \in Seq((0..255) \ {NL}) /\ c # <<>>
    BY LineAssumption
  <2>2. (0..255) \ {NL} \subseteq Byte
    BY DEF Byte
  <2>3. \A i \in 1..Len(c) : c[i] \in Byte
    BY <2>1, <2>2
  <2>4. c \in Seq(Byte)
    BY <2>1, <2>3
  <2> QED BY <2>1, <2>4
<1>6. CASE ~astray /\ Len(c) > 1
  <2>1. astray' /\ outcome' = "running"
    BY <1>0, <1>4, <1>6, Zenon
  <2> QED BY <1>0, <1>6, <2>1, GoesAstray DEF Abstract!Next
<1>7. CASE ~astray /\ ~(Len(c) > 1)
  <2>1. Len(c) = 1
    <3>1. \A k \in Nat : k >= 1 /\ ~(k > 1) => k = 1
      OBVIOUS
    <3> QED BY <1>5, <1>7, <3>1, SMTT(20)
  <2>2. ~astray' /\ outcome' = "running" /\ p \in 0..n
    BY <1>0, <1>4, <1>7, Zenon
  <2>3. /\ s \in Seq(Byte) /\ Len(s) = n + 1 /\ \A i \in 1..p : s[i] = current_command[i]
        /\ s[p + 1] = c[1] /\ \A i \in 1..(n - p) : s[p + 1 + i] = current_command[p + i]
    <3>1. /\ s \in Seq(Byte) /\ Len(s) = n + Len(c)
          /\ \A i \in 1..p : s[i] = current_command[i]
          /\ \A i \in 1..Len(c) : s[p + i] = c[i]
          /\ \A i \in 1..(n - p) : s[p + Len(c) + i] = current_command[p + i]
      BY <1>1, <1>5, <2>2, InsertIs, ZenonT(40)
    <3> HIDE DEF s
    <3> QED BY <2>1, <3>1
  <2> HIDE DEF s
  <2> DEFINE a == Before(current_command, p)
             b == After(current_command, p)
             x == c[1]
  <2>4. x \in Byte
    BY <1>5, <2>1
  <2>5. s[p + 1] = x
    BY <2>3
  <2> HIDE DEF x
  <2>6. Before(s, p + 1) = Append(a, x) /\ After(s, p + 1) = b
    BY <1>1, <2>2, <2>3, <2>4, <2>5, TypeSides, Zenon
  <2>7. Status = "editing" /\ Left = a /\ Right = b
    BY <1>0, <1>7, SeesLine
  <2> HIDE DEF a, b
  <2>8. Status' = "editing" /\ Left' = Before(s, p + 1) /\ Right' = After(s, p + 1)
    BY <1>4, <1>7, <2>2, SeesLineNext
  <2>9. Abstract!Type(x)
    BY <2>6, <2>7, <2>8, AbstractSteps, Zenon
  <2>10. x \in {d[1] : d \in Characters}
    BY DEF x
  <2> QED BY <2>9, <2>10 DEF Abstract!Next
<1> QED BY <1>3, <1>6, <1>7

(* The arrows move within the line, or lead astray. *)
LEMMA ArrowRefines == EditInv /\ (ArrowLeft \/ ArrowRight) => [Abstract!Next]_Views
<1> SUFFICES ASSUME EditInv, ArrowLeft \/ ArrowRight PROVE [Abstract!Next]_Views
  OBVIOUS
<1> DEFINE n == Len(current_command)
           p == cursor_pos
           a == Before(current_command, p)
           b == After(current_command, p)
<1>0. outcome = "running" /\ outcome' = "running" /\ current_command' = current_command
  BY DEF ArrowLeft, ArrowRight, Running
<1>1. /\ current_command \in Seq(Byte) /\ n \in Nat /\ p \in Nat
      /\ ~astray => p <= n
  BY DEF EditInv, EditOk
<1>2. CASE astray
  <2>1. astray'
    BY <1>2, Zenon DEF ArrowLeft, ArrowRight
  <2> QED BY <1>0, <1>2, <2>1, AstraySteps DEF Abstract!Next
<1>3. CASE ~astray /\ astray'
  BY <1>0, <1>3, GoesAstray DEF Abstract!Next
<1>4. CASE ~astray /\ ~astray'
  <2>1. Status = "editing" /\ Left = a /\ Right = b
    BY <1>0, <1>4, SeesLine
  <2>2. /\ Status' = "editing" /\ Left' = Before(current_command, cursor_pos')
        /\ Right' = After(current_command, cursor_pos')
    BY <1>0, <1>4, SeesLineNext
  <2>3. CASE ArrowLeft /\ p = 0
    <3>1. cursor_pos' = p
      BY <2>3 DEF ArrowLeft
    <3>2. UNCHANGED Views
      BY <2>1, <2>2, <3>1, Zenon DEF Views
    <3> QED BY <3>2
  <2>4. CASE ArrowLeft /\ p # 0
    <3>1. cursor_pos' = p - 1 /\ p \in 1..n
      BY <1>1, <1>4, <2>4 DEF ArrowLeft
    <3>2. /\ Before(current_command, p - 1) = SubSeq(a, 1, Len(a) - 1)
          /\ After(current_command, p - 1) = <<a[Len(a)]>> \o b /\ a # <<>>
      BY <1>1, <3>1, LeftSides
    <3> HIDE DEF a, b
    <3>3. Abstract!MoveLeft
      BY <2>1, <2>2, <3>1, <3>2, AbstractSteps, Zenon
    <3> QED BY <3>3 DEF Abstract!Next
  <2>5. CASE ArrowRight
    <3>1. /\ ~(p >= n) /\ ~(p >= CursorLimit)
          /\ cursor_pos' = IF p + 1 < CursorLimit THEN p + 1 ELSE CursorLimit
      BY <1>4, <2>5, Zenon DEF ArrowRight
    <3>2. cursor_pos' = p + 1 /\ p \in 0..n /\ p < n
      BY <1>1, <3>1, LineAssumption
    <3>3. /\ Before(current_command, p + 1) = Append(a, Head(b))
          /\ After(current_command, p + 1) = Tail(b) /\ b # <<>>
      BY <1>1, <3>2, RightSides
    <3> HIDE DEF a, b
    <3>4. Abstract!MoveRight
      BY <2>1, <2>2, <3>2, <3>3, AbstractSteps, Zenon
    <3> QED BY <3>4 DEF Abstract!Next
  <2> QED BY <2>3, <2>4, <2>5
<1> QED BY <1>2, <1>3, <1>4

(* An empty line has nothing on either side. *)
LEMMA NothingThere == Before(<<>>, 0) = <<>> /\ After(<<>>, 0) = <<>>
BY DEF Before, After

(* Every step of the terminal is a step of the editor of the abstract line, or none of its own. *)
LEMMA EditRefines == EditInv /\ [ENext]_editVars => [Abstract!Next]_Views
<1> SUFFICES ASSUME EditInv, [ENext]_editVars PROVE [Abstract!Next]_Views
  OBVIOUS
<1>1. CASE Backspace
  BY <1>1, BackspaceRefines
<1>2. CASE \E c \in Characters : Character(c)
  BY <1>2, CharacterRefines
<1>3. CASE ArrowLeft \/ ArrowRight
  BY <1>3, ArrowRefines
<1>4. CASE Enter
  <2>1. outcome = "running"
    BY <1>4 DEF Enter, Running
  <2>2. Status \in {"editing", "astray"}
    BY <2>1, SeesLine, SeesAstray
  <2>3. Left' = <<>> /\ Right' = <<>> /\ Status' \in {"editing", "exited"}
    <3>1. CASE outcome' = "exited"
      <4>1. outcome' # "running"
        BY <3>1
      <4> QED BY <3>1, <4>1, SeesEndNext
    <3>2. CASE outcome' # "exited"
      <4>1. current_command' = <<>> /\ cursor_pos' = 0 /\ ~astray' /\ outcome' = "running"
        BY <1>4, <2>1, <3>2 DEF Enter
      <4>2. /\ Status' = "editing" /\ Left' = Before(current_command', cursor_pos')
            /\ Right' = After(current_command', cursor_pos')
        BY <4>1, SeesLineNext
      <4>3. Left' = Before(<<>>, 0) /\ Right' = After(<<>>, 0)
        BY <4>1, <4>2, Zenon
      <4> QED BY <4>2, <4>3, NothingThere
    <3> QED BY <3>1, <3>2
  <2>4. Abstract!Enter
    BY <2>2, <2>3, AbstractTurns, Zenon
  <2> QED BY <2>4 DEF Abstract!Next
<1>5. CASE RawKey \/ (\E s \in Strings : OtherText(s)) \/ HltLoop \/ UNCHANGED editVars
  <2>1. UNCHANGED <<current_command, cursor_pos, astray, outcome>>
    BY <1>5 DEF RawKey, OtherText, HltLoop, editVars
  <2>2. UNCHANGED Views
    BY <2>1, Zenon DEF Views, Left, Right, Status, Running
  <2> QED BY <2>2
<1> QED BY <1>1, <1>2, <1>3, <1>4, <1>5 DEF ENext

(* The terminal implements the abstract line: what the cursor splits is what the keys made of it, *)
(* until they lead astray (a character of several bytes, or the cursor past the end).             *)
THEOREM TerminalEditsLine == ESpec => ImplementsLineBuffer
<1>1. EInit => Abstract!Init
  <2> SUFFICES ASSUME EInit PROVE Abstract!Init
    OBVIOUS
  <2>1. outcome = "running" /\ ~astray /\ current_command = <<>> /\ cursor_pos = 0
    BY DEF EInit
  <2>2. Status = "editing" /\ Left = Before(<<>>, 0) /\ Right = After(<<>>, 0)
    BY <2>1, SeesLine
  <2> QED BY <2>2, NothingThere, AbstractSteps, Zenon
<1>2. UNCHANGED Views => UNCHANGED Abstract!vars
  BY Zenon DEF Abstract!vars, Views, Left, Right, Status, Before, After
<1>3. EditInv /\ [ENext]_editVars => [Abstract!Next]_(Abstract!vars)
  BY <1>2, EditRefines
<1> QED BY <1>1, <1>3, EditInvariant, PTL DEF ESpec, ImplementsLineBuffer, Abstract!Spec


-----------------------------------------------------------------------------
(* The frame buffer. *)

(* The loop has passed the pixel. *)
Passed(px, py) == py < rect.y + row \/ (py = rect.y + row /\ px < rect.x + col)

Painted == \A px \in 0..(width - 1), py \in 0..(height - 1), b \in 0..2 :
             InRect(px, py) /\ Passed(px, py) => buffer[PixelByte(px, py, b)] = Channel(color, b)

Untouched == \A i \in DOMAIN buffer : buffer[i] # before[i] =>
               \E px \in 0..(width - 1), py \in 0..(height - 1), b \in 0..2 :
                 InRect(px, py) /\ i = PixelByte(px, py, b)

(* The inductive invariant: the offsets are those of the pixel the loops are at, and
   what the loops have passed is painted. *)
DrawInv == /\ pc \in {"off", "idle", "drawing", "panicked"}
           /\ rect \in [x : Nat, y : Nat, w : Nat, h : Nat] /\ row \in Nat /\ col \in Nat
           /\ DOMAIN buffer = 0..(buffer_len - 1)
           /\ Untouched
           /\ pc = "drawing" =>
                /\ rect.x + rect.w <= width /\ row <= rect.h /\ col <= rect.w
                /\ line_offset = (rect.y + row) * stride + rect.x * bytes_per_pixel
                /\ offset = (rect.y + row) * stride + (rect.x + col) * bytes_per_pixel
           /\ pc = "drawing" => Painted
           /\ pc = "idle" => Painted /\ row = rect.h
           /\ pc = "panicked" => rect.x + rect.w > width \/ rect.y + rect.h > height

(* Multiplication by a line or a pixel is monotonic. *)
LEMMA Times ==
  ASSUME NEW s \in Nat, NEW a \in Nat, NEW b \in Nat
  PROVE  /\ a * s \in Nat /\ (a + 1) * s = a * s + s
         /\ a <= b => a * s <= b * s
         /\ a < b => a * s + s <= b * s
<1>1. \A x, y \in Nat : x <= y => x * s <= y * s
  OBVIOUS
<1>2. a * s \in Nat /\ b * s \in Nat /\ (a + 1) * s = a * s + s
  OBVIOUS
<1>3. a < b => a + 1 <= b /\ a + 1 \in Nat
  OBVIOUS
<1>4. a < b => (a + 1) * s <= b * s
  BY <1>1, <1>3
<1> QED BY <1>1, <1>2, <1>4

(* The bytes of a pixel lie in its line. *)
LEMMA InLine ==
  ASSUME SoundScreen, NEW px \in 0..(width - 1), NEW b \in 0..2
  PROVE  px * bytes_per_pixel \in Nat /\ px * bytes_per_pixel + b < stride
<1>1. /\ px \in Nat /\ width \in Nat /\ bytes_per_pixel \in Nat /\ stride \in Nat
      /\ px < width /\ bytes_per_pixel >= 3
  BY DEF SoundScreen
<1> DEFINE u == px * bytes_per_pixel
           v == width * bytes_per_pixel
<1>2. u \in Nat /\ v \in Nat /\ u + bytes_per_pixel <= v
  BY <1>1, Times
<1>3. v <= stride
  BY DEF SoundScreen
<1> HIDE DEF u, v
<1>4. u + b < stride
  BY <1>1, <1>2, <1>3
<1> QED BY <1>2, <1>4 DEF u

(* No byte belongs to two pixels or to two channels of one. *)
LEMMA PixelBytes ==
  ASSUME SoundScreen, NEW px \in 0..(width - 1), NEW qx \in 0..(width - 1),
         NEW py \in Nat, NEW qy \in Nat, NEW b \in 0..2, NEW c \in 0..2,
         PixelByte(px, py, b) = PixelByte(qx, qy, c)
  PROVE  px = qx /\ py = qy /\ b = c
<1> DEFINE u == px * bytes_per_pixel
           v == qx * bytes_per_pixel
           m == py * stride
           n == qy * stride
<1>1. /\ px \in Nat /\ qx \in Nat /\ b \in Nat /\ c \in Nat /\ b <= 2 /\ c <= 2
      /\ bytes_per_pixel \in Nat /\ bytes_per_pixel >= 3 /\ stride \in Nat
  BY DEF SoundScreen
<1>2. u \in Nat /\ v \in Nat /\ u + b < stride /\ v + c < stride
  BY InLine
<1>3. m \in Nat /\ n \in Nat /\ (py < qy => m + stride <= n) /\ (qy < py => n + stride <= m)
  BY <1>1, Times
<1>4. m + u + b = n + v + c
  BY DEF PixelByte
<1>5. /\ px < qx => u + bytes_per_pixel <= v
      /\ qx < px => v + bytes_per_pixel <= u
  BY <1>1, Times
<1>6. py = qy => m = n
  OBVIOUS
<1>7. px = qx => u = v
  OBVIOUS
<1> HIDE DEF u, v, m, n
<1>8. py = qy
  BY <1>1, <1>2, <1>3, <1>4
<1>9. u + b = v + c
  BY <1>1, <1>2, <1>3, <1>4, <1>6, <1>8
<1>10. px = qx
  BY <1>1, <1>2, <1>5, <1>9
<1> QED BY <1>1, <1>2, <1>7, <1>8, <1>9, <1>10

-----------------------------------------------------------------------------
(* A call starts with nothing passed, or fails for a rectangle that is not on the
   screen. *)
LEMMA CallKeeps ==
  ASSUME SoundScreen, height <= width, DrawInv,
         NEW r \in [x : Nat, y : Nat, w : Nat, h : Nat], NEW c, draw_rect(r, c)
  PROVE  DrawInv'
<1>1. /\ rect' = r /\ color' = c /\ row' = 0 /\ col' = 0 /\ before' = buffer /\ buffer' = buffer
  BY DEF draw_rect
<1>2. /\ r.x \in Nat /\ r.y \in Nat /\ r.w \in Nat /\ r.h \in Nat
      /\ width \in Nat /\ height \in Nat /\ UsizeMod \in Nat /\ width < UsizeMod
      /\ stride \in Nat /\ bytes_per_pixel \in Nat
  BY DEF SoundScreen
<1>3. Untouched'
  BY <1>1 DEF Untouched
<1>4. /\ rect' \in [x : Nat, y : Nat, w : Nat, h : Nat] /\ row' \in Nat /\ col' \in Nat
      /\ DOMAIN buffer' = 0..(buffer_len - 1)
  BY <1>1 DEF DrawInv
<1>5. CASE Accepted(r)
  <2>1. /\ pc' = "drawing" /\ line_offset' = r.y * stride + r.x * bytes_per_pixel
        /\ offset' = r.y * stride + r.x * bytes_per_pixel
    BY <1>5 DEF draw_rect, FirstOffset
  <2>2. r.x + r.w <= width
    BY <1>5 DEF Accepted
  <2>3. r.y + 0 = r.y /\ r.x + 0 = r.x /\ 0 <= r.h /\ 0 <= r.w
    BY <1>2
  <2>4. Painted'
    <3>1. ASSUME NEW px \in 0..(width - 1), NEW py \in 0..(height - 1)
          PROVE  ~(InRect(px, py)' /\ Passed(px, py)')
      BY <1>1, <1>2 DEF InRect, Passed
    <3> QED BY <3>1 DEF Painted
  <2> QED BY <1>1, <1>3, <1>4, <2>1, <2>2, <2>3, <2>4 DEF DrawInv
<1>6. CASE ~Accepted(r)
  <2>1. pc' = "panicked"
    BY <1>6 DEF draw_rect
  <2>2. r.x + r.w > width \/ r.y + r.h > height
    BY <1>2, <1>6 DEF Accepted
  <2> QED BY <1>1, <1>3, <1>4, <2>1, <2>2 DEF DrawInv
<1> QED BY <1>5, <1>6

(* One pixel: it is the one after those that the loops have passed, its bytes are no other
   pixel's, and the buffer ends before it only below the screen. *)
LEMMA SetPixelKeeps ==
  ASSUME SoundScreen, DrawInv, SetPixel
  PROVE  DrawInv'
<1> DEFINE x == rect.x + col
           y == rect.y + row
<1>1. /\ rect.x \in Nat /\ rect.y \in Nat /\ rect.w \in Nat /\ rect.h \in Nat
      /\ row \in Nat /\ col \in Nat /\ row < rect.h /\ col < rect.w
      /\ rect.x + rect.w <= width /\ pc = "drawing" /\ Painted /\ Untouched
      /\ DOMAIN buffer = 0..(buffer_len - 1)
  BY DEF DrawInv, SetPixel
<1>0. /\ line_offset = (rect.y + row) * stride + rect.x * bytes_per_pixel
      /\ offset = y * stride + x * bytes_per_pixel
  BY DEF DrawInv, SetPixel
<1>2. /\ rect' = rect /\ color' = color /\ row' = row /\ line_offset' = line_offset
      /\ before' = before /\ buffer' = set_pixel(buffer, offset, color)
      /\ IF offset + 2 < buffer_len
         THEN offset' = offset + bytes_per_pixel /\ col' = col + 1 /\ pc' = pc
         ELSE pc' = "panicked" /\ offset' = offset /\ col' = col
  BY DEF SetPixel
<1>3. /\ width \in Nat /\ height \in Nat /\ stride \in Nat /\ bytes_per_pixel \in Nat
      /\ bytes_per_pixel >= 3 /\ buffer_len = height * stride
  BY DEF SoundScreen, buffer_len
<1>4. x \in 0..(width - 1) /\ y \in Nat
  <2>1. /\ rect.x \in Nat /\ rect.y \in Nat /\ rect.w \in Nat /\ row \in Nat /\ col \in Nat
        /\ col < rect.w /\ rect.x + rect.w <= width
    BY <1>1
  <2>2. width \in Nat
    BY <1>3
  <2> QED BY <2>1, <2>2
<1>5. /\ offset \in Nat /\ y * stride \in Nat /\ offset + 2 < y * stride + stride
      /\ height <= y => buffer_len <= y * stride
      /\ y < height => y * stride + stride <= buffer_len
      /\ buffer_len \in Nat
  <2> DEFINE u == x * bytes_per_pixel
             n == y * stride
             l == height * stride
  <2>1. u \in Nat /\ u + 2 < stride
    <3>1. 2 \in 0..2
      OBVIOUS
    <3> QED BY <1>4, <3>1, InLine
  <2>2. n \in Nat /\ l \in Nat /\ (height <= y => l <= n) /\ (y < height => n + stride <= l)
    BY <1>3, <1>4, Times
  <2>3. offset = n + u /\ buffer_len = l
    BY <1>0, <1>3
  <2> HIDE DEF u, n, l
  <2>4. /\ offset \in Nat /\ n \in Nat /\ offset + 2 < n + stride
        /\ height <= y => buffer_len <= n
        /\ y < height => n + stride <= buffer_len
        /\ buffer_len \in Nat
    BY <1>3, <2>1, <2>2, <2>3
  <2> QED BY <2>4 DEF n
<1>6. \A b \in 0..2 : PixelByte(x, y, b) = offset + b
  BY <1>0 DEF PixelByte
<1>7. InRect(x, y)
  BY <1>1 DEF InRect
<1>8. /\ DOMAIN buffer' = DOMAIN buffer
      /\ \A i \in DOMAIN buffer :
           buffer'[i] = IF i - offset \in 0..2 THEN Channel(color, i - offset) ELSE buffer[i]
  BY <1>2 DEF set_pixel
<1>9. offset + 2 < buffer_len <=> y < height
  <2> DEFINE n == y * stride
  <2>1. /\ n \in Nat /\ offset + 2 < n + stride /\ offset >= n
        /\ height <= y => buffer_len <= n
        /\ y < height => n + stride <= buffer_len
    <3>1. offset >= n
      <4> DEFINE u == x * bytes_per_pixel
      <4>1. u \in Nat
        BY <1>3, <1>4
      <4>2. offset = n + u
        BY <1>0
      <4> HIDE DEF u, n
      <4>3. n \in Nat
        BY <1>5 DEF n
      <4> QED BY <4>1, <4>2, <4>3
    <3> QED BY <1>5, <3>1
  <2> HIDE DEF n, y
  <2> QED BY <1>3, <1>4, <1>5, <2>1
<1> HIDE DEF x, y
<1>10. Untouched'
  <2> SUFFICES ASSUME NEW i \in DOMAIN buffer, buffer'[i] # before[i]
               PROVE  \E px \in 0..(width - 1), py \in 0..(height - 1), b \in 0..2 :
                        InRect(px, py) /\ i = PixelByte(px, py, b)
    BY <1>2, <1>8 DEF Untouched, InRect
  <2>2. CASE buffer[i] # before[i]
    BY <1>1, <2>2, SMTT(30) DEF Untouched
  <2>3. CASE i - offset \in 0..2
    <3>1. i \in Nat /\ i < buffer_len /\ i = offset + (i - offset)
      BY <1>1, <1>5
    <3>2. i = PixelByte(x, y, i - offset)
      BY <1>6, <2>3, <3>1
    <3>3. y < height
      <4>1. ASSUME height <= y PROVE FALSE
        <5>1. buffer_len <= offset
          <6> DEFINE n == y * stride
                     u == x * bytes_per_pixel
          <6>1. buffer_len <= n /\ n \in Nat
            BY <1>5, <4>1
          <6>2. u \in Nat /\ offset = n + u
            <7>1. x \in Nat
              BY <1>4
            <7> QED BY <1>0, <1>3, <7>1, Times DEF x, y
          <6> HIDE DEF n, u
          <6> QED BY <1>5, <6>1, <6>2
        <5> QED BY <1>5, <2>3, <3>1, <5>1
      <4> QED BY <1>3, <1>4, <4>1
    <3>4. y \in 0..(height - 1)
      BY <1>3, <1>4, <3>3
    <3> QED BY <1>4, <1>7, <2>3, <3>2, <3>4
  <2> QED BY <1>8, <2>2, <2>3
<1>11. CASE y < height
  <2>1. /\ pc' = "drawing" /\ col' = col + 1 /\ offset' = offset + bytes_per_pixel
    BY <1>1, <1>2, <1>9, <1>11
  <2>2. offset' = (rect.y + row') * stride + (rect.x + col') * bytes_per_pixel
    <3>1. rect.x + col' = x + 1 /\ rect.y + row' = y /\ x \in Nat
      <4>1. row' = row /\ col' = col + 1
        BY <1>2, <2>1
      <4> QED BY <1>1, <4>1 DEF x, y
    <3> DEFINE n == y * stride
               u == x * bytes_per_pixel
    <3>2. (x + 1) * bytes_per_pixel = u + bytes_per_pixel /\ u \in Nat
      BY <1>3, <3>1, Times
    <3>3. offset = n + u /\ n \in Nat
      BY <1>0, <1>5 DEF x, y
    <3>4. offset' = n + (u + bytes_per_pixel)
      <4> HIDE DEF n, u
      <4> QED BY <1>3, <2>1, <3>2, <3>3
    <3> QED BY <3>1, <3>2, <3>4
  <2>3. Painted'
    <3> SUFFICES ASSUME NEW px \in 0..(width - 1), NEW py \in 0..(height - 1), NEW b \in 0..2,
                        InRect(px, py)', Passed(px, py)'
                 PROVE  buffer'[PixelByte(px, py, b)] = Channel(color, b)
      BY <1>2 DEF Painted
    <3>1. px \in Nat /\ py \in Nat
      OBVIOUS
    <3>2. PixelByte(px, py, b) \in DOMAIN buffer
      <4> DEFINE u == px * bytes_per_pixel
                 n == py * stride
      <4>1. u \in Nat /\ u + b < stride
        BY InLine
      <4>2. n \in Nat /\ n + stride <= buffer_len
        BY <1>3, <3>1, Times
      <4> HIDE DEF u, n
      <4>3. n + u + b \in 0..(buffer_len - 1)
        BY <1>3, <1>5, <4>1, <4>2
      <4> QED BY <1>1, <4>3 DEF PixelByte, u, n
    <3>3. CASE px = x /\ py = y
      <4>1. PixelByte(px, py, b) = offset + b /\ (offset + b) - offset = b
        BY <1>5, <1>6, <3>3
      <4> QED BY <1>8, <3>2, <4>1
    <3>4. CASE ~(px = x /\ py = y)
      <4>1. InRect(px, py) /\ Passed(px, py)
        <5>1. rect' = rect /\ row' = row /\ col' = col + 1
          BY <1>2, <2>1
        <5>2. InRect(px, py)
          BY <5>1 DEF InRect
        <5>3. py < rect.y + row \/ (py = rect.y + row /\ px < rect.x + (col + 1))
          BY <5>1 DEF Passed
        <5>4. px # x \/ py # y
          BY <3>4
        <5>5. Passed(px, py)
          <6>1. rect.x \in Nat /\ rect.y \in Nat /\ row \in Nat /\ col \in Nat
            BY <1>1
          <6>2. px \in Int /\ py \in Int
            BY <3>1
          <6> QED BY <5>3, <5>4, <6>1, <6>2 DEF Passed, x, y
        <5> QED BY <5>2, <5>5
      <4>2. buffer[PixelByte(px, py, b)] = Channel(color, b)
        BY <1>1, <4>1 DEF Painted
      <4>3. PixelByte(px, py, b) - offset \notin 0..2
        <5>1. ASSUME NEW k \in 0..2, PixelByte(px, py, b) - offset = k PROVE FALSE
          <6>1. PixelByte(px, py, b) \in Int
            BY <1>1, <3>2
          <6>2. PixelByte(px, py, b) = PixelByte(x, y, k)
            BY <1>5, <1>6, <5>1, <6>1
          <6> QED BY <1>4, <3>1, <3>4, <6>2, PixelBytes
        <5> QED BY <5>1
      <4> QED BY <1>8, <3>2, <4>2, <4>3
    <3> QED BY <3>3, <3>4
  <2>4. col' \in Nat /\ col' <= rect.w
    BY <1>1, <2>1
  <2> QED BY <1>0, <1>1, <1>2, <1>8, <1>10, <2>1, <2>2, <2>3, <2>4 DEF DrawInv
<1>12. CASE ~(y < height)
  <2>1. pc' = "panicked" /\ col' = col
    BY <1>2, <1>9, <1>12
  <2>2. rect.y + rect.h > height
    <3>1. ~(rect.y + row < height)
      BY <1>12 DEF y
    <3> QED BY <1>1, <1>3, <3>1
  <2> QED BY <1>1, <1>2, <1>8, <1>10, <2>1, <2>2 DEF DrawInv
<1> QED BY <1>11, <1>12

(* The next line starts one stride after the last one. *)
LEMMA NextLineKeeps ==
  ASSUME SoundScreen, DrawInv, NextLine
  PROVE  DrawInv'
<1>1. /\ rect.x \in Nat /\ rect.y \in Nat /\ rect.w \in Nat /\ rect.h \in Nat
      /\ row \in Nat /\ row < rect.h /\ col = rect.w
      /\ rect.x + rect.w <= width /\ pc = "drawing" /\ Painted
      /\ stride \in Nat /\ bytes_per_pixel \in Nat /\ width \in Nat /\ height \in Nat
  BY DEF DrawInv, NextLine, SoundScreen
<1>0. line_offset = (rect.y + row) * stride + rect.x * bytes_per_pixel
  BY DEF DrawInv, NextLine
<1>2. /\ row' = row + 1 /\ col' = 0 /\ line_offset' = line_offset + stride
      /\ offset' = line_offset + stride
      /\ buffer' = buffer /\ pc' = pc /\ rect' = rect /\ color' = color /\ before' = before
  BY DEF NextLine
<1>3. line_offset + stride = (rect.y + (row + 1)) * stride + rect.x * bytes_per_pixel
  <2> DEFINE n == (rect.y + row) * stride
             u == rect.x * bytes_per_pixel
  <2>1. rect.y + row \in Nat /\ rect.y + (row + 1) = (rect.y + row) + 1
    BY <1>1
  <2>2. n \in Nat /\ u \in Nat /\ ((rect.y + row) + 1) * stride = n + stride
    BY <1>1, <2>1, Times
  <2>3. line_offset = n + u
    BY <1>0
  <2> HIDE DEF n, u
  <2>4. line_offset + stride = (n + stride) + u
    BY <1>1, <2>2, <2>3
  <2> QED BY <2>1, <2>2, <2>4 DEF u
<1>4. Painted'
  <2>1. ASSUME NEW px \in 0..(width - 1), NEW py \in 0..(height - 1),
               InRect(px, py)', Passed(px, py)'
        PROVE  InRect(px, py) /\ Passed(px, py)
    <3>1. InRect(px, py)
      BY <1>2, <2>1 DEF InRect
    <3>2. py < rect.y + (row + 1) \/ (py = rect.y + (row + 1) /\ px < rect.x + 0)
      BY <1>2, <2>1 DEF Passed
    <3>3. px \in Nat /\ py \in Nat /\ px >= rect.x /\ px < rect.x + rect.w
      BY <3>1 DEF InRect
    <3>4. Passed(px, py)
      BY <1>1, <3>2, <3>3 DEF Passed
    <3> QED BY <3>1, <3>4
  <2> QED BY <1>1, <1>2, <2>1 DEF Painted
<1>5. Untouched'
  BY <1>2 DEF DrawInv, Untouched, InRect
<1>6. /\ row' \in Nat /\ col' \in Nat /\ row' <= rect.h /\ col' <= rect.w /\ rect.x + 0 = rect.x
  BY <1>1, <1>2
<1> QED BY <1>1, <1>2, <1>3, <1>4, <1>5, <1>6 DEF DrawInv

(* Every step keeps the invariant. *)
LEMMA DrawStepKeeps ==
  ASSUME SoundScreen, height <= width, DrawInv, [DrawNext]_drawVars
  PROVE  DrawInv'
<1>1. CASE InitGraphics
  <2>1. Rect(0, 0, width, height) \in [x : Nat, y : Nat, w : Nat, h : Nat]
    BY DEF Rect, SoundScreen
  <2> QED BY <1>1, <2>1, CallKeeps DEF InitGraphics
<1>2. ASSUME NEW a \in Coordinates, NEW b \in Coordinates, NEW c \in Coordinates,
             NEW d \in Coordinates, TestDrawRect(a, b, c, d)
      PROVE  DrawInv'
  <2>1. \A i \in Coordinates : as_usize(i) \in Nat
    <3>1. \A s \in Nat \ {0}, i \in Int : i % s \in Nat
      OBVIOUS
    <3> QED BY <3>1 DEF as_usize, SoundScreen
  <2>2. Rect(as_usize(a), as_usize(b), as_usize(c), as_usize(d)) \in [x : Nat, y : Nat, w : Nat, h : Nat]
    BY <2>1 DEF Rect
  <2> QED BY <1>2, <2>2, CallKeeps DEF TestDrawRect
<1>3. CASE SetPixel
  BY <1>3, SetPixelKeeps
<1>4. CASE NextLine
  BY <1>4, NextLineKeeps
<1>5. CASE Return
  <2>1. /\ UNCHANGED <<buffer, rect, color, row, col, line_offset, offset, before>>
        /\ pc = "drawing" /\ pc' = "idle" /\ row = rect.h
    BY <1>5 DEF Return
  <2>2. Untouched /\ Painted
    BY <2>1 DEF DrawInv
  <2>3. Untouched'
    BY <2>1, <2>2 DEF Untouched, InRect, PixelByte
  <2>4. Painted'
    BY <2>1, <2>2 DEF Painted, Passed, InRect, PixelByte
  <2> QED BY <2>1, <2>3, <2>4 DEF DrawInv
<1>6. CASE DrawHltLoop \/ UNCHANGED drawVars
  <2>1. UNCHANGED drawVars
    BY <1>6 DEF DrawHltLoop
  <2>2. (Painted' <=> Painted) /\ (Untouched' <=> Untouched)
    BY <2>1 DEF drawVars, Untouched, Painted, Passed, InRect
  <2> QED BY <2>1, <2>2 DEF drawVars, DrawInv
<1> QED BY <1>1, <1>2, <1>3, <1>4, <1>5, <1>6 DEF DrawNext

(* Whatever programs draw: what changes is inside the rectangle, when draw_rect returns
   all of the rectangle on the screen has the colour, and it panics only for a rectangle
   that is not on the screen. *)
THEOREM RectanglesAreDrawn ==
  ASSUME SoundScreen, height <= width
  PROVE  DrawSpec => []DrawsRectangle
<1>1. DrawInit => DrawInv
  BY DEF DrawInit, DrawInv, Untouched, Rect
<1>2. DrawInv /\ [DrawNext]_drawVars => DrawInv'
  BY DrawStepKeeps
<1>3. DrawInv => DrawsRectangle
  <2> SUFFICES ASSUME DrawInv PROVE DrawsRectangle
    OBVIOUS
  <2>1. ASSUME pc = "idle", NEW px \in 0..(width - 1), NEW py \in 0..(height - 1), NEW b \in 0..2,
               InRect(px, py)
        PROVE  buffer[PixelByte(px, py, b)] = Channel(color, b)
    <3>1. Passed(px, py)
      BY <2>1 DEF DrawInv, InRect, Passed
    <3> QED BY <2>1, <3>1 DEF DrawInv, Painted
  <2>2. Untouched
    BY DEF DrawInv
  <2>3. pc = "panicked" => rect.x + rect.w > width \/ rect.y + rect.h > height
    BY DEF DrawInv
  <2> QED BY <2>1, <2>2, <2>3 DEF DrawsRectangle, Untouched
<1> QED BY <1>1, <1>2, <1>3, PTL DEF DrawSpec
=============================================================================
