----------------------------- MODULE Framebuffer -----------------------------
(***************************************************************************)
(* Drawing on the frame buffer (kernel/src/graphics/mod.rs): the fill at   *)
(* boot, then the rectangles that a program of the language asks for       *)
(* through test_draw_rect (kernel/src/vm/mod.rs).                          *)
(***************************************************************************)
EXTENDS Integers, FiniteSets

CONSTANTS width, height,      \* in pixels
          stride,             \* in bytes
          bytes_per_pixel,
          UsizeMod,           \* 2^64 in the code
          Coordinates         \* the i64 values that programs pass

VARIABLES buffer,        \* the bytes of the frame buffer
          pc,            \* "off", "idle", "drawing" or "panicked"
          rect, color,   \* the arguments of draw_rect
          row, col,      \* the turns its two loops have made
          line_offset, offset,
          before         \* the frame buffer when draw_rect was called

drawVars == <<buffer, pc, rect, color, row, col, line_offset, offset, before>>

buffer_len == height * stride

(* What FrameBufferInfo describes: a line of the buffer has room for the pixels of a line
   of the screen, and a pixel for its three channels. *)
SoundScreen ==
  /\ width \in Nat /\ height \in Nat /\ stride \in Nat /\ bytes_per_pixel \in Nat
  /\ bytes_per_pixel >= 3 /\ width * bytes_per_pixel <= stride
  /\ UsizeMod \in Nat \ {0} /\ width < UsizeMod /\ buffer_len < UsizeMod
  /\ Coordinates \subseteq Int

hex(h) == [red |-> (h \div 65536) % 256, green |-> (h \div 256) % 256, blue |-> h % 256]
Grey == hex(1118481)                                \* 0x111111
Purple == [red |-> 81, green |-> 45, blue |-> 168]  \* of test_draw_rect

as_usize(i) == i % UsizeMod

Rect(x, y, w, h) == [x |-> x, y |-> y, w |-> w, h |-> h]

(* The two assertions; in a debug build a sum beyond usize panics as well. *)
Accepted(r) == /\ r.x + r.w < UsizeMod /\ r.x + r.w <= width
               /\ r.y + r.h < UsizeMod /\ r.y + r.h <= width

(* Mutant: the row starts at the left edge of the screen. *)
FirstOffsetLeft(r) == r.y * stride

FirstOffset(r) == r.y * stride + r.x * bytes_per_pixel

draw_rect(r, c) ==
  /\ IF Accepted(r)
     THEN pc' = "drawing" /\ line_offset' = FirstOffset(r) /\ offset' = FirstOffset(r)
     ELSE pc' = "panicked" /\ UNCHANGED <<line_offset, offset>>
  /\ rect' = r /\ color' = c /\ row' = 0 /\ col' = 0 /\ before' = buffer
  /\ UNCHANGED buffer

DrawInit == /\ buffer = [i \in 0..(buffer_len - 1) |-> 0] /\ before = buffer
            /\ pc = "off" /\ rect = Rect(0, 0, 0, 0) /\ color = Grey
            /\ row = 0 /\ col = 0 /\ line_offset = 0 /\ offset = 0

InitGraphics == pc = "off" /\ draw_rect(Rect(0, 0, width, height), Grey)

TestDrawRect(x, y, w, h) ==
  pc = "idle" /\ draw_rect(Rect(as_usize(x), as_usize(y), as_usize(w), as_usize(h)), Purple)

Channel(c, b) == CASE b = 0 -> c.blue [] b = 1 -> c.green [] b = 2 -> c.red

set_pixel(buf, o, c) ==
  [i \in DOMAIN buf |-> IF i - o \in 0..2 THEN Channel(c, i - o) ELSE buf[i]]

(* An index beyond the slice panics, after the bytes that lie inside were set. *)
SetPixel == /\ pc = "drawing" /\ row < rect.h /\ col < rect.w
            /\ buffer' = set_pixel(buffer, offset, color)
            /\ IF offset + 2 < buffer_len
               THEN offset' = offset + bytes_per_pixel /\ col' = col + 1 /\ UNCHANGED pc
               ELSE pc' = "panicked" /\ UNCHANGED <<offset, col>>
            /\ UNCHANGED <<rect, color, row, line_offset, before>>

NextLine == /\ pc = "drawing" /\ row < rect.h /\ col = rect.w
            /\ row' = row + 1 /\ col' = 0
            /\ line_offset' = line_offset + stride /\ offset' = line_offset'
            /\ UNCHANGED <<buffer, pc, rect, color, before>>

Return == /\ pc = "drawing" /\ row = rect.h
          /\ pc' = "idle"
          /\ UNCHANGED <<buffer, rect, color, row, col, line_offset, offset, before>>

DrawHltLoop == pc = "panicked" /\ UNCHANGED drawVars

DrawNext == \/ InitGraphics \/ SetPixel \/ NextLine \/ Return \/ DrawHltLoop
            \/ \E x, y, w, h \in Coordinates : TestDrawRect(x, y, w, h)

DrawSpec == DrawInit /\ [][DrawNext]_drawVars

-----------------------------------------------------------------------------
(* Properties. *)

InRect(px, py) == px >= rect.x /\ px < rect.x + rect.w /\ py >= rect.y /\ py < rect.y + rect.h

(* The pixels of the screen, and the bytes of one. *)
PixelByte(px, py, b) == py * stride + px * bytes_per_pixel + b

(* What draw_rect does: at any time the bytes that have changed are those of pixels of
   the rectangle, so that no line runs on into the next one or into the padding; when
   it returns, all of them have the colour; and it panics, before or half way, only if
   the rectangle is not on the screen. *)
DrawsRectangle ==
  /\ \A i \in DOMAIN buffer : buffer[i] # before[i] =>
       \E px \in 0..(width - 1), py \in 0..(height - 1), b \in 0..2 :
         InRect(px, py) /\ i = PixelByte(px, py, b)
  /\ pc = "idle" =>
       \A px \in 0..(width - 1), py \in 0..(height - 1), b \in 0..2 :
         InRect(px, py) => buffer[PixelByte(px, py, b)] = Channel(color, b)
  /\ pc = "panicked" => rect.x + rect.w > width \/ rect.y + rect.h > height

(* What init_graphics says it does ("Fill screen with very light grey"): the boot
   gets past it with every pixel grey. *)
FillsScreen == pc = "panicked" => color # Grey
=============================================================================
