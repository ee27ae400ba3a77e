------------------------------- MODULE Screen -------------------------------
(***************************************************************************)
(* The console on the frame buffer: ScrollingWriter, which keeps the text  *)
(* on the screen, and the FrameBufferWriter under it, which draws glyphs.  *)
(* The lock of the console makes every text one; the turn of write_str's   *)
(* loop for one character is an action.                                    *)
(*                                                                         *)
(* The buffer is a flat array of pixels: the bytes of a pixel are one, and *)
(* a pixel lit by a glyph names the glyph and the place in it.             *)
(***************************************************************************)
EXTENDS Integers, Sequences

CONSTANTS Width, Height,            \* of the screen, in pixels
          Stride,                   \* pixels from one row to the next
          CharWidth, LineHeight,    \* 8 and 16
          Char,                     \* characters, Newline among them
          Newline, Space,
          Glyphs                    \* the characters of which the font has a glyph

\* No screen is smaller than two lines: the first newline would move y_pos
\* below zero.
ASSUME SizeAssumption ==
  /\ {Width, Height, Stride, CharWidth, LineHeight} \subseteq Nat \ {0}
  /\ CharWidth <= Width /\ Width <= Stride /\ 2 * LineHeight <= Height
ASSUME CharAssumption == Newline \in Char /\ Space \in Glyphs /\ Glyphs \subseteq Char \ {Newline}

VARIABLES buffer, x_pos, y_pos
vars == <<buffer, x_pos, y_pos>>

Offset == 0 .. (Height * Stride) - 1
Black == <<>>
GlyphX == 0 .. CharWidth - 1
GlyphY == 0 .. LineHeight - 1

\* get_raster, or the space's for a character without a glyph
GlyphOf(c) == IF c \in Glyphs THEN c ELSE Space
Ink(c, x, y) == IF GlyphOf(c) = Space THEN Black ELSE <<c, x, y>>

\* The writer, as a value that the functions below take and return
Writer == [buffer |-> buffer, x_pos |-> x_pos, y_pos |-> y_pos]

\* copy_within, then the last line is filled with 0
ScrolledByWidth(w) ==   \* mutant: a row is taken to be as long as the screen is wide
  [w EXCEPT !.y_pos = @ - LineHeight,
            !.buffer = [i \in Offset |->
               IF i < (Height - LineHeight) * Stride
                 THEN w.buffer[i + (LineHeight * Width)] ELSE Black]]
ScrolledUncleared(w) == \* mutant: the last line is left as it was
  [w EXCEPT !.y_pos = @ - LineHeight,
            !.buffer = [i \in Offset |->
               IF i < (Height - LineHeight) * Stride
                 THEN w.buffer[i + (LineHeight * Stride)] ELSE w.buffer[i]]]
Scrolled(w) ==
  [w EXCEPT !.y_pos = @ - LineHeight,
            !.buffer = [i \in Offset |->
               IF i < (Height - LineHeight) * Stride
                 THEN w.buffer[i + (LineHeight * Stride)] ELSE Black]]

\* The two tests of write_str, before a character is written
MadeRoom(w) == IF w.y_pos + LineHeight > Height THEN Scrolled(w) ELSE w
Breaks(w, c) == c = Newline \/ w.x_pos + CharWidth > Width
LooksOneLineAhead(w, c) ==   \* mutant: the line to come is not counted
  IF Breaks(w, c) /\ w.y_pos + LineHeight > Height THEN Scrolled(w) ELSE w
MadeRoomForBreak(w, c) ==
  IF Breaks(w, c) /\ w.y_pos + (2 * LineHeight) > Height THEN Scrolled(w) ELSE w

NewLine(w) == [w EXCEPT !.x_pos = 0, !.y_pos = @ + LineHeight]

\* write_pixel, of each pixel of the glyph: those beyond the buffer are dropped
PixelOffset(w, x, y) == ((w.y_pos + y) * Stride) + w.x_pos + x
Drawn(w, c) ==
  [w EXCEPT !.x_pos = @ + CharWidth,
            !.buffer = [i \in Offset |->
               IF \E x \in GlyphX, y \in GlyphY : i = PixelOffset(w, x, y)
                 THEN LET p == CHOOSE p \in GlyphX \X GlyphY : i = PixelOffset(w, p[1], p[2])
                      IN  Ink(c, p[1], p[2])
                 ELSE w.buffer[i]]]

\* write_char
Written(w, c) ==
  IF c = Newline THEN NewLine(w)
  ELSE Drawn(IF w.x_pos + CharWidth > Width THEN NewLine(w) ELSE w, c)

WriteChar(c) ==
  LET w == Written(MadeRoomForBreak(MadeRoom(Writer), c), c)
  IN  buffer' = w.buffer /\ x_pos' = w.x_pos /\ y_pos' = w.y_pos

-----------------------------------------------------------------------------

Init == buffer = [i \in Offset |-> Black] /\ x_pos = 0 /\ y_pos = 0

Next == \E c \in Char : WriteChar(c)

Spec == Init /\ [][Next]_vars

-----------------------------------------------------------------------------
(* Properties                                                              *)

Pixel == {Black} \cup (Glyphs \X GlyphX \X GlyphY)
TypeOK ==
  /\ buffer \in [Offset -> Pixel]
  /\ x_pos \in 0 .. Width
  /\ y_pos \in 0 .. Height - LineHeight

\* The cursor stays at the top left of a cell: with that, what a scroll takes off
\* y_pos is never more than there is (mod.rs:38), for a newline as for a break.
IInv == /\ TypeOK /\ y_pos \in {k * LineHeight : k \in 0 .. Height}
        /\ x_pos \in {k * CharWidth : k \in 0 .. Width}

Rows == Height \div LineHeight
Cols == Width \div CharWidth
At(x, y) == buffer[(y * Stride) + x]

\* Every pixel that is lit is where its glyph has it, in a cell of a line that
\* is in use: nothing in the margins, below the cursor or, by a wrong offset,
\* in another row (framebuffer_writer.rs:70, mod.rs:22).
OnlyGlyphs ==
  \A x \in 0 .. Stride - 1, y \in 0 .. Height - 1 : At(x, y) # Black =>
    /\ x < Cols * CharWidth /\ y < y_pos + LineHeight
    /\ At(x, y)[2] = x % CharWidth /\ At(x, y)[3] = y % LineHeight

\* The character whose whole glyph is in a cell
Shows(c, col, row) == \A x \in GlyphX, y \in GlyphY :
  At((col * CharWidth) + x, (row * LineHeight) + y) = Ink(c, x, y)
CharAt(col, row) ==
  IF \E c \in Glyphs : Shows(c, col, row)
    THEN CHOOSE c \in Glyphs : Shows(c, col, row) ELSE "garbled"

\* The lines down to the cursor's, and the cursor's column
lines == [r \in 1 .. (y_pos \div LineHeight) + 1 |->
            [k \in 1 .. Cols |-> CharAt(k - 1, r - 1)]]
column == x_pos \div CharWidth

Text == INSTANCE Terminal WITH Char <- Glyphs

\* What can be read on the screen is the end of what was written, on lines that
\* wrap at its edge, whatever the sizes leave over at the right and the bottom.
ImplementsTerminal == Text!Spec
=============================================================================
