---------------------------- MODULE ScreenProofs ----------------------------
(***************************************************************************)
(* Proofs about Screen, for every size of screen, row and character: the   *)
(* cursor never leaves the lines of the screen, above or below; every      *)
(* pixel that is lit is a glyph's, in its place; and the screen shows what *)
(* Terminal has, the last lines of the text.                               *)
(***************************************************************************)
EXTENDS Screen, SequenceTheorems, TLAPS

-----------------------------------------------------------------------------
(* Numbers                                                                 *)

\* A number is a multiple of d and a rest in one way.
LEMMA SplitOnce ==
  ASSUME NEW d \in Nat \ {0}, NEW q \in Int, NEW r \in Int,
         NEW m \in 0 .. d - 1, NEW n \in 0 .. d - 1, q * d + m = r * d + n
  PROVE  q = r /\ m = n
<1>1. d * (q - r) = n - m
  OBVIOUS
<1>2. ~(q - r >= 1)
  <2>1. SUFFICES ASSUME q - r >= 1 PROVE FALSE
    OBVIOUS
  <2>2. d * (q - r) >= d
    BY <2>1
  <2>3. QED
    BY <1>1, <2>2
<1>3. ~(q - r <= -1)
  <2>1. SUFFICES ASSUME q - r <= -1 PROVE FALSE
    OBVIOUS
  <2>2. d * (q - r) <= -d
    BY <2>1
  <2>3. QED
    BY <1>1, <2>2
<1>4. q = r
  BY <1>2, <1>3
<1>5. QED
  BY <1>1, <1>4

LEMMA Split ==
  ASSUME NEW d \in Nat \ {0}, NEW a \in Nat
  PROVE  a \div d \in Nat /\ a % d \in 0 .. d - 1 /\ a = (a \div d) * d + (a % d)
OBVIOUS

LEMMA Rest ==
  ASSUME NEW d \in Nat \ {0}, NEW q \in Nat, NEW m \in 0 .. d - 1
  PROVE  (q * d + m) \div d = q /\ (q * d + m) % d = m
<1> DEFINE a == q * d + m
<1>1. a \in Nat
  OBVIOUS
<1> DEFINE r == a \div d
           n == a % d
<1>2. r \in Nat /\ n \in 0 .. d - 1 /\ a = r * d + n
  BY <1>1, Split
<1> HIDE DEF r, n
<1>3. q = r /\ m = n
  BY <1>2, SplitOnce
<1>4. QED
  BY <1>3 DEF r, n

-----------------------------------------------------------------------------
(* The cursor                                                              *)

\* The tops of lines, and the left edges of their cells
Top == {k * LineHeight : k \in 0 .. Height}
Left == {k * CharWidth : k \in 0 .. Width}
WriterType == [buffer: [Offset -> Pixel], x_pos: 0 .. Width, y_pos: 0 .. Height - LineHeight]

\* The pixel that is a line further down is in the buffer.
LEMMA LineBelow ==
  ASSUME NEW i \in Offset, i < (Height - LineHeight) * Stride
  PROVE  i + (LineHeight * Stride) \in Offset
<1>1. (Height - LineHeight) * Stride = (Height * Stride) - (LineHeight * Stride)
  BY SizeAssumption
<1>2. Height * Stride \in Int /\ LineHeight * Stride \in Nat
  BY SizeAssumption
<1>3. QED
  BY <1>1, <1>2 DEF Offset

\* The line above a line that is not the first has its top a line higher.
LEMMA TopAbove ==
  ASSUME NEW y \in Top, y > 0
  PROVE  y - LineHeight \in Top /\ y >= LineHeight
<1>1. PICK k \in 0 .. Height : y = k * LineHeight
  BY DEF Top
<1>2. k # 0
  BY <1>1, SizeAssumption
<1>3. k - 1 \in 0 .. Height /\ (k - 1) * LineHeight = (k * LineHeight) - LineHeight
  BY <1>2, SizeAssumption
<1>4. (k - 1) * LineHeight >= 0
  BY <1>3, SizeAssumption
<1>5. QED
  BY <1>1, <1>3, <1>4, SizeAssumption DEF Top

\* The line below, if it is on the screen
LEMMA TopBelow ==
  ASSUME NEW y \in Top, y + LineHeight <= Height
  PROVE  y + LineHeight \in Top
<1>1. PICK k \in 0 .. Height : y = k * LineHeight
  BY DEF Top
<1>2. (k + 1) * LineHeight = y + LineHeight
  BY <1>1, SizeAssumption
<1>3. k + 1 <= (k + 1) * LineHeight
  BY <1>1, SizeAssumption
<1>4. (k + 1) * LineHeight \in Int
  BY <1>1, SizeAssumption
<1>5. k + 1 \in 0 .. Height
  BY <1>2, <1>3, <1>4, SizeAssumption
<1>6. QED
  BY <1>2, <1>5 DEF Top

\* The cell to the right, or the edge of the screen
LEMMA LeftNext ==
  ASSUME NEW x \in Left, x + CharWidth <= Width
  PROVE  x + CharWidth \in Left
<1>1. PICK k \in 0 .. Width : x = k * CharWidth
  BY DEF Left
<1>2. (k + 1) * CharWidth = x + CharWidth
  BY <1>1, SizeAssumption
<1>3. k + 1 <= (k + 1) * CharWidth
  BY <1>1, SizeAssumption
<1>4. (k + 1) * CharWidth \in Int
  BY <1>1, SizeAssumption
<1>5. k + 1 \in 0 .. Width
  BY <1>2, <1>3, <1>4, SizeAssumption
<1>6. QED
  BY <1>2, <1>5 DEF Left

LEMMA FirstCell == 0 \in Top /\ 0 \in Left
<1>1. 0 = 0 * LineHeight /\ 0 \in 0 .. Height /\ 0 = 0 * CharWidth /\ 0 \in 0 .. Width
  BY SizeAssumption
<1>2. QED
  BY <1>1 DEF Top, Left

\* A scroll takes a line off a writer that is not on the first.
LEMMA ScrolledOk ==
  ASSUME NEW w \in WriterType, w.y_pos \in Top, w.y_pos > 0
  PROVE  /\ Scrolled(w) \in WriterType /\ Scrolled(w).y_pos \in Top
         /\ Scrolled(w).y_pos = w.y_pos - LineHeight /\ Scrolled(w).x_pos = w.x_pos
<1> DEFINE b == [i \in Offset |->
               IF i < (Height - LineHeight) * Stride
                 THEN w.buffer[i + (LineHeight * Stride)] ELSE Black]
<1>1. w.buffer \in [Offset -> Pixel] /\ w.x_pos \in 0 .. Width
        /\ w.y_pos \in 0 .. Height - LineHeight
  BY DEF WriterType
<1>2. b \in [Offset -> Pixel]
  BY <1>1, LineBelow DEF Pixel
<1>3. Scrolled(w) = [w EXCEPT !.y_pos = w.y_pos - LineHeight, !.buffer = b]
  BY DEF Scrolled
<1> HIDE DEF b
<1>4. w.y_pos - LineHeight \in Top /\ w.y_pos >= LineHeight
  BY TopAbove
<1>5. w.y_pos - LineHeight \in 0 .. Height - LineHeight
  BY <1>1, <1>4, SizeAssumption
<1> DEFINE y == w.y_pos - LineHeight
           v == [w EXCEPT !.y_pos = y, !.buffer = b]
<1>6. y \in 0 .. Height - LineHeight /\ y \in Top /\ Scrolled(w) = v
  BY <1>3, <1>4, <1>5
<1> HIDE DEF y
<1>7. v \in WriterType /\ v.x_pos = w.x_pos /\ v.y_pos = y
  BY <1>2, <1>6 DEF WriterType
<1> HIDE DEF v
<1>8. QED
  BY <1>6, <1>7 DEF y

\* After both tests there is room for the character, and for the line that it
\* is going to begin.
LEMMA RoomOk ==
  ASSUME NEW w \in WriterType, w.y_pos \in Top, NEW c \in Char
  PROVE  LET r == MadeRoomForBreak(MadeRoom(w), c)
         IN  /\ r \in WriterType /\ r.y_pos \in Top /\ r.x_pos = w.x_pos
             /\ Breaks(r, c) => r.y_pos + (2 * LineHeight) <= Height
<1>1. w.y_pos \in 0 .. Height - LineHeight
  BY DEF WriterType
<1>2. MadeRoom(w) = w
  BY <1>1, SizeAssumption DEF MadeRoom
<1>3. CASE Breaks(w, c) /\ w.y_pos + (2 * LineHeight) > Height
  <2>1. w.y_pos > 0
    BY <1>1, <1>3, SizeAssumption
  <2>2. MadeRoomForBreak(w, c) = Scrolled(w)
    BY <1>3 DEF MadeRoomForBreak
  <2>3. Scrolled(w).y_pos + (2 * LineHeight) <= Height
    BY <1>1, <2>1, ScrolledOk, SizeAssumption
  <2>4. QED
    BY <1>2, <2>1, <2>2, <2>3, ScrolledOk
<1>4. CASE ~(Breaks(w, c) /\ w.y_pos + (2 * LineHeight) > Height)
  <2>1. MadeRoomForBreak(w, c) = w
    BY <1>4 DEF MadeRoomForBreak
  <2>2. Breaks(w, c) => w.y_pos + (2 * LineHeight) <= Height
    BY <1>1, <1>4, SizeAssumption
  <2>3. QED
    BY <1>2, <2>1, <2>2
<1>5. QED
  BY <1>3, <1>4

\* A newline, where there is room for it
LEMMA NewLineOk ==
  ASSUME NEW w \in WriterType, w.y_pos \in Top, w.y_pos + (2 * LineHeight) <= Height
  PROVE  /\ NewLine(w) \in WriterType /\ NewLine(w).y_pos \in Top
         /\ NewLine(w).x_pos = 0 /\ NewLine(w).y_pos = w.y_pos + LineHeight
         /\ NewLine(w).buffer = w.buffer
<1>1. w.y_pos \in 0 .. Height - LineHeight
  BY DEF WriterType
<1>2. NewLine(w) = [w EXCEPT !.x_pos = 0, !.y_pos = w.y_pos + LineHeight]
  BY DEF NewLine
<1>3. w.y_pos + LineHeight \in Top /\ w.y_pos + LineHeight \in 0 .. Height - LineHeight
  BY <1>1, TopBelow, SizeAssumption
<1>4. 0 \in 0 .. Width
  BY SizeAssumption
<1> DEFINE y == w.y_pos + LineHeight
           v == [w EXCEPT !.x_pos = 0, !.y_pos = y]
<1>5. y \in 0 .. Height - LineHeight /\ y \in Top /\ NewLine(w) = v
  BY <1>2, <1>3
<1> HIDE DEF y
<1>6. v \in WriterType /\ v.x_pos = 0 /\ v.y_pos = y /\ v.buffer = w.buffer
  BY <1>4, <1>5 DEF WriterType
<1> HIDE DEF v
<1>7. QED
  BY <1>5, <1>6 DEF y

\* A glyph, where there is room for it
LEMMA DrawnOk ==
  ASSUME NEW w \in WriterType, w.y_pos \in Top, w.x_pos + CharWidth <= Width,
         NEW c \in Char
  PROVE  /\ Drawn(w, c) \in WriterType /\ Drawn(w, c).y_pos = w.y_pos
         /\ Drawn(w, c).x_pos = w.x_pos + CharWidth
<1> DEFINE Lit(i) == \E x \in GlyphX, y \in GlyphY : i = PixelOffset(w, x, y)
           p(i) == CHOOSE q \in GlyphX \X GlyphY : i = PixelOffset(w, q[1], q[2])
           b == [i \in Offset |-> IF Lit(i) THEN Ink(c, p(i)[1], p(i)[2]) ELSE w.buffer[i]]
<1>1. w.buffer \in [Offset -> Pixel] /\ w.x_pos \in 0 .. Width
        /\ w.y_pos \in 0 .. Height - LineHeight
  BY DEF WriterType
<1>2. ASSUME NEW x \in GlyphX, NEW y \in GlyphY
      PROVE  Ink(c, x, y) \in Pixel
  BY CharAssumption DEF Ink, GlyphOf, Pixel
<1>3. ASSUME NEW i \in Offset, Lit(i)
      PROVE  p(i) \in GlyphX \X GlyphY
  <2>1. PICK x \in GlyphX, y \in GlyphY : i = PixelOffset(w, x, y)
    BY <1>3
  <2>2. <<x, y>> \in GlyphX \X GlyphY /\ i = PixelOffset(w, <<x, y>>[1], <<x, y>>[2])
    BY <2>1
  <2> HIDE DEF Lit
  <2>3. QED
    BY <2>2
<1>4. Drawn(w, c) = [w EXCEPT !.x_pos = w.x_pos + CharWidth, !.buffer = b]
  BY DEF Drawn
<1> HIDE DEF Lit, p
<1>5. ASSUME NEW i \in Offset, Lit(i)
      PROVE  Ink(c, p(i)[1], p(i)[2]) \in Pixel
  BY <1>2, <1>3, <1>5
<1>6. b \in [Offset -> Pixel]
  BY <1>1, <1>5
<1> HIDE DEF b
<1>7. w.x_pos + CharWidth \in 0 .. Width
  BY <1>1, SizeAssumption
<1> DEFINE right == w.x_pos + CharWidth
           v == [w EXCEPT !.x_pos = right, !.buffer = b]
<1>8. right \in 0 .. Width /\ Drawn(w, c) = v
  BY <1>4, <1>7
<1> HIDE DEF right
<1>9. v \in WriterType /\ v.y_pos = w.y_pos /\ v.x_pos = right
  BY <1>6, <1>8 DEF WriterType
<1> HIDE DEF v
<1>10. QED
  BY <1>8, <1>9 DEF right

\* A writer whose cursor is at the top left of a cell, or at the end of a line
Placed(w) == w \in WriterType /\ w.y_pos \in Top /\ w.x_pos \in Left

\* What is written where there is room: a newline, or a glyph, on the same line or
\* on a new one.
LEMMA WrittenIs ==
  ASSUME NEW w, Placed(w), NEW c \in Char, Breaks(w, c) => w.y_pos + (2 * LineHeight) <= Height
  PROVE  \/ c = Newline /\ Written(w, c) = NewLine(w)
         \/ /\ c # Newline /\ w.x_pos + CharWidth > Width
            /\ Placed(NewLine(w)) /\ NewLine(w).x_pos + CharWidth <= Width
            /\ Written(w, c) = Drawn(NewLine(w), c)
         \/ /\ c # Newline /\ w.x_pos + CharWidth <= Width
            /\ Written(w, c) = Drawn(w, c)
<1>1. CASE c = Newline
  BY <1>1 DEF Written
<1>2. CASE c # Newline /\ w.x_pos + CharWidth > Width
  <2>1. NewLine(w) \in WriterType /\ NewLine(w).y_pos \in Top /\ NewLine(w).x_pos = 0
    BY <1>2, NewLineOk DEF Breaks, Placed
  <2>2. NewLine(w).x_pos + CharWidth <= Width
    BY <2>1, SizeAssumption
  <2>3. QED
    BY <1>2, <2>1, <2>2, FirstCell DEF Written, Placed
<1>3. CASE c # Newline /\ ~(w.x_pos + CharWidth > Width)
  <2>1. w.x_pos + CharWidth <= Width
    BY <1>3, SizeAssumption DEF WriterType, Placed
  <2>2. QED
    BY <1>3, <2>1 DEF Written
<1>4. QED
  BY <1>1, <1>2, <1>3

\* Every character leaves the cursor in its place.
LEMMA WrittenPlaced ==
  ASSUME NEW w, Placed(w), NEW c \in Char, Breaks(w, c) => w.y_pos + (2 * LineHeight) <= Height
  PROVE  Placed(Written(w, c))
<1>1. CASE c = Newline
  BY <1>1, NewLineOk, FirstCell DEF Written, Breaks, Placed
<1>2. ASSUME NEW u, Placed(u), u.x_pos + CharWidth <= Width
      PROVE  Placed(Drawn(u, c))
  BY <1>2, DrawnOk, LeftNext DEF Placed
<1>3. QED
  BY <1>1, <1>2, WrittenIs

LEMMA RoomPlaced ==
  ASSUME NEW w, Placed(w), NEW c \in Char, NEW r, r = MadeRoomForBreak(MadeRoom(w), c)
  PROVE  /\ Placed(r)
         /\ Breaks(r, c) => r.y_pos + (2 * LineHeight) <= Height
         /\ \/ r = w
            \/ /\ r = Scrolled(w) /\ w.y_pos > 0 /\ Breaks(w, c)
               /\ w.y_pos + (2 * LineHeight) > Height
<1>1. w.y_pos \in 0 .. Height - LineHeight
  BY DEF WriterType, Placed
<1>2. MadeRoom(w) = w
  BY <1>1, SizeAssumption DEF MadeRoom
<1>3. w.y_pos + (2 * LineHeight) > Height => w.y_pos > 0
  BY <1>1, SizeAssumption
<1>4. QED
  BY <1>2, <1>3, RoomOk DEF Placed, MadeRoomForBreak

LEMMA PlacedWriter == IInv => Placed(Writer)
BY DEF Placed, Writer, WriterType, IInv, TypeOK, Top, Left

LEMMA StepInv == IInv /\ [Next]_vars => IInv'
<1> SUFFICES ASSUME IInv, [Next]_vars PROVE IInv'
  OBVIOUS
<1>1. CASE UNCHANGED vars
  BY <1>1 DEF vars, IInv, TypeOK
<1>2. ASSUME NEW c \in Char, WriteChar(c)
      PROVE  IInv'
  <2> DEFINE r == MadeRoomForBreak(MadeRoom(Writer), c)
             u == Written(r, c)
  <2>1. Placed(r) /\ (Breaks(r, c) => r.y_pos + (2 * LineHeight) <= Height)
    BY PlacedWriter, RoomPlaced
  <2>2. buffer' = u.buffer /\ x_pos' = u.x_pos /\ y_pos' = u.y_pos
    BY <1>2 DEF WriteChar
  <2> HIDE DEF r
  <2>3. Placed(u)
    BY <2>1, WrittenPlaced
  <2> HIDE DEF u
  <2>4. QED
    BY <2>2, <2>3 DEF Placed, IInv, TypeOK, WriterType, Top, Left
<1>3. QED
  BY <1>1, <1>2 DEF Next

\* The empty screen
LEMMA InitInv == Init => IInv
<1> SUFFICES ASSUME Init PROVE IInv
  OBVIOUS
<1>1. TypeOK
  BY SizeAssumption DEF Init, TypeOK, Pixel
<1>2. QED
  BY <1>1, FirstCell DEF IInv, Init, Top, Left

\* Whatever is written, on a screen of any size with room for two lines, the
\* cursor is at the top left of a cell, or at the end of a line that is full.
THEOREM Invariant == Spec => []IInv
BY InitInv, StepInv, PTL DEF Spec

\* No glyph is begun above, below or beside the screen, and y_pos never wraps.
THEOREM TypeCorrect == Spec => []TypeOK
<1>1. IInv => TypeOK
  BY DEF IInv
<1>2. QED
  BY <1>1, Invariant, PTL

-----------------------------------------------------------------------------
(* Pixels                                                                  *)

X == 0 .. Stride - 1
Y == 0 .. Height - 1
PixelAt(w, x, y) == w.buffer[(y * Stride) + x]

\* A pixel has one offset, and an offset one pixel.
LEMMA OffsetOf ==
  ASSUME NEW x \in X, NEW y \in Y
  PROVE  /\ (y * Stride) + x \in Offset
         /\ \A h \in 0 .. Height : (y * Stride) + x < h * Stride <=> y < h
<1>1. x \in Nat /\ x < Stride /\ y \in Nat /\ y + 1 <= Height /\ Stride \in Nat \ {0} /\ Height \in Nat
  BY SizeAssumption DEF X, Y
<1>2. ASSUME NEW h \in 0 .. Height
      PROVE  (y * Stride) + x < h * Stride <=> y < h
  <2>1. CASE y < h
    <3>1. (y + 1) * Stride <= h * Stride /\ (y + 1) * Stride = (y * Stride) + Stride
      BY <1>1, <2>1
    <3>2. h * Stride \in Int /\ y * Stride \in Int
      BY <1>1
    <3>3. QED
      BY <1>1, <2>1, <3>1, <3>2
  <2>2. CASE ~(y < h)
    <3>1. h * Stride <= y * Stride
      BY <1>1, <2>2
    <3>2. h * Stride \in Int /\ y * Stride \in Int
      BY <1>1
    <3>3. QED
      BY <1>1, <2>2, <3>1, <3>2
  <2>3. QED
    BY <2>1, <2>2
<1>3. (y * Stride) + x < Height * Stride
  BY <1>1, <1>2
<1>4. y * Stride \in Nat /\ Height * Stride \in Nat
  BY <1>1
<1>5. QED
  BY <1>1, <1>2, <1>3, <1>4 DEF Offset

\* What a scroll shows
LEMMA ScrolledPixels ==
  ASSUME NEW w, Placed(w), w.y_pos > 0, NEW x \in X, NEW y \in Y
  PROVE  PixelAt(Scrolled(w), x, y) =
           IF y < Height - LineHeight THEN PixelAt(w, x, y + LineHeight) ELSE Black
<1> DEFINE b == [i \in Offset |->
               IF i < (Height - LineHeight) * Stride
                 THEN w.buffer[i + (LineHeight * Stride)] ELSE Black]
           i == (y * Stride) + x
<1>1. Scrolled(w).buffer = b
  BY DEF Scrolled, Placed, WriterType
<1>2. i \in Offset /\ (i < (Height - LineHeight) * Stride <=> y < Height - LineHeight)
  BY OffsetOf, SizeAssumption
<1>3. i + (LineHeight * Stride) = ((y + LineHeight) * Stride) + x
  BY SizeAssumption DEF X, Y
<1> HIDE DEF i
<1>4. b[i] = IF y < Height - LineHeight THEN w.buffer[i + (LineHeight * Stride)] ELSE Black
  BY <1>2
<1> HIDE DEF b
<1>5. QED
  BY <1>1, <1>3, <1>4 DEF PixelAt, i

\* Where the glyph is drawn
InGlyph(w, x, y) == /\ w.x_pos <= x /\ x < w.x_pos + CharWidth
                    /\ w.y_pos <= y /\ y < w.y_pos + LineHeight

LEMMA DrawnPixels ==
  ASSUME NEW w, Placed(w), w.x_pos + CharWidth <= Width, NEW c \in Char,
         NEW x \in X, NEW y \in Y
  PROVE  PixelAt(Drawn(w, c), x, y) =
           IF InGlyph(w, x, y) THEN Ink(c, x - w.x_pos, y - w.y_pos) ELSE PixelAt(w, x, y)
<1> DEFINE Lit(i) == \E gx \in GlyphX, gy \in GlyphY : i = PixelOffset(w, gx, gy)
           p(i) == CHOOSE q \in GlyphX \X GlyphY : i = PixelOffset(w, q[1], q[2])
           b == [i \in Offset |-> IF Lit(i) THEN Ink(c, p(i)[1], p(i)[2]) ELSE w.buffer[i]]
           i == (y * Stride) + x
<1>1. Drawn(w, c).buffer = b
  BY DEF Drawn, Placed, WriterType
<1>2. /\ w.x_pos \in Nat /\ w.y_pos \in Nat /\ x \in Nat /\ y \in Nat /\ x < Stride
      /\ i \in Offset
  BY SizeAssumption, OffsetOf DEF Placed, WriterType, X, Y
<1>3. ASSUME NEW gx \in GlyphX, NEW gy \in GlyphY
      PROVE  i = PixelOffset(w, gx, gy) <=> x = w.x_pos + gx /\ y = w.y_pos + gy
  <2>1. /\ w.x_pos + gx \in 0 .. Stride - 1 /\ x \in 0 .. Stride - 1
        /\ w.y_pos + gy \in Int /\ Stride \in Nat \ {0} /\ gx \in Nat /\ gy \in Nat
    BY <1>2, SizeAssumption DEF GlyphX, GlyphY
  <2>2. PixelOffset(w, gx, gy) = ((w.y_pos + gy) * Stride) + (w.x_pos + gx)
    BY <1>2, <2>1 DEF PixelOffset
  <2> DEFINE ox == w.x_pos + gx
             oy == w.y_pos + gy
  <2>3. ox \in 0 .. Stride - 1 /\ oy \in Int /\ PixelOffset(w, gx, gy) = (oy * Stride) + ox
    BY <2>1, <2>2
  <2> HIDE DEF ox, oy
  <2>4. i = (oy * Stride) + ox <=> x = ox /\ y = oy
    <3>1. ASSUME (y * Stride) + x = (oy * Stride) + ox PROVE x = ox /\ y = oy
      <4>1. y \in Int /\ x \in 0 .. Stride - 1 /\ Stride \in Nat \ {0}
        BY <1>2, <2>1
      <4>2. QED
        BY <2>3, <3>1, <4>1, SplitOnce
    <3>2. QED
      BY <3>1
  <2>5. QED
    BY <2>3, <2>4 DEF ox, oy
<1> HIDE DEF i
<1>4. b[i] = IF Lit(i) THEN Ink(c, p(i)[1], p(i)[2]) ELSE w.buffer[i]
  BY <1>2
<1>5. CASE InGlyph(w, x, y)
  <2>1. /\ x - w.x_pos \in GlyphX /\ y - w.y_pos \in GlyphY
        /\ x = w.x_pos + (x - w.x_pos) /\ y = w.y_pos + (y - w.y_pos)
    BY <1>2, <1>5, SizeAssumption DEF InGlyph, GlyphX, GlyphY
  <2> DEFINE q == <<x - w.x_pos, y - w.y_pos>>
  <2>2. q \in GlyphX \X GlyphY /\ i = PixelOffset(w, q[1], q[2]) /\ Lit(i)
    BY <1>3, <2>1
  <2>3. p(i) \in GlyphX \X GlyphY /\ i = PixelOffset(w, p(i)[1], p(i)[2])
    <3> HIDE DEF q, Lit
    <3> QED  BY <2>2
  <2> HIDE DEF p, b, Lit
  <2>4. p(i)[1] \in GlyphX /\ p(i)[2] \in GlyphY
    BY <2>3
  <2>5. x = w.x_pos + p(i)[1] /\ y = w.y_pos + p(i)[2]
    BY <1>3, <2>3, <2>4
  <2>6. p(i)[1] = x - w.x_pos /\ p(i)[2] = y - w.y_pos
    BY <1>2, <2>4, <2>5, SizeAssumption DEF GlyphX, GlyphY
  <2>7. b[i] = Ink(c, x - w.x_pos, y - w.y_pos)
    BY <1>4, <2>2, <2>6
  <2>8. QED
    BY <1>1, <1>5, <2>7 DEF PixelAt, i
<1>6. CASE ~InGlyph(w, x, y)
  <2>1. ~Lit(i)
    <3>1. SUFFICES ASSUME NEW gx \in GlyphX, NEW gy \in GlyphY, i = PixelOffset(w, gx, gy)
                   PROVE  FALSE
      OBVIOUS
    <3>2. x = w.x_pos + gx /\ y = w.y_pos + gy
      BY <1>3, <3>1
    <3>3. QED
      BY <1>2, <1>6, <3>2, SizeAssumption DEF InGlyph, GlyphX, GlyphY
  <2> HIDE DEF p, b, Lit
  <2>2. b[i] = w.buffer[i]
    BY <1>4, <2>1
  <2>3. QED
    BY <1>1, <1>6, <2>2 DEF PixelAt, i
<1>7. QED
  BY <1>5, <1>6

-----------------------------------------------------------------------------
(* Only glyphs                                                             *)

\* OnlyGlyphs, of a writer
Clean(w) ==
  \A x \in X, y \in Y : PixelAt(w, x, y) # Black =>
    /\ x < Cols * CharWidth /\ y < w.y_pos + LineHeight
    /\ PixelAt(w, x, y)[2] = x % CharWidth /\ PixelAt(w, x, y)[3] = y % LineHeight

\* A cell that is on the screen is in one of its columns.
LEMMA Column ==
  ASSUME NEW x \in Left, x + CharWidth <= Width
  PROVE  /\ x \div CharWidth \in 0 .. Cols - 1 /\ x = (x \div CharWidth) * CharWidth
         /\ x + CharWidth <= Cols * CharWidth
         /\ \A g \in GlyphX : (x + g) % CharWidth = g
<1>1. PICK k \in 0 .. Width : x = k * CharWidth
  BY DEF Left
<1>2. CharWidth \in Nat \ {0} /\ Width \in Nat
  BY SizeAssumption
<1>3. /\ Cols \in Nat /\ Width % CharWidth \in 0 .. CharWidth - 1
      /\ Width = (Cols * CharWidth) + (Width % CharWidth)
  BY <1>2, Split DEF Cols
<1> DEFINE m == Width % CharWidth
<1>4. m \in 0 .. CharWidth - 1 /\ Width = (Cols * CharWidth) + m
  BY <1>3
<1> HIDE DEF m
<1>5. k + 1 <= Cols
  <2>1. SUFFICES ASSUME Cols <= k PROVE FALSE
    BY <1>3
  <2>2. Cols * CharWidth <= k * CharWidth
    BY <1>2, <1>3, <2>1
  <2>3. QED
    BY <1>1, <1>2, <1>3, <1>4, <2>2
<1>6. x + CharWidth <= Cols * CharWidth
  <2>1. (k + 1) * CharWidth <= Cols * CharWidth /\ (k + 1) * CharWidth = x + CharWidth
    BY <1>1, <1>2, <1>3, <1>5
  <2>2. QED
    BY <2>1
<1>7. \A g \in GlyphX : (x + g) % CharWidth = g
  BY <1>1, <1>2, Rest DEF GlyphX
<1>8. x \div CharWidth = k
  <2>1. 0 \in 0 .. CharWidth - 1 /\ k * CharWidth + 0 = x
    BY <1>1, <1>2
  <2>2. QED
    BY <1>1, <1>2, <2>1, Rest
<1>9. QED
  BY <1>1, <1>3, <1>5, <1>6, <1>7, <1>8

LEMMA LineOf ==
  ASSUME NEW y \in Top
  PROVE  /\ y \div LineHeight \in Nat /\ y = (y \div LineHeight) * LineHeight
         /\ \A g \in GlyphY : (y + g) % LineHeight = g
<1>1. PICK k \in 0 .. Height : y = k * LineHeight
  BY DEF Top
<1>2. LineHeight \in Nat \ {0} /\ Height \in Nat
  BY SizeAssumption
<1>3. \A g \in GlyphY : (y + g) % LineHeight = g
  BY <1>1, <1>2, Rest DEF GlyphY
<1>4. y \div LineHeight = k
  <2>1. 0 \in 0 .. LineHeight - 1 /\ k * LineHeight + 0 = y
    BY <1>1, <1>2
  <2>2. QED
    BY <1>1, <1>2, <2>1, Rest
<1>5. QED
  BY <1>1, <1>3, <1>4

\* The places in a glyph are the same a line further down.
LEMMA SameInLine ==
  ASSUME NEW y \in Nat
  PROVE  (y + LineHeight) % LineHeight = y % LineHeight
<1>1. LineHeight \in Nat \ {0}
  BY SizeAssumption
<1> DEFINE q == y \div LineHeight
           m == y % LineHeight
<1>2. q \in Nat /\ m \in 0 .. LineHeight - 1 /\ y = q * LineHeight + m
  BY <1>1, Split
<1> HIDE DEF q, m
<1>3. y + LineHeight = (q + 1) * LineHeight + m /\ q + 1 \in Nat
  BY <1>1, <1>2
<1>4. ((q + 1) * LineHeight + m) % LineHeight = m
  BY <1>1, <1>2, <1>3, Rest
<1>5. QED
  BY <1>3, <1>4 DEF m

LEMMA ScrolledClean ==
  ASSUME NEW w, Placed(w), w.y_pos > 0, Clean(w)
  PROVE  Clean(Scrolled(w))
<1>1. Scrolled(w).y_pos = w.y_pos - LineHeight /\ w.y_pos \in Nat
  BY ScrolledOk, SizeAssumption DEF Placed, WriterType
<1> SUFFICES ASSUME NEW x \in X, NEW y \in Y, PixelAt(Scrolled(w), x, y) # Black
             PROVE  /\ x < Cols * CharWidth /\ y < Scrolled(w).y_pos + LineHeight
                    /\ PixelAt(Scrolled(w), x, y)[2] = x % CharWidth
                    /\ PixelAt(Scrolled(w), x, y)[3] = y % LineHeight
  BY DEF Clean
<1>2. y < Height - LineHeight /\ PixelAt(Scrolled(w), x, y) = PixelAt(w, x, y + LineHeight)
  BY ScrolledPixels
<1>3. y \in Nat /\ y + LineHeight \in Y
  BY <1>2, SizeAssumption DEF Y
<1>4. /\ x < Cols * CharWidth /\ y + LineHeight < w.y_pos + LineHeight
      /\ PixelAt(w, x, y + LineHeight)[2] = x % CharWidth
      /\ PixelAt(w, x, y + LineHeight)[3] = (y + LineHeight) % LineHeight
  BY <1>2, <1>3 DEF Clean
<1>5. y < Scrolled(w).y_pos + LineHeight
  BY <1>1, <1>3, <1>4, SizeAssumption
<1>6. QED
  BY <1>2, <1>3, <1>4, <1>5, SameInLine

LEMMA NewLineClean ==
  ASSUME NEW w, Placed(w), w.y_pos + (2 * LineHeight) <= Height, Clean(w)
  PROVE  Clean(NewLine(w))
<1>1. NewLine(w).y_pos = w.y_pos + LineHeight /\ NewLine(w).buffer = w.buffer /\ w.y_pos \in Nat
  BY NewLineOk, SizeAssumption DEF Placed, WriterType
<1>2. \A x \in X, y \in Y : PixelAt(NewLine(w), x, y) = PixelAt(w, x, y)
  BY <1>1 DEF PixelAt
<1>3. \A y \in Y : y < w.y_pos + LineHeight => y < NewLine(w).y_pos + LineHeight
  BY <1>1, SizeAssumption DEF Y
<1>4. QED
  BY <1>2, <1>3 DEF Clean

LEMMA DrawnClean ==
  ASSUME NEW w, Placed(w), w.x_pos + CharWidth <= Width, NEW c \in Char, Clean(w)
  PROVE  Clean(Drawn(w, c))
<1>1. Drawn(w, c).y_pos = w.y_pos
  BY DrawnOk DEF Placed
<1> SUFFICES ASSUME NEW x \in X, NEW y \in Y, PixelAt(Drawn(w, c), x, y) # Black
             PROVE  /\ x < Cols * CharWidth /\ y < w.y_pos + LineHeight
                    /\ PixelAt(Drawn(w, c), x, y)[2] = x % CharWidth
                    /\ PixelAt(Drawn(w, c), x, y)[3] = y % LineHeight
  BY <1>1 DEF Clean
<1>2. CASE ~InGlyph(w, x, y)
  <2>1. PixelAt(Drawn(w, c), x, y) = PixelAt(w, x, y)
    BY <1>2, DrawnPixels
  <2>2. QED
    BY <2>1 DEF Clean
<1>3. CASE InGlyph(w, x, y)
  <2> DEFINE gx == x - w.x_pos
             gy == y - w.y_pos
  <2>1. PixelAt(Drawn(w, c), x, y) = Ink(c, gx, gy)
    BY <1>3, DrawnPixels
  <2>2. /\ gx \in GlyphX /\ gy \in GlyphY /\ x = w.x_pos + gx /\ y = w.y_pos + gy
        /\ w.x_pos \in Left /\ w.y_pos \in Top
        /\ x < w.x_pos + CharWidth /\ y < w.y_pos + LineHeight /\ x \in Nat /\ w.x_pos \in Nat
    BY <1>3, SizeAssumption DEF InGlyph, GlyphX, GlyphY, X, Y, Placed, WriterType
  <2> HIDE DEF gx, gy
  <2>3. x % CharWidth = gx /\ y % LineHeight = gy
    BY <2>2, Column, LineOf
  <2>4. x < Cols * CharWidth
    <3>1. w.x_pos + CharWidth <= Cols * CharWidth
      BY <2>2, Column
    <3>2. Cols * CharWidth \in Int
      BY SizeAssumption DEF Cols
    <3>3. QED
      BY <2>2, <3>1, <3>2, SizeAssumption
  <2>5. Ink(c, gx, gy) = <<c, gx, gy>>
    BY <2>1 DEF Ink
  <2>6. Ink(c, gx, gy)[2] = gx /\ Ink(c, gx, gy)[3] = gy
    BY <2>5
  <2>7. QED
    BY <2>1, <2>2, <2>3, <2>4, <2>6
<1>4. QED
  BY <1>2, <1>3

LEMMA WrittenClean ==
  ASSUME NEW w, Placed(w), Clean(w), NEW c \in Char,
         Breaks(w, c) => w.y_pos + (2 * LineHeight) <= Height
  PROVE  Clean(Written(w, c))
<1>1. CASE c = Newline
  BY <1>1, NewLineClean DEF Written, Breaks
<1>2. CASE c # Newline /\ w.x_pos + CharWidth > Width
  <2>1. Clean(NewLine(w))
    BY <1>2, NewLineClean DEF Breaks
  <2>2. QED
    BY <1>1, <1>2, <2>1, WrittenIs, DrawnClean
<1>3. CASE w.x_pos + CharWidth <= Width
  BY <1>1, <1>2, <1>3, WrittenIs, DrawnClean
<1>4. QED
  BY <1>1, <1>2, <1>3, WrittenIs

LEMMA CleanWriter == Clean(Writer) <=> OnlyGlyphs
BY DEF Clean, OnlyGlyphs, Writer, PixelAt, At, X, Y

LEMMA StepClean == IInv /\ OnlyGlyphs /\ [Next]_vars => OnlyGlyphs'
<1> SUFFICES ASSUME IInv, OnlyGlyphs, [Next]_vars PROVE OnlyGlyphs'
  OBVIOUS
<1>1. CASE UNCHANGED vars
  BY <1>1 DEF vars, OnlyGlyphs, At
<1>2. ASSUME NEW c \in Char, WriteChar(c)
      PROVE  OnlyGlyphs'
  <2> DEFINE r == MadeRoomForBreak(MadeRoom(Writer), c)
             u == Written(r, c)
  <2>1. /\ Placed(r) /\ (Breaks(r, c) => r.y_pos + (2 * LineHeight) <= Height)
        /\ r = Writer \/ (r = Scrolled(Writer) /\ Writer.y_pos > 0)
    BY PlacedWriter, RoomPlaced
  <2>2. buffer' = u.buffer /\ x_pos' = u.x_pos /\ y_pos' = u.y_pos
    BY <1>2 DEF WriteChar
  <2> HIDE DEF r
  <2>3. Clean(r)
    BY <2>1, PlacedWriter, CleanWriter, ScrolledClean
  <2>4. Clean(u)
    BY <2>1, <2>3, WrittenClean
  <2> HIDE DEF u
  <2>5. QED
    BY <2>2, <2>4 DEF Clean, OnlyGlyphs, PixelAt, At, X, Y
<1>3. QED
  BY <1>1, <1>2 DEF Next

\* Nothing is lit at first.
LEMMA LitInit == Init => OnlyGlyphs
<1>1. ASSUME Init, NEW x \in X, NEW y \in Y PROVE At(x, y) = Black
  BY <1>1, OffsetOf DEF Init, At
<1>2. QED
  BY <1>1 DEF OnlyGlyphs, X, Y

\* Every pixel that is lit is where its glyph has it, in a cell of a line in use:
\* no offset that write_pixel computes is in another row, a scroll moves every row
\* by a line, and leaves nothing in the line that it makes.
THEOREM LitByGlyphs == Spec => []OnlyGlyphs
BY LitInit, Invariant, StepClean, PTL DEF Spec

-----------------------------------------------------------------------------
(* Cells                                                                   *)

Cell == (0 .. Cols - 1) \X (0 .. Rows - 1)
CellX(col, x) == (col * CharWidth) + x
CellY(row, y) == (row * LineHeight) + y

\* Shows and CharAt, of a writer
Showing(w, c, col, row) == \A x \in GlyphX, y \in GlyphY :
  PixelAt(w, CellX(col, x), CellY(row, y)) = Ink(c, x, y)
Reading(w, col, row) ==
  IF \E c \in Glyphs : Showing(w, c, col, row)
    THEN CHOOSE c \in Glyphs : Showing(w, c, col, row) ELSE "garbled"

LineIn(w) == w.y_pos \div LineHeight
ColumnIn(w) == w.x_pos \div CharWidth
Readable(w) == \A col \in 0 .. Cols - 1, row \in 0 .. LineIn(w) :
  \E c \in Glyphs : Showing(w, c, col, row)

\* How many columns and lines there are
LEMMA Grid ==
  /\ Cols \in Nat \ {0} /\ Rows \in Nat \ {0} /\ Rows >= 2
  /\ \A k \in Nat : k <= Cols <=> k * CharWidth <= Width
  /\ \A k \in Nat : k <= Rows <=> k * LineHeight <= Height
<1>1. /\ CharWidth \in Nat \ {0} /\ Width \in Nat /\ LineHeight \in Nat \ {0} /\ Height \in Nat
      /\ CharWidth <= Width /\ 2 * LineHeight <= Height
  BY SizeAssumption
<1>2. ASSUME NEW d \in Nat \ {0}, NEW a \in Nat, NEW k \in Nat
      PROVE  k <= a \div d <=> k * d <= a
  <2> DEFINE q == a \div d
             m == a % d
  <2>1. q \in Nat /\ m \in 0 .. d - 1 /\ a = q * d + m
    BY Split
  <2> HIDE DEF q, m
  <2>2. CASE k <= q
    <3>1. k * d <= q * d
      BY <2>1, <2>2
    <3>2. QED
      BY <2>1, <2>2, <3>1 DEF q
  <2>3. CASE ~(k <= q)
    <3>1. (q + 1) * d <= k * d /\ (q + 1) * d = q * d + d
      BY <2>1, <2>3
    <3>2. QED
      BY <2>1, <2>3, <3>1 DEF q
  <2>4. QED
    BY <2>2, <2>3
<1>3. Cols \in Nat /\ Rows \in Nat
  BY <1>1, Split DEF Cols, Rows
<1>4. \A k \in Nat : k <= Cols <=> k * CharWidth <= Width
  BY <1>1, <1>2 DEF Cols
<1>5. \A k \in Nat : k <= Rows <=> k * LineHeight <= Height
  BY <1>1, <1>2 DEF Rows
<1>6. 1 <= Cols /\ 2 <= Rows
  <2>1. 1 * CharWidth <= Width
    BY <1>1
  <2>2. QED
    BY <1>1, <1>4, <1>5, <2>1
<1>7. QED
  BY <1>3, <1>4, <1>5, <1>6

LEMMA CellPixels ==
  ASSUME NEW col \in 0 .. Cols - 1, NEW row \in 0 .. Rows - 1, NEW x \in GlyphX, NEW y \in GlyphY
  PROVE  CellX(col, x) \in X /\ CellY(row, y) \in Y
<1>1. /\ CharWidth \in Nat \ {0} /\ Width \in Nat /\ LineHeight \in Nat \ {0} /\ Height \in Nat
      /\ Stride \in Nat /\ Width <= Stride /\ Cols \in Nat /\ Rows \in Nat
  BY SizeAssumption, Grid
<1>2. col + 1 \in Nat /\ col + 1 <= Cols /\ row + 1 \in Nat /\ row + 1 <= Rows
      /\ col \in Nat /\ row \in Nat
  BY <1>1
<1>3. (col + 1) * CharWidth <= Width /\ (row + 1) * LineHeight <= Height
  BY <1>2, Grid
<1>4. /\ (col + 1) * CharWidth = (col * CharWidth) + CharWidth
      /\ (row + 1) * LineHeight = (row * LineHeight) + LineHeight
      /\ col * CharWidth \in Nat /\ row * LineHeight \in Nat
  BY <1>1, <1>2
<1>5. QED
  BY <1>1, <1>3, <1>4 DEF CellX, CellY, X, Y, GlyphX, GlyphY

\* The cursor's line is one of the screen's, and there is another below it if
\* there is room for it.
LEMMA CursorCell ==
  ASSUME NEW w, Placed(w)
  PROVE  /\ LineIn(w) \in 0 .. Rows - 1 /\ w.y_pos = LineIn(w) * LineHeight
         /\ w.y_pos + (2 * LineHeight) <= Height <=> LineIn(w) + 2 <= Rows
         /\ ColumnIn(w) \in 0 .. Cols /\ w.x_pos = ColumnIn(w) * CharWidth
         /\ w.x_pos + CharWidth <= Width <=> ColumnIn(w) < Cols
<1>1. /\ CharWidth \in Nat \ {0} /\ Width \in Nat /\ LineHeight \in Nat \ {0} /\ Height \in Nat
      /\ Cols \in Nat /\ Rows \in Nat
  BY SizeAssumption, Grid
<1>2. LineIn(w) \in Nat /\ w.y_pos = LineIn(w) * LineHeight /\ w.y_pos \in 0 .. Height - LineHeight
  BY LineOf DEF LineIn, Placed, WriterType
<1>3. ColumnIn(w) \in Nat /\ w.x_pos = ColumnIn(w) * CharWidth /\ w.x_pos \in 0 .. Width
  <2>1. PICK k \in 0 .. Width : w.x_pos = k * CharWidth
    BY DEF Placed, Left
  <2>2. k \in Nat /\ 0 \in 0 .. CharWidth - 1 /\ k * CharWidth + 0 = w.x_pos
    BY <1>1, <2>1
  <2>3. ColumnIn(w) = k
    BY <1>1, <2>2, Rest DEF ColumnIn
  <2>4. QED
    BY <2>1, <2>2, <2>3 DEF Placed, WriterType
<1> DEFINE k == LineIn(w)
           j == ColumnIn(w)
<1>4. k \in Nat /\ w.y_pos = k * LineHeight /\ j \in Nat /\ w.x_pos = j * CharWidth
  BY <1>2, <1>3
<1> HIDE DEF k, j
<1>5. /\ (k + 1) * LineHeight = w.y_pos + LineHeight
      /\ (k + 2) * LineHeight = w.y_pos + (2 * LineHeight)
      /\ (j + 1) * CharWidth = w.x_pos + CharWidth
  BY <1>1, <1>4
<1>6. /\ k + 1 <= Rows <=> (k + 1) * LineHeight <= Height
      /\ k + 2 <= Rows <=> (k + 2) * LineHeight <= Height
      /\ j <= Cols <=> j * CharWidth <= Width
      /\ j + 1 <= Cols <=> (j + 1) * CharWidth <= Width
  BY <1>4, Grid
<1>7. k + 1 <= Rows /\ j <= Cols
  BY <1>1, <1>2, <1>3, <1>4, <1>5, <1>6
<1>8. QED
  BY <1>1, <1>4, <1>5, <1>6, <1>7 DEF k, j

\* No two glyphs look the same, and a character looks like its glyph.
LEMMA InkOnce ==
  ASSUME NEW c \in Glyphs, NEW d \in Glyphs,
         \A x \in GlyphX, y \in GlyphY : Ink(c, x, y) = Ink(d, x, y)
  PROVE  c = d
<1>1. 0 \in GlyphX /\ 0 \in GlyphY
  BY SizeAssumption DEF GlyphX, GlyphY
<1>2. Ink(c, 0, 0) = Ink(d, 0, 0)
  BY <1>1
<1>3. \A e \in Glyphs : Ink(e, 0, 0) = IF e = Space THEN <<>> ELSE <<e, 0, 0>>
  BY DEF Ink, GlyphOf, Black
<1>4. \A e \in Glyphs : <<e, 0, 0>> # <<>> /\ <<e, 0, 0>>[1] = e
  OBVIOUS
<1>5. QED
  BY <1>2, <1>3, <1>4

LEMMA InkOfGlyph ==
  ASSUME NEW c \in Char
  PROVE  /\ GlyphOf(c) \in Glyphs
         /\ \A x, y : Ink(c, x, y) = Ink(GlyphOf(c), x, y)
BY CharAssumption DEF Ink, GlyphOf

\* What a cell shows can be read.
LEMMA Reads ==
  ASSUME NEW w, NEW c \in Glyphs, NEW col, NEW row, Showing(w, c, col, row)
  PROVE  Reading(w, col, row) = c
<1> DEFINE d == CHOOSE e \in Glyphs : Showing(w, e, col, row)
<1>1. d \in Glyphs /\ Showing(w, d, col, row)
  OBVIOUS
<1>2. Reading(w, col, row) = d
  BY DEF Reading
<1> HIDE DEF d
<1>3. d = c
  BY <1>1, InkOnce DEF Showing
<1>4. QED
  BY <1>2, <1>3

\* Where the pixels are the same, so is what can be read.
LEMMA SameReading ==
  ASSUME NEW w, NEW v, NEW col, NEW row, NEW pcol, NEW prow,
         \E c \in Glyphs : Showing(w, c, pcol, prow),
         \A x \in GlyphX, y \in GlyphY :
           PixelAt(v, CellX(col, x), CellY(row, y)) = PixelAt(w, CellX(pcol, x), CellY(prow, y))
  PROVE  /\ Reading(v, col, row) = Reading(w, pcol, prow)
         /\ \E c \in Glyphs : Showing(v, c, col, row)
<1>1. PICK c \in Glyphs : Showing(w, c, pcol, prow)
  OBVIOUS
<1>2. Showing(v, c, col, row)
  BY <1>1 DEF Showing
<1>3. QED
  BY <1>1, <1>2, Reads

\* Below the cursor, the screen is empty.
LEMMA BlankBelow ==
  ASSUME NEW w, Placed(w), Clean(w), NEW col \in 0 .. Cols - 1, NEW row \in 0 .. Rows - 1,
         row > LineIn(w)
  PROVE  Showing(w, Space, col, row)
<1>1. ASSUME NEW x \in GlyphX, NEW y \in GlyphY
      PROVE  PixelAt(w, CellX(col, x), CellY(row, y)) = Black
  <2>1. CellX(col, x) \in X /\ CellY(row, y) \in Y
    BY CellPixels
  <2>2. LineIn(w) \in Nat /\ w.y_pos = LineIn(w) * LineHeight /\ LineHeight \in Nat /\ row \in Nat
    BY CursorCell, Grid, SizeAssumption
  <2>3. (LineIn(w) + 1) * LineHeight <= row * LineHeight
    BY <2>2
  <2>4. (LineIn(w) + 1) * LineHeight = w.y_pos + LineHeight /\ row * LineHeight \in Nat
    BY <2>2
  <2>5. ~(CellY(row, y) < w.y_pos + LineHeight)
    BY <2>2, <2>3, <2>4 DEF CellY, GlyphY
  <2>6. QED
    BY <2>1, <2>5 DEF Clean
<1>2. \A x, y : Ink(Space, x, y) = Black
  BY CharAssumption DEF Ink, GlyphOf
<1>3. QED
  BY <1>1, <1>2 DEF Showing

\* A scroll shows in each line what was in the line below.
LEMMA ScrolledCells ==
  ASSUME NEW w, Placed(w), w.y_pos > 0, Readable(w)
  PROVE  /\ LineIn(w) >= 1 /\ LineIn(Scrolled(w)) = LineIn(w) - 1
         /\ ColumnIn(Scrolled(w)) = ColumnIn(w)
         /\ Readable(Scrolled(w))
         /\ \A col \in 0 .. Cols - 1, row \in 0 .. LineIn(w) - 1 :
              Reading(Scrolled(w), col, row) = Reading(w, col, row + 1)
<1>1. Placed(Scrolled(w)) /\ Scrolled(w).y_pos = w.y_pos - LineHeight /\ Scrolled(w).x_pos = w.x_pos
  BY ScrolledOk DEF Placed
<1>2. /\ LineIn(w) \in 0 .. Rows - 1 /\ w.y_pos = LineIn(w) * LineHeight
      /\ LineIn(Scrolled(w)) \in Nat /\ Scrolled(w).y_pos = LineIn(Scrolled(w)) * LineHeight
      /\ LineHeight \in Nat \ {0} /\ Rows \in Nat /\ Height \in Nat
  BY <1>1, CursorCell, Grid, SizeAssumption
<1>3. LineIn(w) >= 1
  BY <1>2
<1>4. LineIn(Scrolled(w)) = LineIn(w) - 1
  <2> DEFINE k == LineIn(w)
             j == LineIn(Scrolled(w))
  <2>1. k \in Nat /\ j \in Nat /\ k >= 1 /\ j * LineHeight = (k * LineHeight) - LineHeight
    BY <1>1, <1>2, <1>3
  <2> HIDE DEF k, j
  <2>2. j * LineHeight + 0 = (k - 1) * LineHeight + 0 /\ 0 \in 0 .. LineHeight - 1
    BY <1>2, <2>1
  <2>3. j = k - 1
    BY <1>2, <2>1, <2>2, SplitOnce
  <2>4. QED
    BY <2>3 DEF k, j
<1>5. ASSUME NEW col \in 0 .. Cols - 1, NEW row \in 0 .. LineIn(w) - 1
      PROVE  /\ Reading(Scrolled(w), col, row) = Reading(w, col, row + 1)
             /\ \E c \in Glyphs : Showing(Scrolled(w), c, col, row)
  <2>1. row + 1 \in 0 .. LineIn(w) /\ row \in 0 .. Rows - 1 /\ row + 2 \in Nat /\ row + 2 <= Rows
    BY <1>2
  <2>2. (row + 2) * LineHeight <= Height
    BY <2>1, Grid
  <2>3. ASSUME NEW x \in GlyphX, NEW y \in GlyphY
        PROVE  PixelAt(Scrolled(w), CellX(col, x), CellY(row, y))
                 = PixelAt(w, CellX(col, x), CellY(row + 1, y))
    <3>1. CellX(col, x) \in X /\ CellY(row, y) \in Y
      BY <2>1, CellPixels
    <3>2. /\ (row + 2) * LineHeight = (row * LineHeight) + (2 * LineHeight)
          /\ (row + 1) * LineHeight = (row * LineHeight) + LineHeight
          /\ row * LineHeight \in Nat
      BY <1>2, <2>1
    <3>3. CellY(row, y) < Height - LineHeight /\ CellY(row, y) + LineHeight = CellY(row + 1, y)
      BY <1>2, <2>2, <3>2 DEF CellY, GlyphY
    <3>4. QED
      BY <3>1, <3>3, ScrolledPixels
  <2>4. \E c \in Glyphs : Showing(w, c, col, row + 1)
    BY <2>1 DEF Readable
  <2>5. QED
    BY <2>3, <2>4, SameReading
<1>6. Readable(Scrolled(w))
  BY <1>4, <1>5 DEF Readable
<1>7. ColumnIn(Scrolled(w)) = ColumnIn(w)
  BY <1>1 DEF ColumnIn
<1>8. QED
  BY <1>3, <1>4, <1>5, <1>6, <1>7

\* A newline adds an empty line.
LEMMA NewLineCells ==
  ASSUME NEW w, Placed(w), w.y_pos + (2 * LineHeight) <= Height, Clean(w), Readable(w)
  PROVE  /\ LineIn(NewLine(w)) = LineIn(w) + 1 /\ ColumnIn(NewLine(w)) = 0
         /\ Readable(NewLine(w))
         /\ \A col \in 0 .. Cols - 1, row \in 0 .. LineIn(w) :
              Reading(NewLine(w), col, row) = Reading(w, col, row)
         /\ \A col \in 0 .. Cols - 1 : Reading(NewLine(w), col, LineIn(w) + 1) = Space
<1>1. /\ Placed(NewLine(w)) /\ NewLine(w).y_pos = w.y_pos + LineHeight
      /\ NewLine(w).x_pos = 0 /\ NewLine(w).buffer = w.buffer
  BY NewLineOk, FirstCell DEF Placed
<1>2. /\ LineIn(w) \in 0 .. Rows - 1 /\ w.y_pos = LineIn(w) * LineHeight
      /\ LineIn(w) + 2 <= Rows
      /\ LineIn(NewLine(w)) \in Nat /\ NewLine(w).y_pos = LineIn(NewLine(w)) * LineHeight
      /\ LineHeight \in Nat \ {0} /\ Rows \in Nat
  BY <1>1, CursorCell, Grid, SizeAssumption
<1>3. LineIn(NewLine(w)) = LineIn(w) + 1
  <2> DEFINE k == LineIn(w)
             j == LineIn(NewLine(w))
  <2>1. k \in Nat /\ j \in Nat /\ j * LineHeight = (k * LineHeight) + LineHeight
    BY <1>1, <1>2
  <2> HIDE DEF k, j
  <2>2. j * LineHeight + 0 = (k + 1) * LineHeight + 0 /\ 0 \in 0 .. LineHeight - 1
    BY <1>2, <2>1
  <2>3. j = k + 1
    BY <1>2, <2>1, <2>2, SplitOnce
  <2>4. QED
    BY <2>3 DEF k, j
<1>4. ColumnIn(NewLine(w)) = 0
  <2>1. CharWidth \in Nat \ {0} /\ 0 \in 0 .. CharWidth - 1 /\ 0 * CharWidth + 0 = 0 /\ 0 \in Nat
    BY SizeAssumption
  <2>2. 0 \div CharWidth = 0
    BY <2>1, Rest
  <2>3. QED
    BY <1>1, <2>2 DEF ColumnIn
<1>5. ASSUME NEW col \in 0 .. Cols - 1, NEW row \in 0 .. LineIn(w)
      PROVE  /\ Reading(NewLine(w), col, row) = Reading(w, col, row)
             /\ \E c \in Glyphs : Showing(NewLine(w), c, col, row)
  <2> DEFINE v == NewLine(w)
  <2>1. \A x \in GlyphX, y \in GlyphY :
          PixelAt(v, CellX(col, x), CellY(row, y)) = PixelAt(w, CellX(col, x), CellY(row, y))
    BY <1>1 DEF PixelAt
  <2>2. \E c \in Glyphs : Showing(w, c, col, row)
    BY DEF Readable
  <2> HIDE DEF v
  <2>3. PICK c \in Glyphs : Showing(w, c, col, row)
    BY <2>2
  <2>4. Showing(v, c, col, row)
    BY <2>1, <2>3 DEF Showing
  <2>5. Reading(v, col, row) = c /\ Reading(w, col, row) = c
    BY <2>3, <2>4, Reads
  <2>6. QED
    BY <2>4, <2>5 DEF v
<1>6. ASSUME NEW col \in 0 .. Cols - 1
      PROVE  Showing(NewLine(w), Space, col, LineIn(w) + 1)
  <2>1. LineIn(w) + 1 \in 0 .. Rows - 1
    BY <1>2
  <2>2. Showing(w, Space, col, LineIn(w) + 1)
    BY <1>2, <2>1, BlankBelow
  <2>3. QED
    BY <1>1, <2>2 DEF Showing, PixelAt
<1>7. Space \in Glyphs
  BY CharAssumption
<1>8. Readable(NewLine(w))
  <2> SUFFICES ASSUME NEW col \in 0 .. Cols - 1, NEW row \in 0 .. LineIn(w) + 1
               PROVE  \E c \in Glyphs : Showing(NewLine(w), c, col, row)
    BY <1>3 DEF Readable
  <2>1. row \in 0 .. LineIn(w) \/ row = LineIn(w) + 1
    BY <1>2
  <2>2. QED
    BY <1>5, <1>6, <1>7, <2>1
<1>9. QED
  BY <1>3, <1>4, <1>5, <1>6, <1>7, <1>8, Reads

\* A glyph is shown in the cursor's cell, and changes no other.
LEMMA DrawnCells ==
  ASSUME NEW w, Placed(w), w.x_pos + CharWidth <= Width, NEW c \in Char, Readable(w)
  PROVE  /\ LineIn(Drawn(w, c)) = LineIn(w) /\ ColumnIn(Drawn(w, c)) = ColumnIn(w) + 1
         /\ Readable(Drawn(w, c))
         /\ \A col \in 0 .. Cols - 1, row \in 0 .. LineIn(w) :
              Reading(Drawn(w, c), col, row) =
                IF col = ColumnIn(w) /\ row = LineIn(w) THEN GlyphOf(c) ELSE Reading(w, col, row)
<1>1. Drawn(w, c).y_pos = w.y_pos /\ Drawn(w, c).x_pos = w.x_pos + CharWidth /\ Placed(Drawn(w, c))
  BY DrawnOk, LeftNext DEF Placed
<1>2. /\ LineIn(w) \in 0 .. Rows - 1 /\ w.y_pos = LineIn(w) * LineHeight
      /\ ColumnIn(w) \in 0 .. Cols /\ ColumnIn(w) < Cols /\ w.x_pos = ColumnIn(w) * CharWidth
      /\ ColumnIn(Drawn(w, c)) \in Nat /\ Drawn(w, c).x_pos = ColumnIn(Drawn(w, c)) * CharWidth
      /\ LineHeight \in Nat \ {0} /\ CharWidth \in Nat \ {0} /\ Rows \in Nat /\ Cols \in Nat
  BY <1>1, CursorCell, Grid, SizeAssumption
<1>3. LineIn(Drawn(w, c)) = LineIn(w)
  BY <1>1 DEF LineIn
<1>4. ColumnIn(Drawn(w, c)) = ColumnIn(w) + 1
  <2> DEFINE k == ColumnIn(w)
             j == ColumnIn(Drawn(w, c))
  <2>1. k \in Nat /\ j \in Nat /\ j * CharWidth = (k * CharWidth) + CharWidth
    BY <1>1, <1>2
  <2> HIDE DEF k, j
  <2>2. j * CharWidth + 0 = (k + 1) * CharWidth + 0 /\ 0 \in 0 .. CharWidth - 1
    BY <1>2, <2>1
  <2>3. j = k + 1
    BY <1>2, <2>1, <2>2, SplitOnce
  <2>4. QED
    BY <2>3 DEF k, j
<1>5. ASSUME NEW col \in 0 .. Cols - 1, NEW row \in 0 .. Rows - 1,
             NEW x \in GlyphX, NEW y \in GlyphY
      PROVE  /\ CellX(col, x) \in X /\ CellY(row, y) \in Y
             /\ InGlyph(w, CellX(col, x), CellY(row, y)) <=> col = ColumnIn(w) /\ row = LineIn(w)
  <2>1. CellX(col, x) \in X /\ CellY(row, y) \in Y
    BY CellPixels
  <2> DEFINE k == ColumnIn(w)
             j == LineIn(w)
             cx == CellX(col, x)
             cy == CellY(row, y)
  <2>2. /\ k \in Nat /\ j \in Nat /\ col \in Nat /\ row \in Nat
        /\ w.x_pos = k * CharWidth /\ w.y_pos = j * LineHeight
        /\ x \in 0 .. CharWidth - 1 /\ y \in 0 .. LineHeight - 1
        /\ cx = col * CharWidth + x /\ cy = row * LineHeight + y
    BY <1>2 DEF CellX, CellY, GlyphX, GlyphY
  <2>3. cx \in Int /\ cy \in Int
    BY <1>2, <2>2
  <2> HIDE DEF k, j, cx, cy
  <2>4. ASSUME InGlyph(w, cx, cy) PROVE col = k /\ row = j
    <3>1. /\ cx - w.x_pos \in 0 .. CharWidth - 1 /\ cy - w.y_pos \in 0 .. LineHeight - 1
          /\ k * CharWidth \in Int /\ j * LineHeight \in Int
      BY <1>2, <2>2, <2>3, <2>4 DEF InGlyph
    <3> DEFINE mx == cx - w.x_pos
               my == cy - w.y_pos
    <3>2. /\ col * CharWidth + x = k * CharWidth + mx
          /\ row * LineHeight + y = j * LineHeight + my
      BY <2>2, <2>3, <3>1
    <3>3. /\ mx \in 0 .. CharWidth - 1 /\ x \in 0 .. CharWidth - 1
          /\ my \in 0 .. LineHeight - 1 /\ y \in 0 .. LineHeight - 1
          /\ col \in Int /\ k \in Int /\ row \in Int /\ j \in Int
          /\ CharWidth \in Nat \ {0} /\ LineHeight \in Nat \ {0}
      BY <1>2, <2>2, <3>1
    <3> HIDE DEF mx, my
    <3>4. col = k
      BY <3>2, <3>3, SplitOnce
    <3>5. row = j
      BY <3>2, <3>3, SplitOnce
    <3>6. QED
      BY <3>4, <3>5
  <2>5. ASSUME col = k, row = j PROVE InGlyph(w, cx, cy)
    <3>1. k * CharWidth \in Int /\ j * LineHeight \in Int
      BY <1>2, <2>2
    <3>2. QED
      BY <1>2, <2>2, <2>5, <3>1 DEF InGlyph
  <2>6. QED
    BY <2>1, <2>4, <2>5 DEF k, j, cx, cy
<1>6. ASSUME NEW col \in 0 .. Cols - 1, NEW row \in 0 .. LineIn(w)
      PROVE  /\ Reading(Drawn(w, c), col, row) =
                  IF col = ColumnIn(w) /\ row = LineIn(w) THEN GlyphOf(c) ELSE Reading(w, col, row)
             /\ \E d \in Glyphs : Showing(Drawn(w, c), d, col, row)
  <2>1. row \in 0 .. Rows - 1
    BY <1>2
  <2>2. CASE col = ColumnIn(w) /\ row = LineIn(w)
    <3>1. ASSUME NEW x \in GlyphX, NEW y \in GlyphY
          PROVE  PixelAt(Drawn(w, c), CellX(col, x), CellY(row, y)) = Ink(GlyphOf(c), x, y)
      <4>1. PixelAt(Drawn(w, c), CellX(col, x), CellY(row, y))
              = Ink(c, CellX(col, x) - w.x_pos, CellY(row, y) - w.y_pos)
        BY <1>5, <2>1, <2>2, DrawnPixels
      <4>2. col * CharWidth \in Int /\ row * LineHeight \in Int /\ x \in Int /\ y \in Int
        BY <1>2, <2>1 DEF GlyphX, GlyphY
      <4>3. CellX(col, x) - w.x_pos = x /\ CellY(row, y) - w.y_pos = y
        BY <1>2, <2>2, <4>2 DEF CellX, CellY
      <4>4. QED
        BY <4>1, <4>3, InkOfGlyph
    <3>2. GlyphOf(c) \in Glyphs /\ Showing(Drawn(w, c), GlyphOf(c), col, row)
      BY <3>1, InkOfGlyph DEF Showing
    <3>3. QED
      BY <2>2, <3>2, Reads
  <2>3. CASE ~(col = ColumnIn(w) /\ row = LineIn(w))
    <3> DEFINE v == Drawn(w, c)
    <3>1. \A x \in GlyphX, y \in GlyphY :
            PixelAt(v, CellX(col, x), CellY(row, y)) = PixelAt(w, CellX(col, x), CellY(row, y))
      BY <1>5, <2>1, <2>3, DrawnPixels
    <3>2. \E d \in Glyphs : Showing(w, d, col, row)
      BY DEF Readable
    <3> HIDE DEF v
    <3>3. /\ Reading(v, col, row) = Reading(w, col, row)
          /\ \E d \in Glyphs : Showing(v, d, col, row)
      BY <3>1, <3>2, SameReading
    <3>4. QED
      BY <2>3, <3>3 DEF v
  <2>4. QED
    BY <2>2, <2>3
<1>7. Readable(Drawn(w, c))
  BY <1>3, <1>6 DEF Readable
<1>8. QED
  BY <1>3, <1>4, <1>6, <1>7

-----------------------------------------------------------------------------
(* The text on the screen                                                  *)

\* The lines of the refinement, of a writer
LineText(w, row) == [k \in 1 .. Cols |-> Reading(w, k - 1, row - 1)]
TextOf(w) == [row \in 1 .. LineIn(w) + 1 |-> LineText(w, row)]
Blank == [k \in 1 .. Cols |-> Space]
TextLine == [1 .. Cols -> Glyphs]

\* They are a screenful of lines, at most.
LEMMA TextIsSeq ==
  ASSUME NEW w, Placed(w), Readable(w)
  PROVE  /\ TextOf(w) \in Seq(TextLine) /\ Len(TextOf(w)) = LineIn(w) + 1
         /\ Len(TextOf(w)) \in 1 .. Rows
<1>1. LineIn(w) \in 0 .. Rows - 1 /\ Cols \in Nat /\ Rows \in Nat
  BY CursorCell, Grid
<1>2. ASSUME NEW row \in 1 .. LineIn(w) + 1 PROVE LineText(w, row) \in TextLine
  <2>1. ASSUME NEW k \in 1 .. Cols PROVE Reading(w, k - 1, row - 1) \in Glyphs
    <3>1. k - 1 \in 0 .. Cols - 1 /\ row - 1 \in 0 .. LineIn(w)
      BY <1>1
    <3>2. PICK c \in Glyphs : Showing(w, c, k - 1, row - 1)
      BY <3>1 DEF Readable
    <3>3. QED
      BY <3>2, Reads
  <2>2. QED
    BY <2>1 DEF LineText, TextLine
<1> DEFINE n == LineIn(w) + 1
<1>3. n \in Nat /\ TextOf(w) \in [1 .. n -> TextLine]
  BY <1>1, <1>2 DEF TextOf
<1>4. TextOf(w) \in Seq(TextLine) /\ Len(TextOf(w)) = n
  BY <1>3
<1>5. QED
  BY <1>1, <1>4

\* A scroll takes the first away,
LEMMA ScrolledText ==
  ASSUME NEW w, Placed(w), w.y_pos > 0, Readable(w)
  PROVE  TextOf(Scrolled(w)) = Tail(TextOf(w))
<1> DEFINE v == Scrolled(w)
           s == TextOf(w)
           t == TextOf(v)
<1>1. /\ LineIn(w) >= 1 /\ LineIn(v) = LineIn(w) - 1 /\ Readable(v)
      /\ \A col \in 0 .. Cols - 1, row \in 0 .. LineIn(w) - 1 :
           Reading(v, col, row) = Reading(w, col, row + 1)
  BY ScrolledCells
<1>2. Placed(v)
  BY ScrolledOk DEF Placed
<1>3. LineIn(w) \in Nat /\ Cols \in Nat
  BY CursorCell, Grid
<1> HIDE DEF v
<1>4. /\ s \in Seq(TextLine) /\ Len(s) = LineIn(w) + 1
      /\ t \in Seq(TextLine) /\ Len(t) = LineIn(w)
  BY <1>1, <1>2, <1>3, TextIsSeq
<1>5. ASSUME NEW row \in 1 .. LineIn(w) PROVE t[row] = s[row + 1]
  <2>1. t[row] = LineText(v, row) /\ s[row + 1] = LineText(w, row + 1)
    BY <1>1, <1>3 DEF TextOf
  <2>2. \A k \in 1 .. Cols : Reading(v, k - 1, row - 1) = Reading(w, k - 1, (row + 1) - 1)
    <3>1. TAKE k \in 1 .. Cols
    <3>2. k - 1 \in 0 .. Cols - 1 /\ row - 1 \in 0 .. LineIn(w) - 1 /\ (row + 1) - 1 = (row - 1) + 1
      BY <1>3
    <3>3. QED
      BY <1>1, <3>2
  <2>3. QED
    BY <2>1, <2>2 DEF LineText
<1> HIDE DEF s, t
<1>6. s # <<>>
  BY <1>3, <1>4
<1>7. /\ Tail(s) \in Seq(TextLine) /\ Len(Tail(s)) = Len(s) - 1
      /\ \A i \in 1 .. Len(Tail(s)) : Tail(s)[i] = s[i + 1]
  BY <1>4, <1>6, HeadTailProperties
<1>8. Len(t) = Len(Tail(s)) /\ \A i \in 1 .. Len(t) : t[i] = Tail(s)[i]
  BY <1>3, <1>4, <1>5, <1>7
<1>9. t = Tail(s)
  BY <1>4, <1>7, <1>8, SeqEqual
<1>10. QED
  BY <1>9 DEF s, t, v

\* a newline adds an empty one,
LEMMA NewLineText ==
  ASSUME NEW w, Placed(w), w.y_pos + (2 * LineHeight) <= Height, Clean(w), Readable(w)
  PROVE  TextOf(NewLine(w)) = Append(TextOf(w), Blank)
<1> DEFINE v == NewLine(w)
           s == TextOf(w)
           t == TextOf(v)
<1>1. /\ LineIn(v) = LineIn(w) + 1 /\ Readable(v)
      /\ \A col \in 0 .. Cols - 1, row \in 0 .. LineIn(w) : Reading(v, col, row) = Reading(w, col, row)
      /\ \A col \in 0 .. Cols - 1 : Reading(v, col, LineIn(w) + 1) = Space
  BY NewLineCells
<1>2. Placed(v)
  BY NewLineOk, FirstCell DEF Placed
<1>3. LineIn(w) \in Nat /\ Cols \in Nat
  BY CursorCell, Grid
<1> HIDE DEF v
<1>4. /\ s \in Seq(TextLine) /\ Len(s) = LineIn(w) + 1
      /\ t \in Seq(TextLine) /\ Len(t) = LineIn(w) + 2
  BY <1>1, <1>2, <1>3, TextIsSeq
<1>5. ASSUME NEW row \in 1 .. LineIn(w) + 1 PROVE t[row] = s[row]
  <2>1. t[row] = LineText(v, row) /\ s[row] = LineText(w, row)
    BY <1>1, <1>3 DEF TextOf
  <2>2. \A k \in 1 .. Cols : Reading(v, k - 1, row - 1) = Reading(w, k - 1, row - 1)
    <3>1. TAKE k \in 1 .. Cols
    <3>2. k - 1 \in 0 .. Cols - 1 /\ row - 1 \in 0 .. LineIn(w)
      BY <1>3
    <3>3. QED
      BY <1>1, <3>2
  <2>3. QED
    BY <2>1, <2>2 DEF LineText
<1>6. t[LineIn(w) + 2] = Blank
  <2>1. t[LineIn(w) + 2] = LineText(v, LineIn(w) + 2)
    BY <1>1, <1>3 DEF TextOf
  <2>2. \A k \in 1 .. Cols : Reading(v, k - 1, (LineIn(w) + 2) - 1) = Space
    <3>1. TAKE k \in 1 .. Cols
    <3>2. k - 1 \in 0 .. Cols - 1 /\ (LineIn(w) + 2) - 1 = LineIn(w) + 1
      BY <1>3
    <3>3. QED
      BY <1>1, <3>2
  <2>3. QED
    BY <2>1, <2>2 DEF LineText, Blank
<1>7. Blank \in TextLine
  BY CharAssumption DEF Blank, TextLine
<1> HIDE DEF s, t
<1>8. /\ Append(s, Blank) \in Seq(TextLine) /\ Len(Append(s, Blank)) = Len(s) + 1
      /\ \A i \in 1 .. Len(s) : Append(s, Blank)[i] = s[i]
      /\ Append(s, Blank)[Len(s) + 1] = Blank
  BY <1>4, <1>7, AppendProperties
<1>9. Len(t) = Len(Append(s, Blank)) /\ \A i \in 1 .. Len(t) : t[i] = Append(s, Blank)[i]
  BY <1>3, <1>4, <1>5, <1>6, <1>8
<1>10. t = Append(s, Blank)
  BY <1>4, <1>8, <1>9, SeqEqual
<1>11. QED
  BY <1>10 DEF s, t, v

\* and a glyph changes a character of the last.
LEMMA DrawnText ==
  ASSUME NEW w, Placed(w), w.x_pos + CharWidth <= Width, NEW c \in Char, Readable(w)
  PROVE  TextOf(Drawn(w, c)) = [TextOf(w) EXCEPT ![LineIn(w) + 1][ColumnIn(w) + 1] = GlyphOf(c)]
<1> DEFINE v == Drawn(w, c)
           s == TextOf(w)
           t == TextOf(v)
           n == LineIn(w) + 1
           j == ColumnIn(w) + 1
           g == GlyphOf(c)
<1>1. /\ LineIn(v) = LineIn(w)
      /\ \A col \in 0 .. Cols - 1, row \in 0 .. LineIn(w) :
           Reading(v, col, row) =
             IF col = ColumnIn(w) /\ row = LineIn(w) THEN g ELSE Reading(w, col, row)
  BY DrawnCells
<1>3. LineIn(w) \in Nat /\ ColumnIn(w) \in Nat /\ Cols \in Nat
  BY CursorCell, Grid
<1> HIDE DEF v, g
<1>4. \A row \in 1 .. n, k \in 1 .. Cols :
        Reading(v, k - 1, row - 1) = IF k = j /\ row = n THEN g ELSE Reading(w, k - 1, row - 1)
  <2>1. TAKE row \in 1 .. n, k \in 1 .. Cols
  <2>2. k - 1 \in 0 .. Cols - 1 /\ row - 1 \in 0 .. LineIn(w)
        /\ (k - 1 = ColumnIn(w) <=> k = j) /\ (row - 1 = LineIn(w) <=> row = n)
    BY <1>3
  <2>3. QED
    BY <1>1, <2>2
<1>5. \A row \in 1 .. n : LineText(v, row) =
        IF row = n THEN [LineText(w, n) EXCEPT ![j] = g] ELSE LineText(w, row)
  <2>1. TAKE row \in 1 .. n
  <2>2. LineText(v, row) = [k \in 1 .. Cols |-> IF k = j /\ row = n THEN g ELSE Reading(w, k - 1, row - 1)]
    BY <1>4 DEF LineText
  <2> HIDE DEF n, j
  <2>3. QED
    BY <2>2 DEF LineText
<1>6. t = [row \in 1 .. n |-> IF row = n THEN [LineText(w, n) EXCEPT ![j] = g] ELSE LineText(w, row)]
  BY <1>1, <1>5 DEF TextOf
<1>7. s = [row \in 1 .. n |-> LineText(w, row)]
  BY DEF TextOf
<1> HIDE DEF s, t, n, j
<1>8. n \in 1 .. n
  BY <1>3 DEF n
<1>9. s[n] = LineText(w, n)
  BY <1>7, <1>8
<1>10. t = [s EXCEPT ![n][j] = g]
  BY <1>6, <1>7, <1>8, <1>9
<1>11. QED
  BY <1>10 DEF s, t, v, n, j, g

\* The first character of a line that has just been added
LEMMA FirstOfNew ==
  ASSUME NEW s \in Seq(TextLine), NEW g \in Glyphs
  PROVE  [Append(s, Blank) EXCEPT ![Len(s) + 1][1] = g] = Append(s, [Blank EXCEPT ![1] = g])
<1> DEFINE b == [Blank EXCEPT ![1] = g]
           a == Append(s, Blank)
           t == [a EXCEPT ![Len(s) + 1] = b]
<1>1. Blank \in TextLine /\ b \in TextLine
  BY CharAssumption DEF Blank, TextLine
<1> HIDE DEF b
<1>2. /\ a \in Seq(TextLine) /\ Len(a) = Len(s) + 1 /\ a[Len(s) + 1] = Blank
      /\ \A i \in 1 .. Len(s) : a[i] = s[i]
  BY <1>1, AppendProperties
<1>3. /\ Append(s, b) \in Seq(TextLine) /\ Len(Append(s, b)) = Len(s) + 1
      /\ Append(s, b)[Len(s) + 1] = b
      /\ \A i \in 1 .. Len(s) : Append(s, b)[i] = s[i]
  BY <1>1, AppendProperties
<1>4. [a EXCEPT ![Len(s) + 1][1] = g] = t
  BY <1>2 DEF b
<1> HIDE DEF a
<1>5. t \in Seq(TextLine) /\ Len(t) = Len(s) + 1
  BY <1>1, <1>2
<1>6. \A i \in 1 .. Len(t) : t[i] = Append(s, b)[i]
  BY <1>2, <1>3, <1>5
<1> HIDE DEF t
<1>7. t = Append(s, b)
  BY <1>3, <1>5, <1>6, SeqEqual
<1>8. QED
  BY <1>4, <1>7 DEF a, b

\* What is written, in lines of text: r is the writer after the test for room
LEMMA WrittenText ==
  ASSUME NEW r, Placed(r), NEW c \in Char, Breaks(r, c) => r.y_pos + (2 * LineHeight) <= Height,
         Clean(r), Readable(r), NEW u, u = Written(r, c), NEW g, g = GlyphOf(c)
  PROVE  /\ Readable(u)
         /\ \/ /\ c = Newline
               /\ TextOf(u) = Append(TextOf(r), Blank) /\ ColumnIn(u) = 0
            \/ /\ c # Newline /\ ColumnIn(r) = Cols /\ Breaks(r, c)
               /\ TextOf(u) = Append(TextOf(r), [Blank EXCEPT ![1] = g]) /\ ColumnIn(u) = 1
            \/ /\ c # Newline /\ ColumnIn(r) < Cols /\ ~Breaks(r, c)
               /\ TextOf(u) = [TextOf(r) EXCEPT ![Len(TextOf(r))][ColumnIn(r) + 1] = g]
               /\ ColumnIn(u) = ColumnIn(r) + 1
<1>1. CASE c = Newline /\ u = NewLine(r)
  BY <1>1, NewLineText, NewLineCells DEF Breaks
<1>2. CASE /\ c # Newline /\ r.x_pos + CharWidth > Width
           /\ Placed(NewLine(r)) /\ NewLine(r).x_pos + CharWidth <= Width
           /\ u = Drawn(NewLine(r), c)
  <2> DEFINE n == NewLine(r)
  <2>1. Breaks(r, c) /\ r.y_pos + (2 * LineHeight) <= Height
    BY <1>2 DEF Breaks
  <2>2. /\ TextOf(n) = Append(TextOf(r), Blank) /\ Readable(n) /\ ColumnIn(n) = 0
        /\ LineIn(n) = LineIn(r) + 1
    BY <2>1, NewLineText, NewLineCells
  <2>3. Placed(n) /\ n.x_pos + CharWidth <= Width /\ u = Drawn(n, c)
    BY <1>2
  <2> HIDE DEF n
  <2>4. /\ TextOf(u) = [TextOf(n) EXCEPT ![LineIn(n) + 1][ColumnIn(n) + 1] = g]
        /\ ColumnIn(u) = ColumnIn(n) + 1 /\ Readable(u)
    <3>1. Readable(n) /\ Placed(n) /\ n.x_pos + CharWidth <= Width
      BY <2>2, <2>3
    <3>2. TextOf(Drawn(n, c)) = [TextOf(n) EXCEPT ![LineIn(n) + 1][ColumnIn(n) + 1] = GlyphOf(c)]
      BY <3>1, DrawnText
    <3>3. ColumnIn(Drawn(n, c)) = ColumnIn(n) + 1 /\ Readable(Drawn(n, c))
      BY <3>1, DrawnCells
    <3>4. QED
      BY <2>3, <3>2, <3>3
  <2>5. TextOf(r) \in Seq(TextLine) /\ Len(TextOf(r)) = LineIn(r) + 1 /\ g \in Glyphs
    BY TextIsSeq, InkOfGlyph
  <2>6. LineIn(r) \in Nat
    BY CursorCell, Grid
  <2>7. TextOf(u) = [Append(TextOf(r), Blank) EXCEPT ![Len(TextOf(r)) + 1][1] = g]
    BY <2>2, <2>4, <2>5, <2>6
  <2>8. TextOf(u) = Append(TextOf(r), [Blank EXCEPT ![1] = g])
    BY <2>5, <2>7, FirstOfNew
  <2>9. ColumnIn(r) = Cols
    <3>1. ~(r.x_pos + CharWidth <= Width)
      BY <1>2, SizeAssumption DEF Placed, WriterType
    <3>2. ColumnIn(r) \in 0 .. Cols /\ ~(ColumnIn(r) < Cols) /\ Cols \in Nat
      BY <3>1, CursorCell, Grid
    <3>3. QED
      BY <3>2
  <2>10. QED
    BY <1>2, <2>1, <2>2, <2>4, <2>8, <2>9
<1>3. CASE c # Newline /\ r.x_pos + CharWidth <= Width /\ u = Drawn(r, c)
  <2>1. ~Breaks(r, c)
    BY <1>3, SizeAssumption DEF Breaks, Placed, WriterType
  <2>2. /\ TextOf(u) = [TextOf(r) EXCEPT ![LineIn(r) + 1][ColumnIn(r) + 1] = g]
        /\ ColumnIn(u) = ColumnIn(r) + 1 /\ Readable(u)
    BY <1>3, DrawnText, DrawnCells
  <2>3. Len(TextOf(r)) = LineIn(r) + 1
    BY TextIsSeq
  <2>4. ColumnIn(r) < Cols
    BY <1>3, CursorCell
  <2>5. QED
    BY <1>3, <2>1, <2>2, <2>3, <2>4
<1>4. QED
  BY <1>1, <1>2, <1>3, WrittenIs

-----------------------------------------------------------------------------
(* The refinement of Terminal                                              *)

ScreenInv == IInv /\ OnlyGlyphs /\ Readable(Writer)

LEMMA AbstractState ==
  /\ Text!Blank = Blank
  /\ lines = TextOf(Writer) /\ column = ColumnIn(Writer)
  /\ lines' = TextOf(Writer)' /\ column' = ColumnIn(Writer)'
<1>1. \A col, row : CharAt(col, row) = Reading(Writer, col, row)
  BY DEF Reading, CharAt, Showing, Shows, PixelAt, At, CellX, CellY, Writer
<1>2. \A col, row : CharAt(col, row)' = Reading(Writer', col, row)
  BY DEF Reading, CharAt, Showing, Shows, PixelAt, At, CellX, CellY, Writer
<1>3. /\ Writer.y_pos = y_pos /\ Writer.x_pos = x_pos
      /\ Writer'.y_pos = y_pos' /\ Writer'.x_pos = x_pos'
  BY DEF Writer
<1>4. lines = TextOf(Writer) /\ column = ColumnIn(Writer)
  BY <1>1, <1>3 DEF TextOf, LineText, LineIn, ColumnIn, lines, column
<1>5. lines' = TextOf(Writer') /\ column' = ColumnIn(Writer')
  BY <1>2, <1>3 DEF TextOf, LineText, LineIn, ColumnIn, lines, column
<1>6. TextOf(Writer') = TextOf(Writer)' /\ ColumnIn(Writer') = ColumnIn(Writer)'
  BY DEF TextOf, LineText, LineIn, ColumnIn, Reading, Showing, PixelAt
<1>7. QED
  BY <1>4, <1>5, <1>6 DEF Blank, Text!Blank

\* A step writes a character as the terminal does.
LEMMA StepText ==
  ASSUME ScreenInv, NEW c \in Char, WriteChar(c)
  PROVE  /\ Readable(Writer)'
         /\ \E M : /\ M = (IF Breaks(Writer, c) /\ Len(TextOf(Writer)) + 1 > Rows
                             THEN Tail(TextOf(Writer)) ELSE TextOf(Writer))
                   /\ \/ /\ c = Newline
                         /\ TextOf(Writer)' = Append(M, Blank) /\ ColumnIn(Writer)' = 0
                      \/ /\ c # Newline /\ ColumnIn(Writer) = Cols /\ Breaks(Writer, c)
                         /\ TextOf(Writer)' = Append(M, [Blank EXCEPT ![1] = GlyphOf(c)])
                         /\ ColumnIn(Writer)' = 1
                      \/ /\ c # Newline /\ ColumnIn(Writer) < Cols /\ ~Breaks(Writer, c)
                         /\ TextOf(Writer)' = [M EXCEPT ![Len(M)][ColumnIn(Writer) + 1] = GlyphOf(c)]
                         /\ ColumnIn(Writer)' = ColumnIn(Writer) + 1
<1> DEFINE w == Writer
           r == MadeRoomForBreak(MadeRoom(w), c)
           u == Written(r, c)
           g == GlyphOf(c)
<1>1. /\ Placed(w) /\ Clean(w) /\ Readable(w)
  BY PlacedWriter, CleanWriter DEF ScreenInv
<1>2. Writer' = u
  <2>1. /\ Placed(r) /\ (Breaks(r, c) => r.y_pos + (2 * LineHeight) <= Height)
    BY <1>1, RoomPlaced
  <2>2. buffer' = u.buffer /\ x_pos' = u.x_pos /\ y_pos' = u.y_pos
    BY DEF WriteChar
  <2> HIDE DEF r
  <2>3. Placed(u)
    BY <2>1, WrittenPlaced
  <2> HIDE DEF u
  <2>4. QED
    BY <2>2, <2>3 DEF Placed, WriterType, Writer
<1> HIDE DEF w
<1>3. /\ Placed(r)
      /\ Breaks(r, c) => r.y_pos + (2 * LineHeight) <= Height
      /\ \/ r = w
         \/ /\ r = Scrolled(w) /\ w.y_pos > 0 /\ Breaks(w, c)
            /\ w.y_pos + (2 * LineHeight) > Height
  BY <1>1, RoomPlaced
<1> HIDE DEF r
<1>4. /\ Len(TextOf(w)) = LineIn(w) + 1 /\ LineIn(w) \in Nat /\ Rows \in Nat
      /\ w.y_pos + (2 * LineHeight) <= Height <=> LineIn(w) + 2 <= Rows
  BY <1>1, TextIsSeq, CursorCell, Grid
<1>5. w.y_pos \in Nat /\ LineHeight \in Nat /\ Height \in Nat
  BY <1>1, SizeAssumption DEF Placed, WriterType
<1> DEFINE M == IF Breaks(w, c) /\ Len(TextOf(w)) + 1 > Rows THEN Tail(TextOf(w)) ELSE TextOf(w)
<1>6. /\ Clean(r) /\ Readable(r) /\ TextOf(r) = M /\ ColumnIn(r) = ColumnIn(w)
      /\ Breaks(r, c) <=> Breaks(w, c)
  <2>1. CASE r = w
    <3>1. ~(Breaks(w, c) /\ Len(TextOf(w)) + 1 > Rows)
      BY <1>3, <1>4, <2>1
    <3>2. QED
      BY <1>1, <2>1, <3>1
  <2>2. CASE /\ r = Scrolled(w) /\ w.y_pos > 0 /\ Breaks(w, c)
             /\ w.y_pos + (2 * LineHeight) > Height
    <3>1. Len(TextOf(w)) + 1 > Rows
      BY <1>4, <1>5, <2>2
    <3>2. Clean(r) /\ Readable(r) /\ TextOf(r) = Tail(TextOf(w)) /\ ColumnIn(r) = ColumnIn(w)
      BY <1>1, <2>2, ScrolledClean, ScrolledCells, ScrolledText
    <3>3. r.x_pos = w.x_pos
      BY <1>1, <2>2, ScrolledOk DEF Placed
    <3>4. QED
      BY <2>2, <3>1, <3>2, <3>3 DEF Breaks
  <2>3. QED
    BY <1>3, <2>1, <2>2
<1>7. /\ Readable(u)
      /\ \/ /\ c = Newline
            /\ TextOf(u) = Append(TextOf(r), Blank) /\ ColumnIn(u) = 0
         \/ /\ c # Newline /\ ColumnIn(r) = Cols /\ Breaks(r, c)
            /\ TextOf(u) = Append(TextOf(r), [Blank EXCEPT ![1] = g]) /\ ColumnIn(u) = 1
         \/ /\ c # Newline /\ ColumnIn(r) < Cols /\ ~Breaks(r, c)
            /\ TextOf(u) = [TextOf(r) EXCEPT ![Len(TextOf(r))][ColumnIn(r) + 1] = g]
            /\ ColumnIn(u) = ColumnIn(r) + 1
  BY <1>3, <1>6, WrittenText
<1>8. TextOf(Writer)' = TextOf(u) /\ ColumnIn(Writer)' = ColumnIn(u) /\ (Readable(Writer)' <=> Readable(u))
  BY <1>2 DEF TextOf, LineText, LineIn, ColumnIn, Readable, Reading, Showing, PixelAt
<1> HIDE DEF u, M
<1>9. QED
  BY <1>6, <1>7, <1>8 DEF w, M

LEMMA AbstractStep == ScreenInv /\ [Next]_vars => [Text!Next]_(Text!terminalVars)
<1> SUFFICES ASSUME ScreenInv, [Next]_vars PROVE Text!Next \/ UNCHANGED <<lines, column>>
  BY DEF Text!terminalVars
<1>1. CASE UNCHANGED vars
  <2>1. UNCHANGED <<lines, column>>
    BY <1>1 DEF vars, lines, column, CharAt, Shows, At
  <2>2. QED
    BY <2>1
<1>2. ASSUME NEW c \in Char, WriteChar(c)
      PROVE  Text!Next
  <2> DEFINE g == GlyphOf(c)
  <2>1. PICK M : /\ M = (IF Breaks(Writer, c) /\ Len(lines) + 1 > Rows THEN Tail(lines) ELSE lines)
                 /\ \/ /\ c = Newline /\ lines' = Append(M, Blank) /\ column' = 0
                    \/ /\ c # Newline /\ column = Cols /\ Breaks(Writer, c)
                       /\ lines' = Append(M, [Blank EXCEPT ![1] = g]) /\ column' = 1
                    \/ /\ c # Newline /\ column < Cols /\ ~Breaks(Writer, c)
                       /\ lines' = [M EXCEPT ![Len(M)][column + 1] = g] /\ column' = column + 1
    BY <1>2, StepText, AbstractState
  <2>2. lines \in Seq(TextLine) /\ Len(lines) \in 1 .. Rows /\ Rows \in Nat
    BY PlacedWriter, TextIsSeq, AbstractState, Grid DEF ScreenInv
  <2>3. g \in Glyphs /\ (c = Newline => Breaks(Writer, c)) /\ g # Newline
    BY InkOfGlyph, CharAssumption DEF Breaks
  <2>4. /\ Blank \in TextLine /\ [Blank EXCEPT ![1] = g] \in TextLine
    BY <2>3, CharAssumption DEF Blank, TextLine
  <2> HIDE DEF g
  <2>5. ASSUME NEW b \in TextLine, Breaks(Writer, c)
        PROVE  Text!Shown(Append(lines, b)) = Append(M, b)
    <3>1. Len(Append(lines, b)) = Len(lines) + 1
      BY <2>2, AppendProperties
    <3>2. lines # <<>>
      BY <2>2
    <3>3. Tail(Append(lines, b)) = Append(Tail(lines), b)
      BY <2>2, <3>2, HeadTailAppend
    <3>4. QED
      BY <2>1, <2>5, <3>1, <3>3 DEF Text!Shown
  <2>6. CASE c = Newline /\ lines' = Append(M, Blank) /\ column' = 0
    <3>1. Text!NewLine
      BY <2>3, <2>4, <2>5, <2>6, AbstractState DEF Text!NewLine
    <3>2. QED
      BY <3>1 DEF Text!Next
  <2>7. CASE /\ c # Newline /\ column = Cols /\ Breaks(Writer, c)
             /\ lines' = Append(M, [Blank EXCEPT ![1] = g]) /\ column' = 1
    <3>1. Text!PutOnNewLine(g)
      BY <2>3, <2>4, <2>5, <2>7, AbstractState DEF Text!PutOnNewLine
    <3>2. QED
      BY <2>3, <3>1 DEF Text!Next
  <2>8. CASE /\ c # Newline /\ column < Cols /\ ~Breaks(Writer, c)
             /\ lines' = [M EXCEPT ![Len(M)][column + 1] = g] /\ column' = column + 1
    <3>1. Text!Put(g)
      BY <2>1, <2>3, <2>8 DEF Text!Put
    <3>2. QED
      BY <2>3, <3>1 DEF Text!Next
  <2>9. QED
    BY <2>1, <2>6, <2>7, <2>8
<1>3. QED
  BY <1>1, <1>2 DEF Next

LEMMA ReadableStep == ScreenInv /\ [Next]_vars => Readable(Writer)'
<1> SUFFICES ASSUME ScreenInv, [Next]_vars PROVE Readable(Writer)'
  OBVIOUS
<1>1. CASE UNCHANGED vars
  BY <1>1 DEF vars, ScreenInv, Readable, Showing, PixelAt, LineIn, Writer
<1>2. QED
  BY <1>1, StepText DEF Next

\* The empty screen is a line without a character.
LEMMA AbstractInit == Init => Readable(Writer) /\ Text!Init
<1> SUFFICES ASSUME Init PROVE Readable(Writer) /\ Text!Init
  OBVIOUS
<1>1. Placed(Writer) /\ Writer.x_pos = 0 /\ Writer.y_pos = 0
  BY InitInv, PlacedWriter DEF Writer, Init
<1>2. LineIn(Writer) = 0 /\ ColumnIn(Writer) = 0
  <2>1. /\ CharWidth \in Nat \ {0} /\ 0 \in 0 .. CharWidth - 1 /\ 0 * CharWidth + 0 = 0
        /\ LineHeight \in Nat \ {0} /\ 0 \in 0 .. LineHeight - 1 /\ 0 * LineHeight + 0 = 0
        /\ 0 \in Nat
    BY SizeAssumption
  <2>2. 0 \div CharWidth = 0 /\ 0 \div LineHeight = 0
    BY <2>1, Rest
  <2>3. QED
    BY <1>1, <2>2 DEF LineIn, ColumnIn
<1>3. 0 \in 0 .. Rows - 1 /\ Cols \in Nat
  BY Grid
<1>4. ASSUME NEW col \in 0 .. Cols - 1 PROVE Showing(Writer, Space, col, 0)
  <2>1. ASSUME NEW x \in GlyphX, NEW y \in GlyphY
        PROVE  PixelAt(Writer, CellX(col, x), CellY(0, y)) = Black
    <3>1. CellX(col, x) \in X /\ CellY(0, y) \in Y
      BY <1>3, CellPixels
    <3>2. QED
      BY <3>1, OffsetOf DEF Init, Writer, PixelAt, X, Y
  <2>2. \A x, y : Ink(Space, x, y) = Black
    BY CharAssumption DEF Ink, GlyphOf
  <2>3. QED
    BY <2>1, <2>2 DEF Showing
<1>5. Space \in Glyphs
  BY CharAssumption
<1>6. Readable(Writer)
  BY <1>2, <1>4, <1>5 DEF Readable
<1>7. lines = <<Blank>>
  <2>1. \A k \in 1 .. Cols : k - 1 \in 0 .. Cols - 1 /\ Reading(Writer, k - 1, 1 - 1) = Space
    BY <1>3, <1>4, <1>5, Reads
  <2>2. LineText(Writer, 1) = Blank
    BY <2>1 DEF LineText, Blank
  <2>3. TextOf(Writer) = [row \in 1 .. 1 |-> LineText(Writer, row)]
    BY <1>2 DEF TextOf
  <2>4. TextOf(Writer) = <<Blank>>
    BY <2>2, <2>3
  <2>5. QED
    BY <2>4, AbstractState
<1>8. QED
  BY <1>2, <1>6, <1>7, AbstractState DEF Text!Init

\* The screen shows the last lines of the text, as the terminal has them: what is
\* written is readable, stays where it is until a scroll moves it up, and a line
\* that is made is empty.
THEOREM ShowsTheText == Spec => ImplementsTerminal
<1>1. Init => ScreenInv
  BY InitInv, AbstractInit, LitInit DEF ScreenInv
<1>2. ScreenInv /\ [Next]_vars => ScreenInv'
  BY StepInv, StepClean, ReadableStep DEF ScreenInv
<1>3. QED
  BY <1>1, <1>2, AbstractInit, AbstractStep, PTL DEF Spec, ImplementsTerminal, Text!Spec
=============================================================================
