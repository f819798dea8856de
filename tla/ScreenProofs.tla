---------------------------- MODULE ScreenProofs ----------------------------
(* Theorems about Screen, for every frame buffer and every size of glyphs.   *)
EXTENDS Screen, TLAPS

\* The lines of text that begin in a frame buffer; the last may be cut.
Rows(b) == (b + Line - 1) \div Line

\* The window lies in the viewport; the cursor's line begins there.
WindowOk(s) ==
  viewport_len(s) <= 4 * s.buffer /\ s.start <= s.extra /\ s.x <= Stride
CursorOk(s) == s.y < s.extra + Rows(s.buffer)

\* Why an operation fails that nothing interferes with.
Known(s) ==
  \/ s.err = "draw" /\ s.y * Line >= s.buffer
  \/ s.err = "index" /\ LastLineCut(s) /\ (s.y + 1) * Line > viewport_len(s)
  \/ s.err = "negative"

\* A screen that an operation may start from and leave; g: it was not raced.
Good(s, g) ==
  s \in Screens /\ (g => IF Ok(s) THEN WindowOk(s) /\ CursorOk(s) ELSE Known(s))
-----------------------------------------------------------------------------
(* Arithmetic of lines *)

\* The sizes of lines and glyphs.
LEMMA Sizes ==
  /\ Stride \in Nat \ {0} /\ RASTER_HEIGHT \in Nat \ {0} /\ GlyphWidth \in Nat \ {0}
  /\ GlyphWidth <= Stride /\ Line \in Nat \ {0} /\ Line = Stride * RASTER_HEIGHT
  <1>1. /\ Stride \in Nat \ {0} /\ RASTER_HEIGHT \in Nat \ {0} /\ GlyphWidth \in Nat \ {0}
        /\ GlyphWidth <= Stride
    BY ScreenAssumption
  <1> QED
    BY <1>1, SMT DEF Line

\* The last line of a frame buffer begins in it.
LEMMA RowsFacts ==
  ASSUME NEW b \in Buffers
  PROVE  /\ b \in Nat /\ b >= Line /\ Rows(b) \in Nat \ {0}
         /\ b <= Rows(b) * Line /\ (Rows(b) - 1) * Line < b
         /\ b % Line = 0 => b = Rows(b) * Line
  <1> DEFINE q == Rows(b)
             n == b \div Line
  <1>1. b \in Nat /\ b >= Line /\ Line \in Nat \ {0}
    BY Sizes, ScreenAssumption
  <1>2. /\ q \in Nat /\ q * Line <= b + Line - 1 /\ b + Line - 1 < q * Line + Line
    BY <1>1, SMT DEF Rows
  <1>3. n \in Nat /\ (b % Line = 0 => b = n * Line)
    BY <1>1, SMT
  <1> HIDE DEF q, n
  <1>4. b <= q * Line /\ (q - 1) * Line < b /\ q # 0
    BY <1>1, <1>2, SMT
  <1>5. b % Line = 0 => n = q
    BY <1>1, <1>2, <1>3, <1>4, SMT
  <1> QED
    BY <1>1, <1>2, <1>3, <1>4, <1>5 DEF q

\* Line a is at or behind the end of a frame buffer that line c begins.
LEMMA Below ==
  ASSUME NEW b \in Buffers, NEW a \in Nat, NEW c \in Nat
  PROVE  a * Line >= c * Line + b <=> a >= c + Rows(b)
  <1> DEFINE q == Rows(b)
  <1>1. /\ b \in Nat /\ q \in Nat \ {0} /\ b <= q * Line /\ (q - 1) * Line < b
        /\ Line \in Nat \ {0}
    BY RowsFacts, Sizes
  <1> HIDE DEF q
  <1>2. a >= c + q => a * Line >= (c + q) * Line
    BY <1>1, SMT
  <1>3. (c + q) * Line = c * Line + q * Line
    BY <1>1, SMT
  <1>4. a <= c + (q - 1) => a * Line <= (c + (q - 1)) * Line
    BY <1>1, SMT
  <1>5. (c + (q - 1)) * Line = c * Line + (q - 1) * Line
    BY <1>1, SMT
  <1>6. /\ a * Line \in Nat /\ c * Line \in Nat /\ q * Line \in Nat /\ (q - 1) * Line \in Nat
        /\ (c + q) * Line \in Nat /\ (c + (q - 1)) * Line \in Nat
    BY <1>1, SMT
  <1>7. a >= c + q => a * Line >= c * Line + b
    BY <1>1, <1>2, <1>3, <1>6
  <1>8. ~(a >= c + q) => ~(a * Line >= c * Line + b)
    BY <1>1, <1>4, <1>5, <1>6
  <1> QED
    BY <1>7, <1>8 DEF q

\* A screen in pixels and in lines.
LEMMA InLines ==
  ASSUME NEW s \in Screens
  PROVE  /\ s.buffer \in Nat /\ s.buffer >= Line /\ Rows(s.buffer) \in Nat \ {0}
         /\ viewport_len(s) \in Nat /\ WindowEnd(s) \in Nat
         /\ BelowWindow(s) <=> s.y >= s.start + Rows(s.buffer)
         /\ WindowEnd(s) <= viewport_len(s) <=> s.start <= s.extra
         /\ WindowEnd(s) + Line <= viewport_len(s) <=> s.start + 1 <= s.extra
         /\ s.y * Line < viewport_len(s) <=> CursorOk(s)
         /\ ~LastLineCut(s) /\ CursorOk(s) => (s.y + 1) * Line <= viewport_len(s)
  <1> DEFINE b == s.buffer
             q == Rows(s.buffer)
  <1>1. s.y \in Nat /\ s.start \in Nat /\ s.extra \in Nat /\ b \in Buffers
    BY DEF Screens
  <1>2. b \in Nat /\ b >= Line /\ q \in Nat \ {0} /\ (b % Line = 0 => b = q * Line)
    BY <1>1, RowsFacts
  <1>3. /\ s.y * Line >= s.start * Line + b <=> s.y >= s.start + q
        /\ s.y * Line >= s.extra * Line + b <=> s.y >= s.extra + q
    BY <1>1, Below
  <1> HIDE DEF b, q
  <1>4. Line \in Nat \ {0} /\ s.y * Line \in Nat /\ s.start * Line \in Nat /\ s.extra * Line \in Nat
    BY <1>1, Sizes, SMT
  <1>5. /\ s.start * Line <= s.extra * Line <=> s.start <= s.extra
        /\ s.start * Line + Line <= s.extra * Line <=> s.start + 1 <= s.extra
    BY <1>1, Sizes, SMT
  <1>6. s.y < s.extra + q => (s.y + 1) * Line <= q * Line + s.extra * Line
    BY <1>1, <1>2, Sizes, SMT
  <1>7. viewport_len(s) = b + s.extra * Line /\ WindowEnd(s) = s.start * Line + b
    BY DEF viewport_len, WindowEnd, b
  <1>8. (BelowWindow(s) <=> s.y * Line >= WindowEnd(s)) /\ (CursorOk(s) <=> s.y < s.extra + q)
    BY DEF BelowWindow, CursorOk, q
  <1>9. /\ viewport_len(s) \in Nat /\ WindowEnd(s) \in Nat
        /\ BelowWindow(s) <=> s.y >= s.start + q
    BY <1>2, <1>3, <1>4, <1>7, <1>8
  <1>10. /\ WindowEnd(s) <= viewport_len(s) <=> s.start <= s.extra
         /\ WindowEnd(s) + Line <= viewport_len(s) <=> s.start + 1 <= s.extra
    BY <1>1, <1>2, <1>4, <1>5, <1>7
  <1>11. s.y * Line < viewport_len(s) <=> CursorOk(s)
    BY <1>1, <1>2, <1>3, <1>4, <1>7, <1>8
  <1>12. ASSUME ~LastLineCut(s), CursorOk(s) PROVE (s.y + 1) * Line <= viewport_len(s)
    BY <1>2, <1>4, <1>6, <1>7, <1>8, <1>12 DEF LastLineCut, b
  <1> QED
    BY <1>2, <1>9, <1>10, <1>11, <1>12 DEF b, q

\* Where draw_viewport copies to.
LEMMA Offset ==
  ASSUME NEW s \in Screens, s.x <= Stride
  PROVE  /\ DrawOffset(s) \in Nat
         /\ DrawOffset(s) > s.buffer => s.y * Line >= s.buffer
         /\ s.x = 0 => DrawOffset(s) = 0
  <1>1. s.x \in Nat /\ s.y \in Nat /\ s.buffer \in Nat
    BY InLines DEF Screens
  <1> DEFINE h == s.y * RASTER_HEIGHT
  <1>2. h \in Nat /\ Stride * h = s.y * Line
    BY <1>1, Sizes, SMT
  <1>3. DrawOffset(s) = s.x * h
    BY DEF DrawOffset
  <1> HIDE DEF h
  <1>4. s.x * h <= Stride * h /\ s.x * h \in Nat /\ Stride * h \in Nat /\ 0 * h = 0
    BY <1>1, <1>2, Sizes, SMT
  <1> QED
    BY <1>1, <1>2, <1>3, <1>4

\* The pixels of a glyph are in the cursor's line.
LEMMA Pixel ==
  ASSUME NEW s \in Screens, NEW row \in Nat, NEW col \in Nat,
         row < RASTER_HEIGHT, col < GlyphWidth
  PROVE  /\ PixelEnd(s, row, col) \in Nat
         /\ s.x + GlyphWidth <= Stride => PixelEnd(s, row, col) <= (s.y + 1) * Line
  <1>1. s.x \in Nat /\ s.y \in Nat
    BY DEF Screens
  <1> DEFINE h == s.y * RASTER_HEIGHT
  <1>2. h \in Nat /\ (s.y + 1) * Line = (h + RASTER_HEIGHT) * Stride
    BY <1>1, Sizes, SMT
  <1>3. PixelEnd(s, row, col) = (h + row) * Stride + s.x + col + 1
    BY DEF PixelEnd
  <1> HIDE DEF h
  <1>4. /\ (h + row) * Stride + Stride <= (h + RASTER_HEIGHT) * Stride
        /\ (h + row) * Stride \in Nat
    BY <1>1, <1>2, Sizes, SMT
  <1>5. (h + RASTER_HEIGHT) * Stride \in Nat
    BY <1>2, Sizes, SMT
  <1> QED
    BY <1>1, <1>2, <1>3, <1>4, <1>5, Sizes

\* A glyph that does not wrap is in the viewport, or on a line that is cut.
LEMMA GlyphFits ==
  ASSUME NEW s \in Screens, s.x + GlyphWidth <= Stride, CursorOk(s), ~Inside(s)
  PROVE  LastLineCut(s) /\ (s.y + 1) * Line > viewport_len(s)
  <1> DEFINE e == PixelEnd(s, RASTER_HEIGHT - 1, GlyphWidth - 1)
  <1>1. RASTER_HEIGHT - 1 \in Nat /\ GlyphWidth - 1 \in Nat
    BY Sizes
  <1>2. e \in Nat /\ e <= (s.y + 1) * Line
    BY <1>1, Pixel, Sizes
  <1>3. ~(e <= viewport_len(s))
    BY DEF Inside
  <1> HIDE DEF e
  <1>4. viewport_len(s) \in Nat /\ (~LastLineCut(s) => (s.y + 1) * Line <= viewport_len(s))
    BY InLines
  <1>5. (s.y + 1) * Line \in Nat
    <2>1. s.y \in Nat
      BY DEF Screens
    <2> QED
      BY <2>1, Sizes, SMT
  <1> QED
    BY <1>2, <1>3, <1>4, <1>5
-----------------------------------------------------------------------------
(* Operations on a screen: where they leave the cursor and the window *)

\* The fields of a screen.
LEMMA Fields ==
  ASSUME NEW s \in Screens
  PROVE  /\ s.buffer \in Buffers /\ s.x \in Nat /\ s.y \in Nat /\ s.start \in Nat
         /\ s.extra \in Nat /\ s.origin \in Nat \cup {Gone} /\ s.err \in Errors
  BY DEF Screens

\* Moving the cursor, ...
LEMMA AtFacts ==
  ASSUME NEW s \in Screens, NEW x \in Nat, NEW y \in Nat
  PROVE  /\ At(s, x, y) \in Screens
         /\ At(s, x, y).buffer = s.buffer
         /\ At(s, x, y).x = x /\ At(s, x, y).y = y
         /\ At(s, x, y).start = s.start /\ At(s, x, y).extra = s.extra
         /\ At(s, x, y).origin = s.origin /\ At(s, x, y).err = s.err
  BY DEF At, Screens

\* ... failing, ...
LEMMA FailFacts ==
  ASSUME NEW s \in Screens, NEW e \in Errors
  PROVE  /\ Fail(s, e) \in Screens /\ Fail(s, e).err = e
         /\ Fail(s, e).buffer = s.buffer
         /\ Fail(s, e).x = s.x /\ Fail(s, e).y = s.y
         /\ Fail(s, e).start = s.start /\ Fail(s, e).extra = s.extra
         /\ Fail(s, e).origin = s.origin
         /\ Ok(s) => Fail(s, "none") = s
  BY DEF Fail, Screens, Ok

\* ... and growing and moving the window.
LEMMA GrowFacts ==
  ASSUME NEW s \in Screens
  PROVE  /\ Grow(s) = [s EXCEPT !.extra = s.extra + 1] /\ Grow(s) \in Screens
         /\ Advance(s) = [s EXCEPT !.start = s.start + 1] /\ Advance(s) \in Screens
  <1>1. s.extra + 1 \in Nat /\ s.start + 1 \in Nat
    BY Fields
  <1> QED
    BY <1>1 DEF Grow, Advance, Screens

\* A line has a number of columns.
LEMMA ColumnsNat == Columns \in Nat
  BY Sizes, SMT DEF Columns

\* Removing the first line moves the origin only.
LEMMA ShiftFacts ==
  ASSUME NEW s \in Screens
  PROVE  /\ OriginShifted(s) \in Screens
         /\ OriginShifted(s).buffer = s.buffer
         /\ OriginShifted(s).x = s.x /\ OriginShifted(s).y = s.y
         /\ OriginShifted(s).start = s.start /\ OriginShifted(s).extra = s.extra
         /\ OriginShifted(s).err = s.err
         /\ OriginShifted(s).origin =
              IF s.origin >= Columns THEN s.origin - Columns ELSE Gone
  <1> DEFINE o == IF s.origin >= Columns THEN s.origin - Columns ELSE Gone
  <1>1. o \in Nat \cup {Gone}
    BY Fields, ColumnsNat DEF Gone
  <1>2. OriginShifted(s) = [s EXCEPT !.origin = o]
    BY DEF OriginShifted
  <1> HIDE DEF o
  <1>3. OriginShifted(s).origin = o
    BY <1>2 DEF Screens
  <1> QED
    BY <1>1, <1>2, <1>3 DEF Screens, o

\* What the bounds of a screen depend on.
LEMMA SameSize ==
  ASSUME NEW s, NEW t, s.buffer = t.buffer, s.extra = t.extra
  PROVE  /\ viewport_len(s) = viewport_len(t)
         /\ s.y = t.y => (CursorOk(s) <=> CursorOk(t))
         /\ s.start = t.start /\ s.x = t.x => (WindowOk(s) <=> WindowOk(t))
         /\ LastLineCut(s) <=> LastLineCut(t)
  BY DEF viewport_len, CursorOk, WindowOk, LastLineCut

\* draw_viewport moves nothing.
LEMMA DrawFacts ==
  ASSUME NEW s \in Screens
  PROVE  /\ draw_viewport(s) \in Screens
         /\ draw_viewport(s).buffer = s.buffer
         /\ draw_viewport(s).x = s.x /\ draw_viewport(s).y = s.y
         /\ draw_viewport(s).start = s.start /\ draw_viewport(s).extra = s.extra
         /\ draw_viewport(s).origin = s.origin
         /\ Ok(draw_viewport(s)) => draw_viewport(s) = s
         /\ ~Ok(s) => draw_viewport(s) = s
  <1>1. /\ draw_viewport(s) \in {s, Fail(s, "index"), Fail(s, "draw")}
        /\ ~Ok(s) => draw_viewport(s) = s
    BY DEF draw_viewport
  <1>2. "index" \in Errors /\ "draw" \in Errors
    BY DEF Errors
  <1> QED
    BY <1>1, <1>2, FailFacts DEF Ok

\* It fails for its offset only, and not at the beginning of a line.
LEMMA DrawGood ==
  ASSUME NEW s \in Screens, Ok(s), WindowOk(s)
  PROVE  /\ ~Ok(draw_viewport(s)) => Known(draw_viewport(s)) /\ draw_viewport(s).err = "draw"
         /\ s.x = 0 => draw_viewport(s) = s
  <1> DEFINE f == Fail(s, "draw")
  <1>1. s.buffer \in Nat /\ s.x \in Nat /\ s.y \in Nat /\ s.start <= s.extra /\ s.x <= Stride
    BY InLines, Fields DEF WindowOk
  <1>2. /\ DrawOffset(s) \in Nat /\ (DrawOffset(s) > s.buffer => s.y * Line >= s.buffer)
        /\ s.x = 0 => DrawOffset(s) = 0
    BY <1>1, Offset
  <1>3. ~(WindowEnd(s) > viewport_len(s))
    BY <1>1, InLines
  <1>4. draw_viewport(s) = IF DrawOffset(s) > s.buffer THEN f ELSE s
    BY <1>3 DEF draw_viewport
  <1>5. f.err = "draw" /\ f.y = s.y /\ f.buffer = s.buffer
    BY FailFacts DEF Errors
  <1> HIDE DEF f
  <1>6. CASE DrawOffset(s) > s.buffer
    <2>1. Known(f)
      BY <1>2, <1>5, <1>6 DEF Known
    <2>2. s.x # 0
      BY <1>1, <1>2, <1>6
    <2> QED
      BY <1>4, <1>5, <1>6, <2>1, <2>2
  <1>7. CASE ~(DrawOffset(s) > s.buffer)
    BY <1>4, <1>7
  <1> QED
    BY <1>6, <1>7

\* A good screen stays good when it is drawn.
LEMMA DrawKeeps ==
  ASSUME NEW g \in BOOLEAN, NEW s, Good(s, g)
  PROVE  Good(draw_viewport(s), g)
  <1>1. s \in Screens
    BY DEF Good
  <1>2. /\ draw_viewport(s) \in Screens /\ (Ok(draw_viewport(s)) => draw_viewport(s) = s)
        /\ ~Ok(s) => draw_viewport(s) = s
    BY <1>1, DrawFacts
  <1>3. ASSUME g, Ok(s), ~Ok(draw_viewport(s)) PROVE Known(draw_viewport(s))
    BY <1>1, <1>3, DrawGood DEF Good
  <1> QED
    BY <1>1, <1>2, <1>3 DEF Good

\* scroll_down(true) grows the viewport or removes its first line.
LEMMA MakeSpaceType ==
  ASSUME NEW s \in Screens
  PROVE  make_space(s) \in Screens /\ make_space(s).x = s.x
  <1> DEFINE top == At(s, 0, 0)
             u == Advance(Grow(top))
             v == OriginShifted(top)
  <1>1. s.x \in Nat /\ s.y \in Nat /\ (s.y # 0 => s.y - 1 \in Nat)
    BY Fields
  <1>2. top \in Screens
    BY AtFacts
  <1> HIDE DEF top
  <1>3. u \in Screens /\ v \in Screens
    BY <1>2, GrowFacts, ShiftFacts
  <1> HIDE DEF u, v
  <1> DEFINE d == draw_viewport(u)
             e == draw_viewport(v)
  <1>4. d \in Screens /\ e \in Screens
    BY <1>3, DrawFacts
  <1>5. make_space(s) = IF CanGrow(s) THEN At(d, s.x, s.y)
                        ELSE IF s.y = 0 THEN Fail(s, "negative")
                        ELSE At(e, s.x, s.y - 1)
    BY DEF make_space, Shifted, u, v, top
  <1> HIDE DEF d, e
  <1>6. At(d, s.x, s.y) \in Screens /\ At(d, s.x, s.y).x = s.x
    BY <1>1, <1>4 DEF At, Screens
  <1>7. s.y # 0 => At(e, s.x, s.y - 1) \in Screens /\ At(e, s.x, s.y - 1).x = s.x
    BY <1>1, <1>4, AtFacts
  <1>8. Fail(s, "negative") \in Screens /\ Fail(s, "negative").x = s.x
    BY FailFacts DEF Errors
  <1> QED
    BY <1>5, <1>6, <1>7, <1>8

\* With the window in the viewport it cannot fail in drawing.
LEMMA MakeSpaceIs ==
  ASSUME NEW s \in Screens, Ok(s), WindowOk(s)
  PROVE  /\ CanGrow(s) => make_space(s) = [s EXCEPT !.start = s.start + 1, !.extra = s.extra + 1]
         /\ ~CanGrow(s) /\ s.y # 0 => make_space(s) = At(OriginShifted(s), s.x, s.y - 1)
         /\ ~CanGrow(s) /\ s.y = 0 => make_space(s) = Fail(s, "negative")
  <1> DEFINE top == At(s, 0, 0)
             u == Advance(Grow(top))
             v == OriginShifted(top)
  <1>1. /\ s.x \in Nat /\ s.y \in Nat /\ s.start \in Nat /\ s.extra \in Nat
        /\ s.buffer \in Nat /\ viewport_len(s) \in Nat
        /\ viewport_len(s) <= 4 * s.buffer /\ s.start <= s.extra
    BY Fields, InLines DEF WindowOk
  <1>2. /\ top \in Screens /\ top.x = 0 /\ top.start = s.start /\ top.extra = s.extra
        /\ top.buffer = s.buffer /\ top.err = "none"
    BY AtFacts DEF Ok
  <1>3. viewport_len(top) = viewport_len(s)
    BY <1>2, SameSize
  <1>4. make_space(s) = IF CanGrow(s) THEN At(draw_viewport(u), s.x, s.y)
                        ELSE IF s.y = 0 THEN Fail(s, "negative")
                        ELSE At(draw_viewport(v), s.x, s.y - 1)
    BY DEF make_space, Shifted
  <1>5. ASSUME CanGrow(s)
        PROVE  make_space(s) = [s EXCEPT !.start = s.start + 1, !.extra = s.extra + 1]
    <2>1. u = [top EXCEPT !.start = s.start + 1, !.extra = s.extra + 1]
      <3>1. Grow(top) = [top EXCEPT !.extra = s.extra + 1] /\ Grow(top) \in Screens
        BY <1>2, GrowFacts
      <3>2. u = [Grow(top) EXCEPT !.start = Grow(top).start + 1]
        BY <3>1, GrowFacts
      <3> QED
        BY <1>2, <3>1, <3>2 DEF Screens
    <2>2. s.start + 1 \in Nat /\ s.extra + 1 \in Nat
      BY <1>1
    <2>3. /\ u \in Screens /\ u.x = 0 /\ u.err = "none" /\ u.buffer = s.buffer
          /\ u.start = s.start + 1 /\ u.extra = s.extra + 1
      BY <1>2, <2>1, <2>2 DEF Screens
    <2>4. At(u, s.x, s.y) = [s EXCEPT !.start = s.start + 1, !.extra = s.extra + 1]
      BY <1>1, <2>1, <2>2 DEF At, Screens, top
    <2> HIDE DEF u
    <2>5. viewport_len(u) = viewport_len(s) + Line
      <3>1. viewport_len(u) = s.buffer + (s.extra + 1) * Line
        BY <2>3 DEF viewport_len
      <3>2. (s.extra + 1) * Line = s.extra * Line + Line /\ s.extra * Line \in Nat
        BY <1>1, Sizes, SMT
      <3> QED
        BY <1>1, <3>1, <3>2, Sizes DEF viewport_len
    <2>6. WindowOk(u)
      BY <1>1, <1>5, <2>3, <2>5, Sizes DEF WindowOk, CanGrow
    <2>7. draw_viewport(u) = u
      BY <2>3, <2>6, DrawGood DEF Ok
    <2> QED
      BY <1>4, <1>5, <2>4, <2>7
  <1>6. ASSUME ~CanGrow(s), s.y # 0
        PROVE  make_space(s) = At(OriginShifted(s), s.x, s.y - 1)
    <2>1. /\ v \in Screens /\ v.x = 0 /\ v.err = "none" /\ v.buffer = s.buffer
          /\ v.start = s.start /\ v.extra = s.extra
      BY <1>2, ShiftFacts
    <2>2. At(v, s.x, s.y - 1) = At(OriginShifted(s), s.x, s.y - 1)
      BY DEF At, OriginShifted, Screens, top
    <2> HIDE DEF v
    <2>3. WindowOk(v)
      <3>1. viewport_len(v) = viewport_len(s)
        BY <2>1, SameSize
      <3> QED
        BY <1>1, <2>1, <3>1, Sizes DEF WindowOk
    <2>4. draw_viewport(v) = v
      BY <2>1, <2>3, DrawGood DEF Ok
    <2> QED
      BY <1>4, <1>6, <2>2, <2>4
  <1> QED
    BY <1>4, <1>5, <1>6

\* It leaves the cursor's line in the viewport if it was there or just below.
LEMMA MakeSpaceGood ==
  ASSUME NEW g \in BOOLEAN, NEW s \in Screens, Ok(s),
         g => WindowOk(s) /\ s.y <= s.extra + Rows(s.buffer)
  PROVE  Good(make_space(s), g)
  <1> DEFINE r == make_space(s)
  <1>1. r \in Screens
    BY MakeSpaceType
  <1>2. SUFFICES ASSUME g PROVE IF Ok(r) THEN WindowOk(r) /\ CursorOk(r) ELSE Known(r)
    BY <1>1 DEF Good
  <1>3. /\ WindowOk(s) /\ s.y <= s.extra + Rows(s.buffer) /\ s.err = "none"
        /\ viewport_len(s) <= 4 * s.buffer /\ s.start <= s.extra /\ s.x <= Stride
    BY <1>2 DEF Ok, WindowOk
  <1>4. /\ s.x \in Nat /\ s.y \in Nat /\ s.start \in Nat /\ s.extra \in Nat
        /\ s.buffer \in Nat /\ viewport_len(s) \in Nat /\ Rows(s.buffer) \in Nat
    BY Fields, InLines
  <1>5. CASE CanGrow(s)
    <2>1. r = [s EXCEPT !.start = s.start + 1, !.extra = s.extra + 1]
      BY <1>3, <1>5, MakeSpaceIs
    <2>2. /\ r.start = s.start + 1 /\ r.extra = s.extra + 1 /\ r.err = "none"
          /\ r.x = s.x /\ r.y = s.y /\ r.buffer = s.buffer
      BY <1>3, <2>1 DEF Screens
    <2> HIDE DEF r
    <2>3. viewport_len(r) = viewport_len(s) + Line
      <3>1. viewport_len(r) = s.buffer + (s.extra + 1) * Line
        BY <2>2 DEF viewport_len
      <3>2. (s.extra + 1) * Line = s.extra * Line + Line /\ s.extra * Line \in Nat
        BY <1>4, Sizes, SMT
      <3> QED
        BY <1>4, <3>1, <3>2, Sizes DEF viewport_len
    <2>4. WindowOk(r)
      BY <1>3, <1>4, <1>5, <2>2, <2>3, Sizes DEF WindowOk, CanGrow
    <2>5. CursorOk(r)
      BY <1>3, <1>4, <2>2 DEF CursorOk
    <2> QED
      BY <2>2, <2>4, <2>5 DEF Ok
  <1>6. CASE ~CanGrow(s) /\ s.y # 0
    <2> DEFINE v == OriginShifted(s)
    <2>1. r = At(v, s.x, s.y - 1)
      BY <1>3, <1>6, MakeSpaceIs
    <2>2. /\ v \in Screens /\ v.buffer = s.buffer /\ v.start = s.start
          /\ v.extra = s.extra /\ v.err = "none"
      BY <1>3, ShiftFacts
    <2> HIDE DEF v, r
    <2>3. s.y - 1 \in Nat
      BY <1>4, <1>6
    <2>4. /\ r.start = s.start /\ r.extra = s.extra /\ r.err = "none"
          /\ r.x = s.x /\ r.y = s.y - 1 /\ r.buffer = s.buffer
      BY <1>4, <2>1, <2>2, <2>3 DEF At, Screens
    <2>5. WindowOk(r)
      BY <1>3, <2>4, SameSize
    <2>6. CursorOk(r)
      BY <1>3, <1>4, <2>3, <2>4 DEF CursorOk
    <2> QED
      BY <2>4, <2>5, <2>6 DEF Ok
  <1>7. CASE ~CanGrow(s) /\ s.y = 0
    <2>1. r = Fail(s, "negative")
      BY <1>3, <1>7, MakeSpaceIs
    <2>2. r.err = "negative"
      BY <2>1, FailFacts DEF Errors
    <2> QED
      BY <2>2 DEF Ok, Known
  <1> QED
    BY <1>5, <1>6, <1>7

\* Moving the window within the viewport, and drawing it.
LEMMA MovedWindow ==
  ASSUME NEW s \in Screens, Ok(s), NEW n \in Nat, WindowOk(s) => n <= s.extra,
         NEW r, r = At(draw_viewport([At(s, 0, 0) EXCEPT !.start = n]), s.x, s.y)
  PROVE  /\ r \in Screens /\ r.buffer = s.buffer /\ r.x = s.x /\ r.y = s.y
         /\ r.extra = s.extra /\ r.origin = s.origin /\ r.start = n
         /\ WindowOk(s) => Ok(r) /\ WindowOk(r)
  <1> DEFINE u == [At(s, 0, 0) EXCEPT !.start = n]
             d == draw_viewport(u)
  <1>0. s.x \in Nat /\ s.y \in Nat
    BY Fields
  <1>1. /\ u \in Screens /\ u.x = 0 /\ u.start = n /\ u.extra = s.extra
        /\ u.buffer = s.buffer /\ u.origin = s.origin /\ u.err = "none"
    <2>1. /\ At(s, 0, 0) \in Screens /\ At(s, 0, 0).x = 0 /\ At(s, 0, 0).extra = s.extra
          /\ At(s, 0, 0).buffer = s.buffer /\ At(s, 0, 0).origin = s.origin
          /\ At(s, 0, 0).err = "none"
      BY AtFacts DEF Ok
    <2> QED
      BY <2>1 DEF Screens
  <1> HIDE DEF u
  <1>2. /\ d \in Screens /\ d.start = n /\ d.extra = s.extra
        /\ d.buffer = s.buffer /\ d.origin = s.origin
    BY <1>1, DrawFacts
  <1>3. ASSUME WindowOk(s) PROVE d = u
    <2>1. viewport_len(u) = viewport_len(s)
      BY <1>1, SameSize
    <2>2. WindowOk(u)
      BY <1>1, <1>3, <2>1, Sizes DEF WindowOk
    <2> QED
      BY <1>1, <2>2, DrawGood DEF Ok
  <1>4. r = At(d, s.x, s.y)
    BY DEF u
  <1> HIDE DEF d
  <1>5. /\ r \in Screens /\ r.buffer = s.buffer /\ r.x = s.x /\ r.y = s.y
        /\ r.extra = s.extra /\ r.origin = s.origin /\ r.start = n /\ r.err = d.err
    BY <1>0, <1>2, <1>4 DEF At, Screens
  <1>6. ASSUME WindowOk(s) PROVE WindowOk(r)
    <2>1. viewport_len(r) = viewport_len(s)
      BY <1>5, SameSize
    <2> QED
      BY <1>5, <1>6, <2>1 DEF WindowOk
  <1> QED
    BY <1>1, <1>3, <1>5, <1>6 DEF Ok

\* scroll_down(false) and scroll_up move nothing but the window.
LEMMA ScrollDownFacts ==
  ASSUME NEW s \in Screens, Ok(s), NEW r, r = scroll_down(s)
  PROVE  /\ r \in Screens /\ r.buffer = s.buffer /\ r.x = s.x /\ r.y = s.y
         /\ r.extra = s.extra /\ r.origin = s.origin
         /\ WindowOk(s) => Ok(r) /\ WindowOk(r)
  <1>1. CASE r = s
    BY <1>1
  <1>2. CASE ~(WindowEnd(s) + Line > viewport_len(s))
    <2> DEFINE top == At(s, 0, 0)
    <2>1. s.start + 1 \in Nat /\ s.start + 1 <= s.extra
      BY <1>2, InLines, Fields, Sizes
    <2>2. top \in Screens /\ top.start = s.start
      BY AtFacts
    <2>3. Advance(top) = [top EXCEPT !.start = s.start + 1]
      BY <2>2, GrowFacts
    <2>4. r = At(draw_viewport([top EXCEPT !.start = s.start + 1]), s.x, s.y)
      BY <1>2, <2>3 DEF scroll_down
    <2> QED
      BY <2>1, <2>4, MovedWindow
  <1> QED
    BY <1>1, <1>2 DEF scroll_down

\* scroll_up never moves it down.
LEMMA ScrollUpFacts ==
  ASSUME NEW s \in Screens, Ok(s), NEW r, r = scroll_up(s)
  PROVE  /\ r \in Screens /\ r.buffer = s.buffer /\ r.x = s.x /\ r.y = s.y
         /\ r.extra = s.extra /\ r.origin = s.origin /\ r.start <= s.start
         /\ WindowOk(s) => Ok(r) /\ WindowOk(r)
  <1>0. s.start \in Nat /\ s.extra \in Nat
    BY Fields
  <1>1. CASE r = s
    BY <1>0, <1>1
  <1>2. CASE s.start # 0
    <2> DEFINE top == At(s, 0, 0)
    <2>1. s.start - 1 \in Nat /\ s.start - 1 <= s.start /\ (WindowOk(s) => s.start - 1 <= s.extra)
      BY <1>0, <1>2 DEF WindowOk
    <2>2. top \in Screens /\ top.start = s.start
      BY AtFacts
    <2>3. [top EXCEPT !.start = @ - 1] = [top EXCEPT !.start = s.start - 1]
      BY <2>2 DEF Screens
    <2>4. r = At(draw_viewport([top EXCEPT !.start = s.start - 1]), s.x, s.y)
      BY <1>2, <2>3 DEF scroll_up
    <2>5. /\ r \in Screens /\ r.buffer = s.buffer /\ r.x = s.x /\ r.y = s.y
          /\ r.extra = s.extra /\ r.origin = s.origin /\ r.start = s.start - 1
          /\ WindowOk(s) => Ok(r) /\ WindowOk(r)
      BY <2>1, <2>4, MovedWindow
    <2> QED
      BY <2>1, <2>5
  <1> QED
    BY <1>1, <1>2 DEF scroll_up

\* The next line is in the viewport or just below it; in the window it begins
\* in the viewport.
LEMMA NextLineFacts ==
  ASSUME NEW s \in Screens
  PROVE  /\ NextLine(s) \in Screens /\ NextLine(s).buffer = s.buffer
         /\ NextLine(s).x = 0 /\ NextLine(s).y = s.y + 1
         /\ NextLine(s).start = s.start /\ NextLine(s).extra = s.extra
         /\ NextLine(s).origin = s.origin /\ NextLine(s).err = s.err
         /\ WindowOk(s) => WindowOk(NextLine(s))
         /\ CursorOk(s) => s.y + 1 <= s.extra + Rows(s.buffer)
         /\ WindowOk(s) /\ ~BelowWindow(NextLine(s)) => CursorOk(NextLine(s))
  <1> DEFINE t == NextLine(s)
  <1>0. /\ s.y \in Nat /\ s.start \in Nat /\ s.extra \in Nat /\ Rows(s.buffer) \in Nat
        /\ s.y + 1 \in Nat
    BY Fields, InLines
  <1>1. /\ t \in Screens /\ t.buffer = s.buffer /\ t.x = 0 /\ t.y = s.y + 1
        /\ t.start = s.start /\ t.extra = s.extra /\ t.origin = s.origin /\ t.err = s.err
    BY <1>0 DEF NextLine, At, Screens
  <1> HIDE DEF t
  <1>2. viewport_len(t) = viewport_len(s)
    BY <1>1, SameSize
  <1>3. WindowOk(s) => WindowOk(t)
    BY <1>1, <1>2, Sizes DEF WindowOk
  <1>4. CursorOk(s) => s.y + 1 <= s.extra + Rows(s.buffer)
    BY <1>0 DEF CursorOk
  <1>5. BelowWindow(t) <=> t.y >= t.start + Rows(t.buffer)
    BY <1>1, InLines
  <1>6. WindowOk(s) /\ ~BelowWindow(t) => CursorOk(t)
    BY <1>0, <1>1, <1>5 DEF WindowOk, CursorOk
  <1> QED
    BY <1>1, <1>3, <1>4, <1>6 DEF t

\* newline ends at the beginning of a line.
LEMMA NewlineGood ==
  ASSUME NEW g \in BOOLEAN, NEW s, Good(s, g)
  PROVE  Good(newline(s), g) /\ (Ok(s) => newline(s).x = 0)
  <1>1. CASE ~Ok(s)
    BY <1>1 DEF newline
  <1>2. CASE Ok(s)
    <2> DEFINE t == NextLine(s)
    <2>1. s \in Screens /\ (g => WindowOk(s) /\ CursorOk(s))
      BY <1>2 DEF Good
    <2>2. /\ t \in Screens /\ t.x = 0 /\ Ok(t)
          /\ g => WindowOk(t) /\ t.y <= t.extra + Rows(t.buffer)
          /\ g /\ ~BelowWindow(t) => CursorOk(t)
      BY <1>2, <2>1, NextLineFacts DEF Ok
    <2>3. newline(s) = IF BelowWindow(t) THEN make_space(t) ELSE t
      BY <1>2 DEF newline
    <2> HIDE DEF t
    <2>4. Good(make_space(t), g) /\ make_space(t).x = 0
      BY <2>2, MakeSpaceGood, MakeSpaceType
    <2>5. ~BelowWindow(t) => Good(t, g)
      BY <2>2 DEF Good
    <2> QED
      BY <2>2, <2>3, <2>4, <2>5
  <1> QED
    BY <1>1, <1>2

\* A glyph that does not wrap.
LEMMA SetPixelsGood ==
  ASSUME NEW g \in BOOLEAN, NEW s, Good(s, g), g /\ Ok(s) => s.x + GlyphWidth <= Stride
  PROVE  Good(set_pixels(s), g)
  <1>1. CASE ~Ok(s)
    BY <1>1 DEF set_pixels
  <1>2. CASE Ok(s) /\ Inside(s)
    <2> DEFINE r == [s EXCEPT !.x = s.x + GlyphWidth]
    <2>1. s \in Screens /\ (g => WindowOk(s) /\ CursorOk(s) /\ s.x + GlyphWidth <= Stride)
      BY <1>2 DEF Good
    <2>2. s.x + GlyphWidth \in Nat
      BY <2>1, Fields, Sizes
    <2>3. set_pixels(s) = r
      BY <1>2 DEF set_pixels
    <2>4. /\ r \in Screens /\ r.buffer = s.buffer /\ r.x = s.x + GlyphWidth /\ r.y = s.y
          /\ r.start = s.start /\ r.extra = s.extra /\ r.err = s.err
      BY <2>1, <2>2 DEF Screens
    <2> HIDE DEF r
    <2>5. viewport_len(r) = viewport_len(s) /\ (CursorOk(s) => CursorOk(r))
      BY <2>4, SameSize
    <2>6. g => WindowOk(r) /\ CursorOk(r)
      BY <2>1, <2>4, <2>5 DEF WindowOk
    <2> QED
      BY <1>2, <2>3, <2>4, <2>6 DEF Good, Ok
  <1>3. CASE Ok(s) /\ ~Inside(s)
    <2> DEFINE r == Fail(s, "index")
    <2>1. s \in Screens /\ (g => CursorOk(s) /\ s.x + GlyphWidth <= Stride)
      BY <1>3 DEF Good
    <2>2. set_pixels(s) = r
      BY <1>3 DEF set_pixels
    <2>3. /\ r \in Screens /\ r.err = "index" /\ r.y = s.y /\ r.buffer = s.buffer
          /\ r.extra = s.extra
      BY <2>1, FailFacts DEF Errors
    <2> HIDE DEF r
    <2>4. viewport_len(r) = viewport_len(s) /\ (LastLineCut(r) <=> LastLineCut(s))
      BY <2>3, SameSize
    <2>5. g => LastLineCut(s) /\ (s.y + 1) * Line > viewport_len(s)
      BY <1>3, <2>1, GlyphFits
    <2> QED
      BY <2>2, <2>3, <2>4, <2>5 DEF Good, Ok, Known
  <1> QED
    BY <1>1, <1>2, <1>3

\* A glyph.
LEMMA DrawCharGood ==
  ASSUME NEW g \in BOOLEAN, NEW s, Good(s, g)
  PROVE  Good(draw_char(s), g)
  <1> DEFINE t == IF Wraps(s) THEN newline(s) ELSE s
  <1>1. Good(t, g)
    BY NewlineGood
  <1>2. ASSUME g, Ok(t) PROVE t.x + GlyphWidth <= Stride
    <2>1. CASE Wraps(s)
      <3>1. Ok(s)
        BY <1>2, <2>1 DEF newline
      <3>2. t.x = 0
        BY <2>1, <3>1, NewlineGood
      <3> QED
        BY <3>2, Sizes
    <2>2. CASE ~Wraps(s)
      <3>1. s.x \in Nat
        BY Fields DEF Good
      <3> QED
        BY <2>2, <3>1, Sizes DEF Wraps
    <2> QED
      BY <2>1, <2>2
  <1>3. draw_char(s) = set_pixels(t)
    BY DEF draw_char
  <1> HIDE DEF t
  <1> QED
    BY <1>1, <1>2, <1>3, SetPixelsGood

\* putc.
LEMMA PutcGood ==
  ASSUME NEW g \in BOOLEAN, NEW s, Good(s, g), NEW c
  PROVE  Good(putc(s, c), g)
  BY NewlineGood, DrawCharGood DEF putc

\* The last cell of a line, where it is one.
LEMMA LastCellFacts == LastCell \in Int /\ LastCell + GlyphWidth <= Stride
  BY Sizes, ScreenAssumption DEF LastCell

\* The cell before the cursor.
LEMMA CellBeforeFacts ==
  ASSUME NEW s \in Screens, ~(s.x < GlyphWidth /\ (s.y = 0 \/ LastCell < 0))
  PROVE  LET c == CellBefore(s)
         IN  /\ c \in Screens /\ c.buffer = s.buffer /\ c.start = s.start
             /\ c.extra = s.extra /\ c.origin = s.origin /\ c.err = s.err
             /\ s.x <= Stride => c.x + GlyphWidth <= Stride
             /\ c.y <= s.y
             /\ IF s.x >= GlyphWidth THEN c.x = s.x - GlyphWidth /\ c.y = s.y
                ELSE c.x = LastCell /\ c.y = s.y - 1
  <1> DEFINE c == CellBefore(s)
  <1>0. s.x \in Nat /\ s.y \in Nat
    BY Fields
  <1>1. CASE s.x >= GlyphWidth
    <2>1. s.x - GlyphWidth \in Nat /\ s.x - GlyphWidth + GlyphWidth = s.x
      BY <1>0, <1>1, Sizes
    <2>2. c = At(s, s.x - GlyphWidth, s.y)
      BY <1>1 DEF CellBefore
    <2>3. /\ c \in Screens /\ c.buffer = s.buffer /\ c.start = s.start /\ c.extra = s.extra
          /\ c.origin = s.origin /\ c.err = s.err /\ c.x = s.x - GlyphWidth /\ c.y = s.y
      BY <1>0, <2>1, <2>2 DEF At, Screens
    <2> HIDE DEF c
    <2> QED
      BY <1>0, <1>1, <2>1, <2>3 DEF c
  <1>2. CASE ~(s.x >= GlyphWidth)
    <2>1. s.x < GlyphWidth
      BY <1>0, <1>2, Sizes
    <2>2. s.y - 1 \in Nat /\ s.y - 1 <= s.y /\ LastCell \in Nat /\ LastCell + GlyphWidth <= Stride
      BY <1>0, <2>1, LastCellFacts
    <2>3. c = At(s, LastCell, s.y - 1)
      BY <1>2 DEF CellBefore
    <2>4. /\ c \in Screens /\ c.buffer = s.buffer /\ c.start = s.start /\ c.extra = s.extra
          /\ c.origin = s.origin /\ c.err = s.err /\ c.x = LastCell /\ c.y = s.y - 1
      BY <2>2, <2>3 DEF At, Screens
    <2> HIDE DEF c
    <2> QED
      BY <1>2, <2>2, <2>4 DEF c
  <1> QED
    BY <1>1, <1>2

\* remove_char goes to it, unless the viewport or the line begins there.
LEMMA RemoveCharGood ==
  ASSUME NEW g \in BOOLEAN, NEW s, Good(s, g)
  PROVE  Good(remove_char(s), g)
  <1> DEFINE stuck == s.x < GlyphWidth /\ (s.y = 0 \/ LastCell < 0)
             c == CellBefore(s)
  <1>0. s \in Screens
    BY DEF Good
  <1>1. CASE ~Ok(s)
    BY <1>1 DEF remove_char
  <1>2. CASE Ok(s) /\ stuck
    <2>1. remove_char(s) = Fail(s, "negative")
      BY <1>2 DEF remove_char
    <2>2. remove_char(s) \in Screens /\ remove_char(s).err = "negative"
      BY <1>0, <2>1, FailFacts DEF Errors
    <2> QED
      BY <2>2 DEF Good, Ok, Known
  <1>3. CASE Ok(s) /\ ~stuck
    <2>1. remove_char(s) = IF ~Inside(c) THEN Fail(c, "index") ELSE c
      BY <1>3 DEF remove_char
    <2>2. /\ c \in Screens /\ c.buffer = s.buffer /\ c.start = s.start
          /\ c.extra = s.extra /\ c.err = s.err
          /\ s.x <= Stride => c.x + GlyphWidth <= Stride
          /\ c.y <= s.y
      BY <1>0, <1>3, CellBeforeFacts
    <2>3. viewport_len(c) = viewport_len(s)
      BY <2>2, SameSize
    <2> HIDE DEF c
    <2>4. c.x \in Nat /\ c.y \in Nat /\ s.y \in Nat /\ s.extra \in Nat /\ Rows(s.buffer) \in Nat
      BY <1>0, <2>2, Fields, InLines
    <2>5. g => WindowOk(c) /\ CursorOk(c) /\ c.x + GlyphWidth <= Stride
      <3>1. g => WindowOk(s) /\ CursorOk(s)
        BY <1>3 DEF Good
      <3> QED
        BY <2>2, <2>3, <2>4, <3>1, Sizes DEF WindowOk, CursorOk
    <2>6. Good(c, g) /\ Ok(c)
      BY <1>3, <2>2, <2>5 DEF Good, Ok
    <2>7. ASSUME ~Inside(c) PROVE Good(Fail(c, "index"), g)
      <3> DEFINE f == Fail(c, "index")
      <3>1. /\ f \in Screens /\ f.err = "index" /\ f.y = c.y /\ f.buffer = c.buffer
            /\ f.extra = c.extra
        BY <2>2, FailFacts DEF Errors
      <3> HIDE DEF f
      <3>2. viewport_len(f) = viewport_len(c) /\ (LastLineCut(f) <=> LastLineCut(c))
        BY <3>1, SameSize
      <3>3. g => LastLineCut(c) /\ (c.y + 1) * Line > viewport_len(c)
        BY <2>2, <2>5, <2>7, GlyphFits
      <3>4. Good(f, g)
        BY <3>1, <3>2, <3>3 DEF Good, Ok, Known
      <3> QED
        BY <3>4 DEF f
    <2> QED
      BY <2>1, <2>6, <2>7
  <1> QED
    BY <1>1, <1>2, <1>3

\* A screen without text.
LEMMA ClearedGood ==
  ASSUME NEW s \in Screens, Ok(s)
  PROVE  /\ Cleared(s) \in Screens /\ Cleared(s).x = 0 /\ Ok(Cleared(s))
         /\ WindowOk(Cleared(s)) /\ CursorOk(Cleared(s))
         /\ draw_viewport(Cleared(s)) = Cleared(s)
  <1> DEFINE t == Cleared(s)
  <1>1. /\ t \in Screens /\ t.x = 0 /\ t.y = 0 /\ t.start = 0 /\ t.extra = 0 /\ t.err = "none"
    BY DEF Cleared, Screens, Ok
  <1> HIDE DEF t
  <1>2. t.buffer \in Nat /\ Rows(t.buffer) \in Nat \ {0}
    BY <1>1, InLines
  <1>3. viewport_len(t) = t.buffer
    <2>1. 0 * Line = 0
      BY Sizes, SMT
    <2> QED
      BY <1>1, <1>2, <2>1 DEF viewport_len
  <1>4. WindowOk(t) /\ CursorOk(t)
    BY <1>1, <1>2, <1>3, Sizes DEF WindowOk, CursorOk
  <1>5. draw_viewport(t) = t
    BY <1>1, <1>4, DrawGood DEF Ok
  <1> QED
    BY <1>1, <1>4, <1>5 DEF t, Ok

\* clear, after the text it prints.
LEMMA ClearGood ==
  ASSUME NEW g \in BOOLEAN, NEW s, Good(s, g)
  PROVE  /\ Good(clear(s), g) /\ (Ok(clear(s)) => clear(s).x = 0)
         /\ Ok(clear(s)) => WindowOk(clear(s)) /\ CursorOk(clear(s))
  <1> DEFINE r == Clearing(s)
  <1>1. \A t : Good(t, g) => Good(Two(t), g)
    BY DrawCharGood DEF Two
  <1>2. Good(Two(Two(Two(Two(s)))), g)
    BY <1>1
  <1>3. Good(newline(Two(Two(Two(Two(s))))), g)
    BY <1>2, NewlineGood
  <1>4. Good(r, g)
    BY <1>3, DrawKeeps DEF Clearing
  <1>5. clear(s) = IF Ok(r) THEN draw_viewport(Cleared(r)) ELSE r
    BY DEF clear
  <1> HIDE DEF r
  <1>6. r \in Screens
    BY <1>4 DEF Good
  <1>7. CASE Ok(r)
    <2> DEFINE t == Cleared(r)
    <2>1. /\ t \in Screens /\ t.x = 0 /\ Ok(t) /\ WindowOk(t) /\ CursorOk(t)
          /\ draw_viewport(t) = t
      BY <1>6, <1>7, ClearedGood
    <2>2. clear(s) = t
      BY <1>5, <1>7, <2>1
    <2> HIDE DEF t
    <2> QED
      BY <2>1, <2>2 DEF Good
  <1>8. CASE ~Ok(r)
    BY <1>4, <1>5, <1>8
  <1> QED
    BY <1>7, <1>8

\* Where a typed line begins does not matter to a good screen.
LEMMA OriginGood ==
  ASSUME NEW g \in BOOLEAN, NEW s, Good(s, g)
  PROVE  Good([s EXCEPT !.origin = Position(s)], g) /\ Position(s) \in Nat
  <1> DEFINE t == [s EXCEPT !.origin = Position(s)]
  <1>1. s \in Screens /\ s.x \in Nat /\ s.y \in Nat
    BY Fields DEF Good
  <1>2. Position(s) \in Nat
    <2>1. s.y * Columns \in Nat /\ s.x \div GlyphWidth \in Nat
      BY <1>1, ColumnsNat, Sizes, SMT
    <2> QED
      BY <2>1 DEF Position
  <1>3. /\ t \in Screens /\ t.buffer = s.buffer /\ t.x = s.x /\ t.y = s.y
        /\ t.start = s.start /\ t.extra = s.extra /\ t.err = s.err
    BY <1>1, <1>2 DEF Screens
  <1> HIDE DEF t
  <1>4. /\ viewport_len(t) = viewport_len(s) /\ (CursorOk(s) <=> CursorOk(t))
        /\ WindowOk(s) <=> WindowOk(t)
        /\ LastLineCut(s) <=> LastLineCut(t)
    BY <1>3, SameSize
  <1>5. Good(t, g)
    BY <1>3, <1>4 DEF Good, Ok, Known
  <1> QED
    BY <1>2, <1>5 DEF t
-----------------------------------------------------------------------------
(* The invariant *)

\* Between the steps of newline and its scroll_down, the line to go to.
SavedPlaces == {"space", "advance", "shift", "draw", "copy", "restore"}
ScrollOk(p, s) ==
  /\ p.at \in {"compare", "scroll"} => s.y >= 1 /\ s.y <= s.extra + Rows(s.buffer)
  /\ p.at \in {"space", "shift"} => p.y >= 1 /\ p.y <= s.extra + Rows(s.buffer)
  /\ p.at \in {"advance", "draw", "copy", "restore"} => p.y < s.extra + Rows(s.buffer)
  /\ p.at = "advance" => s.start + 1 <= s.extra

\* Between computing an offset and using it, without a clear.
EndOk(p, s) ==
  /\ p.at = "pixel" /\ ~p.stale => p.end <= (s.y + 1) * Line
  /\ p.at \in {"shift", "copy", "flush"} /\ ~p.stale => p.end <= viewport_len(s)

\* A process and the screen it prints to; g: no key raced a newline.
Fits(p, s, g) ==
  /\ p.at \in {"glyph", "pixel", "move"} => s.x + GlyphWidth <= Stride
  /\ p.at \in NewlinePlaces => s.x = 0
  /\ p.at \in SavedPlaces => p.x = 0
  /\ g => /\ WindowOk(s) /\ ScrollOk(p, s) /\ EndOk(p, s)
          /\ p.at \notin NewlinePlaces => CursorOk(s)

\* A panic inside the println of the panic handler finds the flag set.
HandlerInv ==
  /\ handler.depth <= 2
  /\ Running => ~panicked /\ handler.at = "line"
  /\ handler.at \in {"print", "end"} =>
       handler.depth = 1 /\ panicked /\ handler.lines < MaxLines
  /\ handler.depth = 2 => panicked

InGlyph(p) == p.row < RASTER_HEIGHT /\ p.col < GlyphWidth

Inv ==
  /\ TypeOK /\ Ok(scr) /\ HandlerInv /\ InGlyph(proc)
  /\ proc.at # "idle" => mode = "Stdout"
  /\ Running => Fits(proc, scr, ~raced)
  /\ ~Running /\ ~raced => cause.err = "stale" \/ Known(cause)

Handlers == [depth : Nat, at : {"line", "print", "end", "blocked", "halted"},
             lines : 0 .. MaxLines]

\* It holds in the beginning.
LEMMA InitInv ==
  ASSUME Init
  PROVE  Inv
  <1> PICK b \in Buffers :
        scr = [buffer |-> b, x |-> 0, y |-> 0, start |-> 0, extra |-> 0,
               origin |-> 0, err |-> "none"]
    BY DEF Init
  <1>1. scr \in Screens /\ scr.x = 0 /\ scr.y = 0 /\ scr.start = 0 /\ scr.extra = 0 /\ Ok(scr)
    BY DEF Screens, Errors, Ok
  <1>2. /\ proc \in Processes /\ proc.at = "idle" /\ proc.row = 0 /\ proc.col = 0
    BY DEF Init, Processes, Places, TerminalMode
  <1>3. handler \in Handlers /\ handler.depth = 0 /\ handler.at = "line" /\ ~panicked
    BY ScreenAssumption DEF Init, Handlers
  <1>4. TypeOK
    <2>1. stdin_buffer \in Seq(Printed) /\ mode \in TerminalMode /\ cause \in Screens
      BY <1>1 DEF Init, TerminalMode
    <2>2. {panicked, raced, torn} \subseteq BOOLEAN
      BY DEF Init
    <2> QED
      BY <1>1, <1>2, <1>3, <2>1, <2>2 DEF TypeOK, Handlers
  <1>5. WindowOk(scr) /\ CursorOk(scr)
    <2>1. scr.buffer \in Nat /\ Rows(scr.buffer) \in Nat \ {0} /\ 0 * Line = 0
      BY <1>1, InLines, Sizes, SMT
    <2>2. viewport_len(scr) = scr.buffer
      BY <1>1, <2>1 DEF viewport_len
    <2> QED
      BY <1>1, <2>1, <2>2, Sizes DEF WindowOk, CursorOk
  <1>6. Fits(proc, scr, ~raced)
    BY <1>2, <1>5 DEF Fits, ScrollOk, EndOk, NewlinePlaces, SavedPlaces
  <1>7. InGlyph(proc)
    BY <1>2, Sizes DEF InGlyph
  <1>8. HandlerInv /\ Running
    BY <1>3 DEF HandlerInv, Running
  <1> QED
    BY <1>1, <1>2, <1>4, <1>6, <1>7, <1>8 DEF Inv

\* Committing a screen.
LEMMA CommitStep ==
  ASSUME NEW r \in Screens, Commit(r), handler \in Handlers
  PROVE  /\ scr' = Fail(r, "none") /\ scr' \in Screens /\ Ok(scr')
         /\ Ok(r) => scr' = r /\ handler' = handler /\ cause' = cause
         /\ ~Ok(r) => /\ handler' \in Handlers /\ handler'.depth = handler.depth + 1
                      /\ handler'.at = "line" /\ handler'.lines = 0
                      /\ cause' = IF Running THEN r ELSE cause
  <1>1. /\ scr' = Fail(r, "none")
        /\ IF Ok(r) THEN UNCHANGED <<handler, cause>>
           ELSE /\ handler' = [depth |-> handler.depth + 1, at |-> "line", lines |-> 0]
                /\ cause' = IF Running THEN r ELSE cause
    BY DEF Commit
  <1>2. scr' \in Screens /\ Ok(scr') /\ (Ok(r) => scr' = r)
    BY <1>1, FailFacts DEF Errors, Ok
  <1>3. ~Ok(r) => /\ handler' \in Handlers /\ handler'.depth = handler.depth + 1
                  /\ handler'.at = "line" /\ handler'.lines = 0
    BY <1>1, ScreenAssumption DEF Handlers
  <1> QED
    BY <1>1, <1>2, <1>3

\* What is left to show of a step that leaves the screen r and the process p.
LEMMA StepSuffices ==
  ASSUME Inv, Running, NEW r \in Screens, Commit(r),
         NEW p \in Processes, InGlyph(p), proc' = p, panicked' = panicked,
         mode' \in TerminalMode, p.at # "idle" => mode' = "Stdout",
         stdin_buffer' \in Seq(Printed), torn' \in BOOLEAN, raced' \in BOOLEAN,
         Ok(r) => Fits(p, r, ~raced'),
         ~raced' /\ ~Ok(r) => r.err = "stale" \/ Known(r)
  PROVE  Inv'
  <1>1. /\ handler \in Handlers /\ handler.depth = 0 /\ handler.at = "line" /\ ~panicked
        /\ panicked \in BOOLEAN /\ cause \in Screens
    BY DEF Inv, TypeOK, HandlerInv, Running, Handlers
  <1>2. /\ scr' \in Screens /\ Ok(scr')
        /\ Ok(r) => scr' = r /\ handler' = handler /\ cause' = cause
        /\ ~Ok(r) => /\ handler' \in Handlers /\ handler'.depth = handler.depth + 1
                     /\ handler'.at = "line" /\ cause' = r
    BY <1>1, CommitStep
  <1>3. handler' \in Handlers /\ cause' \in Screens
    BY <1>1, <1>2
  <1>4. TypeOK'
    BY <1>1, <1>2, <1>3 DEF TypeOK, Handlers
  <1>5. /\ Ok(r) => Running'
        /\ ~Ok(r) => ~Running' /\ handler'.depth = 1
    BY <1>1, <1>2 DEF Running
  <1>6. HandlerInv'
    <2>1. CASE Ok(r)
      BY <1>1, <1>2, <1>5, <2>1 DEF HandlerInv
    <2>2. CASE ~Ok(r)
      BY <1>2, <1>5, <2>2 DEF HandlerInv
    <2> QED
      BY <2>1, <2>2
  <1>7. Running' => Fits(proc', scr', ~raced')
    BY <1>2, <1>5
  <1>8. ~Running' /\ ~raced' => cause'.err = "stale" \/ Known(cause')
    BY <1>2, <1>5
  <1> QED
    BY <1>2, <1>4, <1>6, <1>7, <1>8 DEF Inv, InGlyph, Fits, ScrollOk, EndOk, Known,
         WindowOk, CursorOk, viewport_len, Rows, LastLineCut, Ok
-----------------------------------------------------------------------------
(* Steps of the printing process *)

\* What the steps use of a state.
LEMMA StateFacts ==
  ASSUME Inv
  PROVE  /\ scr \in Screens /\ Ok(scr) /\ proc \in Processes /\ InGlyph(proc)
         /\ mode \in TerminalMode /\ stdin_buffer \in Seq(Printed)
         /\ torn \in BOOLEAN /\ raced \in BOOLEAN
         /\ proc.at # "idle" => mode = "Stdout"
         /\ Running => Fits(proc, scr, ~raced)
         /\ handler \in Handlers /\ cause \in Screens
  BY DEF Inv, TypeOK, Handlers

\* Numbers of the screen and of the process.
LEMMA Numbers ==
  ASSUME Inv
  PROVE  /\ scr.x \in Nat /\ scr.y \in Nat /\ scr.start \in Nat /\ scr.extra \in Nat
         /\ scr.buffer \in Nat /\ Rows(scr.buffer) \in Nat \ {0} /\ viewport_len(scr) \in Nat
         /\ WindowEnd(scr) \in Nat
         /\ proc.x \in Nat /\ proc.y \in Nat /\ proc.row \in Nat /\ proc.col \in Nat
         /\ proc.end \in Nat /\ proc.stale \in BOOLEAN
  BY StateFacts, Fields, InLines DEF Processes

\* What is left to show of a step inside of write_slice.
LEMMA InsideSuffices ==
  ASSUME Inv, NEW from, from # "idle", NEW p \in Processes, InGlyph(p), NEW r \in Screens,
         StepTo(from, p, r),
         Ok(r) => Fits(p, r, ~raced),
         ~raced /\ ~Ok(r) => r.err = "stale" \/ Known(r)
  PROVE  Inv'
  <1>1. /\ Running /\ Commit(r) /\ proc' = p /\ proc.at = from
        /\ stdin_buffer' = stdin_buffer /\ panicked' = panicked /\ raced' = raced
        /\ mode' = mode /\ torn' = torn
    BY DEF StepTo, Step
  <1>2. mode' = "Stdout" /\ mode' \in TerminalMode
    BY <1>1, StateFacts
  <1> QED
    BY <1>1, <1>2, StateFacts, StepSuffices

\* A process between two characters, or before a glyph.
LEMMA Calm ==
  ASSUME NEW p, NEW s, p.at \in {"idle", "chars", "glyph", "move"},
         ~raced => WindowOk(s) /\ CursorOk(s),
         p.at \in {"glyph", "move"} => s.x + GlyphWidth <= Stride
  PROVE  Fits(p, s, ~raced)
  BY DEF Fits, ScrollOk, EndOk, NewlinePlaces, SavedPlaces

\* write_slice begins where the process was idle.
LEMMA WriteSliceStep ==
  ASSUME Inv, WriteSlice
  PROVE  Inv'
  <1> DEFINE p == [proc EXCEPT !.at = "chars", !.old_mode = mode]
  <1>1. /\ Running /\ Commit(scr) /\ proc' = p /\ proc.at = "idle"
        /\ stdin_buffer' = stdin_buffer /\ panicked' = panicked /\ raced' = raced
        /\ mode' = "Stdout" /\ torn' = torn
    BY DEF WriteSlice, Step
  <1>2. p \in Processes /\ p.at = "chars" /\ InGlyph(p)
    BY StateFacts DEF Processes, Places, InGlyph
  <1>3. ~raced => WindowOk(scr) /\ CursorOk(scr)
    BY <1>1, StateFacts DEF Fits, NewlinePlaces
  <1> HIDE DEF p
  <1>4. Fits(p, scr, ~raced)
    BY <1>2, <1>3, Calm
  <1>5. mode' \in TerminalMode
    BY <1>1 DEF TerminalMode
  <1> QED
    BY <1>1, <1>2, <1>4, <1>5, StateFacts, StepSuffices

\* A new line is at most just below the viewport.
LEMMA PutcStep ==
  ASSUME Inv, NEW c \in Printed, Putc(c)
  PROVE  Inv'
  <1> DEFINE after == IF c = Newline THEN "chars" ELSE "glyph"
             wraps == c = Newline \/ Wraps(scr)
             t == IF wraps THEN NextLine(scr) ELSE scr
             p == IF wraps THEN [proc EXCEPT !.at = "compare", !.then = after]
                  ELSE [proc EXCEPT !.at = "glyph"]
  <1>1. /\ Running /\ Commit(t) /\ proc' = p /\ proc.at = "chars"
        /\ stdin_buffer' = stdin_buffer /\ panicked' = panicked /\ raced' = raced
        /\ mode' = mode /\ torn' = (torn \/ Typing)
    BY DEF Putc, Step
  <1>2. p \in Processes /\ p.at = (IF wraps THEN "compare" ELSE "glyph") /\ InGlyph(p)
    BY StateFacts DEF Processes, Places, NewlinePlaces, InGlyph
  <1>3. ~raced => WindowOk(scr) /\ CursorOk(scr)
    BY <1>1, StateFacts DEF Fits, NewlinePlaces
  <1>4. CASE wraps
    <2> DEFINE s == NextLine(scr)
    <2>1. /\ s \in Screens /\ s.x = 0 /\ s.y = scr.y + 1 /\ s.extra = scr.extra
          /\ s.buffer = scr.buffer /\ s.err = scr.err
          /\ ~raced => WindowOk(s) /\ scr.y + 1 <= scr.extra + Rows(scr.buffer)
      BY <1>3, StateFacts, NextLineFacts
    <2>2. t = s /\ p.at = "compare"
      BY <1>2, <1>4
    <2> HIDE DEF s, p, t, wraps
    <2>3. ~raced => ScrollOk(p, s)
      BY <2>1, <2>2, Numbers DEF ScrollOk
    <2>4. Fits(p, s, ~raced)
      BY <2>1, <2>2, <2>3 DEF Fits, EndOk, NewlinePlaces, SavedPlaces
    <2>5. Ok(s) /\ torn' \in BOOLEAN
      BY <1>1, <2>1, StateFacts DEF Ok
    <2> QED
      BY <1>1, <1>2, <2>1, <2>2, <2>4, <2>5, StateFacts, StepSuffices
  <1>5. CASE ~wraps
    <2>1. t = scr /\ p.at = "glyph"
      BY <1>2, <1>5
    <2>2. scr.x + GlyphWidth <= Stride
      BY <1>5, Numbers, Sizes DEF Wraps
    <2> HIDE DEF p, t, wraps
    <2>3. Fits(p, scr, ~raced)
      BY <1>3, <2>1, <2>2, Calm
    <2>4. torn' \in BOOLEAN
      BY <1>1, StateFacts
    <2> QED
      BY <1>1, <1>2, <2>1, <2>3, <2>4, StateFacts, StepSuffices
  <1> QED
    BY <1>4, <1>5

\* A line that is not below the window begins in the viewport.
LEMMA CompareStep ==
  ASSUME Inv, Compare
  PROVE  Inv'
  <1> DEFINE q == [proc EXCEPT !.at = proc.then, !.then = "chars"]
             p == IF BelowWindow(scr) THEN Went("scroll") ELSE q
  <1>1. StepTo("compare", p, scr) /\ Running /\ proc.at = "compare"
    BY DEF Compare, StepTo, Step
  <1>2. /\ scr.x = 0
        /\ ~raced => /\ WindowOk(scr) /\ scr.y >= 1 /\ scr.y <= scr.extra + Rows(scr.buffer)
                     /\ scr.start <= scr.extra
    BY <1>1, StateFacts DEF Fits, ScrollOk, NewlinePlaces, WindowOk
  <1>3. p \in Processes /\ InGlyph(p)
    BY StateFacts DEF Processes, Places, NewlinePlaces, InGlyph, Went
  <1>4. CASE BelowWindow(scr)
    <2>1. p.at = "scroll"
      BY <1>4, StateFacts DEF Processes, Went
    <2> HIDE DEF p
    <2>2. Fits(p, scr, ~raced)
      BY <1>2, <2>1 DEF Fits, ScrollOk, EndOk, NewlinePlaces, SavedPlaces
    <2> QED
      BY <1>1, <1>3, <2>2, StateFacts, InsideSuffices
  <1>5. CASE ~BelowWindow(scr)
    <2>1. p.at \in {"chars", "glyph"}
      BY <1>5, StateFacts DEF Processes
    <2> HIDE DEF p
    <2>2. ~(scr.y >= scr.start + Rows(scr.buffer))
      BY <1>5, StateFacts, InLines
    <2>3. ~raced => CursorOk(scr)
      BY <1>2, <2>2, Numbers DEF CursorOk
    <2>4. scr.x + GlyphWidth <= Stride
      BY <1>2, Sizes
    <2>5. Fits(p, scr, ~raced)
      BY <1>2, <2>1, <2>3, <2>4, Calm
    <2> QED
      BY <1>1, <1>3, <2>5, StateFacts, InsideSuffices
  <1> QED
    BY <1>4, <1>5

\* scroll_down saves the line.
LEMMA SaveStep ==
  ASSUME Inv, Save
  PROVE  Inv'
  <1> DEFINE p == [proc EXCEPT !.at = "space", !.x = scr.x, !.y = scr.y]
             r == At(scr, 0, 0)
  <1>1. StepTo("scroll", p, r) /\ Running /\ proc.at = "scroll"
    BY DEF Save, StepTo, Step
  <1>2. /\ scr.x = 0
        /\ ~raced => WindowOk(scr) /\ scr.y >= 1 /\ scr.y <= scr.extra + Rows(scr.buffer)
    BY <1>1, StateFacts DEF Fits, ScrollOk, NewlinePlaces
  <1>3. p \in Processes /\ InGlyph(p) /\ p.at = "space" /\ p.x = scr.x /\ p.y = scr.y
    BY StateFacts, Numbers DEF Processes, Places, NewlinePlaces, InGlyph
  <1>4. /\ r \in Screens /\ r.x = 0 /\ r.start = scr.start /\ r.extra = scr.extra
        /\ r.buffer = scr.buffer /\ r.err = scr.err
    BY StateFacts, AtFacts
  <1> HIDE DEF p, r
  <1>5. WindowOk(scr) => WindowOk(r)
    BY <1>2, <1>4, SameSize
  <1>6. ~raced => ScrollOk(p, r)
    BY <1>2, <1>3, <1>4 DEF ScrollOk
  <1>7. Fits(p, r, ~raced)
    BY <1>2, <1>3, <1>4, <1>5, <1>6 DEF Fits, EndOk, NewlinePlaces, SavedPlaces
  <1>8. Ok(r)
    BY <1>4, StateFacts DEF Ok
  <1> QED
    BY <1>1, <1>3, <1>4, <1>7, <1>8, InsideSuffices

\* What the numbers of lines of a viewport change when it grows.
LEMMA Grown ==
  ASSUME NEW s \in Screens, NEW r, r.buffer = s.buffer, r.extra = s.extra + 1
  PROVE  viewport_len(r) = viewport_len(s) + Line
  <1>1. s.extra \in Nat /\ s.buffer \in Nat
    BY Fields, InLines
  <1>2. (s.extra + 1) * Line = s.extra * Line + Line /\ s.extra * Line \in Nat
    BY <1>1, Sizes, SMT
  <1> QED
    BY <1>1, <1>2, Sizes DEF viewport_len

\* The grown viewport holds the saved line and a window one line lower.
LEMMA GrowViewportStep ==
  ASSUME Inv, GrowViewport
  PROVE  Inv'
  <1> DEFINE p == Went("advance")
             r == Grow(scr)
  <1>1. StepTo("space", p, r) /\ Running /\ proc.at = "space" /\ CanGrow(scr)
    BY DEF GrowViewport, StepTo, Step
  <1>2. /\ scr.x = 0 /\ proc.x = 0
        /\ ~raced => /\ proc.y <= scr.extra + Rows(scr.buffer)
                     /\ scr.start <= scr.extra /\ scr.x <= Stride
    BY <1>1, StateFacts DEF Fits, ScrollOk, NewlinePlaces, SavedPlaces, WindowOk
  <1>3. p \in Processes /\ InGlyph(p) /\ p.at = "advance" /\ p.x = proc.x /\ p.y = proc.y
    BY StateFacts DEF Processes, Places, NewlinePlaces, InGlyph, Went
  <1>a. r \in Screens /\ scr \in Screens /\ r = [scr EXCEPT !.extra = scr.extra + 1]
    BY StateFacts, GrowFacts
  <1> HIDE DEF p, r
  <1>4. /\ r \in Screens /\ r.x = scr.x /\ r.start = scr.start /\ r.extra = scr.extra + 1
        /\ r.buffer = scr.buffer /\ r.err = scr.err
    BY <1>a DEF Screens
  <1>5. viewport_len(r) = viewport_len(scr) + Line
    BY <1>4, StateFacts, Grown
  <1>6. ~raced => WindowOk(r)
    BY <1>1, <1>2, <1>4, <1>5, Numbers DEF WindowOk, CanGrow
  <1>7. ~raced => ScrollOk(p, r)
    BY <1>2, <1>3, <1>4, Numbers DEF ScrollOk
  <1>8. Fits(p, r, ~raced)
    BY <1>2, <1>3, <1>4, <1>6, <1>7 DEF Fits, EndOk, NewlinePlaces, SavedPlaces
  <1>9. Ok(r)
    BY <1>4, StateFacts DEF Ok
  <1> QED
    BY <1>1, <1>3, <1>4, <1>8, <1>9, InsideSuffices

\* The window moves by the line the viewport has grown.
LEMMA MoveWindowStep ==
  ASSUME Inv, MoveWindow
  PROVE  Inv'
  <1> DEFINE p == Went("draw")
             r == Advance(scr)
  <1>1. StepTo("advance", p, r) /\ Running /\ proc.at = "advance"
    BY DEF MoveWindow, StepTo, Step
  <1>2. /\ scr.x = 0 /\ proc.x = 0
        /\ ~raced => /\ proc.y < scr.extra + Rows(scr.buffer)
                     /\ scr.start + 1 <= scr.extra /\ scr.x <= Stride
                     /\ viewport_len(scr) <= 4 * scr.buffer
    BY <1>1, StateFacts DEF Fits, ScrollOk, NewlinePlaces, SavedPlaces, WindowOk
  <1>3. p \in Processes /\ InGlyph(p) /\ p.at = "draw" /\ p.x = proc.x /\ p.y = proc.y
    BY StateFacts DEF Processes, Places, NewlinePlaces, InGlyph, Went
  <1>a. r \in Screens /\ scr \in Screens /\ r = [scr EXCEPT !.start = scr.start + 1]
    BY StateFacts, GrowFacts
  <1> HIDE DEF p, r
  <1>4. /\ r \in Screens /\ r.x = scr.x /\ r.start = scr.start + 1 /\ r.extra = scr.extra
        /\ r.buffer = scr.buffer /\ r.err = scr.err
    BY <1>a DEF Screens
  <1>5. viewport_len(r) = viewport_len(scr)
    BY <1>4, SameSize
  <1>6. ~raced => WindowOk(r) /\ ScrollOk(p, r)
    BY <1>2, <1>3, <1>4, <1>5 DEF WindowOk, ScrollOk
  <1>7. Fits(p, r, ~raced)
    BY <1>2, <1>3, <1>4, <1>6 DEF Fits, EndOk, NewlinePlaces, SavedPlaces
  <1>8. Ok(r)
    BY <1>4, StateFacts DEF Ok
  <1> QED
    BY <1>1, <1>3, <1>4, <1>7, <1>8, InsideSuffices

\* The process with the end of a range, and after its use.
LEMMA Ranges ==
  ASSUME Inv, NEW to \in Places, NEW e \in Nat
  PROVE  /\ Located(to, e) \in Processes /\ InGlyph(Located(to, e))
         /\ Located(to, e).at = to /\ Located(to, e).end = e
         /\ Located(to, e).x = proc.x /\ Located(to, e).y = proc.y
         /\ Done(to) \in Processes /\ InGlyph(Done(to)) /\ Done(to).at = to
         /\ Done(to).x = proc.x /\ Done(to).y = proc.y
  BY StateFacts DEF Located, Done, Processes, InGlyph

\* A range that is used.
LEMMA UsedFacts ==
  ASSUME NEW s \in Screens, Ok(s), proc.end \in Nat
  PROVE  /\ Used(s) \in Screens
         /\ Ok(Used(s)) => Used(s) = s
         /\ proc.end <= viewport_len(s) => Used(s) = s
         /\ ~Ok(Used(s)) => /\ ~(proc.end <= viewport_len(s))
                            /\ Used(s) = Fail(s, IF proc.stale THEN "stale" ELSE "index")
                            /\ Used(s).err = IF proc.stale THEN "stale" ELSE "index"
                            /\ Used(s).buffer = s.buffer /\ Used(s).y = s.y
                            /\ Used(s).extra = s.extra
  <1> DEFINE e == IF proc.stale THEN "stale" ELSE "index"
             f == Fail(s, e)
  <1>1. e \in Errors /\ e # "none"
    BY DEF Errors
  <1>2. Used(s) = IF proc.end <= viewport_len(s) THEN s ELSE f
    BY DEF Used
  <1> HIDE DEF e
  <1>3. /\ f \in Screens /\ f.err = e /\ f.buffer = s.buffer /\ f.y = s.y /\ f.extra = s.extra
    BY <1>1, FailFacts
  <1> HIDE DEF f
  <1>4. CASE proc.end <= viewport_len(s)
    BY <1>2, <1>4
  <1>5. CASE ~(proc.end <= viewport_len(s))
    BY <1>1, <1>2, <1>3, <1>5 DEF e, f, Ok
  <1> QED
    BY <1>4, <1>5

\* The length of the viewport is measured.
LEMMA MeasureViewportStep ==
  ASSUME Inv, MeasureViewport
  PROVE  Inv'
  <1> DEFINE p == Located("shift", viewport_len(scr))
  <1>1. StepTo("space", p, scr) /\ Running /\ proc.at = "space"
    BY DEF MeasureViewport, StepTo, Step
  <1>2. /\ scr.x = 0 /\ proc.x = 0
        /\ ~raced => /\ proc.y >= 1 /\ proc.y <= scr.extra + Rows(scr.buffer) /\ WindowOk(scr)
    BY <1>1, StateFacts DEF Fits, ScrollOk, NewlinePlaces, SavedPlaces
  <1>3. /\ p \in Processes /\ InGlyph(p) /\ p.at = "shift" /\ p.x = proc.x /\ p.y = proc.y
        /\ p.end = viewport_len(scr)
    <2>1. "shift" \in Places
      BY DEF Places, NewlinePlaces
    <2> QED
      BY <2>1, Numbers, Ranges
  <1> HIDE DEF p
  <1>4. EndOk(p, scr)
    BY <1>3, Numbers DEF EndOk
  <1>5. Fits(p, scr, ~raced)
    BY <1>2, <1>3, <1>4 DEF Fits, ScrollOk, NewlinePlaces, SavedPlaces
  <1> QED
    BY <1>1, <1>3, <1>5, StateFacts, InsideSuffices

\* With the first line removed, the saved line moves up into the viewport.
LEMMA ShiftViewportStep ==
  ASSUME Inv, ShiftViewport
  PROVE  Inv'
  <1> DEFINE u == Used(scr)
             q == [Done("draw") EXCEPT !.y = Shifted(@)]
             p == IF proc.y = 0 THEN proc ELSE q
             v == OriginShifted(scr)
             r == IF ~Ok(u) THEN u ELSE IF proc.y = 0 THEN Fail(scr, "negative") ELSE v
  <1>1. StepTo("shift", p, r) /\ Running /\ proc.at = "shift"
    BY DEF ShiftViewport, StepTo, Step
  <1>2. /\ scr.x = 0 /\ proc.x = 0
        /\ ~raced => /\ proc.y >= 1 /\ proc.y <= scr.extra + Rows(scr.buffer) /\ WindowOk(scr)
                     /\ ~proc.stale => proc.end <= viewport_len(scr)
    BY <1>1, StateFacts DEF Fits, ScrollOk, EndOk, NewlinePlaces, SavedPlaces
  <1>3. /\ p \in Processes /\ InGlyph(p)
        /\ proc.y # 0 => p.at = "draw" /\ p.x = proc.x /\ p.y = proc.y - 1
    <2>1. CASE proc.y = 0
      BY <2>1, StateFacts
    <2>2. CASE proc.y # 0
      <3>1. proc.y - 1 \in Nat
        BY <2>2, Numbers
      <3>2. "draw" \in Places
        BY DEF Places, NewlinePlaces
      <3>3. q \in Processes /\ InGlyph(q) /\ q.at = "draw" /\ q.x = proc.x /\ q.y = proc.y - 1
        BY <3>1, <3>2, StateFacts DEF Done, Shifted, Processes, InGlyph
      <3> QED
        BY <2>2, <3>3
    <2> QED
      BY <2>1, <2>2
  <1>4. /\ u \in Screens /\ (~raced /\ ~Ok(u) => u.err = "stale")
    BY <1>2, StateFacts, Numbers, UsedFacts
  <1>5. /\ v \in Screens /\ v.x = scr.x /\ v.buffer = scr.buffer /\ v.start = scr.start
        /\ v.extra = scr.extra /\ v.err = scr.err
    BY StateFacts, ShiftFacts
  <1>6. Fail(scr, "negative") \in Screens /\ Fail(scr, "negative").err = "negative"
    BY StateFacts, FailFacts DEF Errors
  <1>7. r \in Screens /\ (Ok(r) => r = v /\ proc.y # 0)
    BY <1>4, <1>5, <1>6 DEF Ok
  <1>8. ~raced /\ ~Ok(r) => r.err = "stale" \/ Known(r)
    BY <1>4, <1>5, <1>6, StateFacts DEF Ok, Known
  <1> HIDE DEF p, r, q, u, v
  <1>9. ASSUME Ok(r) PROVE Fits(p, r, ~raced)
    <2>1. r = v /\ p.at = "draw" /\ p.x = 0 /\ p.y = proc.y - 1 /\ r.x = 0
      BY <1>2, <1>3, <1>5, <1>7, <1>9
    <2>2. ~raced => WindowOk(r)
      BY <1>2, <1>5, <2>1, SameSize
    <2>3. ~raced => ScrollOk(p, r)
      BY <1>2, <1>5, <2>1, Numbers DEF ScrollOk
    <2> QED
      BY <2>1, <2>2, <2>3 DEF Fits, EndOk, NewlinePlaces, SavedPlaces
  <1> QED
    BY <1>1, <1>3, <1>7, <1>8, <1>9, InsideSuffices

\* Drawing at the beginning of a line cannot fail.
LEMMA DrawStep ==
  ASSUME Inv, Draw
  PROVE  Inv'
  <1> DEFINE p == Located("copy", WindowEnd(scr))
             r == IF DrawOffset(scr) > scr.buffer THEN Fail(scr, "draw") ELSE scr
  <1>1. StepTo("draw", p, r) /\ Running /\ proc.at = "draw"
    BY DEF Draw, LocateWindow, StepTo, Step
  <1>2. /\ scr.x = 0 /\ proc.x = 0
        /\ ~raced => proc.y < scr.extra + Rows(scr.buffer) /\ WindowOk(scr)
    BY <1>1, StateFacts DEF Fits, ScrollOk, NewlinePlaces, SavedPlaces
  <1>3. /\ p \in Processes /\ InGlyph(p) /\ p.at = "copy" /\ p.x = proc.x /\ p.y = proc.y
        /\ p.end = WindowEnd(scr)
    <2>1. "copy" \in Places
      BY DEF Places, NewlinePlaces
    <2> QED
      BY <2>1, Numbers, Ranges
  <1>4. r = scr
    <2>1. scr.x <= Stride
      BY <1>2, Sizes
    <2>2. DrawOffset(scr) = 0
      BY <1>2, <2>1, StateFacts, Offset
    <2> QED
      BY <2>2, Numbers
  <1> HIDE DEF p, r
  <1>5. ~raced => EndOk(p, scr)
    <2>1. WindowOk(scr) => WindowEnd(scr) <= viewport_len(scr)
      BY StateFacts, InLines DEF WindowOk
    <2> QED
      BY <1>2, <1>3, <2>1 DEF EndOk
  <1>6. Fits(p, scr, ~raced)
    BY <1>2, <1>3, <1>5 DEF Fits, ScrollOk, NewlinePlaces, SavedPlaces
  <1> QED
    BY <1>1, <1>3, <1>4, <1>6, StateFacts, InsideSuffices

\* The window is copied.
LEMMA CopyStep ==
  ASSUME Inv, Copy
  PROVE  Inv'
  <1> DEFINE p == Done("restore")
             r == Used(scr)
  <1>1. StepTo("copy", p, r) /\ Running /\ proc.at = "copy"
    BY DEF Copy, StepTo, Step
  <1>2. /\ scr.x = 0 /\ proc.x = 0
        /\ ~raced => /\ proc.y < scr.extra + Rows(scr.buffer) /\ WindowOk(scr)
                     /\ ~proc.stale => proc.end <= viewport_len(scr)
    BY <1>1, StateFacts DEF Fits, ScrollOk, EndOk, NewlinePlaces, SavedPlaces
  <1>3. p \in Processes /\ InGlyph(p) /\ p.at = "restore" /\ p.x = proc.x /\ p.y = proc.y
    <2>1. "restore" \in Places
      BY DEF Places, NewlinePlaces
    <2> QED
      BY <2>1, Ranges
  <1>4. r \in Screens /\ (Ok(r) => r = scr) /\ (~raced /\ ~Ok(r) => r.err = "stale")
    BY <1>2, StateFacts, Numbers, UsedFacts
  <1> HIDE DEF p, r
  <1>5. Fits(p, scr, ~raced)
    BY <1>2, <1>3 DEF Fits, ScrollOk, EndOk, NewlinePlaces, SavedPlaces
  <1> QED
    BY <1>1, <1>3, <1>4, <1>5, InsideSuffices

\* The cursor goes back to a line in the viewport.
LEMMA RestoreStep ==
  ASSUME Inv, Restore
  PROVE  Inv'
  <1> DEFINE p == [proc EXCEPT !.at = proc.then, !.x = 0, !.y = 0, !.then = "chars"]
             r == At(scr, proc.x, proc.y)
  <1>1. StepTo("restore", p, r) /\ Running /\ proc.at = "restore"
    BY DEF Restore, StepTo, Step
  <1>2. /\ scr.x = 0 /\ proc.x = 0
        /\ ~raced => proc.y < scr.extra + Rows(scr.buffer) /\ WindowOk(scr)
    BY <1>1, StateFacts DEF Fits, ScrollOk, NewlinePlaces, SavedPlaces
  <1>3. p \in Processes /\ InGlyph(p) /\ p.at \in {"chars", "glyph"}
    BY StateFacts DEF Processes, Places, InGlyph
  <1>a. scr \in Screens /\ proc.x \in Nat /\ proc.y \in Nat
    BY StateFacts, Numbers
  <1>4. /\ r \in Screens /\ r.x = 0 /\ r.y = proc.y /\ r.start = scr.start
        /\ r.extra = scr.extra /\ r.buffer = scr.buffer /\ r.err = scr.err
    BY <1>2, <1>a DEF At, Screens
  <1> HIDE DEF p, r
  <1>5. ~raced => WindowOk(r) /\ CursorOk(r)
    BY <1>2, <1>4, SameSize DEF CursorOk
  <1>6. Fits(p, r, ~raced)
    BY <1>3, <1>4, <1>5, Calm, Sizes
  <1>7. Ok(r)
    BY <1>4, StateFacts DEF Ok
  <1> QED
    BY <1>1, <1>3, <1>4, <1>6, <1>7, InsideSuffices

\* A pixel of the glyph is in the cursor's line, ...
LEMMA LocatePixelStep ==
  ASSUME Inv, LocatePixel
  PROVE  Inv'
  <1> DEFINE e == PixelEnd(scr, proc.row, proc.col)
             p == Located("pixel", e)
  <1>1. StepTo("glyph", p, scr) /\ Running /\ proc.at = "glyph"
    BY DEF LocatePixel, StepTo, Step
  <1>2. /\ scr.x + GlyphWidth <= Stride
        /\ ~raced => WindowOk(scr) /\ CursorOk(scr)
    BY <1>1, StateFacts DEF Fits, NewlinePlaces
  <1>3. e \in Nat /\ e <= (scr.y + 1) * Line
    BY <1>2, StateFacts, Numbers, Pixel DEF InGlyph
  <1> HIDE DEF e
  <1>4. p \in Processes /\ InGlyph(p) /\ p.at = "pixel" /\ p.end = e
    <2>1. "pixel" \in Places
      BY DEF Places
    <2> QED
      BY <1>3, <2>1, Ranges
  <1> HIDE DEF p
  <1>5. Fits(p, scr, ~raced)
    BY <1>2, <1>3, <1>4 DEF Fits, ScrollOk, EndOk, NewlinePlaces, SavedPlaces
  <1> QED
    BY <1>1, <1>4, <1>5, StateFacts, InsideSuffices

\* ... and, unless a clear came, in the viewport or on a line that is cut.
LEMMA SetPixelStep ==
  ASSUME Inv, SetPixel
  PROVE  Inv'
  <1> DEFINE p == IF proc.col + 1 < GlyphWidth THEN [Done("glyph") EXCEPT !.col = @ + 1]
                  ELSE IF proc.row + 1 < RASTER_HEIGHT
                       THEN [Done("glyph") EXCEPT !.col = 0, !.row = @ + 1]
                       ELSE [Done("move") EXCEPT !.col = 0, !.row = 0]
             r == Used(scr)
  <1>1. StepTo("pixel", p, r) /\ Running /\ proc.at = "pixel"
    BY DEF SetPixel, StepTo, Step
  <1>2. /\ scr.x + GlyphWidth <= Stride
        /\ ~raced => /\ WindowOk(scr) /\ CursorOk(scr)
                     /\ ~proc.stale => proc.end <= (scr.y + 1) * Line
    BY <1>1, StateFacts DEF Fits, EndOk, NewlinePlaces
  <1>3. p \in Processes /\ InGlyph(p) /\ p.at \in {"glyph", "move"}
    <2>1. proc.col + 1 \in Nat /\ proc.row + 1 \in Nat /\ 0 < GlyphWidth /\ 0 < RASTER_HEIGHT
      BY Numbers, Sizes
    <2>2. CASE proc.col + 1 < GlyphWidth
      BY <2>1, <2>2, StateFacts DEF Done, Processes, Places, InGlyph
    <2>3. CASE ~(proc.col + 1 < GlyphWidth) /\ proc.row + 1 < RASTER_HEIGHT
      <3>1. p = [proc EXCEPT !.at = "glyph", !.end = 0, !.stale = FALSE, !.col = 0,
                             !.row = proc.row + 1]
        BY <2>3, StateFacts DEF Done, Processes
      <3> HIDE DEF p
      <3> QED
        BY <2>1, <2>3, <3>1, StateFacts DEF Processes, Places, InGlyph
    <2>4. CASE ~(proc.col + 1 < GlyphWidth) /\ ~(proc.row + 1 < RASTER_HEIGHT)
      <3>1. p = [proc EXCEPT !.at = "move", !.end = 0, !.stale = FALSE, !.col = 0, !.row = 0]
        BY <2>4, StateFacts DEF Done, Processes
      <3> HIDE DEF p
      <3> QED
        BY <2>1, <3>1, StateFacts DEF Processes, Places, InGlyph
    <2> QED
      BY <2>2, <2>3, <2>4
  <1>4. /\ r \in Screens /\ (Ok(r) => r = scr)
        /\ ~Ok(r) => /\ ~(proc.end <= viewport_len(scr))
                     /\ r.err = IF proc.stale THEN "stale" ELSE "index"
                     /\ r.buffer = scr.buffer /\ r.y = scr.y /\ r.extra = scr.extra
    BY StateFacts, Numbers, UsedFacts
  <1> HIDE DEF p, r
  <1>5. Fits(p, scr, ~raced)
    BY <1>2, <1>3, Calm
  <1>6. ASSUME ~raced, ~Ok(r), ~proc.stale PROVE Known(r)
    <2>1. viewport_len(r) = viewport_len(scr) /\ (LastLineCut(r) <=> LastLineCut(scr))
      BY <1>4, <1>6, SameSize
    <2>2. (scr.y + 1) * Line \in Nat
      BY Numbers, Sizes, SMT
    <2>3. (scr.y + 1) * Line > viewport_len(scr)
      BY <1>2, <1>4, <1>6, <2>2, Numbers
    <2>4. LastLineCut(scr)
      <3>1. CursorOk(scr)
        BY <1>2, <1>6
      <3>2. ~LastLineCut(scr) /\ CursorOk(scr) => (scr.y + 1) * Line <= viewport_len(scr)
        BY StateFacts, InLines
      <3>3. viewport_len(scr) \in Nat
        BY Numbers
      <3> QED
        BY <2>2, <2>3, <3>1, <3>2, <3>3
    <2> QED
      BY <1>4, <1>6, <2>1, <2>3, <2>4 DEF Known
  <1>7. ~raced /\ ~Ok(r) => r.err = "stale" \/ Known(r)
    BY <1>4, <1>6
  <1> QED
    BY <1>1, <1>3, <1>4, <1>5, <1>7, InsideSuffices

\* The cursor moves over the glyph.
LEMMA MoveCursorStep ==
  ASSUME Inv, MoveCursor
  PROVE  Inv'
  <1> DEFINE p == Went("chars")
             r == [scr EXCEPT !.x = scr.x + GlyphWidth]
  <1>1. StepTo("move", p, r) /\ Running /\ proc.at = "move"
    BY DEF MoveCursor, StepTo, Step
  <1>2. /\ scr.x + GlyphWidth <= Stride
        /\ ~raced => WindowOk(scr) /\ CursorOk(scr)
    BY <1>1, StateFacts DEF Fits, NewlinePlaces
  <1>3. p \in Processes /\ InGlyph(p) /\ p.at = "chars"
    BY StateFacts DEF Processes, Places, InGlyph, Went
  <1>4. scr.x + GlyphWidth \in Nat
    BY Numbers, Sizes
  <1>5. /\ r \in Screens /\ r.x = scr.x + GlyphWidth /\ r.y = scr.y /\ r.start = scr.start
        /\ r.extra = scr.extra /\ r.buffer = scr.buffer /\ r.err = scr.err
    BY <1>4, StateFacts DEF Screens
  <1> HIDE DEF p, r
  <1>6. viewport_len(r) = viewport_len(scr) /\ (CursorOk(r) <=> CursorOk(scr))
    BY <1>5, SameSize
  <1>7. ~raced => WindowOk(r) /\ CursorOk(r)
    BY <1>2, <1>5, <1>6 DEF WindowOk
  <1>8. Fits(p, r, ~raced)
    BY <1>3, <1>7, Calm
  <1>9. Ok(r)
    BY <1>5, StateFacts DEF Ok
  <1> QED
    BY <1>1, <1>3, <1>5, <1>8, <1>9, InsideSuffices

\* The window is to be drawn, with the cursor anywhere.
LEMMA FlushStep ==
  ASSUME Inv, Flush
  PROVE  Inv'
  <1> DEFINE p == Located("flush", WindowEnd(scr))
             f == Fail(scr, "draw")
             r == IF DrawOffset(scr) > scr.buffer THEN f ELSE scr
  <1>1. StepTo("chars", p, r) /\ Running /\ proc.at = "chars"
    BY DEF Flush, LocateWindow, StepTo, Step
  <1>2. ~raced => WindowOk(scr) /\ CursorOk(scr)
    BY <1>1, StateFacts DEF Fits, NewlinePlaces
  <1>3. p \in Processes /\ InGlyph(p) /\ p.at = "flush" /\ p.end = WindowEnd(scr)
    <2>1. "flush" \in Places
      BY DEF Places
    <2> QED
      BY <2>1, Numbers, Ranges
  <1>4. f \in Screens /\ f.err = "draw" /\ f.y = scr.y /\ f.buffer = scr.buffer
    BY StateFacts, FailFacts DEF Errors
  <1>5. r \in Screens /\ (Ok(r) => r = scr) /\ (~Ok(r) => r = f /\ DrawOffset(scr) > scr.buffer)
    BY <1>4, StateFacts DEF Ok
  <1> HIDE DEF p, r, f
  <1>6. ASSUME ~raced, ~Ok(r) PROVE Known(r)
    <2>1. scr.x <= Stride
      BY <1>2, <1>6 DEF WindowOk
    <2>2. scr.y * Line >= scr.buffer
      BY <1>5, <1>6, <2>1, StateFacts, Offset
    <2> QED
      BY <1>4, <1>5, <1>6, <2>2 DEF Known
  <1>7. ~raced => EndOk(p, scr)
    <2>1. WindowOk(scr) => WindowEnd(scr) <= viewport_len(scr)
      BY StateFacts, InLines DEF WindowOk
    <2> QED
      BY <1>2, <1>3, <2>1 DEF EndOk
  <1>8. Fits(p, scr, ~raced)
    BY <1>2, <1>3, <1>7 DEF Fits, ScrollOk, NewlinePlaces, SavedPlaces
  <1> QED
    BY <1>1, <1>3, <1>5, <1>6, <1>8, InsideSuffices

\* The end of write_slice.
LEMMA WriteEndStep ==
  ASSUME Inv, WriteEnd
  PROVE  Inv'
  <1> DEFINE p == [Done("idle") EXCEPT !.old_mode = "Init"]
             r == Used(scr)
  <1>1. /\ Running /\ Commit(r) /\ proc' = p /\ proc.at = "flush"
        /\ stdin_buffer' = stdin_buffer /\ panicked' = panicked /\ raced' = raced
        /\ mode' = proc.old_mode /\ torn' = torn
    BY DEF WriteEnd, Step
  <1>2. ~raced => /\ WindowOk(scr) /\ CursorOk(scr)
                  /\ ~proc.stale => proc.end <= viewport_len(scr)
    BY <1>1, StateFacts DEF Fits, EndOk, NewlinePlaces
  <1>3. p \in Processes /\ InGlyph(p) /\ p.at = "idle"
    BY StateFacts DEF Done, Processes, Places, TerminalMode, InGlyph
  <1>4. r \in Screens /\ (Ok(r) => r = scr) /\ (~raced /\ ~Ok(r) => r.err = "stale")
    BY <1>2, StateFacts, Numbers, UsedFacts
  <1>5. mode' \in TerminalMode
    BY <1>1, StateFacts DEF Processes
  <1> HIDE DEF p, r
  <1>6. Fits(p, scr, ~raced)
    BY <1>2, <1>3, Calm
  <1> QED
    BY <1>1, <1>3, <1>4, <1>5, <1>6, StateFacts, StepSuffices

\* readln does not touch the screen.
LEMMA TakeLineStep ==
  ASSUME Inv, TakeLine
  PROVE  Inv'
  <1>1. /\ stdin_buffer' \in Seq(Printed)
        /\ UNCHANGED <<scr, mode, proc, panicked, handler, cause, raced, torn>>
    BY DEF TakeLine
  <1>2. TypeOK' /\ HandlerInv' /\ (Running' <=> Running)
    BY <1>1 DEF Inv, TypeOK, HandlerInv, Running
  <1> QED
    BY <1>1, <1>2 DEF Inv
-----------------------------------------------------------------------------
(* Keys *)

\* PageDown moves the window inside the viewport.
LEMMA PageDownStep ==
  ASSUME Inv, PageDown
  PROVE  Inv'
  <1> DEFINE r == scroll_down(scr)
  <1>1. /\ Running /\ Commit(r) /\ panicked' = panicked /\ proc' = proc
        /\ raced' = (raced \/ proc.at = "advance")
        /\ mode' = mode /\ stdin_buffer' = stdin_buffer /\ torn' = torn
    BY DEF PageDown, KeyPressed
  <1>2. /\ r \in Screens /\ r.buffer = scr.buffer /\ r.x = scr.x /\ r.y = scr.y
        /\ r.extra = scr.extra /\ (WindowOk(scr) => Ok(r) /\ WindowOk(r))
    BY StateFacts, ScrollDownFacts
  <1>3. viewport_len(r) = viewport_len(scr) /\ (CursorOk(r) <=> CursorOk(scr))
    BY <1>2, SameSize
  <1>4. Fits(proc, scr, ~raced)
    BY <1>1, StateFacts
  <1> HIDE DEF r
  <1>5. Fits(proc, r, ~raced')
    BY <1>1, <1>2, <1>3, <1>4 DEF Fits, ScrollOk, EndOk
  <1>6. ~raced' => Ok(r)
    BY <1>1, <1>2, <1>4 DEF Fits
  <1>7. raced' \in BOOLEAN
    BY <1>1, StateFacts
  <1> QED
    BY <1>1, <1>2, <1>5, <1>6, <1>7, StateFacts, StepSuffices

\* PageUp leaves room for the step scroll_down is about to make.
LEMMA PageUpStep ==
  ASSUME Inv, PageUp
  PROVE  Inv'
  <1> DEFINE r == scroll_up(scr)
  <1>1. /\ Running /\ Commit(r) /\ panicked' = panicked /\ proc' = proc
        /\ raced' = raced /\ mode' = mode /\ stdin_buffer' = stdin_buffer /\ torn' = torn
    BY DEF PageUp, KeyPressed
  <1>2. /\ r \in Screens /\ r.buffer = scr.buffer /\ r.x = scr.x /\ r.y = scr.y
        /\ r.extra = scr.extra /\ r.start <= scr.start
        /\ WindowOk(scr) => Ok(r) /\ WindowOk(r)
    BY StateFacts, ScrollUpFacts
  <1>3. viewport_len(r) = viewport_len(scr) /\ (CursorOk(r) <=> CursorOk(scr))
    BY <1>2, SameSize
  <1>4. Fits(proc, scr, ~raced)
    BY <1>1, StateFacts
  <1> HIDE DEF r
  <1>5. scr.start + 1 <= scr.extra => r.start + 1 <= scr.extra
    BY <1>2, Numbers, Fields
  <1>6. Fits(proc, r, ~raced)
    BY <1>2, <1>3, <1>4, <1>5 DEF Fits, ScrollOk, EndOk
  <1>7. ~raced => Ok(r)
    BY <1>2, <1>4 DEF Fits
  <1> QED
    BY <1>1, <1>2, <1>6, <1>7, StateFacts, StepSuffices

\* Outside of a newline the screen is good for a key.
LEMMA KeyGood ==
  ASSUME Inv, Running
  PROVE  Good(scr, ~raced /\ ~InNewline)
  BY StateFacts DEF Good, Fits, InNewline

\* clear leaves an empty screen to a process that prints, and a range it had
\* computed stale.
LEMMA KeyClearStep ==
  ASSUME Inv, KeyClear
  PROVE  Inv'
  <1> DEFINE r == clear(scr)
             p == [proc EXCEPT !.stale = @ \/ proc.at \in {"pixel", "flush"}]
             g == ~raced /\ ~InNewline
  <1>1. /\ Running /\ Commit(r) /\ panicked' = panicked /\ proc' = p
        /\ raced' = (raced \/ InNewline) /\ torn' = torn /\ stdin_buffer' = <<>>
        /\ mode' = IF mode = "Init" THEN "Stdin" ELSE mode
    BY DEF KeyClear, KeyPressed
  <1>2. g \in BOOLEAN /\ Good(scr, g)
    BY <1>1, KeyGood
  <1>3. /\ Good(r, g)
        /\ Ok(r) => r.x = 0 /\ WindowOk(r) /\ CursorOk(r)
    <2> HIDE DEF g
    <2> QED
      BY <1>2, ClearGood
  <1>4. /\ p \in Processes /\ InGlyph(p) /\ p.at = proc.at /\ p.x = proc.x
        /\ proc.at \in {"pixel", "flush"} => p.stale
    BY StateFacts DEF Processes, InGlyph
  <1> HIDE DEF r, p
  <1>5. g = ~raced' /\ raced' \in BOOLEAN
    BY <1>1, StateFacts DEF InNewline
  <1>6. r \in Screens /\ (~raced' /\ ~Ok(r) => Known(r))
    BY <1>3, <1>5 DEF Good
  <1>7. mode' \in TerminalMode /\ (p.at # "idle" => mode' = "Stdout")
    BY <1>1, <1>4, StateFacts DEF TerminalMode
  <1>8. ASSUME Ok(r) PROVE Fits(p, r, ~raced')
    <2>1. r.x = 0 /\ WindowOk(r) /\ CursorOk(r) /\ r.x + GlyphWidth <= Stride
      BY <1>3, <1>8, Sizes
    <2>2. p.at \in SavedPlaces => p.x = 0
      BY <1>1, <1>4, StateFacts DEF Fits
    <2>3. ~raced' => ScrollOk(p, r) /\ EndOk(p, r)
      BY <1>1, <1>4 DEF ScrollOk, EndOk, InNewline, NewlinePlaces
    <2> QED
      BY <2>1, <2>2, <2>3 DEF Fits
  <1>9. stdin_buffer' \in Seq(Printed)
    BY <1>1
  <1> QED
    BY <1>1, <1>4, <1>5, <1>6, <1>7, <1>8, <1>9, StateFacts, StepSuffices

\* What is echoed.
LEMMA EchoGood ==
  ASSUME NEW g \in BOOLEAN, Good(scr, g), NEW c \in Printed \cup {Backspace}, NEW buffer
  PROVE  Good(Echo(c, buffer), g)
  <1> DEFINE from == IF Typing THEN scr ELSE [scr EXCEPT !.origin = Position(scr)]
             s == WithoutCursor(from)
             t == CASE c = Newline -> newline(s)
                    [] c = Glyph -> draw_char(s)
                    [] c = Backspace -> IF Typing THEN remove_char(s) ELSE s
             u == IF c # Newline /\ buffer # <<>> THEN draw_char(t) ELSE t
  <1>1. Good(from, g)
    BY OriginGood
  <1> HIDE DEF from
  <1>2. Good(s, g)
    BY <1>1, RemoveCharGood DEF WithoutCursor
  <1> HIDE DEF s
  <1>3. Good(t, g)
    <2>1. CASE c = Newline
      BY <1>2, <2>1, NewlineGood DEF Newline, Glyph, Backspace
    <2>2. CASE c = Glyph
      BY <1>2, <2>2, DrawCharGood DEF Newline, Glyph, Backspace
    <2>3. CASE c = Backspace
      BY <1>2, <2>3, RemoveCharGood DEF Newline, Glyph, Backspace
    <2> QED
      BY <2>1, <2>2, <2>3 DEF Printed
  <1> HIDE DEF t
  <1>4. Good(u, g)
    BY <1>3, DrawCharGood
  <1>5. Echo(c, buffer) = draw_viewport(u)
    BY DEF Echo, u, t, s, from
  <1> HIDE DEF u
  <1> QED
    BY <1>4, <1>5, DrawKeeps

\* A typed character.
LEMMA KeyCharStep ==
  ASSUME Inv, NEW c \in Printed \cup {Backspace}, KeyChar(c)
  PROVE  Inv'
  <1> DEFINE buffer == IF c # Backspace THEN Append(stdin_buffer, c)
                       ELSE IF Typing THEN SubSeq(stdin_buffer, 1, Len(stdin_buffer) - 1)
                       ELSE <<>>
             r == Echo(c, buffer)
  <1>1. /\ Running /\ Commit(r) /\ panicked' = panicked /\ proc' = proc /\ raced' = raced
        /\ mode' = mode /\ mode = "Stdin" /\ stdin_buffer' = buffer
        /\ torn' = ((Typing /\ torn) \/ EndsWithNewline \/ scr'.origin = Gone)
    BY DEF KeyChar, KeyPressed
  <1>2. stdin_buffer' \in Seq(Printed)
    <2>1. stdin_buffer \in Seq(Printed)
      BY StateFacts
    <2>2. c # Backspace => c \in Printed
      OBVIOUS
    <2>3. Typing => SubSeq(stdin_buffer, 1, Len(stdin_buffer) - 1) \in Seq(Printed)
      BY <2>1 DEF Typing
    <2> QED
      BY <1>1, <2>1, <2>2, <2>3
  <1> HIDE DEF buffer
  <1>3. proc.at = "idle" /\ mode' \in TerminalMode
    BY <1>1, StateFacts
  <1>4. ~InNewline /\ (~raced) \in BOOLEAN
    BY <1>3 DEF InNewline, NewlinePlaces
  <1>5. Good(scr, ~raced)
    BY <1>1, <1>4, StateFacts DEF Good, Fits, InNewline
  <1>6. Good(r, ~raced)
    BY <1>4, <1>5, EchoGood
  <1> HIDE DEF r
  <1>7. r \in Screens /\ (~raced /\ ~Ok(r) => Known(r))
    BY <1>6 DEF Good
  <1>8. Ok(r) => Fits(proc, r, ~raced)
    BY <1>3, <1>6, Calm DEF Good
  <1>9. torn' \in BOOLEAN
    BY <1>1, StateFacts DEF EndsWithNewline
  <1> QED
    BY <1>1, <1>2, <1>3, <1>7, <1>8, <1>9, StateFacts, StepSuffices
-----------------------------------------------------------------------------
(* The panic handler *)

\* What is left to show of a step of the handler.
LEMMA HandlerSuffices ==
  ASSUME Inv, ~Running, scr' \in Screens, Ok(scr'), handler' \in Handlers,
         panicked' \in BOOLEAN, ~Running', HandlerInv',
         UNCHANGED <<cause, mode, proc, stdin_buffer, raced, torn>>
  PROVE  Inv'
  <1>1. {panicked', raced', torn'} \subseteq BOOLEAN
    BY DEF Inv, TypeOK
  <1>2. TypeOK'
    BY <1>1 DEF Inv, TypeOK, Handlers
  <1> QED
    BY <1>2 DEF Inv, InGlyph

\* Facts about the handler that its steps use.
LEMMA HandlerFacts ==
  ASSUME Inv
  PROVE  /\ handler \in Handlers /\ panicked \in BOOLEAN /\ HandlerInv /\ MaxLines \in Nat
         /\ handler.depth \in Nat /\ handler.lines \in 0 .. MaxLines
         /\ handler.lines < MaxLines => handler.lines + 1 \in 0 .. MaxLines
  BY ScreenAssumption DEF Inv, TypeOK, Handlers

\* The text of a panic, like any other.
LEMMA PrintingFacts ==
  ASSUME Inv, NEW c
  PROVE  Printing(c) \in Screens
  <1>1. Good(scr, FALSE)
    BY StateFacts DEF Good
  <1>2. Good(Printing(c), FALSE)
    BY <1>1, PutcGood, DrawKeeps DEF Printing
  <1> QED
    BY <1>2 DEF Good

\* A step of the handler inside one panic.
LEMMA HandlerStepFacts ==
  ASSUME Inv, NEW from, NEW to \in {"line", "print", "end", "blocked", "halted"},
         NEW lines \in 0 .. MaxLines, HandlerStep(from, to, lines)
  PROVE  /\ ~Running /\ ~Running' /\ handler.at = from
         /\ handler' \in Handlers /\ handler'.at = to /\ handler'.lines = lines
         /\ handler'.depth = handler.depth
         /\ UNCHANGED <<cause, mode, proc, stdin_buffer, raced, torn>>
  BY HandlerFacts DEF HandlerStep, Handlers, Running

\* The handler prints under the flag, so its own panic does not print again.
LEMMA HandlerPreserves ==
  ASSUME Inv, Handler
  PROVE  Inv'
  <1>1. CASE CrossPrintln
    <2>0. handler.lines < MaxLines /\ scr' = scr /\ panicked' = TRUE
      BY <1>1 DEF CrossPrintln, FlagSet
    <2>1. CASE panicked
      <3>1. HandlerStep("line", "line", handler.lines + 1)
        BY <1>1, <2>1 DEF CrossPrintln
      <3>2. /\ ~Running /\ ~Running' /\ handler' \in Handlers /\ handler'.at = "line"
            /\ handler'.depth = handler.depth
            /\ UNCHANGED <<cause, mode, proc, stdin_buffer, raced, torn>>
        <4>1. handler.lines + 1 \in 0 .. MaxLines
          BY <2>0, HandlerFacts
        <4> QED
          BY <3>1, <4>1, HandlerStepFacts
      <3>3. HandlerInv'
        BY <2>0, <3>2, HandlerFacts DEF HandlerInv
      <3> QED
        BY <2>0, <3>2, <3>3, StateFacts, HandlerSuffices
    <2>2. CASE ~panicked
      <3>1. HandlerStep("line", "print", handler.lines)
        BY <1>1, <2>2 DEF CrossPrintln
      <3>2. /\ ~Running /\ ~Running' /\ handler' \in Handlers /\ handler'.at = "print"
            /\ handler'.depth = handler.depth /\ handler'.lines = handler.lines
            /\ UNCHANGED <<cause, mode, proc, stdin_buffer, raced, torn>>
        BY <3>1, HandlerFacts, HandlerStepFacts
      <3>3. handler.depth = 1
        BY <2>2, <3>2, HandlerFacts DEF HandlerInv, Running
      <3>4. HandlerInv'
        BY <2>0, <3>2, <3>3 DEF HandlerInv
      <3> QED
        BY <2>0, <3>2, <3>4, StateFacts, HandlerSuffices
    <2> QED
      BY <2>1, <2>2
  <1>2. CASE PanicPrintEnd
    <2>1. /\ HandlerStep("end", "line", handler.lines + 1) /\ panicked' = FALSE
          /\ Ok(Printing(Newline)) /\ scr' = Printing(Newline) /\ handler.at = "end"
      BY <1>2 DEF PanicPrintEnd, HandlerStep
    <2>2. handler.depth = 1 /\ handler.lines < MaxLines
      BY <2>1, HandlerFacts DEF HandlerInv
    <2>3. /\ ~Running /\ ~Running' /\ handler' \in Handlers /\ handler'.at = "line"
          /\ handler'.depth = handler.depth
          /\ UNCHANGED <<cause, mode, proc, stdin_buffer, raced, torn>>
      BY <2>1, <2>2, HandlerFacts, HandlerStepFacts
    <2>4. HandlerInv'
      BY <2>2, <2>3 DEF HandlerInv
    <2> QED
      BY <2>1, <2>3, <2>4, PrintingFacts, HandlerSuffices
  <1>3. ASSUME NEW from, NEW to \in {"blocked", "halted"},
               HandlerStep(from, to, handler.lines), UNCHANGED <<scr, panicked>>
        PROVE  Inv'
    <2>1. /\ ~Running /\ ~Running' /\ handler' \in Handlers /\ handler'.at = to
          /\ handler'.depth = handler.depth
          /\ UNCHANGED <<cause, mode, proc, stdin_buffer, raced, torn>>
      BY <1>3, HandlerFacts, HandlerStepFacts
    <2>2. HandlerInv'
      BY <1>3, <2>1, HandlerFacts DEF HandlerInv
    <2> QED
      BY <1>3, <2>1, <2>2, StateFacts, HandlerFacts, HandlerSuffices
  <1>4. CASE PanicBlocked \/ PanicHalt
    BY <1>3, <1>4 DEF PanicBlocked, PanicHalt
  <1>5. ASSUME NEW c \in Printed, PanicPrint(c) PROVE Inv'
    <2>1. /\ HandlerStep("print", "end", handler.lines) /\ panicked' = panicked
          /\ Ok(Printing(c)) /\ scr' = Printing(c) /\ handler.at = "print"
      BY <1>5 DEF PanicPrint, HandlerStep
    <2>2. /\ ~Running /\ ~Running' /\ handler' \in Handlers /\ handler'.at = "end"
          /\ handler'.depth = handler.depth /\ handler'.lines = handler.lines
          /\ UNCHANGED <<cause, mode, proc, stdin_buffer, raced, torn>>
      BY <2>1, HandlerFacts, HandlerStepFacts
    <2>3. HandlerInv'
      BY <2>1, <2>2, HandlerFacts DEF HandlerInv
    <2> QED
      BY <2>1, <2>2, <2>3, HandlerFacts, PrintingFacts, HandlerSuffices
  <1>6. ASSUME NEW c \in Printed, PanicAgain(c) PROVE Inv'
    <2> DEFINE r == Printing(c)
    <2>1. /\ ~Running /\ handler.at \in {"print", "end"} /\ ~Ok(r) /\ Commit(r)
          /\ UNCHANGED <<mode, proc, stdin_buffer, panicked, raced, torn>>
      BY <1>6 DEF PanicAgain
    <2>2. r \in Screens
      BY PrintingFacts
    <2> HIDE DEF r
    <2>3. /\ scr' \in Screens /\ Ok(scr') /\ cause' = cause
          /\ handler' \in Handlers /\ handler'.depth = handler.depth + 1 /\ handler'.at = "line"
      BY <2>1, <2>2, HandlerFacts, CommitStep
    <2>4. handler.depth = 1 /\ panicked /\ panicked'
      BY <2>1, HandlerFacts DEF HandlerInv
    <2>5. handler'.depth = 2 /\ ~Running'
      BY <2>3, <2>4 DEF Running
    <2>6. HandlerInv'
      BY <2>3, <2>4, <2>5 DEF HandlerInv
    <2> QED
      BY <2>1, <2>3, <2>5, <2>6, HandlerFacts, HandlerSuffices
  <1> QED
    BY <1>1, <1>2, <1>4, <1>5, <1>6 DEF Handler
-----------------------------------------------------------------------------
(* The window and the nesting of panics *)

\* Every step keeps the invariant.
LEMMA StepInv ==
  ASSUME Inv, [Next]_vars
  PROVE  Inv'
  <1>1. CASE Printer
    BY <1>1, WriteSliceStep, PutcStep, CompareStep, SaveStep, GrowViewportStep,
       MoveWindowStep, MeasureViewportStep, ShiftViewportStep, DrawStep, CopyStep,
       RestoreStep, LocatePixelStep, SetPixelStep, MoveCursorStep, FlushStep,
       WriteEndStep, TakeLineStep DEF Printer
  <1>2. CASE Key
    BY <1>2, PageDownStep, PageUpStep, KeyClearStep, KeyCharStep DEF Key
  <1>3. CASE Handler
    BY <1>3, HandlerPreserves
  <1>4. CASE UNCHANGED vars
    <2>1. TypeOK' /\ HandlerInv' /\ (Running' <=> Running)
      BY <1>4 DEF vars, Inv, TypeOK, HandlerInv, Running
    <2> QED
      BY <1>4, <2>1 DEF vars, Inv
  <1> QED
    BY <1>1, <1>2, <1>3, <1>4 DEF Next

\* The invariant holds in every reachable state.
THEOREM Invariance == Spec => []Inv
  BY InitInv, StepInv, PTL DEF Spec

\* For every frame buffer, the last line of text cut or not, and every size of
\* glyphs: newline, scroll_down, scroll_up, remove_char and clear keep the
\* window in the viewport, the viewport within four screens, and the cursor's
\* line in the viewport, unless a clear hit a newline, or PageDown its one
\* step.
THEOREM WindowSafe == Spec => []WindowInViewport
  <1>1. ASSUME Inv PROVE WindowInViewport
    <2>1. TypeOK /\ scr \in Screens
      BY <1>1 DEF Inv, TypeOK
    <2>2. ASSUME ~raced, Running
          PROVE  /\ viewport_len(scr) <= 4 * scr.buffer
                 /\ WindowEnd(scr) <= viewport_len(scr)
                 /\ scr.x <= Stride
                 /\ ~InNewline =>
                      /\ scr.y * Line < viewport_len(scr)
                      /\ ~LastLineCut(scr) => (scr.y + 1) * Line <= viewport_len(scr)
      <3>1. WindowOk(scr) /\ (~InNewline => CursorOk(scr))
        BY <1>1, <2>2, StateFacts DEF Fits, InNewline
      <3> QED
        BY <2>1, <3>1, InLines DEF WindowOk
    <2> QED
      BY <2>1, <2>2 DEF WindowInViewport
  <1> QED
    BY <1>1, Invariance, PTL

\* A panic in the println of the panic handler, whatever its cause, is not
\* printed to the terminal again.
THEOREM PanicsNest == Spec => []PanicsNestOnce
  <1>1. ASSUME Inv PROVE PanicsNestOnce
    BY <1>1 DEF Inv, HandlerInv, PanicsNestOnce
  <1> QED
    BY <1>1, Invariance, PTL
-----------------------------------------------------------------------------
(* Cells *)

\* Division with remainder.
LEMMA DivMod ==
  ASSUME NEW n \in Nat \ {0}, NEW a \in Nat
  PROVE  /\ a \div n \in Nat /\ a % n \in Nat /\ a % n < n
         /\ a = (a \div n) * n + (a % n)
  BY SMT

\* Pixels and cells of a line.
LEMMA Division ==
  ASSUME NEW x \in Nat
  PROVE  /\ x \div GlyphWidth \in Nat /\ x % GlyphWidth \in Nat /\ x % GlyphWidth < GlyphWidth
         /\ x = (x \div GlyphWidth) * GlyphWidth + (x % GlyphWidth)
  BY Sizes, DivMod

\* The cell of a pixel.
LEMMA CellOf ==
  ASSUME NEW k \in Nat, NEW o \in Nat, o < GlyphWidth
  PROVE  /\ (k * GlyphWidth + o) \div GlyphWidth = k
         /\ (k * GlyphWidth + o) % GlyphWidth = o
  <1> DEFINE x == k * GlyphWidth + o
             q == x \div GlyphWidth
             m == x % GlyphWidth
  <1>0. GlyphWidth \in Nat \ {0} /\ k * GlyphWidth \in Nat /\ x \in Nat
    BY Sizes, SMT
  <1>1. q \in Nat /\ m \in Nat /\ m < GlyphWidth /\ x = q * GlyphWidth + m
    BY <1>0, Division
  <1>2. x = k * GlyphWidth + o
    OBVIOUS
  <1> HIDE DEF x, q, m
  <1>3. q = k
    <2>1. q < k => q * GlyphWidth + GlyphWidth <= k * GlyphWidth
      BY <1>0, <1>1, SMT
    <2>2. k < q => k * GlyphWidth + GlyphWidth <= q * GlyphWidth
      BY <1>0, <1>1, SMT
    <2>3. q * GlyphWidth \in Nat
      BY <1>0, <1>1, SMT
    <2> QED
      BY <1>0, <1>1, <1>2, <2>1, <2>2, <2>3
  <1>4. m = o
    BY <1>0, <1>1, <1>2, <1>3
  <1> QED
    BY <1>3, <1>4 DEF q, m, x

\* A cell begins no further right than the margin allows.
Grid(s) == s.x % GlyphWidth <= Stride % GlyphWidth

\* A cell more, and a cell less, on a line.
LEMMA NextCell ==
  ASSUME NEW x \in Nat
  PROVE  /\ (x + GlyphWidth) \div GlyphWidth = x \div GlyphWidth + 1
         /\ (x + GlyphWidth) % GlyphWidth = x % GlyphWidth
         /\ x >= GlyphWidth => /\ (x - GlyphWidth) \div GlyphWidth = x \div GlyphWidth - 1
                               /\ (x - GlyphWidth) % GlyphWidth = x % GlyphWidth
                               /\ x \div GlyphWidth >= 1
         /\ x < GlyphWidth => x \div GlyphWidth = 0
         /\ 0 \div GlyphWidth = 0 /\ 0 % GlyphWidth = 0
  <1> DEFINE k == x \div GlyphWidth
             o == x % GlyphWidth
  <1>0. GlyphWidth \in Nat \ {0}
    BY Sizes
  <1>1. k \in Nat /\ o \in Nat /\ o < GlyphWidth /\ x = k * GlyphWidth + o
    BY Division
  <1> HIDE DEF k, o
  <1>2. /\ (k + 1) * GlyphWidth = k * GlyphWidth + GlyphWidth /\ k * GlyphWidth \in Nat
        /\ (k - 1) * GlyphWidth = k * GlyphWidth - GlyphWidth
        /\ 0 * GlyphWidth = 0
    BY <1>0, <1>1, SMT
  <1>3. x + GlyphWidth = (k + 1) * GlyphWidth + o /\ x - GlyphWidth = (k - 1) * GlyphWidth + o
    BY <1>0, <1>1, <1>2
  <1>4. x >= GlyphWidth => k >= 1
    <2>1. k = 0 => x < GlyphWidth
      BY <1>0, <1>1, <1>2
    <2> QED
      BY <1>0, <1>1, <2>1
  <1>5. x < GlyphWidth => k = 0
    <2>1. k >= 1 => k * GlyphWidth >= GlyphWidth
      BY <1>0, <1>1, SMT
    <2> QED
      BY <1>0, <1>1, <1>2, <2>1
  <1>6. /\ (x + GlyphWidth) \div GlyphWidth = k + 1
        /\ (x + GlyphWidth) % GlyphWidth = o
    BY <1>1, <1>3, CellOf
  <1>7. x >= GlyphWidth => /\ (x - GlyphWidth) \div GlyphWidth = k - 1
                           /\ (x - GlyphWidth) % GlyphWidth = o
    <2>1. k >= 1 => k - 1 \in Nat
      BY <1>1
    <2> QED
      BY <1>1, <1>3, <1>4, <2>1, CellOf
  <1>8. 0 \div GlyphWidth = 0 /\ 0 % GlyphWidth = 0
    <2>1. 0 * GlyphWidth + 0 = 0 /\ 0 < GlyphWidth
      BY <1>0, <1>2
    <2>2. /\ (0 * GlyphWidth + 0) \div GlyphWidth = 0
          /\ (0 * GlyphWidth + 0) % GlyphWidth = 0
      BY <2>1, CellOf
    <2> QED
      BY <2>1, <2>2
  <1> QED
    BY <1>4, <1>5, <1>6, <1>7, <1>8 DEF k, o

\* The stride in cells and the margin.
LEMMA Margin ==
  /\ Columns \in Nat /\ Columns >= 1 /\ Stride % GlyphWidth \in Nat
  /\ Stride % GlyphWidth < GlyphWidth
  /\ Stride = Columns * GlyphWidth + (Stride % GlyphWidth)
  <1>1. /\ Columns \in Nat /\ Stride % GlyphWidth \in Nat /\ Stride % GlyphWidth < GlyphWidth
        /\ Stride = Columns * GlyphWidth + (Stride % GlyphWidth)
    BY Sizes, Division DEF Columns
  <1>2. Columns >= 1
    BY Sizes, NextCell DEF Columns
  <1> QED
    BY <1>1, <1>2

\* A glyph wraps behind the last cell only.
LEMMA WrapCell ==
  ASSUME NEW x \in Nat, x <= Stride, x + GlyphWidth > Stride,
         x % GlyphWidth <= Stride % GlyphWidth
  PROVE  x \div GlyphWidth = Columns
  <1> DEFINE k == x \div GlyphWidth
             o == x % GlyphWidth
             m == Stride % GlyphWidth
  <1>0. GlyphWidth \in Nat \ {0} /\ Stride \in Nat
    BY Sizes
  <1>1. k \in Nat /\ o \in Nat /\ o < GlyphWidth /\ x = k * GlyphWidth + o /\ o <= m
    BY Division
  <1>2. /\ Columns \in Nat /\ m \in Nat /\ m < GlyphWidth
        /\ Stride = Columns * GlyphWidth + m
    BY Margin
  <1> HIDE DEF k, o, m
  <1>3. k < Columns => k * GlyphWidth + GlyphWidth <= Columns * GlyphWidth
    BY <1>0, <1>1, <1>2, SMT
  <1>4. k > Columns => Columns * GlyphWidth + GlyphWidth <= k * GlyphWidth
    BY <1>0, <1>1, <1>2, SMT
  <1>5. k * GlyphWidth \in Nat /\ Columns * GlyphWidth \in Nat
    BY <1>0, <1>1, <1>2, SMT
  <1>6. k = Columns
    BY <1>0, <1>1, <1>2, <1>3, <1>4, <1>5
  <1> QED
    BY <1>6 DEF k

\* Where remove_char goes on the line above.
LEMMA LastCellIs ==
  ASSUME MaskKeepsCells
  PROVE  /\ LastCell \in Nat /\ LastCell \div GlyphWidth = Columns - 1
         /\ LastCell % GlyphWidth <= Stride % GlyphWidth
  <1> DEFINE k == Columns - 1
             j == LastCell - k * GlyphWidth
             m == Stride % GlyphWidth
  <1>0. GlyphWidth \in Nat \ {0} /\ Stride \in Nat
    BY Sizes
  <1>1. /\ k \in Nat /\ m \in Nat /\ m < GlyphWidth
        /\ Stride = Columns * GlyphWidth + m
    BY Margin
  <1>2. LastCell \in Int /\ LastCell + GlyphWidth <= Stride /\ LastCell >= k * GlyphWidth
    BY LastCellFacts DEF MaskKeepsCells
  <1>3. k * GlyphWidth \in Nat /\ Columns * GlyphWidth = k * GlyphWidth + GlyphWidth
    BY <1>0, Margin, SMT
  <1> HIDE DEF k, m
  <1>4. j \in Nat /\ j <= m /\ j < GlyphWidth /\ LastCell = k * GlyphWidth + j
    BY <1>0, <1>1, <1>2, <1>3
  <1>5. LastCell \in Nat
    BY <1>3, <1>4
  <1> HIDE DEF j
  <1>6. (k * GlyphWidth + j) \div GlyphWidth = k /\ (k * GlyphWidth + j) % GlyphWidth = j
    BY <1>1, <1>4, CellOf
  <1> QED
    BY <1>4, <1>5, <1>6 DEF k, m
-----------------------------------------------------------------------------
(* Operations on a screen: where they leave the cursor, in cells *)

\* The cursor is on a cell, n cells behind where the line being typed begins,
\* if that is still in the viewport.
On(s, n) ==
  /\ Good(s, TRUE) /\ s.err # "negative"
  /\ Ok(s) => /\ Grid(s)
              /\ s.origin # Gone => Position(s) = s.origin + n

\* A position is a number of cells.
LEMMA PositionNat ==
  ASSUME NEW s \in Screens
  PROVE  /\ Position(s) \in Nat /\ s.y * Columns \in Nat /\ s.x \div GlyphWidth \in Nat
         /\ s.origin # Gone => s.origin \in Nat
  <1>1. s.y * Columns \in Nat /\ s.x \div GlyphWidth \in Nat
    <2>1. s.x \in Nat /\ s.y \in Nat
      BY Fields
    <2>2. s.x \div GlyphWidth \in Nat
      BY <2>1, Division
    <2> QED
      BY <2>1, <2>2, ColumnsNat, SMT
  <1> QED
    BY <1>1, Fields DEF Position

\* Drawing.
LEMMA DrawOn ==
  ASSUME NEW n \in Int, NEW s, On(s, n)
  PROVE  On(draw_viewport(s), n)
  <1> DEFINE d == draw_viewport(s)
  <1>1. s \in Screens /\ Good(s, TRUE)
    BY DEF On, Good
  <1>2. Good(d, TRUE) /\ (Ok(d) => d = s) /\ (~Ok(s) => d = s)
    BY <1>1, DrawKeeps, DrawFacts
  <1>3. Ok(s) /\ ~Ok(d) => d.err = "draw"
    BY <1>1, DrawGood DEF Good
  <1> HIDE DEF d
  <1>4. On(d, n)
    BY <1>2, <1>3 DEF On
  <1> QED
    BY <1>4 DEF d

\* scroll_down(true): the line that is removed takes a line of cells away from
\* the position and from the origin.
LEMMA MakeSpaceOn ==
  ASSUME NEW n \in Int, NEW s \in Screens, Ok(s), WindowOk(s), s.x = 0, s.y >= 1,
         s.y <= s.extra + Rows(s.buffer),
         s.origin # Gone => s.y * Columns = s.origin + n
  PROVE  On(make_space(s), n)
  <1> DEFINE r == make_space(s)
  <1>1. Good(r, TRUE) /\ r \in Screens /\ r.x = 0
    BY MakeSpaceGood, MakeSpaceType
  <1>2. s.y \in Nat /\ s.y # 0 /\ s.y - 1 \in Nat /\ (s.origin # Gone => s.origin \in Nat)
    BY Fields
  <1>3. 0 \div GlyphWidth = 0 /\ 0 % GlyphWidth = 0 /\ Stride % GlyphWidth \in Nat
    BY NextCell, Margin
  <1>4. Grid(r) /\ Position(r) = r.y * Columns
    <2>1. r.y \in Nat /\ r.y * Columns \in Nat
      BY <1>1, PositionNat, Fields
    <2> HIDE DEF r
    <2> QED
      BY <1>1, <1>3, <2>1 DEF Grid, Position
  <1>5. /\ r.err # "negative"
        /\ r.origin # Gone => r.y * Columns = r.origin + n
    <2>1. CASE CanGrow(s)
      <3>1. r = [s EXCEPT !.start = s.start + 1, !.extra = s.extra + 1]
        BY <2>1, MakeSpaceIs
      <3>2. r.err = s.err /\ r.origin = s.origin /\ r.y = s.y
        BY <3>1 DEF Screens
      <3> QED
        BY <3>2 DEF Ok
    <2>2. CASE ~CanGrow(s)
      <3> DEFINE v == OriginShifted(s)
      <3>1. r = At(v, s.x, s.y - 1)
        BY <1>2, <2>2, MakeSpaceIs
      <3>2. /\ v \in Screens /\ v.err = s.err
            /\ v.origin = IF s.origin >= Columns THEN s.origin - Columns ELSE Gone
        BY ShiftFacts
      <3> HIDE DEF v, r
      <3>3. r.err = s.err /\ r.origin = v.origin /\ r.y = s.y - 1
        BY <1>2, <3>1, <3>2, Fields DEF At, Screens
      <3>4. (s.y - 1) * Columns = s.y * Columns - Columns /\ s.y * Columns \in Nat
        BY <1>2, ColumnsNat, SMT
      <3>5. ASSUME r.origin # Gone PROVE r.y * Columns = r.origin + n
        <4>1. s.origin >= Columns /\ r.origin = s.origin - Columns
          BY <3>2, <3>3, <3>5
        <4>2. s.origin # Gone
          BY <4>1, ColumnsNat DEF Gone
        <4> QED
          BY <1>2, <3>3, <3>4, <4>1, <4>2, ColumnsNat
      <3> QED
        BY <3>3, <3>5 DEF Ok
    <2> QED
      BY <2>1, <2>2
  <1> HIDE DEF r
  <1>6. On(r, n)
    BY <1>1, <1>4, <1>5 DEF On
  <1> QED
    BY <1>6 DEF r

\* newline, from a line whose end is n cells behind the origin.
LEMMA NewlineOn ==
  ASSUME NEW n \in Int, NEW s, Good(s, TRUE), s.err # "negative",
         Ok(s) /\ s.origin # Gone => (s.y + 1) * Columns = s.origin + n
  PROVE  On(newline(s), n)
  <1>1. CASE ~Ok(s)
    BY <1>1 DEF newline, On
  <1>2. CASE Ok(s)
    <2> DEFINE t == NextLine(s)
    <2>1. s \in Screens /\ WindowOk(s) /\ CursorOk(s)
      BY <1>2 DEF Good
    <2>2. /\ t \in Screens /\ t.x = 0 /\ t.y = s.y + 1 /\ t.origin = s.origin
          /\ t.buffer = s.buffer /\ t.extra = s.extra /\ t.err = s.err
          /\ WindowOk(t) /\ s.y + 1 <= s.extra + Rows(s.buffer)
          /\ ~BelowWindow(t) => CursorOk(t)
      BY <2>1, NextLineFacts
    <2>3. newline(s) = IF BelowWindow(t) THEN make_space(t) ELSE t
      BY <1>2 DEF newline
    <2> HIDE DEF t
    <2>4. Ok(t) /\ t.y >= 1 /\ (t.origin # Gone => t.y * Columns = t.origin + n)
      BY <1>2, <2>1, <2>2, Fields DEF Ok
    <2>5. CASE BelowWindow(t)
      BY <2>2, <2>3, <2>4, <2>5, MakeSpaceOn
    <2>6. CASE ~BelowWindow(t)
      <3>1. Good(t, TRUE)
        BY <2>2, <2>4, <2>6 DEF Good
      <3>2. Grid(t)
        BY <2>2, NextCell, Margin DEF Grid
      <3>3. Position(t) = t.y * Columns
        <4>1. t.y * Columns \in Nat
          BY <2>2, PositionNat
        <4>2. 0 \div GlyphWidth = 0
          BY NextCell, Sizes
        <4> QED
          BY <2>2, <4>1, <4>2 DEF Position
      <3> QED
        BY <2>3, <2>4, <2>6, <3>1, <3>2, <3>3 DEF On, Ok
    <2> QED
      BY <2>5, <2>6
  <1> QED
    BY <1>1, <1>2

\* A glyph is a cell; a wrap is none.
LEMMA DrawCharOn ==
  ASSUME NEW n \in Int, NEW s, On(s, n)
  PROVE  On(draw_char(s), n + 1)
  <1> DEFINE t == IF Wraps(s) THEN newline(s) ELSE s
             r == set_pixels(t)
  <1>1. s \in Screens /\ Good(s, TRUE) /\ s.err # "negative"
    BY DEF On, Good
  <1>2. On(t, n)
    <2>1. CASE ~Wraps(s)
      BY <2>1
    <2>2. CASE Wraps(s)
      <3>1. ASSUME Ok(s), s.origin # Gone PROVE (s.y + 1) * Columns = s.origin + n
        <4>1. s.x \in Nat /\ s.y \in Nat /\ s.x <= Stride /\ s.x + GlyphWidth > Stride
          BY <1>1, <2>2, <3>1, Fields DEF Good, WindowOk, Wraps
        <4>2. s.x \div GlyphWidth = Columns
          BY <3>1, <4>1, WrapCell DEF On, Grid
        <4>3. (s.y + 1) * Columns = s.y * Columns + Columns
          BY <4>1, ColumnsNat, SMT
        <4> QED
          BY <3>1, <4>2, <4>3 DEF On, Position
      <3>2. On(newline(s), n)
        BY <1>1, <3>1, NewlineOn
      <3> QED
        BY <2>2, <3>2
    <2> QED
      BY <2>1, <2>2
  <1>3. draw_char(s) = r
    BY DEF draw_char
  <1>4. Good(r, TRUE)
    BY <1>1, <1>3, DrawCharGood
  <1> HIDE DEF t, r
  <1>5. t \in Screens /\ t.x \in Nat
    BY <1>2, Fields DEF On, Good
  <1>6. CASE ~Ok(t)
    <2>1. r = t
      BY <1>6 DEF set_pixels, r
    <2> QED
      BY <1>2, <1>3, <1>6, <2>1 DEF On
  <1>7. CASE Ok(t) /\ ~Inside(t)
    <2>1. r = Fail(t, "index")
      BY <1>7 DEF set_pixels, r
    <2>2. r.err = "index"
      BY <1>5, <2>1, FailFacts DEF Errors
    <2> QED
      BY <1>3, <1>4, <2>2 DEF On, Ok
  <1>8. CASE Ok(t) /\ Inside(t)
    <2>1. r = [t EXCEPT !.x = t.x + GlyphWidth]
      BY <1>8 DEF set_pixels, r
    <2>2. r.x = t.x + GlyphWidth /\ r.y = t.y /\ r.origin = t.origin /\ r.err = t.err
      BY <1>5, <2>1 DEF Screens
    <2>3. /\ r.x \div GlyphWidth = t.x \div GlyphWidth + 1
          /\ r.x % GlyphWidth = t.x % GlyphWidth
      BY <1>5, <2>2, NextCell
    <2>4. Grid(r)
      BY <1>2, <1>8, <2>3 DEF On, Grid
    <2>5. Position(r) = Position(t) + 1
      <3>1. t.y * Columns \in Nat /\ t.x \div GlyphWidth \in Nat
        BY <1>5, PositionNat
      <3> QED
        BY <2>2, <2>3, <3>1 DEF Position
    <2>6. r.origin # Gone => Position(r) = r.origin + (n + 1)
      <3>1. t.origin # Gone => Position(t) = t.origin + n /\ t.origin \in Nat
        BY <1>2, <1>5, <1>8, PositionNat DEF On
      <3> QED
        BY <2>2, <2>5, <3>1
    <2> QED
      BY <1>3, <1>4, <1>8, <2>2, <2>4, <2>6 DEF On, Ok
  <1> QED
    BY <1>6, <1>7, <1>8

\* remove_char goes back a cell, if one of the line is left: it does not get
\* above the viewport or left of a line.
LEMMA RemoveCharOn ==
  ASSUME MaskKeepsCells, NEW n \in Int, n >= 1, NEW s, On(s, n), Ok(s) => s.origin # Gone
  PROVE  /\ On(remove_char(s), n - 1)
         /\ Ok(remove_char(s)) => remove_char(s).origin # Gone
  <1> DEFINE r == remove_char(s)
             c == CellBefore(s)
  <1>0. s \in Screens /\ Good(s, TRUE)
    BY DEF On, Good
  <1>1. CASE ~Ok(s)
    <2>1. r = s
      BY <1>1 DEF remove_char
    <2> QED
      BY <1>1, <2>1 DEF On
  <1>2. CASE Ok(s)
    <2>1. /\ s.x \in Nat /\ s.y \in Nat /\ Position(s) = s.origin + n /\ s.origin \in Nat
          /\ s.y * Columns \in Nat /\ s.x \div GlyphWidth \in Nat /\ s.origin # Gone
          /\ Position(s) = s.y * Columns + s.x \div GlyphWidth
      BY <1>0, <1>2, Fields, PositionNat DEF On, Position
    <2>2. LastCell \in Nat
      BY LastCellIs
    <2>3. ~(s.x < GlyphWidth /\ (s.y = 0 \/ LastCell < 0))
      <3>1. SUFFICES ASSUME s.x < GlyphWidth, s.y = 0 PROVE FALSE
        BY <2>2
      <3>2. s.x \div GlyphWidth = 0 /\ 0 * Columns = 0
        BY <2>1, <3>1, NextCell, ColumnsNat, SMT
      <3> QED
        BY <2>1, <3>1, <3>2
    <2>4. /\ c \in Screens /\ c.origin = s.origin /\ c.err = s.err
          /\ IF s.x >= GlyphWidth THEN c.x = s.x - GlyphWidth /\ c.y = s.y
             ELSE c.x = LastCell /\ c.y = s.y - 1
      BY <1>0, <2>3, CellBeforeFacts
    <2>5. r = IF ~Inside(c) THEN Fail(c, "index") ELSE c
      BY <1>2, <2>3 DEF remove_char
    <2>6. Good(r, TRUE)
      BY <1>0, RemoveCharGood
    <2> HIDE DEF c, r
    <2>7. Grid(c) /\ Position(c) = Position(s) - 1
      <3>1. CASE s.x >= GlyphWidth
        <4>1. /\ c.x \div GlyphWidth = s.x \div GlyphWidth - 1
              /\ c.x % GlyphWidth = s.x % GlyphWidth /\ c.y = s.y
          BY <2>1, <2>4, <3>1, NextCell
        <4> QED
          BY <1>2, <2>1, <4>1 DEF On, Grid, Position
      <3>2. CASE ~(s.x >= GlyphWidth)
        <4>1. s.x \div GlyphWidth = 0
          <5>1. s.x < GlyphWidth
            BY <2>1, <3>2, Sizes
          <5> QED
            BY <2>1, <5>1, NextCell
        <4>2. /\ c.x \div GlyphWidth = Columns - 1 /\ c.y = s.y - 1
              /\ c.x % GlyphWidth <= Stride % GlyphWidth
          BY <2>4, <3>2, LastCellIs
        <4>3. (s.y - 1) * Columns = s.y * Columns - Columns
          BY <2>1, ColumnsNat, SMT
        <4> QED
          BY <2>1, <4>1, <4>2, <4>3, ColumnsNat DEF Grid, Position
      <3> QED
        BY <3>1, <3>2
    <2>8. CASE Inside(c)
      <3>1. r = c
        BY <2>5, <2>8
      <3>2. Position(c) = c.origin + (n - 1)
        BY <2>1, <2>4, <2>7
      <3> QED
        BY <1>2, <2>1, <2>4, <2>6, <2>7, <3>1, <3>2 DEF On, Ok, r
    <2>9. CASE ~Inside(c)
      <3>1. r.err = "index"
        BY <2>4, <2>5, <2>9, FailFacts DEF Errors
      <3> QED
        BY <2>6, <3>1 DEF On, Ok, r
    <2> QED
      BY <2>8, <2>9
  <1> QED
    BY <1>1, <1>2

\* The text of clear.
LEMMA TwoOn ==
  ASSUME NEW n \in Int, NEW s, On(s, n)
  PROVE  On(Two(s), n + 2)
  <1>1. On(draw_char(s), n + 1) /\ n + 1 \in Int
    BY DrawCharOn
  <1>2. On(draw_char(draw_char(s)), (n + 1) + 1)
    BY <1>1, DrawCharOn
  <1>3. (n + 1) + 1 = n + 2
    OBVIOUS
  <1> QED
    BY <1>2, <1>3 DEF Two

\* clear fails in drawing only, and ends in the first cell.
LEMMA ClearOn ==
  ASSUME NEW n \in Int, NEW s, On(s, n)
  PROVE  clear(s).err # "negative" /\ (Ok(clear(s)) => Grid(clear(s)))
  <1> DEFINE t == Two(Two(Two(Two(s))))
             m == (t.y + 1) * Columns - t.origin
             r == Clearing(s)
  <1>1. On(Two(s), n + 2) /\ n + 2 \in Int
    BY TwoOn
  <1>2. On(Two(Two(s)), (n + 2) + 2) /\ (n + 2) + 2 \in Int
    BY <1>1, TwoOn
  <1>3. On(Two(Two(Two(s))), ((n + 2) + 2) + 2) /\ ((n + 2) + 2) + 2 \in Int
    BY <1>2, TwoOn
  <1>4. On(t, (((n + 2) + 2) + 2) + 2)
    BY <1>3, TwoOn
  <1>5. r = draw_viewport(newline(t))
    BY DEF Clearing
  <1> HIDE DEF t, r
  <1>6. t \in Screens /\ Good(t, TRUE) /\ t.err # "negative"
    BY <1>4 DEF On, Good
  <1>7. m \in Int /\ (t.y + 1) * Columns = t.origin + m
    <2>1. t.y \in Nat /\ t.origin \in Int
      BY <1>6, Fields DEF Gone
    <2>2. (t.y + 1) * Columns \in Int
      BY <2>1, ColumnsNat, SMT
    <2> QED
      BY <2>1, <2>2
  <1> HIDE DEF m
  <1>8. On(newline(t), m)
    BY <1>6, <1>7, NewlineOn
  <1>9. On(r, m)
    BY <1>5, <1>7, <1>8, DrawOn
  <1>10. clear(s) = IF Ok(r) THEN draw_viewport(Cleared(r)) ELSE r
    BY DEF clear, r
  <1>11. CASE ~Ok(r)
    BY <1>9, <1>10, <1>11 DEF On
  <1>12. CASE Ok(r)
    <2>1. r \in Screens
      BY <1>9 DEF On, Good
    <2>2. clear(s) = Cleared(r) /\ Cleared(r).x = 0 /\ Cleared(r).err = "none"
      BY <1>10, <1>12, <2>1, ClearedGood DEF Ok
    <2>3. Grid(Cleared(r))
      BY <2>2, NextCell, Margin DEF Grid
    <2> QED
      BY <2>2, <2>3
  <1> QED
    BY <1>11, <1>12
-----------------------------------------------------------------------------
(* The echo *)

\* Where a process leaves the line being typed alone.
Rest == {"idle", "chars", "flush"}

EchoInv ==
  ~raced /\ MaskKeepsCells =>
    /\ Running =>
         /\ Grid(scr)
         /\ Typing /\ proc.at \notin Rest => torn
         /\ Typing /\ ~torn /\ ~EndsWithNewline =>
              scr.origin # Gone /\ Position(scr) = scr.origin + (Len(stdin_buffer) + 1)
    /\ ~Running /\ cause.err = "negative" => torn

\* What is left to show of a step that leaves the screen r.
LEMMA EchoSuffices ==
  ASSUME Inv, Running, NEW r \in Screens, Commit(r),
         ~raced' /\ MaskKeepsCells /\ Ok(r) =>
           /\ Grid(r)
           /\ Typing' /\ proc'.at \notin Rest => torn'
           /\ Typing' /\ ~torn' /\ ~EndsWithNewline' =>
                r.origin # Gone /\ Position(r) = r.origin + (Len(stdin_buffer') + 1),
         ~raced' /\ MaskKeepsCells /\ r.err = "negative" => torn'
  PROVE  EchoInv'
  <1>1. handler \in Handlers /\ handler.depth = 0
    BY StateFacts DEF Running
  <1>2. /\ Ok(r) => scr' = r /\ handler' = handler
        /\ ~Ok(r) => handler'.depth = handler.depth + 1 /\ cause' = r
    BY <1>1, CommitStep
  <1>3. (Ok(r) => Running') /\ (~Ok(r) => ~Running')
    BY <1>1, <1>2 DEF Running
  <1>4. MaskKeepsCells' <=> MaskKeepsCells
    BY DEF MaskKeepsCells
  <1>5. CASE Ok(r)
    BY <1>2, <1>3, <1>4, <1>5 DEF EchoInv, Grid, Position, Rest
  <1>6. CASE ~Ok(r)
    BY <1>2, <1>3, <1>4, <1>6 DEF EchoInv
  <1> QED
    BY <1>5, <1>6

\* A step of the process either tears the line or leaves it alone.
LEMMA ProcessEcho ==
  ASSUME Inv, EchoInv, NEW p, NEW r \in Screens, Step(p, r),
         torn' = torn \/ torn' = (torn \/ Typing),
         Ok(r) /\ ~raced => Grid(r) \/ r = scr,
         ~raced => r.err # "negative",
         \/ torn' = (torn \/ Typing)
         \/ proc.at \notin Rest
         \/ p.at \in Rest /\ (Ok(r) => r = scr)
  PROVE  EchoInv'
  <1>1. /\ Running /\ Commit(r) /\ proc' = p
        /\ stdin_buffer' = stdin_buffer /\ raced' = raced
    BY DEF Step
  <1>2. (Typing' <=> Typing) /\ (EndsWithNewline' <=> EndsWithNewline)
    BY <1>1 DEF Typing, EndsWithNewline
  <1>3. ASSUME ~raced, MaskKeepsCells, Ok(r)
        PROVE  /\ Grid(r)
               /\ Typing /\ p.at \notin Rest => torn'
               /\ Typing /\ ~torn' /\ ~EndsWithNewline =>
                    r.origin # Gone /\ Position(r) = r.origin + (Len(stdin_buffer) + 1)
    <2>1. /\ Grid(scr)
          /\ Typing /\ proc.at \notin Rest => torn
          /\ Typing /\ ~torn /\ ~EndsWithNewline =>
               scr.origin # Gone /\ Position(scr) = scr.origin + (Len(stdin_buffer) + 1)
      BY <1>1, <1>3 DEF EchoInv
    <2>2. Grid(r)
      BY <1>3, <2>1
    <2>3. Typing /\ ~torn' => ~torn /\ r = scr /\ p.at \in Rest
      BY <1>3, <2>1
    <2> QED
      BY <2>1, <2>2, <2>3
  <1> QED
    BY <1>1, <1>2, <1>3, EchoSuffices

\* Steps of the process that leave the cursor where it is, ...
LEMMA StayEcho ==
  ASSUME Inv, EchoInv, NEW from, NEW p, NEW r \in {scr, Used(scr), Fail(scr, "draw")},
         StepTo(from, p, r), from \notin Rest \/ p.at \in Rest
  PROVE  EchoInv'
  <1>1. Step(p, r) /\ proc.at = from /\ torn' = torn
    BY DEF StepTo
  <1>2. scr \in Screens /\ Ok(scr) /\ proc.end \in Nat
    BY StateFacts, Numbers
  <1>3. r \in Screens /\ (Ok(r) => r = scr) /\ r.err # "negative"
    <2>1. CASE r = scr
      BY <1>2, <2>1 DEF Ok
    <2>2. CASE r = Used(scr)
      BY <1>2, <2>2, UsedFacts DEF Ok
    <2>3. CASE r = Fail(scr, "draw")
      BY <1>2, <2>3, FailFacts DEF Ok, Errors
    <2> QED
      BY <2>1, <2>2, <2>3
  <1> QED
    BY <1>1, <1>3, ProcessEcho

\* ... or put it at the beginning of a line.
LEMMA BeginEcho ==
  ASSUME Inv, EchoInv, NEW from, NEW p, NEW r \in Screens,
         StepTo(from, p, r), from \notin Rest, Ok(r) => r.x = 0, ~raced => r.err # "negative"
  PROVE  EchoInv'
  <1>1. Step(p, r) /\ proc.at = from /\ torn' = torn
    BY DEF StepTo
  <1>2. Ok(r) => Grid(r)
    BY NextCell, Margin DEF Grid
  <1> QED
    BY <1>1, <1>2, ProcessEcho

\* The character that a process prints while a line is typed tears it.
LEMMA PutcEcho ==
  ASSUME Inv, EchoInv, NEW c \in Printed, Putc(c)
  PROVE  EchoInv'
  <1>1. torn' = (torn \/ Typing)
    BY DEF Putc
  <1>2. scr \in Screens /\ scr.err = "none"
    BY StateFacts DEF Ok
  <1>3. CASE c = Newline \/ Wraps(scr)
    <2> DEFINE t == NextLine(scr)
    <2>1. PICK p : Step(p, t)
      BY <1>3 DEF Putc
    <2>2. t \in Screens /\ t.x = 0 /\ t.err = "none"
      BY <1>2, NextLineFacts
    <2> HIDE DEF t
    <2>3. Grid(t)
      BY <2>2, NextCell, Margin DEF Grid
    <2> QED
      BY <1>1, <2>1, <2>2, <2>3, ProcessEcho
  <1>4. CASE ~(c = Newline \/ Wraps(scr))
    <2>1. PICK p : Step(p, scr)
      BY <1>4 DEF Putc
    <2> QED
      BY <1>1, <1>2, <2>1, ProcessEcho
  <1> QED
    BY <1>3, <1>4

\* The steps of scroll_down.
LEMMA ScrollEcho ==
  ASSUME Inv, EchoInv, Save \/ GrowViewport \/ MoveWindow \/ ShiftViewport \/ Restore
  PROVE  EchoInv'
  <1>0. /\ scr \in Screens /\ scr.err = "none" /\ proc.x \in Nat /\ proc.y \in Nat
        /\ Running
    BY StateFacts, Numbers
       DEF Ok, Save, GrowViewport, MoveWindow, ShiftViewport, Restore, StepTo, Step
  <1>1. proc.at \in NewlinePlaces
    BY DEF Save, GrowViewport, MoveWindow, ShiftViewport, Restore, StepTo, NewlinePlaces
  <1>2. /\ scr.x = 0 /\ (proc.at = "restore" => proc.x = 0)
        /\ proc.at = "shift" /\ ~raced =>
             proc.y >= 1 /\ (~proc.stale => proc.end <= viewport_len(scr))
    BY <1>0, <1>1, StateFacts DEF Fits, ScrollOk, EndOk, SavedPlaces
  <1>3. CASE Save
    <2> DEFINE r == At(scr, 0, 0)
    <2>1. PICK p : StepTo("scroll", p, r)
      BY <1>3 DEF Save
    <2>2. r \in Screens /\ r.x = 0 /\ r.err = "none"
      BY <1>0 DEF At, Screens
    <2> HIDE DEF r
    <2> QED
      BY <2>1, <2>2, BeginEcho DEF Rest
  <1>4. CASE GrowViewport
    <2> DEFINE r == Grow(scr)
    <2>1. PICK p : StepTo("space", p, r)
      BY <1>4 DEF GrowViewport
    <2>2. r \in Screens /\ r = [scr EXCEPT !.extra = scr.extra + 1]
      BY <1>0, GrowFacts
    <2> HIDE DEF r
    <2>3. r \in Screens /\ r.x = 0 /\ r.err = "none"
      BY <1>0, <1>2, <2>2 DEF Screens
    <2> QED
      BY <2>1, <2>3, BeginEcho DEF Rest
  <1>5. CASE MoveWindow
    <2> DEFINE r == Advance(scr)
    <2>1. PICK p : StepTo("advance", p, r)
      BY <1>5 DEF MoveWindow
    <2>2. r \in Screens /\ r = [scr EXCEPT !.start = scr.start + 1]
      BY <1>0, GrowFacts
    <2> HIDE DEF r
    <2>3. r \in Screens /\ r.x = 0 /\ r.err = "none"
      BY <1>0, <1>2, <2>2 DEF Screens
    <2> QED
      BY <2>1, <2>3, BeginEcho DEF Rest
  <1>6. CASE ShiftViewport
    <2> DEFINE u == Used(scr)
               f == Fail(scr, "negative")
               v == OriginShifted(scr)
               r == IF ~Ok(u) THEN u ELSE IF proc.y = 0 THEN f ELSE v
    <2>1. PICK p : StepTo("shift", p, r)
      BY <1>6 DEF ShiftViewport
    <2>2. u \in Screens /\ (~Ok(u) => u.err \in {"stale", "index"})
      BY <1>0, StateFacts, Numbers, UsedFacts
    <2>3. f \in Screens /\ f.err = "negative" /\ v \in Screens /\ v.x = 0 /\ v.err = "none"
      BY <1>0, <1>2, FailFacts, ShiftFacts DEF Errors
    <2>4. proc.at = "shift"
      BY <2>1 DEF StepTo
    <2> HIDE DEF u, f, v
    <2>5. r \in Screens /\ (Ok(r) => r.x = 0) /\ (~raced => r.err # "negative")
      BY <1>0, <1>2, <2>2, <2>3, <2>4 DEF Ok
    <2> HIDE DEF r
    <2> QED
      BY <2>1, <2>5, BeginEcho DEF Rest
  <1>7. CASE Restore
    <2> DEFINE r == At(scr, proc.x, proc.y)
    <2>1. PICK p : StepTo("restore", p, r)
      BY <1>7 DEF Restore
    <2>2. proc.at = "restore"
      BY <2>1 DEF StepTo
    <2>3. r \in Screens /\ r.x = 0 /\ r.err = "none"
      BY <1>0, <1>2, <2>2 DEF At, Screens
    <2> HIDE DEF r
    <2> QED
      BY <2>1, <2>3, BeginEcho DEF Rest
  <1> QED
    BY <1>3, <1>4, <1>5, <1>6, <1>7

\* The cursor moves by a cell.
LEMMA MoveCursorEcho ==
  ASSUME Inv, EchoInv, MoveCursor
  PROVE  EchoInv'
  <1> DEFINE r == [scr EXCEPT !.x = scr.x + GlyphWidth]
  <1>1. /\ Step(Went("chars"), r) /\ proc.at = "move" /\ torn' = torn /\ Running
    BY DEF MoveCursor, StepTo, Step
  <1>2. scr.x \in Nat /\ scr.x + GlyphWidth \in Nat
    BY Numbers, Sizes
  <1>3. r \in Screens /\ r.x = scr.x + GlyphWidth /\ r.err = "none"
    BY <1>2, StateFacts DEF Screens, Ok
  <1> HIDE DEF r
  <1>4. r.x % GlyphWidth = scr.x % GlyphWidth
    BY <1>2, <1>3, NextCell
  <1>5. Grid(scr) => Grid(r)
    BY <1>4 DEF Grid
  <1>6. ASSUME ~raced, MaskKeepsCells
        PROVE  Grid(r) /\ (Typing => torn)
    BY <1>1, <1>5, <1>6 DEF EchoInv, Rest
  <1>7. /\ Commit(r) /\ stdin_buffer' = stdin_buffer /\ raced' = raced
        /\ Typing' <=> Typing
    BY <1>1 DEF Step, Typing
  <1> QED
    BY <1>1, <1>3, <1>6, <1>7, EchoSuffices

\* readln leaves no line to be typed.
LEMMA TakeLineEcho ==
  ASSUME Inv, EchoInv, TakeLine
  PROVE  EchoInv'
  <1>1. /\ ~Typing' /\ Running
        /\ UNCHANGED <<scr, mode, proc, panicked, handler, cause, raced, torn>>
    BY DEF TakeLine, Typing
  <1>2. Running' /\ (MaskKeepsCells' <=> MaskKeepsCells)
    BY <1>1 DEF Running, MaskKeepsCells
  <1> QED
    BY <1>1, <1>2 DEF EchoInv, Grid

\* A step of the process.
LEMMA PrinterEcho ==
  ASSUME Inv, EchoInv, Printer
  PROVE  EchoInv'
  <1>1. CASE WriteSlice
    <2>1. /\ Step([proc EXCEPT !.at = "chars", !.old_mode = mode], scr) /\ torn' = torn
      BY <1>1 DEF WriteSlice
    <2>2. [proc EXCEPT !.at = "chars", !.old_mode = mode].at \in Rest
      BY StateFacts DEF Processes, Rest
    <2>3. scr \in Screens /\ scr.err = "none"
      BY StateFacts DEF Ok
    <2> QED
      BY <2>1, <2>2, <2>3, ProcessEcho
  <1>2. CASE Compare \/ MeasureViewport \/ Draw \/ Copy \/ LocatePixel \/ SetPixel
    <2>1. CASE Compare
      <3>1. PICK p : StepTo("compare", p, scr)
        BY <2>1 DEF Compare
      <3> QED
        BY <3>1, StayEcho DEF Rest
    <2>2. CASE MeasureViewport
      <3>1. PICK p : StepTo("space", p, scr)
        BY <2>2 DEF MeasureViewport
      <3> QED
        BY <3>1, StayEcho DEF Rest
    <2>3. CASE Draw
      <3> DEFINE r == IF DrawOffset(scr) > scr.buffer THEN Fail(scr, "draw") ELSE scr
      <3>1. PICK p : StepTo("draw", p, r)
        BY <2>3 DEF Draw, LocateWindow
      <3>2. r \in {scr, Used(scr), Fail(scr, "draw")}
        OBVIOUS
      <3> HIDE DEF r
      <3> QED
        BY <3>1, <3>2, StayEcho DEF Rest
    <2>4. CASE Copy
      <3>1. PICK p : StepTo("copy", p, Used(scr))
        BY <2>4 DEF Copy
      <3> QED
        BY <3>1, StayEcho DEF Rest
    <2>5. CASE LocatePixel
      <3>1. PICK p : StepTo("glyph", p, scr)
        BY <2>5 DEF LocatePixel
      <3> QED
        BY <3>1, StayEcho DEF Rest
    <2>6. CASE SetPixel
      <3>1. PICK p : StepTo("pixel", p, Used(scr))
        BY <2>6 DEF SetPixel
      <3> QED
        BY <3>1, StayEcho DEF Rest
    <2> QED
      BY <1>2, <2>1, <2>2, <2>3, <2>4, <2>5, <2>6
  <1>3. CASE Flush
    <2> DEFINE p == Located("flush", WindowEnd(scr))
    <2>1. PICK r \in {scr, Used(scr), Fail(scr, "draw")} : StepTo("chars", p, r)
      BY <1>3 DEF Flush, LocateWindow
    <2>2. p.at \in Rest
      BY StateFacts DEF Located, Processes, Rest
    <2> QED
      BY <2>1, <2>2, StayEcho
  <1>4. CASE WriteEnd
    <2> DEFINE p == [Done("idle") EXCEPT !.old_mode = "Init"]
               r == Used(scr)
    <2>1. Step(p, r) /\ torn' = torn
      BY <1>4 DEF WriteEnd
    <2>2. p.at \in Rest
      BY StateFacts DEF Done, Processes, Rest
    <2>3. r \in Screens /\ (Ok(r) => r = scr) /\ r.err # "negative"
      BY StateFacts, Numbers, UsedFacts DEF Ok
    <2> HIDE DEF p, r
    <2> QED
      BY <2>1, <2>2, <2>3, ProcessEcho
  <1>5. CASE TakeLine
    BY <1>5, TakeLineEcho
  <1> QED
    BY <1>1, <1>2, <1>3, <1>4, <1>5, ScrollEcho, MoveCursorEcho, PutcEcho DEF Printer
-----------------------------------------------------------------------------
(* The echo of a key *)

\* A screen on which the cursor is at a cell.
Aligned(s) == Good(s, TRUE) /\ (Ok(s) => Grid(s))

\* It is some number of cells from where a line began.
LEMMA AlignedOn ==
  ASSUME NEW s, Aligned(s), s.err # "negative"
  PROVE  \E n \in Int : On(s, n)
  <1> DEFINE n == Position(s) - s.origin
  <1>1. s \in Screens
    BY DEF Aligned, Good
  <1>2. Position(s) \in Nat /\ s.origin \in Int
    BY <1>1, PositionNat DEF Gone
  <1>3. n \in Int /\ Position(s) = s.origin + n
    BY <1>2
  <1> HIDE DEF n
  <1>4. On(s, n)
    BY <1>3 DEF On, Aligned
  <1> QED
    BY <1>3, <1>4

\* newline goes from cell to cell, and does not fail for want of a line, ...
LEMMA NewlineAligned ==
  ASSUME NEW s, Aligned(s)
  PROVE  Aligned(newline(s)) /\ (s.err # "negative" => newline(s).err # "negative")
  <1> DEFINE m == (s.y + 1) * Columns - s.origin
  <1>1. s \in Screens /\ Good(s, TRUE)
    BY DEF Aligned, Good
  <1>2. CASE s.err = "negative"
    <2>1. newline(s) = s
      BY <1>2 DEF newline, Ok
    <2> QED
      BY <1>2, <2>1
  <1>3. CASE s.err # "negative"
    <2>1. m \in Int /\ (s.y + 1) * Columns = s.origin + m
      <3>1. s.y \in Nat /\ s.origin \in Int
        BY <1>1, Fields DEF Gone
      <3>2. (s.y + 1) * Columns \in Int
        BY <3>1, ColumnsNat, SMT
      <3> QED
        BY <3>1, <3>2
    <2> HIDE DEF m
    <2>2. On(newline(s), m)
      BY <1>1, <1>3, <2>1, NewlineOn
    <2> QED
      BY <2>2 DEF On, Aligned
  <1> QED
    BY <1>2, <1>3

\* ... draw_char, ...
LEMMA DrawCharAligned ==
  ASSUME NEW s, Aligned(s)
  PROVE  Aligned(draw_char(s))
  <1>1. CASE s.err = "negative"
    <2>1. ~Ok(s) /\ newline(s) = s
      BY <1>1 DEF newline, Ok
    <2>2. draw_char(s) = s
      BY <2>1 DEF draw_char, set_pixels
    <2> QED
      BY <2>2
  <1>2. CASE s.err # "negative"
    <2>1. PICK n \in Int : On(s, n)
      BY <1>2, AlignedOn
    <2>2. On(draw_char(s), n + 1)
      BY <2>1, DrawCharOn
    <2> QED
      BY <2>2 DEF On, Aligned
  <1> QED
    BY <1>1, <1>2

\* ... draw_viewport, which leaves the cursor alone, ...
LEMMA DrawAligned ==
  ASSUME NEW s, Aligned(s)
  PROVE  Aligned(draw_viewport(s))
  <1>1. CASE s.err = "negative"
    <2>1. draw_viewport(s) = s
      BY <1>1 DEF draw_viewport, Ok
    <2> QED
      BY <2>1
  <1>2. CASE s.err # "negative"
    <2>1. PICK n \in Int : On(s, n)
      BY <1>2, AlignedOn
    <2>2. On(draw_viewport(s), n)
      BY <2>1, DrawOn
    <2> QED
      BY <2>2 DEF On, Aligned
  <1> QED
    BY <1>1, <1>2

\* ... and remove_char.
LEMMA RemoveCharAligned ==
  ASSUME MaskKeepsCells, NEW s, Aligned(s)
  PROVE  Aligned(remove_char(s))
  <1> DEFINE r == remove_char(s)
             c == CellBefore(s)
  <1>1. s \in Screens /\ Good(s, TRUE) /\ Good(r, TRUE)
    BY RemoveCharGood DEF Aligned, Good
  <1>2. CASE ~Ok(s)
    BY <1>2 DEF remove_char
  <1>3. CASE Ok(s) /\ s.x < GlyphWidth /\ (s.y = 0 \/ LastCell < 0)
    <2>1. r = Fail(s, "negative")
      BY <1>3 DEF remove_char
    <2>2. ~Ok(r)
      BY <1>1, <2>1, FailFacts DEF Errors, Ok
    <2> QED
      BY <1>1, <2>2 DEF Aligned, r
  <1>4. CASE Ok(s) /\ ~(s.x < GlyphWidth /\ (s.y = 0 \/ LastCell < 0))
    <2>1. /\ c \in Screens
          /\ IF s.x >= GlyphWidth THEN c.x = s.x - GlyphWidth /\ c.y = s.y
             ELSE c.x = LastCell /\ c.y = s.y - 1
      BY <1>1, <1>4, CellBeforeFacts
    <2>2. r = IF ~Inside(c) THEN Fail(c, "index") ELSE c
      BY <1>4 DEF remove_char
    <2>3. s.x \in Nat /\ Grid(s)
      BY <1>1, <1>4, Fields DEF Aligned
    <2> HIDE DEF c, r
    <2>4. Grid(c)
      <3>1. CASE s.x >= GlyphWidth
        BY <2>1, <2>3, <3>1, NextCell DEF Grid
      <3>2. CASE ~(s.x >= GlyphWidth)
        BY <2>1, <3>2, LastCellIs DEF Grid
      <3> QED
        BY <3>1, <3>2
    <2>5. Ok(r) => r = c
      BY <2>1, <2>2, FailFacts DEF Errors, Ok
    <2> QED
      BY <1>1, <2>4, <2>5 DEF Aligned, r
  <1> QED
    BY <1>2, <1>3, <1>4

\* The echo goes from cell to cell.
LEMMA EchoAligned ==
  ASSUME MaskKeepsCells, Aligned(scr), NEW c \in Printed \cup {Backspace}, NEW buffer
  PROVE  Aligned(Echo(c, buffer))
  <1> DEFINE from == IF Typing THEN scr ELSE [scr EXCEPT !.origin = Position(scr)]
             s == WithoutCursor(from)
             t == CASE c = Newline -> newline(s)
                    [] c = Glyph -> draw_char(s)
                    [] c = Backspace -> IF Typing THEN remove_char(s) ELSE s
             u == IF c # Newline /\ buffer # <<>> THEN draw_char(t) ELSE t
  <1>1. Aligned(from)
    <2>1. Good(from, TRUE)
      BY OriginGood DEF Aligned
    <2>2. from.x = scr.x /\ from.err = scr.err
      BY DEF Aligned, Good, Screens
    <2> HIDE DEF from
    <2> QED
      BY <2>1, <2>2 DEF Aligned, Grid, Ok
  <1> HIDE DEF from
  <1>2. Aligned(s)
    BY <1>1, RemoveCharAligned DEF WithoutCursor
  <1> HIDE DEF s
  <1>3. Aligned(t)
    <2>1. CASE c = Newline
      BY <1>2, <2>1, NewlineAligned DEF Newline, Glyph, Backspace
    <2>2. CASE c = Glyph
      BY <1>2, <2>2, DrawCharAligned DEF Newline, Glyph, Backspace
    <2>3. CASE c = Backspace
      BY <1>2, <2>3, RemoveCharAligned DEF Newline, Glyph, Backspace
    <2> QED
      BY <2>1, <2>2, <2>3 DEF Printed
  <1> HIDE DEF t
  <1>4. Aligned(u)
    BY <1>3, DrawCharAligned
  <1>5. Echo(c, buffer) = draw_viewport(u)
    BY DEF Echo, u, t, s, from
  <1> HIDE DEF u
  <1> QED
    BY <1>4, <1>5, DrawAligned

\* The buffer after a key.
NewBuffer(c) == IF c # Backspace THEN Append(stdin_buffer, c)
                ELSE IF Typing THEN SubSeq(stdin_buffer, 1, Len(stdin_buffer) - 1)
                ELSE <<>>

\* Its length and its last character.
LEMMA NewBufferFacts ==
  ASSUME Inv, NEW c \in Printed \cup {Backspace}
  PROVE  /\ Len(stdin_buffer) \in Nat /\ (Typing <=> Len(stdin_buffer) # 0)
         /\ c # Backspace => /\ Len(NewBuffer(c)) = Len(stdin_buffer) + 1
                             /\ NewBuffer(c) # <<>>
                             /\ NewBuffer(c)[Len(NewBuffer(c))] = c
         /\ c = Backspace /\ Typing => Len(NewBuffer(c)) = Len(stdin_buffer) - 1
         /\ c = Backspace /\ ~Typing => NewBuffer(c) = <<>>
  <1>1. stdin_buffer \in Seq(Printed)
    BY StateFacts
  <1>2. c # Backspace => c \in Printed
    OBVIOUS
  <1>3. Len(stdin_buffer) \in Nat /\ (Typing <=> Len(stdin_buffer) # 0)
    BY <1>1 DEF Typing
  <1>4. ASSUME c # Backspace
        PROVE  /\ Len(NewBuffer(c)) = Len(stdin_buffer) + 1
               /\ NewBuffer(c) # <<>>
               /\ NewBuffer(c)[Len(NewBuffer(c))] = c
    <2>1. NewBuffer(c) = Append(stdin_buffer, c)
      BY <1>4 DEF NewBuffer
    <2>2. Len(Append(stdin_buffer, c)) = Len(stdin_buffer) + 1
      BY <1>1, <1>2, <1>4
    <2>3. Append(stdin_buffer, c)[Len(stdin_buffer) + 1] = c
      BY <1>1, <1>2, <1>4
    <2>4. Append(stdin_buffer, c) # <<>>
      BY <1>3, <2>2
    <2> QED
      BY <2>1, <2>2, <2>3, <2>4
  <1>5. ASSUME c = Backspace, Typing
        PROVE  Len(NewBuffer(c)) = Len(stdin_buffer) - 1
    <2> DEFINE m == Len(stdin_buffer) - 1
    <2>1. m \in Nat /\ m <= Len(stdin_buffer)
      BY <1>3, <1>5
    <2>2. NewBuffer(c) = SubSeq(stdin_buffer, 1, m)
      BY <1>5 DEF NewBuffer
    <2> HIDE DEF m
    <2>3. Len(SubSeq(stdin_buffer, 1, m)) = m
      BY <1>1, <2>1, SMT
    <2> QED
      BY <2>2, <2>3 DEF m
  <1> QED
    BY <1>3, <1>4, <1>5 DEF NewBuffer

\* The echo to a line in one piece: the cursor is behind the new buffer, and a
\* backspace does not go above the viewport.
LEMMA EchoOn ==
  ASSUME Inv, MaskKeepsCells, Aligned(scr), NEW c \in Printed \cup {Backspace},
         Typing => scr.origin # Gone /\ Position(scr) = scr.origin + (Len(stdin_buffer) + 1)
  PROVE  LET b == NewBuffer(c)
             r == Echo(c, b)
         IN /\ r.err # "negative"
            /\ Ok(r) /\ r.origin # Gone /\ b # <<>> /\ b[Len(b)] # Newline =>
                 Position(r) = r.origin + (Len(b) + 1)
  <1> DEFINE b == NewBuffer(c)
             l == Len(stdin_buffer)
             n == IF Typing THEN l + 1 ELSE 0
             from == IF Typing THEN scr ELSE [scr EXCEPT !.origin = Position(scr)]
             s == WithoutCursor(from)
             t == CASE c = Newline -> newline(s)
                    [] c = Glyph -> draw_char(s)
                    [] c = Backspace -> IF Typing THEN remove_char(s) ELSE s
             u == IF c # Newline /\ b # <<>> THEN draw_char(t) ELSE t
             r == Echo(c, b)
  <1>0. /\ scr \in Screens /\ scr.err = "none" /\ l \in Nat /\ (Typing <=> l # 0)
        /\ n \in Int
    BY StateFacts, NewBufferFacts DEF Ok
  <1>1. On(from, n) /\ from.origin # Gone
    <2>1. Position(scr) \in Nat
      BY <1>0, PositionNat
    <2>2. Good(from, TRUE)
      BY OriginGood DEF Aligned
    <2>3. CASE Typing
      BY <1>0, <2>2, <2>3 DEF On, Aligned
    <2>4. CASE ~Typing
      <3>1. from = [scr EXCEPT !.origin = Position(scr)] /\ n = 0
        BY <2>4
      <3>2. from.x = scr.x /\ from.y = scr.y /\ from.origin = Position(scr) /\ from.err = scr.err
        BY <1>0, <3>1 DEF Screens
      <3> HIDE DEF from, n
      <3>3. Position(from) = Position(scr) /\ Grid(from)
        BY <1>0, <3>2 DEF Position, Grid, Aligned, Ok
      <3>4. from.origin # Gone /\ Position(from) = from.origin + n
        BY <2>1, <3>1, <3>2, <3>3 DEF Gone
      <3> QED
        BY <1>0, <2>2, <3>2, <3>3, <3>4 DEF On
    <2> QED
      BY <2>3, <2>4
  <1> HIDE DEF from
  <1>2. On(s, l) /\ (Ok(s) => s.origin # Gone)
    <2>1. CASE Typing
      <3>1. s = remove_char(from) /\ n = l + 1 /\ n >= 1 /\ n - 1 = l
        BY <1>0, <2>1 DEF WithoutCursor
      <3> HIDE DEF s, n, l
      <3>2. On(remove_char(from), n - 1) /\ (Ok(remove_char(from)) => remove_char(from).origin # Gone)
        BY <1>0, <1>1, <3>1, RemoveCharOn
      <3> QED
        BY <3>1, <3>2
    <2>2. CASE ~Typing
      <3>1. s = from /\ n = 0 /\ l = 0
        BY <1>0, <2>2 DEF WithoutCursor
      <3> QED
        BY <1>1, <3>1
    <2> QED
      BY <2>1, <2>2
  <1> HIDE DEF s, n
  <1>3. CASE c = Newline
    <2>1. t = newline(s) /\ u = t /\ b[Len(b)] = Newline
      BY <1>3, NewBufferFacts DEF Newline, Glyph, Backspace
    <2>2. Aligned(s) /\ s.err # "negative"
      BY <1>2 DEF On, Aligned
    <2>3. Aligned(newline(s)) /\ newline(s).err # "negative"
      BY <2>2, NewlineAligned
    <2>4. PICK m \in Int : On(newline(s), m)
      BY <2>3, AlignedOn
    <2>5. On(draw_viewport(newline(s)), m)
      BY <2>4, DrawOn
    <2>6. r = draw_viewport(newline(s))
      BY <2>1 DEF Echo, t, s, from
    <2> HIDE DEF r, b
    <2> QED
      BY <2>1, <2>5, <2>6 DEF On, r, b
  <1>4. CASE c = Glyph
    <2>1. t = draw_char(s) /\ b # <<>> /\ Len(b) = l + 1 /\ u = draw_char(t)
      BY <1>4, NewBufferFacts DEF Newline, Glyph, Backspace
    <2>2. r = draw_viewport(u)
      BY DEF Echo, u, t, s, from
    <2> HIDE DEF t, u, r, b, l
    <2>3. On(t, l + 1) /\ l + 1 \in Int
      BY <1>0, <1>2, <2>1, DrawCharOn
    <2>4. On(u, (l + 1) + 1) /\ (l + 1) + 1 \in Int
      BY <2>1, <2>3, DrawCharOn
    <2>5. On(r, (l + 1) + 1)
      BY <2>2, <2>4, DrawOn
    <2> QED
      BY <2>1, <2>5 DEF On, r, b
  <1>5. CASE c = Backspace /\ Typing
    <2>1. t = remove_char(s) /\ Len(b) = l - 1 /\ u = IF b # <<>> THEN draw_char(t) ELSE t
      BY <1>5, NewBufferFacts DEF Newline, Glyph, Backspace
    <2>2. r = draw_viewport(u)
      BY DEF Echo, u, t, s, from
    <2>3. l >= 1
      BY <1>0, <1>5
    <2> HIDE DEF t, u, r, b, l
    <2>4. On(t, l - 1) /\ l - 1 \in Int
      BY <1>0, <1>2, <2>1, <2>3, RemoveCharOn
    <2>5. CASE b # <<>>
      <3>1. On(u, (l - 1) + 1) /\ (l - 1) + 1 \in Int
        BY <2>1, <2>4, <2>5, DrawCharOn
      <3>2. On(r, (l - 1) + 1)
        BY <2>2, <3>1, DrawOn
      <3> QED
        BY <2>1, <3>2 DEF On, r, b
    <2>6. CASE b = <<>>
      <3>1. On(r, l - 1)
        BY <2>1, <2>2, <2>4, <2>6, DrawOn
      <3> QED
        BY <2>6, <3>1 DEF On, r, b
    <2> QED
      BY <2>5, <2>6
  <1>6. CASE c = Backspace /\ ~Typing
    <2>1. t = s /\ b = <<>> /\ u = t
      BY <1>6, NewBufferFacts DEF Newline, Glyph, Backspace
    <2>2. r = draw_viewport(u)
      BY DEF Echo, u, t, s, from
    <2> HIDE DEF t, u, r, b, l
    <2>3. On(r, l)
      BY <1>0, <1>2, <2>1, <2>2, DrawOn
    <2> QED
      BY <2>1, <2>3 DEF On, r, b
  <1> QED
    BY <1>3, <1>4, <1>5, <1>6 DEF Printed

\* A typed character.
LEMMA KeyCharEcho ==
  ASSUME Inv, EchoInv, NEW c \in Printed \cup {Backspace}, KeyChar(c)
  PROVE  EchoInv'
  <1> DEFINE b == NewBuffer(c)
             r == Echo(c, b)
  <1>1. /\ Running /\ Commit(r) /\ proc' = proc /\ raced' = raced /\ mode = "Stdin"
        /\ stdin_buffer' = b
        /\ torn' = ((Typing /\ torn) \/ EndsWithNewline \/ scr'.origin = Gone)
    BY DEF KeyChar, KeyPressed, NewBuffer
  <1>2. proc.at = "idle" /\ Good(scr, ~raced)
    <2>1. proc.at = "idle" /\ ~InNewline
      BY <1>1, StateFacts DEF InNewline, NewlinePlaces
    <2> QED
      BY <1>1, <2>1, StateFacts DEF Good, Fits, InNewline
  <1>3. Good(r, FALSE)
    BY <1>2, EchoGood DEF Good
  <1>4. r \in Screens
    BY <1>3 DEF Good
  <1>5. Ok(r) => scr' = r
    BY <1>1, <1>4, StateFacts, CommitStep
  <1>6. ASSUME ~raced, MaskKeepsCells
        PROVE  /\ Aligned(r)
               /\ r.err = "negative" => torn'
               /\ Ok(r) /\ ~torn' /\ b # <<>> /\ b[Len(b)] # Newline =>
                    r.origin # Gone /\ Position(r) = r.origin + (Len(b) + 1)
    <2>1. /\ Grid(scr)
          /\ Typing /\ ~torn /\ ~EndsWithNewline =>
               scr.origin # Gone /\ Position(scr) = scr.origin + (Len(stdin_buffer) + 1)
      BY <1>1, <1>6 DEF EchoInv
    <2>2. Aligned(scr)
      BY <1>2, <1>6, <2>1 DEF Aligned, Good
    <2>3. Aligned(r)
      BY <1>6, <2>2, EchoAligned
    <2>4. CASE Typing /\ (torn \/ EndsWithNewline)
      BY <1>1, <2>3, <2>4
    <2>5. CASE ~(Typing /\ (torn \/ EndsWithNewline))
      <3>1. Typing => scr.origin # Gone /\ Position(scr) = scr.origin + (Len(stdin_buffer) + 1)
        BY <2>1, <2>5
      <3>2. /\ r.err # "negative"
            /\ Ok(r) /\ r.origin # Gone /\ b # <<>> /\ b[Len(b)] # Newline =>
                 Position(r) = r.origin + (Len(b) + 1)
        BY <1>6, <2>2, <3>1, EchoOn
      <3>3. Ok(r) /\ r.origin = Gone => torn'
        BY <1>1, <1>5
      <3> QED
        BY <2>3, <3>2, <3>3
    <2> QED
      BY <2>4, <2>5
  <1> HIDE DEF r, b
  <1>7. /\ Typing' <=> b # <<>>
        /\ EndsWithNewline' <=> b # <<>> /\ b[Len(b)] = Newline
    BY <1>1 DEF Typing, EndsWithNewline
  <1>8. proc'.at \in Rest
    BY <1>1, <1>2 DEF Rest
  <1>9. ASSUME ~raced', MaskKeepsCells, Ok(r)
        PROVE  /\ Grid(r)
               /\ Typing' /\ proc'.at \notin Rest => torn'
               /\ Typing' /\ ~torn' /\ ~EndsWithNewline' =>
                    r.origin # Gone /\ Position(r) = r.origin + (Len(stdin_buffer') + 1)
    BY <1>1, <1>6, <1>7, <1>8, <1>9 DEF Aligned
  <1>10. ~raced' /\ MaskKeepsCells /\ r.err = "negative" => torn'
    BY <1>1, <1>6
  <1> QED
    BY <1>1, <1>4, <1>9, <1>10, EchoSuffices

\* clear begins a new line, ...
LEMMA KeyClearEcho ==
  ASSUME Inv, EchoInv, KeyClear
  PROVE  EchoInv'
  <1> DEFINE r == clear(scr)
  <1>1. /\ Running /\ Commit(r) /\ raced' = (raced \/ InNewline) /\ ~Typing'
    BY DEF KeyClear, KeyPressed, Typing
  <1>2. Good(scr, FALSE) /\ Good(scr, ~raced /\ ~InNewline)
    BY <1>1, KeyGood, StateFacts DEF Good
  <1>3. r \in Screens
    BY <1>2, ClearGood DEF Good
  <1>4. ASSUME ~raced', MaskKeepsCells
        PROVE  r.err # "negative" /\ (Ok(r) => Grid(r))
    <2>1. Grid(scr) /\ scr.err = "none"
      BY <1>1, <1>4, StateFacts DEF EchoInv, Ok
    <2>2. Good(scr, TRUE)
      BY <1>1, <1>2, <1>4 DEF Good
    <2>3. PICK n \in Int : On(scr, n)
      BY <2>1, <2>2, AlignedOn DEF Aligned
    <2> QED
      BY <2>3, ClearOn
  <1> HIDE DEF r
  <1> QED
    BY <1>1, <1>3, <1>4, EchoSuffices

\* ... and the keys that scroll leave the cursor alone.
LEMMA ScrollKeyEcho ==
  ASSUME Inv, EchoInv, NEW r \in {scroll_down(scr), scroll_up(scr)}, KeyPressed(r),
         UNCHANGED <<proc, stdin_buffer, torn>>, raced => raced'
  PROVE  EchoInv'
  <1>1. Running /\ Commit(r)
    BY DEF KeyPressed
  <1>2. Fits(proc, scr, ~raced) /\ scr \in Screens /\ Ok(scr)
    BY <1>1, StateFacts
  <1>3. /\ r \in Screens /\ r.x = scr.x /\ r.y = scr.y /\ r.origin = scr.origin
        /\ WindowOk(scr) => Ok(r)
    BY <1>2, ScrollDownFacts, ScrollUpFacts
  <1>4. ~raced => Ok(r)
    BY <1>2, <1>3 DEF Fits
  <1>5. (Typing' <=> Typing) /\ (EndsWithNewline' <=> EndsWithNewline)
    BY DEF Typing, EndsWithNewline
  <1>6. ASSUME ~raced', MaskKeepsCells
        PROVE  /\ ~raced
               /\ Grid(r)
               /\ Typing /\ proc.at \notin Rest => torn
               /\ Typing /\ ~torn /\ ~EndsWithNewline =>
                    r.origin # Gone /\ Position(r) = r.origin + (Len(stdin_buffer) + 1)
    BY <1>1, <1>3, <1>6 DEF EchoInv, Grid, Position
  <1> QED
    BY <1>1, <1>3, <1>4, <1>5, <1>6, EchoSuffices DEF Ok

\* The panic handler changes nothing of this.
LEMMA HaltedEcho ==
  ASSUME EchoInv, ~Running, ~Running', UNCHANGED <<cause, raced, torn>>
  PROVE  EchoInv'
  BY DEF EchoInv, MaskKeepsCells

\* Every step keeps the invariant of the echo.
LEMMA StepEcho ==
  ASSUME Inv, EchoInv, [Next]_vars
  PROVE  EchoInv'
  <1>1. CASE Printer
    BY <1>1, PrinterEcho
  <1>2. CASE Key
    <2>1. CASE PageDown \/ PageUp
      <3>1. PICK r \in {scroll_down(scr), scroll_up(scr)} : KeyPressed(r)
        BY <2>1 DEF PageDown, PageUp
      <3>2. UNCHANGED <<proc, stdin_buffer, torn>>
        BY <2>1 DEF PageDown, PageUp
      <3>3. raced => raced'
        BY <2>1, StateFacts DEF PageDown, PageUp
      <3> QED
        BY <3>1, <3>2, <3>3, ScrollKeyEcho
    <2>2. CASE KeyClear
      BY <2>2, KeyClearEcho
    <2>3. ASSUME NEW c \in Printed \cup {Backspace}, KeyChar(c) PROVE EchoInv'
      BY <2>3, KeyCharEcho
    <2> QED
      BY <1>2, <2>1, <2>2, <2>3 DEF Key
  <1>3. CASE Handler
    <2>1. ~Running /\ UNCHANGED <<cause, raced, torn>>
      BY <1>3, CommitStep
         DEF Handler, CrossPrintln, PanicPrintEnd, PanicBlocked, PanicHalt, PanicPrint,
             PanicAgain, HandlerStep, Commit
    <2>2. ASSUME NEW from, NEW to, NEW lines, HandlerStep(from, to, lines) PROVE ~Running'
      BY <2>2, HandlerFacts DEF HandlerStep, Handlers, Running
    <2>3. ASSUME NEW c \in Printed, PanicAgain(c) PROVE ~Running'
      BY <2>3, HandlerFacts DEF PanicAgain, Commit, Running
    <2>4. ~Running'
      BY <1>3, <2>2, <2>3
         DEF Handler, CrossPrintln, PanicPrintEnd, PanicBlocked, PanicHalt, PanicPrint
    <2> QED
      BY <2>1, <2>4, HaltedEcho
  <1>4. CASE UNCHANGED vars
    BY <1>4 DEF vars, EchoInv, Running, Grid, Typing, EndsWithNewline, Position,
                MaskKeepsCells
  <1> QED
    BY <1>1, <1>2, <1>3, <1>4 DEF Next

\* At first nothing is typed and the cursor is in the first cell.
LEMMA InitEcho ==
  ASSUME Init
  PROVE  EchoInv
  <1>1. scr.x = 0 /\ ~Typing /\ Running
    <2>1. scr.x = 0
      BY DEF Init
    <2>2. ~Typing
      BY DEF Init, Typing
    <2>3. Running
      BY DEF Init, Running
    <2> QED
      BY <2>1, <2>2, <2>3
  <1>2. Grid(scr)
    BY <1>1, NextCell, Margin DEF Grid
  <1> QED
    BY <1>1, <1>2 DEF EchoInv

\* Both invariants hold throughout.
THEOREM EchoInvariance == Spec => [](Inv /\ EchoInv)
  <1>1. Init => Inv /\ EchoInv
    BY InitInv, InitEcho
  <1>2. Inv /\ EchoInv /\ [Next]_vars => (Inv /\ EchoInv)'
    BY StepInv, StepEcho
  <1> QED
    BY <1>1, <1>2, PTL DEF Spec

\* The cursor stands behind what stdin_putc echoed, for every stride, size of
\* the frame buffer and width of a glyph that lets align_down keep the last
\* cell, and for every line that nothing else prints into.
THEOREM EchoSafe == Spec => []EchoMatchesInput
  <1>1. Inv /\ EchoInv => EchoMatchesInput
    <2>1. SUFFICES ASSUME Inv, EchoInv, MaskKeepsCells, Running, ~raced, ~torn, Typing,
                          ~EndsWithNewline
                   PROVE  Position(scr) = scr.origin + Len(stdin_buffer) + 1
      BY DEF EchoMatchesInput
    <2>2. scr.origin # Gone /\ Position(scr) = scr.origin + (Len(stdin_buffer) + 1)
      BY <2>1 DEF EchoInv
    <2>3. scr.origin \in Nat /\ Len(stdin_buffer) \in Nat
      BY <2>1, <2>2, StateFacts DEF Screens
    <2> QED
      BY <2>2, <2>3
  <1> QED
    BY <1>1, EchoInvariance, PTL

\* The terminal panics for the four reasons of PanicsExplained only, for every
\* frame buffer, whole lines or not, and every interleaving of keys with the
\* steps of a print.
THEOREM PanicsSafe == Spec => []PanicsExplained
  <1>1. Inv /\ EchoInv => PanicsExplained
    BY DEF Inv, EchoInv, PanicsExplained, Known
  <1> QED
    BY <1>1, EchoInvariance, PTL
=============================================================================
