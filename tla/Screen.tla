------------------------------- MODULE Screen -------------------------------
(***************************************************************************)
(* The screen of the terminal, kernel/src/terminal/framebuffer.rs: cursor, *)
(* viewport and scrolling, the echo of typed characters, and the panic     *)
(* handler of kernel/src/main.rs, which prints to the same screen.         *)
(*                                                                         *)
(* Pixels are not modelled, only where they are drawn: lengths of buffer   *)
(* and viewport and offsets into them are counted in pixels.  y_pos is     *)
(* always a number of lines of text, viewport_start and what the viewport  *)
(* has grown by are numbers of scroll_amount: these are counted in lines.  *)
(* A process prints in steps: where it computes an offset and where it     *)
(* uses it are two of them.  A keyboard interrupt comes as a whole between *)
(* two steps.                                                              *)
(***************************************************************************)
EXTENDS Integers, Sequences, FiniteSetsExt

CONSTANTS Stride,        \* pixels from a row to the next
          Buffers,       \* what buffer.len may be, in pixels
          RASTER_HEIGHT, \* rows of a glyph
          GlyphWidth,    \* pixels of a row of a glyph
          MaxInput,      \* bound: characters in stdin_buffer
          MaxLines       \* bound: lines the panic handler prints

\* align_down of memory/mod.rs: x & !(alignment - 1), on 16 bits.
Bits(x) == {i \in 0 .. 15 : (x \div 2 ^ i) % 2 = 1}
align_down(x, alignment) ==
  MapThenSumSet(LAMBDA i : 2 ^ i, Bits(x) \ Bits(alignment - 1))

\* scroll_amount: the pixels of a line of text.
Line == Stride * RASTER_HEIGHT

\* Any frame buffer with room for a line of text and, in it, for a glyph; the
\* last line may be cut.  A mask makes no number larger.
ASSUME ScreenAssumption ==
  /\ {Stride, RASTER_HEIGHT, GlyphWidth} \subseteq Nat \ {0}
  /\ GlyphWidth <= Stride
  /\ \A b \in Buffers : b \in Nat /\ b >= Line
  /\ align_down(Stride, GlyphWidth) \in 0 .. Stride
  /\ MaxInput \in Nat /\ MaxLines \in Nat

Newline == "newline"
Backspace == "backspace"
Glyph == "glyph"
Printed == {Newline, Glyph}
TerminalMode == {"Init", "Stdout", "Stdin"}

VARIABLES scr,          \* cursor and viewport, see Screens
          mode,         \* Terminal.mode
          proc,         \* the printing process, see Processes
          stdin_buffer, \* Terminal.stdin_buffer
          panicked,     \* Terminal.panicked
          handler,      \* the panic handler: nesting, place, lines printed
          cause,        \* the screen the first panic came from
          raced,        \* a key came where newline does not expect it
          torn          \* the line being typed is not in one piece: a process
                        \* printed into it, keys came before readln had taken
                        \* it, or its beginning was removed from the viewport

vars == <<scr, mode, proc, stdin_buffer, panicked, handler, cause, raced, torn>>

\* buffer.len, x_pos, y_pos and viewport_start, and by how many lines the
\* viewport is longer than the buffer; origin is the cell where the line being
\* typed begins, err the panic the latest operation ended with.
Gone == -1
Errors == {"none", "draw", "index", "stale", "negative"}
Screens == [buffer : Buffers, x : Nat, y : Nat, start : Nat, extra : Nat,
            origin : Nat \cup {Gone}, err : Errors]
viewport_len(s) == s.buffer + s.extra * Line
Fail(s, err) == [s EXCEPT !.err = err]
Ok(s) == s.err = "none"

Columns == Stride \div GlyphWidth
Position(s) == s.y * Columns + s.x \div GlyphWidth

\* The places of a printing process in newline and its scroll_down(true), in
\* the pixels of a glyph, and elsewhere in write_slice.
NewlinePlaces == {"compare", "scroll", "space", "advance", "shift", "draw", "copy", "restore"}
Places == {"idle", "chars", "glyph", "pixel", "move", "flush"} \cup NewlinePlaces
\* old_mode of its write_slice, old_x and old_y of its scroll_down and where it
\* goes on then; the pixel of the glyph; the end of the range of the viewport
\* it is about to use, and whether a clear came since it was computed.
Processes ==
  [at : Places, old_mode : TerminalMode, x : Nat, y : Nat, then : {"chars", "glyph"},
   row : Nat, col : Nat, end : Nat, stale : BOOLEAN]

Init ==
  /\ \E b \in Buffers :
       scr = [buffer |-> b, x |-> 0, y |-> 0, start |-> 0, extra |-> 0,
              origin |-> 0, err |-> "none"]
  /\ mode = "Init"
  /\ proc = [at |-> "idle", old_mode |-> "Init", x |-> 0, y |-> 0, then |-> "chars",
             row |-> 0, col |-> 0, end |-> 0, stale |-> FALSE]
  /\ stdin_buffer = <<>>
  /\ panicked = FALSE
  /\ handler = [depth |-> 0, at |-> "line", lines |-> 0]
  /\ cause = scr
  /\ raced = FALSE /\ torn = FALSE
-----------------------------------------------------------------------------
(* Operations on a screen s.  One that has failed stays failed.              *)

\* draw_viewport copies buffer[offset ..] from the window, which ends at
\* WindowEnd; the offset is a product of pixels.
DrawOffset(s) == s.x * (s.y * RASTER_HEIGHT)
WindowEnd(s) == s.start * Line + s.buffer
draw_viewport(s) ==
  IF ~Ok(s) THEN s
  ELSE IF DrawOffset(s) > s.buffer THEN Fail(s, "draw")
  ELSE IF WindowEnd(s) > viewport_len(s) THEN Fail(s, "index")
  ELSE s

\* get_byte_offset and the pixel there: a pixel of the glyph at the cursor.
PixelEnd(s, row, col) == (s.y * RASTER_HEIGHT + row) * Stride + s.x + col + 1
\* The last one, behind all others, is in the viewport.
Inside(s) == PixelEnd(s, RASTER_HEIGHT - 1, GlyphWidth - 1) <= viewport_len(s)

\* Parts of scroll_down(true): the viewport grows, up to four screens,
CanGrow(s) == viewport_len(s) + Line <= 4 * s.buffer
Grow(s) == [s EXCEPT !.extra = @ + 1]
Advance(s) == [s EXCEPT !.start = @ + 1]
\* or its first line is removed: what was at a line is then one line higher.
\* (the mutant: the cursor is not)
ShiftKeepsCursor(y) == y
Shifted(y) == y - 1
OriginShifted(s) == [s EXCEPT !.origin = IF @ >= Columns THEN @ - Columns ELSE Gone]

At(s, x, y) == [s EXCEPT !.x = x, !.y = y]

\* scroll_down(true) as a whole.
make_space(s) ==
  LET top == At(s, 0, 0)
      grown == draw_viewport(Advance(Grow(top)))
      shifted == draw_viewport(OriginShifted(top))
  IN IF CanGrow(s) THEN At(grown, s.x, s.y)
     ELSE IF s.y = 0 THEN Fail(s, "negative")
     ELSE At(shifted, s.x, Shifted(s.y))

\* scroll_down(false).
scroll_down(s) ==
  IF WindowEnd(s) + Line > viewport_len(s) THEN s
  ELSE At(draw_viewport(Advance(At(s, 0, 0))), s.x, s.y)

scroll_up(s) ==
  IF s.start = 0 THEN s
  ELSE At(draw_viewport([At(s, 0, 0) EXCEPT !.start = @ - 1]), s.x, s.y)

\* newline: the next line, and whether it needs scroll_down(true).
NextLine(s) == At(s, 0, s.y + 1)
\* (the mutant: one line too late)
BelowWindowLate(s) == s.y * Line > WindowEnd(s)
BelowWindow(s) == s.y * Line >= WindowEnd(s)
newline(s) ==
  LET t == NextLine(s) IN
  IF ~Ok(s) THEN s ELSE IF BelowWindow(t) THEN make_space(t) ELSE t

\* draw_char: wraps, sets the pixels, moves the cursor.
Wraps(s) == s.x + GlyphWidth > Stride
set_pixels(s) ==
  IF ~Ok(s) THEN s ELSE IF ~Inside(s) THEN Fail(s, "index")
  ELSE [s EXCEPT !.x = @ + GlyphWidth]
draw_char(s) == set_pixels(IF Wraps(s) THEN newline(s) ELSE s)

putc(s, c) == IF c = Newline THEN newline(s) ELSE draw_char(s)

\* remove_char: the cell before the cursor, which at the beginning of a line
\* is the last one of the line above.
LastCell == align_down(Stride, GlyphWidth) - GlyphWidth
CellBefore(s) ==
  IF s.x >= GlyphWidth THEN At(s, s.x - GlyphWidth, s.y) ELSE At(s, LastCell, s.y - 1)
remove_char(s) ==
  IF ~Ok(s) THEN s
  ELSE IF s.x < GlyphWidth /\ (s.y = 0 \/ LastCell < 0) THEN Fail(s, "negative")
  ELSE IF ~Inside(CellBefore(s)) THEN Fail(CellBefore(s), "index") ELSE CellBefore(s)

\* println!("clearing") in clear: eight glyphs and a newline.
Two(s) == draw_char(draw_char(s))
Clearing(s) == draw_viewport(newline(Two(Two(Two(Two(s))))))
\* clear.
Cleared(s) == [s EXCEPT !.x = 0, !.y = 0, !.start = 0, !.origin = 0, !.extra = 0]
clear(s) == IF Ok(Clearing(s)) THEN draw_viewport(Cleared(Clearing(s))) ELSE Clearing(s)
-----------------------------------------------------------------------------
(* A panic: the handler runs, with interrupts off, on top of whatever        *)
(* panicked, the handler included.                                           *)

Running == handler.depth = 0

\* The screen an operation leaves, and the panic if it failed.
Commit(result) ==
  \E s \in {result} :
    /\ scr' = Fail(s, "none")
    /\ IF Ok(s) THEN UNCHANGED <<handler, cause>>
       ELSE /\ handler' = [depth |-> handler.depth + 1, at |-> "line", lines |-> 0]
            /\ cause' = IF Running THEN s ELSE cause

\* cross_println sets the flag for its println, and a mutant that does not.
FlagNotSet == FALSE
FlagSet == TRUE

HandlerStep(from, to, lines) ==
  /\ ~Running /\ handler.at = from
  /\ handler' = [handler EXCEPT !.at = to, !.lines = lines]
  /\ UNCHANGED <<cause, mode, proc, stdin_buffer, raced, torn>>

\* cross_println, always to the serial port; to the terminal unless the panic
\* comes from there.  The bound is on the frames of the stack.
CrossPrintln ==
  /\ handler.lines < MaxLines
  /\ IF panicked THEN HandlerStep("line", "line", handler.lines + 1)
     ELSE HandlerStep("line", "print", handler.lines)
  /\ panicked' = (panicked \/ FlagSet)
  /\ UNCHANGED scr

\* Its println: a piece of the text, and the newline.
Printing(c) == draw_viewport(putc(scr, c))
PanicPrint(c) ==
  /\ HandlerStep("print", "end", handler.lines)
  /\ Ok(Printing(c)) /\ scr' = Printing(c)
  /\ UNCHANGED panicked
PanicPrintEnd ==
  /\ HandlerStep("end", "line", handler.lines + 1)
  /\ Ok(Printing(Newline)) /\ scr' = Printing(Newline)
  /\ panicked' = FALSE
\* A panic in it nests.
PanicAgain(c) ==
  /\ ~Running
  /\ handler.at = "print" \/ (handler.at = "end" /\ c = Newline)
  /\ ~Ok(Printing(c)) /\ Commit(Printing(c))
  /\ UNCHANGED <<mode, proc, stdin_buffer, panicked, raced, torn>>
\* Its push_str, or the resize of scroll_down, needs memory while the process
\* that was interrupted holds the lock of the heap (HeapLock): it spins for ever.
PanicBlocked == /\ HandlerStep("print", "blocked", handler.lines)
                /\ UNCHANGED <<scr, panicked>>

\* khalt, after the message, "stack trace: " and a line for each frame, however
\* many the chain of frame pointers has.
PanicHalt == /\ handler.lines >= 2 /\ HandlerStep("line", "halted", handler.lines)
             /\ UNCHANGED <<scr, panicked>>

Handler == \/ CrossPrintln \/ PanicPrintEnd \/ PanicBlocked \/ PanicHalt
           \/ \E c \in Printed : PanicPrint(c) \/ PanicAgain(c)
-----------------------------------------------------------------------------
(* A process that prints: write_slice.                                       *)

Typing == stdin_buffer # <<>>
EndsWithNewline == Typing /\ stdin_buffer[Len(stdin_buffer)] = Newline

\* The process goes on as p with the screen s.
Step(p, s) == /\ Running /\ Commit(s)
              /\ proc' = p
              /\ UNCHANGED <<stdin_buffer, panicked, raced>>
StepTo(from, p, s) == proc.at = from /\ Step(p, s) /\ UNCHANGED <<mode, torn>>
Went(to) == [proc EXCEPT !.at = to]

\* The end of a range of the viewport is computed, ...
Located(to, end) == [proc EXCEPT !.at = to, !.end = end]
\* ... and the range used: is it still there?
Used(s) == IF proc.end <= viewport_len(s) THEN s
           ELSE Fail(s, IF proc.stale THEN "stale" ELSE "index")
Done(to) == [proc EXCEPT !.at = to, !.end = 0, !.stale = FALSE]

WriteSlice == /\ proc.at = "idle"
              /\ Step([proc EXCEPT !.at = "chars", !.old_mode = mode], scr)
              /\ mode' = "Stdout"
              /\ UNCHANGED torn

\* putc: a newline, or a glyph that wraps, goes to the next line, ...
Putc(c) ==
  LET after == IF c = Newline THEN "chars" ELSE "glyph" IN
  /\ proc.at = "chars"
  /\ IF c = Newline \/ Wraps(scr)
     THEN Step([proc EXCEPT !.at = "compare", !.then = after], NextLine(scr))
     ELSE Step([proc EXCEPT !.at = "glyph"], scr)
  /\ torn' = (torn \/ Typing)
  /\ UNCHANGED mode

\* ... which may scroll ...
Compare == StepTo("compare",
                  IF BelowWindow(scr) THEN Went("scroll")
                  ELSE [proc EXCEPT !.at = proc.then, !.then = "chars"],
                  scr)
Save == StepTo("scroll", [proc EXCEPT !.at = "space", !.x = scr.x, !.y = scr.y],
               At(scr, 0, 0))
GrowViewport == CanGrow(scr) /\ StepTo("space", Went("advance"), Grow(scr))
MoveWindow == StepTo("advance", Went("draw"), Advance(scr))
MeasureViewport == ~CanGrow(scr) /\ StepTo("space", Located("shift", viewport_len(scr)), scr)
ShiftViewport ==
  StepTo("shift",
         IF proc.y = 0 THEN proc ELSE [Done("draw") EXCEPT !.y = Shifted(@)],
         IF ~Ok(Used(scr)) THEN Used(scr)
         ELSE IF proc.y = 0 THEN Fail(scr, "negative") ELSE OriginShifted(scr))
\* ... and draws the window, ...
LocateWindow(from, to) ==
  StepTo(from, Located(to, WindowEnd(scr)),
         IF DrawOffset(scr) > scr.buffer THEN Fail(scr, "draw") ELSE scr)
Draw == LocateWindow("draw", "copy")
Copy == StepTo("copy", Done("restore"), Used(scr))
Restore == StepTo("restore",
                  [proc EXCEPT !.at = proc.then, !.x = 0, !.y = 0, !.then = "chars"],
                  At(scr, proc.x, proc.y))

\* ... and a glyph is drawn, pixel by pixel.
LocatePixel == StepTo("glyph", Located("pixel", PixelEnd(scr, proc.row, proc.col)), scr)
SetPixel ==
  StepTo("pixel",
         IF proc.col + 1 < GlyphWidth THEN [Done("glyph") EXCEPT !.col = @ + 1]
         ELSE IF proc.row + 1 < RASTER_HEIGHT
              THEN [Done("glyph") EXCEPT !.col = 0, !.row = @ + 1]
              ELSE [Done("move") EXCEPT !.col = 0, !.row = 0],
         Used(scr))
MoveCursor == StepTo("move", Went("chars"), [scr EXCEPT !.x = @ + GlyphWidth])

\* The end of write_slice draws the window and goes back to the old mode.
Flush == LocateWindow("chars", "flush")
WriteEnd == /\ proc.at = "flush"
            /\ Step([Done("idle") EXCEPT !.old_mode = "Init"], Used(scr))
            /\ mode' = proc.old_mode
            /\ UNCHANGED torn

\* readln takes a line.
TakeLine == /\ Running /\ proc.at = "idle" /\ EndsWithNewline
            /\ stdin_buffer' = <<>>
            /\ UNCHANGED <<scr, mode, proc, panicked, handler, cause, raced, torn>>

Printer == \/ WriteSlice \/ Compare \/ Save \/ GrowViewport \/ MoveWindow
           \/ MeasureViewport \/ ShiftViewport \/ Draw \/ Copy \/ Restore
           \/ LocatePixel \/ SetPixel \/ MoveCursor \/ Flush \/ WriteEnd \/ TakeLine
           \/ \E c \in Printed : Putc(c)
-----------------------------------------------------------------------------
(* The keyboard interrupt: on_key_pressed.                                   *)

InNewline == proc.at \in NewlinePlaces

KeyPressed(result) == Running /\ Commit(result) /\ UNCHANGED panicked

\* Bound: there is one such race.
PageDown == /\ ~(raced /\ InNewline)
            /\ KeyPressed(scroll_down(scr))
            /\ raced' = (raced \/ proc.at = "advance")
            /\ UNCHANGED <<mode, proc, stdin_buffer, torn>>

PageUp == KeyPressed(scroll_up(scr)) /\ UNCHANGED <<mode, proc, stdin_buffer, raced, torn>>

\* ctrl + shift + C.
KeyClear == /\ ~(raced /\ InNewline)
            /\ KeyPressed(clear(scr))
            /\ proc' = [proc EXCEPT !.stale = @ \/ proc.at \in {"pixel", "flush"}]
            /\ stdin_buffer' = <<>>
            /\ mode' = IF mode = "Init" THEN "Stdin" ELSE mode
            /\ raced' = (raced \/ InNewline)
            /\ UNCHANGED torn

\* stdin_putc: the cursor character '_' follows a line being typed.  With the
\* mutant it stays there.
CursorStays(s) == s
WithoutCursor(s) == IF Typing THEN remove_char(s) ELSE s
Echo(c, buffer) ==
  LET from == IF Typing THEN scr ELSE [scr EXCEPT !.origin = Position(scr)]
      s == WithoutCursor(from)
      t == CASE c = Newline -> newline(s)
             [] c = Glyph -> draw_char(s)
             [] c = Backspace -> IF Typing THEN remove_char(s) ELSE s
  IN draw_viewport(IF c # Newline /\ buffer # <<>> THEN draw_char(t) ELSE t)

KeyChar(c) ==
  LET buffer == IF c # Backspace THEN Append(stdin_buffer, c)
                ELSE IF Typing THEN SubSeq(stdin_buffer, 1, Len(stdin_buffer) - 1)
                ELSE <<>>
  IN
  /\ mode = "Stdin" /\ Len(buffer) <= MaxInput
  /\ KeyPressed(Echo(c, buffer))
  /\ stdin_buffer' = buffer
  /\ torn' = ((Typing /\ torn) \/ EndsWithNewline \/ scr'.origin = Gone)
  /\ UNCHANGED <<mode, proc, raced>>

Key == \/ PageDown \/ PageUp \/ KeyClear
       \/ \E c \in Printed \cup {Backspace} : KeyChar(c)

Next == Printer \/ Key \/ Handler
Spec == Init /\ [][Next]_vars
-----------------------------------------------------------------------------
(* Properties *)

\* The state has its type.
TypeOK ==
  /\ scr \in Screens
  /\ mode \in TerminalMode
  /\ proc \in Processes
  /\ stdin_buffer \in Seq(Printed)
  /\ handler \in [depth : Nat, at : {"line", "print", "end", "blocked", "halted"},
                  lines : 0 .. MaxLines]
  /\ cause \in Screens
  /\ {panicked, raced, torn} \subseteq BOOLEAN

\* The frame buffer ends inside of a line of text.
LastLineCut(s) == s.buffer % Line # 0

\* The window lies in the viewport, which never outgrows four screens, and the
\* cursor's line begins in it, and ends in it too if the frame buffer holds
\* whole lines, whatever was printed, typed, scrolled and cleared, unless a
\* clear hit the inside of a newline, or PageDown its one step between growing
\* the viewport and moving the window.
WindowInViewport ==
  TypeOK /\ (~raced /\ Running =>
    /\ viewport_len(scr) <= 4 * scr.buffer
    /\ WindowEnd(scr) <= viewport_len(scr)
    /\ scr.x <= Stride
    /\ ~InNewline =>
         /\ scr.y * Line < viewport_len(scr)
         /\ ~LastLineCut(scr) => (scr.y + 1) * Line <= viewport_len(scr))

\* align_down takes no more off the stride than the margin right of the last
\* cell.
MaskKeepsCells == LastCell >= (Columns - 1) * GlyphWidth

\* The terminal panics for four reasons only, while no key raced a newline:
\* the offset of draw_viewport, a product, is beyond the frame buffer, and then
\* the cursor is below the first screen; a glyph is on a line that the end of
\* the frame buffer cuts; a clear came between computing an offset into the
\* viewport and using it; remove_char goes above the first line of the viewport
\* or left of a line, with a line that is not in one piece or a glyph width
\* that is no mask for align_down.
PanicsExplained ==
  ~Running /\ ~raced =>
    \/ cause.err = "draw" /\ cause.y * Line >= cause.buffer
    \/ cause.err = "index" /\ LastLineCut(cause) /\ (cause.y + 1) * Line > viewport_len(cause)
    \/ cause.err = "stale"
    \/ cause.err = "negative" /\ (torn \/ ~MaskKeepsCells)

\* The cursor stands behind the characters in the buffer and the '_', in
\* cells from where the line began, across wraps, scrolling, removal of the
\* first line and backspaces: a backspace blanks the character it deletes.
\* This needs a stride from which align_down takes no whole cell.
EchoMatchesInput ==
  MaskKeepsCells /\ Running /\ ~raced /\ ~torn /\ Typing /\ ~EndsWithNewline =>
    Position(scr) = scr.origin + Len(stdin_buffer) + 1

\* A panic while the panic handler prints is not printed to the terminal
\* (panicked in cross_println), so that it cannot nest further.
PanicsNestOnce == handler.depth <= 2
=============================================================================
