---------------------------- MODULE HardwareCursor ----------------------------
(***************************************************************************)
(* The mouse pointer of the host, which the BMC sends beside the picture:  *)
(* what a session makes of a cursor message and the pattern it remembers,  *)
(* and the image that the view draws of it over a frame that may by then   *)
(* have another size.                                                      *)
(*                                                                         *)
(* A cursor is its record; its pattern is a number, and PatternSize by       *)
(* PatternSize words (MegaRAC) or as large as its message said (ATEN).     *)
(***************************************************************************)
LOCAL INSTANCE Integers

CONSTANTS
  PatternSize,   \* kHardwareCursorPatternSize, 64
  Narrow,        \* the width of a cursor that is not of type 1, 32
  Fallback       \* kHardwareCursorFallbackWidth and -Height, 15

ASSUME CursorAssumption ==
  /\ {PatternSize, Narrow, Fallback} \subseteq Nat \ {0}
  /\ Narrow <= PatternSize

NoPattern == 0

AtMost(a, b) == IF a < b THEN a ELSE b
AtLeast(a, b) == IF a > b THEN a ELSE b

\* HardwareCursor{}: nothing to show.
NoCursor ==
  [visible |-> FALSE, pattern |-> NoPattern, type |-> 0, x |-> 0, y |-> 0,
   xOffset |-> 0, yOffset |-> 0, width |-> 0, height |-> 0,
   patternWidth |-> 0, patternHeight |-> 0]

\* What is left of a cursor's pattern between its place and the edge of the source.
Clipped(cursor, width, height, source) ==
  IF cursor.x >= source.width \/ cursor.y >= source.height
  THEN [cursor EXCEPT !.visible = FALSE]
  ELSE LET w == AtMost(source.width - cursor.x, width)
           h == AtMost(source.height - cursor.y, height)
       IN  [cursor EXCEPT !.width = w, !.height = h, !.visible = w > 0 /\ h > 0]

\* parse_hardware_cursor_packet: a message without a pattern keeps the last one.
MegaracCursor(message, cached, source) ==
  LET xOffset == AtMost(message.xOffset, PatternSize - 1)
      yOffset == AtMost(message.yOffset, PatternSize - 1)
      rest == PatternSize - xOffset
  IN  Clipped(
        [NoCursor EXCEPT
           !.type = message.type, !.x = message.x, !.y = message.y,
           !.xOffset = xOffset, !.yOffset = yOffset,
           !.patternWidth = PatternSize, !.patternHeight = PatternSize,
           !.pattern = IF message.pattern # NoPattern THEN message.pattern ELSE cached],
        IF message.type = 1 THEN rest ELSE AtMost(rest, Narrow),
        PatternSize - yOffset,
        source)

\* make_aten_hardware_cursor: the size goes with the pattern, whosever it is, and the
\* type with the message.
AtenCursor(message, cached, source) ==
  LET own == message.pattern # NoPattern \/ cached.pattern = NoPattern
      w == IF own THEN message.width ELSE cached.width
      h == IF own THEN message.height ELSE cached.height
  IN  Clipped(
        [NoCursor EXCEPT
           !.type = message.type, !.x = message.x, !.y = message.y,
           !.patternWidth = w, !.patternHeight = h,
           !.pattern = IF own THEN message.pattern ELSE cached.pattern],
        IF w > 0 THEN w ELSE Fallback,
        IF h > 0 THEN h ELSE Fallback,
        source)

\* A mutant of ImageOf: the frame is taken to have the size it had.
ImageOfSource(cursor, frame) ==
  [width |-> cursor.width, height |-> cursor.height, fallback |-> cursor.pattern = NoPattern]

\* make_cursor_image and make_fallback_cursor_image: the size of the sprite, and whether
\* it is the cross hair.
ImageOf(cursor, frame) ==
  LET fallback == cursor.pattern = NoPattern
      w == IF fallback THEN Fallback ELSE cursor.width
      h == IF fallback THEN Fallback ELSE cursor.height
  IN  [width  |-> AtMost(w, AtLeast(0, frame.width - cursor.x)),
       height |-> AtMost(h, AtLeast(0, frame.height - cursor.y)),
       fallback |-> fallback]

\* build_cursor_overlay: is there a sprite at all?
Drawn(cursor, frame) ==
  /\ cursor.visible
  /\ frame.width > 0 /\ frame.height > 0
  /\ ImageOf(cursor, frame).width > 0 /\ ImageOf(cursor, frame).height > 0

\* The sprite lies in the frame, whose pixels an inverting cursor reads, and the part of
\* the pattern that is read for it exists.
ReadsInside(cursor, frame) ==
  LET image == ImageOf(cursor, frame)
  IN  Drawn(cursor, frame) =>
        /\ cursor.x + image.width <= frame.width
        /\ cursor.y + image.height <= frame.height
        /\ \/ image.fallback
           \/ /\ cursor.xOffset + image.width <= cursor.patternWidth
              /\ cursor.yOffset + image.height <= cursor.patternHeight

=============================================================================
