------------------------------ MODULE TextArea ------------------------------
(***************************************************************************)
(* ui::TextArea with the TtyTextArea on top of it: a text with a cursor    *)
(* (ctr::GapBuffer by what module TextBuffer says of it), the cursor in    *)
(* columns and lines, the count of lines and the window that is drawn.     *)
(*                                                                         *)
(* The area is one record; an operation is an operator from an area to the *)
(* area it leaves.  Indices of the text start at 0, coordinates are        *)
(* uint32_t: modulo WordSize.                                              *)
(***************************************************************************)
EXTENDS Integers, Sequences, FiniteSets, SequencesExt

CONSTANTS Char,             \* the characters of a text
          NL,               \* '\n'
          Width, Height,    \* of the framebuffer, in pixels
          GlyphW, GlyphH,   \* of the font
          GapX, GapY,       \* of the style
          WordSize          \* number of values of uint32_t

ASSUME TextAreaAssumption ==
  /\ NL \in Char
  /\ Width \in Nat \ {0} /\ Height \in Nat /\ WordSize \in Nat \ {0}
  /\ GlyphW \in Nat \ {0} /\ GlyphH \in Nat \ {0} /\ GapX \in Nat /\ GapY \in Nat

Point(x, y) == [x |-> x, y |-> y]

line_height     == GlyphH + GapY
eff_glyph_width == GlyphW + GapX

visible_line_capacity == Height \div line_height

NewArea == [text   |-> <<>>, gap |-> 0,
            target |-> Point(0, 0), real |-> Point(0, 0),
            lines  |-> 0, first |-> 0, follow |-> TRUE]

count(a)    == Len(a.text)
newlines(a) == {i \in 0 .. count(a) - 1 : a.text[i + 1] = NL}
count_lines(a) == Cardinality(newlines(a)) + 1

\* The line-th newline ends the line before; past the last one, the end.
line_start_index(a, line) ==
  LET nl   == newlines(a)
      ends == {i \in nl : Cardinality({j \in nl : j < i}) = line - 1}
  IN  IF line = 0 THEN 0
      ELSE IF ends = {} THEN count(a) ELSE 1 + CHOOSE i \in ends : TRUE

line_end_index(a, start) ==
  LET ends == {i \in newlines(a) : i >= start}
  IN  IF ends = {} THEN count(a) ELSE Min(ends)

length_of_line(a, line) ==
  LET start == line_start_index(a, line) IN line_end_index(a, start) - start

\* The true coordinates of an index of the text: the column counts from the
\* last newline before it.
Coordinates(a, i) ==
  LET before == {j \in newlines(a) : j < i}
  IN  Point(IF before = {} THEN i ELSE i - Max(before) - 1, Cardinality(before))

-----------------------------------------------------------------------------
(* The text and its cursor.                                                *)

\* Mutant: a newline does not bring the cursor back to column 0.
put_char_keeps_column(a, c) ==
  [a EXCEPT !.text = SubSeq(@, 1, a.gap) \o <<c>> \o SubSeq(@, a.gap + 1, Len(@)),
            !.gap  = @ + 1,
            !.target = IF c = NL THEN Point(@.x, @.y + 1) ELSE Point((@.x + 1) % WordSize, @.y),
            !.lines = IF c = NL THEN @ + 1 ELSE @]

put_char(a, c) ==
  [a EXCEPT !.text = SubSeq(@, 1, a.gap) \o <<c>> \o SubSeq(@, a.gap + 1, Len(@)),
            !.gap  = @ + 1,
            !.target = IF c = NL THEN Point(0, @.y + 1) ELSE Point((@.x + 1) % WordSize, @.y),
            !.lines = IF c = NL THEN @ + 1 ELSE @]

put_text(a, text) ==
  LET put[n \in 0 .. Len(text)] == IF n = 0 THEN a ELSE put_char(put[n - 1], text[n])
  IN  put[Len(text)]

\* delete_left deletes nothing at the start of the text; the column is
\* decremented all the same, also after a newline was deleted.
remove_last(a) ==
  LET n == IF a.gap = 0 THEN 0 ELSE 1
  IN  [a EXCEPT !.text = SubSeq(@, 1, a.gap - n) \o SubSeq(@, a.gap + 1, Len(@)),
                !.gap  = @ - n,
                !.target.x = (@ - 1) % WordSize]

\* One column past the end of the line is accepted; the text cuts the index
\* to its length, the cursor keeps the column asked for.
move_cursor(a, p) ==
  LET y     == IF p.y >= a.lines THEN a.lines ELSE p.y
      start == line_start_index(a, y)
      end   == line_end_index(a, start)
      idx   == IF p.x > end + 1 - start THEN end ELSE start + p.x
  IN  [a EXCEPT !.gap = IF idx > count(a) THEN count(a) ELSE idx,
                !.target = Point(idx - start, y)]

move_left(a, n) ==
  move_cursor(a, [a.target EXCEPT !.x = @ - (IF n >= @ THEN @ ELSE n)])
move_right(a, n) == move_cursor(a, [a.target EXCEPT !.x = (@ + n) % WordSize])
move_line_end(a) == move_cursor(a, [a.real EXCEPT !.x = length_of_line(a, a.real.y)])

\* lines is 0 until the first redraw: the line asked for wraps.
move_end(a) ==
  LET y == (a.lines - 1) % WordSize IN move_cursor(a, Point(length_of_line(a, y), y))

-----------------------------------------------------------------------------
(* The window and what is drawn in it.                                     *)

bottom_start(a) ==
  IF count_lines(a) > visible_line_capacity
    THEN count_lines(a) - visible_line_capacity ELSE 0

\* The first column whose glyph would start right of the area.
columns == (Width + eff_glyph_width - 1) \div eff_glyph_width

\* Index at which the loop of redraw stops: the end of the last line of the
\* window, or before that a character right of the area.
draw_end(a) ==
  LET nl    == newlines(a)
      start == line_start_index(a, a.first)
      end   == line_end_index(a, line_start_index(a, a.first + visible_line_capacity - 1))
      long  == {i \in start + columns .. end - 1 : (i - columns .. i) \cap nl = {}}
  IN  IF long = {} THEN end ELSE Min(long)

\* draw_pos at an index: its line counts from the top of the window.
draw_pos(a, i) == LET c == Coordinates(a, i) IN [c EXCEPT !.y = @ - a.first]

drawn(a) == (line_start_index(a, a.first) .. draw_end(a) - 1) \ newlines(a)

\* The cursor that is shown: the target, drawn back to the last character of
\* the line of the window (not of the text) that has its number.
cursor_shown(a) ==
  LET nl   == newlines(a)
      last == {i \in drawn(a) : /\ i + 1 \in nl
                                /\ draw_pos(a, i).y = a.target.y
                                /\ draw_pos(a, i).x < a.target.x}
  IN  IF last = {} THEN a.target
      ELSE Point(draw_pos(a, CHOOSE i \in last : TRUE).x, a.target.y)

\* Mutant: the window is not brought back when the text has become shorter.
window_kept(a) ==
  [a EXCEPT !.lines = count_lines(a), !.first = IF a.follow THEN bottom_start(a) ELSE @]

window(a) ==
  [a EXCEPT !.lines  = count_lines(a),
            !.first  = IF a.follow \/ @ > bottom_start(a) THEN bottom_start(a) ELSE @,
            !.follow = \/ @
                       \/ count_lines(a) <= visible_line_capacity
                       \/ a.first > bottom_start(a)]

redraw(a) ==
  IF visible_line_capacity = 0 THEN a
  ELSE LET w == window(a) IN [w EXCEPT !.real = cursor_shown(w)]

\* The cells that show the cursor: a character of the text drawn inverted, or
\* the blank behind the last one.
cursor_cells(a) ==
  {draw_pos(a, i) : i \in {j \in drawn(a) \cup {draw_end(a)} : draw_pos(a, j) = a.real}}

\* The last pixel draw_glyph writes at a cell: draw_byte and get32 add row and
\* column without a look at the width.
last_pixel(p) ==
  (p.y * line_height + GlyphH - 1) * Width + eff_glyph_width * p.x + GlyphW - 1

\* The cells redraw writes to.
cells(a) == {draw_pos(a, i) : i \in drawn(a)} \cup cursor_cells(a)

\* The early returns come after lines was recounted.
recounted(a) == [a EXCEPT !.lines = count_lines(a)]

scroll_up(a, n) ==
  IF visible_line_capacity = 0 \/ bottom_start(a) = 0 THEN recounted(a)
  ELSE [recounted(a) EXCEPT !.first = IF n > @ THEN 0 ELSE @ - n, !.follow = FALSE]

scroll_down(a, n) ==
  IF visible_line_capacity = 0 THEN recounted(a)
  ELSE [recounted(a) EXCEPT !.first  = IF @ + n >= bottom_start(a) THEN bottom_start(a) ELSE @ + n,
                            !.follow = a.first + n >= bottom_start(a)]
=============================================================================
