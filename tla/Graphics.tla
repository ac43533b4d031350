------------------------------ MODULE Graphics ------------------------------
(***************************************************************************)
(* gfx::Canvas, gfx::text::TextRenderer and ui::Window on a framebuffer:   *)
(* rectangles, windows with a border and glyphs, as words of memory.       *)
(*                                                                         *)
(* Nothing is clipped: a pixel right of the screen is one of the padding   *)
(* or of the next row.  Coordinates are uint32_t, and the border of a      *)
(* window at the upper edge starts at a wrapped row, from where the loop   *)
(* over the rows does not start; so nothing of that border is drawn.       *)
(***************************************************************************)
EXTENDS Integers, Sequences, SequencesExt

CONSTANTS FbWidth, FbHeight,
          FbPitch,         \* words from a row to the next one
          CoordSize,       \* number of values of uint32_t
          GlyphBits,       \* 8: pixels draw_byte draws
          Glyphs,          \* char -> the rows of its bitmap, each a tuple of BOOLEAN
          GlyphHeight, GlyphGap,
          Styles,          \* [fg, bg, scale]
          Chars,           \* bound: the characters drawn
          Colors, None,    \* None is the colour fitcpy leaves out
          Windows,         \* [x, y, w, h]
          Border,          \* border_thickness
          MaxDrawings      \* bound

VARIABLES fb,              \* the words from begin() on, those behind the end included
          style, last_x, last_y,
          shown,           \* ghost: what each pixel of the screen should show
          hung,            \* ghost: some glyph hung over the right edge
          drawings

gfx_vars == <<fb, style, last_x, last_y, shown, hung, drawings>>

Memory_words == 0 .. 2 * FbPitch * FbHeight - 1
Screen == (0 .. FbWidth - 1) \X (0 .. FbHeight - 1)

GraphicsInit ==
  /\ fb = [a \in Memory_words |-> "boot"]
  /\ style \in Styles
  /\ last_x = 0 /\ last_y = 0
  /\ shown = [p \in Screen |-> "boot"]
  /\ hung = FALSE /\ drawings = 0

get32(x, y) == y * FbPitch + x

Wrap(n) == n % CoordSize

\* Rect::operator+=, end_y.  Mutant: the far edges move by one thickness only.
outset_once(r, t) == [x |-> Wrap(r.x - t), y |-> Wrap(r.y - t), w |-> r.w + t, h |-> r.h + t]
outset(r, t) == [x |-> Wrap(r.x - t), y |-> Wrap(r.y - t), w |-> r.w + 2 * t, h |-> r.h + 2 * t]

end_y(r) == Wrap(r.y + r.h)

\* The rows draw_rect runs over.
rows(r) == r.y .. end_y(r) - 1

\* The words fitset fills.
fitset(at, len) == at .. at + len - 1

draw_rect(mem, r, color) ==
  LET words == UNION {fitset(get32(r.x, y), r.w) : y \in rows(r)}
  IN  [a \in DOMAIN mem |-> IF a \in words THEN color ELSE mem[a]]

expand(byte, fg, bg) == [b \in DOMAIN byte |-> IF byte[b] THEN fg ELSE bg]

\* The words that are None are left as they were.
fitcpy(mem, at, src) ==
  [a \in DOMAIN mem |->
     IF a - at + 1 \in DOMAIN src /\ src[a - at + 1] # None THEN src[a - at + 1] ELSE mem[a]]

draw_byte(mem, x, y, byte, fg, bg) == fitcpy(mem, get32(x, y), expand(byte, fg, bg))

inverse(row, inverted) == [b \in DOMAIN row |-> row[b] # inverted]

drawn_glyph(mem, ch, inverted) ==
  FoldLeft(LAMBDA m, gy : draw_byte(m, last_x, (last_y + gy) * style.scale,
                                    inverse(Glyphs[ch][gy + 1], inverted), style.fg, style.bg),
           mem, [n \in 1 .. GlyphHeight |-> n - 1])

-----------------------------------------------------------------------------
Paint(points, color) == [p \in Screen |-> IF p \in points THEN color ELSE shown[p]]

drawing == drawings < MaxDrawings /\ drawings' = drawings + 1

ClearScreen(color) ==
  /\ drawing
  /\ fb' = draw_rect(fb, [x |-> 0, y |-> 0, w |-> FbWidth, h |-> FbHeight], color)
  /\ shown' = Paint(Screen, color)
  /\ UNCHANGED <<style, last_x, last_y, hung>>

\* Window::draw: the border, and the window over it.
DrawWindow(r, border, color) ==
  LET around == {p \in Screen : /\ r.x - Border <= p[1] /\ p[1] < r.x + r.w + Border
                                /\ r.y - Border <= p[2] /\ p[2] < r.y + r.h + Border}
      inside == {p \in around : /\ r.x <= p[1] /\ p[1] < r.x + r.w
                                /\ r.y <= p[2] /\ p[2] < r.y + r.h}
  IN  /\ drawing
      /\ fb' = draw_rect(draw_rect(fb, outset(r, Border), border), r, color)
      /\ shown' = [p \in Screen |-> IF p \in inside THEN color ELSE IF p \in around THEN border ELSE shown[p]]
      /\ UNCHANGED <<style, last_x, last_y, hung>>

\* The text area puts the renderer at the start of a line of its own.
SetPos(x, y) ==
  /\ y + GlyphHeight + GlyphGap <= FbHeight
  /\ last_x' = x /\ last_y' = y
  /\ UNCHANGED <<fb, style, shown, hung, drawings>>

\* draw_glyph; the caller asks only that the glyph starts on the screen.
DrawGlyph(ch, inverted) ==
  /\ last_x < FbWidth /\ last_y + GlyphHeight + GlyphGap <= FbHeight
  /\ drawing
  /\ IF style.scale = 0 \/ ch \notin DOMAIN Glyphs THEN UNCHANGED <<fb, last_x, shown, hung>>
     ELSE LET cell  == (last_x .. last_x + GlyphBits - 1) \X (last_y .. last_y + GlyphHeight - 1)
              ink(p) == IF Glyphs[ch][p[2] - last_y + 1][p[1] - last_x + 1] # inverted
                          THEN style.fg ELSE style.bg
          IN  /\ fb' = drawn_glyph(fb, ch, inverted)
              /\ last_x' = last_x + (GlyphBits + GlyphGap) * style.scale
              /\ shown' = [p \in Screen |-> IF p \in cell /\ ink(p) # None THEN ink(p) ELSE shown[p]]
              /\ hung' = (hung \/ last_x + GlyphBits > FbWidth)
  /\ UNCHANGED <<style, last_y>>

GraphicsNext ==
  \/ \E color \in Colors : ClearScreen(color)
  \/ \E r \in Windows, border, color \in Colors : DrawWindow(r, border, color)
  \/ \E x \in 0 .. FbWidth - 1, y \in 0 .. FbHeight - 1 : SetPos(x, y)
  \/ \E ch \in Chars, inverted \in BOOLEAN : DrawGlyph(ch, inverted)

-----------------------------------------------------------------------------
\* After any drawings the screen shows them, the later over the earlier, each
\* pixel where it belongs: the wrapped border of a window that fills the screen
\* included.  A glyph that hangs over the right edge goes on in the next row
\* and may spoil the first columns, narrower than a glyph, and nothing else:
\* no drawing leaves the framebuffer, although none is clipped, because a glyph
\* that hangs over in the last line runs into the gap below it.
ScreenShowsDrawings ==
  /\ \A p \in Screen :
       \/ fb[get32(p[1], p[2])] = shown[p]
       \/ hung /\ p[1] < GlyphBits - 1
  /\ \A a \in Memory_words : a >= FbPitch * FbHeight => fb[a] = "boot"
=============================================================================
