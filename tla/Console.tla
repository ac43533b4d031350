------------------------------ MODULE Console -------------------------------
(***************************************************************************)
(* Shell::run over Tty::readline: one action for each key readline handles *)
(* and one for the command of a line.  The kernel has one thread: a key    *)
(* is handled, redraw included, before the next one is polled, and no key  *)
(* is polled while a command runs.  Releases and keys readline does not    *)
(* know leave the loop as it was and are no actions.                       *)
(***************************************************************************)
EXTENDS Shell

CONSTANTS Typed,      \* the characters the keymap yields, but '\n'
          Prompt,
          MaxTyped,   \* bound: characters typed for the first, second ... line,
                      \* erased ones included; there is a line for each
          MaxScroll   \* bound: lines the window is above the bottom

ASSUME ConsoleAssumption ==
  /\ Typed \subseteq Char \ {NL} /\ Prompt \in Seq(Char \ {NL})
  /\ MaxTyped \in Seq(Nat) /\ MaxScroll \in Nat

\* The display holds a line, and what sticks out of it on the right is
\* narrower than the pixel rows between two lines are long.
ASSUME DisplayAssumption ==
  /\ visible_line_capacity > 0
  /\ eff_glyph_width + GlyphW <= GapY * Width + 1

VARIABLES area,     \* the TextArea
          out,      \* the ctr::String readline fills
          pc,       \* "prompt", "read", "execute" or "stopped"
          rounds, typed,  \* lines begun, characters typed for this one
          pressed,  \* ghost: which of Left, Right, Erase this line has seen;
                    \* "Erase" is a Backspace after a Left
          shown     \* ghost: the line of the display Enter was pressed on,
                    \* without the prompt

vars == <<area, out, pc, rounds, typed, pressed, shown>>

cmds == builtin_commands

\* The last line of the text, prompt included.
LastLine(a) == SubSeq(a.text, line_start_index(a, count_lines(a) - 1) + 1, count(a))
WithoutPrompt(line) == SubSeq(line, Len(Prompt) + 1, Len(line))

Init ==
  /\ area = NewArea /\ out = <<>> /\ pc = "prompt"
  /\ rounds = 0 /\ typed = 0 /\ pressed = {} /\ shown = <<>>

\* Entering readline.
StartLine ==
  /\ pc = "prompt" /\ rounds < Len(MaxTyped)
  /\ out' = <<>>
  /\ area' = write(area, Prompt)
  /\ pc' = "read" /\ rounds' = rounds + 1 /\ typed' = 0 /\ pressed' = {}
  /\ shown' = <<>>

\* A key of the loop: what it does to the display, before the flush.
Key(a) ==
  /\ pc = "read"
  /\ area' = redraw(a)
  /\ UNCHANGED <<pc, rounds, shown>>

TypeChar(c) ==
  /\ pc = "read" /\ typed < MaxTyped[rounds] /\ typed' = typed + 1
  /\ Key(put_char(area, c))
  /\ out' = Append(out, c)
  /\ UNCHANGED pressed

\* Mutant: the display erases, out keeps its character.
Backspace_display ==
  /\ out # <<>>
  /\ Key(remove_last(area))
  /\ pressed' = IF "Left" \in pressed THEN pressed \cup {"Erase"} ELSE pressed
  /\ UNCHANGED <<out, typed>>

\* The last character of out goes, and the one left of the cursor.
Backspace ==
  /\ out # <<>>
  /\ Key(remove_last(area))
  /\ out' = Front(out)
  /\ pressed' = IF "Left" \in pressed THEN pressed \cup {"Erase"} ELSE pressed
  /\ UNCHANGED typed

\* raw_mode is false throughout: Left is bounded by the prompt.
Left ==
  /\ area.real.x > Len(Prompt)
  /\ Key(move_left(area, 1))
  /\ pressed' = pressed \cup {"Left"}
  /\ UNCHANGED <<out, typed>>

Right ==
  /\ Key(move_right(area, 1))
  /\ pressed' = pressed \cup {"Right"}
  /\ UNCHANGED <<out, typed>>

End      == Key(move_line_end(area)) /\ UNCHANGED <<out, typed, pressed>>
CtrlEnd  == Key(move_end(area)) /\ UNCHANGED <<out, typed, pressed>>
PageUp   == Key(scroll_down(area, 1)) /\ UNCHANGED <<out, typed, pressed>>
PageDown ==
  /\ area.first + MaxScroll > bottom_start(area)
  /\ Key(scroll_up(area, 1))
  /\ UNCHANGED <<out, typed, pressed>>

\* Mutant: the newline is put where the cursor stands.
Enter_here ==
  /\ pc = "read"
  /\ shown' = WithoutPrompt(LastLine(area))
  /\ area' = redraw(put_char(area, NL))
  /\ pc' = "execute"
  /\ UNCHANGED <<out, rounds, typed, pressed>>

Enter ==
  /\ pc = "read"
  /\ shown' = WithoutPrompt(LastLine(area))
  /\ area' = redraw(put_char(move_end(area), NL))
  /\ pc' = "execute"
  /\ UNCHANGED <<out, rounds, typed, pressed>>

Execute ==
  /\ pc = "execute"
  /\ area' = execute_line(area, cmds, out)
  /\ pc' = IF stops(cmds, out) THEN "stopped" ELSE "prompt"
  /\ UNCHANGED <<out, rounds, typed, pressed, shown>>

Next ==
  \/ StartLine
  \/ \E c \in Typed : TypeChar(c)
  \/ Backspace \/ Left \/ Right \/ End \/ CtrlEnd \/ PageUp \/ PageDown
  \/ Enter \/ Execute

Spec == Init /\ [][Next]_vars

-----------------------------------------------------------------------------
PointType == [x : 0 .. WordSize - 1, y : Nat]

\* Types of the variables; the text consists of characters that can be typed
\* or printed, the cursor lies in it.
TypeOK ==
  /\ area \in [text : Seq(Range(area.text)), gap : Nat, target : PointType,
               real : PointType, lines : Nat, first : Nat, follow : BOOLEAN]
  /\ area.gap \in 0 .. count(area)
  /\ out \in Seq(Typed) /\ Len(out) <= typed
  /\ pc \in {"prompt", "read", "execute", "stopped"}
  /\ pressed \subseteq {"Left", "Right", "Erase"}

\* Tty::readline (tty.cpp:62-108): as long as Left is not pressed, the line
\* that will be executed is the line on the display, whatever was typed,
\* erased, scrolled or asked of Right and End.  The bound on Left (tty.cpp:72)
\* lets nothing be typed into the prompt; only a Backspace after it gets there.
ShownIsExecuted ==
  pc = "read" =>
    /\ "Left" \notin pressed => /\ LastLine(area) = Prompt \o out
                                /\ area.gap = count(area)
    /\ "Erase" \notin pressed =>
         /\ IsPrefix(Prompt, LastLine(area))
         /\ area.gap >= line_start_index(area, count_lines(area) - 1) + Len(Prompt)

\* TextArea keeps the column and line of the cursor apart from the gap of the
\* buffer.  Unless Left or Right was pressed they agree, and in an unscrolled
\* window that holds the line exactly one cell shows the cursor.
CursorIsGap ==
  /\ TypeOK
  /\ pc = "read" /\ pressed = {} =>
       /\ area.target = Coordinates(area, area.gap)
       /\ area.first = 0 /\ draw_end(area) = count(area) =>
            cursor_cells(area) = {Coordinates(area, area.gap)}

\* Whatever Left, Backspace and Right did to the cursor on one line, wrapped
\* columns and deleted newlines included, the next prompt is written at the
\* end of the text and the cursor is there.
PromptAtEnd ==
  [][StartLine => /\ area'.gap = count(area')
                  /\ area'.target = Coordinates(area', area'.gap)]_vars

\* TextArea::redraw, scroll_up and scroll_down: the window never starts below
\* the last full page of the text, also after lines were deleted.  draw_glyph
\* and Canvas::draw_byte check no bounds, and a glyph that sticks out on the
\* right is drawn into the next row of pixels: the gap below every line keeps
\* the last of them in the framebuffer.
WindowInsideText ==
  /\ pc # "prompt" \/ rounds > 0 =>
       /\ area.first <= bottom_start(area)
       /\ area.follow => area.first = bottom_start(area)
  /\ \A p \in cells(area) : last_pixel(p) < Width * Height

Letter(c)        == c \notin Separators
WordStarts(line) == {i \in DOMAIN line : Letter(line[i]) /\ (i > 1 => ~Letter(line[i - 1]))}

\* A line without its separators.
Letters(line) ==
  LET kept[n \in 0 .. Len(line)] ==
        IF n = 0 THEN <<>>
        ELSE IF Letter(line[n]) THEN Append(kept[n - 1], line[n]) ELSE kept[n - 1]
  IN  kept[Len(line)]

\* Shell::execute_line's tokenizer against its definition: the words hold the
\* characters of the line that are no separators, in order, and two of them
\* belong to one word exactly if no separator lies between them.
ArgumentsAreTheWords ==
  LET argv == arguments(out)
      n    == Cardinality(WordStarts(out))
  IN  /\ Len(argv) = (IF n < MAX_ARGS THEN n ELSE MAX_ARGS)
      /\ \A w \in DOMAIN argv : argv[w] # <<>> /\ \A k \in DOMAIN argv[w] : Letter(argv[w][k])
      /\ n <= MAX_ARGS => FlattenSeq(argv) = Letters(out)

\* cmd_sys (shell.cpp:42-55): a command gets the words of the line, and the
\* machine is stopped only by a line whose words are the command and a
\* non-empty prefix of an option; without cursor keys that is what the display
\* showed.
StopsOnlyOnRequest ==
  /\ pc = "execute" => ArgumentsAreTheWords
  /\ pc = "stopped" =>
       \E option \in {SYS_OPT_REBOOT, SYS_OPT_SHUTDOWN} : \E n \in 1 .. Len(option) :
         /\ arguments(out) = <<SysName, SubSeq(option, 1, n)>>
         /\ "Left" \notin pressed => arguments(shown) = <<SysName, SubSeq(option, 1, n)>>
=============================================================================
