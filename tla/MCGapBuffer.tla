----------------------------- MODULE MCGapBuffer -----------------------------
(* The parts below the kernel, each by itself: part says which one runs.    *)
(*                                                                          *)
(* The gap buffer: a gap of 2 in an array of 4 that grows to 8 and 16, words *)
(* of 6 bits.  Strings of up to five characters.  Division of 4-bit numbers. *)
(* Memory of seven bytes, two to a word.  A screen of 6 by 5 pixels without  *)
(* padding, glyphs of 2 by 2 with a gap of 1.  Formats of one or two         *)
(* directives, on a machine with words of 8 bits.                            *)
EXTENDS GapBuffer, StringBuffer, Division, Library, Graphics, Vsnprintf

VARIABLE part

SmallPowers == {1, 2, 4, 8, 16, 32}

TwoGlyphs == [ch \in 0 .. 1 |-> << <<TRUE, ch = 1>>, <<FALSE, TRUE>> >>]

SomeStyles == {[fg |-> "black", bg |-> "white", scale |-> 1],
               [fg |-> "black", bg |-> "none", scale |-> 1],
               [fg |-> "black", bg |-> "white", scale |-> 0]}

SomeWindows == {[x |-> 0, y |-> 0, w |-> 6, h |-> 5], [x |-> 2, y |-> 1, w |-> 3, h |-> 2]}

kept(spelling, words, shows) ==
  [spelling |-> spelling, words |-> words, shows |-> shows, but |-> ""]

broken(exception, spelling, words, shows) ==
  [spelling |-> spelling, words |-> words, shows |-> shows, but |-> exception]

\* Words have 8 bits, a char 4 and a long long 16.  The precision is ignored, as
\* the source says.  L before an integer is the usual extension (as ll); I is
\* accepted and changes nothing.
SomePieces == {
  kept(<<"a">>, <<>>, <<"a">>),
  kept(<<"%", "d">>, <<250>>, <<"-", "6">>),
  kept(<<"%", "0", "4", "i">>, <<250>>, <<"-", "0", "0", "6">>),
  kept(<<"%", "+", "0", "-", "3", "l", "d">>, <<9>>, <<"+", "9", " ">>),
  kept(<<"%", " ", "*", "d">>, <<4, 12>>, <<" ", " ", "1", "2">>),
  kept(<<"%", "I", "*", "u">>, <<253, 7>>, <<"7", " ", " ">>),
  kept(<<"%", ".", "2", "h", "h", "u">>, <<7>>, <<"7">>),
  kept(<<"%", "l", "l", "d">>, <<255, 255>>, <<"-", "1">>),
  kept(<<"%", "L", "b">>, <<5, 0>>, <<"1", "0", "1">>),
  kept(<<"%", "#", "o">>, <<8>>, <<"0", "1", "0">>),
  kept(<<"%", "#", "5", "x">>, <<250>>, <<" ", "0", "x", "f", "a">>),
  kept(<<"%", "p">>, <<160>>, <<"0", "x", "a", "0">>),
  kept(<<"%", "3", ".", "1", "s">>, << <<"a", "b">> >>, <<" ", "a", "b">>),
  kept(<<"%", "-", "2", "c">>, <<"z">>, <<"z", " ">>),
  kept(<<"%", "%">>, <<>>, <<"%">>),
  broken("sign", <<"%", "+", "u">>, <<7>>, <<"7">>),
  broken("zero", <<"%", "#", "x">>, <<0>>, <<"0">>),
  broken("zero", <<"%", "#", "o">>, <<0>>, <<"0">>),
  broken("binary", <<"%", "#", "b">>, <<5>>, <<"b", "1", "0", "1">>),
  broken("word", <<"%", "l", "l", "u">>, <<1, 1>>, <<"2", "5", "7">>),
  broken("word", <<"%", "h", "h", "u">>, <<250>>, <<"1", "0">>),
  broken("h", <<"%", "h", "u">>, <<11>>, <<"1", "1">>),
  broken("h", <<"%", "h", "d">>, <<250>>, <<"-", "6">>),
  broken("star", <<"%", ".", "*", "u">>, <<3, 7>>, <<"7">>),
  broken("nul", <<"%", "c">>, <<Nul>>, <<Nul>>),
  broken("cut", <<"%", "3">>, <<>>, <<>>) }

MCInit ==
  /\ part \in {"gap buffer", "string", "division", "library", "graphics", "printf"}
  /\ Init /\ StringInit /\ DivisionInit /\ LibraryInit /\ PrintfInit
  /\ GraphicsInit /\ (part # "graphics" => style = CHOOSE st \in Styles : st.scale = 0)

MCNext ==
  /\ UNCHANGED part
  /\ \/ /\ part = "gap buffer" /\ Next
        /\ UNCHANGED <<string_vars, division_vars, library_vars, gfx_vars, printf_vars>>
     \/ /\ part = "string" /\ StringNext
        /\ UNCHANGED <<vars, division_vars, library_vars, gfx_vars, printf_vars>>
     \/ /\ part = "division" /\ DivisionNext
        /\ UNCHANGED <<vars, string_vars, library_vars, gfx_vars, printf_vars>>
     \/ /\ part = "library" /\ LibraryNext
        /\ UNCHANGED <<vars, string_vars, division_vars, gfx_vars, printf_vars>>
     \/ /\ part = "graphics" /\ GraphicsNext
        /\ UNCHANGED <<vars, string_vars, division_vars, library_vars, printf_vars>>
     \/ /\ part = "printf" /\ PrintfNext
        /\ UNCHANGED <<vars, string_vars, division_vars, library_vars, gfx_vars>>

\* The processor goes on with a division.
Divides ==
  /\ part = "division" /\ Loops
  /\ UNCHANGED <<part, vars, string_vars, library_vars, gfx_vars, printf_vars>>

MCVars == <<part, vars, string_vars, division_vars, library_vars, gfx_vars, printf_vars>>

MCSpec == MCInit /\ [][MCNext]_MCVars /\ WF_MCVars(Divides)
=============================================================================
