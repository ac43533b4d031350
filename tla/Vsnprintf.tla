----------------------------- MODULE Vsnprintf ------------------------------
(***************************************************************************)
(* klibc's vsnprintf: an automaton over the characters of the format.  A   *)
(* format is put together from pieces.  Each piece says what is promised   *)
(* of it: by C where C defines it and klibc has it, and by the comments of *)
(* the source where it says less (no precision, no floating point) or more *)
(* (a mark for binary numbers).  Where the code does not keep a promise,   *)
(* the piece names the exception, and `prints' and `takes' say what the    *)
(* code does instead.                                                      *)
(*                                                                         *)
(* The arguments are machine words.  Reading more of them than were passed *)
(* gives whatever word is behind them.                                     *)
(***************************************************************************)
EXTENDS Integers, Sequences, SequencesExt

CONSTANTS LongSize,   \* number of values of a machine word
          Piece,      \* [spelling, words, shows, but]: characters, arguments, the
                      \*   text promised, and the exception ("" if there is none)
          Behind,     \* the words that may lie behind the arguments
          MaxPieces,  \* bound: pieces of a format
          Sizes       \* bound: sizes of the buffer

VARIABLES pieces, size, behind,                \* the call
          i, state, flags, width, lflags, arg, \* fmt, the automaton, ap
          printed,                                \* the characters given to bputc
          done

printf_vars == <<pieces, size, behind, i, state, flags, width, lflags, arg, printed, done>>

Nul == "NUL"
fmt == FlattenSeq([k \in DOMAIN pieces |-> pieces[k].spelling])
ap  == FlattenSeq([k \in DOMAIN pieces |-> pieces[k].words])

ldigits == <<"0", "1", "2", "3", "4", "5", "6", "7", "8", "9", "a", "b", "c", "d", "e", "f">>
DigitValue == [c \in {ldigits[k] : k \in 1 .. 10} |-> (CHOOSE k \in 1 .. 10 : ldigits[k] = c) - 1]

\* Exceptions after which nothing is promised: the arguments no longer match
\* the directives, or the format has ended.
Final == {"h", "star", "nul", "cut"}

Formats == {ps \in UNION {[1 .. n -> Piece] : n \in 1 .. MaxPieces} :
              \A k \in 1 .. Len(ps) - 1 : ps[k].but \notin Final}

Start == /\ i' = 1 /\ state' = "S_DEFAULT" /\ flags' = {} /\ width' = 0 /\ lflags' = "" /\ arg' = 1
         /\ printed' = <<>>

\* No call is running.
Waiting == pieces = <<>>

PrintfInit ==
  /\ pieces = <<>> /\ size = 0 /\ behind = 0
  /\ i = 1 /\ state = "S_DEFAULT" /\ flags = {} /\ width = 0 /\ lflags = "" /\ arg = 1
  /\ printed = <<>> /\ done = FALSE

vsnprintf(ps, room, next) ==
  /\ pieces' = ps /\ size' = room /\ behind' = next
  /\ Start /\ UNCHANGED done

\* It returns, and another call may come.
Returned ==
  /\ done
  /\ pieces' = <<>> /\ size' = 0 /\ behind' = 0
  /\ Start /\ done' = FALSE

spaces(n) == [k \in 1 .. (IF n < 0 THEN 0 ELSE n) |-> " "]
zeros(n)  == [k \in 1 .. (IF n < 0 THEN 0 ELSE n) |-> "0"]

RECURSIVE digits_of(_, _)
digits_of(n, base) ==
  (IF n < base THEN <<>> ELSE digits_of(n \div base, base)) \o <<ldigits[(n % base) + 1]>>

\* fmt_int: sign, 0x, padding.
fmt_int(num, base, w, fl) ==
  LET minus  == "signed" \in fl /\ num < 0
      digits == digits_of((IF minus THEN - num ELSE num) % LongSize, base)
      sign   == IF minus THEN <<"-">> ELSE IF "plus" \in fl THEN <<"+">>
                ELSE IF "space" \in fl THEN <<" ">> ELSE <<>>
      alt    == sign \o (IF "alternate" \notin fl \/ base \notin {8, 16} THEN <<>>
                         ELSE IF base = 16 THEN <<"0", "x">> ELSE <<"0">>)
      npad   == w - Len(digits) - Len(alt)
  IN  IF "left" \in fl THEN alt \o digits \o spaces(npad)
      ELSE IF "zero" \in fl THEN alt \o zeros(npad) \o digits
      ELSE spaces(npad) \o alt \o digits

\* fmt_chr and fmt_str.
fmt_str(s, w, fl) ==
  IF "left" \in fl THEN s \o spaces(w - Len(s)) ELSE spaces(w - Len(s)) \o s

\* get_atoi from position k: the number and where it ends.
number_at(k) ==
  LET n == CHOOSE m \in 0 .. Len(fmt) - k + 1 :
             /\ \A j \in k .. k + m - 1 : fmt[j] \in DOMAIN DigitValue
             /\ k + m <= Len(fmt) => fmt[k + m] \notin DOMAIN DigitValue
  IN  [end |-> k + n, value |-> FoldLeft(LAMBDA acc, d : 10 * acc + DigitValue[d], 0,
                                         SubSeq(fmt, k, k + n - 1))]

-----------------------------------------------------------------------------
\* The character the loop is at; a NUL after the last.
c == IF i > Len(fmt) THEN Nul ELSE fmt[i]

\* bputc: every character counts, those below size are written.
bputc(chars) == printed' = printed \o chars

\* The bottom of the loop, with fmt at k: the NUL ends it, in every state.
loop(k) == i' = k /\ done' = (c = Nul)

S_DEFAULT ==
  /\ state = "S_DEFAULT"
  /\ IF c = "%" THEN state' = "S_FLAGS" /\ flags' = {} /\ UNCHANGED printed
     ELSE bputc(<<c>>) /\ UNCHANGED <<state, flags>>
  /\ loop(i + 1)
  /\ UNCHANGED <<width, lflags, arg>>

FlagOf == [f \in {"#", "0", "-", " ", "+"} |->
             CASE f = "#" -> "alternate" [] f = "0" -> "zero" [] f = "-" -> "left"
               [] f = " " -> "space" [] f = "+" -> "plus"]

S_FLAGS ==
  /\ state = "S_FLAGS"
  /\ IF c \in DOMAIN FlagOf \cup {"'", "I"}
       THEN /\ loop(i + 1) /\ UNCHANGED <<state, width>>
            /\ flags' = flags \cup {FlagOf[f] : f \in {c} \cap DOMAIN FlagOf}
       ELSE loop(i) /\ state' = "S_WIDTH" /\ width' = 0 /\ UNCHANGED flags
  /\ UNCHANGED <<lflags, arg, printed>>

signed(word) == IF word >= LongSize \div 2 THEN word - LongSize ELSE word

\* Mutant: a negative width keeps its sign and does not turn the field left.
S_WIDTH_signed ==
  /\ state = "S_WIDTH"
  /\ CASE c = "*" -> width' = signed(ap[arg]) /\ arg' = arg + 1 /\ loop(i + 1) /\ UNCHANGED <<flags, state>>
       [] c \in DOMAIN DigitValue \ {"0"} ->
            width' = number_at(i).value /\ loop(number_at(i).end) /\ UNCHANGED <<arg, flags, state>>
       [] OTHER -> state' = "S_PRECIS" /\ loop(i) /\ UNCHANGED <<width, arg, flags>>
  /\ UNCHANGED <<lflags, printed>>

S_WIDTH ==
  /\ state = "S_WIDTH"
  /\ CASE c = "*" ->
            LET w == signed(ap[arg]) IN
            /\ width' = IF w < 0 THEN - w ELSE w
            /\ flags' = flags \cup (IF w < 0 THEN {"left"} ELSE {})
            /\ arg' = arg + 1 /\ loop(i + 1) /\ UNCHANGED state
       [] c \in DOMAIN DigitValue \ {"0"} ->
            width' = number_at(i).value /\ loop(number_at(i).end) /\ UNCHANGED <<arg, flags, state>>
       [] OTHER -> state' = "S_PRECIS" /\ loop(i) /\ UNCHANGED <<width, arg, flags>>
  /\ UNCHANGED <<lflags, printed>>

\* The precision is skipped; .* takes its argument but not its star.
S_PRECIS ==
  /\ state = "S_PRECIS"
  /\ loop(IF c = "." THEN number_at(i + 1).end ELSE i)
  /\ arg' = IF c = "." /\ i < Len(fmt) /\ fmt[i + 1] = "*" THEN arg + 1 ELSE arg
  /\ lflags' = "" /\ state' = "S_LENGTH"
  /\ UNCHANGED <<flags, width, printed>>

S_LENGTH ==
  /\ state = "S_LENGTH"
  /\ CASE c = "h" -> lflags' = (IF lflags = "L_CHAR" THEN "L_SHORT" ELSE "L_CHAR")
                     /\ loop(i + 1) /\ UNCHANGED state
       [] c = "l" -> lflags' = (IF lflags = "L_LONG" THEN "L_LLONG" ELSE "L_LONG")
                     /\ loop(i + 1) /\ UNCHANGED state
       [] c = "L" -> lflags' = "L_DOUBLE" /\ loop(i + 1) /\ UNCHANGED state
       [] OTHER -> state' = "S_CONV" /\ loop(i) /\ UNCHANGED lflags
  /\ UNCHANGED <<flags, width, arg, printed>>

\* lflags & (L_LLONG | L_DOUBLE): bit 0 of L_DOUBLE is L_CHAR's.
wide == lflags \in {"L_CHAR", "L_LLONG", "L_DOUBLE"}

word(k) == IF k <= Len(ap) THEN ap[k] ELSE behind

\* The number va_arg reads.
number_taken ==
  IF wide THEN signed(word(arg + 1)) * LongSize + ap[arg]
  ELSE IF lflags = "L_LONG" \/ c \in {"d", "i"} THEN signed(ap[arg])
  ELSE ap[arg]

BaseOf == [k \in {"d", "i", "u", "o", "b", "x"} |->
             CASE k = "x" -> 16 [] k = "o" -> 8 [] k = "b" -> 2 [] OTHER -> 10]

\* %c of a NUL puts it and ends the loop: c is the argument by then.
S_CONV ==
  /\ state = "S_CONV"
  /\ CASE c \in DOMAIN BaseOf ->
            /\ bputc(fmt_int(number_taken, BaseOf[c], width,
                             flags \cup (IF c \in {"d", "i"} THEN {"signed"} ELSE {})))
            /\ arg' = arg + (IF wide THEN 2 ELSE 1)
       [] c = "p" -> bputc(fmt_int(signed(ap[arg]), 16, width, flags \cup {"alternate"})) /\ arg' = arg + 1
       [] c = "s" -> bputc(fmt_str(ap[arg], width, flags)) /\ arg' = arg + 1
       [] c = "c" -> bputc(fmt_str(<<ap[arg]>>, width, flags)) /\ arg' = arg + 1
       [] c = "%" -> bputc(<<c>>) /\ UNCHANGED arg
       [] OTHER   -> bputc(<<"%", c>>) /\ UNCHANGED arg
  /\ state' = "S_DEFAULT"
  /\ i' = i + 1 /\ done' = (c = Nul \/ (c = "c" /\ ap[arg] = Nul))
  /\ UNCHANGED <<flags, width, lflags>>

Step ==
  /\ ~ Waiting /\ ~ done
  /\ S_DEFAULT \/ S_FLAGS \/ S_WIDTH \/ S_PRECIS \/ S_LENGTH \/ S_CONV
  /\ UNCHANGED <<pieces, size, behind>>

\* Only after a single h is more read than was passed; the bound on next is that.
PrintfNext ==
  \/ /\ Waiting
     /\ \E ps \in Formats, room \in Sizes : \E next \in IF Last(ps).but = "h" THEN Behind ELSE {0} :
          vsnprintf(ps, room, next)
  \/ Step
  \/ Returned

-----------------------------------------------------------------------------
\* What the call leaves: the count, less one, and the characters below size
\* with a NUL at that count, or at the end of the buffer.
returned == Len(printed) - 1

buf ==
  [k \in 1 .. size |->
     IF k - 1 = returned \/ (k = size /\ returned \notin 0 .. size - 1) THEN Nul
     ELSE IF k <= Len(printed) THEN printed[k] ELSE "junk"]

\* The exceptions.  The code prints, instead of what is promised,
\*   sign    a + (or a space) before an unsigned number;
\*   zero    the prefix of # before a zero;
\*   binary  no b before a binary number;
\*   word    the low word of a long long, or a whole word for a char;
\*   h       after a single h a number of two words, cut to the first: the
\*           sign of a signed one is that of the next argument;
\*   star    after .* a % and the directive from the star on.
\* (nul and cut print what they should: see PrintsItsPieces.)
prints(p) ==
  CASE p.but = "sign"   -> <<"+">> \o p.shows
    [] p.but = "zero"   -> (IF Last(p.spelling) = "x" THEN <<"0", "x">> ELSE <<"0">>) \o p.shows
    [] p.but = "binary" -> Tail(p.shows)
    [] p.but = "word"   -> digits_of(p.words[1], 10)
    [] p.but = "h" /\ Last(p.spelling) = "d" ->
         IF signed(behind) < 0 THEN <<"-">> \o digits_of(LongSize - p.words[1], 10)
                               ELSE digits_of(p.words[1], 10)
    [] p.but = "star"   -> SelectSeq(p.spelling, LAMBDA ch : ch # ".")
    [] OTHER            -> p.shows

\* An h takes the next argument too, a .* that of the precision only.
takes(p) == IF p.but = "h" THEN Len(p.words) + 1 ELSE IF p.but = "star" THEN 1 ELSE Len(p.words)

output == FlattenSeq([k \in DOMAIN pieces |-> prints(pieces[k])])
taken == FoldLeft(LAMBDA n, p : n + takes(p), 0, pieces)

\* However flags, widths and lengths are combined, each directive prints what
\* is promised of it and takes the arguments that are its own, so that the next
\* one finds its, but for the exceptions above.  The result is the length of
\* the text, or one less where a %c of NUL, or the end of the format inside a
\* directive (undefined in C), ends the call before S_DEFAULT has counted the
\* final NUL.  What a caller reads from a buffer of any size up to its NUL is
\* the start of the text.  (A format that prints nothing and ends inside a
\* directive is left out: the count wraps, and all but the last byte keep what
\* they were.)
PrintsItsPieces ==
  done => /\ returned = Len(output) - (IF Last(pieces).but \in {"nul", "cut"} THEN 1 ELSE 0)
          /\ SubSeq(printed, 1, Len(output)) = output
          /\ arg = 1 + taken
          /\ (size > 0 /\ returned >= 0) =>
               LET n == IF returned < size THEN returned ELSE size - 1
               IN  buf[n + 1] = Nul /\ SubSeq(buf, 1, n) = SubSeq(output, 1, n)
=============================================================================
