------------------------------ MODULE Logging ------------------------------
(***************************************************************************)
(* logging::internal: what a message becomes before it reaches a sink.     *)
(* A text is a sequence of characters, the case of a digit left out.  A    *)
(* format is such a sequence too, and the arguments are the values its     *)
(* conversions take in order (too few are undefined; no caller passes too  *)
(* few).                                                                   *)
(***************************************************************************)
EXTENDS Integers, Sequences

BufSize == 32   \* char buf[32]
Digit   == <<"0", "1", "2", "3", "4", "5", "6", "7", "8", "9", "A", "B", "C", "D", "E", "F">>

\* The digits of value, of which the buffer takes as many as it holds: left is
\* what is left of value after k of them.
print_uint(value, base) ==
  IF base \notin 2 .. 16 THEN <<>> ELSE
  IF value = 0 THEN <<"0">>
  ELSE LET left[k \in 0 .. BufSize] == IF k = 0 THEN value ELSE left[k - 1] \div base
           n == CHOOSE n \in 1 .. BufSize : /\ left[n] = 0 \/ n = BufSize
                                           /\ \A k \in 1 .. n - 1 : left[k] # 0
       IN  [k \in 1 .. n |-> Digit[(left[n - k] % base) + 1]]

print_int(value) == (IF value < 0 THEN <<"-">> ELSE <<>>)
                    \o print_uint(IF value < 0 THEN - value ELSE value, 10)

\* What a conversion writes of its argument.  The object of %o is given by
\* the text its log_self writes.
converted(spec, arg) ==
  CASE spec = "c"        -> <<arg>>
    [] spec \in {"s", "o"} -> IF arg = "null" THEN <<"<null>">> ELSE arg
    [] spec \in {"d", "i"} -> print_int(arg)
    [] spec = "u"        -> print_uint(arg, 10)
    [] spec = "x"        -> <<"0x">> \o print_uint(arg, 16)
    [] spec = "b"        -> <<"0b">> \o print_uint(arg, 2)
    [] spec = "p"        -> IF arg = 0 THEN <<"<null>">> ELSE <<"0x">> \o print_uint(arg, 16)

Conversions == {"c", "s", "o", "d", "i", "u", "x", "b", "p"}

\* What texts and formats are made of: characters, and words that count as one and
\* are written without spaces and braces.
LogChar ==
  {"0", "1", "2", "3", "4", "5", "6", "7", "8", "9", "A", "B", "C", "D", "E", "F",
   "-", "0x", "0b", "<null>", "\n", "\r", "\\", "%", "c", "s", "o", "d", "i", "u", "x", "b", "p",
   "KERNEL_PANIC", "at", ":", "file", "Initializing_kernel_space_failed",
   "Failed_to_map_framebuffer", "Tried_to_enter_kernel_more_than_once",
   "No_framebuffer_provided_by_bootloader",
   "No_keyboard_provided_by_bootloader", "=", "Booted_by", "Bootoptions:",
   "KiB", "memory_map", "Got_framebuffer", "w=", "h=", "bpp=", "pitch=", "v=", "brace",
   "null", "Unknown", "<none>", "tag"}

\* Where the loop is: at is the next position of the format, arg the next
\* argument, text what was written, ended whether a line is closed after it.
Cursor == [at : Nat, arg : Nat, text : Seq(LogChar), ended : BOOLEAN]

\* One turn of the loop.  A backslash at the end keeps the line open.
turn(fmt, args) ==
  [s \in Cursor |->
     LET c    == fmt[s.at]
         spec == fmt[s.at + 1]
         last == s.at = Len(fmt)
         wrote(n, taken, text) == [at |-> s.at + n, arg |-> s.arg + taken,
                                   text |-> s.text \o text, ended |-> s.ended]
     IN  CASE s.at > Len(fmt) -> s
           [] last /\ c = "\\" -> [wrote(1, 0, <<>>) EXCEPT !.ended = FALSE]
           [] last /\ c # "\\" -> wrote(1, 0, <<c>>)
           [] s.at < Len(fmt) /\ c # "%" -> wrote(1, 0, <<c>>)
           [] s.at < Len(fmt) /\ c = "%" ->
                IF spec \in Conversions THEN wrote(2, 1, converted(spec, args[s.arg]))
                ELSE wrote(2, 0, IF spec = "%" THEN <<"%">> ELSE <<"%", spec>>)]

vmsg_impl(auto_new_line, fmt, args) ==
  LET start == [at |-> 1, arg |-> 1, text |-> <<>>, ended |-> auto_new_line]
      after[k \in 0 .. Len(fmt)] == IF k = 0 THEN start ELSE turn(fmt, args)[after[k - 1]]
      end   == after[Len(fmt)]
  IN  end.text \o (IF end.ended THEN <<"\n">> ELSE <<>>)

\* log_msg opens a line of its own and ends it; log_obj writes inside one.
log_msg(fmt, args) == vmsg_impl(TRUE, fmt, args)
log_obj(fmt, args) == vmsg_impl(FALSE, fmt, args)
=============================================================================
