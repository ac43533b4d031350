------------------------------- MODULE Shell --------------------------------
(***************************************************************************)
(* shell::Shell: the table of commands, the tokenizer and what the         *)
(* commands write.  A name, an option or a word is a sequence of           *)
(* characters; the texts the kernel only prints are constants.  Everything  *)
(* goes to the text area through Tty::write.                               *)
(***************************************************************************)
EXTENDS TextArea

CONSTANTS Separators,                    \* ' ' and '\t'
          MAX_COMMANDS, MAX_ARGS,
          HelpName, EchoName, SysName,   \* "help", "echo", "sys"
          SYS_OPT_REBOOT, SYS_OPT_SHUTDOWN,
          HelpText,                      \* Command::help, of any command
          Banner, Dash, Space,           \* "Available commands:", " - ", " "
          Unknown, Farewell              \* "Unknown command: ", "Reboot..."

ASSUME ShellAssumption ==
  /\ MAX_COMMANDS \in Nat /\ MAX_ARGS \in Nat \ {0, 1, 2}
  /\ {HelpName, EchoName, SysName} \subseteq Seq(Char) \ {<<>>}
  /\ {SYS_OPT_REBOOT, SYS_OPT_SHUTDOWN} \subseteq Seq(Char)
  /\ {HelpText, Banner, Dash, Space, Unknown, Farewell} \subseteq Seq(Char)

Command(name, fn) == [name |-> name, help |-> HelpText, fn |-> fn]

\* register_command refuses a command when the table is full.
register_command(cmds, cmd) ==
  IF Len(cmds) >= MAX_COMMANDS THEN cmds ELSE Append(cmds, cmd)

builtin_commands ==
  LET help == register_command(<<>>, Command(HelpName, "help"))
      echo == register_command(help, Command(EchoName, "echo"))
  IN  register_command(echo, Command(SysName, "sys"))

\* The first command of that name, as a sequence of at most one.
find_cmd(cmds, name) ==
  LET named == {i \in DOMAIN cmds : Len(name) > 0 /\ cmds[i].name = name}
  IN  IF named = {} THEN <<>> ELSE <<cmds[CHOOSE i \in named : \A j \in named : i <= j]>>

\* One character of the line: it ends the open word, extends it, or starts
\* the next one while argv has room; what is left of the line is ignored.
token(t, c) ==
  IF c \in Separators THEN [t EXCEPT !.open = FALSE]
  ELSE IF t.open THEN [t EXCEPT !.argv[Len(t.argv)] = Append(@, c)]
  ELSE IF Len(t.argv) < MAX_ARGS THEN [open |-> TRUE, argv |-> Append(t.argv, <<c>>)]
  ELSE t

\* The tokens after n characters of the line.
arguments(line) ==
  LET tokens[n \in 0 .. Len(line)] ==
        IF n = 0 THEN [open |-> FALSE, argv |-> <<>>] ELSE token(tokens[n - 1], line[n])
  IN  tokens[Len(line)].argv

\* strncmp(opt.data(), name, opt.size()) == 0: as many characters as were typed.
strncmp_equal(opt, name) == IsPrefix(opt, name)

\* Mutant: the option is not looked at.
sys_any(argv) == Len(argv) = 2

\* cmd_sys stops the machine: neither reboot nor shutdown returns.
sys_stops(argv) ==
  /\ Len(argv) = 2
  /\ \E option \in {SYS_OPT_REBOOT, SYS_OPT_SHUTDOWN} : strncmp_equal(argv[2], option)

-----------------------------------------------------------------------------
(* Tty::write flushes the display once, write_line twice.                  *)

write(a, text)      == redraw(put_text(a, text))
write_line(a, text) == write(write(a, text), <<NL>>)

write_help(a, cmd) ==
  LET named == write(a, cmd.name)
  IN  write_line(IF Len(cmd.help) = 0 THEN named
                 ELSE write(write_line(named, Dash), cmd.help),
                 <<NL, NL>>)

cmd_help(a, cmds) ==
  LET listed[n \in 0 .. Len(cmds)] ==
        IF n = 0 THEN write_line(a, Banner) ELSE write_help(listed[n - 1], cmds[n])
  IN  listed[Len(cmds)]

cmd_echo(a, argv) ==
  LET echoed[n \in 0 .. Len(argv)] ==
        IF n <= 1 THEN a
        ELSE write(IF n = 2 THEN echoed[n - 1] ELSE write(echoed[n - 1], Space), argv[n])
  IN  write(echoed[Len(argv)], <<NL>>)

cmd_sys(a, argv) == IF sys_stops(argv) THEN write_line(a, Farewell) ELSE a

-----------------------------------------------------------------------------
\* The command execute_line finds for a line that has a word.
command(cmds, line) == find_cmd(cmds, arguments(line)[1])

execute_line(a, cmds, line) ==
  LET argv == arguments(line)
      cmd  == command(cmds, line)
  IN  IF argv = <<>> THEN a
      ELSE IF cmd = <<>> THEN write_line(write(a, Unknown), argv[1])
      ELSE CASE cmd[1].fn = "help" -> cmd_help(a, cmds)
             [] cmd[1].fn = "echo" -> cmd_echo(a, argv)
             [] cmd[1].fn = "sys"  -> cmd_sys(a, argv)

\* The command does not return.
stops(cmds, line) ==
  /\ arguments(line) # <<>>
  /\ \E i \in DOMAIN command(cmds, line) : command(cmds, line)[i].fn = "sys"
  /\ sys_stops(arguments(line))
=============================================================================
