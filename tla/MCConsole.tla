------------------------------ MODULE MCConsole -----------------------------
(* A screen of three columns and a bit, and two lines; "s", "r" and a blank  *)
(* are typed; "s" is sys, "r" help, "rs" echo, "rs" and "rr" options of sys. *)
EXTENDS Console

MCHelpName == <<"r">>
MCEchoName == <<"r", "s">>
MCSysName  == <<"s">>
MCReboot   == <<"r", "s">>
MCShutdown == <<"r", "r">>
MCTyped    == <<1, 3, 0>>
MCPrompt   == <<">">>
MCSpace    == <<" ">>
MCText     == <<"t">>
=============================================================================
