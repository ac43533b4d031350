----------------------------- MODULE MCBringUp ------------------------------
(* The kernel's own tables: 22 slots with the homes its hash gives the tag  *)
(* types, one driver with four instances, two serial ports.  Boot loaders   *)
(* pass, in any order, the tags of a plain PC; those that share homes with  *)
(* ACPI, VBE and network tags; a list of modules that fills the map; and too *)
(* few.  Keys are pressed at the shell of one of them.                            *)
EXTENDS BringUp, Keyboard

CONSTANT KeyProfile   \* bound: the boot loader after which keys are pressed

TagTypes == 1 .. 22

PlainPC     == {1, 15, 2, 4, 5, 6, 8}
ManyTables  == {9, 14, 7, 16, 6, 8}
ManyModules == {10, 11, 3, 8, 22}
Bare        == {6, 8}
LoaderProfiles == {PlainPC, ManyTables, ManyModules, Bare, {6}, {8}}

TagNumbers == 1 .. 30

Serial16550 == [serial_16550 |-> [desc_type |-> "SerialDesc", iface_type |-> "Port",
                                  ports |-> {1016, 760}, max_instances |-> 4]]

PcBoard == <<[type |-> "SerialDesc", name |-> "com1", io_base |-> 1016],
             [type |-> "SerialDesc", name |-> "com2", io_base |-> 760]>>

\* As GRUB gives them: as asked for; of 24 bits; with rows cut short; text mode.
SomeFbTags == {[addr |-> 64, pitch |-> 8, width |-> 2, height |-> 1, bpp |-> 32],
               [addr |-> 64, pitch |-> 6, width |-> 2, height |-> 1, bpp |-> 24],
               [addr |-> 64, pitch |-> 4, width |-> 2, height |-> 1, bpp |-> 32],
               [addr |-> 0, pitch |-> 8, width |-> 2, height |-> 1, bpp |-> 32]}

\* A letter, LeftShift, both Ctrl keys, Caps Lock and Pause.
SomeKeys == {30, LeftShift, LeftCtrl, RightCtrl, CapsLock, Pause}

MCInit == Init /\ KeyboardInit

AtShell == pc = "shell" /\ profile = KeyProfile /\ pending = <<>> /\ uart.data = <<>>

MCNext ==
  \/ Next /\ UNCHANGED kb_vars
  \/ AtShell /\ KeyboardNext /\ UNCHANGED vars

\* readline polls without end.
MCSpec == MCInit /\ [][MCNext]_<<vars, kb_vars>>
          /\ WF_vars(Boot /\ UNCHANGED kb_vars) /\ WF_vars(Write /\ UNCHANGED kb_vars)
          /\ WF_vars(Send /\ UNCHANGED kb_vars)
          /\ WF_kb_vars(AtShell /\ poll /\ UNCHANGED vars)
=============================================================================
