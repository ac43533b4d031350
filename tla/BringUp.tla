------------------------------ MODULE BringUp -------------------------------
(***************************************************************************)
(* The kernel from kmain to the shell: the boot loader's tags in a FlatMap,*)
(* the drivers bound to the board, the first serial port as the log, the   *)
(* boot context, and Kernel::enter.  Memory is BootMemory's; here it comes *)
(* up or panics.                                                           *)
(*                                                                         *)
(* Three things run: the boot loader's list, which get_tag_map reads; the  *)
(* CPU, in the order of pc; and the UART, which takes one byte at a time   *)
(* from its holding register while the CPU waits for it.  The terminal at  *)
(* the other end reads 38400 baud, eight bits, no parity.                  *)
(***************************************************************************)
EXTENDS FlatMap, DriverCore, Logging, Functions

CONSTANTS TagCount,     \* TAG_COUNT
          Profiles,     \* bound: sets of tag types a boot loader passes
          MaxModules,   \* bound: tags of type Module
          FbTags,       \* the framebuffers a boot loader may describe
          Board         \* the descriptions of the board's serial ports

FramebufferTag == [addr : Nat, pitch : Nat, width : Nat, height : Nat, bpp : 0 .. 255]

ASSUME FbTagsAssumption == FbTags \subseteq FramebufferTag
ASSUME BoardAssumption  == Board \in Seq(DescEntry) /\ "serial_16550" \in DOMAIN Driver

\* The map has a slot for every type of tag and one more.
ASSUME TagsAssumption ==
  /\ TagCount \in 9 .. Capacity /\ 1 .. TagCount - 1 \subseteq Key
  /\ Profiles \subseteq SUBSET Key
  /\ MaxModules \in Nat \ {0} /\ 1 .. MaxModules \subseteq Val

\* mb2::TagType, those that are loaded or may be repeated.
Cmdline        == 1
BootloaderName == 2
Module         == 3
BasicMeminfo   == 4
Mmap           == 6
Framebuffer    == 8

VARIABLES pc,
          profile,      \* the types this boot loader passes
          tags_seen,    \* type -> tags of it that were read
          ctx,          \* boot::BootContext
          serv,         \* kernel::KernelServices
          inited,       \* the port's
          sink,         \* logging: "null", "boot" or "kernel"
          fuse,
          pending,      \* bytes the CPU has still to write
          uart,         \* the registers of the serial port
          wire,         \* what the UART sent
          said          \* ghost: the text logged with a sink

tag_vars  == <<map_vars, profile, tags_seen>>
uart_vars == <<uart, wire>>
log_vars  == <<pending, said>>
serv_vars == <<ctx, serv, inited, sink, fuse>>
vars == <<pc, tag_vars, core_vars, serv_vars, log_vars, uart_vars>>

-----------------------------------------------------------------------------
\* The registers of a 16550: while bit 7 of the line control is set the first
\* two ports are the divisor of the baud rate.  data is the holding register, one
\* byte or none.
register(u, port) ==
  IF u.line_ctrl < 128 THEN port
  ELSE CASE port = "data"   -> "divisor_low"
         [] port = "int_en" -> "divisor_high"
         [] OTHER           -> port

out(u, port, value) ==
  LET reg == register(u, port)
  IN  [u EXCEPT ![reg] = IF reg = "data" THEN <<value>> ELSE value]

\* Serial16550Impl::init.
programmed(u) ==
  LET divided == out(out(out(out(u, "int_en", 0), "line_ctrl", 128), "data", 3), "int_en", 0)
  IN  out(out(out(divided, "line_ctrl", 3), "fifo_ctrl", 199), "modem_ctrl", 11)

\* write_byte of a port that is initialised.
write_byte(b) == IF b = "\n" THEN <<"\r", "\n">> ELSE <<b>>

OnTheWire(text) ==
  LET upto[k \in 0 .. Len(text)] ==
        IF k = 0 THEN <<>> ELSE upto[k - 1] \o write_byte(text[k])
  IN  upto[Len(text)]

\* The CPU logs text through sink s and goes on once it is written.
log(s, text) ==
  IF s # "null" /\ inited
    THEN /\ pending' = OnTheWire(text)
         /\ said' = said \o text
    ELSE UNCHANGED log_vars

\* write_raw: the busy wait on the line status, and the byte.
\* Mutants: no wait; a wait for a bit the UART does not set.
write_raw_at_once(b) == uart' = out(uart, "data", b)
write_raw_forever(b) == uart.data = <<"busy">> /\ uart' = out(uart, "data", b)
write_raw(b) == uart.data = <<>> /\ uart' = out(uart, "data", b)

Write ==
  /\ pending # <<>>
  /\ write_raw(Head(pending))
  /\ pending' = Tail(pending)
  /\ UNCHANGED <<pc, tag_vars, core_vars, serv_vars, said, wire>>

Readable == uart.divisor_low = 3 /\ uart.divisor_high = 0 /\ uart.line_ctrl = 3

Send ==
  /\ uart.data # <<>>
  /\ wire' = wire \o (IF Readable THEN uart.data ELSE <<"garbled">>)
  /\ uart' = [uart EXCEPT !.data = <<>>]
  /\ UNCHANGED <<pc, tag_vars, core_vars, serv_vars, log_vars>>

-----------------------------------------------------------------------------
NoFramebuffer == [addr |-> 0, pitch |-> 0, width |-> 0, height |-> 0, bpp |-> 0]

NoServices == [framebuffer |-> NoFramebuffer, serial |-> 0, keyboard |-> "null", paging |-> "null"]

NoContext == [arch |-> "Unknown", bootloader |-> "Unknown", bootloader_name |-> "null",
              cmdline |-> "null", upper_mem_kb |-> 0, memory_map |-> "null",
              ram_start_addr |-> "null"]

Init ==
  /\ FlatMapInit /\ CoreInit
  /\ pc = "tags"
  /\ profile \in Profiles
  /\ tags_seen = [t \in Key |-> 0]
  /\ ctx = [NoContext EXCEPT !.arch = "X86", !.bootloader = "Multiboot2"]
  /\ serv = NoServices /\ inited = FALSE
  /\ sink = "null" /\ fuse = FALSE
  /\ pending = <<>> /\ wire = <<>> /\ said = <<>>
  /\ uart = [data |-> <<>>, int_en |-> 1, line_ctrl |-> 3, fifo_ctrl |-> 0, modem_ctrl |-> 0,
             divisor_low |-> 12, divisor_high |-> 0]

At(from, to) == pc = from /\ pending = <<>> /\ pc' = to

\* One turn of get_tag_map's loop.  The value of a tag is which one of its
\* type it is; get_tag_map refuses the types TAG_COUNT does not cover.
read_tag(t) ==
  /\ pc = "tags"
  /\ t \in profile /\ tags_seen[t] < (IF t = Module THEN MaxModules ELSE 1)
  /\ tags_seen' = [tags_seen EXCEPT ![t] = @ + 1]
  /\ IF 0 < t /\ t < TagCount THEN insert(t, tags_seen[t] + 1) ELSE UNCHANGED map_vars
  /\ UNCHANGED <<pc, profile, core_vars, serv_vars, log_vars, uart_vars>>

\* A boot loader passes all the tags of its profile.
end_of_tags ==
  /\ At("tags", "devices")
  /\ \A t \in profile : tags_seen[t] > 0
  /\ UNCHANGED <<tag_vars, core_vars, serv_vars, log_vars, uart_vars>>

arch_drivers == <<"serial_16550">>

register_devices ==
  /\ At("devices", "bind")
  /\ add_descs(Board)
  /\ register_drivers(arch_drivers)
  /\ UNCHANGED <<bindings, used, tag_vars, serv_vars, log_vars, uart_vars>>

bind ==
  /\ At("bind", "console")
  /\ bind_all
  /\ UNCHANGED <<tag_vars, serv_vars, log_vars, uart_vars>>

SerialDescs == {d \in Range(descs) : d.type = "SerialDesc" /\ d.name = "com1"}

find_console ==
  /\ At("console", "port")
  /\ serv' = [serv EXCEPT !.keyboard = "PS2Keyboard", !.serial = find_if("Port", SerialDescs)]
  /\ UNCHANGED <<tag_vars, core_vars, ctx, inited, sink, fuse, log_vars, uart_vars>>

\* The port is used without a test.
init_port ==
  /\ At("port", IF serv.serial = 0 THEN "wild" ELSE "sink")
  /\ IF serv.serial = 0 THEN UNCHANGED <<uart, inited>>
     ELSE uart' = programmed(uart) /\ inited' = TRUE
  /\ UNCHANGED <<tag_vars, core_vars, ctx, serv, sink, fuse, log_vars, wire>>

\* setup_logging logs three empty lines before there is a sink.
setup_sink ==
  /\ At("sink", "framebuffer")
  /\ log(sink, <<"\n", "\n", "\n">>)
  /\ sink' = "boot"
  /\ UNCHANGED <<tag_vars, core_vars, ctx, serv, inited, fuse, uart_vars>>

load_tag(t) == find(t) \in Slot

valid(fb) ==
  /\ fb.addr # 0 /\ fb.bpp = 32
  /\ fb.width > 0 /\ fb.height > 0 /\ fb.pitch >= fb.width * 4

\* GRUB may give a framebuffer of another depth than the one asked for.
setup_boot_fb ==
  /\ At("framebuffer", "context")
  /\ \E fb_tag \in FbTags :
       serv' = IF load_tag(Framebuffer) /\ valid(fb_tag)
               THEN [serv EXCEPT !.framebuffer = fb_tag] ELSE serv
  /\ UNCHANGED <<tag_vars, core_vars, ctx, inited, sink, fuse, log_vars, uart_vars>>

make_basic_mem == IF load_tag(BasicMeminfo) THEN 1 ELSE ctx.upper_mem_kb

make_mem_map == IF load_tag(Mmap) THEN "regions" ELSE "null"

get_cmdline == IF load_tag(Cmdline) THEN "tag" ELSE "null"

get_bootloader_name == IF load_tag(BootloaderName) THEN "tag" ELSE "null"

make_context ==
  /\ At("context", "memory")
  /\ ctx' = [ctx EXCEPT
       !.upper_mem_kb    = make_basic_mem,
       !.memory_map      = make_mem_map,
       !.cmdline         = IF get_cmdline # "null" THEN get_cmdline ELSE "<none>",
       !.bootloader_name = IF get_bootloader_name # "null" THEN get_bootloader_name ELSE "Unknown"]
  /\ UNCHANGED <<tag_vars, core_vars, serv, inited, sink, fuse, log_vars, uart_vars>>

\* panic_impl: the first line is kept open.
panic(text) ==
  /\ log(sink, log_msg(<<"\n", "KERNEL_PANIC", "\\">>, <<>>)
               \o log_msg(text, <<>>)
               \o log_msg(<<"at", "%", "s", ":", "%", "d">>, <<<<"file">>, 1>>))
  /\ pc' = "halted"

\* No usable memory leaves no frame for init_kernel_space.
setup_paging ==
  /\ pc = "memory" /\ pending = <<>>
  /\ \/ /\ ctx.memory_map # "null" /\ pc' = "map"
        /\ ctx' = [ctx EXCEPT !.ram_start_addr = "bump"]
        /\ serv' = [serv EXCEPT !.paging = "paging"]
        /\ UNCHANGED log_vars
     \/ panic(<<"Initializing_kernel_space_failed">>) /\ UNCHANGED <<ctx, serv>>
  /\ UNCHANGED <<tag_vars, core_vars, inited, sink, fuse, uart_vars>>

\* The framebuffer is used without a test.
map_framebuffer ==
  /\ pc = "map" /\ pending = <<>>
  /\ \/ serv.framebuffer = NoFramebuffer /\ pc' = "wild" /\ UNCHANGED log_vars
     \/ serv.framebuffer # NoFramebuffer /\ pc' = "fuse" /\ UNCHANGED log_vars
     \/ serv.framebuffer # NoFramebuffer /\ panic(<<"Failed_to_map_framebuffer">>)
  /\ UNCHANGED <<tag_vars, core_vars, serv_vars, uart_vars>>

kernel_fuse_set ==
  /\ pc = "fuse" /\ pending = <<>>
  /\ IF fuse THEN panic(<<"Tried_to_enter_kernel_more_than_once">>)
             ELSE pc' = "kernel_sink" /\ UNCHANGED log_vars
  /\ fuse' = TRUE
  /\ UNCHANGED <<tag_vars, core_vars, ctx, serv, inited, sink, uart_vars>>

setup_logging ==
  /\ At("kernel_sink", "report")
  /\ IF serv.serial # 0 THEN sink' = "kernel" /\ log(sink, <<"\n", "\n", "\n">>)
                   ELSE sink' = "null" /\ UNCHANGED log_vars
  /\ UNCHANGED <<tag_vars, core_vars, ctx, serv, inited, fuse, uart_vars>>

\* The dump of the tags and the list of regions are one line each here.
report ==
  /\ At("report", "screen")
  /\ log(sink, log_msg(<<"%", "x", "=", "%", "p">>, <<0, 0>>)
               \o log_msg(<<"Booted_by", "%", "s">>, <<<<ctx.bootloader_name>>>>)
               \o log_msg(<<"Bootoptions:", "%", "s">>, <<<<ctx.cmdline>>>>)
               \o log_msg(<<"%", "d", "KiB">>, <<ctx.upper_mem_kb>>)
               \o (IF ctx.memory_map # "null" THEN log_msg(<<"memory_map">>, <<>>) ELSE <<>>))
  /\ UNCHANGED <<tag_vars, core_vars, serv_vars, uart_vars>>

\* hal::Framebuffer's fmt and log_self.
framebuffer_text(fb) ==
  log_obj(<<"w=", "%", "u", "h=", "%", "u", "bpp=", "%", "u", "pitch=", "%", "u", "v=", "%", "u", "brace">>,
          <<fb.width, fb.height, fb.bpp, fb.pitch, IF valid(fb) THEN 1 ELSE 0>>)

start_shell ==
  /\ pc = "screen" /\ pending = <<>>
  /\ IF serv.framebuffer = NoFramebuffer
       THEN panic(<<"No_framebuffer_provided_by_bootloader">>)
     ELSE IF serv.keyboard = "null" THEN panic(<<"No_keyboard_provided_by_bootloader">>)
     ELSE /\ pc' = "shell"
          /\ log(sink, log_msg(<<"Got_framebuffer", "%", "o">>, <<framebuffer_text(serv.framebuffer)>>))
  /\ UNCHANGED <<tag_vars, core_vars, serv_vars, uart_vars>>

Ended == pc \in {"shell", "halted", "wild"}

Boot ==
  \/ end_of_tags \/ register_devices \/ bind \/ find_console \/ init_port \/ setup_sink
  \/ setup_boot_fb \/ make_context \/ setup_paging \/ map_framebuffer
  \/ kernel_fuse_set \/ setup_logging \/ report \/ start_shell

Next == (\E t \in Key : read_tag(t)) \/ Boot \/ Write \/ Send

\* The CPU runs and the UART sends what it holds.
Fairness == WF_vars(Boot) /\ WF_vars(Write) /\ WF_vars(Send)

Spec == Init /\ [][Next]_vars /\ Fairness

-----------------------------------------------------------------------------
TypeOK ==
  /\ data \in [Slot -> [key : Key \cup {NullKey}, value : Val \cup {NullVal}, taken : BOOLEAN]]
  /\ item_count \in 0 .. Capacity
  /\ profile \in Profiles /\ tags_seen \in [Key -> 0 .. MaxModules]
  /\ Range(descs) \subseteq DescEntry /\ Range(bindings) \subseteq Binding
  /\ serv.framebuffer \in FbTags \cup {NoFramebuffer} /\ serv.serial \in 0 .. Len(bindings)
  /\ inited \in BOOLEAN /\ fuse \in BOOLEAN /\ sink \in {"null", "boot", "kernel"}

\* The types get_tag_map takes, those it is asked for, the tags it has taken.
Accepted == profile \cap 1 .. TagCount - 1
Asked    == Accepted \cup {Cmdline, BootloaderName, BasicMeminfo, Mmap, Framebuffer}
TagsRead == {tag \in Accepted \X (1 .. MaxModules) : tag[2] <= tags_seen[tag[1]]}

\* get_tag_map and load_tag: what find answers is the entry of that type with
\* the last tag of the type that was read, never another type's and never the
\* member of a null entry.  insert counts a displaced type again for every
\* repetition, so that full() may come before the slots are used up; but a type
\* is lost only from a list longer than the map.
FoundIsLatest ==
  /\ TypeOK
  /\ \A t \in Asked : LET i == find(t) IN
       /\ i # Stray
       /\ i \in Slot => data[i].key = t /\ data[i].value = tags_seen[t]
  /\ \A t \in profile \ Accepted : find(t) \notin Slot
  /\ \A t \in Accepted :
       tags_seen[t] > 0 /\ (\A i \in Slot : ~ (data[i].taken /\ data[i].key = t))
         => Cardinality(TagsRead) > Capacity

\* bind_all gives every binding an instance of its own, marked used, and
\* find_console takes com1, the port the log goes to.
ConsoleIsCom1 ==
  /\ \A i, j \in DOMAIN bindings :
       bindings[i].driver = bindings[j].driver /\ bindings[i].instance = bindings[j].instance => i = j
  /\ \A i \in DOMAIN bindings : bindings[i].instance \in used[bindings[i].driver]
  /\ inited => serv.serial # 0 /\ bindings[serv.serial].desc.name = "com1"

\* What the terminal makes of the bytes: a line feed and the carriage return
\* before it are the end of a line.
Text(bytes) ==
  LET shown[k \in 0 .. Len(bytes)] ==
        IF k = 0 THEN <<>>
        ELSE LET before == shown[k - 1]
             IN  IF bytes[k] # "\n" THEN Append(before, bytes[k])
                 ELSE Append(SubSeq(before, 1, Len(before) - 1), "\n")
  IN  shown[Len(bytes)]

\* The wire carries the messages logged since set_sink in their order, each
\* line feed after a carriage return, at the rate the terminal reads: the busy wait
\* loses and doubles nothing, and init leaves no byte of its own behind.
WireIsTheLog ==
  LET bytes == wire \o uart.data \o pending
  IN  /\ Text(bytes) = said
      /\ \A i \in DOMAIN bytes : bytes[i] = "\n" => i > 1 /\ bytes[i - 1] = "\r"

\* The shell starts only where the boot loader gave a framebuffer the kernel
\* found and a memory map it could use; entered once, with the kernel's sink.
ShellHasWhatItUses ==
  pc = "shell" => /\ find(Framebuffer) \in Slot /\ find(Mmap) \in Slot
                  /\ valid(serv.framebuffer) /\ ctx.memory_map = "regions"
                  /\ fuse /\ sink = "kernel"

\* Once the list of tags has ended the kernel gets to a shell that has what it
\* uses, to a panic or to the missing framebuffer, and everything it said is sent.
BootEnds == (pc # "tags") ~> (Ended /\ ShellHasWhatItUses /\ Text(wire) = said)
=============================================================================
