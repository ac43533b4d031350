# aanOS in TLA+

aanOS is a small freestanding operating system for 32-bit x86, written in
C++20: it is booted by a Multiboot2 loader, sets up paging, a page frame
allocator and a heap, and runs a shell on a framebuffer console. It has one
thread of control: interrupts stay off, devices are polled, and nothing
preempts. What is hard about it is therefore not scheduling but bookkeeping:
cached positions and counters that must agree with the data they summarise,
address arithmetic at the edges of ranges, sequences of legal calls, resources
that run out, and the order in which the boot hands out memory.

This directory holds the models, the TLC configurations, and the TLAPS proofs.
`PROJECT.json` lists the runs with their properties, for each property a mutant
of the code that it rejects, the map from definitions to source lines, the
findings and the hazards. Source paths below are relative to `src/src/`.

## 1. Inventory

| Component | State | Operations | Hard part, and what makes it correct |
|---|---|---|---|
| **Page frame allocator** `kernel/memory/builtin/bm_page_frame_allocator` | bitmap (1 = used), scan hint, managed range | init, add_usable_range, reserve_range, alloc_frame, free_frame | Rounding and clamping of byte ranges, a cached hint, 0 as both an address and a failure. No frame has two owners, none is reserved memory, failure means full. |
| **Kernel heap** `kernel/memory/builtin/bm_heap`, `heap.cpp`, `global_hooks.cpp` | linked blocks: header, one id byte per division, divisions; remaining; id counter; the heap that is set | init, add_block, alloc, free, set_kernel_heap, new, delete | Neighbouring allocations are told apart by 8-bit ids only; one-pass scan; rounding of the number of divisions. Live allocations are disjoint and inside the arena, free releases exactly one. |
| **Boot memory set-up** `arch/x86/i386/boot/entry_point.cpp` | bump pointer, early page tables, memory map | make_mem_map, setup_paging, map_framebuffer, init_heap | The order of donations, reservations and allocations. Every frame has one owner, page tables are reachable, the boot ends. |
| **Paging** `arch/x86/i386/memory/paging` | page directories and tables in frames, CR3, the kmap slot; the TLB behind it | init_kernel_space, create_user_space, destroy_space, switch_to, map, unmap, translate, flush | Stale TLB entries, stale copies of kernel entries, partial failure of map_range, freeing the active space. |
| **GapBuffer** `libs/containers/gap_buffer.hpp` | array, gap_begin, gap_end, length, capacity | insert, delete_left, delete_right, move_left, move_right, move_to, operator[] | size_t subtractions that wrap, growth in place or by reallocation. It is a text with a cursor. |
| **Text area and TTY** `kernel/modules/ui`, `kernel/tty` | text, target and real cursor, line counter, scroll window | put_char, remove_last, move_cursor, redraw, scroll, readline | Cursor, line count and text are kept separately; the edited line and the displayed line are two copies. |
| **Shell** `kernel/shell` | command table | register_command, execute_line, run | Table and argument limits; prefix matching of options. |
| **Keyboard** `arch/x86/common/input`, `kernel/modules/input` | prefix flag, modifiers | poll_raw, poll, key_event_to_char | Multi-byte scan codes, two keys per modifier bit, lost bytes. |
| **FlatMap and Multiboot2 tags** `libs/containers/flatmap.hpp`, `kernel/boot/multiboot2` | open-addressing table, count | insert, find, remove, get_tag_map, load_tag | Probe chains, a counter beside the table. What is found is the latest tag of its type, and only long lists lose any. |
| **Driver core and serial port** `kernel/drv`, `arch/x86/common/drv` | descriptor, driver and binding tables; instance pool | add_desc, register_driver, bind_all, find_if, probe, write | Table limits; a busy wait that need not end. |
| **String** `libs/containers/string.hpp` | buffer, length, cap | assign, push_back, append, reserve | cap against the size of the allocation. |
| **Logging, panic, formatting** `kernel/logging`, `kernel/panic`, `klibc/vsnprintf` | sink pointer | log_msg, log_obj, set_sink, panic, vsnprintf | Conversions, lengths that share bits, small buffers. The wire carries what was logged, in order. |
| **Pure functions** `klibc`, `libs/math`, `abi/gcc` | none | powers of two, 64-bit division, mem and str functions | Overlap, wrapping shifts. Equality with reference definitions. |
| **Graphics, fonts** `kernel/modules/gfx` | pixels, position of the next glyph | clear, draw_rect, draw_byte, Window::draw, draw_glyph | Nothing is clipped, coordinates wrap. The screen shows what was drawn and nothing is written outside it. |
| **Outside the build** `bump_heap.cpp`, `io/serial.cpp`, `apps/editor`, `data_view.hpp` | | | Not compiled or not used. |

Interactions, all of them direct calls. `kmain` reads the tags through FlatMap,
binds the drivers, builds memory map, page tables, frame allocator and heap, and
enters the kernel. Paging takes frames from the allocator; nothing else does.
`new` goes to the heap; String and GapBuffer are its clients. The shell calls
`Tty::readline`, which polls the keyboard and edits both a String and the text
area; the text area keeps its text in a GapBuffer and redraws the canvas.

The hazards of the code, each at its line, are in `PROJECT.json` with the
properties that would catch them. Where the code runs into a hazard on its own
(an early clearing of a shared Shift bit, a line that is edited after Left), the
property allows what the code does and excludes the rest, and a note at the
hazard says which is which; five hazards no property is about carry a note alone.

## 2. Modules

| Module | What it is |
|---|---|
| `FrameStore` | Abstract frame allocator: free and owned sets, lowest frame first. |
| `PageFrameAllocator` | `BmPageFrameAllocator`; refines `FrameStore`. |
| `PageFrameAllocatorProofs` | Its theorems. |
| `HeapScan` | The loop of `BmHeap::alloc` over one block, an iteration per step. |
| `HeapStore` | Abstract heap: a set of available bytes and of live allocations. |
| `BmHeap` | The heap's operations as atomic actions; refines `HeapStore`. |
| `KernelHeap` | `mem::alloc` and `mem::free` before and after the kernel sets its heap, and `new` and `delete`; EXTENDS `BmHeap`. |
| `BmHeapProofs` | The theorems of `BmHeap`, `KernelHeap` and `HeapScan`. |
| `BootMemory` | The memory part of the boot, over an INSTANCE of `PageFrameAllocator`. |
| `BootMemoryProofs` | Its theorems. |
| `PageMap` | Abstract address space: pages to frames with flags, and room for tables. |
| `Paging` | `i386::mem::Paging` on directories and tables in frames, with a TLB; its active space implements `PageMap`. |
| `PagingProofs` | Its theorems. |
| `TextBuffer` | Abstract text with a cursor. |
| `GapBuffer` | `ctr::GapBuffer`; refines `TextBuffer`. |
| `TextArea`, `Shell`, `Console` | The text area with the display on top of it; commands and tokenizer; `readline` and `run` over both. Each EXTENDS the one before. |
| `ConsoleProofs` | Their theorems. |
| `FlatMap` | `ctr::FlatMap` with the hash it computes for an integer key. |
| `DriverCore` | `drv::DriverCore` and the pool of the serial driver. |
| `Logging` | `vmsg_impl` and the number conversions, as operators from arguments to text. |
| `BringUp` | `kmain` and `Kernel::enter` over `FlatMap`, `DriverCore` and `Logging`, with the UART. |
| `Keyboard` | The user, the PS/2 keyboard and its controller, the driver that polls, the key map. |
| `BringUpProofs` | The theorems of `BringUp` with its parts and of `Keyboard`. |
| `StringBuffer` | `ctr::String`, two of them. |
| `Division` | `__udivmoddi4`, a loop iteration per step. |
| `ContainerProofs` | The theorems of `GapBuffer`, `StringBuffer` and `Division`. |
| `Library` | memory and string functions, powers of two and byte conversions, each call against its reference. |
| `Graphics` | Canvas, window and glyphs on the words of a framebuffer. |
| `Vsnprintf` | klibc's formatter, a character of the format per step. |
| `Arithmetic` | Lemmas about division, products, least elements, induction and recursion that the proofs share. |
| `MC*` | Instances for TLC. |

Calls do not interleave in this kernel, so an operation is one action. The
exceptions are the places where the steps inside an operation are the question:
the loops of `HeapScan`, `Division` and `Vsnprintf`, and the boot, where each
statement group is a step (`BootMemory`, `BringUp`). What does run beside the
CPU is the hardware: the TLB in `Paging`, the UART in `BringUp`, the keyboard
and its controller in `Keyboard`.

### Page frame allocator

`used` is the set of set bits, `hint` the scan hint, and `phase` the stage of
`setup_paging`: donations, then page 0, then the other reservations, then
allocations. Addresses are words modulo `WordSize`, so `align_up` and
`start + len` wrap as they do on the machine. The ghosts `handed`, `usable` and
`reserved` record what the clients hold and what was donated and reserved in
bytes, independently of the code's rounding. Clients free what they were handed
and, in addition, addresses that are no managed frame, which the code ignores;
freeing a frame twice is outside the model, because `free_frame` cannot tell and
no caller does it.

### Kernel heap

`BmHeap` keeps for each block its id bytes (`0` is free) and `remaining`, and
the id counter. Arenas do not overlap (`ApartAssumption`; the kernel has one).
Clients free what they hold and, besides, pointers no block contains, nullptr
among them (`StraysAssumption`), which `free` ignores. A block's geometry is computed from arena and division size as
`add_block` does. `live` is a ghost: the client's view of each allocation. A
panic in `add_block` or `free` sets `panicked`, after which nothing runs; that
is why deadlock is not checked. The id space is scaled: `MaxId` ids instead of
255. The passing run allocates at most `MaxId` times, so ids are distinct; the
run `heap_id_wrap` lifts this budget and shows what the wrap does.
`KernelHeap` adds what stands between the heap and its clients: the pointer
kmain sets after the heap is initialised, before which nothing can be allocated
and frees are ignored, and the operators. `operator new` panics on nullptr and
`operator new[]` spins (an empty request included); both end the run.

### Boot memory

`pc` is the part of `kmain` that runs next. The firmware map and the
framebuffer are the machine, chosen in `Init`; image size and boot information
are constants. `regions` is `ctx.memory_map`; `bump`, `cr3`, `pd` are the code's;
`pte` is the content of the page tables that the active directory names, which
init_kernel_space shares by copying the directory. The allocator's actions are
those of `PageFrameAllocator`. Zeroing of tables, the kmap window used for it
and page flags are left out. A dereference of a null `serv.framebuffer` is the
outcome "crash"; no memory-map tag is the empty map.

### Gap buffer

The state is the object's: `store`, `capacity`, `gap_begin`, `gap_end` (as
offsets) and `length`. New arrays hold `Junk`. `grown` is `grow`; `insert` and
`move_right` continue on its result in the same action. `clp2` is the smallest
power of two that is at least its argument. `Spec` has the operations the text
area calls; `delete_right`, which has no caller and whose clamp can wrap, is
left out.

### Paging

`mem` is the content of the frames the identity map reaches: the early
directory and tables and the frames of the allocator. A frame that was never
cleared holds entries that look present, so that a missing clear shows. Every
access of the code through the kmap window is one of `mem`, by the translation
in the TLB if there is one. `tlb` holds translations that are no longer what
the tables say: when an entry changes, the processor may have kept the old one
or not. `map` and `unmap` leave invalidation to their callers; `dirty` is the
client's record of what it has not flushed. Switching to a user space loses the
identity map the kernel runs in; this is the end of the behaviour ("stopped").
Clients map and unmap ranges that meet neither the identity map nor the window
(`RangesAssumption`), as `entry_point.cpp` does for the framebuffer: `map_range`
does not guard the early tables, and through them a client could change what
the kernel runs on. `PagingAssumption` is the layout `setup_paging` leaves: the
early directory, the early tables and the table of the window are different
frames, and none of them is in the allocator. `ImplementsPageMap` states that every step of the kernel that leaves it running
is one of `PageMap` on what `translate` answers: no operation on tables or on
other spaces shows.

### Console

The text area is a record and its operations are operators, because `readline`
and the commands apply several of them in one step. The text is a sequence with
a gap, which `GapBuffer` is shown to implement. `target` is the cursor the code
computes in columns and lines (as words, so that it wraps), `real` the one it
draws. `first` and `follow` are the scroll window; `cells` and `last_pixel` say
where a redraw writes. In `Console` a key is one action, `Enter` hands the line
to `Execute`. `pressed` records which cursor keys the line has seen: the
agreement of display and command holds without `Left`, and that is what
`ShownIsExecuted` says; its second half, that the prompt is kept, holds up to a
Backspace after `Left`. Texts the kernel only prints are short
constants, and the texts of a run come from a small set `Char`. `raw_mode` is never set, so Up and Down do nothing.

### Bring-up

`BringUp` follows `kmain` by `pc`: tags, devices, binding, console, sink, frame
buffer, context, memory, kernel. `data` and `item_count` are the FlatMap's, with
the homes its 32-bit hash gives. `find` has its last test the wrong way round,
which the model keeps: a tag whose home is taken by another is not found, and
inserting it again counts it again. The tags a loader passes come in any order.
A text that is logged becomes bytes in `pending`, written one at a time when the
UART's holding register is empty; the UART sends them on its own, and what it
sends is readable only at the rate and format the terminal has. Texts are
sequences of characters and of words that count as one (`LogChar`). `serv` and `ctx`
are `KernelServices` and `BootContext`. Memory is `BootMemory`'s subject: here
`setup_paging` and `map_framebuffer` succeed or panic. "wild" is a call through
a null pointer: no com1, or no framebuffer (`boot_no_framebuffer` shows the
latter as a violation).

`Keyboard` has the user press, repeat and release keys, the keyboard send the
bytes of set 1 in groups, the controller keep `QueueSize` of them and drop the
rest, and the driver read one at a time. `due` says for each group that has
arrived which event it should become and whether a loss may have spoilt it.
Shown: an event is that of its key unless a byte of its group or of the group
before was lost; without losses no modifier outlives its keys. The converse is
not claimed: releasing one of two Shift keys clears the bit they share.

### The parts below the kernel

`StringBuffer` keeps for each string its array, length and capacity. Copy
assignment takes the size of the array for the capacity; such a string later
writes its NUL one byte past the array, and `StringIsText` says that this is
all that is ever written outside. `Library` has a call at a time: every move in
a small memory, every comparison of short strings, every number of a small word.
`CallsMatchReference` collects what each function is for. Its part
`ComparesLikeC` compares `memcmp` and `strncmp` with C's, on unsigned bytes, and
names the two exceptions of `strncmp`: it does not stop at a NUL, and as `char`
is signed its sign is the opposite of C's when one of the two bytes that differ
is in the upper half and the other is not. The callers only test for 0. `Graphics` draws unclipped on a flat memory. A glyph at the right edge
runs into the next row; a window border above the upper edge is dropped because
its row wraps. `Vsnprintf` is third-party code in the build that the kernel does
not call. Its formats are pieces with the text C promises for each, so that the
automaton is compared with their sum; where the comments of the source promise
less (precision is ignored, there is no floating point) or more (a `b` before
`%#b`), the promise is theirs. The code does not keep all of them.
`PrintsItsPieces` says of each exception what it does instead (`prints` and
`takes`): `%hd` takes two words because the test for wide numbers shares a bit
with `h`; `.*` leaves its star to be printed and takes no number; `+` marks
unsigned numbers, `#` marks a zero and does not mark a binary number; a
`long long` is cut to 32 bits and a `char` is not; a `%c` of NUL ends the format,
and a format that ends inside a directive (undefined in C) returns one less.
After the exceptions in `Final` the arguments no longer match the directives or
the format is over, so such a piece comes last.

## 3. Runs

| Run | Shows | Bounds |
|---|---|---|
| `frame_allocator` | Refinement, hint, failure answer, no double allocation, no reserved frame handed out | 9 frames of 4 bytes, 8 of them with a bit, 64 addresses, 8 donated and 5 reserved ranges |
| `heap_scan` | The scan finds the leftmost fit and only then misses; it ends | all 7-division blocks, 9 alignment patterns, all sizes |
| `heap` | Id bytes describe the live allocations; refinement of `HeapStore` | two blocks, one refused, as many ids as allocations |
| `heap_id_wrap` (violation) | After the id wraps, one free releases two neighbours and the second, correct, free panics | two ids |
| `heap_arena_end` (violation) | Divisions are rounded up past the end of the arena | |
| `boot_memory` | Frames given to paging have one owner and are RAM; tables reachable; framebuffer mapped; panic only without frames, otherwise boot reaches the kernel | 9 firmware maps, 4 framebuffers |
| `boot_heap_mapped` (violation) | The tail of the heap lies above the identity map | |
| `boot_no_framebuffer` (violation) | The null framebuffer is used before it is reported | |
| `paging` | Every frame has one role and none is lost; user spaces hold what the kernel has; only client changes go stale; the active space is a plain map of pages | 5 entries per table, 4 frames for the allocator or none, 2 pages to map, ranges of 2 |
| `console` | The line shown is the line executed; the prompt is kept; cursor, text and window agree; the machine stops only on request; the tokenizer | 3 lines of 1, 3 and 0 characters with any erasing and moving, 3 columns, 2 visible lines |
| `bring_up` | Tags found are the latest; nothing lost from short lists; the console is com1; the wire carries the log; the shell has what it uses; the boot ends; keys and modifiers | 6 boot loaders, up to 21 modules, 22 slots, 2 ports; 3 key events of 6 keys, queue of 2 bytes |
| `gap_buffer` | The parts below the kernel, each by itself: refinement of `TextBuffer`, strings, division, library, graphics, formatting | see below |

A property that is a conjunction has named or commented parts: `HeapConsistent`
(the ids, the neighbours, the separation of live allocations, the count),
`CallsMatchReference`, and the invariants that begin with their module's
type invariant `TypeOK` (`TablesReachable`, `ReadsAreText`, `CursorIsGap`,
`FramesHaveOneRole`, `FoundIsLatest`). Type correctness of `HeapScan` is part of
its proved invariant and not checked again.

Bounds of `gap_buffer`: a gap of 2 in arrays of 4, 8 and 16 and texts to 5; two
strings to 3 characters; dividends to 15; 7 bytes of memory in words of 2; 5-bit
numbers; two drawings on 6 by 5 pixels; formats of one or two of 26 pieces,
buffers of 0, 2 and 8 characters, 0 or -1 behind the arguments.

Why the bounds are enough. The allocator's code distinguishes a range's ends
relative to a frame boundary, to the base and to the managed end; the ranges
cover inside, across, at, beyond, empty and wrapping for both ends. The base is
0, as in `setup_paging`; the proofs cover any base. The scan depends on a block only through used bits and alignment, and all
blocks of seven divisions are enumerated. The heap's blocks have room for three
neighbours and for a hole between them, which is what merging and splitting
need. The boot's scaled machine keeps the relations of the real one: the device hole
below the kernel, the boot information in low memory where allocation would
otherwise start, a limit set by the slack (the violation runs have one set by
the minimum), a framebuffer that needs zero, one or two page tables. The gap buffer reaches both forms of growth, a suffix
shorter and longer than the gap, and two reallocations. The paging run has a
kernel entry and a user entry besides the window, and frames for two spaces and
their tables or for none, so that every allocation fails in some behaviour. The
console wraps lines, scrolls by two, deletes newlines and asks the cursor beyond
every end. The boot loaders of `bring_up` are chosen by the homes of their tags:
a plain PC, one whose tags share homes, a list of modules that fills the map by
being counted again, lists without memory map or without framebuffer. The drawn
window fills the screen (its border wraps on all sides) or lies inside; glyphs
start at every pixel of the line.

What the boot runs do not hide: the frames under the heap are free in the
allocator, and the donation of a partly usable page or of a truncated region
above 4 GiB makes doubtful frames free. `FramesHaveOneOwner` and `FramesAreRam`
hold because a boot takes at most one directory and a few page tables, the
lowest frames first, and low memory has more (158 frames on a PC, three in
the model). On a machine whose firmware keeps all low memory, or in a kernel
that maps much more after the boot, both would fail; neither is among the
inputs. The theorems state this as a hypothesis (`EnoughLowRam`, section 4).

Fairness is the same assumption everywhere: one processor with interrupts off
executes straight-line code, so a step that can be taken is taken: `WF_vars(Next)`
in `BootMemory`, the same in `HeapScan`, the loops of `Division`, and in `BringUp` the
steps of the CPU (`Boot`, `Write`). There the UART is assumed to send what its
register holds (`Send`), which is what it does without flow control; `BootEnds`
depends on it, for `write_raw` waits without a limit. Nothing is assumed of the
boot loader beyond its list being finite, and nothing of the user. Deadlock is
not checked where the modelled program ends or halts (scan, boot, panic, the end
of the budget of keys).

## 4. Proofs

TLAPS checks the following for all values of the constants that satisfy the
named assumptions.

`PageFrameAllocatorProofs`, from `GeometryAssumption` (the managed range lies in
the address space) and `RangesAssumption` (reserved ranges do not end in the
last page; donated ranges are arbitrary). The inductive invariant adds to the
checked ones that nothing is handed out before the phase "run", that page 0 is
reserved from the phase "reserve" on, and that every clear bit is that of a
usable frame outside the reserved ones. The lemmas show that the frames the
clamped index range names are exactly those that the byte range touches; from
there each action is a set argument. Theorems: type correctness,
`NothingFreeBelowHint`, `HandedIsUsed` (no double allocation), `HandedIsUsable`,
`ZeroMeansFull`, and the refinement of `FrameStore`. The hint is what makes the
refinement non-trivial: the scan starts at it, and only since nothing is free
below it does the code allocate the lowest frame.

`BmHeapProofs`: the scan, for every block size, request and alignment pattern. The
invariant `ScanInv` says that the current run is unused, starts at an aligned division and
cannot be extended to the left past an aligned start, and that no fit starts
before it. Theorems: the scan returns the leftmost fit, and it gives up only
when there is none.

`ContainerProofs`: division, for every word width. Quotient times divisor plus rest is the
dividend at every step of both loops, and the shifted divisor and its multiple
never exceed the word (`LoopsKeepInvariant`), so nothing wraps; what is returned
is quotient and remainder (`DivisionIsExact`). That `tmp` is `den * mult` is the
part of the invariant the subtraction needs.

`BmHeapProofs`, for any number of arenas, sizes, division sizes and requests,
from `ArenaAssumption`, `BoundsAssumption`, `ApartAssumption` and
`StraysAssumption`. `HeapInv` (theorem `HeapInvariance`) is the shape of the
block list and the id arrays, `RemainingExact`, and, as long as no id has been
given out twice (`IdsFresh`), `Owned`: the last id is the number of allocations,
the live allocations have different ids, and a division is used if and only if
it carries the id of one of them. `free` clears a run of equal ids; that this
run is the allocation, no more and no less, is what different ids are needed
for, and that is why `HeapConsistent` alone is not inductive. That `remaining`
is exact rests on the run being counted once. Theorems:

- `HeapStaysConsistent` and `FreshIdsNeverDoubleFree`, while ids are fresh;
- `NullOnlyWhenNothingFits` and `NewNeverReturnsNull`, at any time;
- `HeapRefinement`: if ids stay fresh, the heap behind the hooks and operators
  implements `HeapStore`.

The hypothesis `IdsFresh` is `allocs <= MaxId`, 255 allocations on the machine.
It cannot be dropped: `heap_id_wrap` is the counterexample. It holds in every
behaviour with an `AllocBudget` of at most `MaxId`, the `heap` run among them.

`PagingProofs`, for any number of entries, identity map, pool of frames and
length of ranges, from `PagingAssumption` and `RangesAssumption`. `PagingInv`
(theorem `PagingInvariance`) is `Good`: the kernel's directory, the tables it
names outside the identity map, the user directories and the free frames are
disjoint and together the pool; no two entries name one table; an entry that is
not present is zero; a user directory has in each entry nothing or, in the
kernel half only, what the kernel has; the window is closed between operations.
The checked invariants speak of the present; that a closed window and zeroed
entries survive every failure is what has to be added for the next `ensure_pt`
or `destroy_space`. An operation is a chain of values of one record
(`MachineOK`), and each helper of the code has a lemma that says what it does to
it. The loops of `map_range` and `unmap_range` are recursive functions; since
induction theorems are out of reach, the lemmas about them take the least length
for which the claim fails (`LeastNat`) and contradict it. Theorems:
`EveryFrameHasOneRole`, `UserSpacesStayWithinKernel`, `TlbStaysCurrent`, and
`PagingRefinement`, which shows with the invariant that each step is one of
`PageMap` on what `translate` answers. `PagingInv` was checked by TLC on the
`paging` instance before it was proved.

`ContainerProofs`: the containers. The gap buffer, from `GapAssumption` (the initial capacity
holds a gap; there is a power of two for every size that is asked for, below the
word size, so nothing but the test in `move_right` wraps): `GapInv` says that
prefix, gap and suffix fit in the array in this order and every index outside
the gap holds a character. Each operation is described by what it does to the
text, one index at a time (`Inserted`, `Deleted`, `Kept`), whichever form of
growth it takes; from that follow `ReadsAlwaysText` and `GapBufferRefinement`,
by two lemmas on splicing and cutting sequences. Strings need no assumption:
`StringInv` adds to `StringIsText` how long the array is for a given capacity,
one more, or as many if copy assignment made it. This is what `grow_for` and
`append` rely on and what makes `StringsAreText` provable: the NUL can miss the
array by one byte and only there. Views may have any length up to `MaxText`.

`ConsoleProofs`, for any characters, prompt, command names, separators, limits and
displays, any number of lines and any keys in any order. The assumptions are typing and
`DisplayAssumption`: the display holds a line, and what a glyph sticks out on the right
is no longer than the rows of pixels between two lines (with the kernel's 8 by 16
font and gaps of one pixel, any display of 16 by 17 pixels and more). The theorems have the
hypothesis `[]TextIsShort`: the text has at least three characters less than a `uint32_t`
counts, which any text that fits a 32-bit machine has. It holds throughout the `console`
run, whose words are wide enough for its texts. `ConsoleInv` (theorem `Invariant`), which TLC
checked on that instance before it was proved, says:

- `AreaInv`: the gap lies in the text; whenever no line is being read the cursor
  is at the end of the text, and the text ends with a newline; after a redraw the line count
  and the window are those of the text (`Drawn`), which is what `move_cursor` and the
  scrolling rely on, for they use the count of the last redraw.
- `ReadInv`, by the keys the line has seen. Until a Backspace after a Left the prompt is
  whole and the cursor is behind it on the last line (`OnLine`); there its column is the one of the gap or,
  at the end of the text, one more, for Right moves the column past the last character,
  and this is why `CursorIsGap` excludes Right. Until a Left the text ends with
  prompt and line (`Shows`). While neither was pressed the column is exact.

After a Backspace in front of the prompt nothing is known of the line, and the column may have
wrapped; `Enter` then still finds the end, because `move_end` asks for the last line and
`move_cursor` clamps both coordinates (`MoveEndIs`). `PromptsAtEnd` rests on that.
`WindowStaysInside` needs where a line is cut (`DrawEnd`): a drawn column is
at most `columns`, one past the last on the display, so the glyph runs into the rows below the
line and not past the gap. `StopsWhenAsked` compares the tokenizer, a recursive function
over the line, with the definition of its words (`Told`, by `Induction`) and follows a line
through the command table to `strncmp`.

`BootMemoryProofs`, for every image, boot information, memory map and
framebuffer, from `LayoutAssumption` and `MachineAssumption`. The layout the code
justifies by its constants: the addresses are words of whole pages and tables,
the identity limit stays below the window's table, and
`EarlySlack`, 16 MiB, has room for what the boot puts behind the image: a page table
for every directory entry, the bitmap and their rounding. `BootInv` (theorem
`BootInvariant`) says where each of these lies, that the allocator's own
invariants hold (by the theorems of `PageFrameAllocatorProofs`, taken over the
INSTANCE), which directory entries and page table entries are filled so far, and that
each table is written where the identity map has it. Theorems:

- `BootTables` (`TablesReachable`), `BootPagesAreKept` (no frame given to paging
  holds a byte of the image, the boot information or the early tables, whatever the
  firmware claims) and `BootPanicsWhenFull`, for every machine;
- `LowFramesHaveOneOwner` and `LowFramesAreRam`, for machines with `EnoughLowRam`:
  below some page, under the heap, every donated frame is RAM and as many
  of them are free as the boot takes at most. It cannot be dropped: the heap is not reserved,
  partly usable pages are donated whole and truncated entries are donated at the
  wrong place, so that only the order of allocation, lowest first, keeps
  paging away from all three (`LowInvariant`). TLC confirms the hypothesis for
  the five well-formed memory maps of the run, with each framebuffer.

`BringUpProofs`, for every number of slots, tag types, boot loaders' profiles,
drivers, boards, table sizes and framebuffers, from `FlatMapAssumption` (tag
types are 16-bit numbers), `TagsAssumption` (the map has a slot more than there are
types), `DriverAssumption`, `BoardAssumption` and `FbTagsAssumption`. The parts of
`BringUpInv`, which TLC checked on the instance before they were proved
(theorem `BringUpInvariant`):

- `TagInv`. No slot between an entry's home and the entry is free (`Chains`), an entry
  at home has the last tag of its type, and the count is at most the number of tags
  read, although `insert` counts a displaced type again. `Module` is the
  only type that is repeated; while it is unread or at home the count is at most the number
  of types (`Counted`), and this is why a type is lost only from a list longer
  than the map (`Lost`). That `find` never answers the member of a null entry
  (`NeverStray`) rests on the spare slot: a probe that meets
  neither its key nor a free slot would need more types than there are. The homes are
  proved to be slots from the hash's own arithmetic on bits. With it:
  `TagsFoundAreLatest`.
- `CoreInv` and `ConsoleInv`: no two bindings share an instance and each is marked used,
  kept by the two nested loops of `bind_all` (recursive functions, by the lemmas
  `Induction` and `Recursion` of `Arithmetic`). With it: `ConsolePort`.
- `WireInv`: the bytes sent, held and pending are together what the log is on the wire.
  For this every format the boot uses is shown to give a text, number conversions included
  (`Formatted`, `PrintUint`), and `init` to leave the registers as the terminal
  needs them. What the terminal then reads is the log (`WireIsRead`). With it:
  `WireCarriesTheLog`.
- `ShellInv`: what each stage of the boot has found. With it: `ShellHasItsServices`.

The same module has the keyboard, for any set of keys and any queue, from
`KeysAssumption` (the keys are those of `hal::Key`) and `ModifiersAssumption`.
`KeyboardInv` places the events that are due in the bytes the controller holds (`Lined`):
in order, one for each byte that is no prefix, and the sure ones are what `poll`
will make of that byte with the prefix before it. A lost byte spoils its group and
the next, and `Prefixes` says when the driver's flag is in step again. With it:
`KeyboardEvents`. For the modifiers `ModsInv` reads the events still to come into
the modifiers there are (`Reading`) and says that the result fits the keys that are down
(`Settled`): `NoStuckModifier` speaks of an empty queue only, which no step of a key leaves.
With it: `KeyboardModifiers`.

Only model-checked:

- `Library` (`CallsMatchReference`): each call is a loop over data against a reference
  by recursion, so a proof is one induction over data per function.
- `Graphics` (`ScreenShowsDrawings`) and `Vsnprintf` (`PrintsItsPieces`); the latter is
  in a module with a RECURSIVE operator, about which nothing can be proved here.
- Liveness (`ScanEnds`, `Boots`, `BootEnds`, `DivisionEnds`): fairness and
  ENABLED are out of reach of the prover's backends.
- The properties of the violation runs, which do not hold.

## 5. Not modelled

- Code that is not built or that nothing calls: `bump_heap.cpp`, `io/serial.cpp`,
  the editor, `DataView`, `HeapStorage`, the buffered and callback sinks;
  `GapBuffer::delete_right`, `FlatMap::remove` and its quadratic probe, reading
  and buffer writes of the serial port, `Canvas::draw_buffer`,
  `Tty::read_char_blocking` and what `raw_mode` would allow. `FlatMap::remove`
  would break probe chains and the count; its first caller should come with a
  model.
- The fonts (data), the assembly entry, the linker script, and the ABI stubs.
- The interfaces for interrupts and timers, which have no implementation, and
  the port writes behind reboot and shutdown, after which nothing runs.
- Within the modelled components: the arguments of panic messages, which
  `panic_impl` passes on wrongly (undefined behaviour whose only effect is on the
  text), the layout of Multiboot tags in memory, and colours beyond those drawn.

Constructors and destructors of kernel objects are part of `Init`; the kernel
never leaves the scope that holds them.

## 6. Plan

Done: the inventory, the models and runs above, and the proofs of the frame
allocator, the scan, the heap and its hooks, division, the containers, paging,
the boot's memory, the bring-up, the keyboard and the console. What remains is
proof, in this order:

1. `Graphics`: that a drawing outside a pixel leaves it alone.
2. `Library`: the powers of two and the byte conversions, which are no loops over data.
