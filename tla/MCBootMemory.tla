---------------------------- MODULE MCBootMemory ----------------------------
(***************************************************************************)
(* Machines for BootMemory, scaled down: 4-byte pages, 512 addresses, page *)
(* tables of 64 bytes.  Conventional memory ends at 26 (inside page 6),    *)
(* the device hole at 32 where the kernel starts, RAM at 240.              *)
(***************************************************************************)
EXTENDS BootMemory

Entry(t, b, l) == [type |-> t, base |-> b, length |-> l]

\* As firmware reports it; a second list out of order with ACPI and bad
\* memory; one with memory above 4 GiB that truncates onto address 0; one
\* with low memory reserved at the bottom; more entries than MaxRegions; too
\* little memory for anything, or for a directory only; no entry at all.
PcMap     == <<Entry(1, 0, 26), Entry(2, 26, 6), Entry(1, 32, 208)>>
MixedMap  == <<Entry(1, 32, 100), Entry(3, 132, 10), Entry(5, 142, 3), Entry(1, 0, 26)>>
LargeMap  == <<Entry(1, 0, 26), Entry(4, 26, 6), Entry(1, 32, 208), Entry(1, 512, 100)>>
BottomMap == <<Entry(4, 0, 16), Entry(1, 16, 12), Entry(1, 32, 208)>>
LongMap   == PcMap \o MixedMap
OneFrame  == <<Entry(4, 0, 12), Entry(1, 12, 4)>>
NoRam     == <<Entry(4, 0, 512)>>

TwoFrames == <<Entry(1, 12, 8)>>

AllMaps  == {PcMap, MixedMap, LargeMap, BottomMap, LongMap, OneFrame, TwoFrames, NoRam, <<>>}
GoodMaps == {PcMap, MixedMap, LargeMap, BottomMap, LongMap}

\* Inside one page table's span, across two, ending inside a page, and a
\* legacy one in the device hole, which the identity map covers already.
AllFramebuffers == {[phys |-> 384, bytes |-> 30], [phys |-> 380, bytes |-> 9],
                    [phys |-> 402, bytes |-> 3], [phys |-> 28, bytes |-> 4]}

WithoutFramebuffer == {NoFramebuffer}
=============================================================================
