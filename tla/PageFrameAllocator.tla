------------------------- MODULE PageFrameAllocator -------------------------
(***************************************************************************)
(* BmPageFrameAllocator: one bit per physical page frame (1 = used) and a  *)
(* scan hint.  Addresses are words of WordSize values, so align_up and     *)
(* start + len wrap as uintptr_t does.                                     *)
(*                                                                         *)
(* The phases are those of setup_paging, the one place that builds the     *)
(* allocator: ranges are donated, page 0 is reserved ("Force nullptr to    *)
(* be invalid"), other ranges are reserved, and from then on frames are    *)
(* allocated and freed.  Clients free only what they were handed, plus     *)
(* the addresses of Strays, which free_frame must ignore.                  *)
(***************************************************************************)
EXTENDS Integers

CONSTANTS PageSize,       \* bytes in a frame (4096)
          WordSize,       \* number of values of uintptr_t (2^32)
          ManagedBase,    \* managed_base given to init
          Frames,         \* managed_frames given to init
          BitmapBytes,    \* bitmap_bytes given to init
          UsableRanges,   \* <<start, end>> pairs the memory map may donate
          ReserveRanges,  \* <<start, len>> pairs setup_paging may reserve
          Strays          \* addresses freed that are no managed frame

Addr == 0 .. WordSize - 1

align_down(v) == v - (v % PageSize)
align_up(v)   == align_down((v + PageSize - 1) % WordSize)

Base        == align_up(ManagedBase)
ManagedEnd  == (Base + Frames * PageSize) % WordSize
FrameAddr(i) == Base + i * PageSize
Index       == 0 .. Frames - 1
Bits        == 0 .. 8 * BitmapBytes - 1     \* the bits that exist

\* The managed range lies inside the address space: setup_paging manages the
\* early identity map, which starts at 0 and ends far below 4 GiB.
ASSUME GeometryAssumption ==
  /\ PageSize \in Nat \ {0} /\ WordSize \in Nat /\ Frames \in Nat
  /\ BitmapBytes \in Nat /\ ManagedBase \in Addr
  /\ Base \in Addr /\ Base + Frames * PageSize < WordSize
  /\ 2 * PageSize <= WordSize


VARIABLES used,       \* the set bits of the bitmap
          hint,       \* where alloc_frame starts to scan
          phase,      \* "donate", "reserve" or "run"
          ret,        \* address the last alloc_frame returned (0 = failure)
          handed,     \* ghost: indices of the frames clients hold
          usable,     \* ghost: frames with a byte of a donated range
          reserved    \* ghost: frames with a byte of a reserved range

impl  == <<used, hint>>
ghost == <<handed, usable, reserved>>
vars  == <<used, hint, phase, ret, handed, usable, reserved>>

\* Mutant: no bound check on the bitmap.
bit_set_unbounded(S)  == used \cup S

bit_test(i)    == i \notin Bits \/ i \in used
bit_set(S)     == used \cup (S \cap Bits)
bit_clear(S)   == used \ S

\* The clamped byte range mark_used and mark_free work on, as frame indices.
first_index(start) ==
  LET s == align_down(start)
  IN  ((IF s < Base THEN Base ELSE s) - Base) \div PageSize

last_index(end) ==
  LET e == align_up(end)
      c == IF e > ManagedEnd THEN ManagedEnd ELSE e
      l == (c - Base + PageSize - 1) \div PageSize
  IN  IF l > Frames THEN Frames ELSE l

\* Both early returns: nothing left after alignment, or after clamping.
is_empty(start, end) ==
  LET s == align_down(start)
      e == align_up(end)
      clampedS == IF s < Base THEN Base ELSE s
      clampedE == IF e > ManagedEnd THEN ManagedEnd ELSE e
  IN  e <= s \/ clampedE <= clampedS

index_range(start, end) ==
  IF is_empty(start, end) THEN {}
  ELSE first_index(start) .. last_index(end) - 1

index_of(addr) == (addr - Base) \div PageSize

in_managed(addr) ==
  addr % PageSize = 0 /\ addr >= Base /\ addr < ManagedEnd

\* Donated ranges are whatever the memory map says, wrapped ends included.
\* Reserved ranges (kernel, boot information, early tables) end below the
\* last page of the address space, so rounding their end up does not wrap.
ASSUME RangesAssumption ==
  /\ UsableRanges \subseteq Addr \X Addr
  /\ ReserveRanges \subseteq Addr \X Addr
  /\ \A r \in ReserveRanges : r[1] + r[2] <= WordSize - PageSize
  /\ Strays \subseteq Addr /\ \A a \in Strays : ~in_managed(a)

\* Ghost bookkeeping: the frames that meet [start, end).  A range that is
\* empty but lies strictly inside a frame counts: rounding outwards widens it
\* to that frame, in mark_free too.
Touched(start, end) ==
  {i \in Index : FrameAddr(i) < end /\ start < FrameAddr(i) + PageSize}

-----------------------------------------------------------------------------
\* init: all bits set; its own reserve_range of the bitmap sets bits that are
\* set already.
Init ==
  /\ used = Bits
  /\ hint = 0
  /\ phase = "donate"
  /\ ret = 0
  /\ handed = {} /\ usable = {} /\ reserved = {}

add_usable_range(start, end) ==
  /\ phase = "donate"
  /\ used' = bit_clear(index_range(start, end))
  /\ hint' = IF ~is_empty(start, end) /\ first_index(start) < hint
               THEN first_index(start) ELSE hint
  /\ usable' = usable \cup Touched(start, end)
  /\ UNCHANGED <<phase, ret, handed, reserved>>

\* Mutant: the last, partial page is not reserved.
reserved_bits_inward(start, len) ==
  bit_set(index_range(start, align_down((start + len) % WordSize)))

\* mark_used(start, start + len), the sum a word; a length of 0 returns early.
reserved_bits(start, len) ==
  IF len = 0 THEN used
  ELSE bit_set(index_range(start, (start + len) % WordSize))

\* Mutant: page 0 is not reserved.
reserve_null_empty ==
  /\ phase = "donate"
  /\ phase' = "reserve"
  /\ UNCHANGED <<used, hint, ret, handed, usable, reserved>>

\* The first reservation: page 0, so that no frame has the address nullptr.
reserve_null ==
  /\ phase = "donate"
  /\ phase' = "reserve"
  /\ used' = reserved_bits(0, PageSize)
  /\ reserved' = reserved \cup Touched(0, PageSize)
  /\ UNCHANGED <<hint, ret, handed, usable>>

reserve_range(start, len) ==
  /\ phase = "reserve"
  /\ used' = reserved_bits(start, len)
  /\ reserved' = reserved \cup (IF len = 0 THEN {} ELSE Touched(start, start + len))
  /\ UNCHANGED <<hint, phase, ret, handed, usable>>

\* The bits both scan loops test before they reach i: from hint up to the
\* end, then from 0 up to hint.
scanned_before(i) ==
  IF i >= hint THEN hint .. i - 1 ELSE (hint .. Frames - 1) \cup (0 .. i - 1)

scan_hits(i) == ~bit_test(i) /\ \A j \in scanned_before(i) : bit_test(j)

\* Mutants: the bit is not set; the hint moves one frame too far.
alloc_frame_no_set ==
  /\ phase # "donate"
  /\ phase' = "run"
  /\ \E i \in Index :
       /\ scan_hits(i)
       /\ hint' = i + 1
       /\ ret' = FrameAddr(i)
       /\ handed' = handed \cup {i}
  /\ UNCHANGED <<used, usable, reserved>>

alloc_frame_skips ==
  /\ phase # "donate"
  /\ phase' = "run"
  /\ \E i \in Index :
       /\ scan_hits(i)
       /\ used' = bit_set({i})
       /\ hint' = IF i + 2 > Frames THEN Frames ELSE i + 2
       /\ ret' = FrameAddr(i)
       /\ handed' = handed \cup {i}
  /\ UNCHANGED <<usable, reserved>>

alloc_frame ==
  /\ phase # "donate"
  /\ phase' = "run"
  /\ \E i \in Index :
       /\ scan_hits(i)
       /\ used' = bit_set({i})
       /\ hint' = i + 1
       /\ ret' = FrameAddr(i)
       /\ handed' = handed \cup {i}
  /\ UNCHANGED <<usable, reserved>>

\* Neither loop finds a clear bit.
alloc_fails ==
  /\ phase # "donate"
  /\ phase' = "run"
  /\ \A i \in Index : bit_test(i)
  /\ ret' = 0
  /\ UNCHANGED <<impl, ghost>>

\* Mutant: a free does not pull the hint down.
free_frame_keeps_hint(addr) ==
  /\ phase = "run"
  /\ IF in_managed(addr) THEN used' = bit_clear({index_of(addr)}) ELSE UNCHANGED used
  /\ handed' = {i \in handed : FrameAddr(i) # addr}
  /\ UNCHANGED <<hint, phase, ret, usable, reserved>>

free_frame(addr) ==
  /\ phase = "run"
  /\ IF in_managed(addr) /\ index_of(addr) < Frames
       THEN /\ used' = bit_clear({index_of(addr)})
            /\ hint' = IF index_of(addr) < hint THEN index_of(addr) ELSE hint
       ELSE UNCHANGED impl
  /\ handed' = {i \in handed : FrameAddr(i) # addr}
  /\ UNCHANGED <<phase, ret, usable, reserved>>

Next ==
  \/ \E r \in UsableRanges : add_usable_range(r[1], r[2])
  \/ reserve_null
  \/ \E r \in ReserveRanges : reserve_range(r[1], r[2])
  \/ alloc_frame
  \/ alloc_fails
  \/ \E i \in handed : free_frame(FrameAddr(i))
  \/ \E a \in Strays : free_frame(a)

Spec == Init /\ [][Next]_vars

-----------------------------------------------------------------------------
TypeOK ==
  /\ used \subseteq Bits
  /\ hint \in 0 .. Frames
  /\ phase \in {"donate", "reserve", "run"}
  /\ ret \in Addr
  /\ handed \subseteq Index /\ usable \subseteq Index /\ reserved \subseteq Index

\* No bit below hint is clear: the donations and frees that clear a bit all
\* pull hint down to it.  It makes the second scan loop redundant and the
\* allocator lowest-address-first.
NothingFreeBelowHint == \A i \in 0 .. hint - 1 : bit_test(i)

\* The bit of a frame in a client's hands exists and is set, so no later scan returns it.
HandedIsUsed == handed \subseteq used

\* A frame handed out has usable memory in it and holds no byte of a range
\* setup_paging reserved: alignment, clamping and the order donate-then-reserve
\* never let an allocation reach the kernel, the boot information or page 0.
HandedIsUsable == handed \subseteq usable \ reserved

\* alloc_frame answers 0 exactly when no frame is free, although 0 is also
\* the address of frame 0: the reservation of page 0 keeps the two apart.
ZeroMeansFull ==
  [][alloc_frame \/ alloc_fails =>
       (ret' = 0 <=> \A i \in Index : bit_test(i))]_vars

FreeFrames == {i \in Index : ~bit_test(i)}

Store == INSTANCE FrameStore WITH
  Frame   <- Index,
  Nothing <- -1,
  free    <- FreeFrames,
  owned   <- handed,
  answer  <- IF ret = 0 THEN -1 ELSE index_of(ret)

\* Every behaviour of the bitmap allocator is one of the abstract store:
\* lowest free frame first, failure only when nothing is free, and a frame is
\* never owned twice.
ImplementsStore == Store!Spec
=============================================================================
