---------------------- MODULE PageFrameAllocatorProofs ----------------------
(***************************************************************************)
(* Proofs about PageFrameAllocator for every page size, word size, managed *)
(* range, bitmap size and choice of ranges.                                *)
(***************************************************************************)
EXTENDS PageFrameAllocator, Arithmetic, TLAPS

-----------------------------------------------------------------------------
(* Arithmetic of page numbers.                                             *)

\* 0 .. a - 1 grows with a.
LEMMA BelowIsMonotone ==
  ASSUME NEW a \in Int, NEW b \in Int, a <= b
  PROVE  \A i \in 0 .. a - 1 : i \in 0 .. b - 1
  BY SMT

\* align_down returns the page number times the page size.
LEMMA AlignDown ==
  ASSUME NEW v \in Int
  PROVE  /\ v \div PageSize \in Int
         /\ align_down(v) = PageSize * (v \div PageSize)
         /\ align_down(v) \in Int
         /\ align_down(v) <= v /\ v < align_down(v) + PageSize
<1>1. PageSize \in Nat \ {0}
  BY GeometryAssumption
<1>2. v % PageSize = v - PageSize * (v \div PageSize)
  BY <1>1, SMTT(30)
<1> QED
  BY <1>1, <1>2, DivBounds, ProductOrder DEF align_down

\* align_up returns a multiple of the page size at most one byte short of a
\* page above its argument; without wrap-around it is not below it.
LEMMA AlignUp ==
  ASSUME NEW v \in Addr
  PROVE  /\ align_up(v) \in Nat
         /\ \E n \in Nat : align_up(v) = PageSize * n
         /\ align_up(v) < v + PageSize
         /\ v + PageSize - 1 < WordSize => v <= align_up(v)
<1> DEFINE w == (v + PageSize - 1) % WordSize
<1>1. PageSize \in Nat \ {0} /\ WordSize \in Nat \ {0} /\ v \in Nat
      /\ v < WordSize /\ 2 * PageSize <= WordSize
  BY GeometryAssumption DEF Addr
<1>2. w \in Nat /\ w <= v + PageSize - 1
      /\ (v + PageSize - 1 < WordSize => w = v + PageSize - 1)
  <2>1. v + PageSize - 1 \in Nat
    BY <1>1
  <2>2. ASSUME NEW x \in Nat, NEW y \in Nat \ {0}
        PROVE  x % y \in Nat /\ x % y <= x /\ (x < y => x % y = x)
    BY SMTT(30)
  <2> QED
    BY <1>1, <2>1, <2>2
<1>3. align_up(v) = align_down(w)
  BY DEF align_up
<1> HIDE DEF w
<1>4. w \div PageSize \in Nat
  BY <1>1, <1>2, DivNat
<1>5. align_down(w) = PageSize * (w \div PageSize) /\ align_down(w) <= w
      /\ w < align_down(w) + PageSize /\ align_down(w) \in Int
  BY <1>2, AlignDown
<1>6. PageSize * (w \div PageSize) \in Nat
  BY <1>1, <1>4, SMT
<1> QED
  BY <1>1, <1>2, <1>3, <1>4, <1>5, <1>6

\* The managed range is a whole number of pages, starting at page BasePage.
BasePage == Base \div PageSize

LEMMA Managed ==
  /\ BasePage \in Nat /\ Base = PageSize * BasePage /\ Base \in Nat
  /\ ManagedEnd = PageSize * (BasePage + Frames)
  /\ \A i \in Int : FrameAddr(i) = PageSize * (BasePage + i)
<1>1. PageSize \in Nat \ {0} /\ WordSize \in Nat /\ Base \in Nat
      /\ Frames \in Nat /\ ManagedBase \in Addr
  BY GeometryAssumption DEF Addr
<1>2. PICK n \in Nat : Base = PageSize * n
  BY <1>1, AlignUp DEF Base
<1>3. BasePage = n
  <2>1. (PageSize * n + 0) \div PageSize = n
    BY <1>1, QuotientUnique
  <2> QED
    BY <1>1, <1>2, <2>1 DEF BasePage
<1>4. ManagedEnd = Base + Frames * PageSize
  <2>1. Frames * PageSize \in Nat
    BY <1>1, SMT
  <2>2. Base + Frames * PageSize \in Nat /\ Base + Frames * PageSize < WordSize
    BY <1>1, <2>1, GeometryAssumption
  <2> QED
    BY <1>1, <2>2, SMTT(30) DEF ManagedEnd
<1>5. \A i \in Int : PageSize * (n + i) = PageSize * n + i * PageSize
  BY <1>1, SMTT(30)
<1> QED
  BY <1>1, <1>2, <1>3, <1>4, <1>5 DEF FrameAddr

\* The loops of mark_used and mark_free visit exactly the managed frames
\* between the page of start and the rounded-up end.
LEMMA RangeForm ==
  ASSUME NEW start \in Addr, NEW end \in Addr, NEW up \in Nat,
         align_up(end) = PageSize * up
  PROVE  /\ index_range(start, end) =
              {i \in Index : start \div PageSize <= BasePage + i
                             /\ BasePage + i < up}
         /\ first_index(start) \in Nat
         /\ index_range(start, end) \subseteq first_index(start) .. Frames - 1
<1> DEFINE down == start \div PageSize
           lo == IF down < BasePage THEN BasePage ELSE down
           hi == IF up > BasePage + Frames THEN BasePage + Frames ELSE up
<1>1. PageSize \in Nat \ {0} /\ Frames \in Nat /\ start \in Int /\ end \in Int
  BY GeometryAssumption DEF Addr
<1>2. down \in Int /\ align_down(start) = PageSize * down
  BY <1>1, AlignDown
<1>3. BasePage \in Nat /\ Base = PageSize * BasePage
      /\ ManagedEnd = PageSize * (BasePage + Frames)
  BY Managed
<1> HIDE DEF down
<1>4. /\ lo \in Int /\ hi \in Int
      /\ (IF align_down(start) < Base THEN Base ELSE align_down(start)) = PageSize * lo
      /\ (IF align_up(end) > ManagedEnd THEN ManagedEnd ELSE align_up(end)) = PageSize * hi
  BY <1>1, <1>2, <1>3, ProductOrder
<1>quot. \A a \in Int : /\ (PageSize * a + 0) \div PageSize = a
                     /\ (PageSize * a + (PageSize - 1)) \div PageSize = a
  BY <1>1, QuotientUnique
<1>5. first_index(start) = lo - BasePage
  <2>1. PageSize * lo - Base = PageSize * (lo - BasePage) + 0
    BY <1>1, <1>3, <1>4, ProductOrder
  <2>2. (PageSize * (lo - BasePage) + 0) \div PageSize = lo - BasePage
    BY <1>3, <1>4, <1>quot
  <2> QED
    BY <1>4, <2>1, <2>2 DEF first_index
<1>6. last_index(end) = hi - BasePage
  <2>1. PageSize * hi - Base + PageSize - 1 = PageSize * (hi - BasePage) + (PageSize - 1)
    BY <1>1, <1>3, <1>4, ProductOrder
  <2>2. (PageSize * (hi - BasePage) + (PageSize - 1)) \div PageSize = hi - BasePage
    BY <1>3, <1>4, <1>quot
  <2>3. hi - BasePage <= Frames
    BY <1>1, <1>3
  <2> QED
    BY <1>1, <1>3, <1>4, <2>1, <2>2, <2>3 DEF last_index
<1>7. is_empty(start, end) <=> up <= down \/ hi <= lo
  <2>1. align_up(end) <= align_down(start) <=> up <= down
    BY <1>1, <1>2, ProductOrder
  <2>2. PageSize * hi <= PageSize * lo <=> hi <= lo
    BY <1>1, <1>4, ProductOrder
  <2> QED
    BY <1>4, <2>1, <2>2 DEF is_empty
<1>8. first_index(start) \in Nat
  BY <1>2, <1>3, <1>5
<1>9. index_range(start, end) =
        {i \in Index : down <= BasePage + i /\ BasePage + i < up}
  BY <1>1, <1>2, <1>3, <1>5, <1>6, <1>7 DEF index_range, Index
<1>10. index_range(start, end) \subseteq first_index(start) .. Frames - 1
  BY <1>1, <1>2, <1>3, <1>5, <1>9 DEF Index
<1> QED
  BY <1>8, <1>9, <1>10 DEF down

\* Every frame a donation frees meets the donated range.
LEMMA FreedIsTouched ==
  ASSUME NEW start \in Addr, NEW end \in Addr
  PROVE  index_range(start, end) \subseteq Touched(start, end)
<1>1. PageSize \in Nat \ {0} /\ start \in Int /\ end \in Int
  BY GeometryAssumption DEF Addr
<1>2. PICK up \in Nat : align_up(end) = PageSize * up
  BY AlignUp
<1>3. align_up(end) < end + PageSize
  BY AlignUp
<1> DEFINE down == start \div PageSize
<1>4. down \in Int /\ start < PageSize * down + PageSize
  BY <1>1, AlignDown
<1>5. index_range(start, end) =
        {i \in Index : down <= BasePage + i /\ BasePage + i < up}
  BY <1>2, RangeForm
<1> HIDE DEF down
<1> SUFFICES ASSUME NEW i \in Index, down <= BasePage + i, BasePage + i < up
             PROVE  FrameAddr(i) < end /\ start < FrameAddr(i) + PageSize
  BY <1>5 DEF Touched
<1>6. i \in Int /\ BasePage \in Nat /\ FrameAddr(i) = PageSize * (BasePage + i)
  BY Managed DEF Index
<1>7. PageSize * down < PageSize * (BasePage + i + 1)
      /\ PageSize * (BasePage + i + 1) = PageSize * (BasePage + i) + PageSize
      /\ PageSize * (BasePage + i) \in Int /\ PageSize * down \in Int
  BY <1>1, <1>4, <1>6, ProductOrder, SMTT(30)
<1>8. PageSize * up = PageSize * (BasePage + i + 1)
      \/ PageSize * (BasePage + i + 1) < PageSize * up
  BY <1>1, <1>6, ProductOrder
<1>9. PageSize * up \in Int
  BY <1>1, ProductOrder
<1> QED
  BY <1>1, <1>2, <1>3, <1>4, <1>6, <1>7, <1>8, <1>9

\* Every frame that meets a reserved range is visited, when rounding its end
\* up does not wrap.
LEMMA TouchedIsReserved ==
  ASSUME NEW start \in Addr, NEW end \in Addr, end <= WordSize - PageSize
  PROVE  Touched(start, end) \subseteq index_range(start, end)
<1>1. PageSize \in Nat \ {0} /\ WordSize \in Nat /\ start \in Int /\ end \in Int
  BY GeometryAssumption DEF Addr
<1>2. PICK up \in Nat : align_up(end) = PageSize * up
  BY AlignUp
<1>3. end <= align_up(end)
  BY <1>1, AlignUp
<1> DEFINE down == start \div PageSize
<1>4. down \in Int /\ PageSize * down <= start
  BY <1>1, AlignDown
<1>5. index_range(start, end) =
        {i \in Index : down <= BasePage + i /\ BasePage + i < up}
  BY <1>2, RangeForm
<1> HIDE DEF down
<1> SUFFICES ASSUME NEW i \in Index,
                    FrameAddr(i) < end, start < FrameAddr(i) + PageSize
             PROVE  down <= BasePage + i /\ BasePage + i < up
  BY <1>5 DEF Touched
<1>6. i \in Int /\ BasePage \in Nat /\ FrameAddr(i) = PageSize * (BasePage + i)
  BY Managed DEF Index
<1>7. PageSize * (BasePage + i + 1) = PageSize * (BasePage + i) + PageSize
      /\ PageSize * (BasePage + i) \in Int /\ PageSize * down \in Int
      /\ PageSize * up \in Int
  BY <1>1, <1>4, <1>6, ProductOrder, SMTT(30)
<1>8. PageSize * down < PageSize * (BasePage + i + 1)
      /\ PageSize * (BasePage + i) < PageSize * up
  BY <1>1, <1>2, <1>3, <1>4, <1>6, <1>7
<1>9. down < BasePage + i + 1 /\ BasePage + i < up
  BY <1>1, <1>4, <1>6, <1>8, ProductOrder
<1> QED
  BY <1>4, <1>6, <1>9

\* The address alloc_frame returns leads free_frame back to the same index.
LEMMA AddressOfIndex ==
  ASSUME NEW i \in Index
  PROVE  /\ FrameAddr(i) \in Addr
         /\ in_managed(FrameAddr(i))
         /\ index_of(FrameAddr(i)) = i
         /\ FrameAddr(i) = 0 <=> Base = 0 /\ i = 0
<1>1. PageSize \in Nat \ {0} /\ Frames \in Nat /\ i \in Nat /\ i < Frames
      /\ WordSize \in Nat /\ Base \in Nat
  BY GeometryAssumption DEF Index, Addr
<1>2. (i * PageSize) \div PageSize = i
  BY <1>1, DivOfProduct
<1>3. /\ i * PageSize \in Nat /\ i * PageSize < Frames * PageSize
      /\ Frames * PageSize \in Nat
      /\ i * PageSize = 0 <=> i = 0
  BY <1>1, SMTT(30)
<1>4. Base + Frames * PageSize < WordSize
  BY GeometryAssumption
<1>5. index_of(FrameAddr(i)) = i
  <2>2. FrameAddr(i) - Base = i * PageSize
    BY <1>1, <1>3 DEF FrameAddr
  <2>1. index_of(FrameAddr(i)) = (FrameAddr(i) - Base) \div PageSize
    BY DEF index_of
  <2> QED
    BY <1>2, <2>1, <2>2, Zenon
<1>6. ManagedEnd = Base + Frames * PageSize
  <2> DEFINE e == Base + Frames * PageSize
  <2>1. e \in Nat /\ e < WordSize
    BY <1>1, <1>3, <1>4
  <2> QED
    BY <1>1, <2>1, SMTT(30) DEF ManagedEnd
<1>7. FrameAddr(i) % PageSize = 0
  <2>1. FrameAddr(i) = (BasePage + i) * PageSize /\ BasePage + i \in Int
    BY <1>1, Managed, SMTT(30)
  <2> QED
    BY <1>1, <2>1, DivOfProduct
<1> QED
  BY <1>1, <1>3, <1>4, <1>5, <1>6, <1>7 DEF in_managed, FrameAddr, Addr

-----------------------------------------------------------------------------
(***************************************************************************)
(* The inductive invariant.  To the checked invariants it adds what they   *)
(* rest on: every free frame (not only every handed one) is usable and     *)
(* unreserved, nothing is handed out or reserved too early, and frame 0 is *)
(* kept away from clients when its address is 0.                           *)
(***************************************************************************)
FreeIsUsable == FreeFrames \subseteq usable \ reserved

NullIsKept ==
  phase # "donate" /\ Base = 0 /\ 0 \in Index => bit_test(0) /\ 0 \notin handed

PhaseOrder ==
  /\ phase # "run" => handed = {}
  /\ phase = "donate" => reserved = {}

IInv ==
  /\ TypeOK /\ NothingFreeBelowHint /\ HandedIsUsed /\ HandedIsUsable
  /\ FreeIsUsable /\ NullIsKept /\ PhaseOrder

LEMMA InitInv == Init => IInv
<1> SUFFICES ASSUME Init PROVE IInv
  OBVIOUS
<1>1. \A i \in Index : bit_test(i)
  BY DEF Init, bit_test
<1>2. 0 \in Addr /\ 0 \in 0 .. Frames
  BY GeometryAssumption DEF Addr
<1>3. TypeOK /\ PhaseOrder
  BY <1>2 DEF Init, TypeOK, PhaseOrder
<1>4. NothingFreeBelowHint /\ HandedIsUsed /\ HandedIsUsable
  BY DEF Init, NothingFreeBelowHint, HandedIsUsed, HandedIsUsable
<1>5. FreeIsUsable /\ NullIsKept
  BY <1>1 DEF Init, FreeIsUsable, FreeFrames, NullIsKept
<1> QED
  BY <1>3, <1>4, <1>5 DEF IInv

\* A donation frees frames the range touches, and moves hint down to the
\* first of them.
LEMMA DonateInv ==
  ASSUME IInv, NEW start \in Addr, NEW end \in Addr,
         add_usable_range(start, end)
  PROVE  IInv'
<1> DEFINE R == index_range(start, end)
<1>1. R \subseteq Index /\ R \subseteq Touched(start, end)
      /\ R \subseteq first_index(start) .. Frames - 1 /\ first_index(start) \in Nat
  <2> PICK up \in Nat : align_up(end) = PageSize * up
    BY AlignUp
  <2> QED
    BY RangeForm, FreedIsTouched
<1>2. is_empty(start, end) => R = {}
  BY DEF index_range
<1> HIDE DEF R
<1>3. /\ used' = used \ R /\ phase = "donate"
      /\ usable' = usable \cup Touched(start, end)
      /\ UNCHANGED <<phase, ret, handed, reserved>>
  BY DEF add_usable_range, bit_clear, R
<1>4. hint' = IF ~is_empty(start, end) /\ first_index(start) < hint
                THEN first_index(start) ELSE hint
  BY DEF add_usable_range
<1>5. TypeOK /\ PhaseOrder /\ NothingFreeBelowHint /\ FreeIsUsable
  BY DEF IInv
<1>6. hint' \in 0 .. Frames /\ hint' <= hint
  BY <1>1, <1>4, <1>5, GeometryAssumption DEF TypeOK
<1>7. \A i \in 0 .. hint' - 1 : i \notin R
  BY <1>1, <1>2, <1>4, <1>5, <1>6 DEF TypeOK
<1>8. TypeOK'
  BY <1>3, <1>5, <1>6 DEF TypeOK, Touched
<1>9. NothingFreeBelowHint'
  <2>1. hint \in Int /\ hint' \in Int /\ hint' <= hint
    BY <1>5, <1>6, GeometryAssumption DEF TypeOK
  <2>2. \A i \in 0 .. hint' - 1 : i \in 0 .. hint - 1
    BY <2>1, BelowIsMonotone
  <2>3. \A i \in 0 .. hint' - 1 : bit_test(i) /\ i \notin R
    BY <1>5, <1>7, <2>2 DEF NothingFreeBelowHint
  <2> QED
    BY <1>3, <2>3 DEF NothingFreeBelowHint, bit_test
<1>10. HandedIsUsed' /\ HandedIsUsable' /\ PhaseOrder' /\ NullIsKept'
  BY <1>3, <1>5, <1>1 DEF HandedIsUsed, HandedIsUsable, PhaseOrder, NullIsKept
<1>11. FreeIsUsable'
  BY <1>1, <1>3, <1>5 DEF FreeIsUsable, FreeFrames, bit_test, PhaseOrder
<1> QED
  BY <1>8, <1>9, <1>10, <1>11 DEF IInv

\* Reserving only sets bits, among them those of every frame it touches.
LEMMA ReserveInv ==
  ASSUME IInv, NEW start \in Addr, NEW len \in Addr,
         start + len <= WordSize - PageSize,
         phase # "run", phase' \in {"reserve"},
         phase = "donate" => start = 0 /\ len = PageSize,
         used' = reserved_bits(start, len),
         reserved' = reserved \cup (IF len = 0 THEN {} ELSE Touched(start, start + len)),
         UNCHANGED <<hint, ret, handed, usable>>
  PROVE  IInv'
<1>1. PageSize \in Nat \ {0} /\ WordSize \in Nat /\ start \in Nat /\ len \in Nat
      /\ Frames \in Nat
  BY GeometryAssumption DEF Addr
<1> DEFINE end == (start + len) % WordSize
           S == IF len = 0 THEN {} ELSE Touched(start, start + len)
           R == IF len = 0 THEN {} ELSE index_range(start, end) \cap Bits
<1>2. end = start + len /\ end \in Addr
  <2>1. start + len \in Nat /\ start + len < WordSize
    BY <1>1
  <2>2. (start + len) % WordSize = start + len
    <3>1. ASSUME NEW v \in Nat, v < WordSize PROVE v % WordSize = v
      BY <1>1, <3>1, SMTT(30)
    <3> QED
      BY <2>1, <3>1
  <2> QED
    BY <1>1, <2>1, <2>2 DEF Addr
<1>3. used' = used \cup R
  BY DEF reserved_bits, bit_set
<1>4. S \cap Bits \subseteq R /\ S \subseteq Index /\ R \subseteq Bits
  BY <1>1, <1>2, TouchedIsReserved DEF Touched
<1>5. reserved' = reserved \cup S
  OBVIOUS
<1>6. TypeOK /\ PhaseOrder /\ NothingFreeBelowHint /\ FreeIsUsable /\ NullIsKept
  BY DEF IInv
<1>7. phase = "donate" /\ Base = 0 /\ 0 \in Index => 0 \in S
  BY <1>1 DEF Touched, FrameAddr
<1> HIDE DEF S, R, end
<1>8. TypeOK'
  BY <1>3, <1>4, <1>5, <1>6 DEF TypeOK
<1>9. \A i : bit_test(i) => bit_test(i)'
  BY <1>3 DEF bit_test
<1>10. handed = {} /\ handed' = {}
  BY <1>6 DEF PhaseOrder
<1>11. NothingFreeBelowHint' /\ HandedIsUsed' /\ HandedIsUsable' /\ PhaseOrder'
  BY <1>6, <1>9, <1>10
     DEF NothingFreeBelowHint, HandedIsUsed, HandedIsUsable, PhaseOrder
<1>12. FreeIsUsable'
  BY <1>3, <1>4, <1>5, <1>6 DEF FreeIsUsable, FreeFrames, bit_test
<1>13. NullIsKept'
  BY <1>3, <1>4, <1>6, <1>7, <1>9, <1>10 DEF NullIsKept, bit_test
<1> QED
  BY <1>8, <1>11, <1>12, <1>13 DEF IInv

\* alloc_frame takes the first clear bit it scans; with no clear bit below
\* hint that is the lowest one, and every bit below the new hint is set.
LEMMA LowestFirst ==
  ASSUME TypeOK, NothingFreeBelowHint, NEW i \in Index, scan_hits(i)
  PROVE  i \in Bits /\ ~bit_test(i) /\ \A j \in 0 .. i - 1 : bit_test(j)
<1>1. hint \in Nat /\ i \in Nat /\ Frames \in Nat /\ hint <= Frames
  BY GeometryAssumption DEF TypeOK, Index
<1>2. ~bit_test(i) /\ i \in Bits
  BY DEF scan_hits, bit_test
<1>3. hint <= i
  BY <1>1, <1>2 DEF NothingFreeBelowHint
<1>4. \A j \in hint .. i - 1 : bit_test(j)
  BY <1>3 DEF scan_hits, scanned_before
<1>5. \A j \in 0 .. i - 1 : j \in 0 .. hint - 1 \/ j \in hint .. i - 1
  BY <1>1
<1> QED
  BY <1>2, <1>4, <1>5 DEF NothingFreeBelowHint

LEMMA AllocInv == ASSUME IInv, alloc_frame PROVE IInv'
<1>1. PICK i \in Index :
        /\ scan_hits(i)
        /\ used' = used \cup ({i} \cap Bits)
        /\ hint' = i + 1
        /\ ret' = FrameAddr(i)
        /\ handed' = handed \cup {i}
  BY DEF alloc_frame, bit_set
<1>2. phase # "donate" /\ phase' = "run" /\ UNCHANGED <<usable, reserved>>
  BY DEF alloc_frame
<1>3. TypeOK /\ NothingFreeBelowHint /\ HandedIsUsed /\ HandedIsUsable
      /\ FreeIsUsable /\ NullIsKept
  BY DEF IInv
<1>4. i \in Bits /\ ~bit_test(i) /\ \A j \in 0 .. i - 1 : bit_test(j)
  BY <1>1, <1>3, LowestFirst
<1>5. i \in 0 .. Frames - 1 /\ Frames \in Nat
  BY GeometryAssumption DEF Index
<1>6. used' = used \cup {i}
  BY <1>1, <1>4
<1>7. \A j : bit_test(j)' <=> bit_test(j) \/ j = i
  BY <1>4, <1>6 DEF bit_test
<1>8. TypeOK'
  BY <1>1, <1>2, <1>3, <1>4, <1>5, <1>6, AddressOfIndex DEF TypeOK
<1>9. NothingFreeBelowHint'
  BY <1>1, <1>4, <1>5, <1>7 DEF NothingFreeBelowHint
<1>10. HandedIsUsed' /\ HandedIsUsable'
  BY <1>1, <1>2, <1>3, <1>4, <1>6
     DEF HandedIsUsed, HandedIsUsable, FreeIsUsable, FreeFrames
<1>11. FreeIsUsable' /\ NullIsKept' /\ PhaseOrder'
  BY <1>1, <1>2, <1>3, <1>4, <1>7
     DEF FreeIsUsable, FreeFrames, NullIsKept, PhaseOrder
<1> QED
  BY <1>8, <1>9, <1>10, <1>11 DEF IInv

LEMMA AllocFailsInv == ASSUME IInv, alloc_fails PROVE IInv'
<1>1. /\ UNCHANGED <<used, hint, handed, usable, reserved>>
      /\ phase # "donate" /\ phase' = "run" /\ ret' = 0
  BY DEF alloc_fails, impl, ghost
<1>2. TypeOK'
  <2>1. 0 \in Addr
    BY GeometryAssumption DEF Addr
  <2> QED
    BY <1>1, <2>1 DEF IInv, TypeOK
<1>3. NothingFreeBelowHint' /\ HandedIsUsed' /\ HandedIsUsable'
  BY <1>1 DEF IInv, NothingFreeBelowHint, HandedIsUsed, HandedIsUsable, bit_test
<1>4. FreeIsUsable' /\ NullIsKept' /\ PhaseOrder'
  BY <1>1
     DEF IInv, FreeIsUsable, FreeFrames, NullIsKept, PhaseOrder, bit_test
<1> QED
  BY <1>2, <1>3, <1>4 DEF IInv

\* What free_frame does with the address of a handed frame.
LEMMA FreeHanded ==
  ASSUME TypeOK, NEW i \in handed, free_frame(FrameAddr(i))
  PROVE  /\ i \in Index
         /\ used' = bit_clear({i}) /\ handed' = handed \ {i}
         /\ hint' = IF i < hint THEN i ELSE hint
         /\ phase = "run" /\ UNCHANGED <<phase, ret, usable, reserved>>
<1>1. i \in Index /\ in_managed(FrameAddr(i)) /\ index_of(FrameAddr(i)) = i
      /\ i < Frames
  BY AddressOfIndex, GeometryAssumption DEF TypeOK, Index
<1>2. \A j \in handed : FrameAddr(j) = FrameAddr(i) => j = i
  BY <1>1, AddressOfIndex DEF TypeOK
<1> QED
  BY <1>1, <1>2 DEF free_frame

\* A stray address changes nothing.
LEMMA FreeStray ==
  ASSUME TypeOK, NEW a \in Strays, free_frame(a)
  PROVE  UNCHANGED vars
<1>1. ~in_managed(a)
  BY RangesAssumption
<1>2. \A j \in handed : FrameAddr(j) # a
  BY <1>1, AddressOfIndex DEF TypeOK
<1> QED
  BY <1>1, <1>2 DEF free_frame, impl, vars

\* Freeing a handed frame clears its bit and pulls hint down to it.
LEMMA FreeInv == ASSUME IInv, NEW i \in handed, free_frame(FrameAddr(i)) PROVE IInv'
<1>1. TypeOK /\ NothingFreeBelowHint /\ HandedIsUsed /\ HandedIsUsable
      /\ FreeIsUsable /\ NullIsKept
  BY DEF IInv
<1>2. i \in Index /\ in_managed(FrameAddr(i)) /\ index_of(FrameAddr(i)) = i
  BY <1>1, AddressOfIndex DEF TypeOK
<1>3. /\ used' = used \ {i} /\ handed' = handed \ {i}
      /\ hint' = IF i < hint THEN i ELSE hint
      /\ phase = "run" /\ UNCHANGED <<phase, ret, usable, reserved>>
  BY <1>1, <1>2, FreeHanded DEF bit_clear
<1>4. i \in Nat /\ hint \in 0 .. Frames /\ Frames \in Nat
  BY <1>1, <1>2, GeometryAssumption DEF TypeOK, Index
<1>5. TypeOK'
  BY <1>1, <1>3, <1>4 DEF TypeOK
<1>6. NothingFreeBelowHint'
  BY <1>1, <1>3, <1>4 DEF NothingFreeBelowHint, bit_test
<1>7. HandedIsUsed' /\ HandedIsUsable' /\ PhaseOrder'
  BY <1>1, <1>3 DEF HandedIsUsed, HandedIsUsable, PhaseOrder, bit_test
<1>8. FreeIsUsable'
  BY <1>1, <1>3 DEF FreeIsUsable, FreeFrames, bit_test, HandedIsUsable
<1>9. NullIsKept'
  BY <1>1, <1>3 DEF NullIsKept, bit_test
<1> QED
  BY <1>5, <1>6, <1>7, <1>8, <1>9 DEF IInv

LEMMA StrayInv == ASSUME IInv, NEW a \in Strays, free_frame(a) PROVE IInv'
<1>1. UNCHANGED vars
  BY FreeStray DEF IInv
<1> QED
  BY <1>1 DEF IInv, TypeOK, NothingFreeBelowHint, HandedIsUsed, HandedIsUsable,
     FreeIsUsable, FreeFrames, NullIsKept, PhaseOrder, bit_test, vars

LEMMA NextInv == IInv /\ [Next]_vars => IInv'
<1> SUFFICES ASSUME IInv, [Next]_vars PROVE IInv'
  OBVIOUS
<1>1. ASSUME NEW r \in UsableRanges, add_usable_range(r[1], r[2]) PROVE IInv'
  <2>1. r[1] \in Addr /\ r[2] \in Addr
    BY RangesAssumption
  <2> QED
    BY <1>1, <2>1, DonateInv
<1>2. CASE reserve_null
  <2>1. 0 \in Addr /\ PageSize \in Addr /\ 0 + PageSize <= WordSize - PageSize
        /\ PageSize # 0
    BY GeometryAssumption DEF Addr
  <2>2. 0 + PageSize = PageSize
    BY GeometryAssumption
  <2> QED
    BY <1>2, <2>1, <2>2, ReserveInv DEF reserve_null
<1>3. ASSUME NEW r \in ReserveRanges, reserve_range(r[1], r[2]) PROVE IInv'
  <2>1. r[1] \in Addr /\ r[2] \in Addr /\ r[1] + r[2] <= WordSize - PageSize
    BY RangesAssumption
  <2> QED
    BY <1>3, <2>1, ReserveInv DEF reserve_range
<1>4. CASE alloc_frame
  BY <1>4, AllocInv
<1>5. CASE alloc_fails
  BY <1>5, AllocFailsInv
<1>6. ASSUME NEW i \in handed, free_frame(FrameAddr(i)) PROVE IInv'
  BY <1>6, FreeInv
<1>7. ASSUME NEW a \in Strays, free_frame(a) PROVE IInv'
  BY <1>7, StrayInv
<1>8. CASE UNCHANGED vars
  BY <1>8 DEF IInv, TypeOK, NothingFreeBelowHint, HandedIsUsed, HandedIsUsable,
     FreeIsUsable, FreeFrames, NullIsKept, PhaseOrder, bit_test, vars
<1> QED
  BY <1>1, <1>2, <1>3, <1>4, <1>5, <1>6, <1>7, <1>8 DEF Next

-----------------------------------------------------------------------------
(* The theorems.                                                           *)

\* The inductive invariant holds in every reachable state, for every page
\* size, managed range, bitmap size and memory map.
THEOREM Invariance == Spec => []IInv
BY InitInv, NextInv, PTL DEF Spec

\* Type correctness of the bitmap allocator.
THEOREM TypeCorrect == Spec => []TypeOK
<1>1. IInv => TypeOK
  BY DEF IInv
<1> QED
  BY <1>1, Invariance, PTL

\* No frame below the scan hint is free: init, mark_free, alloc_frame and
\* free_frame keep hint at or below the first clear bit, so the second loop
\* of alloc_frame never finds anything.
THEOREM HintIsLowerBound == Spec => []NothingFreeBelowHint
<1>1. IInv => NothingFreeBelowHint
  BY DEF IInv
<1> QED
  BY <1>1, Invariance, PTL

\* A frame a client holds stays marked used: alloc_frame cannot return it
\* again.
THEOREM NoDoubleAllocation == Spec => []HandedIsUsed
<1>1. IInv => HandedIsUsed
  BY DEF IInv
<1> QED
  BY <1>1, Invariance, PTL

\* Frames handed out are usable and meet no reserved range, whatever the
\* alignment of the ranges: the rounding and clamping of mark_used and
\* mark_free are right for every page size.
THEOREM ReservedIsNeverAllocated == Spec => []HandedIsUsable
<1>1. IInv => HandedIsUsable
  BY DEF IInv
<1> QED
  BY <1>1, Invariance, PTL

\* 0, the address alloc_frame returns on failure, is never a frame's address
\* once page 0 is reserved.
THEOREM ZeroMeansFullHolds == Spec => ZeroMeansFull
<1>1. ASSUME IInv, alloc_frame
      PROVE  ret' = 0 <=> \A i \in Index : bit_test(i)
  <2>1. PICK i \in Index : scan_hits(i) /\ ret' = FrameAddr(i)
    BY <1>1 DEF alloc_frame
  <2>2. ~bit_test(i)
    BY <2>1 DEF scan_hits
  <2>3. ret' # 0
    BY <1>1, <2>1, <2>2, AddressOfIndex DEF IInv, NullIsKept, alloc_frame
  <2> QED
    BY <2>2, <2>3
<1>2. ASSUME alloc_fails PROVE ret' = 0 <=> \A i \in Index : bit_test(i)
  BY <1>2 DEF alloc_fails
<1>3. IInv /\ [Next]_vars =>
        [alloc_frame \/ alloc_fails =>
          (ret' = 0 <=> \A i \in Index : bit_test(i))]_vars
  BY <1>1, <1>2
<1> QED
  BY <1>3, Invariance, PTL DEF Spec, ZeroMeansFull

(***************************************************************************)
(* The refinement: every step of the bitmap allocator is a step of the     *)
(* abstract store or leaves it unchanged.                                  *)
(***************************************************************************)
LEMMA FreeAfterClearing ==
  ASSUME NEW R, R \subseteq Index, used' = bit_clear(R)
  PROVE  FreeFrames' = FreeFrames \cup (R \cap Bits)
  BY DEF FreeFrames, bit_clear, bit_test

LEMMA FreeAfterSetting ==
  ASSUME NEW R, used' = bit_set(R)
  PROVE  FreeFrames' = FreeFrames \ R
  BY DEF FreeFrames, bit_set, bit_test

LEMMA DonateRefines ==
  ASSUME IInv, NEW start \in Addr, NEW end \in Addr,
         add_usable_range(start, end)
  PROVE  \E S \in SUBSET Index : Store!Donate(S)
<1> DEFINE R == index_range(start, end)
<1>1. R \subseteq Index
  BY FreedIsTouched DEF Touched
<1>2. handed = {}
  BY DEF IInv, PhaseOrder, add_usable_range
<1>3. FreeFrames' = FreeFrames \cup (R \cap Bits)
  BY <1>1, FreeAfterClearing DEF add_usable_range
<1>4. UNCHANGED <<handed, ret>>
  BY DEF add_usable_range
<1>5. R \cap Bits \in SUBSET Index
  BY <1>1
<1> WITNESS R \cap Bits \in SUBSET Index
<1> QED
  BY <1>2, <1>3, <1>4 DEF Store!Donate

LEMMA ReserveRefines ==
  ASSUME NEW start, NEW len, handed = {},
         used' = reserved_bits(start, len), UNCHANGED <<handed, ret>>
  PROVE  \E S \in SUBSET Index : Store!Withdraw(S)
<1>1. PICK R : FreeFrames' = FreeFrames \ R
  <2>1. CASE len = 0
    <3>1. FreeFrames' = FreeFrames \ {}
      BY <2>1 DEF reserved_bits, FreeFrames, bit_test
    <3> QED
      BY <3>1
  <2>2. CASE len # 0
    BY <2>2, FreeAfterSetting DEF reserved_bits
  <2> QED
    BY <2>1, <2>2
<1>2. FreeFrames' = FreeFrames \ (R \cap Index)
  BY <1>1 DEF FreeFrames
<1> WITNESS R \cap Index \in SUBSET Index
<1> QED
  BY <1>2 DEF Store!Withdraw

LEMMA AllocRefines == ASSUME IInv, alloc_frame PROVE Store!Allocate
<1>1. PICK i \in Index :
        /\ scan_hits(i)
        /\ used' = bit_set({i})
        /\ ret' = FrameAddr(i)
        /\ handed' = handed \cup {i}
  BY DEF alloc_frame
<1>2. i \in Bits /\ ~bit_test(i) /\ \A j \in 0 .. i - 1 : bit_test(j)
  BY <1>1, LowestFirst DEF IInv
<1>3. \A g \in FreeFrames : i <= g
  BY <1>2 DEF FreeFrames, Index
<1>4. FreeFrames' = FreeFrames \ {i}
  BY <1>1, FreeAfterSetting
<1>5. ret' # 0
  BY <1>1, <1>2, AddressOfIndex DEF IInv, NullIsKept, alloc_frame
<1>6. index_of(ret)' = i
  <2>1. index_of(ret)' = index_of(FrameAddr(i))
    BY <1>1 DEF index_of
  <2> QED
    BY <2>1, AddressOfIndex
<1>7. i \in FreeFrames
  BY <1>2 DEF FreeFrames
<1> QED
  BY <1>1, <1>3, <1>4, <1>5, <1>6, <1>7 DEF Store!Allocate

LEMMA FreeRefines ==
  ASSUME IInv, NEW i \in handed, free_frame(FrameAddr(i))
  PROVE  Store!Release(i)
<1>1. i \in Index
  BY DEF IInv, TypeOK
<1>2. used' = bit_clear({i}) /\ handed' = handed \ {i} /\ ret' = ret
  BY FreeHanded DEF IInv
<1>3. i \in Bits
  BY DEF IInv, TypeOK, HandedIsUsed
<1>4. FreeFrames' = FreeFrames \cup {i}
  BY <1>1, <1>2, <1>3, FreeAfterClearing
<1>5. index_of(ret)' = index_of(ret)
  BY <1>2 DEF index_of
<1> QED
  BY <1>2, <1>4, <1>5 DEF Store!Release

LEMMA NextRefines == IInv /\ [Next]_vars => [Store!Next]_(Store!vars)
<1> SUFFICES ASSUME IInv, [Next]_vars PROVE [Store!Next]_(Store!vars)
  OBVIOUS
<1>1. ASSUME NEW r \in UsableRanges, add_usable_range(r[1], r[2])
      PROVE  Store!Next
  <2>1. r[1] \in Addr /\ r[2] \in Addr
    BY RangesAssumption
  <2> QED
    BY <1>1, <2>1, DonateRefines DEF Store!Next
<1>2. CASE reserve_null
  <2>1. handed = {}
    BY <1>2 DEF IInv, PhaseOrder, reserve_null
  <2> QED
    BY <1>2, <2>1, ReserveRefines DEF reserve_null, Store!Next
<1>3. ASSUME NEW r \in ReserveRanges, reserve_range(r[1], r[2])
      PROVE  Store!Next
  <2>1. handed = {}
    BY <1>3 DEF IInv, PhaseOrder, reserve_range
  <2> QED
    BY <1>3, <2>1, ReserveRefines DEF reserve_range, Store!Next
<1>4. CASE alloc_frame
  BY <1>4, AllocRefines DEF Store!Next
<1>5. CASE alloc_fails
  <2>1. FreeFrames = {} /\ UNCHANGED <<used, handed>> /\ ret' = 0
    BY <1>5 DEF alloc_fails, FreeFrames, impl, ghost
  <2>2. FreeFrames' = FreeFrames
    BY <2>1 DEF FreeFrames, bit_test
  <2> QED
    BY <2>1, <2>2 DEF Store!OutOfMemory, Store!Next
<1>6. ASSUME NEW i \in handed, free_frame(FrameAddr(i)) PROVE Store!Next
  <2>1. i \in Index
    BY DEF IInv, TypeOK
  <2> QED
    BY <1>6, <2>1, FreeRefines DEF Store!Next
<1>7. ASSUME UNCHANGED vars PROVE UNCHANGED Store!vars
  BY <1>7 DEF vars, Store!vars, FreeFrames, bit_test, index_of
<1>8. ASSUME NEW a \in Strays, free_frame(a) PROVE UNCHANGED Store!vars
  <2>1. UNCHANGED vars
    BY <1>8, FreeStray DEF IInv
  <2> QED
    BY <1>7, <2>1
<1> QED
  BY <1>1, <1>2, <1>3, <1>4, <1>5, <1>6, <1>7, <1>8 DEF Next

LEMMA InitRefines == Init => Store!Init
  BY DEF Init, Store!Init, FreeFrames, bit_test

\* The bitmap allocator implements the abstract frame store: every answer is
\* the lowest free frame, or "out of memory" exactly when nothing is free.
THEOREM Refinement == Spec => ImplementsStore
<1>1. Spec => Store!Init /\ [][Store!Next]_(Store!vars)
  BY InitRefines, NextRefines, Invariance, PTL DEF Spec
<1> QED
  BY <1>1 DEF ImplementsStore, Store!Spec
=============================================================================
