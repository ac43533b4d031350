-------------------------- MODULE BootMemoryProofs --------------------------
(***************************************************************************)
(* The boot's memory for any layout of the kernel, firmware map and        *)
(* framebuffer: what paging writes is identity mapped, no frame it gets is *)
(* the boot's own, and with enough low memory none is the heap's or no RAM.*)
(***************************************************************************)
EXTENDS BootMemory, Arithmetic

\* The allocator with everything proved about it.
P == INSTANCE PageFrameAllocatorProofs WITH
  ManagedBase <- 0, Frames <- managed_frames, BitmapBytes <- bitmap_bytes,
  UsableRanges <- {}, ReserveRanges <- {}, Strays <- {}

-----------------------------------------------------------------------------
(* The layout.                                                             *)

\* align_up_4k returns the first multiple of the page size not below v.
LEMMA AlignUp4k ==
  ASSUME NEW v \in Nat
  PROVE  \E n \in Nat : /\ align_up_4k(v) = PageSize * n
                        /\ align_up_4k(v) \in Nat
                        /\ v <= align_up_4k(v) /\ align_up_4k(v) < v + PageSize
<1> DEFINE n == (v + PageSize - 1) \div PageSize
<1>1. PageSize \in Nat \ {0}
  BY LayoutAssumption
<1>2. v + PageSize - 1 \in Nat
  BY <1>1
<1>3. n \in Nat /\ PageSize * n <= v + PageSize - 1 /\ v + PageSize - 1 < PageSize * n + PageSize
  BY <1>1, <1>2, DivNat, DivBounds
<1>4. align_up_4k(v) = PageSize * n /\ PageSize * n \in Nat
  <2>1. align_up_4k(v) = n * PageSize
    BY DEF align_up_4k
  <2> HIDE DEF n
  <2> QED
    BY <1>1, <1>3, <2>1, Products
<1> HIDE DEF n
<1> QED
  BY <1>1, <1>3, <1>4

\* Quotients are ordered as the numbers they come from.
LEMMA DivOrder ==
  ASSUME NEW p \in Nat \ {0}, NEW a \in Nat, NEW b \in Nat
  PROVE  /\ a <= b => a \div p <= b \div p
         /\ a < p * b => a \div p < b
         /\ p * b <= a => b <= a \div p
<1>1. a \div p \in Nat /\ p * (a \div p) <= a /\ a < p * (a \div p) + p
  BY DivBounds, DivNat
<1>2. b \div p \in Nat /\ p * (b \div p) <= b /\ b < p * (b \div p) + p
  BY DivBounds, DivNat
<1> DEFINE x == a \div p
           y == b \div p
<1> HIDE DEF x, y
<1>3. p * (y + 1) = p * y + p /\ p * (x + 1) = p * x + p
  BY <1>1, <1>2, SMTT(30) DEF x, y
<1>4. a <= b => x <= y
  <2>1. p * x < p * (y + 1) <=> x < y + 1
    BY <1>1, <1>2, ProductOrder DEF x, y
  <2>2. a <= b => p * x < p * (y + 1)
    <3>1. p * x \in Int /\ p * y \in Int
      BY <1>1, <1>2, ProductOrder DEF x, y
    <3> QED
      BY <1>1, <1>2, <1>3, <3>1 DEF x, y
  <2> QED
    BY <1>1, <1>2, <2>1, <2>2 DEF x, y
<1>5. a < p * b => x < b
  <2>1. p * x < p * b <=> x < b
    BY <1>1, ProductOrder DEF x
  <2> QED
    BY <1>1, <2>1, ProductOrder DEF x
<1>6. p * b <= a => b <= x
  <2>1. p * b < p * (x + 1) <=> b < x + 1
    BY <1>1, ProductOrder DEF x
  <2> QED
    BY <1>1, <1>3, <2>1, ProductOrder DEF x
<1> QED
  BY <1>4, <1>5, <1>6 DEF x, y

\* Where the boot's own pages end.
boot_end == bitmap_storage + align_up_4k(bitmap_bytes)

\* Image, boot information, tables and bitmap follow each other below the
\* identity limit, which is a whole number of pages.
LEMMA Layout ==
  /\ first_free_paddr \in Nat /\ KernelEnd <= first_free_paddr /\ mb2_end_addr <= first_free_paddr
  /\ managed_frames \in Nat /\ choose_early_identity_limit = PageSize * managed_frames
  /\ choose_early_identity_limit \in Nat
  /\ first_free_paddr + EarlySlack <= choose_early_identity_limit
  /\ mb2_end_addr \in Nat
<1>1. mb2_end_addr \in Nat /\ KernelEnd \in Nat /\ PageSize \in Nat \ {0}
      /\ EarlySlack \in Nat /\ EarlyMin \in Nat
  BY LayoutAssumption DEF mb2_end_addr
<1> DEFINE top == IF KernelEnd > mb2_end_addr THEN KernelEnd ELSE mb2_end_addr
<1>2. top \in Nat /\ KernelEnd <= top /\ mb2_end_addr <= top
  BY <1>1
<1>3. first_free_paddr = align_up_4k(top)
  BY DEF first_free_paddr
<1> HIDE DEF top
<1>4. first_free_paddr \in Nat /\ top <= first_free_paddr
  BY <1>2, <1>3, AlignUp4k
<1> DEFINE lim == first_free_paddr + EarlySlack
           least == IF lim < EarlyMin THEN EarlyMin ELSE lim
<1>5. least \in Nat /\ lim <= least
  BY <1>1, <1>4
<1>6. choose_early_identity_limit = align_up_4k(least)
  BY DEF choose_early_identity_limit
<1> HIDE DEF least
<1>7. PICK n \in Nat : /\ choose_early_identity_limit = PageSize * n
                       /\ choose_early_identity_limit \in Nat
                       /\ least <= choose_early_identity_limit
  BY <1>5, <1>6, AlignUp4k
<1>8. managed_frames = n
  <2>1. (n * PageSize) \div PageSize = n /\ n * PageSize = PageSize * n
    BY <1>1, DivOfProduct, Products
  <2> QED
    BY <1>7, <2>1 DEF managed_frames
<1> QED
  BY <1>1, <1>2, <1>4, <1>5, <1>7, <1>8

\* The address space is a whole number of pages and of tables.
LEMMA Space ==
  /\ \E n \in Nat : WordSize = PageSize * n /\ Page = 0 .. n - 1 /\ n = WordSize \div PageSize
  /\ WordSize = PtSpan * (KMAP_PDE + 1) /\ KMAP_PDE \in Nat
  /\ PageSize <= PtSpan /\ PtSpan <= WordSize
<1>1. PageSize \in Nat \ {0} /\ PtSpan \in Nat \ {0} /\ WordSize \in Nat \ {0}
      /\ PtSpan % PageSize = 0 /\ WordSize % PtSpan = 0
  BY LayoutAssumption
<1> DEFINE t == PtSpan \div PageSize
           s == WordSize \div PtSpan
<1>2. t \in Nat /\ PtSpan = PageSize * t
  BY <1>1, DivMod, DivNat
<1>3. s \in Nat /\ WordSize = PtSpan * s
  BY <1>1, DivMod, DivNat
<1>4. KMAP_PDE = s - 1
  BY DEF KMAP_PDE
<1> HIDE DEF t, s
<1>5. s # 0 /\ t # 0
  BY <1>1, <1>2, <1>3, SMTT(30)
<1>6. PageSize <= PtSpan /\ PtSpan <= WordSize
  BY <1>1, <1>2, <1>3, <1>5, Products
<1>7. t * s \in Nat /\ WordSize = PageSize * (t * s)
  BY <1>1, <1>2, <1>3, SMTT(30)
<1>8. PICK n \in Nat : n = t * s
  BY <1>7
<1>9. WordSize = PageSize * n /\ WordSize = n * PageSize
  BY <1>1, <1>7, <1>8, Products
<1>10. (n * PageSize) \div PageSize = n
  BY <1>1, DivOfProduct
<1>11. WordSize \div PageSize = n
  BY <1>9, <1>10
<1>12. Page = 0 .. n - 1
  BY <1>11 DEF Page
<1> QED
  BY <1>3, <1>4, <1>5, <1>6, <1>9, <1>11, <1>12

\* The early tables and the bitmap fit below the limit, and the window's entry
\* is above those of the identity map.
LEMMA EarlyTables ==
  /\ last_pdi \in Nat /\ last_pdi < KMAP_PDE
  /\ bitmap_bytes \in Nat /\ managed_frames <= 8 * bitmap_bytes
  /\ \A di \in 0 .. last_pdi + 1 : pt_phys(di) \in Nat /\ pt_phys(di) < bitmap_storage
  /\ pd_phys \in Nat /\ pd_phys < bitmap_storage
  /\ bitmap_storage \in Nat /\ boot_end \in Nat
  /\ bitmap_storage + bitmap_bytes <= boot_end /\ boot_end <= choose_early_identity_limit
  /\ choose_early_identity_limit <= WordSize - PageSize
  /\ bitmap_storage < choose_early_identity_limit /\ 0 < managed_frames
<1> DEFINE lim == choose_early_identity_limit
           ff == first_free_paddr
<1>1. PageSize \in Nat \ {0} /\ PtSpan \in Nat \ {0} /\ WordSize \in Nat \ {0}
      /\ lim <= WordSize - PtSpan /\ EarlySlack \in Nat /\ KernelEnd \in Nat /\ 0 < KernelEnd
      /\ EarlySlack >= PageSize * (KMAP_PDE + 3) + (WordSize \div PageSize) \div 8
  BY LayoutAssumption
<1>2. /\ ff \in Nat /\ KernelEnd <= ff /\ managed_frames \in Nat
      /\ lim = PageSize * managed_frames /\ lim \in Nat /\ ff + EarlySlack <= lim
  BY Layout
<1>3. KMAP_PDE \in Nat /\ WordSize = PtSpan * (KMAP_PDE + 1) /\ PageSize <= PtSpan
  BY Space
<1> HIDE DEF lim, ff
<1>4. last_pdi \in Nat /\ last_pdi < KMAP_PDE
  <2>0. last_pdi = (lim - 1) \div PtSpan
    BY DEF last_pdi, lim
  <2>1. last_pdi = (lim - 1) \div PtSpan /\ lim - 1 \in Nat
    BY <1>1, <1>2, <2>0
  <2>2. PtSpan * (KMAP_PDE + 1) = PtSpan * KMAP_PDE + PtSpan /\ PtSpan * KMAP_PDE \in Int
    BY <1>1, <1>3, SMTT(30)
  <2>3. lim - 1 < PtSpan * KMAP_PDE
    BY <1>1, <1>2, <1>3, <2>2
  <2> QED
    BY <1>1, <1>3, <2>1, <2>3, DivOrder, DivNat
<1>5. bitmap_bytes \in Nat /\ managed_frames <= 8 * bitmap_bytes
      /\ 8 * bitmap_bytes <= managed_frames + 7
  <2>1. bitmap_bytes = (managed_frames + 7) \div 8
    BY DEF bitmap_bytes
  <2> QED
    BY <1>2, <2>1
<1> DEFINE w == WordSize \div PageSize
<1>6. managed_frames + 1 <= w /\ w \in Nat
  <2>1. PICK n \in Nat : WordSize = PageSize * n /\ n = w
    BY Space
  <2>2. PageSize * managed_frames < PageSize * n <=> managed_frames < n
    BY <1>1, <1>2, ProductOrder
  <2> HIDE DEF w
  <2> QED
    BY <1>1, <1>2, <1>3, <2>1, <2>2
<1> HIDE DEF w
<1>7. bitmap_bytes <= (w \div 8) + 1
  BY <1>2, <1>5, <1>6
<1> DEFINE up == align_up_4k(bitmap_bytes)
<1>8. up \in Nat /\ bitmap_bytes <= up /\ up < bitmap_bytes + PageSize
  BY <1>5, AlignUp4k
<1> HIDE DEF up
<1>9. bitmap_storage = ff + PageSize * (last_pdi + 3)
  <2>1. bitmap_storage = ff + PageSize * (last_pdi + 1 + 1) + PageSize
    BY DEF bitmap_storage, kmap_pt_phys, pt_phys, pd_phys, ff
  <2>2. PageSize * (last_pdi + 3) = PageSize * (last_pdi + 1 + 1) + PageSize
    BY <1>1, <1>4, SMTT(30)
  <2>3. PageSize * (last_pdi + 1 + 1) \in Nat
    BY <1>1, <1>4, SMTT(30)
  <2> QED
    BY <1>1, <1>2, <2>1, <2>2, <2>3
<1>10. /\ PageSize * (last_pdi + 3) \in Nat /\ PageSize * (KMAP_PDE + 3) \in Nat
       /\ PageSize * (last_pdi + 3) + PageSize <= PageSize * (KMAP_PDE + 3)
       /\ PageSize <= PageSize * (last_pdi + 3)
  <2>1. \E d \in Nat : KMAP_PDE = last_pdi + 1 + d
    <3>1. KMAP_PDE - last_pdi - 1 \in Nat /\ KMAP_PDE = last_pdi + 1 + (KMAP_PDE - last_pdi - 1)
      BY <1>3, <1>4
    <3> QED
      BY <3>1
  <2>2. PICK d \in Nat : KMAP_PDE = last_pdi + 1 + d
    BY <2>1
  <2>3. PageSize * (KMAP_PDE + 3) = PageSize * (last_pdi + 3) + PageSize + PageSize * d
    BY <1>1, <1>4, <2>2, SMTT(30)
  <2>4. PageSize * d \in Nat /\ PageSize * (last_pdi + 3) \in Nat
        /\ PageSize <= PageSize * (last_pdi + 3)
    BY <1>1, <1>4, <2>2, SMTT(30)
  <2> QED
    BY <1>1, <2>3, <2>4
<1>11. boot_end = bitmap_storage + up
  BY DEF boot_end, up
<1>12. \A di \in 0 .. last_pdi + 1 : pt_phys(di) \in Nat /\ pt_phys(di) < bitmap_storage
  <2> SUFFICES ASSUME NEW di \in 0 .. last_pdi + 1
               PROVE  pt_phys(di) \in Nat /\ pt_phys(di) < bitmap_storage
    OBVIOUS
  <2>1. pt_phys(di) = ff + PageSize * (di + 1)
    BY DEF pt_phys, pd_phys, ff
  <2>2. PageSize * (di + 1) \in Nat /\ PageSize * (di + 1) < PageSize * (last_pdi + 3)
    <3>1. di + 1 \in Nat /\ last_pdi + 3 \in Nat /\ di + 1 < last_pdi + 3
      BY <1>4
    <3> QED
      BY <1>1, <3>1, ProductOrder, Products
  <2> QED
    BY <1>2, <1>9, <1>10, <2>1, <2>2
<1>13. w \div 8 \in Nat
  BY <1>6
<1>14. EarlySlack >= PageSize * (KMAP_PDE + 3) + w \div 8
  BY <1>1 DEF w
<1>15. boot_end <= lim /\ boot_end \in Nat /\ bitmap_storage + bitmap_bytes <= boot_end
       /\ bitmap_storage < lim
  <2>1. up < (w \div 8) + 1 + PageSize
    BY <1>1, <1>5, <1>7, <1>8, <1>13
  <2> HIDE DEF boot_end
  <2> QED
    BY <1>1, <1>2, <1>5, <1>8, <1>9, <1>10, <1>11, <1>13, <1>14, <2>1
<1>16. pd_phys \in Nat /\ pd_phys < bitmap_storage /\ bitmap_storage \in Nat
  BY <1>1, <1>2, <1>9, <1>10 DEF pd_phys, ff
<1>17. lim <= WordSize - PageSize
  BY <1>1, <1>2, <1>3
<1>18. 0 < managed_frames
  <2>1. PageSize * 0 = 0 /\ lim # 0
    BY <1>1, <1>2
  <2>2. managed_frames # 0
    BY <1>2, <2>1
  <2> QED
    BY <1>2, <2>2
<1> QED
  BY <1>4, <1>5, <1>12, <1>15, <1>16, <1>17, <1>18 DEF lim

-----------------------------------------------------------------------------
(* The operators of the model.                                             *)

\* The table make_mem_map fills.
Regions(rs) == rs \in Seq(MemoryRegion) /\ Len(rs) <= MaxRegions

\* A turn of make_mem_map's loop keeps a table of regions, none too many.
LEMMA TakeEntry ==
  ASSUME NEW rs, Regions(rs), NEW e \in FirmwareEntry
  PROVE  Regions(take_entry(rs, e))
<1>1. CASE ~ (kept(e) /\ Len(rs) < MaxRegions)
  BY <1>1 DEF take_entry
<1>2. CASE kept(e) /\ Len(rs) < MaxRegions
  <2> DEFINE t == CASE e.type = 1 -> "Usable"
                    [] e.type = 3 -> "AcpiReclaimable"
                    [] e.type = 4 -> "Reserved"
                    [] e.type = 5 -> "Bad"
  <2>1. t \in MemoryRegionType
    BY <1>2 DEF kept, MemoryRegionType
  <2>2. e.base \in Nat /\ e.length \in Nat /\ WordSize \in Nat \ {0}
    BY LayoutAssumption DEF FirmwareEntry
  <2>3. e.base % WordSize \in 0 .. WordSize - 1 /\ e.length % WordSize \in 0 .. WordSize - 1
    BY <2>2, DivMod
  <2>4. region(e) = [type |-> t, addr |-> e.base % WordSize, length |-> e.length % WordSize]
    BY DEF region
  <2> HIDE DEF t
  <2>5. region(e) \in MemoryRegion
    BY <2>1, <2>3, <2>4 DEF MemoryRegion
  <2>6. MaxRegions \in Nat /\ rs \in Seq(MemoryRegion) /\ Len(rs) < MaxRegions
    BY <1>2, LayoutAssumption DEF Regions
  <2>7. take_entry(rs, e) = Append(rs, region(e))
    BY <1>2 DEF take_entry
  <2> QED
    BY <2>5, <2>6, <2>7 DEF Regions
<1> QED
  BY <1>1, <1>2

\* So does the whole loop.
LEMMA RegionsOf ==
  ASSUME NEW es \in Seq(FirmwareEntry)
  PROVE  Regions(regions_of(es))
<1> DEFINE G(g, n) == g = [k \in 0 .. n |-> IF k = 0 THEN <<>> ELSE take_entry(g[k - 1], es[k])]
           Bad == {n \in Nat : \A g : ~ G(g, n)}
           N == Len(es)
<1>0. N \in Nat /\ \A k \in 1 .. N : es[k] \in FirmwareEntry
  OBVIOUS
<1>1. Bad = {}
  <2> SUFFICES ASSUME Bad # {}  PROVE FALSE
    OBVIOUS
  <2>1. PICK n \in Bad : \A j \in Bad : n <= j
    <3>1. Bad \in SUBSET Nat
      OBVIOUS
    <3> HIDE DEF Bad
    <3> QED
      BY <3>1, LeastNat
  <2>2. n \in Nat /\ \A g : ~ G(g, n)
    OBVIOUS
  <2>3. CASE n = 0
    <3> DEFINE h == [k \in 0 .. 0 |-> <<>>]
    <3>1. G(h, 0)
      OBVIOUS
    <3> HIDE DEF h
    <3> QED
      BY <2>2, <2>3, <3>1
  <2>4. CASE n # 0
    <3>1. n - 1 \in Nat /\ ~ (n <= n - 1)
      BY <2>2, <2>4
    <3>2. PICK g : G(g, n - 1)
      <4>1. n - 1 \notin Bad
        <5> HIDE DEF Bad
        <5> QED
          BY <2>1, <3>1
      <4> QED
        BY <3>1, <4>1
    <3> DEFINE h == [k \in 0 .. n |-> IF k = n THEN take_entry(g[k - 1], es[k]) ELSE g[k]]
    <3>3. G(h, n)
      BY <2>2, <2>4, <3>1, <3>2
    <3> HIDE DEF h
    <3> QED
      BY <2>2, <3>3
  <2> QED
    BY <2>3, <2>4
<1>2. PICK g : G(g, N)
  <2>1. N \notin Bad
    <3> HIDE DEF Bad
    <3> QED
      BY <1>1
  <2> HIDE DEF G, N
  <2> QED
    BY <1>0, <2>1
<1> DEFINE upto[k \in 0 .. Len(es)] == IF k = 0 THEN <<>> ELSE take_entry(upto[k - 1], es[k])
<1>3. upto = CHOOSE h : G(h, N)
  OBVIOUS
<1>4. G(upto, N)
  <2> HIDE DEF G, upto, N
  <2> QED
    BY <1>2, <1>3
<1>5. regions_of(es) = upto[N]
  BY DEF regions_of
<1> HIDE DEF upto, N
<1>6. upto[0] = <<>> /\ \A k \in 1 .. N : upto[k] = take_entry(upto[k - 1], es[k])
  BY <1>0, <1>4
<1> DEFINE Wrong == {k \in 0 .. N : ~ Regions(upto[k])}
<1>7. Wrong = {}
  <2> SUFFICES ASSUME Wrong # {}  PROVE FALSE
    OBVIOUS
  <2>1. PICK n \in Wrong : \A j \in Wrong : n <= j
    <3>1. Wrong \in SUBSET Nat
      BY <1>0
    <3> HIDE DEF Wrong
    <3> QED
      BY <3>1, LeastNat
  <2>2. n \in 0 .. N /\ ~ Regions(upto[n])
    OBVIOUS
  <2>3. n # 0
    <3>1. Regions(<<>>)
      BY LayoutAssumption DEF Regions
    <3> QED
      BY <1>6, <2>2, <3>1
  <2>4. n \in 1 .. N /\ n - 1 \in 0 .. N /\ ~ (n <= n - 1)
    BY <1>0, <2>2, <2>3
  <2>5. Regions(upto[n - 1])
    <3> HIDE DEF Regions
    <3> QED
      BY <2>1, <2>4
  <2> QED
    BY <1>0, <1>6, <2>2, <2>4, <2>5, TakeEntry
<1>8. N \in 0 .. N
  BY <1>0
<1> QED
  BY <1>5, <1>7, <1>8

\* The allocator gets a geometry it was proved for.
LEMMA Geometry ==
  /\ P!GeometryAssumption /\ P!RangesAssumption
  /\ P!Base = 0 /\ P!Index = 0 .. managed_frames - 1
  /\ \A f \in Int : P!FrameAddr(f) = PageSize * f
<1>1. PageSize \in Nat \ {0} /\ WordSize \in Nat \ {0} /\ 2 * PageSize <= WordSize
      /\ managed_frames \in Nat /\ bitmap_bytes \in Nat
      /\ choose_early_identity_limit = PageSize * managed_frames
      /\ choose_early_identity_limit \in Nat
      /\ choose_early_identity_limit <= WordSize - PageSize
      /\ PageSize <= choose_early_identity_limit
  <2>1. /\ managed_frames \in Nat /\ bitmap_bytes \in Nat /\ 0 < managed_frames
        /\ choose_early_identity_limit = PageSize * managed_frames
        /\ choose_early_identity_limit \in Nat
        /\ choose_early_identity_limit <= WordSize - PageSize
    BY Layout, EarlyTables
  <2>2. PageSize \in Nat \ {0} /\ WordSize \in Nat \ {0}
    BY LayoutAssumption
  <2>3. PageSize <= PageSize * managed_frames
    BY <2>1, <2>2, SMTT(30)
  <2> QED
    BY <2>1, <2>2, <2>3
<1>2. P!Base = 0
  <2>1. (0 + PageSize - 1) % WordSize = PageSize - 1 /\ (PageSize - 1) % PageSize = PageSize - 1
    <3>1. \A x \in Nat, y \in Nat \ {0} : x < y => x % y = x
      BY SMTT(30)
    <3> QED
      BY <1>1, <3>1
  <2> QED
    BY <1>1, <2>1 DEF P!Base, P!align_up, P!align_down
<1>3. managed_frames * PageSize = choose_early_identity_limit
  BY <1>1, Products
<1>4. P!GeometryAssumption
  BY <1>1, <1>2, <1>3 DEF P!GeometryAssumption, P!Addr
<1>5. P!RangesAssumption
  BY DEF P!RangesAssumption
<1>6. \A f \in Int : P!FrameAddr(f) = PageSize * f
  BY <1>1, <1>2, SMTT(30) DEF P!FrameAddr
<1> QED
  BY <1>2, <1>4, <1>5, <1>6 DEF P!Index

\* The allocator's actions here are those its own proofs speak of.
LEMMA SameActions ==
  /\ PFA!Init => P!Init
  /\ \A s, e : PFA!add_usable_range(s, e) => P!add_usable_range(s, e)
  /\ PFA!reserve_null => P!reserve_null
  /\ \A s, l : PFA!reserve_range(s, l) => P!reserve_range(s, l)
  /\ PFA!alloc_frame => P!alloc_frame
  /\ PFA!alloc_fails => P!alloc_fails
  /\ PFA!TypeOK = P!TypeOK
<1> USE DEF P!Index, PFA!Index, P!bit_set, PFA!bit_set, P!FrameAddr, PFA!FrameAddr, P!Base, PFA!Base,
            P!Bits, PFA!Bits, P!bit_test, PFA!bit_test, P!align_up, PFA!align_up, P!align_down,
            PFA!align_down
<1>1. PFA!Init => P!Init
  BY DEF PFA!Init, P!Init
<1> USE DEF P!index_range, PFA!index_range, P!is_empty, PFA!is_empty, P!first_index,
            PFA!first_index, P!last_index, PFA!last_index, P!ManagedEnd, PFA!ManagedEnd,
            P!Touched, PFA!Touched, P!reserved_bits, PFA!reserved_bits
<1>2. ASSUME NEW s, NEW e, PFA!add_usable_range(s, e)  PROVE P!add_usable_range(s, e)
  BY <1>2 DEF PFA!add_usable_range, P!add_usable_range, PFA!bit_clear, P!bit_clear
<1>3. PFA!reserve_null => P!reserve_null
  BY DEF PFA!reserve_null, P!reserve_null
<1>4. ASSUME NEW s, NEW l, PFA!reserve_range(s, l)  PROVE P!reserve_range(s, l)
  BY <1>4 DEF PFA!reserve_range, P!reserve_range
<1>5. PFA!alloc_frame => P!alloc_frame
  BY DEF PFA!alloc_frame, P!alloc_frame, PFA!scan_hits, P!scan_hits, PFA!scanned_before,
         P!scanned_before
<1>6. PFA!alloc_fails => P!alloc_fails
  BY DEF PFA!alloc_fails, P!alloc_fails, PFA!impl, P!impl, PFA!ghost, P!ghost
<1>7. PFA!TypeOK = P!TypeOK
  BY DEF PFA!TypeOK, P!TypeOK, PFA!Addr, P!Addr
<1> QED
  BY <1>1, <1>2, <1>3, <1>4, <1>5, <1>6, <1>7

\* The managed frames are pages below the identity limit.
LEMMA FramesArePages ==
  /\ P!Index \subseteq Page
  /\ \A f \in P!Index : f * PageSize \in Nat /\ f * PageSize < choose_early_identity_limit
<1>1. PICK n \in Nat : WordSize = PageSize * n /\ Page = 0 .. n - 1
  BY Space
<1>2. managed_frames \in Nat /\ PageSize \in Nat \ {0}
      /\ PageSize * managed_frames <= PageSize * n - PageSize
  BY <1>1, Layout, EarlyTables, LayoutAssumption
<1>3. managed_frames < n
  <2>1. PageSize * managed_frames < PageSize * n <=> managed_frames < n
    BY <1>2, ProductOrder
  <2> QED
    BY <1>1, <1>2, <2>1, ProductOrder
<1>4. P!Index \subseteq Page
  BY <1>1, <1>2, <1>3, Geometry
<1>5. ASSUME NEW f \in P!Index
      PROVE  f * PageSize \in Nat /\ f * PageSize < choose_early_identity_limit
  <2>1. f \in Nat /\ f < managed_frames
    BY <1>2, Geometry
  <2>2. f * PageSize < managed_frames * PageSize /\ f * PageSize \in Nat
        /\ PageSize * managed_frames = managed_frames * PageSize
    BY <1>2, <2>1, Products
  <2> QED
    BY <2>2, Layout
<1> QED
  BY <1>4, <1>5

\* The frames that a range touches are its pages.
LEMMA TouchedPages ==
  ASSUME NEW start \in Int, NEW end \in Int
  PROVE  P!Touched(start, end) = PagesOf(start, end) \cap P!Index
<1>1. P!Index \subseteq Page /\ PageSize \in Nat \ {0}
  BY FramesArePages, LayoutAssumption
<1>2. \A f \in P!Index : /\ P!FrameAddr(f) = f * PageSize
                          /\ P!FrameAddr(f) + PageSize = (f + 1) * PageSize
                          /\ f \in Int
  <2> SUFFICES ASSUME NEW f \in P!Index
               PROVE  /\ P!FrameAddr(f) = f * PageSize
                      /\ P!FrameAddr(f) + PageSize = (f + 1) * PageSize
                      /\ f \in Int
    OBVIOUS
  <2>1. f \in Nat /\ P!FrameAddr(f) = PageSize * f
    BY Geometry
  <2> QED
    BY <1>1, <2>1, Products
<1> QED
  BY <1>1, <1>2 DEF P!Touched, PagesOf

\* The pages of the framebuffer, in the order map_range maps them.
fb_first == fb.phys \div PageSize
FbPage(j) == fb_first + j

\* map_range's loop covers every byte of it.
LEMMA FbPages ==
  ASSUME fb \in Framebuffers, fb # NoFramebuffer
  PROVE  /\ fb_pages \in Nat /\ fb_page = FbPage(i)
         /\ \A j \in 0 .. fb_pages - 1 : FbPage(j) \in Page /\ pdi(FbPage(j)) \in 0 .. KMAP_PDE
         /\ \A a \in fb.phys .. fb.phys + fb.bytes - 1 :
              \E j \in 0 .. fb_pages - 1 : a \div PageSize = FbPage(j)
<1> DEFINE phys == fb.phys
           end == fb.phys + fb.bytes
<1>1. phys \in Nat /\ end \in Nat /\ phys <= end /\ end <= WordSize
  BY MachineAssumption
<1>2. PageSize \in Nat \ {0} /\ PtSpan \in Nat \ {0}
  BY LayoutAssumption
<1>3. fb_end = align_up_4k(end) /\ fb_base = (phys \div PageSize) * PageSize
      /\ fb_first = phys \div PageSize
  BY DEF fb_end, fb_base, fb_first
<1> HIDE DEF phys, end
<1>4. PICK n \in Nat : fb_end = PageSize * n /\ end <= fb_end /\ fb_end < end + PageSize
                       /\ fb_end \in Nat
  BY <1>1, <1>3, AlignUp4k
<1>5. PICK w \in Nat : WordSize = PageSize * w /\ Page = 0 .. w - 1
  BY Space
<1>6. fb_first \in Nat /\ fb_base = fb_first * PageSize /\ fb_base \in Nat
      /\ fb_base = PageSize * fb_first /\ fb_base <= phys
  <2>1. fb_first \in Nat /\ PageSize * fb_first <= phys
    BY <1>1, <1>2, <1>3, DivBounds, DivNat
  <2>2. fb_base = fb_first * PageSize
    BY <1>3
  <2> QED
    BY <1>2, <2>1, <2>2, Products
<1>7. fb_first <= n
  <2>1. PageSize * n < PageSize * fb_first <=> n < fb_first
    BY <1>2, <1>6, ProductOrder
  <2>2. PageSize * fb_first <= PageSize * n
    BY <1>1, <1>4, <1>6
  <2> QED
    BY <1>4, <1>6, <2>1, <2>2, ProductOrder
<1>8. n <= w
  <2>1. PageSize * n < PageSize * (w + 1) <=> n < w + 1
    BY <1>2, ProductOrder
  <2>2. PageSize * (w + 1) = WordSize + PageSize
    BY <1>2, <1>5, ProductOrder
  <2>3. WordSize \in Nat
    BY LayoutAssumption
  <2> QED
    BY <1>1, <1>2, <1>4, <1>5, <2>1, <2>2, <2>3
<1>9. fb_pages = n - fb_first
  <2>1. fb_end - fb_base = PageSize * (n - fb_first)
    BY <1>2, <1>4, <1>6, ProductOrder
  <2>2. ((n - fb_first) * PageSize) \div PageSize = n - fb_first
        /\ (n - fb_first) * PageSize = PageSize * (n - fb_first)
    BY <1>2, <1>6, <1>7, DivOfProduct, Products
  <2> QED
    BY <2>1, <2>2 DEF fb_pages
<1>10. fb_page = FbPage(i)
  <2>1. fb_base \div PageSize = fb_first
    BY <1>2, <1>6, DivOfProduct
  <2> QED
    BY <2>1 DEF fb_page, FbPage
<1>11. ASSUME NEW j \in 0 .. fb_pages - 1
       PROVE  FbPage(j) \in Page /\ pdi(FbPage(j)) \in 0 .. KMAP_PDE
  <2> DEFINE f == FbPage(j)
  <2>1. f \in Nat /\ f < w
    BY <1>4, <1>5, <1>6, <1>7, <1>8, <1>9 DEF FbPage
  <2> HIDE DEF f
  <2>2. f * PageSize < w * PageSize /\ f * PageSize \in Nat /\ w * PageSize = WordSize
    BY <1>2, <1>5, <2>1, Products
  <2>3. WordSize = PtSpan * (KMAP_PDE + 1) /\ KMAP_PDE + 1 \in Nat /\ KMAP_PDE \in Nat
    BY Space
  <2>4. (f * PageSize) \div PtSpan < KMAP_PDE + 1 /\ (f * PageSize) \div PtSpan \in Nat
    BY <1>2, <2>2, <2>3, DivOrder, DivNat
  <2>5. pdi(f) \in 0 .. KMAP_PDE
    BY <2>3, <2>4 DEF pdi
  <2> QED
    BY <1>5, <2>1, <2>5 DEF f
<1>12. ASSUME NEW a \in phys .. end - 1
       PROVE  \E j \in 0 .. fb_pages - 1 : a \div PageSize = FbPage(j)
  <2>1. a \in Nat /\ phys <= a /\ a < end
    BY <1>1
  <2>2. a \div PageSize \in Nat /\ fb_first <= a \div PageSize
    BY <1>1, <1>2, <1>3, <2>1, DivOrder, DivNat
  <2>3. a \div PageSize < n
    <3>1. a < PageSize * n
      BY <1>1, <1>4, <2>1
    <3> QED
      BY <1>2, <2>1, <3>1, DivOrder
  <2> DEFINE j == (a \div PageSize) - fb_first
             q == a \div PageSize
  <2> HIDE DEF q
  <2>4. q \in Nat /\ fb_first <= q /\ q < n
    BY <2>2, <2>3 DEF q
  <2>5. q - fb_first \in 0 .. fb_pages - 1 /\ q = fb_first + (q - fb_first)
    BY <1>6, <1>9, <2>4
  <2> QED
    BY <2>5 DEF FbPage, q
<1>13. fb_pages \in Nat
  BY <1>6, <1>7, <1>9
<1>14. \A a \in fb.phys .. fb.phys + fb.bytes - 1 :
          \E j \in 0 .. fb_pages - 1 : a \div PageSize = FbPage(j)
  <2> SUFFICES ASSUME NEW a \in fb.phys .. fb.phys + fb.bytes - 1
               PROVE  \E j \in 0 .. fb_pages - 1 : a \div PageSize = FbPage(j)
    OBVIOUS
  <2>0. fb.phys + fb.bytes - 1 = end - 1
    BY MachineAssumption DEF end
  <2>1. a \in phys .. end - 1
    BY Zenon, <2>0 DEF phys
  <2> QED
    BY Zenon, <1>12, <2>1
<1>15. \A j \in 0 .. fb_pages - 1 : FbPage(j) \in Page /\ pdi(FbPage(j)) \in 0 .. KMAP_PDE
  BY Zenon, <1>11
<1> QED
  BY Zenon, <1>10, <1>13, <1>14, <1>15

-----------------------------------------------------------------------------
(***************************************************************************)
(* The inductive invariant.  TablesReachable needs the bounds of every     *)
(* address in the directory, and how far the framebuffer is mapped; that   *)
(* no frame is the boot's own needs to know which reservations are made.   *)
(***************************************************************************)
\* The statement groups, by how far paging and the allocator are.
Unpaged == {"make_mem_map", "early_paging"}
Early   == Unpaged \cup {"bitmap", "donate"}
Late    == {"framebuffer", "enter", "running", "panic", "crash"}

\* The machine, and what make_mem_map read of it.
MachineInv ==
  /\ firmware \in FirmwareMaps /\ fb \in Framebuffers
  /\ Regions(regions)
  /\ pc # "make_mem_map" => regions = regions_of(firmware)

\* Where the boot is says how far the allocator and the bump pointer are.
ControlInv ==
  /\ pc \in Early \cup {"reserve", "kernel_space"} \cup Late
  /\ pc \in Early => phase = "donate"
  /\ pc \in {"reserve", "kernel_space"} => phase = "reserve"
  /\ pc \in Late => phase = "run"
  /\ i \in Nat
  /\ pc \in Unpaged \cup {"bitmap"} => i = 1
  /\ pc = "donate" => i \in 1 .. Len(regions) + 1
  /\ pc = "reserve" => i \in 1 .. 4
  /\ pc \in {"framebuffer", "enter", "running"} => fb # NoFramebuffer
  /\ pc = "framebuffer" => i <= fb_pages
  /\ bump = IF pc \in Unpaged THEN 0 ELSE IF pc = "bitmap" THEN bitmap_storage ELSE boot_end
  /\ heap \in {0, boot_end}

\* The first n pages of the framebuffer are mapped, by tables that are there.
MappedUpTo(n) ==
  \A j \in 0 .. n - 1 : pte[FbPage(j)] = FbPage(j) /\ pd[pdi(FbPage(j))] # 0

\* The directory's entries are below the limit, under which pages are mapped to
\* themselves.
TablesInv ==
  /\ cr3 \in 0 .. choose_early_identity_limit - 1
  /\ pd \in [0 .. KMAP_PDE -> 0 .. choose_early_identity_limit - 1]
  /\ pte \in [Page -> Page \cup {Unmapped}]
  /\ pc \in Unpaged => cr3 = 0
  /\ pc \notin Unpaged => \A p \in P!Index : pte[p] = p
  /\ pc = "framebuffer" => MappedUpTo(i)
  /\ pc \in {"enter", "running"} => MappedUpTo(fb_pages)

\* The pages of the boot's own, those of the first n reservations.
Claimed(n) ==
  PagesOf(0, PageSize) \cup (IF n >= 2 THEN PagesOf(KernelStart, KernelEnd) ELSE {})
                       \cup (IF n >= 3 THEN PagesOf(Mb2Info, mb2_end_addr) ELSE {})
                       \cup (IF n >= 4 THEN PagesOf(pd_phys, boot_end) ELSE {})

\* The allocator's own invariant, and what is reserved so far.
FramesInv ==
  /\ P!IInv
  /\ pc = "reserve" => Claimed(i) \cap P!Index \subseteq reserved
  /\ pc \notin Early \cup {"reserve"} => Claimed(4) \cap P!Index \subseteq reserved

\* Region r donates frame f; the first n of rs donate these.
donates(r, f) ==
  r.type = "Usable" /\ f \in P!index_range(r.addr, (r.addr + r.length) % WordSize)

DonatedBy(rs, n) == {f \in P!Index : \E k \in 1 .. n : donates(rs[k], f)}

\* What the whole memory map donates.
Donated == DonatedBy(regions_of(firmware), Len(regions_of(firmware)))

\* Between them, donations and reservations decide what is free.
FreeInv ==
  /\ pc \in Unpaged \cup {"bitmap"} => P!FreeFrames = {}
  /\ pc = "donate" => P!FreeFrames = DonatedBy(regions, i - 1)
  /\ pc \notin Early => /\ P!FreeFrames \cup handed \subseteq Donated
                        /\ Donated \ Claimed(4) \subseteq P!FreeFrames \cup handed

\* All of it.
BootInv == MachineInv /\ ControlInv /\ TablesInv /\ FramesInv /\ FreeInv

-----------------------------------------------------------------------------
\* Nothing is free, mapped or reserved when the boot starts.
LEMMA BootInitInv ==
  Init => BootInv
<1> SUFFICES ASSUME Init  PROVE BootInv
  OBVIOUS
<1> USE DEF Init
<1>1. P!Init
  BY SameActions
<1>2. P!IInv /\ P!FreeFrames = {}
  <2>1. P!IInv
    BY <1>1, Geometry, P!InitInv
  <2>2. P!FreeFrames = {}
    BY <1>1 DEF P!Init, P!FreeFrames, P!bit_test
  <2> QED
    BY <2>1, <2>2
<1>3. MachineInv
  <2>1. Regions(<<>>)
    BY LayoutAssumption DEF Regions
  <2> QED
    BY <2>1 DEF MachineInv
<1>4. ControlInv
  BY <1>1 DEF ControlInv, Early, Unpaged, Late, P!Init
<1>5. TablesInv
  <2>1. 0 \in 0 .. choose_early_identity_limit - 1
    BY Layout, EarlyTables
  <2> QED
    BY <2>1 DEF TablesInv, Unpaged
<1>6. FramesInv /\ FreeInv
  BY <1>2 DEF FramesInv, FreeInv, Early, Unpaged
<1> QED
  BY <1>3, <1>4, <1>5, <1>6 DEF BootInv

\* A step that leaves the allocator alone.
LEMMA Still ==
  ASSUME UNCHANGED allocator
  PROVE  /\ P!IInv => P!IInv'
         /\ P!FreeFrames' = P!FreeFrames
<1> USE DEF allocator
<1>1. P!FreeFrames' = P!FreeFrames
  BY DEF P!FreeFrames, P!bit_test
<1>2. P!IInv => P!IInv'
  BY <1>1 DEF P!IInv, P!TypeOK, P!NothingFreeBelowHint, P!bit_test, P!HandedIsUsed, P!HandedIsUsable,
              P!FreeIsUsable, P!NullIsKept, P!PhaseOrder
<1> QED
  BY <1>1, <1>2

\* The memory map is read.
LEMMA MapStep ==
  ASSUME BootInv, make_mem_map
  PROVE  BootInv'
<1> USE DEF make_mem_map, Early, Unpaged, Late
<1>1. MachineInv'
  <2>1. firmware \in Seq(FirmwareEntry)
    BY MachineAssumption DEF BootInv, MachineInv
  <2>2. Regions(regions_of(firmware))
    BY <2>1, RegionsOf
  <2> QED
    BY <2>2 DEF BootInv, MachineInv, machine
<1>2. ControlInv'
  BY DEF BootInv, ControlInv, allocator, machine
<1>3. TablesInv'
  BY DEF BootInv, TablesInv, paging
<1>4. FramesInv' /\ FreeInv'
  BY Still DEF BootInv, FramesInv, FreeInv
<1> QED
  BY <1>1, <1>2, <1>3, <1>4 DEF BootInv

\* The early tables map every page below the limit to itself.
LEMMA PagingStep ==
  ASSUME BootInv, setup_early_identity_paging
  PROVE  BootInv'
<1> USE DEF setup_early_identity_paging, Early, Unpaged, Late
<1>1. MachineInv'
  BY DEF BootInv, MachineInv, machine
<1>2. ControlInv'
  BY DEF BootInv, ControlInv, allocator, machine, bitmap_storage
<1>3. TablesInv'
  <2> DEFINE lim == choose_early_identity_limit
  <2>1. /\ pd_phys \in 0 .. lim - 1 /\ 0 \in 0 .. lim - 1
        /\ \A di \in 0 .. last_pdi + 1 : pt_phys(di) \in 0 .. lim - 1
        /\ last_pdi \in Nat
    BY Layout, EarlyTables
  <2>2. kmap_pt_phys \in 0 .. lim - 1
    BY <2>1 DEF kmap_pt_phys
  <2> HIDE DEF lim
  <2>3. pd' \in [0 .. KMAP_PDE -> 0 .. lim - 1]
    BY <2>1, <2>2
  <2>4. pte' \in [Page -> Page \cup {Unmapped}]
    BY DEF setup_early_identity_paging
  <2>5. ASSUME NEW p \in P!Index  PROVE pte'[p] = p
    <3>1. p \in Page /\ p * PageSize < choose_early_identity_limit
      BY FramesArePages
    <3> QED
      BY <3>1
  <2> QED
    BY <2>1, <2>3, <2>4, <2>5 DEF TablesInv, lim
<1>4. FramesInv' /\ FreeInv'
  BY Still DEF BootInv, FramesInv, FreeInv
<1> QED
  BY <1>1, <1>2, <1>3, <1>4 DEF BootInv

\* The bitmap gets its place.
LEMMA BitmapStep ==
  ASSUME BootInv, place_bitmap
  PROVE  BootInv'
<1> USE DEF place_bitmap, Early, Unpaged, Late
<1>1. MachineInv'
  BY DEF BootInv, MachineInv, machine
<1>2. ControlInv'
  BY DEF BootInv, ControlInv, MachineInv, Regions, allocator, machine, boot_end
<1>3. TablesInv'
  BY DEF BootInv, TablesInv, paging
<1>4. FramesInv' /\ FreeInv'
  <2>1. i = 1 /\ \A rs : DonatedBy(rs, 1 - 1) = {}
    BY DEF BootInv, ControlInv, DonatedBy
  <2> QED
    BY <2>1, Still DEF BootInv, FramesInv, FreeInv
<1> QED
  BY <1>1, <1>2, <1>3, <1>4 DEF BootInv

-----------------------------------------------------------------------------
(* What the calls of the allocator do.                                     *)

\* add_usable_range frees the frames its loop visits.
LEMMA Donation ==
  ASSUME P!IInv, NEW start \in P!Addr, NEW end \in P!Addr, PFA!add_usable_range(start, end)
  PROVE  /\ P!IInv' /\ UNCHANGED <<phase, ret, handed, reserved>>
         /\ P!index_range(start, end) \subseteq P!Index
         /\ P!FreeFrames' = P!FreeFrames \cup P!index_range(start, end)
<1> DEFINE R == P!index_range(start, end)
<1>1. P!add_usable_range(start, end)
  BY SameActions
<1>2. P!IInv'
  BY <1>1, Geometry, P!DonateInv
<1>3. R \subseteq P!Index
  <2>1. R \subseteq P!Touched(start, end)
    BY Geometry, P!FreedIsTouched
  <2> QED
    BY <2>1 DEF P!Touched
<1>4. used' = P!bit_clear(R) /\ UNCHANGED <<phase, ret, handed, reserved>>
  BY <1>1 DEF P!add_usable_range
<1> HIDE DEF R
<1>5. P!FreeFrames' = P!FreeFrames \cup (R \cap P!Bits)
  BY <1>3, <1>4 DEF P!FreeFrames, P!bit_clear, P!bit_test
<1>6. P!Index \subseteq P!Bits
  <2>1. managed_frames \in Nat /\ bitmap_bytes \in Nat /\ managed_frames <= 8 * bitmap_bytes
    BY Layout, EarlyTables
  <2> QED
    BY <2>1, Geometry DEF P!Bits
<1> QED
  BY <1>2, <1>3, <1>4, <1>5, <1>6 DEF R

\* reserve_range takes the frames its range touches from the free ones, and
\* no others.
LEMMA Reservation ==
  ASSUME P!IInv, NEW start \in Nat, NEW len \in Nat \ {0},
         start + len <= WordSize - PageSize,
         \/ phase = "donate" /\ start = 0 /\ len = PageSize /\ PFA!reserve_null
         \/ phase = "reserve" /\ PFA!reserve_range(start, len)
  PROVE  /\ P!IInv' /\ phase' = "reserve" /\ handed = {} /\ handed' = {}
         /\ UNCHANGED ret
         /\ reserved' = reserved \cup (PagesOf(start, start + len) \cap P!Index)
         /\ \E R \in SUBSET PagesOf(start, start + len) : P!FreeFrames' = P!FreeFrames \ R
<1>1. PageSize \in Nat \ {0} /\ WordSize \in Nat /\ start \in P!Addr /\ len \in P!Addr
      /\ start + len \in P!Addr
  BY LayoutAssumption DEF P!Addr
<1>2. P!reserve_null \/ P!reserve_range(start, len)
  BY SameActions
<1>3. /\ used' = P!reserved_bits(start, len)
      /\ reserved' = reserved \cup P!Touched(start, start + len)
      /\ phase' = "reserve" /\ UNCHANGED <<hint, ret, handed, usable>>
      /\ phase = "donate" => start = 0 /\ len = PageSize
      /\ phase # "run"
  <2>1. CASE phase = "donate" /\ start = 0 /\ len = PageSize /\ PFA!reserve_null
    <3>1. P!reserve_null /\ 0 + PageSize = PageSize
      BY <1>1, <2>1, SameActions
    <3> QED
      BY <2>1, <3>1 DEF P!reserve_null
  <2>2. CASE phase = "reserve" /\ PFA!reserve_range(start, len)
    <3>1. P!reserve_range(start, len)
      BY <2>2, SameActions
    <3> QED
      BY <2>2, <3>1 DEF P!reserve_range
  <2> QED
    BY <2>1, <2>2
<1>4. P!IInv'
  <2>1. reserved' = reserved \cup (IF len = 0 THEN {} ELSE P!Touched(start, start + len))
    BY <1>3
  <2> QED
    BY <1>1, <1>3, <2>1, Geometry, P!ReserveInv
<1>5. handed = {}
  BY <1>3 DEF P!IInv, P!PhaseOrder
<1>6. P!Touched(start, start + len) = PagesOf(start, start + len) \cap P!Index
  BY TouchedPages
<1> DEFINE R == P!index_range(start, start + len)
<1>7. R \subseteq PagesOf(start, start + len)
  <2>1. R \subseteq P!Touched(start, start + len)
    BY <1>1, Geometry, P!FreedIsTouched
  <2> QED
    BY <1>6, <2>1
<1>8. used' = P!bit_set(R)
  <2>1. (start + len) % WordSize = start + len
    <3>1. \A x \in Nat, y \in Nat \ {0} : x < y => x % y = x
      BY SMTT(30)
    <3>2. start + len \in Nat /\ start + len < WordSize /\ WordSize \in Nat \ {0}
      BY <1>1
    <3> QED
      BY <3>1, <3>2
  <2> QED
    BY <1>3, <2>1 DEF P!reserved_bits
<1> HIDE DEF R
<1>9. P!FreeFrames' = P!FreeFrames \ R
  BY <1>8 DEF P!FreeFrames, P!bit_set, P!bit_test
<1> QED
  BY <1>3, <1>4, <1>5, <1>6, <1>7, <1>9

\* alloc_frame answers the address of the lowest free frame, never nullptr.
LEMMA Allocation ==
  ASSUME P!IInv, PFA!alloc_frame
  PROVE  /\ P!IInv' /\ phase # "donate" /\ phase' = "run" /\ UNCHANGED reserved
         /\ ret' \in 1 .. choose_early_identity_limit - 1
         /\ \E f \in P!FreeFrames :
              /\ \A g \in P!FreeFrames : f <= g
              /\ P!FreeFrames' = P!FreeFrames \ {f}
              /\ handed' = handed \cup {f}
<1>1. P!alloc_frame
  BY SameActions
<1>2. P!IInv'
  BY <1>1, Geometry, P!AllocInv
<1>3. PICK f \in P!Index :
        /\ P!scan_hits(f)
        /\ used' = P!bit_set({f})
        /\ ret' = P!FrameAddr(f)
        /\ handed' = handed \cup {f}
  BY <1>1 DEF P!alloc_frame
<1>4. f \in P!Bits /\ ~ P!bit_test(f) /\ \A j \in 0 .. f - 1 : P!bit_test(j)
  BY <1>3, Geometry, P!LowestFirst DEF P!IInv
<1>5. f \in P!FreeFrames
  BY <1>4 DEF P!FreeFrames
<1>6. \A g \in P!FreeFrames : f <= g
  BY <1>4, Geometry DEF P!FreeFrames
<1>7. P!FreeFrames' = P!FreeFrames \ {f}
  BY <1>3 DEF P!FreeFrames, P!bit_set, P!bit_test
<1>8. phase # "donate" /\ phase' = "run" /\ UNCHANGED reserved
  BY <1>1 DEF P!alloc_frame
<1>9. f \in Nat /\ f < managed_frames /\ managed_frames \in Nat /\ PageSize \in Nat \ {0}
  BY Geometry, Layout, LayoutAssumption
<1>10. ret' = PageSize * f
  BY <1>3, <1>9, Geometry
<1>11. f # 0
  <2>1. 0 \in P!Index
    BY <1>9, Geometry
  <2> QED
    BY <1>2, <1>3, <1>8, <2>1, Geometry DEF P!IInv, P!NullIsKept
<1>12. PageSize * f \in 1 .. PageSize * managed_frames - 1
  <2>1. f * PageSize \in Nat /\ f <= f * PageSize /\ PageSize * f = f * PageSize
        /\ f * PageSize < managed_frames * PageSize
        /\ PageSize * managed_frames = managed_frames * PageSize
        /\ managed_frames * PageSize \in Nat
    BY <1>9, Products
  <2> QED
    BY <1>9, <1>11, <2>1
<1> QED
  BY <1>2, <1>5, <1>6, <1>7, <1>3, <1>8, <1>10, <1>12, Layout

-----------------------------------------------------------------------------
(* The steps that call the allocator.                                      *)

\* A region of the memory map is donated, or is not usable.
LEMMA DonateStep ==
  ASSUME BootInv, donate_region
  PROVE  BootInv'
<1> DEFINE r == regions[i]
           start == r.addr
           end == (r.addr + r.length) % WordSize
<1>1. /\ pc = "donate" /\ i \in 1 .. Len(regions) /\ i' = i + 1 /\ Len(regions) \in Nat
      /\ UNCHANGED <<machine, paging, pc, regions, bump, heap>>
  BY DEF donate_region, BootInv, ControlInv, MachineInv, Regions
<1>2. r \in MemoryRegion
  BY <1>1 DEF BootInv, MachineInv, Regions
<1>3. start \in P!Addr /\ end \in P!Addr
  <2>1. r.addr \in 0 .. WordSize - 1 /\ r.length \in 0 .. WordSize - 1 /\ WordSize \in Nat \ {0}
    BY <1>2, LayoutAssumption DEF MemoryRegion
  <2>2. r.addr + r.length \in Nat
    BY <2>1
  <2>3. end \in 0 .. WordSize - 1
    BY <2>1, <2>2, DivMod
  <2> QED
    BY <2>1, <2>3 DEF P!Addr
<1>4. /\ P!IInv' /\ phase' = "donate"
      /\ P!FreeFrames' = DonatedBy(regions, i)
  <2>1. P!IInv /\ phase = "donate" /\ P!FreeFrames = DonatedBy(regions, i - 1)
    BY <1>1 DEF BootInv, FramesInv, ControlInv, FreeInv, Early, Unpaged
  <2>2. CASE r.type = "Usable"
    <3>1. PFA!add_usable_range(start, end)
      BY <2>2 DEF donate_region
    <3>2. /\ P!IInv' /\ phase' = phase
          /\ P!index_range(start, end) \subseteq P!Index
          /\ P!FreeFrames' = P!FreeFrames \cup P!index_range(start, end)
      BY <1>3, <2>1, <3>1, Donation
    <3>3. \A f : donates(regions[i], f) <=> f \in P!index_range(start, end)
      BY <2>2 DEF donates
    <3> HIDE DEF r, start, end
    <3>4. DonatedBy(regions, i) = DonatedBy(regions, i - 1) \cup P!index_range(start, end)
      <4>1. \A k : k \in 1 .. i <=> k \in 1 .. i - 1 \/ k = i
        BY <1>1
      <4> QED
        BY Zenon, <3>2, <3>3, <4>1 DEF DonatedBy
    <3> QED
      BY <2>1, <3>2, <3>4
  <2>3. CASE r.type # "Usable"
    <3>1. UNCHANGED allocator
      BY <2>3 DEF donate_region
    <3>2. \A f : ~ donates(regions[i], f)
      BY <2>3 DEF donates
    <3> HIDE DEF r, start, end
    <3>3. DonatedBy(regions, i) = DonatedBy(regions, i - 1)
      <4>1. \A k : k \in 1 .. i <=> k \in 1 .. i - 1 \/ k = i
        BY <1>1
      <4> QED
        BY Zenon, <3>2, <4>1 DEF DonatedBy
    <3>4. phase' = phase
      BY <3>1 DEF allocator
    <3> QED
      BY <2>1, <3>1, <3>3, <3>4, Still
  <2> QED
    BY <2>2, <2>3
<1> HIDE DEF r, start, end
<1> USE DEF Early, Unpaged, Late
<1>5. MachineInv'
  BY <1>1 DEF BootInv, MachineInv, machine
<1>6. ControlInv'
  BY <1>1, <1>4 DEF BootInv, ControlInv
<1>7. TablesInv'
  BY <1>1 DEF BootInv, TablesInv, paging
<1>8. FramesInv' /\ FreeInv'
  <2>1. i' - 1 = i /\ regions' = regions /\ pc' = "donate"
    BY <1>1
  <2>2. DonatedBy(regions, i' - 1) = DonatedBy(regions, i)
    BY <2>1
  <2> QED
    BY <1>4, <2>1, <2>2 DEF FramesInv, FreeInv, DonatedBy
<1> QED
  BY <1>5, <1>6, <1>7, <1>8 DEF BootInv

\* Page 0 is taken back.
LEMMA NullStep ==
  ASSUME BootInv, reserve_null
  PROVE  BootInv'
<1> USE DEF Early, Unpaged, Late
<1>1. /\ pc = "donate" /\ ~ (i <= Len(regions)) /\ PFA!reserve_null /\ i' = 1 /\ pc' = "reserve"
      /\ UNCHANGED <<machine, paging, regions, bump, heap>>
  BY DEF reserve_null, BootInv, MachineInv, ControlInv, Regions
<1>2. PageSize \in Nat \ {0} /\ 0 + PageSize <= WordSize - PageSize /\ 0 + PageSize = PageSize
  BY LayoutAssumption, Geometry DEF P!GeometryAssumption
<1>3. P!IInv /\ phase = "donate" /\ P!FreeFrames = DonatedBy(regions, i - 1)
      /\ i - 1 = Len(regions) /\ regions = regions_of(firmware)
  BY <1>1 DEF BootInv, FramesInv, ControlInv, FreeInv, MachineInv, Regions
<1>4. /\ P!IInv' /\ phase' = "reserve" /\ handed' = {}
      /\ reserved' = reserved \cup (PagesOf(0, 0 + PageSize) \cap P!Index)
      /\ \E R \in SUBSET PagesOf(0, 0 + PageSize) : P!FreeFrames' = P!FreeFrames \ R
  BY <1>1, <1>2, <1>3, Reservation
<1>5. MachineInv'
  BY <1>1 DEF BootInv, MachineInv, machine
<1>6. ControlInv'
  BY <1>1, <1>4 DEF BootInv, ControlInv
<1>7. TablesInv'
  BY <1>1 DEF BootInv, TablesInv, paging
<1>8. FramesInv'
  BY <1>1, <1>2, <1>4 DEF FramesInv, Claimed
<1>9. FreeInv'
  <2>1. P!FreeFrames = Donated
    BY <1>3 DEF Donated
  <2>2. PICK R \in SUBSET PagesOf(0, PageSize) : P!FreeFrames' = P!FreeFrames \ R
    BY <1>2, <1>4
  <2>3. PagesOf(0, PageSize) \subseteq Claimed(4)
    BY DEF Claimed
  <2>4. Donated' = Donated /\ Claimed(4)' = Claimed(4)
    BY <1>1 DEF Donated, DonatedBy, machine, Claimed
  <2> QED
    BY <1>1, <1>4, <2>1, <2>2, <2>3, <2>4 DEF FreeInv
<1> QED
  BY <1>5, <1>6, <1>7, <1>8, <1>9 DEF BootInv

\* One of the four reservations after it.
LEMMA ReserveStep ==
  ASSUME BootInv, reserve
  PROVE  BootInv'
<1> USE DEF Early, Unpaged, Late
<1>1. /\ pc = "reserve" /\ i \in 1 .. 4 /\ phase = "reserve" /\ P!IInv
      /\ PFA!reserve_range(reservations[i][1], reservations[i][2])
      /\ i' = i + 1 /\ pc' = IF i = 4 THEN "kernel_space" ELSE pc
      /\ UNCHANGED <<machine, paging, regions, bump, heap>>
      /\ bump = boot_end
  BY DEF reserve, reservations, BootInv, ControlInv, FramesInv
<1>2. PICK start \in Nat, len \in Nat \ {0} :
        /\ start = reservations[i][1] /\ len = reservations[i][2]
        /\ start + len <= WordSize - PageSize
        /\ PagesOf(start, start + len) \subseteq Claimed(4)
        /\ i < 4 => Claimed(i + 1) = Claimed(i) \cup PagesOf(start, start + len)
  <2> DEFINE Good(start, len) ==
               /\ start \in Nat /\ len \in Nat \ {0}
               /\ start + len <= WordSize - PageSize
               /\ PagesOf(start, start + len) \subseteq Claimed(4)
               /\ i < 4 => Claimed(i + 1) = Claimed(i) \cup PagesOf(start, start + len)
  <2>1. /\ mb2_end_addr \in Nat /\ Mb2Info \in Nat /\ Mb2Info < mb2_end_addr
        /\ KernelStart \in Nat /\ KernelEnd \in Nat /\ KernelStart < KernelEnd
        /\ KernelEnd <= first_free_paddr /\ mb2_end_addr <= first_free_paddr
        /\ first_free_paddr \in Nat /\ pd_phys = first_free_paddr
        /\ PageSize \in Nat \ {0} /\ WordSize \in Nat
    BY Layout, LayoutAssumption DEF mb2_end_addr, pd_phys
  <2>2. /\ boot_end \in Nat /\ boot_end <= WordSize - PageSize
        /\ bitmap_storage \in Nat /\ pd_phys < bitmap_storage
        /\ bitmap_bytes \in Nat \ {0} /\ bitmap_storage + bitmap_bytes <= boot_end
    BY Layout, EarlyTables, <2>1
  <2>3. CASE i = 1
    <3>1. reservations[i][1] = KernelStart /\ reservations[i][2] = KernelEnd - KernelStart
      BY <2>3 DEF reservations
    <3>2. KernelStart + (KernelEnd - KernelStart) = KernelEnd
      BY <2>1
    <3>3. Claimed(2) = Claimed(1) \cup PagesOf(KernelStart, KernelEnd)
          /\ PagesOf(KernelStart, KernelEnd) \subseteq Claimed(4)
      BY DEF Claimed
    <3>4. Good(KernelStart, KernelEnd - KernelStart)
      BY <2>1, <2>2, <2>3, <3>2, <3>3
    <3> QED
      BY <3>1, <3>4
  <2>4. CASE i = 2
    <3>1. reservations[i][1] = Mb2Info /\ reservations[i][2] = mb2_end_addr - Mb2Info
      BY <2>4 DEF reservations
    <3>2. Mb2Info + (mb2_end_addr - Mb2Info) = mb2_end_addr
      BY <2>1
    <3>3. Claimed(3) = Claimed(2) \cup PagesOf(Mb2Info, mb2_end_addr)
          /\ PagesOf(Mb2Info, mb2_end_addr) \subseteq Claimed(4)
      BY DEF Claimed
    <3>4. Good(Mb2Info, mb2_end_addr - Mb2Info)
      BY <2>1, <2>2, <2>4, <3>2, <3>3
    <3> QED
      BY <3>1, <3>4
  <2>5. CASE i = 3
    <3>1. reservations[i][1] = pd_phys /\ reservations[i][2] = boot_end - pd_phys
      BY <1>1, <2>5 DEF reservations
    <3>2. pd_phys + (boot_end - pd_phys) = boot_end
      BY <2>1, <2>2
    <3>3. Claimed(4) = Claimed(3) \cup PagesOf(pd_phys, boot_end)
          /\ PagesOf(pd_phys, boot_end) \subseteq Claimed(4)
      BY DEF Claimed
    <3>4. Good(pd_phys, boot_end - pd_phys)
      BY <2>1, <2>2, <2>5, <3>2, <3>3
    <3> QED
      BY <3>1, <3>4
  <2>6. CASE i = 4
    <3>1. reservations[i][1] = bitmap_storage /\ reservations[i][2] = bitmap_bytes
      BY <2>6 DEF reservations
    <3>2. PagesOf(bitmap_storage, bitmap_storage + bitmap_bytes) \subseteq PagesOf(pd_phys, boot_end)
      <4>1. ASSUME NEW p \in PagesOf(bitmap_storage, bitmap_storage + bitmap_bytes)
            PROVE  p \in PagesOf(pd_phys, boot_end)
        <5>1. p * PageSize \in Int /\ (p + 1) * PageSize \in Int
          BY <2>1 DEF PagesOf, Page
        <5> QED
          BY <2>1, <2>2, <4>1, <5>1 DEF PagesOf
      <4> QED
        BY <4>1
    <3>3. PagesOf(pd_phys, boot_end) \subseteq Claimed(4)
      BY DEF Claimed
    <3>4. Good(bitmap_storage, bitmap_bytes)
      BY <2>1, <2>2, <2>6, <3>2, <3>3
    <3> QED
      BY <3>1, <3>4
  <2> QED
    BY <1>1, <2>3, <2>4, <2>5, <2>6
<1>3. PFA!reserve_range(start, len)
  BY Zenon, <1>1, <1>2
<1>4. /\ P!IInv' /\ phase' = "reserve" /\ handed = {} /\ handed' = {}
      /\ reserved' = reserved \cup (PagesOf(start, start + len) \cap P!Index)
      /\ \E R \in SUBSET PagesOf(start, start + len) : P!FreeFrames' = P!FreeFrames \ R
  BY <1>1, <1>2, <1>3, Reservation
<1>5. MachineInv'
  BY <1>1 DEF BootInv, MachineInv, machine
<1>6. ControlInv'
  BY <1>1, <1>4 DEF BootInv, ControlInv
<1>7. TablesInv'
  BY <1>1 DEF BootInv, TablesInv, paging
<1>8. FramesInv'
  <2>1. Claimed(i) \cap P!Index \subseteq reserved
    BY <1>1 DEF BootInv, FramesInv
  <2>2. CASE i < 4
    <3>1. Claimed(i + 1) \cap P!Index \subseteq reserved'
      BY <1>2, <1>4, <2>1, <2>2
    <3>2. pc' = "reserve" /\ i' = i + 1
      BY <1>1, <2>2
    <3>3. Claimed(i)' = Claimed(i + 1) /\ P!Index' = P!Index
      BY <3>2 DEF Claimed, P!Index
    <3> QED
      BY <1>4, <3>1, <3>2, <3>3 DEF FramesInv
  <2>3. CASE i = 4
    BY <1>1, <1>4, <2>1, <2>3 DEF FramesInv
  <2> QED
    BY <1>1, <2>2, <2>3
<1>9. FreeInv'
  <2>1. PICK R \in SUBSET PagesOf(start, start + len) : P!FreeFrames' = P!FreeFrames \ R
    BY <1>4
  <2>2. P!FreeFrames \subseteq Donated /\ Donated \ Claimed(4) \subseteq P!FreeFrames
    BY <1>1, <1>4 DEF BootInv, FreeInv
  <2>3. Donated' = Donated /\ Claimed(4)' = Claimed(4)
    BY <1>1 DEF Donated, DonatedBy, machine, Claimed
  <2>4. R \subseteq Claimed(4)
    BY <1>2
  <2> QED
    BY <1>1, <1>4, <2>1, <2>2, <2>3, <2>4 DEF FreeInv
<1> QED
  BY <1>5, <1>6, <1>7, <1>8, <1>9 DEF BootInv

\* What an allocation changes of the frames.
LEMMA AllocFrames ==
  ASSUME BootInv, PFA!alloc_frame, pc \notin Early \cup {"reserve"},
         pc' \notin Early \cup {"reserve"}, UNCHANGED machine
  PROVE  FramesInv' /\ FreeInv'
<1> USE DEF Early, Unpaged
<1>1. PICK f \in P!FreeFrames :
        P!FreeFrames' = P!FreeFrames \ {f} /\ handed' = handed \cup {f}
  BY Allocation DEF BootInv, FramesInv
<1>2. P!IInv' /\ reserved' = reserved
  BY Allocation DEF BootInv, FramesInv
<1>3. P!FreeFrames \cup handed \subseteq Donated /\ Donated \ Claimed(4) \subseteq P!FreeFrames \cup handed
  BY DEF BootInv, FreeInv
<1>4. Donated' = Donated
  BY DEF Donated, DonatedBy, machine
<1>5. FreeInv'
  BY <1>1, <1>3, <1>4 DEF FreeInv
<1>6. FramesInv'
  BY <1>2 DEF BootInv, FramesInv
<1> QED
  BY <1>5, <1>6

\* What a refused allocation changes.
LEMMA FailFrames ==
  ASSUME BootInv, PFA!alloc_fails, pc \notin Early \cup {"reserve"},
         pc' \notin Early \cup {"reserve"}, UNCHANGED machine
  PROVE  FramesInv' /\ FreeInv' /\ phase' = "run"
<1> USE DEF Early, Unpaged
<1>1. P!alloc_fails
  BY SameActions
<1>2. P!IInv' /\ UNCHANGED <<used, handed, reserved>> /\ phase' = "run"
  BY <1>1, Geometry, P!AllocFailsInv DEF BootInv, FramesInv, P!alloc_fails, P!impl, P!ghost
<1>3. P!FreeFrames' = P!FreeFrames
  BY <1>2 DEF P!FreeFrames, P!bit_test
<1>4. Donated' = Donated
  BY DEF Donated, DonatedBy, machine
<1>5. FreeInv'
  BY <1>2, <1>3, <1>4 DEF BootInv, FreeInv
<1>6. FramesInv'
  BY <1>2 DEF BootInv, FramesInv
<1> QED
  BY <1>2, <1>5, <1>6

\* The kernel's directory is a frame of the identity map.
LEMMA SpaceStep ==
  ASSUME BootInv, init_kernel_space
  PROVE  BootInv'
<1> USE DEF Early, Unpaged, Late
<1>1. /\ pc = "kernel_space" /\ PFA!alloc_frame /\ cr3' = ret' /\ i' = 0
      /\ pc' = (IF fb = NoFramebuffer THEN "crash" ELSE "framebuffer")
      /\ UNCHANGED <<machine, pd, pte, regions, bump, heap>>
  BY DEF init_kernel_space
<1>2. phase' = "run" /\ ret' \in 1 .. choose_early_identity_limit - 1
  BY <1>1, Allocation DEF BootInv, FramesInv
<1>3. MachineInv'
  BY <1>1 DEF BootInv, MachineInv, machine
<1>4. ControlInv'
  <2>1. fb # NoFramebuffer => fb_pages \in Nat
    BY FbPages DEF BootInv, MachineInv
  <2>2. fb_pages' = fb_pages /\ fb' = fb
    BY <1>1 DEF fb_pages, fb_end, fb_base, machine
  <2> QED
    BY <1>1, <1>2, <2>1, <2>2 DEF BootInv, ControlInv
<1>5. TablesInv'
  <2>1. cr3' \in 0 .. choose_early_identity_limit - 1
    BY <1>1, <1>2, Layout
  <2>2. pc' = "framebuffer" => MappedUpTo(i)'
    BY <1>1 DEF MappedUpTo
  <2> QED
    BY <1>1, <2>1, <2>2 DEF BootInv, TablesInv
<1>6. FramesInv' /\ FreeInv'
  BY <1>1, AllocFrames
<1> QED
  BY <1>3, <1>4, <1>5, <1>6 DEF BootInv

\* No frame is left: the boot stops.
LEMMA NoFrameStep ==
  ASSUME BootInv, no_kernel_space \/ map_fails
  PROVE  BootInv'
<1> USE DEF Early, Unpaged, Late
<1>1. /\ pc \in {"kernel_space", "framebuffer"} /\ PFA!alloc_fails /\ pc' = "panic"
      /\ UNCHANGED <<machine, paging, regions, i, bump, heap>>
  BY DEF no_kernel_space, map_fails
<1>2. FramesInv' /\ FreeInv' /\ phase' = "run"
  BY <1>1, FailFrames
<1>3. MachineInv'
  BY <1>1 DEF BootInv, MachineInv, machine
<1>4. ControlInv'
  BY <1>1, <1>2 DEF BootInv, ControlInv
<1>5. TablesInv'
  BY <1>1 DEF BootInv, TablesInv, paging
<1> QED
  BY <1>2, <1>3, <1>4, <1>5 DEF BootInv

\* The geometry of the framebuffer does not change.
LEMMA FbStill ==
  ASSUME UNCHANGED machine
  PROVE  /\ fb' = fb /\ fb_pages' = fb_pages /\ fb_first' = fb_first
         /\ \A j : FbPage(j)' = FbPage(j) /\ pdi(FbPage(j))' = pdi(FbPage(j))
BY DEF machine, fb_pages, fb_end, fb_base, fb_first, FbPage, pdi

\* A page of the framebuffer is mapped, the table being there or new.
LEMMA PageStep ==
  ASSUME BootInv, map_present \/ map_ensure_pt
  PROVE  BootInv'
<1> USE DEF Early, Unpaged, Late
<1> DEFINE p == FbPage(i)
           lim == choose_early_identity_limit
<1>1. /\ pc = "framebuffer" /\ pc' = pc /\ i < fb_pages /\ i' = i + 1
      /\ UNCHANGED <<machine, cr3, regions, bump, heap>>
      /\ pte' = [pte EXCEPT ![fb_page] = fb_page]
  BY DEF map_present, map_ensure_pt
<1>2. fb \in Framebuffers /\ fb # NoFramebuffer /\ i \in Nat
  BY <1>1 DEF BootInv, MachineInv, ControlInv
<1>3. /\ fb_pages \in Nat /\ fb_page = p /\ i \in 0 .. fb_pages - 1
      /\ p \in Page /\ pdi(p) \in 0 .. KMAP_PDE
  BY <1>1, <1>2, FbPages
<1>4. /\ pd \in [0 .. KMAP_PDE -> 0 .. lim - 1] /\ pte \in [Page -> Page \cup {Unmapped}]
      /\ \A q \in P!Index : pte[q] = q
      /\ MappedUpTo(i)
  BY <1>1 DEF BootInv, TablesInv
<1>5. /\ pd' \in [0 .. KMAP_PDE -> 0 .. lim - 1]
      /\ pd'[pdi(p)] # 0
      /\ \A d \in 0 .. KMAP_PDE : pd[d] # 0 => pd'[d] = pd[d]
      /\ phase' = "run" /\ FramesInv' /\ FreeInv'
  <2>1. CASE map_present
    <3>1. UNCHANGED allocator /\ pd' = pd /\ pd[pdi(p)] # 0
      BY <1>3, <2>1 DEF map_present
    <3>2. phase' = "run" /\ handed' = handed /\ reserved' = reserved
      BY <1>1, <3>1 DEF allocator, BootInv, ControlInv
    <3>3. Donated' = Donated
      BY <1>1 DEF Donated, DonatedBy, machine
    <3>4. FramesInv' /\ FreeInv'
      BY <1>1, <3>1, <3>2, <3>3, Still DEF BootInv, FramesInv, FreeInv
    <3> QED
      BY <1>4, <3>1, <3>2, <3>4
  <2>2. CASE map_ensure_pt
    <3>1. PFA!alloc_frame /\ pd' = [pd EXCEPT ![pdi(p)] = ret'] /\ pd[pdi(p)] = 0
      BY <1>3, <2>2 DEF map_ensure_pt
    <3>2. phase' = "run" /\ ret' \in 1 .. lim - 1
      BY <3>1, Allocation DEF BootInv, FramesInv
    <3>3. FramesInv' /\ FreeInv'
      BY <1>1, <3>1, AllocFrames
    <3>4. ret' \in 0 .. lim - 1 /\ ret' # 0
      BY <3>2, Layout
    <3> HIDE DEF p, lim
    <3>5. /\ pd' \in [0 .. KMAP_PDE -> 0 .. lim - 1] /\ pd'[pdi(p)] # 0
          /\ \A d \in 0 .. KMAP_PDE : pd[d] # 0 => pd'[d] = pd[d]
      BY <1>3, <1>4, <3>1, <3>4
    <3> QED
      BY <3>2, <3>3, <3>5
  <2> QED
    BY <2>1, <2>2 DEF map_present, map_ensure_pt
<1>6. MachineInv'
  BY <1>1 DEF BootInv, MachineInv, machine
<1>7. ControlInv'
  <2>1. fb_pages' = fb_pages /\ fb' = fb
    BY <1>1, FbStill
  <2>2. i + 1 \in Nat /\ i + 1 <= fb_pages
    BY <1>1, <1>2, <1>3
  <2> QED
    BY <1>1, <1>2, <1>5, <2>1, <2>2 DEF BootInv, ControlInv
<1>8. TablesInv'
  <2> HIDE DEF p, lim
  <2>1. pte' \in [Page -> Page \cup {Unmapped}] /\ pte'[p] = p
        /\ \A q \in Page : pte[q] = q => pte'[q] = q
    BY <1>1, <1>3, <1>4
  <2>2. P!Index \subseteq Page
    BY FramesArePages
  <2>3. MappedUpTo(i)'
    <3> SUFFICES ASSUME NEW j \in 0 .. i
                 PROVE  pte'[FbPage(j)] = FbPage(j) /\ pd'[pdi(FbPage(j))] # 0
      <4>1. i' - 1 = i
        BY <1>1, <1>2
      <4> QED
        BY <1>1, <4>1, FbStill DEF MappedUpTo
    <3>1. CASE j = i
      BY <1>5, <2>1, <3>1 DEF p
    <3>2. CASE j # i
      <4>1. j \in 0 .. i - 1 /\ j \in 0 .. fb_pages - 1
        BY <1>2, <1>3, <3>2
      <4>2. FbPage(j) \in Page /\ pdi(FbPage(j)) \in 0 .. KMAP_PDE
        BY <1>2, <4>1, FbPages
      <4>3. pte[FbPage(j)] = FbPage(j) /\ pd[pdi(FbPage(j))] # 0
        BY <1>4, <4>1 DEF MappedUpTo
      <4> QED
        BY <1>5, <2>1, <4>2, <4>3
    <3> QED
      BY <3>1, <3>2
  <2> QED
    BY <1>1, <1>4, <1>5, <2>1, <2>2, <2>3 DEF BootInv, TablesInv, lim, P!Index
<1> QED
  BY <1>5, <1>6, <1>7, <1>8 DEF BootInv

\* The heap, and the kernel proper.
LEMMA EnterStep ==
  ASSUME BootInv, init_heap \/ enter
  PROVE  BootInv'
<1> USE DEF Early, Unpaged, Late
<1>1. /\ UNCHANGED <<allocator, machine, paging, regions, i, bump>>
      /\ \/ pc = "framebuffer" /\ i = fb_pages /\ pc' = "enter" /\ heap' = bump
         \/ pc = "enter" /\ pc' = (IF fb = NoFramebuffer THEN "panic" ELSE "running") /\ heap' = heap
  BY DEF init_heap, enter
<1>2. bump = boot_end /\ phase' = phase /\ handed' = handed /\ reserved' = reserved
  BY <1>1 DEF BootInv, ControlInv, allocator
<1>3. MachineInv'
  BY <1>1 DEF BootInv, MachineInv, machine
<1>4. fb' = fb /\ fb_pages' = fb_pages /\ \A n : MappedUpTo(n)' = MappedUpTo(n)
  BY <1>1, FbStill DEF MappedUpTo, paging
<1>5. ControlInv'
  BY <1>1, <1>2, <1>4 DEF BootInv, ControlInv
<1>6. TablesInv'
  <2>1. MappedUpTo(fb_pages)' = MappedUpTo(fb_pages)
    BY <1>1, <1>4 DEF MappedUpTo, paging, FbPage, fb_first, machine, pdi
  <2>2. pc = "framebuffer" => MappedUpTo(fb_pages)
    BY <1>1 DEF BootInv, TablesInv
  <2> QED
    BY <1>1, <2>1, <2>2 DEF BootInv, TablesInv, paging
<1>7. FramesInv' /\ FreeInv'
  <2>1. Donated' = Donated
    BY <1>1 DEF Donated, DonatedBy, machine
  <2> QED
    BY <1>1, <1>2, <2>1, Still DEF BootInv, FramesInv, FreeInv
<1> QED
  BY <1>3, <1>5, <1>6, <1>7 DEF BootInv

\* Every step of the boot keeps the invariant.
LEMMA BootStepInv ==
  BootInv /\ [Next]_vars => BootInv'
<1> SUFFICES ASSUME BootInv, [Next]_vars  PROVE BootInv'
  OBVIOUS
<1>1. CASE UNCHANGED vars
  <2> USE <1>1 DEF vars, machine, paging
  <2>1. UNCHANGED allocator /\ phase' = phase /\ handed' = handed /\ reserved' = reserved
    BY DEF allocator
  <2>2. fb_pages' = fb_pages /\ MappedUpTo(i)' = MappedUpTo(i)
        /\ MappedUpTo(fb_pages)' = MappedUpTo(fb_pages)
    BY DEF MappedUpTo, FbPage, fb_first, fb_pages, fb_end, fb_base, pdi
  <2>3. Donated' = Donated /\ DonatedBy(regions, i - 1)' = DonatedBy(regions, i - 1)
    BY DEF Donated, DonatedBy, donates
  <2>4. MachineInv' /\ TablesInv'
    BY <2>2 DEF BootInv, MachineInv, TablesInv
  <2>5. ControlInv'
    BY <2>1, <2>2 DEF BootInv, ControlInv
  <2>6. FramesInv' /\ FreeInv'
    BY <2>1, <2>3, Still DEF BootInv, FramesInv, FreeInv, Claimed
  <2> QED
    BY <2>4, <2>5, <2>6 DEF BootInv
<1> QED
  BY <1>1, MapStep, PagingStep, BitmapStep, DonateStep, NullStep, ReserveStep, SpaceStep,
     NoFrameStep, PageStep, EnterStep DEF Next

-----------------------------------------------------------------------------
(* The theorems.                                                           *)

\* The invariant holds throughout the boot, for every layout of the kernel's
\* image, memory map and framebuffer.
THEOREM BootInvariant == Spec => []BootInv
BY BootInitInv, BootStepInv, PTL DEF Spec

\* setup_paging and map_framebuffer: page directory, page tables and bitmap are
\* written through their physical addresses and each is identity mapped from
\* the moment paging is on; when the kernel runs so is every byte of the
\* framebuffer.
THEOREM BootTables == Spec => []TablesReachable
<1>1. BootInv => TablesReachable
  <2> SUFFICES ASSUME BootInv  PROVE TablesReachable
    OBVIOUS
  <2> DEFINE lim == choose_early_identity_limit
  <2>1. lim \in Nat /\ lim <= WordSize - PageSize /\ boot_end \in Nat /\ boot_end <= lim
        /\ bitmap_storage \in Nat /\ bitmap_storage < lim /\ pd_phys \in Nat /\ pd_phys < lim
        /\ PageSize \in Nat \ {0} /\ WordSize \in Nat
        /\ lim = PageSize * managed_frames /\ managed_frames \in Nat
    BY Layout, EarlyTables, LayoutAssumption
  <2> HIDE DEF lim
  <2>2. 0 .. lim - 1 \subseteq 0 .. WordSize - 1
    BY <2>1
  <2>3. ASSUME NEW a \in 0 .. lim - 1, cr3 # 0
        PROVE  pte[a \div PageSize] = a \div PageSize
    <3>1. a \div PageSize \in Nat /\ a \div PageSize < managed_frames
      BY <2>1, DivOrder, DivNat
    <3>2. a \div PageSize \in P!Index
      BY <3>1, <2>1, Geometry
    <3> QED
      BY <2>3, <3>2 DEF BootInv, TablesInv
  <2>4. TypeOK
    <3>1. PFA!TypeOK
      BY SameActions DEF BootInv, FramesInv, P!IInv
    <3>2. Len(regions) <= MaxRegions /\ \A k \in 1 .. Len(regions) : regions[k] \in MemoryRegion
      BY DEF BootInv, MachineInv, Regions
    <3>3. 0 \in 0 .. WordSize - 1 /\ bitmap_storage \in 0 .. WordSize - 1
          /\ boot_end \in 0 .. WordSize - 1
      BY <2>1
    <3>4. bump \in 0 .. WordSize - 1 /\ heap \in 0 .. WordSize - 1
      BY <3>3 DEF BootInv, ControlInv
    <3>5. cr3 \in 0 .. WordSize - 1 /\ pd \in [0 .. KMAP_PDE -> 0 .. WordSize - 1]
          /\ pte \in [Page -> Page \cup {Unmapped}]
      BY <2>2 DEF BootInv, TablesInv, lim
    <3>6. pc \in {"make_mem_map", "early_paging", "bitmap", "donate", "reserve",
                  "kernel_space", "framebuffer", "enter", "running", "panic", "crash"}
      BY DEF BootInv, ControlInv, Early, Unpaged, Late
    <3> QED
      BY <3>1, <3>2, <3>4, <3>5, <3>6 DEF TypeOK
  <2>5. ASSUME cr3 # 0, NEW a \in {cr3, pd_phys, bitmap_storage} \cup {pd[di] : di \in DOMAIN pd}
        PROVE  pte[a \div PageSize] = a \div PageSize
    <3>1. a \in 0 .. lim - 1
      BY <2>1, <2>5 DEF BootInv, TablesInv, lim
    <3> QED
      BY <2>3, <2>5, <3>1
  <2>6. ASSUME pc = "running", NEW a \in fb.phys .. fb.phys + fb.bytes - 1
        PROVE  pte[a \div PageSize] = a \div PageSize
    <3>1. fb \in Framebuffers /\ fb # NoFramebuffer
      BY <2>6 DEF BootInv, MachineInv, ControlInv
    <3>2. MappedUpTo(fb_pages)
      BY <2>6 DEF BootInv, TablesInv
    <3>3. PICK j \in 0 .. fb_pages - 1 : a \div PageSize = FbPage(j)
      BY <2>6, <3>1, FbPages
    <3>4. pte[FbPage(j)] = FbPage(j)
      BY <3>2 DEF MappedUpTo
    <3> QED
      BY <3>3, <3>4
  <2> QED
    BY <2>4, <2>5, <2>6 DEF TablesReachable
<1> QED
  BY <1>1, BootInvariant, PTL

\* setup_paging's reservations: no frame paging gets holds a byte of page 0, the
\* image, the boot information, the early tables or the bitmap, whatever the
\* firmware's map says of the memory under them.
THEOREM BootPagesAreKept == Spec => [](handed \cap BootPages = {})
<1>1. BootInv => handed \cap BootPages = {}
  <2> SUFFICES ASSUME BootInv, NEW f \in handed, f \in BootPages  PROVE FALSE
    OBVIOUS
  <2>1. handed \subseteq P!Index /\ handed \cap reserved = {} /\ (phase # "run" => handed = {})
    BY DEF BootInv, FramesInv, P!IInv, P!TypeOK, P!HandedIsUsable, P!PhaseOrder
  <2>2. pc \in Late
    BY <2>1 DEF BootInv, ControlInv, Early
  <2>3. bump = boot_end /\ Claimed(4) \cap P!Index \subseteq reserved
    BY <2>2 DEF BootInv, ControlInv, FramesInv, Early, Unpaged, Late
  <2>4. BootPages = Claimed(4)
    BY <2>3 DEF BootPages, Claimed
  <2> QED
    BY <2>1, <2>3, <2>4
<1> QED
  BY <1>1, BootInvariant, PTL

-----------------------------------------------------------------------------
(***************************************************************************)
(* The heap, and the frames that rounding or truncation donates without    *)
(* being RAM, are not reserved: frames of paging stay clear of them only   *)
(* where enough low memory is free.  EnoughLowRam says how much is enough, *)
(* of the machine alone: below some page no higher than the early tables,  *)
(* whatever is donated is RAM, and what the boot does not claim itself     *)
(* holds a directory and a table for every span of the framebuffer.        *)
(***************************************************************************)
\* The tables the first n pages of the framebuffer are in.
Spans(n) == {pdi(FbPage(j)) : j \in 0 .. n - 1}

\* Frames the boot may ask for.
Needed == 1 + (IF fb = NoFramebuffer THEN 0 ELSE Cardinality(Spans(fb_pages)))

\* The free frames below page b once the reservations are made.
LowFrames(b) == {f \in Donated \ Claimed(4) : f < b}

\* Page b is such a page.
LowRam(b) ==
  /\ b * PageSize <= pd_phys
  /\ \A f \in Donated : f < b => IsRam(f)
  /\ Cardinality(LowFrames(b)) >= Needed

\* The machine has one.
EnoughLowRam == \E b \in P!Index : LowRam(b)

\* Nothing is handed out above that page, since fewer frames are in use than
\* were free below it.
LowInv ==
  \E b \in P!Index :
    /\ LowRam(b)
    /\ \A f \in handed : f < b
    /\ pc = "framebuffer" => Cardinality(handed) <= 1 + Cardinality(Spans(i))

\* Which machine it is never changes.
LEMMA MachineStill ==
  ASSUME [Next]_vars
  PROVE  UNCHANGED machine
BY DEF Next, vars, make_mem_map, setup_early_identity_paging, place_bitmap, donate_region,
       reserve_null, reserve, init_kernel_space, no_kernel_space, map_present, map_ensure_pt,
       map_fails, init_heap, enter

\* Nor what follows from it.
LEMMA LowStill ==
  ASSUME UNCHANGED machine
  PROVE  /\ Donated' = Donated /\ Needed' = Needed
         /\ \A b : LowFrames(b)' = LowFrames(b) /\ LowRam(b)' = LowRam(b)
         /\ \A n : Spans(n)' = Spans(n)
<1>1. Donated' = Donated
  BY DEF Donated, DonatedBy, machine
<1>2. \A n : Spans(n)' = Spans(n)
  BY FbStill DEF Spans, FbPage, fb_first, machine, pdi
<1>3. Needed' = Needed
  <2>1. Spans(fb_pages)' = Spans(fb_pages)
    BY FbStill DEF Spans, FbPage, fb_first, machine, pdi
  <2> QED
    BY <2>1, FbStill DEF Needed
<1>4. \A b : LowFrames(b)' = LowFrames(b)
  BY <1>1 DEF LowFrames, Claimed
<1>5. \A b : LowRam(b)' = LowRam(b)
  BY <1>1, <1>3, <1>4 DEF LowRam, IsRam, machine
<1> QED
  BY <1>1, <1>2, <1>3, <1>4, <1>5

\* A framebuffer has finitely many spans.
LEMMA SpansFinite ==
  ASSUME fb \in Framebuffers, fb # NoFramebuffer, NEW n \in Nat, n <= fb_pages
  PROVE  /\ Spans(n) \subseteq 0 .. KMAP_PDE /\ IsFiniteSet(Spans(n))
         /\ Cardinality(Spans(n)) \in Nat
<1>1. Spans(n) \subseteq 0 .. KMAP_PDE
  BY FbPages DEF Spans
<1>2. IsFiniteSet(0 .. KMAP_PDE)
  BY Space, FS_Interval
<1>3. IsFiniteSet(Spans(n))
  BY <1>1, <1>2, FS_Subset
<1> QED
  BY <1>1, <1>3, FS_CardinalityType

\* While fewer frames are handed out than are needed, the lowest free frame is
\* below b.
LEMMA LowestIsLow ==
  ASSUME BootInv, pc \notin Early, NEW b \in P!Index, LowRam(b),
         IsFiniteSet(handed), Cardinality(handed) < Needed, Needed \in Nat,
         NEW f \in P!FreeFrames, \A g \in P!FreeFrames : f <= g
  PROVE  f < b
<1>1. LowFrames(b) \subseteq P!FreeFrames \cup handed
  BY DEF LowFrames, BootInv, FreeInv
<1>2. \E g \in P!FreeFrames : g < b
  <2> SUFFICES ASSUME \A g \in P!FreeFrames : ~ (g < b)  PROVE FALSE
    OBVIOUS
  <2>1. LowFrames(b) \subseteq handed
    BY <1>1 DEF LowFrames
  <2>2. Cardinality(LowFrames(b)) <= Cardinality(handed)
        /\ Cardinality(handed) \in Nat /\ Cardinality(LowFrames(b)) \in Nat
    BY <2>1, FS_Subset, FS_CardinalityType
  <2> QED
    BY <2>2 DEF LowRam
<1>3. \A g \in P!FreeFrames : g \in Nat
  BY Geometry DEF P!FreeFrames
<1> QED
  BY <1>2, <1>3, Geometry

\* The frames handed out stay below b.
LEMMA LowStep ==
  BootInv /\ BootInv' /\ LowInv /\ [Next]_vars => LowInv'
<1> SUFFICES ASSUME BootInv, BootInv', LowInv, [Next]_vars  PROVE LowInv'
  OBVIOUS
<1> USE DEF Early, Unpaged, Late
<1>1. PICK b \in P!Index :
        /\ LowRam(b) /\ \A f \in handed : f < b
        /\ pc = "framebuffer" => Cardinality(handed) <= 1 + Cardinality(Spans(i))
  BY DEF LowInv
<1>2. UNCHANGED machine
  BY MachineStill
<1>3. LowRam(b)' /\ fb' = fb /\ fb_pages' = fb_pages /\ (\A n : Spans(n)' = Spans(n))
      /\ P!Index' = P!Index
  BY <1>1, <1>2, LowStill, FbStill DEF P!Index
<1>4. \A n : (i' = n => Spans(i)' = Spans(n))
  BY <1>2, FbStill DEF Spans, FbPage, fb_first, machine, pdi
<1>5. /\ IsFiniteSet(handed) /\ Cardinality(handed) \in Nat
      /\ IsFiniteSet(handed') /\ Cardinality(handed') \in Nat
  <2>1. IsFiniteSet(P!Index)
    BY Geometry, Layout, FS_Interval
  <2>2. handed \in SUBSET P!Index /\ handed' \in SUBSET P!Index
    BY DEF BootInv, FramesInv, P!IInv, P!TypeOK, P!Index
  <2> QED
    BY <2>1, <2>2, FS_Subset, FS_CardinalityType
<1>6. fb \in Framebuffers /\ (pc = "framebuffer" => fb # NoFramebuffer /\ i \in Nat /\ i <= fb_pages)
  BY DEF BootInv, MachineInv, ControlInv
<1>7. Needed \in Nat /\ 1 <= Needed
  <2>1. CASE fb = NoFramebuffer
    BY <2>1 DEF Needed
  <2>2. CASE fb # NoFramebuffer
    <3>1. Cardinality(Spans(fb_pages)) \in Nat
      BY <1>6, <2>2, FbPages, SpansFinite
    <3> QED
      BY <2>2, <3>1 DEF Needed
  <2> QED
    BY <2>1, <2>2
<1>8. CASE handed' = {}
  <2>1. pc' = "framebuffer" => Cardinality(Spans(i)') \in Nat
    <3> SUFFICES ASSUME pc' = "framebuffer"  PROVE Cardinality(Spans(i)') \in Nat
      OBVIOUS
    <3>1. PICK n : n = i'
      OBVIOUS
    <3>2. fb # NoFramebuffer /\ n \in Nat /\ n <= fb_pages
      BY <1>3, <3>1 DEF BootInv, ControlInv
    <3> QED
      BY <1>4, <1>6, <3>1, <3>2, SpansFinite
  <2>2. Cardinality(handed') = 0
    BY <1>8, FS_EmptySet
  <2> QED
    BY <1>1, <1>3, <1>8, <2>1, <2>2 DEF LowInv
<1>9. CASE handed' = handed /\ (pc' = "framebuffer" => pc = "framebuffer" /\ i' = i)
  BY <1>1, <1>3, <1>4, <1>9 DEF LowInv
<1>10. CASE init_kernel_space
  <2>1. pc = "kernel_space" /\ i' = 0 /\ PFA!alloc_frame
    BY <1>10 DEF init_kernel_space
  <2>2. handed = {} /\ P!IInv
    BY <2>1 DEF BootInv, ControlInv, FramesInv, P!IInv, P!PhaseOrder
  <2>3. PICK f \in P!FreeFrames : (\A g \in P!FreeFrames : f <= g) /\ handed' = handed \cup {f}
    BY <2>1, <2>2, Allocation
  <2>4. Cardinality(handed) = 0
    BY <2>2, FS_EmptySet
  <2>5. f < b
    BY <1>1, <1>5, <1>7, <2>1, <2>3, <2>4, LowestIsLow
  <2>6. Cardinality(handed') = 1
    BY <2>2, <2>3, FS_Singleton
  <2>7. Spans(0) = {} /\ Cardinality(Spans(0)) = 0
    <3>1. Spans(0) = {}
      BY DEF Spans
    <3> QED
      BY <3>1, FS_EmptySet
  <2>8. Cardinality(Spans(i)') = 0
    BY <1>4, <2>1, <2>7
  <2> QED
    BY <1>1, <1>3, <2>2, <2>3, <2>5, <2>6, <2>8 DEF LowInv
<1>11. CASE map_present \/ map_ensure_pt
  <2>1. pc = "framebuffer" /\ i < fb_pages /\ i' = i + 1
    BY <1>11 DEF map_present, map_ensure_pt
  <2>2. /\ fb # NoFramebuffer /\ i \in Nat /\ fb_pages \in Nat
        /\ fb_page = FbPage(i) /\ i + 1 \in Nat /\ i + 1 <= fb_pages /\ i <= fb_pages
    BY <1>6, <2>1, FbPages
  <2>3. Spans(i + 1) = Spans(i) \cup {pdi(FbPage(i))}
    <3>1. \A j : j \in 0 .. (i + 1) - 1 <=> j \in 0 .. i - 1 \/ j = i
      BY <2>2
    <3> QED
      BY Zenon, <3>1 DEF Spans
  <2>4. /\ IsFiniteSet(Spans(i)) /\ Cardinality(Spans(i)) \in Nat
        /\ IsFiniteSet(Spans(i + 1)) /\ Cardinality(Spans(i + 1)) \in Nat
        /\ IsFiniteSet(Spans(fb_pages)) /\ Cardinality(Spans(fb_pages)) \in Nat
    BY <1>6, <2>2, SpansFinite
  <2>5. Cardinality(handed) <= 1 + Cardinality(Spans(i))
    BY <1>1, <2>1
  <2>6. Spans(i)' = Spans(i + 1)
    BY <1>4, <2>1
  <2>7. CASE map_present
    <3>1. handed' = handed
      BY <2>7 DEF map_present, allocator
    <3>2. Cardinality(Spans(i)) <= Cardinality(Spans(i + 1))
      BY <2>3, <2>4, FS_Subset
    <3> QED
      BY <1>1, <1>3, <1>5, <2>4, <2>5, <2>6, <3>1, <3>2 DEF LowInv
  <2>8. CASE map_ensure_pt
    <3>1. PFA!alloc_frame /\ pd[pdi(FbPage(i))] = 0
      BY <2>2, <2>8 DEF map_ensure_pt
    <3>2. PICK f \in P!FreeFrames : (\A g \in P!FreeFrames : f <= g) /\ handed' = handed \cup {f}
      BY <3>1, Allocation DEF BootInv, FramesInv
    <3>3. pdi(FbPage(i)) \notin Spans(i)
      BY <2>1, <3>1 DEF Spans, BootInv, TablesInv, MappedUpTo
    <3>4. Cardinality(Spans(i + 1)) = Cardinality(Spans(i)) + 1
      BY <2>3, <2>4, <3>3, FS_AddElement
    <3>5. Cardinality(Spans(i + 1)) <= Cardinality(Spans(fb_pages))
      <4>1. Spans(i + 1) \in SUBSET Spans(fb_pages)
        BY <2>2 DEF Spans
      <4> QED
        BY <2>4, <4>1, FS_Subset
    <3>6. Cardinality(handed) < Needed
      BY <1>5, <2>2, <2>4, <2>5, <3>4, <3>5 DEF Needed
    <3>7. f < b
      BY <1>1, <1>5, <1>7, <2>1, <3>2, <3>6, LowestIsLow
    <3>8. Cardinality(handed') <= Cardinality(handed) + 1
      BY <1>5, <3>2, FS_AddElement
    <3> QED
      BY <1>1, <1>3, <1>5, <2>4, <2>5, <2>6, <3>2, <3>4, <3>7, <3>8 DEF LowInv
  <2> QED
    BY <1>11, <2>7, <2>8
<1>12. CASE make_mem_map \/ setup_early_identity_paging \/ place_bitmap \/ donate_region
              \/ reserve_null \/ reserve
  <2>1. phase' # "run"
    BY <1>12 DEF BootInv, ControlInv, make_mem_map, setup_early_identity_paging, place_bitmap,
                 donate_region, reserve_null, reserve
  <2>2. handed' = {}
    BY <2>1 DEF BootInv, FramesInv, P!IInv, P!PhaseOrder
  <2> QED
    BY <1>8, <2>2
<1>13. CASE no_kernel_space \/ map_fails
  <2>1. P!alloc_fails /\ pc' = "panic"
    BY <1>13, SameActions DEF no_kernel_space, map_fails
  <2>2. handed' = handed
    BY <2>1 DEF P!alloc_fails, P!ghost
  <2> QED
    BY <1>9, <2>1, <2>2
<1>14. CASE init_heap \/ enter
  <2>1. handed' = handed /\ pc' # "framebuffer"
    BY <1>14 DEF init_heap, enter, allocator
  <2> QED
    BY <1>9, <2>1
<1>15. CASE UNCHANGED vars
  <2>1. handed' = handed /\ pc' = pc /\ i' = i
    BY <1>15 DEF vars, allocator
  <2> QED
    BY <1>9, <2>1
<1> QED
  BY <1>10, <1>11, <1>12, <1>13, <1>14, <1>15 DEF Next

\* With enough low memory, what is handed out stays below that page throughout
\* the boot: alloc_frame is lowest-address-first.
THEOREM LowInvariant == Spec /\ EnoughLowRam => []LowInv
<1>1. Init /\ EnoughLowRam => LowInv
  <2> SUFFICES ASSUME Init, EnoughLowRam  PROVE LowInv
    OBVIOUS
  <2>1. handed = {} /\ pc = "make_mem_map"
    BY SameActions DEF Init, P!Init
  <2> QED
    BY <2>1 DEF EnoughLowRam, LowInv
<1> QED
  BY <1>1, LowStep, BootInvariant, PTL DEF Spec

\* setup_paging and init_heap: with enough low memory no frame paging gets is
\* also the boot's own or the heap's, though the allocator manages the frames
\* under the heap and knows nothing of it.
THEOREM LowFramesHaveOneOwner == Spec /\ EnoughLowRam => []FramesHaveOneOwner
<1>1. BootInv /\ LowInv /\ handed \cap BootPages = {} => FramesHaveOneOwner
  <2> SUFFICES ASSUME BootInv, LowInv, NEW f \in handed, f \in HeapPages
               PROVE  FALSE
    BY DEF FramesHaveOneOwner
  <2>1. PICK b \in P!Index : LowRam(b) /\ f < b
    BY DEF LowInv
  <2>2. heap = boot_end /\ f \in PagesOf(heap, heap + HeapSize)
    BY DEF HeapPages, BootInv, ControlInv
  <2>3. boot_end < (f + 1) * PageSize /\ f \in Nat
    BY <2>2 DEF PagesOf, Page
  <2>4. b * PageSize <= pd_phys /\ pd_phys \in Nat /\ boot_end \in Nat /\ pd_phys < boot_end
        /\ b \in Nat /\ PageSize \in Nat \ {0}
    BY <2>1, EarlyTables, Geometry, LayoutAssumption DEF LowRam
  <2>5. f + 1 <= b
    BY <2>1, <2>3, <2>4
  <2>6. (f + 1) * PageSize <= b * PageSize /\ (f + 1) * PageSize \in Nat /\ b * PageSize \in Nat
    <3>1. b < f + 1 <=> b * PageSize < (f + 1) * PageSize
      BY <2>3, <2>4, Products
    <3>2. (f + 1) * PageSize \in Nat /\ b * PageSize \in Nat
      BY <2>3, <2>4, Products
    <3> QED
      BY <2>3, <2>4, <2>5, <3>1, <3>2
  <2> QED
    BY <2>3, <2>4, <2>6
<1> QED
  BY <1>1, LowInvariant, BootInvariant, BootPagesAreKept, PTL

\* make_mem_map and setup_paging: with enough low memory every frame given to
\* paging is RAM throughout, although donations are rounded outwards and entries
\* above 4 GiB are truncated.
THEOREM LowFramesAreRam == Spec /\ EnoughLowRam => []FramesAreRam
<1>1. BootInv /\ LowInv => FramesAreRam
  <2> SUFFICES ASSUME BootInv, LowInv, NEW f \in handed  PROVE IsRam(f)
    BY DEF FramesAreRam
  <2>1. PICK b \in P!Index : LowRam(b) /\ f < b
    BY DEF LowInv
  <2>2. phase = "run"
    BY DEF BootInv, FramesInv, P!IInv, P!PhaseOrder
  <2>3. f \in Donated
    BY <2>2 DEF BootInv, ControlInv, FreeInv, Early, Unpaged
  <2> QED
    BY <2>1, <2>3 DEF LowRam
<1> QED
  BY <1>1, LowInvariant, BootInvariant, PTL

\* The boot panics only when no frame is free.
PanicInv == pc = "panic" => P!FreeFrames = {}

\* init_kernel_space and map_framebuffer: the boot panics for no other reason
\* than that the allocator has no frame left; Kernel::enter's panic for a
\* missing framebuffer is never reached.
THEOREM BootPanicsWhenFull == Spec => []PanicInv
<1>1. Init => PanicInv
  BY DEF Init, PanicInv
<1>2. BootInv /\ PanicInv /\ [Next]_vars => PanicInv'
  <2> SUFFICES ASSUME BootInv, PanicInv, [Next]_vars, pc' = "panic"
               PROVE  P!FreeFrames' = {}
    BY DEF PanicInv
  <2>1. CASE no_kernel_space \/ map_fails
    <3>1. P!alloc_fails
      BY <2>1, SameActions DEF no_kernel_space, map_fails
    <3> QED
      BY <3>1 DEF P!alloc_fails, P!FreeFrames, P!bit_test, P!impl
  <2>2. CASE UNCHANGED vars
    <3>1. pc = "panic" /\ UNCHANGED allocator
      BY <2>2 DEF vars
    <3> QED
      BY <3>1, Still DEF PanicInv
  <2>3. CASE enter
    BY <2>3 DEF enter, BootInv, ControlInv
  <2>4. CASE reserve_null \/ reserve \/ init_kernel_space
    BY <2>4 DEF reserve_null, reserve, init_kernel_space, BootInv, ControlInv
  <2>5. CASE make_mem_map \/ setup_early_identity_paging \/ place_bitmap \/ donate_region
              \/ map_present \/ map_ensure_pt \/ init_heap
    BY <2>5 DEF make_mem_map, setup_early_identity_paging, place_bitmap, donate_region,
                map_present, map_ensure_pt, init_heap
  <2> QED
    BY <2>1, <2>2, <2>3, <2>4, <2>5 DEF Next
<1> QED
  BY <1>1, <1>2, BootInvariant, PTL DEF Spec
=============================================================================
