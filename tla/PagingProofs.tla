---------------------------- MODULE PagingProofs ----------------------------
(***************************************************************************)
(* The page tables, for any number of entries, identity map, frames and    *)
(* ranges: every frame has one role, user spaces lie within the kernel's   *)
(* half, the TLB is stale only where a client changed a page, and clients  *)
(* see a plain map of pages.                                               *)
(***************************************************************************)
EXTENDS Paging, Arithmetic, FiniteSetTheorems, TLAPS

-----------------------------------------------------------------------------
(* The inductive invariant.                                                *)

\* The entries of a directory that map and create_user_space fill.
NewSlot == Slot \ (IdentityPdes \cup {KMapPde})

Memory == [Frame -> [Slot -> EntryType]]

\* A directory K of memory mm maps the identity tables and the window, the
\* window is closed, and an entry that is not present is zero.
DirOK(mm, K) ==
  /\ K \in Frame /\ K # KMapPt
  /\ \A s \in IdentityPdes : present(mm[K][s]) /\ mm[K][s].to = IdentityPt(s)
  /\ present(mm[K][KMapPde]) /\ mm[K][KMapPde].to = KMapPt
  /\ mm[KMapPt][0] = Zero
  /\ \A s \in NewSlot : mm[K][s] = Zero \/ present(mm[K][s])

\* The kernel's directory K, its tables, the user directories S and the free
\* frames fr are disjoint and make up the pool.
FramesOK(mm, fr, K, S, pool) ==
  /\ fr \subseteq pool /\ S \subseteq pool /\ K \in pool
  /\ K \notin fr /\ K \notin S /\ fr \cap S = {}
  /\ \A s \in NewSlot : present(mm[K][s]) => mm[K][s].to \in pool \ (fr \cup S \cup {K})
  /\ \A s, t \in NewSlot : s # t /\ present(mm[K][s]) /\ present(mm[K][t])
                              => mm[K][s].to # mm[K][t].to
  /\ \A f \in pool \ (fr \cup S \cup {K}) :
       \E s \in NewSlot : present(mm[K][s]) /\ mm[K][s].to = f

\* A user directory has nothing of its own, and of the kernel what the kernel
\* has.
SpacesOK(mm, K, S) ==
  \A pd \in S : \A s \in Slot :
    mm[pd][s] = Zero \/ (s >= KernelPdeBase /\ mm[pd][s] = mm[K][s])

Good(mm, fr, K, S, pool) ==
  /\ pool \in Pools /\ mm \in Memory
  /\ DirOK(mm, K) /\ FramesOK(mm, fr, K, S, pool) /\ SpacesOK(mm, K, S)

\* What an operation has made of memory, TLB and allocator so far, if the TLB
\* may be stale for the pages of D.
Machine == [mem : Memory, tlb : SUBSET (Page \X Nat), free : SUBSET Frame, ok : BOOLEAN]

MachineOK(m, D, pool) ==
  /\ m \in Machine /\ D \subseteq Mappable
  /\ cr3 = kernel_as /\ Good(m.mem, m.free, kernel_as, spaces, pool)
  /\ \A x \in m.tlb : x[1] \in D

PagingInv ==
  /\ mem \in Memory /\ tlb \subseteq Page \X Nat /\ free \subseteq Frame
  /\ status \in {"boot", "running", "stopped"}
  /\ dirty \subseteq Mappable /\ \A x \in tlb : x[1] \in dirty
  /\ cr3 \in Frame /\ kernel_as \in Frame /\ spaces \subseteq Frame
  /\ kernel_as = 0 => spaces = {}
  /\ status = "boot" => /\ kernel_as = 0 /\ cr3 = EarlyPd /\ free \in Pools /\ tlb = {}
                        /\ DirOK(mem, EarlyPd) /\ \A s \in NewSlot : mem[EarlyPd][s] = Zero
  /\ status = "running" => kernel_as # 0 /\ cr3 = kernel_as
  /\ kernel_as # 0 => \E pool \in Pools : Good(mem, free, kernel_as, spaces, pool)

-----------------------------------------------------------------------------
(* Pages, slots and entries.                                               *)

LEMMA Geometry ==
  /\ Entries \in Nat \ {0} /\ Slot = 0 .. Entries - 1 /\ 0 \in Slot
  /\ KernelPdeBase \in Nat /\ KernelPdeBase \in Slot
  /\ IdentityPdes \subseteq 0 .. KernelPdeBase - 1 /\ IdentityPdes \subseteq Slot
  /\ KMapPde \in Slot /\ KMapPde \notin IdentityPdes /\ KernelPdeBase <= KMapPde
  /\ NewSlot \subseteq Slot
<1>1. Entries \in Nat \ {0} /\ KernelPdeBase \in 1 .. Entries - 1
      /\ IdentityPdes \subseteq 0 .. KernelPdeBase - 1
  BY PagingAssumption
<1>2. IdentityPdes \subseteq Slot
  BY <1>1 DEF Slot
<1> QED
  BY <1>1, <1>2 DEF Slot, KMapPde, NewSlot

LEMMA FrameFacts ==
  /\ Frame \subseteq Nat /\ 0 \in Frame /\ EarlyPd \in Frame /\ KMapPt \in Frame
  /\ EarlyPd # KMapPt /\ EarlyPd # 0 /\ KMapPt # 0
  /\ \A d \in IdentityPdes : /\ IdentityPt(d) \in Frame \ {0, EarlyPd, KMapPt}
                             /\ \A e \in IdentityPdes : IdentityPt(e) = IdentityPt(d) => e = d
                             /\ \A pool \in Pools : IdentityPt(d) \notin pool
  /\ \A pool \in Pools : pool \subseteq Frame /\ 0 \notin pool /\ EarlyPd \notin pool /\ KMapPt \notin pool
<1>1. ASSUME NEW f \in Frame  PROVE f \in Nat
  <2>1. PICK d \in IdentityPdes, t \in 0 .. Entries - 1 : f = d * Entries + t
    BY PagingAssumption
  <2>2. d \in Nat /\ Entries \in Nat \ {0}
    BY Geometry
  <2>3. d * Entries \in Nat
    BY <2>2, Products
  <2> QED
    BY <2>1, <2>2, <2>3
<1> QED
  BY <1>1, PagingAssumption

LEMMA FrameFinite == IsFiniteSet(Frame)
<1>1. Frame \subseteq 0 .. Entries * Entries
  <2> SUFFICES ASSUME NEW f \in Frame  PROVE f \in 0 .. Entries * Entries
    OBVIOUS
  <2>1. PICK d \in IdentityPdes, t \in 0 .. Entries - 1 : f = d * Entries + t
    BY PagingAssumption
  <2>2. d \in Nat /\ Entries \in Nat \ {0} /\ d + 1 <= Entries
    BY Geometry
  <2>3. /\ d * Entries \in Nat /\ Entries * Entries \in Nat
        /\ (d + 1) * Entries = d * Entries + Entries
    BY <2>2, Products
  <2>4. (d + 1) * Entries <= Entries * Entries
    <3>1. d + 1 \in Nat /\ (d + 1 < Entries \/ d + 1 = Entries)
      BY <2>2
    <3>2. (d + 1) * Entries \in Nat
      BY <2>2, <2>3
    <3>3. d + 1 < Entries => (d + 1) * Entries < Entries * Entries
      BY <2>2, <3>1, Products
    <3> QED
      BY <2>3, <3>1, <3>2, <3>3
  <2> HIDE DEF Slot
  <2> QED
    BY <2>1, <2>2, <2>3, <2>4
<1>2. IsFiniteSet(0 .. Entries * Entries)
  <2>1. Entries * Entries \in Nat
    BY Geometry, Products
  <2> QED
    BY <2>1, FS_Interval
<1> QED
  BY <1>1, <1>2, FS_Subset

LEMMA PageSlots ==
  ASSUME NEW v \in Page
  PROVE  v \in Nat /\ pdi(v) \in Slot /\ pti(v) \in Slot /\ v = pdi(v) * Entries + pti(v)
<1>1. Entries \in Nat \ {0} /\ Entries * Entries \in Nat
  BY Geometry, Products
<1>2. v \in Nat /\ v < Entries * Entries
  BY <1>1 DEF Page
<1> DEFINE q == v \div Entries
<1>3. q \in Nat /\ Entries * q <= v /\ v < Entries * q + Entries
  BY <1>1, <1>2, DivNat, DivBounds
<1>4. v % Entries \in 0 .. Entries - 1 /\ v = Entries * q + (v % Entries)
  BY <1>1, <1>2, DivMod
<1> HIDE DEF q
<1>5. q < Entries
  <2>1. Entries * q \in Int /\ Entries * q < Entries * Entries
    BY <1>1, <1>2, <1>3, ProductOrder
  <2> QED
    BY <1>1, <1>3, <2>1, ProductOrder
<1>6. q * Entries = Entries * q
  BY <1>1, <1>3, Products
<1> QED
  BY <1>1, <1>2, <1>3, <1>4, <1>5, <1>6 DEF pdi, pti, Slot, q

LEMMA MappableSlots ==
  ASSUME NEW v \in Mappable
  PROVE  v \in Page /\ pdi(v) \in NewSlot /\ pti(v) \in Slot
  BY PageSlots DEF Mappable, NewSlot

\* The page of the window is the first of the last directory entry.
LEMMA WindowPage ==
  /\ KMapSlot \in Page /\ pdi(KMapSlot) = KMapPde /\ pti(KMapSlot) = 0
  /\ KMapSlot \notin Mappable
<1>1. Entries \in Nat \ {0} /\ KMapPde \in Nat /\ KMapPde < Entries
  BY Geometry
<1>2. pdi(KMapSlot) = KMapPde /\ pti(KMapSlot) = 0
  BY <1>1, DivOfProduct DEF pdi, pti, KMapSlot
<1>3. /\ KMapPde * Entries \in Nat /\ Entries * Entries \in Nat
      /\ KMapPde * Entries < Entries * Entries
  BY <1>1, Products
<1>4. KMapSlot \in Page
  BY <1>3 DEF Page, KMapSlot
<1> QED
  BY <1>2, <1>4 DEF Mappable

LEMMA EntryFacts ==
  /\ Zero \in EntryType /\ ~ present(Zero) /\ Zero.to = 0
  /\ \A x \in Nat : \A f \in SUBSET Flag :
       /\ Entry(x, hw_flags(f)) \in EntryType
       /\ present(Entry(x, hw_flags(f))) /\ Entry(x, hw_flags(f)).to = x
<1> DEFINE B == {HwBit[x] : x \in DOMAIN HwBit}
<1>1. "Present" \in DOMAIN HwBit
  BY DEF HwBit
<1>2. \A f \in SUBSET Flag : hw_flags(f) \in SUBSET B /\ HwBit["Present"] \in hw_flags(f)
  BY <1>1 DEF hw_flags, Flag
<1>3. EntryType = [to : Nat, bits : SUBSET B]
  BY DEF EntryType
<1> HIDE DEF B
<1> QED
  BY <1>2, <1>3 DEF Zero, Entry, present

\* Flags come back from an entry as they went in, and present.
LEMMA FlagsComeBack ==
  ASSUME NEW f \in SUBSET Flag
  PROVE  from_hw(hw_flags(f)) = f \cup {"Present"}
<1>1. DOMAIN HwBit = {"Present", "Writable", "User", "WriteThrough", "CacheDisable", "Global"}
  BY DEF HwBit
<1>2. \A x, y \in DOMAIN HwBit : HwBit[x] = HwBit[y] => x = y
  BY <1>1 DEF HwBit
<1>3. "Present" \in DOMAIN HwBit /\ f \subseteq DOMAIN HwBit
  BY <1>1 DEF Flag
<1>4. hw_flags(f) = {HwBit[x] : x \in f \cup {"Present"}}
  BY DEF hw_flags
<1>5. \A x \in DOMAIN HwBit : HwBit[x] \in hw_flags(f) <=> x \in f \cup {"Present"}
  BY <1>2, <1>3, <1>4
<1> QED
  BY <1>3, <1>5 DEF from_hw

-----------------------------------------------------------------------------
(* Entries written one at a time.                                          *)

\* n is m with entry e written into slot s of frame f.
Stored(m, n, f, s, e) ==
  /\ n \in Machine /\ n.tlb = m.tlb /\ n.free = m.free /\ n.ok = m.ok
  /\ \A g \in Frame, t \in Slot : n.mem[g][t] = IF g = f /\ t = s THEN e ELSE m.mem[g][t]

LEMMA StoreIs ==
  ASSUME NEW m \in Machine, NEW f \in Frame, NEW s \in Slot, NEW e \in EntryType
  PROVE  Stored(m, store(m, f, s, e), f, s, e)
<1> DEFINE M == [m.mem EXCEPT ![f][s] = e]
<1>1. m.mem \in [Frame -> [Slot -> EntryType]]
  BY DEF Machine, Memory
<1>2. /\ M \in Memory
      /\ \A g \in Frame, t \in Slot : M[g][t] = IF g = f /\ t = s THEN e ELSE m.mem[g][t]
  BY <1>1 DEF Memory
<1>3. store(m, f, s, e) = [m EXCEPT !.mem = M]
  BY DEF store, Machine
<1> HIDE DEF M
<1> QED
  BY <1>2, <1>3 DEF Machine, Stored

\* n is m with entry e of page v written into its page table t: the TLB may
\* keep the old translation of v, and nothing else changes.
PteStored(m, n, v, t, e) ==
  /\ n \in Machine /\ n.free = m.free /\ n.ok = m.ok
  /\ n.tlb = IF present(m.mem[t][pti(v)]) /\ \A x \in m.tlb : x[1] # v
               THEN m.tlb \cup {<<v, m.mem[t][pti(v)].to>>} ELSE m.tlb
  /\ \A g \in Frame, s \in Slot :
       n.mem[g][s] = IF g = t /\ s = pti(v) THEN e ELSE m.mem[g][s]

LEMMA StorePteIs ==
  ASSUME NEW m \in Machine, NEW v \in Page, NEW e \in EntryType, cr3 \in Frame,
         NEW t \in Frame, present(m.mem[cr3][pdi(v)]), m.mem[cr3][pdi(v)].to = t
  PROVE  PteStored(m, store_pte(m, v, e), v, t, e)
<1> DEFINE o == m.mem[t][pti(v)]
           T == IF present(o) /\ \A x \in m.tlb : x[1] # v THEN m.tlb \cup {<<v, o.to>>} ELSE m.tlb
           w == store(m, t, pti(v), e)
<1>1. pdi(v) \in Slot /\ pti(v) \in Slot
  BY PageSlots
<1>2. pte_of(m.mem, cr3, v) = o
  BY DEF pte_of
<1>3. o \in EntryType /\ o.to \in Nat
  <2>1. m.mem \in [Frame -> [Slot -> EntryType]]
    BY DEF Machine, Memory
  <2>2. o \in EntryType
    BY <1>1, <2>1
  <2> QED
    BY <2>2 DEF EntryType
<1>4. T \in SUBSET (Page \X Nat)
  BY <1>3 DEF Machine
<1>5. /\ w \in Machine /\ w.tlb = m.tlb /\ w.free = m.free /\ w.ok = m.ok
      /\ \A g \in Frame, s \in Slot :
           w.mem[g][s] = IF g = t /\ s = pti(v) THEN e ELSE m.mem[g][s]
  BY <1>1, StoreIs DEF Stored
<1>6. store_pte(m, v, e) = [w EXCEPT !.tlb = T]
  <2>1. store_pte(m, v, e) =
          [w EXCEPT !.tlb = IF present(o) /\ \A x \in m.tlb : x[1] # v THEN @ \cup {<<v, o.to>>} ELSE @]
    BY <1>2 DEF store_pte
  <2> HIDE DEF w, o
  <2> QED
    BY <1>5, <2>1
<1> HIDE DEF w, T
<1>7. /\ [w EXCEPT !.tlb = T] \in Machine
      /\ [w EXCEPT !.tlb = T].tlb = T /\ [w EXCEPT !.tlb = T].mem = w.mem
      /\ [w EXCEPT !.tlb = T].free = w.free /\ [w EXCEPT !.tlb = T].ok = w.ok
  BY <1>4, <1>5 DEF Machine
<1> QED
  BY <1>5, <1>6, <1>7 DEF PteStored, T, o

LEMMA FlushIs ==
  ASSUME NEW m \in Machine, NEW v
  PROVE  LET n == flush(m, v)
         IN  /\ n \in Machine /\ n.mem = m.mem /\ n.free = m.free /\ n.ok = m.ok
             /\ n.tlb = {x \in m.tlb : x[1] # v}
<1> DEFINE T == {x \in m.tlb : x[1] # v}
<1>1. flush(m, v) = [m EXCEPT !.tlb = T] /\ T \in SUBSET (Page \X Nat)
  BY DEF flush, Machine
<1> HIDE DEF T
<1>2. [m EXCEPT !.tlb = T] \in Machine /\ [m EXCEPT !.tlb = T].tlb = T
      /\ [m EXCEPT !.tlb = T].mem = m.mem /\ [m EXCEPT !.tlb = T].free = m.free
      /\ [m EXCEPT !.tlb = T].ok = m.ok
  BY <1>1 DEF Machine
<1> QED
  BY <1>1, <1>2 DEF T

\* n is m with frame f filled.
Filled(m, n, f, entries) ==
  /\ n \in Machine /\ n.tlb = m.tlb /\ n.free = m.free /\ n.ok = m.ok
  /\ \A g \in Frame, s \in Slot :
       n.mem[g][s] = IF g = f THEN entries[s] ELSE m.mem[g][s]

\* Filling a frame through the window changes that frame only, and leaves
\* neither the window open nor a translation of it in the TLB.
LEMMA WindowIs ==
  ASSUME NEW m \in Machine, DirOK(m.mem, cr3), \A x \in m.tlb : x[1] # KMapSlot,
         NEW f \in Frame, f # cr3, f # KMapPt, NEW entries \in [Slot -> EntryType]
  PROVE  Filled(m, through_window(m, f, entries), f, entries)
<1> DEFINE e == Entry(f, hw_flags({"Writable"}))
           a == store_pte(m, KMapSlot, e)
           w == k_map_frame(m, f)
           b == [w EXCEPT !.mem[f] = entries]
           c == store_pte(b, KMapSlot, Zero)
           n == k_unmap_frame(b)
<1>1. /\ cr3 \in Frame /\ cr3 # KMapPt /\ KMapPt \in Frame /\ f \in Nat
      /\ KMapPde \in Slot /\ 0 \in Slot
      /\ KMapSlot \in Page /\ pdi(KMapSlot) = KMapPde /\ pti(KMapSlot) = 0
  BY FrameFacts, Geometry, WindowPage DEF DirOK
<1>2. e \in EntryType /\ present(e) /\ e.to = f /\ Zero \in EntryType /\ ~ present(Zero)
  <2>1. {"Writable"} \in SUBSET Flag
    BY DEF Flag, HwBit
  <2> QED
    BY <1>1, <2>1, EntryFacts
<1>3. present(m.mem[cr3][KMapPde]) /\ m.mem[cr3][KMapPde].to = KMapPt /\ m.mem[KMapPt][0] = Zero
  BY DEF DirOK
<1> HIDE DEF e
<1>4. /\ a \in Machine /\ a.free = m.free /\ a.ok = m.ok /\ a.tlb = m.tlb
      /\ \A g \in Frame, s \in Slot :
           a.mem[g][s] = IF g = KMapPt /\ s = 0 THEN e ELSE m.mem[g][s]
  <2> HIDE DEF a
  <2>1. /\ a \in Machine /\ a.free = m.free /\ a.ok = m.ok
        /\ a.tlb = IF present(m.mem[KMapPt][0]) /\ \A x \in m.tlb : x[1] # KMapSlot
                     THEN m.tlb \cup {<<KMapSlot, m.mem[KMapPt][0].to>>} ELSE m.tlb
        /\ \A g \in Frame, s \in Slot :
             a.mem[g][s] = IF g = KMapPt /\ s = 0 THEN e ELSE m.mem[g][s]
    <3>1. present(m.mem[cr3][pdi(KMapSlot)]) /\ m.mem[cr3][pdi(KMapSlot)].to = KMapPt
      BY <1>1, <1>3
    <3>2. PteStored(m, a, KMapSlot, KMapPt, e)
      BY <1>1, <1>2, <3>1, StorePteIs DEF a
    <3> QED
      BY <1>1, <3>2 DEF PteStored
  <2> QED
    BY <1>2, <1>3, <2>1
<1> HIDE DEF a
<1>5. /\ w \in Machine /\ w.mem = a.mem /\ w.free = m.free /\ w.ok = m.ok /\ w.tlb = m.tlb
  <2>1. w = flush(a, KMapSlot)
    BY DEF k_map_frame, a, e
  <2>2. {x \in a.tlb : x[1] # KMapSlot} = m.tlb
    BY <1>4
  <2> HIDE DEF w
  <2>3. /\ w \in Machine /\ w.mem = a.mem /\ w.free = a.free /\ w.ok = a.ok
        /\ w.tlb = {x \in a.tlb : x[1] # KMapSlot}
    BY <1>4, <2>1, FlushIs
  <2> QED
    BY <1>4, <2>2, <2>3
<1> HIDE DEF w
<1>6. window(w) = f
  <2>1. {x \in w.tlb : x[1] = KMapSlot} = {}
    BY <1>5
  <2>2. /\ w.mem[cr3][pdi(KMapSlot)] = m.mem[cr3][KMapPde]
        /\ w.mem[KMapPt][pti(KMapSlot)] = e
    BY <1>1, <1>4, <1>5
  <2>3. pte_of(w.mem, cr3, KMapSlot) = e
    BY <1>3, <2>2 DEF pte_of
  <2> QED
    BY <1>2, <2>1, <2>3 DEF window
<1>7. /\ b \in Machine /\ b.tlb = m.tlb /\ b.free = m.free /\ b.ok = m.ok
      /\ \A g \in Frame, s \in Slot :
           b.mem[g][s] = IF g = f THEN entries[s] ELSE a.mem[g][s]
  <2> DEFINE M == [w.mem EXCEPT ![f] = entries]
  <2>1. w.mem \in [Frame -> [Slot -> EntryType]]
    BY <1>5 DEF Machine, Memory
  <2>2. M \in Memory
        /\ \A g \in Frame, s \in Slot : M[g][s] = IF g = f THEN entries[s] ELSE w.mem[g][s]
    BY <2>1 DEF Memory
  <2>3. b = [w EXCEPT !.mem = M]
    OBVIOUS
  <2> HIDE DEF M, b
  <2>4. b \in Machine /\ b.mem = M /\ b.tlb = w.tlb /\ b.free = w.free /\ b.ok = w.ok
    BY <1>5, <2>2, <2>3 DEF Machine
  <2> QED
    BY <1>5, <2>2, <2>4
<1> HIDE DEF b
<1>8. /\ b.mem[cr3][KMapPde] = m.mem[cr3][KMapPde] /\ b.mem[KMapPt][0] = e
  BY <1>1, <1>4, <1>7
<1>9. /\ c \in Machine /\ c.free = m.free /\ c.ok = m.ok /\ c.tlb = m.tlb \cup {<<KMapSlot, f>>}
      /\ \A g \in Frame, s \in Slot :
           c.mem[g][s] = IF g = KMapPt /\ s = 0 THEN Zero ELSE b.mem[g][s]
  <2> HIDE DEF c
  <2>1. /\ c \in Machine /\ c.free = b.free /\ c.ok = b.ok
        /\ c.tlb = IF present(b.mem[KMapPt][0]) /\ \A x \in b.tlb : x[1] # KMapSlot
                     THEN b.tlb \cup {<<KMapSlot, b.mem[KMapPt][0].to>>} ELSE b.tlb
        /\ \A g \in Frame, s \in Slot :
             c.mem[g][s] = IF g = KMapPt /\ s = 0 THEN Zero ELSE b.mem[g][s]
    <3>1. present(b.mem[cr3][pdi(KMapSlot)]) /\ b.mem[cr3][pdi(KMapSlot)].to = KMapPt
      BY <1>1, <1>3, <1>8
    <3>2. PteStored(b, c, KMapSlot, KMapPt, Zero)
      BY <1>1, <1>2, <1>7, <3>1, StorePteIs DEF c
    <3> QED
      BY <1>1, <3>2 DEF PteStored
  <2> QED
    BY <1>2, <1>7, <1>8, <2>1
<1> HIDE DEF c
<1>10. /\ n \in Machine /\ n.mem = c.mem /\ n.free = m.free /\ n.ok = m.ok /\ n.tlb = m.tlb
  <2>1. n = flush(c, KMapSlot)
    BY DEF k_unmap_frame, c
  <2>2. {x \in c.tlb : x[1] # KMapSlot} = m.tlb
    BY <1>9
  <2> HIDE DEF n
  <2>3. /\ n \in Machine /\ n.mem = c.mem /\ n.free = c.free /\ n.ok = c.ok
        /\ n.tlb = {x \in c.tlb : x[1] # KMapSlot}
    BY <1>9, <2>1, FlushIs
  <2> QED
    BY <1>7, <1>9, <2>2, <2>3
<1>11. through_window(m, f, entries) = n
  BY <1>6 DEF through_window, w, b, n
<1> HIDE DEF n
<1>12. ASSUME NEW g \in Frame, NEW s \in Slot
       PROVE  n.mem[g][s] = IF g = f THEN entries[s] ELSE m.mem[g][s]
  <2>1. n.mem[g][s] = IF g = KMapPt /\ s = 0 THEN Zero ELSE b.mem[g][s]
    BY <1>9, <1>10
  <2>2. b.mem[g][s] = IF g = f THEN entries[s] ELSE a.mem[g][s]
    BY <1>7
  <2>3. a.mem[g][s] = IF g = KMapPt /\ s = 0 THEN e ELSE m.mem[g][s]
    BY <1>4
  <2> QED
    BY <1>3, <2>1, <2>2, <2>3
<1> QED
  BY <1>10, <1>11, <1>12 DEF Filled

-----------------------------------------------------------------------------
(* What a new table, an entry written and a user directory do to memory.   *)

LEMMA GoodFacts ==
  ASSUME NEW mm, NEW fr, NEW K, NEW S, NEW pool, Good(mm, fr, K, S, pool)
  PROVE  /\ mm \in [Frame -> [Slot -> EntryType]] /\ pool \in Pools
         /\ pool \subseteq Frame /\ KMapPt \notin pool /\ 0 \notin pool
         /\ K \in Frame /\ K # KMapPt /\ K # 0 /\ S \subseteq Frame /\ fr \subseteq Frame
         /\ \A s \in NewSlot : present(mm[K][s]) => mm[K][s].to \in Frame \ {K, KMapPt}
<1>1. mm \in [Frame -> [Slot -> EntryType]] /\ pool \in Pools
  BY DEF Good, Memory
<1>2. pool \subseteq Frame /\ KMapPt \notin pool /\ 0 \notin pool
  BY <1>1, FrameFacts
<1>3. K \in Frame /\ K # KMapPt
  BY DEF Good, DirOK
<1>4. /\ fr \subseteq pool /\ S \subseteq pool /\ K \in pool
      /\ \A s \in NewSlot : present(mm[K][s]) => mm[K][s].to \in pool \ (fr \cup S \cup {K})
  BY DEF Good, FramesOK
<1> QED
  BY <1>1, <1>2, <1>3, <1>4

\* The view of the clients is the same in two memories.
SameView(mm, m2, K) == \A x \in Mappable : pte_of(m2, K, x) = pte_of(mm, K, x)

\* m2 is mm with a table in frame f, all zero, entered in directory K.
TableAdded(mm, m2, K, d, f, e) ==
  /\ m2 \in Memory
  /\ \A g \in Frame, s \in Slot :
       m2[g][s] = IF g = K /\ s = d THEN e ELSE IF g = f THEN Zero ELSE mm[g][s]

\* A frame that becomes a page table keeps its one role, and brings no page.
LEMMA NewTableIsGood ==
  ASSUME NEW mm, NEW fr, NEW K, NEW S, NEW pool, Good(mm, fr, K, S, pool),
         NEW d \in NewSlot, ~ present(mm[K][d]), NEW f \in fr,
         NEW e \in EntryType, present(e), e.to = f,
         NEW m2, TableAdded(mm, m2, K, d, f, e)
  PROVE  Good(m2, fr \ {f}, K, S, pool) /\ SameView(mm, m2, K)
<1>1. /\ mm \in [Frame -> [Slot -> EntryType]] /\ pool \in Pools
      /\ pool \subseteq Frame /\ KMapPt \notin pool
      /\ K \in Frame /\ K # KMapPt /\ S \subseteq Frame /\ fr \subseteq Frame
      /\ \A s \in NewSlot : present(mm[K][s]) => mm[K][s].to \in Frame \ {K, KMapPt}
  BY GoodFacts
<1>2. /\ fr \subseteq pool /\ S \subseteq pool /\ K \in pool
      /\ K \notin fr /\ K \notin S /\ fr \cap S = {}
      /\ \A s \in NewSlot : present(mm[K][s]) => mm[K][s].to \in pool \ (fr \cup S \cup {K})
      /\ \A s, t \in NewSlot : s # t /\ present(mm[K][s]) /\ present(mm[K][t])
                                  => mm[K][s].to # mm[K][t].to
      /\ \A h \in pool \ (fr \cup S \cup {K}) :
           \E s \in NewSlot : present(mm[K][s]) /\ mm[K][s].to = h
  BY DEF Good, FramesOK
<1>3. /\ \A s \in IdentityPdes : present(mm[K][s]) /\ mm[K][s].to = IdentityPt(s)
      /\ present(mm[K][KMapPde]) /\ mm[K][KMapPde].to = KMapPt
      /\ mm[KMapPt][0] = Zero
      /\ \A s \in NewSlot : mm[K][s] = Zero \/ present(mm[K][s])
  BY DEF Good, DirOK
<1>4. /\ f \in pool /\ f \in Frame /\ f # K /\ f \notin S /\ f # KMapPt
      /\ \A s \in NewSlot : present(mm[K][s]) => mm[K][s].to # f
  BY <1>1, <1>2
<1>5. /\ m2 \in Memory
      /\ \A g \in Frame, s \in Slot :
           m2[g][s] = IF g = K /\ s = d THEN e ELSE IF g = f THEN Zero ELSE mm[g][s]
  BY DEF TableAdded
<1>6. /\ d \in Slot /\ d \notin IdentityPdes /\ d # KMapPde /\ NewSlot \subseteq Slot
      /\ IdentityPdes \subseteq Slot /\ KMapPde \in Slot /\ 0 \in Slot /\ KMapPt \in Frame
  BY Geometry, FrameFacts DEF NewSlot
<1>7. /\ \A s \in Slot : m2[K][s] = IF s = d THEN e ELSE mm[K][s]
      /\ \A g \in Frame \ {K, f} : \A s \in Slot : m2[g][s] = mm[g][s]
      /\ \A s \in Slot : m2[f][s] = Zero
  BY <1>1, <1>4, <1>5
<1>8. DirOK(m2, K)
  <2>1. m2[KMapPt][0] = Zero
    BY <1>1, <1>3, <1>4, <1>6, <1>7
  <2>2. \A s \in IdentityPdes \cup {KMapPde} : m2[K][s] = mm[K][s]
    BY <1>6, <1>7
  <2>3. \A s \in NewSlot : m2[K][s] = Zero \/ present(m2[K][s])
    BY <1>3, <1>6, <1>7
  <2> QED
    BY <1>1, <1>3, <2>1, <2>2, <2>3 DEF DirOK
<1>9. FramesOK(m2, fr \ {f}, K, S, pool)
  <2>1. \A s \in NewSlot : m2[K][s] = IF s = d THEN e ELSE mm[K][s]
    BY <1>6, <1>7
  <2>2. \A s \in NewSlot :
          present(m2[K][s]) => m2[K][s].to \in pool \ ((fr \ {f}) \cup S \cup {K})
    BY <1>2, <1>4, <2>1
  <2>3. \A s, t \in NewSlot : s # t /\ present(m2[K][s]) /\ present(m2[K][t])
                                => m2[K][s].to # m2[K][t].to
    BY <1>2, <1>4, <2>1
  <2>4. ASSUME NEW h \in pool \ ((fr \ {f}) \cup S \cup {K})
        PROVE  \E s \in NewSlot : present(m2[K][s]) /\ m2[K][s].to = h
    <3>1. CASE h = f
      BY <2>1, <3>1
    <3>2. CASE h # f
      <4>1. PICK s \in NewSlot : present(mm[K][s]) /\ mm[K][s].to = h
        BY <1>2, <3>2
      <4>2. s # d
        BY <4>1
      <4> QED
        BY <2>1, <4>1, <4>2
    <3> QED
      BY <3>1, <3>2
  <2> QED
    BY <1>2, <2>2, <2>3, <2>4 DEF FramesOK
<1>10. SpacesOK(m2, K, S)
  <2> SUFFICES ASSUME NEW pd \in S, NEW s \in Slot
               PROVE  m2[pd][s] = Zero \/ (s >= KernelPdeBase /\ m2[pd][s] = m2[K][s])
    BY DEF SpacesOK
  <2>1. m2[pd][s] = mm[pd][s]
    BY <1>1, <1>2, <1>4, <1>7
  <2>2. mm[pd][s] = Zero \/ (s >= KernelPdeBase /\ mm[pd][s] = mm[K][s])
    BY DEF Good, SpacesOK
  <2>3. s = d => mm[K][s] = Zero
    BY <1>3
  <2> QED
    BY <1>7, <2>1, <2>2, <2>3
<1>11. SameView(mm, m2, K)
  <2> SUFFICES ASSUME NEW x \in Mappable  PROVE pte_of(m2, K, x) = pte_of(mm, K, x)
    BY DEF SameView
  <2>1. pdi(x) \in NewSlot /\ pdi(x) \in Slot /\ pti(x) \in Slot
    BY <1>6, MappableSlots
  <2>2. CASE pdi(x) = d
    <3>1. pte_of(mm, K, x) = Zero
      BY <2>2 DEF pte_of
    <3>2. m2[K][pdi(x)] = e /\ m2[f][pti(x)] = Zero
      BY <1>7, <2>1, <2>2
    <3> QED
      BY <3>1, <3>2 DEF pte_of
  <2>3. CASE pdi(x) # d
    <3>1. m2[K][pdi(x)] = mm[K][pdi(x)]
      BY <1>7, <2>1, <2>3
    <3>2. CASE present(mm[K][pdi(x)])
      <4>1. mm[K][pdi(x)].to \in Frame \ {K, f}
        BY <1>1, <1>4, <2>1, <3>2
      <4>2. m2[mm[K][pdi(x)].to][pti(x)] = mm[mm[K][pdi(x)].to][pti(x)]
        BY <1>7, <2>1, <4>1
      <4> QED
        BY <3>1, <4>2 DEF pte_of
    <3>3. CASE ~ present(mm[K][pdi(x)])
      BY <3>1, <3>3 DEF pte_of
    <3> QED
      BY <3>2, <3>3
  <2> QED
    BY <2>2, <2>3
<1> QED
  BY <1>1, <1>5, <1>8, <1>9, <1>10, <1>11 DEF Good

\* For the clients e is now the entry of v, and nothing else changed.
PageChanged(mm, m2, K, v, e) ==
  \A x \in Mappable : pte_of(m2, K, x) = IF x = v THEN e ELSE pte_of(mm, K, x)

\* m2 is mm with entry e in slot s of frame t.
EntryWritten(mm, m2, t, i, e) ==
  /\ m2 \in Memory
  /\ \A g \in Frame, s \in Slot : m2[g][s] = IF g = t /\ s = i THEN e ELSE mm[g][s]

\* Writing the entry of a page changes that page and no other.
LEMMA EntryIsGood ==
  ASSUME NEW mm, NEW fr, NEW K, NEW S, NEW pool, Good(mm, fr, K, S, pool),
         NEW v \in Mappable, present(mm[K][pdi(v)]), NEW e,
         NEW m2, EntryWritten(mm, m2, mm[K][pdi(v)].to, pti(v), e)
  PROVE  Good(m2, fr, K, S, pool) /\ PageChanged(mm, m2, K, v, e)
<1> DEFINE t == mm[K][pdi(v)].to
<1>1. /\ mm \in [Frame -> [Slot -> EntryType]] /\ pool \in Pools
      /\ pool \subseteq Frame /\ KMapPt \notin pool
      /\ K \in Frame /\ K # KMapPt /\ S \subseteq Frame /\ fr \subseteq Frame
      /\ \A s \in NewSlot : present(mm[K][s]) => mm[K][s].to \in Frame \ {K, KMapPt}
  BY GoodFacts
<1>2. /\ fr \subseteq pool /\ S \subseteq pool /\ K \in pool
      /\ K \notin fr /\ K \notin S /\ fr \cap S = {}
      /\ \A s \in NewSlot : present(mm[K][s]) => mm[K][s].to \in pool \ (fr \cup S \cup {K})
      /\ \A s, r \in NewSlot : s # r /\ present(mm[K][s]) /\ present(mm[K][r])
                                  => mm[K][s].to # mm[K][r].to
      /\ \A h \in pool \ (fr \cup S \cup {K}) :
           \E s \in NewSlot : present(mm[K][s]) /\ mm[K][s].to = h
  BY DEF Good, FramesOK
<1>3. pdi(v) \in NewSlot /\ pti(v) \in Slot /\ v \in Page
  BY MappableSlots
<1>4. t \in Frame /\ t # K /\ t # KMapPt /\ t \notin S
  BY <1>1, <1>2, <1>3
<1>5. /\ m2 \in Memory
      /\ \A g \in Frame, s \in Slot : m2[g][s] = IF g = t /\ s = pti(v) THEN e ELSE mm[g][s]
  BY DEF EntryWritten
<1>6. /\ NewSlot \subseteq Slot /\ IdentityPdes \subseteq Slot /\ KMapPde \in Slot
      /\ 0 \in Slot /\ KMapPt \in Frame
  BY Geometry, FrameFacts
<1>7. t = mm[K][pdi(v)].to
  OBVIOUS
<1> HIDE DEF t
<1>8. /\ \A s \in Slot : m2[K][s] = mm[K][s]
      /\ \A pd \in S : \A s \in Slot : m2[pd][s] = mm[pd][s]
      /\ m2[KMapPt][0] = mm[KMapPt][0]
  BY <1>1, <1>4, <1>5, <1>6
<1>9. DirOK(m2, K)
  <2>1. DirOK(mm, K)
    BY DEF Good
  <2>2. \A s \in IdentityPdes \cup NewSlot \cup {KMapPde} : m2[K][s] = mm[K][s]
    BY <1>6, <1>8
  <2> QED
    BY <1>8, <2>1, <2>2 DEF DirOK
<1>10. FramesOK(m2, fr, K, S, pool)
  <2>1. \A s \in NewSlot : m2[K][s] = mm[K][s]
    BY <1>6, <1>8
  <2> QED
    BY <1>2, <2>1 DEF FramesOK
<1>11. SpacesOK(m2, K, S)
  BY <1>8 DEF Good, SpacesOK
<1>12. ASSUME NEW x \in Mappable
       PROVE  pte_of(m2, K, x) = IF x = v THEN e ELSE pte_of(mm, K, x)
  <2>1. pdi(x) \in NewSlot /\ pdi(x) \in Slot /\ pti(x) \in Slot /\ x \in Page
    BY <1>6, MappableSlots
  <2>2. m2[K][pdi(x)] = mm[K][pdi(x)]
    BY <1>8, <2>1
  <2>3. CASE x = v
    <3>1. m2[t][pti(v)] = e
      BY <1>3, <1>4, <1>5
    <3> QED
      BY <1>7, <2>2, <2>3, <3>1 DEF pte_of
  <2>4. CASE x # v
    <3>1. pdi(x) # pdi(v) \/ pti(x) # pti(v)
      <4>1. x = pdi(x) * Entries + pti(x) /\ v = pdi(v) * Entries + pti(v)
        BY <1>3, <2>1, PageSlots
      <4> QED
        BY <2>4, <4>1
    <3>2. CASE ~ present(mm[K][pdi(x)])
      BY <2>2, <2>4, <3>2 DEF pte_of
    <3>3. CASE present(mm[K][pdi(x)])
      <4> DEFINE r == mm[K][pdi(x)].to
      <4>1. r \in Frame /\ (r # t \/ pti(x) # pti(v))
        BY <1>1, <1>2, <1>3, <1>7, <2>1, <3>1, <3>3
      <4>2. m2[r][pti(x)] = mm[r][pti(x)]
        BY <1>5, <2>1, <4>1
      <4> QED
        BY <2>2, <2>4, <3>3, <4>2 DEF pte_of
    <3> QED
      BY <3>2, <3>3
  <2> QED
    BY <2>3, <2>4
<1> QED
  BY <1>1, <1>5, <1>9, <1>10, <1>11, <1>12 DEF Good, PageChanged

\* m2 is mm with frame f filled.
FrameFilled(mm, m2, f, entries) ==
  /\ m2 \in Memory
  /\ \A g \in Frame, s \in Slot : m2[g][s] = IF g = f THEN entries[s] ELSE mm[g][s]

\* A frame that becomes a user directory.
LEMMA NewDirectoryIsGood ==
  ASSUME NEW mm, NEW fr, NEW K, NEW S, NEW pool, Good(mm, fr, K, S, pool),
         NEW f \in fr, NEW entries,
         \A s \in Slot : entries[s] = IF s >= KernelPdeBase THEN mm[K][s] ELSE Zero,
         NEW m2, FrameFilled(mm, m2, f, entries)
  PROVE  Good(m2, fr \ {f}, K, S \cup {f}, pool) /\ SameView(mm, m2, K)
<1>1. /\ pool \in Pools /\ pool \subseteq Frame /\ KMapPt \notin pool
      /\ K \in Frame /\ K # KMapPt /\ S \subseteq Frame /\ fr \subseteq Frame
      /\ \A s \in NewSlot : present(mm[K][s]) => mm[K][s].to \in Frame \ {K, KMapPt}
  BY GoodFacts
<1>2. /\ fr \subseteq pool /\ S \subseteq pool /\ K \in pool
      /\ K \notin fr /\ K \notin S /\ fr \cap S = {}
      /\ \A s \in NewSlot : present(mm[K][s]) => mm[K][s].to \in pool \ (fr \cup S \cup {K})
      /\ \A s, r \in NewSlot : s # r /\ present(mm[K][s]) /\ present(mm[K][r])
                                  => mm[K][s].to # mm[K][r].to
      /\ \A h \in pool \ (fr \cup S \cup {K}) :
           \E s \in NewSlot : present(mm[K][s]) /\ mm[K][s].to = h
  BY DEF Good, FramesOK
<1>3. /\ f \in Frame /\ f # K /\ f # KMapPt /\ f \notin S
      /\ \A s \in NewSlot : present(mm[K][s]) => mm[K][s].to # f
  BY <1>1, <1>2
<1>4. /\ m2 \in Memory
      /\ \A g \in Frame \ {f} : \A s \in Slot : m2[g][s] = mm[g][s]
      /\ \A s \in Slot : m2[f][s] = IF s >= KernelPdeBase THEN mm[K][s] ELSE Zero
  BY <1>3 DEF FrameFilled
<1>5. /\ NewSlot \subseteq Slot /\ IdentityPdes \subseteq Slot /\ KMapPde \in Slot
      /\ 0 \in Slot /\ KMapPt \in Frame
  BY Geometry, FrameFacts
<1>6. /\ \A s \in Slot : m2[K][s] = mm[K][s]
      /\ m2[KMapPt][0] = mm[KMapPt][0]
  BY <1>1, <1>3, <1>4, <1>5
<1>7. DirOK(m2, K)
  <2>1. DirOK(mm, K)
    BY DEF Good
  <2>2. \A s \in IdentityPdes \cup NewSlot \cup {KMapPde} : m2[K][s] = mm[K][s]
    BY <1>5, <1>6
  <2> QED
    BY <1>6, <2>1, <2>2 DEF DirOK
<1>8. FramesOK(m2, fr \ {f}, K, S \cup {f}, pool)
  <2>1. \A s \in NewSlot : m2[K][s] = mm[K][s]
    BY <1>5, <1>6
  <2>2. (fr \ {f}) \cup (S \cup {f}) \cup {K} = fr \cup S \cup {K}
    OBVIOUS
  <2>3. /\ fr \ {f} \subseteq pool /\ S \cup {f} \subseteq pool
        /\ K \notin fr \ {f} /\ K \notin S \cup {f} /\ (fr \ {f}) \cap (S \cup {f}) = {}
    BY <1>2, <1>3
  <2> QED
    BY <1>2, <2>1, <2>2, <2>3 DEF FramesOK
<1>9. SpacesOK(m2, K, S \cup {f})
  <2> SUFFICES ASSUME NEW pd \in S \cup {f}, NEW s \in Slot
               PROVE  m2[pd][s] = Zero \/ (s >= KernelPdeBase /\ m2[pd][s] = m2[K][s])
    BY DEF SpacesOK
  <2>1. CASE pd = f
    BY <1>4, <1>6, <2>1
  <2>2. CASE pd \in S
    <3>1. mm[pd][s] = Zero \/ (s >= KernelPdeBase /\ mm[pd][s] = mm[K][s])
      BY <2>2 DEF Good, SpacesOK
    <3>2. m2[pd][s] = mm[pd][s]
      BY <1>1, <1>3, <1>4, <2>2
    <3> QED
      BY <1>6, <3>1, <3>2
  <2> QED
    BY <2>1, <2>2
<1>10. SameView(mm, m2, K)
  <2> SUFFICES ASSUME NEW x \in Mappable  PROVE pte_of(m2, K, x) = pte_of(mm, K, x)
    BY DEF SameView
  <2>1. pdi(x) \in NewSlot /\ pti(x) \in Slot
    BY MappableSlots
  <2>2. m2[K][pdi(x)] = mm[K][pdi(x)]
    BY <1>5, <1>6, <2>1
  <2>3. present(mm[K][pdi(x)]) => mm[K][pdi(x)].to \in Frame \ {f}
    BY <1>1, <1>3, <2>1
  <2>4. present(mm[K][pdi(x)])
          => m2[mm[K][pdi(x)].to][pti(x)] = mm[mm[K][pdi(x)].to][pti(x)]
    BY <1>4, <2>1, <2>3
  <2> QED
    BY <2>2, <2>4 DEF pte_of
<1> QED
  BY <1>1, <1>4, <1>7, <1>8, <1>9, <1>10 DEF Good

\* A user directory given back: nothing in its user half is present, so that
\* the directory is the only frame to free.
LEMMA DirectoryGoneIsGood ==
  ASSUME NEW mm, NEW fr, NEW K, NEW S, NEW pool, Good(mm, fr, K, S, pool), NEW pd \in S
  PROVE  /\ {s \in 0 .. KernelPdeBase - 1 : present(mm[pd][s])} = {}
         /\ Good(mm, fr \cup {pd}, K, S \ {pd}, pool)
<1>1. \A s \in 0 .. KernelPdeBase - 1 : ~ present(mm[pd][s])
  <2> SUFFICES ASSUME NEW s \in 0 .. KernelPdeBase - 1  PROVE ~ present(mm[pd][s])
    OBVIOUS
  <2>1. s \in Slot /\ ~ (s >= KernelPdeBase)
    BY Geometry
  <2>2. mm[pd][s] = Zero
    BY <2>1 DEF Good, SpacesOK
  <2> QED
    BY <2>2, EntryFacts
<1>2. FramesOK(mm, fr \cup {pd}, K, S \ {pd}, pool)
  <2>1. (fr \cup {pd}) \cup (S \ {pd}) \cup {K} = fr \cup S \cup {K}
    OBVIOUS
  <2>2. /\ fr \subseteq pool /\ S \subseteq pool /\ K \in pool
        /\ K \notin fr /\ K \notin S /\ fr \cap S = {}
        /\ \A s \in NewSlot : present(mm[K][s]) => mm[K][s].to \in pool \ (fr \cup S \cup {K})
        /\ \A s, r \in NewSlot : s # r /\ present(mm[K][s]) /\ present(mm[K][r])
                                    => mm[K][s].to # mm[K][r].to
        /\ \A h \in pool \ (fr \cup S \cup {K}) :
             \E s \in NewSlot : present(mm[K][s]) /\ mm[K][s].to = h
    BY DEF Good, FramesOK
  <2>3. /\ fr \cup {pd} \subseteq pool /\ S \ {pd} \subseteq pool
        /\ K \notin fr \cup {pd} /\ K \notin S \ {pd} /\ (fr \cup {pd}) \cap (S \ {pd}) = {}
    BY <2>2
  <2> QED
    BY <2>1, <2>2, <2>3 DEF FramesOK
<1> QED
  BY <1>1, <1>2 DEF Good, SpacesOK

-----------------------------------------------------------------------------
(* The operations on one page.                                             *)

LEMMA MachineFacts ==
  ASSUME NEW m, NEW D, NEW pool, MachineOK(m, D, pool)
  PROVE  /\ m \in Machine /\ cr3 = kernel_as /\ cr3 \in Frame /\ DirOK(m.mem, cr3)
         /\ \A x \in m.tlb : x[1] \in D /\ x[1] # KMapSlot
         /\ Good(m.mem, m.free, cr3, spaces, pool)
  BY WindowPage DEF MachineOK, Good, DirOK

LEMMA LowestIs ==
  ASSUME NEW S, S \subseteq Frame, S # {}
  PROVE  lowest(S) \in S
<1>1. S \in SUBSET Nat
  BY FrameFacts
<1>2. \E f \in S : \A g \in S : f <= g
  BY <1>1, LeastNat
<1> QED
  BY <1>2 DEF lowest

\* What ensure_pt makes of m for page v.
Ensured(m, n, v, D, pool) ==
  /\ MachineOK(n, D, pool) /\ n.tlb = m.tlb /\ n.free \subseteq m.free
  /\ IF n.ok THEN present(n.mem[cr3][pdi(v)]) ELSE n.free = {}
  /\ SameView(m.mem, n.mem, cr3)

LEMMA EnsureIs ==
  ASSUME NEW m, NEW D, NEW pool, MachineOK(m, D, pool), m.ok, NEW v \in Mappable
  PROVE  Ensured(m, ensure_pt(m, v), v, D, pool)
<1> DEFINE d == pdi(v)
           f == lowest(m.free)
           r == [m EXCEPT !.free = @ \ {f}]
           zeros == [s \in Slot |-> Zero]
           w == through_window(r, f, zeros)
           e == Entry(f, pde_flags(v))
           n == ensure_pt(m, v)
<1>1. /\ m \in Machine /\ cr3 = kernel_as /\ cr3 \in Frame /\ DirOK(m.mem, cr3)
      /\ \A x \in m.tlb : x[1] \in D /\ x[1] # KMapSlot
      /\ Good(m.mem, m.free, cr3, spaces, pool) /\ D \subseteq Mappable
  BY MachineFacts DEF MachineOK
<1>2. d \in NewSlot /\ d \in Slot
  BY MappableSlots, Geometry
<1>3. SameView(m.mem, m.mem, cr3)
  BY DEF SameView
<1>4. CASE present(m.mem[cr3][d])
  BY <1>1, <1>3, <1>4 DEF ensure_pt, Ensured
<1>5. CASE ~ present(m.mem[cr3][d]) /\ m.free = {}
  <2>1. n = [m EXCEPT !.ok = FALSE]
    BY <1>5 DEF ensure_pt
  <2> HIDE DEF n
  <2>2. n \in Machine /\ n.mem = m.mem /\ n.tlb = m.tlb /\ n.free = m.free /\ n.ok = FALSE
    BY <1>1, <2>1 DEF Machine
  <2> QED
    BY <1>1, <1>3, <1>5, <2>2 DEF Ensured, MachineOK, n
<1>6. CASE ~ present(m.mem[cr3][d]) /\ m.free # {}
  <2>1. n = store(w, cr3, d, e)
    BY <1>6 DEF ensure_pt
  <2> HIDE DEF n
  <2>2. f \in m.free /\ f \in Frame /\ f # cr3 /\ f # KMapPt /\ f \in Nat
    <3>1. m.free \subseteq Frame /\ cr3 \notin m.free /\ KMapPt \notin m.free
      BY <1>1, GoodFacts DEF Good, FramesOK
    <3> QED
      BY <1>6, <3>1, LowestIs, FrameFacts
  <2>3. e \in EntryType /\ present(e) /\ e.to = f
    <3>1. {"Writable", "User"} \in SUBSET Flag /\ {"Writable"} \in SUBSET Flag
      BY DEF Flag, HwBit
    <3> QED
      BY <2>2, <3>1, EntryFacts DEF pde_flags
  <2> HIDE DEF f, e
  <2>4. r \in Machine /\ r.mem = m.mem /\ r.tlb = m.tlb /\ r.free = m.free \ {f} /\ r.ok = m.ok
    BY <1>1 DEF Machine
  <2> HIDE DEF r
  <2>5. zeros \in [Slot -> EntryType] /\ \A s \in Slot : zeros[s] = Zero
    BY EntryFacts
  <2> HIDE DEF zeros
  <2>6. /\ w \in Machine /\ w.tlb = m.tlb /\ w.free = m.free \ {f} /\ w.ok = m.ok
        /\ \A g \in Frame, s \in Slot :
             w.mem[g][s] = IF g = f THEN zeros[s] ELSE m.mem[g][s]
    <3> HIDE DEF w
    <3>1. DirOK(r.mem, cr3) /\ \A x \in r.tlb : x[1] # KMapSlot
      BY <1>1, <2>4
    <3>2. Filled(r, w, f, zeros)
      BY <2>2, <2>4, <2>5, <3>1, WindowIs DEF w
    <3> QED
      BY <2>4, <3>2 DEF Filled
  <2> HIDE DEF w
  <2>7. /\ n \in Machine /\ n.tlb = m.tlb /\ n.free = m.free \ {f} /\ n.ok = m.ok
        /\ \A g \in Frame, s \in Slot :
             n.mem[g][s] = IF g = cr3 /\ s = d THEN e ELSE w.mem[g][s]
    <3>1. Stored(w, n, cr3, d, e)
      BY <1>1, <1>2, <2>1, <2>3, <2>6, StoreIs
    <3> QED
      BY <2>6, <3>1 DEF Stored
  <2>8. TableAdded(m.mem, n.mem, cr3, d, f, e)
    <3>1. n.mem \in Memory
      BY <2>7 DEF Machine
    <3> QED
      BY <2>5, <2>6, <2>7, <3>1 DEF TableAdded
  <2>9. Good(n.mem, m.free \ {f}, cr3, spaces, pool) /\ SameView(m.mem, n.mem, cr3)
    BY <1>1, <1>2, <1>6, <2>2, <2>3, <2>8, NewTableIsGood
  <2>10. MachineOK(n, D, pool)
    BY <1>1, <2>7, <2>9 DEF MachineOK
  <2>11. present(n.mem[cr3][d])
    BY <1>1, <1>2, <2>3, <2>7
  <2> QED
    BY <2>7, <2>9, <2>10, <2>11 DEF Ensured, n
<1> QED
  BY <1>4, <1>5, <1>6

\* m with entry e for page v.
PageIs(m, n, v, e, D, pool) ==
  /\ MachineOK(n, D, pool) /\ n.free = m.free /\ n.ok = m.ok
  /\ PageChanged(m.mem, n.mem, cr3, v, e)

LEMMA StoredPageIs ==
  ASSUME NEW m, NEW D, NEW pool, MachineOK(m, D, pool), NEW v \in Mappable, v \in D,
         present(m.mem[cr3][pdi(v)]), NEW e \in EntryType
  PROVE  PageIs(m, store_pte(m, v, e), v, e, D, pool)
<1> DEFINE t == m.mem[cr3][pdi(v)].to
           n == store_pte(m, v, e)
<1>1. /\ m \in Machine /\ cr3 = kernel_as /\ cr3 \in Frame /\ D \subseteq Mappable
      /\ \A x \in m.tlb : x[1] \in D
      /\ Good(m.mem, m.free, cr3, spaces, pool)
  BY MachineFacts DEF MachineOK
<1>2. v \in Page /\ pdi(v) \in NewSlot
  BY MappableSlots
<1>3. t \in Frame
  BY <1>1, <1>2, GoodFacts
<1>4. PteStored(m, n, v, t, e)
  BY <1>1, <1>2, <1>3, StorePteIs
<1> HIDE DEF n
<1>5. EntryWritten(m.mem, n.mem, m.mem[cr3][pdi(v)].to, pti(v), e)
  <2>1. EntryWritten(m.mem, n.mem, t, pti(v), e)
    BY <1>4 DEF PteStored, EntryWritten, Machine
  <2> QED
    BY <2>1
<1>6. Good(n.mem, m.free, cr3, spaces, pool) /\ PageChanged(m.mem, n.mem, cr3, v, e)
  <2> DEFINE mm == m.mem
             m2 == n.mem
  <2>1. Good(mm, m.free, cr3, spaces, pool) /\ present(mm[cr3][pdi(v)])
        /\ EntryWritten(mm, m2, mm[cr3][pdi(v)].to, pti(v), e)
    BY <1>1, <1>5
  <2> HIDE DEF mm, m2
  <2>2. Good(m2, m.free, cr3, spaces, pool) /\ PageChanged(mm, m2, cr3, v, e)
    BY <2>1, EntryIsGood
  <2> QED
    BY <2>2 DEF mm, m2
<1>7. \A x \in n.tlb : x[1] \in D
  <2> DEFINE old == <<v, m.mem[t][pti(v)].to>>
  <2>1. old[1] = v
    OBVIOUS
  <2> HIDE DEF old, t
  <2>2. n.tlb \subseteq m.tlb \cup {old}
    <3>1. n.tlb = m.tlb \/ n.tlb = m.tlb \cup {old}
      BY <1>4 DEF PteStored, old
    <3> QED
      BY <3>1
  <2> QED
    BY <1>1, <2>1, <2>2
<1>8. n \in Machine /\ n.free = m.free /\ n.ok = m.ok
  BY <1>4 DEF PteStored
<1> QED
  BY <1>1, <1>6, <1>7, <1>8 DEF PageIs, MachineOK, n

-----------------------------------------------------------------------------
(* The operations on ranges.                                               *)

\* One page of mapped_range.
mapped_page(m, v, p, flags) == IF m.ok THEN map_page(m, v, p, flags) ELSE m

\* mapped_range is its steps, one page after the other.
LEMMA MappedRangeSteps ==
  ASSUME NEW v, NEW p, NEW flags, NEW n \in Nat
  PROVE  \E g : /\ g[0] = now /\ mapped_range(v, p, n, flags) = g[n]
                /\ \A k \in 1 .. n : g[k] = mapped_page(g[k - 1], v + (k - 1), p + (k - 1), flags)
<1> DEFINE page(m, k) == IF m.ok THEN map_page(m, v + k, p + k, flags) ELSE m
           G(g, i) == g = [k \in 0 .. i |-> IF k = 0 THEN now ELSE page(g[k - 1], k - 1)]
           Bad == {i \in Nat : \A g : ~ G(g, i)}
<1>1. Bad = {}
  <2> SUFFICES ASSUME Bad # {}  PROVE FALSE
    OBVIOUS
  <2> HIDE DEF page
  <2>1. PICK i \in Bad : \A j \in Bad : i <= j
    <3>1. Bad \in SUBSET Nat
      OBVIOUS
    <3> HIDE DEF Bad
    <3> QED
      BY <3>1, LeastNat
  <2>2. i \in Nat /\ \A g : ~ G(g, i)
    OBVIOUS
  <2>3. CASE i = 0
    <3> DEFINE h == [k \in 0 .. 0 |-> now]
    <3>1. G(h, 0)
      OBVIOUS
    <3> HIDE DEF h
    <3> QED
      BY <2>2, <2>3, <3>1
  <2>4. CASE i # 0
    <3>1. i - 1 \in Nat /\ ~ (i <= i - 1)
      BY <2>2, <2>4
    <3>2. PICK g : G(g, i - 1)
      <4>1. i - 1 \notin Bad
        <5> HIDE DEF Bad
        <5> QED
          BY <2>1, <3>1
      <4> QED
        BY <3>1, <4>1
    <3> DEFINE h == [k \in 0 .. i |-> IF k = i THEN page(g[k - 1], k - 1) ELSE g[k]]
    <3>3. G(h, i)
      BY <2>2, <2>4, <3>1, <3>2
    <3> HIDE DEF h
    <3> QED
      BY <2>2, <3>3
  <2> QED
    BY <2>3, <2>4
<1>2. PICK g : G(g, n)
  <2>1. n \notin Bad
    <3> HIDE DEF Bad
    <3> QED
      BY <1>1
  <2> HIDE DEF G
  <2> QED
    BY <2>1
<1> DEFINE after[k \in 0 .. n] == IF k = 0 THEN now ELSE page(after[k - 1], k - 1)
<1>3. after = CHOOSE h : G(h, n)
  OBVIOUS
<1>4. G(after, n)
  <2> HIDE DEF G, after
  <2> QED
    BY <1>2, <1>3
<1>5. mapped_range(v, p, n, flags) = after[n]
  BY DEF mapped_range
<1> HIDE DEF after
<1>6. after[0] = now /\ \A k \in 1 .. n : after[k] = page(after[k - 1], k - 1)
  <2> HIDE DEF page
  <2> QED
    BY <1>4
<1> QED
  BY <1>5, <1>6 DEF mapped_page

\* One page of unmapped_range.
unmapped_page(m, v) == IF present(m.mem[cr3][pdi(v)]) THEN store_pte(m, v, Zero) ELSE m

\* unmapped_range is its steps, one page after the other.
LEMMA UnmappedRangeSteps ==
  ASSUME NEW v, NEW n \in Nat
  PROVE  \E g : /\ g[0] = now /\ unmapped_range(v, n) = g[n]
                /\ \A k \in 1 .. n : g[k] = unmapped_page(g[k - 1], v + (k - 1))
<1> DEFINE page(m, k) == IF present(m.mem[cr3][pdi(v + k)]) THEN store_pte(m, v + k, Zero) ELSE m
           G(g, i) == g = [k \in 0 .. i |-> IF k = 0 THEN now ELSE page(g[k - 1], k - 1)]
           Bad == {i \in Nat : \A g : ~ G(g, i)}
<1>1. Bad = {}
  <2> SUFFICES ASSUME Bad # {}  PROVE FALSE
    OBVIOUS
  <2> HIDE DEF page
  <2>1. PICK i \in Bad : \A j \in Bad : i <= j
    <3>1. Bad \in SUBSET Nat
      OBVIOUS
    <3> HIDE DEF Bad
    <3> QED
      BY <3>1, LeastNat
  <2>2. i \in Nat /\ \A g : ~ G(g, i)
    OBVIOUS
  <2>3. CASE i = 0
    <3> DEFINE h == [k \in 0 .. 0 |-> now]
    <3>1. G(h, 0)
      OBVIOUS
    <3> HIDE DEF h
    <3> QED
      BY <2>2, <2>3, <3>1
  <2>4. CASE i # 0
    <3>1. i - 1 \in Nat /\ ~ (i <= i - 1)
      BY <2>2, <2>4
    <3>2. PICK g : G(g, i - 1)
      <4>1. i - 1 \notin Bad
        <5> HIDE DEF Bad
        <5> QED
          BY <2>1, <3>1
      <4> QED
        BY <3>1, <4>1
    <3> DEFINE h == [k \in 0 .. i |-> IF k = i THEN page(g[k - 1], k - 1) ELSE g[k]]
    <3>3. G(h, i)
      BY <2>2, <2>4, <3>1, <3>2
    <3> HIDE DEF h
    <3> QED
      BY <2>2, <3>3
  <2> QED
    BY <2>3, <2>4
<1>2. PICK g : G(g, n)
  <2>1. n \notin Bad
    <3> HIDE DEF Bad
    <3> QED
      BY <1>1
  <2> HIDE DEF G
  <2> QED
    BY <2>1
<1> DEFINE after[k \in 0 .. n] == IF k = 0 THEN now ELSE page(after[k - 1], k - 1)
<1>3. after = CHOOSE h : G(h, n)
  OBVIOUS
<1>4. G(after, n)
  <2> HIDE DEF G, after
  <2> QED
    BY <1>2, <1>3
<1>5. unmapped_range(v, n) = after[n]
  BY DEF unmapped_range
<1> HIDE DEF after
<1>6. after[0] = now /\ \A k \in 1 .. n : after[k] = page(after[k - 1], k - 1)
  <2> HIDE DEF page
  <2> QED
    BY <1>4
<1> QED
  BY <1>5, <1>6 DEF unmapped_page

\* The view of memory mm: mem with k pages from v on mapped, or unmapped.
MappedView(mm, v, p, k, flags) ==
  \A x \in Mappable :
    pte_of(mm, cr3, x) = IF x \in v .. v + k - 1 THEN Entry(p + (x - v), hw_flags(flags))
                         ELSE pte_of(mem, cr3, x)

UnmappedView(mm, v, k) ==
  \A x \in Mappable :
    pte_of(mm, cr3, x) = IF x \in v .. v + k - 1 THEN Zero ELSE pte_of(mem, cr3, x)

\* One page more is mapped, or no frame is left for its table.
LEMMA MappedPageIs ==
  ASSUME NEW m, NEW D, NEW pool, MachineOK(m, D, pool), m.ok,
         NEW v \in Mappable, v \in D, NEW p \in Nat, NEW flags \in SUBSET Flag
  PROVE  LET n == map_page(m, v, p, flags)
         IN  /\ MachineOK(n, D, pool) /\ n.free \subseteq m.free
             /\ IF n.ok THEN PageChanged(m.mem, n.mem, cr3, v, Entry(p, hw_flags(flags)))
                ELSE n.free = {} /\ SameView(m.mem, n.mem, cr3)
<1> DEFINE w == ensure_pt(m, v)
           e == Entry(p, hw_flags(flags))
           n == map_page(m, v, p, flags)
<1>1. Ensured(m, w, v, D, pool)
  BY EnsureIs
<1> HIDE DEF w
<1>2. /\ MachineOK(w, D, pool) /\ w.free \subseteq m.free /\ SameView(m.mem, w.mem, cr3)
      /\ IF w.ok THEN present(w.mem[cr3][pdi(v)]) ELSE w.free = {}
  BY <1>1 DEF Ensured
<1>3. e \in EntryType
  BY EntryFacts
<1> HIDE DEF e
<1>4. n = IF w.ok THEN store_pte(w, v, e) ELSE w
  BY DEF map_page, w, e
<1> HIDE DEF n
<1>5. CASE w.ok
  <2>1. PageIs(w, n, v, e, D, pool)
    BY <1>2, <1>3, <1>4, <1>5, StoredPageIs
  <2>2. /\ MachineOK(n, D, pool) /\ n.free = w.free /\ n.ok = w.ok
        /\ PageChanged(w.mem, n.mem, cr3, v, e)
    BY <2>1 DEF PageIs
  <2>3. PageChanged(m.mem, n.mem, cr3, v, e)
    BY <1>2, <2>2 DEF PageChanged, SameView
  <2> QED
    BY <1>2, <1>5, <2>2, <2>3 DEF n, e
<1>6. CASE ~ w.ok
  BY <1>2, <1>4, <1>6 DEF n
<1> QED
  BY <1>5, <1>6

\* After k pages of map_range: they are mapped, or a prefix of them and no
\* frame is left.
MappedSoFar(m, v, p, k, flags, D, pool) ==
  /\ MachineOK(m, D, pool) /\ m.free \subseteq free
  /\ \E j \in 0 .. k : /\ IF m.ok THEN j = k ELSE m.free = {}
                       /\ MappedView(m.mem, v, p, j, flags)

LEMMA MappedStep ==
  ASSUME NEW m, NEW v \in Nat, NEW p \in Nat, NEW k \in Nat, NEW flags \in SUBSET Flag,
         NEW D, NEW pool, MappedSoFar(m, v, p, k, flags, D, pool), v + k \in D
  PROVE  MappedSoFar(mapped_page(m, v + k, p + k, flags), v, p, k + 1, flags, D, pool)
<1> DEFINE x0 == v + k
           p0 == p + k
           n == mapped_page(m, x0, p0, flags)
<1>1. MachineOK(m, D, pool) /\ m.free \subseteq free
  BY DEF MappedSoFar
<1>2. PICK j \in 0 .. k : /\ IF m.ok THEN j = k ELSE m.free = {}
                         /\ MappedView(m.mem, v, p, j, flags)
  BY DEF MappedSoFar
<1>3. CASE ~ m.ok
  <2>1. n = m /\ j \in 0 .. k + 1
    BY <1>3 DEF mapped_page
  <2> QED
    BY <1>1, <1>2, <1>3, <2>1 DEF MappedSoFar
<1>4. CASE m.ok
  <2>1. x0 \in Mappable /\ x0 \in D /\ p0 \in Nat /\ j = k
    BY <1>1, <1>2, <1>4 DEF MachineOK
  <2>2. n = map_page(m, x0, p0, flags)
    BY <1>4 DEF mapped_page
  <2> HIDE DEF x0, p0, n
  <2>3. /\ MachineOK(n, D, pool) /\ n.free \subseteq m.free
        /\ IF n.ok THEN PageChanged(m.mem, n.mem, cr3, x0, Entry(p0, hw_flags(flags)))
           ELSE n.free = {} /\ SameView(m.mem, n.mem, cr3)
    BY <1>1, <1>4, <2>1, <2>2, MappedPageIs
  <2>4. CASE ~ n.ok
    <3>1. MappedView(n.mem, v, p, k, flags)
      BY <1>2, <2>1, <2>3, <2>4 DEF MappedView, SameView
    <3>2. k \in 0 .. k + 1
      OBVIOUS
    <3> QED
      BY <1>1, <2>3, <2>4, <3>1, <3>2 DEF MappedSoFar, n, x0, p0
  <2>5. CASE n.ok
    <3>1. \A x \in Mappable :
            pte_of(n.mem, cr3, x) = IF x = x0 THEN Entry(p0, hw_flags(flags))
                                    ELSE pte_of(m.mem, cr3, x)
      BY <2>3, <2>5 DEF PageChanged
    <3>2. \A x \in Mappable :
            pte_of(m.mem, cr3, x) = IF x \in v .. v + k - 1 THEN Entry(p + (x - v), hw_flags(flags))
                                    ELSE pte_of(mem, cr3, x)
      BY <1>2, <2>1 DEF MappedView
    <3>3. ASSUME NEW x \in Mappable
          PROVE  /\ x \in v .. v + (k + 1) - 1 <=> x = x0 \/ x \in v .. v + k - 1
                 /\ x = x0 => p + (x - v) = p0
      <4>1. x \in Nat
        BY MappableSlots, PageSlots
      <4> QED
        BY <4>1 DEF x0, p0
    <3>4. ASSUME NEW x \in Mappable
          PROVE  pte_of(n.mem, cr3, x) = IF x \in v .. v + (k + 1) - 1
                                           THEN Entry(p + (x - v), hw_flags(flags))
                                         ELSE pte_of(mem, cr3, x)
      <4>1. CASE x = x0
        BY <3>1, <3>3, <4>1
      <4>2. CASE x # x0 /\ x \in v .. v + k - 1
        BY <3>1, <3>2, <3>3, <4>2
      <4>3. CASE x # x0 /\ x \notin v .. v + k - 1
        BY <3>1, <3>2, <3>3, <4>3
      <4> QED
        BY <4>1, <4>2, <4>3
    <3>5. MappedView(n.mem, v, p, k + 1, flags) /\ k + 1 \in 0 .. k + 1
      BY <3>4 DEF MappedView
    <3> QED
      BY <1>1, <2>3, <2>5, <3>5 DEF MappedSoFar, n, x0, p0
  <2> QED
    BY <2>4, <2>5
<1> QED
  BY <1>3, <1>4

LEMMA MappedRangeIs ==
  ASSUME NEW v \in Nat, NEW p \in Nat, NEW n \in Nat, NEW flags \in SUBSET Flag,
         NEW D, NEW pool, MachineOK(now, D, pool), v .. v + n - 1 \subseteq D
  PROVE  MappedSoFar(mapped_range(v, p, n, flags), v, p, n, flags, D, pool)
<1>1. PICK g : /\ g[0] = now /\ mapped_range(v, p, n, flags) = g[n]
               /\ \A k \in 1 .. n : g[k] = mapped_page(g[k - 1], v + (k - 1), p + (k - 1), flags)
  BY MappedRangeSteps
<1> DEFINE Bad == {k \in 0 .. n : ~ MappedSoFar(g[k], v, p, k, flags, D, pool)}
<1>2. 0 \notin Bad
  <2>1. now.free = free /\ now.mem = mem /\ now.ok
    BY DEF now
  <2>2. MappedView(mem, v, p, 0, flags)
    BY DEF MappedView
  <2>3. MappedSoFar(now, v, p, 0, flags, D, pool)
    BY <2>1, <2>2 DEF MappedSoFar
  <2> QED
    BY <1>1, <2>3
<1>3. ASSUME NEW k \in 1 .. n, k \in Bad  PROVE k - 1 \in Bad
  <2> DEFINE h == k - 1
  <2>1. h \in Nat /\ h \in 0 .. n /\ h + 1 = k /\ v + h \in D
    OBVIOUS
  <2>2. g[k] = mapped_page(g[h], v + h, p + h, flags)
    BY <1>1
  <2> HIDE DEF h
  <2>3. ~ MappedSoFar(g[k], v, p, h + 1, flags, D, pool)
    BY <1>3, <2>1
  <2>4. ~ MappedSoFar(g[h], v, p, h, flags, D, pool)
    BY <2>1, <2>2, <2>3, MappedStep
  <2> QED
    BY <2>1, <2>4 DEF h
<1>4. Bad \in SUBSET Nat /\ Bad \subseteq 0 .. n
  OBVIOUS
<1> HIDE DEF Bad
<1>5. Bad = {}
  <2> SUFFICES ASSUME Bad # {}  PROVE FALSE
    OBVIOUS
  <2>1. PICK k \in Bad : \A h \in Bad : k <= h
    BY <1>4, LeastNat
  <2>2. k \in 1 .. n /\ k - 1 \in Bad
    <3>1. k \in 1 .. n
      BY <1>2, <1>4, <2>1
    <3> QED
      BY <1>3, <3>1
  <2> QED
    BY <2>1, <2>2
<1> QED
  BY <1>1, <1>5 DEF Bad

\* After k pages of unmap_range.
UnmappedSoFar(m, v, k, D, pool) ==
  MachineOK(m, D, pool) /\ m.free = free /\ UnmappedView(m.mem, v, k)

LEMMA UnmappedStep ==
  ASSUME NEW m, NEW v \in Nat, NEW k \in Nat, NEW D, NEW pool,
         UnmappedSoFar(m, v, k, D, pool), v + k \in D
  PROVE  UnmappedSoFar(unmapped_page(m, v + k), v, k + 1, D, pool)
<1> DEFINE x0 == v + k
           n == unmapped_page(m, x0)
<1>1. MachineOK(m, D, pool) /\ m.free = free /\ UnmappedView(m.mem, v, k)
  BY DEF UnmappedSoFar
<1>2. x0 \in Mappable /\ x0 \in D
  BY <1>1 DEF MachineOK
<1>3. MachineOK(n, D, pool) /\ n.free = free /\ PageChanged(m.mem, n.mem, cr3, x0, Zero)
  <2> HIDE DEF x0
  <2>1. CASE present(m.mem[cr3][pdi(x0)])
    <3>1. PageIs(m, n, x0, Zero, D, pool)
      BY <1>1, <1>2, <2>1, EntryFacts, StoredPageIs DEF unmapped_page
    <3> QED
      BY <1>1, <3>1 DEF PageIs
  <2>2. CASE ~ present(m.mem[cr3][pdi(x0)])
    <3>1. n = m /\ pte_of(m.mem, cr3, x0) = Zero
      BY <2>2 DEF unmapped_page, pte_of
    <3> QED
      BY <1>1, <3>1 DEF PageChanged
  <2> QED
    BY <2>1, <2>2
<1> HIDE DEF x0, n
<1>4. \A x \in Mappable :
        /\ pte_of(n.mem, cr3, x) = IF x = x0 THEN Zero ELSE pte_of(m.mem, cr3, x)
        /\ pte_of(m.mem, cr3, x) = IF x \in v .. v + k - 1 THEN Zero ELSE pte_of(mem, cr3, x)
  BY <1>1, <1>3 DEF PageChanged, UnmappedView
<1>5. \A x \in Mappable : x \in v .. v + (k + 1) - 1 <=> x = x0 \/ x \in v .. v + k - 1
  BY MappableSlots, PageSlots DEF x0
<1>6. UnmappedView(n.mem, v, k + 1)
  BY <1>4, <1>5 DEF UnmappedView
<1> QED
  BY <1>3, <1>6 DEF UnmappedSoFar, n, x0

LEMMA UnmappedRangeIs ==
  ASSUME NEW v \in Nat, NEW n \in Nat,
         NEW D, NEW pool, MachineOK(now, D, pool), v .. v + n - 1 \subseteq D
  PROVE  UnmappedSoFar(unmapped_range(v, n), v, n, D, pool)
<1>1. PICK g : /\ g[0] = now /\ unmapped_range(v, n) = g[n]
               /\ \A k \in 1 .. n : g[k] = unmapped_page(g[k - 1], v + (k - 1))
  BY UnmappedRangeSteps
<1> DEFINE Bad == {k \in 0 .. n : ~ UnmappedSoFar(g[k], v, k, D, pool)}
<1>2. 0 \notin Bad
  <2>1. now.free = free /\ now.mem = mem /\ now.ok
    BY DEF now
  <2>2. UnmappedView(mem, v, 0)
    BY DEF UnmappedView
  <2>3. UnmappedSoFar(now, v, 0, D, pool)
    BY <2>1, <2>2 DEF UnmappedSoFar
  <2> QED
    BY <1>1, <2>3
<1>3. ASSUME NEW k \in 1 .. n, k \in Bad  PROVE k - 1 \in Bad
  <2> DEFINE h == k - 1
  <2>1. h \in Nat /\ h \in 0 .. n /\ h + 1 = k /\ v + h \in D
    OBVIOUS
  <2>2. g[k] = unmapped_page(g[h], v + h)
    BY <1>1
  <2> HIDE DEF h
  <2>3. ~ UnmappedSoFar(g[k], v, h + 1, D, pool)
    BY <1>3, <2>1
  <2>4. ~ UnmappedSoFar(g[h], v, h, D, pool)
    BY <2>1, <2>2, <2>3, UnmappedStep
  <2> QED
    BY <2>1, <2>4 DEF h
<1>4. Bad \in SUBSET Nat /\ Bad \subseteq 0 .. n
  OBVIOUS
<1> HIDE DEF Bad
<1>5. Bad = {}
  <2> SUFFICES ASSUME Bad # {}  PROVE FALSE
    OBVIOUS
  <2>1. PICK k \in Bad : \A h \in Bad : k <= h
    BY <1>4, LeastNat
  <2>2. k \in 1 .. n /\ k - 1 \in Bad
    <3>1. k \in 1 .. n
      BY <1>2, <1>4, <2>1
    <3> QED
      BY <1>3, <3>1
  <2> QED
    BY <2>1, <2>2
<1> QED
  BY <1>1, <1>5 DEF Bad

-----------------------------------------------------------------------------
(* The invariant holds.                                                    *)

LEMMA ClientsFacts ==
  ASSUME NEW v \in Pages, NEW n \in 1 .. MaxRange
  PROVE  v \in Nat /\ n \in Nat /\ v .. v + n - 1 \subseteq Mappable
<1>1. v \in Mappable /\ v .. v + MaxRange - 1 \subseteq Mappable /\ MaxRange \in Nat
  BY RangesAssumption, PagingAssumption
<1>2. v \in Nat
  BY <1>1, MappableSlots, PageSlots
<1> QED
  BY <1>1, <1>2

LEMMA RunningFacts ==
  ASSUME PagingInv, status = "running"
  PROVE  /\ kernel_as # 0 /\ cr3 = kernel_as /\ kernel_as \in Frame /\ spaces \subseteq Frame
         /\ mem \in Memory /\ tlb \subseteq Page \X Nat /\ free \subseteq Frame
         /\ dirty \subseteq Mappable /\ \A x \in tlb : x[1] \in dirty
         /\ \E pool \in Pools : Good(mem, free, kernel_as, spaces, pool)
  BY DEF PagingInv

LEMMA NowIsOK ==
  ASSUME PagingInv, status = "running", NEW D, dirty \subseteq D, D \subseteq Mappable
  PROVE  \E pool \in Pools : MachineOK(now, D, pool)
<1>1. PICK pool \in Pools : Good(mem, free, kernel_as, spaces, pool)
  BY RunningFacts
<1>2. now.mem = mem /\ now.tlb = tlb /\ now.free = free /\ now \in Machine
  BY RunningFacts DEF now, Machine
<1> QED
  BY <1>1, <1>2, RunningFacts DEF MachineOK

\* The invariant after a step that leaves the machine running.
LEMMA InvNext ==
  ASSUME PagingInv, mem' \in Memory, tlb' \subseteq Page \X Nat, free' \subseteq Frame,
         dirty' \subseteq Mappable, \A x \in tlb' : x[1] \in dirty',
         kernel_as' \in Frame, kernel_as' # 0, cr3' \in Frame,
         status' = "stopped" \/ (status' = "running" /\ cr3' = kernel_as'), spaces' \subseteq Frame,
         NEW pool \in Pools, Good(mem', free', kernel_as', spaces', pool)
  PROVE  PagingInv'
  BY DEF PagingInv

LEMMA BecomeInv ==
  ASSUME PagingInv, status = "running", NEW m, NEW D, NEW pool \in Pools, MachineOK(m, D, pool),
         Become(m), dirty' = D, UNCHANGED <<cr3, kernel_as, spaces, status>>
  PROVE  PagingInv'
<1>1. /\ m \in Machine /\ D \subseteq Mappable /\ \A x \in m.tlb : x[1] \in D
      /\ Good(m.mem, m.free, kernel_as, spaces, pool)
  BY DEF MachineOK
<1>2. mem' = m.mem /\ tlb' = m.tlb /\ free' = m.free
  BY DEF Become
<1>3. m.mem \in Memory /\ m.tlb \subseteq Page \X Nat /\ m.free \subseteq Frame
  BY <1>1 DEF Machine
<1>4. kernel_as # 0 /\ cr3 = kernel_as /\ kernel_as \in Frame /\ spaces \subseteq Frame
  BY RunningFacts
<1> QED
  BY <1>1, <1>2, <1>3, <1>4, InvNext

\* Clients see what the entries say.
LEMMA ViewKept ==
  ASSUME cr3' = cr3, SameView(mem, mem', cr3)
  PROVE  Promise!Spaces
<1>1. \A x \in Mappable : translate(x)' = translate(x)
  BY DEF SameView, translate
<1> QED
  BY <1>1 DEF Promise!Spaces, Promise!Kept, Visible

LEMMA InitInv == Init => PagingInv
<1> SUFFICES ASSUME Init  PROVE PagingInv
  OBVIOUS
<1> DEFINE window_pt == Entry(KMapPt, hw_flags({"Writable"}))
           identity(s) == Entry(IdentityPt(s), hw_flags({"Writable"}))
           early == [s \in Slot |-> IF s \in IdentityPdes THEN identity(s)
                                    ELSE IF s = KMapPde THEN window_pt ELSE Zero]
           closed == [s \in Slot |-> Zero]
           table(f) == LET d == CHOOSE d \in IdentityPdes : f = IdentityPt(d)
                       IN  [s \in Slot |-> Entry(d * Entries + s, hw_flags({"Writable"}))]
<1>1. {"Writable"} \in SUBSET Flag /\ {} \in SUBSET Flag
  BY DEF Flag, HwBit
<1>2. /\ window_pt \in EntryType /\ present(window_pt) /\ window_pt.to = KMapPt
      /\ \A s \in IdentityPdes : /\ identity(s) \in EntryType /\ present(identity(s))
                                 /\ identity(s).to = IdentityPt(s)
  <2>1. KMapPt \in Nat /\ \A s \in IdentityPdes : IdentityPt(s) \in Nat
    BY FrameFacts
  <2> QED
    BY <1>1, <2>1, EntryFacts
<1>3. early \in [Slot -> EntryType] /\ closed \in [Slot -> EntryType]
  <2> HIDE DEF window_pt, identity
  <2> QED
    BY <1>2, EntryFacts
<1>4. Garbage \in [Slot -> EntryType]
  BY <1>1, EntryFacts DEF Garbage
<1>5. ASSUME NEW f, \E d \in IdentityPdes : f = IdentityPt(d)
      PROVE  table(f) \in [Slot -> EntryType]
  <2> DEFINE d == CHOOSE d \in IdentityPdes : f = IdentityPt(d)
  <2>1. d \in IdentityPdes
    BY <1>5
  <2> HIDE DEF d
  <2>2. d \in Nat /\ Entries \in Nat \ {0} /\ Slot = 0 .. Entries - 1
    BY <2>1, Geometry
  <2>3. d * Entries \in Nat
    BY <2>2, Products
  <2>4. \A s \in Slot : d * Entries + s \in Nat
    BY <2>2, <2>3
  <2>5. \A s \in Slot : Entry(d * Entries + s, hw_flags({"Writable"})) \in EntryType
    BY <1>1, <2>4, EntryFacts
  <2>6. [s \in Slot |-> Entry(d * Entries + s, hw_flags({"Writable"}))] \in [Slot -> EntryType]
    BY <2>5
  <2> QED
    BY <2>6 DEF d
<1>6. mem = [f \in Frame |-> IF f = EarlyPd THEN early
                             ELSE IF f = KMapPt THEN closed
                             ELSE IF \E d \in IdentityPdes : f = IdentityPt(d) THEN table(f)
                             ELSE Garbage]
  BY DEF Init
<1>7. \A s \in Slot : early[s] = IF s \in IdentityPdes THEN identity(s)
                                 ELSE IF s = KMapPde THEN window_pt ELSE Zero
  OBVIOUS
<1>8. \A s \in Slot : closed[s] = Zero
  OBVIOUS
<1> HIDE DEF early, closed, table, window_pt, identity
<1>9. mem \in Memory
  BY <1>3, <1>4, <1>5, <1>6 DEF Memory
<1>10. mem[EarlyPd] = early /\ mem[KMapPt] = closed
  BY <1>6, FrameFacts
<1>11. \A s \in NewSlot : mem[EarlyPd][s] = Zero
  BY <1>7, <1>10, Geometry DEF NewSlot
<1>12. DirOK(mem, EarlyPd)
  <2>1. \A s \in IdentityPdes : present(mem[EarlyPd][s]) /\ mem[EarlyPd][s].to = IdentityPt(s)
    BY <1>2, <1>7, <1>10, Geometry
  <2>2. present(mem[EarlyPd][KMapPde]) /\ mem[EarlyPd][KMapPde].to = KMapPt
    BY <1>2, <1>7, <1>10, Geometry
  <2>3. mem[KMapPt][0] = Zero
    BY <1>8, <1>10, Geometry
  <2> QED
    BY <1>11, <2>1, <2>2, <2>3, FrameFacts DEF DirOK
<1>13. free \subseteq Frame
  BY FrameFacts DEF Init
<1> QED
  BY <1>9, <1>11, <1>12, <1>13, FrameFacts DEF Init, PagingInv

LEMMA InitKernelSpaceInv ==
  ASSUME PagingInv, init_kernel_space
  PROVE  PagingInv'
<1> DEFINE f == lowest(free)
<1>1. /\ status = "boot" /\ free # {} /\ mem' = [mem EXCEPT ![f] = mem[cr3]]
      /\ free' = free \ {f} /\ kernel_as' = f /\ cr3' = f /\ tlb' = {} /\ status' = "running"
      /\ spaces' = spaces /\ dirty' = dirty
  BY DEF init_kernel_space
<1>2. /\ kernel_as = 0 /\ cr3 = EarlyPd /\ free \in Pools /\ spaces = {}
      /\ DirOK(mem, EarlyPd) /\ \A s \in NewSlot : mem[EarlyPd][s] = Zero
      /\ mem \in [Frame -> [Slot -> EntryType]] /\ free \subseteq Frame /\ dirty \subseteq Mappable
  BY <1>1 DEF PagingInv, Memory
<1>3. f \in free /\ f \in Frame /\ f # 0 /\ f # EarlyPd /\ f # KMapPt
  <2>1. f \in free
    BY <1>1, <1>2, LowestIs
  <2> HIDE DEF f
  <2>2. 0 \notin free /\ EarlyPd \notin free /\ KMapPt \notin free
    BY <1>2, FrameFacts
  <2> QED
    BY <1>2, <2>1, <2>2
<1> HIDE DEF f
<1>4. /\ mem' \in [Frame -> [Slot -> EntryType]]
      /\ mem'[f] = mem[EarlyPd] /\ mem'[KMapPt] = mem[KMapPt]
  BY <1>1, <1>2, <1>3, FrameFacts
<1>5. DirOK(mem', f)
  BY <1>2, <1>3, <1>4 DEF DirOK
<1>6. FramesOK(mem', free \ {f}, f, {}, free)
  BY <1>2, <1>3, <1>4, EntryFacts DEF FramesOK
<1>7. Good(mem', free', kernel_as', spaces', free)
  BY <1>1, <1>2, <1>4, <1>5, <1>6 DEF Good, SpacesOK, Memory
<1> QED
  BY <1>1, <1>2, <1>3, <1>4, <1>7, InvNext DEF Memory

LEMMA NoKernelSpaceInv ==
  ASSUME PagingInv, no_kernel_space
  PROVE  PagingInv'
  BY DEF PagingInv, no_kernel_space

\* map_range keeps the invariant and maps a prefix of the range.
LEMMA MapRangeInv ==
  ASSUME PagingInv, NEW v \in Pages, NEW n \in 1 .. MaxRange, NEW p \in Targets,
         NEW flags \in FlagSets, map_range(v, p, n, flags)
  PROVE  PagingInv' /\ Promise!MapRange(v, p, n, flags)
<1> DEFINE D == dirty \cup (v .. v + n - 1)
           m == mapped_range(v, p, n, flags)
<1>1. /\ status = "running" /\ Become(m) /\ dirty' = D
      /\ UNCHANGED <<cr3, kernel_as, spaces, status>>
  BY DEF map_range
<1>2. /\ v \in Nat /\ n \in Nat /\ v .. v + n - 1 \subseteq Mappable /\ p \in Nat
      /\ flags \in SUBSET Flag
  BY ClientsFacts, PagingAssumption, RangesAssumption
<1>3. D \subseteq Mappable /\ dirty \subseteq D /\ v .. v + n - 1 \subseteq D
  BY <1>1, <1>2, RunningFacts
<1> HIDE DEF D, m
<1>4. PICK pool \in Pools : MachineOK(now, D, pool)
  BY <1>1, <1>3, NowIsOK
<1>5. MappedSoFar(m, v, p, n, flags, D, pool)
  BY <1>2, <1>3, <1>4, MappedRangeIs DEF m
<1>6. PICK j \in 0 .. n : /\ IF m.ok THEN j = n ELSE m.free = {}
                          /\ MappedView(m.mem, v, p, j, flags)
  BY <1>5 DEF MappedSoFar
<1>7. PagingInv'
  BY <1>1, <1>4, <1>5, BecomeInv DEF MappedSoFar
<1>8. mem' = m.mem /\ free' = m.free /\ free' \subseteq free
  BY <1>1, <1>5 DEF Become, MappedSoFar
<1>9. ASSUME NEW x \in Mappable
      PROVE  Visible'[x] = IF x \in v .. v + j - 1
                             THEN [to |-> p + (x - v), flags |-> flags \cup {"Present"}]
                           ELSE Visible[x]
  <2> DEFINE e == Entry(p + (x - v), hw_flags(flags))
  <2>1. pte_of(mem', cr3', x) = IF x \in v .. v + j - 1 THEN e ELSE pte_of(mem, cr3, x)
    BY <1>1, <1>6, <1>8 DEF MappedView
  <2>2. /\ Visible'[x] = translate(x)' /\ Visible[x] = translate(x)
    BY DEF Visible
  <2>3. CASE x \in v .. v + j - 1
    <3>1. p + (x - v) \in Nat
      BY <1>2, <2>3
    <3>2. present(e) /\ e.to = p + (x - v) /\ e.bits = hw_flags(flags)
      BY <1>2, <3>1, EntryFacts DEF Entry
    <3>3. from_hw(e.bits) = flags \cup {"Present"}
      BY <1>2, <3>2, FlagsComeBack
    <3> HIDE DEF e
    <3>4. translate(x)' = [to |-> e.to, flags |-> from_hw(e.bits)]
      BY <2>1, <2>3, <3>2 DEF translate
    <3> QED
      BY <2>2, <2>3, <3>2, <3>3, <3>4
  <2>4. CASE ~ (x \in v .. v + j - 1)
    BY <2>1, <2>2, <2>4 DEF translate
  <2> QED
    BY <2>3, <2>4
<1>10. v .. v + j - 1 \subseteq Mappable
  BY <1>2
<1>11. Cardinality(free') <= Cardinality(free) /\ (j < n => Cardinality(free') = 0)
  <2>1. IsFiniteSet(free)
    BY <1>1, RunningFacts, FrameFinite, FS_Subset
  <2>2. Cardinality(free') <= Cardinality(free)
    BY <1>8, <2>1, FS_Subset
  <2>3. j < n => free' = {}
    BY <1>6, <1>8
  <2> QED
    BY <2>2, <2>3, FS_EmptySet
<1>12. Promise!MapRange(v, p, n, flags)
  BY <1>9, <1>10, <1>11 DEF Promise!MapRange, Promise!Kept
<1> QED
  BY <1>7, <1>12

\* unmap_range keeps the invariant and unmaps the whole range.
LEMMA UnmapRangeInv ==
  ASSUME PagingInv, NEW v \in Pages, NEW n \in 1 .. MaxRange, unmap_range(v, n)
  PROVE  PagingInv' /\ Promise!UnmapRange(v, n)
<1> DEFINE D == dirty \cup (v .. v + n - 1)
           m == unmapped_range(v, n)
<1>1. /\ status = "running" /\ Become(m) /\ dirty' = D
      /\ UNCHANGED <<cr3, kernel_as, spaces, status>>
  BY DEF unmap_range
<1>2. v \in Nat /\ n \in Nat /\ v .. v + n - 1 \subseteq Mappable
  BY ClientsFacts
<1>3. D \subseteq Mappable /\ dirty \subseteq D /\ v .. v + n - 1 \subseteq D
  BY <1>1, <1>2, RunningFacts
<1> HIDE DEF D, m
<1>4. PICK pool \in Pools : MachineOK(now, D, pool)
  BY <1>1, <1>3, NowIsOK
<1>5. UnmappedSoFar(m, v, n, D, pool)
  BY <1>2, <1>3, <1>4, UnmappedRangeIs DEF m
<1>6. PagingInv'
  BY <1>1, <1>4, <1>5, BecomeInv DEF UnmappedSoFar
<1>7. mem' = m.mem /\ free' = free
  BY <1>1, <1>5 DEF Become, UnmappedSoFar
<1>8. ASSUME NEW x \in Mappable
      PROVE  Visible'[x] = IF x \in v .. v + n - 1 THEN NotMapped ELSE Visible[x]
  <2>1. pte_of(mem', cr3', x) = IF x \in v .. v + n - 1 THEN Zero ELSE pte_of(mem, cr3, x)
    BY <1>1, <1>5, <1>7 DEF UnmappedSoFar, UnmappedView
  <2>2. /\ Visible'[x] = translate(x)' /\ Visible[x] = translate(x)
    BY DEF Visible
  <2> QED
    BY <2>1, <2>2, EntryFacts DEF translate, NotMapped
<1>9. Promise!UnmapRange(v, n)
  BY <1>2, <1>7, <1>8 DEF Promise!UnmapRange, Promise!Kept
<1> QED
  BY <1>6, <1>9

\* now without some of the allocator's frames, or with more.
LEMMA NowWith ==
  ASSUME PagingInv, status = "running", NEW fr, fr \subseteq Frame
  PROVE  LET m == [now EXCEPT !.free = fr]
         IN  /\ m \in Machine /\ m.mem = mem /\ m.tlb = tlb /\ m.free = fr
             /\ DirOK(m.mem, cr3) /\ \A x \in m.tlb : x[1] # KMapSlot
<1>1. DirOK(mem, cr3)
  BY RunningFacts DEF Good
<1>2. \A x \in tlb : x[1] # KMapSlot
  BY RunningFacts, WindowPage
<1> QED
  BY <1>1, <1>2, RunningFacts DEF now, Machine

LEMMA CreateInv ==
  ASSUME PagingInv, create_user_space
  PROVE  PagingInv' /\ Promise!Spaces
<1> DEFINE f == lowest(free)
           half == [s \in Slot |-> IF s >= KernelPdeBase THEN mem[kernel_as][s] ELSE Zero]
           m == [now EXCEPT !.free = @ \ {f}]
           w == through_window(m, f, half)
<1>1. /\ status = "running" /\ free # {} /\ Become(w) /\ spaces' = spaces \cup {f}
      /\ cr3' = cr3 /\ kernel_as' = kernel_as /\ status' = status /\ dirty' = dirty
  BY DEF create_user_space
<1>2. /\ kernel_as # 0 /\ cr3 = kernel_as /\ kernel_as \in Frame /\ spaces \subseteq Frame
      /\ free \subseteq Frame /\ dirty \subseteq Mappable /\ \A x \in tlb : x[1] \in dirty
      /\ mem \in [Frame -> [Slot -> EntryType]]
  BY <1>1, RunningFacts DEF Memory
<1>3. PICK pool \in Pools : Good(mem, free, kernel_as, spaces, pool)
  BY <1>1, RunningFacts
<1>4. f \in free /\ f \in Frame /\ f # cr3 /\ f # KMapPt
  <2>1. cr3 \notin free /\ free \subseteq pool /\ KMapPt \notin pool
    BY <1>2, <1>3, FrameFacts DEF Good, FramesOK
  <2> QED
    BY <1>1, <1>2, <2>1, LowestIs
<1>5. half \in [Slot -> EntryType]
      /\ \A s \in Slot : half[s] = IF s >= KernelPdeBase THEN mem[kernel_as][s] ELSE Zero
  BY <1>2, EntryFacts
<1> HIDE DEF f, half
<1>6. /\ m \in Machine /\ m.mem = mem /\ m.tlb = tlb /\ m.free = free \ {f}
      /\ DirOK(m.mem, cr3) /\ \A x \in m.tlb : x[1] # KMapSlot
  <2>1. m = [now EXCEPT !.free = free \ {f}] /\ free \ {f} \subseteq Frame
    BY <1>2 DEF now
  <2> HIDE DEF m
  <2> QED
    BY <1>1, <2>1, NowWith
<1> HIDE DEF m
<1>7. /\ w \in Machine /\ w.tlb = tlb /\ w.free = free \ {f}
      /\ \A g \in Frame, s \in Slot : w.mem[g][s] = IF g = f THEN half[s] ELSE mem[g][s]
  <2> HIDE DEF w
  <2>1. Filled(m, w, f, half)
    BY <1>4, <1>5, <1>6, WindowIs DEF w
  <2> QED
    BY <1>6, <2>1 DEF Filled
<1> HIDE DEF w
<1>8. mem' = w.mem /\ tlb' = tlb /\ free' = free \ {f} /\ w.mem \in Memory
  BY <1>1, <1>7 DEF Become, Machine
<1>9. FrameFilled(mem, mem', f, half)
  BY <1>7, <1>8 DEF FrameFilled
<1>10. Good(mem', free \ {f}, kernel_as, spaces \cup {f}, pool) /\ SameView(mem, mem', kernel_as)
  BY <1>3, <1>4, <1>5, <1>9, NewDirectoryIsGood
<1>11. PagingInv'
  <2>1. tlb' \subseteq Page \X Nat /\ free' \subseteq Frame /\ spaces' \subseteq Frame
    BY <1>1, <1>2, <1>4, <1>8, RunningFacts
  <2> QED
    BY <1>1, <1>2, <1>8, <1>10, <2>1, InvNext
<1>12. Promise!Spaces
  BY <1>1, <1>2, <1>10, ViewKept
<1> QED
  BY <1>11, <1>12

LEMMA DestroyInv ==
  ASSUME PagingInv, NEW pd \in spaces, destroy_space(pd)
  PROVE  PagingInv' /\ Promise!Spaces
<1> DEFINE gone == {s \in 0 .. KernelPdeBase - 1 : present(mem[pd][s])}
           rest == [s \in Slot |-> IF s \in gone THEN Zero ELSE mem[pd][s]]
           m == [now EXCEPT !.free = @ \cup {mem[pd][s].to : s \in gone} \cup {pd}]
           w == through_window(m, pd, rest)
<1>1. /\ status = "running" /\ Become(w) /\ spaces' = spaces \ {pd}
      /\ cr3' = cr3 /\ kernel_as' = kernel_as /\ status' = status /\ dirty' = dirty
  BY DEF destroy_space
<1>2. /\ kernel_as # 0 /\ cr3 = kernel_as /\ kernel_as \in Frame /\ spaces \subseteq Frame
      /\ free \subseteq Frame /\ dirty \subseteq Mappable /\ \A x \in tlb : x[1] \in dirty
      /\ mem \in [Frame -> [Slot -> EntryType]]
  BY <1>1, RunningFacts DEF Memory
<1>3. PICK pool \in Pools : Good(mem, free, kernel_as, spaces, pool)
  BY <1>1, RunningFacts
<1>4. pd \in Frame /\ pd # cr3 /\ pd # KMapPt
  <2>1. cr3 \notin spaces /\ spaces \subseteq pool /\ KMapPt \notin pool
    BY <1>2, <1>3, FrameFacts DEF Good, FramesOK
  <2> QED
    BY <1>2, <2>1
<1>5. gone = {} /\ Good(mem, free \cup {pd}, kernel_as, spaces \ {pd}, pool)
  BY <1>3, DirectoryGoneIsGood
<1> HIDE DEF gone
<1>6. rest \in [Slot -> EntryType] /\ \A s \in Slot : rest[s] = mem[pd][s]
  BY <1>2, <1>4, <1>5
<1> HIDE DEF rest
<1>7. /\ m \in Machine /\ m.mem = mem /\ m.tlb = tlb /\ m.free = free \cup {pd}
      /\ DirOK(m.mem, cr3) /\ \A x \in m.tlb : x[1] # KMapSlot
  <2>1. {mem[pd][s].to : s \in gone} = {}
    BY <1>5
  <2>2. m = [now EXCEPT !.free = free \cup {pd}] /\ free \cup {pd} \subseteq Frame
    BY <1>2, <1>4, <2>1 DEF now
  <2> HIDE DEF m
  <2> QED
    BY <1>1, <2>2, NowWith
<1> HIDE DEF m
<1>8. /\ w \in Machine /\ w.tlb = tlb /\ w.free = free \cup {pd}
      /\ \A g \in Frame, s \in Slot : w.mem[g][s] = IF g = pd THEN rest[s] ELSE mem[g][s]
  <2> HIDE DEF w
  <2>1. Filled(m, w, pd, rest)
    BY <1>4, <1>6, <1>7, WindowIs DEF w
  <2> QED
    BY <1>7, <2>1 DEF Filled
<1> HIDE DEF w
<1>9. mem' = mem /\ tlb' = tlb /\ free' = free \cup {pd}
  <2>1. mem' = w.mem /\ w.mem \in [Frame -> [Slot -> EntryType]]
    BY <1>1, <1>8 DEF Become, Machine, Memory
  <2>2. \A g \in Frame, s \in Slot : w.mem[g][s] = mem[g][s]
    BY <1>6, <1>8
  <2>3. \A g \in Frame : w.mem[g] = mem[g]
    BY <1>2, <2>1, <2>2
  <2>4. w.mem = mem
    BY <1>2, <2>1, <2>3
  <2> QED
    BY <1>1, <1>8, <2>1, <2>4 DEF Become
<1>10. PagingInv'
  <2>1. mem' \in Memory /\ tlb' \subseteq Page \X Nat /\ free' \subseteq Frame /\ spaces' \subseteq Frame
    BY <1>1, <1>2, <1>4, <1>9, RunningFacts
  <2> QED
    BY <1>1, <1>2, <1>3, <1>5, <1>9, <2>1, InvNext
<1>11. Promise!Spaces
  BY <1>1, <1>9, ViewKept DEF SameView
<1> QED
  BY <1>10, <1>11

\* Only the kernel's own directory maps the kernel image.
LEMMA SwitchInv ==
  ASSUME PagingInv, NEW pd \in spaces \cup {kernel_as}, switch_to(pd)
  PROVE  PagingInv' /\ (status' = "running" => Promise!Spaces)
<1>1. /\ status = "running" /\ cr3' = pd /\ tlb' = {} /\ dirty' = {}
      /\ status' = IF \A s \in IdentityPdes : present(mem[pd][s]) THEN status ELSE "stopped"
      /\ mem' = mem /\ free' = free /\ kernel_as' = kernel_as /\ spaces' = spaces
  BY DEF switch_to
<1>2. /\ kernel_as # 0 /\ cr3 = kernel_as /\ kernel_as \in Frame /\ spaces \subseteq Frame
      /\ free \subseteq Frame /\ mem \in Memory
  BY <1>1, RunningFacts
<1>3. PICK pool \in Pools : Good(mem, free, kernel_as, spaces, pool)
  BY <1>1, RunningFacts
<1>4. pd # kernel_as => status' = "stopped"
  <2> SUFFICES ASSUME pd \in spaces  PROVE status' = "stopped"
    BY <1>1
  <2>1. PICK s \in IdentityPdes : TRUE
    BY PagingAssumption
  <2>2. s \in Slot /\ ~ (s >= KernelPdeBase)
    BY Geometry
  <2>3. mem[pd][s] = Zero
    BY <1>3, <2>2 DEF Good, SpacesOK
  <2> QED
    BY <1>1, <2>3, EntryFacts
<1>5. PagingInv'
  <2>1. cr3' \in Frame /\ (status' = "stopped" \/ (status' = "running" /\ cr3' = kernel_as'))
    BY <1>1, <1>2, <1>4
  <2> QED
    BY <1>1, <1>2, <1>3, <2>1, InvNext
<1>6. status' = "running" => Promise!Spaces
  <2>1. status' = "running" => cr3' = cr3 /\ SameView(mem, mem', cr3)
    BY <1>1, <1>2, <1>4 DEF SameView
  <2> QED
    BY <2>1, ViewKept
<1> QED
  BY <1>5, <1>6

LEMMA FlushPageInv ==
  ASSUME PagingInv, NEW v \in Pages, flush_page(v)
  PROVE  PagingInv' /\ Promise!Spaces
<1> DEFINE m == flush(now, v)
<1>1. /\ status = "running" /\ Become(m) /\ dirty' = dirty \ {v}
      /\ cr3' = cr3 /\ kernel_as' = kernel_as /\ spaces' = spaces /\ status' = status
  BY DEF flush_page
<1>2. PICK pool \in Pools : MachineOK(now, dirty, pool)
  BY <1>1, NowIsOK, RunningFacts
<1>3. now \in Machine /\ now.mem = mem
  BY <1>2 DEF MachineOK, now
<1>4. /\ m \in Machine /\ m.mem = now.mem /\ m.free = now.free /\ m.tlb = {x \in now.tlb : x[1] # v}
  BY <1>3, FlushIs
<1> HIDE DEF m
<1>5. MachineOK(m, dirty \ {v}, pool)
  BY <1>2, <1>4 DEF MachineOK
<1>6. PagingInv'
  BY <1>1, <1>5, BecomeInv
<1>7. Promise!Spaces
  BY <1>1, <1>3, <1>4, ViewKept DEF Become, SameView
<1> QED
  BY <1>6, <1>7

\* What one step promises the clients.
StepPromise ==
  status = "running" /\ status' = "running" =>
    \/ Promise!Spaces
    \/ \E v \in Pages, n \in 1 .. MaxRange :
         \/ Promise!UnmapRange(v, n)
         \/ \E p \in Targets, flags \in FlagSets : Promise!MapRange(v, p, n, flags)

LEMMA NextInv ==
  ASSUME PagingInv, Next
  PROVE  PagingInv' /\ StepPromise
<1>1. ASSUME init_kernel_space  PROVE PagingInv' /\ StepPromise
  BY <1>1, InitKernelSpaceInv DEF init_kernel_space, StepPromise
<1>2. ASSUME no_kernel_space  PROVE PagingInv' /\ StepPromise
  BY <1>2, NoKernelSpaceInv DEF no_kernel_space, StepPromise
<1>3. ASSUME NEW v \in Pages, NEW n \in 1 .. MaxRange, NEW p \in Targets,
             NEW flags \in FlagSets, map_range(v, p, n, flags)
      PROVE  PagingInv' /\ StepPromise
  BY <1>3, MapRangeInv DEF StepPromise
<1>4. ASSUME NEW v \in Pages, NEW n \in 1 .. MaxRange, unmap_range(v, n)
      PROVE  PagingInv' /\ StepPromise
  BY <1>4, UnmapRangeInv DEF StepPromise
<1>5. ASSUME create_user_space  PROVE PagingInv' /\ StepPromise
  BY <1>5, CreateInv DEF StepPromise
<1>6. ASSUME NEW pd \in spaces, destroy_space(pd)  PROVE PagingInv' /\ StepPromise
  BY <1>6, DestroyInv DEF StepPromise
<1>7. ASSUME NEW pd \in spaces \cup {kernel_as}, switch_to(pd)  PROVE PagingInv' /\ StepPromise
  BY <1>7, SwitchInv DEF StepPromise
<1>8. ASSUME NEW v \in Pages, flush_page(v)  PROVE PagingInv' /\ StepPromise
  BY <1>8, FlushPageInv DEF StepPromise
<1>9. ASSUME flush_all  PROVE PagingInv' /\ StepPromise
  <2>1. status = "running" /\ switch_to(cr3)
    BY <1>9 DEF flush_all
  <2>2. cr3 = kernel_as
    BY <2>1, RunningFacts
  <2>3. switch_to(kernel_as)
    BY <2>1, <2>2
  <2> QED
    BY <2>3, SwitchInv DEF StepPromise
<1> QED
  BY <1>1, <1>2, <1>3, <1>4, <1>5, <1>6, <1>7, <1>8, <1>9 DEF Next

LEMMA StutterInv ==
  ASSUME PagingInv, UNCHANGED vars
  PROVE  PagingInv'
  BY DEF PagingInv, vars

-----------------------------------------------------------------------------
(* What the invariant says of frames, spaces and the TLB.                  *)

LEMMA TypesOK ==
  ASSUME PagingInv
  PROVE  TypeOK
<1>1. Mappable \subseteq Page
  BY DEF Mappable
<1> QED
  BY <1>1 DEF PagingInv, TypeOK, Memory

\* The tables of the kernel are exactly what the pool lacks.
LEMMA KernelTablesAre ==
  ASSUME NEW pool \in Pools, Good(mem, free, kernel_as, spaces, pool)
  PROVE  KernelTables = pool \ (free \cup spaces \cup {kernel_as})
<1>1. /\ \A s \in IdentityPdes : mem[kernel_as][s].to = IdentityPt(s) /\ IdentityPt(s) \notin Pool
      /\ mem[kernel_as][KMapPde].to = KMapPt /\ KMapPt \notin Pool
      /\ pool \subseteq Pool
  BY FrameFacts DEF Good, DirOK, Pool
<1>2. /\ \A s \in NewSlot : present(mem[kernel_as][s])
                              => mem[kernel_as][s].to \in pool \ (free \cup spaces \cup {kernel_as})
      /\ \A f \in pool \ (free \cup spaces \cup {kernel_as}) :
           \E s \in NewSlot : present(mem[kernel_as][s]) /\ mem[kernel_as][s].to = f
  BY DEF Good, FramesOK
<1>3. Slot = NewSlot \cup IdentityPdes \cup {KMapPde}
  BY Geometry DEF NewSlot
<1>4. KernelTables = {mem[kernel_as][s].to : s \in {t \in Slot : present(mem[kernel_as][t])}} \cap Pool
  BY DEF KernelTables, Tables
<1> QED
  BY <1>1, <1>2, <1>3, <1>4

\* A user space owns its directory and nothing else: map works on the active
\* directory only.
LEMMA SpaceOwnsItsDirectory ==
  ASSUME NEW pool \in Pools, Good(mem, free, kernel_as, spaces, pool), NEW pd \in spaces
  PROVE  OwnedBy(pd) = {pd}
<1>1. \A s \in 0 .. KernelPdeBase - 1 : s \in Slot /\ ~ (s >= KernelPdeBase)
  BY Geometry DEF Slot
<1>2. \A s \in 0 .. KernelPdeBase - 1 : ~ present(mem[pd][s])
  BY <1>1, EntryFacts DEF Good, SpacesOK
<1> QED
  BY <1>2 DEF OwnedBy, Tables

LEMMA InvFramesHaveOneRole ==
  ASSUME PagingInv
  PROVE  FramesHaveOneRole
<1>1. TypeOK
  BY TypesOK
<1> SUFFICES ASSUME kernel_as # 0
             PROVE  LET kernel == {kernel_as} \cup KernelTables
                    IN  /\ \A s, t \in Slot : s # t /\ present(mem[kernel_as][s]) /\ present(mem[kernel_as][t])
                                                => mem[kernel_as][s].to # mem[kernel_as][t].to
                        /\ kernel_as \notin KernelTables
                        /\ \A pd \in spaces : OwnedBy(pd) \cap (kernel \cup free) = {}
                        /\ \A pd, qd \in spaces : pd # qd => OwnedBy(pd) \cap OwnedBy(qd) = {}
                        /\ free \cap kernel = {}
                        /\ \E pool \in Pools :
                             pool = free \cup kernel \cup UNION {OwnedBy(pd) : pd \in spaces}
  BY <1>1 DEF FramesHaveOneRole
<1>2. PICK pool \in Pools : Good(mem, free, kernel_as, spaces, pool)
  BY DEF PagingInv
<1>3. KernelTables = pool \ (free \cup spaces \cup {kernel_as})
  BY <1>2, KernelTablesAre
<1>4. \A pd \in spaces : OwnedBy(pd) = {pd}
  BY <1>2, SpaceOwnsItsDirectory
<1>5. /\ free \subseteq pool /\ spaces \subseteq pool /\ kernel_as \in pool
      /\ kernel_as \notin free /\ kernel_as \notin spaces /\ free \cap spaces = {}
  BY <1>2 DEF Good, FramesOK
<1>6. ASSUME NEW s \in Slot, NEW t \in Slot, s # t,
             present(mem[kernel_as][s]), present(mem[kernel_as][t])
      PROVE  mem[kernel_as][s].to # mem[kernel_as][t].to
  <2>1. /\ \A d \in IdentityPdes : mem[kernel_as][d].to = IdentityPt(d) /\ IdentityPt(d) # KMapPt
                                   /\ IdentityPt(d) \notin pool
        /\ \A d, e \in IdentityPdes : IdentityPt(d) = IdentityPt(e) => d = e
        /\ mem[kernel_as][KMapPde].to = KMapPt /\ KMapPt \notin pool
    BY <1>2, FrameFacts DEF Good, DirOK
  <2>2. /\ \A d \in NewSlot : present(mem[kernel_as][d]) => mem[kernel_as][d].to \in pool
        /\ \A d, e \in NewSlot : d # e /\ present(mem[kernel_as][d]) /\ present(mem[kernel_as][e])
                                   => mem[kernel_as][d].to # mem[kernel_as][e].to
    BY <1>2 DEF Good, FramesOK
  <2>3. Slot = NewSlot \cup IdentityPdes \cup {KMapPde}
    BY Geometry DEF NewSlot
  <2> QED
    BY <1>6, <2>1, <2>2, <2>3
<1>7. UNION {OwnedBy(pd) : pd \in spaces} = spaces
  BY <1>4
<1>8. pool = free \cup ({kernel_as} \cup KernelTables) \cup UNION {OwnedBy(pd) : pd \in spaces}
  BY <1>3, <1>5, <1>7
<1> QED
  BY <1>3, <1>4, <1>5, <1>6, <1>8

LEMMA InvUserSpaceWithinKernel ==
  ASSUME PagingInv
  PROVE  UserSpaceWithinKernel
<1>1. CASE kernel_as = 0
  BY <1>1 DEF PagingInv, UserSpaceWithinKernel
<1>2. CASE kernel_as # 0
  <2>1. PICK pool \in Pools : Good(mem, free, kernel_as, spaces, pool)
    BY <1>2 DEF PagingInv
  <2> QED
    BY <2>1 DEF Good, SpacesOK, UserSpaceWithinKernel
<1> QED
  BY <1>1, <1>2

LEMMA InvTlbStaleOnlyWhereDirty ==
  ASSUME PagingInv
  PROVE  TlbStaleOnlyWhereDirty
  BY DEF PagingInv, TlbStaleOnlyWhereDirty

-----------------------------------------------------------------------------
(* The theorems.                                                           *)

\* The invariant the others rest on: init_kernel_space, map, unmap,
\* create_user_space, destroy_space, switch_to and flush, in any order and
\* with the failures of the allocator, keep the kernel's directory, the user
\* directories and the free frames apart, the window closed and the TLB stale
\* only where a client changed a page (paging.cpp:50-226).
THEOREM PagingInvariance == Spec => []PagingInv
<1>1. PagingInv /\ [Next]_vars => PagingInv'
  BY NextInv, StutterInv
<1> QED
  BY <1>1, InitInv, PTL DEF Spec

\* Every frame taken from the allocator has one role in one space, none in
\* use is free and none is lost, also when ensure_pt fails in the middle of
\* map_range (paging.cpp:79-149, 173-179).
THEOREM EveryFrameHasOneRole == Spec => []FramesHaveOneRole
<1>1. PagingInv => FramesHaveOneRole
  BY InvFramesHaveOneRole
<1> QED
  BY <1>1, PagingInvariance, PTL

\* What a user space has of the kernel half is what the kernel has, also
\* after the kernel mapped and unmapped more (paging.cpp:112-131).
THEOREM UserSpacesStayWithinKernel == Spec => []UserSpaceWithinKernel
<1>1. PagingInv => UserSpaceWithinKernel
  BY InvUserSpaceWithinKernel
<1> QED
  BY <1>1, PagingInvariance, PTL

\* A translation the TLB holds that memory no longer has is of a page that
\* map or unmap changed and the client did not flush since: k_map_frame and
\* k_unmap_frame leave nothing behind (paging.cpp:50-71).
THEOREM TlbStaysCurrent == Spec => []TlbStaleOnlyWhereDirty
<1>1. PagingInv => TlbStaleOnlyWhereDirty
  BY InvTlbStaleOnlyWhereDirty
<1> QED
  BY <1>1, PagingInvariance, PTL

\* To its clients Paging is PageMap, a plain map of pages: every step of the
\* active space maps, unmaps or leaves what translate shows as PageMap says.
THEOREM PagingRefinement == Spec => ImplementsPageMap
<1>1. PagingInv /\ [Next]_vars => [StepPromise]_vars
  BY NextInv
<1>2. Spec => [][StepPromise]_vars
  BY <1>1, PagingInvariance, PTL DEF Spec
<1>3. StepPromise <=>
        (status = "running" /\ status' = "running" =>
        \/ Promise!Spaces
        \/ \E v \in Pages, n \in 1 .. MaxRange :
             \/ Promise!UnmapRange(v, n)
             \/ \E p \in Targets, flags \in FlagSets : Promise!MapRange(v, p, n, flags))
  BY DEF StepPromise
<1> QED
  BY <1>2, <1>3, PTL DEF ImplementsPageMap
=============================================================================
