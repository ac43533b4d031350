------------------------------- MODULE Paging -------------------------------
(***************************************************************************)
(* i386::mem::Paging: page directories and page tables in physical memory, *)
(* the window through which a new frame is cleared, address spaces, and    *)
(* the TLB, which the code has to keep right by invlpg and writes to cr3.  *)
(*                                                                         *)
(* Addresses are page and frame numbers; a directory and a table have      *)
(* Entries entries.  The tables are reached through the identity map of    *)
(* the early directory, which every access through a pointer assumes.  A   *)
(* translation the TLB may still hold is used in place of the one in       *)
(* memory.  The kernel is one thread with interrupts off: every operation  *)
(* is one step.                                                            *)
(***************************************************************************)
EXTENDS Integers, FiniteSets

CONSTANTS Entries,         \* 1024
          KernelPdeBase,   \* 768
          IdentityPdes,    \* directory entries of the early identity map
          Frame,           \* identity mapped frames, 0 among them
          EarlyPd, KMapPt, IdentityPt(_),   \* frames of the early tables
          Pools,           \* the sets of frames the allocator may start with
          Pages, Targets, FlagSets, MaxRange   \* what clients map, unmap and flush

ASSUME PagingAssumption ==
  /\ Entries \in Nat \ {0} /\ KernelPdeBase \in 1 .. Entries - 1
  /\ IdentityPdes \subseteq 0 .. KernelPdeBase - 1
  /\ Frame = {d * Entries + t : d \in IdentityPdes, t \in 0 .. Entries - 1}
  /\ {0, EarlyPd, KMapPt} \subseteq Frame /\ 0 \notin {EarlyPd, KMapPt} /\ EarlyPd # KMapPt
  /\ \A d \in IdentityPdes :
       /\ IdentityPt(d) \in Frame \ {0, EarlyPd, KMapPt}
       /\ \A e \in IdentityPdes : IdentityPt(e) = IdentityPt(d) => e = d
       /\ \A pool \in Pools : IdentityPt(d) \notin pool
  /\ \A pool \in Pools : pool \subseteq Frame \ {0, EarlyPd, KMapPt}
  /\ Pages \cap Frame = {} /\ Targets \subseteq Nat /\ MaxRange \in Nat

VARIABLES mem,        \* frame -> its entries
          tlb,        \* set of <<page, frame>>: old translations still cached
          free,       \* frames of the allocator
          cr3, kernel_as,   \* active directory; kernel_as.pd_phys, 0 at first
          spaces,     \* pd_phys of the user spaces that exist
          status,     \* "boot", "running" or "stopped"
          dirty       \* ghost: pages changed since the client last flushed them

vars == <<mem, tlb, free, cr3, kernel_as, spaces, status, dirty>>

Slot     == 0 .. Entries - 1
KMapPde  == Entries - 1
KMapSlot == KMapPde * Entries
Page     == 0 .. Entries * Entries - 1
pdi(v)   == v \div Entries
pti(v)   == v % Entries

-----------------------------------------------------------------------------
(* Entries and flags.                                                      *)

\* The bit of an entry that stands for a flag.
HwBit == [Present |-> 0, Writable |-> 1, User |-> 2, WriteThrough |-> 3,
          CacheDisable |-> 4, Global |-> 8]

hw_flags(f) == {HwBit[x] : x \in f \ {"Present"}} \cup {HwBit["Present"]}
from_hw(e)  == {x \in DOMAIN HwBit : HwBit[x] \in e}

Entry(to, bits) == [to |-> to, bits |-> bits]
Zero            == Entry(0, {})
present(e)      == HwBit["Present"] \in e.bits

\* What a frame holds that was never written to: entries that look present.
Garbage == [s \in Slot |-> Entry(0, hw_flags({}))]

\* The pages outside the identity map and the last directory entry: what
\* clients may map, from the framebuffer (entry_point.cpp:266) to user pages.
Mappable == {v \in Page : pdi(v) \notin IdentityPdes \cup {KMapPde}}
Flag     == DOMAIN HwBit

ASSUME RangesAssumption ==
  /\ Pages \subseteq Mappable
  /\ \A v \in Pages : v .. v + MaxRange - 1 \subseteq Mappable
  /\ \A flags \in FlagSets : flags \subseteq Flag

pde_flags(v) == hw_flags(IF pdi(v) < KernelPdeBase THEN {"Writable", "User"} ELSE {"Writable"})

\* The entry that translates a page, through a directory.
pte_of(m, pd, v) == LET e == m[pd][pdi(v)] IN IF present(e) THEN m[e.to][pti(v)] ELSE Zero

translate(v) == LET e == pte_of(mem, cr3, v)
                IN  IF present(e) THEN [to |-> e.to, flags |-> from_hw(e.bits)]
                    ELSE [to |-> 0, flags |-> {}]

-----------------------------------------------------------------------------
(* What an operation changes: memory, TLB and allocator, and whether it    *)
(* succeeded so far.                                                       *)

now == [mem |-> mem, tlb |-> tlb, free |-> free, ok |-> TRUE]

Become(m) == mem' = m.mem /\ tlb' = m.tlb /\ free' = m.free

store(m, f, s, e) == [m EXCEPT !.mem[f][s] = e]

\* Mutant: invlpg is forgotten.
flush_nothing(m, v) == m
flush(m, v)         == [m EXCEPT !.tlb = {x \in @ : x[1] # v}]

\* Writing the entry of a page leaves its old translation in the TLB, which
\* holds one of each page.
store_pte(m, v, e) ==
  LET old   == pte_of(m.mem, cr3, v)
      fresh == present(old) /\ \A x \in m.tlb : x[1] # v
  IN  [store(m, m.mem[cr3][pdi(v)].to, pti(v), e) EXCEPT
         !.tlb = IF fresh THEN @ \cup {<<v, old.to>>} ELSE @]

\* k_map_frame and k_unmap_frame.
k_map_frame(m, f) == flush(store_pte(m, KMapSlot, Entry(f, hw_flags({"Writable"}))), KMapSlot)
k_unmap_frame(m)  == flush(store_pte(m, KMapSlot, Zero), KMapSlot)

\* The frame an access through the window reaches.
window(m) ==
  LET cached == {x \in m.tlb : x[1] = KMapSlot}
  IN  IF cached = {} THEN pte_of(m.mem, cr3, KMapSlot).to ELSE (CHOOSE x \in cached : TRUE)[2]

\* A frame filled with entries through the window.
through_window(m, f, entries) ==
  LET w == k_map_frame(m, f)
  IN  k_unmap_frame([w EXCEPT !.mem[window(w)] = entries])

lowest(S) == CHOOSE f \in S : \A g \in S : f <= g

\* Mutant: the new table is not cleared.
ensure_pt_no_memset(m, v) ==
  IF present(m.mem[cr3][pdi(v)]) THEN m
  ELSE IF m.free = {} THEN [m EXCEPT !.ok = FALSE]
  ELSE store([m EXCEPT !.free = @ \ {lowest(@)}], cr3, pdi(v), Entry(lowest(m.free), pde_flags(v)))

ensure_pt(m, v) ==
  IF present(m.mem[cr3][pdi(v)]) THEN m
  ELSE IF m.free = {} THEN [m EXCEPT !.ok = FALSE]
  ELSE LET f == lowest(m.free)
           n == through_window([m EXCEPT !.free = @ \ {f}], f, [s \in Slot |-> Zero])
       IN  store(n, cr3, pdi(v), Entry(f, pde_flags(v)))

map_page(m, v, p, flags) ==
  LET n == ensure_pt(m, v)
  IN  IF n.ok THEN store_pte(n, v, Entry(p, hw_flags(flags))) ELSE n

\* map_range, and map for one page: it stops at the first page that fails.
mapped_range(v, p, n, flags) ==
  LET page(m, k) == IF m.ok THEN map_page(m, v + k, p + k, flags) ELSE m
      after[k \in 0 .. n] == IF k = 0 THEN now ELSE page(after[k - 1], k - 1)
  IN  after[n]

unmapped_range(v, n) ==
  LET page(m, k) == IF present(m.mem[cr3][pdi(v + k)]) THEN store_pte(m, v + k, Zero) ELSE m
      after[k \in 0 .. n] == IF k = 0 THEN now ELSE page(after[k - 1], k - 1)
  IN  after[n]

-----------------------------------------------------------------------------
\* The early directory as boot leaves it; free frames hold what they held.
Init ==
  /\ mem = [f \in Frame |->
              IF f = EarlyPd
                THEN [s \in Slot |-> IF s \in IdentityPdes THEN Entry(IdentityPt(s), hw_flags({"Writable"}))
                                     ELSE IF s = KMapPde THEN Entry(KMapPt, hw_flags({"Writable"})) ELSE Zero]
              ELSE IF f = KMapPt THEN [s \in Slot |-> Zero]
              ELSE IF \E d \in IdentityPdes : f = IdentityPt(d)
                THEN LET d == CHOOSE d \in IdentityPdes : f = IdentityPt(d)
                     IN  [s \in Slot |-> Entry(d * Entries + s, hw_flags({"Writable"}))]
              ELSE Garbage]
  /\ tlb = {} /\ free \in Pools
  /\ cr3 = EarlyPd /\ kernel_as = 0 /\ spaces = {}
  /\ status = "boot" /\ dirty = {}

\* A failure here ends the boot in a panic.
init_kernel_space ==
  /\ status = "boot" /\ free # {}
  /\ LET f == lowest(free)
     IN  /\ mem' = [mem EXCEPT ![f] = mem[cr3]]
         /\ free' = free \ {f} /\ kernel_as' = f /\ cr3' = f
  /\ tlb' = {} /\ status' = "running"
  /\ UNCHANGED <<spaces, dirty>>

no_kernel_space ==
  /\ status = "boot" /\ free = {}
  /\ status' = "stopped"
  /\ UNCHANGED <<mem, tlb, free, cr3, kernel_as, spaces, dirty>>

map_range(v, p, n, flags) ==
  /\ status = "running"
  /\ Become(mapped_range(v, p, n, flags))
  /\ dirty' = dirty \cup (v .. v + n - 1)
  /\ UNCHANGED <<cr3, kernel_as, spaces, status>>

unmap_range(v, n) ==
  /\ status = "running"
  /\ Become(unmapped_range(v, n))
  /\ dirty' = dirty \cup (v .. v + n - 1)
  /\ UNCHANGED <<cr3, kernel_as, spaces, status>>

\* Mutant: the loop over the kernel's entries starts at 0.
create_user_space_all ==
  /\ status = "running" /\ free # {}
  /\ LET f == lowest(free)
     IN  /\ Become(through_window([now EXCEPT !.free = @ \ {f}], f, mem[kernel_as]))
         /\ spaces' = spaces \cup {f}
  /\ UNCHANGED <<cr3, kernel_as, status, dirty>>

\* Only the entries from KernelPdeBase on are copied.
create_user_space ==
  /\ status = "running" /\ free # {}
  /\ LET f == lowest(free)
         kernel_half == [s \in Slot |-> IF s >= KernelPdeBase THEN mem[kernel_as][s] ELSE Zero]
     IN  /\ Become(through_window([now EXCEPT !.free = @ \ {f}], f, kernel_half))
         /\ spaces' = spaces \cup {f}
  /\ UNCHANGED <<cr3, kernel_as, status, dirty>>

\* Mutant: the tables of the kernel half are freed as well.
destroy_space_all(pd) ==
  /\ status = "running" /\ pd \in spaces
  /\ LET gone == {s \in Slot : present(mem[pd][s])}
     IN  /\ Become(through_window([now EXCEPT !.free = @ \cup {mem[pd][s].to : s \in gone} \cup {pd}],
                                  pd, [s \in Slot |-> IF s \in gone THEN Zero ELSE mem[pd][s]]))
         /\ spaces' = spaces \ {pd}
  /\ UNCHANGED <<cr3, kernel_as, status, dirty>>

\* The tables of the user half and the directory go back to the allocator.
\* Nothing asks whether the space is active.
destroy_space(pd) ==
  /\ status = "running" /\ pd \in spaces
  /\ LET gone == {s \in 0 .. KernelPdeBase - 1 : present(mem[pd][s])}
     IN  /\ Become(through_window([now EXCEPT !.free = @ \cup {mem[pd][s].to : s \in gone} \cup {pd}],
                                  pd, [s \in Slot |-> IF s \in gone THEN Zero ELSE mem[pd][s]]))
         /\ spaces' = spaces \ {pd}
  /\ UNCHANGED <<cr3, kernel_as, status, dirty>>

\* Writing cr3 empties the TLB.  The next instruction is fetched through the
\* new directory: without the identity map of the kernel image it faults.
switch_to(pd) ==
  /\ status = "running"
  /\ cr3' = pd /\ tlb' = {} /\ dirty' = {}
  /\ status' = IF \A s \in IdentityPdes : present(mem[pd][s]) THEN status ELSE "stopped"
  /\ UNCHANGED <<mem, free, kernel_as, spaces>>

flush_page(v) ==
  /\ status = "running"
  /\ Become(flush(now, v)) /\ dirty' = dirty \ {v}
  /\ UNCHANGED <<cr3, kernel_as, spaces, status>>

flush_all == status = "running" /\ switch_to(cr3)

Next ==
  \/ init_kernel_space \/ no_kernel_space
  \/ \E v \in Pages, n \in 1 .. MaxRange :
       \/ \E p \in Targets, flags \in FlagSets : map_range(v, p, n, flags)
       \/ unmap_range(v, n)
  \/ create_user_space
  \/ \E pd \in spaces : destroy_space(pd)
  \/ \E pd \in spaces \cup {kernel_as} : switch_to(pd)
  \/ \E v \in Pages : flush_page(v)
  \/ flush_all

Spec == Init /\ [][Next]_vars

-----------------------------------------------------------------------------
EntryType == [to : Nat, bits : SUBSET {HwBit[x] : x \in DOMAIN HwBit}]

\* Types; and the kernel always runs on its own directory: the user half of
\* no space maps the kernel image, so that leaving it stops the machine.
TypeOK ==
  /\ mem \in [Frame -> [Slot -> EntryType]]
  /\ tlb \subseteq Page \X Nat /\ dirty \subseteq Page
  /\ free \subseteq Frame /\ spaces \subseteq Frame
  /\ cr3 \in Frame /\ kernel_as \in Frame
  /\ status \in {"boot", "running", "stopped"}
  /\ status = "running" => kernel_as # 0 /\ cr3 = kernel_as

\* The frames of the allocator a directory reaches through some of its entries.
Pool             == UNION Pools
Tables(pd, S)    == {mem[pd][s].to : s \in {t \in S : present(mem[pd][t])}} \cap Pool
KernelTables     == Tables(kernel_as, Slot)
OwnedBy(pd)      == {pd} \cup Tables(pd, 0 .. KernelPdeBase - 1)

\* Directories and tables of all spaces (paging.cpp:79-149): every frame taken
\* from the allocator has one role in one space, none that is in use is free,
\* and none is lost, also when an operation fails half way.
FramesHaveOneRole ==
  TypeOK /\ (kernel_as # 0 =>
    LET kernel == {kernel_as} \cup KernelTables
    IN  /\ \A s, t \in Slot : s # t /\ present(mem[kernel_as][s]) /\ present(mem[kernel_as][t])
                                => mem[kernel_as][s].to # mem[kernel_as][t].to
        /\ kernel_as \notin KernelTables
        /\ \A pd \in spaces : OwnedBy(pd) \cap (kernel \cup free) = {}
        /\ \A pd, qd \in spaces : pd # qd => OwnedBy(pd) \cap OwnedBy(qd) = {}
        /\ free \cap kernel = {}
        /\ \E pool \in Pools : pool = free \cup kernel \cup UNION {OwnedBy(pd) : pd \in spaces})

\* create_user_space (paging.cpp:112-131) copies once: a space may miss kernel
\* tables that were added later, but what it has of the kernel half is what
\* the kernel has, and the user half starts empty.
UserSpaceWithinKernel ==
  \A pd \in spaces : \A s \in Slot :
    mem[pd][s] \in {Zero} \cup (IF s >= KernelPdeBase THEN {mem[kernel_as][s]} ELSE {})

\* map and unmap leave invalidation to their callers; nothing else may leave
\* an old translation behind, the window of k_map_frame least of all.
TlbStaleOnlyWhereDirty == {x[1] : x \in tlb} \subseteq dirty

NotMapped == [to |-> 0, flags |-> {}]
Visible   == [v \in Mappable |-> translate(v)]

Promise == INSTANCE PageMap WITH
  Page      <- Mappable,
  Target    <- Nat,
  mapped    <- Visible,
  room      <- Cardinality(free)

\* For the active space every operation is one on a plain map of pages: a
\* page table that appears brings no page with it, a range that fails has
\* mapped a prefix and only because no frame is left, flags come back as they
\* were given, and spaces created or destroyed beside it change nothing.
ImplementsPageMap ==
  [][ status = "running" /\ status' = "running" =>
        \/ Promise!Spaces
        \/ \E v \in Pages, n \in 1 .. MaxRange :
             \/ Promise!UnmapRange(v, n)
             \/ \E p \in Targets, flags \in FlagSets : Promise!MapRange(v, p, n, flags) ]_vars
=============================================================================
