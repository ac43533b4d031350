----------------------------- MODULE BootMemory -----------------------------
(***************************************************************************)
(* How kmain hands out physical memory before the kernel proper runs: the  *)
(* firmware's memory map, the early page tables placed by a bump pointer,  *)
(* the page frame allocator over the identity map, the kernel's page       *)
(* directory, the page tables of the framebuffer, and the kernel heap.     *)
(*                                                                         *)
(* The boot is one sequential program; pc names the statement group that   *)
(* runs next.  What varies is the machine: the firmware's map and where    *)
(* the framebuffer lies.  Virtual addresses equal physical ones.           *)
(***************************************************************************)
EXTENDS Integers, Sequences, FiniteSets

CONSTANTS PageSize, WordSize,     \* 4096 and 2^32
          KernelStart, KernelEnd, \* the image, 1 MiB .. _ld_kernel_end_addr
          Mb2Info, Mb2Size,       \* the boot information
          EarlySlack, EarlyMin,   \* 16 MiB and 32 MiB of choose_early_identity_limit
          PtSpan,                 \* bytes one page table maps (4 MiB)
          HeapSize,               \* 32 MiB
          MaxRegions,             \* 16
          FirmwareMaps,           \* sequences of [type, base, length], 64-bit values
          Framebuffers,           \* [phys, bytes] records, or NoFramebuffer
          NoFramebuffer

VARIABLES used, hint, phase, ret, handed, usable, reserved  \* the frame allocator

align_up_4k(v) == ((v + PageSize - 1) \div PageSize) * PageSize
Page           == 0 .. (WordSize \div PageSize) - 1
PagesOf(start, end) == {p \in Page : p * PageSize < end /\ start < (p + 1) * PageSize}
Unmapped       == -1

mb2_end_addr     == Mb2Info + Mb2Size
first_free_paddr == align_up_4k(IF KernelEnd > mb2_end_addr THEN KernelEnd ELSE mb2_end_addr)

\* Mutant: no slack above the bump pointer for the tables themselves.
choose_early_identity_limit_no_slack == align_up_4k(first_free_paddr)

choose_early_identity_limit ==
  LET lim == first_free_paddr + EarlySlack
  IN  align_up_4k(IF lim < EarlyMin THEN EarlyMin ELSE lim)

\* What setup_early_identity_paging places from the bump pointer on: the page
\* directory, one page table per PtSpan up to the limit, the kmap page table.
last_pdi       == (choose_early_identity_limit - 1) \div PtSpan
pd_phys        == first_free_paddr
pt_phys(di)    == pd_phys + PageSize * (di + 1)
kmap_pt_phys   == pt_phys(last_pdi + 1)
KMAP_PDE       == (WordSize \div PtSpan) - 1

managed_frames == choose_early_identity_limit \div PageSize
bitmap_bytes   == (managed_frames + 7) \div 8
bitmap_storage == kmap_pt_phys + PageSize

\* Image and boot information lie low enough for the window of KMAP_PDE to be
\* above the identity map; 16 MiB hold a page table for every entry of a
\* directory and one bit for every page.
ASSUME LayoutAssumption ==
  /\ PageSize \in Nat \ {0} /\ PtSpan \in Nat \ {0} /\ WordSize \in Nat \ {0}
  /\ PtSpan % PageSize = 0 /\ WordSize % PtSpan = 0
  /\ KernelStart \in Nat /\ KernelEnd \in Nat /\ KernelStart < KernelEnd
  /\ Mb2Info \in Nat /\ Mb2Size \in Nat \ {0}
  /\ EarlySlack \in Nat /\ EarlyMin \in Nat /\ HeapSize \in Nat /\ MaxRegions \in Nat
  /\ choose_early_identity_limit <= WordSize - PtSpan
  /\ EarlySlack >= PageSize * (KMAP_PDE + 3) + (WordSize \div PageSize) \div 8

FirmwareEntry == [type : Nat, base : Nat, length : Nat]

\* A framebuffer lies inside the address space.
ASSUME MachineAssumption ==
  /\ FirmwareMaps \subseteq Seq(FirmwareEntry)
  /\ \A f \in Framebuffers \ {NoFramebuffer} :
       f \in [phys : Nat, bytes : Nat] /\ f.phys + f.bytes <= WordSize

PFA == INSTANCE PageFrameAllocator WITH
  ManagedBase <- 0, Frames <- managed_frames, BitmapBytes <- bitmap_bytes,
  UsableRanges <- {}, ReserveRanges <- {}, Strays <- {}

VARIABLES pc,        \* the part of the boot that runs next
          firmware,  \* the memory map entries of the boot information
          fb,        \* serv.framebuffer
          regions,   \* ctx.memory_map
          i,         \* index of the current loop, from 1
          bump,      \* next free address of the early bump allocation
          cr3,       \* address of the active page directory, 0 before paging
          pd,        \* its entries: page table address, 0 if not present
          pte,       \* what the page tables say: page -> page or Unmapped
          heap       \* base of the kernel heap, 0 before init_heap

allocator == <<used, hint, phase, ret, handed, usable, reserved>>
machine   == <<firmware, fb>>
paging    == <<cr3, pd, pte>>
vars      == <<allocator, machine, paging, pc, regions, i, bump, heap>>

Init ==
  /\ PFA!Init
  /\ pc = "make_mem_map"
  /\ firmware \in FirmwareMaps
  /\ fb \in Framebuffers
  /\ regions = <<>> /\ i = 1 /\ bump = 0 /\ heap = 0
  /\ cr3 = 0
  /\ pd  = [di \in 0 .. KMAP_PDE |-> 0]
  /\ pte = [p \in Page |-> Unmapped]

-----------------------------------------------------------------------------
MemoryRegionType == {"Unknown", "Usable", "Reserved", "AcpiReclaimable", "AcpiNvs", "Mmio",
                     "Kernel", "BootloaderReclaimable", "Bad"}

MemoryRegion == [type : MemoryRegionType, addr : 0 .. WordSize - 1, length : 0 .. WordSize - 1]

\* Entry types of the multiboot2 memory map the switch names; others, type 2
\* among them, are dropped.  Base and length lose their upper 32 bits.
kept(e) == e.type \in {1, 3, 4, 5}

region(e) == [type   |-> CASE e.type = 1 -> "Usable"
                           [] e.type = 3 -> "AcpiReclaimable"
                           [] e.type = 4 -> "Reserved"
                           [] e.type = 5 -> "Bad",
              addr   |-> e.base % WordSize,
              length |-> e.length % WordSize]

\* One turn of make_mem_map's loop.
take_entry(rs, e) == IF kept(e) /\ Len(rs) < MaxRegions THEN Append(rs, region(e)) ELSE rs

regions_of(entries) ==
  LET upto[k \in 0 .. Len(entries)] ==
        IF k = 0 THEN <<>> ELSE take_entry(upto[k - 1], entries[k])
  IN  upto[Len(entries)]

make_mem_map ==
  /\ pc = "make_mem_map"
  /\ regions' = regions_of(firmware)
  /\ pc' = "early_paging"
  /\ UNCHANGED <<allocator, machine, paging, i, bump, heap>>

setup_early_identity_paging ==
  /\ pc = "early_paging"
  /\ bump' = kmap_pt_phys + PageSize
  /\ cr3'  = pd_phys
  /\ pd'   = [di \in 0 .. KMAP_PDE |->
                IF di <= last_pdi THEN pt_phys(di)
                ELSE IF di = KMAP_PDE THEN kmap_pt_phys ELSE 0]
  /\ pte'  = [p \in Page |->
                IF p * PageSize < choose_early_identity_limit THEN p ELSE Unmapped]
  /\ pc' = "bitmap"
  /\ UNCHANGED <<allocator, machine, regions, i, heap>>

\* pfa.init sets every bit, the state Init already gives the allocator.
place_bitmap ==
  /\ pc = "bitmap"
  /\ bump' = bump + align_up_4k(bitmap_bytes)
  /\ pc' = "donate"
  /\ UNCHANGED <<allocator, machine, paging, regions, i, heap>>

\* Mutant: the type of a region is not looked at.
donate_region_any_type ==
  /\ pc = "donate" /\ i <= Len(regions)
  /\ PFA!add_usable_range(regions[i].addr,
                          (regions[i].addr + regions[i].length) % WordSize)
  /\ i' = i + 1
  /\ UNCHANGED <<machine, paging, pc, regions, bump, heap>>

donate_region ==
  /\ pc = "donate" /\ i <= Len(regions)
  /\ IF regions[i].type = "Usable"
       THEN PFA!add_usable_range(regions[i].addr,
                                 (regions[i].addr + regions[i].length) % WordSize)
       ELSE UNCHANGED allocator
  /\ i' = i + 1
  /\ UNCHANGED <<machine, paging, pc, regions, bump, heap>>

reserve_null ==
  /\ pc = "donate" /\ i > Len(regions)
  /\ PFA!reserve_null
  /\ i' = 1 /\ pc' = "reserve"
  /\ UNCHANGED <<machine, paging, regions, bump, heap>>

\* Mutants: the boot information is forgotten; its end is passed for its
\* length.
reservations_no_mb2 == << <<KernelStart, KernelEnd - KernelStart>>,
                          <<pd_phys, bump - pd_phys>>,
                          <<bitmap_storage, bitmap_bytes>> >>
reservations_end_for_length == << <<KernelStart, KernelEnd - KernelStart>>,
                                  <<Mb2Info, mb2_end_addr>>,
                                  <<pd_phys, bump - pd_phys>>,
                                  <<bitmap_storage, bitmap_bytes>> >>

\* The reservations after page 0, in the order of the code.
reservations == << <<KernelStart, KernelEnd - KernelStart>>,
                   <<Mb2Info, mb2_end_addr - Mb2Info>>,
                   <<pd_phys, bump - pd_phys>>,
                   <<bitmap_storage, bitmap_bytes>> >>

reserve ==
  /\ pc = "reserve" /\ i <= Len(reservations)
  /\ PFA!reserve_range(reservations[i][1], reservations[i][2])
  /\ i' = i + 1
  /\ pc' = IF i = Len(reservations) THEN "kernel_space" ELSE pc
  /\ UNCHANGED <<machine, paging, regions, bump, heap>>

\* init_kernel_space copies the early directory into a new frame and
\* activates it; the page tables stay shared.
init_kernel_space ==
  /\ pc = "kernel_space"
  /\ PFA!alloc_frame
  /\ cr3' = ret'
  /\ i' = 0 /\ pc' = IF fb = NoFramebuffer THEN "crash" ELSE "framebuffer"
  /\ UNCHANGED <<machine, pd, pte, regions, bump, heap>>

no_kernel_space ==
  /\ pc = "kernel_space"
  /\ PFA!alloc_fails
  /\ pc' = "panic"
  /\ UNCHANGED <<machine, paging, regions, i, bump, heap>>

-----------------------------------------------------------------------------
\* map_framebuffer: map_range over its pages; i counts them.
fb_base  == (fb.phys \div PageSize) * PageSize
fb_end   == align_up_4k(fb.phys + fb.bytes)
fb_pages == (fb_end - fb_base) \div PageSize
fb_page  == fb_base \div PageSize + i
pdi(p)   == (p * PageSize) \div PtSpan

\* map(): the page table of the page is there, or a frame becomes one.
map_present ==
  /\ pc = "framebuffer" /\ i < fb_pages
  /\ pd[pdi(fb_page)] # 0
  /\ pte' = [pte EXCEPT ![fb_page] = fb_page]
  /\ i' = i + 1
  /\ UNCHANGED <<allocator, machine, cr3, pd, pc, regions, bump, heap>>

map_ensure_pt ==
  /\ pc = "framebuffer" /\ i < fb_pages
  /\ pd[pdi(fb_page)] = 0
  /\ PFA!alloc_frame
  /\ pd'  = [pd EXCEPT ![pdi(fb_page)] = ret']
  /\ pte' = [pte EXCEPT ![fb_page] = fb_page]
  /\ i' = i + 1
  /\ UNCHANGED <<machine, cr3, pc, regions, bump, heap>>

map_fails ==
  /\ pc = "framebuffer" /\ i < fb_pages
  /\ pd[pdi(fb_page)] = 0
  /\ PFA!alloc_fails
  /\ pc' = "panic"
  /\ UNCHANGED <<machine, paging, regions, i, bump, heap>>

\* flush_all, then the heap over the 32 MiB after the early allocations.
init_heap ==
  /\ pc = "framebuffer" /\ i = fb_pages
  /\ heap' = bump
  /\ pc' = "enter"
  /\ UNCHANGED <<allocator, machine, paging, regions, i, bump>>

\* Kernel::enter, up to its check of the framebuffer.
enter ==
  /\ pc = "enter"
  /\ pc' = IF fb = NoFramebuffer THEN "panic" ELSE "running"
  /\ UNCHANGED <<allocator, machine, paging, regions, i, bump, heap>>

Next ==
  \/ make_mem_map \/ setup_early_identity_paging \/ place_bitmap
  \/ donate_region \/ reserve_null \/ reserve
  \/ init_kernel_space \/ no_kernel_space
  \/ map_present \/ map_ensure_pt \/ map_fails
  \/ init_heap \/ enter

\* One processor runs straight-line code with interrupts off: it never stops
\* between two statements.
Spec == Init /\ [][Next]_vars /\ WF_vars(Next)

-----------------------------------------------------------------------------
\* The pages the kernel image, the boot information, page 0 and the early
\* tables with the bitmap occupy, and those of the heap.
BootPages == PagesOf(0, PageSize) \cup PagesOf(KernelStart, KernelEnd)
               \cup PagesOf(Mb2Info, mb2_end_addr) \cup PagesOf(pd_phys, bump)
HeapPages == IF heap = 0 THEN {} ELSE PagesOf(heap, heap + HeapSize)

TypeOK ==
  /\ PFA!TypeOK
  /\ pc \in {"make_mem_map", "early_paging", "bitmap", "donate", "reserve",
             "kernel_space", "framebuffer", "enter", "running", "panic", "crash"}
  /\ Len(regions) <= MaxRegions
  /\ \A k \in 1 .. Len(regions) : regions[k] \in MemoryRegion
  /\ bump \in 0 .. WordSize - 1 /\ heap \in 0 .. WordSize - 1
  /\ cr3 \in 0 .. WordSize - 1
  /\ pd \in [0 .. KMAP_PDE -> 0 .. WordSize - 1]
  /\ pte \in [Page -> Page \cup {Unmapped}]

\* No frame the allocator gives to paging is also kernel image, boot
\* information, early table, bitmap or heap.  The heap is never reserved in
\* the allocator, which manages the frames under it: only lowest-first
\* allocation and enough low memory keep the two apart.
FramesHaveOneOwner == handed \cap (BootPages \cup HeapPages) = {}

\* The bytes of a page that a firmware entry of type 1 covers.
IsRam(p) ==
  \A a \in p * PageSize .. (p + 1) * PageSize - 1 :
    \E k \in 1 .. Len(firmware) :
      /\ firmware[k].type = 1
      /\ firmware[k].base <= a /\ a < firmware[k].base + firmware[k].length

\* Every frame given to paging is RAM throughout, although donations are
\* rounded outwards and entries above 4 GiB are truncated onto low memory:
\* the few frames a boot takes are the lowest, below both kinds of doubtful ones.
FramesAreRam == \A p \in handed : IsRam(p)

\* The directory and the page tables are written through their physical
\* addresses: each must be identity mapped from the moment paging is on.  When
\* the kernel runs, so is every byte of the framebuffer.
TablesReachable ==
  /\ TypeOK
  /\ cr3 # 0 => \A a \in {cr3, pd_phys, bitmap_storage} \cup {pd[di] : di \in DOMAIN pd} :
                  a # 0 => pte[a \div PageSize] = a \div PageSize
  /\ pc = "running" => \A a \in fb.phys .. fb.phys + fb.bytes - 1 :
                         pte[a \div PageSize] = a \div PageSize

\* RAM that nothing else claims is enough for a directory and the page tables
\* of the framebuffer.
EnoughRam ==
  Cardinality({p \in 0 .. managed_frames - 1 : IsRam(p)
                 /\ p \notin BootPages \cup PagesOf(pd_phys, bitmap_storage + align_up_4k(bitmap_bytes))})
    >= 1 + Cardinality({pdi(p) : p \in PagesOf(fb.phys, fb.phys + fb.bytes)})

\* A machine with enough RAM and a framebuffer always reaches the kernel, and
\* boot panics only when no frame is left.
Boots ==
  /\ EnoughRam => <>(pc = "running")
  /\ [](pc = "panic" => PFA!FreeFrames = {})

-----------------------------------------------------------------------------
\* The kernel reports a heap of HeapSize bytes: all of it can be accessed.
HeapIsMapped == \A p \in HeapPages : pte[p] = p

\* A missing framebuffer is reported by the panic in Kernel::enter, not met
\* by a null dereference before it.
MissingFramebufferIsReported == pc # "crash"
=============================================================================
