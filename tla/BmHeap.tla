------------------------------- MODULE BmHeap -------------------------------
(***************************************************************************)
(* BmHeap: a list of blocks, each a header, one id byte per division and   *)
(* the divisions themselves.  An allocation writes one id into the id      *)
(* bytes of its divisions; free reads the id under the pointer and clears  *)
(* the run of equal ids that starts there.                                 *)
(*                                                                         *)
(* A block's geometry is fixed by the arena add_block was given, so a      *)
(* block is named by its arena.  Clients free the pointers they hold, and  *)
(* the pointers of Strays, which no block contains.                        *)
(***************************************************************************)
EXTENDS Integers, Sequences, FiniteSets

CONSTANTS Arena,        \* names of the memory ranges given to add_block
          ArenaAddr,    \* [Arena -> Nat], addr
          ArenaSize,    \* [Arena -> Nat], size
          ArenaDiv,     \* [Arena -> Nat], div_size
          HeaderSize,   \* sizeof(HeapBlock)
          DataAlign,    \* alignof(max_align_t)
          MaxId,        \* 0xFF, the largest id
          Requests,     \* <<size, align>> pairs clients ask for
          Strays,       \* pointers outside every block (nullptr is one)
          AllocBudget   \* bound: allocations in a behaviour

ASSUME ArenaAssumption ==
  /\ ArenaAddr \in [Arena -> Nat] /\ ArenaSize \in [Arena -> Nat]
  /\ ArenaDiv \in [Arena -> Nat]
  /\ HeaderSize \in Nat \ {0} /\ DataAlign \in Nat \ {0}

ASSUME BoundsAssumption ==
  /\ MaxId \in Nat \ {0} /\ AllocBudget \in Nat
  /\ Requests \subseteq Nat \X Nat /\ Strays \subseteq Nat

align_to(v, align) == LET w == v + align - 1 IN w - (w % align)

ipo2(x) == \E k \in 0 .. x : x = 2 ^ k
oiz(x)  == IF x = 0 THEN 1 ELSE x

-----------------------------------------------------------------------------
(* Block geometry, as add_block computes it.                               *)

\* The two later early returns of add_block cannot be reached: an arena this
\* large has at least one division.
accepted(a) ==
  /\ ArenaAddr[a] # 0 /\ ArenaDiv[a] # 0
  /\ ArenaSize[a] > HeaderSize + ArenaDiv[a]

bitmap_base(a) == ArenaAddr[a] + HeaderSize
max_divs(a)    == (ArenaSize[a] - HeaderSize) \div (ArenaDiv[a] + 1)
data_begin(a)  == align_to(bitmap_base(a) + max_divs(a), DataAlign)
div_count(a)   == data_begin(a) - bitmap_base(a)
data_end(a)    == data_begin(a) + div_count(a) * ArenaDiv[a]
Divs(a)        == 0 .. div_count(a) - 1
div_addr(a, i) == data_begin(a) + i * ArenaDiv[a]

contains(a, p) == data_begin(a) <= p /\ p < data_end(a)

\* Two blocks never occupy the same bytes, up to the last division, which may
\* lie past the arena (LiveInsideArena).  The kernel makes one block.
ASSUME ApartAssumption ==
  \A a, b \in Arena :
    a # b /\ accepted(a) /\ accepted(b) =>
      (ArenaAddr[a] .. data_end(a) - 1) \cap (ArenaAddr[b] .. data_end(b) - 1) = {}

ASSUME StraysAssumption ==
  \A p \in Strays, a \in Arena : accepted(a) => ~contains(a, p)

-----------------------------------------------------------------------------
VARIABLES list,       \* the linked blocks, front first
          ids,        \* ids[a][i]: the id byte of division i of block a
          remaining,  \* remaining[a]: the header's count of free bytes
          last_id,
          ret,        \* what the last alloc returned (0 = nullptr)
          panicked,   \* "no", or the reason the kernel halted
          live,       \* ghost: allocations held, [a, start, n]
          allocs      \* ghost: allocations made

vars == <<list, ids, remaining, last_id, ret, panicked, live, allocs>>

linked == {list[k] : k \in 1 .. Len(list)}

Init ==
  /\ list = <<>> /\ ids = <<>> /\ remaining = <<>>
  /\ last_id = 0 /\ ret = 0 /\ panicked = "no"
  /\ live = {} /\ allocs = 0

panic(why) ==
  /\ panicked' = why
  /\ UNCHANGED <<list, ids, remaining, last_id, ret, live, allocs>>

link(a) ==
  /\ list' = <<a>> \o list
  /\ ids' = [b \in linked \cup {a} |->
               IF b = a THEN [i \in Divs(a) |-> 0] ELSE ids[b]]
  /\ remaining' = [b \in linked \cup {a} |->
               IF b = a THEN div_count(a) * ArenaDiv[a] ELSE remaining[b]]
  /\ UNCHANGED <<last_id, ret, panicked, live, allocs>>

init(a) ==
  /\ panicked = "no" /\ list = <<>>
  /\ IF accepted(a) THEN link(a) ELSE panic("Heap initialization failed")

\* Later blocks; add_block returns false for an arena it does not accept.
add_block(a) ==
  /\ panicked = "no" /\ list # <<>> /\ a \notin linked
  /\ accepted(a)
  /\ link(a)

next_id == (IF last_id = MaxId THEN 0 ELSE last_id) + 1

\* Mutant: the last, partly used division is not counted.
needed_divs_down(a, size) == oiz(size \div ArenaDiv[a])

needed_divs(a, size) == oiz((size + ArenaDiv[a] - 1) \div ArenaDiv[a])

\* Mutant: a used division does not end the run.
fits_at_first_only(a, s, n, align) ==
  /\ s \in Divs(a) /\ s + n - 1 \in Divs(a)
  /\ ids[a][s] = 0
  /\ div_addr(a, s) % align = 0

\* n divisions from s on are unused and the first is aligned.
fits_at(a, s, n, align) ==
  /\ s \in Divs(a) /\ s + n - 1 \in Divs(a)
  /\ \A i \in s .. s + n - 1 : ids[a][i] = 0
  /\ div_addr(a, s) % align = 0

\* Where the scan of one block succeeds: the leftmost fit (HeapScan models
\* the scan itself, step by step).
hits(a, size, align) ==
  LET n == needed_divs(a, size)
  IN  {s \in Divs(a) :
         /\ remaining[a] >= size
         /\ fits_at(a, s, n, align)
         /\ \A t \in 0 .. s - 1 : ~fits_at(a, t, n, align)}

effective(align) == IF align = 0 THEN DataAlign ELSE align

take(a, s, n) ==
  /\ ids' = [ids EXCEPT ![a] = [i \in Divs(a) |->
               IF i \in s .. s + n - 1 THEN next_id ELSE @[i]]]
  /\ remaining' = [remaining EXCEPT ![a] = @ - n * ArenaDiv[a]]
  /\ last_id' = next_id
  /\ ret' = div_addr(a, s)
  /\ live' = live \cup {[a |-> a, start |-> s, n |-> n]}
  /\ allocs' = allocs + 1
  /\ UNCHANGED <<list, panicked>>

\* The first block, front first, whose scan succeeds serves the request.
alloc(size, align) ==
  /\ panicked = "no" /\ allocs < AllocBudget
  /\ size # 0 /\ ipo2(effective(align))
  /\ \E k \in 1 .. Len(list) :
       /\ \A j \in 1 .. k - 1 : hits(list[j], size, effective(align)) = {}
       /\ \E s \in hits(list[k], size, effective(align)) :
            take(list[k], s, needed_divs(list[k], size))

no_fit(size, align) ==
  size = 0 \/ ( /\ ipo2(effective(align))
               /\ \A a \in linked : hits(a, size, effective(align)) = {} )

alloc_fails(size, align) ==
  /\ panicked = "no" /\ no_fit(size, align)
  /\ ret' = 0
  /\ UNCHANGED <<list, ids, remaining, last_id, panicked, live, allocs>>

alloc_misaligned(size, align) ==
  /\ panicked = "no" /\ size # 0 /\ ~ipo2(effective(align))
  /\ panic("missaligned")

pointer(r) == div_addr(r.a, r.start)

\* Mutant: free stops at the next unused division, not at the next id.
id_run_any(a, i) == {j \in Divs(a) : j >= i /\ \A k \in i .. j : ids[a][k] # 0}

\* The run of equal ids from division i on.
id_run(a, i) ==
  {j \in Divs(a) : j >= i /\ \A k \in i .. j : ids[a][k] = ids[a][i]}

\* Mutant: nothing is given back to the count.
release_none(a, run) ==
  /\ ids' = [ids EXCEPT ![a] = [i \in Divs(a) |-> IF i \in run THEN 0 ELSE @[i]]]
  /\ UNCHANGED remaining

release(a, run) ==
  /\ ids' = [ids EXCEPT ![a] = [i \in Divs(a) |-> IF i \in run THEN 0 ELSE @[i]]]
  /\ remaining' = [remaining EXCEPT ![a] = @ + Cardinality(run) * ArenaDiv[a]]

free(p) ==
  /\ panicked = "no"
  /\ \E k \in 1 .. Len(list) :
       LET a == list[k]
           i == (p - data_begin(a)) \div ArenaDiv[a]
       IN  /\ contains(a, p)
           /\ \A j \in 1 .. k - 1 : ~contains(list[j], p)
           /\ IF ids[a][i] = 0
                THEN panic("Double free")
                ELSE /\ release(a, id_run(a, i))
                     /\ live' = {r \in live : pointer(r) # p}
                     /\ UNCHANGED <<list, last_id, ret, panicked, allocs>>

\* nullptr and pointers no block contains are ignored.
free_ignored(p) ==
  /\ panicked = "no"
  /\ p = 0 \/ \A a \in linked : ~contains(a, p)
  /\ UNCHANGED vars

-----------------------------------------------------------------------------
Cells(r)    == r.start .. r.start + r.n - 1
Bytes(r)    == pointer(r) .. pointer(r) + r.n * ArenaDiv[r.a] - 1
Metadata(a) == ArenaAddr[a] .. data_begin(a) - 1

TypeOK ==
  /\ linked \subseteq Arena /\ Len(list) = Cardinality(linked)
  /\ ids \in [linked -> UNION {[Divs(a) -> 0 .. MaxId] : a \in linked}]
  /\ \A a \in linked : DOMAIN ids[a] = Divs(a) /\ Divs(a) # {}
  /\ remaining \in [linked -> Nat]
  /\ last_id \in 0 .. MaxId /\ ret \in Nat
  /\ panicked \in {"no", "Heap initialization failed", "missaligned", "Double free",
                   "Out of memory"}
  /\ \A r \in live : r.a \in linked /\ r.start \in Divs(r.a) /\ r.n \in Nat \ {0}
  /\ allocs \in 0 .. AllocBudget

\* The id bytes describe exactly the live allocations: a division is marked
\* if and only if one of them holds it (nothing is lost, nothing leaks), and
\* an allocation's divisions carry one id.
CellsMatchLive ==
  /\ \A a \in linked : \A i \in Divs(a) :
       ids[a][i] # 0 <=> \E r \in live : r.a = a /\ i \in Cells(r)
  /\ \A r \in live : \A i \in Cells(r) : ids[r.a][i] = ids[r.a][r.start]

\* free finds an allocation's end by its id, so neighbours must differ in it.
NeighboursDiffer ==
  \A q, r \in live :
    q.a = r.a /\ q.start + q.n = r.start => ids[q.a][q.start] # ids[r.a][r.start]

\* The bytes of two live allocations never overlap, and no allocation
\* overlaps the header or the id bytes of any block: a client that stays
\* inside its allocation corrupts neither the heap nor another client.
LiveApart ==
  /\ \A q, r \in live : q # r => Bytes(q) \cap Bytes(r) = {}
  /\ \A r \in live : \A a \in linked : Bytes(r) \cap Metadata(a) = {}

\* The header's count is the number of unused bytes, through every alloc,
\* rounding and free.
RemainingExact ==
  \A a \in linked :
    remaining[a] = ArenaDiv[a] * Cardinality({i \in Divs(a) : ids[a][i] = 0})

\* What the heap writes down agrees with what its clients hold, through every
\* alloc, rounding and free: no division is lost or leaked, free can tell two
\* neighbours apart, allocations keep off each other and off the metadata, and
\* the cached count is exact.
HeapConsistent ==
  TypeOK /\ CellsMatchLive /\ NeighboursDiffer /\ LiveApart /\ RemainingExact

\* The shortcut "remaining < size" never hides space: a request that no
\* block's scan serves fits nowhere.
NullMeansNoFit ==
  \A r \in Requests : \A a \in linked :
    LET align == effective(r[2])
    IN  r[1] # 0 /\ ipo2(align) /\ hits(a, r[1], align) = {} =>
          \A s \in Divs(a) : ~fits_at(a, s, needed_divs(a, r[1]), align)

\* "Double free" (bm_heap.cpp:117) is for clients that free twice; clients
\* here free only what they hold.
NoSpuriousDoubleFree == panicked # "Double free"

\* init is given `size` bytes at `addr`, and the kernel reports a heap of
\* that size there: every allocation lies inside those bytes.
LiveInsideArena ==
  \A r \in live :
    Bytes(r) \subseteq ArenaAddr[r.a] .. ArenaAddr[r.a] + ArenaSize[r.a] - 1

FreeBytes ==
  UNION {div_addr(c[1], c[2]) .. div_addr(c[1], c[2]) + ArenaDiv[c[1]] - 1 :
           c \in {d \in linked \X UNION {Divs(a) : a \in linked} :
                    d[2] \in Divs(d[1]) /\ ids[d[1]][d[2]] = 0}}

Store == INSTANCE HeapStore WITH
  available <- FreeBytes,
  live <- {[ptr |-> pointer(r), len |-> r.n * ArenaDiv[r.a]] : r \in live}

\* The id-byte heap implements the abstract one: an allocation takes bytes
\* that were free, and free gives back exactly the bytes of that allocation.
ImplementsHeapStore == Store!Spec
=============================================================================
