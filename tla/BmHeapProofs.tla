---------------------------- MODULE BmHeapProofs ----------------------------
(***************************************************************************)
(* Proofs about the kernel heap for any number of blocks of any size,      *)
(* division size and place, and any requests, and about the scan of one    *)
(* block, for any block, alignment and size.                               *)
(***************************************************************************)
EXTENDS KernelHeap, HeapScan, Arithmetic, FiniteSetTheorems, SequenceTheorems, TLAPS

-----------------------------------------------------------------------------
(* Arithmetic.                                                             *)

\* align_to never rounds down.
LEMMA AlignTo ==
  ASSUME NEW v \in Nat, NEW d \in Nat \ {0}
  PROVE  align_to(v, d) \in Nat /\ v <= align_to(v, d)
<1>1. (v + d - 1) % d \in 0 .. d - 1
  BY SMTT(30)
<1> QED
  BY <1>1 DEF align_to

-----------------------------------------------------------------------------
(* Blocks, divisions and bytes.                                            *)

\* The division of block a that holds byte b.
division(a, b) == (b - data_begin(a)) \div ArenaDiv[a]

\* An accepted arena has divisions, and they lie above its address.
LEMMA Geometry ==
  ASSUME NEW a \in Arena, accepted(a)
  PROVE  /\ ArenaAddr[a] \in Nat \ {0} /\ ArenaDiv[a] \in Nat \ {0}
         /\ data_begin(a) \in Nat /\ ArenaAddr[a] < data_begin(a)
         /\ div_count(a) \in Nat \ {0}
         /\ div_count(a) * ArenaDiv[a] \in Nat
         /\ data_end(a) = data_begin(a) + div_count(a) * ArenaDiv[a]
         /\ Divs(a) \subseteq Nat /\ Divs(a) # {}
<1>1. /\ ArenaAddr[a] \in Nat \ {0} /\ ArenaDiv[a] \in Nat \ {0}
      /\ ArenaSize[a] \in Nat /\ ArenaSize[a] > HeaderSize + ArenaDiv[a]
      /\ HeaderSize \in Nat \ {0} /\ DataAlign \in Nat \ {0}
  BY ArenaAssumption DEF accepted
<1>2. max_divs(a) \in Nat \ {0}
  <2> DEFINE v == ArenaSize[a] - HeaderSize
             d == ArenaDiv[a] + 1
             q == v \div d
  <2>1. v \in Nat /\ d \in Nat \ {0} /\ d <= v
    BY <1>1
  <2>2. q \in Nat /\ v < d * q + d
    <3> HIDE DEF v, d
    <3> QED
      BY <2>1, DivBounds, DivNat
  <2>3. q # 0
    <3> SUFFICES ASSUME q = 0 PROVE FALSE
      OBVIOUS
    <3>1. d * 0 = 0
      BY <2>1
    <3> QED
      BY <2>1, <2>2, <3>1
  <2> QED
    BY <2>2, <2>3 DEF max_divs
<1>3. bitmap_base(a) \in Nat /\ ArenaAddr[a] < bitmap_base(a)
  BY <1>1 DEF bitmap_base
<1>4. data_begin(a) \in Nat /\ bitmap_base(a) + max_divs(a) <= data_begin(a)
  BY <1>1, <1>2, <1>3, AlignTo DEF data_begin
<1>5. div_count(a) \in Nat \ {0}
  BY <1>2, <1>3, <1>4 DEF div_count
<1>6. div_count(a) * ArenaDiv[a] \in Nat
  BY <1>1, <1>5, Products
<1>7. Divs(a) \subseteq Nat /\ 0 \in Divs(a)
  BY <1>5 DEF Divs
<1> QED
  BY <1>1, <1>2, <1>3, <1>4, <1>5, <1>6, <1>7 DEF data_end

\* The bytes of a division are those bytes of the block whose division it is.
LEMMA DivisionBytes ==
  ASSUME NEW a \in Arena, accepted(a), NEW i \in Divs(a), NEW b \in Int
  PROVE  b \in div_addr(a, i) .. div_addr(a, i) + ArenaDiv[a] - 1
           <=> contains(a, b) /\ division(a, b) = i
<1> DEFINE d == ArenaDiv[a]
           o == b - data_begin(a)
<1>1. /\ d \in Nat \ {0} /\ data_begin(a) \in Nat /\ div_count(a) \in Nat \ {0}
      /\ data_end(a) = data_begin(a) + div_count(a) * d /\ i \in Nat
  BY Geometry
<1>2. /\ i * d \in Nat /\ div_count(a) * d \in Nat
      /\ i + 1 \in Nat /\ (i + 1) * d = i * d + d
  BY <1>1, Products
<1>3. i * d + d <= div_count(a) * d
  <2>1. i + 1 <= div_count(a)
    BY <1>1 DEF Divs
  <2>2. i + 1 < div_count(a) => (i + 1) * d < div_count(a) * d
    BY <1>1, <1>2, Products
  <2> QED
    BY <1>1, <1>2, <2>1, <2>2
<1>4. div_addr(a, i) = data_begin(a) + i * d
  BY DEF div_addr
<1>5. CASE o \in Nat
  <2>1. division(a, b) = i <=> i * d <= o /\ o < i * d + d
    BY <1>1, <1>5, QuotientIs DEF division
  <2> DEFINE lo == i * d
             hi == div_count(a) * d
  <2>2. /\ d \in Nat /\ ArenaDiv[a] = d /\ data_begin(a) \in Nat /\ lo \in Nat /\ hi \in Nat
        /\ data_end(a) = data_begin(a) + hi /\ div_addr(a, i) = data_begin(a) + lo
        /\ lo + d <= hi
        /\ division(a, b) = i <=> lo <= b - data_begin(a) /\ b - data_begin(a) < lo + d
    BY <1>1, <1>2, <1>3, <1>4, <2>1
  <2> HIDE DEF d, lo, hi
  <2> QED
    BY <2>2 DEF contains
<1>6. CASE o \notin Nat
  <2>1. b < data_begin(a)
    BY <1>1, <1>6
  <2> HIDE DEF d
  <2> QED
    BY <1>1, <1>2, <1>4, <2>1 DEF contains
<1> QED
  BY <1>5, <1>6

\* Every byte of a block belongs to one of its divisions.
LEMMA DivisionExists ==
  ASSUME NEW a \in Arena, accepted(a), NEW b \in Int, contains(a, b)
  PROVE  division(a, b) \in Divs(a)
<1> DEFINE d == ArenaDiv[a]
           o == b - data_begin(a)
           i == division(a, b)
<1>1. /\ d \in Nat \ {0} /\ data_begin(a) \in Nat /\ div_count(a) \in Nat \ {0}
      /\ data_end(a) = data_begin(a) + div_count(a) * d
  BY Geometry
<1>2. div_count(a) * d \in Nat
  BY <1>1, Products
<1>3. o \in Nat /\ o < div_count(a) * d
  BY <1>1, <1>2 DEF contains
<1>4. i \in Nat /\ d * i <= o
  BY <1>1, <1>3, DivBounds, DivNat DEF division
<1> HIDE DEF i, d
<1>5. i * d <= o /\ i * d \in Nat
  BY <1>1, <1>4, Products
<1>6. i * d < div_count(a) * d
  BY <1>2, <1>3, <1>5
<1>7. i < div_count(a)
  BY <1>1, <1>4, <1>6, Products
<1> QED
  BY <1>1, <1>4, <1>7 DEF Divs, i

\* A byte lies in one block at most, and in none of the metadata.
LEMMA OneBlock ==
  ASSUME NEW a \in Arena, accepted(a), NEW c \in Arena, accepted(c),
         NEW b \in Int, contains(a, b)
  PROVE  (contains(c, b) => a = c) /\ b \notin Metadata(c)
<1>1. /\ ArenaAddr[a] \in Nat /\ data_begin(a) \in Nat /\ ArenaAddr[a] < data_begin(a)
      /\ data_end(a) \in Nat
  BY Geometry
<1>2. /\ ArenaAddr[c] \in Nat /\ data_begin(c) \in Nat /\ ArenaAddr[c] < data_begin(c)
      /\ data_end(c) \in Nat /\ data_begin(c) <= data_end(c)
  BY Geometry
<1>3. b \in ArenaAddr[a] .. data_end(a) - 1
  BY <1>1 DEF contains
<1>4. contains(c, b) \/ b \in Metadata(c) => b \in ArenaAddr[c] .. data_end(c) - 1
  BY <1>2 DEF contains, Metadata
<1>5. a # c => b \notin ArenaAddr[c] .. data_end(c) - 1
  BY <1>3, ApartAssumption
<1>6. b \notin Metadata(a)
  BY <1>1 DEF contains, Metadata
<1> QED
  BY <1>4, <1>5, <1>6

-----------------------------------------------------------------------------
(* The inductive invariant.                                                *)

Unused(a) == {i \in Divs(a) : ids[a][i] = 0}

\* The shape of the header list and of the metadata, whatever the ids are.
Shape ==
  /\ list \in Seq(Arena) /\ IsFiniteSet(linked) /\ Len(list) = Cardinality(linked)
  /\ \A a \in linked : accepted(a)
  /\ ids = [a \in linked |-> ids[a]]
  /\ \A a \in linked : ids[a] \in [Divs(a) -> 0 .. MaxId]
  /\ remaining \in [linked -> Nat]
  /\ last_id \in 0 .. MaxId /\ ret \in Nat /\ allocs \in 0 .. AllocBudget
  /\ panicked \in {"no", "Heap initialization failed", "missaligned", "Double free",
                   "Out of memory"}
  /\ \A r \in live : r.a \in linked /\ r.start \in Divs(r.a) /\ r.n \in Nat \ {0}

\* No id has been given out twice.
IdsFresh == allocs <= MaxId

\* While ids are fresh, one id stands for one allocation, whose divisions are
\* those that carry it.
Owned ==
  /\ last_id = allocs
  /\ NoSpuriousDoubleFree
  /\ \A r \in live : Cells(r) \subseteq Divs(r.a)
  /\ CellsMatchLive
  /\ \A r \in live : ids[r.a][r.start] <= last_id
  /\ \A q, r \in live : ids[q.a][q.start] = ids[r.a][r.start] => q = r

HeapInv == Shape /\ RemainingExact /\ (IdsFresh => Owned)

LEMMA LinkedBlocks ==
  ASSUME Shape
  PROVE  /\ linked \subseteq Arena
         /\ \A k \in 1 .. Len(list) : list[k] \in linked
<1>1. \A k \in 1 .. Len(list) : list[k] \in Arena
  BY ElementOfSeq DEF Shape
<1> QED
  BY <1>1 DEF linked

LEMMA Scalars ==
  ASSUME Shape
  PROVE  /\ last_id \in Nat /\ last_id <= MaxId /\ MaxId \in Nat \ {0}
         /\ allocs \in Nat /\ allocs <= AllocBudget /\ AllocBudget \in Nat
         /\ ret \in Nat
<1>1. last_id \in 0 .. MaxId /\ allocs \in 0 .. AllocBudget /\ ret \in Nat
  BY DEF Shape
<1> QED
  BY <1>1, BoundsAssumption

\* Two live allocations that share a division are the same.
LEMMA CellsApart ==
  ASSUME Owned, NEW q \in live, NEW r \in live, q.a = r.a,
         NEW i \in Cells(q), i \in Cells(r)
  PROVE  q = r
  BY DEF Owned, CellsMatchLive

\* A live allocation's divisions are marked.
LEMMA LiveIsMarked ==
  ASSUME Shape, Owned, NEW r \in live, NEW i \in Cells(r)
  PROVE  /\ i \in Divs(r.a) /\ r.a \in linked /\ ids[r.a][i] # 0
         /\ ids[r.a][i] = ids[r.a][r.start] /\ ids[r.a][r.start] \in 1 .. last_id
<1>1. i \in Divs(r.a) /\ r.a \in linked /\ r.start \in Divs(r.a)
  BY DEF Shape, Owned
<1>2. ids[r.a][i] # 0 /\ ids[r.a][i] = ids[r.a][r.start]
  BY <1>1 DEF Owned, CellsMatchLive
<1>3. ids[r.a][r.start] \in Nat /\ last_id \in Nat /\ ids[r.a][r.start] <= last_id
  <2>1. ids[r.a] \in [Divs(r.a) -> 0 .. MaxId] /\ last_id \in 0 .. MaxId /\ MaxId \in Nat
    BY <1>1, BoundsAssumption DEF Shape
  <2>2. ids[r.a][r.start] <= last_id
    BY DEF Owned
  <2> QED
    BY <1>1, <2>1, <2>2
<1> QED
  BY <1>1, <1>2, <1>3

\* Where free finds the pointer of a live allocation: at its first division,
\* which is marked, and its run of equal ids is the allocation.
LEMMA FreeFindsIt ==
  ASSUME Shape, Owned, NEW r \in live, NEW a \in linked, contains(a, pointer(r))
  PROVE  /\ a = r.a /\ division(a, pointer(r)) = r.start
         /\ ids[a][r.start] # 0
         /\ id_run(a, r.start) = Cells(r)
         /\ {q \in live : pointer(q) # pointer(r)} = live \ {r}
<1>1. \A q \in live :
        /\ q.a \in Arena /\ accepted(q.a) /\ q.a \in linked
        /\ q.start \in Divs(q.a) /\ q.start \in Nat /\ q.n \in Nat \ {0}
        /\ pointer(q) \in Int /\ q.start \in Cells(q)
        /\ contains(q.a, pointer(q)) /\ division(q.a, pointer(q)) = q.start
  <2> TAKE q \in live
  <2>1. /\ q.a \in Arena /\ accepted(q.a) /\ q.a \in linked
        /\ q.start \in Divs(q.a) /\ q.n \in Nat \ {0}
    BY LinkedBlocks DEF Shape
  <2>2. q.start \in Nat /\ ArenaDiv[q.a] \in Nat \ {0} /\ data_begin(q.a) \in Nat
    BY <2>1, Geometry
  <2>3. pointer(q) \in Nat
    BY <2>2, Products DEF pointer, div_addr
  <2>4. pointer(q) \in div_addr(q.a, q.start) .. div_addr(q.a, q.start) + ArenaDiv[q.a] - 1
    BY <2>2, <2>3 DEF pointer
  <2>5. contains(q.a, pointer(q)) /\ division(q.a, pointer(q)) = q.start
    BY <2>1, <2>3, <2>4, DivisionBytes
  <2>6. q.start \in Cells(q)
    BY <2>1, <2>2 DEF Cells
  <2> QED
    BY <2>1, <2>2, <2>3, <2>5, <2>6
<1>2. \A q \in live, c \in linked : contains(c, pointer(q)) => c = q.a
  <2> TAKE q \in live, c \in linked
  <2>1. c \in Arena /\ accepted(c)
    BY LinkedBlocks DEF Shape
  <2> QED
    BY <1>1, <2>1, OneBlock
<1>3. a = r.a /\ division(a, pointer(r)) = r.start
  BY <1>1, <1>2
<1>4. ids[a][r.start] # 0
  BY <1>1, <1>3, LiveIsMarked
<1>5. ASSUME NEW q \in live, pointer(q) = pointer(r)  PROVE q = r
  <2>1. q.a = r.a /\ q.start = r.start
    BY <1>1, <1>2, <1>5
  <2> QED
    BY <1>1, <2>1, CellsApart
<1>6. ASSUME NEW j \in Cells(r)  PROVE j \in id_run(a, r.start)
  <2>1. j \in Divs(a) /\ j \in Nat /\ j >= r.start
    <3>1. j \in Divs(a)
      BY <1>3, <1>6, LiveIsMarked
    <3> QED
      BY <1>1, <1>3, <1>6, <3>1, Geometry DEF Cells
  <2>2. \A k \in r.start .. j : k \in Cells(r)
    BY <1>1, <1>6 DEF Cells
  <2>3. \A k \in r.start .. j : ids[a][k] = ids[a][r.start]
    BY <1>3, <2>2, LiveIsMarked
  <2> QED
    BY <2>1, <2>3 DEF id_run
<1>7. ASSUME NEW j \in id_run(a, r.start)  PROVE j \in Cells(r)
  <2>1. j \in Divs(a) /\ j \in r.start .. j
    BY <1>1, <1>3, Geometry DEF id_run
  <2>2. ids[a][j] = ids[a][r.start]
    BY <2>1 DEF id_run
  <2>3. PICK q \in live : q.a = a /\ j \in Cells(q)
    BY <1>3, <1>4, <2>1, <2>2 DEF Owned, CellsMatchLive
  <2>4. q = r
    BY <1>3, <2>2, <2>3, LiveIsMarked DEF Owned
  <2> QED
    BY <2>3, <2>4
<1> QED
  BY <1>3, <1>4, <1>5, <1>6, <1>7

-----------------------------------------------------------------------------
(* Every operation keeps the invariant.                                    *)

\* The unused divisions of a block are finitely many, and taking away or
\* giving back n of them changes their number by n.
LEMMA UnusedCounts ==
  ASSUME Shape, NEW a \in linked
  PROVE  /\ IsFiniteSet(Divs(a)) /\ IsFiniteSet(Unused(a))
         /\ Cardinality(Unused(a)) \in Nat
         /\ \A C \in SUBSET Unused(a) :
              /\ IsFiniteSet(C) /\ Cardinality(C) \in Nat
              /\ Cardinality(Unused(a) \ C) = Cardinality(Unused(a)) - Cardinality(C)
         /\ \A C \in SUBSET Divs(a) :
              C \cap Unused(a) = {} =>
                /\ IsFiniteSet(C) /\ Cardinality(C) \in Nat
                /\ Cardinality(Unused(a) \cup C) = Cardinality(Unused(a)) + Cardinality(C)
<1>1. a \in Arena /\ accepted(a)
  BY LinkedBlocks DEF Shape
<1>2. IsFiniteSet(Divs(a))
  BY <1>1, Geometry, FS_Interval DEF Divs
<1>3. Unused(a) \subseteq Divs(a)
  BY DEF Unused
<1>4. IsFiniteSet(Unused(a)) /\ Cardinality(Unused(a)) \in Nat
  BY <1>2, <1>3, FS_Subset, FS_CardinalityType
<1>5. ASSUME NEW C \in SUBSET Unused(a)
      PROVE  /\ IsFiniteSet(C) /\ Cardinality(C) \in Nat
             /\ Cardinality(Unused(a) \ C) = Cardinality(Unused(a)) - Cardinality(C)
  <2>1. IsFiniteSet(C) /\ Cardinality(C) \in Nat
    BY <1>4, FS_Subset, FS_CardinalityType
  <2>2. Unused(a) \cap C = C
    OBVIOUS
  <2> QED
    BY <1>4, <2>1, <2>2, FS_Difference
<1>6. ASSUME NEW C \in SUBSET Divs(a), C \cap Unused(a) = {}
      PROVE  /\ IsFiniteSet(C) /\ Cardinality(C) \in Nat
             /\ Cardinality(Unused(a) \cup C) = Cardinality(Unused(a)) + Cardinality(C)
  <2>1. IsFiniteSet(C) /\ Cardinality(C) \in Nat
    BY <1>2, FS_Subset, FS_CardinalityType
  <2>2. Unused(a) \cap C = {}
    BY <1>6
  <2>3. Cardinality(Unused(a) \cup C)
          = Cardinality(Unused(a)) + Cardinality(C) - Cardinality({})
    BY <1>4, <2>1, <2>2, FS_Union
  <2> QED
    BY <1>4, <2>1, <2>3, FS_EmptySet
<1> QED
  BY <1>2, <1>4, <1>5, <1>6

\* An allocation needs a division at least, and no fewer than hold its bytes.
LEMMA NeededDivs ==
  ASSUME NEW d \in Nat \ {0}, NEW size \in Nat
  PROVE  LET n == oiz((size + d - 1) \div d)
         IN  n \in Nat \ {0} /\ size <= n * d
<1> DEFINE q == (size + d - 1) \div d
<1>1. q \in Nat /\ size + d - 1 < d * q + d
  BY DivBounds, DivNat
<1> HIDE DEF q
<1>2. d * q = q * d /\ q * d \in Nat
  BY <1>1, Products
<1>3. size <= q * d
  BY <1>1, <1>2
<1>4. CASE q = 0
  <2>1. 0 * d = 0 /\ 1 * d = d
    OBVIOUS
  <2> QED
    BY <1>3, <1>4, <2>1 DEF q, oiz
<1>5. CASE q # 0
  BY <1>1, <1>3, <1>5 DEF q, oiz
<1> QED
  BY <1>4, <1>5

\* A new block: all of its divisions are unused.
LEMMA LinkKeeps ==
  ASSUME HeapInv, NEW a \in Arena, a \notin linked, accepted(a), link(a)
  PROVE  HeapInv'
<1>1. /\ list' = <<a>> \o list
      /\ ids' = [b \in linked \cup {a} |->
                   IF b = a THEN [i \in Divs(a) |-> 0] ELSE ids[b]]
      /\ remaining' = [b \in linked \cup {a} |->
                   IF b = a THEN div_count(a) * ArenaDiv[a] ELSE remaining[b]]
      /\ UNCHANGED <<last_id, ret, panicked, live, allocs>>
  BY DEF link
<1>2. /\ list \in Seq(Arena) /\ IsFiniteSet(linked) /\ Len(list) = Cardinality(linked)
      /\ \A b \in linked : accepted(b) /\ ids[b] \in [Divs(b) -> 0 .. MaxId]
      /\ remaining \in [linked -> Nat]
  BY DEF HeapInv, Shape
<1>3. linked' = linked \cup {a} /\ list' \in Seq(Arena) /\ Len(list') = Len(list) + 1
  <2>1. <<a>> \in Seq(Arena) /\ Len(<<a>>) = 1
    OBVIOUS
  <2>2. /\ list' \in Seq(Arena) /\ Len(list') = 1 + Len(list)
        /\ \A k \in 1 .. 1 + Len(list) :
             list'[k] = IF k <= 1 THEN <<a>>[k] ELSE list[k - 1]
    BY <1>1, <1>2, <2>1, ConcatProperties
  <2>3. Len(list) \in Nat
    BY <1>2, LenProperties
  <2>4. \A k \in 1 .. Len(list) : list'[k + 1] = list[k]
    BY <2>2, <2>3
  <2>5. list'[1] = a
    BY <2>2, <2>3
  <2>6. \A k \in 1 .. 1 + Len(list) : k = 1 \/ k - 1 \in 1 .. Len(list)
    BY <2>3
  <2>7. ASSUME NEW b PROVE b \in linked' <=> b \in linked \cup {a}
    <3>1. ASSUME b \in linked' PROVE b \in linked \cup {a}
      <4>1. PICK k \in 1 .. 1 + Len(list) : b = list'[k]
        BY <2>2, <3>1 DEF linked
      <4> QED
        BY <2>2, <2>3, <2>5, <2>6, <4>1 DEF linked
    <3>2. ASSUME b \in linked PROVE b \in linked'
      <4>1. PICK k \in 1 .. Len(list) : b = list[k]
        BY <3>2 DEF linked
      <4>2. k + 1 \in 1 .. Len(list')
        BY <2>2, <2>3
      <4> QED
        BY <2>4, <4>1, <4>2 DEF linked
    <3>3. a \in linked'
      <4>1. 1 \in 1 .. Len(list')
        BY <2>2, <2>3
      <4> QED
        BY <2>5, <4>1 DEF linked
    <3> QED
      BY <3>1, <3>2, <3>3
  <2> QED
    BY <2>2, <2>3, <2>7
<1>4. IsFiniteSet(linked') /\ Len(list') = Cardinality(linked')
  BY <1>2, <1>3, FS_AddElement
<1>5. ids'[a] = [i \in Divs(a) |-> 0] /\ remaining'[a] = div_count(a) * ArenaDiv[a]
  BY <1>1
<1>6. \A b \in linked : ids'[b] = ids[b] /\ remaining'[b] = remaining[b]
  BY <1>1
<1>7. Shape'
  <2>1. \A b \in linked' : accepted(b) /\ ids'[b] \in [Divs(b) -> 0 .. MaxId]
    BY <1>2, <1>3, <1>5, <1>6, BoundsAssumption
  <2>2. ids' = [b \in linked' |-> ids'[b]]
    BY <1>1, <1>3
  <2>3. remaining' \in [linked' -> Nat]
    BY <1>1, <1>2, <1>3, Geometry
  <2>4. \A r \in live' : r.a \in linked' /\ r.start \in Divs(r.a) /\ r.n \in Nat \ {0}
    BY <1>1, <1>3 DEF HeapInv, Shape
  <2>5. /\ last_id' \in 0 .. MaxId /\ ret' \in Nat /\ allocs' \in 0 .. AllocBudget
        /\ panicked' \in {"no", "Heap initialization failed", "missaligned",
                          "Double free", "Out of memory"}
    BY <1>1 DEF HeapInv, Shape
  <2> QED
    BY <1>3, <1>4, <2>1, <2>2, <2>3, <2>4, <2>5 DEF Shape
<1>8. RemainingExact'
  <2> SUFFICES ASSUME NEW b \in linked'
               PROVE  remaining'[b] = ArenaDiv[b] * Cardinality({i \in Divs(b) : ids'[b][i] = 0})
    BY DEF RemainingExact
  <2>1. CASE b = a
    <3>1. {i \in Divs(a) : ids'[a][i] = 0} = Divs(a)
      BY <1>5
    <3>2. /\ div_count(a) \in Nat \ {0} /\ ArenaDiv[a] \in Nat \ {0}
      BY Geometry
    <3>3. Cardinality(Divs(a)) = div_count(a)
      <4>1. 0 \in Int /\ div_count(a) - 1 \in Int /\ ~ (0 > div_count(a) - 1)
        BY <3>2
      <4>2. Cardinality(0 .. div_count(a) - 1) = div_count(a) - 1 - 0 + 1
        BY <4>1, FS_Interval
      <4> QED
        BY <3>2, <4>2 DEF Divs
    <3>4. ArenaDiv[a] * div_count(a) = div_count(a) * ArenaDiv[a]
      BY <3>2, Products
    <3> QED
      BY <1>5, <2>1, <3>1, <3>3, <3>4
  <2>2. CASE b # a
    BY <1>3, <1>6, <2>2 DEF HeapInv, RemainingExact
  <2> QED
    BY <2>1, <2>2
<1>9. ASSUME IdsFresh'  PROVE Owned'
  <2>1. Owned
    BY <1>1, <1>9 DEF HeapInv, IdsFresh
  <2>2. \A r \in live : r.a \in linked /\ r.a # a /\ ids'[r.a] = ids[r.a]
    BY <1>6 DEF HeapInv, Shape
  <2>3. CellsMatchLive'
    <3>1. ASSUME NEW b \in linked', NEW i \in Divs(b)
          PROVE  ids'[b][i] # 0 <=> \E r \in live : r.a = b /\ i \in Cells(r)
      <4>1. CASE b = a
        BY <1>5, <2>2, <4>1
      <4>2. CASE b # a
        BY <1>3, <1>6, <2>1, <4>2 DEF Owned, CellsMatchLive
      <4> QED
        BY <4>1, <4>2
    <3>2. \A r \in live : \A i \in Cells(r) : ids'[r.a][i] = ids'[r.a][r.start]
      BY <2>1, <2>2 DEF Owned, CellsMatchLive
    <3>3. live' = live
      BY <1>1
    <3> QED
      BY <3>1, <3>2, <3>3 DEF CellsMatchLive, Cells
  <2> QED
    BY <1>1, <2>1, <2>2, <2>3 DEF Owned, NoSpuriousDoubleFree, Cells
<1> QED
  BY <1>7, <1>8, <1>9 DEF HeapInv

\* Writing an id into some divisions of one block.
LEMMA WriteIds ==
  ASSUME Shape, NEW a \in linked, NEW C \in SUBSET Divs(a), NEW v \in 0 .. MaxId,
         list' = list,
         ids' = [ids EXCEPT ![a] = [i \in Divs(a) |-> IF i \in C THEN v ELSE @[i]]]
  PROVE  /\ linked' = linked
         /\ ids' = [b \in linked' |-> ids'[b]]
         /\ \A b \in linked' : ids'[b] \in [Divs(b) -> 0 .. MaxId]
         /\ \A b \in linked : b # a => ids'[b] = ids[b]
         /\ \A i \in Divs(a) : ids'[a][i] = IF i \in C THEN v ELSE ids[a][i]
<1>1. linked' = linked
  BY DEF linked
<1>2. /\ ids = [b \in linked |-> ids[b]]
      /\ \A b \in linked : ids[b] \in [Divs(b) -> 0 .. MaxId]
  BY DEF Shape
<1>3. DOMAIN ids = linked
  BY <1>2
<1>4. ids' = [b \in linked |->
                IF b = a THEN [i \in Divs(a) |-> IF i \in C THEN v ELSE ids[a][i]]
                         ELSE ids[b]]
  BY <1>3
<1>5. ids'[a] = [i \in Divs(a) |-> IF i \in C THEN v ELSE ids[a][i]]
  BY <1>4
<1>6. \A b \in linked : b # a => ids'[b] = ids[b]
  BY <1>4
<1>7. ids'[a] \in [Divs(a) -> 0 .. MaxId]
  BY <1>2, <1>5
<1>8. \A b \in linked : ids'[b] \in [Divs(b) -> 0 .. MaxId]
  BY <1>2, <1>6, <1>7
<1> QED
  BY <1>1, <1>4, <1>5, <1>6, <1>8

\* A successful scan returns unused divisions of the block, as many as needed.
LEMMA HitIsUnused ==
  ASSUME Shape, NEW a \in linked, NEW size \in Nat, NEW align,
         NEW s \in hits(a, size, align)
  PROVE  LET n == needed_divs(a, size)
         IN  /\ n \in Nat \ {0} /\ size <= n * ArenaDiv[a]
             /\ s \in Divs(a) /\ s \in Nat
             /\ s .. s + n - 1 \subseteq Unused(a) /\ s \in s .. s + n - 1
             /\ Cardinality(s .. s + n - 1) = n
             /\ div_addr(a, s) \in Nat /\ div_addr(a, s) % align = 0
<1> DEFINE n == needed_divs(a, size)
<1>1. /\ ArenaDiv[a] \in Nat \ {0} /\ Divs(a) \subseteq Nat
      /\ data_begin(a) \in Nat /\ div_count(a) \in Nat
  BY LinkedBlocks, Geometry DEF Shape
<1>2. n \in Nat \ {0} /\ size <= n * ArenaDiv[a]
  BY <1>1, NeededDivs DEF needed_divs
<1>3. s \in Divs(a) /\ fits_at(a, s, n, align)
  BY DEF hits
<1> HIDE DEF n
<1>4. /\ s + n - 1 \in Divs(a) /\ \A i \in s .. s + n - 1 : ids[a][i] = 0
      /\ div_addr(a, s) % align = 0
  BY <1>3 DEF fits_at
<1>5. s \in Nat /\ s \in s .. s + n - 1
  BY <1>1, <1>2, <1>3
<1>6. s .. s + n - 1 \subseteq Divs(a)
  BY <1>1, <1>3, <1>4, <1>5 DEF Divs
<1>7. Cardinality(s .. s + n - 1) = n
  <2> DEFINE t == s + n - 1
  <2>1. s \in Int /\ t \in Int /\ ~ (s > t) /\ t - s + 1 = n
    BY <1>2, <1>5
  <2> HIDE DEF t
  <2>2. Cardinality(s .. t) = t - s + 1
    BY <2>1, FS_Interval
  <2> QED
    BY <2>1, <2>2 DEF t
<1>8. div_addr(a, s) \in Nat
  BY <1>1, <1>5, Products DEF div_addr
<1> QED
  BY <1>2, <1>3, <1>4, <1>5, <1>6, <1>7, <1>8 DEF Unused, n

\* An allocation: the divisions it takes were unused, and its id is new.
LEMMA TakeKeeps ==
  ASSUME HeapInv, NEW a \in linked, NEW size \in Nat, NEW align,
         NEW s \in hits(a, size, align), allocs < AllocBudget,
         take(a, s, needed_divs(a, size))
  PROVE  HeapInv'
<1> DEFINE n == needed_divs(a, size)
           C == s .. s + n - 1
           new == [a |-> a, start |-> s, n |-> n]
<1>1. Shape /\ RemainingExact
  BY DEF HeapInv
<1>2. /\ n \in Nat \ {0} /\ s \in Divs(a) /\ s \in Nat
      /\ C \subseteq Unused(a) /\ s \in C /\ Cardinality(C) = n
      /\ div_addr(a, s) \in Nat
  BY <1>1, HitIsUnused
<1>3. C \subseteq Divs(a)
  BY <1>2 DEF Unused
<1> HIDE DEF n
<1>4. /\ ids' = [ids EXCEPT ![a] = [i \in Divs(a) |-> IF i \in C THEN next_id ELSE @[i]]]
      /\ remaining' = [remaining EXCEPT ![a] = @ - n * ArenaDiv[a]]
      /\ last_id' = next_id /\ ret' = div_addr(a, s)
      /\ live' = live \cup {new} /\ allocs' = allocs + 1
      /\ list' = list /\ panicked' = panicked
  BY DEF take, n
<1>5. next_id \in 1 .. MaxId /\ allocs \in Nat /\ AllocBudget \in Nat
  BY <1>1, Scalars DEF next_id
<1>6. /\ linked' = linked
      /\ ids' = [b \in linked' |-> ids'[b]]
      /\ \A b \in linked' : ids'[b] \in [Divs(b) -> 0 .. MaxId]
      /\ \A b \in linked : b # a => ids'[b] = ids[b]
      /\ \A i \in Divs(a) : ids'[a][i] = IF i \in C THEN next_id ELSE ids[a][i]
  <2>1. next_id \in 0 .. MaxId
    BY <1>5
  <2> QED
    BY <1>1, <1>3, <1>4, <2>1, WriteIds
<1>7. /\ Cardinality(Unused(a)) \in Nat /\ n <= Cardinality(Unused(a))
      /\ Cardinality(Unused(a) \ C) = Cardinality(Unused(a)) - n
  <2>1. /\ IsFiniteSet(Unused(a)) /\ Cardinality(Unused(a)) \in Nat
        /\ Cardinality(Unused(a) \ C) = Cardinality(Unused(a)) - n
    BY <1>1, <1>2, UnusedCounts
  <2>2. Cardinality(C) <= Cardinality(Unused(a))
    BY <1>2, <2>1, FS_Subset
  <2> QED
    BY <1>2, <2>1, <2>2
<1>8. remaining[a] - n * ArenaDiv[a] = ArenaDiv[a] * (Cardinality(Unused(a)) - n)
      /\ ArenaDiv[a] * (Cardinality(Unused(a)) - n) \in Nat
  <2> DEFINE u == Cardinality(Unused(a))
             d == ArenaDiv[a]
  <2>1. d \in Nat \ {0}
    BY <1>1, LinkedBlocks, Geometry DEF Shape
  <2>2. remaining[a] = d * u
    BY <1>1 DEF RemainingExact, Unused
  <2>3. u - n \in Nat /\ n + (u - n) = u
    BY <1>2, <1>7
  <2> HIDE DEF u, d
  <2>4. /\ n * d \in Nat /\ (u - n) * d \in Nat
        /\ (n + (u - n)) * d = n * d + (u - n) * d
        /\ d * u = u * d /\ d * (u - n) = (u - n) * d
    BY <1>2, <1>7, <2>1, <2>3, Products DEF u
  <2> QED
    BY <2>2, <2>3, <2>4 DEF u, d
<1>9. remaining' = [b \in linked |-> IF b = a THEN ArenaDiv[a] * (Cardinality(Unused(a)) - n)
                                            ELSE remaining[b]]
  BY <1>1, <1>4, <1>8 DEF Shape
<1>10. Shape'
  <2>1. remaining' \in [linked' -> Nat]
    BY <1>1, <1>6, <1>8, <1>9 DEF Shape
  <2>2. \A r \in live' : r.a \in linked' /\ r.start \in Divs(r.a) /\ r.n \in Nat \ {0}
    <3>1. \A r \in live : r.a \in linked /\ r.start \in Divs(r.a) /\ r.n \in Nat \ {0}
      BY <1>1 DEF Shape
    <3>2. new.a = a /\ new.start = s /\ new.n = n
      OBVIOUS
    <3> HIDE DEF new
    <3> QED
      BY <1>2, <1>4, <1>6, <3>1, <3>2
  <2>3. allocs' \in 0 .. AllocBudget /\ last_id' \in 0 .. MaxId /\ ret' \in Nat
    BY <1>2, <1>4, <1>5, Scalars
  <2> QED
    BY <1>1, <1>4, <1>6, <2>1, <2>2, <2>3 DEF Shape
<1>11. RemainingExact'
  <2> SUFFICES ASSUME NEW b \in linked
               PROVE  remaining'[b] = ArenaDiv[b] * Cardinality({i \in Divs(b) : ids'[b][i] = 0})
    BY <1>6 DEF RemainingExact
  <2>1. CASE b = a
    <3>1. {i \in Divs(a) : ids'[a][i] = 0} = Unused(a) \ C
      BY <1>5, <1>6 DEF Unused
    <3> QED
      BY <1>7, <1>9, <2>1, <3>1
  <2>2. CASE b # a
    BY <1>1, <1>6, <1>9, <2>2 DEF RemainingExact
  <2> QED
    BY <2>1, <2>2
<1>12. ASSUME IdsFresh'  PROVE Owned'
  <2>1. Owned /\ next_id = last_id + 1 /\ last_id = allocs /\ last_id \in Nat
    <3>1. allocs \in Nat /\ allocs < MaxId /\ last_id \in Nat /\ MaxId \in Nat
      BY <1>1, <1>4, <1>12, Scalars DEF IdsFresh
    <3>2. Owned
      BY <3>1 DEF HeapInv, IdsFresh
    <3>3. last_id = allocs
      BY <3>2 DEF Owned
    <3> QED
      BY <3>1, <3>2, <3>3 DEF next_id
  <2>2. \A r \in live : \A i \in Cells(r) :
          /\ i \in Divs(r.a) /\ r.a \in linked /\ ids'[r.a][i] = ids[r.a][i]
          /\ ids[r.a][i] \in 1 .. last_id /\ ids[r.a][i] = ids[r.a][r.start]
          /\ ~ (r.a = a /\ i \in C)
    <3> TAKE r \in live
    <3> TAKE i \in Cells(r)
    <3>1. /\ i \in Divs(r.a) /\ r.a \in linked /\ ids[r.a][i] # 0
          /\ ids[r.a][i] = ids[r.a][r.start] /\ ids[r.a][r.start] \in 1 .. last_id
      BY <1>1, <2>1, LiveIsMarked
    <3>2. ~ (r.a = a /\ i \in C)
      BY <1>2, <3>1 DEF Unused
    <3> QED
      BY <1>6, <3>1, <3>2
  <2>3. \A r \in live : r.start \in Cells(r)
    <3> TAKE r \in live
    <3>1. r.a \in linked /\ r.start \in Divs(r.a) /\ r.n \in Nat \ {0}
      BY <1>1 DEF Shape
    <3>2. r.start \in Nat
      BY <1>1, <3>1, LinkedBlocks, Geometry DEF Shape
    <3> QED
      BY <3>1, <3>2 DEF Cells
  <2>4. Cells(new) = C /\ new.a = a /\ new.start = s
    BY DEF Cells
  <2>5. \A i \in C : ids'[a][i] = next_id
    BY <1>3, <1>6
  <2> HIDE DEF C, new
  <2>6. CellsMatchLive'
    <3>1. ASSUME NEW b \in linked, NEW i \in Divs(b)
          PROVE  ids'[b][i] # 0 <=> \E r \in live' : r.a = b /\ i \in Cells(r)
      <4>1. CASE b = a /\ i \in C
        <5>1. new \in live'
          BY <1>4
        <5>2. next_id # 0
          BY <1>5
        <5>3. ids'[a][i] = next_id
          BY <2>5, <4>1
        <5> QED
          BY <2>4, <4>1, <5>1, <5>2, <5>3
      <4>2. CASE ~ (b = a /\ i \in C)
        <5>1. ids'[b][i] = ids[b][i]
          BY <1>6, <4>2
        <5>2. ids[b][i] # 0 <=> \E r \in live : r.a = b /\ i \in Cells(r)
          BY <2>1 DEF Owned, CellsMatchLive
        <5> QED
          BY <1>4, <2>4, <4>2, <5>1, <5>2
      <4> QED
        BY <4>1, <4>2
    <3>2. ASSUME NEW r \in live', NEW i \in Cells(r)
          PROVE  ids'[r.a][i] = ids'[r.a][r.start]
      <4>1. CASE r \in live
        BY <2>2, <2>3, <4>1
      <4>2. CASE r = new
        BY <1>2, <2>4, <2>5, <3>2, <4>2
      <4> QED
        BY <1>4, <4>1, <4>2
    <3> QED
      BY <1>6, <3>1, <3>2 DEF CellsMatchLive, Cells
  <2>7. \A r \in live' : Cells(r) \subseteq Divs(r.a)
    BY <1>3, <1>4, <2>2, <2>4
  <2>8. ids'[new.a][new.start] = last_id + 1
    BY <1>2, <2>1, <2>4, <2>5
  <2>9. \A r \in live : ids'[r.a][r.start] = ids[r.a][r.start]
                        /\ ids[r.a][r.start] \in 1 .. last_id
    BY <2>2, <2>3
  <2>10. \A r \in live' : ids'[r.a][r.start] <= last_id'
    BY <1>4, <2>1, <2>8, <2>9
  <2>11. ASSUME NEW q \in live', NEW r \in live', ids'[q.a][q.start] = ids'[r.a][r.start]
         PROVE  q = r
    <3>1. q \in live /\ r \in live => q = r
      BY <2>1, <2>9, <2>11 DEF Owned
    <3>2. q \in live => r # new
      BY <2>1, <2>8, <2>9, <2>11
    <3>3. r \in live => q # new
      BY <2>1, <2>8, <2>9, <2>11
    <3> QED
      BY <1>4, <3>1, <3>2, <3>3
  <2>12. last_id' = allocs' /\ NoSpuriousDoubleFree'
    BY <1>4, <2>1 DEF Owned, NoSpuriousDoubleFree
  <2> QED
    BY <2>6, <2>7, <2>10, <2>11, <2>12 DEF Owned, Cells
<1> QED
  BY <1>10, <1>11, <1>12 DEF HeapInv

\* Clearing marked divisions of a block and charging them back.
LEMMA ReleaseKeeps ==
  ASSUME Shape, RemainingExact, NEW a \in linked, NEW run \in SUBSET Divs(a),
         \A j \in run : ids[a][j] # 0,
         release(a, run), live' \subseteq live,
         UNCHANGED <<list, last_id, ret, panicked, allocs>>
  PROVE  /\ Shape' /\ RemainingExact' /\ linked' = linked
         /\ \A b \in linked : b # a => ids'[b] = ids[b]
         /\ \A i \in Divs(a) : ids'[a][i] = IF i \in run THEN 0 ELSE ids[a][i]
<1>1. /\ ids' = [ids EXCEPT ![a] = [i \in Divs(a) |-> IF i \in run THEN 0 ELSE @[i]]]
      /\ remaining' = [remaining EXCEPT ![a] = @ + Cardinality(run) * ArenaDiv[a]]
  BY DEF release
<1>2. /\ linked' = linked
      /\ ids' = [b \in linked' |-> ids'[b]]
      /\ \A b \in linked' : ids'[b] \in [Divs(b) -> 0 .. MaxId]
      /\ \A b \in linked : b # a => ids'[b] = ids[b]
      /\ \A i \in Divs(a) : ids'[a][i] = IF i \in run THEN 0 ELSE ids[a][i]
  <2>1. 0 \in 0 .. MaxId
    BY BoundsAssumption
  <2> QED
    BY <1>1, <2>1, WriteIds
<1>3. /\ Cardinality(Unused(a)) \in Nat /\ Cardinality(run) \in Nat
      /\ Cardinality(Unused(a) \cup run) = Cardinality(Unused(a)) + Cardinality(run)
  <2>1. run \cap Unused(a) = {}
    BY DEF Unused
  <2> QED
    BY <2>1, UnusedCounts
<1>4. /\ remaining[a] + Cardinality(run) * ArenaDiv[a]
           = ArenaDiv[a] * (Cardinality(Unused(a)) + Cardinality(run))
      /\ ArenaDiv[a] * (Cardinality(Unused(a)) + Cardinality(run)) \in Nat
  <2> DEFINE u == Cardinality(Unused(a))
             c == Cardinality(run)
             d == ArenaDiv[a]
  <2>1. d \in Nat \ {0}
    BY LinkedBlocks, Geometry DEF Shape
  <2>2. remaining[a] = d * u
    BY DEF RemainingExact, Unused
  <2>3. u \in Nat /\ c \in Nat /\ u + c \in Nat
    BY <1>3
  <2> HIDE DEF u, c, d
  <2>4. /\ u * d \in Nat /\ c * d \in Nat /\ (u + c) * d = u * d + c * d
        /\ d * u = u * d /\ d * (u + c) = (u + c) * d
    BY <2>1, <2>3, Products
  <2> QED
    BY <2>2, <2>3, <2>4 DEF u, c, d
<1>5. remaining' = [b \in linked |->
        IF b = a THEN ArenaDiv[a] * (Cardinality(Unused(a)) + Cardinality(run))
                 ELSE remaining[b]]
  BY <1>1, <1>4 DEF Shape
<1>6. Shape'
  <2>1. remaining' \in [linked' -> Nat]
    BY <1>2, <1>4, <1>5 DEF Shape
  <2>2. \A r \in live' : r.a \in linked' /\ r.start \in Divs(r.a) /\ r.n \in Nat \ {0}
    BY <1>2 DEF Shape
  <2> QED
    BY <1>2, <2>1, <2>2 DEF Shape
<1>7. RemainingExact'
  <2> SUFFICES ASSUME NEW b \in linked
               PROVE  remaining'[b] = ArenaDiv[b] * Cardinality({i \in Divs(b) : ids'[b][i] = 0})
    BY <1>2 DEF RemainingExact
  <2>1. CASE b = a
    <3>1. {i \in Divs(a) : ids'[a][i] = 0} = Unused(a) \cup run
      BY <1>2 DEF Unused
    <3> QED
      BY <1>3, <1>5, <2>1, <3>1
  <2>2. CASE b # a
    BY <1>2, <1>5, <2>2 DEF RemainingExact
  <2> QED
    BY <2>1, <2>2
<1> QED
  BY <1>2, <1>6, <1>7

\* free of a pointer some block contains.
LEMMA FreeCases ==
  ASSUME Shape, NEW p \in Nat, free(p)
  PROVE  \E a \in linked :
           /\ contains(a, p)
           /\ IF ids[a][division(a, p)] = 0
                THEN panic("Double free")
                ELSE /\ release(a, id_run(a, division(a, p)))
                     /\ live' = {r \in live : pointer(r) # p}
                     /\ UNCHANGED <<list, last_id, ret, panicked, allocs>>
<1>1. PICK k \in 1 .. Len(list) :
        /\ contains(list[k], p)
        /\ IF ids[list[k]][division(list[k], p)] = 0
             THEN panic("Double free")
             ELSE /\ release(list[k], id_run(list[k], division(list[k], p)))
                  /\ live' = {r \in live : pointer(r) # p}
                  /\ UNCHANGED <<list, last_id, ret, panicked, allocs>>
  BY DEF free, division
<1> QED
  BY <1>1, LinkedBlocks

LEMMA PointerIsNat ==
  ASSUME Shape, NEW r \in live
  PROVE  pointer(r) \in Nat
<1>1. r.a \in Arena /\ accepted(r.a) /\ r.start \in Divs(r.a)
  BY LinkedBlocks DEF Shape
<1>2. r.start \in Nat /\ ArenaDiv[r.a] \in Nat \ {0} /\ data_begin(r.a) \in Nat
  BY <1>1, Geometry
<1> QED
  BY <1>2, Products DEF pointer, div_addr

\* While ids are fresh, free gives back the divisions of one allocation.
LEMMA FreeReleases ==
  ASSUME Shape, Owned, NEW r \in live, free(pointer(r))
  PROVE  /\ release(r.a, Cells(r)) /\ live' = live \ {r}
         /\ UNCHANGED <<list, last_id, ret, panicked, allocs>>
<1>1. PICK a \in linked :
        /\ contains(a, pointer(r))
        /\ IF ids[a][division(a, pointer(r))] = 0
             THEN panic("Double free")
             ELSE /\ release(a, id_run(a, division(a, pointer(r))))
                  /\ live' = {q \in live : pointer(q) # pointer(r)}
                  /\ UNCHANGED <<list, last_id, ret, panicked, allocs>>
  BY PointerIsNat, FreeCases
<1>2. /\ a = r.a /\ division(a, pointer(r)) = r.start /\ ids[a][r.start] # 0
      /\ id_run(a, r.start) = Cells(r)
      /\ {q \in live : pointer(q) # pointer(r)} = live \ {r}
  BY <1>1, FreeFindsIt
<1> QED
  BY <1>1, <1>2

\* Only the reason to halt changes.
LEMMA PanicKeeps ==
  ASSUME HeapInv, NEW why, panic(why),
         why \in {"Heap initialization failed", "missaligned", "Out of memory"}
  PROVE  HeapInv'
<1>1. /\ panicked' = why
      /\ UNCHANGED <<list, ids, remaining, last_id, ret, live, allocs>>
  BY DEF panic
<1>2. linked' = linked
  BY <1>1 DEF linked
<1>3. Shape' /\ RemainingExact'
  BY <1>1, <1>2 DEF HeapInv, Shape, RemainingExact
<1>4. Owned => Owned'
  BY <1>1, <1>2 DEF Owned, CellsMatchLive, NoSpuriousDoubleFree, Cells
<1> QED
  BY <1>1, <1>3, <1>4 DEF HeapInv, IdsFresh

\* A free by a client that holds the pointer.
LEMMA FreeKeeps ==
  ASSUME HeapInv, NEW r \in live, free(pointer(r))
  PROVE  HeapInv'
<1>1. Shape /\ RemainingExact
  BY DEF HeapInv
<1>2. Shape' /\ RemainingExact' /\ allocs' = allocs
  <2>1. PICK a \in linked :
          /\ contains(a, pointer(r))
          /\ IF ids[a][division(a, pointer(r))] = 0
               THEN panic("Double free")
               ELSE /\ release(a, id_run(a, division(a, pointer(r))))
                    /\ live' = {q \in live : pointer(q) # pointer(r)}
                    /\ UNCHANGED <<list, last_id, ret, panicked, allocs>>
    BY <1>1, PointerIsNat, FreeCases
  <2> DEFINE i == division(a, pointer(r))
  <2>2. CASE ids[a][i] = 0
    <3>1. /\ panicked' = "Double free"
          /\ UNCHANGED <<list, ids, remaining, last_id, ret, live, allocs>>
      BY <2>1, <2>2 DEF panic
    <3>2. linked' = linked
      BY <3>1 DEF linked
    <3> QED
      BY <1>1, <3>1, <3>2 DEF Shape, RemainingExact
  <2>3. CASE ids[a][i] # 0
    <3>1. a \in Arena /\ accepted(a) /\ Divs(a) \subseteq Nat
      BY <1>1, LinkedBlocks, Geometry DEF Shape
    <3>2. i \in Int
      <4>1. pointer(r) \in Int
        BY <1>1, PointerIsNat
      <4>2. i \in Divs(a)
        BY <2>1, <3>1, <4>1, DivisionExists
      <4> QED
        BY <3>1, <4>2
    <3> HIDE DEF i
    <3>3. id_run(a, i) \subseteq Divs(a)
      BY DEF id_run
    <3>4. \A j \in id_run(a, i) : ids[a][j] # 0
      <4> TAKE j \in id_run(a, i)
      <4>1. j \in Divs(a) /\ j >= i
        BY DEF id_run
      <4>2. j \in Int
        BY <3>1, <4>1
      <4>3. j \in i .. j
        BY <3>2, <4>1, <4>2
      <4> QED
        BY <2>3, <4>3 DEF id_run
    <3>5. /\ release(a, id_run(a, i)) /\ live' \subseteq live
          /\ UNCHANGED <<list, last_id, ret, panicked, allocs>>
      BY <2>1, <2>3 DEF i
    <3> QED
      BY <1>1, <3>3, <3>4, <3>5, ReleaseKeeps
  <2> QED
    BY <2>2, <2>3
<1>3. ASSUME IdsFresh'  PROVE Owned'
  <2>1. Owned
    BY <1>2, <1>3 DEF HeapInv, IdsFresh
  <2>2. /\ release(r.a, Cells(r)) /\ live' = live \ {r}
        /\ UNCHANGED <<list, last_id, ret, panicked, allocs>>
    BY <1>1, <2>1, FreeReleases
  <2>3. r.a \in linked /\ Cells(r) \subseteq Divs(r.a) /\ \A j \in Cells(r) : ids[r.a][j] # 0
    BY <1>1, <2>1, LiveIsMarked DEF Shape, Owned
  <2>4. /\ linked' = linked
        /\ \A b \in linked : b # r.a => ids'[b] = ids[b]
        /\ \A i \in Divs(r.a) : ids'[r.a][i] = IF i \in Cells(r) THEN 0 ELSE ids[r.a][i]
    BY <1>1, <2>2, <2>3, ReleaseKeeps
  <2>5. \A q \in live' : \A i \in Cells(q) :
          /\ i \in Divs(q.a) /\ q.a \in linked /\ q \in live
          /\ ids[q.a][i] = ids[q.a][q.start] /\ ids[q.a][i] # 0
          /\ ids'[q.a][i] = ids[q.a][i] /\ ~ (q.a = r.a /\ i \in Cells(r))
    <3> TAKE q \in live'
    <3> TAKE i \in Cells(q)
    <3>1. q \in live /\ q # r
      BY <2>2
    <3>2. /\ i \in Divs(q.a) /\ q.a \in linked /\ ids[q.a][i] # 0
          /\ ids[q.a][i] = ids[q.a][q.start]
      BY <1>1, <2>1, <3>1, LiveIsMarked
    <3>3. ~ (q.a = r.a /\ i \in Cells(r))
      BY <2>1, <3>1, CellsApart
    <3>4. ids'[q.a][i] = ids[q.a][i]
      BY <2>4, <3>2, <3>3
    <3> QED
      BY <3>1, <3>2, <3>3, <3>4
  <2>6. \A q \in live' : q \in live /\ q.start \in Cells(q)
    <3> TAKE q \in live'
    <3>1. q \in live
      BY <2>2
    <3>2. q.a \in linked /\ q.start \in Divs(q.a) /\ q.n \in Nat \ {0}
      BY <1>1, <3>1 DEF Shape
    <3>3. q.start \in Nat
      BY <1>1, <3>2, LinkedBlocks, Geometry DEF Shape
    <3> QED
      BY <3>1, <3>2, <3>3 DEF Cells
  <2>7. CellsMatchLive'
    <3>1. ASSUME NEW b \in linked, NEW i \in Divs(b)
          PROVE  ids'[b][i] # 0 <=> \E q \in live' : q.a = b /\ i \in Cells(q)
      <4>1. CASE b = r.a /\ i \in Cells(r)
        BY <2>4, <2>5, <4>1
      <4>2. CASE ~ (b = r.a /\ i \in Cells(r))
        <5>1. ids'[b][i] = ids[b][i]
          BY <2>4, <4>2
        <5>2. ids[b][i] # 0 <=> \E q \in live : q.a = b /\ i \in Cells(q)
          BY <2>1 DEF Owned, CellsMatchLive
        <5> QED
          BY <2>2, <4>2, <5>1, <5>2
      <4> QED
        BY <4>1, <4>2
    <3>2. \A q \in live' : \A i \in Cells(q) : ids'[q.a][i] = ids'[q.a][q.start]
      BY <2>5, <2>6
    <3> QED
      BY <2>4, <3>1, <3>2 DEF CellsMatchLive, Cells
  <2>8. \A q \in live' : ids'[q.a][q.start] = ids[q.a][q.start]
    BY <2>5, <2>6
  <2>9. /\ \A q \in live' : Cells(q) \subseteq Divs(q.a)
        /\ \A q \in live' : ids'[q.a][q.start] <= last_id'
        /\ \A q, s \in live' : ids'[q.a][q.start] = ids'[s.a][s.start] => q = s
    BY <2>1, <2>2, <2>6, <2>8 DEF Owned
  <2>10. last_id' = allocs' /\ NoSpuriousDoubleFree'
    BY <2>1, <2>2 DEF Owned, NoSpuriousDoubleFree
  <2> QED
    BY <2>7, <2>9, <2>10 DEF Owned, Cells
<1> QED
  BY <1>2, <1>3 DEF HeapInv

\* What a step of the kernel can do to the heap.
HeapStep ==
  \/ \E a \in Arena \ linked : accepted(a) /\ link(a)
  \/ \E a \in linked, size \in Nat, align \in Nat : \E s \in hits(a, size, align) :
       allocs < AllocBudget /\ take(a, s, needed_divs(a, size))
  \/ \E r \in live : free(pointer(r))
  \/ \E why \in {"Heap initialization failed", "missaligned", "Out of memory"} : panic(why)
  \/ ret' = 0 /\ UNCHANGED <<list, ids, remaining, last_id, panicked, live, allocs>>
  \/ UNCHANGED vars

LEMMA EffectiveAlign ==
  ASSUME NEW align \in Nat
  PROVE  effective(align) \in Nat /\ effective(DataAlign) = DataAlign /\ DataAlign \in Nat
  BY ArenaAssumption DEF effective

\* alloc takes divisions of the first block whose scan succeeds.
LEMMA AllocTakes ==
  ASSUME Shape, NEW size \in Nat, NEW align \in Nat, alloc(size, align)
  PROVE  \E a \in linked : \E s \in hits(a, size, effective(align)) :
           allocs < AllocBudget /\ take(a, s, needed_divs(a, size))
  BY LinkedBlocks DEF alloc

\* Clients free what they hold, or what no block contains.
LEMMA StraysAreIgnored ==
  ASSUME Shape, NEW p \in Strays
  PROVE  ~ free(p)
<1>1. p \in Nat
  BY BoundsAssumption
<1>2. \A a \in linked : ~ contains(a, p)
  BY LinkedBlocks, StraysAssumption DEF Shape
<1> QED
  BY <1>1, <1>2, FreeCases

LEMMA KernelStep ==
  ASSUME Shape, [KernelNext]_<<vars, hook_vars>>
  PROVE  HeapStep
<1>1. ASSUME NEW a \in Arena, init_heap(a)  PROVE HeapStep
  <2>1. CASE accepted(a)
    <3>1. link(a) /\ list = <<>>
      BY <1>1, <2>1 DEF init_heap, init
    <3>2. linked = {}
      BY <3>1 DEF linked
    <3> QED
      BY <2>1, <3>1, <3>2 DEF HeapStep
  <2>2. CASE ~ accepted(a)
    BY <1>1, <2>2 DEF init_heap, init, HeapStep
  <2> QED
    BY <2>1, <2>2
<1>2. ASSUME NEW a \in Arena, extend_heap(a)  PROVE HeapStep
  BY <1>2 DEF extend_heap, add_block, HeapStep
<1>3. CASE set_kernel_heap
  BY <1>3 DEF set_kernel_heap, HeapStep
<1>4. ASSUME NEW size \in Nat, NEW align \in Nat, alloc(size, align)  PROVE HeapStep
  BY <1>4, AllocTakes, EffectiveAlign DEF HeapStep
<1>5. ASSUME NEW r \in Requests  PROVE r[1] \in Nat /\ r[2] \in Nat /\ DataAlign \in Nat
  BY BoundsAssumption, ArenaAssumption
<1>6. ASSUME NEW r \in Requests, mem_alloc(r[1], r[2])  PROVE HeapStep
  <2>1. CASE global_kernel_heap /\ alloc(r[1], r[2])
    BY <1>4, <1>5, <2>1
  <2>2. CASE alloc_fails(r[1], r[2])
    BY <2>2 DEF alloc_fails, HeapStep
  <2>3. CASE alloc_misaligned(r[1], r[2])
    BY <2>3 DEF alloc_misaligned, HeapStep
  <2>4. CASE ret' = 0 /\ UNCHANGED <<list, ids, remaining, last_id, panicked, live, allocs>>
    BY <2>4 DEF HeapStep
  <2> QED
    BY <1>6, <2>1, <2>2, <2>3, <2>4 DEF mem_alloc
<1>7. ASSUME NEW r \in Requests, operator_new(r[1])  PROVE HeapStep
  <2>1. CASE alloc(r[1], DataAlign)
    BY <1>4, <1>5, <2>1
  <2>2. CASE panic("Out of memory")
    BY <2>2 DEF HeapStep
  <2> QED
    BY <1>7, <2>1, <2>2 DEF operator_new
<1>8. ASSUME NEW r \in Requests, operator_new_array(r[1])  PROVE HeapStep
  <2>1. CASE alloc(r[1], DataAlign)
    BY <1>4, <1>5, <2>1
  <2>2. CASE UNCHANGED vars
    BY <2>2 DEF HeapStep
  <2> QED
    BY <1>8, <2>1, <2>2 DEF operator_new_array
<1>9. ASSUME NEW p, operator_delete(p)  PROVE free(p) \/ UNCHANGED vars
  BY <1>9 DEF operator_delete, mem_free, free_ignored
<1>10. ASSUME NEW r \in live, operator_delete(pointer(r))  PROVE HeapStep
  BY <1>9, <1>10 DEF HeapStep
<1>11. ASSUME NEW p \in Strays, operator_delete(p)  PROVE HeapStep
  BY <1>9, <1>11, StraysAreIgnored DEF HeapStep
<1>12. CASE UNCHANGED <<vars, hook_vars>>
  BY <1>12 DEF HeapStep
<1> QED
  BY <1>1, <1>2, <1>3, <1>6, <1>7, <1>8, <1>10, <1>11, <1>12 DEF KernelNext

\* A step that changes at most what alloc returned.
LEMMA StutterKeeps ==
  ASSUME HeapInv, ret' \in Nat,
         UNCHANGED <<list, ids, remaining, last_id, panicked, live, allocs>>
  PROVE  HeapInv'
<1>1. linked' = linked
  BY DEF linked
<1>2. Shape' /\ RemainingExact'
  BY <1>1 DEF HeapInv, Shape, RemainingExact
<1>3. Owned => Owned'
  BY <1>1 DEF Owned, CellsMatchLive, NoSpuriousDoubleFree, Cells
<1> QED
  BY <1>2, <1>3 DEF HeapInv, IdsFresh

LEMMA StepKeepsHeapInv ==
  ASSUME HeapInv, HeapStep
  PROVE  HeapInv'
<1>1. ASSUME NEW a \in Arena \ linked, accepted(a), link(a)  PROVE HeapInv'
  BY <1>1, LinkKeeps
<1>2. ASSUME NEW a \in linked, NEW size \in Nat, NEW align \in Nat,
             NEW s \in hits(a, size, align), allocs < AllocBudget,
             take(a, s, needed_divs(a, size))
      PROVE  HeapInv'
  BY <1>2, TakeKeeps
<1>3. ASSUME NEW r \in live, free(pointer(r))  PROVE HeapInv'
  BY <1>3, FreeKeeps
<1>4. ASSUME NEW why \in {"Heap initialization failed", "missaligned", "Out of memory"},
             panic(why)
      PROVE  HeapInv'
  BY <1>4, PanicKeeps
<1>5. CASE ret' = 0 /\ UNCHANGED <<list, ids, remaining, last_id, panicked, live, allocs>>
  BY <1>5, StutterKeeps
<1>6. CASE UNCHANGED vars
  <2>1. ret' \in Nat
    BY <1>6 DEF HeapInv, Shape, vars
  <2> QED
    BY <1>6, <2>1, StutterKeeps DEF vars
<1> QED
  BY <1>1, <1>2, <1>3, <1>4, <1>5, <1>6 DEF HeapStep

LEMMA InitHeapInv == ASSUME Init PROVE HeapInv
<1>1. linked = {} /\ Len(list) = 0 /\ list \in Seq(Arena)
  BY DEF Init, linked
<1>2. IsFiniteSet({}) /\ Cardinality({}) = 0
  BY FS_EmptySet
<1>3. Shape
  BY <1>1, <1>2, BoundsAssumption DEF Init, Shape
<1>4. RemainingExact /\ Owned
  BY <1>1 DEF Init, RemainingExact, Owned, CellsMatchLive, NoSpuriousDoubleFree
<1> QED
  BY <1>3, <1>4 DEF HeapInv

\* The invariant the theorems below rest on: init, add_block, alloc, free and
\* the hooks keep the shape of the id arrays and the count of free bytes, and
\* as long as ids are fresh every used division is that of one allocation.
THEOREM HeapInvariance == KernelSpec => []HeapInv
<1>1. KernelInit => HeapInv
  BY InitHeapInv DEF KernelInit
<1>2. HeapInv /\ [KernelNext]_<<vars, hook_vars>> => HeapInv'
  BY KernelStep, StepKeepsHeapInv DEF HeapInv
<1> QED
  BY <1>1, <1>2, PTL DEF KernelSpec

-----------------------------------------------------------------------------
(* Consistency.                                                            *)

\* The bytes of an allocation are those of its divisions.
LEMMA BytesAreDivisions ==
  ASSUME NEW a \in Arena, accepted(a), NEW s \in Nat, NEW n \in Nat \ {0},
         s .. s + n - 1 \subseteq Divs(a), NEW b \in Int
  PROVE  b \in div_addr(a, s) .. div_addr(a, s) + n * ArenaDiv[a] - 1
           <=> contains(a, b) /\ division(a, b) \in s .. s + n - 1
<1> DEFINE d == ArenaDiv[a]
           o == b - data_begin(a)
           q == division(a, b)
           lo == s * d
           hi == (s + n) * d
           top == div_count(a) * d
<1>1. /\ d \in Nat \ {0} /\ data_begin(a) \in Nat /\ div_count(a) \in Nat \ {0}
      /\ data_end(a) = data_begin(a) + top
  BY Geometry
<1>2. /\ s + n \in Nat /\ lo \in Nat /\ n * d \in Nat /\ hi \in Nat /\ top \in Nat
      /\ hi = lo + n * d
  BY <1>1, Products
<1>3. hi <= top
  <2>1. s + n - 1 \in Divs(a)
    OBVIOUS
  <2>2. s + n <= div_count(a)
    BY <1>1, <2>1 DEF Divs
  <2>3. s + n < div_count(a) => hi < top
    BY <1>1, <1>2, Products
  <2> QED
    BY <1>1, <1>2, <2>2, <2>3
<1>4. div_addr(a, s) = data_begin(a) + lo
  BY DEF div_addr
<1>5. b \in div_addr(a, s) .. div_addr(a, s) + n * ArenaDiv[a] - 1
        <=> lo <= o /\ o < hi
  <2>1. n * ArenaDiv[a] = hi - lo
    BY <1>2
  <2> HIDE DEF lo, hi
  <2> QED
    BY <1>1, <1>2, <1>4, <2>1
<1>6. contains(a, b) <=> 0 <= o /\ o < top
  <2> HIDE DEF top
  <2> QED
    BY <1>1, <1>2 DEF contains
<1>7. CASE o \in Nat
  <2>1. q \in Nat /\ d * q <= o /\ o < d * q + d
    <3>1. q = o \div d
      BY DEF division
    <3> HIDE DEF q, o, d
    <3> QED
      BY <1>1, <1>7, <3>1, DivBounds, DivNat
  <2> HIDE DEF q, o, d
  <2>2. /\ q * d \in Nat /\ q * d <= o /\ o < (q + 1) * d
        /\ (q + 1) * d \in Nat /\ q + 1 \in Nat
    <3>1. d * q = q * d /\ (q + 1) * d = q * d + d
      BY <1>1, <2>1, Products
    <3>2. q + 1 \in Nat /\ q * d \in Nat /\ (q + 1) * d \in Nat
      BY <1>1, <2>1, Products
    <3> QED
      BY <2>1, <3>1, <3>2
  <2>3. (s < q + 1 <=> lo < (q + 1) * d) /\ (q < s + n <=> q * d < hi)
    BY <1>1, <1>2, <2>1, <2>2, Products
  <2>4. (q < s <=> q * d < lo) /\ (s + n < q + 1 <=> hi < (q + 1) * d)
    BY <1>1, <1>2, <2>1, <2>2, Products
  <2>5. q + 1 <= s => (q + 1) * d <= lo
    <3>1. q + 1 < s <=> (q + 1) * d < lo
      BY <1>1, <2>2, Products
    <3> QED
      BY <1>2, <2>2, <3>1
  <2>6. q + 1 <= s + n => (q + 1) * d <= hi
    <3>1. q + 1 < s + n <=> (q + 1) * d < hi
      BY <1>1, <1>2, <2>2, Products
    <3> QED
      BY <1>2, <2>2, <3>1
  <2> HIDE DEF lo, hi, top
  <2>7. lo <= o /\ o < hi => s <= q /\ q < s + n
    BY <1>2, <1>7, <2>1, <2>2, <2>3, <2>5
  <2>8. s <= q /\ q < s + n => lo <= o /\ o < hi
    BY <1>2, <1>7, <2>1, <2>2, <2>4, <2>6
  <2>9. lo <= o /\ o < hi => 0 <= o /\ o < top
    BY <1>2, <1>3, <1>7
  <2>10. q \in s .. s + n - 1 <=> s <= q /\ q < s + n
    BY <2>1
  <2> QED
    BY <1>5, <1>6, <2>7, <2>8, <2>9, <2>10 DEF q
<1>8. CASE o \notin Nat
  <2>1. o \in Int /\ ~ (0 <= o)
    BY <1>1, <1>8
  <2> HIDE DEF lo, o
  <2> QED
    BY <1>2, <1>5, <1>6, <2>1
<1> QED
  BY <1>7, <1>8

LEMMA BytesOfLive ==
  ASSUME Shape, Owned, NEW r \in live
  PROVE  /\ r.a \in Arena /\ accepted(r.a) /\ r.a \in linked
         /\ Bytes(r) \subseteq Int /\ Bytes(r) # {}
         /\ \A b \in Int : b \in Bytes(r) <=> contains(r.a, b) /\ division(r.a, b) \in Cells(r)
<1>1. /\ r.a \in Arena /\ accepted(r.a) /\ r.a \in linked
      /\ r.start \in Divs(r.a) /\ r.n \in Nat \ {0}
  BY LinkedBlocks DEF Shape
<1>2. /\ r.start \in Nat /\ ArenaDiv[r.a] \in Nat \ {0} /\ data_begin(r.a) \in Nat
  BY <1>1, Geometry
<1>3. pointer(r) \in Nat /\ r.n * ArenaDiv[r.a] \in Nat /\ r.n <= r.n * ArenaDiv[r.a]
  BY <1>1, <1>2, Products, PointerIsNat
<1>4. r.start .. r.start + r.n - 1 \subseteq Divs(r.a)
  BY DEF Owned, Cells
<1>5. \A b \in Int :
        b \in Bytes(r) <=> contains(r.a, b) /\ division(r.a, b) \in Cells(r)
  BY <1>1, <1>2, <1>4, BytesAreDivisions DEF Bytes, Cells, pointer
<1>6. pointer(r) \in Bytes(r) /\ Bytes(r) \subseteq Int
  <2> DEFINE w == r.n * ArenaDiv[r.a]
  <2>1. w \in Nat /\ 1 <= w
    BY <1>1, <1>3
  <2> HIDE DEF w
  <2>2. pointer(r) \in pointer(r) .. pointer(r) + w - 1
        /\ pointer(r) .. pointer(r) + w - 1 \subseteq Int
    BY <1>3, <2>1
  <2> QED
    BY <2>2 DEF Bytes, w
<1> QED
  BY <1>1, <1>5, <1>6

LEMMA TypesFollow ==
  ASSUME HeapInv
  PROVE  TypeOK
<1>1. Shape
  BY DEF HeapInv
<1>2. linked \subseteq Arena
  BY <1>1, LinkedBlocks
<1>3. \A a \in linked : DOMAIN ids[a] = Divs(a) /\ Divs(a) # {}
  BY <1>1, <1>2, Geometry DEF Shape
<1>4. ids \in [linked -> UNION {[Divs(a) -> 0 .. MaxId] : a \in linked}]
  BY <1>1 DEF Shape
<1> QED
  BY <1>1, <1>2, <1>3, <1>4 DEF Shape, TypeOK

LEMMA ConsistencyFollows ==
  ASSUME HeapInv, IdsFresh
  PROVE  HeapConsistent
<1>1. Shape /\ RemainingExact /\ Owned
  BY DEF HeapInv
<1>2. NeighboursDiffer
  <2> SUFFICES ASSUME NEW q \in live, NEW r \in live,
                      q.start + q.n = r.start, ids[q.a][q.start] = ids[r.a][r.start]
               PROVE  FALSE
    BY DEF NeighboursDiffer
  <2>1. q = r
    BY <1>1 DEF Owned
  <2>2. q.n \in Nat \ {0} /\ q.a \in linked /\ q.start \in Divs(q.a)
    BY <1>1 DEF Shape
  <2>3. q.start \in Nat
    BY <1>1, <2>2, LinkedBlocks, Geometry DEF Shape
  <2> QED
    BY <2>1, <2>2, <2>3
<1>3. LiveApart
  <2>1. ASSUME NEW q \in live, NEW r \in live, q # r  PROVE Bytes(q) \cap Bytes(r) = {}
    <3> SUFFICES ASSUME NEW b \in Bytes(q), b \in Bytes(r)  PROVE FALSE
      OBVIOUS
    <3>1. /\ b \in Int /\ contains(q.a, b) /\ division(q.a, b) \in Cells(q)
          /\ contains(r.a, b) /\ division(r.a, b) \in Cells(r)
      BY <1>1, BytesOfLive
    <3>2. q.a = r.a
      BY <1>1, <3>1, BytesOfLive, OneBlock
    <3> QED
      BY <1>1, <2>1, <3>1, <3>2, CellsApart
  <2>2. ASSUME NEW r \in live, NEW a \in linked  PROVE Bytes(r) \cap Metadata(a) = {}
    <3> SUFFICES ASSUME NEW b \in Bytes(r)  PROVE b \notin Metadata(a)
      OBVIOUS
    <3>1. b \in Int /\ contains(r.a, b)
      BY <1>1, BytesOfLive
    <3>2. a \in Arena /\ accepted(a)
      BY <1>1, LinkedBlocks DEF Shape
    <3> QED
      BY <1>1, <3>1, <3>2, BytesOfLive, OneBlock
  <2> QED
    BY <2>1, <2>2 DEF LiveApart
<1> QED
  BY <1>1, <1>2, <1>3, TypesFollow DEF HeapConsistent, Owned

\* As long as no id has been given out twice, the id bytes describe exactly
\* what the clients of new, delete, malloc and free hold, allocations overlap
\* neither each other nor the metadata, and remaining is exact.
THEOREM HeapStaysConsistent == KernelSpec => [](IdsFresh => HeapConsistent)
<1>1. HeapInv => (IdsFresh => HeapConsistent)
  BY ConsistencyFollows
<1> QED
  BY <1>1, HeapInvariance, PTL

\* ... and a client that frees what it holds, once, never stops the kernel
\* with "Double free".  Past MaxId allocations it can (run heap_id_wrap).
THEOREM FreshIdsNeverDoubleFree == KernelSpec => [](IdsFresh => NoSpuriousDoubleFree)
<1>1. HeapInv => (IdsFresh => NoSpuriousDoubleFree)
  BY DEF HeapInv, Owned
<1> QED
  BY <1>1, HeapInvariance, PTL

-----------------------------------------------------------------------------
(* Failing allocations.                                                    *)

\* If the request fits anywhere in a block the scan finds a place, and the
\* shortcut on remaining does not hide it.
LEMMA ScanMissesNothing ==
  ASSUME Shape, RemainingExact, NEW a \in linked, NEW size \in Nat, NEW align,
         NEW s \in Divs(a), fits_at(a, s, needed_divs(a, size), align)
  PROVE  hits(a, size, align) # {}
<1> DEFINE n == needed_divs(a, size)
           d == ArenaDiv[a]
           T == {t \in Divs(a) : fits_at(a, t, n, align)}
<1>1. /\ d \in Nat \ {0} /\ Divs(a) \subseteq Nat /\ div_count(a) \in Nat
  BY LinkedBlocks, Geometry DEF Shape
<1>2. n \in Nat \ {0} /\ size <= n * d
  BY <1>1, NeededDivs DEF needed_divs
<1> HIDE DEF n, d
<1>3. s .. s + n - 1 \subseteq Unused(a)
  <2>1. s + n - 1 \in Divs(a) /\ \A i \in s .. s + n - 1 : ids[a][i] = 0
    BY DEF fits_at, n
  <2>2. s .. s + n - 1 \subseteq Divs(a)
    BY <1>1, <1>2, <2>1 DEF Divs
  <2> QED
    BY <2>1, <2>2 DEF Unused
<1>4. n <= Cardinality(Unused(a)) /\ Cardinality(Unused(a)) \in Nat
  <2>1. IsFiniteSet(Unused(a)) /\ Cardinality(Unused(a)) \in Nat
    BY UnusedCounts
  <2> DEFINE t == s + n - 1
  <2>2. s \in Int /\ t \in Int /\ ~ (s > t) /\ t - s + 1 = n
    BY <1>1, <1>2
  <2>3. s .. t \subseteq Unused(a)
    BY <1>3
  <2> HIDE DEF t
  <2>4. Cardinality(s .. t) = t - s + 1
    BY <2>2, FS_Interval
  <2>5. Cardinality(s .. t) <= Cardinality(Unused(a))
    BY <2>1, <2>3, FS_Subset
  <2> QED
    BY <2>1, <2>2, <2>4, <2>5
<1>5. remaining[a] >= size
  <2> DEFINE u == Cardinality(Unused(a))
  <2>1. remaining[a] = d * u
    BY DEF RemainingExact, Unused, d
  <2>2. u \in Nat /\ n <= u
    BY <1>4
  <2> HIDE DEF u
  <2>3. n * d <= u * d /\ u * d = d * u /\ n * d \in Nat /\ u * d \in Nat
    <3>1. n < u <=> n * d < u * d
      BY <1>1, <1>2, <2>2, Products
    <3>2. d * u = u * d /\ n * d \in Nat /\ u * d \in Nat
      BY <1>1, <1>2, <2>2, Products
    <3> QED
      BY <1>2, <2>2, <3>1, <3>2
  <2> QED
    BY <1>2, <2>1, <2>3
<1>6. PICK m \in T : \A t \in T : m <= t
  <2>1. s \in T /\ T \in SUBSET Nat
    BY <1>1 DEF n
  <2> HIDE DEF T
  <2> QED
    BY <2>1, LeastNat
<1>7. \A t \in 0 .. m - 1 : ~ fits_at(a, t, n, align)
  <2> SUFFICES ASSUME NEW t \in 0 .. m - 1, fits_at(a, t, n, align)  PROVE FALSE
    OBVIOUS
  <2>1. t \in Divs(a) /\ m \in Nat
    BY <1>1, <1>6 DEF fits_at
  <2>2. t \in T
    BY <2>1
  <2> QED
    BY <1>6, <2>1, <2>2
<1>8. m \in hits(a, size, align)
  <2>1. m \in Divs(a) /\ fits_at(a, m, n, align)
    BY <1>6
  <2> QED
    BY <1>5, <1>7, <2>1 DEF hits, n
<1> QED
  BY <1>8

\* A request of any size and alignment that no block's scan serves fits
\* nowhere, whatever has been allocated, rounded and freed before.
THEOREM NullOnlyWhenNothingFits == KernelSpec => []NullMeansNoFit
<1>1. ASSUME HeapInv  PROVE NullMeansNoFit
  <2> SUFFICES ASSUME NEW r \in Requests, NEW a \in linked, NEW s \in Divs(a),
                      fits_at(a, s, needed_divs(a, r[1]), effective(r[2]))
               PROVE  hits(a, r[1], effective(r[2])) # {}
    BY DEF NullMeansNoFit
  <2>1. r[1] \in Nat /\ Shape /\ RemainingExact
    BY <1>1, BoundsAssumption DEF HeapInv
  <2> QED
    BY <2>1, ScanMissesNothing
<1> QED
  BY <1>1, HeapInvariance, PTL

\* What new promises follows a step at a time from what it has just done.
AskedInv ==
  /\ NewReturnsMemoryOrStops
  /\ global_kernel_heap => list # <<>>

\* An allocation that new has been given is the one ret points to.
LEMMA TakeServes ==
  ASSUME Shape, NEW size \in Nat, alloc(size, DataAlign), running,
         UNCHANGED spinning, asked' = size
  PROVE  NewReturnsMemoryOrStops'
<1>1. PICK a \in linked : \E s \in hits(a, size, DataAlign) :
        take(a, s, needed_divs(a, size))
  <2>1. DataAlign \in Nat /\ effective(DataAlign) = DataAlign
    BY ArenaAssumption DEF effective
  <2> QED
    BY <2>1, AllocTakes
<1>2. PICK s \in hits(a, size, DataAlign) : take(a, s, needed_divs(a, size))
  BY <1>1
<1> DEFINE n == needed_divs(a, size)
           new == [a |-> a, start |-> s, n |-> n]
<1>3. size <= n * ArenaDiv[a] /\ div_addr(a, s) % DataAlign = 0
  BY HitIsUnused
<1>4. new \in live' /\ ret' = div_addr(a, s) /\ panicked' = panicked
  BY <1>2 DEF take
<1>5. new.a = a /\ new.start = s /\ new.n = n
  OBVIOUS
<1> HIDE DEF n, new
<1>6. running'
  BY <1>4 DEF running
<1>7. pointer(new) = ret' /\ ret' % DataAlign = 0 /\ asked' <= new.n * ArenaDiv[new.a]
  BY <1>3, <1>4, <1>5 DEF pointer
<1> QED
  BY <1>4, <1>6, <1>7 DEF NewReturnsMemoryOrStops, pointer

\* A request that mem::alloc refuses, with the heap set, fits nowhere.
LEMMA RefusedFitsNowhere ==
  ASSUME Shape, RemainingExact, NEW size \in Nat, refused(size, DataAlign),
         UNCHANGED <<list, ids, global_kernel_heap>>, asked' = size, ~ running'
  PROVE  NewReturnsMemoryOrStops'
<1> SUFFICES ASSUME global_kernel_heap, size # 0, NEW a \in linked, NEW s \in Divs(a)
             PROVE  ~ fits_at(a, s, needed_divs(a, size), DataAlign)
  BY DEF NewReturnsMemoryOrStops, linked, fits_at
<1>1. effective(DataAlign) = DataAlign
  BY ArenaAssumption DEF effective
<1>2. hits(a, size, DataAlign) = {}
  BY <1>1 DEF refused, no_fit
<1> QED
  BY <1>2, ScanMissesNothing

LEMMA AskedStep ==
  ASSUME HeapInv, AskedInv, [KernelNext]_<<vars, hook_vars>>
  PROVE  AskedInv'
<1> USE DEF hook_vars
<1>1. Shape /\ RemainingExact /\ NewReturnsMemoryOrStops
      /\ (global_kernel_heap => list # <<>>)
  BY DEF HeapInv, AskedInv
<1>2. ASSUME asked' = NotAsked, UNCHANGED global_kernel_heap, list' = list
      PROVE  AskedInv'
  BY <1>1, <1>2 DEF AskedInv, NewReturnsMemoryOrStops
<1>3. ASSUME NEW a \in Arena, init_heap(a)  PROVE AskedInv'
  <2>1. list = <<>> /\ ~ global_kernel_heap /\ UNCHANGED hook_vars
    BY <1>1, <1>3 DEF init_heap, init
  <2>2. CASE accepted(a)
    <3>1. UNCHANGED <<ret, panicked, live>>
      BY <1>3, <2>2 DEF init_heap, init, link
    <3> QED
      BY <1>1, <2>1, <3>1 DEF AskedInv, NewReturnsMemoryOrStops, running, pointer
  <2>3. CASE ~ accepted(a)
    <3>1. panicked' # "no" /\ list' = list
      BY <1>3, <2>3 DEF init_heap, init, panic
    <3> QED
      BY <2>1, <3>1 DEF AskedInv, NewReturnsMemoryOrStops, running
  <2> QED
    BY <2>2, <2>3
<1>4. ASSUME NEW a \in Arena, extend_heap(a)  PROVE AskedInv'
  <2>1. /\ running /\ UNCHANGED hook_vars /\ list' = <<a>> \o list
        /\ UNCHANGED <<ret, panicked, live>>
    BY <1>4 DEF extend_heap, add_block, link
  <2>2. list' # <<>>
    <3>1. <<a>> \in Seq(Arena) /\ Len(<<a>>) = 1
      OBVIOUS
    <3>2. list \in Seq(Arena)
      BY <1>1 DEF Shape
    <3>3. Len(list') = 1 + Len(list) /\ Len(list) \in Nat
      BY <2>1, <3>1, <3>2, ConcatProperties, LenProperties
    <3> QED
      BY <3>3
  <2> QED
    BY <1>1, <2>1, <2>2 DEF AskedInv, NewReturnsMemoryOrStops, running, pointer
<1>5. ASSUME set_kernel_heap  PROVE AskedInv'
  BY <1>1, <1>5 DEF set_kernel_heap, vars, AskedInv, NewReturnsMemoryOrStops, running, pointer
<1>6. ASSUME NEW size \in Nat, NEW align, alloc(size, align)  PROVE list' = list
  BY <1>6 DEF alloc, take
<1>7. ASSUME NEW r \in Requests, mem_alloc(r[1], r[2])  PROVE AskedInv'
  <2>1. r[1] \in Nat
    BY BoundsAssumption
  <2>2. list' = list
    BY <1>6, <1>7, <2>1 DEF mem_alloc, alloc_fails, alloc_misaligned, panic
  <2> QED
    BY <1>2, <1>7, <2>2 DEF mem_alloc
<1>8. ASSUME NEW r \in Requests, operator_new(r[1])  PROVE AskedInv'
  <2>1. r[1] \in Nat /\ running /\ asked' = r[1] /\ UNCHANGED <<global_kernel_heap, spinning>>
    BY <1>8, BoundsAssumption DEF operator_new
  <2>2. CASE alloc(r[1], DataAlign)
    BY <1>1, <1>6, <2>1, <2>2, TakeServes DEF AskedInv
  <2>3. CASE refused(r[1], DataAlign) /\ panic("Out of memory")
    <3>1. UNCHANGED <<list, ids>> /\ ~ running'
      BY <2>3 DEF panic, running
    <3> QED
      BY <1>1, <2>1, <2>3, <3>1, RefusedFitsNowhere DEF AskedInv
  <2> QED
    BY <1>8, <2>2, <2>3 DEF operator_new
<1>9. ASSUME NEW r \in Requests, operator_new_array(r[1])  PROVE AskedInv'
  <2>1. r[1] \in Nat /\ running /\ asked' = r[1] /\ UNCHANGED global_kernel_heap
    BY <1>9, BoundsAssumption DEF operator_new_array
  <2>2. CASE alloc(r[1], DataAlign) /\ UNCHANGED spinning
    BY <1>1, <1>6, <2>1, <2>2, TakeServes DEF AskedInv
  <2>3. CASE refused(r[1], DataAlign) /\ spinning' = TRUE /\ UNCHANGED vars
    <3>1. UNCHANGED <<list, ids>> /\ ~ running'
      BY <2>3 DEF vars, running
    <3> QED
      BY <1>1, <2>1, <2>3, <3>1, RefusedFitsNowhere DEF AskedInv
  <2> QED
    BY <1>9, <2>2, <2>3 DEF operator_new_array
<1>10. ASSUME NEW p, operator_delete(p)  PROVE AskedInv'
  <2>1. list' = list
    BY <1>10 DEF operator_delete, mem_free, free, free_ignored, panic, vars
  <2> QED
    BY <1>2, <1>10, <2>1 DEF operator_delete
<1>11. CASE UNCHANGED <<vars, hook_vars>>
  BY <1>1, <1>11 DEF vars, AskedInv, NewReturnsMemoryOrStops, running, linked, fits_at
<1> QED
  BY <1>3, <1>4, <1>5, <1>7, <1>8, <1>9, <1>10, <1>11 DEF KernelNext

\* new and new[] return an aligned allocation that is large enough, or the
\* kernel stops for a good reason; no caller ever sees nullptr.
THEOREM NewNeverReturnsNull == KernelSpec => []NewReturnsMemoryOrStops
<1>1. KernelInit => AskedInv
  BY DEF KernelInit, AskedInv, NewReturnsMemoryOrStops
<1>2. HeapInv /\ AskedInv /\ [KernelNext]_<<vars, hook_vars>> => AskedInv'
  BY AskedStep
<1>3. AskedInv => NewReturnsMemoryOrStops
  BY DEF AskedInv
<1> QED
  BY <1>1, <1>2, <1>3, HeapInvariance, PTL DEF KernelSpec

-----------------------------------------------------------------------------
(* Refinement: the id-byte heap implements HeapStore.                      *)

\* The abstract allocation a live one stands for.
stored(r) == [ptr |-> pointer(r), len |-> r.n * ArenaDiv[r.a]]

\* Byte b lies in an unused division.
FreeIn(L, I, b) == \E a \in L : contains(a, b) /\ I[a][division(a, b)] = 0

LEMMA BytesOfDivisions ==
  ASSUME NEW L \in SUBSET Arena, \A a \in L : accepted(a), NEW I
  PROVE  LET F == UNION {div_addr(c[1], c[2]) .. div_addr(c[1], c[2]) + ArenaDiv[c[1]] - 1 :
                           c \in {d \in L \X UNION {Divs(a) : a \in L} :
                                    d[2] \in Divs(d[1]) /\ I[d[1]][d[2]] = 0}}
         IN  F \subseteq Int /\ \A b \in Int : b \in F <=> FreeIn(L, I, b)
<1> DEFINE cells == {d \in L \X UNION {Divs(a) : a \in L} :
                       d[2] \in Divs(d[1]) /\ I[d[1]][d[2]] = 0}
           range(c) == div_addr(c[1], c[2]) .. div_addr(c[1], c[2]) + ArenaDiv[c[1]] - 1
           F == UNION {range(c) : c \in cells}
<1>1. ASSUME NEW b \in Int, NEW c \in cells
      PROVE  b \in range(c) <=> contains(c[1], b) /\ division(c[1], b) = c[2]
  BY DivisionBytes
<1>2. \A c \in cells : range(c) \subseteq Int
  BY DEF div_addr
<1>3. ASSUME NEW b \in Int, b \in F  PROVE FreeIn(L, I, b)
  <2>1. PICK c \in cells : b \in range(c)
    BY <1>3
  <2>2. c[1] \in L /\ I[c[1]][c[2]] = 0
    OBVIOUS
  <2>3. contains(c[1], b) /\ division(c[1], b) = c[2]
    BY <1>1, <2>1
  <2> QED
    BY <2>2, <2>3 DEF FreeIn
<1>4. ASSUME NEW b \in Int, FreeIn(L, I, b)  PROVE b \in F
  <2>1. PICK a \in L : contains(a, b) /\ I[a][division(a, b)] = 0
    BY <1>4 DEF FreeIn
  <2>2. division(a, b) \in Divs(a)
    BY <2>1, DivisionExists
  <2>3. <<a, division(a, b)>> \in cells
    BY <2>1, <2>2
  <2>4. b \in range(<<a, division(a, b)>>)
    BY <1>1, <2>1, <2>3
  <2> QED
    BY <2>3, <2>4
<1>5. F \subseteq Int
  <2> HIDE DEF cells, range
  <2> QED
    BY <1>2
<1> HIDE DEF F
<1>6. F \subseteq Int /\ \A b \in Int : b \in F <=> FreeIn(L, I, b)
  BY <1>3, <1>4, <1>5
<1> QED
  BY <1>6 DEF F

LEMMA FreeBytesNow ==
  ASSUME Shape
  PROVE  /\ FreeBytes \subseteq Int
         /\ \A b \in Int : b \in FreeBytes <=> FreeIn(linked, ids, b)
  BY LinkedBlocks, BytesOfDivisions DEF FreeBytes, Shape

LEMMA FreeBytesNext ==
  ASSUME linked' \subseteq Arena, \A a \in linked' : accepted(a)
  PROVE  /\ FreeBytes' \subseteq Int
         /\ \A b \in Int : b \in FreeBytes' <=> FreeIn(linked', ids', b)
  BY BytesOfDivisions DEF FreeBytes

\* No byte of a live allocation is free, and no two live allocations are
\* stored as one.
LEMMA StoredApart ==
  ASSUME Shape, Owned, NEW r \in live
  PROVE  /\ Store!Bytes(stored(r)) = Bytes(r)
         /\ \A q \in live : stored(q) = stored(r) => q = r
<1>1. \A q : Store!Bytes(stored(q)) = Bytes(q)
  BY DEF Store!Bytes, stored, Bytes
<1>2. ASSUME NEW q \in live, stored(q) = stored(r)  PROVE q = r
  <2>1. Bytes(q) = Bytes(r)
    BY <1>1, <1>2
  <2>2. PICK b \in Int : b \in Bytes(q) /\ b \in Bytes(r)
    BY <2>1, BytesOfLive
  <2>3. /\ contains(q.a, b) /\ division(q.a, b) \in Cells(q)
        /\ contains(r.a, b) /\ division(r.a, b) \in Cells(r)
    BY <2>2, BytesOfLive
  <2>4. q.a = r.a
    BY <2>2, <2>3, BytesOfLive, OneBlock
  <2> QED
    BY <2>3, <2>4, CellsApart
<1> QED
  BY <1>1, <1>2

\* A new block extends the store.
LEMMA LinkRefines ==
  ASSUME HeapInv, Owned, NEW a \in Arena \ linked, accepted(a), link(a)
  PROVE  Store!Extend
<1>1. Shape /\ Shape' /\ live' = live
  BY LinkKeeps DEF HeapInv, link
<1>2. linked' \subseteq Arena /\ \A c \in linked' : accepted(c)
  <2>1. \A k \in 1 .. Len(list') : list'[k] \in Arena
    BY <1>1, ElementOfSeq DEF Shape
  <2> QED
    BY <1>1, <2>1 DEF Shape, linked
<1>3. /\ \A c \in linked : c \in linked' /\ ids'[c] = ids[c]
  <2>1. DOMAIN ids' = linked' /\ DOMAIN ids' = linked \cup {a}
    BY <1>1 DEF Shape, link
  <2>2. \A c \in linked : ids'[c] = ids[c]
    BY DEF link
  <2> QED
    BY <2>1, <2>2
<1>4. FreeBytes \subseteq FreeBytes'
  <2> SUFFICES ASSUME NEW b \in FreeBytes  PROVE b \in FreeBytes'
    OBVIOUS
  <2>1. b \in Int /\ FreeIn(linked, ids, b)
    BY <1>1, FreeBytesNow
  <2>2. FreeIn(linked', ids', b)
    BY <1>3, <2>1 DEF FreeIn
  <2> QED
    BY <1>2, <2>1, <2>2, FreeBytesNext
<1>5. ASSUME NEW r \in live  PROVE Bytes(r) \cap FreeBytes' = {}
  <2> SUFFICES ASSUME NEW b \in Bytes(r), b \in FreeBytes'  PROVE FALSE
    OBVIOUS
  <2>1. /\ b \in Int /\ contains(r.a, b) /\ division(r.a, b) \in Cells(r)
        /\ r.a \in Arena /\ accepted(r.a) /\ r.a \in linked
    BY <1>1, BytesOfLive
  <2>2. PICK c \in linked' : contains(c, b) /\ ids'[c][division(c, b)] = 0
    BY <1>2, <2>1, FreeBytesNext DEF FreeIn
  <2>3. c = r.a
    BY <1>2, <2>1, <2>2, OneBlock
  <2> QED
    BY <1>1, <1>3, <2>1, <2>2, <2>3, LiveIsMarked
<1>6. \A s \in {stored(r) : r \in live} : Store!Bytes(s) \cap FreeBytes' = {}
  BY <1>1, <1>5, StoredApart
<1>7. {stored(r) : r \in live}' = {stored(r) : r \in live}
  BY <1>1 DEF stored, pointer
<1> QED
  BY <1>4, <1>6, <1>7 DEF Store!Extend, stored

\* An allocation takes bytes that were free.
LEMMA TakeRefines ==
  ASSUME HeapInv, Owned, NEW a \in linked, NEW size \in Nat, NEW align,
         NEW s \in hits(a, size, align), allocs < AllocBudget,
         take(a, s, needed_divs(a, size))
  PROVE  Store!Malloc
<1> DEFINE n == needed_divs(a, size)
           C == s .. s + n - 1
           new == [a |-> a, start |-> s, n |-> n]
<1>1. Shape /\ a \in Arena /\ accepted(a)
  BY LinkedBlocks DEF HeapInv, Shape
<1>2. /\ n \in Nat \ {0} /\ s \in Nat /\ C \subseteq Unused(a) /\ s \in C
  BY <1>1, HitIsUnused
<1>3. C \subseteq Divs(a)
  BY <1>2 DEF Unused
<1>4. /\ ids' = [ids EXCEPT ![a] = [i \in Divs(a) |-> IF i \in C THEN next_id ELSE @[i]]]
      /\ live' = live \cup {new} /\ list' = list
  BY DEF take
<1>5. new.a = a /\ Cells(new) = C
  BY DEF Cells
<1>6. \A b \in Int : b \in Bytes(new) <=> contains(a, b) /\ division(a, b) \in C
  BY <1>1, <1>2, <1>3, BytesAreDivisions DEF Bytes, pointer
<1>7. Bytes(new) \subseteq Int /\ Bytes(new) # {}
  <2> DEFINE p == pointer(new)
             w == n * ArenaDiv[a]
  <2>1. p \in Nat /\ w \in Nat /\ 1 <= w
    <3>1. ArenaDiv[a] \in Nat \ {0} /\ data_begin(a) \in Nat
      BY <1>1, Geometry
    <3>2. n * ArenaDiv[a] \in Nat /\ n <= n * ArenaDiv[a] /\ s * ArenaDiv[a] \in Nat
      BY <1>2, <3>1, Products
    <3> QED
      BY <1>2, <3>1, <3>2 DEF pointer, div_addr
  <2>2. Bytes(new) = p .. p + w - 1
    BY DEF Bytes
  <2> HIDE DEF p, w
  <2>3. p \in p .. p + w - 1 /\ p .. p + w - 1 \subseteq Int
    BY <2>1
  <2> QED
    BY <2>2, <2>3
<1> HIDE DEF n, C, new
<1>8. next_id \in 1 .. MaxId /\ next_id \in 0 .. MaxId
  BY <1>1, Scalars DEF next_id
<1>9. /\ linked' = linked
      /\ \A b \in linked : b # a => ids'[b] = ids[b]
      /\ \A i \in Divs(a) : ids'[a][i] = IF i \in C THEN next_id ELSE ids[a][i]
  <2>1. /\ ids' = [ids EXCEPT ![a] = [i \in Divs(a) |-> IF i \in C THEN next_id ELSE @[i]]]
        /\ list' = list /\ next_id \in 0 .. MaxId /\ C \in SUBSET Divs(a)
    BY <1>3, <1>4, <1>8
  <2> DEFINE v == next_id
  <2> HIDE DEF v
  <2> QED
    BY <1>1, <2>1, WriteIds DEF v
<1>10. ASSUME NEW b \in Bytes(new)
       PROVE  /\ b \in Int /\ contains(a, b) /\ division(a, b) \in C
              /\ ids[a][division(a, b)] = 0
  BY <1>2, <1>6, <1>7 DEF Unused
<1>11. Bytes(new) \subseteq FreeBytes
  BY <1>1, <1>10, FreeBytesNow DEF FreeIn
<1>12. FreeBytes' = FreeBytes \ Bytes(new)
  <2>1. linked' \subseteq Arena /\ \A c \in linked' : accepted(c)
    BY <1>1, <1>9, LinkedBlocks DEF Shape
  <2>2. ASSUME NEW b \in Int
        PROVE  FreeIn(linked', ids', b) <=> FreeIn(linked, ids, b) /\ b \notin Bytes(new)
    <3>1. ASSUME NEW c \in linked, contains(c, b)
          PROVE  ids'[c][division(c, b)] = 0
                   <=> ids[c][division(c, b)] = 0 /\ ~ (c = a /\ division(c, b) \in C)
      <4>1. division(c, b) \in Divs(c)
        BY <1>1, <3>1, LinkedBlocks, DivisionExists DEF Shape
      <4>2. next_id # 0
        BY <1>8
      <4> QED
        BY <1>9, <4>1, <4>2
    <3>2. ASSUME NEW c \in linked, contains(c, b)
          PROVE  b \in Bytes(new) <=> c = a /\ division(c, b) \in C
      <4>1. contains(a, b) => c = a
        BY <1>1, <3>2, LinkedBlocks, OneBlock DEF Shape
      <4> QED
        BY <1>6, <3>2, <4>1
    <3> QED
      BY <1>9, <3>1, <3>2 DEF FreeIn
  <2>3. /\ FreeBytes' \subseteq Int /\ FreeBytes \subseteq Int
        /\ \A b \in Int : b \in FreeBytes' <=> b \in FreeBytes \ Bytes(new)
    BY <1>1, <2>1, <2>2, FreeBytesNow, FreeBytesNext
  <2> QED
    BY <2>3
<1>13. stored(new) \notin {stored(r) : r \in live}
  <2> SUFFICES ASSUME NEW r \in live, stored(r) = stored(new)  PROVE FALSE
    OBVIOUS
  <2>1. Bytes(r) = Bytes(new)
    BY DEF stored, Bytes
  <2>2. PICK b : b \in Bytes(new)
    BY <1>7
  <2>3. /\ b \in Int /\ contains(r.a, b) /\ division(r.a, b) \in Cells(r)
        /\ r.a \in Arena /\ accepted(r.a)
    BY <1>1, <1>10, <2>1, <2>2, BytesOfLive
  <2>4. r.a = a
    BY <1>1, <1>10, <2>2, <2>3, OneBlock
  <2> QED
    BY <1>1, <1>10, <2>2, <2>3, <2>4, LiveIsMarked
<1>14. {stored(r) : r \in live}' = {stored(r) : r \in live} \cup {stored(new)}
  BY <1>4 DEF stored, pointer
<1>15. Store!Bytes(stored(new)) = Bytes(new)
  BY DEF Store!Bytes, stored, Bytes
<1> QED
  BY <1>7, <1>11, <1>12, <1>13, <1>14, <1>15 DEF Store!Malloc, stored

\* free gives back exactly the bytes of one allocation.
LEMMA FreeRefines ==
  ASSUME HeapInv, Owned, NEW r \in live, free(pointer(r))
  PROVE  Store!Free
<1>1. Shape /\ RemainingExact /\ \A c \in linked : c \in Arena /\ accepted(c)
  BY LinkedBlocks DEF HeapInv, Shape
<1>2. /\ release(r.a, Cells(r)) /\ live' = live \ {r}
      /\ UNCHANGED <<list, last_id, ret, panicked, allocs>>
  BY <1>1, FreeReleases
<1>3. /\ r.a \in linked /\ Cells(r) \subseteq Divs(r.a)
      /\ \A j \in Cells(r) : ids[r.a][j] # 0
  BY <1>1, LiveIsMarked DEF Shape, Owned
<1>4. /\ linked' = linked
      /\ \A b \in linked : b # r.a => ids'[b] = ids[b]
      /\ \A i \in Divs(r.a) : ids'[r.a][i] = IF i \in Cells(r) THEN 0 ELSE ids[r.a][i]
  BY <1>1, <1>2, <1>3, ReleaseKeeps
<1>5. FreeBytes' = FreeBytes \cup Bytes(r)
  <2>1. linked' \subseteq Arena /\ \A c \in linked' : accepted(c)
    BY <1>1, <1>4
  <2>2. ASSUME NEW b \in Int
        PROVE  FreeIn(linked', ids', b) <=> FreeIn(linked, ids, b) \/ b \in Bytes(r)
    <3>1. ASSUME NEW c \in linked, contains(c, b)
          PROVE  ids'[c][division(c, b)] = 0
                   <=> ids[c][division(c, b)] = 0 \/ (c = r.a /\ division(c, b) \in Cells(r))
      <4>1. division(c, b) \in Divs(c)
        BY <1>1, <3>1, DivisionExists
      <4> QED
        BY <1>4, <4>1
    <3>2. b \in Bytes(r) <=> contains(r.a, b) /\ division(r.a, b) \in Cells(r)
      BY <1>1, BytesOfLive
    <3>3. \A c \in linked : contains(c, b) /\ contains(r.a, b) => c = r.a
      BY <1>1, <1>3, OneBlock
    <3> QED
      BY <1>3, <1>4, <3>1, <3>2, <3>3 DEF FreeIn
  <2>3. /\ FreeBytes' \subseteq Int /\ FreeBytes \subseteq Int /\ Bytes(r) \subseteq Int
        /\ \A b \in Int : b \in FreeBytes' <=> b \in FreeBytes \cup Bytes(r)
    BY <1>1, <2>1, <2>2, FreeBytesNow, FreeBytesNext, BytesOfLive
  <2> QED
    BY <2>3
<1>6. {stored(q) : q \in live}' = {stored(q) : q \in live} \ {stored(r)}
  <2>1. \A q \in live : stored(q) = stored(r) => q = r
    BY <1>1, StoredApart
  <2> QED
    BY <1>2, <2>1 DEF stored, pointer
<1>7. Store!Bytes(stored(r)) = Bytes(r)
  BY <1>1, StoredApart
<1> QED
  BY <1>5, <1>6, <1>7 DEF Store!Free, stored

LEMMA StepRefines ==
  ASSUME HeapInv, IdsFresh, [KernelNext]_<<vars, hook_vars>>
  PROVE  [Store!Next]_(Store!vars)
<1>1. Owned /\ HeapStep
  BY KernelStep DEF HeapInv
<1>2. ASSUME UNCHANGED <<list, ids, live>>  PROVE UNCHANGED Store!vars
  BY <1>2 DEF Store!vars, FreeBytes, linked, pointer
<1>3. ASSUME NEW a \in Arena \ linked, accepted(a), link(a)  PROVE Store!Next
  BY <1>1, <1>3, LinkRefines DEF Store!Next
<1>4. ASSUME NEW a \in linked, NEW size \in Nat, NEW align \in Nat,
             NEW s \in hits(a, size, align), allocs < AllocBudget,
             take(a, s, needed_divs(a, size))
      PROVE  Store!Next
  BY <1>1, <1>4, TakeRefines DEF Store!Next
<1>5. ASSUME NEW r \in live, free(pointer(r))  PROVE Store!Next
  BY <1>1, <1>5, FreeRefines DEF Store!Next
<1>6. ASSUME NEW why, panic(why)  PROVE UNCHANGED Store!vars
  BY <1>2, <1>6 DEF panic
<1>7. CASE UNCHANGED vars
  BY <1>2, <1>7 DEF vars
<1> QED
  BY <1>1, <1>2, <1>3, <1>4, <1>5, <1>6, <1>7 DEF HeapStep

LEMMA InitRefines ==
  ASSUME KernelInit
  PROVE  Store!Init
<1>1. linked = {} /\ live = {}
  BY DEF KernelInit, Init, linked
<1>2. FreeBytes = {}
  <2>1. \A a \in linked : FALSE
    BY <1>1
  <2> QED
    BY <1>1 DEF FreeBytes
<1> QED
  BY <1>1, <1>2 DEF Store!Init

\* As long as no id has been given out twice, the heap behind new, delete,
\* malloc and free is the abstract one: an allocation takes bytes that were
\* free, and a free gives back exactly those.
THEOREM HeapRefinement == KernelSpec /\ []IdsFresh => ImplementsHeapStore
<1>1. KernelSpec /\ []IdsFresh => Store!Spec
  <2>1. KernelInit => Store!Init
    BY InitRefines
  <2>2. HeapInv /\ IdsFresh /\ [KernelNext]_<<vars, hook_vars>>
          => [Store!Next]_(Store!vars)
    BY StepRefines
  <2> QED
    BY <2>1, <2>2, HeapInvariance, PTL DEF KernelSpec, Store!Spec
<1> QED
  BY <1>1 DEF ImplementsHeapStore

-----------------------------------------------------------------------------
(* The scan of one block in BmHeap::alloc.                                 *)

\* While scanning, the current run is aligned, unused and too short, and no
\* position before it fits.
Scanned == IF run_len = 0 THEN index ELSE run_start

RunInv ==
  pc = "scan" =>
    /\ run_len < needed
    /\ run_len # 0 => /\ run_start = index - run_len /\ run_start \in aligned
                      /\ \A d \in run_start .. index - 1 : d \notin used
    /\ \A t \in 0 .. Scanned - 1 : ~Fits(t)

ScanInv == ScanTypeOK /\ RunInv /\ HitIsLeftmostFit /\ MissMeansNoFit

LEMMA ScanInitInv == ScanInit => ScanInv
  BY ScanAssumption
     DEF ScanInit, ScanInv, ScanTypeOK, RunInv, Scanned, HitIsLeftmostFit, MissMeansNoFit

LEMMA ScanNextInv == ScanInv /\ [ScanNext]_scan_vars => ScanInv'
<1> SUFFICES ASSUME ScanInv, [ScanNext]_scan_vars PROVE ScanInv'
  OBVIOUS
<1>0. DivCount \in Nat
  BY ScanAssumption
<1>1. ScanTypeOK /\ RunInv
  BY DEF ScanInv
<1>2. \A t : UNCHANGED input => (Fits(t)' <=> Fits(t))
  BY DEF input, Fits
<1>3. CASE SkipUsed
  <2>1. ASSUME NEW t \in 0 .. index, t >= Scanned PROVE ~Fits(t)
    <3>1. t <= index /\ index <= t + needed - 1
      BY <1>0, <1>1, <1>3, <2>1 DEF ScanTypeOK, RunInv, Scanned, SkipUsed
    <3> QED
      BY <1>0, <1>1, <1>3, <3>1 DEF ScanTypeOK, SkipUsed, Fits
  <2>2. \A t \in 0 .. index : ~Fits(t)
    BY <1>0, <1>1, <1>3, <2>1 DEF ScanTypeOK, RunInv, Scanned, SkipUsed
  <2>3. ScanTypeOK'
    BY <1>0, <1>1, <1>3 DEF ScanTypeOK, SkipUsed, input
  <2>4. RunInv'
    BY <1>0, <1>1, <1>2, <1>3, <2>2 DEF ScanTypeOK, RunInv, Scanned, SkipUsed, input
  <2> QED
    BY <1>3, <2>3, <2>4 DEF ScanInv, HitIsLeftmostFit, MissMeansNoFit, SkipUsed
<1>4. CASE SkipUnaligned
  <2>1. ~Fits(index)
    BY <1>4 DEF SkipUnaligned, Fits
  <2>2. ScanTypeOK'
    BY <1>0, <1>1, <1>4 DEF ScanTypeOK, SkipUnaligned, input
  <2>3. RunInv'
    BY <1>0, <1>1, <1>2, <1>4, <2>1 DEF ScanTypeOK, RunInv, Scanned, SkipUnaligned, input
  <2> QED
    BY <1>4, <2>2, <2>3 DEF ScanInv, HitIsLeftmostFit, MissMeansNoFit, SkipUnaligned
<1>5. CASE Count
  <2>1. run_len' = run_len + 1 /\ run_start' = index - run_len /\ run_start' \in aligned
        /\ \A d \in run_start' .. index : d \notin used
    BY <1>0, <1>1, <1>5 DEF ScanTypeOK, RunInv, Count
  <2>2. \A t \in 0 .. run_start' - 1 : ~Fits(t)
    BY <1>0, <1>1, <1>5, <2>1 DEF ScanTypeOK, RunInv, Scanned, Count
  <2>3. ScanTypeOK'
    BY <1>0, <1>1, <1>5, <2>1 DEF ScanTypeOK, RunInv, Count, input, ScanDivs
  <2>4. CASE run_len' >= needed
    <3>1. pc' = "hit" /\ run_len' = needed
      BY <1>0, <1>1, <1>5, <2>1, <2>4 DEF ScanTypeOK, RunInv, Count
    <3>2. Fits(run_start')
      BY <1>0, <1>1, <1>5, <2>1, <3>1 DEF ScanTypeOK, Count, Fits
    <3>3. HitIsLeftmostFit'
      BY <1>2, <1>5, <2>2, <3>2 DEF HitIsLeftmostFit, Count, Fits, input
    <3> QED
      BY <2>3, <3>1, <3>3 DEF ScanInv, RunInv, MissMeansNoFit
  <2>5. CASE ~(run_len' >= needed)
    <3>1. pc' = "scan" /\ index' = index + 1 /\ UNCHANGED input
      BY <1>5, <2>5 DEF Count
    <3>2. RunInv'
      BY <1>0, <1>1, <1>2, <2>1, <2>2, <2>5, <3>1
         DEF ScanTypeOK, RunInv, Scanned, input
    <3> QED
      BY <2>3, <3>1, <3>2 DEF ScanInv, HitIsLeftmostFit, MissMeansNoFit
  <2> QED
    BY <2>4, <2>5
<1>6. CASE Miss
  <2>1. \A t \in ScanDivs : ~Fits(t)
    BY <1>0, <1>1, <1>6 DEF ScanTypeOK, RunInv, Scanned, Miss, Fits, ScanDivs
  <2> QED
    BY <1>1, <1>2, <1>6, <2>1
       DEF ScanInv, ScanTypeOK, RunInv, HitIsLeftmostFit, MissMeansNoFit, Miss, input
<1>7. CASE UNCHANGED scan_vars
  BY <1>7 DEF ScanInv, ScanTypeOK, RunInv, Scanned, HitIsLeftmostFit, MissMeansNoFit,
     Fits, scan_vars
<1> QED
  BY <1>3, <1>4, <1>5, <1>6, <1>7 DEF ScanNext

\* Every step of the loop of BmHeap::alloc keeps the invariant of the scan.
THEOREM ScanInvariance == ScanSpec => []ScanInv
  BY ScanInitInv, ScanNextInv, PTL DEF ScanSpec

\* The pointer alloc returns is the leftmost aligned run of unused divisions
\* that is long enough, in a block of any size and for any alignment.
THEOREM ScanFindsLeftmost == ScanSpec => []HitIsLeftmostFit
<1>1. ScanInv => HitIsLeftmostFit
  BY DEF ScanInv
<1> QED
  BY <1>1, ScanInvariance, PTL

\* alloc gives a block up only when the request fits nowhere in it.
THEOREM ScanIsComplete == ScanSpec => []MissMeansNoFit
<1>1. ScanInv => MissMeansNoFit
  BY DEF ScanInv
<1> QED
  BY <1>1, ScanInvariance, PTL
=============================================================================
