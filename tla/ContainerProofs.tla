--------------------------- MODULE ContainerProofs ---------------------------
(***************************************************************************)
(* The gap buffer is a text with a cursor, for any characters, gap size,   *)
(* initial capacity and powers of two; a string reads as its text, for any *)
(* characters and any bound on its length; __udivmoddi4 divides exactly,   *)
(* for a word of every width.                                              *)
(***************************************************************************)
EXTENDS GapBuffer, StringBuffer, Division, Arithmetic, SequenceTheorems, TLAPS

-----------------------------------------------------------------------------
(* The gap buffer: the inductive invariant.                                *)

\* A buffer is an array, its capacity and the end of its gap.  It is good if
\* prefix, gap and suffix fit in the array in that order.
Fits(b) ==
  /\ b.capacity \in Nat /\ b.gap_end \in Nat
  /\ gap_begin <= b.gap_end
  /\ b.gap_end + (length - gap_begin) <= b.capacity
  /\ b.store \in [0 .. b.capacity - 1 -> Char \cup {Junk}]

\* What b holds at index idx of the text.
AtIn(b, idx) == IF idx < gap_begin THEN b.store[idx]
                                   ELSE b.store[b.gap_end + idx - gap_begin]

SizesOK == length \in 0 .. MaxLength /\ gap_begin \in 0 .. length

GapInv ==
  /\ SizesOK
  /\ Fits(as_is)
  /\ \A idx \in 0 .. length - 1 : At(idx) \in Char

LEMMA Constants ==
  /\ GapSize \in Nat \ {0} /\ MaxLength \in Nat /\ MaxItems \in Nat
  /\ InitialCapacity \in Nat /\ InitialCapacity >= GapSize
  BY GapAssumption

LEMMA AsIs ==
  /\ as_is.store = store /\ as_is.capacity = capacity /\ as_is.gap_end = gap_end
  /\ \A idx : AtIn(as_is, idx) = At(idx)
  BY DEF as_is, AtIn, At, prefix_len

\* clp2 rounds up.
LEMMA Clp2 ==
  ASSUME NEW x \in 0 .. 2 * MaxLength + MaxItems + GapSize
  PROVE  clp2(x) \in Nat /\ x <= clp2(x)
<1> DEFINE T == {p \in Powers : p >= x}
<1>1. T \in SUBSET Nat /\ T # {}
  BY GapAssumption
<1>2. \E p \in T : \A q \in T : p <= q
  <2> HIDE DEF T
  <2> QED
    BY <1>1, LeastNat
<1>3. \E p \in Powers : p >= x /\ \A q \in Powers : q >= x => p <= q
  BY <1>2
<1>4. clp2(x) \in Powers /\ clp2(x) >= x
  BY <1>3 DEF clp2
<1> QED
  BY <1>4, GapAssumption

\* memmove writes n slots and leaves the others alone.
LEMMA MemMove ==
  ASSUME NEW S, NEW m \in Nat, NEW f \in [0 .. m - 1 -> S],
         NEW dst \in Nat, NEW src \in Nat, NEW n \in Nat,
         dst + n <= m, src + n <= m
  PROVE  LET g == memmove(f, dst, src, n)
         IN  /\ g \in [0 .. m - 1 -> S]
             /\ \A k \in 0 .. m - 1 :
                  g[k] = IF dst <= k /\ k < dst + n THEN f[k - dst + src] ELSE f[k]
<1>1. DOMAIN f = 0 .. m - 1
  OBVIOUS
<1>2. \A k \in 0 .. m - 1 : dst <= k /\ k < dst + n => k - dst + src \in 0 .. m - 1
  OBVIOUS
<1> QED
  BY <1>1, <1>2 DEF memmove

\* Growing keeps the text and makes room for extend items.
LEMMA GrownFits ==
  ASSUME SizesOK, Fits(as_is), NEW extend \in 0 .. MaxLength + MaxItems,
         length + extend <= 2 * MaxLength + MaxItems
  PROVE  LET g == grown(extend)
         IN  /\ Fits(g) /\ gap_begin + extend <= g.gap_end
             /\ \A idx \in 0 .. length - 1 : AtIn(g, idx) = At(idx)
<1> DEFINE end == new_gap_end(extend)
           cap == new_cap(extend)
           suffix == length - prefix_len
           g == grown(extend)
<1>1. /\ length \in Nat /\ gap_begin \in Nat /\ gap_begin <= length /\ extend \in Nat
      /\ suffix \in Nat /\ suffix = length - gap_begin /\ prefix_len = gap_begin
  BY Constants DEF SizesOK, prefix_len
<1>2. /\ capacity \in Nat /\ gap_end \in Nat /\ gap_begin <= gap_end
      /\ gap_end + suffix <= capacity /\ store \in [0 .. capacity - 1 -> Char \cup {Junk}]
  BY <1>1, AsIs DEF Fits
<1>3. /\ end \in Nat /\ gap_begin + extend <= end
      /\ end + suffix <= length + extend + GapSize
  BY <1>1, Constants DEF new_gap_end
<1>4. cap \in Nat /\ length + extend + GapSize <= cap
  <2>1. length + extend + GapSize \in 0 .. 2 * MaxLength + MaxItems + GapSize
    BY <1>1, Constants
  <2> QED
    BY <2>1, Clp2 DEF new_cap
<1> HIDE DEF end, cap, suffix
<1>5. CASE cap <= capacity
  <2>1. g.store = memmove(store, end, gap_end, suffix) /\ g.capacity = capacity
        /\ g.gap_end = end
    BY <1>5 DEF grown, end, cap, suffix
  <2>2. end + suffix <= capacity
    BY <1>1, <1>2, <1>3, <1>4, <1>5, Constants
  <2>3. g.store \in [0 .. capacity - 1 -> Char \cup {Junk}]
    <3> DEFINE Cell == Char \cup {Junk}
    <3>1. store \in [0 .. capacity - 1 -> Cell]
      BY <1>2
    <3> HIDE DEF Cell
    <3>2. memmove(store, end, gap_end, suffix) \in [0 .. capacity - 1 -> Cell]
      BY <1>1, <1>2, <1>3, <2>2, <3>1, MemMove
    <3> QED
      BY <2>1, <3>2 DEF Cell
  <2>4. \A k \in 0 .. capacity - 1 :
          g.store[k] = IF end <= k /\ k < end + suffix THEN store[k - end + gap_end]
                                                       ELSE store[k]
    BY <1>2, <2>1 DEF memmove
  <2> HIDE DEF g
  <2>5. Fits(g)
    <3>1. g.gap_end + (length - gap_begin) <= g.capacity
      BY <1>1, <2>1, <2>2
    <3> QED
      BY <1>1, <1>2, <1>3, <2>1, <2>3, <3>1 DEF Fits
  <2>6. ASSUME NEW idx \in 0 .. length - 1  PROVE AtIn(g, idx) = At(idx)
    <3>1. CASE idx < gap_begin
      <4>1. idx \in 0 .. capacity - 1 /\ ~ (end <= idx)
        BY <1>1, <1>2, <1>3, <3>1
      <4> QED
        BY <1>1, <2>4, <3>1, <4>1 DEF AtIn, At
    <3>2. CASE ~ (idx < gap_begin)
      <4> DEFINE j == end + idx - gap_begin
      <4>1. /\ j \in 0 .. capacity - 1 /\ end <= j /\ j < end + suffix
            /\ j - end + gap_end = gap_end + idx - gap_begin
        BY <1>1, <1>2, <1>3, <2>2, <3>2
      <4> HIDE DEF j
      <4>2. g.store[j] = store[gap_end + idx - gap_begin]
        BY <2>4, <4>1
      <4> QED
        BY <1>1, <2>1, <3>2, <4>2 DEF AtIn, At, j
    <3> QED
      BY <3>1, <3>2
  <2> QED
    BY <1>3, <2>1, <2>5, <2>6 DEF g
<1>6. CASE ~ (cap <= capacity)
  <2>1. /\ g.store = [k \in 0 .. cap - 1 |->
                        CASE k < prefix_len -> store[k]
                          [] end <= k /\ k < end + suffix -> store[k - end + gap_end]
                          [] OTHER -> Junk]
        /\ g.capacity = cap /\ g.gap_end = end
    BY <1>6 DEF grown, end, cap, suffix
  <2>2. end + suffix <= cap
    BY <1>1, <1>3, <1>4, Constants
  <2> HIDE DEF g
  <2>3. /\ \A k \in 0 .. cap - 1 : k < gap_begin => g.store[k] = store[k]
        /\ \A k \in 0 .. cap - 1 :
             end <= k /\ k < end + suffix => g.store[k] = store[k - end + gap_end]
    <3>1. \A k \in 0 .. cap - 1 : ~ (k < gap_begin /\ end <= k)
      BY <1>1, <1>3
    <3> QED
      BY <1>1, <2>1, <3>1
  <2>4. g.store \in [0 .. cap - 1 -> Char \cup {Junk}]
    <3>1. ASSUME NEW k \in 0 .. cap - 1
          PROVE  (CASE k < prefix_len -> store[k]
                    [] end <= k /\ k < end + suffix -> store[k - end + gap_end]
                    [] OTHER -> Junk) \in Char \cup {Junk}
      <4>1. k < prefix_len => store[k] \in Char \cup {Junk}
        BY <1>1, <1>2
      <4>2. end <= k /\ k < end + suffix => store[k - end + gap_end] \in Char \cup {Junk}
        BY <1>1, <1>2, <1>3
      <4> QED
        BY <4>1, <4>2
    <3> QED
      BY <2>1, <3>1
  <2>5. Fits(g)
    <3>1. g.gap_end + (length - gap_begin) <= g.capacity
      BY <1>1, <2>1, <2>2
    <3>2. g.capacity \in Nat /\ g.gap_end \in Nat /\ gap_begin <= g.gap_end
      BY <1>1, <1>3, <1>4, <2>1
    <3>3. g.store \in [0 .. g.capacity - 1 -> Char \cup {Junk}]
      BY <2>1, <2>4
    <3> QED
      BY <3>1, <3>2, <3>3 DEF Fits
  <2>6. ASSUME NEW idx \in 0 .. length - 1  PROVE AtIn(g, idx) = At(idx)
    <3>1. CASE idx < gap_begin
      <4>1. idx \in 0 .. cap - 1
        BY <1>1, <1>3, <1>4, <2>2, <3>1
      <4> QED
        BY <1>1, <2>3, <3>1, <4>1 DEF AtIn, At
    <3>2. CASE ~ (idx < gap_begin)
      <4> DEFINE j == end + idx - gap_begin
      <4>1. /\ j \in 0 .. cap - 1 /\ end <= j /\ j < end + suffix
            /\ j - end + gap_end = gap_end + idx - gap_begin
        BY <1>1, <1>2, <1>3, <1>4, <2>2, <3>2
      <4> HIDE DEF j
      <4>2. g.store[j] = store[gap_end + idx - gap_begin]
        BY <2>3, <4>1
      <4> QED
        BY <1>1, <2>1, <3>2, <4>2 DEF AtIn, At, j
    <3> QED
      BY <3>1, <3>2
  <2> QED
    BY <1>3, <2>1, <2>5, <2>6 DEF g
<1> QED
  BY <1>5, <1>6

-----------------------------------------------------------------------------
(* What each operation does to the text, one index at a time.              *)

LEMMA Sizes ==
  ASSUME GapInv
  PROVE  /\ length \in Nat /\ length <= MaxLength /\ gap_begin \in Nat /\ gap_begin <= length
         /\ capacity \in Nat /\ gap_end \in Nat /\ gap_begin <= gap_end
         /\ gap_end + (length - gap_begin) <= capacity
         /\ store \in [0 .. capacity - 1 -> Char \cup {Junk}]
         /\ MaxLength \in Nat /\ MaxItems \in Nat
         /\ prefix_len = gap_begin /\ gap_width = gap_end - gap_begin
<1>1. length \in 0 .. MaxLength /\ gap_begin \in 0 .. length
  BY DEF GapInv, SizesOK
<1>2. Fits(as_is)
  BY DEF GapInv
<1>3. /\ capacity \in Nat /\ gap_end \in Nat /\ gap_begin <= gap_end
      /\ gap_end + (length - gap_begin) <= capacity
      /\ store \in [0 .. capacity - 1 -> Char \cup {Junk}]
  BY <1>2, AsIs DEF Fits
<1> QED
  BY <1>1, <1>3, Constants DEF prefix_len, gap_width

\* The invariant of the state after a step, from its parts.
LEMMA GapInvNext ==
  ASSUME length' \in 0 .. MaxLength, gap_begin' \in 0 .. length',
         capacity' \in Nat, gap_end' \in Nat, gap_begin' <= gap_end',
         gap_end' + (length' - gap_begin') <= capacity',
         store' \in [0 .. capacity' - 1 -> Char \cup {Junk}],
         \A idx \in 0 .. length' - 1 : At(idx)' \in Char
  PROVE  GapInv'
  BY DEF GapInv, SizesOK, Fits, as_is

\* The buffer an operation works on: the one there is, or the one grown for it.
LEMMA RoomFits ==
  ASSUME GapInv, NEW extend \in 0 .. MaxLength + MaxItems,
         length + extend <= 2 * MaxLength + MaxItems,
         NEW b, b = as_is \/ b = grown(extend)
  PROVE  Fits(b) /\ \A idx \in 0 .. length - 1 : AtIn(b, idx) = At(idx)
  BY AsIs, GrownFits DEF GapInv

\* The characters of items appear at the cursor, the rest stays in order.
Inserted(items) ==
  LET n == Len(items)
  IN  /\ n \in 1 .. MaxItems /\ length' = length + n /\ gap_begin' = gap_begin + n
      /\ \A k \in 1 .. n : items[k] \in Char
      /\ \A idx \in 0 .. length + n - 1 :
           At(idx)' = IF idx < gap_begin THEN At(idx)
                      ELSE IF idx < gap_begin + n THEN items[idx - gap_begin + 1]
                      ELSE At(idx - n)

LEMMA InsertText ==
  ASSUME GapInv, NEW items \in Items, insert(items)
  PROVE  GapInv' /\ Inserted(items)
<1> DEFINE n == Len(items)
           b == IF gap_width >= n THEN as_is ELSE grown(n)
<1>1. /\ n \in 1 .. MaxItems /\ n \in Nat /\ 1 <= n /\ n <= MaxItems
      /\ \A k \in 1 .. n : items[k] \in Char
  <2>1. PICK m \in 1 .. MaxItems : items \in [1 .. m -> Char]
    BY DEF Items
  <2>2. n = m
    BY <2>1
  <2> QED
    BY <2>1, <2>2, Constants
<1>2. /\ length + n <= MaxLength
      /\ store' = [k \in DOMAIN b.store |->
                     IF gap_begin <= k /\ k < gap_begin + n
                       THEN items[k - gap_begin + 1] ELSE b.store[k]]
      /\ capacity' = b.capacity /\ gap_end' = b.gap_end
      /\ gap_begin' = gap_begin + n /\ length' = length + n
  BY DEF insert
<1>3. /\ length \in Nat /\ length <= MaxLength /\ gap_begin \in Nat /\ gap_begin <= length
      /\ gap_end \in Nat /\ gap_width = gap_end - gap_begin /\ MaxLength \in Nat
      /\ MaxItems \in Nat
  BY Sizes
<1> HIDE DEF n
<1>4. Fits(b) /\ \A idx \in 0 .. length - 1 : AtIn(b, idx) = At(idx)
  <2>1. n \in 0 .. MaxLength + MaxItems /\ length + n <= 2 * MaxLength + MaxItems
    BY <1>1, <1>2, <1>3
  <2> QED
    BY <2>1, RoomFits
<1>5. gap_begin + n <= b.gap_end
  <2>1. CASE gap_width >= n
    BY <1>1, <1>3, <2>1, AsIs
  <2>2. CASE ~ (gap_width >= n)
    <3>1. n \in 0 .. MaxLength + MaxItems /\ length + n <= 2 * MaxLength + MaxItems
      BY <1>1, <1>2, <1>3
    <3> QED
      BY <2>2, <3>1, GrownFits DEF GapInv
  <2> QED
    BY <2>1, <2>2
<1> HIDE DEF b
<1>6. /\ b.capacity \in Nat /\ b.gap_end \in Nat
      /\ b.gap_end + (length - gap_begin) <= b.capacity
      /\ b.store \in [0 .. b.capacity - 1 -> Char \cup {Junk}]
  BY <1>4 DEF Fits
<1>7. \A k \in 0 .. b.capacity - 1 :
        store'[k] = IF gap_begin <= k /\ k < gap_begin + n
                      THEN items[k - gap_begin + 1] ELSE b.store[k]
  BY <1>2, <1>6
<1>8. store' \in [0 .. b.capacity - 1 -> Char \cup {Junk}]
  <2>1. ASSUME NEW k \in 0 .. b.capacity - 1
        PROVE  (IF gap_begin <= k /\ k < gap_begin + n
                  THEN items[k - gap_begin + 1] ELSE b.store[k]) \in Char \cup {Junk}
    <3>1. gap_begin <= k /\ k < gap_begin + n => k - gap_begin + 1 \in 1 .. n
      BY <1>1, <1>3
    <3> QED
      BY <1>1, <1>6, <3>1
  <2> QED
    BY <1>2, <1>6, <2>1
<1>9. ASSUME NEW idx \in 0 .. length + n - 1
      PROVE  At(idx)' = IF idx < gap_begin THEN At(idx)
                        ELSE IF idx < gap_begin + n THEN items[idx - gap_begin + 1]
                        ELSE At(idx - n)
  <2>1. At(idx)' = IF idx < gap_begin + n THEN store'[idx]
                   ELSE store'[b.gap_end + idx - (gap_begin + n)]
    BY <1>2 DEF At, prefix_len
  <2>2. CASE idx < gap_begin + n
    <3>1. idx \in 0 .. b.capacity - 1 /\ idx \in Int
      BY <1>1, <1>3, <1>5, <1>6, <2>2
    <3>2. CASE idx < gap_begin
      <4>1. idx \in 0 .. length - 1 /\ ~ (gap_begin <= idx)
        BY <1>3, <3>1, <3>2
      <4>2. At(idx)' = b.store[idx]
        BY <1>7, <2>1, <2>2, <3>1, <4>1
      <4> QED
        BY <1>4, <3>2, <4>1, <4>2 DEF AtIn
    <3>3. CASE ~ (idx < gap_begin)
      BY <1>3, <1>7, <2>1, <2>2, <3>1, <3>3
    <3> QED
      BY <3>2, <3>3
  <2>3. CASE ~ (idx < gap_begin + n)
    <3> DEFINE j == b.gap_end + idx - (gap_begin + n)
    <3>1. /\ j \in 0 .. b.capacity - 1 /\ ~ (j < gap_begin + n) /\ ~ (idx < gap_begin)
          /\ idx - n \in 0 .. length - 1 /\ ~ (idx - n < gap_begin)
          /\ j = b.gap_end + (idx - n) - gap_begin
      BY <1>1, <1>3, <1>5, <1>6, <2>3
    <3> HIDE DEF j
    <3>2. At(idx)' = b.store[j]
      BY <1>7, <2>1, <2>3, <3>1 DEF j
    <3> QED
      BY <1>4, <2>3, <3>1, <3>2 DEF AtIn
  <2> QED
    BY <2>2, <2>3
<1>10. Inserted(items)
  BY <1>1, <1>2, <1>9 DEF Inserted, n
<1>11. GapInv'
  <2>1. /\ length' \in 0 .. MaxLength /\ gap_begin' \in 0 .. length'
        /\ capacity' \in Nat /\ gap_end' \in Nat /\ gap_begin' <= gap_end'
        /\ gap_end' + (length' - gap_begin') <= capacity'
    BY <1>1, <1>2, <1>3, <1>5, <1>6
  <2>2. \A idx \in 0 .. length' - 1 : At(idx)' \in Char
    <3> TAKE idx \in 0 .. length' - 1
    <3>1. idx \in 0 .. length + n - 1
      BY <1>1, <1>2, <1>3
    <3>2. idx < gap_begin => At(idx) \in Char
      <4>1. idx < gap_begin => idx \in 0 .. length - 1
        BY <1>3, <3>1
      <4> QED
        BY <4>1 DEF GapInv
    <3>3. ~ (idx < gap_begin) /\ idx < gap_begin + n => items[idx - gap_begin + 1] \in Char
      <4>1. ~ (idx < gap_begin) /\ idx < gap_begin + n => idx - gap_begin + 1 \in 1 .. n
        BY <1>1, <1>3, <3>1
      <4> QED
        BY <1>1, <4>1
    <3>4. ~ (idx < gap_begin + n) => At(idx - n) \in Char
      <4>1. ~ (idx < gap_begin + n) => idx - n \in 0 .. length - 1
        BY <1>1, <1>3, <3>1
      <4> QED
        BY <4>1 DEF GapInv
    <3> QED
      BY <1>9, <3>1, <3>2, <3>3, <3>4
  <2> QED
    BY <1>2, <1>8, <2>1, <2>2, GapInvNext
<1> QED
  BY <1>10, <1>11

\* The n characters left of the cursor disappear.
Deleted(n) ==
  /\ n \in 0 .. gap_begin /\ length' = length - n /\ gap_begin' = gap_begin - n
  /\ \A idx \in 0 .. length - n - 1 :
       At(idx)' = IF idx < gap_begin - n THEN At(idx) ELSE At(idx + n)

LEMMA DeleteText ==
  ASSUME GapInv, NEW count \in Nat, delete_left(count)
  PROVE  GapInv' /\ \E n \in 0 .. gap_begin : Deleted(n)
<1> DEFINE n == IF count > prefix_len THEN prefix_len ELSE count
<1>1. /\ length \in Nat /\ length <= MaxLength /\ gap_begin \in Nat /\ gap_begin <= length
      /\ capacity \in Nat /\ gap_end \in Nat /\ gap_begin <= gap_end
      /\ gap_end + (length - gap_begin) <= capacity
      /\ store \in [0 .. capacity - 1 -> Char \cup {Junk}]
      /\ prefix_len = gap_begin /\ MaxLength \in Nat
  BY Sizes
<1>2. /\ gap_begin' = gap_begin - n /\ length' = length - n
      /\ store' = store /\ capacity' = capacity /\ gap_end' = gap_end
  BY DEF delete_left
<1>3. n \in 0 .. gap_begin /\ n \in Nat /\ n <= gap_begin
  BY <1>1
<1> HIDE DEF n
<1>4. ASSUME NEW idx \in 0 .. length - n - 1
      PROVE  At(idx)' = IF idx < gap_begin - n THEN At(idx) ELSE At(idx + n)
  <2>1. At(idx)' = IF idx < gap_begin - n THEN store[idx]
                   ELSE store[gap_end + idx - (gap_begin - n)]
    BY <1>2 DEF At, prefix_len
  <2>2. CASE idx < gap_begin - n
    <3>1. idx < gap_begin
      BY <1>1, <1>3, <2>2
    <3> QED
      BY <1>1, <2>1, <2>2, <3>1 DEF At
  <2>3. CASE ~ (idx < gap_begin - n)
    <3>1. ~ (idx + n < gap_begin)
          /\ gap_end + idx - (gap_begin - n) = gap_end + (idx + n) - gap_begin
      BY <1>1, <1>3, <2>3
    <3> QED
      BY <1>1, <2>1, <2>3, <3>1 DEF At
  <2> QED
    BY <2>2, <2>3
<1>5. Deleted(n)
  BY <1>2, <1>3, <1>4 DEF Deleted
<1>6. GapInv'
  <2>1. /\ length' \in 0 .. MaxLength /\ gap_begin' \in 0 .. length'
        /\ capacity' \in Nat /\ gap_end' \in Nat /\ gap_begin' <= gap_end'
        /\ gap_end' + (length' - gap_begin') <= capacity'
    BY <1>1, <1>2, <1>3
  <2>2. \A idx \in 0 .. length' - 1 : At(idx)' \in Char
    <3> TAKE idx \in 0 .. length' - 1
    <3>1. idx \in 0 .. length - n - 1 /\ idx \in 0 .. length - 1 /\ idx + n \in 0 .. length - 1
      BY <1>1, <1>2, <1>3
    <3>2. At(idx) \in Char /\ At(idx + n) \in Char
      BY <3>1 DEF GapInv
    <3> QED
      BY <1>4, <3>1, <3>2
  <2> QED
    BY <1>1, <1>2, <2>1, <2>2, GapInvNext
<1> QED
  BY <1>3, <1>5, <1>6

\* The gap moves, the text does not.
Kept(at) ==
  /\ length' = length /\ gap_begin' = at
  /\ \A idx \in 0 .. length - 1 : At(idx)' = At(idx)

\* A step that keeps the text keeps the invariant if the sizes are right.
LEMMA KeptInv ==
  ASSUME GapInv, NEW at \in 0 .. length, Kept(at),
         capacity' \in Nat, gap_end' \in Nat, gap_begin' <= gap_end',
         gap_end' + (length' - gap_begin') <= capacity',
         store' \in [0 .. capacity' - 1 -> Char \cup {Junk}]
  PROVE  GapInv'
<1>1. length' \in 0 .. MaxLength /\ gap_begin' \in 0 .. length'
  BY Sizes DEF Kept
<1>2. \A idx \in 0 .. length' - 1 : At(idx)' \in Char
  BY DEF Kept, GapInv
<1> QED
  BY <1>1, <1>2, GapInvNext

LEMMA MoveLeftText ==
  ASSUME GapInv, NEW n \in 1 .. gap_begin, move_left(n)
  PROVE  GapInv' /\ Kept(gap_begin - n)
<1> DEFINE Cell == Char \cup {Junk}
<1>1. /\ length \in Nat /\ gap_begin \in Nat /\ gap_begin <= length
      /\ capacity \in Nat /\ gap_end \in Nat /\ gap_begin <= gap_end
      /\ gap_end + (length - gap_begin) <= capacity
      /\ store \in [0 .. capacity - 1 -> Cell]
      /\ prefix_len = gap_begin /\ n \in Nat /\ n <= gap_begin
  BY Sizes
<1>2. /\ store' = memmove(store, gap_end - n, gap_begin - n, n)
      /\ gap_begin' = gap_begin - n /\ gap_end' = gap_end - n
      /\ capacity' = capacity /\ length' = length
  <2>1. (IF n > prefix_len THEN prefix_len ELSE n) = n
    BY <1>1
  <2> QED
    BY <2>1 DEF move_left
<1> HIDE DEF Cell
<1>3. /\ gap_end - n \in Nat /\ gap_begin - n \in Nat
      /\ (gap_end - n) + n <= capacity /\ (gap_begin - n) + n <= capacity
  BY <1>1
<1>4. /\ store' \in [0 .. capacity - 1 -> Cell]
      /\ \A k \in 0 .. capacity - 1 :
           store'[k] = IF gap_end - n <= k /\ k < (gap_end - n) + n
                         THEN store[k - (gap_end - n) + (gap_begin - n)] ELSE store[k]
  <2> DEFINE dst == gap_end - n
             src == gap_begin - n
  <2>1. /\ dst \in Nat /\ src \in Nat /\ dst + n <= capacity /\ src + n <= capacity
        /\ store' = memmove(store, dst, src, n)
    BY <1>2, <1>3
  <2>2. n \in Nat /\ capacity \in Nat /\ store \in [0 .. capacity - 1 -> Cell]
    BY <1>1
  <2> HIDE DEF dst, src
  <2>3. store' \in [0 .. capacity - 1 -> Cell]
    BY <2>1, <2>2, MemMove
  <2>4. \A k \in 0 .. capacity - 1 :
          store'[k] = IF dst <= k /\ k < dst + n THEN store[k - dst + src] ELSE store[k]
    BY <2>1, <2>2 DEF memmove
  <2> QED
    BY <2>3, <2>4 DEF dst, src
<1>5. ASSUME NEW idx \in 0 .. length - 1  PROVE At(idx)' = At(idx)
  <2> DEFINE j == (gap_end - n) + idx - (gap_begin - n)
  <2>1. At(idx)' = IF idx < gap_begin - n THEN store'[idx] ELSE store'[j]
    BY <1>2 DEF At, prefix_len
  <2>2. CASE idx < gap_begin - n
    <3>1. idx \in 0 .. capacity - 1 /\ idx < gap_begin /\ ~ (gap_end - n <= idx)
      BY <1>1, <2>2
    <3> QED
      BY <1>1, <1>4, <2>1, <2>2, <3>1 DEF At
  <2>3. CASE ~ (idx < gap_begin - n)
    <3>1. /\ j \in 0 .. capacity - 1 /\ j = gap_end + idx - gap_begin
          /\ idx < gap_begin => /\ gap_end - n <= j /\ j < (gap_end - n) + n
                                /\ j - (gap_end - n) + (gap_begin - n) = idx
          /\ ~ (idx < gap_begin) => ~ (j < (gap_end - n) + n)
      BY <1>1, <2>3
    <3> HIDE DEF j
    <3>2. store'[j] = IF idx < gap_begin THEN store[idx] ELSE store[j]
      BY <1>4, <3>1
    <3> QED
      BY <1>1, <2>1, <2>3, <3>1, <3>2 DEF At
  <2> QED
    BY <2>2, <2>3
<1>6. Kept(gap_begin - n)
  BY <1>2, <1>5 DEF Kept
<1>7. GapInv'
  <2>1. /\ gap_begin - n \in 0 .. length /\ capacity' \in Nat /\ gap_end' \in Nat
        /\ gap_begin' <= gap_end' /\ gap_end' + (length' - gap_begin') <= capacity'
    BY <1>1, <1>2
  <2>2. store' \in [0 .. capacity' - 1 -> Char \cup {Junk}]
    BY <1>2, <1>4 DEF Cell
  <2> QED
    BY <1>6, <2>1, <2>2, KeptInv
<1> QED
  BY <1>6, <1>7

\* Whether move_right grows first, by what it takes for the suffix, does not
\* matter to the text.
LEMMA MoveRightText ==
  ASSUME GapInv, NEW n \in 1 .. length - gap_begin, move_right(n)
  PROVE  GapInv' /\ Kept(gap_begin + n)
<1> DEFINE Cell == Char \cup {Junk}
           b == IF n > move_right_suffix_len THEN grown(n) ELSE as_is
<1>1. /\ length \in Nat /\ length <= MaxLength /\ gap_begin \in Nat /\ gap_begin <= length
      /\ MaxLength \in Nat /\ MaxItems \in Nat
      /\ n \in Nat /\ gap_begin + n <= length /\ prefix_len = gap_begin
  BY Sizes
<1>2. /\ store' = memmove(b.store, gap_begin, b.gap_end, n)
      /\ capacity' = b.capacity /\ gap_begin' = gap_begin + n
      /\ gap_end' = b.gap_end + n /\ length' = length
  BY DEF move_right
<1>3. Fits(b) /\ \A idx \in 0 .. length - 1 : AtIn(b, idx) = At(idx)
  <2>1. n \in 0 .. MaxLength + MaxItems /\ length + n <= 2 * MaxLength + MaxItems
    BY <1>1
  <2> QED
    BY <2>1, RoomFits
<1> HIDE DEF b
<1>4. /\ b.capacity \in Nat /\ b.gap_end \in Nat /\ gap_begin <= b.gap_end
      /\ b.gap_end + (length - gap_begin) <= b.capacity
      /\ b.store \in [0 .. b.capacity - 1 -> Cell]
  BY <1>3 DEF Fits
<1> HIDE DEF Cell
<1>5. gap_begin + n <= b.capacity /\ b.gap_end + n <= b.capacity
  BY <1>1, <1>4
<1>6. /\ store' \in [0 .. b.capacity - 1 -> Cell]
      /\ \A k \in 0 .. b.capacity - 1 :
           store'[k] = IF gap_begin <= k /\ k < gap_begin + n
                         THEN b.store[k - gap_begin + b.gap_end] ELSE b.store[k]
  <2> DEFINE from == b.gap_end
             cells == b.store
             m == b.capacity
  <2>1. /\ m \in Nat /\ from \in Nat /\ gap_begin + n <= m /\ from + n <= m
        /\ cells \in [0 .. m - 1 -> Cell] /\ store' = memmove(cells, gap_begin, from, n)
    BY <1>2, <1>4, <1>5
  <2> HIDE DEF from, cells, m
  <2>2. store' \in [0 .. m - 1 -> Cell]
    BY <1>1, <2>1, MemMove
  <2>3. \A k \in 0 .. m - 1 :
          store'[k] = IF gap_begin <= k /\ k < gap_begin + n
                        THEN cells[k - gap_begin + from] ELSE cells[k]
    BY <2>1 DEF memmove
  <2> QED
    BY <2>2, <2>3 DEF from, cells, m
<1>7. ASSUME NEW idx \in 0 .. length - 1  PROVE At(idx)' = At(idx)
  <2> DEFINE j == (b.gap_end + n) + idx - (gap_begin + n)
  <2>1. At(idx)' = IF idx < gap_begin + n THEN store'[idx] ELSE store'[j]
    BY <1>2 DEF At, prefix_len
  <2>2. AtIn(b, idx) = At(idx)
    BY <1>3
  <2>3. CASE idx < gap_begin
    <3>1. idx \in 0 .. b.capacity - 1 /\ idx < gap_begin + n /\ ~ (gap_begin <= idx)
      BY <1>1, <1>4, <2>3
    <3>2. store'[idx] = b.store[idx]
      BY <1>6, <3>1
    <3>3. At(idx)' = b.store[idx]
      BY <2>1, <3>1, <3>2
    <3> QED
      BY <2>2, <2>3, <3>3 DEF AtIn
  <2>4. CASE ~ (idx < gap_begin) /\ idx < gap_begin + n
    <3>1. idx \in 0 .. b.capacity - 1 /\ gap_begin <= idx
          /\ idx - gap_begin + b.gap_end = b.gap_end + idx - gap_begin
      BY <1>1, <1>4, <2>4
    <3>2. store'[idx] = b.store[b.gap_end + idx - gap_begin]
      BY <1>6, <2>4, <3>1
    <3>3. At(idx)' = b.store[b.gap_end + idx - gap_begin]
      BY <2>1, <2>4, <3>2
    <3> QED
      BY <2>2, <2>4, <3>3 DEF AtIn
  <2>5. CASE ~ (idx < gap_begin + n)
    <3>1. /\ j \in 0 .. b.capacity - 1 /\ ~ (j < gap_begin + n) /\ ~ (idx < gap_begin)
          /\ j = b.gap_end + idx - gap_begin
      <4>1. PICK x \in Nat, g \in Nat : x = idx /\ g = b.gap_end
        BY <1>1, <1>4
      <4>2. (g + n) + (x - (gap_begin + n)) = g + (x - gap_begin)
        BY <1>1, <4>1
      <4>3. j = b.gap_end + idx - gap_begin
        BY <4>1, <4>2
      <4> QED
        BY <1>1, <1>4, <2>5, <4>3
    <3> HIDE DEF j
    <3>2. store'[j] = b.store[j]
      BY <1>6, <3>1
    <3> QED
      BY <2>1, <2>2, <2>5, <3>1, <3>2 DEF AtIn
  <2> QED
    BY <2>3, <2>4, <2>5
<1>8. Kept(gap_begin + n)
  BY <1>2, <1>7 DEF Kept
<1>9. GapInv'
  <2>1. /\ gap_begin + n \in 0 .. length /\ capacity' \in Nat /\ gap_end' \in Nat
        /\ gap_begin' <= gap_end' /\ gap_end' + (length' - gap_begin') <= capacity'
    <3>1. /\ gap_begin + n \in 0 .. length /\ b.gap_end + n \in Nat
          /\ gap_begin + n <= b.gap_end + n
          /\ (b.gap_end + n) + (length - (gap_begin + n)) <= b.capacity
      BY <1>1, <1>4
    <3>2. /\ capacity' = b.capacity /\ gap_end' = b.gap_end + n
          /\ gap_begin' = gap_begin + n /\ length' = length /\ b.capacity \in Nat
      BY <1>2, <1>4
    <3> QED
      BY <3>1, <3>2
  <2>2. store' \in [0 .. capacity' - 1 -> Char \cup {Junk}]
    BY <1>2, <1>6 DEF Cell
  <2> QED
    BY <1>8, <2>1, <2>2, KeptInv
<1> QED
  BY <1>8, <1>9

-----------------------------------------------------------------------------
(* The invariant holds.                                                    *)

LEMMA GapInvInit == Init => GapInv
<1> SUFFICES ASSUME Init  PROVE GapInv
  OBVIOUS
<1>1. /\ store = [k \in 0 .. InitialCapacity - 1 |-> Junk] /\ capacity = InitialCapacity
      /\ gap_begin = 0 /\ gap_end = GapSize /\ length = 0
  BY DEF Init
<1>2. SizesOK
  BY <1>1, Constants DEF SizesOK
<1>3. Fits(as_is)
  BY <1>1, Constants, AsIs DEF Fits
<1>4. \A idx \in 0 .. length - 1 : At(idx) \in Char
  BY <1>1
<1> QED
  BY <1>2, <1>3, <1>4 DEF GapInv

\* What move_to comes down to: the gap is at the index, or at the end.
LEMMA MoveToText ==
  ASSUME GapInv, NEW index \in Nat, move_to(index)
  PROVE  GapInv' /\ Kept(IF index >= length THEN length ELSE index)
<1> DEFINE i == IF index >= length THEN length ELSE index
<1>1. length \in Nat /\ gap_begin \in Nat /\ gap_begin <= length /\ i \in Nat /\ i <= length
  BY Sizes
<1>2. IF i < gap_begin THEN move_left(gap_begin - i)
      ELSE IF i > gap_begin THEN move_right(i - gap_begin) ELSE UNCHANGED vars
  BY DEF move_to
<1> HIDE DEF i
<1>3. CASE i < gap_begin
  <2>1. gap_begin - i \in 1 .. gap_begin /\ gap_begin - (gap_begin - i) = i
    BY <1>1, <1>3
  <2>2. GapInv' /\ Kept(gap_begin - (gap_begin - i))
    BY <1>2, <1>3, <2>1, MoveLeftText
  <2> QED
    BY <2>1, <2>2 DEF i
<1>4. CASE i > gap_begin
  <2>1. i - gap_begin \in 1 .. length - gap_begin /\ gap_begin + (i - gap_begin) = i
        /\ ~ (i < gap_begin)
    BY <1>1, <1>4
  <2>2. GapInv' /\ Kept(gap_begin + (i - gap_begin))
    BY <1>2, <1>4, <2>1, MoveRightText
  <2> QED
    BY <2>1, <2>2 DEF i
<1>5. CASE i = gap_begin
  <2>1. UNCHANGED vars
    BY <1>1, <1>2, <1>5
  <2>2. Kept(i)
    BY <1>5, <2>1 DEF vars, Kept, At, prefix_len
  <2>3. GapInv'
    BY <2>1 DEF vars, GapInv, SizesOK, Fits, as_is, At, prefix_len
  <2> QED
    BY <2>2, <2>3 DEF i
<1> QED
  BY <1>1, <1>3, <1>4, <1>5

\* Every step is an insertion, a deletion or a move of the gap.
Steps ==
  \/ \E items \in Items : Inserted(items)
  \/ \E n \in 0 .. gap_begin : Deleted(n)
  \/ \E at \in 0 .. length : Kept(at)

LEMMA GapStep ==
  ASSUME GapInv, [Next]_vars
  PROVE  GapInv' /\ Steps
<1>1. ASSUME NEW items \in Items, insert(items)  PROVE GapInv' /\ Steps
  BY <1>1, InsertText DEF Steps
<1>2. ASSUME NEW count \in 1 .. MaxItems, delete_left(count)  PROVE GapInv' /\ Steps
  <2>1. count \in Nat
    BY Constants
  <2> QED
    BY <1>2, <2>1, DeleteText DEF Steps
<1>3. ASSUME NEW index \in 0 .. MaxLength + 1, move_to(index)  PROVE GapInv' /\ Steps
  <2>1. index \in Nat /\ (IF index >= length THEN length ELSE index) \in 0 .. length
    BY Constants, Sizes
  <2> QED
    BY <1>3, <2>1, MoveToText DEF Steps
<1>4. CASE UNCHANGED vars
  <2>1. GapInv'
    BY <1>4 DEF vars, GapInv, SizesOK, Fits, as_is, At, prefix_len
  <2>2. Kept(gap_begin) /\ gap_begin \in 0 .. length
    BY <1>4, Sizes DEF vars, Kept, At, prefix_len
  <2> QED
    BY <2>1, <2>2 DEF Steps
<1> QED
  BY <1>1, <1>2, <1>3, <1>4 DEF Next

\* The array, its gap and the characters outside it stay as they must be.
THEOREM GapInvariance == Spec => []GapInv
<1>1. Init => GapInv
  BY GapInvInit
<1>2. GapInv /\ [Next]_vars => GapInv'
  BY GapStep
<1> QED
  BY <1>1, <1>2, PTL DEF Spec

\* No index that operator[] accepts is in the gap, past the array or a slot
\* nobody wrote (gap_buffer.hpp), however insert, delete_left and move_to
\* were combined.
THEOREM ReadsAlwaysText == Spec => []ReadsAreText
<1>1. GapInv => ReadsAreText
  <2> SUFFICES ASSUME GapInv  PROVE ReadsAreText
    OBVIOUS
  <2>1. TypeOK
    BY Sizes DEF GapInv, SizesOK, TypeOK, Index
  <2>2. gap_begin <= gap_end /\ gap_end + (length - prefix_len) <= capacity
    BY Sizes
  <2>3. \A idx \in 0 .. length - 1 : At(idx) \in Char
    BY DEF GapInv
  <2> QED
    BY <2>1, <2>2, <2>3 DEF ReadsAreText
<1> QED
  BY <1>1, GapInvariance, PTL

-----------------------------------------------------------------------------
(* The text it implements.                                                 *)

\* t is s with n more elements after position c.
Longer(s, t, c, n) ==
  /\ Len(t) = Len(s) + n /\ \A k \in 1 .. c : t[k] = s[k]
  /\ \A k \in c + n + 1 .. Len(t) : t[k] = s[k - n]

\* z is x, of length p, and y, of length q.
Joined(x, y, z, p, q) ==
  Len(z) = p + q /\ \A k \in 1 .. p + q : z[k] = IF k <= p THEN x[k] ELSE y[k - p]

LEMMA ConcatIs ==
  ASSUME NEW S, NEW x \in Seq(S), NEW y \in Seq(S), NEW p, NEW q, Len(x) = p, Len(y) = q
  PROVE  x \o y \in Seq(S) /\ Joined(x, y, x \o y, p, q)
  BY ConcatProperties DEF Joined

LEMMA Splice ==
  ASSUME NEW S, NEW s \in Seq(S), NEW t \in Seq(S), NEW c \in 0 .. Len(s), NEW n \in Nat,
         Longer(s, t, c, n)
  PROVE  /\ t = SubSeq(s, 1, c) \o SubSeq(t, c + 1, c + n) \o SubSeq(s, c + 1, Len(s))
         /\ Len(SubSeq(t, c + 1, c + n)) = n
<1> DEFINE a == SubSeq(s, 1, c)
           b == SubSeq(t, c + 1, c + n)
           d == SubSeq(s, c + 1, Len(s))
           l == Len(s)
<1> /\ Len(t) = Len(s) + n /\ \A k \in 1 .. c : t[k] = s[k]
    /\ \A k \in c + n + 1 .. Len(t) : t[k] = s[k - n]
  BY DEF Longer
<1>1. l \in Nat /\ c \in Nat /\ c <= l /\ Len(t) = l + n
  BY LenProperties
<1>2. a \in Seq(S) /\ Len(a) = c /\ \A k \in 1 .. c : a[k] = s[k]
  <2>1. \A k \in 1 .. c : s[k] \in S
    BY <1>1, ElementOfSeq
  <2> QED
    BY <1>1, <2>1, SubSeqProperties
<1>3. b \in Seq(S) /\ Len(b) = n /\ \A k \in 1 .. n : b[k] = t[c + k]
  <2>1. \A k \in c + 1 .. c + n : t[k] \in S
    BY <1>1, ElementOfSeq
  <2>2. /\ b \in Seq(S) /\ Len(b) = (IF c + 1 <= c + n THEN c + n - (c + 1) + 1 ELSE 0)
        /\ \A k \in 1 .. c + n - (c + 1) + 1 : b[k] = t[c + 1 + k - 1]
    BY <1>1, <2>1, SubSeqProperties
  <2> HIDE DEF b
  <2>3. Len(b) = n
    BY <1>1, <2>2
  <2>4. ASSUME NEW k \in 1 .. n  PROVE b[k] = t[c + k]
    <3>1. k \in 1 .. c + n - (c + 1) + 1 /\ c + 1 + k - 1 = c + k
      BY <1>1
    <3> QED
      BY <2>2, <3>1
  <2> QED
    BY <2>2, <2>3, <2>4
<1>4. d \in Seq(S) /\ Len(d) = l - c /\ \A k \in 1 .. l - c : d[k] = s[c + k]
  <2>1. \A k \in c + 1 .. l : s[k] \in S
    BY <1>1, ElementOfSeq
  <2>2. /\ d \in Seq(S) /\ Len(d) = (IF c + 1 <= l THEN l - (c + 1) + 1 ELSE 0)
        /\ \A k \in 1 .. l - (c + 1) + 1 : d[k] = s[c + 1 + k - 1]
    BY <1>1, <2>1, SubSeqProperties
  <2> HIDE DEF d
  <2>3. Len(d) = l - c
    BY <1>1, <2>2
  <2>4. ASSUME NEW k \in 1 .. l - c  PROVE d[k] = s[c + k]
    <3>1. k \in 1 .. l - (c + 1) + 1 /\ c + 1 + k - 1 = c + k
      BY <1>1
    <3> QED
      BY <2>2, <3>1
  <2> QED
    BY <2>2, <2>3, <2>4
<1> DEFINE r == l - c
<1> HIDE DEF a, b, d, l
<1>5. /\ a \o b \in Seq(S) /\ Len(a \o b) = c + n
      /\ \A k \in 1 .. c + n : (a \o b)[k] = IF k <= c THEN a[k] ELSE b[k - c]
  <2>1. a \o b \in Seq(S) /\ Joined(a, b, a \o b, c, n)
    BY <1>2, <1>3, ConcatIs
  <2> QED
    BY <2>1 DEF Joined
<1> DEFINE ab == a \o b
<1> HIDE DEF ab
<1>6. /\ ab \o d \in Seq(S) /\ Len(ab \o d) = (c + n) + r
      /\ \A k \in 1 .. (c + n) + r :
           (ab \o d)[k] = IF k <= c + n THEN ab[k] ELSE d[k - (c + n)]
  <2> DEFINE q == c + n
  <2>1. Len(d) = r /\ d \in Seq(S) /\ ab \in Seq(S) /\ Len(ab) = q
    BY <1>4, <1>5 DEF ab
  <2> HIDE DEF r, q
  <2>2. /\ ab \o d \in Seq(S) /\ Len(ab \o d) = q + r
        /\ \A k \in 1 .. q + r : (ab \o d)[k] = IF k <= q THEN ab[k] ELSE d[k - q]
    <3>1. ab \o d \in Seq(S) /\ Joined(ab, d, ab \o d, q, r)
      BY <2>1, ConcatIs
    <3> QED
      BY <3>1 DEF Joined
  <2> QED
    BY <2>2 DEF q
<1> DEFINE u == ab \o d
<1> HIDE DEF u
<1>7. u \in Seq(S) /\ Len(t) = Len(u)
  <2>1. u \in Seq(S) /\ Len(u) = (c + n) + r
    BY <1>6 DEF u
  <2>2. (c + n) + r = Len(t)
    BY <1>1 DEF l, r
  <2> QED
    BY <2>1, <2>2
<1>8. ASSUME NEW k \in 1 .. Len(t)  PROVE t[k] = u[k]
  <2>1. u[k] = IF k <= c + n THEN ab[k] ELSE d[k - (c + n)]
    BY <1>1, <1>6 DEF u
  <2>2. CASE k <= c
    <3>1. k \in 1 .. c /\ k \in 1 .. c + n
      BY <1>1, <2>2
    <3>2. u[k] = ab[k] /\ ab[k] = a[k] /\ a[k] = s[k]
      <4>1. k <= c + n
        BY <3>1
      <4>2. ab[k] = a[k]
        BY <1>5, <2>2, <3>1 DEF ab
      <4> QED
        BY <1>2, <2>1, <3>1, <4>1, <4>2
    <3> QED
      BY <3>1, <3>2
  <2>3. CASE ~ (k <= c) /\ k <= c + n
    <3>1. k - c \in 1 .. n /\ k \in 1 .. c + n /\ c + (k - c) = k
      BY <1>1, <2>3
    <3> QED
      BY <1>3, <1>5, <2>1, <2>3, <3>1 DEF ab
  <2>4. CASE ~ (k <= c + n)
    <3>1. /\ k - (c + n) \in 1 .. l - c /\ c + (k - (c + n)) = k - n
          /\ k \in c + n + 1 .. Len(t)
      BY <1>1, <2>4
    <3> QED
      BY <1>4, <2>1, <2>4, <3>1
  <2> QED
    BY <2>2, <2>3, <2>4
<1>9. t = u
  BY <1>7, <1>8, SeqEqual
<1> QED
  BY <1>3, <1>9 DEF u, ab, a, b, d, l

\* t is s without the n elements before position c + 1.
LEMMA Cut ==
  ASSUME NEW S, NEW s \in Seq(S), NEW t \in Seq(S), NEW c \in 0 .. Len(s), NEW n \in 0 .. c,
         Len(t) = Len(s) - n, \A k \in 1 .. c - n : t[k] = s[k],
         \A k \in c - n + 1 .. Len(t) : t[k] = s[k + n]
  PROVE  t = SubSeq(s, 1, c - n) \o SubSeq(s, c + 1, Len(s))
<1> DEFINE a == SubSeq(s, 1, c - n)
           d == SubSeq(s, c + 1, Len(s))
           l == Len(s)
           m == c - n
<1>1. /\ l \in Nat /\ c \in Nat /\ c <= l /\ n \in Nat /\ n <= c /\ m \in Nat /\ m + n = c
      /\ Len(t) = l - n
  BY LenProperties
<1>2. a \in Seq(S) /\ Len(a) = m /\ \A k \in 1 .. m : a[k] = s[k]
  <2>1. \A k \in 1 .. m : s[k] \in S
    BY <1>1, ElementOfSeq
  <2>2. a = SubSeq(s, 1, m)
    OBVIOUS
  <2> HIDE DEF a, m
  <2> QED
    BY <1>1, <2>1, <2>2, SubSeqProperties
<1>3. d \in Seq(S) /\ Len(d) = l - c /\ \A k \in 1 .. l - c : d[k] = s[c + k]
  <2>1. \A k \in c + 1 .. l : s[k] \in S
    BY <1>1, ElementOfSeq
  <2>2. /\ d \in Seq(S) /\ Len(d) = (IF c + 1 <= l THEN l - (c + 1) + 1 ELSE 0)
        /\ \A k \in 1 .. l - (c + 1) + 1 : d[k] = s[c + 1 + k - 1]
    BY <1>1, <2>1, SubSeqProperties
  <2> HIDE DEF d
  <2>3. Len(d) = l - c
    BY <1>1, <2>2
  <2>4. ASSUME NEW k \in 1 .. l - c  PROVE d[k] = s[c + k]
    <3>1. k \in 1 .. l - (c + 1) + 1 /\ c + 1 + k - 1 = c + k
      BY <1>1
    <3> QED
      BY <2>2, <3>1
  <2> QED
    BY <2>2, <2>3, <2>4
<1>4. /\ \A k \in 1 .. m : t[k] = s[k]
      /\ \A k \in m + 1 .. Len(t) : t[k] = s[k + n]
  OBVIOUS
<1> DEFINE r == l - c
<1> HIDE DEF a, d, l, m
<1>5. /\ a \o d \in Seq(S) /\ Len(a \o d) = m + r
      /\ \A k \in 1 .. m + r : (a \o d)[k] = IF k <= m THEN a[k] ELSE d[k - m]
  <2>1. Len(d) = r
    BY <1>3
  <2> HIDE DEF r
  <2>2. a \o d \in Seq(S) /\ Joined(a, d, a \o d, m, r)
    BY <1>2, <1>3, <2>1, ConcatIs
  <2> QED
    BY <2>2 DEF Joined
<1> DEFINE u == a \o d
<1> HIDE DEF u
<1>6. u \in Seq(S) /\ Len(t) = Len(u)
  <2>1. u \in Seq(S) /\ Len(u) = m + r
    BY <1>5 DEF u
  <2>2. m + r = Len(t)
    BY <1>1
  <2> QED
    BY <2>1, <2>2
<1>7. ASSUME NEW k \in 1 .. Len(t)  PROVE t[k] = u[k]
  <2>1. u[k] = IF k <= m THEN a[k] ELSE d[k - m]
    BY <1>1, <1>5 DEF u
  <2>2. CASE k <= m
    BY <1>1, <1>2, <1>4, <2>1, <2>2
  <2>3. CASE ~ (k <= m)
    <3>1. k - m \in 1 .. l - c /\ c + (k - m) = k + n /\ k \in m + 1 .. Len(t)
      BY <1>1, <2>3
    <3> QED
      BY <1>3, <1>4, <2>1, <2>3, <3>1
  <2> QED
    BY <2>2, <2>3
<1>8. t = u
  BY <1>6, <1>7, SeqEqual
<1> QED
  BY <1>8 DEF u, a, d, l, m

text   == [k \in 1 .. length |-> At(k - 1)]
cursor == gap_begin

TextTyped ==
  /\ text \in Seq(Char) /\ Len(text) = length
  /\ \A k \in 1 .. length : text[k] = At(k - 1)

LEMMA TextIs == GapInv => TextTyped
<1> SUFFICES ASSUME GapInv  PROVE TextTyped
  OBVIOUS
<1>1. length \in Nat
  BY Sizes
<1>2. \A k \in 1 .. length : At(k - 1) \in Char
  <2>1. \A k \in 1 .. length : k - 1 \in 0 .. length - 1
    BY <1>1
  <2> QED
    BY <2>1 DEF GapInv
<1> QED
  BY <1>1, <1>2 DEF TextTyped, text

LEMMA TextIsNext == GapInv' => TextTyped'
  BY TextIs, PTL

LEMMA InsertIsInsert ==
  ASSUME GapInv, GapInv', NEW items \in Items, Inserted(items)
  PROVE  Text!Next
<1> DEFINE n == Len(items)
<1>1. /\ n \in Nat /\ length' = length + n /\ gap_begin' = gap_begin + n
      /\ length \in Nat /\ gap_begin \in Nat /\ gap_begin <= length
  BY Constants, Sizes DEF Inserted
<1>2. text \in Seq(Char) /\ Len(text) = length /\ text' \in Seq(Char) /\ Len(text') = length + n
  <2>1. text' \in Seq(Char) /\ Len(text') = length'
    BY TextIsNext DEF TextTyped
  <2> QED
    BY <1>1, <2>1, TextIs DEF TextTyped
<1>3. \A idx \in 0 .. length + n - 1 :
           At(idx)' = IF idx < gap_begin THEN At(idx)
                      ELSE IF idx < gap_begin + n THEN items[idx - gap_begin + 1]
                      ELSE At(idx - n)
  BY DEF Inserted
<1>4. \A k \in 1 .. length + n : text'[k] = At(k - 1)'
  BY <1>1, TextIsNext DEF TextTyped
<1>5. \A k \in 1 .. length : text[k] = At(k - 1)
  BY TextIs DEF TextTyped
<1> HIDE DEF n
<1>6. ASSUME NEW k \in 1 .. gap_begin  PROVE text'[k] = text[k]
  <2> DEFINE i == k - 1
  <2>1. i \in 0 .. length + n - 1 /\ i < gap_begin /\ k \in 1 .. length + n /\ k \in 1 .. length
    BY <1>1
  <2>2. text'[k] = At(i)' /\ text[k] = At(i)
    BY <1>4, <1>5, <2>1
  <2> HIDE DEF i
  <2> QED
    BY <1>3, <2>1, <2>2
<1>7. ASSUME NEW k \in gap_begin + n + 1 .. Len(text')  PROVE text'[k] = text[k - n]
  <2> DEFINE i == k - 1
             h == k - n
  <2>1. /\ i \in 0 .. length + n - 1 /\ ~ (i < gap_begin) /\ ~ (i < gap_begin + n)
        /\ k \in 1 .. length + n /\ h \in 1 .. length /\ h - 1 = i - n
    BY <1>1, <1>2
  <2>2. text'[k] = At(i)'
    BY <1>4, <2>1
  <2> HIDE DEF i, h
  <2>3. text'[k] = At(h - 1)
    BY <1>3, <2>1, <2>2
  <2>4. text[h] = At(h - 1)
    BY <1>5, <2>1
  <2> QED
    BY <2>3, <2>4 DEF h
<1>8. /\ text' = SubSeq(text, 1, gap_begin)
                   \o SubSeq(text', gap_begin + 1, gap_begin + n)
                   \o SubSeq(text, gap_begin + 1, Len(text))
      /\ Len(SubSeq(text', gap_begin + 1, gap_begin + n)) = n
  <2>1. gap_begin \in 0 .. Len(text) /\ Len(text') = Len(text) + n
    BY <1>1, <1>2
  <2> DEFINE s == text
             t == text'
             c == gap_begin
  <2>2. s \in Seq(Char) /\ t \in Seq(Char) /\ c \in 0 .. Len(s) /\ n \in Nat
    BY <1>1, <1>2, <2>1
  <2>3. Longer(s, t, c, n)
    BY <1>6, <1>7, <2>1 DEF Longer
  <2> HIDE DEF s, t, c
  <2>4. t = SubSeq(s, 1, c) \o SubSeq(t, c + 1, c + n) \o SubSeq(s, c + 1, Len(s))
    BY <2>2, <2>3, Splice
  <2>5. Len(SubSeq(t, c + 1, c + n)) = n
    BY <2>2, <2>3, Splice
  <2> QED
    BY <2>4, <2>5 DEF s, t, c
<1>9. n \in 0 .. Len(text') - Len(text)
  BY <1>1, <1>2
<1>10. Text!Insert(SubSeq(text', gap_begin + 1, gap_begin + n))
  BY <1>1, <1>8 DEF Text!Insert, Text!left, Text!right, text
<1> QED
  BY <1>9, <1>10 DEF Text!Next, text

LEMMA DeleteIsDelete ==
  ASSUME GapInv, GapInv', NEW n \in 0 .. gap_begin, Deleted(n)
  PROVE  Text!Next
<1>1. /\ n \in Nat /\ n <= gap_begin /\ length' = length - n /\ gap_begin' = gap_begin - n
      /\ length \in Nat /\ gap_begin \in Nat /\ gap_begin <= length
  BY Sizes DEF Deleted
<1>2. text \in Seq(Char) /\ Len(text) = length /\ text' \in Seq(Char) /\ Len(text') = length - n
  <2>1. text' \in Seq(Char) /\ Len(text') = length'
    BY TextIsNext DEF TextTyped
  <2> QED
    BY <1>1, <2>1, TextIs DEF TextTyped
<1>3. \A idx \in 0 .. length - n - 1 :
        At(idx)' = IF idx < gap_begin - n THEN At(idx) ELSE At(idx + n)
  BY DEF Deleted
<1>4. \A k \in 1 .. length - n : text'[k] = At(k - 1)'
  BY <1>1, TextIsNext DEF TextTyped
<1>5. \A k \in 1 .. length : text[k] = At(k - 1)
  BY TextIs DEF TextTyped
<1>6. ASSUME NEW k \in 1 .. gap_begin - n  PROVE text'[k] = text[k]
  <2> DEFINE i == k - 1
  <2>1. i \in 0 .. length - n - 1 /\ i < gap_begin - n /\ k \in 1 .. length - n /\ k \in 1 .. length
    BY <1>1
  <2>2. text'[k] = At(i)' /\ text[k] = At(i)
    BY <1>4, <1>5, <2>1
  <2> HIDE DEF i
  <2> QED
    BY <1>3, <2>1, <2>2
<1>7. ASSUME NEW k \in gap_begin - n + 1 .. Len(text')  PROVE text'[k] = text[k + n]
  <2> DEFINE i == k - 1
             h == k + n
  <2>1. /\ i \in 0 .. length - n - 1 /\ ~ (i < gap_begin - n)
        /\ k \in 1 .. length - n /\ h \in 1 .. length /\ h - 1 = i + n
    BY <1>1, <1>2
  <2>2. text'[k] = At(i)'
    BY <1>4, <2>1
  <2> HIDE DEF i, h
  <2>3. text'[k] = At(h - 1)
    BY <1>3, <2>1, <2>2
  <2>4. text[h] = At(h - 1)
    BY <1>5, <2>1
  <2> QED
    BY <2>3, <2>4 DEF h
<1>8. text' = SubSeq(text, 1, gap_begin - n) \o SubSeq(text, gap_begin + 1, Len(text))
  <2>1. gap_begin \in 0 .. Len(text) /\ Len(text') = Len(text) - n
    BY <1>1, <1>2
  <2> HIDE DEF text
  <2> QED
    BY <1>1, <1>2, <1>6, <1>7, <2>1, Cut
<1>9. (IF n > gap_begin THEN gap_begin ELSE n) = n
  BY <1>1
<1>10. Text!DeleteLeft(n)
  BY <1>1, <1>8, <1>9 DEF Text!DeleteLeft, Text!right, text
<1> QED
  BY <1>10 DEF Text!Next

LEMMA MoveIsMove ==
  ASSUME GapInv, GapInv', NEW at \in 0 .. length, Kept(at)
  PROVE  Text!Next
<1>1. length' = length /\ gap_begin' = at /\ length \in Nat /\ at \in Nat /\ at <= length
  BY Sizes DEF Kept
<1>2. text' = text
  <2>1. \A k \in 1 .. length : k - 1 \in 0 .. length - 1
    BY <1>1
  <2>2. \A k \in 1 .. length : At(k - 1)' = At(k - 1)
    BY <2>1 DEF Kept
  <2> QED
    BY <1>1, <2>2 DEF text
<1>3. Len(text) = length /\ (IF at > Len(text) THEN Len(text) ELSE at) = at
  BY <1>1, TextIs DEF TextTyped
<1>4. Text!MoveTo(at) /\ at \in 0 .. Len(text)
  BY <1>1, <1>2, <1>3 DEF Text!MoveTo, text
<1> QED
  BY <1>4 DEF Text!Next, text

\* The gap buffer implements a text with a cursor (gap_buffer.hpp): growth in
\* place, reallocation, moves of the gap and the wrapping test of move_right
\* show nowhere.
THEOREM GapBufferRefinement == Spec => ImplementsText
<1>1. Init => Text!Init
  <2> SUFFICES ASSUME Init  PROVE Text!Init
    OBVIOUS
  <2>1. length = 0 /\ gap_begin = 0
    BY DEF Init
  <2>2. [k \in 1 .. length |-> At(k - 1)] = <<>>
    BY <2>1
  <2> QED
    BY <2>1, <2>2 DEF Text!Init
<1>2. GapInv /\ GapInv' /\ [Next]_vars => [Text!Next]_Text!vars
  <2> SUFFICES ASSUME GapInv, GapInv', [Next]_vars  PROVE Text!Next
    OBVIOUS
  <2>1. Steps
    BY GapStep
  <2> QED
    BY <2>1, InsertIsInsert, DeleteIsDelete, MoveIsMove DEF Steps
<1> QED
  BY <1>1, <1>2, GapInvariance, PTL DEF Spec, ImplementsText, Text!Spec

-----------------------------------------------------------------------------
(* Strings.                                                                *)

StringCell == Letter \cup {NUL, Garbage}

StringType ==
  [data : Seq(StringCell), length : Nat, cap : Nat, past : 0 .. 1, copy : BOOLEAN]

\* The array has one byte more than the capacity, or as many if copy
\* assignment made it; only such a string has written behind its array.
RoomOK(s) ==
  /\ s \in StringType
  /\ s.data = <<>> => s.cap = 0
  /\ s.data # <<>> => Len(s.data) = s.cap + 1 \/ (s.copy /\ Len(s.data) = s.cap)
  /\ s.past = 1 => s.copy

\* The first Len(t) characters are t.
StartsWith(s, t) == \A k \in 1 .. Len(t) : s.data[k] = t[k]

\* s holds the text t.
Reads(s, t) ==
  /\ RoomOK(s) /\ s.length = Len(t) /\ s.length <= s.cap /\ StartsWith(s, t)
  /\ s.length < Len(s.data) => s.data[s.length + 1] = NUL

StringInv ==
  /\ str \in [Name -> StringType] /\ given \in [Name -> Seq(Letter)]
  /\ \A s \in Name : Reads(str[s], given[s])

LEMMA Room ==
  ASSUME NEW s, RoomOK(s)
  PROVE  /\ s \in StringType /\ s.data \in Seq(StringCell) /\ Len(s.data) \in Nat
         /\ DOMAIN s.data = 1 .. Len(s.data)
         /\ s.length \in Nat /\ s.cap \in Nat /\ s.past \in 0 .. 1 /\ s.copy \in BOOLEAN
         /\ s.cap <= Len(s.data) /\ Len(s.data) <= s.cap + 1
         /\ (s.cap > 0 => s.data # <<>>)
<1>1. s \in StringType /\ s.data \in Seq(StringCell) /\ s.length \in Nat /\ s.cap \in Nat
      /\ s.past \in 0 .. 1 /\ s.copy \in BOOLEAN
  BY DEF RoomOK, StringType
<1>2. Len(s.data) \in Nat /\ DOMAIN s.data = 1 .. Len(s.data)
  BY <1>1, LenProperties
<1>3. CASE s.data = <<>>
  <2>1. s.cap = 0 /\ Len(s.data) = 0
    BY <1>3 DEF RoomOK
  <2> QED
    BY <1>1, <1>2, <2>1
<1>4. CASE s.data # <<>>
  <2>1. Len(s.data) = s.cap + 1 \/ Len(s.data) = s.cap
    BY <1>4 DEF RoomOK
  <2> QED
    BY <1>1, <1>2, <1>4, <2>1
<1> QED
  BY <1>3, <1>4

\* put writes view behind t, and the NUL.
LEMMA PutIs ==
  ASSUME NEW s, RoomOK(s), NEW t \in Seq(Letter), NEW view \in Seq(Letter), StartsWith(s, t),
         Len(t) + Len(view) <= s.cap, s.data # <<>>
  PROVE  Reads(put(s, Len(t), view), t \o view) /\ put(s, Len(t), view).cap = s.cap
<1> DEFINE at == Len(t)
           v  == Len(view)
           end == at + v
           l == Len(s.data)
           D == [k \in DOMAIN s.data |->
                   IF k > at /\ k <= end THEN view[k - at]
                   ELSE IF k = end + 1 THEN NUL ELSE s.data[k]]
           P == IF end + 1 - l > s.past THEN end + 1 - l ELSE s.past
           p == put(s, at, view)
           whole == t \o view
<1>1. at \in Nat /\ v \in Nat /\ end \in Nat /\ end = at + v
  BY LenProperties
<1>2. /\ s \in StringType /\ s.data \in Seq(StringCell) /\ l \in Nat /\ DOMAIN s.data = 1 .. l
      /\ s.cap \in Nat /\ s.past \in 0 .. 1 /\ s.copy \in BOOLEAN
      /\ s.cap <= l /\ l <= s.cap + 1
  BY Room
<1>3. whole \in Seq(Letter) /\ Len(whole) = end
      /\ \A k \in 1 .. end : whole[k] = IF k <= at THEN t[k] ELSE view[k - at]
  BY ConcatProperties
<1>4. p = [s EXCEPT !.data = D, !.length = end, !.past = P]
  BY DEF put
<1>5. (\A k \in 1 .. l : s.data[k] \in StringCell) /\ \A k \in 1 .. v : view[k] \in StringCell
  BY <1>1, <1>2, ElementOfSeq DEF StringCell
<1>6. \A k \in 1 .. l : D[k] = IF k > at /\ k <= end THEN view[k - at]
                               ELSE IF k = end + 1 THEN NUL ELSE s.data[k]
  BY <1>2
<1>7. D \in Seq(StringCell) /\ Len(D) = l
  <2>1. ASSUME NEW k \in 1 .. l  PROVE D[k] \in StringCell
    <3>1. k > at /\ k <= end => k - at \in 1 .. v
      BY <1>1
    <3>2. NUL \in StringCell
      BY DEF StringCell
    <3> HIDE DEF D, end, at, v, l
    <3> QED
      BY <1>5, <1>6, <3>1, <3>2
  <2>2. D = [k \in 1 .. l |-> D[k]]
    BY <1>2
  <2> HIDE DEF D, l
  <2>3. D \in [1 .. l -> StringCell]
    BY <2>1, <2>2
  <2> QED
    BY <1>2, <2>3, IsASeq, LenProperties
<1>8. P \in 0 .. 1 /\ (P = 1 => s.copy)
  <2>1. end <= s.cap
    BY <1>1
  <2>2. l = s.cap + 1 \/ (s.copy /\ l = s.cap)
    BY DEF RoomOK
  <2>3. s.past = 1 => s.copy
    BY DEF RoomOK
  <2> HIDE DEF end, l
  <2> QED
    BY <1>1, <1>2, <2>1, <2>2, <2>3
<1> HIDE DEF D, P, p, whole, end, at, v
<1>9. /\ p \in StringType /\ p.data = D /\ p.length = end /\ p.past = P
      /\ p.cap = s.cap /\ p.copy = s.copy
  BY <1>1, <1>2, <1>4, <1>7, <1>8 DEF StringType
<1>10. RoomOK(p)
  <2>1. D # <<>>
    <3>1. Len(s.data) # 0
      BY <1>2, EmptySeq
    <3> QED
      BY <1>7, <3>1
  <2>2. l = s.cap + 1 \/ (s.copy /\ l = s.cap)
    BY DEF RoomOK
  <2> HIDE DEF l
  <2> QED
    BY <1>7, <1>8, <1>9, <2>1, <2>2 DEF RoomOK
<1>11. end <= s.cap
  BY <1>1 DEF at, v
<1>12. StartsWith(p, whole)
  <2>1. ASSUME NEW k \in 1 .. end  PROVE D[k] = whole[k]
    <3>1. k \in 1 .. l
      BY <1>1, <1>2, <1>11
    <3>2. \A i \in 1 .. at : s.data[i] = t[i]
      BY DEF at, StartsWith
    <3>3. k <= at => k \in 1 .. at
      BY <1>1
    <3>4. CASE k <= at
      <4>1. ~ (k > at) /\ k # end + 1
        BY <1>1, <3>4
      <4> QED
        BY <1>3, <1>6, <3>1, <3>2, <3>3, <3>4, <4>1
    <3>5. CASE ~ (k <= at)
      <4>1. k > at /\ k <= end
        BY <1>1, <3>5
      <4> QED
        BY <1>3, <1>6, <3>1, <3>5, <4>1
    <3> QED
      BY <3>4, <3>5
  <2> QED
    BY <1>3, <1>9, <2>1 DEF StartsWith
<1>13. end < l => D[end + 1] = NUL
  <2> SUFFICES ASSUME end < l  PROVE D[end + 1] = NUL
    OBVIOUS
  <2>1. end + 1 \in 1 .. l /\ ~ (end + 1 <= end)
    BY <1>1, <1>2
  <2> QED
    BY <1>6, <2>1
<1> QED
  BY <1>3, <1>7, <1>9, <1>10, <1>11, <1>12, <1>13 DEF Reads, p, at, whole

LEMMA ReadsFacts ==
  ASSUME NEW s, NEW t \in Seq(Letter), Reads(s, t)
  PROVE  /\ RoomOK(s) /\ s.length = Len(t) /\ s.length \in Nat /\ s.cap \in Nat /\ Len(t) <= s.cap
         /\ s.data \in Seq(StringCell) /\ Len(s.data) \in Nat /\ s.cap <= Len(s.data)
         /\ DOMAIN s.data = 1 .. Len(s.data)
         /\ StartsWith(s, t) /\ (s.cap > 0 => s.data # <<>>)
  BY Room DEF Reads

\* The empty sequence, as a view and as a text.
LEMMA Nothing ==
  /\ <<>> \in Seq(Letter) /\ Len(<<>>) = 0 /\ \A s : StartsWith(s, <<>>)
  /\ \A t \in Seq(Letter) : t \o <<>> = t /\ <<>> \o t = t
<1>1. <<>> \in Seq(Letter) /\ Len(<<>>) = 0
  BY EmptySeq
<1>2. \A s : StartsWith(s, <<>>)
  BY <1>1 DEF StartsWith
<1> QED
  BY <1>1, <1>2, ConcatEmptySeq

LEMMA NoStringReads == Reads(NoString, <<>>) /\ NoString.cap = 0
<1>1. NoString \in StringType
  BY EmptySeq DEF NoString, nullptr, StringType
<1> QED
  BY <1>1, Nothing, EmptySeq DEF NoString, nullptr, Reads, RoomOK

\* A new array of size cells that keeps the first n.
LEMMA ArrayIs ==
  ASSUME NEW s, RoomOK(s), NEW size \in Nat, NEW n \in Nat, n <= Len(s.data)
  PROVE  /\ array(s, size, n) \in Seq(StringCell) /\ Len(array(s, size, n)) = size
         /\ \A k \in 1 .. size : k <= n => array(s, size, n)[k] = s.data[k]
<1> DEFINE a == array(s, size, n)
<1>1. s.data \in Seq(StringCell) /\ Len(s.data) \in Nat
  BY Room
<1>2. ASSUME NEW k \in 1 .. size
      PROVE  (IF k <= n THEN s.data[k] ELSE Garbage) \in StringCell
  <2>1. k <= n => k \in 1 .. Len(s.data)
    BY <1>1
  <2>2. k <= n => s.data[k] \in StringCell
    BY <1>1, <2>1, ElementOfSeq
  <2> QED
    BY <2>2 DEF StringCell
<1>3. a = [k \in 1 .. size |-> IF k <= n THEN s.data[k] ELSE Garbage]
  BY DEF array
<1> HIDE DEF a
<1>4. a \in [1 .. size -> StringCell]
  BY <1>2, <1>3
<1>5. a \in Seq(StringCell) /\ Len(a) = size
  BY <1>4, IsASeq, LenProperties
<1> QED
  BY <1>3, <1>5 DEF a

\* r is s with an array of its own for n characters, and the first m of s.
Renewed(s, r, n, m) ==
  /\ RoomOK(r) /\ r.cap = n /\ r.data # <<>>
  /\ \A k \in 1 .. m : r.data[k] = s.data[k]

LEMMA NewArrayIs ==
  ASSUME NEW s, RoomOK(s), NEW n \in Nat \ {0}, NEW m \in Nat, m <= Len(s.data), m <= n,
         NEW c \in BOOLEAN, NEW size, size = IF c THEN n ELSE n + 1
  PROVE  Renewed(s, [s EXCEPT !.data = array(s, size, m), !.cap = n, !.past = 0, !.copy = c], n, m)
<1> DEFINE a == array(s, size, m)
           r == [s EXCEPT !.data = a, !.cap = n, !.past = 0, !.copy = c]
<1>1. size \in Nat \ {0}
  OBVIOUS
<1>2. /\ a \in Seq(StringCell) /\ Len(a) = size
      /\ \A k \in 1 .. size : k <= m => a[k] = s.data[k]
  BY <1>1, ArrayIs
<1>3. s \in StringType
  BY Room
<1> HIDE DEF a
<1>4. r \in StringType /\ r.data = a /\ r.cap = n /\ r.past = 0 /\ r.copy = c
  <2> DEFINE z == 0
  <2>1. z \in 0 .. 1 /\ r = [s EXCEPT !.data = a, !.cap = n, !.past = z, !.copy = c]
    OBVIOUS
  <2> HIDE DEF r, z
  <2>2. r \in StringType /\ r.data = a /\ r.cap = n /\ r.past = z /\ r.copy = c
    BY <1>2, <1>3, <2>1 DEF StringType
  <2> QED
    BY <2>2 DEF z
<1> HIDE DEF r
<1>5. a # <<>>
  BY <1>1, <1>2, EmptySeq
<1>6. RoomOK(r)
  <2>1. IF c THEN Len(a) = n ELSE Len(a) = n + 1
    BY <1>2
  <2> QED
    BY <1>4, <1>5, <2>1 DEF RoomOK
<1>7. \A k \in 1 .. m : k \in 1 .. size /\ k <= m
  OBVIOUS
<1> QED
  BY <1>2, <1>4, <1>5, <1>6, <1>7 DEF r, a, Renewed

\* s reads as t and has room for n characters.
Roomy(s, t, n) == Reads(s, t) /\ n <= s.cap

LEMMA ClearIs ==
  ASSUME NEW s, NEW t \in Seq(Letter), Reads(s, t)
  PROVE  Reads(clear(s), <<>>) /\ clear(s).cap = s.cap
<1>1. CASE s.data = nullptr
  <2>1. s.length = 0 /\ s \in StringType
    BY <1>1, ReadsFacts DEF nullptr, Reads, RoomOK
  <2>2. clear(s) = s
    BY <1>1, <2>1 DEF clear, StringType
  <2>3. Len(s.data) = 0
    BY <1>1, EmptySeq DEF nullptr
  <2> QED
    BY <2>1, <2>2, <2>3, Nothing, ReadsFacts DEF Reads
<1>2. CASE s.data # nullptr
  <2>1. clear(s) = put(s, Len(<<>>), <<>>)
    BY <1>2, Nothing DEF clear
  <2>2. s.cap >= 0 /\ RoomOK(s)
    BY ReadsFacts
  <2> QED
    <3>1. /\ <<>> \in Seq(Letter) /\ StartsWith(s, <<>>) /\ Len(<<>>) + Len(<<>>) <= s.cap
          /\ s.data # <<>> /\ <<>> \o <<>> = <<>>
      BY <1>2, <2>2, Nothing, ReadsFacts DEF nullptr
    <3>2. Reads(put(s, Len(<<>>), <<>>), <<>> \o <<>>) /\ put(s, Len(<<>>), <<>>).cap = s.cap
      BY <2>2, <3>1, PutIs
    <3> QED
      BY <2>1, <3>1, <3>2
<1> QED
  BY <1>1, <1>2

LEMMA ReserveIs ==
  ASSUME NEW s, NEW t \in Seq(Letter), Reads(s, t), NEW n \in Nat
  PROVE  Roomy(reserve(s, n), t, n)
<1>1. /\ RoomOK(s) /\ s.length = Len(t) /\ Len(t) \in Nat /\ s.cap \in Nat /\ Len(t) <= s.cap
      /\ Len(t) <= Len(s.data) /\ StartsWith(s, t) /\ Len(s.data) \in Nat
  BY ReadsFacts
<1>2. CASE n <= s.cap
  BY <1>2 DEF reserve, Roomy
<1>3. CASE ~ (n <= s.cap)
  <2> DEFINE r == [s EXCEPT !.data = array(s, n + 1, Len(t)), !.cap = n, !.past = 0, !.copy = FALSE]
  <2>1. reserve(s, n) = put(r, Len(t), <<>>)
    <3>1. s \in StringType
      BY <1>1, Room
    <3>2. reserve(s, n) =
            put([s EXCEPT !.data = array(s, n + 1, s.length), !.cap = n, !.past = 0, !.copy = FALSE],
                s.length, <<>>)
      BY <1>3 DEF reserve
    <3> QED
      BY <1>1, <3>2
  <2>2. n \in Nat \ {0} /\ Len(t) <= n
    BY <1>1, <1>3
  <2>3. /\ RoomOK(r) /\ r.cap = n /\ r.data # <<>>
        /\ \A k \in 1 .. Len(t) : r.data[k] = s.data[k]
    <3> DEFINE c == FALSE
               size == n + 1
    <3>1. /\ r = [s EXCEPT !.data = array(s, size, Len(t)), !.cap = n, !.past = 0, !.copy = c]
          /\ c \in BOOLEAN /\ size = IF c THEN n ELSE n + 1
      OBVIOUS
    <3> HIDE DEF r, c, size
    <3>2. Renewed(s, r, n, Len(t))
      BY <1>1, <2>2, <3>1, NewArrayIs
    <3> QED
      BY <3>2 DEF Renewed
  <2> HIDE DEF r
  <2>4. StartsWith(r, t)
    BY <1>1, <2>3 DEF StartsWith
  <2>5. Reads(put(r, Len(t), <<>>), t \o <<>>) /\ put(r, Len(t), <<>>).cap = n
    <3>1. Len(t) + Len(<<>>) <= r.cap /\ <<>> \in Seq(Letter)
      BY <1>1, <2>2, <2>3, Nothing
    <3> QED
      BY <2>3, <2>4, <3>1, PutIs
  <2> QED
    BY <2>1, <2>2, <2>5, Nothing DEF Roomy
<1> QED
  BY <1>2, <1>3

LEMMA GrowForIs ==
  ASSUME NEW s, NEW t \in Seq(Letter), Reads(s, t), NEW extra \in Nat
  PROVE  Roomy(grow_for(s, extra), t, Len(t) + extra)
<1> DEFINE required == s.length + extra
           twice == IF s.cap = 0 THEN required ELSE s.cap * 2
           n == IF twice < required THEN required ELSE twice
<1>1. s.length = Len(t) /\ Len(t) \in Nat /\ s.cap \in Nat
  BY ReadsFacts
<1>2. n \in Nat /\ required <= n
  BY <1>1
<1>3. grow_for(s, extra) = reserve(s, n)
  BY DEF grow_for
<1> HIDE DEF n
<1>4. Roomy(reserve(s, n), t, n)
  BY <1>2, ReserveIs
<1>5. reserve(s, n).cap \in Nat
  BY <1>4, ReadsFacts DEF Roomy
<1> QED
  BY <1>1, <1>2, <1>3, <1>4, <1>5 DEF Roomy

\* view behind a text that has room for it.
LEMMA PutBehind ==
  ASSUME NEW s, NEW t \in Seq(Letter), NEW view \in Seq(Letter), view # <<>>,
         Roomy(s, t, Len(t) + Len(view))
  PROVE  Reads(put(s, s.length, view), t \o view)
<1>1. Reads(s, t) /\ Len(t) + Len(view) <= s.cap
  BY DEF Roomy
<1>2. /\ RoomOK(s) /\ s.length = Len(t) /\ Len(t) \in Nat /\ s.cap \in Nat /\ StartsWith(s, t)
      /\ (s.cap > 0 => s.data # <<>>)
  BY <1>1, ReadsFacts
<1>3. Len(view) \in Nat \ {0}
  BY EmptySeq, LenProperties
<1>4. s.data # <<>>
  BY <1>1, <1>2, <1>3
<1> QED
  BY <1>1, <1>2, <1>4, PutIs

LEMMA AppendIs ==
  ASSUME NEW s, NEW t \in Seq(Letter), Reads(s, t), NEW view \in Seq(Letter)
  PROVE  Reads(append(s, view), t \o view)
<1>1. CASE view = <<>>
  BY <1>1, Nothing DEF append
<1>2. CASE view # <<>>
  <2> DEFINE r == IF s.length + Len(view) > s.cap THEN grow_for(s, Len(view)) ELSE s
  <2>1. append(s, view) = put(r, s.length, view)
    BY <1>2 DEF append
  <2>2. s.length = Len(t) /\ Len(t) \in Nat /\ s.cap \in Nat /\ Len(view) \in Nat
    BY ReadsFacts, LenProperties
  <2>3. Roomy(r, t, Len(t) + Len(view))
    <3>1. CASE s.length + Len(view) > s.cap
      BY <2>2, <3>1, GrowForIs
    <3>2. CASE ~ (s.length + Len(view) > s.cap)
      BY <2>2, <3>2 DEF Roomy
    <3> QED
      BY <3>1, <3>2
  <2> HIDE DEF r
  <2>4. r.length = s.length
    BY <2>2, <2>3 DEF Roomy, Reads
  <2> QED
    BY <1>2, <2>1, <2>3, <2>4, PutBehind
<1> QED
  BY <1>1, <1>2

LEMMA PushBackIs ==
  ASSUME NEW s, NEW t \in Seq(Letter), Reads(s, t), NEW c \in Letter
  PROVE  Reads(push_back(s, c), Append(t, c))
<1> DEFINE view == <<c>>
<1>1. view \in Seq(Letter) /\ Len(view) = 1 /\ view # <<>> /\ Append(t, c) = t \o view
  BY AppendIsConcat, EmptySeq
<1>2. push_back(s, c) = append(s, view)
  BY <1>1 DEF push_back, append
<1> HIDE DEF view
<1> QED
  BY <1>1, <1>2, AppendIs

LEMMA PopBackIs ==
  ASSUME NEW s, NEW t \in Seq(Letter), Reads(s, t)
  PROVE  Reads(pop_back(s), SubSeq(t, 1, Len(t) - 1))
<1> DEFINE u == SubSeq(t, 1, Len(t) - 1)
<1>1. /\ RoomOK(s) /\ s.length = Len(t) /\ Len(t) \in Nat /\ s.cap \in Nat /\ Len(t) <= s.cap
      /\ StartsWith(s, t) /\ (s.cap > 0 => s.data # <<>>)
  BY ReadsFacts
<1>2. CASE Len(t) = 0
  <2>1. t = <<>> /\ u = <<>>
    BY <1>2, EmptySeq, SubSeqEmpty
  <2> HIDE DEF u
  <2>2. pop_back(s) = s
    BY <1>1, <1>2 DEF pop_back
  <2> QED
    BY <2>1, <2>2 DEF u
<1>3. CASE Len(t) # 0
  <2> DEFINE m == Len(t) - 1
  <2>1. m \in Nat /\ m + 1 = Len(t) /\ s.data # nullptr
    BY <1>1, <1>3 DEF nullptr
  <2>2. pop_back(s) = put(s, m, <<>>)
    BY <1>1, <1>3, <2>1 DEF pop_back
  <2>3. u = SubSeq(t, 1, m)
    OBVIOUS
  <2> HIDE DEF u, m
  <2>4. u \in Seq(Letter) /\ Len(u) = m /\ \A k \in 1 .. m : u[k] = t[k]
    <3>1. \A k \in 1 .. m : t[k] \in Letter
      BY <2>1, ElementOfSeq
    <3>2. /\ SubSeq(t, 1, m) \in Seq(Letter)
          /\ Len(SubSeq(t, 1, m)) = (IF 1 <= m THEN m - 1 + 1 ELSE 0)
          /\ \A k \in 1 .. m - 1 + 1 : SubSeq(t, 1, m)[k] = t[1 + k - 1]
      BY <2>1, <3>1, SubSeqProperties
    <3>3. m - 1 + 1 = m /\ \A k \in 1 .. m : 1 + k - 1 = k
      BY <2>1
    <3> QED
      BY <2>1, <2>3, <3>2, <3>3
  <2>5. StartsWith(s, u)
    BY <1>1, <2>1, <2>4 DEF StartsWith
  <2>6. Len(u) + Len(<<>>) <= s.cap
    BY <1>1, <2>1, <2>4, Nothing
  <2>7. Reads(put(s, Len(u), <<>>), u \o <<>>)
    BY <1>1, <2>1, <2>4, <2>5, <2>6, Nothing, PutIs DEF nullptr
  <2>8. u \o <<>> = u
    BY <2>4, Nothing
  <2> QED
    BY <2>2, <2>4, <2>7, <2>8 DEF u
<1> QED
  BY <1>1, <1>2, <1>3

LEMMA MadeIs ==
  ASSUME NEW view \in Seq(Letter)
  PROVE  Reads(made(view), view)
<1>1. CASE view = <<>>
  BY <1>1, NoStringReads DEF made
<1>2. CASE view # <<>>
  <2> DEFINE r == reserve(NoString, Len(view))
  <2>1. Len(view) \in Nat /\ <<>> \in Seq(Letter)
    BY Nothing, LenProperties
  <2>2. Roomy(r, <<>>, Len(view))
    BY <2>1, NoStringReads, ReserveIs
  <2>3. made(view) = put(r, 0, view)
    BY <1>2 DEF made
  <2> HIDE DEF r
  <2>4. r.length = 0 /\ Len(<<>>) + Len(view) = Len(view)
    BY <2>1, <2>2, Nothing DEF Roomy, Reads
  <2>5. Reads(put(r, r.length, view), <<>> \o view)
    BY <1>2, <2>1, <2>2, <2>4, PutBehind
  <2> QED
    BY <2>3, <2>4, <2>5, Nothing
<1> QED
  BY <1>1, <1>2

\* What is read of a string is its text.
LEMMA ViewIs ==
  ASSUME NEW s, NEW t \in Seq(Letter), Reads(s, t)
  PROVE  view_of(s) = t
<1> DEFINE n == Len(t)
           u == SubSeq(s.data, 1, n)
<1>1. /\ s.length = n /\ n \in Nat /\ n <= Len(s.data) /\ s.data \in Seq(StringCell)
      /\ \A k \in 1 .. n : s.data[k] = t[k]
  BY ReadsFacts DEF StartsWith
<1>2. view_of(s) = u
  BY <1>1 DEF view_of
<1>3. u \in Seq(StringCell) /\ Len(u) = n /\ \A k \in 1 .. n : u[k] = s.data[k]
  <2> DEFINE d == s.data
  <2> HIDE DEF n
  <2>1. \A k \in 1 .. n : d[k] \in StringCell
    BY <1>1, ElementOfSeq
  <2>0. d \in Seq(StringCell)
    BY <1>1
  <2> HIDE DEF d
  <2>2. /\ SubSeq(d, 1, n) \in Seq(StringCell)
        /\ Len(SubSeq(d, 1, n)) = (IF 1 <= n THEN n - 1 + 1 ELSE 0)
        /\ \A k \in 1 .. n - 1 + 1 : SubSeq(d, 1, n)[k] = d[1 + k - 1]
    BY <1>1, <2>0, <2>1, SubSeqProperties
  <2>3. n - 1 + 1 = n /\ \A k \in 1 .. n : 1 + k - 1 = k
    BY <1>1
  <2> QED
    BY <1>1, <2>2, <2>3 DEF d
<1> HIDE DEF u
<1>4. Len(u) = Len(t) /\ \A k \in 1 .. Len(t) : u[k] = t[k]
  BY <1>1, <1>3
<1>5. t \in Seq(StringCell)
  <2>1. \A k \in 1 .. Len(t) : t[k] \in StringCell
    BY ElementOfSeq DEF StringCell
  <2> QED
    BY <2>1, SeqMonotonic DEF StringCell
<1> QED
  BY <1>2, <1>3, <1>4, <1>5, SeqEqual

\* view at the start of an array with room for it.
LEMMA PutAtStart ==
  ASSUME NEW s, RoomOK(s), NEW view \in Seq(Letter), view # <<>>, Len(view) <= s.cap
  PROVE  Reads(put(s, 0, view), view)
<1>1. Len(view) \in Nat \ {0} /\ s.cap \in Nat /\ (s.cap > 0 => s.data # <<>>)
  BY Room, EmptySeq, LenProperties
<1>2. <<>> \in Seq(Letter) /\ Len(<<>>) = 0 /\ StartsWith(s, <<>>) /\ <<>> \o view = view
  BY Nothing
<1>3. Len(<<>>) + Len(view) <= s.cap /\ s.data # <<>>
  BY <1>1, <1>2
<1>4. Reads(put(s, Len(<<>>), view), <<>> \o view)
  BY <1>2, <1>3, PutIs
<1> QED
  BY <1>2, <1>4

LEMMA CopiedIs ==
  ASSUME NEW s, NEW t \in Seq(Letter), Reads(s, t), NEW o, NEW u \in Seq(Letter), Reads(o, u)
  PROVE  Reads(copied(s, o), u)
<1>1. o.length = Len(u) /\ Len(u) \in Nat /\ view_of(o) = u
  BY ReadsFacts, ViewIs
<1>2. RoomOK(s) /\ s.cap \in Nat /\ Len(s.data) \in Nat
  BY ReadsFacts
<1>3. CASE u = <<>>
  <2>1. copied(s, o) = clear(s)
    BY <1>1, <1>3, Nothing DEF copied
  <2> QED
    BY <1>3, <2>1, ClearIs
<1>4. CASE u # <<>>
  <2> DEFINE n == Len(u) + 1
             c == TRUE
             z == 0
             a == [s EXCEPT !.data = array(s, n, z), !.cap = n, !.past = 0, !.copy = c]
             r == IF Len(u) > s.cap THEN a ELSE s
  <2>1. Len(u) # 0
    BY <1>4, EmptySeq
  <2>2. copied(s, o) = put(r, 0, u)
    BY <1>1, <2>1 DEF copied
  <2>3. Renewed(s, a, n, z)
    <3>1. /\ n \in Nat \ {0} /\ c \in BOOLEAN /\ n = IF c THEN n ELSE n + 1
          /\ z \in Nat /\ z <= Len(s.data) /\ z <= n
      BY <1>1, <1>2
    <3> HIDE DEF n, c, z
    <3> QED
      BY <1>2, <3>1, NewArrayIs
  <2> HIDE DEF a
  <2>4. RoomOK(r) /\ Len(u) <= r.cap
    BY <1>1, <1>2, <2>3 DEF Renewed
  <2> HIDE DEF r
  <2> QED
    BY <1>4, <2>2, <2>4, PutAtStart
<1> QED
  BY <1>3, <1>4

LEMMA AssignedIs ==
  ASSUME NEW s, NEW t \in Seq(Letter), Reads(s, t), NEW u \in Seq(Letter)
  PROVE  Reads(assigned(s, u), u)
<1> DEFINE e == clear(s)
<1>1. Reads(e, <<>>)
  BY ClearIs
<1> HIDE DEF e
<1>2. RoomOK(e) /\ e.cap \in Nat /\ Len(e.data) \in Nat /\ Len(u) \in Nat
  BY <1>1, Nothing, ReadsFacts, LenProperties
<1>3. CASE u = <<>>
  BY <1>1, <1>3 DEF assigned, e
<1>4. CASE u # <<>>
  <2> DEFINE n == Len(u)
             c == FALSE
             size == n + 1
             z == 0
             a == [e EXCEPT !.data = array(e, size, z), !.cap = n, !.past = 0, !.copy = c]
             r == IF n > s.cap THEN a ELSE e
  <2>1. n # 0
    BY <1>4, EmptySeq
  <2>2. assigned(s, u) = put(r, 0, u)
    BY <1>4 DEF assigned, e
  <2>3. Renewed(e, a, n, z)
    <3>1. /\ n \in Nat \ {0} /\ c \in BOOLEAN /\ size = IF c THEN n ELSE n + 1
          /\ z \in Nat /\ z <= Len(e.data) /\ z <= n
      BY <1>2, <2>1
    <3> HIDE DEF n, c, z, size
    <3> QED
      BY <1>2, <3>1, NewArrayIs
  <2> HIDE DEF a
  <2>4. e.cap = s.cap
    BY ClearIs DEF e
  <2>5. RoomOK(r) /\ n <= r.cap
    BY <1>2, <2>3, <2>4 DEF Renewed
  <2> HIDE DEF r
  <2> QED
    BY <1>4, <2>2, <2>5, PutAtStart
<1> QED
  BY <1>3, <1>4

\* A part of the array is that part of the text.
LEMMA PartIs ==
  ASSUME NEW s, NEW t \in Seq(Letter), Reads(s, t),
         NEW i \in 1 .. Len(t), NEW j \in i .. Len(t)
  PROVE  SubSeq(s.data, i, j) = SubSeq(t, i, j) /\ SubSeq(t, i, j) \in Seq(Letter)
<1> DEFINE x == SubSeq(s.data, i, j)
           y == SubSeq(t, i, j)
           d == s.data
           m == j - i + 1
<1>1. Len(t) \in Nat /\ \A k \in 1 .. Len(t) : d[k] = t[k]
  BY ReadsFacts DEF StartsWith
<1>2. i \in Int /\ j \in Int /\ i <= j /\ \A k \in i .. j : k \in 1 .. Len(t)
  BY <1>1
<1>3. \A k \in i .. j : t[k] \in Letter /\ d[k] \in Letter
  BY <1>1, <1>2, ElementOfSeq
<1> HIDE DEF d
<1>4. /\ SubSeq(d, i, j) \in Seq(Letter) /\ Len(SubSeq(d, i, j)) = m
      /\ \A k \in 1 .. m : SubSeq(d, i, j)[k] = d[i + k - 1]
  BY <1>2, <1>3, SubSeqProperties
<1>5. /\ y \in Seq(Letter) /\ Len(y) = m
      /\ \A k \in 1 .. m : y[k] = t[i + k - 1]
  BY <1>2, <1>3, SubSeqProperties
<1>6. \A k \in 1 .. m : i + k - 1 \in 1 .. Len(t)
  BY <1>1, <1>2
<1> HIDE DEF m, y
<1>7. \A k \in 1 .. m : SubSeq(d, i, j)[k] = y[k]
  BY <1>1, <1>4, <1>5, <1>6
<1>8. SubSeq(d, i, j) = y
  BY <1>4, <1>5, <1>7, SeqEqual
<1> QED
  BY <1>5, <1>8 DEF d, y

LEMMA StringInvNext ==
  ASSUME StringInv, NEW s \in Name, NEW new, NEW t \in Seq(Letter), Reads(new, t),
         set(s, new, t)
  PROVE  StringInv'
<1>1. new \in StringType
  BY DEF Reads, RoomOK
<1>2. /\ str' = [str EXCEPT ![s] = new] /\ given' = [given EXCEPT ![s] = t]
      /\ str \in [Name -> StringType] /\ given \in [Name -> Seq(Letter)]
      /\ \A n \in Name : Reads(str[n], given[n])
  BY DEF set, StringInv
<1>3. str' \in [Name -> StringType] /\ given' \in [Name -> Seq(Letter)]
  BY <1>1, <1>2
<1>4. ASSUME NEW n \in Name  PROVE Reads(str'[n], given'[n])
  <2>1. CASE n = s
    <3>1. str'[n] = new /\ given'[n] = t
      BY <1>2, <2>1
    <3> QED
      BY <3>1
  <2>2. CASE n # s
    <3>1. str'[n] = str[n] /\ given'[n] = given[n]
      BY <1>2, <2>2
    <3> QED
      BY <1>2, <3>1
  <2> QED
    BY <2>1, <2>2
<1> QED
  BY <1>3, <1>4 DEF StringInv, Reads, RoomOK, StartsWith

\* What a caller passes is a text.
LEMMA ViewsAreTexts == \A v \in View : v \in Seq(Letter)
<1> SUFFICES ASSUME NEW v \in View  PROVE v \in Seq(Letter)
  OBVIOUS
<1>1. PICK n \in 0 .. MaxText : v \in [1 .. n -> Letter]
  BY DEF View
<1>2. n \in Nat /\ v = [k \in 1 .. n |-> v[k]] /\ \A k \in 1 .. n : v[k] \in Letter
  BY <1>1
<1> QED
  BY <1>2, IsASeq

LEMMA StringStep ==
  ASSUME StringInv, StringNext
  PROVE  StringInv'
<1>1. PICK s \in Name :
        \/ Construct(s) \/ PushBack(s) \/ PopBack(s) \/ AppendView(s) \/ Clear(s)
        \/ Reserve(s) \/ Assign(s) \/ AssignPart(s)
        \/ \E o \in Name : Copy(s, o) \/ Move(s, o)
  BY DEF StringNext
<1> DEFINE x == str[s]
           t == given[s]
<1>2. /\ str \in [Name -> StringType] /\ given \in [Name -> Seq(Letter)]
      /\ \A n \in Name : Reads(str[n], given[n])
      /\ t \in Seq(Letter) /\ Reads(x, t)
  BY DEF StringInv
<1> HIDE DEF x, t
<1>3. ASSUME Construct(s)  PROVE StringInv'
  <2>1. PICK v \in View : set(s, made(v), v)
    BY <1>3 DEF Construct
  <2> QED
    BY <2>1, ViewsAreTexts, MadeIs, StringInvNext
<1>4. ASSUME PushBack(s)  PROVE StringInv'
  <2>1. PICK c \in Letter : set(s, push_back(x, c), Append(t, c))
    BY <1>4 DEF PushBack, x, t
  <2>2. Append(t, c) \in Seq(Letter)
    BY <1>2, AppendProperties
  <2> QED
    BY <1>2, <2>1, <2>2, PushBackIs, StringInvNext
<1>5. ASSUME PopBack(s)  PROVE StringInv'
  <2> DEFINE u == SubSeq(t, 1, Len(t) - 1)
  <2>1. set(s, pop_back(x), u)
    BY <1>5 DEF PopBack, x, t
  <2>2. u \in Seq(Letter)
    <3>1. Len(t) \in Nat /\ \A k \in 1 .. Len(t) - 1 : k \in 1 .. Len(t)
      BY <1>2, LenProperties
    <3>2. \A k \in 1 .. Len(t) - 1 : t[k] \in Letter
      BY <1>2, <3>1, ElementOfSeq
    <3>3. 1 \in Int /\ Len(t) - 1 \in Int
      BY <3>1
    <3> QED
      BY <3>2, <3>3, SubSeqProperties
  <2>3. Reads(pop_back(x), u)
    BY <1>2, PopBackIs
  <2> HIDE DEF u
  <2> QED
    BY <2>1, <2>2, <2>3, StringInvNext
<1>6. ASSUME AppendView(s)  PROVE StringInv'
  <2>1. PICK v \in View : set(s, append(x, v), t \o v)
    BY <1>6 DEF AppendView, x, t
  <2>2. v \in Seq(Letter) /\ t \o v \in Seq(Letter)
    BY <1>2, ViewsAreTexts, ConcatProperties
  <2> QED
    BY <1>2, <2>1, <2>2, AppendIs, StringInvNext
<1>7. ASSUME Clear(s)  PROVE StringInv'
  <2>1. set(s, clear(x), <<>>)
    BY <1>7 DEF Clear, x
  <2>2. Reads(clear(x), <<>>) /\ <<>> \in Seq(Letter)
    BY <1>2, ClearIs, Nothing
  <2> QED
    BY <2>1, <2>2, StringInvNext
<1>8. ASSUME Reserve(s)  PROVE StringInv'
  <2>1. PICK n \in 0 .. MaxText : set(s, reserve(x, n), t)
    BY <1>8 DEF Reserve, x, t
  <2>2. Reads(reserve(x, n), t)
    BY <1>2, ReserveIs DEF Roomy
  <2> QED
    BY <1>2, <2>1, <2>2, StringInvNext
<1>9. ASSUME Assign(s)  PROVE StringInv'
  <2>1. PICK v \in View : set(s, assigned(x, v), v)
    BY <1>9 DEF Assign, x
  <2> QED
    BY <1>2, <2>1, ViewsAreTexts, AssignedIs, StringInvNext
<1>10. ASSUME AssignPart(s)  PROVE StringInv'
  <2>0. PICK i \in 1 .. x.length : \E j \in i .. x.length :
          set(s, IF i = 1 /\ j = x.length THEN x ELSE made(SubSeq(x.data, i, j)), SubSeq(t, i, j))
    BY <1>10 DEF AssignPart, x, t
  <2>1. PICK j \in i .. x.length :
          set(s, IF i = 1 /\ j = x.length THEN x ELSE made(SubSeq(x.data, i, j)), SubSeq(t, i, j))
    BY <2>0
  <2>2. x.length = Len(t) /\ Len(t) \in Nat
    BY <1>2, ReadsFacts
  <2>3. SubSeq(x.data, i, j) = SubSeq(t, i, j) /\ SubSeq(t, i, j) \in Seq(Letter)
    BY <1>2, <2>2, PartIs
  <2>4. CASE i = 1 /\ j = x.length
    <3>1. SubSeq(t, i, j) = t
      BY <1>2, <2>2, <2>4, SubSeqFull
    <3> QED
      BY <1>2, <2>1, <2>4, <3>1, StringInvNext
  <2>5. CASE ~ (i = 1 /\ j = x.length)
    <3> DEFINE u == SubSeq(t, i, j)
    <3>1. set(s, made(u), u) /\ u \in Seq(Letter)
      BY <2>1, <2>3, <2>5
    <3> HIDE DEF u
    <3> QED
      BY <3>1, MadeIs, StringInvNext
  <2> QED
    BY <2>4, <2>5
<1>11. ASSUME NEW o \in Name, Copy(s, o)  PROVE StringInv'
  <2>1. set(s, copied(x, str[o]), given[o])
    BY <1>11 DEF Copy, x
  <2>2. given[o] \in Seq(Letter) /\ Reads(str[o], given[o])
    BY <1>2
  <2>3. Reads(copied(x, str[o]), given[o])
    BY <1>2, <2>2, CopiedIs
  <2> QED
    BY <2>1, <2>2, <2>3, StringInvNext
<1>12. ASSUME NEW o \in Name, Move(s, o)  PROVE StringInv'
  <2>1. /\ s # o /\ str' = [str EXCEPT ![s] = str[o], ![o] = NoString]
        /\ given' = [given EXCEPT ![s] = given[o], ![o] = <<>>]
    BY <1>12 DEF Move
  <2>2. Reads(NoString, <<>>) /\ NoString \in StringType /\ <<>> \in Seq(Letter)
    BY NoStringReads, Nothing DEF Reads, RoomOK
  <2>3. str' \in [Name -> StringType] /\ given' \in [Name -> Seq(Letter)]
    BY <1>2, <2>1, <2>2
  <2>4. ASSUME NEW n \in Name  PROVE Reads(str'[n], given'[n])
    <3>1. CASE n = s
      <4>1. str'[n] = str[o] /\ given'[n] = given[o]
        BY <1>2, <2>1, <3>1
      <4> QED
        BY <1>2, <4>1
    <3>2. CASE n = o
      <4>1. str'[n] = NoString /\ given'[n] = <<>>
        BY <1>2, <2>1, <3>2
      <4> QED
        BY <2>2, <4>1
    <3>3. CASE n # s /\ n # o
      <4>1. str'[n] = str[n] /\ given'[n] = given[n]
        BY <1>2, <2>1, <3>3
      <4> QED
        BY <1>2, <4>1
    <3> QED
      BY <3>1, <3>2, <3>3
  <2> QED
    BY <2>3, <2>4 DEF StringInv, Reads, RoomOK, StartsWith
<1> QED
  BY <1>1, <1>3, <1>4, <1>5, <1>6, <1>7, <1>8, <1>9, <1>10, <1>11, <1>12

LEMMA StringInvInit == StringInit => StringInv
<1> SUFFICES ASSUME StringInit  PROVE StringInv
  OBVIOUS
<1>1. Reads(NoString, <<>>) /\ NoString \in StringType /\ <<>> \in Seq(Letter)
  BY NoStringReads, Nothing DEF Reads, RoomOK
<1>2. str = [s \in Name |-> NoString] /\ given = [s \in Name |-> <<>>]
  BY DEF StringInit
<1> QED
  BY <1>1, <1>2 DEF StringInv

LEMMA StringInvIsText == StringInv => StringIsText
<1> SUFFICES ASSUME StringInv, NEW s \in Name
             PROVE  /\ str[s].length = Len(given[s]) /\ str[s].length <= Len(str[s].data)
                    /\ view_of(str[s]) = given[s]
                    /\ str[s].length < Len(str[s].data) => str[s].data[str[s].length + 1] = NUL
                    /\ str[s].past \in 0 .. 1
                    /\ str[s].past = 1 => str[s].copy
  BY DEF StringIsText
<1> DEFINE x == str[s]
           t == given[s]
<1>1. Reads(x, t) /\ t \in Seq(Letter)
  BY DEF StringInv
<1> HIDE DEF x, t
<1>2. /\ x.length = Len(t) /\ x.length \in Nat /\ Len(t) <= x.cap /\ x.cap <= Len(x.data)
      /\ x.cap \in Nat /\ Len(x.data) \in Nat /\ view_of(x) = t
  BY <1>1, ReadsFacts, ViewIs
<1>3. /\ x.length < Len(x.data) => x.data[x.length + 1] = NUL
      /\ x.past \in 0 .. 1 /\ (x.past = 1 => x.copy)
  BY <1>1, Room DEF Reads, RoomOK
<1> QED
  BY <1>2, <1>3 DEF x, t

\* Whatever is constructed, pushed, cut, appended, reserved, assigned, copied
\* and moved, in strings of any length and arrays of any age, each of two
\* strings reads as its text, and behind its array only a string that copy
\* assignment made writes, its NUL alone (string.hpp).
THEOREM StringsAreText == StringSpec => []StringIsText
<1>1. StringInv /\ [StringNext]_string_vars => StringInv'
  <2>1. StringInv /\ UNCHANGED string_vars => StringInv'
    BY DEF string_vars, StringInv, Reads, RoomOK, StartsWith
  <2> QED
    BY <2>1, StringStep
<1> QED
  BY <1>1, StringInvInit, StringInvIsText, PTL DEF StringSpec

-----------------------------------------------------------------------------
(* Division: the loops keep LoopInvariant, in which no addition, doubling  *)
(* or subtraction wraps.                                                   *)

\* Nothing wraps that stays a word.
LEMMA Unwrapped ==
  ASSUME NEW n \in Word
  PROVE  n % (UINT64_MAX + 1) = n
BY DivisionAssumption, SMT DEF Word

\* Products of words are numbers, and multiplication distributes: the facts
\* about * the steps below need.
LEMMA ProductInNat == ASSUME NEW a \in Nat, NEW b \in Nat PROVE a * b \in Nat
BY SMT

LEMMA ProductOfSum ==
  ASSUME NEW a \in Nat, NEW b \in Nat, NEW k \in Nat
  PROVE  (a + b) * k = a * k + b * k
BY SMT

\* A factor that is not zero is at most the product, the other at least 1.
LEMMA FactorBound ==
  ASSUME NEW a \in Nat, NEW b \in Nat, b > 0
  PROVE  a <= a * b
BY SMT

\* What holds when a call begins.
LEMMA CallKeepsInvariant ==
  ASSUME NEW n \in Word, NEW d \in Word, LoopInvariant, udivmoddi4(n, d)
  PROVE  LoopInvariant'
<1>1. num' \in Word /\ quotient' \in Word /\ dividend' \in Word /\ den' \in Word
  BY DivisionAssumption, SMT DEF udivmoddi4, Word
<1>2. den' # 0 => dividend' = quotient' * den' + num'
  BY DivisionAssumption, SMT DEF udivmoddi4, Word
<1> QED
  BY <1>1, <1>2, Zenon DEF udivmoddi4, LoopInvariant, first_step

LEMMA OuterKeepsInvariant ==
  ASSUME LoopInvariant, Outer
  PROVE  LoopInvariant'
<1>1. den \in Nat /\ den # 0 /\ num \in Nat
  BY DivisionAssumption, SMT DEF LoopInvariant, Outer, Word
<1>2. CASE num >= den
  <2>1. tmp' = mult' * den' /\ tmp' <= num' /\ mult' > 0
    BY <1>1, <1>2, SMT DEF Outer, division_args
  <2>2. tmp' \in Word /\ mult' \in Word
    BY <1>1, <1>2, DivisionAssumption, SMT DEF Outer, LoopInvariant, Word
  <2> QED
    BY <1>1, <1>2, <2>1, <2>2, SMT DEF Outer, LoopInvariant, division_args
<1>3. CASE ~ (num >= den)
  <2>1. num' < den'
    BY <1>1, <1>3, SMT DEF Outer, division_args
  <2> QED
    BY <1>1, <1>3, <2>1, SMT DEF Outer, LoopInvariant, division_args
<1> QED BY <1>2, <1>3

\* Doubling: the doubled multiple is at most the number.
LEMMA DoubleKeepsInvariant ==
  ASSUME LoopInvariant, Double
  PROVE  LoopInvariant'
<1>1. /\ den \in Nat /\ den # 0 /\ num \in Word /\ tmp \in Nat /\ mult \in Nat /\ mult > 0
      /\ tmp = mult * den /\ dpc = "inner"
  BY DivisionAssumption, SMT DEF LoopInvariant, Double, Word
<1>2. 2 * tmp <= num /\ 2 * tmp \in Word
  BY <1>1, DivisionAssumption, SMT DEF Double, doubles, Word
<1>3. mult <= tmp
  BY <1>1, FactorBound
<1>4. 2 * mult \in Word
  BY <1>1, <1>2, <1>3, DivisionAssumption, SMT DEF Word
<1>5. tmp' = 2 * tmp /\ mult' = 2 * mult
  BY <1>2, <1>4, Unwrapped, Zenon DEF Double
<1>6. 2 * tmp = (2 * mult) * den
  BY <1>1, SMT
<1> QED
  BY <1>1, <1>2, <1>4, <1>5, <1>6, SMT DEF LoopInvariant, Double, division_args

\* Subtracting: what leaves the number goes into the quotient.
LEMMA SubtractKeepsInvariant ==
  ASSUME LoopInvariant, Subtract
  PROVE  LoopInvariant'
<1>1. /\ den \in Nat /\ den # 0 /\ num \in Nat /\ num <= UINT64_MAX
      /\ tmp \in Nat /\ mult \in Nat /\ quotient \in Nat /\ dividend \in Word
      /\ tmp = mult * den /\ tmp <= num /\ mult > 0 /\ dividend = quotient * den + num
  BY DivisionAssumption, SMT DEF LoopInvariant, Subtract, Word
<1>2. num - tmp \in Word
  BY <1>1, DivisionAssumption, SMT DEF Word
<1>3. (quotient + mult) * den = quotient * den + mult * den
  BY <1>1, ProductOfSum
<1>4. quotient + mult <= (quotient + mult) * den
  BY <1>1, FactorBound
<1>5. dividend = (quotient + mult) * den + (num - tmp)
  <2>1. quotient * den \in Nat /\ mult * den \in Nat
    BY <1>1, ProductInNat
  <2> QED BY <1>1, <1>3, <2>1, SMT
<1>6. quotient + mult \in Word
  <2>1. (quotient + mult) * den \in Nat
    BY <1>1, ProductInNat
  <2> QED BY <1>1, <1>2, <1>4, <1>5, <2>1, DivisionAssumption, SMT DEF Word
<1>7. num' = num - tmp /\ quotient' = quotient + mult
  BY <1>2, <1>6, Unwrapped, Zenon DEF Subtract
<1> QED
  BY <1>1, <1>2, <1>5, <1>6, <1>7, SMT DEF LoopInvariant, Subtract, division_args

\* The loops keep quotient * den + num the dividend, and nothing wraps.
THEOREM LoopsKeepInvariant == DivisionSpec => []LoopInvariant
<1>1. DivisionInit => LoopInvariant
  BY DivisionAssumption, SMT DEF DivisionInit, LoopInvariant, Word
<1>2. LoopInvariant /\ [DivisionNext]_division_vars => LoopInvariant'
  <2> SUFFICES ASSUME LoopInvariant, [DivisionNext]_division_vars PROVE LoopInvariant'
    OBVIOUS
  <2>1. CASE \E n, d \in Word : udivmoddi4(n, d)
    BY <2>1, CallKeepsInvariant
  <2>2. CASE Outer
    BY <2>2, OuterKeepsInvariant
  <2>3. CASE Double
    BY <2>3, DoubleKeepsInvariant
  <2>4. CASE Subtract
    BY <2>4, SubtractKeepsInvariant
  <2>5. CASE Take
    BY <2>5, DivisionAssumption, SMT DEF Take, LoopInvariant, Word
  <2>6. CASE UNCHANGED division_vars
    BY <2>6, Zenon DEF division_vars, division_args, LoopInvariant
  <2> QED
    BY <2>1, <2>2, <2>3, <2>4, <2>5, <2>6 DEF DivisionNext, Loops
<1> QED BY <1>1, <1>2, PTL DEF DivisionSpec

\* __udivmoddi4: every answer is quotient and remainder, for words of any width.
THEOREM DivisionIsExact == DivisionSpec => []DivisionExact
<1>1. LoopInvariant => DivisionExact
  BY Zenon DEF LoopInvariant, DivisionExact
<1> QED BY <1>1, LoopsKeepInvariant, PTL

=============================================================================
