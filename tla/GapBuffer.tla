----------------------------- MODULE GapBuffer ------------------------------
(***************************************************************************)
(* ctr::GapBuffer<T>: a text held in one array with a gap at the cursor.   *)
(* gap_begin and gap_end are offsets from begin; the prefix lies below     *)
(* gap_begin, the suffix from gap_end on.  size_t arithmetic is modulo     *)
(* WordSize, which move_right relies on.                                   *)
(*                                                                         *)
(* The operations are those the client, ui::TextArea, calls: insert,       *)
(* delete_left and move_to, with the moves and the growth behind them.     *)
(***************************************************************************)
EXTENDS Integers, Sequences

CONSTANTS Char,            \* the characters clients insert
          Junk,            \* what new T[n] leaves in the array
          GapSize,         \* 16 for the text area
          InitialCapacity, \* 2 * GapSize by default
          WordSize,        \* number of values of size_t
          Powers,          \* the powers of two clp2 may return
          MaxLength,       \* bound: length of the text
          MaxItems         \* bound: items of one insert

ASSUME GapAssumption ==
  /\ GapSize \in Nat \ {0} /\ InitialCapacity \in Nat /\ InitialCapacity >= GapSize
  /\ MaxLength \in Nat /\ MaxItems \in Nat
  /\ WordSize \in Nat
  /\ Powers \subseteq Nat /\ \A p \in Powers : p < WordSize
  /\ \A x \in 0 .. 2 * MaxLength + MaxItems + GapSize : \E p \in Powers : p >= x
  /\ Junk \notin Char

VARIABLES store,      \* the array, indexed from 0
          capacity,
          gap_begin, gap_end,
          length

vars == <<store, capacity, gap_begin, gap_end, length>>

Index == 0 .. capacity - 1

\* The smallest power of two that is at least x.
clp2(x) == CHOOSE p \in Powers : p >= x /\ \A q \in Powers : q >= x => p <= q

\* memmove inside one array, and from one array to another.
memmove(f, dst, src, n) ==
  [k \in DOMAIN f |-> IF dst <= k /\ k < dst + n THEN f[k - dst + src] ELSE f[k]]

prefix_len == gap_begin
gap_width  == gap_end - gap_begin

-----------------------------------------------------------------------------
Init ==
  /\ store = [k \in 0 .. InitialCapacity - 1 |-> Junk]
  /\ capacity = InitialCapacity
  /\ gap_begin = 0 /\ gap_end = GapSize
  /\ length = 0

\* Mutants: the new capacity leaves no room for the gap; the suffix stays
\* where it was.
new_cap_tight(extend) == clp2(length)
grown_keeps_suffix(extend) ==
  [store |-> IF clp2(length + extend + GapSize) <= capacity THEN store
             ELSE [k \in 0 .. clp2(length + extend + GapSize) - 1 |->
                     IF k < capacity THEN store[k] ELSE Junk],
   capacity |-> IF clp2(length + extend + GapSize) <= capacity THEN capacity
                ELSE clp2(length + extend + GapSize),
   gap_end |-> gap_begin + (IF extend < GapSize THEN GapSize ELSE extend)]

new_cap(extend)      == clp2(length + extend + GapSize)
new_gap_end(extend)  == gap_begin + (IF extend < GapSize THEN GapSize ELSE extend)

\* The array, its capacity and the end of the gap after grow(extend): the
\* suffix moves in place, or prefix and suffix into a larger array.
grown(extend) ==
  LET suffix == length - prefix_len
      end    == new_gap_end(extend)
  IN  IF new_cap(extend) <= capacity
      THEN [store    |-> memmove(store, end, gap_end, suffix),
            capacity |-> capacity,
            gap_end  |-> end]
      ELSE [store    |-> [k \in 0 .. new_cap(extend) - 1 |->
                            CASE k < prefix_len -> store[k]
                              [] end <= k /\ k < end + suffix -> store[k - end + gap_end]
                              [] OTHER -> Junk],
            capacity |-> new_cap(extend),
            gap_end  |-> end]

\* What the operations work on: the buffer as it is, or after grow.
as_is == [store |-> store, capacity |-> capacity, gap_end |-> gap_end]

\* insert, its call of itself after grow included.
insert(items) ==
  /\ length + Len(items) <= MaxLength
  /\ LET n == Len(items)
         b == IF gap_width >= n THEN as_is ELSE grown(n)
     IN  /\ store' = [k \in DOMAIN b.store |->
                        IF gap_begin <= k /\ k < gap_begin + n
                          THEN items[k - gap_begin + 1] ELSE b.store[k]]
         /\ capacity' = b.capacity
         /\ gap_end' = b.gap_end
         /\ gap_begin' = gap_begin + n
         /\ length' = length + n

delete_left(count) ==
  LET n == IF count > prefix_len THEN prefix_len ELSE count
  IN  /\ gap_begin' = gap_begin - n
      /\ length' = length - n
      /\ UNCHANGED <<store, capacity, gap_end>>

move_left(count) ==
  LET n == IF count > prefix_len THEN prefix_len ELSE count
  IN  /\ store' = memmove(store, gap_end - n, gap_begin - n, n)
      /\ gap_begin' = gap_begin - n
      /\ gap_end' = gap_end - n
      /\ UNCHANGED <<capacity, length>>

\* suffix_len of move_right: not the length of the suffix, but that minus the
\* gap and one; it wraps when the suffix is shorter.  The count is not cut.
move_right_suffix_len == (length - gap_end - 1) % WordSize

move_right(count) ==
  LET b == IF count > move_right_suffix_len THEN grown(count) ELSE as_is
  IN  /\ store' = memmove(b.store, gap_begin, b.gap_end, count)
      /\ capacity' = b.capacity
      /\ gap_begin' = gap_begin + count
      /\ gap_end' = b.gap_end + count
      /\ UNCHANGED length

move_to(index) ==
  LET i == IF index >= length THEN length ELSE index
  IN  IF i < gap_begin THEN move_left(gap_begin - i)
      ELSE IF i > gap_begin THEN move_right(i - gap_begin)
      ELSE UNCHANGED vars

Items == UNION {[1 .. n -> Char] : n \in 1 .. MaxItems}

Next ==
  \/ \E items \in Items : insert(items)
  \/ \E count \in 1 .. MaxItems : delete_left(count)
  \/ \E index \in 0 .. MaxLength + 1 : move_to(index)

Spec == Init /\ [][Next]_vars

-----------------------------------------------------------------------------
TypeOK ==
  /\ capacity \in Nat /\ length \in 0 .. MaxLength
  /\ gap_begin \in 0 .. length
  /\ gap_end \in Nat
  /\ store \in [Index -> Char \cup {Junk}]

\* operator[] reads store[idx] or store[gap_end + idx - prefix]; for every
\* index it accepts that is a slot of the array, outside the gap, that a
\* client's character was written to.
At(idx) == IF idx < prefix_len THEN store[idx] ELSE store[gap_end + idx - prefix_len]

ReadsAreText ==
  /\ TypeOK
  /\ gap_begin <= gap_end
  /\ gap_end + (length - prefix_len) <= capacity
  /\ \A idx \in 0 .. length - 1 : At(idx) \in Char

Text == INSTANCE TextBuffer WITH
  text   <- [k \in 1 .. length |-> At(k - 1)],
  cursor <- gap_begin

\* Every sequence of operations, with the moves of the gap, the growth in
\* place and the reallocations, is one of a text with a cursor.
ImplementsText == Text!Spec
=============================================================================
