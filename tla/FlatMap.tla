------------------------------ MODULE FlatMap -------------------------------
(***************************************************************************)
(* ctr::FlatMap<Key, Val, Capacity>: a hash table in one array, linear     *)
(* probing.  Keys are integers, as the tag types are, and words the bits   *)
(* of a uintptr_t of i386.                                                 *)
(*                                                                         *)
(* find has its last test the wrong way round: once the home slot holds    *)
(* another key it answers nullptr whether probing met the key or a free    *)
(* slot, and the address of a member of a null entry when probing met      *)
(* neither.  So a key that insert had to put elsewhere is never found, and *)
(* inserting it again counts it again.                                     *)
(***************************************************************************)
EXTENDS Integers, Sequences, FiniteSets

CONSTANTS Key, Val,
          NullKey, NullVal,   \* Key{} and Val{}
          Capacity

Slot == 0 .. Capacity - 1

ASSUME FlatMapAssumption ==
  /\ Capacity \in Nat \ {0}
  /\ Key \subseteq Nat /\ \A key \in Key : key < 65536

VARIABLES data, item_count

map_vars == <<data, item_count>>

Bit == 1 .. 32

\* A uint32_t from its halves, the lowest bit first.
word(high, low) ==
  [b \in Bit |-> IF b <= 16 THEN (low \div 2 ^ (b - 1)) % 2 ELSE (high \div 2 ^ (b - 17)) % 2]

\* h ^= h >> n and h *= m.
shift_xor(h, n) == [b \in Bit |-> (h[b] + (IF b + n \in Bit THEN h[b + n] ELSE 0)) % 2]

times(h, m) ==
  LET ones(b) == Cardinality({i \in 1 .. b : h[i] = 1 /\ m[b + 1 - i] = 1})
      columns[n \in 0 .. 32] ==
        IF n = 0 THEN <<>>
        ELSE LET low   == columns[n - 1]
                 carry == IF low = <<>> THEN 0 ELSE low[1] \div 2
             IN  <<ones(n) + carry>> \o low
      sums == columns[32]
  IN  [b \in Bit |-> sums[33 - b] % 2]

mix_uintptr(x) ==
  shift_xor(times(shift_xor(times(shift_xor(x, 16), word(34283, 51819)), 13),
                  word(49842, 44597)), 16)

\* A word as a number, reduced from its highest bit on.
modulo(h, n) ==
  LET above[b \in 0 .. 32] == IF b = 0 THEN 0 ELSE (h[33 - b] + 2 * above[b - 1]) % n
  IN  above[32]

\* hash(key) % Capacity.
Home == [key \in Key |-> modulo(mix_uintptr(word(0, key)), Capacity)]

Absent == Capacity       \* nullptr
Stray  == Capacity + 1   \* &nullptr->value

FreeEntry == [key |-> NullKey, value |-> NullVal, taken |-> FALSE]

FlatMapInit ==
  /\ data = [i \in Slot |-> FreeEntry]
  /\ item_count = 0

empty == item_count = 0

full == item_count = Capacity

\* The first slot after h, once around, that is free or holds key.
probe_entry_linear(key, h) ==
  LET stops == {k \in 1 .. Capacity - 1 :
                  LET e == data[(h + k) % Capacity] IN e.taken => e.key = key}
  IN  IF stops = {} THEN Absent
      ELSE (h + (CHOOSE k \in stops : \A j \in stops : k <= j)) % Capacity

find(key) ==
  LET h == Home[key]
  IN  IF empty THEN Absent
      ELSE IF data[h].taken /\ data[h].key = key THEN h
      ELSE IF probe_entry_linear(key, h) # Absent THEN Absent ELSE Stray

\* Where insert puts a key that find does not know: home, or where probing stops.
place(key) ==
  IF data[Home[key]].taken THEN probe_entry_linear(key, Home[key]) ELSE Home[key]

\* Mutant: a value that is there is kept.
insert_once(key, val) ==
  \/ (full \/ find(key) \in Slot) /\ UNCHANGED map_vars
  \/ /\ ~ full /\ find(key) \notin Slot
     /\ data' = [data EXCEPT ![place(key)] = [key |-> key, value |-> val, taken |-> TRUE]]
     /\ item_count' = item_count + 1

\* A Stray answer is written through, outside of the map.
insert(key, val) ==
  \/ (full \/ find(key) = Stray) /\ UNCHANGED map_vars
  \/ /\ ~ full /\ find(key) \in Slot
     /\ data' = [data EXCEPT ![find(key)].value = val]
     /\ UNCHANGED item_count
  \/ /\ ~ full /\ find(key) = Absent
     /\ data' = [data EXCEPT ![place(key)] = [key |-> key, value |-> val, taken |-> TRUE]]
     /\ item_count' = item_count + 1
=============================================================================
