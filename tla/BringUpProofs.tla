--------------------------- MODULE BringUpProofs ----------------------------
(***************************************************************************)
(* From kmain to the shell, for any tag map, boot loader, drivers, board    *)
(* and framebuffers; and the keyboard the shell reads, for any set of keys  *)
(* and any queue of the controller: an event is that of the key whose code  *)
(* it read, whatever was lost before, and no modifier stays behind.         *)
(***************************************************************************)
EXTENDS BringUp, Keyboard, Arithmetic, SequenceTheorems

-----------------------------------------------------------------------------
(* The tags in the map.                                                    *)

\* The k-th slot after h, once around.
After(h, k) == (h + k) % Capacity

Holds(s, t) == data[s].taken /\ data[s].key = t

Seen == {t \in Accepted : tags_seen[t] > 0}

MapTypes ==
  /\ data \in [Slot -> [key : Key \cup {NullKey}, value : Val \cup {NullVal}, taken : BOOLEAN]]
  /\ item_count \in 0 .. Capacity
  /\ profile \in Profiles
  /\ tags_seen \in [Key -> 0 .. MaxModules]
  /\ \A t \in Key \ {Module} : tags_seen[t] <= 1

\* Every entry is of a tag that was read, and is the only one of its type.
Entries ==
  /\ \A s \in Slot : data[s].taken => data[s].key \in Seen
  /\ \A s, u \in Slot : data[s].taken /\ Holds(u, data[s].key) => u = s

\* Between the home of an entry and the entry no slot is free, and an entry at
\* home holds the last tag of its type.
Chains ==
  \A s \in Slot : data[s].taken =>
    /\ \E d \in 0 .. Capacity - 1 :
         /\ s = After(Home[data[s].key], d)
         /\ \A k \in 0 .. d - 1 : data[After(Home[data[s].key], k)].taken
    /\ s = Home[data[s].key] => data[s].value = tags_seen[data[s].key]

\* A type that was read is in the map, or the count has reached the capacity.
Lost ==
  \A t \in Seen : (\A s \in Slot : ~ Holds(s, t)) => full /\ Cardinality(TagsRead) > Capacity

\* The count is at most the number of tags; the displaced type alone is counted
\* more than once.
Counted ==
  /\ item_count <= Cardinality(TagsRead)
  /\ tags_seen[Module] = 0 \/ Holds(Home[Module], Module) => item_count <= Cardinality(Seen)
  /\ \A s \in Slot : data[s].taken => ~ empty

TagInv == MapTypes /\ Entries /\ Chains /\ Lost /\ Counted

-----------------------------------------------------------------------------
(* The drivers and the console.                                            *)

\* Every binding has an instance of its own.
Apart(bs, given) ==
  /\ \A i, j \in 1 .. Len(bs) :
       bs[i].driver = bs[j].driver /\ bs[i].instance = bs[j].instance => i = j
  /\ \A i \in 1 .. Len(bs) : bs[i].instance \in given[bs[i].driver]

Pools(given) ==
  given \in [DOMAIN Driver -> SUBSET Nat] /\ \A d \in DOMAIN Driver : given[d] \subseteq 0 .. Driver[d].max_instances - 1

CoreInv ==
  /\ descs \in Seq(DescEntry) /\ drivers \in Seq(DOMAIN Driver) /\ bindings \in Seq(Binding)
  /\ Pools(used) /\ Apart(bindings, used)

Unbound == {"tags", "devices", "bind", "console"}

ConsoleInv ==
  /\ serv.serial \in 0 .. Len(bindings)
  /\ pc \in Unbound => serv.serial = 0
  /\ pc \in Unbound \cup {"port"} => ~ inited
  /\ serv.serial # 0 => bindings[serv.serial].desc.name = "com1"
  /\ inited => serv.serial # 0

-----------------------------------------------------------------------------
(* The log and the wire.                                                   *)

ServTypes ==
  /\ serv \in [framebuffer : FbTags \cup {NoFramebuffer}, serial : Nat, keyboard : {"null", "PS2Keyboard"},
                paging : {"null", "paging"}]
  /\ inited \in BOOLEAN /\ fuse \in BOOLEAN /\ sink \in {"null", "boot", "kernel"}
  /\ ctx \in [arch : {"X86"}, bootloader : {"Multiboot2"},
              bootloader_name : {"null", "Unknown", "tag"}, cmdline : {"null", "<none>", "tag"},
              upper_mem_kb : Nat, memory_map : {"null", "regions"}, ram_start_addr : {"null", "bump"}]

Registers == [data : {<<>>} \cup {<<b>> : b \in LogChar}, int_en : Nat, line_ctrl : Nat, fifo_ctrl : Nat,
              modem_ctrl : Nat, divisor_low : Nat, divisor_high : Nat]

WireInv ==
  /\ wire \in Seq(LogChar) /\ pending \in Seq(LogChar) /\ said \in Seq(LogChar)
  /\ uart \in Registers
  /\ wire \o uart.data \o pending = OnTheWire(said)
  /\ inited => Readable
  /\ ~ inited => pending = <<>> /\ uart.data = <<>> /\ uart.line_ctrl = 3

ShellInv ==
  /\ ctx.memory_map = "regions" => find(Mmap) \in Slot
  /\ serv.framebuffer # NoFramebuffer => find(Framebuffer) \in Slot /\ valid(serv.framebuffer)
  /\ ctx.memory_map \in {"null", "regions"}
  /\ pc \in {"tags"} => ctx.memory_map = "null" /\ serv.framebuffer = NoFramebuffer
  /\ pc \in {"map", "fuse", "kernel_sink", "report", "screen", "shell"} => ctx.memory_map = "regions"
  /\ pc \in {"kernel_sink", "report", "screen", "shell"} => fuse
  /\ pc \in Unbound \cup {"port", "sink"} => sink = "null"
  /\ pc \in {"sink", "framebuffer", "context", "memory", "map", "fuse", "kernel_sink", "report", "screen", "shell"} => serv.serial # 0
  /\ pc \in {"report", "screen", "shell"} => sink = "kernel"
  /\ pc \in {"fuse", "kernel_sink", "report", "screen", "shell"} => serv.framebuffer # NoFramebuffer
  /\ pc \in Unbound \cup {"port", "sink", "framebuffer", "context", "memory", "map"} => fuse = FALSE

BringUpInv == TagInv /\ CoreInv /\ ConsoleInv /\ WireInv /\ ShellInv /\ ServTypes

-----------------------------------------------------------------------------
(* The hash and the tag map.                                               *)

\* The product of two words is a word.
LEMMA TimesIsWord ==
  ASSUME NEW h, NEW m
  PROVE  times(h, m) \in [Bit -> {0, 1}]
<1> DEFINE ones(b) == Cardinality({i \in 1 .. b : h[i] = 1 /\ m[b + 1 - i] = 1})
           next(low, n) == <<ones(n) + (IF low = <<>> THEN 0 ELSE low[1] \div 2)>> \o low
           S == Seq(Nat)
           step == [n \in 1 .. 32 |-> [low \in S |-> next(low, n)]]
           columns[n \in 0 .. 32] ==
             IF n = 0 THEN <<>>
             ELSE LET low   == columns[n - 1]
                      carry == IF low = <<>> THEN 0 ELSE low[1] \div 2
                  IN  <<ones(n) + carry>> \o low
           sums == columns[32]
<1>1. \A n \in 1 .. 32 : ones(n) \in Nat
  <2> SUFFICES ASSUME NEW n \in 1 .. 32  PROVE ones(n) \in Nat
    OBVIOUS
  <2> DEFINE O == {i \in 1 .. n : h[i] = 1 /\ m[n + 1 - i] = 1}
  <2>1. IsFiniteSet(1 .. n) /\ O \in SUBSET (1 .. n)
    BY FS_Interval
  <2> HIDE DEF O
  <2>2. IsFiniteSet(O)
    BY <2>1, FS_Subset
  <2>3. Cardinality(O) \in Nat
    BY <2>2, FS_CardinalityType
  <2> QED
    BY <2>3 DEF O
<1> HIDE DEF ones
<1>2. \A n \in 1 .. 32, low \in S : next(low, n) \in S /\ Len(next(low, n)) = Len(low) + 1
  <2> SUFFICES ASSUME NEW n \in 1 .. 32, NEW low \in S
               PROVE  next(low, n) \in S /\ Len(next(low, n)) = Len(low) + 1
    OBVIOUS
  <2>1. (IF low = <<>> THEN 0 ELSE low[1] \div 2) \in Nat
    <3>1. CASE low = <<>>
      BY <3>1
    <3>2. CASE low # <<>>
      <4>1. low[1] \in Nat
        BY <3>2
      <4> QED
        BY <3>2, <4>1
    <3> QED
      BY <3>1, <3>2
  <2> DEFINE c == IF low = <<>> THEN 0 ELSE low[1] \div 2
  <2> HIDE DEF c
  <2>2. c \in Nat /\ ones(n) \in Nat
    BY <1>1, <2>1 DEF c
  <2>4. ones(n) + c \in Nat
    BY <2>2
  <2>3. <<ones(n) + c>> \o low \in S /\ Len(<<ones(n) + c>> \o low) = Len(low) + 1
    BY <2>4
  <2> QED
    BY <2>3 DEF c
<1> HIDE DEF next, S
<1>3. step \in [1 .. 32 -> [S -> S]] /\ <<>> \in S
  BY <1>2 DEF S
<1> HIDE DEF step
<1>4. PICK g : Iterates(g, S, <<>>, 32, step)
  BY <1>3, Recursion
<1>5. \A k \in 1 .. 32 : g[k - 1] \in S /\ g[k] = next(g[k - 1], k)
  <2> SUFFICES ASSUME NEW k \in 1 .. 32  PROVE g[k - 1] \in S /\ g[k] = next(g[k - 1], k)
    OBVIOUS
  <2>1. k - 1 \in 0 .. 32
    OBVIOUS
  <2>2. g[k - 1] \in S /\ g[k] = step[k][g[k - 1]]
    BY <1>4, <2>1 DEF Iterates
  <2> QED
    BY <2>2 DEF step
<1> DEFINE F(f) == f = [n \in 0 .. 32 |->
                          IF n = 0 THEN <<>>
                          ELSE LET low   == f[n - 1]
                                   carry == IF low = <<>> THEN 0 ELSE low[1] \div 2
                               IN  <<ones(n) + carry>> \o low]
<1>6. F(g)
  <2>1. g = [n \in 0 .. 32 |-> IF n = 0 THEN <<>> ELSE next(g[n - 1], n)]
    <3>1. g = [n \in 0 .. 32 |-> g[n]]
      BY <1>4 DEF Iterates
    <3>2. ASSUME NEW n \in 0 .. 32  PROVE g[n] = IF n = 0 THEN <<>> ELSE next(g[n - 1], n)
      <4>1. n = 0 \/ n \in 1 .. 32
        OBVIOUS
      <4> QED
        BY <1>4, <1>5, <4>1 DEF Iterates
    <3> QED
      BY <3>1, <3>2
  <2> QED
    BY <2>1 DEF next
<1>7. columns = CHOOSE f : F(f)
  OBVIOUS
<1>8. F(columns)
  <2> HIDE DEF F, columns
  <2> QED
    BY <1>6, <1>7
<1>9. columns = [n \in 0 .. 32 |-> IF n = 0 THEN <<>> ELSE next(columns[n - 1], n)]
  BY <1>8 DEF next
<1> HIDE DEF columns, F
<1> DEFINE T == {n \in 0 .. 32 : columns[n] \in S /\ Len(columns[n]) = n}
<1>10. \A n \in 0 .. 32 : n \in T
  <2>1. 0 \in T
    BY <1>9, <1>3
  <2>2. ASSUME NEW n \in 0 .. 31, n \in T  PROVE n + 1 \in T
    <3>1. n + 1 \in 1 .. 32 /\ n + 1 \in 0 .. 32 /\ n + 1 # 0 /\ (n + 1) - 1 = n
          /\ columns[n] \in S /\ Len(columns[n]) = n
      BY <2>2
    <3>2. columns[n + 1] = next(columns[n], n + 1)
      BY <1>9, <3>1
    <3>3. columns[n + 1] \in S /\ Len(columns[n + 1]) = n + 1
      BY <1>2, <3>1, <3>2
    <3> QED
      BY <3>1, <3>3
  <2> HIDE DEF T
  <2> QED
    BY <2>1, <2>2, Induction
<1>11. sums \in Seq(Nat) /\ Len(sums) = 32
  BY <1>10 DEF S
<1>12. times(h, m) = [b \in Bit |-> sums[33 - b] % 2]
  BY DEF times, ones, columns
<1> HIDE DEF sums
<1>13. \A b \in Bit : sums[33 - b] % 2 \in {0, 1}
  <2> SUFFICES ASSUME NEW b \in Bit  PROVE sums[33 - b] % 2 \in {0, 1}
    OBVIOUS
  <2>1. 33 - b \in 1 .. 32
    BY DEF Bit
  <2>2. sums[33 - b] \in Nat
    <3>1. PICK j \in 1 .. 32 : j = 33 - b
      BY <2>1
    <3>2. j \in 1 .. Len(sums)
      BY <1>11
    <3>3. sums[j] \in Nat
      BY <1>11, <3>2, ElementOfSeq
    <3> QED
      BY <3>1, <3>3
  <2> QED
    BY <2>2
<1> QED
  BY <1>12, <1>13

\* A word reduced modulo n is less than n.
LEMMA ModuloBelow ==
  ASSUME NEW h \in [Bit -> {0, 1}], NEW n \in Nat \ {0}
  PROVE  modulo(h, n) \in 0 .. n - 1
<1> DEFINE next(x, b) == (h[33 - b] + 2 * x) % n
           S == 0 .. n - 1
           step == [b \in 1 .. 32 |-> [x \in S |-> next(x, b)]]
           above[b \in 0 .. 32] == IF b = 0 THEN 0 ELSE (h[33 - b] + 2 * above[b - 1]) % n
           F(f) == f = [b \in 0 .. 32 |-> IF b = 0 THEN 0 ELSE (h[33 - b] + 2 * f[b - 1]) % n]
<1>1. \A b \in 1 .. 32, x \in S : next(x, b) \in S
  <2> SUFFICES ASSUME NEW b \in 1 .. 32, NEW x \in S  PROVE next(x, b) \in S
    OBVIOUS
  <2>1. 33 - b \in Bit
    BY DEF Bit
  <2>2. h[33 - b] \in Nat
    BY <2>1
  <2>3. h[33 - b] + 2 * x \in Nat
    BY <2>2
  <2> QED
    BY <2>3, DivMod
<1> HIDE DEF next
<1>2. step \in [1 .. 32 -> [S -> S]] /\ 0 \in S
  <2>1. 0 \in S
    OBVIOUS
  <2> HIDE DEF S
  <2> QED
    BY <1>1, <2>1
<1> HIDE DEF step, S
<1>3. PICK g : Iterates(g, S, 0, 32, step)
  BY <1>2, Recursion
<1>4. ASSUME NEW b \in 0 .. 32  PROVE g[b] = IF b = 0 THEN 0 ELSE next(g[b - 1], b)
  <2>1. CASE b = 0
    BY <1>3, <2>1 DEF Iterates
  <2>2. CASE b # 0
    <3>1. b \in 1 .. 32 /\ b - 1 \in 0 .. 32
      BY <2>2
    <3>2. g[b - 1] \in S /\ g[b] = step[b][g[b - 1]]
      BY <1>3, <3>1 DEF Iterates
    <3> QED
      BY <2>2, <3>1, <3>2 DEF step
  <2> QED
    BY <2>1, <2>2
<1>5. F(g)
  <2>1. g = [b \in 0 .. 32 |-> g[b]]
    BY <1>3 DEF Iterates
  <2> QED
    BY <1>4, <2>1 DEF next
<1>6. above = CHOOSE f : F(f)
  OBVIOUS
<1>7. F(above)
  <2> HIDE DEF F, above
  <2> QED
    BY <1>5, <1>6
<1>8. above = [b \in 0 .. 32 |-> IF b = 0 THEN 0 ELSE next(above[b - 1], b)]
  BY <1>7 DEF next
<1>9. modulo(h, n) = above[32]
  BY DEF modulo
<1> HIDE DEF above, F
<1> DEFINE T == {b \in 0 .. 32 : above[b] \in S}
<1>10. \A b \in 0 .. 32 : b \in T
  <2>1. 0 \in T
    BY <1>2, <1>8
  <2>2. ASSUME NEW b \in 0 .. 31, b \in T  PROVE b + 1 \in T
    <3>1. b + 1 \in 1 .. 32 /\ b + 1 \in 0 .. 32 /\ b + 1 # 0 /\ (b + 1) - 1 = b /\ above[b] \in S
      BY <2>2
    <3>2. above[b + 1] = next(above[b], b + 1)
      BY <1>8, <3>1
    <3>3. above[b + 1] \in S
      BY <1>1, <3>1, <3>2
    <3> QED
      BY <3>1, <3>3
  <2> HIDE DEF T
  <2> QED
    BY <2>1, <2>2, Induction
<1> QED
  BY <1>9, <1>10 DEF S

\* A word is a word after h ^= h >> n.
LEMMA ShiftIsWord ==
  ASSUME NEW h \in [Bit -> {0, 1}], NEW n \in Nat
  PROVE  shift_xor(h, n) \in [Bit -> {0, 1}]
<1> SUFFICES ASSUME NEW b \in Bit
             PROVE  (h[b] + (IF b + n \in Bit THEN h[b + n] ELSE 0)) % 2 \in {0, 1}
  BY DEF shift_xor
<1> DEFINE u == IF b + n \in Bit THEN h[b + n] ELSE 0
<1>1. h[b] \in Nat /\ u \in Nat
  <2>1. CASE b + n \in Bit
    BY <2>1
  <2>2. CASE b + n \notin Bit
    BY <2>2
  <2> QED
    BY <2>1, <2>2
<1> HIDE DEF u
<1>2. (h[b] + u) % 2 \in {0, 1}
  BY <1>1
<1> QED
  BY <1>2 DEF u

\* hash: the home of a key is a slot.
LEMMA HomeIsSlot == ASSUME NEW t \in Key  PROVE Home[t] \in Slot
<1> DEFINE p == times(shift_xor(times(shift_xor(word(0, t), 16), word(34283, 51819)), 13),
                      word(49842, 44597))
           h == shift_xor(p, 16)
<1>1. h \in [Bit -> {0, 1}]
  <2>1. 16 \in Nat
    OBVIOUS
  <2> QED
    <3>1. p \in [Bit -> {0, 1}]
      BY TimesIsWord
    <3> HIDE DEF p
    <3> QED
      BY <2>1, <3>1, ShiftIsWord
<1>2. Home[t] = modulo(h, Capacity)
  BY DEF Home, mix_uintptr
<1> HIDE DEF h
<1>3. Capacity \in Nat \ {0}
  BY FlatMapAssumption
<1> QED
  BY <1>1, <1>2, <1>3, ModuloBelow DEF Slot

-----------------------------------------------------------------------------
(* Slots and probing.                                                      *)

\* What find answers without an entry is no slot.
LEMMA CapacityNat == Capacity \in Nat \ {0} /\ Absent \notin Slot /\ Stray \notin Slot /\ Stray # Absent
BY FlatMapAssumption DEF Absent, Stray, Slot

\* The slots after a slot, once around.
LEMMA AfterIs ==
  ASSUME NEW h \in Slot, NEW k \in 0 .. Capacity - 1
  PROVE  /\ After(h, k) \in Slot
         /\ After(h, k) = IF h + k < Capacity THEN h + k ELSE h + k - Capacity
<1>1. Capacity \in Nat \ {0} /\ h \in Nat /\ h < Capacity /\ k \in Nat /\ k < Capacity
  BY CapacityNat DEF Slot
<1>2. PICK v \in Nat : v = h + k /\ v < 2 * Capacity
  BY <1>1
<1>3. PICK q, r \in Nat : q = v \div Capacity /\ r = v % Capacity
  <2>1. v \in Nat
    BY <1>2
  <2>2. v \div Capacity \in Nat /\ v % Capacity \in 0 .. Capacity - 1
    BY <1>1, <2>1, DivNat, DivMod
  <2> QED
    BY <1>1, <2>2
<1>4. v = Capacity * q + r /\ r < Capacity
  BY <1>1, <1>2, <1>3, DivMod
<1>5. q < 2
  <2>1. Capacity * q \in Int /\ Capacity * 2 = 2 * Capacity
        /\ (Capacity * q < Capacity * 2 <=> q < 2)
    BY <1>1, <1>3, ProductOrder
  <2>2. Capacity * q < Capacity * 2
    BY <1>1, <1>2, <1>3, <1>4, <2>1
  <2> QED
    BY <2>1, <2>2
<1>6. CASE q = 0
  <2>1. v = r
    BY <1>1, <1>3, <1>4, <1>6
  <2> QED
    BY <1>1, <1>2, <1>3, <1>4, <2>1 DEF After, Slot
<1>7. CASE q = 1
  <2>1. v = Capacity + r
    BY <1>1, <1>3, <1>4, <1>7
  <2> QED
    BY <1>1, <1>2, <1>3, <1>4, <2>1 DEF After, Slot
<1> QED
  BY <1>3, <1>5, <1>6, <1>7

\* Going around once meets every slot once.
LEMMA AfterOnce ==
  ASSUME NEW h \in Slot, NEW k \in 0 .. Capacity - 1, NEW j \in 0 .. Capacity - 1
  PROVE  /\ After(h, k) = After(h, j) => k = j
         /\ After(h, k) = h <=> k = 0
<1>1. Capacity \in Nat \ {0} /\ h \in Nat /\ h < Capacity /\ 0 \in 0 .. Capacity - 1
  BY CapacityNat DEF Slot
<1>2. \A i \in 0 .. Capacity - 1 :
        After(h, i) = IF h + i < Capacity THEN h + i ELSE h + i - Capacity
  BY AfterIs
<1> QED
  BY <1>1, <1>2

\* probe_entry_linear: the first stop, all slots before it being taken by
\* other keys, or nullptr, when all slots but the home are.
LEMMA Probing ==
  ASSUME NEW t, NEW h \in Slot
  PROVE  LET p == probe_entry_linear(t, h)
             passed(k) == data[After(h, k)].taken /\ data[After(h, k)].key # t
         IN  \/ /\ p = Absent
                /\ \A k \in 1 .. Capacity - 1 : passed(k)
             \/ \E k \in 1 .. Capacity - 1 :
                  /\ p = After(h, k) /\ ~ passed(k)
                  /\ \A j \in 1 .. k - 1 : passed(j)
<1> DEFINE passed(k) == data[After(h, k)].taken /\ data[After(h, k)].key # t
           stops == {k \in 1 .. Capacity - 1 :
                       LET e == data[(h + k) % Capacity] IN e.taken => e.key = t}
<1>1. stops = {k \in 1 .. Capacity - 1 : ~ passed(k)}
  BY DEF After
<1>2. probe_entry_linear(t, h) =
        IF stops = {} THEN Absent
        ELSE After(h, CHOOSE k \in stops : \A j \in stops : k <= j)
  BY DEF probe_entry_linear, After
<1> HIDE DEF stops
<1>3. CASE stops = {}
  <2>1. probe_entry_linear(t, h) = Absent
    BY <1>2, <1>3
  <2>2. \A k \in 1 .. Capacity - 1 : passed(k)
    BY <1>1, <1>3
  <2> QED
    BY <2>1, <2>2
<1>4. CASE stops # {}
  <2>1. stops \in SUBSET Nat
    BY <1>1, CapacityNat
  <2>2. PICK k \in stops : \A j \in stops : k <= j
    BY <1>4, <2>1, LeastNat
  <2> DEFINE first == CHOOSE x \in stops : \A j \in stops : x <= j
  <2>3. first \in stops /\ \A j \in stops : first <= j
    BY <2>2
  <2>4. probe_entry_linear(t, h) = After(h, first)
    BY <1>2, <1>4
  <2> HIDE DEF first
  <2>5. first \in 1 .. Capacity - 1 /\ ~ passed(first)
    BY <1>1, <2>3
  <2>6. ASSUME NEW j \in 1 .. first - 1  PROVE passed(j)
    <3>1. j \in 1 .. Capacity - 1 /\ ~ (first <= j)
      BY <2>5, CapacityNat
    <3> QED
      BY <1>1, <2>3, <3>1
  <2> QED
    BY <2>4, <2>5, <2>6
<1> QED
  BY <1>3, <1>4

\* What find answers.
LEMMA FindIs ==
  ASSUME NEW t \in Key
  PROVE  LET h == Home[t]
         IN  /\ h \in Slot
             /\ find(t) = h \/ find(t) = Absent \/ find(t) = Stray
             /\ find(t) = h => Holds(h, t)
             /\ Holds(h, t) /\ ~ empty => find(t) = h
             /\ find(t) = Absent => empty \/ (~ Holds(h, t) /\ probe_entry_linear(t, h) # Absent)
             /\ find(t) = Stray => ~ Holds(h, t) /\ probe_entry_linear(t, h) = Absent
<1> DEFINE h == Home[t]
<1>1. h \in Slot
  BY HomeIsSlot
<1>2. find(t) = IF empty THEN Absent
                ELSE IF Holds(h, t) THEN h
                ELSE IF probe_entry_linear(t, h) # Absent THEN Absent ELSE Stray
  BY DEF find, Holds
<1>3. Absent \notin Slot /\ Stray \notin Slot /\ Stray # Absent
  BY CapacityNat
<1> HIDE DEF h
<1>4. Absent # h /\ Stray # h
  BY <1>1, <1>3
<1>5. /\ find(t) = h \/ find(t) = Absent \/ find(t) = Stray
      /\ find(t) = h => Holds(h, t)
      /\ Holds(h, t) /\ ~ empty => find(t) = h
      /\ find(t) = Absent => empty \/ (~ Holds(h, t) /\ probe_entry_linear(t, h) # Absent)
      /\ find(t) = Stray => ~ Holds(h, t) /\ probe_entry_linear(t, h) = Absent
  <2>1. CASE empty
    BY <1>2, <1>3, <1>4, <2>1 DEF empty
  <2>2. CASE ~ empty /\ Holds(h, t)
    BY <1>2, <1>3, <1>4, <2>2
  <2>3. CASE ~ empty /\ ~ Holds(h, t)
    BY <1>2, <1>3, <1>4, <2>3
  <2> QED
    BY <2>1, <2>2, <2>3
<1> QED
  BY <1>1, <1>5 DEF h

\* The types get_tag_map takes are keys, fewer than there are slots.
LEMMA TagsAreKeys ==
  /\ TagCount \in Nat /\ TagCount <= Capacity /\ 9 <= TagCount
  /\ Module \in 1 .. TagCount - 1 /\ 1 .. TagCount - 1 \subseteq Key
  /\ Accepted \subseteq 1 .. TagCount - 1 /\ Accepted \subseteq Key
  /\ IsFiniteSet(Accepted) /\ Cardinality(Accepted) \in Nat /\ Cardinality(Accepted) < Capacity
<1>1. TagCount \in Nat /\ TagCount <= Capacity /\ 9 <= TagCount /\ Capacity \in Nat
  BY TagsAssumption, CapacityNat
<1>2. IsFiniteSet(1 .. TagCount - 1) /\ Cardinality(1 .. TagCount - 1) = TagCount - 1
  BY <1>1, FS_Interval
<1>3. Accepted \in SUBSET (1 .. TagCount - 1)
  BY DEF Accepted
<1>4. IsFiniteSet(Accepted) /\ Cardinality(Accepted) <= Cardinality(1 .. TagCount - 1)
  BY <1>2, <1>3, FS_Subset
<1>5. Cardinality(Accepted) \in Nat
  BY <1>4, FS_CardinalityType
<1>6. Cardinality(Accepted) < Capacity
  BY <1>1, <1>2, <1>4, <1>5
<1> QED
  BY <1>1, <1>3, <1>4, <1>5, <1>6, TagsAssumption DEF Module

\* There are fewer types than slots: probing ends.
LEMMA NeverStray ==
  ASSUME Entries, NEW t \in 1 .. TagCount - 1
  PROVE  find(t) # Stray
<1> SUFFICES ASSUME find(t) = Stray  PROVE FALSE
  OBVIOUS
<1> DEFINE h == Home[t]
           From == 1 .. Capacity - 1
           Types == 1 .. TagCount - 1
           Rest == Types \ {t}
           f == [k \in From |-> data[After(h, k)].key]
<1>1. Capacity \in Nat \ {0} /\ TagCount \in Nat /\ TagCount <= Capacity /\ 9 <= TagCount
      /\ t \in Key /\ t \in Types
  BY TagsAreKeys, CapacityNat
<1>2. h \in Slot /\ probe_entry_linear(t, h) = Absent
  BY <1>1, FindIs
<1> HIDE DEF h
<1>3. \A k \in From : data[After(h, k)].taken /\ data[After(h, k)].key # t
  <2>1. \A k \in From : After(h, k) # Absent
    BY <1>2, AfterIs, CapacityNat
  <2> QED
    BY <1>2, <2>1, Probing
<1>4. ASSUME NEW k \in From
      PROVE  k \in 0 .. Capacity - 1 /\ After(h, k) \in Slot /\ data[After(h, k)].key \in Rest
  <2>1. k \in 0 .. Capacity - 1
    BY <1>1
  <2>2. After(h, k) \in Slot
    BY <1>2, <2>1, AfterIs
  <2>3. data[After(h, k)].key \in Accepted /\ Accepted \subseteq Types
    BY <1>3, <2>2, TagsAreKeys DEF Entries, Seen
  <2> QED
    BY <1>3, <2>1, <2>2, <2>3
<1>5. IsFiniteSet(From) /\ Cardinality(From) = Capacity - 1
      /\ IsFiniteSet(Types) /\ Cardinality(Types) = TagCount - 1
  BY <1>1, FS_Interval
<1> HIDE DEF From, Types
<1>6. IsFiniteSet(Rest) /\ Cardinality(Rest) = Cardinality(Types) - 1
  BY <1>1, <1>5, FS_RemoveElement
<1>7. Cardinality(Rest) < Cardinality(From)
  BY <1>1, <1>5, <1>6
<1>8. f \in [From -> Rest]
  BY <1>4
<1> HIDE DEF f, Rest
<1>9. PICK x, y \in From : x # y /\ f[x] = f[y]
  BY <1>5, <1>6, <1>7, <1>8, FS_PigeonHole
<1>10. After(h, x) = After(h, y)
  <2>1. data[After(h, x)].taken /\ Holds(After(h, y), data[After(h, x)].key)
    BY <1>3, <1>9 DEF Holds, f
  <2> QED
    BY <1>4, <2>1 DEF Entries
<1> QED
  BY <1>2, <1>4, <1>9, <1>10, AfterOnce

\* The tag that is read is the next of its type.
LEMMA NextTag ==
  ASSUME MapTypes, NEW t \in Key, read_tag(t)
  PROVE  /\ tags_seen[t] + 1 \in 1 .. MaxModules
         /\ tags_seen' = [tags_seen EXCEPT ![t] = tags_seen[t] + 1]
         /\ \A u \in Key : tags_seen'[u] = IF u = t THEN tags_seen[t] + 1 ELSE tags_seen[u]
         /\ t # Module => tags_seen[t] = 0
         /\ Accepted' = Accepted /\ profile' = profile
         /\ t \in Accepted <=> 0 < t /\ t < TagCount
<1>1. t \in profile /\ tags_seen[t] < (IF t = Module THEN MaxModules ELSE 1)
      /\ tags_seen' = [tags_seen EXCEPT ![t] = tags_seen[t] + 1] /\ profile' = profile
  BY DEF read_tag
<1>2. tags_seen \in [Key -> 0 .. MaxModules] /\ MaxModules \in Nat \ {0}
  BY TagsAssumption DEF MapTypes
<1>3. tags_seen[t] \in 0 .. MaxModules
  BY <1>2
<1>4. tags_seen[t] + 1 \in 1 .. MaxModules /\ (t # Module => tags_seen[t] = 0)
  BY <1>1, <1>2, <1>3
<1>5. Accepted' = Accepted
  BY <1>1 DEF Accepted
<1>6. t \in Nat /\ TagCount \in Nat
  <2>1. TagCount \in Nat
    BY TagsAreKeys
  <2> QED
    BY <2>1, FlatMapAssumption
<1>7. t \in Accepted <=> 0 < t /\ t < TagCount
  BY <1>1, <1>6 DEF Accepted
<1> QED
  BY <1>1, <1>2, <1>4, <1>5, <1>7

\* What reading a tag adds to the types and the tags that were read.
LEMMA Counts ==
  ASSUME MapTypes, NEW t \in Key, read_tag(t)
  PROVE  /\ Cardinality(Seen) \in Nat /\ Cardinality(Seen) < Capacity /\ Cardinality(TagsRead) \in Nat
         /\ Seen \subseteq Accepted
         /\ t \in Accepted => /\ Seen' = Seen \cup {t}
                              /\ t \notin Seen => Cardinality(Seen') = Cardinality(Seen) + 1
                              /\ Cardinality(TagsRead') = Cardinality(TagsRead) + 1
         /\ t \notin Accepted => Seen' = Seen /\ TagsRead' = TagsRead
<1> DEFINE v == tags_seen[t] + 1
<1>1. /\ v \in 1 .. MaxModules /\ Accepted' = Accepted /\ MaxModules \in Nat
      /\ \A u \in Key : tags_seen'[u] = IF u = t THEN v ELSE tags_seen[u]
  BY NextTag, TagsAssumption
<1>2. /\ tags_seen \in [Key -> 0 .. MaxModules]
      /\ Accepted \subseteq Key /\ IsFiniteSet(Accepted) /\ Cardinality(Accepted) < Capacity
      /\ Cardinality(Accepted) \in Nat /\ Capacity \in Nat
  BY TagsAreKeys, CapacityNat DEF MapTypes
<1>3. Seen \in SUBSET Accepted
  BY DEF Seen
<1>4. IsFiniteSet(Seen) /\ Cardinality(Seen) \in Nat /\ Cardinality(Seen) < Capacity
  <2>1. IsFiniteSet(Seen) /\ Cardinality(Seen) <= Cardinality(Accepted)
    BY <1>2, <1>3, FS_Subset
  <2>2. Cardinality(Seen) \in Nat
    BY <2>1, FS_CardinalityType
  <2> QED
    BY <1>2, <2>1, <2>2
<1>5. IsFiniteSet(TagsRead) /\ Cardinality(TagsRead) \in Nat
  <2> DEFINE P == Accepted \X (1 .. MaxModules)
  <2>1. IsFiniteSet(P)
    <3>1. IsFiniteSet(1 .. MaxModules)
      BY <1>1, FS_Interval
    <3> QED
      BY <1>2, <3>1, FS_Product
  <2>2. TagsRead \in SUBSET P
    BY DEF TagsRead
  <2> HIDE DEF P
  <2>3. IsFiniteSet(TagsRead)
    BY <2>1, <2>2, FS_Subset
  <2> QED
    BY <2>3, FS_CardinalityType
<1>6. tags_seen[t] \in Nat /\ ~ (v <= tags_seen[t]) /\ v > 0 /\ v = tags_seen[t] + 1
  BY <1>2
<1> HIDE DEF v
<1>7. \A u \in Accepted : u \in Key /\ tags_seen[u] \in 0 .. MaxModules
  BY <1>2
<1>8. ASSUME t \in Accepted
      PROVE  /\ Seen' = Seen \cup {t} /\ TagsRead' = TagsRead \cup {<<t, v>>}
             /\ <<t, v>> \notin TagsRead
  <2>1. Seen' = Seen \cup {t}
    BY <1>1, <1>6, <1>7, <1>8 DEF Seen
  <2>2. <<t, v>> \notin TagsRead
    BY <1>6 DEF TagsRead
  <2>3. <<t, v>> \in Accepted \X (1 .. MaxModules)
    BY <1>1, <1>8
  <2>4. ASSUME NEW tag \in Accepted \X (1 .. MaxModules)
        PROVE  tag[2] <= tags_seen'[tag[1]] <=> tag[2] <= tags_seen[tag[1]] \/ tag = <<t, v>>
    <3>1. tag = <<tag[1], tag[2]>> /\ tag[1] \in Accepted /\ tag[2] \in 1 .. MaxModules
      BY <2>4
    <3>2. PICK a, b : a = tag[1] /\ b = tag[2]
      OBVIOUS
    <3>3. CASE a = t
      <4>1. tags_seen'[a] = v /\ b \in Nat
        BY <1>1, <1>7, <3>1, <3>2, <3>3
      <4>2. tag = <<t, v>> <=> b = v
        BY <3>1, <3>2, <3>3
      <4>3. b <= v <=> b <= tags_seen[t] \/ b = v
        BY <1>1, <1>6, <4>1
      <4> QED
        BY <3>2, <3>3, <4>1, <4>2, <4>3
    <3>4. CASE a # t
      BY <1>1, <1>7, <3>1, <3>2, <3>4
    <3> QED
      BY <3>3, <3>4
  <2>5. TagsRead' = TagsRead \cup {<<t, v>>}
    BY <1>1, <2>3, <2>4 DEF TagsRead
  <2> QED
    BY <2>1, <2>2, <2>5
<1>9. ASSUME t \notin Accepted  PROVE Seen' = Seen /\ TagsRead' = TagsRead
  <2>1. \A u \in Accepted : tags_seen'[u] = tags_seen[u]
    BY <1>1, <1>7, <1>9
  <2>2. Seen' = Seen
    BY <1>1, <2>1 DEF Seen
  <2>3. TagsRead' = TagsRead
    BY <1>1, <2>1 DEF TagsRead
  <2> QED
    BY <2>2, <2>3
<1>10. t \in Accepted => Cardinality(TagsRead') = Cardinality(TagsRead) + 1
  BY <1>5, <1>8, FS_AddElement
<1>11. t \in Accepted /\ t \notin Seen => Cardinality(Seen') = Cardinality(Seen) + 1
  BY <1>4, <1>8, FS_AddElement
<1> QED
  BY <1>3, <1>4, <1>5, <1>8, <1>9, <1>10, <1>11

\* Where a new key goes: a slot that is free or its own, after taken slots of
\* other keys.
LEMMA PlaceIs ==
  ASSUME TagInv, NEW t \in Accepted, find(t) = Absent
  PROVE  \E d \in 0 .. Capacity - 1 :
           /\ place(t) = After(Home[t], d) /\ place(t) \in Slot
           /\ \A k \in 0 .. d - 1 : data[After(Home[t], k)].taken /\ data[After(Home[t], k)].key # t
           /\ data[place(t)].taken => Holds(place(t), t) /\ place(t) # Home[t]
<1> DEFINE h == Home[t]
           p == probe_entry_linear(t, h)
<1>1. t \in Key /\ h \in Slot /\ Capacity \in Nat \ {0} /\ 0 \in 0 .. Capacity - 1
  BY TagsAreKeys, HomeIsSlot, CapacityNat
<1>2. empty \/ (~ Holds(h, t) /\ p # Absent)
  BY <1>1, FindIs
<1>3. place(t) = IF data[h].taken THEN p ELSE h
  BY DEF place
<1>4. After(h, 0) = h
  BY <1>1, AfterOnce
<1> HIDE DEF h, p
<1>5. CASE ~ data[h].taken
  <2>1. place(t) = After(h, 0) /\ place(t) \in Slot /\ ~ data[place(t)].taken
    BY <1>1, <1>3, <1>4, <1>5
  <2>2. \A k \in 0 .. 0 - 1 : FALSE
    OBVIOUS
  <2> QED
    BY <1>1, <2>1, <2>2 DEF h
<1>6. CASE data[h].taken
  <2>1. ~ Holds(h, t) /\ p # Absent /\ place(t) = p
    BY <1>1, <1>2, <1>3, <1>6 DEF TagInv, Counted
  <2>2. PICK k \in 1 .. Capacity - 1 :
          /\ p = After(h, k)
          /\ ~ (data[After(h, k)].taken /\ data[After(h, k)].key # t)
          /\ \A j \in 1 .. k - 1 : data[After(h, j)].taken /\ data[After(h, j)].key # t
    BY <1>1, <2>1, Probing DEF p
  <2>3. k \in 0 .. Capacity - 1 /\ k # 0 /\ k \in Nat
    BY <1>1
  <2>4. After(h, k) \in Slot /\ After(h, k) # h
    BY <1>1, <2>3, AfterIs, AfterOnce
  <2>5. ASSUME NEW j \in 0 .. k - 1  PROVE data[After(h, j)].taken /\ data[After(h, j)].key # t
    <3>1. j = 0 \/ j \in 1 .. k - 1
      BY <2>3
    <3> QED
      BY <1>4, <1>6, <2>1, <2>2, <3>1 DEF Holds
  <2>6. data[p].taken => Holds(p, t)
    BY <2>2 DEF Holds
  <2> QED
    BY <2>1, <2>2, <2>3, <2>4, <2>5, <2>6 DEF h
<1> QED
  BY <1>5, <1>6

\* Only the slot a new key goes to may already hold it.
LEMMA PlaceIsTheOnly ==
  ASSUME TagInv, NEW t \in Accepted, find(t) = Absent, NEW u \in Slot, Holds(u, t)
  PROVE  u = place(t)
<1> DEFINE h == Home[t]
<1>1. PICK d \in 0 .. Capacity - 1 :
        /\ place(t) = After(h, d) /\ place(t) \in Slot
        /\ \A k \in 0 .. d - 1 : data[After(h, k)].taken /\ data[After(h, k)].key # t
        /\ data[place(t)].taken => Holds(place(t), t)
  BY PlaceIs
<1>2. PICK e \in 0 .. Capacity - 1 :
        u = After(h, e) /\ \A k \in 0 .. e - 1 : data[After(h, k)].taken
  BY DEF TagInv, Chains, Holds
<1>3. data[u].taken /\ data[u].key = t
  BY DEF Holds
<1> HIDE DEF h
<1>4. CASE data[place(t)].taken
  <2>1. Holds(u, data[place(t)].key) /\ place(t) \in Slot
    BY <1>1, <1>3, <1>4 DEF Holds
  <2> QED
    BY <1>4, <2>1 DEF TagInv, Entries
<1>5. CASE ~ data[place(t)].taken
  <2>1. ~ (e < d)
    <3>1. e < d => e \in 0 .. d - 1
      BY CapacityNat
    <3> QED
      BY <1>1, <1>2, <1>3, <3>1
  <2>2. ~ (d < e)
    <3>1. d < e => d \in 0 .. e - 1
      BY CapacityNat
    <3> QED
      BY <1>1, <1>2, <1>5, <3>1
  <2>3. d = e
    BY <2>1, <2>2, CapacityNat
  <2> QED
    BY <1>1, <1>2, <2>3
<1> QED
  BY <1>4, <1>5

\* A type that was read is in the map while the map is not full, and not in a
\* free slot's place.
LEMMA FreeHome ==
  ASSUME TagInv, ~ full, NEW t \in Seen, ~ data[Home[t]].taken
  PROVE  FALSE
<1>1. PICK u \in Slot : Holds(u, t)
  BY DEF TagInv, Lost
<1> DEFINE h == Home[t]
<1>2. t \in Key /\ h \in Slot /\ Capacity \in Nat \ {0} /\ 0 \in 0 .. Capacity - 1 /\ After(h, 0) = h
  BY TagsAreKeys, HomeIsSlot, CapacityNat, AfterOnce DEF Seen
<1>3. data[u].taken /\ data[u].key = t
  BY <1>1 DEF Holds
<1>4. PICK e \in 0 .. Capacity - 1 :
        u = After(h, e) /\ \A k \in 0 .. e - 1 : data[After(h, k)].taken
  BY <1>1, <1>3 DEF TagInv, Chains
<1> HIDE DEF h
<1>5. e # 0 => 0 \in 0 .. e - 1
  BY <1>2
<1>6. data[h].taken
  BY <1>2, <1>3, <1>4, <1>5
<1> QED
  BY <1>6 DEF h

\* A tag that the map does not take, its type being none or the map being full.
LEMMA TagIsLost ==
  ASSUME TagInv, NEW t \in Key, read_tag(t), UNCHANGED map_vars, t \in Accepted => full
  PROVE  TagInv'
<1>1. /\ tags_seen[t] + 1 \in 1 .. MaxModules
      /\ tags_seen' = [tags_seen EXCEPT ![t] = tags_seen[t] + 1]
      /\ \A u \in Key : tags_seen'[u] = IF u = t THEN tags_seen[t] + 1 ELSE tags_seen[u]
      /\ t # Module => tags_seen[t] = 0
      /\ profile' = profile
  BY NextTag DEF TagInv
<1>2. /\ Cardinality(Seen) \in Nat /\ Cardinality(Seen) < Capacity /\ Cardinality(TagsRead) \in Nat
      /\ Seen \subseteq Accepted
      /\ t \in Accepted => /\ Seen' = Seen \cup {t}
                           /\ t \notin Seen => Cardinality(Seen') = Cardinality(Seen) + 1
                           /\ Cardinality(TagsRead') = Cardinality(TagsRead) + 1
      /\ t \notin Accepted => Seen' = Seen /\ TagsRead' = TagsRead
  BY Counts DEF TagInv
<1>3. data' = data /\ item_count' = item_count
  BY DEF map_vars
<1>4. Accepted \subseteq Key /\ Module \in Key /\ Capacity \in Nat
  BY TagsAreKeys, CapacityNat
<1>5. MapTypes'
  <2>1. tags_seen' \in [Key -> 0 .. MaxModules] /\ \A u \in Key \ {Module} : tags_seen'[u] <= 1
    BY <1>1 DEF TagInv, MapTypes
  <2> QED
    BY <1>1, <1>3, <2>1 DEF TagInv, MapTypes
<1>6. Entries'
  <2>1. Seen \subseteq Seen'
    BY <1>2
  <2> QED
    BY <1>3, <2>1 DEF TagInv, Entries, Holds
<1>7. Chains'
  <2>1. ASSUME NEW s \in Slot, data[s].taken, s = Home[data[s].key]
        PROVE  tags_seen'[data[s].key] = tags_seen[data[s].key]
    <3>1. data[s].key \in Seen /\ data[s].key \in Key
      BY <1>2, <1>4, <2>1 DEF TagInv, Entries
    <3>2. data[s].key # t
      <4> SUFFICES ASSUME data[s].key = t  PROVE FALSE
        OBVIOUS
      <4>1. tags_seen[t] > 0 /\ t \in Accepted /\ full
        BY <1>2, <3>1 DEF Seen
      <4>2. t = Module
        BY <1>1, <4>1
      <4>3. item_count <= Cardinality(Seen)
        BY <2>1, <4>2 DEF TagInv, Counted, Holds
      <4> QED
        BY <1>2, <1>4, <4>1, <4>3 DEF full
    <3> QED
      BY <1>1, <3>1, <3>2
  <2> QED
    BY <1>3, <2>1 DEF TagInv, Chains, After
<1>8. Lost'
  <2> SUFFICES ASSUME NEW u \in Seen', \A s \in Slot : ~ Holds(s, u)'
               PROVE  full' /\ Cardinality(TagsRead') > Capacity
    BY DEF Lost
  <2>1. \A s \in Slot : ~ Holds(s, u)
    BY <1>3 DEF Holds
  <2>2. CASE t \in Accepted
    <3>1. item_count = Capacity /\ item_count <= Cardinality(TagsRead)
      BY <2>2 DEF full, TagInv, Counted
    <3> QED
      BY <1>2, <1>3, <1>4, <2>2, <3>1 DEF full
  <2>3. CASE t \notin Accepted
    <3>1. u \in Seen /\ TagsRead' = TagsRead
      BY <1>2, <2>3
    <3> QED
      BY <1>3, <2>1, <3>1 DEF TagInv, Lost, full
  <2> QED
    BY <2>2, <2>3
<1>9. Counted'
  <2>1. item_count \in Nat /\ item_count <= Cardinality(TagsRead)
    BY DEF TagInv, Counted, MapTypes
  <2>2. item_count' <= Cardinality(TagsRead')
    BY <1>2, <1>3, <2>1
  <2>3. ASSUME tags_seen'[Module] = 0 \/ Holds(Home[Module], Module)'
        PROVE  item_count' <= Cardinality(Seen')
    <3>1. tags_seen'[Module] = 0 => tags_seen[Module] = 0
      BY <1>1, <1>4 DEF TagInv, MapTypes
    <3>2. tags_seen[Module] = 0 \/ Holds(Home[Module], Module)
      BY <1>3, <2>3, <3>1 DEF Holds
    <3>3. item_count <= Cardinality(Seen)
      BY <3>2 DEF TagInv, Counted
    <3>4. Cardinality(Seen') = Cardinality(Seen) \/ Cardinality(Seen') = Cardinality(Seen) + 1
      <4>1. t \in Seen => Seen \cup {t} = Seen
        OBVIOUS
      <4> QED
        BY <1>2, <4>1
    <3> QED
      BY <1>2, <1>3, <2>1, <3>3, <3>4
  <2>4. \A s \in Slot : data'[s].taken => ~ empty'
    BY <1>3 DEF TagInv, Counted, empty
  <2> QED
    BY <2>2, <2>3, <2>4 DEF Counted
<1> QED
  BY <1>5, <1>6, <1>7, <1>8, <1>9 DEF TagInv

\* A tag whose type the map finds: the entry at its home takes the value.
LEMMA TagIsRenewed ==
  ASSUME TagInv, NEW t \in Accepted, read_tag(t), find(t) \in Slot,
         data' = [data EXCEPT ![find(t)].value = tags_seen[t] + 1], UNCHANGED item_count
  PROVE  TagInv'
<1> DEFINE h == Home[t]
           v == tags_seen[t] + 1
<1>0. t \in Key
  BY TagsAreKeys
<1>1. /\ v \in 0 .. MaxModules /\ v # 0 /\ v \in Val
      /\ tags_seen' = [tags_seen EXCEPT ![t] = v]
      /\ \A u \in Key : tags_seen'[u] = IF u = t THEN v ELSE tags_seen[u]
      /\ t # Module => tags_seen[t] = 0
      /\ profile' = profile
  BY <1>0, NextTag, TagsAssumption DEF TagInv
<1>2. /\ Cardinality(Seen) \in Nat /\ Cardinality(Seen) < Capacity /\ Cardinality(TagsRead) \in Nat
      /\ Seen \subseteq Accepted
      /\ Seen' = Seen \cup {t}
      /\ Cardinality(TagsRead') = Cardinality(TagsRead) + 1
  BY <1>0, Counts DEF TagInv
<1>3. h \in Slot /\ find(t) = h /\ data[h].taken /\ data[h].key = t
  BY <1>0, FindIs, CapacityNat DEF Holds
<1>4. Accepted \subseteq Key /\ Module \in Key /\ Capacity \in Nat
  BY TagsAreKeys, CapacityNat
<1> HIDE DEF h, v
<1>5. data' = [data EXCEPT ![h].value = v]
  BY <1>3 DEF v
<1>6. data \in [Slot -> [key : Key \cup {NullKey}, value : Val \cup {NullVal}, taken : BOOLEAN]]
  BY DEF TagInv, MapTypes
<1>7. /\ data' \in [Slot -> [key : Key \cup {NullKey}, value : Val \cup {NullVal}, taken : BOOLEAN]]
      /\ \A s \in Slot : /\ data'[s].taken = data[s].taken /\ data'[s].key = data[s].key
                         /\ data'[s].value = IF s = h THEN v ELSE data[s].value
  BY <1>1, <1>3, <1>5, <1>6
<1>8. t \in Seen
  BY <1>3 DEF TagInv, Entries
<1>9. Seen' = Seen
  BY <1>2, <1>8
<1>10. tags_seen[t] # 0
  BY <1>8 DEF Seen
<1>11. t = Module
  BY <1>1, <1>10
<1>12. MapTypes'
  <2>0. tags_seen \in [Key -> 0 .. MaxModules] /\ \A u \in Key \ {Module} : tags_seen[u] <= 1
    BY DEF TagInv, MapTypes
  <2>1. tags_seen' \in [Key -> 0 .. MaxModules]
    BY <1>1, <2>0
  <2>2. \A u \in Key \ {Module} : tags_seen'[u] <= 1
    BY <1>1, <1>11, <2>0
  <2> QED
    BY <1>1, <1>7, <2>1, <2>2 DEF TagInv, MapTypes
<1>13. Entries'
  BY <1>7, <1>9 DEF TagInv, Entries, Holds
<1>14. \A s \in Slot, k \in 0 .. Capacity - 1 : After(s, k) \in Slot
  BY AfterIs
<1>15. Chains'
  <2> SUFFICES ASSUME NEW s \in Slot, data'[s].taken
               PROVE  /\ \E d \in 0 .. Capacity - 1 :
                           /\ s = After(Home[data'[s].key], d)
                           /\ \A k \in 0 .. d - 1 : data'[After(Home[data'[s].key], k)].taken
                      /\ s = Home[data'[s].key] => data'[s].value = tags_seen'[data'[s].key]
    BY DEF Chains, After
  <2>1. data[s].taken /\ data'[s].key = data[s].key
    BY <1>7
  <2>2. data[s].key \in Key
    BY <1>2, <1>4, <2>1 DEF TagInv, Entries
  <2>3. Home[data[s].key] \in Slot
    BY <2>2, HomeIsSlot
  <2>4. PICK d \in 0 .. Capacity - 1 :
          /\ s = After(Home[data[s].key], d)
          /\ \A k \in 0 .. d - 1 : data[After(Home[data[s].key], k)].taken
    BY <2>1 DEF TagInv, Chains
  <2>5. ASSUME NEW k \in 0 .. d - 1  PROVE data'[After(Home[data[s].key], k)].taken
    <3>1. k \in 0 .. Capacity - 1
      BY <1>4
    <3> QED
      BY <1>7, <1>14, <2>3, <2>4, <3>1
  <2>6. ASSUME s = Home[data[s].key]  PROVE data'[s].value = tags_seen'[data[s].key]
    <3>1. data[s].value = tags_seen[data[s].key]
      BY <2>1, <2>6 DEF TagInv, Chains
    <3>2. CASE s = h
      BY <1>1, <1>3, <1>7, <2>2, <3>2
    <3>3. CASE s # h
      <4>1. data[s].key # t
        BY <1>3, <2>1, <3>3 DEF TagInv, Entries, Holds
      <4> QED
        BY <1>1, <1>7, <2>2, <3>1, <3>3, <4>1
    <3> QED
      BY <3>2, <3>3
  <2> QED
    BY <2>1, <2>4, <2>5, <2>6
<1>16. Lost'
  <2> SUFFICES ASSUME NEW u \in Seen, \A s \in Slot : ~ Holds(s, u)'
               PROVE  full' /\ Cardinality(TagsRead') > Capacity
    BY <1>9 DEF Lost
  <2>1. \A s \in Slot : ~ Holds(s, u)
    BY <1>7 DEF Holds
  <2>2. full /\ Cardinality(TagsRead) > Capacity
    BY <2>1 DEF TagInv, Lost
  <2> QED
    BY <1>2, <1>4, <2>2 DEF full
<1>17. Counted'
  <2>1. item_count \in Nat /\ item_count <= Cardinality(TagsRead)
    BY DEF TagInv, Counted, MapTypes
  <2>2. item_count' <= Cardinality(TagsRead')
    BY <1>2, <2>1
  <2>3. item_count' <= Cardinality(Seen')
    <3>1. Holds(Home[Module], Module)
      BY <1>3, <1>11 DEF Holds, h
    <3> QED
      BY <1>9, <3>1 DEF TagInv, Counted
  <2>4. \A s \in Slot : data'[s].taken => ~ empty'
    BY <1>7 DEF TagInv, Counted, empty
  <2> QED
    BY <2>2, <2>3, <2>4 DEF Counted
<1> QED
  BY <1>12, <1>13, <1>15, <1>16, <1>17 DEF TagInv

\* A tag whose type the map does not find: a new entry.
LEMMA TagIsAdded ==
  ASSUME TagInv, NEW t \in Accepted, read_tag(t), ~ full, find(t) = Absent,
         data' = [data EXCEPT ![place(t)] = [key |-> t, value |-> tags_seen[t] + 1, taken |-> TRUE]],
         item_count' = item_count + 1
  PROVE  TagInv'
<1> DEFINE h == Home[t]
           p == place(t)
           v == tags_seen[t] + 1
<1>0. t \in Key
  BY TagsAreKeys
<1>1. /\ v \in 0 .. MaxModules /\ v # 0 /\ v \in Val
      /\ tags_seen' = [tags_seen EXCEPT ![t] = v]
      /\ \A u \in Key : tags_seen'[u] = IF u = t THEN v ELSE tags_seen[u]
      /\ t # Module => tags_seen[t] = 0
      /\ profile' = profile
  BY <1>0, NextTag, TagsAssumption DEF TagInv
<1>2. /\ Cardinality(Seen) \in Nat /\ Cardinality(Seen) < Capacity /\ Cardinality(TagsRead) \in Nat
      /\ Seen \subseteq Accepted
      /\ Seen' = Seen \cup {t}
      /\ t \notin Seen => Cardinality(Seen') = Cardinality(Seen) + 1
      /\ Cardinality(TagsRead') = Cardinality(TagsRead) + 1
  BY <1>0, Counts DEF TagInv
<1>3. PICK d \in 0 .. Capacity - 1 :
        /\ p = After(h, d) /\ p \in Slot
        /\ \A k \in 0 .. d - 1 : data[After(h, k)].taken /\ data[After(h, k)].key # t
        /\ data[p].taken => Holds(p, t) /\ p # h
  BY PlaceIs
<1>4. Accepted \subseteq Key /\ Module \in Key /\ Capacity \in Nat
  BY TagsAreKeys, CapacityNat
<1>5. h \in Slot
  BY <1>0, HomeIsSlot
<1>6. \A u \in Slot : Holds(u, t) => u = p
  BY PlaceIsTheOnly
<1> HIDE DEF h, p, v
<1>7. data' = [data EXCEPT ![p] = [key |-> t, value |-> v, taken |-> TRUE]]
  BY DEF p, v
<1>8. data \in [Slot -> [key : Key \cup {NullKey}, value : Val \cup {NullVal}, taken : BOOLEAN]]
      /\ item_count \in 0 .. Capacity
  BY DEF TagInv, MapTypes
<1>9. /\ data' \in [Slot -> [key : Key \cup {NullKey}, value : Val \cup {NullVal}, taken : BOOLEAN]]
      /\ data'[p].taken /\ data'[p].key = t /\ data'[p].value = v
      /\ \A s \in Slot \ {p} : data'[s] = data[s]
      /\ \A s \in Slot : data[s].taken => data'[s].taken
  <2>1. [key |-> t, value |-> v, taken |-> TRUE]
          \in [key : Key \cup {NullKey}, value : Val \cup {NullVal}, taken : BOOLEAN]
    BY <1>0, <1>1
  <2> DEFINE E == [key |-> t, value |-> v, taken |-> TRUE]
  <2>2. E.key = t /\ E.value = v /\ E.taken
    OBVIOUS
  <2>3. p \in Slot /\ data' = [data EXCEPT ![p] = E]
    BY <1>3, <1>7
  <2> HIDE DEF E
  <2>4. /\ data' \in [Slot -> [key : Key \cup {NullKey}, value : Val \cup {NullVal}, taken : BOOLEAN]]
        /\ data'[p] = E /\ \A s \in Slot \ {p} : data'[s] = data[s]
    BY <1>8, <2>1, <2>3 DEF E
  <2>5. ASSUME NEW s \in Slot, data[s].taken  PROVE data'[s].taken
    BY <2>2, <2>4, <2>5
  <2> QED
    BY <2>2, <2>4, <2>5
<1>10. \A s \in Slot \ {p} : data'[s].taken => data[s].taken /\ data[s].key # t
  BY <1>6, <1>9 DEF Holds
<1>11. MapTypes'
  <2>0. tags_seen \in [Key -> 0 .. MaxModules] /\ \A u \in Key \ {Module} : tags_seen[u] <= 1
    BY DEF TagInv, MapTypes
  <2>1. tags_seen' \in [Key -> 0 .. MaxModules]
    BY <1>1, <2>0
  <2>2. \A u \in Key \ {Module} : tags_seen'[u] <= 1
    BY <1>0, <1>1, <2>0 DEF v
  <2>3. item_count' \in 0 .. Capacity
    BY <1>4, <1>8 DEF full
  <2> QED
    BY <1>1, <1>9, <2>1, <2>2, <2>3 DEF TagInv, MapTypes
<1>12. Entries'
  <2>1. ASSUME NEW s \in Slot, data'[s].taken  PROVE data'[s].key \in Seen'
    <3>1. CASE s = p
      BY <1>2, <1>9, <3>1
    <3>2. CASE s # p
      BY <1>2, <1>9, <1>10, <2>1, <3>2 DEF TagInv, Entries
    <3> QED
      BY <3>1, <3>2
  <2>2. ASSUME NEW s \in Slot, NEW u \in Slot, data'[s].taken, data'[u].taken, data'[u].key = data'[s].key
        PROVE  u = s
    <3>1. CASE s = p \/ u = p
      BY <1>9, <1>10, <2>2, <3>1
    <3>2. CASE s # p /\ u # p
      BY <1>9, <1>10, <2>2, <3>2 DEF TagInv, Entries, Holds
    <3> QED
      BY <3>1, <3>2
  <2> QED
    BY <2>1, <2>2 DEF Entries, Holds
<1>13. \A s \in Slot, k \in 0 .. Capacity - 1 : After(s, k) \in Slot
  BY AfterIs
<1>14. Chains'
  <2> SUFFICES ASSUME NEW s \in Slot, data'[s].taken
               PROVE  /\ \E e \in 0 .. Capacity - 1 :
                           /\ s = After(Home[data'[s].key], e)
                           /\ \A k \in 0 .. e - 1 : data'[After(Home[data'[s].key], k)].taken
                      /\ s = Home[data'[s].key] => data'[s].value = tags_seen'[data'[s].key]
    BY DEF Chains, After
  <2>1. CASE s = p
    <3>1. \A k \in 0 .. d - 1 : k \in 0 .. Capacity - 1
      BY <1>4
    <3>2. \A k \in 0 .. d - 1 : data'[After(h, k)].taken
      BY <1>3, <1>5, <1>9, <1>13, <3>1
    <3>3. data'[s].value = tags_seen'[t] /\ data'[s].key = t
      BY <1>0, <1>1, <1>9, <2>1
    <3> QED
      BY <1>3, <2>1, <3>2, <3>3 DEF h
  <2>2. CASE s # p
    <3>1. data[s].taken /\ data'[s] = data[s] /\ data[s].key # t
      BY <1>9, <1>10, <2>2
    <3>2. data[s].key \in Key
      BY <1>2, <1>4, <3>1 DEF TagInv, Entries
    <3>3. Home[data[s].key] \in Slot
      BY <3>2, HomeIsSlot
    <3>4. PICK e \in 0 .. Capacity - 1 :
            /\ s = After(Home[data[s].key], e)
            /\ \A k \in 0 .. e - 1 : data[After(Home[data[s].key], k)].taken
      BY <3>1 DEF TagInv, Chains
    <3>5. ASSUME NEW k \in 0 .. e - 1  PROVE data'[After(Home[data[s].key], k)].taken
      <4>1. k \in 0 .. Capacity - 1
        BY <1>4
      <4> QED
        BY <1>9, <1>13, <3>3, <3>4, <4>1
    <3>6. s = Home[data[s].key] => data[s].value = tags_seen'[data[s].key]
      BY <1>1, <3>1, <3>2 DEF TagInv, Chains
    <3> QED
      BY <3>1, <3>4, <3>5, <3>6
  <2> QED
    BY <2>1, <2>2
<1>15. \A u \in Seen : \E s \in Slot : Holds(s, u)
  BY DEF TagInv, Lost
<1>16. Lost'
  <2> SUFFICES ASSUME NEW u \in Seen'  PROVE \E s \in Slot : data'[s].taken /\ data'[s].key = u
    BY DEF Lost, Holds
  <2>1. CASE u = t
    BY <1>3, <1>9, <2>1
  <2>2. CASE u # t
    <3>1. PICK s \in Slot : data[s].taken /\ data[s].key = u
      BY <1>2, <1>15, <2>2 DEF Holds
    <3>2. s # p
      BY <1>3, <2>2, <3>1 DEF Holds
    <3> QED
      BY <1>9, <3>1, <3>2
  <2> QED
    BY <2>1, <2>2
<1>17. Counted'
  <2>1. item_count \in Nat /\ item_count <= Cardinality(TagsRead)
    BY DEF TagInv, Counted, MapTypes
  <2>2. item_count' <= Cardinality(TagsRead') /\ item_count' # 0
    BY <1>2, <2>1
  <2>3. ASSUME tags_seen'[Module] = 0 \/ (data'[Home[Module]].taken /\ data'[Home[Module]].key = Module)
        PROVE  item_count' <= Cardinality(Seen')
    <3>1. CASE t = Module
      <4>1. tags_seen'[Module] # 0
        BY <1>1, <1>4, <3>1
      <4>2. data'[h].taken /\ data'[h].key = t
        BY <2>3, <3>1, <4>1 DEF h
      <4>3. h = p
        BY <1>5, <1>9, <1>10, <4>2
      <4>4. ~ data[h].taken
        BY <1>3, <4>3
      <4>5. t \notin Seen
        BY <4>4, FreeHome DEF h
      <4>6. tags_seen[Module] = 0
        BY <1>0, <3>1, <4>5 DEF Seen, TagInv, MapTypes
      <4>7. item_count <= Cardinality(Seen)
        BY <4>6 DEF TagInv, Counted
      <4> QED
        BY <1>2, <2>1, <4>5, <4>7
    <3>2. CASE t # Module
      <4>1. tags_seen[t] = 0 /\ tags_seen'[Module] = tags_seen[Module]
        BY <1>1, <1>4, <3>2
      <4>2. t \notin Seen
        BY <4>1 DEF Seen
      <4>3. Home[Module] \in Slot
        BY <1>4, HomeIsSlot
      <4>4. tags_seen[Module] = 0 \/ Holds(Home[Module], Module)
        BY <1>9, <2>3, <3>2, <4>1, <4>3 DEF Holds
      <4>5. item_count <= Cardinality(Seen)
        BY <4>4 DEF TagInv, Counted
      <4> QED
        BY <1>2, <2>1, <4>2, <4>5
    <3> QED
      BY <3>1, <3>2
  <2> QED
    BY <2>2, <2>3 DEF Counted, Holds, empty
<1> QED
  BY <1>11, <1>12, <1>14, <1>16, <1>17 DEF TagInv

\* get_tag_map keeps the map right, whatever insert does with the tag.
LEMMA TagStep ==
  ASSUME TagInv, NEW t \in Key, read_tag(t)
  PROVE  TagInv'
<1>1. t \in Accepted <=> 0 < t /\ t < TagCount
  BY NextTag DEF TagInv
<1>2. IF 0 < t /\ t < TagCount THEN insert(t, tags_seen[t] + 1) ELSE UNCHANGED map_vars
  BY DEF read_tag
<1>3. CASE t \notin Accepted
  BY <1>1, <1>2, <1>3, TagIsLost
<1>4. CASE t \in Accepted
  <2>1. insert(t, tags_seen[t] + 1)
    BY <1>1, <1>2, <1>4
  <2>2. find(t) # Stray
    BY <1>4, TagsAreKeys, NeverStray DEF TagInv
  <2>3. CASE full
    <3>1. UNCHANGED map_vars
      BY <2>1, <2>3 DEF insert
    <3> QED
      BY <2>3, <3>1, TagIsLost
  <2>4. CASE ~ full /\ find(t) \in Slot
    <3>1. data' = [data EXCEPT ![find(t)].value = tags_seen[t] + 1] /\ UNCHANGED item_count
      BY <2>1, <2>2, <2>4, CapacityNat DEF insert
    <3> QED
      BY <1>4, <2>4, <3>1, TagIsRenewed
  <2>5. CASE ~ full /\ find(t) = Absent
    <3>1. /\ data' = [data EXCEPT ![place(t)] = [key |-> t, value |-> tags_seen[t] + 1, taken |-> TRUE]]
          /\ item_count' = item_count + 1
      BY <2>1, <2>2, <2>5, CapacityNat DEF insert
    <3> QED
      BY <1>4, <2>5, <3>1, TagIsAdded
  <2>6. find(t) \in Slot \/ find(t) = Absent
    BY <2>2, FindIs, CapacityNat
  <2> QED
    BY <2>3, <2>4, <2>5, <2>6
<1> QED
  BY <1>3, <1>4

\* The map starts empty.
LEMMA TagInit == Init => TagInv
<1> SUFFICES ASSUME Init  PROVE TagInv
  OBVIOUS
<1>1. /\ data = [i \in Slot |-> FreeEntry] /\ item_count = 0
      /\ profile \in Profiles /\ tags_seen = [t \in Key |-> 0]
  BY DEF Init, FlatMapInit
<1>2. Capacity \in Nat \ {0} /\ MaxModules \in Nat \ {0} /\ Module \in Key /\ Accepted \subseteq Key
  BY CapacityNat, TagsAreKeys, TagsAssumption
<1>3. Seen = {}
  BY <1>1, <1>2 DEF Seen
<1>4. \A s \in Slot : ~ data[s].taken /\ data[s] = FreeEntry
  BY <1>1 DEF FreeEntry
<1>5. MapTypes
  BY <1>1, <1>2 DEF MapTypes, FreeEntry
<1>6. Entries /\ Chains /\ Lost
  BY <1>3, <1>4 DEF Entries, Chains, Lost
<1>7. Counted
  <2> DEFINE P == Accepted \X (1 .. MaxModules)
  <2>1. IsFiniteSet(1 .. MaxModules) /\ IsFiniteSet(Accepted)
    BY <1>2, FS_Interval, TagsAreKeys
  <2>2. IsFiniteSet(P) /\ TagsRead \in SUBSET P
    BY <2>1, FS_Product DEF TagsRead
  <2> HIDE DEF P
  <2>3. IsFiniteSet(TagsRead)
    BY <2>2, FS_Subset
  <2>4. Cardinality(TagsRead) \in Nat
    BY <2>3, FS_CardinalityType
  <2>5. Cardinality(Seen) = 0
    BY <1>3, FS_EmptySet
  <2> QED
    BY <1>1, <1>4, <2>4, <2>5 DEF Counted
<1> QED
  BY <1>5, <1>6, <1>7 DEF TagInv

\* The other steps leave the tags alone.
LEMMA TagFrame == TagInv /\ UNCHANGED tag_vars => TagInv'
<1> SUFFICES ASSUME TagInv, UNCHANGED tag_vars  PROVE TagInv'
  OBVIOUS
<1>1. data' = data /\ item_count' = item_count /\ profile' = profile /\ tags_seen' = tags_seen
  BY DEF tag_vars, map_vars
<1>2. Accepted' = Accepted
  BY <1>1 DEF Accepted
<1>3. Seen' = Seen /\ TagsRead' = TagsRead
  BY <1>1, <1>2 DEF Seen, TagsRead
<1> QED
  BY <1>1, <1>3 DEF TagInv, MapTypes, Entries, Chains, Lost, Counted, Holds, After, full, empty

\* The map's part of FoundIsLatest.
LEMMA TagsAreFound ==
  ASSUME TagInv
  PROVE  /\ \A t \in Asked : LET i == find(t) IN
              /\ i # Stray
              /\ i \in Slot => data[i].key = t /\ data[i].value = tags_seen[t]
         /\ \A t \in profile \ Accepted : find(t) \notin Slot
         /\ \A t \in Accepted :
              tags_seen[t] > 0 /\ (\A i \in Slot : ~ (data[i].taken /\ data[i].key = t))
                => Cardinality(TagsRead) > Capacity
<1>1. \A t \in Key : find(t) \in Slot => find(t) = Home[t] /\ Holds(Home[t], t) /\ Home[t] \in Slot
  BY FindIs, CapacityNat
<1>2. Asked \subseteq 1 .. TagCount - 1
  <2>1. \A n \in {1, 2, 4, 6, 8} : n \in 1 .. TagCount - 1
    BY TagsAreKeys
  <2> QED
    BY <2>1, TagsAreKeys DEF Asked, Cmdline, BootloaderName, BasicMeminfo, Mmap, Framebuffer
<1>3. ASSUME NEW t \in Asked, find(t) \in Slot
      PROVE  data[find(t)].key = t /\ data[find(t)].value = tags_seen[t]
  <2>1. t \in Key
    BY <1>2, TagsAreKeys
  <2> QED
    BY <1>1, <1>3, <2>1 DEF TagInv, Chains, Holds
<1>4. \A t \in Asked : find(t) # Stray
  BY <1>2, NeverStray DEF TagInv
<1>5. ASSUME NEW t \in profile \ Accepted, find(t) \in Slot  PROVE FALSE
  <2>1. t \in Key
    BY TagsAssumption DEF TagInv, MapTypes
  <2> QED
    BY <1>1, <1>5, <2>1 DEF TagInv, Entries, Holds, Seen
<1>6. \A t \in Accepted :
        tags_seen[t] > 0 /\ (\A i \in Slot : ~ (data[i].taken /\ data[i].key = t))
          => Cardinality(TagsRead) > Capacity
  BY DEF TagInv, Lost, Holds, Seen
<1> QED
  BY <1>3, <1>4, <1>5, <1>6

-----------------------------------------------------------------------------
(* bind_all and find_if.                                                   *)

\* What bind_all works on.
Accs == {acc \in [bindings : Seq(Binding), used : [DOMAIN Driver -> SUBSET Nat], stop : BOOLEAN] :
           Pools(acc.used) /\ Apart(acc.bindings, acc.used)}

\* probe gives an instance that is not used, or none.
LEMMA ProbedIs ==
  ASSUME NEW given, Pools(given), NEW d \in DOMAIN Driver
  PROVE  /\ probed(given, d) \in 0 .. Driver[d].max_instances
         /\ probed(given, d) \notin given[d]
         /\ Driver[d].max_instances \in Nat
<1> DEFINE m == Driver[d].max_instances
           Free == {i \in 0 .. m : i \notin given[d]}
           first(i) == i \notin given[d] /\ \A j \in 0 .. i - 1 : j \in given[d]
<1>1. m \in Nat
  BY DriverAssumption
<1>2. given[d] \subseteq 0 .. m - 1
  BY DEF Pools
<1> HIDE DEF m
<1>3. m \in Free /\ Free \in SUBSET Nat
  BY <1>1, <1>2
<1>4. PICK i \in Free : \A j \in Free : i <= j
  <2> HIDE DEF Free
  <2> QED
    BY <1>3, LeastNat
<1>5. i \in 0 .. m /\ first(i)
  <2>1. ASSUME NEW j \in 0 .. i - 1  PROVE j \in given[d]
    <3>1. j \in 0 .. m /\ ~ (i <= j)
      BY <1>1
    <3> QED
      BY <1>4, <3>1
  <2> QED
    BY <2>1
<1>6. probed(given, d) = CHOOSE x \in 0 .. m : first(x)
  BY DEF probed, m
<1>7. probed(given, d) \in 0 .. m /\ first(probed(given, d))
  <2> HIDE DEF first
  <2> QED
    BY <1>5, <1>6
<1> QED
  BY <1>1, <1>7 DEF m

\* One offer to one driver keeps instances apart.
LEMMA BoundIs ==
  ASSUME NEW acc \in Accs, NEW desc \in DescEntry, NEW d \in DOMAIN Driver
  PROVE  bound(acc, desc, d) \in Accs
<1> DEFINE i == probed(acc.used, d)
           m == Driver[d].max_instances
           room == Len(acc.bindings) < MaxBindings
           b == [iface_type |-> Driver[d].iface_type, desc |-> desc, driver |-> d, instance |-> i]
           given == [acc.used EXCEPT ![d] = @ \cup {i}]
           bs == IF room THEN Append(acc.bindings, b) ELSE acc.bindings
           new == [bindings |-> bs, used |-> given, stop |-> ~ room]
<1>1. /\ acc.bindings \in Seq(Binding) /\ acc.used \in [DOMAIN Driver -> SUBSET Nat]
      /\ Pools(acc.used) /\ Apart(acc.bindings, acc.used)
  BY DEF Accs
<1>2. i \in 0 .. m /\ i \notin acc.used[d] /\ m \in Nat
  BY <1>1, ProbedIs
<1>3. bound(acc, desc, d) = acc \/ (bound(acc, desc, d) = new /\ i # m)
  BY DEF bound
<1>4. b \in Binding
  <2>1. Driver[d].iface_type \in TypeTag
    BY DEF TypeTag
  <2> QED
    BY <1>2, <2>1 DEF Binding
<1>5. b.driver = d /\ b.instance = i
  OBVIOUS
<1> HIDE DEF i, m, b
<1>6. ASSUME i # m  PROVE new \in Accs
  <2>1. i \in 0 .. m - 1 /\ i \in Nat
    BY <1>2, <1>6
  <2>2. /\ given \in [DOMAIN Driver -> SUBSET Nat] /\ given[d] = acc.used[d] \cup {i}
        /\ \A e \in DOMAIN Driver : e # d => given[e] = acc.used[e]
    BY <1>1, <2>1
  <2> HIDE DEF given
  <2>3. Pools(given)
    <3>1. \A e \in DOMAIN Driver : acc.used[e] \subseteq 0 .. Driver[e].max_instances - 1
      BY <1>1 DEF Pools
    <3>2. given[d] \subseteq 0 .. Driver[d].max_instances - 1
      BY <2>1, <2>2, <3>1 DEF m
    <3>3. \A e \in DOMAIN Driver : given[e] \subseteq 0 .. Driver[e].max_instances - 1
      BY <2>2, <3>1, <3>2
    <3> QED
      BY <2>2, <3>3 DEF Pools
  <2>4. \A e \in DOMAIN Driver : acc.used[e] \subseteq given[e]
    BY <2>2
  <2>5. ASSUME NEW k \in 1 .. Len(acc.bindings)
        PROVE  /\ acc.bindings[k].driver \in DOMAIN Driver
               /\ acc.bindings[k].instance \in acc.used[acc.bindings[k].driver]
    <3>1. PICK bb \in Seq(Binding) : bb = acc.bindings
      BY <1>1
    <3>2. bb[k] \in Binding
      BY <3>1, ElementOfSeq
    <3>3. acc.bindings[k].instance \in acc.used[acc.bindings[k].driver]
      BY <1>1 DEF Apart
    <3> QED
      BY <3>1, <3>2, <3>3 DEF Binding
  <2>6. bs \in Seq(Binding) /\ Apart(bs, given)
    <3>1. CASE room
      <4>1. /\ bs \in Seq(Binding) /\ Len(bs) = Len(acc.bindings) + 1
            /\ \A k \in 1 .. Len(acc.bindings) : bs[k] = acc.bindings[k]
            /\ bs[Len(acc.bindings) + 1] = b
        BY <1>1, <1>4, <3>1, AppendProperties
      <4> HIDE DEF bs
      <4>2. \A k \in 1 .. Len(bs) : k \in 1 .. Len(acc.bindings) \/ k = Len(acc.bindings) + 1
        BY <1>1, <4>1
      <4>3. ASSUME NEW k \in 1 .. Len(bs)  PROVE bs[k].instance \in given[bs[k].driver]
        BY <1>5, <2>2, <2>4, <2>5, <4>1, <4>2
      <4>4. ASSUME NEW k \in 1 .. Len(acc.bindings)
            PROVE  ~ (acc.bindings[k].driver = d /\ acc.bindings[k].instance = i)
        BY <1>2, <2>5
      <4>5. ASSUME NEW k \in 1 .. Len(bs), NEW j \in 1 .. Len(bs),
                   bs[k].driver = bs[j].driver /\ bs[k].instance = bs[j].instance
            PROVE  k = j
        <5>1. CASE k \in 1 .. Len(acc.bindings) /\ j \in 1 .. Len(acc.bindings)
          BY <1>1, <4>1, <4>5, <5>1 DEF Apart
        <5>2. CASE ~ (k \in 1 .. Len(acc.bindings) /\ j \in 1 .. Len(acc.bindings))
          BY <1>5, <4>1, <4>2, <4>4, <4>5, <5>2
        <5> QED
          BY <5>1, <5>2
      <4> QED
        BY <4>1, <4>3, <4>5 DEF Apart
    <3>2. CASE ~ room
      BY <1>1, <2>4, <2>5, <3>2 DEF Apart
    <3> QED
      BY <3>1, <3>2
  <2> HIDE DEF bs
  <2>7. new \in [bindings : Seq(Binding), used : [DOMAIN Driver -> SUBSET Nat], stop : BOOLEAN]
        /\ new.bindings = bs /\ new.used = given
    BY <2>2, <2>6
  <2> HIDE DEF new
  <2> QED
    BY <2>3, <2>6, <2>7 DEF Accs
<1> HIDE DEF new
<1> QED
  BY <1>3, <1>6

\* A description is offered to all the drivers.
LEMMA OfferedIs ==
  ASSUME NEW acc \in Accs, NEW desc \in DescEntry, drivers \in Seq(DOMAIN Driver)
  PROVE  offered(acc, desc) \in Accs
<1> DEFINE N == Len(drivers)
           base == [acc EXCEPT !.stop = FALSE]
           step == [k \in 1 .. N |-> [a \in Accs |-> bound(a, desc, drivers[k])]]
           upto[k \in 0 .. Len(drivers)] ==
             IF k = 0 THEN [acc EXCEPT !.stop = FALSE] ELSE bound(upto[k - 1], desc, drivers[k])
           F(f) == f = [k \in 0 .. N |-> IF k = 0 THEN base ELSE bound(f[k - 1], desc, drivers[k])]
<1>1. PICK ds \in Seq(DOMAIN Driver) : ds = drivers
  OBVIOUS
<1>2. N \in Nat /\ \A k \in 1 .. N : drivers[k] \in DOMAIN Driver
  BY <1>1, ElementOfSeq
<1>3. base \in Accs
  <2>1. /\ base \in [bindings : Seq(Binding), used : [DOMAIN Driver -> SUBSET Nat], stop : BOOLEAN]
        /\ base.bindings = acc.bindings /\ base.used = acc.used
        /\ Pools(acc.used) /\ Apart(acc.bindings, acc.used)
    BY DEF Accs
  <2> HIDE DEF base
  <2> QED
    BY <2>1 DEF Accs
<1> HIDE DEF N, base
<1>4. step \in [1 .. N -> [Accs -> Accs]]
  BY <1>2, BoundIs
<1> HIDE DEF step
<1>5. PICK g : Iterates(g, Accs, base, N, step)
  BY <1>2, <1>3, <1>4, Recursion
<1>6. ASSUME NEW k \in 0 .. N
      PROVE  g[k] = IF k = 0 THEN base ELSE bound(g[k - 1], desc, drivers[k])
  <2>1. CASE k = 0
    BY <1>5, <2>1 DEF Iterates
  <2>2. CASE k # 0
    <3>1. k \in 1 .. N /\ k - 1 \in 0 .. N
      BY <1>2, <2>2
    <3>2. g[k - 1] \in Accs /\ g[k] = step[k][g[k - 1]]
      BY <1>5, <3>1 DEF Iterates
    <3> QED
      BY <2>2, <3>1, <3>2 DEF step
  <2> QED
    BY <2>1, <2>2
<1>7. F(g)
  <2>1. g = [k \in 0 .. N |-> g[k]]
    BY <1>5 DEF Iterates
  <2> QED
    BY <1>6, <2>1
<1>8. upto = CHOOSE f : F(f)
  BY DEF N, base
<1>9. offered(acc, desc) = upto[N]
  BY DEF offered, N
<1> HIDE DEF upto
<1>10. F(upto)
  <2> HIDE DEF F
  <2> QED
    BY <1>7, <1>8
<1> DEFINE T == {k \in 0 .. N : upto[k] \in Accs}
<1>11. \A k \in 0 .. N : k \in T
  <2>1. 0 \in T
    BY <1>2, <1>3, <1>10
  <2>2. ASSUME NEW k \in 0 .. N - 1, k \in T  PROVE k + 1 \in T
    <3>1. k + 1 \in 1 .. N /\ k + 1 \in 0 .. N /\ k + 1 # 0 /\ (k + 1) - 1 = k /\ upto[k] \in Accs
      BY <1>2, <2>2
    <3>2. upto[k + 1] = bound(upto[k], desc, drivers[k + 1])
      BY <1>10, <3>1
    <3>3. upto[k + 1] \in Accs
      BY <1>2, <3>1, <3>2, BoundIs
    <3> QED
      BY <3>1, <3>3
  <2> HIDE DEF T
  <2> QED
    BY <1>2, <2>1, <2>2, Induction
<1> QED
  BY <1>2, <1>9, <1>11

\* bind_all keeps what CoreInv says of the bindings and the pools.
LEMMA AllBoundIs ==
  ASSUME CoreInv
  PROVE  all_bound \in Accs
<1> DEFINE N == Len(descs)
           base == [bindings |-> bindings, used |-> used, stop |-> FALSE]
           step == [k \in 1 .. N |-> [a \in Accs |-> offered(a, descs[k])]]
           upto[k \in 0 .. Len(descs)] ==
             IF k = 0 THEN [bindings |-> bindings, used |-> used, stop |-> FALSE]
                      ELSE offered(upto[k - 1], descs[k])
           F(f) == f = [k \in 0 .. N |-> IF k = 0 THEN base ELSE offered(f[k - 1], descs[k])]
<1>1. PICK ds \in Seq(DescEntry) : ds = descs
  BY DEF CoreInv
<1>2. N \in Nat /\ \A k \in 1 .. N : descs[k] \in DescEntry
  BY <1>1, ElementOfSeq
<1>3. base \in Accs
  BY DEF CoreInv, Pools, Accs
<1>4. \A a \in Accs, k \in 1 .. N : offered(a, descs[k]) \in Accs
  BY <1>2, OfferedIs DEF CoreInv
<1> HIDE DEF N, base
<1>5. step \in [1 .. N -> [Accs -> Accs]]
  BY <1>4
<1> HIDE DEF step
<1>6. PICK g : Iterates(g, Accs, base, N, step)
  BY <1>2, <1>3, <1>5, Recursion
<1>7. ASSUME NEW k \in 0 .. N  PROVE g[k] = IF k = 0 THEN base ELSE offered(g[k - 1], descs[k])
  <2>1. CASE k = 0
    BY <1>6, <2>1 DEF Iterates
  <2>2. CASE k # 0
    <3>1. k \in 1 .. N /\ k - 1 \in 0 .. N
      BY <1>2, <2>2
    <3>2. g[k - 1] \in Accs /\ g[k] = step[k][g[k - 1]]
      BY <1>6, <3>1 DEF Iterates
    <3> QED
      BY <2>2, <3>1, <3>2 DEF step
  <2> QED
    BY <2>1, <2>2
<1>8. F(g)
  <2>1. g = [k \in 0 .. N |-> g[k]]
    BY <1>6 DEF Iterates
  <2> QED
    BY <1>7, <2>1
<1>9. upto = CHOOSE f : F(f)
  BY DEF N, base
<1>10. all_bound = upto[N]
  BY DEF all_bound, N
<1> HIDE DEF upto
<1>11. F(upto)
  <2> HIDE DEF F
  <2> QED
    BY <1>8, <1>9
<1> DEFINE T == {k \in 0 .. N : upto[k] \in Accs}
<1>12. \A k \in 0 .. N : k \in T
  <2>1. 0 \in T
    BY <1>2, <1>3, <1>11
  <2>2. ASSUME NEW k \in 0 .. N - 1, k \in T  PROVE k + 1 \in T
    <3>1. k + 1 \in 1 .. N /\ k + 1 \in 0 .. N /\ k + 1 # 0 /\ (k + 1) - 1 = k /\ upto[k] \in Accs
      BY <1>2, <2>2
    <3>2. upto[k + 1] = offered(upto[k], descs[k + 1])
      BY <1>11, <3>1
    <3>3. upto[k + 1] \in Accs
      BY <1>4, <3>1, <3>2
    <3> QED
      BY <3>1, <3>3
  <2> HIDE DEF T
  <2> QED
    BY <1>2, <2>1, <2>2, Induction
<1> QED
  BY <1>2, <1>10, <1>12

\* Nothing is bound at first.
LEMMA CoreStart == Init => CoreInv
<1> SUFFICES ASSUME Init  PROVE CoreInv
  OBVIOUS
<1>1. descs = <<>> /\ drivers = <<>> /\ bindings = <<>> /\ used = [d \in DOMAIN Driver |-> {}]
  BY DEF Init, CoreInit
<1>2. Pools(used) /\ Apart(bindings, used)
  BY <1>1 DEF Pools, Apart
<1> QED
  BY <1>1, <1>2 DEF CoreInv

\* The driver core keeps its instances apart.
LEMMA CoreStep ==
  ASSUME CoreInv, register_devices \/ bind \/ UNCHANGED core_vars
  PROVE  CoreInv'
<1>1. CASE register_devices
  <2>1. /\ add_descs(Board) /\ register_drivers(arch_drivers)
        /\ bindings' = bindings /\ used' = used
    BY <1>1 DEF register_devices
  <2>2. ASSUME NEW S, NEW a \in Seq(S), NEW n \in Nat
        PROVE  SubSeq(a, 1, IF Len(a) > n THEN n ELSE Len(a)) \in Seq(S)
    <3>1. PICK k \in Nat : k = IF Len(a) > n THEN n ELSE Len(a)
      OBVIOUS
    <3>2. \A i \in 1 .. k : a[i] \in S
      <4>1. \A i \in 1 .. k : i \in 1 .. Len(a)
        BY <3>1
      <4> QED
        BY <4>1, ElementOfSeq
    <3>3. SubSeq(a, 1, k) \in Seq(S)
      BY <3>2, SubSeqProperties
    <3> QED
      BY <3>1, <3>3
  <2>3. descs' \in Seq(DescEntry)
    <3>1. descs \o Board \in Seq(DescEntry) /\ MaxDescs \in Nat
      BY BoardAssumption, DriverAssumption DEF CoreInv
    <3>2. descs' = SubSeq(descs \o Board, 1, IF Len(descs \o Board) > MaxDescs
                                             THEN MaxDescs ELSE Len(descs \o Board))
      BY <2>1 DEF add_descs
    <3> QED
      BY <2>2, <3>1, <3>2
  <2>4. drivers' \in Seq(DOMAIN Driver)
    <3>1. drivers \o arch_drivers \in Seq(DOMAIN Driver) /\ MaxDrivers \in Nat
      BY BoardAssumption, DriverAssumption DEF CoreInv, arch_drivers
    <3>2. drivers' = SubSeq(drivers \o arch_drivers, 1,
                            IF Len(drivers \o arch_drivers) > MaxDrivers
                            THEN MaxDrivers ELSE Len(drivers \o arch_drivers))
      BY <2>1 DEF register_drivers
    <3> QED
      BY <2>2, <3>1, <3>2
  <2> QED
    BY <2>1, <2>3, <2>4 DEF CoreInv
<1>2. CASE bind
  <2>1. bindings' = all_bound.bindings /\ used' = all_bound.used /\ descs' = descs /\ drivers' = drivers
    BY <1>2 DEF bind, bind_all
  <2>2. all_bound \in Accs
    BY AllBoundIs
  <2>3. all_bound.bindings \in Seq(Binding)
        /\ Pools(all_bound.used) /\ Apart(all_bound.bindings, all_bound.used)
    BY <2>2 DEF Accs
  <2>4. Pools(used)' /\ Apart(bindings, used)'
    BY <2>1, <2>3 DEF Pools, Apart
  <2> QED
    BY <2>1, <2>3, <2>4 DEF CoreInv
<1>3. CASE UNCHANGED core_vars
  BY <1>3 DEF core_vars, CoreInv, Pools, Apart
<1> QED
  BY <1>1, <1>2, <1>3

\* find_if answers a binding of what it was asked for, or none.
LEMMA FindIfIs ==
  ASSUME CoreInv, NEW iface, NEW accepted
  PROVE  /\ find_if(iface, accepted) \in 0 .. Len(bindings)
         /\ find_if(iface, accepted) # 0 => bindings[find_if(iface, accepted)].desc \in accepted
<1> DEFINE hits == {i \in DOMAIN bindings :
                      bindings[i].iface_type = iface /\ bindings[i].desc \in accepted}
           first == CHOOSE i \in hits : \A j \in hits : i <= j
<1>1. find_if(iface, accepted) = IF hits = {} THEN 0 ELSE first
  BY DEF find_if
<1>2. PICK bs \in Seq(Binding) : bs = bindings
  BY DEF CoreInv
<1>3. DOMAIN bindings = 1 .. Len(bindings) /\ Len(bindings) \in Nat
  BY <1>2
<1>4. ASSUME hits # {}  PROVE first \in hits
  <2>1. hits \in SUBSET Nat
    BY <1>3
  <2> HIDE DEF hits
  <2>2. \E i \in hits : \A j \in hits : i <= j
    BY <1>4, <2>1, LeastNat
  <2> QED
    BY <2>2
<1>5. hits # {} => first \in 1 .. Len(bindings) /\ bindings[first].desc \in accepted
  BY <1>3, <1>4
<1> HIDE DEF hits, first
<1> QED
  BY <1>1, <1>3, <1>5

-----------------------------------------------------------------------------
(* Messages are texts.                                                     *)

\* A text of the log.
Text0 == Seq(LogChar)

\* print_uint writes digits.
LEMMA PrintUint ==
  ASSUME NEW value \in Nat, NEW base \in 2 .. 16
  PROVE  print_uint(value, base) \in Seq(LogChar)
<1> DEFINE left[k \in 0 .. BufSize] == IF k = 0 THEN value ELSE left[k - 1] \div base
           F(f) == f = [k \in 0 .. BufSize |-> IF k = 0 THEN value ELSE f[k - 1] \div base]
           stop(n) == /\ left[n] = 0 \/ n = BufSize
                      /\ \A k \in 1 .. n - 1 : left[k] # 0
           n0 == CHOOSE n \in 1 .. BufSize : stop(n)
           step == [k \in 1 .. BufSize |-> [x \in Nat |-> x \div base]]
<1>1. BufSize \in Nat /\ BufSize \in 1 .. BufSize
  BY DEF BufSize
<1>2. \A x \in Nat : x \div base \in Nat /\ x % base \in 0 .. base - 1
  <2>1. base \in Nat \ {0}
    OBVIOUS
  <2> QED
    BY <2>1, DivNat, DivMod
<1>3. step \in [1 .. BufSize -> [Nat -> Nat]]
  BY <1>2
<1> HIDE DEF step
<1>4. PICK g : Iterates(g, Nat, value, BufSize, step)
  BY <1>1, <1>3, Recursion
<1>5. ASSUME NEW k \in 0 .. BufSize  PROVE g[k] = IF k = 0 THEN value ELSE g[k - 1] \div base
  <2>1. CASE k = 0
    BY <1>4, <2>1 DEF Iterates
  <2>2. CASE k # 0
    <3>1. k \in 1 .. BufSize /\ k - 1 \in 0 .. BufSize
      BY <1>1, <2>2
    <3>2. g[k - 1] \in Nat /\ g[k] = step[k][g[k - 1]]
      BY <1>4, <3>1 DEF Iterates
    <3> QED
      BY <2>2, <3>1, <3>2 DEF step
  <2> QED
    BY <2>1, <2>2
<1>6. F(g)
  <2>1. g = [k \in 0 .. BufSize |-> g[k]]
    BY <1>4 DEF Iterates
  <2> QED
    BY <1>5, <2>1
<1>7. left = CHOOSE f : F(f)
  OBVIOUS
<1>8. CASE value = 0
  <2>1. print_uint(value, base) = <<"0">>
    BY <1>8 DEF print_uint
  <2>2. "0" \in LogChar
    BY DEF LogChar
  <2> QED
    BY <2>1, <2>2
<1>9. CASE value # 0
  <2>1. print_uint(value, base) = [k \in 1 .. n0 |-> Digit[(left[n0 - k] % base) + 1]]
    BY <1>9 DEF print_uint
  <2> HIDE DEF left
  <2>2. F(left)
    <3> HIDE DEF F
    <3> QED
      BY <1>6, <1>7
  <2> DEFINE T == {k \in 0 .. BufSize : left[k] \in Nat}
  <2>3. \A k \in 0 .. BufSize : left[k] \in Nat
    <3>1. 0 \in T
      BY <1>1, <2>2
    <3>2. ASSUME NEW k \in 0 .. BufSize - 1, k \in T  PROVE k + 1 \in T
      <4>1. k + 1 \in 0 .. BufSize /\ k + 1 # 0 /\ (k + 1) - 1 = k /\ left[k] \in Nat
        BY <1>1, <3>2
      <4>2. left[k + 1] = left[k] \div base
        BY <2>2, <4>1
      <4> QED
        BY <1>2, <4>1, <4>2
    <3>3. \A k \in 0 .. BufSize : k \in T
      <4> HIDE DEF T
      <4> QED
        BY <1>1, <3>1, <3>2, Induction
    <3> QED
      BY <3>3
  <2> DEFINE Stops == {n \in 1 .. BufSize : left[n] = 0 \/ n = BufSize}
  <2>4. PICK n \in Stops : \A j \in Stops : n <= j
    <3>1. Stops \in SUBSET Nat /\ BufSize \in Stops
      BY <1>1
    <3> HIDE DEF Stops
    <3> QED
      BY <3>1, LeastNat
  <2>5. n \in 1 .. BufSize /\ stop(n)
    <3>1. ASSUME NEW k \in 1 .. n - 1  PROVE left[k] # 0
      <4>1. k \in 1 .. BufSize /\ ~ (n <= k)
        BY <1>1, <2>4
      <4> QED
        BY <2>4, <4>1
    <3> QED
      BY <2>4, <3>1
  <2>6. n0 \in 1 .. BufSize
    <3> HIDE DEF stop
    <3> QED
      BY <2>5
  <2> HIDE DEF n0
  <2>7. ASSUME NEW k \in 1 .. n0  PROVE Digit[(left[n0 - k] % base) + 1] \in LogChar
    <3>1. n0 - k \in 0 .. BufSize
      BY <1>1, <2>6
    <3>2. PICK d \in Nat : d = left[n0 - k]
      BY <2>3, <3>1
    <3>3. d % base \in 0 .. base - 1
      BY <1>2
    <3>4. (d % base) + 1 \in 1 .. 16
      BY <3>3
    <3>5. \A i \in 1 .. 16 : Digit[i] \in LogChar
      <4> DEFINE hex == {"0", "1", "2", "3", "4", "5", "6", "7", "8", "9", "A", "B", "C", "D", "E", "F"}
      <4>1. \A i \in 1 .. 16 : Digit[i] \in hex
        BY DEF Digit
      <4>2. hex \subseteq LogChar
        BY DEF LogChar
      <4> QED
        BY <4>1, <4>2
    <3> QED
      BY <3>2, <3>4, <3>5
  <2>8. n0 \in Nat
    BY <1>1, <2>6
  <2> QED
    BY <2>1, <2>7, <2>8
<1> QED
  BY <1>8, <1>9

\* The positions of a format and the arguments the loop meets there, and what it
\* converts.
Fits(fmt, args, R) ==
  /\ R \subseteq (Nat \ {0}) \X Nat /\ <<1, 1>> \in R
  /\ \A i \in 1 .. Len(fmt), a \in Nat : <<i, a>> \in R =>
       IF i < Len(fmt) /\ fmt[i] = "%"
         THEN IF fmt[i + 1] \in Conversions
                THEN <<i + 2, a + 1>> \in R /\ converted(fmt[i + 1], args[a]) \in Seq(LogChar)
                ELSE <<i + 2, a>> \in R
         ELSE <<i + 1, a>> \in R

\* A format of texts and fitting arguments gives a text.
LEMMA Formatted ==
  ASSUME NEW line \in BOOLEAN, NEW fmt \in Seq(LogChar), NEW args, NEW R, Fits(fmt, args, R)
  PROVE  vmsg_impl(line, fmt, args) \in Seq(LogChar)
<1> DEFINE n == Len(fmt)
           S == {s \in Cursor : <<s.at, s.arg>> \in R}
           start == [at |-> 1, arg |-> 1, text |-> <<>>, ended |-> line]
           Turn == turn(fmt, args)
           after[k \in 0 .. Len(fmt)] ==
             IF k = 0 THEN [at |-> 1, arg |-> 1, text |-> <<>>, ended |-> line]
             ELSE turn(fmt, args)[after[k - 1]]
           F(f) == f = [k \in 0 .. n |-> IF k = 0 THEN start ELSE Turn[f[k - 1]]]
           step == [k \in 1 .. n |-> [s \in S |-> Turn[s]]]
<1>1. n \in Nat /\ \A i \in 1 .. n : fmt[i] \in LogChar
  BY ElementOfSeq
<1>2. ASSUME NEW s \in S  PROVE Turn[s] \in S
  <2> DEFINE c == fmt[s.at]
             spec == fmt[s.at + 1]
             last == s.at = n
             wrote(m, taken, text) == [at |-> s.at + m, arg |-> s.arg + taken,
                                       text |-> s.text \o text, ended |-> s.ended]
  <2>1. s.at \in Nat /\ s.arg \in Nat /\ s.text \in Seq(LogChar) /\ s.ended \in BOOLEAN
        /\ <<s.at, s.arg>> \in R /\ s.at # 0
    BY DEF Cursor, Fits
  <2>2. ASSUME NEW m \in Nat, NEW taken \in Nat, NEW text \in Seq(LogChar), <<s.at + m, s.arg + taken>> \in R
        PROVE  /\ wrote(m, taken, text) \in S
               /\ [wrote(m, taken, text) EXCEPT !.ended = FALSE] \in S
    <3>1. s.text \o text \in Seq(LogChar)
      BY <2>1, ConcatProperties
    <3> DEFINE w == wrote(m, taken, text)
    <3>2. w \in Cursor /\ w.at = s.at + m /\ w.arg = s.arg + taken
      BY <2>1, <3>1 DEF Cursor
    <3> HIDE DEF w
    <3>3. [w EXCEPT !.ended = FALSE] \in S /\ w \in S
      BY <2>2, <3>2 DEF Cursor
    <3> QED
      BY <3>3 DEF w
  <2>3. Turn[s] = CASE s.at > n -> s
                    [] last /\ c = "\\" -> [wrote(1, 0, <<>>) EXCEPT !.ended = FALSE]
                    [] last /\ c # "\\" -> wrote(1, 0, <<c>>)
                    [] s.at < n /\ c # "%" -> wrote(1, 0, <<c>>)
                    [] s.at < n /\ c = "%" ->
                         IF spec \in Conversions THEN wrote(2, 1, converted(spec, args[s.arg]))
                         ELSE wrote(2, 0, IF spec = "%" THEN <<"%">> ELSE <<"%", spec>>)
    BY DEF turn
  <2> HIDE DEF Turn
  <2>4. CASE s.at > n
    <3>1. ~ last /\ ~ (s.at < n)
      BY <1>1, <2>1, <2>4
    <3>2. Turn[s] = s
      BY <2>3, <2>4, <3>1, Zenon
    <3> QED
      BY <3>2
  <2>5. CASE last
    <3>1. s.at \in 1 .. n /\ ~ (s.at > n) /\ ~ (s.at < n) /\ c \in LogChar
      BY <1>1, <2>1, <2>5
    <3>2. <<s.at + 1, s.arg + 0>> \in R
      <4>1. <<s.at + 1, s.arg>> \in R
        BY <2>1, <3>1 DEF Fits
      <4>2. s.arg + 0 = s.arg
        BY <2>1
      <4> QED
        BY <4>1, <4>2
    <3>3. <<c>> \in Seq(LogChar) /\ <<>> \in Seq(LogChar)
      BY <3>1
    <3>4. wrote(1, 0, <<c>>) \in S /\ [wrote(1, 0, <<>>) EXCEPT !.ended = FALSE] \in S
      BY <2>2, <3>2, <3>3
    <3> HIDE DEF wrote, c, spec
    <3> QED
      BY <2>3, <2>5, <3>1, <3>4
  <2>6. CASE s.at < n /\ c # "%"
    <3>1. s.at \in 1 .. n /\ ~ (s.at > n) /\ ~ last /\ c \in LogChar
      BY <1>1, <2>1, <2>6
    <3>2. <<s.at + 1, s.arg + 0>> \in R
      <4>1. <<s.at + 1, s.arg>> \in R
        BY <2>1, <2>6, <3>1 DEF Fits
      <4>2. s.arg + 0 = s.arg
        BY <2>1
      <4> QED
        BY <4>1, <4>2
    <3>3. <<c>> \in Seq(LogChar)
      BY <3>1
    <3>4. wrote(1, 0, <<c>>) \in S
      BY <2>2, <3>2, <3>3
    <3> HIDE DEF wrote, c, spec
    <3> QED
      BY <2>3, <2>6, <3>1, <3>4
  <2>7. CASE s.at < n /\ c = "%"
    <3>1. s.at \in 1 .. n /\ ~ (s.at > n) /\ ~ last /\ s.at + 1 \in 1 .. n
      BY <1>1, <2>1, <2>7
    <3>2. spec \in LogChar
      BY <1>1, <3>1
    <3>3. CASE spec \in Conversions
      <4>1. <<s.at + 2, s.arg + 1>> \in R /\ converted(spec, args[s.arg]) \in Seq(LogChar)
        BY <2>1, <2>7, <3>1, <3>3 DEF Fits
      <4>2. wrote(2, 1, converted(spec, args[s.arg])) \in S
        BY <2>2, <4>1
      <4> HIDE DEF wrote, c, spec
      <4> QED
        BY <2>3, <2>7, <3>1, <3>3, <4>2
    <3>4. CASE spec \notin Conversions
      <4>1. <<s.at + 2, s.arg + 0>> \in R
        <5>1. <<s.at + 2, s.arg>> \in R
          BY <2>1, <2>7, <3>1, <3>4 DEF Fits
        <5>2. s.arg + 0 = s.arg
          BY <2>1
        <5> QED
          BY <5>1, <5>2
      <4>2. (IF spec = "%" THEN <<"%">> ELSE <<"%", spec>>) \in Seq(LogChar)
        <5>1. "%" \in LogChar
          BY DEF LogChar
        <5> QED
          BY <3>2, <5>1
      <4>3. wrote(2, 0, IF spec = "%" THEN <<"%">> ELSE <<"%", spec>>) \in S
        BY <2>2, <4>1, <4>2
      <4> HIDE DEF wrote, c, spec
      <4> QED
        BY <2>3, <2>7, <3>1, <3>4, <4>3
    <3> QED
      BY <3>3, <3>4
  <2> QED
    BY <1>1, <2>1, <2>4, <2>5, <2>6, <2>7
<1>3. start \in S
  BY DEF Cursor, Fits
<1> HIDE DEF S, start, Turn
<1>4. step \in [1 .. n -> [S -> S]]
  BY <1>2
<1> HIDE DEF step
<1>5. PICK g : Iterates(g, S, start, n, step)
  BY <1>1, <1>3, <1>4, Recursion
<1>6. ASSUME NEW k \in 0 .. n  PROVE g[k] = IF k = 0 THEN start ELSE Turn[g[k - 1]]
  <2>1. CASE k = 0
    BY <1>5, <2>1 DEF Iterates
  <2>2. CASE k # 0
    <3>1. k \in 1 .. n /\ k - 1 \in 0 .. n
      BY <1>1, <2>2
    <3>2. g[k - 1] \in S /\ g[k] = step[k][g[k - 1]]
      BY <1>5, <3>1 DEF Iterates
    <3> QED
      BY <2>2, <3>1, <3>2 DEF step
  <2> QED
    BY <2>1, <2>2
<1>7. F(g)
  <2>1. g = [k \in 0 .. n |-> g[k]]
    BY <1>5 DEF Iterates
  <2> QED
    BY <1>6, <2>1
<1>8. after = CHOOSE f : F(f)
  BY DEF start, Turn
<1>9. vmsg_impl(line, fmt, args) = after[n].text \o (IF after[n].ended THEN <<"\n">> ELSE <<>>)
  BY DEF vmsg_impl
<1> HIDE DEF after
<1>10. F(after)
  <2> HIDE DEF F
  <2> QED
    BY <1>7, <1>8
<1> DEFINE T == {k \in 0 .. n : after[k] \in S}
<1>11. \A k \in 0 .. n : k \in T
  <2>1. 0 \in T
    BY <1>1, <1>3, <1>10
  <2>2. ASSUME NEW k \in 0 .. n - 1, k \in T  PROVE k + 1 \in T
    <3>1. k + 1 \in 0 .. n /\ k + 1 # 0 /\ (k + 1) - 1 = k /\ after[k] \in S
      BY <1>1, <2>2
    <3>2. after[k + 1] = Turn[after[k]]
      BY <1>10, <3>1
    <3> QED
      BY <1>2, <3>1, <3>2
  <2> HIDE DEF T
  <2> QED
    BY <1>1, <2>1, <2>2, Induction
<1>12. n \in T
  BY <1>1, <1>11
<1>13. after[n].text \in Seq(LogChar)
  BY <1>12 DEF S, Cursor
<1>14. (IF after[n].ended THEN <<"\n">> ELSE <<>>) \in Seq(LogChar)
  <2>1. "\n" \in LogChar
    BY DEF LogChar
  <2> QED
    BY <2>1
<1> QED
  BY <1>9, <1>13, <1>14, ConcatProperties

\* What the conversions write that the kernel uses.
LEMMA Converted ==
  /\ \A arg \in Seq(LogChar) : converted("s", arg) \in Seq(LogChar) /\ converted("o", arg) \in Seq(LogChar)
  /\ \A arg \in Nat : /\ converted("d", arg) \in Seq(LogChar) /\ converted("u", arg) \in Seq(LogChar)
                      /\ converted("x", arg) \in Seq(LogChar) /\ converted("p", arg) \in Seq(LogChar)
<1>1. \A c \in {"<null>", "0x", "-"} : <<c>> \in Seq(LogChar)
  <2>1. \A c \in {"<null>", "0x", "-"} : c \in LogChar
    BY DEF LogChar
  <2> QED
    BY <2>1
<1>2. ASSUME NEW arg \in Seq(LogChar)
      PROVE  converted("s", arg) \in Seq(LogChar) /\ converted("o", arg) \in Seq(LogChar)
  <2> DEFINE t == IF arg = "null" THEN <<"<null>">> ELSE arg
  <2>1. converted("s", arg) = t /\ converted("o", arg) = t
    BY DEF converted
  <2>2. t \in Seq(LogChar)
    BY <1>1
  <2> QED
    BY <2>1, <2>2
<1>3. ASSUME NEW arg \in Nat
      PROVE  /\ converted("d", arg) \in Seq(LogChar) /\ converted("u", arg) \in Seq(LogChar)
             /\ converted("x", arg) \in Seq(LogChar) /\ converted("p", arg) \in Seq(LogChar)
  <2>1. print_uint(arg, 10) \in Seq(LogChar) /\ print_uint(arg, 16) \in Seq(LogChar)
    <3>1. 10 \in 2 .. 16 /\ 16 \in 2 .. 16
      OBVIOUS
    <3> QED
      BY <3>1, PrintUint
  <2>2. print_int(arg) = <<>> \o print_uint(arg, 10)
    <3>1. ~ (arg < 0)
      OBVIOUS
    <3> QED
      BY <3>1 DEF print_int
  <2>3. /\ converted("d", arg) = print_int(arg)
        /\ converted("u", arg) = print_uint(arg, 10)
        /\ converted("x", arg) = <<"0x">> \o print_uint(arg, 16)
        /\ converted("p", arg) = IF arg = 0 THEN <<"<null>">> ELSE <<"0x">> \o print_uint(arg, 16)
    BY DEF converted
  <2>4. <<>> \o print_uint(arg, 10) \in Seq(LogChar) /\ <<"0x">> \o print_uint(arg, 16) \in Seq(LogChar)
    BY <1>1, <2>1, ConcatProperties
  <2> QED
    BY <1>1, <2>1, <2>2, <2>3, <2>4
<1> QED
  BY <1>2, <1>3

\* A message without conversions.
LEMMA PlainText ==
  ASSUME NEW line \in BOOLEAN, NEW fmt \in Seq(LogChar), NEW args,
         \A i \in 1 .. Len(fmt) : fmt[i] # "%"
  PROVE  vmsg_impl(line, fmt, args) \in Seq(LogChar)
<1> DEFINE R == (Nat \ {0}) \X {1}
<1>1. ASSUME NEW i \in 1 .. Len(fmt), NEW a \in Nat, <<i, a>> \in R
      PROVE  <<i + 1, a>> \in R
  BY <1>1
<1>2. R \subseteq (Nat \ {0}) \X Nat /\ <<1, 1>> \in R
  OBVIOUS
<1> HIDE DEF R
<1>3. Fits(fmt, args, R)
  BY <1>1, <1>2 DEF Fits
<1> QED
  BY <1>3, Formatted

\* The messages of the boot.
LEMMA PanicText ==
  ASSUME NEW name \in LogChar \ {"%"}
  PROVE  log_msg(<<"\n", "KERNEL_PANIC", "\\">>, <<>>) \o log_msg(<<name>>, <<>>)
           \o log_msg(<<"at", "%", "s", ":", "%", "d">>, <<<<"file">>, 1>>) \in Seq(LogChar)
<1> DEFINE head == <<"\n", "KERNEL_PANIC", "\\">>
           where == <<"at", "%", "s", ":", "%", "d">>
           args == <<<<"file">>, 1>>
           R == {<<1, 1>>, <<2, 1>>, <<4, 2>>, <<5, 2>>, <<7, 3>>}
<1>1. log_msg(head, <<>>) \in Seq(LogChar)
  <2>1. head \in Seq(LogChar) /\ \A i \in 1 .. Len(head) : head[i] # "%"
    <3>1. "\n" \in LogChar /\ "KERNEL_PANIC" \in LogChar /\ "\\" \in LogChar
      BY DEF LogChar
    <3>2. Len(head) = 3 /\ head[1] # "%" /\ head[2] # "%" /\ head[3] # "%"
      OBVIOUS
    <3>3. head \in Seq(LogChar)
      BY <3>1
    <3> QED
      BY <3>2, <3>3
  <2> HIDE DEF head
  <2> QED
    BY <2>1, PlainText DEF log_msg
<1>2. log_msg(<<name>>, <<>>) \in Seq(LogChar)
  <2> DEFINE fmt == <<name>>
  <2>1. fmt \in Seq(LogChar) /\ \A i \in 1 .. Len(fmt) : fmt[i] # "%"
    OBVIOUS
  <2> HIDE DEF fmt
  <2>2. log_msg(fmt, <<>>) \in Seq(LogChar)
    BY <2>1, PlainText DEF log_msg
  <2> QED
    BY <2>2 DEF fmt
<1>3. log_msg(where, args) \in Seq(LogChar)
  <2>1. where \in Seq(LogChar)
    <3>1. \A c \in {"at", "%", "s", ":", "d"} : c \in LogChar
      BY DEF LogChar
    <3> QED
      BY <3>1
  <2>2. Len(where) = 6 /\ where[1] = "at" /\ where[2] = "%" /\ where[3] = "s"
        /\ where[4] = ":" /\ where[5] = "%" /\ where[6] = "d"
    OBVIOUS
  <2>3. "s" \in Conversions /\ "d" \in Conversions
    BY DEF Conversions
  <2>4. converted("s", args[1]) \in Seq(LogChar) /\ converted("d", args[2]) \in Seq(LogChar)
    <3>1. <<"file">> \in Seq(LogChar)
      <4>1. "file" \in LogChar
        BY DEF LogChar
      <4> QED
        BY <4>1
    <3>2. args[1] = <<"file">> /\ args[2] = 1
      OBVIOUS
    <3> QED
      BY <3>1, <3>2, Converted
  <2> HIDE DEF where, args
  <2>5. Fits(where, args, R)
    <3>1. R \subseteq (Nat \ {0}) \X Nat /\ <<1, 1>> \in R
      OBVIOUS
    <3>2. ASSUME NEW i \in 1 .. Len(where), NEW a \in Nat, <<i, a>> \in R
          PROVE  IF i < Len(where) /\ where[i] = "%"
                   THEN IF where[i + 1] \in Conversions
                          THEN <<i + 2, a + 1>> \in R /\ converted(where[i + 1], args[a]) \in Seq(LogChar)
                          ELSE <<i + 2, a>> \in R
                   ELSE <<i + 1, a>> \in R
      <4>1. (i = 1 /\ a = 1) \/ (i = 2 /\ a = 1) \/ (i = 4 /\ a = 2) \/ (i = 5 /\ a = 2)
        BY <2>2, <3>2
      <4> QED
        BY <2>2, <2>3, <2>4, <4>1
    <3> QED
      BY <3>1, <3>2 DEF Fits
  <2> QED
    BY <2>1, <2>5, Formatted DEF log_msg
<1> QED
  BY <1>1, <1>2, <1>3, ConcatProperties

\* A message with one conversion, after a word or before one.
LEMMA WordThenConversion ==
  ASSUME NEW name \in LogChar \ {"%"}, NEW spec \in Conversions, NEW arg, converted(spec, arg) \in Seq(LogChar)
  PROVE  log_msg(<<name, "%", spec>>, <<arg>>) \in Seq(LogChar)
<1> DEFINE fmt == <<name, "%", spec>>
           args == <<arg>>
           R == {<<1, 1>>, <<2, 1>>, <<4, 2>>}
<1>1. spec \in LogChar /\ "%" \in LogChar
  BY DEF Conversions, LogChar
<1>2. fmt \in Seq(LogChar) /\ Len(fmt) = 3 /\ fmt[1] # "%" /\ fmt[2] = "%" /\ fmt[3] = spec /\ args[1] = arg
  BY <1>1
<1> HIDE DEF fmt, args
<1>3. ASSUME NEW i \in 1 .. Len(fmt), NEW a \in Nat, <<i, a>> \in R
      PROVE  IF i < Len(fmt) /\ fmt[i] = "%"
               THEN IF fmt[i + 1] \in Conversions
                      THEN <<i + 2, a + 1>> \in R /\ converted(fmt[i + 1], args[a]) \in Seq(LogChar)
                      ELSE <<i + 2, a>> \in R
               ELSE <<i + 1, a>> \in R
  <2>1. (i = 1 /\ a = 1) \/ (i = 2 /\ a = 1)
    BY <1>2, <1>3
  <2> QED
    BY <1>2, <2>1
<1>4. R \subseteq (Nat \ {0}) \X Nat /\ <<1, 1>> \in R
  OBVIOUS
<1>5. Fits(fmt, args, R)
  BY <1>3, <1>4 DEF Fits
<1>6. log_msg(fmt, args) \in Seq(LogChar)
  BY <1>2, <1>5, Formatted DEF log_msg
<1> QED
  BY <1>6 DEF fmt, args

\* The amount of memory.
LEMMA ConversionThenWord ==
  ASSUME NEW n \in Nat
  PROVE  log_msg(<<"%", "d", "KiB">>, <<n>>) \in Seq(LogChar)
<1> DEFINE fmt == <<"%", "d", "KiB">>
           args == <<n>>
           R == {<<1, 1>>, <<3, 2>>, <<4, 2>>}
<1>1. "%" \in LogChar /\ "d" \in LogChar /\ "KiB" \in LogChar /\ "d" \in Conversions
  BY DEF Conversions, LogChar
<1>2. fmt \in Seq(LogChar) /\ Len(fmt) = 3 /\ fmt[1] = "%" /\ fmt[2] = "d" /\ fmt[3] # "%" /\ args[1] = n
  BY <1>1
<1> HIDE DEF fmt, args
<1>3. ASSUME NEW i \in 1 .. Len(fmt), NEW a \in Nat, <<i, a>> \in R
      PROVE  IF i < Len(fmt) /\ fmt[i] = "%"
               THEN IF fmt[i + 1] \in Conversions
                      THEN <<i + 2, a + 1>> \in R /\ converted(fmt[i + 1], args[a]) \in Seq(LogChar)
                      ELSE <<i + 2, a>> \in R
               ELSE <<i + 1, a>> \in R
  <2>1. (i = 1 /\ a = 1) \/ (i = 3 /\ a = 2)
    BY <1>2, <1>3
  <2>2. converted("d", n) \in Seq(LogChar)
    BY Converted
  <2> QED
    BY <1>1, <1>2, <2>1, <2>2
<1>4. R \subseteq (Nat \ {0}) \X Nat /\ <<1, 1>> \in R
  OBVIOUS
<1>5. Fits(fmt, args, R)
  BY <1>3, <1>4 DEF Fits
<1>6. log_msg(fmt, args) \in Seq(LogChar)
  BY <1>2, <1>5, Formatted DEF log_msg
<1> QED
  BY <1>6 DEF fmt, args

\* The dump of a tag.
LEMMA TagDumpText == log_msg(<<"%", "x", "=", "%", "p">>, <<0, 0>>) \in Seq(LogChar)
<1> DEFINE fmt == <<"%", "x", "=", "%", "p">>
           args == <<0, 0>>
           R == {<<1, 1>>, <<3, 2>>, <<4, 2>>, <<6, 3>>}
<1>1. "%" \in LogChar /\ "x" \in LogChar /\ "=" \in LogChar /\ "p" \in LogChar /\ "x" \in Conversions /\ "p" \in Conversions
  BY DEF Conversions, LogChar
<1>2. /\ fmt \in Seq(LogChar) /\ Len(fmt) = 5
      /\ fmt[1] = "%" /\ fmt[2] = "x" /\ fmt[3] # "%" /\ fmt[4] = "%" /\ fmt[5] = "p"
      /\ args[1] = 0 /\ args[2] = 0
  BY <1>1
<1> HIDE DEF fmt, args
<1>3. ASSUME NEW i \in 1 .. Len(fmt), NEW a \in Nat, <<i, a>> \in R
      PROVE  IF i < Len(fmt) /\ fmt[i] = "%"
               THEN IF fmt[i + 1] \in Conversions
                      THEN <<i + 2, a + 1>> \in R /\ converted(fmt[i + 1], args[a]) \in Seq(LogChar)
                      ELSE <<i + 2, a>> \in R
               ELSE <<i + 1, a>> \in R
  <2>1. (i = 1 /\ a = 1) \/ (i = 3 /\ a = 2) \/ (i = 4 /\ a = 2)
    BY <1>2, <1>3
  <2>2. converted("x", 0) \in Seq(LogChar) /\ converted("p", 0) \in Seq(LogChar)
    BY Converted
  <2> QED
    BY <1>1, <1>2, <2>1, <2>2
<1>4. R \subseteq (Nat \ {0}) \X Nat /\ <<1, 1>> \in R
  OBVIOUS
<1>5. Fits(fmt, args, R)
  BY <1>3, <1>4 DEF Fits
<1>6. log_msg(fmt, args) \in Seq(LogChar)
  BY <1>2, <1>5, Formatted DEF log_msg
<1> QED
  BY <1>6 DEF fmt, args

\* What a framebuffer writes of itself.
LEMMA FramebufferText ==
  ASSUME NEW fb \in FramebufferTag
  PROVE  framebuffer_text(fb) \in Seq(LogChar)
<1> DEFINE fmt == <<"w=", "%", "u", "h=", "%", "u", "bpp=", "%", "u", "pitch=", "%", "u",
                    "v=", "%", "u", "brace">>
           args == <<fb.width, fb.height, fb.bpp, fb.pitch, IF valid(fb) THEN 1 ELSE 0>>
           R == {<<1, 1>>, <<2, 1>>, <<4, 2>>, <<5, 2>>, <<7, 3>>, <<8, 3>>, <<10, 4>>, <<11, 4>>,
                 <<13, 5>>, <<14, 5>>, <<16, 6>>, <<17, 6>>}
           words == {1, 4, 7, 10, 13, 16}
           signs == {2, 5, 8, 11, 14}
<1>1. /\ "%" \in LogChar /\ "u" \in LogChar /\ "w=" \in LogChar /\ "h=" \in LogChar /\ "bpp=" \in LogChar
      /\ "pitch=" \in LogChar /\ "v=" \in LogChar /\ "brace" \in LogChar /\ "u" \in Conversions
  BY DEF Conversions, LogChar
<1>2. fmt \in Seq(LogChar) /\ Len(fmt) = 16
  BY <1>1
<1>3. \A i \in words : fmt[i] # "%"
  OBVIOUS
<1>4. \A i \in signs : fmt[i] = "%" /\ fmt[i + 1] = "u"
  OBVIOUS
<1>5. \A a \in 1 .. 5 : args[a] \in Nat
  <2>1. fb.width \in Nat /\ fb.height \in Nat /\ fb.bpp \in Nat /\ fb.pitch \in Nat
        /\ (IF valid(fb) THEN 1 ELSE 0) \in Nat
    BY DEF FramebufferTag
  <2> QED
    BY <2>1
<1>6. framebuffer_text(fb) = vmsg_impl(FALSE, fmt, args)
  BY DEF framebuffer_text, log_obj
<1> HIDE DEF fmt, args
<1>7. ASSUME NEW i \in 1 .. Len(fmt), NEW a \in Nat, <<i, a>> \in R
      PROVE  IF i < Len(fmt) /\ fmt[i] = "%"
               THEN IF fmt[i + 1] \in Conversions
                      THEN <<i + 2, a + 1>> \in R /\ converted(fmt[i + 1], args[a]) \in Seq(LogChar)
                      ELSE <<i + 2, a>> \in R
               ELSE <<i + 1, a>> \in R
  <2>1. i <= 16
    BY <1>2
  <2>2. CASE i \in words
    <3>1. <<i + 1, a>> \in R
      BY <1>7, <2>2
    <3> QED
      BY <1>3, <2>2, <3>1
  <2>3. CASE i \in signs
    <3>1. <<i + 2, a + 1>> \in R /\ a \in 1 .. 5 /\ i < 16
      BY <1>7, <2>3
    <3>2. converted("u", args[a]) \in Seq(LogChar)
      BY <1>5, <3>1, Converted
    <3> QED
      BY <1>1, <1>2, <1>4, <2>3, <3>1, <3>2
  <2>4. i \in words \/ i \in signs
    BY <1>7, <2>1
  <2> QED
    BY <2>2, <2>3, <2>4
<1>8. R \subseteq (Nat \ {0}) \X Nat /\ <<1, 1>> \in R
  OBVIOUS
<1>9. Fits(fmt, args, R)
  BY <1>7, <1>8 DEF Fits
<1> QED
  BY <1>2, <1>6, <1>9, Formatted

-----------------------------------------------------------------------------
(* The wire.                                                               *)

\* write_byte sends characters.
LEMMA WriteByte == ASSUME NEW c \in LogChar  PROVE write_byte(c) \in Seq(LogChar)
<1>1. "\r" \in LogChar /\ "\n" \in LogChar
  BY DEF LogChar
<1>2. <<"\r", "\n">> \in Seq(LogChar) /\ <<c>> \in Seq(LogChar)
  BY <1>1
<1> QED
  BY <1>2 DEF write_byte

\* f[k] is what the first k characters of t are on the wire.
Sends(f, t) ==
  /\ f \in [0 .. Len(t) -> Seq(LogChar)] /\ f[0] = <<>>
  /\ \A k \in 1 .. Len(t) : f[k] = f[k - 1] \o write_byte(t[k])
  /\ OnTheWire(t) = f[Len(t)]

\* What the text is on the wire is built up character by character.
LEMMA OnTheWireIs == ASSUME NEW t \in Seq(LogChar)  PROVE \E f : Sends(f, t)
<1> DEFINE n == Len(t)
           S == Seq(LogChar)
           upto[k \in 0 .. Len(t)] == IF k = 0 THEN <<>> ELSE upto[k - 1] \o write_byte(t[k])
           F(f) == f = [k \in 0 .. n |-> IF k = 0 THEN <<>> ELSE f[k - 1] \o write_byte(t[k])]
           step == [k \in 1 .. n |-> [x \in S |-> x \o write_byte(t[k])]]
<1>1. n \in Nat /\ \A k \in 1 .. n : write_byte(t[k]) \in S
  BY ElementOfSeq, WriteByte
<1>2. <<>> \in S
  OBVIOUS
<1>3. step \in [1 .. n -> [S -> S]]
  <2>1. ASSUME NEW k \in 1 .. n, NEW x \in S  PROVE x \o write_byte(t[k]) \in S
    BY <1>1, ConcatProperties
  <2> HIDE DEF S
  <2> QED
    BY <2>1
<1> HIDE DEF step, S
<1>4. PICK g : Iterates(g, S, <<>>, n, step)
  BY <1>1, <1>2, <1>3, Recursion
<1>5. ASSUME NEW k \in 1 .. n  PROVE g[k - 1] \in S /\ g[k] = g[k - 1] \o write_byte(t[k])
  <2>1. k - 1 \in 0 .. n
    BY <1>1
  <2>2. g[k - 1] \in S /\ g[k] = step[k][g[k - 1]]
    BY <1>4, <2>1 DEF Iterates
  <2> QED
    BY <2>2 DEF step
<1>6. ASSUME NEW k \in 0 .. n
      PROVE  g[k] = IF k = 0 THEN <<>> ELSE g[k - 1] \o write_byte(t[k])
  <2>1. k = 0 \/ k \in 1 .. n
    BY <1>1
  <2> QED
    BY <1>4, <1>5, <2>1 DEF Iterates
<1>7. F(g)
  <2>1. g = [k \in 0 .. n |-> g[k]]
    BY <1>4 DEF Iterates
  <2> QED
    BY <1>6, <2>1
<1>8. upto = CHOOSE f : F(f)
  OBVIOUS
<1>9. OnTheWire(t) = upto[n]
  BY DEF OnTheWire
<1> HIDE DEF upto
<1>10. F(upto)
  <2> HIDE DEF F
  <2> QED
    BY <1>7, <1>8
<1> DEFINE T == {k \in 0 .. n : upto[k] = g[k]}
<1>11. \A k \in 0 .. n : k \in T
  <2>1. 0 \in T
    BY <1>1, <1>6, <1>10
  <2>2. ASSUME NEW k \in 0 .. n - 1, k \in T  PROVE k + 1 \in T
    <3>1. k + 1 \in 1 .. n /\ k + 1 \in 0 .. n /\ k + 1 # 0 /\ (k + 1) - 1 = k /\ upto[k] = g[k]
      BY <1>1, <2>2
    <3>2. upto[k + 1] = upto[k] \o write_byte(t[k + 1])
      BY <1>10, <3>1
    <3>3. g[k + 1] = g[k] \o write_byte(t[k + 1])
      BY <1>5, <3>1
    <3> QED
      BY <3>1, <3>2, <3>3
  <2> HIDE DEF T
  <2> QED
    BY <1>1, <2>1, <2>2, Induction
<1>12. OnTheWire(t) = g[n]
  BY <1>1, <1>9, <1>11
<1> QED
  BY <1>4, <1>5, <1>12 DEF Sends, S, Iterates

\* Three texts are joined either way.
LEMMA TextsConcat ==
  ASSUME NEW x \in Seq(LogChar), NEW y \in Seq(LogChar), NEW z \in Seq(LogChar)
  PROVE  (x \o y) \o z = x \o (y \o z)
BY ConcatAssociative

\* OnTheWire of a text and a text.
LEMMA WireConcat ==
  ASSUME NEW a \in Seq(LogChar), NEW b \in Seq(LogChar)
  PROVE  OnTheWire(a \o b) = OnTheWire(a) \o OnTheWire(b) /\ OnTheWire(a) \in Seq(LogChar)
<1> DEFINE c == a \o b
           m == Len(a)
           n == Len(b)
<1>1. c \in Seq(LogChar) /\ Len(c) = m + n /\ m \in Nat /\ n \in Nat
      /\ \A i \in 1 .. m + n : c[i] = IF i <= m THEN a[i] ELSE b[i - m]
  BY ConcatProperties
<1> HIDE DEF c
<1>2. PICK f : Sends(f, a)
  BY OnTheWireIs
<1>3. PICK g : Sends(g, b)
  BY OnTheWireIs
<1>4. PICK h : Sends(h, c)
  BY <1>1, OnTheWireIs
<1> HIDE DEF m, n
<1>5. /\ f \in [0 .. m -> Seq(LogChar)] /\ f[0] = <<>> /\ OnTheWire(a) = f[m]
      /\ \A k \in 1 .. m : f[k] = f[k - 1] \o write_byte(a[k])
  BY <1>2 DEF Sends, m
<1>6. /\ g \in [0 .. n -> Seq(LogChar)] /\ g[0] = <<>> /\ OnTheWire(b) = g[n]
      /\ \A k \in 1 .. n : g[k] = g[k - 1] \o write_byte(b[k])
  BY <1>3 DEF Sends, n
<1>7. /\ h[0] = <<>> /\ OnTheWire(c) = h[m + n]
      /\ \A k \in 1 .. m + n : h[k] = h[k - 1] \o write_byte(c[k])
  BY <1>1, <1>4 DEF Sends
<1> DEFINE T == {k \in 0 .. m : h[k] = f[k]}
           U == {k \in 0 .. n : h[m + k] = f[m] \o g[k]}
<1>8. m \in T
  <2>1. 0 \in T
    BY <1>1, <1>5, <1>7
  <2>2. ASSUME NEW k \in 0 .. m - 1, k \in T  PROVE k + 1 \in T
    <3>1. k + 1 \in 1 .. m /\ k + 1 \in 1 .. m + n /\ k + 1 \in 0 .. m /\ (k + 1) - 1 = k
          /\ k + 1 <= m /\ h[k] = f[k]
      BY <1>1, <2>2
    <3>2. c[k + 1] = a[k + 1]
      BY <1>1, <3>1
    <3>3. h[k + 1] = h[k] \o write_byte(c[k + 1])
      BY <1>7, <3>1
    <3>4. f[k + 1] = f[k] \o write_byte(a[k + 1])
      BY <1>5, <3>1
    <3> QED
      BY <3>1, <3>2, <3>3, <3>4
  <2> HIDE DEF T
  <2>3. \A k \in 0 .. m : k \in T
    BY <1>1, <2>1, <2>2, Induction
  <2> QED
    BY <1>1, <2>3
<1>9. n \in U
  <2>0. f[m] \in Seq(LogChar)
    BY <1>1, <1>5
  <2>1. 0 \in U
    <3>1. f[m] \o <<>> = f[m]
      BY <2>0, ConcatEmptySeq
    <3>2. m + 0 = m /\ h[m] = f[m] /\ 0 \in 0 .. n
      BY <1>1, <1>8
    <3> QED
      BY <1>6, <3>1, <3>2
  <2>2. ASSUME NEW k \in 0 .. n - 1, k \in U  PROVE k + 1 \in U
    <3>0. h[m + k] = f[m] \o g[k]
      BY <2>2
    <3>1. k + 1 \in 1 .. n /\ k + 1 \in 0 .. n /\ (k + 1) - 1 = k /\ k \in 0 .. n
      BY <1>1, <2>2
    <3>2. PICK j \in 1 .. m + n : j = m + (k + 1) /\ j - 1 = m + k /\ ~ (j <= m) /\ j - m = k + 1
      BY <1>1, <3>1
    <3>3. c[j] = b[k + 1]
      BY <1>1, <3>2
    <3>4. h[j] = h[m + k] \o write_byte(b[k + 1])
      BY <1>7, <3>2, <3>3
    <3>5. g[k + 1] = g[k] \o write_byte(b[k + 1])
      BY <1>6, <3>1
    <3>6. write_byte(b[k + 1]) \in Seq(LogChar) /\ g[k] \in Seq(LogChar)
      <4>1. b[k + 1] \in LogChar
        BY <3>1, ElementOfSeq DEF n
      <4> QED
        BY <1>6, <3>1, <4>1, WriteByte
    <3>7. (f[m] \o g[k]) \o write_byte(b[k + 1]) = f[m] \o (g[k] \o write_byte(b[k + 1]))
      BY <2>0, <3>6, TextsConcat, Zenon
    <3> QED
      BY <3>0, <3>1, <3>2, <3>4, <3>5, <3>7
  <2> HIDE DEF U
  <2>3. \A k \in 0 .. n : k \in U
    BY <1>1, <2>1, <2>2, Induction
  <2> QED
    BY <1>1, <2>3
<1>10. n \in 0 .. n /\ m \in 0 .. m /\ f[m] \in Seq(LogChar)
  BY <1>1, <1>5
<1>11. h[m + n] = f[m] \o g[n]
  BY <1>9, <1>10
<1> QED
  BY <1>5, <1>6, <1>7, <1>10, <1>11, Zenon DEF c

\* What the terminal shows after one byte more.
Shown(before, b) ==
  IF b # "\n" THEN Append(before, b)
  ELSE Append(SubSeq(before, 1, Len(before) - 1), "\n")

\* f[k] is what the terminal makes of the first k bytes of s.
Reads(f, s) ==
  /\ f \in [0 .. Len(s) -> Seq(LogChar)] /\ f[0] = <<>>
  /\ \A k \in 1 .. Len(s) : f[k] = Shown(f[k - 1], s[k])
  /\ Text(s) = f[Len(s)]

\* The terminal shows texts.
LEMMA ShownIs ==
  ASSUME NEW before \in Seq(LogChar), NEW b \in LogChar
  PROVE  Shown(before, b) \in Seq(LogChar)
<1>1. CASE b # "\n"
  BY <1>1, AppendProperties DEF Shown
<1>2. CASE b = "\n"
  <2>1. \A i \in 1 .. Len(before) - 1 : before[i] \in LogChar
    <3>1. \A i \in 1 .. Len(before) - 1 : i \in 1 .. Len(before)
      OBVIOUS
    <3> QED
      BY <3>1, ElementOfSeq
  <2>2. SubSeq(before, 1, Len(before) - 1) \in Seq(LogChar)
    BY <2>1, SubSeqProperties
  <2>3. Shown(before, b) = Append(SubSeq(before, 1, Len(before) - 1), b)
    BY <1>2 DEF Shown
  <2> QED
    BY <2>2, <2>3, AppendProperties
<1> QED
  BY <1>1, <1>2

\* What the terminal shows is built up byte by byte.
LEMMA TextIs == ASSUME NEW s \in Seq(LogChar)  PROVE \E f : Reads(f, s)
<1> DEFINE n == Len(s)
           S == Seq(LogChar)
           shown[k \in 0 .. Len(s)] ==
             IF k = 0 THEN <<>>
             ELSE LET before == shown[k - 1]
                  IN  IF s[k] # "\n" THEN Append(before, s[k])
                      ELSE Append(SubSeq(before, 1, Len(before) - 1), "\n")
           F(f) == f = [k \in 0 .. n |-> IF k = 0 THEN <<>>
                          ELSE LET before == f[k - 1]
                               IN  IF s[k] # "\n" THEN Append(before, s[k])
                                   ELSE Append(SubSeq(before, 1, Len(before) - 1), "\n")]
           step == [k \in 1 .. n |-> [x \in S |-> Shown(x, s[k])]]
<1>1. n \in Nat /\ \A k \in 1 .. n, x \in S : Shown(x, s[k]) \in S
  <2>1. n \in Nat
    OBVIOUS
  <2>2. ASSUME NEW k \in 1 .. n, NEW x \in S  PROVE Shown(x, s[k]) \in S
    <3>1. s[k] \in LogChar
      BY ElementOfSeq
    <3> QED
      BY <3>1, ShownIs
  <2> QED
    BY <2>1, <2>2
<1>2. <<>> \in S
  OBVIOUS
<1> HIDE DEF S
<1>3. step \in [1 .. n -> [S -> S]]
  BY <1>1
<1> HIDE DEF step
<1>4. PICK g : Iterates(g, S, <<>>, n, step)
  BY <1>1, <1>2, <1>3, Recursion
<1>5. ASSUME NEW k \in 1 .. n  PROVE g[k - 1] \in S /\ g[k] = Shown(g[k - 1], s[k])
  <2>1. k - 1 \in 0 .. n
    BY <1>1
  <2>2. g[k - 1] \in S /\ g[k] = step[k][g[k - 1]]
    BY <1>4, <2>1 DEF Iterates
  <2> QED
    BY <2>2 DEF step
<1>6. ASSUME NEW k \in 0 .. n  PROVE g[k] = IF k = 0 THEN <<>> ELSE Shown(g[k - 1], s[k])
  <2>1. k = 0 \/ k \in 1 .. n
    BY <1>1
  <2> QED
    BY <1>4, <1>5, <2>1 DEF Iterates
<1>7. F(g)
  <2>1. g = [k \in 0 .. n |-> g[k]]
    BY <1>4 DEF Iterates
  <2>2. g = [k \in 0 .. n |-> IF k = 0 THEN <<>> ELSE Shown(g[k - 1], s[k])]
    BY <1>6, <2>1
  <2> QED
    BY <2>2 DEF Shown
<1>8. shown = CHOOSE f : F(f)
  OBVIOUS
<1>9. Text(s) = shown[n]
  BY DEF Text
<1> HIDE DEF shown
<1>10. F(shown)
  <2> HIDE DEF F
  <2> QED
    BY <1>7, <1>8
<1>11. shown = [k \in 0 .. n |-> IF k = 0 THEN <<>> ELSE Shown(shown[k - 1], s[k])]
  BY <1>10 DEF Shown
<1> HIDE DEF F
<1> DEFINE T == {k \in 0 .. n : shown[k] = g[k]}
<1>12. \A k \in 0 .. n : k \in T
  <2>1. 0 \in T
    BY <1>1, <1>6, <1>11
  <2>2. ASSUME NEW k \in 0 .. n - 1, k \in T  PROVE k + 1 \in T
    <3>1. k + 1 \in 1 .. n /\ k + 1 \in 0 .. n /\ k + 1 # 0 /\ (k + 1) - 1 = k /\ shown[k] = g[k]
      BY <1>1, <2>2
    <3>2. shown[k + 1] = Shown(shown[k], s[k + 1])
      BY <1>11, <3>1
    <3>3. g[k + 1] = Shown(g[k], s[k + 1])
      BY <1>5, <3>1
    <3> QED
      BY <3>1, <3>2, <3>3
  <2> HIDE DEF T
  <2> QED
    BY <1>1, <2>1, <2>2, Induction
<1>13. Text(s) = g[n]
  BY <1>1, <1>9, <1>12
<1> QED
  BY <1>4, <1>5, <1>13 DEF Reads, S, Iterates

\* One byte more.
LEMMA TextAppend ==
  ASSUME NEW s \in Seq(LogChar), NEW b \in LogChar
  PROVE  /\ Text(Append(s, b)) = Shown(Text(s), b)
         /\ Text(s) \in Seq(LogChar) /\ Text(<<>>) = <<>>
<1> DEFINE n == Len(s)
           t == Append(s, b)
<1>1. t \in Seq(LogChar) /\ Len(t) = n + 1 /\ n \in Nat /\ t[n + 1] = b
      /\ \A i \in 1 .. n : t[i] = s[i]
  BY AppendProperties
<1> HIDE DEF t
<1>2. PICK f : Reads(f, s)
  BY TextIs
<1>3. PICK h : Reads(h, t)
  BY <1>1, TextIs
<1> HIDE DEF n
<1>4. /\ f \in [0 .. n -> Seq(LogChar)] /\ f[0] = <<>> /\ Text(s) = f[n]
      /\ \A k \in 1 .. n : f[k] = Shown(f[k - 1], s[k])
  BY <1>2 DEF Reads, n
<1>5. /\ h[0] = <<>> /\ Text(t) = h[n + 1]
      /\ \A k \in 1 .. n + 1 : h[k] = Shown(h[k - 1], t[k])
  BY <1>1, <1>3 DEF Reads
<1> DEFINE T == {k \in 0 .. n : h[k] = f[k]}
<1>6. h[n] = f[n]
  <2>0. n \in Nat /\ h[0] = f[0]
    BY <1>1, <1>4, <1>5
  <2>1. 0 \in T
    BY <2>0
  <2>2. ASSUME NEW k \in 0 .. n - 1, k \in T  PROVE k + 1 \in T
    <3>1. k + 1 \in 1 .. n /\ k + 1 \in 1 .. n + 1 /\ k + 1 \in 0 .. n /\ (k + 1) - 1 = k /\ h[k] = f[k]
      BY <1>1, <2>2
    <3>2. h[k + 1] = Shown(h[k], t[k + 1]) /\ f[k + 1] = Shown(f[k], s[k + 1]) /\ t[k + 1] = s[k + 1]
      BY <1>1, <1>4, <1>5, <3>1
    <3> QED
      BY <3>1, <3>2
  <2>3. \A k \in 0 .. n : k \in T
    <3> HIDE DEF T
    <3> QED
      BY <1>1, <2>1, <2>2, Induction
  <2>4. n \in 0 .. n
    BY <1>1
  <2> QED
    BY <2>3, <2>4
<1>7. h[n + 1] = Shown(h[n], b)
  <2>1. n + 1 \in 1 .. n + 1 /\ (n + 1) - 1 = n
    BY <1>1
  <2> QED
    BY <1>1, <1>5, <2>1
<1>8. Text(<<>>) = <<>>
  <2>1. <<>> \in Seq(LogChar) /\ Len(<<>>) = 0
    OBVIOUS
  <2>2. PICK e : Reads(e, <<>>)
    BY <2>1, TextIs
  <2> QED
    BY <2>1, <2>2 DEF Reads
<1>9. f[n] \in Seq(LogChar)
  BY <1>1, <1>4
<1> QED
  BY <1>4, <1>5, <1>6, <1>7, <1>8, <1>9 DEF t

\* Line feeds come after carriage returns.
Fed(s) == \A i \in DOMAIN s : s[i] = "\n" => i > 1 /\ s[i - 1] = "\r"

\* The terminal makes of a text on the wire the text.
LEMMA WireIsRead ==
  ASSUME NEW t \in Seq(LogChar)
  PROVE  Text(OnTheWire(t)) = t /\ Fed(OnTheWire(t))
<1> DEFINE n == Len(t)
<1>1. PICK f : Sends(f, t)
  BY OnTheWireIs
<1>2. n \in Nat /\ \A k \in 1 .. n : t[k] \in LogChar
  BY ElementOfSeq
<1> HIDE DEF n
<1>3. /\ f \in [0 .. n -> Seq(LogChar)] /\ f[0] = <<>> /\ OnTheWire(t) = f[n]
      /\ \A k \in 1 .. n : f[k] = f[k - 1] \o write_byte(t[k])
  BY <1>1 DEF Sends, n
<1> DEFINE T == {k \in 0 .. n : Text(f[k]) = SubSeq(t, 1, k) /\ Fed(f[k])}
<1>4. 0 \in T
  <2>1. Text(<<>>) = <<>>
    <3>1. "\n" \in LogChar /\ <<>> \in Seq(LogChar)
      BY DEF LogChar
    <3> QED
      BY <3>1, TextAppend
  <2>2. SubSeq(t, 1, 0) = <<>>
    BY SubSeqEmpty
  <2>3. Fed(<<>>)
    BY DEF Fed
  <2> QED
    BY <1>2, <1>3, <2>1, <2>2, <2>3
<1>5. ASSUME NEW k \in 0 .. n - 1, k \in T  PROVE k + 1 \in T
  <2>1. k + 1 \in 1 .. n /\ k + 1 \in 0 .. n /\ (k + 1) - 1 = k /\ k \in 0 .. n
    BY <1>2
  <2>2. Text(f[k]) = SubSeq(t, 1, k) /\ Fed(f[k])
    BY <1>5
  <2>3. PICK b \in LogChar : b = t[k + 1]
    BY <1>2, <2>1
  <2>4. PICK s \in Seq(LogChar) : s = f[k]
    BY <1>3, <2>1
  <2>5. f[k + 1] = s \o write_byte(b)
    BY <1>3, <2>1, <2>3, <2>4
  <2> DEFINE p == SubSeq(t, 1, k)
  <2>6. p \in Seq(LogChar) /\ SubSeq(t, 1, k + 1) = Append(p, b)
    <3>1. \A i \in 1 .. k : t[i] \in LogChar
      <4>1. \A i \in 1 .. k : i \in 1 .. n
        BY <1>2, <2>1
      <4> QED
        BY <1>2, <4>1
    <3>2. p \in Seq(LogChar)
      BY <2>1, <3>1, SubSeqProperties
    <3>3. SubSeq(t, 1, k + 1) = SubSeq(t, 1, (k + 1) - 1) \o <<t[k + 1]>>
      <4>1. PICK j \in 1 .. n : j = k + 1
        BY <2>1
      <4>2. 1 \in 1 .. Len(t) /\ j \in 1 .. Len(t) /\ 1 <= j
        BY <1>2 DEF n
      <4>3. SubSeq(t, 1, j) = SubSeq(t, 1, j - 1) \o <<t[j]>>
        BY <4>2, SubSeqRecursiveSecond
      <4> QED
        BY <4>1, <4>3
    <3>4. Append(p, b) = p \o <<b>>
      BY <3>2, AppendIsConcat
    <3> QED
      BY <2>1, <2>3, <3>2, <3>3, <3>4
  <2> HIDE DEF p
  <2>7. Text(s) = p /\ Fed(s)
    BY <2>2, <2>4 DEF p
  <2>8. CASE b # "\n"
    <3>1. f[k + 1] = Append(s, b)
      <4>1. write_byte(b) = <<b>>
        BY <2>8 DEF write_byte
      <4> QED
        BY <2>5, <4>1, AppendIsConcat
    <3>2. Text(Append(s, b)) = Append(p, b)
      BY <2>7, <2>8, TextAppend DEF Shown
    <3>3. Fed(Append(s, b))
      <4>1. Append(s, b) \in Seq(LogChar) /\ Len(Append(s, b)) = Len(s) + 1 /\ Append(s, b)[Len(s) + 1] = b
            /\ \A i \in 1 .. Len(s) : Append(s, b)[i] = s[i]
        BY AppendProperties
      <4> DEFINE q == Append(s, b)
      <4> HIDE DEF q
      <4>2. q \in Seq(LogChar) /\ Len(q) = Len(s) + 1 /\ q[Len(s) + 1] = b /\ Len(s) \in Nat
            /\ \A i \in 1 .. Len(s) : q[i] = s[i]
        BY <4>1 DEF q
      <4>3. ASSUME NEW i \in DOMAIN q, q[i] = "\n"  PROVE i > 1 /\ q[i - 1] = "\r"
        <5>1. i \in 1 .. Len(s)
          BY <2>8, <4>2, <4>3
        <5>2. i > 1 /\ s[i - 1] = "\r" /\ i - 1 \in 1 .. Len(s)
          BY <2>7, <4>2, <4>3, <5>1 DEF Fed
        <5> QED
          BY <4>2, <5>2
      <4> QED
        BY <4>3 DEF Fed, q
    <3> QED
      BY <2>1, <2>6, <3>1, <3>2, <3>3
  <2>9. CASE b = "\n"
    <3> DEFINE r == Append(s, "\r")
               q == Append(r, "\n")
    <3>1. "\r" \in LogChar /\ "\n" \in LogChar /\ "\r" # "\n"
      BY DEF LogChar
    <3>2. r \in Seq(LogChar) /\ Len(r) = Len(s) + 1 /\ r[Len(s) + 1] = "\r" /\ Len(s) \in Nat
          /\ \A i \in 1 .. Len(s) : r[i] = s[i]
      BY <3>1, AppendProperties
    <3>3. q \in Seq(LogChar) /\ Len(q) = Len(r) + 1 /\ q[Len(r) + 1] = "\n"
          /\ \A i \in 1 .. Len(r) : q[i] = r[i]
      <4> HIDE DEF r
      <4> QED
        BY <3>1, <3>2, AppendProperties
    <3>4. f[k + 1] = q
      <4>1. write_byte(b) = <<"\r", "\n">> /\ f[k + 1] = s \o write_byte(b)
        BY <2>5, <2>9 DEF write_byte
      <4>2. <<"\r", "\n">> = <<"\r">> \o <<"\n">> /\ <<"\r">> \in Seq(LogChar) /\ <<"\n">> \in Seq(LogChar)
        BY <3>1
      <4>3. s \o (<<"\r">> \o <<"\n">>) = (s \o <<"\r">>) \o <<"\n">>
        BY <4>2, ConcatAssociative
      <4>4. s \o <<"\r">> = r
        BY <3>1, AppendIsConcat
      <4>5. r \o <<"\n">> = q
        BY <3>1, <3>2, AppendIsConcat
      <4> QED
        BY <4>1, <4>2, <4>3, <4>4, <4>5
    <3>5. Text(r) = Append(p, "\r")
      BY <2>7, <3>1, TextAppend DEF Shown
    <3>6. Text(q) = Append(SubSeq(Append(p, "\r"), 1, Len(Append(p, "\r")) - 1), "\n")
      <4> HIDE DEF r
      <4> QED
        BY <3>1, <3>2, <3>5, TextAppend DEF Shown
    <3>7. SubSeq(Append(p, "\r"), 1, Len(Append(p, "\r")) - 1) = p
      <4> DEFINE a == Append(p, "\r")
      <4>1. a \in Seq(LogChar) /\ Len(a) = Len(p) + 1 /\ Len(p) \in Nat /\ \A i \in 1 .. Len(p) : a[i] = p[i]
        BY <2>6, <3>1, AppendProperties
      <4> HIDE DEF a
      <4> DEFINE e == SubSeq(a, 1, Len(a) - 1)
      <4>2. \A i \in 1 .. Len(a) - 1 : a[i] \in LogChar
        <5>1. \A i \in 1 .. Len(a) - 1 : i \in 1 .. Len(a)
          BY <4>1
        <5> QED
          BY <4>1, <5>1, ElementOfSeq
      <4>3. e \in Seq(LogChar) /\ Len(e) = Len(p) /\ \A i \in 1 .. Len(p) : e[i] = a[i]
        <5>1. /\ e \in Seq(LogChar)
              /\ Len(e) = IF 1 <= Len(a) - 1 THEN Len(a) - 1 - 1 + 1 ELSE 0
              /\ \A i \in 1 .. Len(a) - 1 - 1 + 1 : e[i] = a[1 + i - 1]
          BY <4>1, <4>2, SubSeqProperties
        <5> HIDE DEF e
        <5>2. Len(e) = Len(p)
          BY <4>1, <5>1
        <5>3. ASSUME NEW i \in 1 .. Len(p)  PROVE e[i] = a[i]
          <6>1. i \in 1 .. Len(a) - 1 - 1 + 1 /\ 1 + i - 1 = i
            BY <4>1
          <6> QED
            BY <5>1, <6>1
        <5> QED
          BY <5>1, <5>2, <5>3
      <4> HIDE DEF e
      <4>4. e = p
        BY <2>6, <4>1, <4>3, SeqEqual
      <4> QED
        BY <4>4 DEF a, e
    <3>8. Text(q) = Append(p, b)
      BY <2>9, <3>6, <3>7
    <3> HIDE DEF q, r
    <3>9. Fed(q)
      <4>1. ASSUME NEW i \in DOMAIN q, q[i] = "\n"  PROVE i > 1 /\ q[i - 1] = "\r"
        <5>1. i \in 1 .. Len(s) + 2
          BY <3>2, <3>3
        <5>2. CASE i = Len(s) + 2
          <6>1. i - 1 = Len(s) + 1 /\ i > 1 /\ i - 1 \in 1 .. Len(r)
            BY <3>2, <5>2
          <6> QED
            BY <3>2, <3>3, <6>1
        <5>3. CASE i = Len(s) + 1
          <6>1. q[i] = r[Len(s) + 1]
            BY <3>2, <3>3, <5>3
          <6> QED
            BY <3>1, <3>2, <4>1, <6>1
        <5>4. CASE i \in 1 .. Len(s)
          <6>1. i \in 1 .. Len(r) /\ i \in DOMAIN s
            BY <3>2, <5>4
          <6>2. s[i] = "\n"
            BY <3>2, <3>3, <4>1, <5>4, <6>1
          <6>3. i > 1 /\ s[i - 1] = "\r"
            BY <2>7, <6>1, <6>2 DEF Fed
          <6>4. i - 1 \in 1 .. Len(s) /\ i - 1 \in 1 .. Len(r)
            BY <3>2, <5>4, <6>3
          <6> QED
            BY <3>2, <3>3, <6>3, <6>4
        <5>5. i = Len(s) + 2 \/ i = Len(s) + 1 \/ i \in 1 .. Len(s)
          BY <3>2, <5>1
        <5> QED
          BY <5>2, <5>3, <5>4, <5>5
      <4> QED
        BY <4>1 DEF Fed
    <3> QED
      BY <2>1, <2>6, <3>4, <3>8, <3>9
  <2> QED
    BY <2>8, <2>9
<1>6. n \in T
  <2> HIDE DEF T
  <2>1. \A k \in 0 .. n : k \in T
    BY <1>2, <1>4, <1>5, Induction
  <2> QED
    BY <1>2, <2>1
<1>7. SubSeq(t, 1, n) = t
  BY SubSeqFull DEF n
<1> QED
  BY <1>3, <1>6, <1>7

-----------------------------------------------------------------------------
(* The steps.                                                              *)

-----------------------------------------------------------------------------
\* The registers after one write.
LEMMA OutIs ==
  ASSUME NEW u \in Registers
  PROVE  /\ u.line_ctrl < 128 => \A b \in LogChar :
              out(u, "data", b) \in Registers /\ out(u, "data", b) = [u EXCEPT !.data = <<b>>]
         /\ u.line_ctrl >= 128 => \A v \in Nat :
              /\ out(u, "data", v) \in Registers /\ out(u, "data", v) = [u EXCEPT !.divisor_low = v]
              /\ out(u, "int_en", v) \in Registers /\ out(u, "int_en", v) = [u EXCEPT !.divisor_high = v]
         /\ u.line_ctrl < 128 => \A v \in Nat :
              out(u, "int_en", v) \in Registers /\ out(u, "int_en", v) = [u EXCEPT !.int_en = v]
         /\ \A v \in Nat :
              /\ out(u, "line_ctrl", v) \in Registers /\ out(u, "line_ctrl", v) = [u EXCEPT !.line_ctrl = v]
              /\ out(u, "fifo_ctrl", v) \in Registers /\ out(u, "fifo_ctrl", v) = [u EXCEPT !.fifo_ctrl = v]
              /\ out(u, "modem_ctrl", v) \in Registers /\ out(u, "modem_ctrl", v) = [u EXCEPT !.modem_ctrl = v]
<1>1. u.line_ctrl \in Nat
  BY DEF Registers
<1>2. ASSUME u.line_ctrl < 128, NEW b \in LogChar
      PROVE  out(u, "data", b) \in Registers /\ out(u, "data", b) = [u EXCEPT !.data = <<b>>]
  <2>1. out(u, "data", b) = [u EXCEPT !.data = <<b>>]
    BY <1>1, <1>2 DEF out, register, Registers
  <2> QED
    BY <2>1 DEF Registers
<1>3. ASSUME u.line_ctrl >= 128, NEW v \in Nat
      PROVE  /\ out(u, "data", v) \in Registers /\ out(u, "data", v) = [u EXCEPT !.divisor_low = v]
             /\ out(u, "int_en", v) \in Registers /\ out(u, "int_en", v) = [u EXCEPT !.divisor_high = v]
  <2>1. register(u, "data") = "divisor_low" /\ register(u, "int_en") = "divisor_high"
    BY <1>1, <1>3 DEF register
  <2>2. out(u, "data", v) = [u EXCEPT !.divisor_low = v] /\ out(u, "int_en", v) = [u EXCEPT !.divisor_high = v]
    BY <2>1 DEF out
  <2> QED
    BY <2>2 DEF Registers
<1>4. ASSUME u.line_ctrl < 128, NEW v \in Nat
      PROVE  out(u, "int_en", v) \in Registers /\ out(u, "int_en", v) = [u EXCEPT !.int_en = v]
  <2>1. out(u, "int_en", v) = [u EXCEPT !.int_en = v]
    BY <1>1, <1>4 DEF out, register, Registers
  <2> QED
    BY <2>1 DEF Registers
<1>5. ASSUME NEW v \in Nat
      PROVE  /\ out(u, "line_ctrl", v) \in Registers /\ out(u, "line_ctrl", v) = [u EXCEPT !.line_ctrl = v]
             /\ out(u, "fifo_ctrl", v) \in Registers /\ out(u, "fifo_ctrl", v) = [u EXCEPT !.fifo_ctrl = v]
             /\ out(u, "modem_ctrl", v) \in Registers /\ out(u, "modem_ctrl", v) = [u EXCEPT !.modem_ctrl = v]
  <2>1. /\ out(u, "line_ctrl", v) = [u EXCEPT !.line_ctrl = v]
        /\ out(u, "fifo_ctrl", v) = [u EXCEPT !.fifo_ctrl = v]
        /\ out(u, "modem_ctrl", v) = [u EXCEPT !.modem_ctrl = v]
    BY DEF out, register, Registers
  <2> QED
    BY <2>1 DEF Registers
<1> QED
  BY <1>2, <1>3, <1>4, <1>5

\* While the divisor is reached the first two ports are its halves.
LEMMA DivisorIs ==
  ASSUME NEW u \in Registers, u.line_ctrl >= 128, NEW v \in Nat
  PROVE  /\ out(u, "data", v) \in Registers /\ out(u, "data", v) = [u EXCEPT !.divisor_low = v]
         /\ out(u, "int_en", v) \in Registers /\ out(u, "int_en", v) = [u EXCEPT !.divisor_high = v]
BY OutIs, Zenon

\* init sets the rate and the format and leaves nothing in the holding register.
LEMMA Programmed ==
  ASSUME NEW u \in Registers, u.line_ctrl = 3
  PROVE  LET p == programmed(u)
         IN  /\ p \in Registers /\ p.data = u.data
             /\ p.divisor_low = 3 /\ p.divisor_high = 0 /\ p.line_ctrl = 3
<1>1. PICK a \in Registers : a = out(u, "int_en", 0) /\ a = [u EXCEPT !.int_en = 0]
  BY OutIs
<1>2. a.line_ctrl = 3 /\ a.data = u.data
  BY <1>1 DEF Registers
<1>3. PICK b \in Registers : b = out(a, "line_ctrl", 128) /\ b = [a EXCEPT !.line_ctrl = 128]
  BY OutIs
<1>4. b.line_ctrl = 128 /\ b.line_ctrl >= 128 /\ b.data = u.data
  <2>1. b.line_ctrl = 128 /\ b.data = a.data
    BY <1>3 DEF Registers
  <2> QED
    BY <1>2, <2>1
<1>5. PICK c \in Registers : c = out(b, "data", 3) /\ c = [b EXCEPT !.divisor_low = 3]
  <2>1. 3 \in Nat
    OBVIOUS
  <2>2. out(b, "data", 3) \in Registers /\ out(b, "data", 3) = [b EXCEPT !.divisor_low = 3]
    BY <1>4, <2>1, DivisorIs
  <2> QED
    BY <2>2, Zenon
<1>6. c.line_ctrl = 128 /\ c.line_ctrl >= 128 /\ c.data = u.data /\ c.divisor_low = 3
  <2>1. c.line_ctrl = b.line_ctrl /\ c.data = b.data /\ c.divisor_low = 3
    BY <1>5 DEF Registers
  <2> QED
    BY <1>4, <2>1
<1>7. PICK d \in Registers : d = out(c, "int_en", 0) /\ d = [c EXCEPT !.divisor_high = 0]
  <2>1. 0 \in Nat
    OBVIOUS
  <2>2. out(c, "int_en", 0) \in Registers /\ out(c, "int_en", 0) = [c EXCEPT !.divisor_high = 0]
    BY <1>6, <2>1, DivisorIs
  <2> QED
    BY <2>2, Zenon
<1>8. d.line_ctrl = 128 /\ d.data = u.data /\ d.divisor_low = 3 /\ d.divisor_high = 0
  <2>1. d.line_ctrl = c.line_ctrl /\ d.data = c.data /\ d.divisor_low = c.divisor_low /\ d.divisor_high = 0
    BY <1>7 DEF Registers
  <2> QED
    BY <1>6, <2>1
<1>9. PICK e \in Registers : e = out(d, "line_ctrl", 3) /\ e = [d EXCEPT !.line_ctrl = 3]
  BY OutIs
<1>10. e.line_ctrl = 3 /\ e.data = u.data /\ e.divisor_low = 3 /\ e.divisor_high = 0
  <2>1. e.line_ctrl = 3 /\ e.data = d.data /\ e.divisor_low = d.divisor_low
        /\ e.divisor_high = d.divisor_high
    BY <1>9 DEF Registers
  <2> QED
    BY <1>8, <2>1
<1>11. PICK f \in Registers : f = out(e, "fifo_ctrl", 199) /\ f = [e EXCEPT !.fifo_ctrl = 199]
  BY OutIs
<1>12. f.line_ctrl = 3 /\ f.data = u.data /\ f.divisor_low = 3 /\ f.divisor_high = 0
  <2>1. f.line_ctrl = e.line_ctrl /\ f.data = e.data /\ f.divisor_low = e.divisor_low
        /\ f.divisor_high = e.divisor_high
    BY <1>11 DEF Registers
  <2> QED
    BY <1>10, <2>1
<1>13. PICK g \in Registers : g = out(f, "modem_ctrl", 11) /\ g = [f EXCEPT !.modem_ctrl = 11]
  BY OutIs
<1>14. g.line_ctrl = 3 /\ g.data = u.data /\ g.divisor_low = 3 /\ g.divisor_high = 0
  <2>1. g.line_ctrl = f.line_ctrl /\ g.data = f.data /\ g.divisor_low = f.divisor_low
        /\ g.divisor_high = f.divisor_high
    BY <1>13 DEF Registers
  <2> QED
    BY <1>12, <2>1
<1>15. programmed(u) = g
  <2>1. d = out(out(out(out(u, "int_en", 0), "line_ctrl", 128), "data", 3), "int_en", 0)
    BY <1>1, <1>3, <1>5, <1>7, Zenon
  <2>2. g = out(out(out(d, "line_ctrl", 3), "fifo_ctrl", 199), "modem_ctrl", 11)
    BY <1>9, <1>11, <1>13, Zenon
  <2> QED
    BY <2>1, <2>2, Zenon DEF programmed
<1> QED
  BY <1>14, <1>15

-----------------------------------------------------------------------------
\* What is logged is to be written behind what the wire has.
LEMMA LogStep ==
  ASSUME WireInv, NEW s, NEW text \in Seq(LogChar), log(s, text), pending = <<>>,
         UNCHANGED <<uart, wire, inited>>
  PROVE  WireInv'
<1>1. /\ wire \in Seq(LogChar) /\ pending \in Seq(LogChar) /\ said \in Seq(LogChar) /\ uart \in Registers
      /\ wire \o uart.data \o pending = OnTheWire(said)
  BY DEF WireInv
<1>2. uart.data \in Seq(LogChar)
  <2>1. uart.data = <<>> \/ \E b \in LogChar : uart.data = <<b>>
    BY <1>1 DEF Registers
  <2>2. \A b \in LogChar : <<b>> \in Seq(LogChar)
    OBVIOUS
  <2> QED
    BY <2>1, <2>2, EmptySeq, Zenon
<1>3. CASE s # "null" /\ inited
  <2>1. pending' = OnTheWire(text) /\ said' = said \o text
    BY <1>3 DEF log
  <2>2. OnTheWire(said \o text) = OnTheWire(said) \o OnTheWire(text) /\ OnTheWire(text) \in Seq(LogChar)
    BY <1>1, WireConcat
  <2>3. said \o text \in Seq(LogChar)
    BY <1>1, ConcatProperties
  <2>4. wire \o uart.data \in Seq(LogChar)
    BY <1>1, <1>2, ConcatProperties
  <2>5. wire \o uart.data = OnTheWire(said)
    BY <1>1, <2>4, ConcatEmptySeq
  <2>6. wire' \o uart'.data \o pending' = OnTheWire(said')
    BY <2>1, <2>2, <2>5
  <2>7. inited /\ Readable /\ Readable'
    BY <1>3 DEF WireInv, Readable
  <2> HIDE DEF WireInv
  <2>8. /\ wire' \in Seq(LogChar) /\ pending' \in Seq(LogChar) /\ said' \in Seq(LogChar) /\ uart' \in Registers
        /\ inited'
    BY <1>1, <2>1, <2>2, <2>3, <2>7
  <2> QED
    BY <2>6, <2>7, <2>8 DEF WireInv
<1>4. CASE ~ (s # "null" /\ inited)
  <2>1. UNCHANGED <<pending, said>>
    BY <1>4 DEF log, log_vars
  <2> QED
    BY <2>1 DEF WireInv, Readable
<1> QED
  BY <1>3, <1>4

-----------------------------------------------------------------------------
\* A step that logs nothing and leaves the port alone.
LEMMA WireFrame ==
  ASSUME WireInv, UNCHANGED <<pending, said, uart, wire, inited>>
  PROVE  WireInv'
BY DEF WireInv, Readable

\* The three empty lines of setup_logging.
LEMMA NewLines == <<"\n", "\n", "\n">> \in Seq(LogChar)
<1>1. "\n" \in LogChar
  BY DEF LogChar
<1> QED
  BY <1>1

\* A panic logs a text.
LEMMA PanicStep ==
  ASSUME WireInv, NEW name \in LogChar \ {"%"}, panic(<<name>>), pending = <<>>,
         UNCHANGED <<uart, wire, inited>>
  PROVE  WireInv'
<1> DEFINE text == log_msg(<<"\n", "KERNEL_PANIC", "\\">>, <<>>) \o log_msg(<<name>>, <<>>)
                     \o log_msg(<<"at", "%", "s", ":", "%", "d">>, <<<<"file">>, 1>>)
<1>1. text \in Seq(LogChar)
  BY PanicText
<1>2. log(sink, text)
  BY Zenon DEF panic
<1> HIDE DEF text
<1> QED
  BY <1>1, <1>2, LogStep

\* What report logs.
LEMMA ReportText ==
  ASSUME ServTypes
  PROVE  log_msg(<<"%", "x", "=", "%", "p">>, <<0, 0>>)
           \o log_msg(<<"Booted_by", "%", "s">>, <<<<ctx.bootloader_name>>>>)
           \o log_msg(<<"Bootoptions:", "%", "s">>, <<<<ctx.cmdline>>>>)
           \o log_msg(<<"%", "d", "KiB">>, <<ctx.upper_mem_kb>>)
           \o (IF ctx.memory_map # "null" THEN log_msg(<<"memory_map">>, <<>>) ELSE <<>>) \in Seq(LogChar)
<1> DEFINE name == <<ctx.bootloader_name>>
           line == <<ctx.cmdline>>
           a == log_msg(<<"%", "x", "=", "%", "p">>, <<0, 0>>)
           b == log_msg(<<"Booted_by", "%", "s">>, <<name>>)
           c == log_msg(<<"Bootoptions:", "%", "s">>, <<line>>)
           d == log_msg(<<"%", "d", "KiB">>, <<ctx.upper_mem_kb>>)
           m == log_msg(<<"memory_map">>, <<>>)
           e == IF ctx.memory_map # "null" THEN m ELSE <<>>
<1>1. ctx.bootloader_name \in LogChar /\ ctx.cmdline \in LogChar /\ ctx.upper_mem_kb \in Nat
  BY DEF ServTypes, LogChar
<1>2. name \in Seq(LogChar) /\ line \in Seq(LogChar)
  BY <1>1
<1> HIDE DEF name, line
<1>3. /\ "Booted_by" \in LogChar \ {"%"} /\ "Bootoptions:" \in LogChar \ {"%"} /\ "memory_map" \in LogChar \ {"%"}
      /\ "s" \in Conversions
  BY DEF LogChar, Conversions
<1>4. converted("s", name) \in Seq(LogChar) /\ converted("s", line) \in Seq(LogChar)
  BY <1>2, Converted
<1>5. a \in Seq(LogChar)
  BY TagDumpText
<1>6. b \in Seq(LogChar)
  BY <1>3, <1>4, WordThenConversion
<1>7. c \in Seq(LogChar)
  BY <1>3, <1>4, WordThenConversion
<1>8. d \in Seq(LogChar)
  BY <1>1, ConversionThenWord
<1>9. m \in Seq(LogChar)
  <2> DEFINE fmt == <<"memory_map">>
  <2>1. fmt \in Seq(LogChar) /\ \A i \in 1 .. Len(fmt) : fmt[i] # "%"
    BY <1>3
  <2> HIDE DEF fmt
  <2>2. vmsg_impl(TRUE, fmt, <<>>) \in Seq(LogChar)
    BY <2>1, PlainText
  <2> QED
    BY <2>2 DEF log_msg, fmt
<1> HIDE DEF a, b, c, d, m
<1>10. e \in Seq(LogChar)
  BY <1>9, EmptySeq
<1> HIDE DEF e
<1>11. a \o b \in Seq(LogChar)
  BY <1>5, <1>6, ConcatProperties
<1>12. a \o b \o c \in Seq(LogChar)
  BY <1>7, <1>11, ConcatProperties
<1>13. a \o b \o c \o d \in Seq(LogChar)
  BY <1>8, <1>12, ConcatProperties
<1>14. a \o b \o c \o d \o e \in Seq(LogChar)
  BY <1>10, <1>13, ConcatProperties
<1> QED
  BY <1>14 DEF a, b, c, d, e, m, name, line

\* A boot step logs or leaves the wire as it is.
LEMMA WireBoot ==
  ASSUME WireInv, ConsoleInv, ServTypes, Boot
  PROVE  WireInv'
<1>1. CASE end_of_tags
  BY <1>1, WireFrame DEF end_of_tags, log_vars, uart_vars, serv_vars
<1>2. CASE register_devices
  BY <1>2, WireFrame DEF register_devices, log_vars, uart_vars, serv_vars
<1>3. CASE bind
  BY <1>3, WireFrame DEF bind, log_vars, uart_vars, serv_vars
<1>4. CASE find_console
  BY <1>4, WireFrame DEF find_console, log_vars, uart_vars, serv_vars
<1>5. CASE init_port
  <2>1. CASE serv.serial = 0
    BY <1>5, <2>1, WireFrame DEF init_port, log_vars
  <2>2. CASE serv.serial # 0
    <3>1. /\ pc = "port" /\ uart' = programmed(uart) /\ inited' = TRUE /\ UNCHANGED <<pending, said, wire>>
      BY <1>5, <2>2 DEF init_port, At, log_vars
    <3>2. ~ inited /\ uart \in Registers /\ uart.data = <<>> /\ uart.line_ctrl = 3
      BY <3>1 DEF ConsoleInv, WireInv
    <3>3. PICK p : p = programmed(uart)
      OBVIOUS
    <3>4. p \in Registers /\ p.data = <<>> /\ p.divisor_low = 3 /\ p.divisor_high = 0 /\ p.line_ctrl = 3
      BY <3>2, <3>3, Programmed
    <3>5. uart' = p
      BY <3>1, <3>3
    <3> QED
      BY <3>1, <3>2, <3>4, <3>5 DEF WireInv, Readable
  <2> QED
    BY <2>1, <2>2
<1>6. CASE setup_sink
  BY <1>6, NewLines, LogStep DEF setup_sink, At, uart_vars
<1>7. CASE setup_boot_fb
  BY <1>7, WireFrame DEF setup_boot_fb, log_vars, uart_vars
<1>8. CASE make_context
  BY <1>8, WireFrame DEF make_context, log_vars, uart_vars
<1>9. CASE setup_paging
  <2>1. pending = <<>> /\ UNCHANGED <<uart, wire, inited>>
    BY <1>9 DEF setup_paging, uart_vars
  <2>2. CASE UNCHANGED log_vars
    BY <2>1, <2>2, WireFrame DEF log_vars
  <2>3. CASE panic(<<"Initializing_kernel_space_failed">>)
    BY <2>1, <2>3, PanicStep DEF LogChar
  <2> QED
    BY <1>9, <2>2, <2>3 DEF setup_paging
<1>10. CASE map_framebuffer
  <2>1. pending = <<>> /\ UNCHANGED <<uart, wire, inited>>
    BY <1>10 DEF map_framebuffer, uart_vars, serv_vars
  <2>2. CASE UNCHANGED log_vars
    BY <2>1, <2>2, WireFrame DEF log_vars
  <2>3. CASE panic(<<"Failed_to_map_framebuffer">>)
    BY <2>1, <2>3, PanicStep DEF LogChar
  <2> QED
    BY <1>10, <2>2, <2>3 DEF map_framebuffer
<1>11. CASE kernel_fuse_set
  <2>1. pending = <<>> /\ UNCHANGED <<uart, wire, inited>>
    BY <1>11 DEF kernel_fuse_set, uart_vars
  <2>2. CASE UNCHANGED log_vars
    BY <2>1, <2>2, WireFrame DEF log_vars
  <2>3. CASE panic(<<"Tried_to_enter_kernel_more_than_once">>)
    BY <2>1, <2>3, PanicStep DEF LogChar
  <2> QED
    BY <1>11, <2>2, <2>3 DEF kernel_fuse_set
<1>12. CASE setup_logging
  <2>1. pending = <<>> /\ UNCHANGED <<uart, wire, inited>>
    BY <1>12 DEF setup_logging, At, uart_vars
  <2>2. CASE UNCHANGED log_vars
    BY <2>1, <2>2, WireFrame DEF log_vars
  <2>3. CASE log(sink, <<"\n", "\n", "\n">>)
    BY <2>1, <2>3, LogStep, NewLines
  <2> QED
    BY <1>12, <2>2, <2>3 DEF setup_logging
<1>13. CASE report
  <2>1. pending = <<>> /\ UNCHANGED <<uart, wire, inited>>
    BY <1>13 DEF report, At, uart_vars, serv_vars
  <2> QED
    BY <1>13, <2>1, ReportText, LogStep DEF report
<1>14. CASE start_shell
  <2>1. pending = <<>> /\ UNCHANGED <<uart, wire, inited>>
    BY <1>14 DEF start_shell, uart_vars, serv_vars
  <2>2. CASE panic(<<"No_framebuffer_provided_by_bootloader">>)
    BY <2>1, <2>2, PanicStep DEF LogChar
  <2>3. CASE panic(<<"No_keyboard_provided_by_bootloader">>)
    BY <2>1, <2>3, PanicStep DEF LogChar
  <2> DEFINE fb == serv.framebuffer
             object == framebuffer_text(fb)
             text == log_msg(<<"Got_framebuffer", "%", "o">>, <<object>>)
  <2>4. CASE fb # NoFramebuffer /\ log(sink, text)
    <3>1. fb \in FramebufferTag
      BY <2>4, FbTagsAssumption DEF ServTypes
    <3>2. object \in Seq(LogChar)
      BY <3>1, FramebufferText
    <3> HIDE DEF object
    <3>3. "Got_framebuffer" \in LogChar \ {"%"} /\ "o" \in Conversions
      BY DEF LogChar, Conversions
    <3>4. text \in Seq(LogChar)
      BY <3>2, <3>3, Converted, WordThenConversion
    <3> HIDE DEF text
    <3> QED
      BY <2>1, <2>4, <3>4, LogStep
  <2> QED
    BY <1>14, <2>2, <2>3, <2>4, Zenon DEF start_shell
<1> QED
  BY <1>1, <1>2, <1>3, <1>4, <1>5, <1>6, <1>7, <1>8, <1>9, <1>10, <1>11, <1>12, <1>13, <1>14 DEF Boot

\* The CPU writes and the UART sends the bytes in their order.
LEMMA WireStep ==
  ASSUME WireInv, ConsoleInv, ServTypes, [Next]_vars
  PROVE  WireInv'
<1>1. ASSUME NEW t \in Key, read_tag(t)  PROVE WireInv'
  BY <1>1, WireFrame DEF read_tag, log_vars, uart_vars, serv_vars
<1> DEFINE rest == Tail(pending)
<1>2. /\ wire \in Seq(LogChar) /\ pending \in Seq(LogChar) /\ said \in Seq(LogChar) /\ uart \in Registers
      /\ wire \o uart.data \o pending = OnTheWire(said)
      /\ inited => Readable
      /\ ~ inited => pending = <<>> /\ uart.data = <<>>
  BY DEF WireInv
<1>3. CASE Write
  <2>1. /\ pending # <<>> /\ uart.data = <<>> /\ uart' = out(uart, "data", Head(pending))
        /\ pending' = Tail(pending) /\ UNCHANGED <<said, wire, inited>>
    BY <1>3 DEF Write, write_raw, serv_vars
  <2>2. inited /\ Readable
    BY <1>2, <2>1
  <2>3. PICK b \in LogChar, r \in Seq(LogChar) : b = Head(pending) /\ r = Tail(pending) /\ pending = <<b>> \o r
    <3>1. /\ Head(pending) \in LogChar /\ Tail(pending) \in Seq(LogChar)
          /\ pending = <<Head(pending)>> \o Tail(pending)
      BY <1>2, <2>1, HeadTailProperties
    <3> QED
      BY <3>1, Zenon
  <2>4. uart' \in Registers /\ uart' = [uart EXCEPT !.data = <<b>>]
    <3>1. uart.line_ctrl < 128 /\ uart \in Registers /\ uart' = out(uart, "data", b)
      BY <1>2, <2>1, <2>2, <2>3 DEF Readable
    <3>2. PICK u \in Registers : u = uart
      BY <3>1
    <3>3. out(u, "data", b) \in Registers /\ out(u, "data", b) = [u EXCEPT !.data = <<b>>]
      BY <3>1, <3>2, OutIs
    <3> QED
      BY <3>1, <3>2, <3>3
  <2>5. uart'.data = <<b>> /\ Readable'
    BY <1>2, <2>2, <2>4 DEF Registers, Readable
  <2>6. wire \o <<b>> \o r = wire \o (<<b>> \o r)
    BY <1>2, ConcatAssociative
  <2>7. wire \o <<>> \o pending = wire \o pending
    BY <1>2, ConcatEmptySeq
  <2>8. wire' \o uart'.data \o pending' = OnTheWire(said')
    BY <1>2, <2>1, <2>3, <2>5, <2>6, <2>7
  <2>9. pending' \in Seq(LogChar) /\ inited'
    BY <2>1, <2>2, <2>3
  <2> QED
    BY <1>2, <2>1, <2>4, <2>5, <2>8, <2>9 DEF WireInv
<1>4. CASE Send
  <2>1. /\ uart.data # <<>> /\ uart' = [uart EXCEPT !.data = <<>>] /\ UNCHANGED <<pending, said, inited>>
        /\ wire' = wire \o (IF Readable THEN uart.data ELSE <<"garbled">>)
    BY <1>4 DEF Send, serv_vars, log_vars
  <2>2. inited /\ Readable /\ wire' = wire \o uart.data
    BY <1>2, <2>1
  <2>3. uart' \in Registers /\ uart'.data = <<>> /\ Readable'
    BY <1>2, <2>1, <2>2 DEF Registers, Readable
  <2>4. uart.data \in Seq(LogChar)
    <3>1. uart.data = <<>> \/ \E b \in LogChar : uart.data = <<b>>
      BY <1>2 DEF Registers
    <3>2. \A b \in LogChar : <<b>> \in Seq(LogChar)
      OBVIOUS
    <3> QED
      BY <3>1, <3>2, EmptySeq, Zenon
  <2>5. wire' \in Seq(LogChar) /\ wire' \o <<>> = wire'
    BY <1>2, <2>2, <2>4, ConcatProperties, ConcatEmptySeq
  <2>6. wire' \o uart'.data \o pending' = OnTheWire(said')
    BY <1>2, <2>1, <2>2, <2>3, <2>5
  <2> QED
    BY <1>2, <2>1, <2>2, <2>3, <2>5, <2>6 DEF WireInv
<1>5. CASE UNCHANGED vars
  BY <1>5, WireFrame DEF vars, log_vars, uart_vars, serv_vars
<1> QED
  BY <1>1, <1>3, <1>4, <1>5, WireBoot DEF Next


-----------------------------------------------------------------------------
\* What find answers depends on the map alone.
LEMMA FindFrame ==
  ASSUME UNCHANGED map_vars, NEW t
  PROVE  find(t)' = find(t)
BY Zenon DEF map_vars, find, probe_entry_linear, empty

\* The services and the context keep their types.
LEMMA ServStep ==
  ASSUME ServTypes, CoreInv, [Next]_vars
  PROVE  ServTypes'
<1> DEFINE Fbs == FbTags \cup {NoFramebuffer}
<1>1. /\ serv \in [framebuffer : Fbs, serial : Nat, keyboard : {"null", "PS2Keyboard"}, paging : {"null", "paging"}]
      /\ inited \in BOOLEAN /\ fuse \in BOOLEAN /\ sink \in {"null", "boot", "kernel"}
      /\ ctx \in [arch : {"X86"}, bootloader : {"Multiboot2"},
                  bootloader_name : {"null", "Unknown", "tag"}, cmdline : {"null", "<none>", "tag"},
                  upper_mem_kb : Nat, memory_map : {"null", "regions"}, ram_start_addr : {"null", "bump"}]
  BY DEF ServTypes
<1> HIDE DEF Fbs
<1>2. ASSUME UNCHANGED serv_vars  PROVE ServTypes'
  BY <1>1, <1>2 DEF ServTypes, serv_vars, Fbs
<1>3. ASSUME NEW t \in Key, read_tag(t)  PROVE ServTypes'
  BY <1>2, <1>3 DEF read_tag
<1>4. CASE Write
  BY <1>2, <1>4 DEF Write
<1>5. CASE Send
  BY <1>2, <1>5 DEF Send
<1>6. CASE UNCHANGED vars
  BY <1>2, <1>6 DEF vars
<1>7. CASE end_of_tags
  BY <1>2, <1>7 DEF end_of_tags
<1>8. CASE register_devices
  BY <1>2, <1>8 DEF register_devices
<1>9. CASE bind
  BY <1>2, <1>9 DEF bind
<1>10. CASE find_console
  <2>1. PICK n \in Nat : n = find_if("Port", SerialDescs)
    <3>1. Len(bindings) \in Nat
      BY DEF CoreInv
    <3> QED
      BY <3>1, FindIfIs
  <2>2. serv' = [serv EXCEPT !.keyboard = "PS2Keyboard", !.serial = n] /\ UNCHANGED <<ctx, inited, fuse, sink>>
    BY <1>10, <2>1 DEF find_console
  <2> QED
    BY <1>1, <2>2 DEF ServTypes, Fbs
<1>11. CASE init_port
  <2>1. UNCHANGED <<ctx, serv, sink, fuse>> /\ inited' \in BOOLEAN
    BY <1>1, <1>11 DEF init_port
  <2> QED
    BY <1>1, <2>1 DEF ServTypes, Fbs
<1>12. CASE setup_sink
  BY <1>1, <1>12 DEF setup_sink, ServTypes, Fbs
<1>13. CASE setup_boot_fb
  <2>1. PICK fb \in FbTags :
          serv' = IF load_tag(Framebuffer) /\ valid(fb) THEN [serv EXCEPT !.framebuffer = fb] ELSE serv
    BY <1>13 DEF setup_boot_fb
  <2>2. UNCHANGED <<ctx, inited, fuse, sink>>
    BY <1>13 DEF setup_boot_fb
  <2>3. fb \in Fbs
    BY DEF Fbs
  <2> QED
    BY <1>1, <2>1, <2>2, <2>3 DEF ServTypes, Fbs
<1>14. CASE make_context
  <2>1. /\ make_basic_mem \in Nat /\ make_mem_map \in {"null", "regions"}
        /\ (IF get_cmdline # "null" THEN get_cmdline ELSE "<none>") \in {"null", "<none>", "tag"}
        /\ (IF get_bootloader_name # "null" THEN get_bootloader_name ELSE "Unknown") \in {"null", "Unknown", "tag"}
    BY <1>1 DEF make_basic_mem, make_mem_map, get_cmdline, get_bootloader_name
  <2>2. PICK a \in Nat, b \in {"null", "regions"}, c \in {"null", "<none>", "tag"}, d \in {"null", "Unknown", "tag"} :
          ctx' = [ctx EXCEPT !.upper_mem_kb = a, !.memory_map = b, !.cmdline = c, !.bootloader_name = d]
    BY <1>14, <2>1, Zenon DEF make_context
  <2>3. UNCHANGED <<serv, inited, fuse, sink>>
    BY <1>14 DEF make_context
  <2> DEFINE Contexts == [arch : {"X86"}, bootloader : {"Multiboot2"},
                          bootloader_name : {"null", "Unknown", "tag"}, cmdline : {"null", "<none>", "tag"},
                          upper_mem_kb : Nat, memory_map : {"null", "regions"}, ram_start_addr : {"null", "bump"}]
  <2>4. ctx' \in Contexts
    BY <1>1, <2>2
  <2> QED
    BY <1>1, <2>3, <2>4, Zenon DEF ServTypes, Fbs
<1>15. CASE setup_paging
  <2>1. UNCHANGED <<inited, fuse, sink>>
    BY <1>15 DEF setup_paging
  <2>2. CASE UNCHANGED <<ctx, serv>>
    BY <1>2, <2>1, <2>2 DEF serv_vars
  <2>3. CASE ctx' = [ctx EXCEPT !.ram_start_addr = "bump"] /\ serv' = [serv EXCEPT !.paging = "paging"]
    BY <1>1, <2>1, <2>3 DEF ServTypes, Fbs
  <2> QED
    BY <1>15, <2>2, <2>3 DEF setup_paging
<1>16. CASE map_framebuffer
  BY <1>2, <1>16 DEF map_framebuffer
<1>17. CASE kernel_fuse_set
  BY <1>1, <1>17 DEF kernel_fuse_set, ServTypes, Fbs
<1>18. CASE setup_logging
  BY <1>1, <1>18 DEF setup_logging, ServTypes, Fbs
<1>19. CASE report
  BY <1>2, <1>19 DEF report
<1>20. CASE start_shell
  BY <1>2, <1>20 DEF start_shell
<1> QED
  BY <1>3, <1>4, <1>5, <1>6, <1>7, <1>8, <1>9, <1>10, <1>11, <1>12, <1>13, <1>14, <1>15, <1>16, <1>17,
     <1>18, <1>19, <1>20 DEF Next, Boot

\* The log's port is com1 from find_console on.
LEMMA ConsoleStep ==
  ASSUME ConsoleInv, ServTypes, CoreInv, [Next]_vars
  PROVE  ConsoleInv'
<1>1. ASSUME UNCHANGED <<serv, inited, bindings>>, pc' = pc \/ pc' \notin Unbound \cup {"port"} \/ pc \in Unbound
      PROVE  ConsoleInv'
  BY <1>1 DEF ConsoleInv, Unbound
<1>2. ASSUME NEW t \in Key, read_tag(t)  PROVE ConsoleInv'
  BY <1>1, <1>2 DEF read_tag, serv_vars, core_vars
<1>3. CASE Write
  BY <1>1, <1>3 DEF Write, serv_vars, core_vars
<1>4. CASE Send
  BY <1>1, <1>4 DEF Send, serv_vars, core_vars
<1>5. CASE UNCHANGED vars
  BY <1>1, <1>5 DEF vars, serv_vars, core_vars
<1>6. CASE end_of_tags
  BY <1>6 DEF ConsoleInv, Unbound, end_of_tags, At, serv_vars, core_vars
<1>7. CASE register_devices
  BY <1>7 DEF ConsoleInv, Unbound, register_devices, At, serv_vars
<1>8. CASE bind
  <2>1. pc = "bind" /\ pc' = "console" /\ UNCHANGED <<serv, inited>>
    BY <1>8 DEF bind, At, serv_vars
  <2>2. Len(bindings') \in Nat
    <3>1. CoreInv'
      BY <1>8, CoreStep
    <3> QED
      BY <3>1 DEF CoreInv
  <2> QED
    BY <2>1, <2>2 DEF ConsoleInv, Unbound
<1>9. CASE find_console
  <2>1. PICK n \in 0 .. Len(bindings) : n = find_if("Port", SerialDescs)
    BY FindIfIs
  <2>2. serv' = [serv EXCEPT !.keyboard = "PS2Keyboard", !.serial = n] /\ pc = "console" /\ pc' = "port"
        /\ UNCHANGED <<inited, bindings>>
    BY <1>9, <2>1 DEF find_console, At, core_vars
  <2>3. serv'.serial = n
    BY <2>2 DEF ServTypes
  <2>4. n # 0 => bindings[n].desc.name = "com1"
    <3>1. n # 0 => bindings[n].desc \in SerialDescs
      BY <2>1, FindIfIs
    <3> QED
      BY <3>1 DEF SerialDescs
  <2> QED
    BY <2>2, <2>3, <2>4 DEF ConsoleInv, Unbound
<1>10. CASE init_port
  BY <1>10 DEF ConsoleInv, Unbound, init_port, At, core_vars
<1>11. CASE setup_sink
  BY <1>1, <1>11 DEF setup_sink, Unbound, At, core_vars
<1>12. CASE setup_boot_fb
  <2>1. PICK fb \in FbTags :
          serv' = IF load_tag(Framebuffer) /\ valid(fb) THEN [serv EXCEPT !.framebuffer = fb] ELSE serv
    BY <1>12 DEF setup_boot_fb
  <2>2. serv'.serial = serv.serial
    BY <2>1 DEF ServTypes
  <2>3. pc = "framebuffer" /\ pc' = "context" /\ UNCHANGED <<inited, bindings>>
    BY <1>12 DEF setup_boot_fb, At, core_vars
  <2> QED
    BY <2>2, <2>3 DEF ConsoleInv, Unbound
<1>13. CASE make_context
  BY <1>1, <1>13 DEF make_context, Unbound, At, core_vars
<1>14. CASE setup_paging
  <2>1. serv'.serial = serv.serial
    BY <1>14 DEF ServTypes, setup_paging
  <2>2. pc' \in {"map", "halted"} /\ UNCHANGED <<inited, bindings>>
    BY <1>14 DEF setup_paging, panic, core_vars
  <2> QED
    BY <2>1, <2>2 DEF ConsoleInv, Unbound
<1>15. CASE map_framebuffer
  BY <1>1, <1>15 DEF map_framebuffer, panic, Unbound, serv_vars, core_vars
<1>16. CASE kernel_fuse_set
  BY <1>1, <1>16 DEF kernel_fuse_set, panic, Unbound, core_vars
<1>17. CASE setup_logging
  BY <1>1, <1>17 DEF setup_logging, At, Unbound, core_vars
<1>18. CASE report
  BY <1>1, <1>18 DEF report, At, Unbound, serv_vars, core_vars
<1>19. CASE start_shell
  BY <1>1, <1>19 DEF start_shell, panic, Unbound, serv_vars, core_vars
<1> QED
  BY <1>2, <1>3, <1>4, <1>5, <1>6, <1>7, <1>8, <1>9, <1>10, <1>11, <1>12, <1>13, <1>14, <1>15, <1>16, <1>17,
     <1>18, <1>19 DEF Next, Boot


\* What the shell uses is there from the step that looks for it on.
LEMMA ShellStep ==
  ASSUME ShellInv, ConsoleInv, ServTypes, [Next]_vars
  PROVE  ShellInv'
<1> DEFINE stage == {"map", "fuse", "kernel_sink", "report", "screen", "shell"}
           found == find(Framebuffer) \in Slot
           mapped == find(Mmap) \in Slot
<1>1. UNCHANGED map_vars => found' = found /\ mapped' = mapped
  <2>1. Slot' = Slot
    BY DEF Slot
  <2>2. ASSUME UNCHANGED map_vars  PROVE find(Framebuffer)' = find(Framebuffer) /\ find(Mmap)' = find(Mmap)
    BY <2>2, FindFrame
  <2> QED
    BY <2>1, <2>2, Zenon
<1>2. ShellInv <=>
        /\ ctx.memory_map = "regions" => mapped
        /\ serv.framebuffer # NoFramebuffer => found /\ valid(serv.framebuffer)
        /\ ctx.memory_map \in {"null", "regions"}
        /\ pc \in {"tags"} => ctx.memory_map = "null" /\ serv.framebuffer = NoFramebuffer
        /\ pc \in stage => ctx.memory_map = "regions"
        /\ pc \in {"kernel_sink", "report", "screen", "shell"} => fuse
        /\ pc \in Unbound \cup {"port", "sink"} => sink = "null"
        /\ pc \in stage \cup {"sink", "framebuffer", "context", "memory"} => serv.serial # 0
        /\ pc \in {"report", "screen", "shell"} => sink = "kernel"
        /\ pc \in {"fuse", "kernel_sink", "report", "screen", "shell"} => serv.framebuffer # NoFramebuffer
        /\ pc \in Unbound \cup {"port", "sink", "framebuffer", "context", "memory", "map"} => fuse = FALSE
  BY DEF ShellInv
<1>3. ShellInv' <=>
        /\ ctx'.memory_map = "regions" => mapped'
        /\ serv'.framebuffer # NoFramebuffer => found' /\ valid(serv.framebuffer)'
        /\ ctx'.memory_map \in {"null", "regions"}
        /\ pc' \in {"tags"} => ctx'.memory_map = "null" /\ serv'.framebuffer = NoFramebuffer
        /\ pc' \in stage => ctx'.memory_map = "regions"
        /\ pc' \in {"kernel_sink", "report", "screen", "shell"} => fuse'
        /\ pc' \in Unbound \cup {"port", "sink"} => sink' = "null"
        /\ pc' \in stage \cup {"sink", "framebuffer", "context", "memory"} => serv'.serial # 0
        /\ pc' \in {"report", "screen", "shell"} => sink' = "kernel"
        /\ pc' \in {"fuse", "kernel_sink", "report", "screen", "shell"} => serv'.framebuffer # NoFramebuffer
        /\ pc' \in Unbound \cup {"port", "sink", "framebuffer", "context", "memory", "map"} => fuse' = FALSE
  BY DEF ShellInv, Unbound
<1>4. serv'.framebuffer = serv.framebuffer => valid(serv.framebuffer)' = valid(serv.framebuffer)
  BY DEF valid
<1> HIDE DEF found, mapped
<1>5. ASSUME UNCHANGED <<map_vars, ctx, serv, sink, fuse>>, pc' \in {pc, "halted", "wild"}  PROVE ShellInv'
  BY <1>1, <1>2, <1>3, <1>4, <1>5 DEF Unbound
<1>6. ASSUME NEW t \in Key, read_tag(t)  PROVE ShellInv'
  BY <1>2, <1>3, <1>6 DEF read_tag, serv_vars, Unbound
<1>7. CASE Write
  BY <1>5, <1>7 DEF Write, tag_vars, serv_vars
<1>8. CASE Send
  BY <1>5, <1>8 DEF Send, tag_vars, serv_vars
<1>9. CASE UNCHANGED vars
  BY <1>5, <1>9 DEF vars, tag_vars, serv_vars
<1>10. CASE end_of_tags
  BY <1>1, <1>2, <1>3, <1>4, <1>10 DEF end_of_tags, At, tag_vars, serv_vars, Unbound
<1>11. CASE register_devices
  BY <1>1, <1>2, <1>3, <1>4, <1>11 DEF register_devices, At, tag_vars, serv_vars, Unbound
<1>12. CASE bind
  BY <1>1, <1>2, <1>3, <1>4, <1>12 DEF bind, At, tag_vars, serv_vars, Unbound
<1>13. CASE find_console
  <2>1. serv'.framebuffer = serv.framebuffer
    BY <1>13 DEF find_console, ServTypes
  <2> QED
    BY <1>1, <1>2, <1>3, <1>4, <1>13, <2>1 DEF find_console, At, tag_vars, Unbound
<1>14. CASE init_port
  BY <1>1, <1>2, <1>3, <1>4, <1>14 DEF init_port, At, tag_vars, Unbound
<1>15. CASE setup_sink
  BY <1>1, <1>2, <1>3, <1>4, <1>15 DEF setup_sink, At, tag_vars, Unbound
<1>16. CASE setup_boot_fb
  <2>1. PICK fb \in FbTags :
          serv' = IF load_tag(Framebuffer) /\ valid(fb) THEN [serv EXCEPT !.framebuffer = fb] ELSE serv
    BY <1>16 DEF setup_boot_fb
  <2>2. serv'.serial = serv.serial
    BY <2>1 DEF ServTypes
  <2>3. pc = "framebuffer" /\ pc' = "context" /\ UNCHANGED <<map_vars, ctx, sink, fuse>>
    BY <1>16 DEF setup_boot_fb, At, tag_vars
  <2>4. CASE load_tag(Framebuffer) /\ valid(fb)
    <3>1. serv'.framebuffer = fb
      BY <2>1, <2>4 DEF ServTypes
    <3>2. found /\ valid(serv.framebuffer)'
      BY <2>4, <3>1 DEF load_tag, found, valid
    <3> QED
      BY <1>1, <1>2, <1>3, <2>2, <2>3, <3>2 DEF Unbound
  <2>5. CASE serv' = serv
    BY <1>1, <1>2, <1>3, <1>4, <2>3, <2>5 DEF Unbound
  <2> QED
    BY <2>1, <2>4, <2>5
<1>17. CASE make_context
  <2>1. ctx'.memory_map = make_mem_map
    BY <1>17 DEF make_context, ServTypes
  <2>2. make_mem_map \in {"null", "regions"} /\ (make_mem_map = "regions" => mapped)
    BY DEF make_mem_map, load_tag, mapped
  <2>3. pc = "context" /\ pc' = "memory" /\ UNCHANGED <<map_vars, serv, sink, fuse>>
    BY <1>17 DEF make_context, At, tag_vars
  <2> QED
    BY <1>1, <1>2, <1>3, <1>4, <2>1, <2>2, <2>3 DEF Unbound
<1>18. CASE setup_paging
  <2>1. pc = "memory" /\ UNCHANGED <<map_vars, sink, fuse>>
    BY <1>18 DEF setup_paging, tag_vars
  <2>2. CASE UNCHANGED <<ctx, serv>> /\ pc' = "halted"
    BY <1>5, <2>1, <2>2
  <2>3. CASE /\ ctx.memory_map # "null" /\ pc' = "map"
             /\ ctx' = [ctx EXCEPT !.ram_start_addr = "bump"] /\ serv' = [serv EXCEPT !.paging = "paging"]
    <3>1. /\ serv'.framebuffer = serv.framebuffer /\ serv'.serial = serv.serial
          /\ ctx'.memory_map = ctx.memory_map
      BY <2>3 DEF ServTypes
    <3> QED
      BY <1>1, <1>2, <1>3, <1>4, <2>1, <2>3, <3>1 DEF Unbound
  <2> QED
    BY <1>18, <2>2, <2>3 DEF setup_paging, panic
<1>19. CASE map_framebuffer
  BY <1>1, <1>2, <1>3, <1>4, <1>19 DEF map_framebuffer, panic, tag_vars, serv_vars, Unbound
<1>20. CASE kernel_fuse_set
  BY <1>1, <1>2, <1>3, <1>4, <1>20 DEF kernel_fuse_set, panic, tag_vars, Unbound
<1>21. CASE setup_logging
  BY <1>1, <1>2, <1>3, <1>4, <1>21 DEF setup_logging, At, tag_vars, Unbound
<1>22. CASE report
  BY <1>1, <1>2, <1>3, <1>4, <1>22 DEF report, At, tag_vars, serv_vars, Unbound
<1>23. CASE start_shell
  BY <1>1, <1>2, <1>3, <1>4, <1>23 DEF start_shell, panic, tag_vars, serv_vars, Unbound
<1> QED
  BY <1>6, <1>7, <1>8, <1>9, <1>10, <1>11, <1>12, <1>13, <1>14, <1>15, <1>16, <1>17,
     <1>18, <1>19, <1>20, <1>21, <1>22, <1>23 DEF Next, Boot


-----------------------------------------------------------------------------
\* The kernel starts in the invariant, and every step keeps it.
LEMMA BringUpInit == Init => BringUpInv
<1> SUFFICES ASSUME Init  PROVE BringUpInv
  OBVIOUS
<1>1. TagInv /\ CoreInv
  BY TagInit, CoreStart
<1>2. /\ pc = "tags" /\ ctx = [NoContext EXCEPT !.arch = "X86", !.bootloader = "Multiboot2"]
      /\ serv = NoServices /\ inited = FALSE /\ sink = "null" /\ fuse = FALSE
      /\ pending = <<>> /\ wire = <<>> /\ said = <<>>
      /\ uart = [data |-> <<>>, int_en |-> 1, line_ctrl |-> 3, fifo_ctrl |-> 0, modem_ctrl |-> 0,
                 divisor_low |-> 12, divisor_high |-> 0]
      /\ bindings = <<>>
  BY DEF Init, CoreInit
<1>3. ConsoleInv
  BY <1>2 DEF ConsoleInv, NoServices
<1>4. WireInv
  <2>1. OnTheWire(<<>>) = <<>>
    <3>1. <<>> \in Seq(LogChar)
      BY EmptySeq
    <3>2. PICK f : Sends(f, <<>>)
      BY <3>1, OnTheWireIs
    <3> QED
      BY <3>2, EmptySeq DEF Sends
  <2>2. uart \in Registers /\ uart.data = <<>> /\ uart.line_ctrl = 3
    BY <1>2 DEF Registers
  <2>3. wire \o uart.data \o pending = <<>> /\ <<>> \in Seq(LogChar)
    BY <1>2, <2>2, EmptySeq
  <2> QED
    BY <1>2, <2>1, <2>2, <2>3 DEF WireInv
<1>5. ShellInv
  BY <1>2 DEF ShellInv, NoServices, NoContext, Unbound
<1>6. ServTypes
  BY <1>2 DEF ServTypes, NoServices, NoContext
<1> QED
  BY <1>1, <1>3, <1>4, <1>5, <1>6 DEF BringUpInv

\* Each part by the lemma of its own.
LEMMA BringUpStep == BringUpInv /\ [Next]_vars => BringUpInv'
<1> SUFFICES ASSUME BringUpInv, [Next]_vars  PROVE BringUpInv'
  OBVIOUS
<1>1. TagInv /\ CoreInv /\ ConsoleInv /\ WireInv /\ ShellInv /\ ServTypes
  BY DEF BringUpInv
<1>2. WireInv' /\ ConsoleInv' /\ ServTypes' /\ ShellInv'
  BY <1>1, WireStep, ConsoleStep, ServStep, ShellStep
<1>3. TagInv'
  <2>1. CASE \E t \in Key : read_tag(t)
    BY <1>1, <2>1, TagStep
  <2>2. CASE ~ \E t \in Key : read_tag(t)
    <3>1. UNCHANGED tag_vars
      BY <2>2 DEF Next, Boot, end_of_tags, register_devices, bind, find_console, init_port, setup_sink,
                  setup_boot_fb, make_context, setup_paging, map_framebuffer, kernel_fuse_set,
                  setup_logging, report, start_shell, Write, Send, vars
    <3> QED
      BY <1>1, <3>1, TagFrame
  <2> QED
    BY <2>1, <2>2
<1>4. CoreInv'
  <2>1. register_devices \/ bind \/ UNCHANGED core_vars
    BY DEF Next, Boot, read_tag, end_of_tags, find_console, init_port, setup_sink,
           setup_boot_fb, make_context, setup_paging, map_framebuffer, kernel_fuse_set,
           setup_logging, report, start_shell, Write, Send, vars
  <2> QED
    BY <1>1, <2>1, CoreStep
<1> QED
  BY <1>2, <1>3, <1>4 DEF BringUpInv

\* From kmain to the shell the tag map is a hash table of the tags that were
\* read, every binding has an instance of its own, the log is a text that is
\* wholly on the wire, in the holding register or still to be written, and what
\* the shell uses is there before the step that uses it.
THEOREM BringUpInvariant == Spec => []BringUpInv
<1>1. Init => BringUpInv
  BY BringUpInit
<1>2. BringUpInv /\ [Next]_vars => BringUpInv'
  BY BringUpStep
<1> QED
  BY <1>1, <1>2, PTL DEF Spec

\* Whatever tags a boot loader passes, and however often one type is repeated,
\* find answers the last tag of the type asked for or none, never another type's
\* and never the member of a null entry; a type is lost only from a list longer than the map.
THEOREM TagsFoundAreLatest == Spec => []FoundIsLatest
<1>1. BringUpInv => FoundIsLatest
  <2> SUFFICES ASSUME BringUpInv  PROVE FoundIsLatest
    OBVIOUS
  <2>1. TagInv /\ CoreInv /\ ConsoleInv /\ ServTypes
    BY DEF BringUpInv
  <2>2. TypeOK
    <3>1. Range(descs) \subseteq DescEntry /\ Range(bindings) \subseteq Binding
      BY <2>1 DEF CoreInv, Range
    <3>2. /\ data \in [Slot -> [key : Key \cup {NullKey}, value : Val \cup {NullVal}, taken : BOOLEAN]]
          /\ item_count \in 0 .. Capacity
          /\ profile \in Profiles /\ tags_seen \in [Key -> 0 .. MaxModules]
      BY <2>1 DEF TagInv, MapTypes
    <3>3. /\ serv.framebuffer \in FbTags \cup {NoFramebuffer} /\ serv.serial \in 0 .. Len(bindings)
          /\ inited \in BOOLEAN /\ fuse \in BOOLEAN /\ sink \in {"null", "boot", "kernel"}
      BY <2>1 DEF ConsoleInv, ServTypes
    <3> QED
      BY <3>1, <3>2, <3>3 DEF TypeOK
  <2> QED
    BY <2>1, <2>2, TagsAreFound DEF FoundIsLatest
<1> QED
  BY <1>1, BringUpInvariant, PTL

\* For any drivers and any board, no two bindings share an instance, and a
\* port that is initialised is com1's.
THEOREM ConsolePort == Spec => []ConsoleIsCom1
<1>1. BringUpInv => ConsoleIsCom1
  <2> SUFFICES ASSUME BringUpInv  PROVE ConsoleIsCom1
    OBVIOUS
  <2>1. /\ bindings \in Seq(Binding) /\ Apart(bindings, used)
        /\ inited => serv.serial # 0 /\ bindings[serv.serial].desc.name = "com1"
    BY DEF BringUpInv, CoreInv, ConsoleInv
  <2>2. DOMAIN bindings = 1 .. Len(bindings)
    BY <2>1
  <2> QED
    BY <2>1, <2>2 DEF ConsoleIsCom1, Apart
<1> QED
  BY <1>1, BringUpInvariant, PTL

\* For any order of the CPU's and the UART's steps the wire carries the messages
\* logged since set_sink, none lost, doubled or out of order, and Serial16550's init
\* sends nothing of its own.
THEOREM WireCarriesTheLog == Spec => []WireIsTheLog
<1>1. BringUpInv => WireIsTheLog
  <2> SUFFICES ASSUME BringUpInv  PROVE WireIsTheLog
    OBVIOUS
  <2>1. said \in Seq(LogChar) /\ wire \o uart.data \o pending = OnTheWire(said)
    BY DEF BringUpInv, WireInv
  <2> QED
    BY <2>1, WireIsRead DEF WireIsTheLog, Fed
<1> QED
  BY <1>1, BringUpInvariant, PTL

\* The shell starts with a framebuffer that was found and is valid, a memory map,
\* the fuse set and the kernel's sink.
THEOREM ShellHasItsServices == Spec => []ShellHasWhatItUses
<1>1. BringUpInv => ShellHasWhatItUses
  BY DEF BringUpInv, ShellInv, ShellHasWhatItUses
<1> QED
  BY <1>1, BringUpInvariant, PTL

-----------------------------------------------------------------------------
(* The keyboard.                                                           *)

\* What the controller's data port returns.
Byte == 0 .. 255

\* A byte that announces an extended code.
IsPrefix(b) == b \in {E0, E1}

\* One code of the device: a byte, or a prefix and a byte.
IsGroup(g) ==
  /\ g \in Seq(Byte) /\ Len(g) \in 1 .. 2
  /\ ~ IsPrefix(g[Len(g)])
  /\ Len(g) = 2 => IsPrefix(g[1])

\* An event that the bytes sent so far promise.
Due == [key : Nat, release : BOOLEAN, sure : BOOLEAN]

\* The user, the device and the controller's queue.
DeviceTypes ==
  /\ held \subseteq Keys
  /\ sending \in Seq(Seq(Byte)) /\ \A i \in 1 .. Len(sending) : IsGroup(sending[i])
  /\ sent \in 0 .. 1
  /\ sent = 1 => sending # <<>> /\ Len(sending[1]) = 2
  /\ queue \in Seq(Byte)

\* What PS2Keyboard keeps between two polls.
DriverTypes == extended_prefix \in BOOLEAN /\ mods \subseteq KeyMod

\* What the properties record of the keys.
GhostTypes ==
  /\ due \in Seq(Due) /\ spoilt \in 0 .. 2 /\ lost \in BOOLEAN
  /\ caps_presses \in Nat

\* poll will apply the prefix to the byte at place p of the queue.
prefixed(p) == \/ p = 1 /\ extended_prefix = TRUE
               \/ p > 1 /\ queue[p - 1] = E0

\* The key of a code; key_of is this with the driver's own flag.
code_key(sc, ext) == (sc % 128) + (IF ext THEN Extended ELSE 0)

\* If event i is sure, the byte at place p and the prefix before it mean it.
Sound(i, p) ==
  due[i].sure => /\ due[i].key = code_key(queue[p], prefixed(p))
                 /\ due[i].release = (queue[p] >= 128)

\* f places the events that are due in the queue: in order, one for every byte
\* that is no prefix, and the sure ones are what poll will make of that byte.
Lined(f) ==
  /\ f \in [1 .. Len(due) -> 1 .. Len(queue)]
  /\ \A i, j \in 1 .. Len(due) : i < j => f[i] < f[j]
  /\ \A p \in 1 .. Len(queue) : IsPrefix(queue[p]) \/ \E i \in 1 .. Len(due) : f[i] = p
  /\ \A i \in 1 .. Len(due) : ~ IsPrefix(queue[f[i]]) /\ Sound(i, f[i])

\* After whole groups, a prefix is pending only in the midst of one.
Prefixes == spoilt = 0 => (prefixed(Len(queue) + 1) <=> sent = 1 /\ sending[1][1] = E0)

\* While no byte was lost, every event that is due is sure.
Unspoilt == ~ lost => spoilt = 0 /\ \A i \in 1 .. Len(due) : due[i].sure

\* The modifiers after the event of a key.
after(ms, key, release) ==
  LET bit == modifier_for_key(key)
  IN  IF bit = "None" THEN ms
      ELSE IF is_lock_key(key)
        THEN IF release THEN ms ELSE (ms \ {bit}) \cup ({bit} \ ms)
        ELSE IF release THEN ms \ {bit} ELSE ms \cup {bit}

\* The events still to come: those that are due, then the groups not yet sent.
coming == Len(due) + Len(sending)
coming_key(i) == IF i <= Len(due) THEN due[i].key ELSE meant(sending[i - Len(due)]).key
coming_release(i) == IF i <= Len(due) THEN due[i].release ELSE meant(sending[i - Len(due)]).release

\* The modifiers that toggle.
Locks == {"CapsLock", "NumLock", "ScrollLock"}

\* g[i] is what the modifiers will be once i of these events are read.
Reading(g) ==
  /\ g \in [0 .. coming -> SUBSET KeyMod]
  /\ g[0] = mods
  /\ \A i \in 1 .. coming : g[i] = after(g[i - 1], coming_key(i), coming_release(i))

\* What NoStuckModifier says of the modifiers.
Settled(ms, down, presses) ==
  /\ \A bit \in ms : bit \in Locks \/ \E key \in down : modifier_for_key(key) = bit
  /\ "CapsLock" \in ms <=> presses % 2 = 1

\* While no byte was lost, reading everything that is under way settles the
\* modifiers for the keys that are held: true between any two of the bytes that a
\* key takes, where NoStuckModifier itself speaks only of an empty queue.
ModsInv == ~ lost => \E g : Reading(g) /\ Settled(g[coming], held, caps_presses)

\* The inductive invariant.
KeyboardInv ==
  /\ DeviceTypes /\ DriverTypes /\ GhostTypes
  /\ \E f : Lined(f)
  /\ Prefixes /\ Unspoilt /\ ModsInv

-----------------------------------------------------------------------------
\* Group g is the code of the press or release of a key.
Means(g, key, release) == IsGroup(g) /\ meant(g).key = key /\ meant(g).release = release

\* A code of one byte means the key it names.
LEMMA ShortGroup ==
  ASSUME NEW c \in 0 .. 255, c # E0, c # E1, NEW release \in BOOLEAN, (c >= 128) = release
  PROVE  Means(<<c>>, c % 128, release)
<1> DEFINE g == <<c>>
<1>1. g \in Seq(Byte) /\ Len(g) = 1 /\ g[1] = c
  BY DEF Byte
<1> HIDE DEF g
<1>2. IsGroup(g)
  BY <1>1 DEF IsGroup, IsPrefix
<1>3. meant(g).key = c % 128
  BY <1>1 DEF meant
<1>4. meant(g).release = (c >= 128)
  BY <1>1 DEF meant
<1> QED
  BY Zenon, <1>2, <1>3, <1>4 DEF g, Means

\* So does a code of two; only E0 makes the key an extended one.
LEMMA LongGroup ==
  ASSUME NEW c \in 0 .. 255, c # E0, c # E1, NEW release \in BOOLEAN, (c >= 128) = release,
         NEW p \in {E0, E1}
  PROVE  Means(<<p, c>>, (c % 128) + (IF p = E0 THEN Extended ELSE 0), release)
<1> DEFINE g == <<p, c>>
<1>1. g \in Seq(Byte) /\ Len(g) = 2 /\ g[1] = p /\ g[2] = c
  BY DEF Byte, E0, E1
<1> HIDE DEF g
<1>2. IsGroup(g)
  BY <1>1 DEF IsGroup, IsPrefix
<1>3. meant(g).key = (c % 128) + (IF p = E0 THEN Extended ELSE 0)
  BY <1>1 DEF meant
<1>4. meant(g).release = (c >= 128)
  BY <1>1 DEF meant
<1> QED
  BY Zenon, <1>2, <1>3, <1>4 DEF g, Means

\* Every key but Pause has one group, which means it.
LEMMA KeyGroup ==
  ASSUME NEW key \in KeyCode, NEW release \in BOOLEAN
  PROVE  \E g : groups(key, release) = <<g>> /\ Means(g, key, release)
<1>1. key # Pause
  BY KeysAssumption
<1> DEFINE r == IF release THEN 128 ELSE 0
<1>2. r \in {0, 128} /\ (r = 128 <=> release)
  OBVIOUS
<1>3. CASE key >= Extended
  <2> DEFINE c == key - Extended
  <2>1. c \in 1 .. 93 /\ key = c + Extended
    BY <1>3 DEF KeyCode, Extended, E0
  <2>2. groups(key, release) = <<<<E0, c + r>>>>
    BY <1>1, <1>3 DEF groups
  <2> HIDE DEF c, r
  <2>3. /\ c + r \in 0 .. 255 /\ c + r # E0 /\ c + r # E1
        /\ (c + r) % 128 = c /\ (c + r >= 128) = release
    BY <1>2, <2>1 DEF E0, E1
  <2>4. ((c + r) % 128) + (IF E0 = E0 THEN Extended ELSE 0) = key
    BY <2>1, <2>3
  <2>5. Means(<<E0, c + r>>, ((c + r) % 128) + (IF E0 = E0 THEN Extended ELSE 0), release)
    BY <2>3, LongGroup
  <2> QED
    BY Zenon, <2>2, <2>4, <2>5
<1>4. CASE ~ (key >= Extended)
  <2>1. key \in 1 .. 88
    BY <1>4 DEF KeyCode, Extended, E0
  <2>2. groups(key, release) = <<<<key + r>>>>
    BY <1>1, <1>4 DEF groups
  <2> HIDE DEF r
  <2>3. /\ key + r \in 0 .. 255 /\ key + r # E0 /\ key + r # E1
        /\ (key + r) % 128 = key /\ (key + r >= 128) = release
    BY <1>2, <2>1 DEF E0, E1
  <2>4. Means(<<key + r>>, (key + r) % 128, release)
    BY <2>3, ShortGroup
  <2> QED
    BY Zenon, <2>2, <2>3, <2>4
<1> QED
  BY <1>3, <1>4

\* What Pause sends: LeftCtrl and NumLock, down and up.
PauseDown(s) ==
  /\ s \in Seq(Seq(Byte)) /\ Len(s) = 4
  /\ Means(s[1], LeftCtrl, FALSE) /\ Means(s[2], NumLock, FALSE)
  /\ Means(s[3], LeftCtrl, TRUE) /\ Means(s[4], NumLock, TRUE)

\* Pause sends that when pressed, and nothing when released.
LEMMA PauseGroups ==
  groups(Pause, TRUE) = <<>> /\ PauseDown(groups(Pause, FALSE))
<1> DEFINE r == 128
<1>1. /\ groups(Pause, TRUE) = <<>>
      /\ groups(Pause, FALSE) = <<<<E1, LeftCtrl>>, <<NumLock>>, <<E1, LeftCtrl + r>>, <<NumLock + r>>>>
  BY Zenon DEF groups, LeftCtrl, NumLock
<1>2. \A c \in {LeftCtrl, NumLock} :
        /\ c \in 0 .. 255 /\ c # E0 /\ c # E1 /\ c % 128 = c /\ (c >= 128) = FALSE
        /\ c + r \in 0 .. 255 /\ c + r # E0 /\ c + r # E1
        /\ (c + r) % 128 = c /\ (c + r >= 128) = TRUE
  BY DEF E0, E1, LeftCtrl, NumLock
<1>3. E1 \in {E0, E1}
  OBVIOUS
<1> HIDE DEF r
<1>4. Means(<<E1, LeftCtrl>>, LeftCtrl, FALSE)
  <2>1. Means(<<E1, LeftCtrl>>, (LeftCtrl % 128) + (IF E1 = E0 THEN Extended ELSE 0), FALSE)
    BY Zenon, <1>2, <1>3, LongGroup
  <2>2. (LeftCtrl % 128) + (IF E1 = E0 THEN Extended ELSE 0) = LeftCtrl
    BY DEF LeftCtrl, E0, E1
  <2> QED
    BY Zenon, <2>1, <2>2
<1>5. Means(<<NumLock>>, NumLock, FALSE)
  <2>1. Means(<<NumLock>>, NumLock % 128, FALSE)
    BY Zenon, <1>2, ShortGroup
  <2> QED
    BY Zenon, <1>2, <2>1
<1>6. Means(<<E1, LeftCtrl + r>>, LeftCtrl, TRUE)
  <2>1. Means(<<E1, LeftCtrl + r>>, ((LeftCtrl + r) % 128) + (IF E1 = E0 THEN Extended ELSE 0), TRUE)
    BY Zenon, <1>2, <1>3, LongGroup
  <2>2. ((LeftCtrl + r) % 128) + (IF E1 = E0 THEN Extended ELSE 0) = LeftCtrl
    BY DEF LeftCtrl, E0, E1, r
  <2> QED
    BY Zenon, <2>1, <2>2
<1>7. Means(<<NumLock + r>>, NumLock, TRUE)
  <2>1. Means(<<NumLock + r>>, (NumLock + r) % 128, TRUE)
    BY Zenon, <1>2, ShortGroup
  <2> QED
    BY Zenon, <1>2, <2>1
<1> DEFINE g1 == <<E1, LeftCtrl>>
           g2 == <<NumLock>>
           g3 == <<E1, LeftCtrl + r>>
           g4 == <<NumLock + r>>
           s == <<g1, g2, g3, g4>>
<1> HIDE DEF g1, g2, g3, g4
<1>8. {g1, g2, g3, g4} \subseteq Seq(Byte)
  BY Zenon, <1>4, <1>5, <1>6, <1>7 DEF g1, g2, g3, g4, Means, IsGroup
<1>9. /\ s \in Seq(Seq(Byte)) /\ Len(s) = 4
      /\ s[1] = g1 /\ s[2] = g2 /\ s[3] = g3 /\ s[4] = g4
  BY <1>8
<1> HIDE DEF s
<1>10. PauseDown(s)
  BY Zenon, <1>4, <1>5, <1>6, <1>7, <1>9 DEF PauseDown, g1, g2, g3, g4
<1> QED
  BY Zenon, <1>1, <1>10 DEF s, g1, g2, g3, g4

\* What meant reads in a group.
LEMMA GroupMeaning ==
  ASSUME NEW g, IsGroup(g)
  PROVE  /\ meant(g).key = code_key(g[Len(g)], g[1] = E0)
         /\ meant(g).key \in Nat
         /\ meant(g).release = (g[Len(g)] >= 128)
         /\ meant(g).release \in BOOLEAN
<1>1. g[Len(g)] \in 0 .. 255
  <2>1. g[Len(g)] \in Byte
    BY DEF IsGroup
  <2> QED
    BY <2>1 DEF Byte
<1> DEFINE c == g[Len(g)]
<1>2. /\ meant(g).key = (c % 128) + (IF g[1] = E0 THEN Extended ELSE 0)
      /\ meant(g).release = (c >= 128)
  BY DEF meant
<1> HIDE DEF c
<1>3. c \in 0 .. 255
  BY <1>1 DEF c
<1>4. meant(g).key \in Nat
  BY <1>2, <1>3 DEF Extended, E0
<1> QED
  BY <1>2, <1>4 DEF c, code_key

\* The kernel starts with no key down and nothing read.
LEMMA InitInv ==
  KeyboardInit => KeyboardInv
<1> SUFFICES ASSUME KeyboardInit  PROVE KeyboardInv
  OBVIOUS
<1> USE DEF KeyboardInit
<1>1. DeviceTypes /\ DriverTypes
  <2>1. sending \in Seq(Seq(Byte)) /\ queue \in Seq(Byte) /\ Len(sending) = 0
    OBVIOUS
  <2>2. sent \in 0 .. 1 /\ sent # 1
    OBVIOUS
  <2>3. extended_prefix \in BOOLEAN /\ mods \subseteq KeyMod /\ held \subseteq Keys
    BY Zenon
  <2> QED
    BY <2>1, <2>2, <2>3 DEF DeviceTypes, DriverTypes
<1>2. GhostTypes
  <2>1. due \in Seq(Due)
    OBVIOUS
  <2>2. spoilt \in 0 .. 2 /\ caps_presses \in Nat
    OBVIOUS
  <2>3. lost \in BOOLEAN
    BY Zenon
  <2> QED
    BY <2>1, <2>2, <2>3 DEF GhostTypes
<1>3. \E f : Lined(f)
  <2> DEFINE f == [i \in 1 .. Len(due) |-> 1]
  <2>1. Lined(f)
    BY DEF Lined
  <2> QED
    BY <2>1
<1>4. Prefixes /\ Unspoilt
  BY DEF Prefixes, Unspoilt, prefixed
<1>5. ModsInv
  <2> DEFINE g == [i \in 0 .. 0 |-> mods]
  <2>1. coming = 0
    BY DEF coming
  <2>2. Reading(g)
    BY <2>1 DEF Reading
  <2>3. Settled(g[coming], held, caps_presses)
    BY <2>1 DEF Settled
  <2> HIDE DEF g
  <2> QED
    BY <2>2, <2>3 DEF ModsInv
<1> QED
  BY <1>1, <1>2, <1>3, <1>4, <1>5 DEF KeyboardInv

-----------------------------------------------------------------------------
\* modifier_for_key knows the modifiers and no others.
LEMMA ModifierRange ==
  ASSUME NEW key
  PROVE  modifier_for_key(key) \in KeyMod \cup {"None"} /\ "None" \notin KeyMod
BY DEF modifier_for_key, KeyMod

\* Reading an event leaves a set of modifiers.
LEMMA AfterTypes ==
  ASSUME NEW ms \in SUBSET KeyMod, NEW key, NEW release \in BOOLEAN
  PROVE  after(ms, key, release) \in SUBSET KeyMod
BY ModifierRange DEF after

\* The keys that is_lock_key names are those of the locks, and no two of them
\* share a bit; Pause has none.
LEMMA LockBits ==
  ASSUME NEW key
  PROVE  /\ is_lock_key(key) <=> modifier_for_key(key) \in Locks
         /\ key = CapsLock <=> modifier_for_key(key) = "CapsLock"
         /\ modifier_for_key(Pause) = "None"
<1>1. is_lock_key(key) <=> modifier_for_key(key) \in Locks
  BY DEF is_lock_key, modifier_for_key, Locks, LeftShift, RightShift, LeftCtrl, RightCtrl, LeftAlt,
         RightAlt, LeftGui, RightGui, CapsLock, NumLock, ScrollLock, Extended, E0
<1>2. key = CapsLock <=> modifier_for_key(key) = "CapsLock"
  BY DEF modifier_for_key, LeftShift, RightShift, LeftCtrl, RightCtrl, LeftAlt,
         RightAlt, LeftGui, RightGui, CapsLock, NumLock, ScrollLock, Extended, E0
<1>3. modifier_for_key(Pause) = "None"
  <2>1. {LeftShift, RightShift, LeftCtrl, RightCtrl, LeftAlt, RightAlt, LeftGui, RightGui,
         CapsLock, NumLock, ScrollLock} \subseteq KeyCode
    BY DEF KeyCode, LeftShift, RightShift, LeftCtrl, RightCtrl, LeftAlt,
           RightAlt, LeftGui, RightGui, CapsLock, NumLock, ScrollLock, Extended, E0
  <2> QED
    BY <2>1, KeysAssumption DEF modifier_for_key
<1> QED
  BY <1>1, <1>2, <1>3

\* A press or a release settles the modifiers again.
LEMMA SettleKey ==
  ASSUME NEW ms \in SUBSET KeyMod, NEW down, NEW presses \in Nat, Settled(ms, down, presses),
         NEW key, NEW release \in BOOLEAN
  PROVE  Settled(after(ms, key, release),
                 IF release THEN down \ {key} ELSE down \cup {key},
                 presses + (IF key = CapsLock /\ ~ release THEN 1 ELSE 0))
<1> DEFINE bit == modifier_for_key(key)
           now == after(ms, key, release)
           keys == IF release THEN down \ {key} ELSE down \cup {key}
           n == presses + (IF key = CapsLock /\ ~ release THEN 1 ELSE 0)
<1>1. \A b \in now : b \in Locks \/ \E k \in keys : modifier_for_key(k) = b
  <2> SUFFICES ASSUME NEW b \in now, b \notin Locks  PROVE \E k \in keys : modifier_for_key(k) = b
    OBVIOUS
  <2>1. bit = "None" \/ bit \in KeyMod
    BY ModifierRange
  <2>2. b \in ms \/ (b = bit /\ ~ release)
    BY DEF after
  <2>3. release /\ b = bit => bit = "None" \/ is_lock_key(key)
    BY DEF after
  <2>4. b # "None"
    BY AfterTypes, ModifierRange
  <2>5. ~ (release /\ b = bit)
    BY <2>3, <2>4, LockBits
  <2>6. CASE b = bit
    BY <2>5, <2>6
  <2>7. CASE b # bit
    <3>1. PICK k \in down : modifier_for_key(k) = b
      BY <2>2, <2>7 DEF Settled
    <3>2. k # key
      BY <2>7, <3>1
    <3> QED
      BY <3>1, <3>2
  <2> QED
    BY <2>6, <2>7
<1>2. "CapsLock" \in now <=> n % 2 = 1
  <2>1. "CapsLock" \in ms <=> presses % 2 = 1
    BY DEF Settled
  <2>2. CASE key = CapsLock /\ ~ release
    <3>1. now = (ms \ {bit}) \cup ({bit} \ ms) /\ bit = "CapsLock"
      <4>1. bit = "CapsLock" /\ is_lock_key(key)
        BY <2>2, LockBits DEF is_lock_key
      <4> QED
        BY <2>2, <4>1 DEF after
    <3>2. "CapsLock" \in now <=> "CapsLock" \notin ms
      BY <3>1
    <3>3. n = presses + 1
      BY <2>2
    <3>4. (presses + 1) % 2 = 1 <=> presses % 2 # 1
      OBVIOUS
    <3> HIDE DEF now, n
    <3> QED
      BY <2>1, <3>2, <3>3, <3>4
  <2>3. CASE ~ (key = CapsLock /\ ~ release)
    <3>1. n = presses
      BY <2>3
    <3>2. "CapsLock" \in now <=> "CapsLock" \in ms
      <4>1. bit = "CapsLock" => is_lock_key(key) /\ release
        BY <2>3, LockBits DEF Locks
      <4> QED
        BY <4>1 DEF after
    <3> HIDE DEF now, n
    <3> QED
      BY <2>1, <3>1, <3>2
  <2> QED
    BY <2>2, <2>3
<1> QED
  BY <1>1, <1>2 DEF Settled

\* The four stray events of Pause leave the modifiers of the held keys, and
\* of the locks change only NumLock.
LEMMA SettlePause ==
  ASSUME NEW ms \in SUBSET KeyMod, NEW down, NEW presses \in Nat, Settled(ms, down, presses)
  PROVE  /\ Settled(ms, down \ {Pause}, presses)
         /\ Settled(after(after(after(after(ms, LeftCtrl, FALSE), NumLock, FALSE),
                                LeftCtrl, TRUE), NumLock, TRUE),
                    down \cup {Pause}, presses)
<1>1. Settled(ms, down \ {Pause}, presses)
  BY LockBits, ModifierRange DEF Settled
<1>2. /\ modifier_for_key(LeftCtrl) = "Ctrl" /\ ~ is_lock_key(LeftCtrl)
      /\ modifier_for_key(NumLock) = "NumLock" /\ is_lock_key(NumLock)
  BY DEF is_lock_key, modifier_for_key, LeftShift, RightShift, LeftCtrl, RightCtrl, LeftAlt,
         RightAlt, LeftGui, RightGui, CapsLock, NumLock, ScrollLock, Extended, E0
<1> DEFINE m1 == after(ms, LeftCtrl, FALSE)
           m2 == after(m1, NumLock, FALSE)
           m3 == after(m2, LeftCtrl, TRUE)
           m4 == after(m3, NumLock, TRUE)
<1>3. m1 = ms \cup {"Ctrl"}
  BY <1>2 DEF after
<1>4. m2 = (m1 \ {"NumLock"}) \cup ({"NumLock"} \ m1)
  BY <1>2 DEF after
<1>5. m3 = m2 \ {"Ctrl"}
  BY <1>2 DEF after
<1>6. m4 = m3
  BY <1>2 DEF after
<1> HIDE DEF m1, m2, m3, m4
<1>7. \A b \in m4 : b = "NumLock" \/ b \in ms
  BY <1>3, <1>4, <1>5, <1>6
<1>8. "CapsLock" \in m4 <=> "CapsLock" \in ms
  BY <1>3, <1>4, <1>5, <1>6
<1>9. Settled(m4, down \cup {Pause}, presses)
  BY <1>7, <1>8 DEF Settled, Locks
<1> QED
  BY <1>1, <1>9 DEF m1, m2, m3, m4

-----------------------------------------------------------------------------
\* What a key sends are groups.
LEMMA GroupsType ==
  ASSUME NEW key \in Keys, NEW release \in BOOLEAN
  PROVE  /\ groups(key, release) \in Seq(Seq(Byte))
         /\ \A i \in 1 .. Len(groups(key, release)) : IsGroup(groups(key, release)[i])
<1>1. CASE key = Pause
  <2>1. CASE release = TRUE
    <3>1. groups(key, release) = <<>>
      BY <1>1, <2>1, PauseGroups
    <3> QED
      BY <3>1
  <2>2. CASE release = FALSE
    <3>1. groups(key, release) = groups(Pause, FALSE)
      BY Zenon, <1>1, <2>2
    <3>2. PauseDown(groups(key, release))
      BY Zenon, <3>1, PauseGroups
    <3>3. \A i \in 1 .. 4 : i = 1 \/ i = 2 \/ i = 3 \/ i = 4
      OBVIOUS
    <3> QED
      BY Zenon, <3>2, <3>3 DEF PauseDown, Means
  <2> QED
    BY <2>1, <2>2
<1>2. CASE key # Pause
  <2>1. PICK g : groups(key, release) = <<g>> /\ IsGroup(g)
    BY <1>2, KeysAssumption, KeyGroup DEF Means
  <2>2. g \in Seq(Byte)
    BY <2>1 DEF IsGroup
  <2> QED
    BY <2>1, <2>2
<1> QED
  BY <1>1, <1>2

\* A key is pressed or released.
LEMMA UseStep ==
  ASSUME KeyboardInv, NEW key \in Keys, NEW release \in BOOLEAN, use(key, release),
         held' = IF release THEN held \ {key} ELSE held \cup {key}
  PROVE  KeyboardInv'
<1>a. PICK n : n = Len(due)
  OBVIOUS
<1> DEFINE new == groups(key, release)
<1>1. DeviceTypes /\ DriverTypes /\ GhostTypes
  BY DEF KeyboardInv
<1>2. /\ sending = <<>> /\ sending' = new
      /\ sent' = sent /\ queue' = queue /\ extended_prefix' = extended_prefix /\ mods' = mods
      /\ due' = due /\ spoilt' = spoilt /\ lost' = lost
      /\ caps_presses' = caps_presses + (IF key = CapsLock /\ ~ release THEN 1 ELSE 0)
  BY DEF use, driver_vars
<1>3. sent = 0
  BY <1>1, <1>2 DEF DeviceTypes
<1>4. new \in Seq(Seq(Byte)) /\ \A i \in 1 .. Len(new) : IsGroup(new[i])
  BY GroupsType
<1>5. DeviceTypes' /\ DriverTypes'
  <2>1. held' \subseteq Keys
    BY <1>1 DEF DeviceTypes
  <2> HIDE DEF new
  <2>2. sent' \in 0 .. 1 /\ sent' # 1
    BY <1>2, <1>3
  <2> QED
    BY <1>1, <1>2, <1>4, <2>1, <2>2 DEF DeviceTypes, DriverTypes
<1>6. GhostTypes'
  BY <1>1, <1>2 DEF GhostTypes
<1>7. (\E f : Lined(f))'
  <2>1. PICK f : Lined(f)
    BY DEF KeyboardInv
  <2>2. Lined(f)'
    BY <1>2, <2>1 DEF Lined, Sound, prefixed
  <2> QED
    BY <2>2
<1>8. Prefixes' /\ Unspoilt'
  <2>1. Prefixes /\ Unspoilt
    BY DEF KeyboardInv
  <2>2. Prefixes'
    BY <1>2, <1>3, <2>1 DEF Prefixes, prefixed
  <2>3. Unspoilt'
    BY <1>2, <2>1 DEF Unspoilt
  <2> QED
    BY <2>2, <2>3
<1>9. ModsInv'
  <2> SUFFICES ASSUME ~ lost  PROVE \E g : Reading(g)' /\ Settled(g[coming'], held', caps_presses')
    BY <1>2 DEF ModsInv
  <2>1. n \in Nat /\ coming = n /\ coming' = n + Len(new)
    BY <1>1, <1>2, <1>a DEF coming, GhostTypes
  <2>2. PICK g : Reading(g) /\ Settled(g[n], held, caps_presses)
    BY <2>1 DEF KeyboardInv, ModsInv
  <2>3. g \in [0 .. n -> SUBSET KeyMod] /\ g[n] \in SUBSET KeyMod
    BY <2>1, <2>2 DEF Reading
  <2>4. \A i \in 1 .. n : /\ coming_key(i) = due[i].key /\ coming_key(i)' = due[i].key
                          /\ coming_release(i) = due[i].release
                          /\ coming_release(i)' = due[i].release
    BY <1>2, <1>a DEF coming_key, coming_release
  <2>5. g[0] = mods /\ \A i \in 1 .. n : g[i] = after(g[i - 1], due[i].key, due[i].release)
    BY <2>1, <2>2, <2>4 DEF Reading
  <2>6. \A i \in n + 1 .. n + Len(new) :
          /\ coming_key(i)' = meant(new[i - n]).key
          /\ coming_release(i)' = meant(new[i - n]).release
    BY <1>2, <1>a, <2>1 DEF coming_key, coming_release
  <2>7. caps_presses \in Nat
    BY <1>1 DEF GhostTypes
  <2> HIDE DEF new
  <2>8. CASE Len(new) = 0
    <3>1. coming' = n
      BY <2>1, <2>8
    <3>2. Reading(g)'
      BY <1>2, <2>3, <2>4, <2>5, <3>1 DEF Reading
    <3>3. new = groups(key, release)
      BY DEF new
    <3>4. key = Pause /\ release
      <4>1. \E g1 : new = <<g1>> \/ ~(key # Pause)
        BY <3>3, KeyGroup, KeysAssumption
      <4>2. key = Pause
        BY <2>8, <4>1
      <4>3. Len(groups(Pause, FALSE)) = 4
        BY PauseGroups DEF PauseDown
      <4>4. CASE release = FALSE
        <5>1. new = groups(Pause, FALSE)
          BY Zenon, <3>3, <4>2, <4>4
        <5>2. ~ (0 = 4)
          OBVIOUS
        <5> QED
          BY Zenon, <2>8, <4>3, <5>1, <5>2
      <4> QED
        BY Zenon, <4>2, <4>4
    <3>5. key # CapsLock
      BY <3>4, LockBits
    <3>6. caps_presses' = caps_presses /\ held' = held \ {Pause}
      BY <1>2, <2>7, <3>4, <3>5
    <3>7. Settled(g[n], held \ {Pause}, caps_presses)
      BY <2>2, <2>3, <2>7, SettlePause
    <3> QED
      BY <3>1, <3>2, <3>6, <3>7
  <2>9. CASE Len(new) # 0 /\ key # Pause
    <3>1. PICK e : new = <<e>> /\ meant(e).key = key /\ meant(e).release = release
      BY <2>9, KeyGroup, KeysAssumption DEF new, Means
    <3> DEFINE m == after(g[n], key, release)
               h == [i \in 0 .. n + 1 |-> IF i <= n THEN g[i] ELSE m]
    <3>2. m \in SUBSET KeyMod
      BY <2>3, AfterTypes
    <3>3. coming' = n + 1 /\ coming_key(n + 1)' = key /\ coming_release(n + 1)' = release
      BY <2>1, <2>6, <3>1
    <3>4. Settled(m, held', caps_presses')
      BY <1>2, <2>2, <2>3, <2>7, SettleKey
    <3> HIDE DEF m
    <3>5. h \in [0 .. n + 1 -> SUBSET KeyMod]
      BY <2>1, <2>3, <3>2
    <3>6. h[n + 1] = m /\ \A i \in 0 .. n : h[i] = g[i]
      BY <2>1
    <3> HIDE DEF h
    <3>7. \A i \in 1 .. n + 1 : h[i] = after(h[i - 1], coming_key(i)', coming_release(i)')
      <4>1. \A i \in 1 .. n : h[i] = after(h[i - 1], coming_key(i)', coming_release(i)')
        BY <2>1, <2>4, <2>5, <3>6
      <4>2. h[n + 1] = after(h[n], coming_key(n + 1)', coming_release(n + 1)')
        BY <2>1, <3>3, <3>6 DEF m
      <4> QED
        BY <2>1, <4>1, <4>2
    <3>8. Reading(h)'
      BY <1>2, <2>1, <2>5, <3>3, <3>5, <3>6, <3>7 DEF Reading
    <3> QED
      BY <3>3, <3>4, <3>6, <3>8
  <2>10. CASE Len(new) # 0 /\ key = Pause
    <3>1. release = FALSE
      BY <2>10, PauseGroups DEF new
    <3>2. PauseDown(new)
      <4>1. new = groups(Pause, FALSE)
        BY Zenon, <2>10, <3>1 DEF new
      <4> QED
        BY Zenon, <4>1, PauseGroups
    <3> DEFINE m1 == after(g[n], LeftCtrl, FALSE)
               m2 == after(m1, NumLock, FALSE)
               m3 == after(m2, LeftCtrl, TRUE)
               m4 == after(m3, NumLock, TRUE)
               h == [i \in 0 .. n + 4 |-> IF i <= n THEN g[i]
                                          ELSE IF i = n + 1 THEN m1
                                          ELSE IF i = n + 2 THEN m2
                                          ELSE IF i = n + 3 THEN m3 ELSE m4]
    <3>3. coming' = n + 4
      BY <2>1, <3>2 DEF PauseDown
    <3>4. /\ coming_key(n + 1)' = LeftCtrl /\ coming_release(n + 1)' = FALSE
          /\ coming_key(n + 2)' = NumLock /\ coming_release(n + 2)' = FALSE
          /\ coming_key(n + 3)' = LeftCtrl /\ coming_release(n + 3)' = TRUE
          /\ coming_key(n + 4)' = NumLock /\ coming_release(n + 4)' = TRUE
      BY <2>1, <2>6, <3>2 DEF PauseDown, Means
    <3>5. caps_presses' = caps_presses /\ held' = held \cup {Pause}
      BY <1>2, <2>7, <2>10, <3>1, LockBits
    <3>6. Settled(m4, held', caps_presses')
      BY <2>2, <2>3, <2>7, <3>5, SettlePause
    <3>7. {m1, m2, m3, m4} \subseteq SUBSET KeyMod
      <4>1. m1 \in SUBSET KeyMod
        BY <2>3, AfterTypes
      <4> HIDE DEF m1
      <4>2. m2 \in SUBSET KeyMod
        BY <4>1, AfterTypes
      <4> HIDE DEF m2
      <4>3. m3 \in SUBSET KeyMod
        BY <4>2, AfterTypes
      <4> HIDE DEF m3
      <4> QED
        BY <4>1, <4>2, <4>3, AfterTypes
    <3>8. /\ m1 = after(g[n], LeftCtrl, FALSE) /\ m2 = after(m1, NumLock, FALSE)
          /\ m3 = after(m2, LeftCtrl, TRUE) /\ m4 = after(m3, NumLock, TRUE)
      OBVIOUS
    <3> HIDE DEF m1, m2, m3, m4
    <3>9. h \in [0 .. n + 4 -> SUBSET KeyMod]
      BY <2>1, <2>3, <3>7
    <3>10. /\ \A i \in 0 .. n : h[i] = g[i]
           /\ h[n + 1] = m1 /\ h[n + 2] = m2 /\ h[n + 3] = m3 /\ h[n + 4] = m4
      <4>1. \A i \in 0 .. n : i \in 0 .. n + 4 /\ i <= n
        BY <2>1
      <4>2. /\ \A i \in {n + 1, n + 2, n + 3, n + 4} : i \in 0 .. n + 4 /\ ~ (i <= n)
            /\ n + 2 # n + 1 /\ n + 3 # n + 1 /\ n + 3 # n + 2
            /\ n + 4 # n + 1 /\ n + 4 # n + 2 /\ n + 4 # n + 3
        BY <2>1
      <4> QED
        BY Zenon, <4>1, <4>2
    <3> HIDE DEF h
    <3>11. \A i \in 1 .. n + 4 : h[i] = after(h[i - 1], coming_key(i)', coming_release(i)')
      <4>1. \A i \in 1 .. n : h[i] = after(h[i - 1], coming_key(i)', coming_release(i)')
        BY <2>1, <2>4, <2>5, <3>10
      <4>2. \A i \in {n + 1, n + 2, n + 3, n + 4} :
              h[i] = after(h[i - 1], coming_key(i)', coming_release(i)')
        <5>1. n \in 0 .. n /\ (n + 1) - 1 = n /\ (n + 2) - 1 = n + 1 /\ (n + 3) - 1 = n + 2
              /\ (n + 4) - 1 = n + 3
          BY <2>1
        <5> QED
          BY Zenon, <3>4, <3>8, <3>10, <5>1
      <4> QED
        BY <2>1, <4>1, <4>2
    <3>12. Reading(h)'
      BY <1>2, <2>1, <2>5, <3>3, <3>9, <3>10, <3>11 DEF Reading
    <3> QED
      BY <3>3, <3>6, <3>10, <3>12
  <2> QED
    BY <2>8, <2>9, <2>10
<1> QED
  BY <1>5, <1>6, <1>7, <1>8, <1>9 DEF KeyboardInv

-----------------------------------------------------------------------------
\* The device sends a byte, which the controller keeps or drops.
LEMMA SendStep ==
  ASSUME KeyboardInv, SendByte
  PROVE  KeyboardInv'
<1>a. PICK n : n = Len(due)
  OBVIOUS
<1>b. PICK q : q = Len(queue)
  OBVIOUS
<1>c. PICK group : group = Head(sending)
  OBVIOUS
<1>d. PICK b : b = group[sent + 1]
  OBVIOUS
<1> DEFINE kept == q < QueueSize
           last == sent + 1 = Len(group)
<1>1. DeviceTypes /\ DriverTypes /\ GhostTypes /\ Prefixes /\ Unspoilt
  BY DEF KeyboardInv
<1>2. /\ sending # <<>>
      /\ queue' = IF kept THEN Append(queue, b) ELSE queue
      /\ sent' = IF last THEN 0 ELSE sent + 1
      /\ sending' = IF last THEN Tail(sending) ELSE sending
      /\ lost' = (lost \/ ~ kept)
      /\ due' = IF last /\ kept
                THEN Append(due, [key |-> meant(group).key, release |-> meant(group).release,
                                  sure |-> spoilt = 0])
                ELSE due
      /\ spoilt' = IF ~ kept THEN (IF last THEN 1 ELSE 2)
                   ELSE IF last /\ spoilt > 0 THEN spoilt - 1 ELSE spoilt
      /\ held' = held /\ extended_prefix' = extended_prefix /\ mods' = mods
      /\ caps_presses' = caps_presses
  BY <1>b, <1>c, <1>d DEF SendByte, driver_vars
<1>3. /\ sending \in Seq(Seq(Byte)) /\ Len(sending) \in Nat \ {0}
      /\ group = sending[1] /\ IsGroup(group)
      /\ sent \in 0 .. 1 /\ (sent = 1 => Len(group) = 2)
      /\ q \in Nat /\ queue \in Seq(Byte)
      /\ n \in Nat /\ due \in Seq(Due) /\ spoilt \in 0 .. 2
  BY <1>1, <1>2, <1>a, <1>b, <1>c DEF DeviceTypes, GhostTypes
<1>4. /\ group \in Seq(Byte) /\ Len(group) \in 1 .. 2 /\ b \in Byte
      /\ last => b = group[Len(group)]
      /\ last <=> ~ IsPrefix(b)
      /\ ~ last => sent = 0 /\ Len(group) = 2 /\ b = group[1]
      /\ last /\ sent = 0 => Len(group) = 1 /\ b = group[1]
  BY <1>3, <1>d DEF IsGroup
<1> HIDE DEF last, kept
<1>5. DeviceTypes'
  <2>1. held' \subseteq Keys /\ queue' \in Seq(Byte)
    BY <1>1, <1>2, <1>3, <1>4 DEF DeviceTypes
  <2>2. sending' \in Seq(Seq(Byte)) /\ \A i \in 1 .. Len(sending') : IsGroup(sending'[i])
    BY <1>1, <1>2, <1>3 DEF DeviceTypes
  <2>3. sent' \in 0 .. 1 /\ (sent' = 1 => sending' # <<>> /\ Len(sending'[1]) = 2)
    BY <1>2, <1>3, <1>4
  <2> QED
    BY <2>1, <2>2, <2>3 DEF DeviceTypes
<1>6. DriverTypes' /\ GhostTypes'
  <2>1. DriverTypes'
    BY <1>1, <1>2 DEF DriverTypes
  <2>2. lost' \in BOOLEAN
    BY Zenon, <1>2
  <2>3. spoilt' \in 0 .. 2
    BY <1>2, <1>3
  <2>4. caps_presses' \in Nat
    BY <1>1, <1>2 DEF GhostTypes
  <2>5. due' \in Seq(Due)
    <3>1. meant(group).key \in Nat /\ meant(group).release \in BOOLEAN
      BY <1>3, GroupMeaning
    <3>2. [key |-> meant(group).key, release |-> meant(group).release, sure |-> spoilt = 0] \in Due
      BY Zenon, <3>1 DEF Due
    <3> QED
      BY <1>2, <1>3, <3>2
  <2> QED
    BY <2>1, <2>2, <2>3, <2>4, <2>5 DEF GhostTypes
<1>7. \A p \in 1 .. q + 1 : prefixed(p)' <=> prefixed(p)
  BY <1>2, <1>3, <1>b DEF prefixed
<1>8. Prefixes'
  <2>1. CASE ~ kept
    BY <1>2, <2>1 DEF Prefixes
  <2>2. CASE kept
    <3>1. Len(queue') = q + 1 /\ queue'[q + 1] = b
      BY <1>2, <1>3, <1>4, <1>b, <2>2
    <3>2. (prefixed(Len(queue) + 1))' <=> b = E0
      BY <1>3, <3>1 DEF prefixed
    <3>3. last => b # E0 /\ sent' = 0
      BY <1>2, <1>4 DEF IsPrefix
    <3>4. ~ last => sent' = 1 /\ sending'[1] = group /\ b = group[1]
      BY <1>2, <1>3, <1>4
    <3> QED
      BY <3>2, <3>3, <3>4 DEF Prefixes
  <2> QED
    BY <2>1, <2>2
<1>9. Unspoilt'
  <2> SUFFICES ASSUME ~ lost'  PROVE spoilt' = 0 /\ \A i \in 1 .. Len(due') : due'[i].sure
    BY DEF Unspoilt
  <2>1. ~ lost /\ kept
    BY <1>2
  <2>2. spoilt = 0 /\ \A i \in 1 .. n : due[i].sure
    BY <1>1, <1>a, <2>1 DEF Unspoilt
  <2>3. spoilt' = 0
    BY <1>2, <2>1, <2>2
  <2>4. CASE ~ last
    BY <1>2, <1>a, <2>2, <2>3, <2>4
  <2>5. CASE last
    <3> DEFINE e == [key |-> meant(group).key, release |-> meant(group).release, sure |-> spoilt = 0]
    <3>1. e.sure
      BY Zenon, <2>2
    <3>2. due' = Append(due, e)
      BY Zenon, <1>2, <2>1, <2>5
    <3> HIDE DEF e
    <3>3. Len(due') = n + 1 /\ due'[n + 1] = e /\ \A i \in 1 .. n : due'[i] = due[i]
      BY <1>3, <1>a, <3>2
    <3> QED
      <4>1. \A i \in 1 .. Len(due') : i = n + 1 \/ i \in 1 .. n
        BY <1>3, <3>3
      <4> QED
        BY Zenon, <2>2, <2>3, <3>1, <3>3, <4>1
  <2> QED
    BY <2>4, <2>5
<1>10. (\E f : Lined(f))'
  <2>1. PICK f : Lined(f)
    BY DEF KeyboardInv
  <2>2. /\ f \in [1 .. n -> 1 .. q]
        /\ \A i, j \in 1 .. n : i < j => f[i] < f[j]
        /\ \A p \in 1 .. q : IsPrefix(queue[p]) \/ \E i \in 1 .. n : f[i] = p
        /\ \A i \in 1 .. n : ~ IsPrefix(queue[f[i]]) /\ Sound(i, f[i])
    BY <1>a, <1>b, <2>1 DEF Lined
  <2>3. CASE ~ kept
    <3>1. queue' = queue /\ due' = due
      BY <1>2, <2>3
    <3>2. \A i \in 1 .. n : Sound(i, f[i])'
      <4> SUFFICES ASSUME NEW i \in 1 .. n  PROVE Sound(i, f[i])'
        OBVIOUS
      <4>1. f[i] \in 1 .. q + 1 /\ Sound(i, f[i])
        BY <1>3, <2>2
      <4>2. prefixed(f[i])' <=> prefixed(f[i])
        BY <1>7, <4>1
      <4>3. code_key(queue[f[i]], prefixed(f[i])') = code_key(queue[f[i]], prefixed(f[i]))
        BY <4>2 DEF code_key
      <4> QED
        BY Zenon, <3>1, <4>1, <4>3 DEF Sound
    <3>3. Lined(f)'
      BY <1>a, <1>b, <2>2, <3>1, <3>2 DEF Lined
    <3> QED
      BY <3>3
  <2>4. CASE kept
    <3>1. queue' \in Seq(Byte) /\ Len(queue') = q + 1 /\ queue'[q + 1] = b
          /\ \A p \in 1 .. q : queue'[p] = queue[p]
      BY <1>2, <1>3, <1>4, <1>b, <2>4
    <3>2. ASSUME NEW i \in 1 .. n, due'[i] = due[i]
          PROVE  Sound(i, f[i])'
      <4>1. f[i] \in 1 .. q /\ f[i] \in 1 .. q + 1 /\ Sound(i, f[i])
        BY <1>3, <2>2
      <4>2. prefixed(f[i])' <=> prefixed(f[i])
        BY <1>7, <4>1
      <4>3. code_key(queue[f[i]], prefixed(f[i])') = code_key(queue[f[i]], prefixed(f[i]))
        BY <4>2 DEF code_key
      <4>4. queue'[f[i]] = queue[f[i]]
        BY <3>1, <4>1
      <4> QED
        BY Zenon, <3>2, <4>1, <4>3, <4>4 DEF Sound
    <3>3. CASE ~ last
      <4>1. due' = due
        BY <1>2, <3>3
      <4>2. \A i \in 1 .. n : Sound(i, f[i])'
        BY <3>2, <4>1
      <4>3. f \in [1 .. n -> 1 .. q + 1]
        BY <1>3, <2>2
      <4>4. \A p \in 1 .. q + 1 : IsPrefix(queue'[p]) \/ \E i \in 1 .. n : f[i] = p
        <5>1. \A p \in 1 .. q + 1 : p = q + 1 \/ p \in 1 .. q
          BY <1>3
        <5>2. IsPrefix(queue'[q + 1])
          BY <1>4, <3>1, <3>3
        <5> QED
          BY Zenon, <2>2, <3>1, <5>1, <5>2
      <4>5. \A i \in 1 .. n : ~ IsPrefix(queue'[f[i]])
        BY <2>2, <3>1
      <4>6. Lined(f)'
        BY <1>a, <2>2, <3>1, <4>1, <4>2, <4>3, <4>4, <4>5 DEF Lined
      <4> QED
        BY <4>6
    <3>4. CASE last
      <4> DEFINE e == [key |-> meant(group).key, release |-> meant(group).release, sure |-> spoilt = 0]
      <4>1. /\ e.key = code_key(b, group[1] = E0) /\ e.release = (b >= 128)
            /\ e.sure => spoilt = 0
        <5>1. b = group[Len(group)]
          BY <1>4, <3>4
        <5>2. meant(group).key = code_key(b, group[1] = E0) /\ meant(group).release = (b >= 128)
          BY Zenon, <1>3, <5>1, GroupMeaning
        <5> QED
          BY Zenon, <5>2
      <4>2. due' = Append(due, e)
        BY Zenon, <1>2, <2>4, <3>4
      <4> HIDE DEF e
      <4>3. Len(due') = n + 1 /\ due'[n + 1] = e /\ \A i \in 1 .. n : due'[i] = due[i]
        BY <1>3, <1>a, <4>2
      <4>4. PICK h : h = [i \in 1 .. n + 1 |-> IF i <= n THEN f[i] ELSE q + 1]
        OBVIOUS
      <4>5. h \in [1 .. n + 1 -> 1 .. q + 1] /\ h[n + 1] = q + 1 /\ \A i \in 1 .. n : h[i] = f[i]
        <5>1. n \in Nat /\ q \in Nat /\ ~ (n + 1 <= n) /\ f \in [1 .. n -> 1 .. q]
          BY <1>3, <2>2
        <5>2. \A i \in 1 .. n : f[i] \in 1 .. q + 1
          BY <5>1
        <5> QED
          BY <4>4, <5>1, <5>2
      <4>6. \A i, j \in 1 .. n + 1 : i < j => h[i] < h[j]
        <5> SUFFICES ASSUME NEW i \in 1 .. n + 1, NEW j \in 1 .. n + 1, i < j  PROVE h[i] < h[j]
          OBVIOUS
        <5>1. i \in 1 .. n /\ h[i] = f[i] /\ f[i] \in 1 .. q
          BY <1>3, <2>2, <4>5
        <5>2. CASE j = n + 1
          BY <1>3, <4>5, <5>1, <5>2
        <5>3. CASE j # n + 1
          BY <1>3, <2>2, <4>5, <5>1, <5>3
        <5> QED
          BY <5>2, <5>3
      <4>7. \A p \in 1 .. q + 1 : IsPrefix(queue'[p]) \/ \E i \in 1 .. n + 1 : h[i] = p
        <5> SUFFICES ASSUME NEW p \in 1 .. q + 1
                     PROVE  IsPrefix(queue'[p]) \/ \E i \in 1 .. n + 1 : h[i] = p
          OBVIOUS
        <5>1. CASE p = q + 1
          BY <1>3, <4>5, <5>1
        <5>2. CASE p # q + 1
          <6>1. p \in 1 .. q /\ queue'[p] = queue[p]
            BY <1>3, <3>1, <5>2
          <6>2. CASE IsPrefix(queue[p])
            BY <6>1, <6>2
          <6>3. CASE \E i \in 1 .. n : f[i] = p
            <7>1. PICK i \in 1 .. n : f[i] = p
              BY <6>3
            <7>2. i \in 1 .. n + 1 /\ h[i] = p
              BY <1>3, <4>5, <7>1
            <7> QED
              BY <7>2
          <6> QED
            BY <2>2, <6>1, <6>2, <6>3
        <5> QED
          BY <5>1, <5>2
      <4>8. \A i \in 1 .. n + 1 : ~ IsPrefix(queue'[h[i]]) /\ Sound(i, h[i])'
        <5>1. \A i \in 1 .. n : ~ IsPrefix(queue'[h[i]]) /\ Sound(i, h[i])'
          BY <2>2, <3>1, <3>2, <4>3, <4>5
        <5>2. ~ IsPrefix(queue'[q + 1])
          BY <1>4, <3>1, <3>4
        <5>3. Sound(n + 1, q + 1)'
          <6>1. spoilt = 0 => (prefixed(q + 1) <=> group[1] = E0)
            <7>1. spoilt = 0 => (prefixed(q + 1) <=> sent = 1 /\ group[1] = E0)
              BY <1>1, <1>3, <1>b DEF Prefixes
            <7>2. sent = 0 => group[1] # E0
              BY <1>4, <3>4 DEF IsPrefix
            <7> QED
              BY <1>3, <7>1, <7>2
          <6>2. prefixed(q + 1)' <=> prefixed(q + 1)
            BY <1>3, <1>7
          <6>3. e.sure => e.key = code_key(b, prefixed(q + 1)') /\ e.release = (b >= 128)
            BY <4>1, <6>1, <6>2 DEF code_key
          <6> QED
            BY <3>1, <4>3, <6>3 DEF Sound
        <5>4. \A i \in 1 .. n + 1 : i = n + 1 \/ i \in 1 .. n
          BY <1>3
        <5> QED
          BY Zenon, <4>5, <5>1, <5>2, <5>3, <5>4
      <4>9. Lined(h)'
        BY <3>1, <4>3, <4>5, <4>6, <4>7, <4>8 DEF Lined
      <4> QED
        BY <4>9
    <3> QED
      BY <3>3, <3>4
  <2> QED
    BY <2>3, <2>4
<1>11. ModsInv'
  <2> SUFFICES ASSUME ~ lost'
               PROVE  \E g : Reading(g)' /\ Settled(g[coming'], held', caps_presses')
    BY DEF ModsInv
  <2>1. ~ lost /\ kept
    BY <1>2
  <2>2. PICK g : Reading(g) /\ Settled(g[coming], held, caps_presses)
    BY <2>1 DEF KeyboardInv, ModsInv
  <2>3. /\ coming' = coming
        /\ \A i \in 1 .. coming : coming_key(i)' = coming_key(i) /\ coming_release(i)' = coming_release(i)
    <3>1. CASE ~ last
      <4>1. sending' = sending /\ due' = due
        BY <1>2, <3>1
      <4> QED
        BY <4>1 DEF coming, coming_key, coming_release
    <3>2. CASE last
      <4> DEFINE e == [key |-> meant(group).key, release |-> meant(group).release, sure |-> spoilt = 0]
      <4>1. e.key = meant(group).key /\ e.release = meant(group).release
        BY Zenon
      <4>2. due' = Append(due, e) /\ sending' = Tail(sending)
        BY Zenon, <1>2, <2>1, <3>2
      <4> HIDE DEF e
      <4>3. Len(due') = n + 1 /\ due'[n + 1] = e /\ \A i \in 1 .. n : due'[i] = due[i]
        BY <1>3, <1>a, <4>2
      <4>4. PICK s : s = Len(sending)
        OBVIOUS
      <4>5. s \in Nat \ {0} /\ Len(sending') = s - 1 /\ \A i \in 1 .. s - 1 : sending'[i] = sending[i + 1]
        BY <1>3, <4>2, <4>4
      <4>6. coming = n + s /\ coming' = n + s
        BY <1>3, <1>a, <4>3, <4>4, <4>5 DEF coming
      <4>7. ASSUME NEW i \in 1 .. n + s
            PROVE  coming_key(i)' = coming_key(i) /\ coming_release(i)' = coming_release(i)
        <5>1. CASE i <= n
          BY <1>3, <1>a, <4>3, <5>1 DEF coming_key, coming_release
        <5>2. CASE i = n + 1
          <6>1. ~ (i <= n) /\ i - n = 1 /\ i <= n + 1
            BY <1>3, <5>2
          <6> QED
            BY <1>3, <1>a, <4>1, <4>3, <5>2, <6>1 DEF coming_key, coming_release
        <5>3. CASE i > n + 1
          <6>1. ~ (i <= n) /\ ~ (i <= n + 1) /\ i - (n + 1) \in 1 .. s - 1 /\ (i - (n + 1)) + 1 = i - n
            BY <1>3, <4>5, <5>3
          <6>2. sending'[i - (n + 1)] = sending[i - n]
            BY <4>5, <6>1
          <6> QED
            BY <1>a, <4>3, <6>1, <6>2 DEF coming_key, coming_release
        <5>4. i <= n \/ i = n + 1 \/ i > n + 1
          <6>1. n \in Nat /\ s \in Nat
            BY <1>3, <4>5
          <6> QED
            BY <6>1
        <5> QED
          BY <5>1, <5>2, <5>3, <5>4
      <4> QED
        BY <4>6, <4>7
    <3> QED
      BY <3>1, <3>2
  <2>4. Reading(g)'
    BY <1>2, <2>2, <2>3 DEF Reading
  <2> QED
    BY <1>2, <2>2, <2>3, <2>4
<1> QED
  BY <1>5, <1>6, <1>8, <1>9, <1>10, <1>11 DEF KeyboardInv

-----------------------------------------------------------------------------
\* When poll finds a byte that is no prefix, the event it makes is the first
\* that is due.
LEMMA FirstCode ==
  ASSUME KeyboardInv, queue # <<>>, ~ IsPrefix(queue[1])
  PROVE  /\ Len(due) > 0
         /\ due[1].sure => /\ due[1].key = key_of(queue[1])
                           /\ due[1].release = (queue[1] >= 128)
         /\ \E f : Lined(f) /\ f[1] = 1
<1>1. PICK f : Lined(f)
  BY DEF KeyboardInv
<1>2. queue \in Seq(Byte) /\ Len(queue) \in Nat \ {0} /\ due \in Seq(Due)
  BY DEF KeyboardInv, DeviceTypes, GhostTypes
<1>3. PICK i \in 1 .. Len(due) : f[i] = 1
  BY <1>1, <1>2 DEF Lined
<1>4. Len(due) > 0 /\ 1 \in 1 .. Len(due)
  BY <1>2, <1>3
<1>5. f[1] = 1
  <2>1. f[1] \in 1 .. Len(queue) /\ (1 < i => f[1] < f[i])
    BY <1>1, <1>4 DEF Lined
  <2> QED
    BY <1>2, <1>3, <2>1
<1>6. Sound(1, 1)
  BY <1>1, <1>4, <1>5 DEF Lined
<1>7. code_key(queue[1], prefixed(1)) = key_of(queue[1])
  BY DEF code_key, key_of, prefixed, KeyboardInv, DriverTypes
<1> QED
  BY Zenon, <1>1, <1>4, <1>5, <1>6, <1>7 DEF Sound

\* poll reads a byte.
LEMMA PollStep ==
  ASSUME KeyboardInv, poll
  PROVE  KeyboardInv'
<1>a. PICK n : n = Len(due)
  OBVIOUS
<1>b. PICK q : q = Len(queue)
  OBVIOUS
<1>c. PICK sc : sc = queue[1]
  OBVIOUS
<1>1. DeviceTypes /\ DriverTypes /\ GhostTypes /\ Prefixes /\ Unspoilt
  BY DEF KeyboardInv
<1>2. /\ queue # <<>> /\ queue' = Tail(queue)
      /\ extended_prefix' = (sc = E0)
      /\ IsPrefix(sc) => mods' = mods /\ due' = due
      /\ ~ IsPrefix(sc) => mods' = next_mods(key_of(sc), sc >= 128) /\ due' = Tail(due)
      /\ held' = held /\ sending' = sending /\ sent' = sent /\ spoilt' = spoilt
      /\ lost' = lost /\ caps_presses' = caps_presses
  BY <1>c DEF poll, next_prefix, IsPrefix
<1>3. /\ queue \in Seq(Byte) /\ q \in Nat \ {0} /\ sc \in Byte
      /\ n \in Nat /\ due \in Seq(Due)
  BY <1>1, <1>2, <1>a, <1>b, <1>c DEF DeviceTypes, GhostTypes
<1>4. queue' \in Seq(Byte) /\ Len(queue') = q - 1 /\ \A p \in 1 .. q - 1 : queue'[p] = queue[p + 1]
  BY <1>2, <1>3, <1>b
<1>5. \A p \in 1 .. q : prefixed(p)' <=> prefixed(p + 1)
  <2> SUFFICES ASSUME NEW p \in 1 .. q  PROVE prefixed(p)' <=> prefixed(p + 1)
    OBVIOUS
  <2>1. CASE p = 1
    <3>1. prefixed(p)' <=> sc = E0
      <4>1. ~ (1 > 1)
        OBVIOUS
      <4> QED
        BY Zenon, <1>2, <2>1, <4>1 DEF prefixed
    <3>2. prefixed(p + 1) <=> sc = E0
      BY <1>c, <2>1 DEF prefixed
    <3> QED
      BY <3>1, <3>2
  <2>2. CASE p # 1
    <3>1. p > 1 /\ p - 1 \in 1 .. q - 1 /\ (p - 1) + 1 = p
      BY <1>3, <2>2
    <3>2. queue'[p - 1] = queue[p]
      BY <1>4, <3>1
    <3>3. p + 1 > 1 /\ p + 1 # 1 /\ (p + 1) - 1 = p
      BY <1>3
    <3> QED
      BY <2>2, <3>1, <3>2, <3>3 DEF prefixed
  <2> QED
    BY <2>1, <2>2
<1>6. ~ IsPrefix(sc) => /\ n > 0 /\ due' \in Seq(Due) /\ Len(due') = n - 1
                        /\ \A i \in 1 .. n - 1 : due'[i] = due[i + 1]
  <2> SUFFICES ASSUME ~ IsPrefix(sc)
               PROVE  /\ n > 0 /\ due' \in Seq(Due) /\ Len(due') = n - 1
                      /\ \A i \in 1 .. n - 1 : due'[i] = due[i + 1]
    OBVIOUS
  <2>1. n > 0
    BY <1>2, <1>a, <1>c, FirstCode
  <2>2. due' = Tail(due) /\ due # <<>>
    BY <1>2, <1>a, <2>1
  <2> QED
    BY <1>3, <1>a, <2>2
<1>7. DeviceTypes' /\ DriverTypes' /\ GhostTypes'
  <2>1. DeviceTypes'
    BY <1>1, <1>2, <1>4 DEF DeviceTypes
  <2>2. extended_prefix' \in BOOLEAN
    BY Zenon, <1>2
  <2>3. mods' \subseteq KeyMod
    BY <1>1, <1>2, ModifierRange DEF DriverTypes, next_mods, with_mod
  <2>4. due' \in Seq(Due)
    BY <1>2, <1>3, <1>6
  <2>5. GhostTypes'
    BY <1>1, <1>2, <2>4 DEF GhostTypes
  <2> QED
    BY <2>1, <2>2, <2>3, <2>5 DEF DriverTypes
<1>8. Prefixes'
  <2>1. (prefixed(Len(queue) + 1))' <=> prefixed(q)'
    <3>1. Len(queue') + 1 = q
      BY <1>3, <1>4
    <3> QED
      BY Zenon, <3>1 DEF prefixed
  <2>2. prefixed(q)' <=> prefixed(q + 1)
    BY <1>3, <1>5
  <2>3. Prefixes
    BY <1>1
  <2> QED
    BY Zenon, <1>2, <1>b, <2>1, <2>2, <2>3 DEF Prefixes
<1>9. Unspoilt'
  <2> SUFFICES ASSUME ~ lost  PROVE spoilt = 0 /\ \A i \in 1 .. Len(due') : due'[i].sure
    BY <1>2 DEF Unspoilt
  <2>1. spoilt = 0 /\ \A i \in 1 .. n : due[i].sure
    BY <1>1, <1>a DEF Unspoilt
  <2>2. CASE IsPrefix(sc)
    BY Zenon, <1>2, <1>a, <2>1, <2>2
  <2>3. CASE ~ IsPrefix(sc)
    <3>1. \A i \in 1 .. n - 1 : i + 1 \in 1 .. n
      BY <1>3
    <3> QED
      BY Zenon, <1>6, <2>1, <2>3, <3>1
  <2> QED
    BY <2>2, <2>3
<1>10. ASSUME NEW i, NEW j, NEW p \in 1 .. q - 1, due'[i] = due[j], Sound(j, p + 1)
       PROVE  Sound(i, p)'
  <2>1. p \in 1 .. q
    BY <1>3
  <2>2. code_key(queue'[p], prefixed(p)') = code_key(queue[p + 1], prefixed(p + 1))
    BY <1>4, <1>5, <2>1 DEF code_key
  <2>3. queue'[p] = queue[p + 1]
    BY <1>4
  <2> QED
    BY Zenon, <1>10, <2>2, <2>3 DEF Sound
<1>11. (\E f : Lined(f))'
  <2>1. CASE IsPrefix(sc)
    <3>1. PICK f : Lined(f)
      BY DEF KeyboardInv
    <3>2. /\ f \in [1 .. n -> 1 .. q]
          /\ \A i, j \in 1 .. n : i < j => f[i] < f[j]
          /\ \A p \in 1 .. q : IsPrefix(queue[p]) \/ \E i \in 1 .. n : f[i] = p
          /\ \A i \in 1 .. n : ~ IsPrefix(queue[f[i]]) /\ Sound(i, f[i])
      BY <1>a, <1>b, <3>1 DEF Lined
    <3>3. PICK h : h = [i \in 1 .. n |-> f[i] - 1]
      OBVIOUS
    <3>4. \A i \in 1 .. n : f[i] # 1 /\ f[i] \in 1 .. q
      BY <1>c, <2>1, <3>2
    <3>5. h \in [1 .. n -> 1 .. q - 1] /\ \A i \in 1 .. n : h[i] + 1 = f[i]
      BY <1>3, <3>3, <3>4
    <3>6. \A i, j \in 1 .. n : i < j => h[i] < h[j]
      BY <1>3, <3>2, <3>3, <3>4
    <3>7. \A p \in 1 .. q - 1 : IsPrefix(queue'[p]) \/ \E i \in 1 .. n : h[i] = p
      <4> SUFFICES ASSUME NEW p \in 1 .. q - 1, ~ IsPrefix(queue'[p])  PROVE \E i \in 1 .. n : h[i] = p
        OBVIOUS
      <4>1. p + 1 \in 1 .. q /\ queue'[p] = queue[p + 1]
        BY <1>3, <1>4
      <4>2. PICK i \in 1 .. n : f[i] = p + 1
        BY <3>2, <4>1
      <4>3. h[i] = p
        BY <3>3, <4>2
      <4> QED
        BY <4>3
    <3>8. \A i \in 1 .. n : ~ IsPrefix(queue'[h[i]]) /\ Sound(i, h[i])'
      <4> SUFFICES ASSUME NEW i \in 1 .. n  PROVE ~ IsPrefix(queue'[h[i]]) /\ Sound(i, h[i])'
        OBVIOUS
      <4>1. h[i] \in 1 .. q - 1 /\ queue'[h[i]] = queue[f[i]] /\ h[i] + 1 = f[i]
        BY <1>4, <3>5
      <4>2. due'[i] = due[i] /\ Sound(i, f[i])
        BY <1>2, <2>1, <3>2
      <4>3. Sound(i, h[i])'
        BY <1>10, <4>1, <4>2
      <4> QED
        BY <3>2, <4>1, <4>3
    <3>9. Lined(h)'
      BY <1>2, <1>4, <1>a, <2>1, <3>5, <3>6, <3>7, <3>8 DEF Lined
    <3> QED
      BY <3>9
  <2>2. CASE ~ IsPrefix(sc)
    <3>1. PICK f : Lined(f) /\ f[1] = 1
      BY <1>2, <1>c, <2>2, FirstCode
    <3>2. /\ f \in [1 .. n -> 1 .. q]
          /\ \A i, j \in 1 .. n : i < j => f[i] < f[j]
          /\ \A p \in 1 .. q : IsPrefix(queue[p]) \/ \E i \in 1 .. n : f[i] = p
          /\ \A i \in 1 .. n : ~ IsPrefix(queue[f[i]]) /\ Sound(i, f[i])
      BY <1>a, <1>b, <3>1 DEF Lined
    <3>3. PICK h : h = [i \in 1 .. n - 1 |-> f[i + 1] - 1]
      OBVIOUS
    <3>4. n \in Nat \ {0} /\ \A i \in 1 .. n - 1 : i + 1 \in 1 .. n /\ f[i + 1] \in 2 .. q
      <4>1. n \in Nat \ {0}
        BY <1>3, <1>6, <2>2
      <4> SUFFICES ASSUME NEW i \in 1 .. n - 1  PROVE i + 1 \in 1 .. n /\ f[i + 1] \in 2 .. q
        BY <4>1
      <4>2. i + 1 \in 1 .. n /\ 1 \in 1 .. n /\ 1 < i + 1
        BY <4>1
      <4>3. f[1] < f[i + 1] /\ f[i + 1] \in 1 .. q
        BY <3>2, <4>2
      <4> QED
        BY <1>3, <3>1, <4>2, <4>3
    <3>5. h \in [1 .. n - 1 -> 1 .. q - 1] /\ \A i \in 1 .. n - 1 : h[i] + 1 = f[i + 1]
      <4>1. \A i \in 1 .. n - 1 : f[i + 1] - 1 \in 1 .. q - 1 /\ (f[i + 1] - 1) + 1 = f[i + 1]
        BY <1>3, <3>4
      <4> QED
        BY Zenon, <3>3, <4>1
    <3>6. \A i, j \in 1 .. n - 1 : i < j => h[i] < h[j]
      <4> SUFFICES ASSUME NEW i \in 1 .. n - 1, NEW j \in 1 .. n - 1, i < j  PROVE h[i] < h[j]
        OBVIOUS
      <4>1. i + 1 \in 1 .. n /\ j + 1 \in 1 .. n /\ i + 1 < j + 1
        BY <3>4
      <4>2. f[i + 1] < f[j + 1]
        BY <3>2, <4>1
      <4> QED
        BY <1>3, <3>3, <3>4, <4>2
    <3>7. \A p \in 1 .. q - 1 : IsPrefix(queue'[p]) \/ \E i \in 1 .. n - 1 : h[i] = p
      <4> SUFFICES ASSUME NEW p \in 1 .. q - 1, ~ IsPrefix(queue'[p])
                   PROVE  \E i \in 1 .. n - 1 : h[i] = p
        OBVIOUS
      <4>1. p + 1 \in 1 .. q /\ queue'[p] = queue[p + 1] /\ p + 1 # 1
        BY <1>3, <1>4
      <4>2. PICK i \in 1 .. n : f[i] = p + 1
        BY <3>2, <4>1
      <4>3. i # 1
        BY <3>1, <4>1, <4>2
      <4>4. PICK k \in 1 .. n - 1 : i = k + 1
        BY <3>4, <4>3
      <4>5. h[k] = p
        BY <3>3, <4>2, <4>4
      <4> QED
        BY <4>5
    <3>8. \A i \in 1 .. n - 1 : ~ IsPrefix(queue'[h[i]]) /\ Sound(i, h[i])'
      <4> SUFFICES ASSUME NEW i \in 1 .. n - 1  PROVE ~ IsPrefix(queue'[h[i]]) /\ Sound(i, h[i])'
        OBVIOUS
      <4>1. h[i] \in 1 .. q - 1 /\ queue'[h[i]] = queue[f[i + 1]] /\ h[i] + 1 = f[i + 1]
        BY <1>4, <3>5
      <4>2. due'[i] = due[i + 1] /\ Sound(i + 1, f[i + 1]) /\ ~ IsPrefix(queue[f[i + 1]])
        BY <1>6, <2>2, <3>2, <3>4
      <4>3. Sound(i, h[i])'
        BY <1>10, <4>1, <4>2
      <4> QED
        BY <4>1, <4>2, <4>3
    <3>9. Lined(h)'
      BY <1>4, <1>6, <2>2, <3>5, <3>6, <3>7, <3>8 DEF Lined
    <3> QED
      BY <3>9
  <2> QED
    BY <2>1, <2>2
<1>12. ModsInv'
  <2> SUFFICES ASSUME ~ lost
               PROVE  \E g : Reading(g)' /\ Settled(g[coming'], held', caps_presses')
    BY <1>2 DEF ModsInv
  <2>1. PICK g : Reading(g) /\ Settled(g[coming], held, caps_presses)
    BY DEF KeyboardInv, ModsInv
  <2>2. PICK s : s = Len(sending)
    OBVIOUS
  <2>3. s \in Nat /\ coming = n + s
    BY <1>1, <1>a, <2>2 DEF coming, DeviceTypes
  <2>4. CASE IsPrefix(sc)
    <3>1. due' = due /\ sending' = sending /\ mods' = mods
      BY <1>2, <2>4
    <3>2. coming' = coming /\ \A i \in 1 .. n + s : /\ coming_key(i)' = coming_key(i)
                                                    /\ coming_release(i)' = coming_release(i)
      BY Zenon, <3>1 DEF coming, coming_key, coming_release
    <3>3. Reading(g)'
      BY <2>1, <2>3, <3>1, <3>2 DEF Reading
    <3> QED
      BY <1>2, <2>1, <3>2, <3>3
  <2>5. CASE ~ IsPrefix(sc)
    <3>1. /\ n \in Nat \ {0} /\ Len(due') = n - 1
          /\ \A i \in 1 .. n - 1 : due'[i] = due[i + 1]
      BY <1>3, <1>6, <2>5
    <3>2. coming' = (n + s) - 1
      BY <1>2, <2>2, <2>3, <3>1 DEF coming
    <3>3. ASSUME NEW i \in 1 .. (n + s) - 1
          PROVE  coming_key(i)' = coming_key(i + 1) /\ coming_release(i)' = coming_release(i + 1)
      <4>1. CASE i <= n - 1
        <5>1. i \in 1 .. n - 1 /\ i + 1 <= n
          BY <3>1, <4>1
        <5>2. due'[i] = due[i + 1]
          BY <3>1, <5>1
        <5> QED
          BY Zenon, <1>a, <3>1, <4>1, <5>1, <5>2 DEF coming_key, coming_release
      <4>2. CASE ~ (i <= n - 1)
        <5>1. ~ (i + 1 <= n) /\ i - (n - 1) = (i + 1) - n
          BY <3>1, <4>2
        <5> QED
          BY Zenon, <1>2, <1>a, <3>1, <4>2, <5>1 DEF coming_key, coming_release
      <4> QED
        BY Zenon, <4>1, <4>2
    <3>4. PICK h : h = [i \in 0 .. (n + s) - 1 |-> g[i + 1]]
      OBVIOUS
    <3>5. g \in [0 .. n + s -> SUBSET KeyMod] /\ g[0] = mods
          /\ \A i \in 1 .. n + s : g[i] = after(g[i - 1], coming_key(i), coming_release(i))
      BY <2>1, <2>3 DEF Reading
    <3>6. h \in [0 .. (n + s) - 1 -> SUBSET KeyMod] /\ h[(n + s) - 1] = g[n + s]
      BY <2>3, <3>1, <3>4, <3>5
    <3>7. h[0] = mods'
      <4>1. 1 \in 1 .. n + s /\ 1 <= n /\ 1 - 1 = 0 /\ 0 \in 0 .. (n + s) - 1 /\ 0 + 1 = 1 /\ 1 \in 1 .. n
        BY <2>3, <3>1
      <4>2. h[0] = after(mods, coming_key(1), coming_release(1))
        BY Zenon, <3>4, <3>5, <4>1
      <4>3. coming_key(1) = due[1].key /\ coming_release(1) = due[1].release
        BY Zenon, <1>a, <4>1 DEF coming_key, coming_release
      <4>4. due[1].sure
        BY Zenon, <1>1, <1>a, <4>1 DEF Unspoilt
      <4>5. due[1].key = key_of(sc) /\ due[1].release = (sc >= 128)
        BY Zenon, <1>2, <1>c, <2>5, <4>4, FirstCode
      <4>6. mods' = next_mods(key_of(sc), sc >= 128)
        BY Zenon, <1>2, <2>5
      <4>7. next_mods(key_of(sc), sc >= 128) = after(mods, key_of(sc), sc >= 128)
        BY Zenon DEF next_mods, after, with_mod
      <4> QED
        BY Zenon, <4>2, <4>3, <4>5, <4>6, <4>7
    <3>8. \A i \in 1 .. (n + s) - 1 : h[i] = after(h[i - 1], coming_key(i)', coming_release(i)')
      <4> SUFFICES ASSUME NEW i \in 1 .. (n + s) - 1
                   PROVE  h[i] = after(h[i - 1], coming_key(i)', coming_release(i)')
        OBVIOUS
      <4>1. /\ i \in 0 .. (n + s) - 1 /\ i - 1 \in 0 .. (n + s) - 1
            /\ i + 1 \in 1 .. n + s /\ (i + 1) - 1 = i /\ (i - 1) + 1 = i
        BY <2>3, <3>1
      <4>2. h[i] = g[i + 1] /\ h[i - 1] = g[i]
        BY <3>4, <4>1
      <4>3. g[i + 1] = after(g[i], coming_key(i + 1), coming_release(i + 1))
        BY Zenon, <3>5, <4>1
      <4> QED
        BY Zenon, <3>3, <4>2, <4>3
    <3>9. Reading(h)'
      BY <3>2, <3>6, <3>7, <3>8 DEF Reading
    <3>10. Settled(h[coming'], held', caps_presses')
      BY <1>2, <2>1, <2>3, <3>2, <3>6
    <3> QED
      BY <3>9, <3>10
  <2> QED
    BY <2>4, <2>5
<1> QED
  BY <1>7, <1>8, <1>9, <1>11, <1>12 DEF KeyboardInv

\* Every step keeps the invariant.
LEMMA StepInv ==
  KeyboardInv /\ [KeyboardNext]_kb_vars => KeyboardInv'
<1> SUFFICES ASSUME KeyboardInv, [KeyboardNext]_kb_vars  PROVE KeyboardInv'
  OBVIOUS
<1>1. ASSUME NEW key \in Keys, Press(key)  PROVE KeyboardInv'
  <2>1. use(key, FALSE) /\ held' = IF FALSE THEN held \ {key} ELSE held \cup {key}
    BY <1>1 DEF Press
  <2> QED
    BY Zenon, <2>1, UseStep
<1>2. ASSUME NEW key \in Keys, Release(key)  PROVE KeyboardInv'
  <2>1. use(key, TRUE) /\ held' = IF TRUE THEN held \ {key} ELSE held \cup {key}
    BY <1>2 DEF Release
  <2> QED
    BY Zenon, <2>1, UseStep
<1>3. CASE SendByte
  BY <1>3, SendStep
<1>4. CASE poll
  BY <1>4, PollStep
<1>5. CASE UNCHANGED kb_vars
  <2> USE <1>5 DEF kb_vars, device_vars, driver_vars, ghost_vars
  <2>1. DeviceTypes' /\ DriverTypes' /\ GhostTypes'
    BY DEF KeyboardInv, DeviceTypes, DriverTypes, GhostTypes
  <2>2. (\E f : Lined(f))'
    <3>1. PICK f : Lined(f)
      BY DEF KeyboardInv
    <3>2. Lined(f)'
      BY <3>1 DEF Lined, Sound, prefixed
    <3> QED
      BY <3>2
  <2>3. Prefixes' /\ Unspoilt'
    BY DEF KeyboardInv, Prefixes, Unspoilt, prefixed
  <2>4. ModsInv'
    BY DEF KeyboardInv, ModsInv, Reading, coming, coming_key, coming_release
  <2> QED
    BY <2>1, <2>2, <2>3, <2>4 DEF KeyboardInv
<1> QED
  BY <1>1, <1>2, <1>3, <1>4, <1>5 DEF KeyboardNext

\* The invariant holds always, for every set of keys and every size of the
\* controller's queue.
THEOREM KeyboardInvariant == KeyboardSpec => []KeyboardInv
BY InitInv, StepInv, PTL DEF KeyboardSpec

\* PS2Keyboard::poll_raw and poll: an event is that of the key whose code the
\* byte is, and a byte that the controller drops spoils at most the event it
\* belongs to and the next one, wherever in the stream bytes are lost.
THEOREM KeyboardEvents == KeyboardSpec => EventsAreKeys
<1>1. ASSUME KeyboardInv, poll, event' # NoEvent, Head(due).sure
      PROVE  event' = [key |-> Head(due).key, release |-> Head(due).release]
  <2>1. ~ IsPrefix(queue[1]) /\ queue # <<>>
        /\ event' = [key |-> key_of(queue[1]), release |-> queue[1] >= 128]
    BY <1>1 DEF poll, IsPrefix
  <2>2. Len(due) > 0 /\ due \in Seq(Due)
    BY <1>1, <2>1, FirstCode DEF KeyboardInv, GhostTypes
  <2>3. Head(due) = due[1]
    BY <2>2
  <2> QED
    BY Zenon, <1>1, <2>1, <2>3, FirstCode
<1>2. KeyboardInv /\ [KeyboardNext]_kb_vars
        => [poll /\ event' # NoEvent /\ Head(due).sure
              => event' = [key |-> Head(due).key, release |-> Head(due).release]]_kb_vars
  BY Zenon, <1>1
<1> QED
  BY <1>2, KeyboardInvariant, PTL DEF KeyboardSpec, EventsAreKeys

\* PS2Keyboard::poll: while no byte is lost, once everything is read the
\* modifiers are those of keys still down and Caps Lock is on after an odd number
\* of presses, so with every key up the keys type what Caps Lock says; Pause and
\* two keys of one modifier do not break it, however long the kernel runs.
THEOREM KeyboardModifiers == KeyboardSpec => []NoStuckModifier
<1>1. KeyboardInv => NoStuckModifier
  <2> SUFFICES ASSUME KeyboardInv, drained, ~ lost
               PROVE  /\ \A bit \in mods : \/ bit \in {"CapsLock", "NumLock", "ScrollLock"}
                                           \/ \E key \in held : modifier_for_key(key) = bit
                      /\ held = {} => \A k \in DOMAIN KEYMAP :
                           key_event_to_char([key |-> k, release |-> FALSE], mods) =
                             IF is_letter(KEYMAP[k].normal) /\ caps_presses % 2 = 1
                               THEN KEYMAP[k].shifted ELSE KEYMAP[k].normal
    BY DEF NoStuckModifier
  <2>1. Len(due) = 0
    <3>1. PICK f : Lined(f)
      BY DEF KeyboardInv
    <3>2. Len(due) \in Nat /\ Len(queue) = 0
      BY DEF KeyboardInv, GhostTypes, drained
    <3> QED
      BY <3>1, <3>2 DEF Lined
  <2>2. coming = 0
    BY <2>1 DEF coming, drained
  <2>3. Settled(mods, held, caps_presses)
    BY <2>2 DEF KeyboardInv, ModsInv, Reading
  <2>4. ASSUME held = {}, NEW k \in DOMAIN KEYMAP
        PROVE  key_event_to_char([key |-> k, release |-> FALSE], mods) =
                 IF is_letter(KEYMAP[k].normal) /\ caps_presses % 2 = 1
                   THEN KEYMAP[k].shifted ELSE KEYMAP[k].normal
    <3>1. "Shift" \notin mods /\ ~ any_mod(mods, {"Ctrl", "Alt"})
      BY <2>3, <2>4 DEF Settled, Locks, any_mod
    <3>2. "CapsLock" \in mods <=> caps_presses % 2 = 1
      BY <2>3 DEF Settled
    <3> DEFINE ev == [key |-> k, release |-> FALSE]
    <3>3. ev.key = k /\ ev.release = FALSE
      OBVIOUS
    <3> HIDE DEF ev
    <3>4. CASE is_letter(KEYMAP[k].normal)
      <4>1. ("Shift" \in mods) # ("CapsLock" \in mods) <=> "CapsLock" \in mods
        BY <3>1
      <4> QED
        BY <2>4, <3>1, <3>2, <3>3, <3>4, <4>1 DEF key_event_to_char
    <3>5. CASE ~ is_letter(KEYMAP[k].normal)
      BY <2>4, <3>1, <3>2, <3>3, <3>5 DEF key_event_to_char
    <3> QED
      BY <3>4, <3>5 DEF ev
  <2> QED
    BY <2>3, <2>4 DEF Settled, Locks
<1> QED
  BY <1>1, KeyboardInvariant, PTL
=============================================================================
