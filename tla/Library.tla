------------------------------ MODULE Library -------------------------------
(***************************************************************************)
(* The functions without state that the rest is built on: moves of memory, *)
(* comparisons of strings, powers of two and conversions of sizes.  A call *)
(* gives a result; the properties compare it with what the function is     *)
(* for.  Bytes and words are small, addresses start at nullptr = 0.  The   *)
(* numbers of a log message are printed by module Logging.                 *)
(***************************************************************************)
EXTENDS Integers, Sequences, FiniteSets, FiniteSetsExt, SequencesExt, Logging

CONSTANTS WordBytes,   \* sizeof(size_t)
          MemorySize,  \* bound: addresses below it
          Bits,        \* width of the numbers
          Byte,        \* 0 .. 2^n - 1, the values of unsigned char
          StringLength \* bound: length of the strings compared

VARIABLES call, result

library_vars == <<call, result>>

\* Memory, a byte of its own at every address.
Memory == [a \in 0 .. MemorySize - 1 |-> a]

\* A loop that copies the units in the order given, from memory as it is then.
copy_loop(mem, dest, src, unit, order) ==
  FoldLeft(LAMBDA m, i : [a \in DOMAIN m |->
             IF dest + i * unit <= a /\ a < dest + (i + 1) * unit THEN m[src + a - dest] ELSE m[a]],
           mem, order)

upwards(n)   == [i \in 1 .. n |-> i - 1]
downwards(n) == [i \in 1 .. n |-> n - i]

unit_of(dest, src, count) ==
  IF dest % WordBytes = 0 /\ src % WordBytes = 0 /\ count % WordBytes = 0 THEN WordBytes ELSE 1

memcpy_loop(dest, src, count) ==
  LET u == unit_of(dest, src, count) IN copy_loop(Memory, dest, src, u, upwards(count \div u))

\* Mutant: always upwards.
memmove_loop_up(dest, src, count) ==
  LET u == unit_of(dest, src, count) IN copy_loop(Memory, dest, src, u, upwards(count \div u))

memmove_loop(dest, src, count) ==
  LET u == unit_of(dest, src, count)
      n == count \div u
  IN  IF dest = 0 \/ src = 0 THEN Memory
      ELSE copy_loop(Memory, dest, src, u, IF dest <= src THEN upwards(n) ELSE downwards(n))

\* __memcpy_chk and __memmove_chk clamp instead of aborting.
clamped(len, destlen) == IF len > destlen THEN destlen ELSE len

memset(dest, ch, count) ==
  [a \in DOMAIN Memory |-> IF dest <= a /\ a < dest + count THEN ch % Cardinality(Byte) ELSE Memory[a]]

-----------------------------------------------------------------------------
strlen(s) == Min({i \in 0 .. Len(s) - 1 : s[i + 1] = 0})

order_of(a, b) == IF a < b THEN -1 ELSE 1

first_difference(l, r, count) ==
  LET ds == {i \in 1 .. count : l[i] # r[i]} IN IF ds = {} THEN 0 ELSE Min(ds)

memcmp(l, r, count) ==
  LET i == first_difference(l, r, count) IN IF i = 0 THEN 0 ELSE order_of(l[i], r[i])

\* char is signed.
char(b) == IF b >= Cardinality(Byte) \div 2 THEN b - Cardinality(Byte) ELSE b

\* strncmp: memcmp of chars; it does not stop at a NUL.
strncmp(l, r, count) ==
  LET i == first_difference(l, r, count) IN IF i = 0 THEN 0 ELSE order_of(char(l[i]), char(r[i]))

-----------------------------------------------------------------------------
Number == 0 .. 2 ^ Bits - 1
bits(x)   == {b \in 0 .. Bits - 1 : (x \div 2 ^ b) % 2 = 1}
number(s) == FoldSet(LAMBDA b, n : n + 2 ^ b, 0, s)

\* x |= x >> 1, 2, 4, 8, 16.
smeared(x) ==
  FoldLeft(LAMBDA n, k : number(bits(n) \cup {b - k : b \in {c \in bits(n) : c >= k}}),
           x, <<1, 2, 4, 8, 16>>)

flp2_smeared(x) == smeared(x) - smeared(x) \div 2

clp2_smeared(x) == (smeared((x - 1) % 2 ^ Bits) + 1) % 2 ^ Bits

ipo2(x) == bits(x) \cap bits((x - 1) % 2 ^ Bits) = {}
oiz(x)  == IF x # 0 THEN x ELSE x + 1

save_div(bytes, unit) ==
  IF unit = 0 THEN 0
  ELSE IF bytes % unit # 0 THEN bytes \div unit + 1 ELSE bytes \div unit

-----------------------------------------------------------------------------
Address == 0 .. MemorySize - 1
Strings == {s \in [1 .. StringLength + 1 -> Byte] : s[StringLength + 1] = 0}

fits(a, count) == a + count <= MemorySize

Apart(a, b, count) == a + count <= b \/ b + count <= a

Idle == call.fn = "none"

Return(c, r) == call' = c /\ result' = r

CallMemory ==
  \E dest, src, count, destlen \in Address :
    LET n == clamped(count, destlen) IN
    /\ fits(dest, n) /\ fits(src, n)
    /\ \/ Return([fn |-> "memmove", dest |-> dest, src |-> src, count |-> n], memmove_loop(dest, src, n))
       \/ /\ Apart(dest, src, n)
          /\ Return([fn |-> "memcpy", dest |-> dest, src |-> src, count |-> n], memcpy_loop(dest, src, n))
       \/ Return([fn |-> "memset", dest |-> dest, src |-> src, count |-> n], memset(dest, src, n))

CallString ==
  \E l, r \in Strings : \E count \in 0 .. StringLength + 1 :
    \/ Return([fn |-> "strncmp", l |-> l, r |-> r, count |-> count], strncmp(l, r, count))
    \/ Return([fn |-> "memcmp", l |-> l, r |-> r, count |-> count], memcmp(l, r, count))

CallBits ==
  \E x \in Number :
    Return([fn |-> "bits", x |-> x],
           [flp2 |-> flp2_smeared(x), clp2 |-> clp2_smeared(x), ipo2 |-> ipo2(x), oiz |-> oiz(x)])

CallUnits ==
  \E bytes, unit \in Number :
    Return([fn |-> "save_div", bytes |-> bytes, unit |-> unit], save_div(bytes, unit))

CallPrint ==
  \E x \in Number, base \in 0 .. 17 :
    Return([fn |-> "print_uint", x |-> x, base |-> base], print_uint(x, base))

LibraryInit == call = [fn |-> "none"] /\ result = 0
\* The next call.
Leave == ~ Idle /\ call' = [fn |-> "none"] /\ result' = 0

LibraryNext ==
  \/ Leave
  \/ Idle /\ (CallMemory \/ CallString \/ CallBits \/ CallUnits \/ CallPrint)

-----------------------------------------------------------------------------
\* memmove, word by word or byte by byte, upwards or downwards, leaves in the
\* destination what the source held before, however the two overlap, and every
\* other byte alone; memcpy does so for what does not overlap.  A move from or
\* to nullptr does nothing.
MovesWhatWasThere ==
  (~ Idle /\ call.fn \in {"memmove", "memcpy"} /\ (call.fn = "memcpy" \/ (call.dest # 0 /\ call.src # 0))) =>
    result = [a \in Address |-> IF call.dest <= a /\ a < call.dest + call.count
                                  THEN call.src + a - call.dest ELSE a]

\* C's comparison: by the first of count bytes that differ, as unsigned char,
\* of those up to a byte both have that ends it.
c_compare(l, r, count, ends) ==
  LET k == Min({count + 1} \cup {j \in 1 .. count : l[j] # r[j] \/ l[j] \in ends})
  IN  IF k > count \/ l[k] = r[k] THEN 0 ELSE order_of(l[k], r[k])

\* memcmp answers as C's.  strncmp answers as C's strncmp, with two exceptions:
\* it does not stop at a NUL, so that strings that are equal and differ behind
\* their end are told apart; and it compares chars, which are signed, so that
\* its sign is the opposite of C's when one of the two bytes that differ is in
\* the upper half of Byte and the other is not.  Over the strlen of one string
\* and its NUL it tells exactly whether they are the same string.
ComparesLikeC ==
  /\ (~ Idle /\ call.fn = "memcmp") => result = c_compare(call.l, call.r, call.count, {})
  /\ (~ Idle /\ call.fn = "strncmp") =>
       LET c == c_compare(call.l, call.r, call.count, {0})
           i == first_difference(call.l, call.r, call.count)
           upper(b) == b >= Cardinality(Byte) \div 2
       IN  /\ i = 0 => result = 0
           /\ c = 0 => (result = 0) = (i = 0)
           /\ c # 0 => result = (IF upper(call.l[i]) = upper(call.r[i]) THEN c ELSE - c)
           /\ call.count = strlen(call.l) + 1 =>
                (result = 0) = (/\ strlen(call.l) = strlen(call.r)
                                /\ \A k \in 1 .. strlen(call.l) : call.l[k] = call.r[k])

\* clp2 and flp2 are the nearest powers of two, the one above being 0 when it
\* does not fit the word, ipo2 says which numbers they leave alone (and 0), and
\* oiz is never zero.
NearestPowers ==
  (~ Idle /\ call.fn = "bits") =>
    LET p == {2 ^ b : b \in 0 .. Bits}
        x == call.x
    IN  /\ x > 0 => /\ result.flp2 = Max({q \in p : q <= x})
                    /\ result.clp2 = Min({q \in p : q >= x}) % 2 ^ Bits
                    /\ result.ipo2 = (x \in p)
        /\ x = 0 => result.flp2 = 0 /\ result.clp2 = 0
        /\ result.oiz > 0

\* save_div is the fewest units that hold the bytes.
FewestUnits ==
  (~ Idle /\ call.fn = "save_div" /\ call.unit > 0) =>
    /\ result * call.unit >= call.bytes
    /\ (result - 1) * call.unit < call.bytes

\* The number print_uint writes is the one it was given, read in its base,
\* without a zero in front; nothing is written for a base without digits.
NumbersReadBack ==
  (~ Idle /\ call.fn = "print_uint") =>
    IF call.base \notin 2 .. 16 THEN result = <<>>
    ELSE /\ FoldLeft(LAMBDA n, d : call.base * n + (CHOOSE v \in 0 .. 15 : Digit[v + 1] = d), 0, result) = call.x
         /\ (result[1] = "0") = (call.x = 0)

\* Every call answers what the function is for, on every input.
CallsMatchReference ==
  MovesWhatWasThere /\ ComparesLikeC /\ NearestPowers /\ FewestUnits /\ NumbersReadBack
=============================================================================
