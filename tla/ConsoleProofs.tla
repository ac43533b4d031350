--------------------------- MODULE ConsoleProofs ----------------------------
(***************************************************************************)
(* Proofs about the console: Shell::run over Tty::readline over TextArea,  *)
(* for any characters, prompt, display, command names and texts, and any   *)
(* keys in any order.  The line that is executed is the line on the        *)
(* display, the cursor on the display is the gap of the buffer, every      *)
(* prompt is at the end of the text, the window and its pixels are inside  *)
(* text and framebuffer, and the arguments of a command are the words of   *)
(* its line.                                                               *)
(*                                                                         *)
(* A recursive function is unfolded with the lemmas on iteration of        *)
(* Arithmetic.                                                             *)
(***************************************************************************)
EXTENDS Console, Arithmetic, SequenceTheorems

-----------------------------------------------------------------------------
(* The lines of a text.                                                    *)

TextOK(a) == a.text \in Seq(Char)

\* How many newlines are left of an index.
Above(a, i) == {j \in newlines(a) : j < i}
Row(a, i)   == Cardinality(Above(a, i))

\* The number and the start of the last line.
row(a)  == count_lines(a) - 1
last(a) == line_start_index(a, row(a))

\* Size of a text, its newlines and its lines.
LEMMA Newlines ==
  ASSUME NEW a, TextOK(a)
  PROVE  /\ count(a) \in Nat
         /\ newlines(a) \subseteq 0 .. count(a) - 1 /\ newlines(a) \subseteq Nat
         /\ IsFiniteSet(newlines(a))
         /\ row(a) \in Nat /\ row(a) = Cardinality(newlines(a)) /\ count_lines(a) = row(a) + 1
<1>1. count(a) \in Nat
  BY DEF TextOK, count
<1>2. newlines(a) \subseteq 0 .. count(a) - 1
  BY DEF newlines
<1>3. IsFiniteSet(0 .. count(a) - 1)
  BY <1>1, FS_Interval
<1>4. IsFiniteSet(newlines(a))
  BY <1>2, <1>3, FS_Subset
<1>5. Cardinality(newlines(a)) \in Nat
  BY <1>4, FS_CardinalityType
<1> QED
  BY <1>1, <1>2, <1>4, <1>5 DEF row, count_lines

\* The line of an index is one of the text.
LEMMA RowIsNat ==
  ASSUME NEW a, TextOK(a), NEW i
  PROVE  /\ IsFiniteSet(Above(a, i)) /\ Above(a, i) \subseteq newlines(a)
         /\ Row(a, i) \in 0 .. row(a)
         /\ Row(a, i) = row(a) => Above(a, i) = newlines(a)
<1>1. Above(a, i) \subseteq newlines(a)
  BY DEF Above
<1>2. IsFiniteSet(Above(a, i)) /\ Cardinality(Above(a, i)) <= Cardinality(newlines(a))
      /\ (Cardinality(newlines(a)) = Cardinality(Above(a, i)) => newlines(a) = Above(a, i))
  BY <1>1, Newlines, FS_Subset
<1>3. Cardinality(Above(a, i)) \in Nat
  BY <1>2, FS_CardinalityType
<1> QED
  BY <1>1, <1>2, <1>3, Newlines DEF Row

\* Lines are numbered from the top.
LEMMA RowOrder ==
  ASSUME NEW a, TextOK(a), NEW i \in Nat, NEW k \in Nat, i <= k
  PROVE  Row(a, i) <= Row(a, k)
<1>1. Above(a, i) \subseteq Above(a, k)
  BY Newlines DEF Above
<1> QED
  BY <1>1, RowIsNat, FS_Subset DEF Row

\* A newline starts a line.
LEMMA RowSteps ==
  ASSUME NEW a, TextOK(a), NEW i \in newlines(a), NEW k \in Nat, i < k
  PROVE  Row(a, i) + 1 <= Row(a, k)
<1>1. i \in Nat /\ i \notin Above(a, i)
  BY Newlines DEF Above
<1>2. Above(a, i) \cup {i} \subseteq Above(a, k)
  BY <1>1, Newlines DEF Above
<1>3. Cardinality(Above(a, i) \cup {i}) = Row(a, i) + 1
  BY <1>1, RowIsNat, FS_AddElement DEF Row
<1>4. Cardinality(Above(a, i) \cup {i}) <= Cardinality(Above(a, k))
  BY <1>2, RowIsNat, FS_Subset
<1> QED
  BY <1>3, <1>4 DEF Row

\* The k-th newline.
LEMMA RowTaken ==
  ASSUME NEW a, TextOK(a), NEW k \in 0 .. row(a) - 1
  PROVE  \E i \in newlines(a) : Row(a, i) = k
<1> DEFINE T == {n \in 0 .. row(a) - 1 : \E i \in newlines(a) : Row(a, i) = n}
<1>0. row(a) \in Nat \ {0} /\ newlines(a) # {} /\ newlines(a) \in SUBSET Nat
  BY Newlines, FS_EmptySet
<1>1. 0 \in T
  <2>1. PICK i \in newlines(a) : \A j \in newlines(a) : i <= j
    BY <1>0, LeastNat
  <2>2. Above(a, i) = {}
    BY <1>0, <2>1 DEF Above
  <2> QED
    BY <1>0, <2>2, FS_EmptySet DEF Row
<1>2. ASSUME NEW n \in 0 .. (row(a) - 1) - 1, n \in T  PROVE n + 1 \in T
  <2>1. PICK i \in newlines(a) : Row(a, i) = n
    BY <1>2
  <2> DEFINE below == newlines(a) \ (Above(a, i) \cup {i})
  <2>2. Cardinality(Above(a, i) \cup {i}) = n + 1 /\ IsFiniteSet(Above(a, i) \cup {i})
    <3>1. i \notin Above(a, i)
      BY <1>0, <2>1 DEF Above
    <3> QED
      BY <2>1, <3>1, RowIsNat, FS_AddElement DEF Row
  <2>3. below # {}
    <3>1. SUFFICES ASSUME newlines(a) = Above(a, i) \cup {i}  PROVE FALSE
      BY <2>1, RowIsNat
    <3>2. row(a) = n + 1
      BY <2>2, <3>1, Newlines
    <3> QED
      BY <1>0, <3>2
  <2>4. PICK k1 \in below : \A j \in below : k1 <= j
    <3>1. below \in SUBSET Nat
      BY <1>0
    <3> HIDE DEF below
    <3> QED
      BY <2>3, <3>1, LeastNat
  <2>5. Above(a, k1) = Above(a, i) \cup {i}
    <3>1. k1 \in Nat /\ i \in Nat /\ k1 > i
      BY <1>0, <2>4 DEF Above
    <3>2. ASSUME NEW j \in newlines(a), j < k1  PROVE j \in Above(a, i) \cup {i}
      <4>1. j \notin below
        BY <1>0, <2>4, <3>1, <3>2
      <4> QED
        BY <3>2, <4>1
    <3>3. ASSUME NEW j \in Above(a, i) \cup {i}  PROVE j \in newlines(a) /\ j < k1
      BY <1>0, <2>1, <3>1, <3>3 DEF Above
    <3> QED
      BY <3>2, <3>3 DEF Above
  <2>6. Row(a, k1) = n + 1
    BY <2>2, <2>5 DEF Row
  <2> QED
    BY <1>0, <2>4, <2>6
<1>3. \A n \in 0 .. row(a) - 1 : n \in T
  <2>1. row(a) - 1 \in Nat
    BY <1>0
  <2> HIDE DEF T
  <2> QED
    BY <1>1, <1>2, <2>1, Induction
<1> QED
  BY <1>3

\* A line starts where its number is first reached.
LEMMA LineStart ==
  ASSUME NEW a, TextOK(a), NEW k \in 0 .. row(a)
  PROVE  /\ line_start_index(a, k) \in 0 .. count(a)
         /\ Row(a, line_start_index(a, k)) = k
         /\ k > 0 => line_start_index(a, k) - 1 \in newlines(a)
         /\ \A i \in Nat : i < line_start_index(a, k) => Row(a, i) < k
<1> DEFINE start == line_start_index(a, k)
<1>0. newlines(a) \subseteq 0 .. count(a) - 1 /\ row(a) \in Nat /\ count(a) \in Nat
  BY Newlines
<1>1. CASE k = 0
  <2>1. start = 0
    BY <1>1 DEF line_start_index
  <2>2. Above(a, 0) = {}
    BY <1>0 DEF Above
  <2>3. Row(a, 0) = 0
    BY <2>2, FS_EmptySet DEF Row
  <2> QED
    BY <1>0, <1>1, <2>1, <2>3
<1>2. CASE k # 0
  <2>1. PICK e \in newlines(a) : Row(a, e) = k - 1
    BY <1>0, <1>2, RowTaken
  <2>2. ASSUME NEW i \in newlines(a), Row(a, i) = k - 1  PROVE i = e
    <3>1. i \in Nat /\ e \in Nat
      BY <1>0
    <3>2. ~ (i < e) /\ ~ (e < i)
      BY <2>1, <2>2, <3>1, RowSteps, RowIsNat
    <3> QED
      BY <3>1, <3>2
  <2>3. {i \in newlines(a) : Row(a, i) = k - 1} = {e}
    BY <2>1, <2>2
  <2>4. start = 1 + e
    BY <1>2, <2>3 DEF line_start_index, Row, Above
  <2>5. Row(a, e + 1) = k
    <3>1. Above(a, e + 1) = Above(a, e) \cup {e} /\ e \notin Above(a, e)
      BY <1>0, <2>1 DEF Above
    <3>2. Cardinality(Above(a, e) \cup {e}) = Cardinality(Above(a, e)) + 1
      BY <3>1, RowIsNat, FS_AddElement
    <3>3. Row(a, e + 1) = (k - 1) + 1
      BY <2>1, <3>1, <3>2 DEF Row
    <3> QED
      BY <1>0, <3>3
  <2>6. ASSUME NEW i \in Nat, i < start  PROVE Row(a, i) < k
    <3>1. e \in Nat /\ i <= e
      BY <1>0, <2>4, <2>6
    <3>2. Row(a, i) <= Row(a, e)
      BY <3>1, RowOrder
    <3>3. Row(a, i) \in Nat
      BY RowIsNat
    <3> QED
      BY <1>0, <2>1, <3>2, <3>3
  <2>7. start \in 0 .. count(a) /\ start - 1 = e
    BY <1>0, <2>4
  <2> QED
    BY <2>1, <2>4, <2>5, <2>6, <2>7
<1> QED
  BY <1>1, <1>2

\* Past the last line there is only the end.
LEMMA LineBeyond ==
  ASSUME NEW a, TextOK(a), NEW k \in Nat, k > row(a)
  PROVE  line_start_index(a, k) = count(a)
<1>1. ASSUME NEW i \in newlines(a)  PROVE Row(a, i) # k - 1
  <2>1. i \in Nat /\ i \notin Above(a, i) /\ row(a) \in Nat
    BY Newlines DEF Above
  <2>2. Row(a, i) # row(a) /\ Row(a, i) \in 0 .. row(a)
    BY <2>1, RowIsNat
  <2> QED
    BY <2>1, <2>2
<1>2. {i \in newlines(a) : Row(a, i) = k - 1} = {}
  BY <1>1
<1>3. k # 0
  BY Newlines
<1> QED
  BY <1>2, <1>3 DEF line_start_index, Row, Above

\* A start of the last line: no newline is behind it.
IsStart(s, p) ==
  /\ p \in 0 .. Len(s)
  /\ p > 0 => s[p] = NL
  /\ \A i \in p + 1 .. Len(s) : s[i] # NL

\* A text has one last line.
LEMMA StartUnique ==
  ASSUME NEW s \in Seq(Char), NEW p, NEW q, IsStart(s, p), IsStart(s, q)
  PROVE  p = q
  BY DEF IsStart

\* last(a) is where the last line starts.
LEMMA LastIs ==
  ASSUME NEW a, TextOK(a)
  PROVE  /\ IsStart(a.text, last(a)) /\ last(a) \in 0 .. count(a)
         /\ Row(a, last(a)) = row(a)
         /\ \A j \in newlines(a) : j < last(a)
         /\ \A i \in Nat : i < last(a) => Row(a, i) < row(a)
<1>0. newlines(a) \subseteq 0 .. count(a) - 1 /\ row(a) \in Nat /\ count(a) \in Nat
      /\ row(a) = Cardinality(newlines(a)) /\ IsFiniteSet(newlines(a))
  BY Newlines
<1>1. /\ last(a) \in 0 .. count(a)
      /\ Row(a, last(a)) = row(a)
      /\ row(a) > 0 => last(a) - 1 \in newlines(a)
      /\ \A i \in Nat : i < last(a) => Row(a, i) < row(a)
  BY <1>0, LineStart DEF last
<1>2. Above(a, last(a)) = newlines(a)
  BY <1>1, RowIsNat
<1>3. \A j \in newlines(a) : j < last(a)
  BY <1>2 DEF Above
<1>4. ASSUME NEW i \in last(a) + 1 .. Len(a.text)  PROVE a.text[i] # NL
  <2>1. i - 1 \in 0 .. count(a) - 1 /\ ~ (i - 1 < last(a)) /\ (i - 1) + 1 = i
    BY <1>0, <1>1 DEF count
  <2>2. i - 1 \notin newlines(a)
    BY <1>3, <2>1
  <2> QED
    BY <2>1, <2>2 DEF newlines
<1>5. last(a) > 0 => a.text[last(a)] = NL
  <2>1. SUFFICES ASSUME last(a) > 0  PROVE a.text[last(a)] = NL
    OBVIOUS
  <2>2. row(a) > 0
    <3>1. Row(a, 0) \in Nat /\ Row(a, 0) < row(a)
      BY <1>0, <1>1, <2>1, RowIsNat
    <3> QED
      BY <1>0, <3>1
  <2>3. last(a) - 1 \in newlines(a)
    BY <1>1, <2>2
  <2>4. (last(a) - 1) + 1 = last(a)
    BY <1>1
  <2> QED
    BY <2>3, <2>4 DEF newlines
<1> QED
  BY <1>1, <1>3, <1>4, <1>5 DEF IsStart, count

\* The last line ends with the text.
LEMMA LastEnd ==
  ASSUME NEW a, TextOK(a)
  PROVE  /\ line_end_index(a, last(a)) = count(a)
         /\ length_of_line(a, row(a)) = count(a) - last(a)
<1>1. {i \in newlines(a) : i >= last(a)} = {}
  BY LastIs, Newlines
<1>2. line_end_index(a, last(a)) = count(a)
  BY <1>1 DEF line_end_index
<1> QED
  BY <1>2 DEF length_of_line, last

\* The coordinates of an index in the last line.
LEMMA LastCoordinates ==
  ASSUME NEW a, TextOK(a), NEW i \in last(a) .. count(a)
  PROVE  Coordinates(a, i) = Point(i - last(a), row(a))
<1>0. newlines(a) \subseteq 0 .. count(a) - 1 /\ row(a) \in Nat /\ count(a) \in Nat
      /\ row(a) = Cardinality(newlines(a)) /\ IsFiniteSet(newlines(a)) /\ last(a) \in 0 .. count(a)
  BY Newlines, LastIs
<1>1. {j \in newlines(a) : j < i} = newlines(a)
  BY <1>0, LastIs
<1>2. CASE newlines(a) = {}
  <2>1. last(a) = 0
    BY <1>0, <1>2, FS_EmptySet DEF last, line_start_index
  <2> QED
    BY <1>0, <1>1, <1>2, <2>1 DEF Coordinates
<1>3. CASE newlines(a) # {}
  <2>1. last(a) - 1 \in newlines(a)
    BY <1>0, <1>3, LineStart, FS_EmptySet DEF last
  <2>2. Max(newlines(a)) = last(a) - 1
    <3>1. \A y \in newlines(a) : last(a) - 1 >= y
      BY <1>0, LastIs
    <3>2. \A x \in newlines(a) : (\A y \in newlines(a) : x >= y) => x = last(a) - 1
      BY <1>0, <2>1, <3>1
    <3> QED
      BY <2>1, <3>1, <3>2 DEF Max
  <2> QED
    BY <1>0, <1>1, <1>3, <2>2 DEF Coordinates
<1> QED
  BY <1>2, <1>3

-----------------------------------------------------------------------------
(* Characters are put into the text and taken out of it.                   *)

Points == [x : Nat, y : Nat]

Areas == [text : Seq(Char), gap : Nat, target : Points, real : Points,
          lines : Nat, first : Nat, follow : BOOLEAN]

\* The cursor lies in the text.
Placed == {a \in Areas : a.gap <= count(a)}

\* The parts of an area.
LEMMA PlacedIs ==
  ASSUME NEW a \in Placed
  PROVE  /\ a \in Areas /\ TextOK(a) /\ count(a) \in Nat /\ a.gap \in 0 .. count(a)
         /\ a.target \in Points /\ a.real \in Points
         /\ a.lines \in Nat /\ a.first \in Nat /\ a.follow \in BOOLEAN
  BY DEF Placed, Areas, TextOK, count

\* Coordinates are natural numbers.
LEMMA PointIs ==
  ASSUME NEW x \in Nat, NEW y \in Nat
  PROVE  Point(x, y) \in Points /\ Point(x, y).x = x /\ Point(x, y).y = y
  BY DEF Point, Points

\* A uint32_t.
LEMMA WordIs == /\ WordSize \in Nat \ {0}
                /\ \A n \in Int : n % WordSize \in 0 .. WordSize - 1
                /\ \A n \in 0 .. WordSize - 1 : n % WordSize = n
  BY TextAreaAssumption

\* z is x followed by y.
Joined(z, x, y) ==
  /\ z \in Seq(Char) /\ Len(z) = Len(x) + Len(y)
  /\ \A i \in 1 .. Len(x) : z[i] = x[i]
  /\ \A i \in 1 .. Len(y) : z[Len(x) + i] = y[i]

\* Two texts, one behind the other.
LEMMA ConcatIs ==
  ASSUME NEW x \in Seq(Char), NEW y \in Seq(Char)
  PROVE  Joined(x \o y, x, y)
<1>1. /\ x \o y \in Seq(Char) /\ Len(x \o y) = Len(x) + Len(y)
      /\ \A i \in 1 .. Len(x) + Len(y) : (x \o y)[i] = IF i <= Len(x) THEN x[i] ELSE y[i - Len(x)]
  BY ConcatProperties
<1>2. Len(x) \in Nat /\ Len(y) \in Nat
  OBVIOUS
<1>3. ASSUME NEW i \in 1 .. Len(y)  PROVE (x \o y)[Len(x) + i] = y[i]
  <2>1. Len(x) + i \in 1 .. Len(x) + Len(y) /\ ~ (Len(x) + i <= Len(x)) /\ (Len(x) + i) - Len(x) = i
    BY <1>2
  <2> QED
    BY <1>1, <2>1
<1> QED
  BY <1>1, <1>2, <1>3 DEF Joined

\* t is s with c put in behind the first g characters, or s without the g-th.
Spliced(t, s, g, c) == t = SubSeq(s, 1, g) \o <<c>> \o SubSeq(s, g + 1, Len(s))
CutOut(t, s, g)     == t = SubSeq(s, 1, g - 1) \o SubSeq(s, g + 1, Len(s))

Longer(t, s, g, c) ==
  /\ t \in Seq(Char) /\ Len(t) = Len(s) + 1
  /\ \A i \in 1 .. g : t[i] = s[i]
  /\ t[g + 1] = c
  /\ \A i \in g + 2 .. Len(t) : t[i] = s[i - 1]

Shorter(t, s, g) ==
  /\ t \in Seq(Char) /\ Len(t) = Len(s) - 1
  /\ \A i \in 1 .. g - 1 : t[i] = s[i]
  /\ \A i \in g .. Len(t) : t[i] = s[i + 1]

\* A text with one character more, character by character.
LEMMA SpliceIs ==
  ASSUME NEW s \in Seq(Char), NEW g \in 0 .. Len(s), NEW c \in Char, NEW t, Spliced(t, s, g, c)
  PROVE  Longer(t, s, g, c)
<1> DEFINE u == SubSeq(s, 1, g)  v == SubSeq(s, g + 1, Len(s))
<1>1. u \in Seq(Char) /\ Len(u) = g /\ \A i \in 1 .. g : u[i] = s[i]
  OBVIOUS
<1>2. v \in Seq(Char) /\ Len(v) = Len(s) - g /\ \A i \in 1 .. Len(s) - g : v[i] = s[g + i]
  OBVIOUS
<1>3. <<c>> \in Seq(Char) /\ Len(<<c>>) = 1 /\ <<c>>[1] = c
  OBVIOUS
<1>4. PICK w : w = u \o <<c>>
  OBVIOUS
<1>5. t = w \o v
  BY <1>4 DEF Spliced
<1> HIDE DEF u, v
<1>6. w \in Seq(Char) /\ Len(w) = g + 1 /\ w[g + 1] = c /\ \A i \in 1 .. g : w[i] = s[i]
  BY <1>1, <1>3, <1>4
<1>7. Joined(t, w, v)
  BY <1>2, <1>5, <1>6, ConcatIs
<1>10. Len(t) = Len(s) + 1 /\ Len(s) \in Nat
  BY <1>2, <1>6, <1>7 DEF Joined
<1>8. ASSUME NEW i \in g + 2 .. Len(t)  PROVE t[i] = s[i - 1]
  <2>1. PICK k \in 1 .. Len(s) - g : i = g + 1 + k
    <3>1. i - (g + 1) \in 1 .. Len(s) - g /\ i = g + 1 + (i - (g + 1))
      BY <1>10
    <3> QED
      BY <3>1
  <2>2. t[g + 1 + k] = v[k] /\ v[k] = s[g + k] /\ i - 1 = g + k
    BY <1>2, <1>6, <1>7, <2>1 DEF Joined
  <2> QED
    BY <2>1, <2>2
<1>9. t[g + 1] = c /\ \A i \in 1 .. g : t[i] = s[i]
  BY <1>6, <1>7 DEF Joined
<1> QED
  BY <1>7, <1>8, <1>9, <1>10 DEF Joined, Longer

\* A text with one character less, character by character.
LEMMA CutIs ==
  ASSUME NEW s \in Seq(Char), NEW g \in 1 .. Len(s), NEW t, CutOut(t, s, g)
  PROVE  Shorter(t, s, g)
<1> DEFINE u == SubSeq(s, 1, g - 1)  v == SubSeq(s, g + 1, Len(s))
<1>1. u \in Seq(Char) /\ Len(u) = g - 1 /\ \A i \in 1 .. g - 1 : u[i] = s[i]
  OBVIOUS
<1>2. v \in Seq(Char) /\ Len(v) = Len(s) - g /\ \A i \in 1 .. Len(s) - g : v[i] = s[g + i]
  OBVIOUS
<1>3. t = u \o v
  BY DEF CutOut
<1> HIDE DEF u, v
<1>4. Joined(t, u, v)
  BY <1>1, <1>2, <1>3, ConcatIs
<1>6. Len(t) = Len(s) - 1 /\ Len(s) \in Nat /\ \A i \in 1 .. g - 1 : t[i] = s[i]
  BY <1>1, <1>2, <1>4 DEF Joined
<1>5. ASSUME NEW i \in g .. Len(t)  PROVE t[i] = s[i + 1]
  <2>1. PICK k \in 1 .. Len(s) - g : i = g - 1 + k
    <3>1. i - (g - 1) \in 1 .. Len(s) - g /\ i = g - 1 + (i - (g - 1))
      BY <1>6
    <3> QED
      BY <3>1
  <2>2. t[g - 1 + k] = v[k] /\ v[k] = s[g + k] /\ i + 1 = g + k
    BY <1>1, <1>2, <1>4, <2>1 DEF Joined
  <2> QED
    BY <2>1, <2>2
<1> QED
  BY <1>4, <1>5, <1>6 DEF Joined, Shorter

\* A character put into the last line, or taken out of it, moves no other line.
LEMMA SameLast ==
  ASSUME NEW a, NEW b, TextOK(a), TextOK(b), newlines(b) = newlines(a), last(a) <= count(b)
  PROVE  row(b) = row(a) /\ last(b) = last(a)
<1>1. row(b) = row(a)
  BY DEF row, count_lines
<1>2. IsStart(b.text, last(a))
  <2>1. last(a) \in 0 .. count(b) /\ count(b) \in Nat /\ count(a) \in Nat
    BY LastIs, Newlines
  <2>2. ASSUME NEW i \in last(a) + 1 .. Len(b.text)  PROVE b.text[i] # NL
    <3>1. i - 1 \in 0 .. count(b) - 1 /\ ~ (i - 1 < last(a)) /\ (i - 1) + 1 = i
      BY <2>1 DEF count
    <3>2. i - 1 \notin newlines(b)
      BY <3>1, LastIs
    <3> QED
      BY <3>1, <3>2 DEF newlines
  <2>3. last(a) > 0 => b.text[last(a)] = NL
    <3>1. SUFFICES ASSUME last(a) > 0  PROVE b.text[last(a)] = NL
      OBVIOUS
    <3>2. last(a) - 1 \in newlines(a) /\ (last(a) - 1) + 1 = last(a)
      BY <2>1, <3>1, LastIs DEF IsStart, newlines, count
    <3> QED
      BY <3>2 DEF newlines
  <2> QED
    BY <2>1, <2>2, <2>3 DEF IsStart, count
<1>3. IsStart(b.text, last(b))
  BY LastIs
<1> QED
  BY <1>1, <1>2, <1>3, StartUnique DEF TextOK

\* A character put into the last line leaves the lines where they are.
LEMMA InsertLast ==
  ASSUME NEW a, NEW b, TextOK(a), NEW g \in last(a) .. count(a), NEW c \in Char \ {NL},
         Spliced(b.text, a.text, g, c)
  PROVE  /\ TextOK(b) /\ count(b) = count(a) + 1
         /\ row(b) = row(a) /\ last(b) = last(a)
<1>0. last(a) \in 0 .. count(a) /\ count(a) \in Nat /\ newlines(a) \subseteq 0 .. count(a) - 1
  BY LastIs, Newlines
<1>1. /\ b.text \in Seq(Char) /\ Len(b.text) = Len(a.text) + 1
      /\ \A i \in 1 .. g : b.text[i] = a.text[i]
      /\ b.text[g + 1] = c
      /\ \A i \in g + 2 .. Len(b.text) : b.text[i] = a.text[i - 1]
  <2>1. g \in 0 .. Len(a.text) /\ a.text \in Seq(Char) /\ c \in Char
    BY <1>0 DEF count, TextOK
  <2>2. Longer(b.text, a.text, g, c)
    BY <2>1, SpliceIs
  <2> QED
    BY <2>2 DEF Longer
<1>2. TextOK(b) /\ count(b) = count(a) + 1
  BY <1>1 DEF TextOK, count
<1>3. ASSUME NEW i \in newlines(a)  PROVE i \in newlines(b)
  <2>1. i < last(a) /\ i \in Nat /\ a.text[i + 1] = NL
    BY <1>0, LastIs DEF newlines
  <2>2. i + 1 \in 1 .. g /\ i \in 0 .. count(b) - 1
    BY <1>0, <1>2, <2>1
  <2> QED
    BY <1>1, <2>1, <2>2 DEF newlines
<1>4. ASSUME NEW i \in newlines(b)  PROVE i \in newlines(a)
  <2>1. i \in 0 .. count(b) - 1 /\ b.text[i + 1] = NL
    BY DEF newlines
  <2>2. CASE i + 1 <= g
    <3>1. i + 1 \in 1 .. g /\ i \in 0 .. count(a) - 1
      BY <1>0, <2>1, <2>2, <1>2
    <3> QED
      BY <1>1, <2>1, <3>1 DEF newlines
  <2>3. CASE i + 1 = g + 1
    BY <1>1, <2>1, <2>3
  <2>4. CASE i + 1 > g + 1
    <3>1. i + 1 \in g + 2 .. Len(b.text) /\ (i + 1) - 1 = i /\ i - 1 \in 0 .. count(a) - 1
          /\ (i - 1) + 1 = i /\ ~ (i - 1 < last(a))
      BY <1>0, <1>2, <2>1, <2>4 DEF count
    <3>2. a.text[i] = NL
      BY <1>1, <2>1, <3>1
    <3>3. i - 1 \in newlines(a)
      BY <3>1, <3>2 DEF newlines
    <3> QED
      BY <3>1, <3>3, LastIs
  <2> QED
    BY <1>0, <1>2, <2>1, <2>2, <2>3, <2>4
<1>5. newlines(b) = newlines(a)
  BY <1>3, <1>4
<1> QED
  BY <1>0, <1>2, <1>5, SameLast

\* So does one taken out of it.
LEMMA DeleteLast ==
  ASSUME NEW a, NEW b, TextOK(a), NEW g \in last(a) + 1 .. count(a),
         CutOut(b.text, a.text, g)
  PROVE  /\ TextOK(b) /\ count(b) = count(a) - 1
         /\ row(b) = row(a) /\ last(b) = last(a)
<1>0. last(a) \in 0 .. count(a) /\ count(a) \in Nat /\ newlines(a) \subseteq 0 .. count(a) - 1
  BY LastIs, Newlines
<1>1. /\ b.text \in Seq(Char) /\ Len(b.text) = Len(a.text) - 1
      /\ \A i \in 1 .. g - 1 : b.text[i] = a.text[i]
      /\ \A i \in g .. Len(b.text) : b.text[i] = a.text[i + 1]
  <2>1. g \in 1 .. Len(a.text) /\ a.text \in Seq(Char)
    BY <1>0 DEF count, TextOK
  <2>2. Shorter(b.text, a.text, g)
    BY <2>1, CutIs
  <2> QED
    BY <2>2 DEF Shorter
<1>2. TextOK(b) /\ count(b) = count(a) - 1
  BY <1>1 DEF TextOK, count
<1>3. ASSUME NEW i \in newlines(a)  PROVE i \in newlines(b)
  <2>1. i < last(a) /\ i \in Nat /\ a.text[i + 1] = NL
    BY <1>0, LastIs DEF newlines
  <2>2. i + 1 \in 1 .. g - 1 /\ i \in 0 .. count(b) - 1
    BY <1>0, <1>2, <2>1
  <2> QED
    BY <1>1, <2>1, <2>2 DEF newlines
<1>4. ASSUME NEW i \in newlines(b)  PROVE i \in newlines(a)
  <2>1. i \in 0 .. count(b) - 1 /\ b.text[i + 1] = NL
    BY DEF newlines
  <2>2. CASE i + 1 <= g - 1
    <3>1. i + 1 \in 1 .. g - 1 /\ i \in 0 .. count(a) - 1
      BY <1>0, <2>1, <2>2, <1>2
    <3> QED
      BY <1>1, <2>1, <3>1 DEF newlines
  <2>4. CASE i + 1 > g - 1
    <3>1. i + 1 \in g .. Len(b.text) /\ i + 1 \in 0 .. count(a) - 1 /\ ~ (i + 1 < last(a))
      BY <1>0, <1>1, <1>2, <2>1, <2>4 DEF count
    <3>2. a.text[(i + 1) + 1] = NL
      BY <1>1, <2>1, <3>1
    <3>3. i + 1 \in newlines(a)
      BY <3>1, <3>2 DEF newlines
    <3> QED
      BY <3>1, <3>3, LastIs
  <2> QED
    BY <1>0, <1>2, <2>1, <2>2, <2>4
<1>5. newlines(b) = newlines(a)
  BY <1>3, <1>4
<1> QED
  BY <1>0, <1>2, <1>5, SameLast

\* A newline at the end starts a line.
LEMMA NewlineLast ==
  ASSUME NEW a, NEW b, TextOK(a), b.text = Append(a.text, NL)
  PROVE  /\ TextOK(b) /\ count(b) = count(a) + 1
         /\ row(b) = row(a) + 1 /\ last(b) = count(b)
<1>0. count(a) \in Nat /\ newlines(a) \subseteq 0 .. count(a) - 1
  BY Newlines
<1>1. /\ TextOK(b) /\ count(b) = count(a) + 1 /\ b.text[count(b)] = NL
      /\ \A i \in 1 .. count(a) : b.text[i] = a.text[i]
  BY TextAreaAssumption DEF TextOK, count
<1>2. newlines(b) = newlines(a) \cup {count(a)}
  <2>1. ASSUME NEW i \in 0 .. count(a) - 1  PROVE i \in newlines(a) <=> i \in newlines(b)
    <3>1. i + 1 \in 1 .. count(a) /\ i \in 0 .. count(b) - 1
      BY <1>0, <1>1
    <3> QED
      BY <1>1, <3>1 DEF newlines
  <2>2. count(a) \in newlines(b)
    <3>1. count(a) \in 0 .. count(b) - 1 /\ b.text[count(a) + 1] = NL
      BY <1>0, <1>1
    <3> QED
      BY <3>1 DEF newlines
  <2>3. newlines(b) \subseteq 0 .. count(a)
    BY <1>0, <1>1 DEF newlines
  <2> QED
    BY <1>0, <2>1, <2>2, <2>3
<1>3. row(b) = row(a) + 1
  <2>1. count(a) \notin newlines(a)
    BY <1>0
  <2> QED
    BY <1>2, <2>1, <1>1, Newlines, FS_AddElement
<1>4. IsStart(b.text, count(b))
  BY <1>0, <1>1 DEF IsStart, count
<1>5. IsStart(b.text, last(b))
  BY <1>1, LastIs
<1> QED
  BY <1>1, <1>3, <1>4, <1>5, StartUnique DEF TextOK

\* The cursor stands behind the text.
EndPoint(a) == Point(count(a) - last(a), row(a))
AtEnd(a)    == a.gap = count(a) /\ a.target = EndPoint(a)

\* What drawing and moving about leave alone.
SameView(b, a) == b.real = a.real /\ b.first = a.first /\ b.follow = a.follow

Rewritten(a, u, g, p, l) == [a EXCEPT !.text = u, !.gap = g, !.target = p, !.lines = l]

\* put_char: one character more, the gap behind it, the column one further.
LEMMA PutIs ==
  ASSUME NEW a \in Placed, NEW c \in Char
  PROVE  LET b == put_char(a, c)
         IN  /\ b \in Placed /\ Spliced(b.text, a.text, a.gap, c) /\ count(b) = count(a) + 1
             /\ b.gap = a.gap + 1
             /\ b.target = IF c = NL THEN Point(0, a.target.y + 1)
                           ELSE Point((a.target.x + 1) % WordSize, a.target.y)
             /\ SameView(b, a)
<1> DEFINE b == put_char(a, c)
<1>0. /\ a \in Areas /\ TextOK(a) /\ count(a) \in Nat /\ a.gap \in 0 .. count(a)
      /\ a.target \in Points /\ a.target.x \in Nat /\ a.target.y \in Nat
  BY PlacedIs DEF Points
<1>1. /\ b.text = SubSeq(a.text, 1, a.gap) \o <<c>> \o SubSeq(a.text, a.gap + 1, Len(a.text))
      /\ b.gap = a.gap + 1
      /\ b.target = IF c = NL THEN Point(0, a.target.y + 1)
                    ELSE Point((a.target.x + 1) % WordSize, a.target.y)
      /\ b.lines = IF c = NL THEN a.lines + 1 ELSE a.lines
      /\ b.real = a.real /\ b.first = a.first /\ b.follow = a.follow
  BY <1>0 DEF put_char, Areas
<1>8. \A u \in Seq(Char), g \in Nat, p \in Points, l \in Nat :
        Rewritten(a, u, g, p, l) \in Areas
  BY <1>0 DEF Areas, Rewritten
<1>9. b = Rewritten(a, b.text, b.gap, b.target, b.lines)
  BY <1>1 DEF put_char, Rewritten
<1> HIDE DEF b
<1>2. Spliced(b.text, a.text, a.gap, c)
  BY <1>1 DEF Spliced
<1>3. Longer(b.text, a.text, a.gap, c)
  BY <1>0, <1>2, SpliceIs DEF TextOK, count
<1>4. b.text \in Seq(Char) /\ count(b) = count(a) + 1
  BY <1>3 DEF Longer, count
<1>5. b.target \in Points
  <2>1. (a.target.x + 1) % WordSize \in Nat /\ a.target.y + 1 \in Nat
    BY <1>0, WordIs
  <2>2. /\ Point(0, a.target.y + 1) \in Points
        /\ Point((a.target.x + 1) % WordSize, a.target.y) \in Points
    BY <1>0, <2>1, PointIs
  <2> QED
    BY <1>0, <1>1, <2>1, <2>2
<1>6. b \in Areas
  <2>1. b.gap \in Nat /\ b.lines \in Nat
    BY <1>0, <1>1, SMTT(30) DEF Areas
  <2> QED
    BY <1>4, <1>5, <1>8, <1>9, <2>1
<1>7. b.gap <= count(b)
  BY <1>0, <1>1, <1>4
<1> QED
  BY <1>1, <1>2, <1>4, <1>6, <1>7 DEF b, Placed, SameView

\* At the end of the text, a character is appended.
LEMMA PutAtEnd ==
  ASSUME NEW a \in Placed, AtEnd(a), NEW c \in Char, count(a) + 1 < WordSize
  PROVE  AtEnd(put_char(a, c)) /\ put_char(a, c).text = Append(a.text, c)
<1> DEFINE b == put_char(a, c)
<1>0. /\ TextOK(a) /\ count(a) \in Nat /\ a.gap = count(a) /\ a.text \in Seq(Char)
      /\ a.target = EndPoint(a) /\ last(a) \in 0 .. count(a) /\ row(a) \in Nat
  BY PlacedIs, LastIs, Newlines DEF AtEnd, TextOK
<1>1. /\ b \in Placed /\ Spliced(b.text, a.text, a.gap, c) /\ count(b) = count(a) + 1
      /\ b.gap = a.gap + 1
      /\ b.target = IF c = NL THEN Point(0, a.target.y + 1)
                    ELSE Point((a.target.x + 1) % WordSize, a.target.y)
  BY PutIs
<1>2. a.target.x = count(a) - last(a) /\ a.target.y = row(a)
  BY <1>0 DEF EndPoint, Point
<1> HIDE DEF b
<1>3. b.text = Append(a.text, c)
  <2>1. b.text = a.text \o <<c>> \o <<>>
    <3>1. SubSeq(a.text, 1, a.gap) = a.text /\ SubSeq(a.text, a.gap + 1, Len(a.text)) = <<>>
      BY <1>0 DEF count
    <3> QED
      BY <1>1, <3>1 DEF Spliced
  <2> QED
    BY <1>0, <2>1
<1>4. CASE c = NL
  <2>0. b.text = Append(a.text, NL)
    BY <1>3, <1>4
  <2>1. row(b) = row(a) + 1 /\ last(b) = count(b) /\ count(b) \in Nat
    <3>1. TextOK(a)
      BY <1>0
    <3>2. row(b) = row(a) + 1 /\ last(b) = count(b)
      BY <2>0, <3>1, NewlineLast, Zenon
    <3> QED
      BY <1>0, <1>1, <3>2
  <2> QED
    BY <1>0, <1>1, <1>2, <1>3, <1>4, <2>1 DEF b, AtEnd, EndPoint
<1>5. CASE c # NL
  <2>1. row(b) = row(a) /\ last(b) = last(a)
    BY <1>0, <1>1, <1>5, InsertLast
  <2>2. (a.target.x + 1) % WordSize = count(b) - last(b)
    <3>1. count(b) - last(b) = a.target.x + 1 /\ a.target.x + 1 \in 0 .. WordSize - 1
      <4>1. WordSize \in Nat
        BY WordIs
      <4> QED
        BY <1>0, <1>1, <1>2, <2>1, <4>1
    <3> QED
      BY <3>1, WordIs
  <2> QED
    BY <1>0, <1>1, <1>2, <1>3, <1>5, <2>1, <2>2 DEF b, AtEnd, EndPoint
<1> QED
  BY <1>4, <1>5

\* Appending to the second of two texts.
LEMMA AppendConcat ==
  ASSUME NEW s \in Seq(Char), NEW u \in Seq(Char), NEW c \in Char
  PROVE  Append(s \o u, c) = s \o Append(u, c)
<1>1. Append(u, c) = u \o <<c>> /\ Append(s \o u, c) = (s \o u) \o <<c>> /\ <<c>> \in Seq(Char)
  OBVIOUS
<1> QED
  BY <1>1, ConcatAssociative

\* b is a with t behind its text.
Wrote(b, a, t) == b.text = a.text \o t /\ AtEnd(b)

\* The areas put_text goes through.
PutSteps(f, a, t) ==
  /\ f \in [0 .. Len(t) -> Placed] /\ f[0] = a
  /\ \A n \in 1 .. Len(t) : f[n] = put_char(f[n - 1], t[n])

\* put_text puts one character after the other.
LEMMA PutTextIs ==
  ASSUME NEW a \in Placed, NEW t \in Seq(Char)
  PROVE  \E f : PutSteps(f, a, t) /\ put_text(a, t) = f[Len(t)]
<1> DEFINE N == Len(t)
           step == [k \in 1 .. N |-> [b \in Placed |-> put_char(b, t[k])]]
           IsPut(f) == f = [n \in 0 .. N |-> IF n = 0 THEN a ELSE put_char(f[n - 1], t[n])]
<1>1. N \in Nat /\ \A k \in 1 .. N : t[k] \in Char
  OBVIOUS
<1>2. step \in [1 .. N -> [Placed -> Placed]]
  BY <1>1, PutIs
<1>3. PICK g : Iterates(g, Placed, a, N, step)
  <2> HIDE DEF N, step
  <2> QED
    BY <1>1, <1>2, Recursion
<1>4. PutSteps(g, a, t)
  <2>1. ASSUME NEW n \in 1 .. N  PROVE g[n] = put_char(g[n - 1], t[n])
    <3>1. n - 1 \in 0 .. N /\ g[n - 1] \in Placed /\ g[n] = step[n][g[n - 1]]
      BY <1>1, <1>3, <2>1, SMTT(30) DEF Iterates
    <3> QED
      BY <3>1
  <2> QED
    BY <1>3, <2>1 DEF PutSteps, Iterates
<1>5. IsPut(g)
  BY <1>1, <1>4 DEF PutSteps
<1> DEFINE h == CHOOSE f : IsPut(f)
<1>6. put_text(a, t) = h[N]
  BY DEF put_text
<1>7. IsPut(h)
  BY <1>5
<1>8. \A n \in 0 .. N : h[n] = g[n]
  <2> DEFINE T == {n \in 0 .. N : h[n] = g[n]}
  <2> HIDE DEF h
  <2>1. 0 \in T
    BY <1>1, <1>7, <1>4 DEF PutSteps
  <2>2. ASSUME NEW k \in 0 .. N - 1, k \in T  PROVE k + 1 \in T
    <3>1. k + 1 \in 0 .. N /\ k + 1 # 0 /\ (k + 1) - 1 = k /\ k + 1 \in 1 .. N
      BY <1>1
    <3>2. h[k + 1] = put_char(h[(k + 1) - 1], t[k + 1])
      BY <1>7, <3>1
    <3>3. g[k + 1] = put_char(g[(k + 1) - 1], t[k + 1])
      BY <1>4, <3>1 DEF PutSteps
    <3> QED
      BY <2>2, <3>1, <3>2, <3>3
  <2>3. \A k \in 0 .. N : k \in T
    <3> HIDE DEF T, N
    <3> QED
      BY <1>1, <2>1, <2>2, Induction
  <2> QED
    BY <2>3
<1> QED
  BY <1>1, <1>4, <1>6, <1>8

\* put_text at the end of the text appends it.
LEMMA PutText ==
  ASSUME NEW a \in Placed, NEW t \in Seq(Char)
  PROVE  LET b == put_text(a, t)
         IN  /\ b \in Placed /\ SameView(b, a) /\ count(b) = count(a) + Len(t)
             /\ AtEnd(a) /\ count(a) + Len(t) < WordSize => Wrote(b, a, t)
<1>1. PICK f : PutSteps(f, a, t) /\ put_text(a, t) = f[Len(t)]
  BY PutTextIs
<1> DEFINE N == Len(t)
<1>2. N \in Nat /\ count(a) \in Nat /\ a.text \in Seq(Char) /\ \A k \in 1 .. N : t[k] \in Char
  BY PlacedIs DEF TextOK
<1>3. \A n \in 0 .. N : SameView(f[n], a) /\ count(f[n]) = count(a) + n
  <2> DEFINE T == {n \in 0 .. N : SameView(f[n], a) /\ count(f[n]) = count(a) + n}
  <2>1. 0 \in T
    BY <1>1, <1>2 DEF PutSteps, SameView
  <2>2. ASSUME NEW k \in 0 .. N - 1, k \in T  PROVE k + 1 \in T
    <3>1. k \in 0 .. N /\ k + 1 \in 1 .. N /\ k + 1 \in 0 .. N /\ (k + 1) - 1 = k
      BY <1>2
    <3>2. f[k] \in Placed /\ f[k + 1] = put_char(f[k], t[k + 1])
      BY <1>1, <3>1 DEF PutSteps
    <3>3. SameView(f[k + 1], f[k]) /\ count(f[k + 1]) = count(f[k]) + 1
      <4>1. \A b \in Placed : \A c \in Char :
              SameView(put_char(b, c), b) /\ count(put_char(b, c)) = count(b) + 1
        BY PutIs
      <4> QED
        BY <1>2, <3>1, <3>2, <4>1
    <3>4. count(f[k + 1]) = count(a) + (k + 1)
      BY <1>2, <2>2, <3>1, <3>3
    <3> QED
      BY <2>2, <3>1, <3>3, <3>4 DEF SameView
  <2> HIDE DEF T, N
  <2>3. \A k \in 0 .. N : k \in T
    BY <1>2, <2>1, <2>2, Induction
  <2> QED
    BY <2>3 DEF T
<1>4. ASSUME AtEnd(a), count(a) + Len(t) < WordSize
      PROVE  Wrote(f[N], a, t)
  <2> DEFINE T == {n \in 0 .. N : Wrote(f[n], a, SubSeq(t, 1, n))}
  <2>1. 0 \in T
    <3>1. SubSeq(t, 1, 0) = <<>> /\ a.text \o <<>> = a.text
      BY <1>2
    <3> QED
      BY <1>1, <1>2, <1>4, <3>1 DEF PutSteps, Wrote
  <2>2. ASSUME NEW k \in 0 .. N - 1, k \in T  PROVE k + 1 \in T
    <3>1. k \in 0 .. N /\ k + 1 \in 1 .. N /\ k + 1 \in 0 .. N /\ (k + 1) - 1 = k
      BY <1>2
    <3>2. f[k] \in Placed /\ f[k + 1] = put_char(f[k], t[k + 1])
      BY <1>1, <3>1 DEF PutSteps
    <3>3. AtEnd(f[k]) /\ f[k].text = a.text \o SubSeq(t, 1, k)
      BY <2>2 DEF Wrote
    <3>4. Len(SubSeq(t, 1, k)) = k /\ SubSeq(t, 1, k) \in Seq(Char)
          /\ SubSeq(t, 1, k + 1) = Append(SubSeq(t, 1, k), t[k + 1])
      BY <3>1
    <3>5. count(f[k]) + 1 < WordSize
      <4>1. count(f[k]) = count(a) + k
        <5> DEFINE u == SubSeq(t, 1, k)
        <5>1. u \in Seq(Char) /\ Len(u) = k /\ f[k].text = a.text \o u
          BY <3>3, <3>4
        <5> HIDE DEF u
        <5>2. Len(a.text \o u) = Len(a.text) + Len(u)
          BY <1>2, <5>1, ConcatIs DEF Joined
        <5> QED
          BY <5>1, <5>2 DEF count
      <4>2. WordSize \in Nat /\ N \in Nat /\ k + 1 <= N
        BY <1>2, <3>1, WordIs
      <4> HIDE DEF N
      <4>3. count(a) + N < WordSize
        BY <1>4 DEF N
      <4> QED
        BY <1>2, <3>1, <4>1, <4>2, <4>3
    <3>6. AtEnd(f[k + 1]) /\ f[k + 1].text = Append(f[k].text, t[k + 1])
      BY <1>2, <3>1, <3>2, <3>3, <3>5, PutAtEnd
    <3>7. f[k + 1].text = a.text \o SubSeq(t, 1, k + 1)
      <4>1. \A u \in Seq(Char) : \A c \in Char : Append(a.text \o u, c) = a.text \o Append(u, c)
        BY <1>2, AppendConcat
      <4> QED
        BY <1>2, <3>1, <3>3, <3>4, <3>6, <4>1
    <3> QED
      BY <3>1, <3>6, <3>7 DEF Wrote
  <2> HIDE DEF T
  <2>3. \A k \in 0 .. N : k \in T
    <3> HIDE DEF N
    <3> QED
      BY <1>2, <2>1, <2>2, Induction
  <2>4. N \in T /\ SubSeq(t, 1, N) = t
    BY <1>2, <2>3
  <2> QED
    BY <2>4 DEF T
<1>5. f[N] \in Placed
  BY <1>1, <1>2 DEF PutSteps
<1> QED
  BY <1>1, <1>2, <1>3, <1>4, <1>5

-----------------------------------------------------------------------------
(* The window is drawn.                                                    *)

\* What redraw leaves behind.
Drawn(a) ==
  /\ a.lines = count_lines(a)
  /\ a.real = cursor_shown(a)
  /\ a.first <= bottom_start(a)
  /\ a.follow => a.first = bottom_start(a)

\* The largest element of a bounded set.
LEMMA MaxIs ==
  ASSUME NEW S \in SUBSET Nat, S # {}, NEW n \in Nat, \A s \in S : s <= n
  PROVE  Max(S) \in S /\ \A s \in S : s <= Max(S)
<1> DEFINE T == {n - s : s \in S}
<1>1. T \in SUBSET Nat /\ T # {}
  <2>1. \A s \in S : n - s \in Nat
    OBVIOUS
  <2>2. T \in SUBSET Nat
    BY <2>1
  <2>3. PICK s \in S : TRUE
    OBVIOUS
  <2>4. n - s \in T
    BY <2>3
  <2> QED
    BY <2>2, <2>4
<1>2. PICK m \in T : \A y \in T : m <= y
  <2> HIDE DEF T
  <2> QED
    BY <1>1, LeastNat
<1>3. PICK x \in S : m = n - x
  BY <1>2
<1>4. \A y \in S : x >= y
  <2> SUFFICES ASSUME NEW y \in S  PROVE x >= y
    OBVIOUS
  <2>1. n - y \in T
    OBVIOUS
  <2>2. n - x <= n - y
    BY <1>2, <1>3, <2>1
  <2>3. x \in Nat /\ y \in Nat
    OBVIOUS
  <2> QED
    BY <2>2, <2>3
<1>5. Max(S) \in S /\ \A y \in S : Max(S) >= y
  BY <1>4 DEF Max
<1>6. Max(S) \in Nat
  BY <1>5
<1> QED
  BY <1>5, <1>6

\* The least element of a set.
LEMMA MinIs ==
  ASSUME NEW S \in SUBSET Nat, S # {}
  PROVE  Min(S) \in S /\ \A s \in S : Min(S) <= s
  BY LeastNat DEF Min

\* A column counts from the last newline before it.
LEMMA CoordinatesAre ==
  ASSUME NEW a, TextOK(a), NEW i \in Nat
  PROVE  /\ Coordinates(a, i) = Point(Coordinates(a, i).x, Row(a, i))
         /\ Coordinates(a, i).x \in 0 .. i /\ Coordinates(a, i).y = Row(a, i)
         /\ \A j \in newlines(a) : j < i => j < i - Coordinates(a, i).x
<1>1. newlines(a) \subseteq Nat /\ Row(a, i) \in Nat /\ Above(a, i) \subseteq Nat
  <2>1. newlines(a) \subseteq Nat /\ row(a) \in Nat
    BY Newlines
  <2>2. Row(a, i) \in 0 .. row(a) /\ Above(a, i) \subseteq newlines(a)
    BY RowIsNat
  <2> QED
    BY <2>1, <2>2
<1>2. CASE Above(a, i) = {}
  <2>1. Coordinates(a, i) = Point(i, Row(a, i))
    BY <1>2 DEF Coordinates, Above, Row
  <2>2. \A j \in newlines(a) : ~ (j < i)
    BY <1>2 DEF Above
  <2> QED
    BY <1>1, <2>1, <2>2 DEF Point
<1>3. CASE Above(a, i) # {}
  <2>1. Coordinates(a, i) = Point(i - Max(Above(a, i)) - 1, Row(a, i))
    BY <1>3 DEF Coordinates, Above, Row
  <2>2. Max(Above(a, i)) \in Above(a, i) /\ \A j \in Above(a, i) : j <= Max(Above(a, i))
    <3>1. \A j \in Above(a, i) : j <= i
      BY <1>1 DEF Above
    <3> QED
      BY <1>1, <1>3, <3>1, MaxIs
  <2>3. Max(Above(a, i)) \in Nat /\ Max(Above(a, i)) < i
    BY <1>1, <2>2 DEF Above
  <2>4. \A j \in newlines(a) : j < i => j \in Above(a, i)
    BY DEF Above
  <2>5. Coordinates(a, i).x = i - Max(Above(a, i)) - 1 /\ Coordinates(a, i).y = Row(a, i)
    BY <2>1 DEF Point
  <2> QED
    BY <1>1, <2>1, <2>2, <2>3, <2>4, <2>5
<1> QED
  BY <1>2, <1>3

\* The display holds a line.
LEMMA CapacityIs == visible_line_capacity \in Nat \ {0} /\ line_height \in Nat \ {0} /\ eff_glyph_width \in Nat \ {0}
<1>1. line_height \in Nat \ {0} /\ eff_glyph_width \in Nat \ {0} /\ Height \in Nat
  BY TextAreaAssumption DEF line_height, eff_glyph_width
<1>2. visible_line_capacity \in Nat
  BY <1>1, DivNat DEF visible_line_capacity
<1> QED
  BY <1>1, <1>2, DisplayAssumption

\* The columns of the display.
LEMMA ColumnsIs == columns \in Nat
<1>1. Width + eff_glyph_width - 1 \in Nat
  BY CapacityIs, TextAreaAssumption
<1> QED
  BY <1>1, CapacityIs, DivNat DEF columns

\* A line starts in the text or at its end.
LEMMA LineBounds ==
  ASSUME NEW a, TextOK(a), NEW k \in Nat
  PROVE  line_start_index(a, k) \in 0 .. count(a)
<1>1. row(a) \in Nat /\ count(a) \in Nat
  BY Newlines
<1>2. CASE k <= row(a)
  BY <1>1, <1>2, LineStart
<1>3. CASE k > row(a)
  BY <1>1, <1>3, LineBeyond
<1> QED
  BY <1>1, <1>2, <1>3

\* A line ends before the next newline.
LEMMA LineEnd ==
  ASSUME NEW a, TextOK(a), NEW s \in 0 .. count(a)
  PROVE  /\ line_end_index(a, s) \in s .. count(a)
         /\ \A j \in newlines(a) : s <= j => line_end_index(a, s) <= j
<1> DEFINE ends == {i \in newlines(a) : i >= s}
<1>1. count(a) \in Nat /\ newlines(a) \subseteq 0 .. count(a) - 1
  BY Newlines
<1>2. CASE ends = {}
  <2>1. line_end_index(a, s) = count(a)
    BY <1>2 DEF line_end_index
  <2> QED
    BY <1>1, <1>2, <2>1
<1>3. CASE ends # {}
  <2>1. line_end_index(a, s) = Min(ends)
    BY <1>3 DEF line_end_index
  <2>2. ends \in SUBSET Nat
    BY <1>1
  <2>3. Min(ends) \in ends /\ \A j \in ends : Min(ends) <= j
    <3> HIDE DEF ends
    <3> QED
      BY <1>3, <2>2, MinIs
  <2> QED
    BY <1>1, <2>1, <2>3
<1> QED
  BY <1>2, <1>3

\* Drawing ends at the end of a line of the window, or at a character right
\* of the area.
LEMMA DrawEnd ==
  ASSUME NEW a \in Placed
  PROVE  LET start == line_start_index(a, a.first)
             end   == line_end_index(a, line_start_index(a, a.first + visible_line_capacity - 1))
         IN  /\ start \in 0 .. count(a) /\ end \in 0 .. count(a)
             /\ draw_end(a) \in 0 .. end
             /\ \A i \in start + columns .. draw_end(a) - 1 : (i - columns .. i) \cap newlines(a) # {}
             /\ draw_end(a) # end => start + columns <= draw_end(a)
<1> DEFINE start == line_start_index(a, a.first)
           end   == line_end_index(a, line_start_index(a, a.first + visible_line_capacity - 1))
           long  == {i \in start + columns .. end - 1 : (i - columns .. i) \cap newlines(a) = {}}
<1>0. TextOK(a) /\ a.first \in Nat /\ count(a) \in Nat
  BY PlacedIs
<1>1. start \in 0 .. count(a)
  BY <1>0, LineBounds
<1>2. end \in 0 .. count(a)
  <2>1. a.first + visible_line_capacity - 1 \in Nat
    BY <1>0, CapacityIs
  <2>2. line_start_index(a, a.first + visible_line_capacity - 1) \in 0 .. count(a)
    BY <1>0, <2>1, LineBounds
  <2> QED
    BY <1>0, <2>2, LineEnd
<1>3. CASE long = {}
  <2>1. draw_end(a) = end
    BY <1>3 DEF draw_end
  <2>2. \A i \in start + columns .. end - 1 : (i - columns .. i) \cap newlines(a) # {}
    BY <1>3
  <2>3. draw_end(a) \in 0 .. end
    BY <1>2, <2>1
  <2>4. \A i \in start + columns .. draw_end(a) - 1 : (i - columns .. i) \cap newlines(a) # {}
    BY <2>1, <2>2
  <2> QED
    BY <1>1, <1>2, <2>1, <2>3, <2>4
<1>4. CASE long # {}
  <2>1. draw_end(a) = Min(long)
    BY <1>4 DEF draw_end
  <2>2. long \in SUBSET Nat
    BY <1>1, <1>2, ColumnsIs
  <2>3. Min(long) \in long /\ \A i \in long : Min(long) <= i
    <3> HIDE DEF long
    <3> QED
      BY <1>4, <2>2, MinIs
  <2>4. ASSUME NEW i \in start + columns .. draw_end(a) - 1  PROVE (i - columns .. i) \cap newlines(a) # {}
    <3>1. draw_end(a) \in long /\ \A k \in long : draw_end(a) <= k
      BY <2>1, <2>3
    <3>2. draw_end(a) \in Nat /\ draw_end(a) <= end - 1 /\ i \in start + columns .. end - 1
      <4> HIDE DEF start, end
      <4> QED
        BY <1>1, <1>2, <2>4, <3>1, ColumnsIs
    <3>3. i \notin long
      <4>1. ~ (draw_end(a) <= i)
        BY <1>1, <2>4, <3>2, ColumnsIs
      <4> QED
        BY <3>1, <4>1
    <3> QED
      BY <3>2, <3>3
  <2>5. draw_end(a) \in 0 .. end /\ start + columns <= draw_end(a)
    <3>1. draw_end(a) \in start + columns .. end - 1
      BY <2>1, <2>3
    <3> HIDE DEF start, end
    <3> QED
      BY <1>1, <1>2, <3>1, ColumnsIs
  <2> QED
    BY <1>1, <1>2, <2>4, <2>5
<1> QED
  BY <1>3, <1>4

\* The characters that are drawn are characters of the window.
LEMMA DrawnAre ==
  ASSUME NEW a \in Placed, NEW i \in drawn(a)
  PROVE  i \in Nat /\ i < count(a) /\ i >= line_start_index(a, a.first) /\ i < draw_end(a) /\ i \notin newlines(a)
<1>1. count(a) \in Nat
  BY PlacedIs
<1>2. line_start_index(a, a.first) \in 0 .. count(a) /\ draw_end(a) \in 0 .. count(a)
  <2>1. \E n \in 0 .. count(a) : draw_end(a) \in 0 .. n
    BY DrawEnd
  <2> QED
    BY <1>1, <2>1, DrawEnd
<1>3. i \in line_start_index(a, a.first) .. draw_end(a) - 1 /\ i \notin newlines(a)
  BY DEF drawn
<1> QED
  BY <1>1, <1>2, <1>3

\* The cursor that is shown is drawn back, never forward.
LEMMA ShownIs ==
  ASSUME NEW a \in Placed
  PROVE  /\ cursor_shown(a) \in Points
         /\ cursor_shown(a).y = a.target.y /\ cursor_shown(a).x <= a.target.x
<1> DEFINE S == {i \in drawn(a) : /\ i + 1 \in newlines(a)
                                  /\ draw_pos(a, i).y = a.target.y
                                  /\ draw_pos(a, i).x < a.target.x}
<1>1. a.target \in Points /\ TextOK(a)
  BY PlacedIs
<1>2. CASE S = {}
  <2>1. cursor_shown(a) = a.target
    BY <1>2 DEF cursor_shown
  <2> QED
    BY <1>1, <2>1 DEF Points
<1>3. CASE S # {}
  <2>1. PICK i \in S : cursor_shown(a) = Point(draw_pos(a, i).x, a.target.y)
    <3>1. cursor_shown(a) = Point(draw_pos(a, CHOOSE i \in S : TRUE).x, a.target.y)
      BY <1>3 DEF cursor_shown
    <3>2. (CHOOSE i \in S : TRUE) \in S
      BY <1>3
    <3> QED
      BY <3>1, <3>2
  <2>2. i \in Nat
    BY <2>1, DrawnAre
  <2>3. draw_pos(a, i).x = Coordinates(a, i).x
    <3>1. Coordinates(a, i) = Point(Coordinates(a, i).x, Row(a, i))
      BY <1>1, <2>2, CoordinatesAre
    <3> QED
      BY <3>1 DEF draw_pos, Point
  <2>4. draw_pos(a, i).x \in Nat /\ draw_pos(a, i).x < a.target.x
    BY <1>1, <2>1, <2>2, <2>3, CoordinatesAre
  <2> QED
    BY <1>1, <2>1, <2>4, PointIs DEF Points
<1> QED
  BY <1>2, <1>3

\* The drawing follows from text, window and target.
LEMMA SameShown ==
  ASSUME NEW a, NEW b, b.text = a.text, b.first = a.first, b.target = a.target
  PROVE  /\ newlines(b) = newlines(a) /\ count(b) = count(a) /\ count_lines(b) = count_lines(a)
         /\ row(b) = row(a) /\ last(b) = last(a) /\ bottom_start(b) = bottom_start(a)
         /\ cursor_shown(b) = cursor_shown(a)
<1>1. count(b) = count(a)
  BY DEF count
<1>2. newlines(b) = newlines(a)
  BY <1>1 DEF newlines
<1>3. count_lines(b) = count_lines(a)
  BY <1>2 DEF count_lines
<1>4. row(b) = row(a) /\ bottom_start(b) = bottom_start(a)
  BY <1>3 DEF row, bottom_start
<1>5. \A k : line_start_index(b, k) = line_start_index(a, k)
  BY <1>1, <1>2 DEF line_start_index
<1>6. \A k : line_end_index(b, k) = line_end_index(a, k)
  BY <1>1, <1>2 DEF line_end_index
<1>7. \A i : draw_pos(b, i) = draw_pos(a, i)
  BY <1>2 DEF draw_pos, Coordinates
<1>8. draw_end(b) = draw_end(a)
  BY <1>2, <1>5, <1>6 DEF draw_end
<1>9. drawn(b) = drawn(a)
  BY <1>2, <1>5, <1>8 DEF drawn
<1>10. cursor_shown(b) = cursor_shown(a)
  <2> DEFINE S(c) == {i \in drawn(c) : /\ i + 1 \in newlines(c)
                                       /\ draw_pos(c, i).y = c.target.y
                                       /\ draw_pos(c, i).x < c.target.x}
             Shown(c) == IF S(c) = {} THEN c.target
                         ELSE Point(draw_pos(c, CHOOSE i \in S(c) : TRUE).x, c.target.y)
  <2>1. S(b) = S(a)
    BY <1>2, <1>7, <1>9
  <2>2. Shown(b) = Shown(a)
    <3> HIDE DEF S
    <3> QED
      BY <1>7, <2>1
  <2>3. cursor_shown(a) = Shown(a) /\ cursor_shown(b) = Shown(b)
    BY Zenon DEF cursor_shown
  <2> QED
    BY <2>2, <2>3
<1> QED
  BY <1>1, <1>2, <1>3, <1>4, <1>5, <1>10 DEF last

\* Nothing but the window and the drawing changes.
SameContent(b, a) == b.text = a.text /\ b.gap = a.gap /\ b.target = a.target

\* Lines depend on the text alone.
LEMMA SameLines ==
  ASSUME NEW a, NEW b, b.text = a.text
  PROVE  /\ newlines(b) = newlines(a) /\ count(b) = count(a) /\ count_lines(b) = count_lines(a)
         /\ row(b) = row(a) /\ last(b) = last(a) /\ bottom_start(b) = bottom_start(a)
         /\ EndPoint(b) = EndPoint(a)
         /\ \A k : line_start_index(b, k) = line_start_index(a, k)
         /\ \A k : line_end_index(b, k) = line_end_index(a, k)
<1>1. count(b) = count(a)
  BY DEF count
<1>2. newlines(b) = newlines(a)
  BY <1>1 DEF newlines
<1>3. count_lines(b) = count_lines(a)
  BY <1>2 DEF count_lines
<1>4. row(b) = row(a) /\ bottom_start(b) = bottom_start(a)
  BY <1>3 DEF row, bottom_start
<1>5. \A k : line_start_index(b, k) = line_start_index(a, k)
  BY <1>1, <1>2 DEF line_start_index
<1>6. \A k : line_end_index(b, k) = line_end_index(a, k)
  BY <1>1, <1>2 DEF line_end_index
<1>7. last(b) = last(a)
  BY <1>4, <1>5 DEF last
<1> QED
  BY <1>1, <1>2, <1>3, <1>4, <1>5, <1>6, <1>7 DEF EndPoint

\* The last page of the text.
LEMMA BottomIs ==
  ASSUME NEW a \in Placed
  PROVE  bottom_start(a) \in Nat /\ count_lines(a) \in Nat /\ count_lines(a) = row(a) + 1 /\ row(a) \in Nat
  BY PlacedIs, Newlines, CapacityIs DEF bottom_start

\* An area with another window.
Viewed(a, l, f, w) == [a EXCEPT !.lines = l, !.first = f, !.follow = w]

IsViewed(b, a, l, f, w) ==
  b \in Placed /\ SameContent(b, a) /\ b.lines = l /\ b.first = f /\ b.follow = w /\ b.real = a.real

\* Moving the window moves nothing else.
LEMMA ViewedIs ==
  ASSUME NEW a \in Placed, NEW l \in Nat, NEW f \in Nat, NEW w \in BOOLEAN
  PROVE  IsViewed(Viewed(a, l, f, w), a, l, f, w)
<1>1. a \in Areas
  BY PlacedIs
<1>2. LET b == Viewed(a, l, f, w)
      IN  b \in Areas /\ SameContent(b, a) /\ b.lines = l /\ b.first = f /\ b.follow = w /\ b.real = a.real
  BY <1>1 DEF Viewed, Areas, SameContent
<1> QED
  BY <1>2, PlacedIs DEF Placed, SameContent, count, IsViewed

\* redraw changes the window alone, and the window is valid then.
LEMMA RedrawIs ==
  ASSUME NEW a \in Placed
  PROVE  LET b == redraw(a) IN b \in Placed /\ SameContent(b, a) /\ Drawn(b)
<1> DEFINE f == IF a.follow \/ a.first > bottom_start(a) THEN bottom_start(a) ELSE a.first
           v == \/ a.follow
                \/ count_lines(a) <= visible_line_capacity
                \/ a.first > bottom_start(a)
           w == window(a)
           b == redraw(a)
<1>0. /\ a \in Areas /\ a.first \in Nat /\ a.follow \in BOOLEAN
      /\ bottom_start(a) \in Nat /\ count_lines(a) \in Nat
  BY PlacedIs, BottomIs
<1>1. w = Viewed(a, count_lines(a), f, v)
  BY <1>0 DEF window, Viewed, Areas
<1>2. f \in Nat /\ v \in BOOLEAN /\ f <= bottom_start(a) /\ (v => f = bottom_start(a))
  <2>1. count_lines(a) <= visible_line_capacity => bottom_start(a) = 0
    BY <1>0, CapacityIs DEF bottom_start
  <2> QED
    BY <1>0, <2>1
<1>3. w \in Placed /\ SameContent(w, a) /\ w.lines = count_lines(a) /\ w.first = f /\ w.follow = v
  <2>1. count_lines(a) \in Nat /\ f \in Nat /\ v \in BOOLEAN
    BY <1>0, <1>2
  <2> HIDE DEF f, v, w
  <2>2. IsViewed(w, a, count_lines(a), f, v)
    BY <1>1, <2>1, ViewedIs, Zenon
  <2> QED
    BY <2>2 DEF IsViewed
<1>4. b = [w EXCEPT !.real = cursor_shown(w)]
  BY CapacityIs DEF redraw
<1> HIDE DEF f, v, w, b
<1>5. cursor_shown(w) \in Points
  BY <1>3, ShownIs
<1>6. /\ b \in Areas /\ b.text = w.text /\ b.gap = w.gap /\ b.target = w.target /\ b.real = cursor_shown(w)
      /\ b.lines = w.lines /\ b.first = w.first /\ b.follow = w.follow
  <2>1. w \in Areas
    BY <1>3, PlacedIs
  <2> QED
    BY <1>4, <1>5, <2>1 DEF Areas
<1>7. b \in Placed
  BY <1>3, <1>6, PlacedIs DEF Placed, count
<1>8. SameContent(b, a)
  BY <1>3, <1>6 DEF SameContent
<1>9. Drawn(b)
  <2>1. cursor_shown(b) = cursor_shown(w)
    BY <1>6, SameShown
  <2>2. count_lines(b) = count_lines(a) /\ bottom_start(b) = bottom_start(a)
    BY <1>8, SameLines DEF SameContent
  <2> QED
    BY <1>2, <1>3, <1>6, <2>1, <2>2 DEF Drawn
<1> QED
  BY <1>7, <1>8, <1>9 DEF b

\* Being at the end depends on text and cursor alone.
LEMMA SameEnd ==
  ASSUME NEW a, NEW b, SameContent(b, a)
  PROVE  AtEnd(b) <=> AtEnd(a)
  BY SameLines DEF SameContent, AtEnd

\* Tty::write puts the text behind the cursor and draws.
LEMMA WriteIs ==
  ASSUME NEW a \in Placed, NEW t \in Seq(Char)
  PROVE  LET b == write(a, t)
         IN  /\ b \in Placed /\ Drawn(b) /\ count(b) = count(a) + Len(t)
             /\ AtEnd(a) /\ count(a) + Len(t) < WordSize => Wrote(b, a, t)
<1>1. put_text(a, t) \in Placed /\ count(put_text(a, t)) = count(a) + Len(t)
      /\ (AtEnd(a) /\ count(a) + Len(t) < WordSize => Wrote(put_text(a, t), a, t))
  BY PutText
<1>2. write(a, t) \in Placed /\ SameContent(write(a, t), put_text(a, t)) /\ Drawn(write(a, t))
  BY <1>1, RedrawIs DEF write
<1>3. AtEnd(write(a, t)) <=> AtEnd(put_text(a, t))
  BY <1>2, SameEnd
<1> QED
  BY <1>1, <1>2, <1>3 DEF Wrote, SameContent, count

\* Texts are written one after the other.
LEMMA Associative ==
  ASSUME NEW s \in Seq(Char), NEW t \in Seq(Char), NEW u \in Seq(Char)
  PROVE  (s \o t) \o u = s \o (t \o u)
  BY ConcatAssociative

\* Two writes at the end are one of both texts.
LEMMA WroteThen ==
  ASSUME NEW a, NEW b, NEW c, NEW s \in Seq(Char), NEW t \in Seq(Char), TextOK(a),
         Wrote(b, a, s), Wrote(c, b, t)
  PROVE  Wrote(c, a, s \o t)
<1>1. a.text \in Seq(Char) /\ b.text = a.text \o s /\ c.text = b.text \o t /\ AtEnd(c)
  BY DEF Wrote, TextOK
<1>2. (a.text \o s) \o t = a.text \o (s \o t)
  BY <1>1, Associative
<1> QED
  BY <1>1, <1>2 DEF Wrote

\* What a write adds.
LEMMA WroteCount ==
  ASSUME NEW a, NEW b, NEW s \in Seq(Char), TextOK(a), Wrote(b, a, s)
  PROVE  TextOK(b) /\ count(b) = count(a) + Len(s) /\ AtEnd(b)
  BY ConcatIs DEF Wrote, TextOK, count, Joined

\* The text of one newline.
LEMMA NewlineIs == <<NL>> \in Seq(Char) /\ Len(<<NL>>) = 1
  BY TextAreaAssumption

-----------------------------------------------------------------------------
(* The cursor moves.                                                       *)

\* An area whose cursor is elsewhere.
Moved(a, g, p) == [a EXCEPT !.gap = g, !.target = p]

IsMoved(b, a, g, p) ==
  /\ b \in Placed /\ b.text = a.text /\ b.gap = g /\ b.target = p
  /\ b.lines = a.lines /\ SameView(b, a)

\* A cursor that moves, moves nothing else.
LEMMA MovedIs ==
  ASSUME NEW a \in Placed, NEW g \in 0 .. count(a), NEW p \in Points
  PROVE  IsMoved(Moved(a, g, p), a, g, p)
<1>1. a \in Areas /\ g \in Nat
  BY PlacedIs
<1>2. LET b == Moved(a, g, p)
      IN  /\ b \in Areas /\ b.text = a.text /\ b.gap = g /\ b.target = p
          /\ b.lines = a.lines /\ SameView(b, a)
  BY <1>1 DEF Moved, Areas, SameView
<1>3. g <= Len(a.text)
  BY PlacedIs DEF count
<1> QED
  BY <1>2, <1>3 DEF Placed, count, IsMoved

\* move_cursor for a line that exists, and where it ends up there.
Landing(a, y, x) ==
  LET start == line_start_index(a, y)
      end   == line_end_index(a, start)
  IN  IF x > end + 1 - start THEN end ELSE start + x

\* move_cursor, in any text: the line is at most the count of lines, and the
\* column is where the cursor lands in it, which may be one behind the text.
LEMMA MoveIs ==
  ASSUME NEW a \in Placed, NEW p \in Points
  PROVE  LET y     == IF p.y >= a.lines THEN a.lines ELSE p.y
             idx   == Landing(a, y, p.x)
             start == line_start_index(a, y)
         IN  /\ y \in Nat /\ idx \in Nat /\ start \in 0 .. count(a)
             /\ idx - start \in 0 .. count(a) + 1
             /\ IsMoved(move_cursor(a, p), a, IF idx > count(a) THEN count(a) ELSE idx, Point(idx - start, y))
<1> DEFINE y     == IF p.y >= a.lines THEN a.lines ELSE p.y
           start == line_start_index(a, y)
           end   == line_end_index(a, start)
           idx   == Landing(a, y, p.x)
           g     == IF idx > count(a) THEN count(a) ELSE idx
<1>1. y \in Nat /\ p.x \in Nat /\ TextOK(a) /\ count(a) \in Nat
  BY PlacedIs DEF Points
<1>2. start \in 0 .. count(a)
  <2> HIDE DEF y
  <2> QED
    BY <1>1, LineBounds
<1>3. end \in start .. count(a)
  <2> HIDE DEF start
  <2> QED
    BY <1>1, <1>2, LineEnd
<1>4. idx = IF p.x > end + 1 - start THEN end ELSE start + p.x
  BY DEF Landing
<1>5. move_cursor(a, p) = Moved(a, g, Point(idx - start, y))
  BY DEF move_cursor, Moved, Landing
<1> HIDE DEF y, start, end, idx
<1>6. idx \in start .. count(a) + 1 /\ idx - start \in 0 .. count(a) + 1 /\ idx \in Nat
  BY <1>1, <1>2, <1>3, <1>4
<1>7. g \in 0 .. count(a)
  BY <1>1, <1>6
<1>8. Point(idx - start, y) \in Points
  BY <1>1, <1>2, <1>6, PointIs
<1> HIDE DEF g
<1>9. IsMoved(move_cursor(a, p), a, g, Point(idx - start, y))
  BY <1>5, <1>7, <1>8, MovedIs
<1> QED
  BY <1>1, <1>2, <1>6, <1>9 DEF y, start, idx, g

\* A move within the last line.
LEMMA MoveLast ==
  ASSUME NEW a \in Placed, a.lines = count_lines(a), NEW x \in Nat
  PROVE  LET end == count(a) - last(a)
             b   == move_cursor(a, Point(x, row(a)))
         IN  /\ b \in Placed /\ b.text = a.text /\ b.lines = a.lines /\ SameView(b, a)
             /\ x <= end => b.gap = last(a) + x /\ b.target = Point(x, row(a))
             /\ x = end + 1 => b.gap = count(a) /\ b.target = Point(x, row(a))
             /\ x > end + 1 => b.gap = count(a) /\ b.target = Point(end, row(a))
<1> DEFINE p   == Point(x, row(a))
           b   == move_cursor(a, p)
           idx == Landing(a, row(a), x)
<1>0. /\ TextOK(a) /\ count(a) \in Nat /\ row(a) \in Nat /\ last(a) \in 0 .. count(a)
      /\ a.lines = row(a) + 1
  BY PlacedIs, BottomIs, LastIs
<1>1. p \in Points /\ p.x = x /\ p.y = row(a)
  BY <1>0, PointIs
<1>2. ~ (row(a) >= a.lines)
  BY <1>0
<1>3. line_start_index(a, row(a)) = last(a) /\ line_end_index(a, last(a)) = count(a)
  BY <1>0, LastEnd DEF last
<1>4. IsMoved(b, a, IF idx > count(a) THEN count(a) ELSE idx, Point(idx - last(a), row(a)))
  <2> HIDE DEF p, idx
  <2>1. (IF p.y >= a.lines THEN a.lines ELSE p.y) = row(a)
    BY <1>1, <1>2
  <2> QED
    BY <1>1, <1>3, <2>1, MoveIs DEF idx
<1>5. idx = IF x > count(a) + 1 - last(a) THEN count(a) ELSE last(a) + x
  BY <1>3 DEF Landing
<1> HIDE DEF p, b, idx
<1>6. b \in Placed /\ b.text = a.text /\ b.lines = a.lines /\ SameView(b, a)
      /\ b.gap = (IF idx > count(a) THEN count(a) ELSE idx) /\ b.target = Point(idx - last(a), row(a))
  BY <1>4 DEF IsMoved
<1>7. ASSUME x <= count(a) - last(a)  PROVE b.gap = last(a) + x /\ b.target = Point(x, row(a))
  <2>1. idx = last(a) + x /\ idx <= count(a) /\ idx - last(a) = x
    BY <1>0, <1>5, <1>7
  <2> QED
    BY <1>0, <1>6, <2>1
<1>8. ASSUME x = count(a) - last(a) + 1  PROVE b.gap = count(a) /\ b.target = Point(x, row(a))
  <2>1. idx = last(a) + x /\ idx > count(a) /\ idx - last(a) = x
    BY <1>0, <1>5, <1>8
  <2> QED
    BY <1>0, <1>6, <2>1
<1>9. ASSUME x > count(a) - last(a) + 1  PROVE b.gap = count(a) /\ b.target = Point(count(a) - last(a), row(a))
  <2>1. idx = count(a) /\ ~ (idx > count(a))
    BY <1>0, <1>5, <1>9
  <2> QED
    BY <1>0, <1>6, <2>1
<1> QED
  BY <1>6, <1>7, <1>8, <1>9 DEF b, p

\* A text has fewer lines than it may have characters.
LEMMA RowShort ==
  ASSUME NEW a, TextOK(a)
  PROVE  row(a) <= count(a)
<1>1. count(a) \in Nat /\ newlines(a) \subseteq 0 .. count(a) - 1
  BY Newlines
<1>2. IsFiniteSet(0 .. count(a) - 1) /\ Cardinality(0 .. count(a) - 1) = count(a)
  BY <1>1, FS_Interval, SMTT(30)
<1> QED
  BY <1>1, <1>2, Newlines, FS_Subset

\* Wherever the cursor is, move_end brings it behind the text.
LEMMA MoveEndIs ==
  ASSUME NEW a \in Placed, a.lines = count_lines(a), count(a) < WordSize
  PROVE  LET b == move_end(a)
         IN  b \in Placed /\ b.text = a.text /\ b.lines = a.lines /\ SameView(b, a) /\ AtEnd(b)
<1> DEFINE b == move_end(a)
<1>0. TextOK(a) /\ count(a) \in Nat /\ row(a) \in Nat /\ last(a) \in 0 .. count(a) /\ a.lines = row(a) + 1
  BY PlacedIs, BottomIs, LastIs
<1>1. (a.lines - 1) % WordSize = row(a)
  <2>1. row(a) \in 0 .. WordSize - 1 /\ a.lines - 1 = row(a)
    <3>1. row(a) <= count(a) /\ WordSize \in Nat
      BY <1>0, RowShort, WordIs
    <3> QED
      BY <1>0, <3>1
  <2> QED
    BY <2>1, WordIs
<1>2. b = move_cursor(a, Point(count(a) - last(a), row(a)))
  BY <1>0, <1>1, LastEnd DEF move_end
<1>3. /\ b \in Placed /\ b.text = a.text /\ b.lines = a.lines /\ SameView(b, a)
      /\ b.gap = last(a) + (count(a) - last(a)) /\ b.target = Point(count(a) - last(a), row(a))
  <2>1. count(a) - last(a) \in Nat /\ count(a) - last(a) <= count(a) - last(a)
    BY <1>0
  <2> HIDE DEF b
  <2> QED
    BY <1>2, <2>1, MoveLast
<1> HIDE DEF b
<1>4. b.gap = count(a) /\ EndPoint(b) = EndPoint(a) /\ count(b) = count(a)
  BY <1>0, <1>3, SameLines
<1> QED
  BY <1>3, <1>4 DEF b, AtEnd, EndPoint

-----------------------------------------------------------------------------
(* The line that is read.                                                  *)

\* The last line begins with the prompt.
Prompted(a) ==
  /\ last(a) + Len(Prompt) <= count(a)
  /\ \A i \in 1 .. Len(Prompt) : a.text[last(a) + i] = Prompt[i]

\* The cursor is in the last line, behind the prompt, and its column is the
\* one of the gap, or the one after it at the end of the line.
OnLine(a) ==
  /\ Prompted(a) /\ last(a) + Len(Prompt) <= a.gap
  /\ a.target.y = row(a)
  /\ \/ a.target.x = a.gap - last(a)
     \/ a.gap = count(a) /\ a.target.x = a.gap - last(a) + 1

\* Behind the prompt is the line, and the cursor behind it.
Shows(a, line) ==
  /\ a.gap = count(a) /\ count(a) = last(a) + Len(Prompt) + Len(line)
  /\ \A i \in 1 .. Len(line) : a.text[last(a) + Len(Prompt) + i] = line[i]

\* The column is the one of the gap.
Exact(a) == a.target.x = a.gap - last(a)

\* The prompt is one line.
LEMMA PromptIs == Len(Prompt) \in Nat /\ Prompt \in Seq(Char) /\ \A i \in 1 .. Len(Prompt) : Prompt[i] # NL
  BY ConsoleAssumption

\* Where the last line is.
LEMMA PlacedLine ==
  ASSUME NEW a \in Placed
  PROVE  /\ TextOK(a) /\ count(a) \in Nat /\ a.gap \in 0 .. count(a)
         /\ row(a) \in Nat /\ last(a) \in 0 .. count(a) /\ a.target.x \in Nat /\ a.target.y \in Nat
  BY PlacedIs, BottomIs, LastIs DEF Points

\* A typed character extends the line that is shown.
LEMMA TypeOn ==
  ASSUME NEW a \in Placed, OnLine(a), NEW c \in Char \ {NL}, count(a) + 2 < WordSize
  PROVE  /\ OnLine(put_char(a, c)) /\ (Exact(a) => Exact(put_char(a, c)))
         /\ \A line \in Seq(Char) : Shows(a, line) => Shows(put_char(a, c), Append(line, c))
<1> DEFINE b == put_char(a, c)
<1>0. /\ TextOK(a) /\ count(a) \in Nat /\ a.gap \in 0 .. count(a)
      /\ row(a) \in Nat /\ last(a) \in 0 .. count(a) /\ a.target.x \in Nat /\ a.target.y \in Nat
      /\ Len(Prompt) \in Nat /\ WordSize \in Nat
  BY PlacedLine, PromptIs, WordIs
<1>1. /\ b \in Placed /\ Spliced(b.text, a.text, a.gap, c) /\ count(b) = count(a) + 1
      /\ b.gap = a.gap + 1 /\ b.target = Point((a.target.x + 1) % WordSize, a.target.y)
  BY PutIs
<1> HIDE DEF b
<1>2. a.gap \in last(a) .. count(a)
  BY <1>0 DEF OnLine
<1>3. row(b) = row(a) /\ last(b) = last(a)
  BY <1>0, <1>1, <1>2, InsertLast
<1>4. Longer(b.text, a.text, a.gap, c)
  BY <1>0, <1>1, SpliceIs DEF TextOK, count
<1>5. b.target.x = a.target.x + 1 /\ b.target.y = row(b)
  <2>1. a.target.x + 1 \in 0 .. WordSize - 1
    <3>1. a.target.x = a.gap - last(a) \/ a.target.x = a.gap - last(a) + 1
      BY DEF OnLine
    <3>2. a.target.x <= count(a) + 1
      BY <1>0, <3>1
    <3>3. count(a) + 2 < WordSize
      OBVIOUS
    <3> QED
      BY <1>0, <3>2, <3>3, SMTT(30)
  <2>2. (a.target.x + 1) % WordSize = a.target.x + 1
    BY <2>1, WordIs
  <2>3. b.target.x = (a.target.x + 1) % WordSize /\ b.target.y = a.target.y
    BY <1>1 DEF Point
  <2> QED
    BY <1>3, <2>2, <2>3 DEF OnLine
<1>6. Prompted(b)
  <2>1. last(b) + Len(Prompt) <= count(b)
    BY <1>0, <1>1, <1>3 DEF OnLine, Prompted
  <2>2. ASSUME NEW i \in 1 .. Len(Prompt)  PROVE b.text[last(b) + i] = Prompt[i]
    <3>1. last(a) + i \in 1 .. a.gap
      BY <1>0 DEF OnLine
    <3>2. b.text[last(a) + i] = a.text[last(a) + i]
      BY <1>4, <3>1 DEF Longer
    <3> QED
      BY <1>3, <3>2 DEF OnLine, Prompted
  <2> QED
    BY <2>1, <2>2 DEF Prompted
<1>7. OnLine(b) /\ (Exact(a) => Exact(b))
  <2>1. last(b) + Len(Prompt) <= b.gap
    BY <1>0, <1>1, <1>3 DEF OnLine
  <2>2. a.target.x = a.gap - last(a) => b.target.x = b.gap - last(b)
    BY <1>0, <1>1, <1>3, <1>5
  <2>3. a.gap = count(a) /\ a.target.x = a.gap - last(a) + 1 => b.gap = count(b) /\ b.target.x = b.gap - last(b) + 1
    BY <1>0, <1>1, <1>3, <1>5
  <2> QED
    BY <1>5, <1>6, <2>1, <2>2, <2>3 DEF OnLine, Exact
<1>8. ASSUME NEW line \in Seq(Char), Shows(a, line)  PROVE Shows(b, Append(line, c))
  <2>1. Len(line) \in Nat /\ Len(Append(line, c)) = Len(line) + 1 /\ Append(line, c)[Len(line) + 1] = c
        /\ \A i \in 1 .. Len(line) : Append(line, c)[i] = line[i]
    OBVIOUS
  <2>2. b.gap = count(b) /\ count(b) = last(b) + Len(Prompt) + (Len(line) + 1)
    BY <1>0, <1>1, <1>3, <1>8, <2>1 DEF Shows
  <2>3. ASSUME NEW i \in 1 .. Len(line) + 1  PROVE b.text[last(b) + Len(Prompt) + i] = Append(line, c)[i]
    <3>1. CASE i = Len(line) + 1
      <4>1. last(b) + Len(Prompt) + i = a.gap + 1
        BY <1>0, <1>3, <1>8, <2>1, <3>1 DEF Shows
      <4> QED
        BY <1>4, <2>1, <3>1, <4>1 DEF Longer
    <3>2. CASE i # Len(line) + 1
      <4>1. i \in 1 .. Len(line)
        BY <2>1, <3>2
      <4>2. last(a) + Len(Prompt) + i \in 1 .. a.gap
        BY <1>0, <1>8, <2>1, <4>1, SMTT(30) DEF Shows
      <4>3. b.text[last(a) + Len(Prompt) + i] = a.text[last(a) + Len(Prompt) + i]
        BY <1>4, <4>2 DEF Longer
      <4> QED
        BY <1>3, <1>8, <2>1, <4>1, <4>3 DEF Shows
    <3> QED
      BY <3>1, <3>2
  <2> QED
    BY <2>1, <2>2, <2>3 DEF Shows
<1> QED
  BY <1>7, <1>8 DEF b

\* remove_last: one character, or none at the start; always one column.
LEMMA RemoveIs ==
  ASSUME NEW a \in Placed
  PROVE  LET b == remove_last(a)
         IN  /\ b \in Placed /\ SameView(b, a)
             /\ b.target = Point((a.target.x - 1) % WordSize, a.target.y)
             /\ a.gap > 0 => CutOut(b.text, a.text, a.gap) /\ b.gap = a.gap - 1 /\ count(b) = count(a) - 1
             /\ a.gap = 0 => b.text = a.text
<1> DEFINE b == remove_last(a)
           n == IF a.gap = 0 THEN 0 ELSE 1
<1>0. /\ a \in Areas /\ TextOK(a) /\ count(a) \in Nat /\ a.gap \in 0 .. count(a)
      /\ a.target \in Points /\ a.target.x \in Nat /\ a.target.y \in Nat
  BY PlacedIs DEF Points
<1>1. /\ b.text = SubSeq(a.text, 1, a.gap - n) \o SubSeq(a.text, a.gap + 1, Len(a.text))
      /\ b.gap = a.gap - n
      /\ b.target = Point((a.target.x - 1) % WordSize, a.target.y)
      /\ b.lines = a.lines
      /\ b.real = a.real /\ b.first = a.first /\ b.follow = a.follow
  BY <1>0 DEF remove_last, Areas, Points, Point
<1>2. b = Rewritten(a, b.text, b.gap, b.target, b.lines)
  <2>1. b = [a EXCEPT !.text = b.text, !.gap = b.gap, !.target = b.target]
    BY <1>0, <1>1 DEF remove_last, Areas, Points, Point
  <2> HIDE DEF b
  <2> QED
    BY <1>0, <1>1, <2>1 DEF Rewritten, Areas
<1> HIDE DEF b
<1>3. ASSUME a.gap > 0
      PROVE  /\ CutOut(b.text, a.text, a.gap) /\ b.gap = a.gap - 1 /\ count(b) = count(a) - 1
             /\ b.text \in Seq(Char) /\ b.gap \in 0 .. count(b)
  <2>1. CutOut(b.text, a.text, a.gap) /\ b.gap = a.gap - 1
    <3>1. n = 1
      BY <1>0, <1>3
    <3> HIDE DEF n
    <3> QED
      BY <1>1, <3>1 DEF CutOut
  <2>2. a.gap \in 1 .. Len(a.text)
    BY <1>0, <1>3 DEF count
  <2>3. Shorter(b.text, a.text, a.gap)
    BY <1>0, <2>1, <2>2, CutIs DEF TextOK
  <2> QED
    BY <1>0, <1>3, <2>1, <2>3 DEF Shorter, count
<1>4. ASSUME a.gap = 0
      PROVE  b.text = a.text /\ b.gap = 0 /\ b.text \in Seq(Char) /\ b.gap \in 0 .. count(b)
  <2>1. SubSeq(a.text, 1, 0) = <<>> /\ SubSeq(a.text, 1, Len(a.text)) = a.text /\ <<>> \o a.text = a.text
    BY <1>0 DEF TextOK
  <2>2. b.text = a.text /\ b.gap = 0
    BY <1>0, <1>1, <1>4, <2>1
  <2> QED
    BY <1>0, <2>2 DEF count, TextOK
<1>5. b.text \in Seq(Char) /\ b.gap \in 0 .. count(b)
  BY <1>0, <1>3, <1>4
<1>6. b.target \in Points /\ b.gap \in Nat /\ b.lines \in Nat
  <2>1. (a.target.x - 1) % WordSize \in Nat
    BY <1>0, WordIs
  <2> QED
    BY <1>0, <1>1, <1>5, <2>1, PointIs DEF Areas
<1>7. b \in Areas
  <2>1. \A u \in Seq(Char), g \in Nat, p \in Points, l \in Nat : Rewritten(a, u, g, p, l) \in Areas
    BY <1>0 DEF Areas, Rewritten
  <2> QED
    BY <1>2, <1>5, <1>6, <2>1
<1>8. b \in Placed /\ SameView(b, a)
  BY <1>1, <1>5, <1>7 DEF Placed, count, SameView
<1> QED
  BY <1>1, <1>3, <1>4, <1>8 DEF b

\* A line without its last character.
LEMMA FrontIs ==
  ASSUME NEW line \in Seq(Char), line # <<>>
  PROVE  /\ Front(line) \in Seq(Char)
         /\ Len(Front(line)) = Len(line) - 1 /\ \A i \in 1 .. Len(line) - 1 : Front(line)[i] = line[i]
<1>1. PICK n \in 0 .. Len(line) : n = Len(line) - 1
  <2>1. Len(line) \in Nat /\ Len(line) # 0
    OBVIOUS
  <2>2. Len(line) - 1 \in 0 .. Len(line)
    BY <2>1
  <2> QED
    BY <2>2
<1>2. Front(line) = SubSeq(line, 1, n)
  BY <1>1 DEF Front
<1>3. SubSeq(line, 1, n) \in Seq(Char) /\ Len(SubSeq(line, 1, n)) = n /\ \A i \in 1 .. n : SubSeq(line, 1, n)[i] = line[i]
  OBVIOUS
<1> QED
  BY <1>1, <1>2, <1>3

\* Without a Left, Backspace erases the last character of the line.
LEMMA EraseOn ==
  ASSUME NEW a \in Placed, OnLine(a), count(a) + 2 < WordSize,
         NEW line \in Seq(Char), line # <<>>, Shows(a, line)
  PROVE  /\ OnLine(remove_last(a)) /\ Shows(remove_last(a), Front(line))
         /\ Exact(a) => Exact(remove_last(a))
<1> DEFINE b == remove_last(a)
<1>0. /\ TextOK(a) /\ count(a) \in Nat /\ a.gap \in 0 .. count(a)
      /\ row(a) \in Nat /\ last(a) \in 0 .. count(a) /\ a.target.x \in Nat /\ a.target.y \in Nat
      /\ Len(Prompt) \in Nat /\ WordSize \in Nat /\ Len(line) \in Nat \ {0}
  BY PlacedLine, PromptIs, WordIs
<1>1. a.gap = count(a) /\ count(a) = last(a) + Len(Prompt) + Len(line)
  BY DEF Shows
<1>2. a.gap > 0 /\ a.gap \in last(a) + 1 .. count(a) /\ a.gap \in 1 .. Len(a.text)
  BY <1>0, <1>1 DEF count
<1>3. /\ b \in Placed /\ CutOut(b.text, a.text, a.gap) /\ count(b) = count(a) - 1
      /\ b.gap = a.gap - 1 /\ b.target = Point((a.target.x - 1) % WordSize, a.target.y)
  BY <1>2, RemoveIs
<1> HIDE DEF b
<1>4. row(b) = row(a) /\ last(b) = last(a)
  BY <1>0, <1>2, <1>3, DeleteLast
<1>5. Shorter(b.text, a.text, a.gap)
  BY <1>0, <1>2, <1>3, CutIs DEF TextOK
<1>6. b.target.x = a.target.x - 1 /\ b.target.y = row(b)
  <2>1. a.target.x - 1 \in 0 .. WordSize - 1
    <3>1. a.target.x = a.gap - last(a) \/ a.target.x = a.gap - last(a) + 1
      BY DEF OnLine
    <3>2. a.target.x <= count(a) + 1 /\ a.target.x >= 1
      BY <1>0, <1>1, <3>1, SMTT(30)
    <3>3. count(a) + 2 < WordSize
      OBVIOUS
    <3> QED
      BY <1>0, <3>2, <3>3, SMTT(30)
  <2>2. (a.target.x - 1) % WordSize = a.target.x - 1
    BY <2>1, WordIs
  <2>3. b.target.x = (a.target.x - 1) % WordSize /\ b.target.y = a.target.y
    BY <1>3 DEF Point
  <2> QED
    BY <1>4, <2>2, <2>3 DEF OnLine
<1>7. Len(Front(line)) = Len(line) - 1 /\ \A i \in 1 .. Len(line) - 1 : Front(line)[i] = line[i]
  BY FrontIs
<1>8. ASSUME NEW k \in 1 .. count(a) - 1  PROVE b.text[k] = a.text[k]
  <2>1. k \in 1 .. a.gap - 1
    BY <1>0, <1>1
  <2> QED
    BY <1>5, <2>1 DEF Shorter
<1>9. Prompted(b)
  <2>1. last(b) + Len(Prompt) <= count(b)
    BY <1>0, <1>1, <1>3, <1>4
  <2>2. ASSUME NEW i \in 1 .. Len(Prompt)  PROVE b.text[last(b) + i] = Prompt[i]
    <3>1. last(a) + i \in 1 .. count(a) - 1
      BY <1>0, <1>1, SMTT(30)
    <3> QED
      BY <1>4, <1>8, <3>1 DEF OnLine, Prompted
  <2> QED
    BY <2>1, <2>2 DEF Prompted
<1>10. OnLine(b) /\ (Exact(a) => Exact(b))
  <2>1. last(b) + Len(Prompt) <= b.gap
    BY <1>0, <1>1, <1>3, <1>4
  <2>2. a.target.x = a.gap - last(a) => b.target.x = b.gap - last(b)
    BY <1>0, <1>3, <1>4, <1>6
  <2>3. a.target.x = a.gap - last(a) + 1 => b.gap = count(b) /\ b.target.x = b.gap - last(b) + 1
    BY <1>0, <1>1, <1>3, <1>4, <1>6, SMTT(30)
  <2> QED
    BY <1>6, <1>9, <2>1, <2>2, <2>3 DEF OnLine, Exact
<1>11. Shows(b, Front(line))
  <2>1. b.gap = count(b) /\ count(b) = last(b) + Len(Prompt) + Len(Front(line))
    BY <1>0, <1>1, <1>3, <1>4, <1>7
  <2>2. ASSUME NEW i \in 1 .. Len(Front(line))  PROVE b.text[last(b) + Len(Prompt) + i] = Front(line)[i]
    <3>1. i \in 1 .. Len(line) - 1
      BY <1>7
    <3>2. last(a) + Len(Prompt) + i \in 1 .. count(a) - 1 /\ i \in 1 .. Len(line)
      BY <1>0, <1>1, <3>1, SMTT(30)
    <3> QED
      BY <1>4, <1>7, <1>8, <3>1, <3>2 DEF Shows
  <2> QED
    BY <2>1, <2>2 DEF Shows
<1> QED
  BY <1>10, <1>11 DEF b

\* Text and prompt are as before, the cursor is in the last line at column x,
\* or at its end.
LEMMA OnLineAgain ==
  ASSUME NEW a \in Placed, NEW b, Prompted(a), b.text = a.text, b.target.y = row(a),
         last(a) + Len(Prompt) <= b.gap,
         \/ b.target.x = b.gap - last(a)
         \/ b.gap = count(a) /\ b.target.x = b.gap - last(a) + 1
  PROVE  OnLine(b)
<1>1. last(b) = last(a) /\ row(b) = row(a) /\ count(b) = count(a)
  BY SameLines
<1> QED
  BY <1>1 DEF OnLine, Prompted

\* The line is shown as long as the text stays.
LEMMA ShowsAgain ==
  ASSUME NEW a, NEW b, NEW line, Shows(a, line), b.text = a.text, b.gap = count(a)
  PROVE  Shows(b, line)
<1>1. last(b) = last(a) /\ count(b) = count(a)
  BY SameLines
<1> QED
  BY <1>1 DEF Shows

\* Left is bounded by the prompt.
LEMMA LeftOn ==
  ASSUME NEW a \in Placed, OnLine(a), a.lines = count_lines(a),
         a.real.x <= a.target.x, a.real.x > Len(Prompt)
  PROVE  OnLine(move_left(a, 1))
<1> DEFINE b == move_left(a, 1)
           x == a.target.x - 1
<1>0. /\ TextOK(a) /\ count(a) \in Nat /\ a.gap \in 0 .. count(a)
      /\ row(a) \in Nat /\ last(a) \in 0 .. count(a) /\ a.target.x \in Nat /\ a.target.y = row(a)
      /\ Len(Prompt) \in Nat /\ a.real.x \in Nat /\ a.target \in Points
  BY PlacedLine, PlacedIs, PromptIs DEF OnLine, Points
<1>1. x \in Nat /\ x >= Len(Prompt) /\ x <= count(a) - last(a)
  <2>1. (a.target.x = a.gap - last(a)) \/ (a.gap = count(a) /\ a.target.x = a.gap - last(a) + 1)
    BY DEF OnLine
  <2>2. a.target.x >= Len(Prompt) + 1
    BY <1>0
  <2>3. a.target.x <= count(a) - last(a) + 1
    BY <1>0, <2>1
  <2> QED
    BY <1>0, <2>2, <2>3, SMTT(30)
<1>2. b = move_cursor(a, Point(x, row(a)))
  <2>1. [a.target EXCEPT !.x = a.target.x - (IF 1 >= a.target.x THEN a.target.x ELSE 1)] = Point(x, row(a))
    BY <1>0, <1>1 DEF Point, Points
  <2> QED
    BY <2>1 DEF move_left
<1> HIDE DEF b, x
<1>3. b.text = a.text /\ b.gap = last(a) + x /\ b.target = Point(x, row(a))
  BY <1>1, <1>2, MoveLast
<1>4. b.target.x = x /\ b.target.y = row(a)
  BY <1>3 DEF Point
<1>5. last(a) + Len(Prompt) <= b.gap /\ b.target.x = b.gap - last(a)
  BY <1>0, <1>1, <1>3, <1>4
<1>6. Prompted(a)
  BY DEF OnLine
<1>7. OnLine(b)
  BY <1>3, <1>4, <1>5, <1>6, OnLineAgain
<1> QED
  BY <1>7 DEF b

\* Right stays on the line.
LEMMA RightOn ==
  ASSUME NEW a \in Placed, OnLine(a), a.lines = count_lines(a), count(a) + 2 < WordSize
  PROVE  LET b == move_right(a, 1)
         IN  /\ OnLine(b)
             /\ \A line : Shows(a, line) => Shows(b, line)
<1> DEFINE b == move_right(a, 1)
           x == a.target.x + 1
           e == count(a) - last(a)
<1>0. /\ TextOK(a) /\ count(a) \in Nat /\ a.gap \in 0 .. count(a)
      /\ row(a) \in Nat /\ last(a) \in 0 .. count(a) /\ a.target.x \in Nat /\ a.target.y = row(a)
      /\ Len(Prompt) \in Nat /\ a.target \in Points /\ WordSize \in Nat
      /\ last(a) + Len(Prompt) <= a.gap
      /\ (a.target.x = a.gap - last(a)) \/ (a.gap = count(a) /\ a.target.x = a.gap - last(a) + 1)
  <2>1. /\ TextOK(a) /\ count(a) \in Nat /\ a.gap \in 0 .. count(a)
        /\ row(a) \in Nat /\ last(a) \in 0 .. count(a) /\ a.target.x \in Nat /\ a.target \in Points
    BY PlacedLine, PlacedIs
  <2>2. Len(Prompt) \in Nat /\ WordSize \in Nat
    BY PromptIs, WordIs
  <2>3. /\ a.target.y = row(a) /\ last(a) + Len(Prompt) <= a.gap
        /\ (a.target.x = a.gap - last(a)) \/ (a.gap = count(a) /\ a.target.x = a.gap - last(a) + 1)
    BY DEF OnLine
  <2> QED
    BY <2>1, <2>2, <2>3
<1>1. x \in 0 .. WordSize - 1 /\ x \in Nat /\ e \in Nat
  <2>1. a.target.x <= count(a) + 1 /\ count(a) + 2 < WordSize
    BY <1>0
  <2>2. a.target.x + 1 < WordSize /\ a.target.x \in Nat /\ WordSize \in Nat
    BY <1>0, <2>1, SMTT(30)
  <2>3. x \in 0 .. WordSize - 1 /\ x \in Nat
    BY <2>2
  <2>4. count(a) - last(a) \in Nat
    BY <1>0
  <2> QED
    BY <2>3, <2>4
<1>2. b = move_cursor(a, Point(x, row(a)))
  <2>1. x % WordSize = x
    BY <1>1, WordIs
  <2>2. \A n : [a.target EXCEPT !.x = n] = Point(n, row(a))
    BY <1>0 DEF Point, Points
  <2>3. move_right(a, 1) = move_cursor(a, [a.target EXCEPT !.x = (a.target.x + 1) % WordSize])
    BY DEF move_right
  <2> QED
    BY <2>1, <2>2, <2>3
<1> HIDE DEF b
<1>3. /\ b.text = a.text
      /\ x <= e => b.gap = last(a) + x /\ b.target = Point(x, row(a))
      /\ x = e + 1 => b.gap = count(a) /\ b.target = Point(x, row(a))
      /\ x > e + 1 => b.gap = count(a) /\ b.target = Point(e, row(a))
  BY <1>1, <1>2, MoveLast
<1>4. \A n, m : Point(n, m).x = n /\ Point(n, m).y = m
  BY DEF Point
<1>5. Prompted(a)
  BY DEF OnLine
<1>6. /\ b.target.y = row(a) /\ last(a) + Len(Prompt) <= b.gap
      /\ \/ b.target.x = b.gap - last(a)
         \/ b.gap = count(a) /\ b.target.x = b.gap - last(a) + 1
      /\ a.gap = count(a) => b.gap = count(a)
  <2>1. CASE x <= e
    <3>1. b.gap = last(a) + x /\ b.target.x = x /\ b.target.y = row(a)
      BY <1>3, <1>4, <2>1
    <3>2. a.target.x = a.gap - last(a) /\ a.gap # count(a)
      BY <1>0, <2>1, SMTT(30)
    <3> QED
      BY <1>0, <3>1, <3>2, SMTT(30)
  <2>2. CASE x = e + 1
    <3>1. b.gap = count(a) /\ b.target.x = x /\ b.target.y = row(a)
      BY <1>3, <1>4, <2>2
    <3> QED
      BY <1>0, <2>2, <3>1
  <2>3. CASE x > e + 1
    <3>1. b.gap = count(a) /\ b.target.x = e /\ b.target.y = row(a)
      BY <1>3, <1>4, <2>3
    <3> QED
      BY <1>0, <3>1
  <2> QED
    BY <1>1, <2>1, <2>2, <2>3
<1>7. OnLine(b)
  BY <1>3, <1>5, <1>6, OnLineAgain
<1>8. ASSUME NEW line, Shows(a, line)  PROVE Shows(b, line)
  <2>1. a.gap = count(a)
    BY <1>8 DEF Shows
  <2> QED
    BY <1>3, <1>6, <1>8, <2>1, ShowsAgain
<1> QED
  BY <1>7, <1>8 DEF b

\* Behind the text, the cursor is in the last line.
LEMMA EndOn ==
  ASSUME NEW a \in Placed, Prompted(a), NEW b \in Placed, b.text = a.text, AtEnd(b)
  PROVE  /\ OnLine(b) /\ Exact(b)
         /\ \A line : Shows(a, line) => Shows(b, line)
<1>1. last(b) = last(a) /\ row(b) = row(a) /\ count(b) = count(a)
  BY SameLines
<1>2. b.gap = count(a) /\ b.target.x = count(a) - last(a) /\ b.target.y = row(a)
  BY <1>1 DEF AtEnd, EndPoint, Point
<1>3. last(a) + Len(Prompt) <= b.gap
  BY <1>2 DEF Prompted
<1>4. OnLine(b)
  BY <1>2, <1>3, OnLineAgain
<1>5. Exact(b)
  BY <1>1, <1>2 DEF Exact
<1>6. ASSUME NEW line, Shows(a, line)  PROVE Shows(b, line)
  BY <1>2, <1>6, ShowsAgain
<1> QED
  BY <1>4, <1>5, <1>6

\* End brings the cursor behind the text when it is in the last line.
LEMMA LineEndIs ==
  ASSUME NEW a \in Placed, a.lines = count_lines(a), a.real.y = row(a)
  PROVE  LET b == move_line_end(a)
         IN  b \in Placed /\ b.text = a.text /\ AtEnd(b)
<1> DEFINE b == move_line_end(a)
           e == count(a) - last(a)
<1>0. TextOK(a) /\ count(a) \in Nat /\ last(a) \in 0 .. count(a) /\ a.real \in Points /\ row(a) \in Nat
  BY PlacedLine, PlacedIs
<1>1. b = move_cursor(a, Point(e, row(a)))
  <2>1. [a.real EXCEPT !.x = e] = Point(e, row(a))
    BY <1>0 DEF Points, Point
  <2> QED
    BY <1>0, <2>1, LastEnd DEF move_line_end
<1>2. e \in Nat /\ e <= e /\ last(a) + e = count(a)
  BY <1>0
<1> HIDE DEF b
<1>3. b \in Placed /\ b.text = a.text /\ b.gap = count(a) /\ b.target = Point(e, row(a))
  <2>1. b \in Placed /\ b.text = a.text /\ b.gap = last(a) + e /\ b.target = Point(e, row(a))
    <3> HIDE DEF e
    <3>1. e <= count(a) - last(a)
      BY <1>2 DEF e
    <3> QED
      BY <1>1, <1>2, <3>1, MoveLast
  <2> QED
    BY <1>2, <2>1
<1>4. count(b) = count(a) /\ EndPoint(b) = EndPoint(a)
  BY <1>3, SameLines
<1> QED
  BY <1>3, <1>4 DEF b, AtEnd, EndPoint

\* Enter: wherever the cursor was, the newline ends the text.
LEMMA EnterIs ==
  ASSUME NEW a \in Placed, a.lines = count_lines(a), count(a) + 1 < WordSize
  PROVE  LET b == put_char(move_end(a), NL)
         IN  b \in Placed /\ AtEnd(b) /\ last(b) = count(b)
<1> DEFINE m == move_end(a)  b == put_char(m, NL)
<1>0. count(a) \in Nat /\ WordSize \in Nat /\ NL \in Char
  BY PlacedIs, WordIs, TextAreaAssumption
<1>1. m \in Placed /\ m.text = a.text /\ AtEnd(m)
  BY <1>0, MoveEndIs
<1> HIDE DEF m
<1>2. count(m) = count(a) /\ TextOK(m)
  BY <1>1, SameLines, PlacedIs
<1>3. AtEnd(b) /\ b.text = Append(m.text, NL)
  BY <1>0, <1>1, <1>2, PutAtEnd
<1>4. b \in Placed
  BY <1>0, <1>1, PutIs
<1>5. last(b) = count(b)
  BY <1>2, <1>3, NewlineLast
<1> QED
  BY <1>3, <1>4, <1>5 DEF m

-----------------------------------------------------------------------------
(* What the commands write.                                                *)

\* b is a after more was written: as long as the text is short, the cursor
\* stays behind it, and does so at the start of a line.
Prints(b, a) ==
  /\ b \in Placed /\ Drawn(b) /\ count(a) <= count(b)
  /\ AtEnd(a) /\ count(b) < WordSize => AtEnd(b)
PrintsLine(b, a) ==
  /\ Prints(b, a)
  /\ AtEnd(a) /\ count(b) < WordSize => last(b) = count(b)

\* What the shell writes are texts.
LEMMA Texts ==
  /\ {HelpName, EchoName, SysName} \subseteq Seq(Char)
  /\ {HelpText, Banner, Dash, Space, Unknown, Farewell} \subseteq Seq(Char)
  /\ <<NL>> \in Seq(Char) /\ <<NL, NL>> \in Seq(Char)
  BY ShellAssumption, TextAreaAssumption

\* Every write prints.
LEMMA WritePrints ==
  ASSUME NEW a \in Placed, NEW t \in Seq(Char)
  PROVE  Prints(write(a, t), a)
<1> DEFINE b == write(a, t)
<1>1. /\ b \in Placed /\ Drawn(b) /\ count(b) = count(a) + Len(t)
      /\ AtEnd(a) /\ count(a) + Len(t) < WordSize => Wrote(b, a, t)
  BY WriteIs
<1>2. count(a) \in Nat /\ Len(t) \in Nat
  BY PlacedIs
<1> HIDE DEF b
<1>3. count(a) <= count(b)
  BY <1>1, <1>2
<1>4. AtEnd(a) /\ count(b) < WordSize => AtEnd(b)
  BY <1>1 DEF Wrote
<1> QED
  BY <1>1, <1>3, <1>4 DEF Prints, b

\* A text that ends in a newline.
LEMMA WriteNewline ==
  ASSUME NEW a \in Placed, NEW s \in Seq(Char), NEW t, t = Append(s, NL)
  PROVE  PrintsLine(write(a, t), a)
<1> DEFINE b == write(a, t)
<1>1. t \in Seq(Char) /\ Len(t) = Len(s) + 1
  BY TextAreaAssumption
<1>2. Prints(b, a)
  BY <1>1, WritePrints
<1>3. ASSUME AtEnd(a), count(b) < WordSize  PROVE last(b) = count(b)
  <2>1. b.text = a.text \o t
    BY <1>1, <1>3, WriteIs DEF Wrote
  <2>2. a.text \in Seq(Char) /\ NL \in Char
    BY PlacedIs, TextAreaAssumption DEF TextOK
  <2>3. b.text = Append(a.text \o s, NL)
    BY <2>1, <2>2, AppendConcat
  <2> DEFINE c == [a EXCEPT !.text = a.text \o s]
  <2>4. c.text = a.text \o s
    BY PlacedIs DEF Areas
  <2>5. TextOK(c)
    BY <2>2, <2>4, ConcatIs DEF TextOK, Joined
  <2> HIDE DEF b, c
  <2> QED
    BY <2>3, <2>4, <2>5, NewlineLast
<1> QED
  BY <1>2, <1>3 DEF PrintsLine

\* Printing twice is printing.
LEMMA PrintsThen ==
  ASSUME NEW a \in Placed, NEW b, NEW c, Prints(b, a)
  PROVE  /\ Prints(c, b) => Prints(c, a)
         /\ PrintsLine(c, b) => PrintsLine(c, a)
<1>1. count(a) \in Nat /\ count(b) \in Nat /\ b \in Placed /\ WordSize \in Nat
  BY PlacedIs, WordIs DEF Prints
<1>2. ASSUME Prints(c, b)  PROVE Prints(c, a) /\ (count(c) < WordSize => count(b) < WordSize)
  <2>1. count(c) \in Nat /\ c \in Placed /\ count(a) <= count(b) /\ count(b) <= count(c)
    BY <1>2, PlacedIs DEF Prints
  <2>2. count(a) <= count(c) /\ (count(c) < WordSize => count(b) < WordSize)
    BY <1>1, <2>1
  <2> QED
    BY <1>2, <2>1, <2>2 DEF Prints
<1>3. ASSUME PrintsLine(c, b)  PROVE PrintsLine(c, a)
  <2>1. Prints(c, b)
    BY <1>3 DEF PrintsLine
  <2>2. Prints(c, a) /\ (count(c) < WordSize => count(b) < WordSize)
    BY <1>2, <2>1
  <2> QED
    BY <1>3, <2>2 DEF PrintsLine, Prints
<1> QED
  BY <1>2, <1>3

\* write_line prints a line.
LEMMA WriteLinePrints ==
  ASSUME NEW a \in Placed, NEW t \in Seq(Char)
  PROVE  PrintsLine(write_line(a, t), a)
<1> DEFINE b == write(a, t)
<1>1. Prints(b, a) /\ b \in Placed
  BY WritePrints DEF Prints
<1>2. write_line(a, t) = write(b, <<NL>>)
  BY DEF write_line
<1> HIDE DEF b
<1>3. PrintsLine(write(b, <<NL>>), b)
  <2>1. <<>> \in Seq(Char) /\ <<NL>> = Append(<<>>, NL)
    OBVIOUS
  <2> QED
    BY <1>1, <2>1, WriteNewline
<1> QED
  BY <1>1, <1>2, <1>3, PrintsThen

\* The help for a command is lines.
LEMMA WriteHelpPrints ==
  ASSUME NEW a \in Placed, NEW cmd, cmd.name \in Seq(Char), cmd.help \in Seq(Char)
  PROVE  PrintsLine(write_help(a, cmd), a)
<1> DEFINE b == write(a, cmd.name)
           c == write_line(b, Dash)
           d == write(c, cmd.help)
           e == IF Len(cmd.help) = 0 THEN b ELSE d
<1>1. Prints(b, a) /\ b \in Placed
  BY WritePrints DEF Prints
<1> HIDE DEF b
<1>2. Prints(c, b) /\ c \in Placed
  BY <1>1, Texts, WriteLinePrints DEF PrintsLine, Prints
<1> HIDE DEF c
<1>3. Prints(d, c) /\ d \in Placed
  BY <1>2, WritePrints DEF Prints
<1> HIDE DEF d
<1>4. Prints(c, a) /\ Prints(d, a)
  BY <1>1, <1>2, <1>3, PrintsThen
<1>5. Prints(e, a) /\ e \in Placed
  BY <1>1, <1>3, <1>4
<1>6. write_help(a, cmd) = write_line(e, <<NL, NL>>)
  BY DEF write_help, b, c, d
<1> HIDE DEF e
<1> QED
  BY <1>5, <1>6, Texts, WriteLinePrints, PrintsThen

\* What the table of commands may hold.
Commands == [name : Seq(Char), help : Seq(Char), fn : {"help", "echo", "sys"}]
IsTable(t) == t \in Seq(Commands) /\ \A i \in 1 .. Len(t) : t[i].fn = "sys" => t[i].name = SysName

\* register_command keeps the table well-formed.
LEMMA Registered ==
  ASSUME NEW t, IsTable(t), NEW c \in Commands, c.fn = "sys" => c.name = SysName
  PROVE  IsTable(register_command(t, c))
<1>1. CASE Len(t) >= MAX_COMMANDS
  BY <1>1 DEF register_command
<1>2. CASE ~(Len(t) >= MAX_COMMANDS)
  <2>1. register_command(t, c) = Append(t, c)
    BY <1>2 DEF register_command
  <2>2. t \in Seq(Commands) /\ \A i \in 1 .. Len(t) : t[i].fn = "sys" => t[i].name = SysName
    BY DEF IsTable
  <2>3. /\ Append(t, c) \in Seq(Commands) /\ Len(Append(t, c)) = Len(t) + 1
        /\ Append(t, c)[Len(t) + 1] = c /\ \A i \in 1 .. Len(t) : Append(t, c)[i] = t[i]
    BY <2>2
  <2>4. ASSUME NEW i \in 1 .. Len(t) + 1, Append(t, c)[i].fn = "sys"  PROVE Append(t, c)[i].name = SysName
    <3>1. i = Len(t) + 1 \/ i \in 1 .. Len(t)
      BY <2>2
    <3> QED
      BY <2>2, <2>3, <2>4, <3>1
  <2> QED
    BY <2>1, <2>3, <2>4 DEF IsTable
<1> QED
  BY <1>1, <1>2

\* The built-in commands are a table.
LEMMA BuiltinIs == IsTable(cmds)
<1>1. IsTable(<<>>)
  BY DEF IsTable
<1>2. /\ Command(HelpName, "help") \in Commands /\ Command(HelpName, "help").fn = "help"
      /\ Command(EchoName, "echo") \in Commands /\ Command(EchoName, "echo").fn = "echo"
      /\ Command(SysName, "sys") \in Commands /\ Command(SysName, "sys").name = SysName
  BY Texts DEF Command, Commands
<1> DEFINE h == register_command(<<>>, Command(HelpName, "help"))
           e == register_command(h, Command(EchoName, "echo"))
<1>3. IsTable(h)
  BY <1>1, <1>2, Registered
<1> HIDE DEF h
<1>4. IsTable(e)
  BY <1>2, <1>3, Registered
<1> HIDE DEF e
<1>5. IsTable(register_command(e, Command(SysName, "sys")))
  BY <1>2, <1>4, Registered
<1> QED
  BY <1>5 DEF cmds, builtin_commands, e, h

\* A command is found in the table, under the name it has there.
LEMMA FoundIs ==
  ASSUME NEW t, IsTable(t), NEW name, find_cmd(t, name) # <<>>
  PROVE  /\ DOMAIN find_cmd(t, name) = {1} /\ find_cmd(t, name)[1] \in Commands
         /\ find_cmd(t, name)[1].name = name
         /\ find_cmd(t, name)[1].fn = "sys" => name = SysName
<1> DEFINE named == {i \in DOMAIN t : Len(name) > 0 /\ t[i].name = name}
           IsFirst(i) == i \in named /\ \A j \in named : i <= j
           n == CHOOSE i \in named : \A j \in named : i <= j
<1>1. t \in Seq(Commands) /\ DOMAIN t = 1 .. Len(t) /\ \A i \in 1 .. Len(t) : t[i].fn = "sys" => t[i].name = SysName
  BY DEF IsTable
<1>2. named # {}
  BY DEF find_cmd
<1>3. find_cmd(t, name) = <<t[n]>>
  BY <1>2 DEF find_cmd
<1>4. PICK i : IsFirst(i)
  <2>1. named \in SUBSET Nat
    BY <1>1
  <2> HIDE DEF named
  <2> QED
    BY <1>2, <2>1, LeastNat
<1>5. n \in named
  <2> HIDE DEF named
  <2> QED
    BY <1>4
<1> HIDE DEF n
<1>6. n \in 1 .. Len(t) /\ t[n].name = name /\ t[n] \in Commands
  BY <1>1, <1>5
<1> QED
  BY <1>1, <1>3, <1>6

\* cmd_help prints lines.
LEMMA HelpPrints ==
  ASSUME NEW a \in Placed, NEW t, IsTable(t)
  PROVE  PrintsLine(cmd_help(a, t), a)
<1> DEFINE N == Len(t)
           top == write_line(a, Banner)
           step == [k \in 1 .. N |-> [b \in Placed |-> write_help(b, t[k])]]
           IsListed(f) == f = [n \in 0 .. N |-> IF n = 0 THEN top ELSE write_help(f[n - 1], t[n])]
           h == CHOOSE f : IsListed(f)
<1>1. N \in Nat /\ \A k \in 1 .. N : t[k].name \in Seq(Char) /\ t[k].help \in Seq(Char)
  <2>1. t \in Seq(Commands)
    BY DEF IsTable
  <2>2. N \in Nat /\ \A k \in 1 .. N : t[k] \in Commands
    BY <2>1
  <2>3. \A c \in Commands : c.name \in Seq(Char) /\ c.help \in Seq(Char)
    BY DEF Commands
  <2> QED
    BY <2>2, <2>3
<1>2. PrintsLine(top, a) /\ top \in Placed
  BY Texts, WriteLinePrints DEF PrintsLine, Prints
<1> HIDE DEF top
<1>3. \A k \in 1 .. N : \A b \in Placed : PrintsLine(write_help(b, t[k]), b) /\ write_help(b, t[k]) \in Placed
  BY <1>1, WriteHelpPrints DEF PrintsLine, Prints
<1>4. step \in [1 .. N -> [Placed -> Placed]]
  BY <1>3
<1>5. PICK g : Iterates(g, Placed, top, N, step)
  <2> HIDE DEF N, step
  <2> QED
    BY <1>1, <1>2, <1>4, Recursion
<1>6. \A n \in 1 .. N : g[n] = write_help(g[n - 1], t[n])
  <2>1. \A n \in 1 .. N : n - 1 \in 0 .. N
    BY <1>1
  <2> QED
    BY <1>5, <2>1 DEF Iterates
<1>7. IsListed(g)
  BY <1>1, <1>5, <1>6 DEF Iterates
<1>8. cmd_help(a, t) = h[N]
  BY DEF cmd_help, top
<1>9. IsListed(h)
  BY <1>7
<1> HIDE DEF h
<1> DEFINE T == {n \in 0 .. N : h[n] \in Placed /\ PrintsLine(h[n], a)}
<1>10. 0 \in T
  BY <1>1, <1>2, <1>9
<1>11. ASSUME NEW k \in 0 .. N - 1, k \in T  PROVE k + 1 \in T
  <2>1. k + 1 \in 0 .. N /\ k + 1 # 0 /\ (k + 1) - 1 = k /\ k + 1 \in 1 .. N
    BY <1>1
  <2>2. h[k + 1] = write_help(h[(k + 1) - 1], t[k + 1])
    BY <1>9, <2>1
  <2>3. PrintsLine(h[k + 1], h[k]) /\ h[k + 1] \in Placed
    BY <1>3, <1>11, <2>1, <2>2
  <2>4. Prints(h[k], a)
    BY <1>11 DEF PrintsLine
  <2>5. PrintsLine(h[k + 1], a)
    BY <2>3, <2>4, PrintsThen
  <2> QED
    BY <2>1, <2>3, <2>5
<1> HIDE DEF T, N
<1>12. \A k \in 0 .. N : k \in T
  BY <1>1, <1>10, <1>11, Induction
<1> QED
  BY <1>1, <1>8, <1>12 DEF T

\* cmd_echo prints a line.
LEMMA EchoPrints ==
  ASSUME NEW a \in Placed, NEW argv \in Seq(Seq(Char))
  PROVE  PrintsLine(cmd_echo(a, argv), a)
<1> DEFINE N == Len(argv)
           put(b, n) == write(IF n = 2 THEN b ELSE write(b, Space), argv[n])
           step == [k \in 1 .. N |-> [b \in Placed |-> IF k <= 1 THEN a ELSE put(b, k)]]
           IsEchoed(f) == f = [n \in 0 .. N |-> IF n <= 1 THEN a ELSE put(f[n - 1], n)]
           h == CHOOSE f : IsEchoed(f)
<1>1. N \in Nat /\ \A k \in 1 .. N : argv[k] \in Seq(Char)
  OBVIOUS
<1>2. ASSUME NEW k \in 1 .. N, NEW b \in Placed  PROVE Prints(put(b, k), b) /\ put(b, k) \in Placed
  <2>1. Prints(write(b, Space), b) /\ write(b, Space) \in Placed
    BY Texts, WritePrints DEF Prints
  <2>2. \A c \in Placed : Prints(write(c, argv[k]), c) /\ write(c, argv[k]) \in Placed
    BY <1>1, WritePrints DEF Prints
  <2>3. CASE k = 2
    BY <2>2, <2>3
  <2>4. CASE k # 2
    BY <2>1, <2>2, <2>4, PrintsThen
  <2> QED
    BY <2>3, <2>4
<1> HIDE DEF put
<1>4. step \in [1 .. N -> [Placed -> Placed]]
  BY <1>2
<1>5. PICK g : Iterates(g, Placed, a, N, step)
  <2> HIDE DEF N, step
  <2> QED
    BY <1>1, <1>4, Recursion
<1>6. \A n \in 1 .. N : g[n] = IF n <= 1 THEN a ELSE put(g[n - 1], n)
  <2>1. \A n \in 1 .. N : n - 1 \in 0 .. N
    BY <1>1
  <2> QED
    BY <1>5, <2>1 DEF Iterates
<1>7. IsEchoed(g)
  BY <1>1, <1>5, <1>6 DEF Iterates
<1>8. cmd_echo(a, argv) = write(h[N], <<NL>>)
  BY DEF cmd_echo, put
<1>9. IsEchoed(h)
  BY <1>7
<1> HIDE DEF h
<1> DEFINE T == {n \in 0 .. N : h[n] \in Placed /\ (n > 1 => Prints(h[n], a)) /\ (n <= 1 => h[n] = a)}
<1>10. 0 \in T
  BY <1>1, <1>9
<1>11. ASSUME NEW k \in 0 .. N - 1, k \in T  PROVE k + 1 \in T
  <2>1. k + 1 \in 0 .. N /\ k + 1 # 0 /\ (k + 1) - 1 = k /\ k + 1 \in 1 .. N
    BY <1>1
  <2>2. h[k + 1] = IF k + 1 <= 1 THEN a ELSE put(h[(k + 1) - 1], k + 1)
    BY <1>9, <2>1
  <2>3. CASE k + 1 <= 1
    BY <2>1, <2>2, <2>3
  <2>4. CASE ~(k + 1 <= 1)
    <3>1. Prints(h[k + 1], h[k]) /\ h[k + 1] \in Placed
      BY <1>2, <1>11, <2>1, <2>2, <2>4
    <3>2. (h[k] = a) \/ Prints(h[k], a)
      BY <1>11
    <3>3. Prints(h[k + 1], a)
      BY <3>1, <3>2, PrintsThen
    <3> QED
      BY <2>1, <2>4, <3>1, <3>3
  <2> QED
    BY <2>3, <2>4
<1> HIDE DEF T, N
<1>12. \A k \in 0 .. N : k \in T
  BY <1>1, <1>10, <1>11, Induction
<1>13. h[N] \in Placed /\ (h[N] = a \/ Prints(h[N], a))
  BY <1>1, <1>12 DEF T
<1>14. PrintsLine(write(h[N], <<NL>>), h[N])
  <2>1. <<>> \in Seq(Char) /\ <<NL>> = Append(<<>>, NL)
    OBVIOUS
  <2> QED
    BY <1>13, <2>1, WriteNewline
<1> QED
  BY <1>8, <1>13, <1>14, PrintsThen

\* The command of a line leaves the text as it was or writes lines.
LEMMA ExecuteIs ==
  ASSUME NEW a \in Placed, NEW line, arguments(line) \in Seq(Seq(Char))
  PROVE  execute_line(a, cmds, line) = a \/ PrintsLine(execute_line(a, cmds, line), a)
<1> DEFINE argv == arguments(line)
           cmd  == command(cmds, line)
<1>1. CASE argv = <<>>
  BY <1>1 DEF execute_line
<1>2. CASE argv # <<>> /\ cmd = <<>>
  <2>1. execute_line(a, cmds, line) = write_line(write(a, Unknown), argv[1])
    BY <1>2 DEF execute_line
  <2>2. argv[1] \in Seq(Char)
    BY <1>2
  <2>3. Prints(write(a, Unknown), a) /\ write(a, Unknown) \in Placed
    BY Texts, WritePrints DEF Prints
  <2>4. PrintsLine(write_line(write(a, Unknown), argv[1]), write(a, Unknown))
    BY <2>2, <2>3, WriteLinePrints
  <2> QED
    BY <2>1, <2>3, <2>4, PrintsThen
<1>3. CASE argv # <<>> /\ cmd # <<>>
  <2>1. cmd[1] \in Commands
    BY <1>3, BuiltinIs, FoundIs DEF command
  <2>2. cmd[1].fn \in {"help", "echo", "sys"}
    BY <2>1 DEF Commands
  <2>3. CASE cmd[1].fn = "help"
    BY <1>3, <2>3, BuiltinIs, HelpPrints DEF execute_line
  <2>4. CASE cmd[1].fn = "echo"
    <3>1. execute_line(a, cmds, line) = cmd_echo(a, argv)
      BY <1>3, <2>4 DEF execute_line
    <3> QED
      BY <3>1, EchoPrints
  <2>5. CASE cmd[1].fn = "sys"
    <3>1. execute_line(a, cmds, line) = cmd_sys(a, argv)
      BY <1>3, <2>5 DEF execute_line
    <3> QED
      BY <3>1, Texts, WriteLinePrints DEF cmd_sys
  <2> QED
    BY <2>2, <2>3, <2>4, <2>5
<1> QED
  BY <1>1, <1>2, <1>3

-----------------------------------------------------------------------------
(* The words of a line.                                                    *)

Words     == {w \in Seq(Char) : w # <<>> /\ \A k \in 1 .. Len(w) : Letter(w[k])}
Tokens    == {t \in [open : BOOLEAN, argv : Seq(Words)] : t.open => t.argv # <<>>}
NoTokens  == [open |-> FALSE, argv |-> <<>>]

\* Words grow by letters.
LEMMA WordsAre ==
  /\ \A c \in Char : Letter(c) => <<c>> \in Words
  /\ \A w \in Words, c \in Char : Letter(c) => Append(w, c) \in Words
  /\ Words \subseteq Seq(Char) \ {<<>>}
<1>1. ASSUME NEW c \in Char, Letter(c)  PROVE <<c>> \in Words
  BY <1>1 DEF Words
<1>2. ASSUME NEW w \in Words, NEW c \in Char, Letter(c)  PROVE Append(w, c) \in Words
  <2>1. w \in Seq(Char) /\ \A k \in 1 .. Len(w) : Letter(w[k])
    BY DEF Words
  <2>2. /\ Append(w, c) \in Seq(Char) /\ Len(Append(w, c)) = Len(w) + 1 /\ Append(w, c) # <<>>
        /\ Append(w, c)[Len(w) + 1] = c /\ \A k \in 1 .. Len(w) : Append(w, c)[k] = w[k]
    BY <2>1
  <2>3. ASSUME NEW k \in 1 .. Len(w) + 1  PROVE Letter(Append(w, c)[k])
    <3>1. k = Len(w) + 1 \/ k \in 1 .. Len(w)
      BY <2>1
    <3> QED
      BY <1>2, <2>1, <2>2, <3>1
  <2> QED
    BY <2>2, <2>3 DEF Words
<1> QED
  BY <1>1, <1>2 DEF Words

\* What a character does to the words: nothing but end one, extend the last
\* one, start one, or nothing at all.
Grows(u, t, c) ==
  LET n == Len(t.argv)
  IN  /\ u \in Tokens
      /\ ~Letter(c) => u.open = FALSE /\ u.argv = t.argv
      /\ Letter(c) /\ t.open =>
           /\ u.open = TRUE /\ n > 0 /\ u.argv \in Seq(Words) /\ Len(u.argv) = n
           /\ u.argv[n] = Append(t.argv[n], c)
           /\ \A i \in 1 .. n - 1 : u.argv[i] = t.argv[i]
      /\ Letter(c) /\ ~t.open /\ n < MAX_ARGS => u.open = TRUE /\ u.argv = Append(t.argv, <<c>>)
      /\ Letter(c) /\ ~t.open /\ n >= MAX_ARGS => u = t

\* One character of the tokenizer.
LEMMA TokenIs ==
  ASSUME NEW t \in Tokens, NEW c \in Char
  PROVE  Grows(token(t, c), t, c)
<1> DEFINE u == token(t, c)  n == Len(t.argv)
<1> SUFFICES /\ u \in Tokens
             /\ ~Letter(c) => u.open = FALSE /\ u.argv = t.argv
             /\ Letter(c) /\ t.open =>
                  /\ u.open = TRUE /\ n > 0 /\ u.argv \in Seq(Words) /\ Len(u.argv) = n
                  /\ u.argv[n] = Append(t.argv[n], c)
                  /\ \A i \in 1 .. n - 1 : u.argv[i] = t.argv[i]
             /\ Letter(c) /\ ~t.open /\ n < MAX_ARGS => u.open = TRUE /\ u.argv = Append(t.argv, <<c>>)
             /\ Letter(c) /\ ~t.open /\ n >= MAX_ARGS => u = t
  BY DEF Grows
<1>0. /\ t \in [open : BOOLEAN, argv : Seq(Words)] /\ t.argv \in Seq(Words) /\ t.open \in BOOLEAN
      /\ (t.open => t.argv # <<>>) /\ n \in Nat /\ MAX_ARGS \in Nat
  BY ShellAssumption DEF Tokens
<1>1. CASE ~Letter(c)
  <2>1. u = [t EXCEPT !.open = FALSE]
    BY <1>1 DEF token, Letter
  <2>2. u \in [open : BOOLEAN, argv : Seq(Words)] /\ u.open = FALSE /\ u.argv = t.argv
    BY <1>0, <2>1
  <2> QED
    BY <1>1, <2>2 DEF Tokens
<1>2. CASE Letter(c) /\ t.open
  <2>1. u = [t EXCEPT !.argv[n] = Append(t.argv[n], c)]
    BY <1>2 DEF token, Letter
  <2>2. n \in 1 .. n /\ n > 0 /\ t.argv[n] \in Words
    BY <1>0, <1>2
  <2> DEFINE v == [t.argv EXCEPT ![n] = Append(t.argv[n], c)]
  <2>3. Append(t.argv[n], c) \in Words
    BY <1>2, <2>2, WordsAre
  <2>4. v \in Seq(Words) /\ Len(v) = n /\ v[n] = Append(t.argv[n], c) /\ \A i \in 1 .. n - 1 : v[i] = t.argv[i]
    BY <1>0, <2>2, <2>3
  <2>5. u = [t EXCEPT !.argv = v]
    BY <1>0, <2>1
  <2> HIDE DEF v, u, n
  <2>6. u \in [open : BOOLEAN, argv : Seq(Words)] /\ u.open = TRUE /\ u.argv = v
    BY <1>0, <1>2, <2>4, <2>5
  <2>7. u.argv # <<>>
    BY <2>2, <2>4, <2>6
  <2>8. u \in Tokens
    BY <2>6, <2>7 DEF Tokens
  <2> QED
    BY <1>2, <2>2, <2>4, <2>6, <2>8 DEF u, n
<1>3. CASE Letter(c) /\ ~t.open /\ n < MAX_ARGS
  <2>1. u = [open |-> TRUE, argv |-> Append(t.argv, <<c>>)]
    BY <1>3 DEF token, Letter
  <2>2. Append(t.argv, <<c>>) \in Seq(Words) /\ Append(t.argv, <<c>>) # <<>>
    <3>1. \A w \in Words : Append(t.argv, w) \in Seq(Words) /\ Append(t.argv, w) # <<>>
      BY <1>0
    <3> QED
      BY <1>3, <3>1, WordsAre
  <2>3. u \in Tokens /\ u.open = TRUE /\ u.argv = Append(t.argv, <<c>>)
    BY <2>1, <2>2 DEF Tokens
  <2> QED
    BY <1>0, <1>3, <2>3
<1>4. CASE Letter(c) /\ ~t.open /\ ~(n < MAX_ARGS)
  <2>1. u = t
    BY <1>4 DEF token, Letter
  <2> QED
    BY <1>4, <2>1
<1> QED
  BY <1>1, <1>2, <1>3, <1>4

\* The states the tokenizer goes through.
TokenSteps(f, line) ==
  /\ f \in [0 .. Len(line) -> Tokens] /\ f[0] = NoTokens
  /\ \A n \in 1 .. Len(line) : f[n] = token(f[n - 1], line[n])

\* The tokenizer takes one character after the other.
LEMMA ArgumentsAre ==
  ASSUME NEW line \in Seq(Char)
  PROVE  \E f : TokenSteps(f, line) /\ arguments(line) = f[Len(line)].argv
<1> DEFINE N == Len(line)
           step == [k \in 1 .. N |-> [t \in Tokens |-> token(t, line[k])]]
           IsTokens(f) == f = [n \in 0 .. N |-> IF n = 0 THEN NoTokens ELSE token(f[n - 1], line[n])]
           h == CHOOSE f : IsTokens(f)
<1>1. N \in Nat /\ \A k \in 1 .. N : line[k] \in Char
  OBVIOUS
<1>2. step \in [1 .. N -> [Tokens -> Tokens]]
  BY <1>1, TokenIs DEF Grows
<1>3. NoTokens \in Tokens
  BY DEF Tokens, NoTokens
<1>4. PICK g : Iterates(g, Tokens, NoTokens, N, step)
  <2> HIDE DEF N, step
  <2> QED
    BY <1>1, <1>2, <1>3, Recursion
<1>5. TokenSteps(g, line)
  <2>1. ASSUME NEW n \in 1 .. N  PROVE g[n] = token(g[n - 1], line[n])
    <3>1. n - 1 \in 0 .. N /\ g[n - 1] \in Tokens /\ g[n] = step[n][g[n - 1]]
      BY <1>1, <1>4, <2>1 DEF Iterates
    <3> QED
      BY <3>1
  <2> QED
    BY <1>4, <2>1 DEF TokenSteps, Iterates
<1>6. IsTokens(g)
  BY <1>1, <1>5 DEF TokenSteps
<1>7. arguments(line) = h[N].argv
  BY DEF arguments, NoTokens
<1>8. IsTokens(h)
  BY <1>6
<1> HIDE DEF h
<1> DEFINE T == {n \in 0 .. N : h[n] = g[n]}
<1>9. 0 \in T
  BY <1>1, <1>5, <1>8 DEF TokenSteps
<1>10. ASSUME NEW k \in 0 .. N - 1, k \in T  PROVE k + 1 \in T
  <2>1. k + 1 \in 0 .. N /\ k + 1 # 0 /\ (k + 1) - 1 = k /\ k + 1 \in 1 .. N
    BY <1>1
  <2>2. h[k + 1] = token(h[(k + 1) - 1], line[k + 1])
    BY <1>8, <2>1
  <2>3. g[k + 1] = token(g[(k + 1) - 1], line[k + 1])
    BY <1>5, <2>1 DEF TokenSteps
  <2> QED
    BY <1>10, <2>1, <2>2, <2>3
<1> HIDE DEF T, N
<1>11. \A k \in 0 .. N : k \in T
  BY <1>1, <1>9, <1>10, Induction
<1> QED
  BY <1>1, <1>5, <1>7, <1>11 DEF T, N

\* Arguments are words.
LEMMA ArgumentsType ==
  ASSUME NEW line \in Seq(Char)
  PROVE  arguments(line) \in Seq(Words) /\ arguments(line) \in Seq(Seq(Char))
<1>1. PICK f : TokenSteps(f, line) /\ arguments(line) = f[Len(line)].argv
  BY ArgumentsAre
<1>2. f[Len(line)] \in Tokens
  BY <1>1 DEF TokenSteps
<1>3. arguments(line) \in Seq(Words)
  BY <1>1, <1>2 DEF Tokens
<1>4. Words \subseteq Seq(Char)
  BY DEF Words
<1> QED
  BY <1>3, <1>4

-----------------------------------------------------------------------------
(* The loop of readline.                                                   *)

\* What is said of the line depends on text and cursor alone.
LEMMA SameLine ==
  ASSUME NEW a, NEW b, SameContent(b, a)
  PROVE  /\ OnLine(b) <=> OnLine(a)
         /\ Exact(b) <=> Exact(a)
         /\ \A line : Shows(b, line) <=> Shows(a, line)
<1>1. /\ b.text = a.text /\ b.gap = a.gap /\ b.target = a.target
      /\ last(b) = last(a) /\ row(b) = row(a) /\ count(b) = count(a)
  BY SameLines DEF SameContent
<1> QED
  BY <1>1 DEF OnLine, Exact, Shows, Prompted

\* The prompt is written to a line of its own.
LEMMA PromptWritten ==
  ASSUME NEW a \in Placed, AtEnd(a), last(a) = count(a),
         NEW b \in Placed, Wrote(b, a, Prompt)
  PROVE  OnLine(b) /\ Shows(b, <<>>) /\ Exact(b)
<1>0. /\ TextOK(a) /\ count(a) \in Nat /\ TextOK(b) /\ count(b) \in Nat /\ row(b) \in Nat
      /\ Prompt \in Seq(Char) /\ Len(Prompt) \in Nat
  BY PlacedLine, PromptIs
<1>1. b.text = a.text \o Prompt /\ AtEnd(b)
  BY DEF Wrote
<1>2. Joined(b.text, a.text, Prompt)
  BY <1>0, <1>1, ConcatIs DEF TextOK
<1>3. count(b) = count(a) + Len(Prompt)
  BY <1>2 DEF Joined, count
<1>4. newlines(b) = newlines(a)
  <2>1. ASSUME NEW i \in newlines(a)  PROVE i \in newlines(b)
    <3>1. i \in 0 .. count(a) - 1 /\ a.text[i + 1] = NL
      BY <2>1 DEF newlines
    <3>2. i + 1 \in 1 .. Len(a.text)
      BY <1>0, <3>1 DEF count
    <3>3. b.text[i + 1] = NL
      BY <1>2, <3>1, <3>2 DEF Joined
    <3>4. i \in 0 .. count(b) - 1
      BY <1>0, <1>3, <3>1
    <3> QED
      BY <3>3, <3>4 DEF newlines
  <2>2. ASSUME NEW i \in newlines(b)  PROVE i \in newlines(a)
    <3>1. i \in 0 .. count(b) - 1 /\ b.text[i + 1] = NL
      BY <2>2 DEF newlines
    <3>2. CASE i < count(a)
      <4>1. i + 1 \in 1 .. Len(a.text) /\ i \in 0 .. count(a) - 1
        BY <1>0, <3>1, <3>2 DEF count
      <4>2. a.text[i + 1] = NL
        BY <1>2, <3>1, <4>1 DEF Joined
      <4> QED
        BY <4>1, <4>2 DEF newlines
    <3>3. CASE ~(i < count(a))
      <4>1. PICK k \in 1 .. Len(Prompt) : i + 1 = count(a) + k
        <5>1. i + 1 - count(a) \in 1 .. Len(Prompt) /\ i + 1 = count(a) + (i + 1 - count(a))
          BY <1>0, <1>3, <3>1, <3>3
        <5> QED
          BY <5>1
      <4>2. b.text[i + 1] = Prompt[k]
        BY <1>2, <4>1 DEF Joined, count
      <4> QED
        BY <3>1, <4>2, PromptIs
    <3> QED
      BY <3>2, <3>3
  <2> QED
    BY <2>1, <2>2
<1>5. row(b) = row(a) /\ last(b) = last(a)
  <2>1. last(a) <= count(b)
    BY <1>0, <1>3
  <2> QED
    BY <1>0, <1>4, <2>1, SameLast
<1>6. Prompted(b)
  <2>1. last(b) + Len(Prompt) <= count(b)
    BY <1>0, <1>3, <1>5
  <2>2. \A i \in 1 .. Len(Prompt) : b.text[last(b) + i] = Prompt[i]
    BY <1>2, <1>5 DEF Joined, count
  <2> QED
    BY <2>1, <2>2 DEF Prompted
<1>7. b.gap = count(b) /\ b.target.x = count(b) - last(b) /\ b.target.y = row(b)
  BY <1>1 DEF AtEnd, EndPoint, Point
<1>8. OnLine(b) /\ Exact(b)
  <2>1. last(b) + Len(Prompt) <= b.gap
    BY <1>0, <1>3, <1>5, <1>7
  <2> QED
    BY <1>6, <1>7, <2>1 DEF OnLine, Exact
<1>9. Shows(b, <<>>)
  <2>1. Len(<<>>) = 0 /\ count(b) = last(b) + Len(Prompt) + 0
    BY <1>0, <1>3, <1>5
  <2> QED
    BY <1>7, <2>1 DEF Shows
<1> QED
  BY <1>8, <1>9

\* What the display shows in the last line.
LEMMA LastLineIs ==
  ASSUME NEW a \in Placed, Prompted(a)
  PROVE  /\ IsPrefix(Prompt, LastLine(a))
         /\ \A line \in Seq(Char) : Shows(a, line) =>
              LastLine(a) = Prompt \o line /\ WithoutPrompt(LastLine(a)) = line
<1>0. /\ TextOK(a) /\ count(a) \in Nat /\ last(a) \in 0 .. count(a) /\ Prompt \in Seq(Char)
      /\ Len(Prompt) \in Nat
  BY PlacedLine, PromptIs
<1> DEFINE s == LastLine(a)
<1>1. PICK p \in 1 .. count(a) + 1 : p = last(a) + 1
  BY <1>0
<1>2. PICK n \in 0 .. count(a) : n = count(a) - last(a)
  BY <1>0
<1>3. s = SubSeq(a.text, p, Len(a.text))
  BY <1>1 DEF LastLine, last, row, count
<1>4. s \in Seq(Char) /\ Len(s) = n /\ \A i \in 1 .. n : s[i] = a.text[last(a) + i]
  <2>1. a.text \in Seq(Char) /\ Len(a.text) = count(a)
    BY <1>0 DEF TextOK, count
  <2>2. SubSeq(a.text, p, Len(a.text)) \in Seq(Char)
    BY <1>1, <2>1
  <2>3. Len(SubSeq(a.text, p, Len(a.text))) = n
    BY <1>0, <1>1, <1>2, <2>1
  <2>4. ASSUME NEW i \in 1 .. n  PROVE SubSeq(a.text, p, Len(a.text))[i] = a.text[last(a) + i]
    <3>1. SubSeq(a.text, p, Len(a.text))[i] = a.text[p + i - 1] /\ p + i - 1 = last(a) + i
      BY <1>0, <1>1, <1>2, <2>1, SMTT(30)
    <3> QED
      BY <3>1
  <2> QED
    BY <1>3, <2>2, <2>3, <2>4
<1> HIDE DEF s
<1>5. Len(Prompt) <= n /\ \A i \in 1 .. Len(Prompt) : i \in 1 .. n /\ s[i] = Prompt[i]
  <2>1. Len(Prompt) <= n
    BY <1>0, <1>2 DEF Prompted
  <2>2. ASSUME NEW i \in 1 .. Len(Prompt)  PROVE i \in 1 .. n /\ s[i] = Prompt[i]
    BY <1>0, <1>4, <2>1 DEF Prompted
  <2> QED
    BY <2>1, <2>2
<1>6. IsPrefix(Prompt, s)
  <2> DEFINE l == Len(Prompt)
  <2>1. Len(Prompt) <= Len(s)
    BY <1>4, <1>5
  <2>2. SubSeq(s, 1, l) \in Seq(Char) /\ Len(SubSeq(s, 1, l)) = l /\ \A i \in 1 .. l : SubSeq(s, 1, l)[i] = s[i]
    BY <1>0, <1>4, <1>5
  <2>3. SubSeq(s, 1, l) = Prompt
    BY <1>0, <1>5, <2>2
  <2>4. SubSeq(Prompt, 1, Len(Prompt)) = Prompt
    BY <1>0
  <2> QED
    BY <2>1, <2>3, <2>4 DEF IsPrefix
<1>7. ASSUME NEW line \in Seq(Char), Shows(a, line)
      PROVE  s = Prompt \o line /\ WithoutPrompt(s) = line
  <2> DEFINE t == Prompt \o line  l == Len(Prompt)
  <2>1. Joined(t, Prompt, line)
    BY <1>0, ConcatIs
  <2>2. n = l + Len(line) /\ l \in Nat /\ Len(line) \in Nat
    BY <1>0, <1>2, <1>7 DEF Shows
  <2>3. ASSUME NEW i \in 1 .. Len(line)  PROVE s[l + i] = line[i]
    <3>1. l + i \in 1 .. n /\ last(a) + (l + i) = last(a) + l + i
      BY <1>0, <2>2
    <3> QED
      BY <1>4, <1>7, <3>1 DEF Shows
  <2>4. ASSUME NEW i \in 1 .. n  PROVE s[i] = t[i]
    <3>1. CASE i <= l
      BY <1>0, <1>5, <2>1, <3>1 DEF Joined
    <3>2. CASE ~(i <= l)
      <4>1. PICK k \in 1 .. Len(line) : i = l + k
        <5>1. i - l \in 1 .. Len(line) /\ i = l + (i - l)
          BY <2>2, <3>2
        <5> QED
          BY <5>1
      <4> QED
        BY <2>1, <2>3, <4>1 DEF Joined
    <3> QED
      BY <3>1, <3>2
  <2>5. s = t
    <3>1. t \in Seq(Char) /\ Len(t) = n
      BY <2>1, <2>2 DEF Joined
    <3> HIDE DEF t
    <3> QED
      BY <1>4, <2>4, <3>1
  <2>6. WithoutPrompt(s) = line
    <3> DEFINE u == SubSeq(s, l + 1, Len(s))
    <3>1. u \in Seq(Char) /\ Len(u) = Len(line)
      BY <1>4, <2>2
    <3>2. ASSUME NEW i \in 1 .. Len(line)  PROVE u[i] = line[i]
      <4>1. u[i] = s[l + 1 + i - 1] /\ l + 1 + i - 1 = l + i
        BY <1>4, <2>2
      <4> QED
        BY <2>3, <4>1
    <3>3. u = line
      <4> HIDE DEF u
      <4> QED
        BY <3>1, <3>2
    <3> QED
      BY <3>3 DEF WithoutPrompt
  <2> QED
    BY <2>5, <2>6
<1> QED
  BY <1>6, <1>7 DEF s

\* The window moves, the text and its cursor stay.
LEMMA ScrollIs ==
  ASSUME NEW a \in Placed
  PROVE  /\ scroll_up(a, 1) \in Placed /\ SameContent(scroll_up(a, 1), a)
         /\ scroll_down(a, 1) \in Placed /\ SameContent(scroll_down(a, 1), a)
<1>0. a \in Areas /\ a.first \in Nat /\ a.follow \in BOOLEAN /\ count_lines(a) \in Nat /\ bottom_start(a) \in Nat
  BY PlacedIs, BottomIs
<1>1. \A f \in Nat, w \in BOOLEAN :
        Viewed(a, count_lines(a), f, w) \in Placed /\ SameContent(Viewed(a, count_lines(a), f, w), a)
  BY <1>0, ViewedIs DEF IsViewed
<1>2. recounted(a) = Viewed(a, count_lines(a), a.first, a.follow)
  BY <1>0 DEF recounted, Viewed, Areas
<1>3. scroll_up(a, 1) \in Placed /\ SameContent(scroll_up(a, 1), a)
  <2> DEFINE f == IF 1 > a.first THEN 0 ELSE a.first - 1
  <2>1. CASE visible_line_capacity = 0 \/ bottom_start(a) = 0
    <3>1. scroll_up(a, 1) = recounted(a)
      BY <2>1 DEF scroll_up
    <3> QED
      BY <1>0, <1>1, <1>2, <3>1
  <2>2. CASE ~(visible_line_capacity = 0 \/ bottom_start(a) = 0)
    <3>1. scroll_up(a, 1) = Viewed(a, count_lines(a), f, FALSE)
      BY <1>0, <2>2 DEF scroll_up, recounted, Viewed, Areas
    <3>2. f \in Nat
      BY <1>0
    <3> QED
      BY <1>1, <3>1, <3>2
  <2> QED
    BY <2>1, <2>2
<1>4. scroll_down(a, 1) \in Placed /\ SameContent(scroll_down(a, 1), a)
  <2> DEFINE f == IF a.first + 1 >= bottom_start(a) THEN bottom_start(a) ELSE a.first + 1
             w == a.first + 1 >= bottom_start(a)
  <2>1. bottom_start(recounted(a)) = bottom_start(a)
    BY <1>0, SameLines DEF recounted, Areas
  <2>2. scroll_down(a, 1) = Viewed(a, count_lines(a), f, w)
    BY <1>0, CapacityIs DEF scroll_down, recounted, Viewed, Areas
  <2>3. f \in Nat /\ w \in BOOLEAN
    BY <1>0
  <2> QED
    BY <1>1, <2>2, <2>3
<1> QED
  BY <1>3, <1>4

-----------------------------------------------------------------------------
(* The invariant.                                                          *)

\* The text has fewer characters than there are uint32_t: a column or a line
\* of it does not wrap.
TextIsShort == count(area) + 2 < WordSize

KeyNames == {"Left", "Right", "Erase"}

LineInv ==
  /\ out \in Seq(Typed) /\ typed \in Nat /\ Len(out) <= typed
  /\ rounds \in 0 .. Len(MaxTyped)
  /\ pc \in {"prompt", "read", "execute", "stopped"}
  /\ pressed \subseteq KeyNames /\ ("Erase" \in pressed => "Left" \in pressed)
  /\ rounds = 0 => pc = "prompt"

AreaInv ==
  /\ area \in Placed /\ area.target.x < WordSize
  /\ rounds > 0 => Drawn(area)
  /\ rounds = 0 => area = NewArea
  /\ pc # "read" => AtEnd(area) /\ last(area) = count(area)

\* What is left of the line on the display, by the keys it has seen.
ReadInv ==
  /\ "Erase" \notin pressed => OnLine(area)
  /\ "Left" \notin pressed => Shows(area, out)
  /\ pressed = {} => Exact(area)

ConsoleInv ==
  /\ LineInv /\ AreaInv
  /\ pc = "read" => ReadInv
  /\ pc \in {"execute", "stopped"} /\ "Left" \notin pressed => shown = out
  /\ pc = "stopped" => stops(cmds, out)

\* The empty area.
LEMMA NewIs == NewArea \in Placed /\ NewArea.target.x = 0 /\ AtEnd(NewArea) /\ last(NewArea) = count(NewArea)
<1> DEFINE a == NewArea
<1>1. /\ a.text = <<>> /\ a.gap = 0 /\ a.target = Point(0, 0) /\ a.real = Point(0, 0)
      /\ a.lines = 0 /\ a.first = 0 /\ a.follow = TRUE
      /\ a = [text |-> <<>>, gap |-> 0, target |-> Point(0, 0), real |-> Point(0, 0),
              lines |-> 0, first |-> 0, follow |-> TRUE]
  BY DEF NewArea
<1>2. Point(0, 0) \in Points /\ <<>> \in Seq(Char) /\ 0 \in Nat /\ TRUE \in BOOLEAN
  BY PointIs
<1>3. a \in Areas /\ count(a) = 0
  BY <1>1, <1>2 DEF Areas, count
<1> HIDE DEF a
<1>4. a \in Placed
  BY <1>1, <1>3 DEF Placed
<1>5. newlines(a) = {}
  BY <1>3 DEF newlines
<1>6. row(a) = 0 /\ last(a) = 0
  <2>1. row(a) = 0
    BY <1>4, <1>5, PlacedIs, Newlines, FS_EmptySet
  <2> QED
    BY <2>1 DEF last, line_start_index
<1>7. EndPoint(a) = Point(0, 0)
  BY <1>3, <1>6 DEF EndPoint
<1> QED
  BY <1>1, <1>3, <1>4, <1>6, <1>7 DEF AtEnd, Point, a

\* The shell starts in the invariant.
LEMMA InitInv == Init => ConsoleInv
<1> SUFFICES ASSUME Init  PROVE ConsoleInv
  OBVIOUS
<1>1. area = NewArea /\ out = <<>> /\ pc = "prompt" /\ rounds = 0 /\ typed = 0 /\ pressed = {} /\ shown = <<>>
  BY DEF Init
<1>2. LineInv
  <2>1. Len(MaxTyped) \in Nat
    BY ConsoleAssumption
  <2> QED
    BY <1>1, <2>1 DEF LineInv
<1>3. AreaInv
  BY <1>1, NewIs, WordIs DEF AreaInv
<1> QED
  BY <1>1, <1>2, <1>3 DEF ConsoleInv

\* At the end of a short text the column is small.
LEMMA EndSmall ==
  ASSUME NEW a \in Placed, AtEnd(a), count(a) < WordSize
  PROVE  a.target.x < WordSize
<1>1. count(a) \in Nat /\ last(a) \in 0 .. count(a) /\ WordSize \in Nat
  BY PlacedLine, WordIs
<1>2. a.target.x = count(a) - last(a)
  BY DEF AtEnd, EndPoint, Point
<1> QED
  BY <1>1, <1>2

\* The prompt.
LEMMA StartLineInv == ConsoleInv /\ StartLine /\ TextIsShort' => ConsoleInv'
<1> SUFFICES ASSUME ConsoleInv, StartLine, TextIsShort'  PROVE ConsoleInv'
  OBVIOUS
<1> DEFINE b == write(area, Prompt)
<1>1. /\ pc = "prompt" /\ rounds < Len(MaxTyped) /\ out' = <<>> /\ area' = b
      /\ pc' = "read" /\ rounds' = rounds + 1 /\ typed' = 0 /\ pressed' = {} /\ shown' = <<>>
  BY DEF StartLine
<1>2. area \in Placed /\ AtEnd(area) /\ last(area) = count(area)
  BY <1>1 DEF ConsoleInv, AreaInv
<1>3. /\ b \in Placed /\ Drawn(b) /\ count(b) = count(area) + Len(Prompt)
      /\ count(area) + Len(Prompt) < WordSize => Wrote(b, area, Prompt)
  BY <1>2, PromptIs, WriteIs
<1> HIDE DEF b
<1>4. count(b) < WordSize
  <2>1. count(b) + 2 < WordSize
    BY <1>1 DEF TextIsShort
  <2>2. count(b) \in Nat /\ WordSize \in Nat
    BY <1>3, PlacedIs, WordIs
  <2> QED
    BY <2>1, <2>2
<1>5. Wrote(b, area, Prompt)
  BY <1>3, <1>4
<1>6. OnLine(b) /\ Shows(b, <<>>) /\ Exact(b)
  BY <1>2, <1>3, <1>5, PromptWritten
<1>7. b.target.x < WordSize
  BY <1>3, <1>4, <1>5, EndSmall DEF Wrote
<1>8. LineInv'
  <2>1. Len(MaxTyped) \in Nat /\ rounds \in 0 .. Len(MaxTyped)
    BY ConsoleAssumption DEF ConsoleInv, LineInv
  <2>2. rounds' \in 0 .. Len(MaxTyped) /\ rounds' # 0
    BY <1>1, <2>1
  <2> QED
    BY <1>1, <2>2 DEF LineInv
<1>9. AreaInv'
  <2>1. rounds' # 0
    BY <1>1 DEF ConsoleInv, LineInv
  <2> QED
    BY <1>1, <1>3, <1>7, <2>1 DEF AreaInv
<1>10. ReadInv'
  BY <1>1, <1>6 DEF ReadInv
<1> QED
  BY <1>1, <1>8, <1>9, <1>10 DEF ConsoleInv

\* A key of the loop.
LEMMA ReadIs ==
  ASSUME ConsoleInv, pc = "read"
  PROVE  /\ area \in Placed /\ Drawn(area) /\ area.lines = count_lines(area)
         /\ area.target.x < WordSize /\ ReadInv
         /\ out \in Seq(Char) /\ area.real.x <= area.target.x /\ area.real.y = area.target.y
<1>1. rounds \in Nat /\ rounds # 0 /\ rounds > 0
  BY DEF ConsoleInv, LineInv
<1>2. area \in Placed /\ Drawn(area) /\ area.target.x < WordSize /\ ReadInv
  BY <1>1 DEF ConsoleInv, AreaInv
<1>3. out \in Seq(Char)
  <2>1. out \in Seq(Typed) /\ Typed \subseteq Char
    BY ConsoleAssumption DEF ConsoleInv, LineInv
  <2> QED
    BY <2>1
<1>4. area.real.x <= area.target.x /\ area.real.y = area.target.y
  BY <1>2, ShownIs DEF Drawn
<1> QED
  BY <1>2, <1>3, <1>4 DEF Drawn

\* What a key of the loop has to keep.
LEMMA KeyInv ==
  ASSUME ConsoleInv, NEW a \in Placed, Key(a), a.target.x < WordSize,
         out' \in Seq(Typed), typed' \in Nat, Len(out') <= typed',
         pressed' \subseteq KeyNames, "Erase" \in pressed' => "Left" \in pressed',
         "Erase" \notin pressed' => OnLine(a),
         "Left" \notin pressed' => Shows(a, out'),
         pressed' = {} => Exact(a)
  PROVE  ConsoleInv'
<1>1. pc = "read" /\ area' = redraw(a) /\ pc' = pc /\ rounds' = rounds /\ shown' = shown
  BY DEF Key
<1>2. area' \in Placed /\ SameContent(area', a) /\ Drawn(area')
  BY <1>1, RedrawIs
<1>3. LineInv'
  BY <1>1 DEF ConsoleInv, LineInv
<1>4. AreaInv'
  <2>1. rounds' # 0
    BY <1>1 DEF ConsoleInv, LineInv
  <2> QED
    BY <1>1, <1>2, <2>1 DEF AreaInv, SameContent
<1>5. ReadInv'
  BY <1>2, SameLine DEF ReadInv
<1> QED
  BY <1>1, <1>3, <1>4, <1>5 DEF ConsoleInv

\* A character is typed.
LEMMA TypeCharInv == ASSUME ConsoleInv, TextIsShort, NEW c \in Typed, TypeChar(c)  PROVE ConsoleInv'
<1> DEFINE a == put_char(area, c)
<1>1. pc = "read" /\ typed' = typed + 1 /\ Key(a) /\ out' = Append(out, c) /\ pressed' = pressed
  BY DEF TypeChar
<1>2. area \in Placed /\ area.target.x < WordSize /\ ReadInv /\ out \in Seq(Char)
  BY <1>1, ReadIs
<1>3. c \in Char \ {NL} /\ c \in Char
  BY ConsoleAssumption
<1>4. a \in Placed /\ a.target = Point((area.target.x + 1) % WordSize, area.target.y)
  BY <1>2, <1>3, PutIs
<1>5. a.target.x < WordSize
  <2>1. area.target.x \in Nat
    BY <1>2, PlacedLine
  <2>2. (area.target.x + 1) % WordSize \in 0 .. WordSize - 1
    BY <2>1, WordIs
  <2> QED
    BY <1>4, <2>2, WordIs DEF Point
<1> HIDE DEF a
<1>6. /\ "Erase" \notin pressed => OnLine(a) /\ (Exact(area) => Exact(a))
      /\ "Left" \notin pressed => Shows(a, Append(out, c))
  <2>1. "Left" \notin pressed => "Erase" \notin pressed
    BY DEF ConsoleInv, LineInv
  <2>2. "Erase" \notin pressed => OnLine(area)
    BY <1>2 DEF ReadInv
  <2>3. "Left" \notin pressed => Shows(area, out)
    BY <1>2 DEF ReadInv
  <2>4. OnLine(area) => /\ OnLine(a) /\ (Exact(area) => Exact(a))
                        /\ (Shows(area, out) => Shows(a, Append(out, c)))
    BY <1>2, <1>3, TypeOn DEF TextIsShort, a
  <2> QED
    BY <2>1, <2>2, <2>3, <2>4
<1>7. out' \in Seq(Typed) /\ typed' \in Nat /\ Len(out') <= typed'
  <2>1. out \in Seq(Typed) /\ typed \in Nat /\ Len(out) <= typed
    BY DEF ConsoleInv, LineInv
  <2> QED
    BY <1>1, <2>1
<1>8. pressed' \subseteq KeyNames /\ ("Erase" \in pressed' => "Left" \in pressed')
  BY <1>1 DEF ConsoleInv, LineInv
<1>9. pressed' = {} => Exact(a)
  BY <1>1, <1>2, <1>6 DEF ReadInv
<1> QED
  BY <1>1, <1>4, <1>5, <1>6, <1>7, <1>8, <1>9, KeyInv

\* Backspace, before and after a Left.
LEMMA BackspaceInv == ASSUME ConsoleInv, TextIsShort, Backspace  PROVE ConsoleInv'
<1> DEFINE a == remove_last(area)
<1>1. /\ pc = "read" /\ out # <<>> /\ Key(a) /\ out' = Front(out) /\ typed' = typed
      /\ pressed' = IF "Left" \in pressed THEN pressed \cup {"Erase"} ELSE pressed
  BY DEF Backspace, Key
<1>2. area \in Placed /\ area.target.x < WordSize /\ ReadInv /\ out \in Seq(Char)
  BY <1>1, ReadIs
<1>3. a \in Placed /\ a.target = Point((area.target.x - 1) % WordSize, area.target.y)
  BY <1>2, RemoveIs
<1>4. a.target.x < WordSize
  <2>1. area.target.x \in Nat
    BY <1>2, PlacedLine
  <2>2. (area.target.x - 1) % WordSize \in 0 .. WordSize - 1
    BY <2>1, WordIs
  <2> QED
    BY <1>3, <2>2, WordIs DEF Point
<1> HIDE DEF a
<1>5. ASSUME "Left" \notin pressed
      PROVE  OnLine(a) /\ Shows(a, Front(out)) /\ (Exact(area) => Exact(a))
  <2>1. "Erase" \notin pressed
    BY <1>5 DEF ConsoleInv, LineInv
  <2>2. OnLine(area) /\ Shows(area, out)
    BY <1>2, <1>5, <2>1 DEF ReadInv
  <2> QED
    BY <1>1, <1>2, <2>2, EraseOn DEF TextIsShort, a
<1>6. out' \in Seq(Typed) /\ typed' \in Nat /\ Len(out') <= typed'
  <2>1. out \in Seq(Typed) /\ typed \in Nat /\ Len(out) <= typed
    BY DEF ConsoleInv, LineInv
  <2>2. Len(Front(out)) = Len(out) - 1 /\ \A i \in 1 .. Len(out) - 1 : Front(out)[i] = out[i]
    BY <1>1, <1>2, FrontIs
  <2>3. Front(out) \in Seq(Char) /\ Len(out) # 0
    BY <1>1, <1>2, FrontIs
  <2>4. \A i \in 1 .. Len(Front(out)) : Front(out)[i] \in Typed
    BY <2>1, <2>2
  <2>5. Front(out) \in Seq(Typed)
    BY <2>3, <2>4
  <2> QED
    BY <1>1, <2>1, <2>2, <2>5
<1>7. pressed' \subseteq KeyNames /\ ("Erase" \in pressed' => "Left" \in pressed')
  BY <1>1 DEF ConsoleInv, LineInv, KeyNames
<1>8. ("Left" \notin pressed' => "Left" \notin pressed) /\ ("Erase" \notin pressed' => "Left" \notin pressed)
      /\ (pressed' = {} => pressed = {})
  BY <1>1
<1>9. pressed' = {} => Exact(a)
  BY <1>2, <1>5, <1>8 DEF ReadInv
<1> QED
  BY <1>1, <1>3, <1>4, <1>5, <1>6, <1>7, <1>8, <1>9, KeyInv

\* Wherever the cursor moves, its column stays small.
LEMMA MoveSmall ==
  ASSUME NEW a \in Placed, NEW p \in Points, count(a) + 2 < WordSize
  PROVE  move_cursor(a, p) \in Placed /\ move_cursor(a, p).target.x < WordSize
<1> DEFINE y     == IF p.y >= a.lines THEN a.lines ELSE p.y
           start == line_start_index(a, y)
           x     == Landing(a, y, p.x) - start
           g     == IF Landing(a, y, p.x) > count(a) THEN count(a) ELSE Landing(a, y, p.x)
           b     == move_cursor(a, p)
<1>1. x \in 0 .. count(a) + 1 /\ IsMoved(b, a, g, Point(x, y))
  BY MoveIs
<1>2. count(a) \in Nat /\ WordSize \in Nat
  BY PlacedIs, WordIs
<1> HIDE DEF x, b, y, g
<1>3. b \in Placed /\ b.target.x = x
  BY <1>1 DEF IsMoved, Point
<1> QED
  BY <1>1, <1>2, <1>3 DEF b

\* A key that leaves the line as it is.
LEMMA StillInv ==
  ASSUME ConsoleInv, NEW a \in Placed, Key(a), a.target.x < WordSize,
         out' = out, typed' = typed,
         pressed' \subseteq KeyNames, pressed \subseteq pressed', "Erase" \in pressed' => "Erase" \in pressed,
         OnLine(area) /\ "Erase" \notin pressed => OnLine(a),
         "Left" \notin pressed' /\ "Erase" \notin pressed => Shows(a, out),
         pressed' = {} => Exact(a)
  PROVE  ConsoleInv'
<1>1. pc = "read" /\ ReadInv
  BY ReadIs DEF Key
<1>2. out' \in Seq(Typed) /\ typed' \in Nat /\ Len(out') <= typed' /\ ("Erase" \in pressed => "Left" \in pressed)
  BY DEF ConsoleInv, LineInv
<1>3. "Erase" \in pressed' => "Left" \in pressed'
  BY <1>2
<1>4. "Erase" \notin pressed' => OnLine(a)
  BY <1>1 DEF ReadInv
<1>5. "Left" \notin pressed' => Shows(a, out')
  BY <1>2
<1> QED
  BY <1>2, <1>3, <1>4, <1>5, KeyInv

\* Left.
LEMMA LeftInv == ASSUME ConsoleInv, TextIsShort, Left  PROVE ConsoleInv'
<1> DEFINE a == move_left(area, 1)
<1>1. /\ pc = "read" /\ area.real.x > Len(Prompt) /\ Key(a) /\ out' = out /\ typed' = typed
      /\ pressed' = pressed \cup {"Left"}
  BY DEF Left, Key
<1>2. area \in Placed /\ area.lines = count_lines(area) /\ area.real.x <= area.target.x
  BY <1>1, ReadIs
<1>3. a \in Placed /\ a.target.x < WordSize
  <2> DEFINE n == area.target.x - (IF 1 >= area.target.x THEN area.target.x ELSE 1)
             p == [area.target EXCEPT !.x = n]
  <2>1. area.target \in Points /\ area.target.x \in Nat
    BY <1>2, PlacedIs DEF Points
  <2>2. n \in Nat
    BY <2>1
  <2>3. p \in Points
    <3> HIDE DEF n
    <3> QED
      BY <2>1, <2>2 DEF Points
  <2>4. a = move_cursor(area, p)
    BY DEF move_left
  <2> HIDE DEF p, a
  <2> QED
    BY <1>2, <2>3, <2>4, MoveSmall DEF TextIsShort
<1>4. OnLine(area) => OnLine(a)
  BY <1>1, <1>2, LeftOn
<1>5. pressed' \subseteq KeyNames /\ pressed \subseteq pressed' /\ ("Erase" \in pressed' => "Erase" \in pressed)
      /\ "Left" \in pressed' /\ pressed' # {}
  BY <1>1 DEF ConsoleInv, LineInv, KeyNames
<1> HIDE DEF a
<1> QED
  BY <1>1, <1>3, <1>4, <1>5, StillInv

\* Right.
LEMMA RightInv == ASSUME ConsoleInv, TextIsShort, Right  PROVE ConsoleInv'
<1> DEFINE a == move_right(area, 1)
<1>1. pc = "read" /\ Key(a) /\ out' = out /\ typed' = typed /\ pressed' = pressed \cup {"Right"}
  BY DEF Right, Key
<1>2. area \in Placed /\ area.lines = count_lines(area) /\ ReadInv
  BY <1>1, ReadIs
<1>3. a \in Placed /\ a.target.x < WordSize
  <2> DEFINE p == [area.target EXCEPT !.x = (area.target.x + 1) % WordSize]
  <2>1. area.target \in Points /\ area.target.x \in Nat
    BY <1>2, PlacedIs DEF Points
  <2>2. (area.target.x + 1) % WordSize \in Nat
    BY <2>1, WordIs
  <2>3. p \in Points
    BY <2>1, <2>2 DEF Points
  <2>4. a = move_cursor(area, p)
    BY DEF move_right
  <2> HIDE DEF p, a
  <2> QED
    BY <1>2, <2>3, <2>4, MoveSmall DEF TextIsShort
<1>4. OnLine(area) => OnLine(a) /\ \A line : Shows(area, line) => Shows(a, line)
  BY <1>2, RightOn DEF TextIsShort
<1>5. pressed' \subseteq KeyNames /\ pressed \subseteq pressed' /\ ("Erase" \in pressed' => "Erase" \in pressed)
      /\ pressed' # {}
  BY <1>1 DEF ConsoleInv, LineInv, KeyNames
<1> HIDE DEF a
<1>6. "Left" \notin pressed' /\ "Erase" \notin pressed => Shows(a, out)
  BY <1>2, <1>4, <1>5 DEF ReadInv
<1> QED
  BY <1>1, <1>3, <1>4, <1>5, <1>6, StillInv

\* A key that brings the cursor behind the text.
LEMMA ToEndInv ==
  ASSUME ConsoleInv, NEW a \in Placed, Key(a), out' = out, typed' = typed, pressed' = pressed,
         a.text = area.text, a.target.x < WordSize,
         "Erase" \notin pressed => AtEnd(a)
  PROVE  ConsoleInv'
<1>1. pc = "read"
  BY DEF Key
<1>2. area \in Placed /\ ReadInv
  BY <1>1, ReadIs
<1>3. ASSUME "Erase" \notin pressed
      PROVE  OnLine(a) /\ Exact(a) /\ \A line : Shows(area, line) => Shows(a, line)
  <2>1. Prompted(area)
    BY <1>2, <1>3 DEF ReadInv, OnLine
  <2> QED
    BY <1>2, <1>3, <2>1, EndOn
<1>4. "Left" \notin pressed /\ "Erase" \notin pressed => Shows(a, out)
  BY <1>2, <1>3 DEF ReadInv
<1>5. pressed \subseteq KeyNames
  BY DEF ConsoleInv, LineInv
<1> QED
  BY <1>3, <1>4, <1>5, StillInv

\* Ctrl and End.
LEMMA CtrlEndInv == ASSUME ConsoleInv, TextIsShort, CtrlEnd  PROVE ConsoleInv'
<1> DEFINE a == move_end(area)
<1>1. pc = "read" /\ Key(a) /\ out' = out /\ typed' = typed /\ pressed' = pressed
  BY DEF CtrlEnd, Key
<1>2. area \in Placed /\ area.lines = count_lines(area) /\ count(area) \in Nat /\ WordSize \in Nat
  BY <1>1, ReadIs, PlacedIs, WordIs
<1>3. count(area) < WordSize
  BY <1>2 DEF TextIsShort
<1>4. a \in Placed /\ a.text = area.text /\ AtEnd(a)
  BY <1>2, <1>3, MoveEndIs
<1> HIDE DEF a
<1>5. count(a) < WordSize
  BY <1>3, <1>4 DEF count
<1>6. a.target.x < WordSize
  BY <1>4, <1>5, EndSmall
<1> QED
  BY <1>1, <1>4, <1>6, ToEndInv

\* End.
LEMMA EndInv == ASSUME ConsoleInv, TextIsShort, End  PROVE ConsoleInv'
<1> DEFINE a == move_line_end(area)
           n == length_of_line(area, area.real.y)
           p == [area.real EXCEPT !.x = n]
<1>1. pc = "read" /\ Key(a) /\ out' = out /\ typed' = typed /\ pressed' = pressed
  BY DEF End, Key
<1>2. /\ area \in Placed /\ area.lines = count_lines(area) /\ area.real.y = area.target.y /\ ReadInv
      /\ TextOK(area) /\ area.real \in Points /\ area.real.y \in Nat /\ count(area) \in Nat
  BY <1>1, ReadIs, PlacedIs DEF Points
<1>3. p \in Points
  <2>1. line_start_index(area, area.real.y) \in 0 .. count(area)
    BY <1>2, LineBounds
  <2>2. line_end_index(area, line_start_index(area, area.real.y)) \in line_start_index(area, area.real.y) .. count(area)
    BY <1>2, <2>1, LineEnd
  <2>3. n \in Nat
    BY <1>2, <2>1, <2>2 DEF length_of_line
  <2> HIDE DEF n
  <2> QED
    BY <1>2, <2>3 DEF Points
<1>4. a = move_cursor(area, p)
  BY DEF move_line_end
<1> HIDE DEF p
<1>5. a \in Placed /\ a.target.x < WordSize /\ a.text = area.text
  <2>1. a \in Placed /\ a.target.x < WordSize
    BY <1>2, <1>3, <1>4, MoveSmall DEF TextIsShort
  <2>2. a.text = area.text
    BY <1>2, <1>3, <1>4, MoveIs DEF IsMoved
  <2> QED
    BY <2>1, <2>2
<1>6. "Erase" \notin pressed => AtEnd(a)
  <2>1. "Erase" \notin pressed => area.real.y = row(area)
    BY <1>2 DEF ReadInv, OnLine
  <2> QED
    BY <1>2, <2>1, LineEndIs
<1> HIDE DEF a
<1> QED
  BY <1>1, <1>5, <1>6, ToEndInv

\* A window that moves.
LEMMA ScrollInv ==
  ASSUME ConsoleInv, NEW a \in Placed, Key(a), out' = out, typed' = typed, pressed' = pressed,
         SameContent(a, area)
  PROVE  ConsoleInv'
<1>1. pc = "read"
  BY DEF Key
<1>2. area \in Placed /\ ReadInv /\ area.target.x < WordSize
  BY <1>1, ReadIs
<1>3. a.target.x < WordSize
  BY <1>2 DEF SameContent
<1>4. (OnLine(a) <=> OnLine(area)) /\ (Exact(a) <=> Exact(area)) /\ \A line : Shows(a, line) <=> Shows(area, line)
  BY SameLine
<1>5. "Left" \notin pressed /\ "Erase" \notin pressed => Shows(a, out)
  BY <1>2, <1>4 DEF ReadInv
<1>6. pressed \subseteq KeyNames
  BY DEF ConsoleInv, LineInv
<1>7. pressed = {} => Exact(a)
  BY <1>2, <1>4 DEF ReadInv
<1> QED
  BY <1>3, <1>4, <1>5, <1>6, <1>7, StillInv

\* PageUp and PageDown.
LEMMA PageInv == ASSUME ConsoleInv, PageUp \/ PageDown  PROVE ConsoleInv'
<1>1. pc = "read"
  BY DEF PageUp, PageDown, Key
<1>2. area \in Placed
  BY <1>1, ReadIs
<1>3. CASE PageUp
  <2>1. Key(scroll_down(area, 1)) /\ out' = out /\ typed' = typed /\ pressed' = pressed
    BY <1>3 DEF PageUp
  <2> QED
    BY <1>2, <2>1, ScrollIs, ScrollInv
<1>4. CASE PageDown
  <2>1. Key(scroll_up(area, 1)) /\ out' = out /\ typed' = typed /\ pressed' = pressed
    BY <1>4 DEF PageDown
  <2> QED
    BY <1>2, <2>1, ScrollIs, ScrollInv
<1> QED
  BY <1>3, <1>4

\* Enter.
LEMMA EnterInv == ASSUME ConsoleInv, TextIsShort, TextIsShort', Enter  PROVE ConsoleInv'
<1> DEFINE a == put_char(move_end(area), NL)
<1>1. /\ pc = "read" /\ shown' = WithoutPrompt(LastLine(area)) /\ area' = redraw(a) /\ pc' = "execute"
      /\ out' = out /\ rounds' = rounds /\ typed' = typed /\ pressed' = pressed
  BY DEF Enter
<1>2. /\ area \in Placed /\ area.lines = count_lines(area) /\ ReadInv /\ out \in Seq(Char)
      /\ count(area) \in Nat /\ WordSize \in Nat
  BY <1>1, ReadIs, PlacedIs, WordIs
<1>3. count(area) + 1 < WordSize
  BY <1>2 DEF TextIsShort
<1>4. a \in Placed /\ AtEnd(a) /\ last(a) = count(a)
  BY <1>2, <1>3, EnterIs
<1> HIDE DEF a
<1>5. area' \in Placed /\ SameContent(area', a) /\ Drawn(area')
  BY <1>1, <1>4, RedrawIs
<1>6. AtEnd(area') /\ last(area') = count(area')
  <2>1. last(area') = last(a) /\ count(area') = count(a)
    BY <1>5, SameLines DEF SameContent
  <2> QED
    BY <1>4, <1>5, <2>1, SameEnd
<1>7. area'.target.x < WordSize
  <2>1. count(area') + 2 < WordSize
    BY DEF TextIsShort
  <2>2. count(area') < WordSize
    BY <1>2, <1>5, <2>1, PlacedIs
  <2> QED
    BY <1>5, <1>6, <2>2, EndSmall
<1>8. "Left" \notin pressed => shown' = out
  <2>1. "Left" \notin pressed => "Erase" \notin pressed
    BY DEF ConsoleInv, LineInv
  <2>2. "Left" \notin pressed => Prompted(area) /\ Shows(area, out)
    BY <1>2, <2>1 DEF ReadInv, OnLine
  <2> QED
    BY <1>1, <1>2, <2>2, LastLineIs
<1>9. LineInv'
  BY <1>1 DEF ConsoleInv, LineInv
<1>10. AreaInv'
  <2>1. rounds' # 0
    BY <1>1 DEF ConsoleInv, LineInv
  <2> QED
    BY <1>1, <1>5, <1>6, <1>7, <2>1 DEF AreaInv
<1> QED
  BY <1>1, <1>8, <1>9, <1>10 DEF ConsoleInv

\* The command of a line.
LEMMA ExecuteInv == ASSUME ConsoleInv, TextIsShort', Execute  PROVE ConsoleInv'
<1> DEFINE b == execute_line(area, cmds, out)
<1>1. /\ pc = "execute" /\ area' = b /\ pc' = IF stops(cmds, out) THEN "stopped" ELSE "prompt"
      /\ out' = out /\ rounds' = rounds /\ typed' = typed /\ pressed' = pressed /\ shown' = shown
  BY DEF Execute
<1>2. area \in Placed /\ AtEnd(area) /\ last(area) = count(area) /\ area.target.x < WordSize
  BY <1>1 DEF ConsoleInv, AreaInv
<1>3. rounds > 0 /\ Drawn(area)
  <2>1. rounds \in Nat /\ rounds # 0
    BY <1>1 DEF ConsoleInv, LineInv
  <2>2. rounds > 0
    BY <2>1
  <2> QED
    BY <2>2 DEF ConsoleInv, AreaInv
<1>4. b = area \/ PrintsLine(b, area)
  <2>1. out \in Seq(Typed) /\ Typed \subseteq Char
    BY ConsoleAssumption DEF ConsoleInv, LineInv
  <2>2. out \in Seq(Char)
    BY <2>1
  <2> QED
    BY <1>2, <2>2, ArgumentsType, ExecuteIs
<1>5. count(b) + 2 < WordSize
  BY <1>1 DEF TextIsShort
<1> HIDE DEF b
<1>6. b \in Placed /\ Drawn(b) /\ AtEnd(b) /\ last(b) = count(b) /\ b.target.x < WordSize
  <2>1. CASE b = area
    BY <1>2, <1>3, <2>1
  <2>2. CASE PrintsLine(b, area)
    <3>1. b \in Placed /\ Drawn(b)
      BY <2>2 DEF PrintsLine, Prints
    <3>2. count(b) < WordSize
      BY <1>5, <3>1, PlacedIs, WordIs
    <3>3. AtEnd(b) /\ last(b) = count(b)
      BY <1>2, <2>2, <3>2 DEF PrintsLine, Prints
    <3> QED
      BY <3>1, <3>2, <3>3, EndSmall
  <2> QED
    BY <1>4, <2>1, <2>2
<1>7. AreaInv'
  <2>1. rounds' # 0
    BY <1>1, <1>3
  <2> QED
    BY <1>1, <1>6, <2>1 DEF AreaInv
<1>8. LineInv'
  <2>1. pc' \in {"prompt", "read", "execute", "stopped"} /\ rounds' # 0
    <3>1. rounds # 0
      BY <1>1 DEF ConsoleInv, LineInv
    <3> QED
      BY <1>1, <3>1
  <2> QED
    BY <1>1, <2>1 DEF ConsoleInv, LineInv
<1>9. "Left" \notin pressed => shown = out
  BY <1>1 DEF ConsoleInv
<1>10. pc' = "stopped" => stops(cmds, out')
  BY <1>1
<1>11. pc' # "read"
  BY <1>1
<1> QED
  BY <1>1, <1>7, <1>8, <1>9, <1>10, <1>11 DEF ConsoleInv

\* Every step keeps the invariant.
LEMMA NextInv == ConsoleInv /\ TextIsShort /\ TextIsShort' /\ [Next]_vars => ConsoleInv'
<1> SUFFICES ASSUME ConsoleInv, TextIsShort, TextIsShort', [Next]_vars  PROVE ConsoleInv'
  OBVIOUS
<1>1. CASE StartLine
  BY <1>1, StartLineInv
<1>2. CASE \E c \in Typed : TypeChar(c)
  BY <1>2, TypeCharInv
<1>3. CASE Backspace
  BY <1>3, BackspaceInv
<1>4. CASE Left
  BY <1>4, LeftInv
<1>5. CASE Right
  BY <1>5, RightInv
<1>6. CASE End
  BY <1>6, EndInv
<1>7. CASE CtrlEnd
  BY <1>7, CtrlEndInv
<1>8. CASE PageUp \/ PageDown
  BY <1>8, PageInv
<1>9. CASE Enter
  BY <1>9, EnterInv
<1>10. CASE Execute
  BY <1>10, ExecuteInv
<1>11. CASE UNCHANGED vars
  BY <1>11 DEF vars, ConsoleInv, LineInv, AreaInv, ReadInv
<1> QED
  BY <1>1, <1>2, <1>3, <1>4, <1>5, <1>6, <1>7, <1>8, <1>9, <1>10, <1>11 DEF Next

\* As long as the text is short, the text area, the line being read and what
\* the display shows of it stay in the invariant: for any characters, prompt,
\* display and number of lines, and any keys (Tty::readline, Shell::run).
THEOREM Invariant == Spec /\ []TextIsShort => []ConsoleInv
<1>1. Spec => Init /\ [][Next]_vars
  BY DEF Spec
<1> QED
  BY InitInv, NextInv, <1>1, PTL

-----------------------------------------------------------------------------
(* What the invariant gives.                                               *)

\* The display shows the line.
LEMMA ShownHolds == ConsoleInv => ShownIsExecuted
<1> SUFFICES ASSUME ConsoleInv, pc = "read"
             PROVE  /\ "Left" \notin pressed => LastLine(area) = Prompt \o out /\ area.gap = count(area)
                    /\ "Erase" \notin pressed =>
                         /\ IsPrefix(Prompt, LastLine(area))
                         /\ area.gap >= last(area) + Len(Prompt)
  BY DEF ShownIsExecuted, last, row
<1>1. area \in Placed /\ ReadInv /\ out \in Seq(Char)
  BY ReadIs
<1>2. "Erase" \notin pressed => Prompted(area) /\ area.gap >= last(area) + Len(Prompt)
  <2>1. area.gap \in Nat /\ last(area) \in Nat /\ Len(Prompt) \in Nat
    BY <1>1, PlacedLine, PromptIs
  <2>2. "Erase" \notin pressed => Prompted(area) /\ last(area) + Len(Prompt) <= area.gap
    BY <1>1 DEF ReadInv, OnLine
  <2> QED
    BY <2>1, <2>2
<1>3. "Left" \notin pressed => Prompted(area) /\ Shows(area, out)
  BY <1>1, <1>2 DEF ReadInv, ConsoleInv, LineInv
<1>4. "Left" \notin pressed => LastLine(area) = Prompt \o out /\ area.gap = count(area)
  BY <1>1, <1>3, LastLineIs DEF Shows
<1>5. "Erase" \notin pressed => IsPrefix(Prompt, LastLine(area))
  BY <1>1, <1>2, LastLineIs
<1> QED
  BY <1>2, <1>4, <1>5

\* Column and line of the cursor are those of the gap.
LEMMA TrueCursor ==
  ASSUME NEW a \in Placed, OnLine(a), Exact(a)
  PROVE  a.target = Coordinates(a, a.gap) /\ Coordinates(a, a.gap) = Point(a.gap - last(a), row(a))
<1>0. TextOK(a) /\ a.gap \in 0 .. count(a) /\ last(a) \in 0 .. count(a) /\ Len(Prompt) \in Nat /\ count(a) \in Nat
  BY PlacedLine, PromptIs
<1>1. last(a) <= a.gap
  <2>1. last(a) + Len(Prompt) <= a.gap
    BY DEF OnLine
  <2> QED
    BY <1>0, <2>1
<1>2. a.gap \in last(a) .. count(a)
  BY <1>0, <1>1
<1>3. Coordinates(a, a.gap) = Point(a.gap - last(a), row(a))
  BY <1>0, <1>2, LastCoordinates
<1>4. a.target = Point(a.target.x, a.target.y)
  BY PlacedIs DEF Points, Point
<1> QED
  BY <1>3, <1>4 DEF OnLine, Exact

\* On the last line the cursor is shown where it is.
LEMMA ShownThere ==
  ASSUME NEW a \in Placed, a.target.y = row(a), a.first = 0
  PROVE  cursor_shown(a) = a.target
<1> DEFINE ends == {i \in drawn(a) : /\ i + 1 \in newlines(a)
                                     /\ draw_pos(a, i).y = a.target.y
                                     /\ draw_pos(a, i).x < a.target.x}
<1>0. TextOK(a) /\ row(a) \in Nat
  BY PlacedLine
<1>1. ASSUME NEW i \in ends  PROVE FALSE
  <2>1. i \in Nat /\ i + 1 \in newlines(a)
    BY DrawnAre
  <2>2. i + 1 < last(a) /\ last(a) \in Nat
    BY <1>0, <2>1, LastIs
  <2>3. Row(a, i) < row(a)
    BY <1>0, <2>1, <2>2, LastIs
  <2>4. Coordinates(a, i).y = Row(a, i) /\ Coordinates(a, i) = Point(Coordinates(a, i).x, Row(a, i)) /\ Row(a, i) \in Nat
    BY <1>0, <2>1, CoordinatesAre, RowIsNat
  <2>5. draw_pos(a, i).y = Row(a, i)
    <3>1. draw_pos(a, i) = [Coordinates(a, i) EXCEPT !.y = Coordinates(a, i).y - a.first]
      BY DEF draw_pos
    <3> QED
      BY <2>4, <3>1 DEF Point
  <2>6. draw_pos(a, i).y = row(a)
    OBVIOUS
  <2> QED
    BY <1>0, <2>3, <2>4, <2>5, <2>6
<1>2. ends = {}
  BY <1>1
<1> QED
  BY <1>2 DEF cursor_shown

\* In an unscrolled window a character is drawn at its coordinates.
LEMMA DrawPosTop ==
  ASSUME NEW a \in Placed, a.first = 0, NEW i \in Nat
  PROVE  draw_pos(a, i) = Coordinates(a, i)
<1>1. Coordinates(a, i) = Point(Coordinates(a, i).x, Row(a, i)) /\ Row(a, i) \in Nat
  BY PlacedLine, CoordinatesAre, RowIsNat
<1> DEFINE x == Coordinates(a, i).x
<1>2. draw_pos(a, i) = [Point(x, Row(a, i)) EXCEPT !.y = Row(a, i) - 0]
  <2>1. draw_pos(a, i) = [Coordinates(a, i) EXCEPT !.y = Coordinates(a, i).y - a.first]
    BY DEF draw_pos
  <2> QED
    BY <1>1, <2>1, CoordinatesAre, PlacedLine
<1> HIDE DEF x
<1>3. [Point(x, Row(a, i)) EXCEPT !.y = Row(a, i) - 0] = Point(x, Row(a, i))
  BY <1>1 DEF Point
<1> QED
  BY <1>1, <1>2, <1>3 DEF x

\* The types of the variables.
LEMMA TypeHolds == ConsoleInv => TypeOK
<1> SUFFICES ASSUME ConsoleInv  PROVE TypeOK
  OBVIOUS
<1>1. area \in Placed /\ area.target.x < WordSize
  BY DEF ConsoleInv, AreaInv
<1>2. /\ area \in Areas /\ area.text \in Seq(Char) /\ area.gap \in 0 .. count(area)
      /\ area.target \in Points /\ area.real \in Points
      /\ area.lines \in Nat /\ area.first \in Nat /\ area.follow \in BOOLEAN
  BY <1>1, PlacedIs DEF TextOK
<1>3. area.real.x <= area.target.x
  <2>1. CASE rounds = 0
    <3>1. area.real = Point(0, 0) /\ area.target = Point(0, 0)
      BY <2>1 DEF ConsoleInv, AreaInv, NewArea
    <3> QED
      BY <3>1 DEF Point
  <2>2. CASE rounds # 0
    <3>1. rounds > 0
      BY <2>2 DEF ConsoleInv, LineInv
    <3> QED
      BY <1>1, <3>1, ShownIs DEF ConsoleInv, AreaInv, Drawn
  <2> QED
    BY <2>1, <2>2
<1>4. area.target \in PointType /\ area.real \in PointType
  <2>1. area.target.x \in 0 .. WordSize - 1 /\ area.real.x \in 0 .. WordSize - 1
    <3>1. area.target.x \in Nat /\ area.real.x \in Nat /\ WordSize \in Nat
      BY <1>2, WordIs DEF Points
    <3> QED
      BY <1>1, <1>3, <3>1
  <2> QED
    BY <1>2, <2>1 DEF Points, PointType
<1>5. area.text \in Seq(Range(area.text))
  BY <1>2 DEF Range
<1>6. area \in [text : Seq(Range(area.text)), gap : Nat, target : PointType,
                real : PointType, lines : Nat, first : Nat, follow : BOOLEAN]
  BY <1>2, <1>4, <1>5 DEF Areas
<1>7. out \in Seq(Typed) /\ Len(out) <= typed /\ pc \in {"prompt", "read", "execute", "stopped"}
      /\ pressed \subseteq {"Left", "Right", "Erase"}
  BY DEF ConsoleInv, LineInv, KeyNames
<1> QED
  BY <1>2, <1>6, <1>7 DEF TypeOK

\* The cursor is at the gap.
LEMMA CursorHolds == ConsoleInv => CursorIsGap
<1> SUFFICES ASSUME ConsoleInv, pc = "read", pressed = {}
             PROVE  /\ area.target = Coordinates(area, area.gap)
                    /\ area.first = 0 /\ draw_end(area) = count(area) =>
                         cursor_cells(area) = {Coordinates(area, area.gap)}
  BY TypeHolds DEF CursorIsGap
<1>1. area \in Placed /\ Drawn(area) /\ OnLine(area) /\ Shows(area, out) /\ Exact(area)
  BY ReadIs DEF ReadInv
<1>2. area.target = Coordinates(area, area.gap)
  BY <1>1, TrueCursor
<1>3. ASSUME area.first = 0, draw_end(area) = count(area)
      PROVE  cursor_cells(area) = {Coordinates(area, area.gap)}
  <2>1. area.real = area.target
    BY <1>1, <1>3, ShownThere DEF Drawn, OnLine
  <2>2. area.gap = count(area) /\ count(area) \in Nat
    BY <1>1, PlacedIs DEF Shows
  <2>3. draw_pos(area, count(area)) = area.real
    BY <1>1, <1>2, <1>3, <2>1, <2>2, DrawPosTop
  <2>4. cursor_cells(area) = {area.real}
    BY <1>3, <2>3 DEF cursor_cells
  <2> QED
    BY <1>2, <2>1, <2>4
<1> QED
  BY <1>2, <1>3

\* The prompt was written at the end of the text.
LEMMA PromptHolds == ConsoleInv' /\ StartLine => area'.gap = count(area') /\ area'.target = Coordinates(area', area'.gap)
<1> SUFFICES ASSUME ConsoleInv', StartLine
             PROVE  area'.gap = count(area') /\ area'.target = Coordinates(area', area'.gap)
  OBVIOUS
<1>1. pc' = "read" /\ pressed' = {}
  BY DEF StartLine
<1>2. area' \in Placed /\ OnLine(area') /\ Shows(area', out') /\ Exact(area')
  BY <1>1 DEF ConsoleInv, AreaInv, ReadInv
<1> QED
  BY <1>2, TrueCursor DEF Shows

\* cmd_sys got the name of the command and a beginning of an option.
LEMMA StopIs ==
  ASSUME NEW line \in Seq(Char), stops(cmds, line)
  PROVE  \E option \in {SYS_OPT_REBOOT, SYS_OPT_SHUTDOWN} : \E n \in 1 .. Len(option) :
           arguments(line) = <<SysName, SubSeq(option, 1, n)>>
<1> DEFINE argv == arguments(line)
           cmd  == command(cmds, line)
<1>1. PICK i \in DOMAIN cmd : cmd[i].fn = "sys"
  BY DEF stops
<1>2. argv \in Seq(Words) /\ argv # <<>> /\ sys_stops(argv)
  BY ArgumentsType DEF stops
<1>3. argv[1] = SysName
  <2>1. cmd # <<>>
    BY <1>1
  <2> QED
    BY <1>1, <2>1, BuiltinIs, FoundIs DEF command
<1>4. PICK option \in {SYS_OPT_REBOOT, SYS_OPT_SHUTDOWN} : IsPrefix(argv[2], option)
  BY <1>2 DEF sys_stops, strncmp_equal
<1>5. Len(argv) = 2
  BY <1>2 DEF sys_stops
<1> HIDE DEF argv
<1>6. argv[2] \in Words /\ argv = <<argv[1], argv[2]>>
  BY <1>2, <1>5, SMTT(30)
<1> DEFINE w == argv[2]  n == Len(w)
<1>7. w \in Seq(Char) /\ n \in Nat /\ n # 0
  BY <1>6, WordsAre
<1> HIDE DEF w
<1>8. option \in Seq(Char) /\ IsPrefix(w, option)
  BY <1>4, ShellAssumption DEF w
<1>9. n <= Len(option) /\ SubSeq(w, 1, n) = SubSeq(option, 1, n)
  BY <1>8 DEF IsPrefix
<1>10. SubSeq(w, 1, n) = w
  BY <1>7
<1>11. n \in 1 .. Len(option) /\ argv = <<SysName, SubSeq(option, 1, n)>>
  BY <1>3, <1>6, <1>7, <1>8, <1>9, <1>10 DEF w
<1> QED
  BY <1>11 DEF argv

-----------------------------------------------------------------------------
(* The cells that are drawn, and their pixels.                             *)

\* The lines of the window.
LEMMA WindowRows ==
  ASSUME NEW a \in Placed, a.first <= row(a)
  PROVE  LET start == line_start_index(a, a.first)
         IN  /\ start \in 0 .. count(a) /\ draw_end(a) \in start .. count(a)
             /\ \A i \in start .. draw_end(a) :
                  Row(a, i) \in a.first .. a.first + visible_line_capacity - 1
<1> DEFINE start == line_start_index(a, a.first)
           k     == a.first + visible_line_capacity - 1
           t     == line_start_index(a, k)
           end   == line_end_index(a, t)
           d     == draw_end(a)
<1>0. /\ TextOK(a) /\ count(a) \in Nat /\ row(a) \in Nat /\ a.first \in Nat /\ k \in Nat /\ a.first <= k
      /\ a.first \in 0 .. row(a) /\ newlines(a) \subseteq Nat
  <2>1. TextOK(a) /\ count(a) \in Nat /\ row(a) \in Nat /\ a.first \in Nat /\ newlines(a) \subseteq Nat
    BY PlacedIs, PlacedLine, Newlines
  <2> QED
    BY <2>1, CapacityIs
<1>1. /\ start \in 0 .. count(a) /\ Row(a, start) = a.first
      /\ \A i \in Nat : i < start => Row(a, i) < a.first
  BY <1>0, LineStart
<1>2. /\ end \in 0 .. count(a) /\ d \in 0 .. end
      /\ d # end => start + columns <= d
  BY DrawEnd
<1>3. t \in 0 .. count(a)
  BY <1>0, LineBounds
<1>4. end \in t .. count(a) /\ \A j \in newlines(a) : t <= j => end <= j
  BY <1>0, <1>3, LineEnd
<1> HIDE DEF start, k, t, end, d
<1>5. Row(a, end) \in a.first .. k
  <2>1. CASE k <= row(a)
    <3>1. Row(a, t) = k
      BY <1>0, <2>1, LineStart DEF t
    <3>2. Above(a, end) = Above(a, t)
      BY <1>0, <1>3, <1>4 DEF Above
    <3> QED
      BY <1>0, <3>1, <3>2 DEF Row
  <2>2. CASE k > row(a)
    <3>1. t = count(a)
      BY <1>0, <2>2, LineBeyond DEF t
    <3>2. end = count(a)
      BY <1>0, <1>4, <3>1
    <3>3. Row(a, last(a)) = row(a) /\ last(a) \in 0 .. count(a)
      BY <1>0, LastIs
    <3>4. row(a) <= Row(a, end) /\ Row(a, end) \in 0 .. row(a)
      BY <1>0, <3>2, <3>3, RowOrder, RowIsNat
    <3> QED
      BY <1>0, <2>2, <3>4
  <2> QED
    BY <1>0, <2>1, <2>2
<1>6. d \in start .. count(a)
  <2>1. CASE d = end
    <3>1. ~(end < start)
      BY <1>0, <1>1, <1>2, <1>5
    <3> QED
      BY <1>0, <1>1, <1>2, <2>1, <3>1
  <2>2. CASE d # end
    BY <1>0, <1>1, <1>2, <2>2, ColumnsIs
  <2> QED
    BY <2>1, <2>2
<1>7. ASSUME NEW i \in start .. d  PROVE Row(a, i) \in a.first .. k
  <2>1. i \in Nat /\ start \in Nat /\ end \in Nat /\ start <= i /\ i <= end
    BY <1>0, <1>1, <1>2, <1>6
  <2>2. Row(a, start) <= Row(a, i) /\ Row(a, i) <= Row(a, end) /\ Row(a, i) \in Nat
    BY <1>0, <2>1, RowOrder, RowIsNat
  <2> QED
    BY <1>0, <1>1, <1>5, <2>2
<1> QED
  BY <1>1, <1>6, <1>7 DEF start, d, k

\* In the window a column is at most the distance from its start.
LEMMA FirstColumn ==
  ASSUME NEW a \in Placed, a.first <= row(a), NEW i \in Nat, line_start_index(a, a.first) <= i
  PROVE  Coordinates(a, i).x \in Nat /\ Coordinates(a, i).x <= i - line_start_index(a, a.first)
<1> DEFINE start == line_start_index(a, a.first)  x == Coordinates(a, i).x
<1>0. TextOK(a) /\ a.first \in 0 .. row(a) /\ row(a) \in Nat
  <2>1. TextOK(a) /\ a.first \in Nat /\ row(a) \in Nat
    BY PlacedIs, PlacedLine
  <2> QED
    BY <2>1
<1>1. x \in 0 .. i /\ \A j \in newlines(a) : j < i => j < i - x
  BY <1>0, CoordinatesAre
<1>2. start \in Nat /\ (a.first > 0 => start - 1 \in newlines(a))
  BY <1>0, LineStart
<1>3. CASE a.first = 0
  <2>1. start = 0
    BY <1>3 DEF line_start_index
  <2> HIDE DEF start, x
  <2>2. x \in Nat /\ x <= i - start
    BY <1>1, <2>1
  <2> QED
    BY <2>2 DEF start, x
<1>4. CASE a.first # 0
  <2>1. start - 1 \in newlines(a)
    BY <1>0, <1>2, <1>4
  <2>2. start - 1 < i
    BY <1>2
  <2>3. start - 1 < i - x
    BY <1>1, <2>1, <2>2
  <2> HIDE DEF start, x
  <2>4. x \in Nat /\ x <= i - start
    BY <1>1, <1>2, <2>3
  <2> QED
    BY <2>4 DEF start, x
<1> QED
  BY <1>3, <1>4

\* A cell that is drawn is in a column of the display, or the next one.
LEMMA CellColumn ==
  ASSUME NEW a \in Placed, a.first <= row(a), NEW i \in drawn(a) \cup {draw_end(a)}
  PROVE  Coordinates(a, i).x \in 0 .. columns
<1> DEFINE start == line_start_index(a, a.first)  x == Coordinates(a, i).x  d == draw_end(a)  n == columns
<1>0. TextOK(a) /\ n \in Nat /\ count(a) \in Nat /\ newlines(a) \subseteq Nat
  BY PlacedLine, ColumnsIs, Newlines
<1>1. start \in Nat /\ d \in Nat /\ start <= d
  BY <1>0, WindowRows
<1>2. i \in Nat /\ start <= i /\ i <= d /\ (i # d => i < d /\ i \notin newlines(a))
  <2>1. CASE i \in drawn(a)
    BY <1>1, <2>1, DrawnAre
  <2>2. CASE i = d
    BY <1>1, <2>2
  <2> QED
    BY <2>1, <2>2
<1>3. x \in Nat /\ x <= i - start
  BY <1>2, FirstColumn
<1>4. \A j \in newlines(a) : j < i => j < i - x
  BY <1>0, <1>2, CoordinatesAre
<1>5. \A k \in start + n .. d - 1 : (k - n .. k) \cap newlines(a) # {}
  BY DrawEnd
<1> HIDE DEF start, d, n, x
<1>6. x <= n
  <2>1. CASE i <= start + n
    BY <1>0, <1>1, <1>2, <1>3, <2>1
  <2>2. CASE i > start + n
    <3>1. PICK k \in start + n .. d - 1 : (k = i /\ i # d) \/ k = i - 1
      <4>1. CASE i = d
        <5>1. i - 1 \in start + n .. d - 1
          BY <1>0, <1>1, <1>2, <2>2, <4>1
        <5> QED
          BY <5>1
      <4>2. CASE i # d
        <5>1. i \in start + n .. d - 1
          BY <1>0, <1>1, <1>2, <2>2, <4>2
        <5> QED
          BY <4>2, <5>1
      <4> QED
        BY <4>1, <4>2
    <3>2. PICK j \in newlines(a) : j \in k - n .. k
      BY <1>5, <3>1
    <3>3. j \in Nat /\ k \in Nat /\ k - n <= j /\ j <= k
      BY <1>0, <1>1, <3>1, <3>2
    <3>4. j < i
      <4>1. CASE k = i /\ i # d
        <5>1. j # i
          BY <1>2, <4>1
        <5> QED
          BY <1>2, <3>3, <4>1, <5>1
      <4>2. CASE k = i - 1
        BY <1>2, <3>3, <4>2
      <4> QED
        BY <3>1, <4>1, <4>2
    <3>5. j < i - x
      BY <1>4, <3>4
    <3>6. k >= i - 1
      BY <1>2, <3>1
    <3> QED
      BY <1>0, <1>2, <1>3, <3>3, <3>5, <3>6
  <2> QED
    BY <1>0, <1>1, <1>2, <2>1, <2>2
<1>7. x \in 0 .. n
  BY <1>0, <1>3, <1>6
<1> QED
  BY <1>7 DEF x, n

\* Where a cell is in the framebuffer.
LEMMA PixelInside ==
  ASSUME NEW x \in 0 .. columns, NEW y \in 0 .. visible_line_capacity - 1
  PROVE  last_pixel(Point(x, y)) < Width * Height
<1> DEFINE e == eff_glyph_width  l == line_height  n == columns  v == visible_line_capacity  W == Width
           r == y * l + GlyphH - 1
<1>0. /\ W \in Nat \ {0} /\ Height \in Nat /\ GlyphW \in Nat \ {0} /\ GlyphH \in Nat \ {0} /\ GapY \in Nat
      /\ e \in Nat \ {0} /\ l \in Nat \ {0} /\ l = GlyphH + GapY /\ v \in Nat \ {0} /\ n \in Nat
      /\ e + GlyphW <= GapY * W + 1
  BY TextAreaAssumption, DisplayAssumption, CapacityIs, ColumnsIs DEF line_height
<1>1. l * v <= Height
  <2>1. v = Height \div l
    BY DEF visible_line_capacity
  <2>2. \A k \in Nat \ {0}, m \in Int : k * (m \div k) <= m
    BY DivBounds
  <2>3. l \in Nat \ {0} /\ Height \in Int
    BY <1>0
  <2> HIDE DEF l, v
  <2>4. l * (Height \div l) <= Height
    BY <2>2, <2>3, Zenon
  <2> QED
    BY <2>1, <2>4, Zenon
<1>2. e * n <= W + e - 1
  <2>1. W + e - 1 \in Int /\ n = (W + e - 1) \div e
    BY <1>0 DEF columns
  <2> HIDE DEF n, e, W
  <2> QED
    BY <1>0, <2>1, DivBounds
<1>3. last_pixel(Point(x, y)) = r * W + e * x + GlyphW - 1
  BY DEF last_pixel, Point
<1> HIDE DEF e, l, n, v, W
<1>4. x \in Nat /\ y \in Nat /\ x <= n /\ y + 1 <= v
  BY <1>0 DEF n, v
<1>5. e * x <= e * n
  <2>1. e * x < e * n <=> x < n
    BY <1>0, <1>4, ProductOrder
  <2> QED
    BY <1>0, <1>4, <2>1, ProductOrder
<1>6. (y + 1) * l <= Height /\ (y + 1) * l = y * l + l /\ y * l \in Nat
  <2>1. (y + 1) * l = y * l + l /\ y * l \in Nat /\ l * v = v * l /\ v * l \in Nat
    BY <1>0, <1>4, Products
  <2>2. y + 1 < v <=> (y + 1) * l < v * l
    BY <1>0, <1>4, Products
  <2> QED
    BY <1>0, <1>1, <1>4, <2>1, <2>2
<1>7. r \in Nat /\ (r + 1) + GapY = (y + 1) * l
  BY <1>0, <1>6
<1> HIDE DEF r
<1>8. ((r + 1) + GapY) * W = (r + 1) * W + GapY * W /\ (r + 1) * W = r * W + W /\ r * W \in Nat /\ GapY * W \in Nat
  BY <1>0, <1>7, Products
<1>9. ((r + 1) + GapY) * W <= Height * W /\ Height * W = W * Height
  <2>1. (r + 1) + GapY < Height <=> ((r + 1) + GapY) * W < Height * W
    BY <1>0, <1>7, Products
  <2>2. (r + 1) + GapY \in Nat /\ ((r + 1) + GapY < Height \/ (r + 1) + GapY = Height)
    BY <1>0, <1>6, <1>7
  <2>3. Height * W \in Nat /\ W * Height = Height * W /\ ((r + 1) + GapY) * W \in Nat
    BY <1>0, <2>2, Products
  <2> QED
    BY <2>1, <2>2, <2>3
<1>10. e * x \in Nat /\ e * n \in Nat
  BY <1>0, <1>4, Products
<1> DEFINE ex == e * x  en == e * n  rW == r * W  gW == GapY * W  wH == W * Height
<1>11. rW + ex + GlyphW - 1 < wH
  <2>1. wH \in Nat
    BY <1>0, Products
  <2>2. rW + W + gW <= wH
    BY <1>8, <1>9
  <2>3. ex <= en /\ en <= W + e - 1 /\ e + GlyphW <= gW + 1
    BY <1>0, <1>2, <1>5
  <2>4. rW \in Nat /\ ex \in Nat /\ en \in Nat /\ gW \in Nat
    BY <1>8, <1>10
  <2> HIDE DEF ex, en, rW, gW, wH
  <2> QED
    BY <1>0, <2>1, <2>2, <2>3, <2>4
<1> QED
  BY <1>3, <1>11 DEF W

\* All pixels of the cells are in the framebuffer.
LEMMA CellsInside ==
  ASSUME NEW a \in Placed, a.first <= row(a), NEW p \in cells(a)
  PROVE  last_pixel(p) < Width * Height
<1>1. PICK i \in drawn(a) \cup {draw_end(a)} : p = draw_pos(a, i)
  BY DEF cells, cursor_cells
<1> DEFINE x == Coordinates(a, i).x  y == Row(a, i) - a.first
<1>2. x \in 0 .. columns
  BY <1>1, CellColumn
<1>3. i \in line_start_index(a, a.first) .. draw_end(a) /\ i \in Nat
  <2>1. line_start_index(a, a.first) \in Nat /\ draw_end(a) \in Nat /\ line_start_index(a, a.first) <= draw_end(a)
    BY PlacedLine, WindowRows
  <2>2. i \in drawn(a) => i \in Nat /\ line_start_index(a, a.first) <= i /\ i < draw_end(a)
    BY DrawnAre
  <2> QED
    BY <2>1, <2>2
<1>4. y \in 0 .. visible_line_capacity - 1
  <2>1. Row(a, i) \in a.first .. a.first + visible_line_capacity - 1
    BY <1>3, WindowRows
  <2>2. a.first \in Nat /\ visible_line_capacity \in Nat
    BY PlacedIs, CapacityIs
  <2> QED
    BY <2>1, <2>2
<1>5. p = Point(x, y)
  <2>1. Coordinates(a, i) = Point(x, Row(a, i)) /\ Coordinates(a, i).y = Row(a, i)
    BY <1>3, PlacedLine, CoordinatesAre
  <2>2. p = [Point(x, Row(a, i)) EXCEPT !.y = Row(a, i) - a.first]
    BY <1>1, <2>1 DEF draw_pos
  <2> HIDE DEF x
  <2> QED
    BY <2>2 DEF Point
<1> HIDE DEF x, y
<1> QED
  BY <1>2, <1>4, <1>5, PixelInside

\* The window is inside the text.
LEMMA WindowHolds == ConsoleInv => WindowInsideText
<1> SUFFICES ASSUME ConsoleInv  PROVE WindowInsideText
  OBVIOUS
<1>1. area \in Placed
  BY DEF ConsoleInv, AreaInv
<1>2. rounds > 0 => area.first <= bottom_start(area) /\ (area.follow => area.first = bottom_start(area))
  BY DEF ConsoleInv, AreaInv, Drawn
<1>3. rounds \in Nat /\ (pc # "prompt" => rounds > 0)
  BY DEF ConsoleInv, LineInv
<1>4. area.first <= row(area)
  <2>1. bottom_start(area) <= row(area) /\ bottom_start(area) \in Nat /\ row(area) \in Nat /\ area.first \in Nat
    <3>1. count_lines(area) = row(area) + 1 /\ row(area) \in Nat /\ area.first \in Nat /\ bottom_start(area) \in Nat
      BY <1>1, BottomIs, PlacedIs
    <3>2. bottom_start(area) <= row(area)
      BY <3>1, CapacityIs DEF bottom_start
    <3> QED
      BY <3>1, <3>2
  <2>2. CASE rounds = 0
    <3>1. area.first = 0
      BY <2>2 DEF ConsoleInv, AreaInv, NewArea
    <3> QED
      BY <2>1, <3>1
  <2>3. CASE rounds > 0
    BY <1>2, <2>1, <2>3
  <2> QED
    BY <1>3, <2>2, <2>3
<1> QED
  BY <1>1, <1>2, <1>3, <1>4, CellsInside DEF WindowInsideText

-----------------------------------------------------------------------------
(* The words against their definition.                                     *)

Flat(s, f) ==
  /\ f \in [0 .. Len(s) -> Seq(Char)] /\ f[0] = <<>>
  /\ \A n \in 1 .. Len(s) : f[n] = f[n - 1] \o s[n]

\* FlattenSeq puts one word after the other.
LEMMA FlattenIs ==
  ASSUME NEW s \in Seq(Seq(Char))
  PROVE  \E f : Flat(s, f) /\ FlattenSeq(s) = f[Len(s)]
<1> DEFINE N == Len(s)
           step == [k \in 1 .. N |-> [b \in Seq(Char) |-> b \o s[k]]]
           IsFlat(f) == f = [n \in 1 .. N |-> IF n = 1 THEN s[n] ELSE f[n - 1] \o s[n]]
           h == CHOOSE f : IsFlat(f)
<1>1. N \in Nat /\ \A k \in 1 .. N : s[k] \in Seq(Char)
  OBVIOUS
<1>2. step \in [1 .. N -> [Seq(Char) -> Seq(Char)]]
  <2>1. \A b \in Seq(Char), w \in Seq(Char) : b \o w \in Seq(Char)
    BY ConcatIs DEF Joined
  <2> QED
    BY <1>1, <2>1
<1>3. PICK g : Iterates(g, Seq(Char), <<>>, N, step)
  <2>1. <<>> \in Seq(Char)
    OBVIOUS
  <2> HIDE DEF N, step
  <2> QED
    BY <1>1, <1>2, <2>1, Recursion
<1>4. \A n \in 1 .. N : g[n] = g[n - 1] \o s[n]
  <2>1. \A n \in 1 .. N : n - 1 \in 0 .. N
    BY <1>1
  <2> QED
    BY <1>3, <2>1 DEF Iterates
<1>5. Flat(s, g)
  BY <1>3, <1>4 DEF Flat, Iterates
<1>6. CASE N = 0
  <2>1. FlattenSeq(s) = s /\ s = <<>>
    BY <1>6 DEF FlattenSeq
  <2> QED
    BY <1>5, <1>6, <2>1 DEF Flat
<1>7. CASE N # 0
  <2> DEFINE e == [n \in 1 .. N |-> g[n]]
  <2>1. FlattenSeq(s) = h[N]
    BY <1>7 DEF FlattenSeq
  <2>2. g[1] = s[1]
    <3>1. 1 \in 1 .. N /\ g[0] = <<>> /\ s[1] \in Seq(Char)
      BY <1>1, <1>3, <1>7 DEF Iterates
    <3>2. g[1] = <<>> \o s[1]
      <4>1. PICK n \in 1 .. N : n = 1
        BY <3>1
      <4>2. g[n] = g[n - 1] \o s[n]
        BY <1>4
      <4>3. n - 1 = 0
        BY <4>1
      <4> QED
        BY <3>1, <4>1, <4>2, <4>3
    <3>3. \A w \in Seq(Char) : <<>> \o w = w
      OBVIOUS
    <3> QED
      BY <3>1, <3>2, <3>3
  <2>3. IsFlat(e)
    <3>1. ASSUME NEW n \in 1 .. N, n # 1  PROVE e[n - 1] = g[n - 1]
      <4>1. n - 1 \in 1 .. N
        BY <1>1, <3>1
      <4> QED
        BY <4>1
    <3>2. \A n \in 1 .. N : e[n] = IF n = 1 THEN s[n] ELSE e[n - 1] \o s[n]
      BY <1>4, <2>2, <3>1
    <3> QED
      BY <3>2
  <2>4. IsFlat(h)
    <3> HIDE DEF e
    <3> QED
      BY <2>3
  <2> HIDE DEF h, e
  <2> DEFINE T == {n \in 0 .. N : n > 0 => h[n] = g[n]}
  <2>5. 0 \in T
    BY <1>1
  <2>6. ASSUME NEW k \in 0 .. N - 1, k \in T  PROVE k + 1 \in T
    <3>1. k + 1 \in 0 .. N /\ k + 1 \in 1 .. N /\ (k + 1) - 1 = k /\ k \in Nat
      BY <1>1
    <3>2. h[k + 1] = IF k + 1 = 1 THEN s[k + 1] ELSE h[(k + 1) - 1] \o s[k + 1]
      BY <2>4, <3>1
    <3>3. g[k + 1] = g[(k + 1) - 1] \o s[k + 1]
      BY <1>4, <3>1
    <3>4. CASE k = 0
      BY <2>2, <3>1, <3>2, <3>4
    <3>5. CASE k # 0
      <4>1. k + 1 # 1 /\ k > 0
        BY <3>1, <3>5
      <4>2. h[k] = g[k]
        BY <2>6, <4>1
      <4>3. h[k + 1] = h[k] \o s[k + 1] /\ g[k + 1] = g[k] \o s[k + 1]
        <5>1. h[k + 1] = h[(k + 1) - 1] \o s[k + 1]
          BY <3>2, <4>1
        <5> QED
          BY <3>1, <3>3, <5>1
      <4>4. h[k + 1] = g[k + 1]
        BY <4>2, <4>3
      <4> QED
        BY <3>1, <4>4
    <3> QED
      BY <3>4, <3>5
  <2> HIDE DEF T, N
  <2>7. \A k \in 0 .. N : k \in T
    BY <1>1, <2>5, <2>6, Induction
  <2>8. h[N] = g[N]
    BY <1>1, <1>7, <2>7 DEF T
  <2> QED
    BY <1>5, <2>1, <2>8 DEF N
<1> QED
  BY <1>6, <1>7

\* Words put together are a text.
LEMMA FlatType ==
  ASSUME NEW s \in Seq(Seq(Char)), NEW f, Flat(s, f), NEW m \in 0 .. Len(s)
  PROVE  f[m] \in Seq(Char)
  BY DEF Flat

Alike(s, t, m) == m \in Nat /\ m <= Len(s) /\ m <= Len(t) /\ \A i \in 1 .. m : s[i] = t[i]

\* Words that begin alike have texts that begin alike.
LEMMA FlatAgree ==
  ASSUME NEW s \in Seq(Seq(Char)), NEW t \in Seq(Seq(Char)), NEW m, Alike(s, t, m),
         NEW f, NEW g, Flat(s, f), Flat(t, g)
  PROVE  f[m] = g[m]
<1> DEFINE T == {n \in 0 .. m : f[n] = g[n]}
<1>0. m \in Nat /\ m <= Len(s) /\ m <= Len(t) /\ \A i \in 1 .. m : s[i] = t[i]
  BY DEF Alike
<1>1. 0 \in T
  BY <1>0 DEF Flat
<1>2. ASSUME NEW k \in 0 .. m - 1, k \in T  PROVE k + 1 \in T
  <2>1. k + 1 \in 0 .. m /\ k + 1 \in 1 .. m /\ k + 1 \in 1 .. Len(s) /\ k + 1 \in 1 .. Len(t) /\ (k + 1) - 1 = k
    BY <1>0
  <2>2. f[k + 1] = f[(k + 1) - 1] \o s[k + 1] /\ g[k + 1] = g[(k + 1) - 1] \o t[k + 1]
    BY <2>1 DEF Flat
  <2>3. f[k] = g[k] /\ s[k + 1] = t[k + 1]
    BY <1>0, <1>2, <2>1
  <2> QED
    BY <2>1, <2>2, <2>3
<1> HIDE DEF T
<1>3. \A k \in 0 .. m : k \in T
  BY <1>0, <1>1, <1>2, Induction
<1> QED
  BY <1>0, <1>3 DEF T

\* No words, no text.
LEMMA FlattenEmpty == FlattenSeq(<<>>) = <<>>
  BY DEF FlattenSeq

\* A word is added, or the last one grows.
LEMMA FlattenAppend ==
  ASSUME NEW s \in Seq(Seq(Char)), NEW c \in Char
  PROVE  FlattenSeq(Append(s, <<c>>)) = Append(FlattenSeq(s), c)
<1> DEFINE t == Append(s, <<c>>)  m == Len(s)
<1>1. t \in Seq(Seq(Char)) /\ Len(t) = m + 1 /\ t[m + 1] = <<c>> /\ (\A i \in 1 .. m : t[i] = s[i]) /\ m \in Nat
  <2>1. <<c>> \in Seq(Char)
    OBVIOUS
  <2> QED
    BY <2>1
<1> HIDE DEF t
<1>2. PICK f : Flat(s, f) /\ FlattenSeq(s) = f[Len(s)]
  BY FlattenIs
<1>3. PICK g : Flat(t, g) /\ FlattenSeq(t) = g[Len(t)]
  BY <1>1, FlattenIs
<1>4. f[m] = g[m]
  <2>1. m \in Nat /\ m <= Len(s) /\ m <= Len(t)
    BY <1>1
  <2>2. \A i \in 1 .. m : s[i] = t[i]
    BY <1>1
  <2>3. Alike(s, t, m)
    BY <2>1, <2>2, Zenon DEF Alike
  <2> QED
    BY <1>1, <1>2, <1>3, <2>3, FlatAgree
<1>5. g[m + 1] = g[m] \o <<c>>
  <2>1. m + 1 \in 1 .. Len(t) /\ (m + 1) - 1 = m
    BY <1>1
  <2>2. g[m + 1] = g[(m + 1) - 1] \o t[m + 1]
    BY <1>3, <2>1 DEF Flat
  <2> QED
    BY <1>1, <2>1, <2>2
<1>6. f[m] \in Seq(Char)
  <2>1. m \in 0 .. Len(s)
    BY <1>1
  <2> QED
    BY <1>2, <2>1, FlatType
<1>7. \A u \in Seq(Char) : u \o <<c>> = Append(u, c)
  OBVIOUS
<1> QED
  BY <1>1, <1>2, <1>3, <1>4, <1>5, <1>6, <1>7 DEF t

\* The last word grows.
LEMMA FlattenGrow ==
  ASSUME NEW s \in Seq(Seq(Char)), NEW c \in Char, NEW t \in Seq(Seq(Char)),
         Len(s) > 0, Len(t) = Len(s), t[Len(s)] = Append(s[Len(s)], c),
         \A i \in 1 .. Len(s) - 1 : t[i] = s[i]
  PROVE  FlattenSeq(t) = Append(FlattenSeq(s), c)
<1>1. PICK f : Flat(s, f) /\ FlattenSeq(s) = f[Len(s)]
  BY FlattenIs
<1>2. PICK g : Flat(t, g) /\ FlattenSeq(t) = g[Len(t)]
  BY FlattenIs
<1>3. PICK m \in Nat : m + 1 = Len(s)
  <2>1. Len(s) - 1 \in Nat /\ (Len(s) - 1) + 1 = Len(s)
    OBVIOUS
  <2> QED
    BY <2>1
<1>4. m <= Len(s) /\ m <= Len(t) /\ (\A i \in 1 .. m : s[i] = t[i]) /\ m + 1 \in 1 .. Len(s) /\ (m + 1) - 1 = m
      /\ m \in 0 .. Len(s)
  BY <1>3
<1>5. f[m] = g[m]
  <2>1. Alike(s, t, m)
    BY <1>4 DEF Alike
  <2> QED
    BY <1>1, <1>2, <2>1, FlatAgree
<1>6. f[m + 1] = f[(m + 1) - 1] \o s[m + 1] /\ g[m + 1] = g[(m + 1) - 1] \o t[m + 1]
  BY <1>1, <1>2, <1>4 DEF Flat
<1>7. f[m] \in Seq(Char) /\ s[m + 1] \in Seq(Char)
  BY <1>1, <1>4, FlatType
<1>8. Append(f[m] \o s[m + 1], c) = f[m] \o Append(s[m + 1], c)
  BY <1>7, AppendConcat
<1> QED
  BY <1>1, <1>2, <1>3, <1>4, <1>5, <1>6, <1>8

\* The letters of the beginnings of a line.
LetterSteps(f, line) ==
  /\ f[0] = <<>>
  /\ \A n \in 1 .. Len(line) : f[n] = IF Letter(line[n]) THEN Append(f[n - 1], line[n]) ELSE f[n - 1]

\* The letters of a line, one character after the other.
LEMMA LettersAre ==
  ASSUME NEW line \in Seq(Char)
  PROVE  \E f : LetterSteps(f, line) /\ Letters(line) = f[Len(line)]
<1> DEFINE N == Len(line)
           next(b, n) == IF Letter(line[n]) THEN Append(b, line[n]) ELSE b
           step == [k \in 1 .. N |-> [b \in Seq(Char) |-> next(b, k)]]
           IsKept(f) == f = [n \in 0 .. N |-> IF n = 0 THEN <<>> ELSE next(f[n - 1], n)]
           h == CHOOSE f : IsKept(f)
<1>1. N \in Nat /\ \A k \in 1 .. N : line[k] \in Char
  OBVIOUS
<1>2. step \in [1 .. N -> [Seq(Char) -> Seq(Char)]]
  BY <1>1
<1>3. PICK g : Iterates(g, Seq(Char), <<>>, N, step)
  <2>1. <<>> \in Seq(Char)
    OBVIOUS
  <2> HIDE DEF N, step
  <2> QED
    BY <1>1, <1>2, <2>1, Recursion
<1> HIDE DEF next
<1>4. \A n \in 1 .. N : g[n] = next(g[n - 1], n)
  <2>1. \A n \in 1 .. N : n - 1 \in 0 .. N
    BY <1>1
  <2> QED
    BY <1>3, <2>1 DEF Iterates
<1>5. IsKept(g)
  BY <1>1, <1>3, <1>4 DEF Iterates
<1>6. IsKept(h)
  BY <1>5
<1>7. Letters(line) = h[N]
  BY DEF Letters, next
<1> HIDE DEF h
<1>8. LetterSteps(h, line)
  <2>1. h[0] = <<>>
    BY <1>1, <1>6
  <2>2. ASSUME NEW n \in 1 .. N  PROVE h[n] = next(h[n - 1], n)
    <3>1. n \in 0 .. N /\ n # 0
      BY <1>1
    <3> QED
      BY <1>6, <3>1
  <2> QED
    BY <2>1, <2>2 DEF LetterSteps, next
<1> QED
  BY <1>7, <1>8
-----------------------------------------------------------------------------
(* The tokens of the beginnings of a line.                                 *)

\* The words that start in the first n characters of a line.
Starts(line, n) == {i \in WordStarts(line) : i <= n}
Begun(line, n)  == Cardinality(Starts(line, n))

\* How many words have begun.
LEMMA BegunIs ==
  ASSUME NEW line \in Seq(Char)
  PROVE  /\ \A n \in 0 .. Len(line) : Begun(line, n) \in Nat
         /\ Begun(line, 0) = 0 /\ Begun(line, Len(line)) = Cardinality(WordStarts(line))
         /\ \A n \in 0 .. Len(line) - 1 :
              Begun(line, n + 1) = IF n + 1 \in WordStarts(line) THEN Begun(line, n) + 1 ELSE Begun(line, n)
<1>1. WordStarts(line) \subseteq 1 .. Len(line) /\ Len(line) \in Nat
  BY DEF WordStarts
<1>2. ASSUME NEW n \in 0 .. Len(line)  PROVE IsFiniteSet(Starts(line, n)) /\ Begun(line, n) \in Nat
  <2>1. Starts(line, n) \subseteq 1 .. Len(line)
    BY <1>1 DEF Starts
  <2>2. IsFiniteSet(1 .. Len(line))
    BY <1>1, FS_Interval
  <2> QED
    BY <2>1, <2>2, FS_Subset, FS_CardinalityType DEF Begun
<1>3. Starts(line, 0) = {} /\ Starts(line, Len(line)) = WordStarts(line)
  BY <1>1 DEF Starts
<1>4. ASSUME NEW n \in 0 .. Len(line) - 1
      PROVE  Begun(line, n + 1) = IF n + 1 \in WordStarts(line) THEN Begun(line, n) + 1 ELSE Begun(line, n)
  <2>0. n \in 0 .. Len(line) /\ n \in Nat
    BY <1>1
  <2>1. CASE n + 1 \in WordStarts(line)
    <3>1. Starts(line, n + 1) = Starts(line, n) \cup {n + 1} /\ n + 1 \notin Starts(line, n)
      BY <1>1, <2>0, <2>1 DEF Starts
    <3> QED
      BY <1>2, <2>0, <2>1, <3>1, FS_AddElement DEF Begun
  <2>2. CASE n + 1 \notin WordStarts(line)
    <3>1. Starts(line, n + 1) = Starts(line, n)
      BY <1>1, <2>0, <2>2 DEF Starts
    <3> QED
      BY <2>2, <3>1 DEF Begun
  <2> QED
    BY <2>1, <2>2
<1> QED
  BY <1>2, <1>3, <1>4, FS_EmptySet DEF Begun

\* Tokens t after n characters, k of them letters that start words, l the letters.
Told(t, line, n, l) ==
  /\ t \in Tokens
  /\ Len(t.argv) = IF Begun(line, n) < MAX_ARGS THEN Begun(line, n) ELSE MAX_ARGS
  /\ t.open => n > 0 /\ Letter(line[n])
  /\ n > 0 /\ Letter(line[n]) /\ Begun(line, n) <= MAX_ARGS => t.open
  /\ Begun(line, n) <= MAX_ARGS => FlattenSeq(t.argv) = l

\* One character keeps what the tokens say of the line.
LEMMA ToldNext ==
  ASSUME NEW line \in Seq(Char), NEW n \in 0 .. Len(line) - 1, NEW t, NEW l, Told(t, line, n, l),
         NEW c, c = line[n + 1]
  PROVE  Told(token(t, c), line, n + 1, IF Letter(c) THEN Append(l, c) ELSE l)
<1> DEFINE u == token(t, c)  N == Len(t.argv)  b == Begun(line, n)  d == Begun(line, n + 1)
<1>0. /\ n \in Nat /\ n + 1 \in 1 .. Len(line) /\ n + 1 > 0 /\ c \in Char /\ Len(line) \in Nat
      /\ MAX_ARGS \in Nat /\ (n + 1 > 1 <=> n > 0) /\ (n + 1) - 1 = n
  BY ShellAssumption
<1>1. /\ t \in Tokens /\ N = (IF b < MAX_ARGS THEN b ELSE MAX_ARGS)
      /\ (t.open => n > 0 /\ Letter(line[n]))
      /\ (n > 0 /\ Letter(line[n]) /\ b <= MAX_ARGS => t.open)
      /\ (b <= MAX_ARGS => FlattenSeq(t.argv) = l)
  BY DEF Told
<1>2. t.argv \in Seq(Seq(Char)) /\ N \in Nat /\ t.open \in BOOLEAN
  <2>1. t.argv \in Seq(Words) /\ Words \subseteq Seq(Char) /\ t.open \in BOOLEAN
    BY <1>1 DEF Tokens, Words
  <2> QED
    BY <2>1
<1>3. b \in Nat /\ d = (IF n + 1 \in WordStarts(line) THEN b + 1 ELSE b) /\ d \in Nat
  <2>1. b \in Nat /\ d = (IF n + 1 \in WordStarts(line) THEN b + 1 ELSE b)
    BY <1>0, BegunIs
  <2> HIDE DEF b, d
  <2> QED
    BY <2>1
<1>4. n + 1 \in WordStarts(line) <=> Letter(c) /\ ~(n > 0 /\ Letter(line[n]))
  <2>1. n + 1 \in WordStarts(line) <=> Letter(line[n + 1]) /\ (n + 1 > 1 => ~Letter(line[(n + 1) - 1]))
    BY <1>0 DEF WordStarts
  <2> QED
    BY <1>0, <2>1
<1>5. /\ u \in Tokens
      /\ ~Letter(c) => u.open = FALSE /\ u.argv = t.argv
      /\ Letter(c) /\ t.open =>
           /\ u.open = TRUE /\ N > 0 /\ u.argv \in Seq(Words) /\ Len(u.argv) = N
           /\ u.argv[N] = Append(t.argv[N], c)
           /\ \A i \in 1 .. N - 1 : u.argv[i] = t.argv[i]
      /\ Letter(c) /\ ~t.open /\ N < MAX_ARGS => u.open = TRUE /\ u.argv = Append(t.argv, <<c>>)
      /\ Letter(c) /\ ~t.open /\ N >= MAX_ARGS => u = t
  <2>1. Grows(u, t, c)
    BY <1>0, <1>1, TokenIs
  <2> HIDE DEF u
  <2> QED
    BY <2>1 DEF Grows
<1> SUFFICES /\ Len(u.argv) = IF d < MAX_ARGS THEN d ELSE MAX_ARGS
             /\ u.open => Letter(c)
             /\ Letter(c) /\ d <= MAX_ARGS => u.open
             /\ d <= MAX_ARGS => FlattenSeq(u.argv) = IF Letter(c) THEN Append(l, c) ELSE l
  BY <1>0, <1>5 DEF Told
<1> HIDE DEF u, N, b, d
<1>6. CASE ~Letter(c)
  <2>1. u.open = FALSE /\ u.argv = t.argv /\ d = b /\ Len(u.argv) = N
    BY <1>3, <1>4, <1>5, <1>6 DEF N
  <2> QED
    BY <1>1, <1>6, <2>1
<1>7. CASE Letter(c) /\ t.open
  <2>1. d = b /\ u.open = TRUE /\ Len(u.argv) = N
    BY <1>1, <1>3, <1>4, <1>5, <1>7
  <2>2. FlattenSeq(u.argv) = Append(FlattenSeq(t.argv), c)
    <3>1. u.argv \in Seq(Seq(Char))
      <4>1. u.argv \in Seq(Words) /\ Words \subseteq Seq(Char)
        BY <1>5, <1>7 DEF Words
      <4> QED
        BY <4>1
    <3>2. /\ N > 0 /\ Len(u.argv) = N /\ u.argv[N] = Append(t.argv[N], c)
          /\ \A i \in 1 .. N - 1 : u.argv[i] = t.argv[i]
      BY <1>5, <1>7
    <3> QED
      BY <1>0, <1>2, <3>1, <3>2, FlattenGrow DEF N
  <2> QED
    BY <1>1, <1>7, <2>1, <2>2
<1>8. CASE Letter(c) /\ ~t.open /\ N < MAX_ARGS
  <2>1. b < MAX_ARGS /\ N = b
    BY <1>0, <1>1, <1>2, <1>3, <1>8
  <2>2. d = b + 1
    BY <1>0, <1>1, <1>3, <1>4, <1>8, <2>1
  <2>3. u.open = TRUE /\ u.argv = Append(t.argv, <<c>>)
    BY <1>5, <1>8
  <2>4. Len(u.argv) = N + 1
    BY <1>2, <2>3 DEF N
  <2>5. FlattenSeq(u.argv) = Append(l, c)
    BY <1>0, <1>1, <1>2, <1>3, <2>1, <2>3, FlattenAppend
  <2> QED
    BY <1>0, <1>3, <1>8, <2>1, <2>2, <2>3, <2>4, <2>5
<1>9. CASE Letter(c) /\ ~t.open /\ ~(N < MAX_ARGS)
  <2>1. b >= MAX_ARGS /\ N = MAX_ARGS
    BY <1>0, <1>1, <1>2, <1>3, <1>9
  <2>2. ~(d <= MAX_ARGS)
    <3>1. d <= MAX_ARGS => b <= MAX_ARGS /\ n + 1 \notin WordStarts(line)
      BY <1>0, <1>3, <2>1
    <3> QED
      BY <1>1, <1>4, <1>9, <3>1
  <2>3. u = t
    BY <1>0, <1>2, <1>5, <1>9
  <2>4. Len(u.argv) = MAX_ARGS
    BY <2>1, <2>3 DEF N
  <2> QED
    BY <1>0, <1>3, <1>9, <2>2, <2>4
<1> QED
  BY <1>6, <1>7, <1>8, <1>9

\* The arguments are the words of the line.
LEMMA WordsHold == ConsoleInv => ArgumentsAreTheWords
<1> SUFFICES ASSUME ConsoleInv  PROVE ArgumentsAreTheWords
  OBVIOUS
<1> DEFINE N == Len(out)
<1>0. out \in Seq(Char) /\ N \in Nat
  <2>1. out \in Seq(Typed) /\ Typed \subseteq Char
    BY ConsoleAssumption DEF ConsoleInv, LineInv
  <2> QED
    BY <2>1
<1>1. PICK f : TokenSteps(f, out) /\ arguments(out) = f[N].argv
  BY <1>0, ArgumentsAre
<1>2. PICK g : LetterSteps(g, out) /\ Letters(out) = g[N]
  BY <1>0, LettersAre
<1> DEFINE T == {n \in 0 .. N : Told(f[n], out, n, g[n])}
<1>3. 0 \in T
  <2>1. f[0] = NoTokens /\ f[0] \in Tokens /\ g[0] = <<>>
    BY <1>0, <1>1, <1>2 DEF TokenSteps, LetterSteps
  <2>2. Begun(out, 0) = 0 /\ MAX_ARGS \in Nat /\ 0 < MAX_ARGS
    BY <1>0, BegunIs, ShellAssumption
  <2>3. NoTokens.open = FALSE /\ NoTokens.argv = <<>> /\ Len(<<>>) = 0
    BY DEF NoTokens
  <2>4. Told(f[0], out, 0, g[0])
    BY <2>1, <2>2, <2>3, FlattenEmpty DEF Told
  <2> QED
    BY <1>0, <2>4
<1>4. ASSUME NEW k \in 0 .. N - 1, k \in T  PROVE k + 1 \in T
  <2>1. k + 1 \in 0 .. N /\ k + 1 \in 1 .. N /\ (k + 1) - 1 = k
    BY <1>0
  <2>2. f[k + 1] = token(f[k], out[k + 1])
    <3>1. f[k + 1] = token(f[(k + 1) - 1], out[k + 1])
      BY <1>1, <2>1 DEF TokenSteps
    <3> QED
      BY <2>1, <3>1
  <2>3. g[k + 1] = IF Letter(out[k + 1]) THEN Append(g[k], out[k + 1]) ELSE g[k]
    <3>1. g[k + 1] = IF Letter(out[k + 1]) THEN Append(g[(k + 1) - 1], out[k + 1]) ELSE g[(k + 1) - 1]
      BY <1>2, <2>1 DEF LetterSteps
    <3> QED
      BY <2>1, <3>1
  <2>4. Told(f[k], out, k, g[k])
    BY <1>4
  <2>5. Told(f[k + 1], out, k + 1, g[k + 1])
    BY <1>0, <2>2, <2>3, <2>4, ToldNext
  <2> QED
    BY <2>1, <2>5
<1> HIDE DEF T
<1>5. \A k \in 0 .. N : k \in T
  <2> HIDE DEF N
  <2> QED
    BY <1>0, <1>3, <1>4, Induction
<1>6. Told(f[N], out, N, g[N])
  BY <1>0, <1>5 DEF T
<1>7. Begun(out, N) = Cardinality(WordStarts(out))
  BY <1>0, BegunIs
<1> DEFINE argv == arguments(out)
<1>8. argv \in Seq(Words)
  BY <1>0, ArgumentsType
<1>9. /\ Len(argv) = IF Cardinality(WordStarts(out)) < MAX_ARGS THEN Cardinality(WordStarts(out)) ELSE MAX_ARGS
      /\ Cardinality(WordStarts(out)) <= MAX_ARGS => FlattenSeq(argv) = Letters(out)
  BY <1>1, <1>2, <1>6, <1>7 DEF Told
<1>10. ASSUME NEW w \in DOMAIN argv  PROVE argv[w] # <<>> /\ \A k \in DOMAIN argv[w] : Letter(argv[w][k])
  <2>1. argv[w] \in Words
    BY <1>8
  <2> HIDE DEF argv
  <2>2. argv[w] # <<>> /\ argv[w] \in Seq(Char) /\ \A k \in 1 .. Len(argv[w]) : Letter(argv[w][k])
    BY <2>1 DEF Words
  <2>3. DOMAIN argv[w] = 1 .. Len(argv[w])
    BY <2>2
  <2> QED
    BY <2>2, <2>3
<1> QED
  BY <1>9, <1>10 DEF ArgumentsAreTheWords

\* cmd_sys stops the kernel only when it was asked to.
LEMMA StopHolds == ConsoleInv => StopsOnlyOnRequest
<1> SUFFICES ASSUME ConsoleInv  PROVE StopsOnlyOnRequest
  OBVIOUS
<1>1. ArgumentsAreTheWords
  BY WordsHold
<1>2. ASSUME pc = "stopped"
      PROVE  \E option \in {SYS_OPT_REBOOT, SYS_OPT_SHUTDOWN} : \E n \in 1 .. Len(option) :
               /\ arguments(out) = <<SysName, SubSeq(option, 1, n)>>
               /\ "Left" \notin pressed => arguments(shown) = <<SysName, SubSeq(option, 1, n)>>
  <2>1. out \in Seq(Char)
    <3>1. out \in Seq(Typed) /\ Typed \subseteq Char
      BY ConsoleAssumption DEF ConsoleInv, LineInv
    <3> QED
      BY <3>1
  <2>2. stops(cmds, out) /\ ("Left" \notin pressed => shown = out)
    BY <1>2 DEF ConsoleInv
  <2> QED
    BY <2>1, <2>2, StopIs
<1> QED
  BY <1>1, <1>2 DEF StopsOnlyOnRequest

-----------------------------------------------------------------------------
(* The properties of the console.                                          *)

\* Unless Left was pressed the line that will be executed is the line on the
\* display, and only a Backspace after a Left touches the prompt
\* (Tty::readline, tty.cpp:62-108).
THEOREM ExecutesWhatIsShown == Spec /\ []TextIsShort => []ShownIsExecuted
  BY Invariant, ShownHolds, PTL

\* The column and line TextArea keeps are those of the gap, and one cell shows
\* the cursor, unless Left or Right was pressed.
THEOREM CursorIsAtGap == Spec /\ []TextIsShort => []CursorIsGap
  BY Invariant, CursorHolds, PTL

\* Every prompt is written at the end of the text, whatever the keys of the
\* line before it did to the cursor.
THEOREM PromptsAtEnd == Spec /\ []TextIsShort => PromptAtEnd
<1>1. ConsoleInv' => [StartLine => /\ area'.gap = count(area')
                                   /\ area'.target = Coordinates(area', area'.gap)]_vars
  BY PromptHolds
<1> QED
  BY <1>1, Invariant, PTL DEF PromptAtEnd

\* The window never starts below the last page of the text, and no pixel of
\* its cells is outside the framebuffer (TextArea::redraw, Canvas::draw_byte).
THEOREM WindowStaysInside == Spec /\ []TextIsShort => []WindowInsideText
  BY Invariant, WindowHolds, PTL

\* The kernel is stopped only by a line that names sys and an option of it;
\* the arguments of every line are its words (Shell::execute_line).
THEOREM StopsWhenAsked == Spec /\ []TextIsShort => []StopsOnlyOnRequest
  BY Invariant, StopHolds, PTL
=============================================================================
