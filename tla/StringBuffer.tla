---------------------------- MODULE StringBuffer ----------------------------
(***************************************************************************)
(* ctr::String: characters, their number and a capacity.  Two strings, so  *)
(* that one can be copied and moved to the other.                          *)
(*                                                                         *)
(* An array is made with one byte more than the capacity, for the NUL, in  *)
(* every place but one: copy assignment takes the size of the array for    *)
(* the capacity.  A string made by it writes its NUL one byte past the end *)
(* when it grows to its capacity.                                          *)
(***************************************************************************)
EXTENDS Integers, Sequences

CONSTANTS Letter, NUL, Garbage,
          MaxText   \* bound: the length of a string

Name == {"a", "b"}

VARIABLES str,    \* name -> [data, length, cap, past, copy]: data is the array,
                  \*   empty for nullptr; past counts the bytes written behind
                  \*   it; copy says that copy assignment made it
          given    \* ghost: name -> the characters it was given

string_vars == <<str, given>>

nullptr == <<>>
NoString == [data |-> nullptr, length |-> 0, cap |-> 0, past |-> 0, copy |-> FALSE]

StringInit == str = [s \in Name |-> NoString] /\ given = [s \in Name |-> <<>>]

\* memmove of view to buffer + at, and the NUL after it.
put(s, at, view) ==
  LET end == at + Len(view)
  IN  [s EXCEPT !.data = [k \in DOMAIN s.data |->
                            IF k > at /\ k <= end THEN view[k - at]
                            ELSE IF k = end + 1 THEN NUL ELSE s.data[k]],
                !.length = end,
                !.past = IF end + 1 - Len(s.data) > @ THEN end + 1 - Len(s.data) ELSE @]

\* new char[size], the first n characters moved over.
array(s, size, n) == [k \in 1 .. size |-> IF k <= n THEN s.data[k] ELSE Garbage]

clear(s) == IF s.data = nullptr THEN [s EXCEPT !.length = 0] ELSE put(s, 0, <<>>)

reserve(s, n) ==
  IF n <= s.cap THEN s
  ELSE put([s EXCEPT !.data = array(s, n + 1, s.length), !.cap = n, !.past = 0, !.copy = FALSE], s.length, <<>>)

grow_for(s, extra) ==
  LET required == s.length + extra
      twice    == IF s.cap = 0 THEN required ELSE s.cap * 2
  IN  reserve(s, IF twice < required THEN required ELSE twice)

\* String(view), from a C string or a view.
made(view) == IF view = <<>> THEN NoString ELSE put(reserve(NoString, Len(view)), 0, view)

\* Mutant: the room is that of the text alone.
append_unchecked(s, view) == IF view = <<>> THEN s ELSE put(s, s.length, view)

append(s, view) ==
  IF view = <<>> THEN s
  ELSE put(IF s.length + Len(view) > s.cap THEN grow_for(s, Len(view)) ELSE s, s.length, view)

push_back(s, c) == put(IF s.length + 1 > s.cap THEN grow_for(s, 1) ELSE s, s.length, <<c>>)

pop_back(s) == IF s.length = 0 \/ s.data = nullptr THEN s ELSE put(s, s.length - 1, <<>>)

view_of(s) == SubSeq(s.data, 1, s.length)

\* operator=(const String&): the array's size becomes the capacity.
copied(s, other) ==
  IF other.length = 0 THEN clear(s)
  ELSE LET n == other.length + 1
       IN  put(IF other.length > s.cap THEN [s EXCEPT !.data = array(s, n, 0), !.cap = n, !.past = 0, !.copy = TRUE]
               ELSE s, 0, view_of(other))

\* operator=(string_view), of other memory.
assigned(s, view) ==
  LET e == clear(s)
      n == Len(view)
  IN  IF view = <<>> THEN e
      ELSE put(IF n > s.cap THEN [e EXCEPT !.data = array(e, n + 1, 0), !.cap = n, !.past = 0, !.copy = FALSE] ELSE e,
               0, view)

-----------------------------------------------------------------------------
View == UNION {[1 .. n -> Letter] : n \in 0 .. MaxText}

set(s, new, t) ==
  /\ Len(t) <= MaxText
  /\ str' = [str EXCEPT ![s] = new]
  /\ given' = [given EXCEPT ![s] = t]

Construct(s) == \E v \in View : set(s, made(v), v)
PushBack(s)  == \E c \in Letter : set(s, push_back(str[s], c), Append(given[s], c))
PopBack(s)   == set(s, pop_back(str[s]), SubSeq(given[s], 1, Len(given[s]) - 1))
AppendView(s) == \E v \in View : set(s, append(str[s], v), given[s] \o v)
Clear(s)     == set(s, clear(str[s]), <<>>)
Reserve(s)   == \E n \in 0 .. MaxText : set(s, reserve(str[s], n), given[s])
Assign(s)    == \E v \in View : set(s, assigned(str[s], v), v)

\* operator=(string_view), of a part of the string itself.
AssignPart(s) ==
  \E i \in 1 .. str[s].length : \E j \in i .. str[s].length :
    LET v == SubSeq(str[s].data, i, j)
    IN  set(s, IF i = 1 /\ j = str[s].length THEN str[s] ELSE made(v), SubSeq(given[s], i, j))

Copy(s, o) == s # o /\ set(s, copied(str[s], str[o]), given[o])

Move(s, o) ==
  /\ s # o
  /\ str' = [str EXCEPT ![s] = str[o], ![o] = NoString]
  /\ given' = [given EXCEPT ![s] = given[o], ![o] = <<>>]

StringNext ==
  \E s \in Name :
    \/ Construct(s) \/ PushBack(s) \/ PopBack(s) \/ AppendView(s) \/ Clear(s)
    \/ Reserve(s) \/ Assign(s) \/ AssignPart(s)
    \/ \E o \in Name : Copy(s, o) \/ Move(s, o)

StringSpec == StringInit /\ [][StringNext]_string_vars

-----------------------------------------------------------------------------
\* Whatever was constructed, copied, moved, appended and cut, in arrays of any
\* age, the string reads as the text it was given.  The constructors, reserve
\* and grow_for leave room for the NUL: a string writes behind its array only
\* in one that copy assignment made, and then the NUL alone.
StringIsText ==
  \A s \in Name :
    /\ str[s].length = Len(given[s]) /\ str[s].length <= Len(str[s].data)
    /\ view_of(str[s]) = given[s]
    /\ str[s].length < Len(str[s].data) => str[s].data[str[s].length + 1] = NUL
    /\ str[s].past \in 0 .. 1
    /\ str[s].past = 1 => str[s].copy
=============================================================================
