----------------------------- MODULE TextBuffer -----------------------------
(***************************************************************************)
(* What ctr::GapBuffer promises the text area: a text and a cursor in it.  *)
(* There is no gap, no capacity and no reallocation.                       *)
(***************************************************************************)
EXTENDS Integers, Sequences

CONSTANT Char

VARIABLES text,     \* the characters
          cursor    \* how many of them are left of the cursor

vars == <<text, cursor>>

left  == SubSeq(text, 1, cursor)
right == SubSeq(text, cursor + 1, Len(text))

Init == text = <<>> /\ cursor = 0

Insert(items) ==
  /\ text' = left \o items \o right
  /\ cursor' = cursor + Len(items)

\* At most what is left of the cursor is deleted.
DeleteLeft(n) ==
  LET k == IF n > cursor THEN cursor ELSE n
  IN  /\ text' = SubSeq(text, 1, cursor - k) \o right
      /\ cursor' = cursor - k

\* A position past the end means the end.
MoveTo(index) ==
  /\ cursor' = IF index > Len(text) THEN Len(text) ELSE index
  /\ UNCHANGED text

\* What an inserted text is follows from the text it makes.
Next ==
  \/ \E n \in 0 .. Len(text') - Len(text) :
       Insert(SubSeq(text', cursor + 1, cursor + n))
  \/ \E n \in 0 .. cursor : DeleteLeft(n)
  \/ \E index \in 0 .. Len(text) : MoveTo(index)

Spec == Init /\ [][Next]_vars
=============================================================================
