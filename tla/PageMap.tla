------------------------------ MODULE PageMap -------------------------------
(***************************************************************************)
(* What hal::Paging promises its clients: a map from pages to frames with  *)
(* flags.  There are no tables; what they cost shows in room only.         *)
(***************************************************************************)
EXTENDS Integers

CONSTANTS Page, Target, Flag,
          NotMapped

VARIABLES mapped,    \* page -> [to, flags], or NotMapped
          room       \* frames left for tables and directories

vars == <<mapped, room>>

TypeOK ==
  /\ mapped \in [Page -> [to : Target, flags : SUBSET Flag] \cup {NotMapped}]
  /\ room \in Nat

Kept(S) == \A x \in S : mapped'[x] = mapped[x]

\* The first k of the pages asked for, and only they, are mapped as asked;
\* fewer than all only when nothing is left for a page table.
MapRange(v, p, n, f) ==
  \E k \in 0 .. n :
    /\ k < n => room' = 0
    /\ room' <= room
    /\ \A x \in v .. v + k - 1 :
         mapped'[x] = [to |-> p + (x - v), flags |-> f \cup {"Present"}]
    /\ Kept(Page \ (v .. v + k - 1))

UnmapRange(v, n) ==
  /\ UNCHANGED room
  /\ \A x \in v .. v + n - 1 : mapped'[x] = NotMapped
  /\ Kept(Page \ (v .. v + n - 1))

\* Address spaces come and go beside the active one.
Spaces == Kept(Page)
=============================================================================
