------------------------------ MODULE HeapStore ------------------------------
(***************************************************************************)
(* What a heap (mem::Heap) promises its clients, as sets of bytes: an      *)
(* allocation takes bytes that were free, and freeing it gives back        *)
(* exactly those bytes.                                                    *)
(***************************************************************************)
EXTENDS Integers

VARIABLES available,   \* bytes no client holds
          live         \* the allocations clients hold, [ptr |-> p, len |-> n]

vars == <<available, live>>

Bytes(r) == r.ptr .. r.ptr + r.len - 1

Init == available = {} /\ live = {}

\* A new block of memory joins the heap.
Extend ==
  /\ available \subseteq available'
  /\ \A r \in live : Bytes(r) \cap available' = {}
  /\ UNCHANGED live

Malloc ==
  \E r \in live' \ live :
    /\ Bytes(r) # {} /\ Bytes(r) \subseteq available
    /\ live' = live \cup {r}
    /\ available' = available \ Bytes(r)

Free ==
  \E r \in live :
    /\ live' = live \ {r}
    /\ available' = available \cup Bytes(r)

Next == Extend \/ Malloc \/ Free

Spec == Init /\ [][Next]_vars
=============================================================================
