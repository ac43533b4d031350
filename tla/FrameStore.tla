----------------------------- MODULE FrameStore -----------------------------
(***************************************************************************)
(* What a page frame allocator promises its clients                        *)
(* (hal/page_frame_allocator.hpp), without bitmap, hint or byte addresses: *)
(* frames are numbers, a frame is free, owned by a client, or neither      *)
(* (never donated, or withdrawn), and allocation is lowest number first.   *)
(***************************************************************************)
EXTENDS Integers

CONSTANTS Frame,      \* the managed frame numbers
          Nothing     \* the answer "out of memory"

VARIABLES free,       \* frames an allocation may return
          owned,      \* frames handed to a client and not given back
          answer      \* what the last allocation returned

vars == <<free, owned, answer>>

Init == free = {} /\ owned = {} /\ answer = Nothing

\* Donations happen before the first allocation.
Donate(S) ==
  /\ owned = {}
  /\ free' = free \cup S
  /\ UNCHANGED <<owned, answer>>

\* Frames withdrawn before the first allocation are never returned.
Withdraw(S) ==
  /\ owned = {}
  /\ free' = free \ S
  /\ UNCHANGED <<owned, answer>>

Allocate ==
  \E f \in free :
    /\ \A g \in free : f <= g
    /\ free' = free \ {f}
    /\ owned' = owned \cup {f}
    /\ answer' = f

OutOfMemory ==
  /\ free = {}
  /\ answer' = Nothing
  /\ UNCHANGED <<free, owned>>

Release(f) ==
  /\ f \in owned
  /\ free' = free \cup {f}
  /\ owned' = owned \ {f}
  /\ UNCHANGED answer

Next ==
  \/ \E S \in SUBSET Frame : Donate(S) \/ Withdraw(S)
  \/ Allocate
  \/ OutOfMemory
  \/ \E f \in Frame : Release(f)

Spec == Init /\ [][Next]_vars
=============================================================================
