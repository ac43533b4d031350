------------------------------ MODULE HeapScan ------------------------------
(***************************************************************************)
(* The scan of one block in BmHeap::alloc, one loop iteration per step: it *)
(* walks the id bytes once, counting the length of the current run of      *)
(* unused divisions, and starts a run only at an aligned division.  The    *)
(* question is whether this single pass finds the leftmost place where the *)
(* request fits, and finds one whenever there is one; BmHeap takes that    *)
(* answer for granted.                                                     *)
(***************************************************************************)
EXTENDS Integers

CONSTANTS DivCount,     \* block->div_count
          AlignedSets,  \* the sets of divisions whose address is aligned
          Needs         \* values of needed_divs

ScanDivs == 0 .. DivCount - 1

ASSUME ScanAssumption ==
  /\ DivCount \in Nat
  /\ AlignedSets \subseteq SUBSET ScanDivs
  /\ Needs \subseteq Nat \ {0}        \* oiz: at least one division

VARIABLES used,       \* divisions whose id byte is not 0
          aligned,    \* divisions whose address is a multiple of align
          needed,     \* needed_divs
          index,      \* i, the division the loop is at
          run_len, run_start,
          pc          \* "scan", "hit" (a pointer is returned) or "miss"

input == <<used, aligned, needed>>
scan_vars == <<used, aligned, needed, index, run_len, run_start, pc>>

ScanInit ==
  /\ used \in SUBSET ScanDivs /\ aligned \in AlignedSets /\ needed \in Needs
  /\ index = 0 /\ run_len = 0 /\ run_start = 0 /\ pc = "scan"

\* Mutant: a used division does not end the run.
SkipUsed_keeps_run ==
  /\ pc = "scan" /\ index < DivCount /\ index \in used
  /\ index' = index + 1
  /\ UNCHANGED <<input, run_len, run_start, pc>>

SkipUsed ==
  /\ pc = "scan" /\ index < DivCount /\ index \in used
  /\ run_len' = 0
  /\ index' = index + 1
  /\ UNCHANGED <<input, run_start, pc>>

\* Mutant: nothing advances past an unaligned division.
SkipUnaligned_stalls ==
  /\ pc = "scan" /\ index < DivCount /\ index \notin used
  /\ run_len = 0 /\ index \notin aligned
  /\ UNCHANGED scan_vars

\* No run starts at an unaligned division.
SkipUnaligned ==
  /\ pc = "scan" /\ index < DivCount /\ index \notin used
  /\ run_len = 0 /\ index \notin aligned
  /\ index' = index + 1
  /\ UNCHANGED <<input, run_len, run_start, pc>>

\* Mutant: the run must be longer than needed.
Count_exceeds ==
  /\ pc = "scan" /\ index < DivCount /\ index \notin used
  /\ run_len # 0 \/ index \in aligned
  /\ run_start' = IF run_len = 0 THEN index ELSE run_start
  /\ run_len' = run_len + 1
  /\ IF run_len' > needed
       THEN pc' = "hit" /\ UNCHANGED index
       ELSE index' = index + 1 /\ UNCHANGED pc
  /\ UNCHANGED input

\* Start or lengthen the run, and return once it is long enough.
Count ==
  /\ pc = "scan" /\ index < DivCount /\ index \notin used
  /\ run_len # 0 \/ index \in aligned
  /\ run_start' = IF run_len = 0 THEN index ELSE run_start
  /\ run_len' = run_len + 1
  /\ IF run_len' >= needed
       THEN pc' = "hit" /\ UNCHANGED index
       ELSE index' = index + 1 /\ UNCHANGED pc
  /\ UNCHANGED input

Miss ==
  /\ pc = "scan" /\ index >= DivCount
  /\ pc' = "miss"
  /\ UNCHANGED <<input, index, run_len, run_start>>

ScanNext == SkipUsed \/ SkipUnaligned \/ Count \/ Miss

\* The loop is straight-line code: it keeps running until it returns.
ScanSpec == ScanInit /\ [][ScanNext]_scan_vars /\ WF_scan_vars(ScanNext)

-----------------------------------------------------------------------------
\* The reference: `needed` unused divisions from s on, the first one aligned.
Fits(s) ==
  /\ s \in aligned /\ s + needed <= DivCount
  /\ \A d \in s .. s + needed - 1 : d \notin used

ScanTypeOK ==
  /\ used \subseteq ScanDivs /\ aligned \subseteq ScanDivs /\ needed \in Nat \ {0}
  /\ index \in 0 .. DivCount /\ run_len \in 0 .. DivCount
  /\ run_start \in 0 .. DivCount /\ pc \in {"scan", "hit", "miss"}

\* What alloc returns is a place where the request fits, and the leftmost.
HitIsLeftmostFit ==
  pc = "hit" => Fits(run_start) /\ \A t \in 0 .. run_start - 1 : ~Fits(t)

\* alloc moves on to the next block only when the request fits nowhere here,
\* although the scan never goes back to a position it skipped.
MissMeansNoFit == pc = "miss" => \A t \in ScanDivs : ~Fits(t)

\* The scan ends.
ScanEnds == <>(pc # "scan")
=============================================================================
