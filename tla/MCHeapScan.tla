----------------------------- MODULE MCHeapScan -----------------------------
(* Every block of 7 divisions, alignments of 1, 2 and 3 divisions with      *)
(* every phase, and an alignment no division has.                           *)
EXTENDS HeapScan

Periodic ==
  {{d \in ScanDivs : d % p = o} : p \in 1 .. 3, o \in 0 .. 2}
=============================================================================
