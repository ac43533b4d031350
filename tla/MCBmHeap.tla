------------------------------ MODULE MCBmHeap ------------------------------
(* Small arenas for the kernel heap: a 2-byte header, 2-byte alignment.    *)
EXTENDS KernelHeap

\* Two arenas whose blocks end where the arena ends: 4 divisions of 2 bytes
\* at 10..17, 2 divisions of 4 bytes at 24..31; the third is too small.
TwoArenas == {"a", "b", "tiny"}
TwoAddr   == [a |-> 4, b |-> 20, tiny |-> 40]
TwoSize   == [a |-> 14, b |-> 12, tiny |-> 4]
TwoDiv    == [a |-> 2, b |-> 4, tiny |-> 2]

\* Within a division, whole, two of them, aligned beyond the division,
\* with the default alignment, too large, empty, and a bad alignment.
MixedRequests == {<<1, 1>>, <<3, 4>>, <<4, 0>>, <<9, 2>>, <<0, 1>>, <<2, 3>>}
MixedStrays   == {0, 4, 18, 32}

\* One arena of 6 divisions at 12..23.
OneArena == {"a"}
OneAddr  == [a |-> 4]
OneSize  == [a |-> 20]
OneDiv   == [a |-> 2]
OneStrays == {0, 4, 24}
WrapRequests == {<<2, 1>>}
BigRequest   == {<<12, 1>>, <<2, 2>>}

\* The same arena one byte smaller: max_divs is no multiple of DataAlign.
OddSize == [a |-> 19]
=============================================================================
