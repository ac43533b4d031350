------------------------ MODULE MCPageFrameAllocator ------------------------
(***************************************************************************)
(* A small PageFrameAllocator: 4-byte pages, 9 frames at 0 .. 35 of 64     *)
(* addresses, and a bitmap of one byte, so the last frame has no bit.      *)
(***************************************************************************)
EXTENDS PageFrameAllocator

\* Ranges inside one page, across pages, past the managed end, beyond it,
\* empty, and one whose end wraps.
SmallUsable   == {<<4, 13>>, <<0, 16>>, <<14, 19>>, <<26, 44>>, <<2, 3>>, <<10, 10>>, <<48, 0>>, <<62, 9>>}
SmallReserved == {<<5, 4>>, <<12, 3>>, <<27, 20>>, <<9, 0>>, <<41, 3>>}
SmallStrays   == {5, 36, 63}
=============================================================================
