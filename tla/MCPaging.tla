------------------------------ MODULE MCPaging ------------------------------
(* Tables of five entries: 0 and 1 map the frames 0 .. 9 one to one, 2 is a  *)
(* user entry, 3 a kernel entry, 4 the window.                               *)
EXTENDS Paging

MCIdentityPt(d) == d + 2
MCFrame    == 0 .. 9
MCPools    == {{}, {5, 6, 7, 8}}
MCPages    == {14, 15}
MCTargets  == {20}
MCFlagSets == {{}, {"User"}}
=============================================================================
