SPECIFICATION KernelSpec
CONSTANTS
  Arena <- OneArena
  ArenaAddr <- OneAddr
  ArenaSize <- OneSize
  ArenaDiv <- OneDiv
  HeaderSize = 2
  DataAlign = 2
  MaxId = 2
  AllocBudget = 4
  Requests <- WrapRequests
  Strays <- OneStrays
INVARIANTS
  NoSpuriousDoubleFree
CHECK_DEADLOCK FALSE
