SPECIFICATION KernelSpec
CONSTANTS
  Arena <- OneArena
  ArenaAddr <- OneAddr
  ArenaSize <- OddSize
  ArenaDiv <- OneDiv
  HeaderSize = 2
  DataAlign = 2
  MaxId = 2
  AllocBudget = 2
  Requests <- BigRequest
  Strays <- OneStrays
INVARIANTS
  LiveInsideArena
CHECK_DEADLOCK FALSE
