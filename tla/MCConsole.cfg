SPECIFICATION Spec
CONSTANTS
  Char = {"s", "r", " ", ">", "t", "NL"}
  NL = "NL"
  Width = 10
  Height = 7
  GlyphW = 2
  GlyphH = 2
  GapX = 1
  GapY = 1
  WordSize = 128
  Separators = {" "}
  MAX_COMMANDS = 3
  MAX_ARGS = 3
  HelpName <- MCHelpName
  EchoName <- MCEchoName
  SysName <- MCSysName
  SYS_OPT_REBOOT <- MCReboot
  SYS_OPT_SHUTDOWN <- MCShutdown
  HelpText <- MCText
  Banner <- MCText
  Dash <- MCText
  Space <- MCSpace
  Unknown <- MCText
  Farewell <- MCText
  Typed = {"s", "r", " "}
  Prompt <- MCPrompt
  MaxTyped <- MCTyped
  MaxScroll = 2
INVARIANTS
  ShownIsExecuted
  CursorIsGap
  WindowInsideText
  StopsOnlyOnRequest
PROPERTIES
  PromptAtEnd
CHECK_DEADLOCK FALSE
