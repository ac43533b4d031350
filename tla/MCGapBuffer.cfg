SPECIFICATION MCSpec
CONSTANTS
  Char = {a, b}
  Junk = Junk
  GapSize = 2
  InitialCapacity = 4
  WordSize = 64
  Powers <- SmallPowers
  MaxLength = 5
  MaxItems = 3
  Letter = {"x", "y"}
  NUL = "NUL"
  Garbage = "garbage"
  MaxText = 3
  UINT64_MAX = 15
  WordBytes = 2
  MemorySize = 7
  Bits = 5
  Byte = {0, 1, 2, 3}
  StringLength = 2
  FbWidth = 6
  FbHeight = 5
  FbPitch = 6
  CoordSize = 64
  GlyphBits = 2
  Glyphs <- TwoGlyphs
  GlyphHeight = 2
  GlyphGap = 1
  Styles <- SomeStyles
  Chars = {1, 2}
  Colors = {"gray", "black"}
  None = "none"
  Windows <- SomeWindows
  Border = 1
  MaxDrawings = 2
  LongSize = 256
  Piece <- SomePieces
  Behind = {0, 255}
  MaxPieces = 2
  Sizes = {0, 2, 8}
INVARIANTS
  ReadsAreText
  StringIsText
  DivisionExact
  CallsMatchReference
  ScreenShowsDrawings
  PrintsItsPieces
PROPERTIES
  ImplementsText
  DivisionEnds
