SPECIFICATION MSpec
CONSTANTS
  Files = {"a", "b"}
  MaxDepth = 3
  MaxPlace = 2
  MaxPieces = 5
  Home <- MCHome
  IntBits = 6
  Limit = 17
  HistorySize = 3
  MaxArgs = 4
  Sessions <- MCSessions
  Bases = {2, 10, 16, 36}
  Width = 3
  Height = 2
  TabStop = 2
  Glyphs = {"a"}
  Colors = {"grey"}
  FirstColor = "grey"
  MaxAbove = 0
  MaxInked = 0
  RingSize = 2
  Keys = {"a", " ", "BS", "NL", "HT"}
  PortSize = 2
  LineSizes = {4}
  Prompts = {0, 1}
INVARIANTS
  KeepsSurvivors
  WalksTogether
  OneSpelling
  SplitsAndJoins
  HistoryKept
  WordsExact
  EchoExact
  NumbersReadBack
  CalcRight
  TTypeOK
  EchoFits
PROPERTIES
  NoKeyDropped
  EnterEndsLine
