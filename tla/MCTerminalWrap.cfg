SPECIFICATION TSpec
CONSTANTS
  Width = 3
  Height = 2
  TabStop = 2
  Glyphs = {"a"}
  Colors = {"grey"}
  FirstColor = "grey"
  MaxAbove = 0
  MaxInked = 0
  RingSize = 2
  Keys = {"a", "BS", "NL"}
  PortSize = 1
  LineSizes = {4}
  Prompts = {1}
INVARIANT EchoShows
