CONSTANTS
  Text = {"x", "y", "z"}
  Concat <- MCConcat
  Mark = {}
  FileName = {"f"}
  NoName = NoName
  Absent = Absent
  MaxLines = 5
  MaxFile = 5
  CopiesFail = TRUE
  MaxCommands = 1
  Contents <- TwoFiles
  Command <- NestedCommands
  Typed <- Outer
SPECIFICATION FairSpec
INVARIANTS
  ShiftsAreSplices
PROPERTIES
  GlobalEnds
