CONSTANTS
  Text = {"x", "y", "z"}
  Concat <- MCConcat
  Mark = {}
  FileName = {"f"}
  NoName = NoName
  Absent = Absent
  MaxLines = 6
  MaxFile = 6
  CopiesFail = TRUE
  MaxCommands = 2
  Contents <- ThreeLines
  Command <- CopyCommands
  Typed <- CopyCommands
SPECIFICATION Spec
PROPERTIES
  CopyAbortSavesAll
