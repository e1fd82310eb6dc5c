CONSTANTS
  Text = {"x", "y", "z"}
  Concat <- MCConcat
  Mark = {}
  FileName = {"f"}
  NoName = NoName
  Absent = Absent
  MaxLines = 4
  MaxFile = 4
  CopiesFail = TRUE
  MaxCommands = 2
  Contents <- ThreeLines
  Command <- ChangeCommands
  Typed <- ChangeCommands
SPECIFICATION Spec
PROPERTIES
  ChangeIsUndone
