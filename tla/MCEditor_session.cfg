CONSTANTS
  Text = {"x", "y", "z"}
  Concat <- MCConcat
  Mark = {"m"}
  FileName = {"f", "g"}
  NoName = NoName
  Absent = Absent
  MaxLines = 4
  MaxFile = 4
  CopiesFail = TRUE
  MaxCommands = 3
  Contents <- Short
  Command <- SessionCommands
  Typed <- SessionCommands
SPECIFICATION Spec
INVARIANTS
  CursorInBounds
PROPERTIES
  KeepsThePromise
  FailureIsHarmless
  EmergencySaveIsComplete
