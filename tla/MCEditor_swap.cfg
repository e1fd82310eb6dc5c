CONSTANTS
  Text = {"x", "y", "z"}
  Concat <- MCConcat
  Mark = {}
  FileName = {"f"}
  NoName = NoName
  Absent = Absent
  MaxLines = 4
  MaxFile = 4
  CopiesFail = TRUE
  MaxCommands = 2
  Contents <- ThreeLines
  Command <- SwapCommands
  Typed <- SwapCommands
SPECIFICATION Spec
INVARIANTS
  NoCommandLoops
