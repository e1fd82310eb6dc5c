CONSTANTS
  Text = {"x", "y", "z"}
  Concat <- MCConcat
  Mark = {"m"}
  FileName = {"f"}
  NoName = NoName
  Absent = Absent
  MaxLines = 5
  MaxFile = 5
  CopiesFail = FALSE
  MaxCommands = 3
  Contents <- TwoFiles
  Command <- EditCommands
  Typed <- EditTyped
SPECIFICATION Spec
INVARIANTS
  TypeOK
  NothingUndefined
  TargetsStayPut
PROPERTIES
  MarksFollow
  OneCommandIsUndone
  GlobalActsOnChosen
