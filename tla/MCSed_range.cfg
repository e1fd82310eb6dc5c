CONSTANTS
  a = a
  b = b
  Char = {a, b}
  Newline = Newline
  Marker = Marker
  Listed = Listed
  Null = Null
  Absent = Absent
  WFile = {"f", "g", "h"}
  Unwritable = {"h"}
  RFile <- MCRFile
  MaxWFiles = 1
  MaxSpace = 8
  Jobs <- RangeJobs
SPECIFICATION Spec
INVARIANTS
  DeletesItsRange
