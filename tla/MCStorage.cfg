CONSTANTS
  Images = {"i", "j", "k"}
  BlankImage = "i"
  MaxSequence = 5
  Files = {"f", "g"}
  Hashes = {0, 1, 2}
  Processes = {"p", "q"}
  Lists <- OneList
  MaxEvents = 4
  VPaths <- RootAndFile
  TotalBlocks = 2
  BlockSize = 1
  CountModulus = 3
  MaxInodes = 3
  MaxSaved = 2
  MaxHandles = 1
  NumClusters = 5
  DirEntries = 3
  MaxDepth = 4
  MaxOpenFiles = 1
  MaxOpenDirs = 1
  Names = {"a", "b"}
  Paths <- RootAndFile
  Counts = {2, 4}
  Payloads <- ZerosAndEntry
  MaxOffset = 4
SPECIFICATION Spec
INVARIANTS TypesOK StaysMountable NoCrossLinks NoSharedBlocks ListsMembers ListIsTrue
PROPERTIES MountFindsLastFlush GivesBack
CHECK_DEADLOCK FALSE
