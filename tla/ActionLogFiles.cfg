SPECIFICATION Spec
CONSTANTS
  dirA = dirA
  fileF = fileF
  fileG = fileG
  old = old
  new = new
  Names <- MCNames
  Contents <- MCContents
  PathRank <- MCPathRank
  PerFile = 1
  MaxLog = 5
  Paths <- FilePaths
  Remote <- OneFile
  LocalFiles <- OnlyF
  LocalDirs <- Nothing
  LocalTimes <- LocalOdd
  ClockSkew = FALSE
  MaxNodes = 2
INVARIANTS
  TypeOK
  NoActionLost
  LogSorted
  NothingRepeated
  
PROPERTIES
  ImplementsLogSet
  ActionAddedReturns
