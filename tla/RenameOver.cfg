SPECIFICATION Spec
CONSTANTS
  nameA = nameA
  nameB = nameB
  nameF = nameF
  empty = empty
  old = old
  Names <- MCNames
  Contents <- MCContents
  Empty = empty
  Paths <- AllPaths
  Targets <- TopTargets
  StartLog <- FlatLog
  MayFail = FALSE
  MaxStored = 3
PROPERTY RenameKeepsContent
