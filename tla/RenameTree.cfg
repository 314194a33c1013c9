SPECIFICATION Spec
CONSTANTS
  nameA = nameA
  nameB = nameB
  nameF = nameF
  empty = empty
  old = old
  Names <- MCNames
  Contents <- MCContents
  Empty = empty
  Paths <- AllPaths
  Targets <- DeepTargets
  StartLog <- DeepLog
  MayFail = TRUE
  MaxStored = 5
INVARIANTS TypeOK 
PROPERTIES  RefusedChangesNothing  OperationsReturn
