SPECIFICATION Spec
CONSTANTS
  near = near
  far = far
  one = one
  two = two
  tar = tar
  Clients <- MCClients
  Ssh <- MCSsh
  Singles <- MCSingles
  Owner <- MCOwner
  Archives <- MCArchives
  Packed <- MCPacked
  MaxFaults = 1
  BlockLen = 2
  ChunkLen = 1
  SizeMax = 15
INVARIANTS TypeOK HandledIsKnown WaitsForUnreadable LoggedIsStored BlocksFirst
PROPERTY Delivered
