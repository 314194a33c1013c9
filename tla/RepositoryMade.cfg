SPECIFICATION Spec
CONSTANTS
  plain = plain
  first = first
  second = second
  opened = opened
  locked = locked
  Inits <- MCInits
  Mounts <- MCMounts
  Ssh <- MCSsh
  Aes <- MCAes
  Passphrase <- MCPassphrase
  MaxFaults = 2
INVARIANTS TypeOK MountsOneRepository
PROPERTIES NothingOverwritten CreatedMounts
CHECK_DEADLOCK FALSE
