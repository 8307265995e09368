CONSTANTS
  RETENTION = 2
  Nonces = {n1}
  NoNonce = NoNonce
  BadNonce = BadNonce
  DefaultNonce = DefaultNonce
  StaleNonce = StaleNonce
  RotationNonce = RotationNonce
  Measurements = {mr1, mr2}
  STALE_THRESHOLD_SECS = 0
  Faults = {"crash", "write", "read", "quote", "frame", "rebuild", "clock"}
  MaxKeys = 4
  MaxAttests = 2
  MaxBoots = 2
  MaxTime = 2
SPECIFICATION Spec
INVARIANTS
  TypeOK
  SealedBeforeExposed
  VersionNamesOneKey
  ExposedKeysDecrypt
  DiskAgreesWhenIdle
  ComputeAfterAttestation
  IInv
PROPERTY ImplementsLedger
CHECK_DEADLOCK FALSE
