CONSTANTS
  RETENTION = 2
  Nonces = {n1}
  NoNonce = NoNonce
  BadNonce = BadNonce
  DefaultNonce = DefaultNonce
  StaleNonce = StaleNonce
  RotationNonce = RotationNonce
  Measurements = {mr1}
  STALE_THRESHOLD_SECS = 1
  Faults = {"crash"}
  MaxKeys = 2
  MaxAttests = 2
  MaxBoots = 2
  MaxTime = 1
SPECIFICATION Spec
INVARIANT KeysSurviveRestart
CHECK_DEADLOCK FALSE
