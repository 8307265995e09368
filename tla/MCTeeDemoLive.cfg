CONSTANTS
  RETENTION = 2
  NoNonce = NoNonce
  BadNonce = BadNonce
  DefaultNonce = DefaultNonce
  StaleNonce = StaleNonce
  RotationNonce = RotationNonce
  WorkerNonce = WorkerNonce
  PubkeyNonce = PubkeyNonce
  Measurements = {mr1}
  STALE_THRESHOLD_SECS = 0
  Faults = {"crash", "write", "quote", "clock"}
  MaxKeys = 4
  MaxAttests = 9
  MaxBoots = 1
  MaxTime = 1
  MaxWorkerRounds = 1
  Clients <- MixedClients
  Command <- MixedCommand
SPECIFICATION FairSpec
PROPERTIES
  EveryCommandEnds
  AttestationGoesOn
CHECK_DEADLOCK FALSE
