CONSTANTS
  RETENTION = 2
  NoNonce = NoNonce
  BadNonce = BadNonce
  DefaultNonce = DefaultNonce
  StaleNonce = StaleNonce
  RotationNonce = RotationNonce
  WorkerNonce = WorkerNonce
  PubkeyNonce = PubkeyNonce
  Measurements = {mr1}
  STALE_THRESHOLD_SECS = 0
  Faults = {"crash", "write", "quote"}
  MaxKeys = 4
  MaxAttests = 9
  MaxBoots = 2
  MaxTime = 2
  MaxWorkerRounds = 1
  Clients <- RotatingClients
  Command <- RotatingCommand
SPECIFICATION Spec
INVARIANTS
  HostTypeOK
  NeverMismatched
  FramesAreNotDiscarded
  BundleIsCurrent
  CalcOutcome
CHECK_DEADLOCK FALSE
