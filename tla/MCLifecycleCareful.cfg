SPECIFICATION FairSpec
CONSTANTS
  MaxProcs = 4
  MaxFailures = 2
  MaxKeys = 3
  Commands = {"start", "stop", "attest"}
  Careful = TRUE
CHECK_DEADLOCK FALSE
INVARIANTS OneEnclave ServiceIsWhole ServedKeysAreSealed StopLeavesNothing
PROPERTIES StoppedMeansStopped
