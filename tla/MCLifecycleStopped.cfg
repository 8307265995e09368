SPECIFICATION FairSpec
CONSTANTS
  MaxProcs = 1
  MaxFailures = 0
  MaxKeys = 1
  Commands = {"start", "stop"}
  Careful = FALSE
CHECK_DEADLOCK FALSE
PROPERTIES StoppedMeansStopped
