SPECIFICATION FairSpec
CONSTANTS
  Keys <- MCKeys
  Digests <- MCDigests
  Kind <- MCMixed
  Start <- MCDistinct
  Seekable = {"k1", "k2"}
  Workers = {"w1", "w2"}
  Permits = 1
  MaxAttempts = 2
  KeepXhtml = FALSE
  IndexKinds = {"plain"}
  WorkerKinds = {"drain"}
  Limits = {"low"}
  None = None
  MaxReplace = 0
  MaxFaults = 1
INVARIANT
  TextIsOwn
PROPERTIES
  LeavesAnswered
  QueueDrains
