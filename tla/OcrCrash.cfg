SPECIFICATION Spec
CONSTANTS
  Keys <- MCKeys
  Digests <- MCDigests
  Kind <- MCPages
  Start <- MCTwice
  Seekable = {"k1"}
  Workers = {"w1"}
  Permits = 1
  MaxAttempts = 2
  KeepXhtml = TRUE
  IndexKinds = {"plain", "force"}
  WorkerKinds = {"drain", "prefill"}
  Limits = {"low"}
  None = None
  MaxReplace = 1
  MaxFaults = 1
INVARIANTS
  TypeOK
  NoLostJob
  SeenIsAccounted
PROPERTY
  ImplementsJobLife
