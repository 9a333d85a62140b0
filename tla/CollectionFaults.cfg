SPECIFICATION FairSpec
CONSTANTS
  Objs <- MCObjs
  Key <- MCKey
  Colls <- MCColls
  Pdf = {"a", "b", "c"}
  Blacklisted = {}
  Text <- MCText
  None = None
  MaxVersion = 2
  MaxFaults = 2
  CommitFails = FALSE
INVARIANTS
  SeenIsDone
  OneDocument
PROPERTY
  EventuallySearchable
