SPECIFICATION FairSpec
CONSTANTS
  Objects <- MCObjects
  Capacity = 2
  MaxChunk = 4
  MaxHeader = 4
  SlackGz = 10
  SlackPlain = 3
  Breaks = TRUE
INVARIANTS
  RowsAreCaptures
  FetchFinds
PROPERTY
  Finishes
CHECK_DEADLOCK FALSE
