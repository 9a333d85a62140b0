SPECIFICATION Spec
CONSTANTS
  Objects <- MCObjects
  Capacity = 2
  MaxChunk = 4
  MaxHeader = 4
  SlackGz = 9
  SlackPlain = 3
  Breaks = TRUE
INVARIANT
  JobParses
CHECK_DEADLOCK FALSE
