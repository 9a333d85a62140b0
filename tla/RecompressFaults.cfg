SPECIFICATION FairSpec
CONSTANTS
  Keys <- MCKeys
  Sources <- MCSources
  Start <- MCStart
  Members <- MCMembers
  Records <- MCRecords
  Cut = {"cut"}
  Odd = {}
  Long = {"whole", "cut"}
  Size <- MCSize
  Stem <- MCStem
  Modes <- MCModes
  Jobs = 2
  Limit = 1
  Attempts = 2
  None = None
  MaxReplace = 1
  MaxFaults = 1
INVARIANT
  OriginalKept

  
