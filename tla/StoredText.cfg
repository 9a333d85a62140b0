SPECIFICATION Spec
CONSTANTS
  Documents <- MCDocuments
  Codings <- MCCodings
  ChunkSizes = {2, 15}
  Answers <- MCAnswers
  MaxText = 8
  MaxDecoded = 40
  MaxPdf = 3
  MaxLine = 4
  MinText = 2
  Links <- MCLinks
  None = None
INVARIANTS
  PayloadIsContent
  CutKeepsPrefix
  
  RunIsSubset
  
  ScanFindsNoise
CHECK_DEADLOCK FALSE
