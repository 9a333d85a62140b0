SPECIFICATION Spec
CONSTANTS
  Caps <- MCCaps
  Url <- MCUrl
  Stamp <- MCStamp
  Digest <- MCDigest
  Kind <- MCKind
  Objs <- MCObjs
  Content <- MCContent
  Shape <- MCShape
  Coll <- MCColl
  Long = {}
  Configured = {"warc", "pdfs"}
  Tika = TRUE
  Indexed <- MCIndexed
  MaxVersion = 2
  MaxReplace = 1
INVARIANTS
  
  HitLeads
PROPERTY
  RecompressKeeps
