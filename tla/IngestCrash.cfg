SPECIFICATION Spec
CONSTANTS
  Keys <- MCKeys
  MaxVersion = 2
  Captures <- MCCaptures
  Content <- MCContent
  Pos <- MCPos
  Textual <- MCTextual
  Urls <- MCUrls
  Surts = {"a", "b"}
  Hosts = {"a", "b", "b."}
  Stamps = {1, 2}
  Url <- MCUrl
  Stamp <- MCStamp
  to_surt <- MCto_surt
  UrlHost <- MCUrlHost
  Host <- MCHost
  SkipLists <- MCNoSkipList
  RunKinds = {"normal", "force", "file", "capped"}
  NoKey = NoKey
  NoRow = NoRow
  MaxFaults = 2
INVARIANTS
  TypeOK
  
  NoDuplicates
  HitsResolve
