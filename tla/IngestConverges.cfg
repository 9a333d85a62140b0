SPECIFICATION FairSpec
CONSTANTS
  Keys <- MCKeys
  MaxVersion = 2
  Captures <- MCCaptures
  Content <- MCContent
  Pos <- MCPos
  Textual <- MCTextual
  Urls <- MCUrls
  Surts = {"a", "b"}
  Hosts = {"a", "b", "b."}
  Stamps = {1, 2}
  Url <- MCUrl
  Stamp <- MCStamp
  to_surt <- MCto_surt
  UrlHost <- MCUrlHost
  Host <- MCHost
  SkipLists <- MCLists
  RunKinds = {"normal", "force"}
  NoKey = NoKey
  NoRow = NoRow
  MaxFaults = 1
INVARIANTS
  CdxClean
  PurgeComplete
  CapturesComeBack
PROPERTY
  EventuallyIndexed
