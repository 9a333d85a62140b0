SPECIFICATION FairSpec
CONSTANTS
  Urls <- MCUrls
  Host <- MCHost
  Html = {"page"}
  Pdfs = {"pdf", "urn"}
  LinksOn <- MCLinksOn
  Retained = {"pdf"}
  Captured0 = {"urn", "page"}
  Patterns = {"own", "bad", "all"}
  Covers <- MCCovers
  Invalid = {"bad"}
  MatchesEmpty = {"all"}
  Lists <- MCLists
  MaxEdits = 1
  MaxClock = 2
  MaxFaults = 1
  None = None

  
PROPERTIES
  
  ExportComplete
  EventuallyExported
