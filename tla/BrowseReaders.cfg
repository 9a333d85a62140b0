SPECIFICATION Spec
CONSTANTS
  Caps <- MCCaps
  Order <- MCOrder
  Name <- MCName
  Path <- MCPath
  Original <- MCOriginal
  Stamp <- MCStamp
  Horizon = 3
  Good <- MCGood
  Digest <- MCDigest
  Coll <- MCColl
  Configured = {"pdfs"}
  MaxRows = 4
  CdxLimit = 2
  MaxPurges = 1
INVARIANTS
  RevisitIndexed
  CountsAgree
  Browsable
  PrefixIsHost
