CONSTANTS
  w1 = w1
  w2 = w2
  Workers <- TheWorkers
  TAs <- TheTAs
  CAs <- TheCAs
  Point <- ThePoint
  Https = {"rrdp"}
  Above <- TheAbove
  Files <- TheFiles
  Revoked <- TheRevoked
  Issuer <- TheIssuer
  Number <- TheNumber
  Uri <- TheUri
  Versions <- TheVersions
  MaybeBad <- TheMaybeBad
  OldData <- TheOldData
  Chunks <- TheChunks
  MaxTroubles = 1
SPECIFICATION FairWalk
INVARIANTS WalkComplete FreshScan FetchesAreShared
PROPERTIES WalkEnds
CHECK_DEADLOCK FALSE
