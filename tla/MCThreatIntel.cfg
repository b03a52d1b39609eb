SPECIFICATION ThreatSpec
CONSTANTS
  p1 = p1
  p2 = p2
  k1 = k1
  NoKey = NoKey
  NoPayload = NoPayload
  Clients = {p1, p2}
  Keys = {k1}
  GatewaySources <- ThroughHq
  Payloads <- HqPayloads
  MaxKeyChanges = 1
  Published <- TwoPublications
  Configurations <- DeviceConfigurations
  MaxUpdates = 2
  MaxDeaths = 1
  Block = 3
  Names = {"a.hdb", "b.hdb", "info", "copying"}
  Symbols = {"lead", "trail", "w", "x", "y", "z", "nl", "bad"}
  Leads = {"lead"}
  Trails = {"trail"}
  MaximumBytes = 4
  Archives <- FiveArchives
  RequestedFiles = {"a.hdb", "b.hdb"}
INVARIANTS
  IntelTypeOK
  ReadersSeeWholeFeeds
  OnlyUsableIndicators
  CacheIsOfCurrentKey
  WaitersAreAnswered
  ParsedIsTheArchive
PROPERTIES
  UpdateEnds
CHECK_DEADLOCK FALSE
