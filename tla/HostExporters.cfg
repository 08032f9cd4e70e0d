SPECIFICATION Spec
CONSTANTS
  Requests = {"r1", "r2", "r3"}
  Permits = 2
  Scrapes = {"s1", "s2"}
  Configs <- MCConfigs
  MaxTime = 3
  Domains <- MCDomains
  Sockets <- MCSockets
  Neighbors <- MCNeighbors
  Links <- MCLinks
  Flows <- MCFlows
  Rules <- MCRules
  SAs <- MCSAs
  States = {"LISTEN", "ESTABLISHED"}
  MaxEntries = 2
INVARIANTS
  TypeOK
  RelaySound
  OpenbaoResponses
  LibvirtScrapeRight
  HostSeriesSound
CHECK_DEADLOCK FALSE
