SPECIFICATION Spec
CONSTANTS
  Loops = {"access", "dns"}
  Datasets <- MCDatasets
  Collectors <- MCCollectors
  Recorders = {"access", "dns", "domain"}
  MaxClock = 3
  Leases = {3, 21}
  MaxBackoff = 8
INVARIANTS
  TypeOK
  ShutdownInOrder
  DiscoverySound
  GlobalIsWorst
  LeaseSound
PROPERTIES
  ProcessEnds
  LeaseRecovers
CHECK_DEADLOCK FALSE
