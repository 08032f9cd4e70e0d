SPECIFICATION SnapshotsSpec
CONSTANTS
  Parts = {"zone1", "zone2"}
  Items = {0, 1, 2}
  PageSize = 1
  MaxPages = 2
  MaxChanges = 3
INVARIANT SnapshotsComplete
