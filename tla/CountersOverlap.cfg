SPECIFICATION Spec
CONSTANTS
  Sources = {"zone1", "zone2"}
  Minute = 2
  Delay = 6
  Window = 8
  Interval = 3
  ByMinute = TRUE
  Landing = 6
  MaxDuration = 1
  MaxLate = 1
  MaxFaults = 1
  MaxTime = 29
INVARIANTS TypeOK CountedOnce NothingSkipped CountedWhole
