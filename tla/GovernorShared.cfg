SPECIFICATION FairSpec
CONSTANTS
  Critical = {"gateway_dns"}
  Standard = {"dns"}
  Background = {"zone_status"}
  Ceiling = 6
  Window = 1
  Slots = {1, 2, 3, 4, 5, 6, 7, 8, 9}
  Zones = 1
  Backoffs = {0, 2}
  Reported = {0, 3}
INVARIANTS TypeOK OvershootBounded ReserveKept
PROPERTY BudgetReturns
