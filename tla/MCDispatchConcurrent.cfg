SPECIFICATION Spec
CONSTANTS
  Orders = {o1}
  Slots = {s1, s2}
  Drivers = {d1}
  Directory = {d1}
  NoDriver = NoDriver
  NoRow = NoRow
  NoEntry = NoEntry
  MaxAttempts = 1
  ParkLimit = 50
  MaxRetries = 1
  MaxOffers = 1
  MaxToggles = 1
  MaxDups = 1
  MaxFaults = 0
  MaxCrashes = 0
SYMMETRY SlotsAndOrders
INVARIANT SavedBeforeTold
PROPERTY EventAppliedOnce
CHECK_DEADLOCK FALSE
