SPECIFICATION Spec
CONSTANTS
  Orders = {o1}
  Slots = {s1, s2}
  Drivers = {d1}
  Directory = {}
  NoDriver = NoDriver
  NoRow = NoRow
  NoEntry = NoEntry
  MaxAttempts = 2
  ParkLimit = 50
  MaxRetries = 3
  MaxOffers = 3
  MaxToggles = 1
  MaxDups = 0
  MaxFaults = 0
  MaxCrashes = 0
INVARIANT AssignedToldOnce
CHECK_DEADLOCK FALSE
