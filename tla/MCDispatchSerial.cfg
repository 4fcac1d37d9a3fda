SPECIFICATION Spec
CONSTANTS
  Orders = {o1, o2}
  Slots = {s1}
  Drivers = {d1, d2}
  Directory = {d2}
  NoDriver = NoDriver
  NoRow = NoRow
  NoEntry = NoEntry
  MaxAttempts = 2
  ParkLimit = 50
  MaxRetries = 3
  MaxOffers = 3
  MaxToggles = 1
  MaxDups = 0
  MaxFaults = 0
  MaxCrashes = 0
SYMMETRY SlotsAndOrders
INVARIANTS
  NoDriverLost
  OneOrderPerDriver
  OfferHasTimer
  ToldAsSaved
PROPERTY EachOrderLives
CHECK_DEADLOCK FALSE
