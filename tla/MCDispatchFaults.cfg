SPECIFICATION FairSpec
CONSTANTS
  Orders = {o1}
  Slots = {s1}
  Drivers = {d1}
  Directory = {d1}
  NoDriver = NoDriver
  NoRow = NoRow
  NoEntry = NoEntry
  MaxAttempts = 2
  ParkLimit = 50
  MaxRetries = 1
  MaxOffers = 2
  MaxToggles = 2
  MaxDups = 0
  MaxFaults = 2
  MaxCrashes = 1
INVARIANTS
  TypeOK
  NoEventLost
PROPERTIES
  EventAppliedOnce
  EventsSettle
  TimedOfferEnds
CHECK_DEADLOCK FALSE
