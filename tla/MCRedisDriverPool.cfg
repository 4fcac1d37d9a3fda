SPECIFICATION Spec
CONSTANTS
  Drivers = {d1, d2, d3}
  MaxTime = 3
SYMMETRY Symmetry
INVARIANTS
  TypeOK
  QueueIsFreeDrivers
PROPERTY ImplementsPort
