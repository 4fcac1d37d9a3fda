SPECIFICATION HttpSpec
CONSTANTS
  Drivers = {d1, d2, d3}
  NoDriver = NoDriver
  Stranger = Stranger
  Misnamed = Misnamed
  MaxAttempts = 2
  MaxOffers = 3
SYMMETRY Symmetry
INVARIANTS
  HttpTypeOK
  OneDriverTold
  FailedOnlyWhenExhausted
  OffersInOrder
  ClientAndBusAgree
  OneRequestAssigns
  DriverFindsHisOffer
  OnlyInvolvedRead
  DocumentedAnswers
PROPERTIES
  HistoryIsFinal
  ImplementsLifecycle
CHECK_DEADLOCK FALSE
