SPECIFICATION Spec
CONSTANTS
  b1 = b1  b2 = b2
  Browsers = {b1, b2}
  Quitters = {}
  Reloaders = {b1, b2}
  MaxFaults = 1
  ReloadCost = 1
  MaxOffers = 4
  Expires = FALSE
PROPERTIES
  OffersAreSent
CHECK_DEADLOCK FALSE
