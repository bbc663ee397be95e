SPECIFICATION FairSpec
CONSTANTS
  b1 = b1  b2 = b2
  Browsers = {b1, b2}
  Quitters = {b1}
  Reloaders = {b1, b2}
  MaxFaults = 2
  ReloadCost = 2
  MaxOffers = 4
  Expires = TRUE
INVARIANTS
  RetriesUnlessTerminal
  NoGlare
PROPERTIES
  Settles
CHECK_DEADLOCK FALSE
