SPECIFICATION MCSpec
CONSTANTS
  k1 = k1
  k2 = k2
  Clicks = {k1, k2}
  EnvKeys = {"none", "pair", "mismatch"}
  Disks = {"durable", "unwritable", "failing"}
  MaxKeys = 2
  MaxCards = 2
  MaxRooms = 1
  t1 = t1
  t2 = t2
  n1 = n1
  n2 = n2
  e1 = e1
  e2 = e2
  Tabs = {t1, t2}
  Names = {n1, n2}
  Cards = {e1, e2}
  MaxSaves = 3
SYMMETRY MCSymmetry
INVARIANTS OneKey CallerIsToldTruth LostByMishapOnly OneEach
CHECK_DEADLOCK FALSE
