SPECIFICATION Spec
CONSTANTS
  k1 = k1  k2 = k2  c1 = c1  c2 = c2
  Keys = {k1, k2}
  Callers = {c1, c2}
  Cost = 2
  Burst = 3
  Margin = 2
  Delay = 1
  MaxTime = 7
SYMMETRY MCSymmetry
INVARIANTS
  Quota
PROPERTIES
  SweepInvisible
  IdleIsAdmitted
