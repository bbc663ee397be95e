SPECIFICATION MCSpec
CONSTANTS
  Refused = Refused
  Invalid = Invalid
  RecordSize = 5
  KeyLen = 3
  Unset = Unset
  Garbage = Garbage
  NaN = NaN
  Inf = Inf
  NegInf = NegInf
  Second = 2
  MaxLines = 3
  MaxBytes = 4
  k1 = k1
  n1 = n1
  Environments <- MCEnvironments
  Refreshes <- MCRefreshes
  Nonces <- MCNonces
  LastTick = 8
INVARIANTS TunedDescriptionsAgree RelaysCleanly PushSurvives  
CHECK_DEADLOCK FALSE
