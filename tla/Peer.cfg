SPECIFICATION FairSpec
CONSTANTS
  s1 = s1  s2 = s2  s3 = s3
  Senders = {s1, s2}
  Buffer = 2
  MaxSends = 3
INVARIANTS
  NoGap
  OneLateEach
PROPERTIES
  DeadIsClosed
  AcceptedIsSettled
