CONSTANTS
  QueueSize = 2
  MaxInst = 3
  k1 = k1
  k2 = k2
  nokey = nokey
  NetBound = 1
  ReqBound = 2
  Key <- MCKey
  NoKey <- nokey
  Decisions <- MCDecisions
SPECIFICATION FairSpec
CONSTRAINT InFlightBound
PROPERTY
  GapsEventuallyFilled
