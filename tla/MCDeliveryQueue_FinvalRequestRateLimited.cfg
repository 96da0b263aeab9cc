CONSTANTS
  QueueSize = 3
  MaxInst = 3
  k1 = k1
  k2 = k2
  nokey = nokey
  NetBound = 2
  ReqBound = 1
  Key <- MCKey
  NoKey <- nokey
  Decisions <- MCDecisions
SPECIFICATION Spec
CONSTRAINT InFlightBound
PROPERTY
  FinvalRequestRateLimited
