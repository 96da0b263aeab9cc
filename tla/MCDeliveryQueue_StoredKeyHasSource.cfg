CONSTANTS
  QueueSize = 3
  MaxInst = 3
  NetBound = 2
  ReqBound = 1
  k1 = k1
  k2 = k2
  nokey = nokey
  Key <- MCKey
  NoKey <- nokey
  Decisions <- MCDecisions
SPECIFICATION Spec
CONSTRAINT InFlightBound
INVARIANT StoredKeyHasSource
