CONSTANTS
  Concurrent = 2
  QueueLength = 1
  PipeBound = 1
  v1 = v1
  v2 = v2
  v3 = v3
  v4 = v4
  novalue = novalue
  Value <- MCValue
  NoValue <- novalue
SPECIFICATION FairSpec
CONSTRAINT PipelineBound
INVARIANTS
  TypeOK
  PendingExactlyUndelivered
PROPERTY
  EveryValueDelivered
