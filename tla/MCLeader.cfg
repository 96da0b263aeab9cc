CONSTANTS
  SubmitBound = 2
  MaxInst = 3
  PreexecWindow = 3
  MaxActive = 2
  MaxP2PerIter = 2
  QueueLength = 2
  MaxBallot = 2
  RingBound = 2
  ReplyBound = 1
  k1 = k1
  k2 = k2
  k3 = k3
  nokey = nokey
  Key <- MCKey
  NoKey <- nokey
SPECIFICATION Spec
SYMMETRY KeySymmetry
CONSTRAINT InFlightBound SubmissionBound
INVARIANTS
  TypeOK
  ReadyCountTracksPreexecuted
  AcceptanceFollowsMapping
  EachSubmissionDecidedOnce
PROPERTIES
  ContiguousClose
