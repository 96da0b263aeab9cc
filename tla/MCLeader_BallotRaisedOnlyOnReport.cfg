CONSTANTS
  SubmitBound = 1
  MaxInst = 2
  PreexecWindow = 2
  MaxActive = 2
  MaxP2PerIter = 2
  QueueLength = 2
  MaxBallot = 3
  RingBound = 2
  ReplyBound = 1
  k1 = k1
  k2 = k2
  k3 = k3
  nokey = nokey
  Key <- MCKey
  NoKey <- nokey
SPECIFICATION Spec
SYMMETRY KeySymmetry
CONSTRAINT InFlightBound SubmissionBound
PROPERTY
  BallotRaisedOnlyOnReport
