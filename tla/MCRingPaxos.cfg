CONSTANTS
  SubmitBound = 1
  MaxInst = 2
  PreexecWindow = 2
  MaxActive = 1
  MaxP2PerIter = 1
  QueueLength = 1
  MaxBallot = 1
  NumAcceptors = 3
  Quorum = 2
  MaxInc = 2
  RingBound = 1
  ReplyBound = 2
  k1 = k1
  k2 = k2
  nokey = nokey
  Key <- MCKey
  NoKey <- nokey
SPECIFICATION Spec
CONSTRAINT InFlightBound SubmissionBound
INVARIANTS
  TypeOK
  AnnouncedIsChosen
  VotedBallotPromisedByQuorum
PROPERTY
  ImplementsLeader
