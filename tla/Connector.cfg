\* Three attempts, cancelled and shut down at any point.
SPECIFICATION FairSpec
CONSTANTS
  NoClient = NoClient
  MaxAttempts = 3
CHECK_DEADLOCK FALSE
INVARIANTS FlagTracksWorker ClientsAccounted
PROPERTIES CancelIsFinal AttemptEnds
