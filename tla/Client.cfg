\* The GUI and a thread that tunes.  The client is closed in the end.
SPECIFICATION FairSpec
CONSTANTS
  gui = gui
  tuner = tuner
  Callers = {gui, tuner}
  Gui = gui
  Commands = {"frequency", "ui"}
  MaxRequests = 2
  MaxPushes = 1
  MaxQueue = 1
INVARIANTS WaitersAccounted PushedStateNotLost UsableMeansAccepted
PROPERTIES DeadLinkDetected CloseReturns
CHECK_DEADLOCK FALSE
