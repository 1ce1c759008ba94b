\* One thread whose first request times out before it is answered.
SPECIFICATION Spec
CONSTANTS
  gui = gui
  tuner = tuner
  Callers = {gui}
  Gui = gui
  Commands = {"action"}
  MaxRequests = 2
  MaxPushes = 1
  MaxQueue = 1
INVARIANTS AckAnswersRequest
CHECK_DEADLOCK FALSE
