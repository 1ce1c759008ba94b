\* doStop() of a reshaper that waits for samples.
SPECIFICATION FairSpec
CONSTANTS
  Size = 3
  Keeps = {1, 2}
  Skips <- MCSkips
  Latencies <- MCLatencies
  Attenuated = TRUE
  MaxPacket = 2
  MaxSamples = 2
PROPERTIES StopReturns
CHECK_DEADLOCK FALSE
