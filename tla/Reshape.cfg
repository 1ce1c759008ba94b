\* Frames of one or three samples over a ring of three.  The block may be left
\* stopped, and a stop may hang (see StopReturns).
SPECIFICATION FairSpec
CONSTANTS
  Size = 3
  Keeps = {1, 3}
  Skips <- MCSkips
  Latencies <- MCLatencies
  Attenuated = TRUE
  MaxPacket = 2
  MaxSamples = 5
INVARIANTS SlotsAccounted FrameStride
PROPERTIES RingIsQueue PacketsPass
CHECK_DEADLOCK FALSE
