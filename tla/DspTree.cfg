\* source -> splitter -> {sink, multirate processor -> sink}, all started in
\* any order; the splitter is stopped, paused and restarted at will.
SPECIFICATION FairSpec
CONSTANTS
  src = src
  spl = spl
  proc = proc
  snk = snk
  snk2 = snk2
  s1 = s1
  s2 = s2
  s3 = s3
  s4 = s4
  NoStream = NoStream
  Blocks = {src, spl, proc, snk, snk2}
  Streams = {s1, s2, s3, s4}
  In <- TreeIn
  Outs <- TreeOuts
  Splitters = {spl}
  Multirate = {proc}
  Stoppable = {spl}
  MaxItems = 2
  MaxDepth = 2
INVARIANTS BufferStable NoTerminate QuietWhenStopped
PROPERTIES InOrder StreamsAreChannels StopReturns Drains
