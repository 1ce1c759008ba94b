------------------------------ MODULE Reshaper ------------------------------
(***************************************************************************)
(* dsp::buffer::Reshaper: a block with two threads around a RingBuffer.    *)
(* The work thread reads packets of any size and writes them to the ring;  *)
(* the buffer worker reads _keep samples, skips _skip (or repeats -_skip   *)
(* of the previous frame when _skip is negative) and swaps the frame out.  *)
(* A control thread starts, stops and reconfigures the block.              *)
(*                                                                         *)
(* A sample is its number in the ring; in a frame it also has the number   *)
(* of times it was divided by ten, which is what the block does to the     *)
(* repeated samples of complex_t and stereo_t streams (float ones it       *)
(* repeats as they are).                                                   *)
(*                                                                         *)
(* The streams on either side are the one-packet channels that DspPipeline *)
(* shows them to be; their stop flags are set under the streams' mutexes.  *)
(***************************************************************************)
EXTENDS RingBuffer

CONSTANTS
  Keeps, Skips,  \* the values of _keep and _skip
  Attenuated,    \* T is complex_t or stereo_t
  MaxPacket      \* bound: samples in an input packet

Shapes == {s \in [keep : Keeps, skip : Skips] : s.keep + s.skip > 0 /\ -s.skip <= s.keep}

ASSUME ShapeAssumption ==
  /\ Keeps \subseteq Nat \ {0} /\ Skips \subseteq Int /\ Shapes # {}
  /\ Latencies = {2 * k : k \in Keeps}
  /\ Attenuated \in BOOLEAN /\ MaxPacket \in Nat \ {0}

VARIABLES
  shape,                       \* _keep and _skip
  running, ctl,                \* block state, and where the control thread is in doStop()
  inLen, inStop,               \* input stream: size of the packet in it (0: none), readerStop
  outFull, outStop,            \* output stream: a frame waits in it, writerStop
  skipping,                    \* the buffer worker is in readAndSkip()'s second loop
  frame,                       \* buf: the samples gathered so far
  tenths,                      \* and how often each was divided by ten
  fed,                         \* bound: samples fed into the input
  lastOut                      \* history: last sample of the previous frame, 0 if none

control == <<shape, running, ctl>>
streams == <<inLen, inStop, outFull, outStop, fed>>
framing == <<skipping, frame, tenths, lastOut>>
ring    == <<fill, reader, writer, stops, maxLatency>>
vars    == <<ring, control, streams, framing>>

TypeOK ==
  /\ RingTypeOK
  /\ shape \in Shapes /\ running \in BOOLEAN
  /\ ctl \in {"idle", "stopRing", "stopOut", "stopRingWriter", "join"}
  /\ inLen \in 0 .. MaxPacket /\ inStop \in BOOLEAN
  /\ outFull \in BOOLEAN /\ outStop \in BOOLEAN
  /\ skipping \in BOOLEAN /\ fed \in 0 .. MaxSamples
  /\ lastOut \in 0 .. MaxSamples
  /\ Len(frame) <= shape.keep

Init ==
  /\ RingInit
  /\ shape \in Shapes /\ maxLatency = 2 * shape.keep
  /\ running = FALSE /\ ctl = "idle"
  /\ inLen = 0 /\ inStop = FALSE /\ outFull = FALSE /\ outStop = FALSE
  /\ skipping = FALSE /\ frame = <<>> /\ tenths = <<>> /\ fed = 0 /\ lastOut = 0

-----------------------------------------------------------------------------
(* Work thread: loop() around run().                                       *)

\* _in->read(): a packet, or -1 when the input was stopped, which ends the
\* thread.
RunRead ==
  /\ wpc = "loop"
  /\ \/ inStop /\ wpc' = "off" /\ UNCHANGED wleft
     \/ ~inStop /\ inLen > 0 /\ wleft' = inLen /\ wpc' = "test"
  /\ UNCHANGED <<fill, reader, stops, maxLatency, toWrite, wseen, writec, buffer, written,
                 control, streams, framing>>

\* ringBuf.write() as far as the ring's own code goes.
RunWrite == WriteStep /\ UNCHANGED <<control, streams, framing>>

\* _in->flush(), whatever write() returned: what it did not write is lost.
RunFlush ==
  /\ wpc \in {"done", "failed"}
  /\ inLen' = 0 /\ wleft' = 0 /\ wpc' = "loop"
  /\ UNCHANGED <<fill, reader, stops, maxLatency, toWrite, wseen, writec, buffer, written,
                 control, inStop, outFull, outStop, fed, framing>>

-----------------------------------------------------------------------------
(* Buffer worker.                                                          *)

ReadCount == Least(shape.keep + shape.skip, shape.keep)

Divisions == IF Attenuated THEN 1 ELSE 0

\* Mutant: the front of the previous frame is repeated.
BufferLoopFront ==
  /\ rpc = "loop"
  /\ frame' = IF shape.skip < 0 THEN SubSeq(frame, 1, -shape.skip) ELSE <<>>
  /\ tenths' = IF shape.skip < 0 THEN [i \in 1 .. -shape.skip |-> tenths[i] + Divisions] ELSE <<>>
  /\ rleft' = ReadCount /\ rpc' = "test" /\ skipping' = FALSE
  /\ UNCHANGED <<fill, writer, stops, maxLatency, toRead, readc, control, streams, lastOut>>

\* Top of the loop: with a negative _skip the end of the previous frame is
\* moved to the front, and divided by ten.
BufferLoop ==
  /\ rpc = "loop"
  /\ frame' = IF shape.skip < 0 THEN SubSeq(frame, shape.keep + shape.skip + 1, shape.keep) ELSE <<>>
  /\ tenths' = IF shape.skip < 0
               THEN [i \in 1 .. -shape.skip |-> tenths[shape.keep + shape.skip + i] + Divisions]
               ELSE <<>>
  /\ rleft' = ReadCount /\ rpc' = "test" /\ skipping' = FALSE
  /\ UNCHANGED <<fill, writer, stops, maxLatency, toRead, readc, control, streams, lastOut>>

\* readAndSkip(): the steps both of its loops share.
BufferRead ==
  /\ LET next == IF skipping THEN "take" ELSE "copy"
     IN ReadTest(next) \/ ReadPred(next) \/ ReadSleep \/ ReadTake \/ ReadCredit \/ ReadAdvance
  /\ UNCHANGED <<control, streams, framing>>

\* The memcpys of readAndSkip()'s first loop.
BufferCopy ==
  /\ rpc = "copy"
  /\ frame' = frame \o [i \in 1 .. toRead |-> Slot(readc, i - 1)]
  /\ tenths' = tenths \o [i \in 1 .. toRead |-> 0]
  /\ rpc' = "take"
  /\ UNCHANGED <<fill, writer, stops, maxLatency, toRead, rleft, readc, control, streams,
                 skipping, lastOut>>

\* The second loop of readAndSkip() begins.
BufferSkip ==
  /\ rpc = "done" /\ ~skipping /\ shape.skip > 0
  /\ skipping' = TRUE /\ rleft' = shape.skip /\ rpc' = "test"
  /\ UNCHANGED <<fill, writer, stops, maxLatency, toRead, readc, control, streams, frame, tenths,
                 lastOut>>

\* out.swap(_keep); a stopped output ends the thread.
BufferSwap ==
  /\ rpc = "done" /\ (skipping \/ shape.skip <= 0)
  /\ \/ outStop /\ rpc' = "off" /\ UNCHANGED <<outFull, lastOut>>
     \/ ~outStop /\ ~outFull /\ outFull' = TRUE /\ rpc' = "loop" /\ lastOut' = frame[shape.keep]
  /\ UNCHANGED <<fill, writer, stops, maxLatency, toRead, rleft, readc, control, inLen, inStop,
                 outStop, fed, skipping, frame, tenths>>

BufferExit ==
  /\ rpc = "failed" /\ rpc' = "off" /\ rleft' = 0
  /\ UNCHANGED <<fill, writer, stops, maxLatency, toRead, readc, control, streams, framing>>

-----------------------------------------------------------------------------
(* Control thread.                                                         *)

\* start(), and tempStart(): both threads.  The new buf of the buffer worker
\* is not initialised (0).
Start ==
  /\ ctl = "idle" /\ ~running
  /\ running' = TRUE /\ wpc' = "loop" /\ rpc' = "loop"
  /\ frame' = [i \in 1 .. shape.keep |-> 0] /\ lastOut' = 0
  /\ tenths' = [i \in 1 .. shape.keep |-> 0]
  /\ UNCHANGED <<fill, toRead, rleft, readc, toWrite, wleft, wseen, writec, buffer, written,
                 stops, maxLatency, shape, ctl, streams, skipping>>

\* stop(), and tempStop(): doStop() in its order.
StopInput ==
  /\ ctl = "idle" /\ running
  /\ inStop' = TRUE /\ ctl' = "stopRing"
  /\ UNCHANGED <<ring, shape, running, inLen, outFull, outStop, fed, framing>>

StopRing ==
  /\ ctl = "stopRing" /\ StopReader /\ ctl' = "stopOut"
  /\ UNCHANGED <<shape, running, streams, framing>>

StopOutput ==
  /\ ctl = "stopOut"
  /\ outStop' = TRUE /\ ctl' = "stopRingWriter"
  /\ UNCHANGED <<ring, shape, running, inLen, inStop, outFull, fed, framing>>

StopRingWriter ==
  /\ ctl = "stopRingWriter" /\ StopWriter /\ ctl' = "join"
  /\ UNCHANGED <<shape, running, streams, framing>>

\* Both joins (buf was deleted with its thread), then the flags are cleared.
Join ==
  /\ ctl = "join" /\ wpc = "off" /\ rpc = "off"
  /\ ctl' = "idle" /\ running' = FALSE
  /\ inStop' = FALSE /\ outStop' = FALSE /\ stopReader' = FALSE /\ stopWriter' = FALSE
  /\ frame' = <<>> /\ tenths' = <<>> /\ lastOut' = 0 /\ skipping' = FALSE
  /\ UNCHANGED <<fill, reader, writer, maxLatency, shape, inLen, outFull, fed>>

\* setKeep() and setSkip() between tempStop() and tempStart().
SetShape ==
  /\ ctl = "idle" /\ ~running
  /\ \E s \in Shapes :
       /\ s # shape /\ (s.keep = shape.keep \/ s.skip = shape.skip)
       /\ shape' = s /\ maxLatency' = 2 * s.keep
  /\ UNCHANGED <<fill, reader, writer, stops, running, ctl, streams, framing>>

-----------------------------------------------------------------------------
(* The blocks on either side.                                              *)

Produce ==
  /\ inLen = 0
  /\ \E n \in 1 .. MaxPacket : fed + n <= MaxSamples /\ inLen' = n /\ fed' = fed + n
  /\ UNCHANGED <<ring, control, inStop, outFull, outStop, framing>>

Consume ==
  /\ outFull /\ outFull' = FALSE
  /\ UNCHANGED <<ring, control, inLen, inStop, outStop, fed, framing>>

WorkThread   == RunRead \/ RunWrite \/ RunFlush
BufferWorker == BufferLoop \/ BufferRead \/ BufferCopy \/ BufferSkip \/ BufferSwap \/ BufferExit
DoStop       == StopRing \/ StopOutput \/ StopRingWriter \/ Join

Next == WorkThread \/ BufferWorker \/ DoStop \/ Start \/ StopInput \/ SetShape \/ Produce \/ Consume

Spec == Init /\ [][Next]_vars

\* Threads that can run do, and the block downstream reads.
Fairness == WF_vars(WorkThread) /\ WF_vars(BufferWorker) /\ WF_vars(DoStop) /\ WF_vars(Consume)

FairSpec == Spec /\ Fairness

-----------------------------------------------------------------------------
(* Properties of the block; SlotsAccounted and RingIsQueue are those of    *)
(* its ring.                                                               *)

\* Frames leave at the exact stride: each holds consecutive samples of the
\* ring and ends _keep + _skip samples after the one before it, whatever the
\* sizes of the packets, the runs and the wrap-around they were gathered over;
\* the uninitialised start of buf (0) leaves in the first frame at most, if the
\* frames overlap by no more than half.  A sample that was read for this frame
\* leaves as it is in the ring; of a complex_t or stereo_t stream one that the
\* frame repeats is divided by ten once more than the sample a stride after it,
\* so once for every frame it was in before (reshaper.h:113-126).
FrameStride ==
  rpc = "done" /\ (skipping \/ shape.skip <= 0) =>
    /\ Len(frame) = shape.keep
    /\ \A i \in 1 .. shape.keep - 1 : frame[i] # 0 => frame[i + 1] = frame[i] + 1
    /\ lastOut # 0 => frame[shape.keep] = lastOut + shape.keep + shape.skip
    /\ lastOut # 0 /\ ReadCount >= -shape.skip => \A i \in 1 .. shape.keep : frame[i] # 0
    /\ \A i \in 1 .. shape.keep : frame[i] # 0 =>
         tenths[i] = IF Attenuated /\ i <= -shape.skip
                     THEN tenths[i + shape.keep + shape.skip] + 1 ELSE 0

\* A packet handed to a running reshaper is taken from its input, unless the
\* block is stopped: neither thread misses the other's wake-up and they never
\* wait for each other, at the latency limit and at a full ring alike.
PacketsPass == inLen > 0 /\ running ~> inLen = 0 \/ inStop

\* doStop() returns.
StopReturns == ctl # "idle" ~> ctl = "idle"
=============================================================================
