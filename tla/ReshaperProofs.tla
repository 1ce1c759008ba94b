---------------------------- MODULE ReshaperProofs ----------------------------
(***************************************************************************)
(* Reshaper and its RingBuffer for every ring size, frame shape, latency   *)
(* limit and packet size: the two threads never touch the same slot, the   *)
(* ring is a queue, the frames leave at the exact stride, and no thread    *)
(* misses the wake-up the other owes it.                                   *)
(***************************************************************************)
EXTENDS Reshaper, TLAPS

-----------------------------------------------------------------------------
(***************************************************************************)
(* The inductive invariant.                                                *)
(***************************************************************************)

\* A position within one lap of the ring, brought back into the ring.
Wrap(x) == IF x < Size THEN x ELSE x - Size

\* Where the samples that may be taken begin, and where the published ones
\* end: a run counts as soon as readable was changed for it.
ReadPos == Wrap(IF rpc \in {"credit", "advance"} THEN readc + toRead ELSE readc)
WritePos  == Wrap(IF wpc \in {"debit", "advance"} THEN writec + toWrite ELSE writec)

Transferring == {"copy", "take", "credit", "advance"}
Waiting      == {"test", "pred", "sleeping", "asleep"}
Storing      == {"copy", "publish", "debit", "advance"}

\* The control thread changes the shape of a stopped block only.
CtlInv ==
  /\ ~running => ctl = "idle" /\ wpc = "off" /\ rpc = "off" /\ frame = <<>>
  /\ maxLatency = 2 * shape.keep

\* The run the reader transfers is readable until readable is debited.
ReadInv ==
  /\ rpc \in Transferring => 1 <= toRead /\ toRead <= rleft
  /\ rpc \notin Transferring => toRead = 0
  /\ rpc \in {"copy", "take"} => toRead <= readable
  /\ rpc \in Waiting => 1 <= rleft
  /\ rpc = "done" => rleft = 0

\* The run the writer transfers has room until writable is debited for it,
\* although the writer computed the room from two reads at two times.
WriteInv ==
  /\ wpc \in Storing => 1 <= toWrite /\ toWrite <= wleft
  /\ wpc \notin Storing => toWrite = 0
  /\ wpc \in {"copy", "publish", "debit"} => toWrite <= writable
  /\ wpc \in {"copy", "publish"} => readable + toWrite <= maxLatency
  /\ wpc \in Waiting \cup {"room"} => 1 <= wleft
  /\ wpc = "room" => wseen <= writable

\* Samples that are still to be copied into the ring.
ToCopy ==
  IF wpc \in {"off", "loop"} THEN inLen
  ELSE IF wpc \in Waiting \cup {"room", "copy"} THEN wleft
  ELSE IF wpc \in {"publish", "debit", "advance"} THEN wleft - toWrite
  ELSE 0

\* The two counters add up, and what is in the ring was fed.
FillInv ==
  /\ readable + writable
       = Size - (IF rpc = "credit" THEN toRead ELSE 0) + (IF wpc = "debit" THEN toWrite ELSE 0)
  /\ readable <= Published
  /\ written + ToCopy <= fed

\* The published samples fill the slots between the two positions, in order;
\* the copied run follows them.
SlotInv ==
  /\ WritePos = Wrap(ReadPos + readable)
  /\ \A i \in 0 .. Size - 1 :
       i < readable => buffer[Wrap(ReadPos + i)] = Published - readable + i + 1
  /\ wpc = "publish" =>
       \A i \in 0 .. Size - 1 : i < toWrite => buffer[Wrap(writec + i)] = Published + i + 1

RingInv == TypeOK /\ CtlInv /\ ReadInv /\ WriteInv /\ FillInv /\ SlotInv

\* Samples of the previous frame that a frame repeats.
Overlap == IF shape.skip < 0 THEN -shape.skip ELSE 0

\* Samples that readAndSkip()'s present loop has yet to put into the frame, or
\* to skip.
Rest ==
  IF rpc \in {"credit", "advance"} \/ (rpc = "take" /\ ~skipping) THEN rleft - toRead ELSE rleft

\* Samples taken from the ring.
Taken == Published - readable

\* The number of the last sample in the frame, if any sample was gathered.
LastSample ==
  IF skipping THEN Taken - (shape.skip - Rest)
  ELSE IF rpc = "take" THEN Taken + toRead
  ELSE Taken

InFrame == rpc \in Waiting \cup Transferring \cup {"done"}

\* The frame holds consecutive samples after the uninitialised ones, if any;
\* these are in the repeated part only.
FrameInv ==
  /\ frame \in Seq(Nat)
  /\ rpc = "copy" => ~skipping
  /\ InFrame /\ ~skipping => Len(frame) + Rest = shape.keep
  /\ InFrame /\ skipping => shape.skip > 0 /\ Len(frame) = shape.keep /\ Rest <= shape.skip
  /\ rpc = "loop" => Len(frame) = shape.keep
  /\ InFrame \/ rpc = "loop" =>
       \A i \in 1 .. Len(frame) : frame[i] # 0 /\ i < Len(frame) => frame[i + 1] = frame[i] + 1
  /\ InFrame =>
       /\ Len(frame) >= Overlap
       /\ \A i \in 1 .. Len(frame) : i > Overlap => frame[i] # 0
       /\ Len(frame) > 0 /\ frame[Len(frame)] # 0 => frame[Len(frame)] = LastSample
  /\ rpc = "loop" =>
       /\ lastOut = 0 => \A i \in 1 .. shape.keep : frame[i] = 0
       /\ lastOut # 0 =>
            /\ frame[shape.keep] = lastOut
            /\ lastOut = Taken - (IF shape.skip > 0 THEN shape.skip ELSE 0)
            /\ \A i \in 1 .. shape.keep : i > Overlap => frame[i] # 0

\* A frame ends where the stride says.
StrideInv ==
  InFrame /\ lastOut # 0 =>
    /\ LastSample = lastOut + Len(frame) + shape.skip
    /\ ReadCount >= -shape.skip => \A i \in 1 .. Len(frame) : frame[i] # 0

GatherInv == FrameInv /\ StrideInv

\* What was read for this frame is as it is in the ring; what the frame repeats
\* was divided once more than the sample a stride after it, which is repeated
\* too or was read for the frame before.
ScaleInv ==
  /\ tenths \in Seq(Nat) /\ Len(tenths) = Len(frame)
  /\ InFrame \/ rpc = "loop" =>
       \A i \in 1 .. Len(frame) :
         /\ ~Attenuated \/ i > Overlap => tenths[i] = 0
         /\ Attenuated /\ i <= Overlap /\ frame[i] # 0 =>
              tenths[i] = 1 + (IF i + ReadCount <= Overlap THEN tenths[i + ReadCount] ELSE 0)

IInv == RingInv /\ GatherInv

-----------------------------------------------------------------------------
(***************************************************************************)
(* The steps of the two threads, one by one.                               *)
(***************************************************************************)

AfterFound == IF skipping THEN "take" ELSE "copy"

Outside == UNCHANGED <<control, streams, framing>>

\* Every step is a step of one of the threads.
LEMMA NextCases ==
  ASSUME [Next]_vars
  PROVE  \/ RunRead \/ RunFlush
         \/ (WriteTest /\ Outside) \/ (WriteRoom /\ Outside) \/ (WritePred /\ Outside)
         \/ (WriteSleep /\ Outside) \/ (WriteCopy /\ Outside) \/ (WritePublish /\ Outside)
         \/ (WriteDebit /\ Outside) \/ (WriteAdvance /\ Outside)
         \/ BufferLoop \/ BufferCopy \/ BufferSkip \/ BufferSwap \/ BufferExit
         \/ (ReadTest(AfterFound) /\ Outside) \/ (ReadPred(AfterFound) /\ Outside)
         \/ (ReadSleep /\ Outside) \/ (ReadTake /\ Outside) \/ (ReadCredit /\ Outside)
         \/ (ReadAdvance /\ Outside)
         \/ Start \/ StopInput \/ StopRing \/ StopOutput \/ StopRingWriter \/ Join
         \/ SetShape \/ Produce \/ Consume \/ UNCHANGED vars
  BY DEF Next, WorkThread, RunWrite, WriteStep, BufferWorker, BufferRead, DoStop, AfterFound,
     Outside

\* Within two laps of the ring % is a subtraction.
LEMMA WrapMod ==
  ASSUME NEW x \in 0 .. 2 * Size - 1
  PROVE  x % Size = Wrap(x) /\ Wrap(x) \in 0 .. Size - 1
<1> USE SizeAssumption
<1>1. CASE x < Size
  BY <1>1 DEF Wrap
<1>2. CASE x >= Size
  BY <1>2 DEF Wrap
<1> QED
  BY <1>1, <1>2

\* ... and just below the ring an addition.
LEMMA DiffMod ==
  ASSUME NEW j \in 0 .. Size - 1, NEW w \in 0 .. Size - 1
  PROVE  (j - w) % Size = IF j >= w THEN j - w ELSE j - w + Size
<1> USE SizeAssumption
<1>1. CASE j >= w
  BY <1>1
<1>2. CASE j < w
  <2> DEFINE x == j - w
  <2>1. x \in - Size .. -1
    BY <1>2
  <2> HIDE DEF x
  <2>2. x % Size = x + Size
    BY <2>1
  <2> QED
    BY <2>2, <1>2 DEF x
<1> QED
  BY <1>1, <1>2

\* What the assumptions say of a shape.
LEMMA ShapeFacts ==
  ASSUME NEW s \in Shapes
  PROVE  /\ s.keep \in Nat /\ s.keep >= 1 /\ s.skip \in Int
         /\ s.keep + s.skip > 0 /\ - s.skip <= s.keep
         /\ 2 * s.keep \in Latencies
<1>1. s \in [keep : Keeps, skip : Skips] /\ s.keep + s.skip > 0 /\ - s.skip <= s.keep
  BY DEF Shapes
<1>2. s.keep \in Keeps /\ s.skip \in Skips
  BY <1>1
<1>3. 2 * s.keep \in Latencies
  BY <1>2, ShapeAssumption, Zenon
<1>4. s.keep \in Nat \ {0} /\ s.skip \in Int
  BY <1>2, ShapeAssumption, Zenon
<1> QED
  BY <1>1, <1>3, <1>4

\* Latency limits are numbers.
LEMMA LatencyFacts ==
  ASSUME TypeOK
  PROVE  maxLatency \in Nat
  BY LatencyAssumption DEF TypeOK, RingTypeOK

LEMMA LeastFacts ==
  ASSUME NEW a \in Nat, NEW b \in Nat
  PROVE  /\ Least(a, b) \in Nat /\ Least(a, b) <= a /\ Least(a, b) <= b
         /\ a >= 1 /\ b >= 1 => Least(a, b) >= 1
  BY DEF Least

\* The room for writing never exceeds what the counters leave.
LEMMA RoomFacts ==
  ASSUME TypeOK, NEW w \in Nat
  PROVE  /\ Room(w) \in Nat /\ Room(w) <= w
         /\ Room(w) # 0 => Room(w) >= 1 /\ readable + Room(w) <= maxLatency
<1>1. readable \in Nat /\ maxLatency \in Nat
  BY LatencyFacts, SizeAssumption DEF TypeOK, RingTypeOK
<1> QED
  BY <1>1 DEF Room, Least

\* A frame takes at least one sample from the ring.
LEMMA ReadCountFacts ==
  ASSUME shape \in Shapes
  PROVE  /\ ReadCount \in Nat /\ ReadCount >= 1
         /\ ReadCount + Overlap = shape.keep /\ Overlap \in Nat
  BY ShapeFacts DEF ReadCount, Least, Overlap

LEMMA MaxPacketFact == 0 \in 0 .. MaxPacket
<1>1. MaxPacket \in Nat \ {0}
  BY ShapeAssumption, Zenon
<1> QED
  BY <1>1

\* The repeated part of a frame.
LEMMA SkipLen ==
  ASSUME NEW f \in Seq(Nat), NEW k \in Nat, NEW s \in Int, Len(f) = k, k + s > 0, - s <= k
  PROVE  /\ s < 0 => /\ SubSeq(f, k + s + 1, k) \in Seq(Nat)
                     /\ Len(SubSeq(f, k + s + 1, k)) = - s
                     /\ \A i \in 1 .. - s : SubSeq(f, k + s + 1, k)[i] = f[k + s + i]
         /\ (IF s < 0 THEN SubSeq(f, k + s + 1, k) ELSE <<>>) \in Seq(Nat)
         /\ Len(IF s < 0 THEN SubSeq(f, k + s + 1, k) ELSE <<>>) <= k
  OBVIOUS

\* Slots hold sample numbers.
LEMMA SlotsNat ==
  ASSUME TypeOK, NEW n \in Nat
  PROVE  /\ [i \in 1 .. n |-> Slot(readc, i - 1)] \in Seq(Nat)
         /\ Len([i \in 1 .. n |-> Slot(readc, i - 1)]) = n
<1>1. ASSUME NEW i \in 1 .. n PROVE Slot(readc, i - 1) \in Nat
  BY SizeAssumption DEF Slot, TypeOK, RingTypeOK
<1> QED
  BY <1>1

\* The last sample of a complete frame was put into the ring.
LEMMA FrameEnd ==
  ASSUME IInv, rpc = "done", skipping \/ shape.skip <= 0
  PROVE  frame[shape.keep] \in 0 .. MaxSamples
<1> USE DEF IInv, RingInv, GatherInv
<1>1. /\ shape.keep \in Nat /\ shape.keep >= 1 /\ shape.skip \in Int
  BY ShapeFacts DEF TypeOK
<1>2. /\ frame \in Seq(Nat) /\ Len(frame) = shape.keep
      /\ frame[shape.keep] # 0 => frame[shape.keep] = LastSample
      /\ skipping => shape.skip > 0
  BY <1>1 DEF FrameInv, InFrame, Rest, ReadInv
<1>3. Rest = 0
  BY DEF Rest, ReadInv
<1>4. Published \in Int /\ Published <= MaxSamples /\ readable \in Nat
  BY SamplesAssumption DEF Published, WriteInv, Storing, TypeOK, RingTypeOK
<1>5. LastSample <= MaxSamples
  BY <1>1, <1>2, <1>3, <1>4, SamplesAssumption DEF LastSample, Taken
<1> QED
  BY <1>1, <1>2, <1>5, SamplesAssumption

\* The positions of the two threads are in the ring.
LEMMA PosFacts ==
  ASSUME TypeOK
  PROVE  ReadPos \in 0 .. Size - 1 /\ WritePos \in 0 .. Size - 1
  BY SizeAssumption DEF ReadPos, WritePos, Wrap, TypeOK, RingTypeOK

\* What write() leaves in a slot.
LEMMA FilledAt ==
  ASSUME TypeOK, NEW j \in 0 .. Size - 1, NEW d \in Int,
         d = IF j >= writec THEN j - writec ELSE j - writec + Size
  PROVE  Filled[j] = IF d < toWrite THEN written + d + 1 ELSE buffer[j]
<1>1. (j - writec) % Size = d
  BY DiffMod DEF TypeOK, RingTypeOK
<1> QED
  BY <1>1 DEF Filled

\* What the counters leave.
LEMMA FillFacts ==
  ASSUME RingInv
  PROVE  /\ readable \in Nat /\ writable \in Nat /\ toRead \in Nat /\ toWrite \in Nat
         /\ readable <= Size
         /\ wpc \in {"copy", "publish"} => readable + toWrite <= Size
         /\ rpc \in {"copy", "take"} => toRead <= readable
         /\ Published \in Nat /\ readable <= Published
  BY SizeAssumption DEF RingInv, ReadInv, WriteInv, FillInv, Published, Transferring, Storing,
     TypeOK, RingTypeOK

\* Only readable -= toRead takes samples from the ring.
LEMMA TakenNext ==
  ASSUME RingInv, [Next]_vars
  PROVE  \/ Taken' = Taken
         \/ rpc = "take" /\ rpc' = "credit" /\ Taken' = Taken + toRead
<1>1. CASE WriteCopy
  BY <1>1, FillFacts DEF WriteCopy, Taken, Published, fill, RingInv, TypeOK, RingTypeOK
<1>2. CASE WritePublish
  BY <1>2, FillFacts DEF WritePublish, Taken, Published, RingInv, TypeOK, RingTypeOK
<1>3. CASE ReadTake
  BY <1>3, FillFacts DEF ReadTake, Taken, Published, writer
<1>4. CASE /\ UNCHANGED <<readable, written>>
           /\ (wpc' = "publish" <=> wpc = "publish") /\ (wpc = "publish" => UNCHANGED toWrite)
  BY <1>4 DEF Taken, Published
<1>5. CASE Start
  BY <1>5 DEF Start, Taken, Published, fill, RingInv, CtlInv
<1> QED
  BY NextCases, <1>1, <1>2, <1>3, <1>4, <1>5 DEF RunRead, WriteTest, Outside, WriteRoom,
     WritePred, WriteSleep, WriteDebit, WriteAdvance, NotifyReader, RunFlush, BufferLoop,
     ReadTest, ReadPred, ReadSleep, ReadCredit, ReadAdvance, NotifyWriter, BufferCopy,
     BufferSkip, BufferSwap, BufferExit, StopInput, StopRing, StopReader, StopOutput,
     StopRingWriter, StopWriter, Join, SetShape, Produce, Consume, vars, fill, reader, writer,
     stops, control, streams, framing, ring

\* The frame does not change while the reader waits and counts.
LEMMA FrameKept ==
  ASSUME IInv, InFrame, InFrame', LastSample' = LastSample,
         Rest' = Rest \/ (skipping /\ Rest' <= shape.skip),
         UNCHANGED <<frame, shape, lastOut, skipping>>, rpc' = "copy" => ~skipping
  PROVE  GatherInv'
<1>1. rpc' # "loop"
  BY DEF InFrame, Waiting, Transferring
<1>2. UNCHANGED <<Overlap, ReadCount>>
  BY DEF Overlap, ReadCount
<1>3. FrameInv'
  BY <1>1, <1>2 DEF IInv, GatherInv, FrameInv
<1>4. StrideInv'
  BY <1>2 DEF IInv, GatherInv, StrideInv
<1> QED
  BY <1>3, <1>4 DEF GatherInv

\* ... and means nothing outside read().
LEMMA FrameIdle ==
  ASSUME frame' \in Seq(Nat), rpc' \in {"off", "failed"}
  PROVE  GatherInv'
  BY DEF GatherInv, FrameInv, StrideInv, InFrame, Waiting, Transferring

LEMMA ConcatFacts ==
  ASSUME NEW f \in Seq(Nat), NEW t \in Seq(Nat)
  PROVE  /\ f \o t \in Seq(Nat) /\ Len(f \o t) = Len(f) + Len(t)
         /\ \A i \in 1 .. Len(f) : (f \o t)[i] = f[i]
         /\ \A i \in Len(f) + 1 .. Len(f) + Len(t) : (f \o t)[i] = t[i - Len(f)]
  OBVIOUS

\* A frame of n samples, the first o of which are repeated, before and after a
\* run of m samples is put behind it; T samples were taken before.
Gathered(f, n, o, T) ==
  /\ n >= o
  /\ \A i \in 1 .. n : i > o => f[i] # 0
  /\ \A i \in 1 .. n : f[i] # 0 /\ i < n => f[i + 1] = f[i] + 1
  /\ n > 0 /\ f[n] # 0 => f[n] = T

Behind(g, f, n, m, T) ==
  /\ m >= 1
  /\ \A i \in 1 .. n : g[i] = f[i]
  /\ \A i \in 1 .. n + m : i > n => g[i] = T + (i - n)

LEMMA RunBehind ==
  ASSUME NEW n \in Nat, NEW m \in Nat, NEW T \in Nat, NEW o \in Nat, NEW f, NEW g,
         Gathered(f, n, o, T), Behind(g, f, n, m, T)
  PROVE  /\ Gathered(g, n + m, o, T + m)
         /\ (\A i \in 1 .. n : f[i] # 0) => \A i \in 1 .. n + m : g[i] # 0
<1> USE DEF Gathered, Behind
<1>1. ASSUME NEW i \in 1 .. n + m, g[i] # 0, i < n + m PROVE g[i + 1] = g[i] + 1
  <2>1. CASE i < n
    BY <1>1, <2>1
  <2>2. CASE i = n
    BY <1>1, <2>2
  <2>3. CASE i > n
    <3>1. g[i] = T + (i - n) /\ g[i + 1] = T + ((i + 1) - n)
      BY <1>1, <2>3
    <3> QED
      BY <3>1
  <2> QED
    BY <2>1, <2>2, <2>3
<1>2. ASSUME NEW i \in 1 .. n + m, i > n PROVE g[i] # 0
  BY <1>2
<1>3. g[n + m] = T + m
  OBVIOUS
<1> QED
  BY <1>1, <1>2, <1>3


\* The variables keep their types.
LEMMA TypeOKNext ==
  ASSUME IInv, [Next]_vars
  PROVE  TypeOK'
<1> USE SizeAssumption DEF IInv, RingInv, GatherInv
<1>1. CASE RunRead
  <2>1. wpc' \in WritePcs
    BY <1>1 DEF RunRead, Idle, WritePcs
  <2>2. wleft' \in Nat
    BY <1>1, ShapeAssumption DEF RunRead, TypeOK, RingTypeOK
  <2>3. UNCHANGED <<buffer, readc, writec, readable, writable, maxLatency, stopReader,
                    stopWriter, rpc, toRead, rleft, toWrite, wseen, written, shape, running,
                    ctl, inLen, inStop, outFull, outStop, skipping, frame, fed, lastOut>>
    BY <1>1 DEF RunRead, fill, reader, stops, control, streams, framing
  <2> QED
    BY <2>1, <2>2, <2>3 DEF TypeOK, RingTypeOK
<1>2. CASE WriteTest /\ Outside
  <2>1. wpc' \in WritePcs /\ wseen' \in 0 .. 2 * Size
    BY <1>2 DEF WriteTest, Idle, WritePcs, TypeOK, RingTypeOK
  <2>2. UNCHANGED <<buffer, readc, writec, readable, writable, maxLatency, stopReader,
                    stopWriter, rpc, toRead, rleft, toWrite, wleft, written, shape,
                    running, ctl, inLen, inStop, outFull, outStop, skipping, frame,
                    fed, lastOut>>
    BY <1>2 DEF WriteTest, Outside, fill, reader, stops, control, streams, framing
  <2> QED
    BY <2>1, <2>2 DEF TypeOK, RingTypeOK
<1>3. CASE WriteRoom /\ Outside
  <2>1. wseen \in Nat /\ wleft \in Nat /\ toWrite \in 0 .. Size
    BY DEF TypeOK, RingTypeOK
  <2>2. Room(wseen) \in Nat /\ (Room(wseen) # 0 => Room(wseen) <= wseen)
    BY <2>1, RoomFacts DEF TypeOK, RingTypeOK
  <2>3. Least(Room(wseen), wleft) \in Nat /\ Least(Room(wseen), wleft) <= Room(wseen)
    BY <2>1, <2>2, LeastFacts
  <2>4. wseen <= Size
    BY <1>3 DEF WriteRoom, WriteInv, FillInv, ReadInv, Transferring, Storing, TypeOK,
       RingTypeOK
  <2>5. toWrite' \in 0 .. Size
    BY <1>3, <2>1, <2>2, <2>3, <2>4, SizeAssumption DEF WriteRoom
  <2>6. wpc' \in WritePcs /\ wseen' \in 0 .. 2 * Size
    BY <1>3 DEF WriteRoom, Idle, WritePcs, TypeOK, RingTypeOK
  <2>7. UNCHANGED <<buffer, readc, writec, readable, writable, maxLatency, stopReader,
                    stopWriter, rpc, toRead, rleft, wleft, written, shape, running,
                    ctl, inLen, inStop, outFull, outStop, skipping, frame, fed,
                    lastOut>>
    BY <1>3 DEF WriteRoom, Outside, fill, reader, stops, control, streams, framing
  <2> QED
    BY <2>1, <2>2, <2>3, <2>4, <2>5, <2>6, <2>7 DEF TypeOK, RingTypeOK
<1>4. CASE WritePred /\ Outside
  <2>1. writable \in Nat /\ wleft \in Nat /\ toWrite \in 0 .. Size
    BY DEF TypeOK, RingTypeOK
  <2>2. Room(writable) \in Nat /\ (Room(writable) # 0 => Room(writable) <= writable)
    BY <2>1, RoomFacts DEF TypeOK, RingTypeOK
  <2>3. Least(Room(writable), wleft) \in Nat /\ Least(Room(writable), wleft) <= Room(writable)
    BY <2>1, <2>2, LeastFacts
  <2>4. writable <= Size
    BY <1>4 DEF WritePred, WriteInv, FillInv, ReadInv, Transferring, Storing, TypeOK,
       RingTypeOK
  <2>5. toWrite' \in 0 .. Size
    BY <1>4, <2>1, <2>2, <2>3, <2>4, SizeAssumption DEF WritePred
  <2>6. wpc' \in WritePcs /\ wseen' \in 0 .. 2 * Size
    BY <1>4 DEF WritePred, Idle, WritePcs, TypeOK, RingTypeOK
  <2>7. UNCHANGED <<buffer, readc, writec, readable, writable, maxLatency, stopReader,
                    stopWriter, rpc, toRead, rleft, wleft, wseen, written, shape,
                    running, ctl, inLen, inStop, outFull, outStop, skipping, frame,
                    fed, lastOut>>
    BY <1>4 DEF WritePred, Outside, fill, reader, stops, control, streams, framing
  <2> QED
    BY <2>1, <2>2, <2>3, <2>4, <2>5, <2>6, <2>7 DEF TypeOK, RingTypeOK
<1>5. CASE WriteSleep /\ Outside
  BY <1>5 DEF WriteSleep, Outside, fill, reader, stops, control, streams, framing, TypeOK,
     RingTypeOK, Idle, ReadPcs, WritePcs, ReadInv, WriteInv, FillInv, CtlInv, Waiting,
     Storing, Transferring
<1>6. CASE WriteCopy /\ Outside
  <2>1. /\ toWrite \in Nat /\ written + toWrite <= fed
        /\ fed <= MaxSamples /\ written \in Nat /\ fed \in Nat
    BY <1>6 DEF WriteCopy, FillInv, WriteInv, ToCopy, Storing, Waiting, TypeOK, RingTypeOK
  <2>2. ASSUME NEW j \in 0 .. Size - 1 PROVE Filled[j] \in 0 .. MaxSamples
    <3> DEFINE i == (j - writec) % Size
    <3>1. i \in Nat
      BY DiffMod DEF TypeOK, RingTypeOK
    <3>2. Filled[j] = IF i < toWrite THEN written + i + 1 ELSE buffer[j]
      BY DEF Filled
    <3> HIDE DEF i
    <3> QED
      BY <2>1, <3>1, <3>2, SamplesAssumption DEF TypeOK, RingTypeOK
  <2>3. Filled \in [0 .. Size - 1 -> 0 .. MaxSamples]
    BY <2>2 DEF Filled
  <2>4. written' \in 0 .. MaxSamples /\ wpc' \in WritePcs
    BY <1>6, <2>1, SamplesAssumption DEF WriteCopy, Idle, WritePcs
  <2>5. buffer' = Filled
    BY <1>6 DEF WriteCopy
  <2>6. UNCHANGED <<readc, writec, readable, writable, maxLatency, stopReader,
                    stopWriter, rpc, toRead, rleft, toWrite, wleft, wseen, shape,
                    running, ctl, inLen, inStop, outFull, outStop, skipping, frame,
                    fed, lastOut>>
    BY <1>6 DEF WriteCopy, Outside, fill, reader, stops, control, streams, framing
  <2> QED
    BY <2>3, <2>4, <2>5, <2>6 DEF TypeOK, RingTypeOK
<1>7. CASE WritePublish /\ Outside
  <2>1. wpc' \in WritePcs
    BY <1>7 DEF WritePublish, WritePcs
  <2>2. readable' \in 0 .. Size
    BY <1>7 DEF WritePublish, TypeOK, RingTypeOK, ReadInv, WriteInv, FillInv, Transferring
  <2>3. UNCHANGED <<buffer, readc, writec, writable, maxLatency, stopReader, stopWriter, rpc,
                    toRead, rleft, toWrite, wleft, wseen, written, shape, running, ctl, inLen,
                    inStop, outFull, outStop, skipping, frame, fed, lastOut>>
    BY <1>7 DEF WritePublish, Outside, reader, stops, control, streams, framing
  <2> QED
    BY <2>1, <2>2, <2>3 DEF TypeOK, RingTypeOK
<1>8. CASE WriteDebit /\ Outside
  BY <1>8 DEF WriteDebit, Outside, reader, stops, control, streams, framing, TypeOK,
     RingTypeOK, Idle, ReadPcs, WritePcs, ReadInv, WriteInv, FillInv, CtlInv, Waiting,
     Storing, Transferring
<1>9. CASE WriteAdvance /\ Outside
  BY <1>9 DEF WriteAdvance, NotifyReader, Outside, fill, stops, control, streams, framing,
     TypeOK, RingTypeOK, Idle, ReadPcs, WritePcs, ReadInv, WriteInv, FillInv, CtlInv, Waiting,
     Storing, Transferring
<1>10. CASE RunFlush
  <2>1. inLen' \in 0 .. MaxPacket /\ wleft' \in Nat /\ wpc' \in WritePcs
    BY <1>10, MaxPacketFact DEF RunFlush, Idle, WritePcs
  <2>2. UNCHANGED <<buffer, readc, writec, readable, writable, maxLatency, stopReader,
                    stopWriter, rpc, toRead, rleft, toWrite, wseen, written, shape,
                    running, ctl, inStop, outFull, outStop, skipping, frame, fed,
                    lastOut>>
    BY <1>10 DEF RunFlush, fill, reader, stops, control, framing
  <2> QED
    BY <2>1, <2>2 DEF TypeOK, RingTypeOK
<1>11. CASE BufferLoop
  <2>1. Len(frame') <= shape.keep
    <3>1. frame \in Seq(Nat) /\ Len(frame) = shape.keep
      BY <1>11 DEF BufferLoop, FrameInv
    <3>2. /\ shape.keep \in Nat /\ shape.skip \in Int
          /\ shape.keep + shape.skip > 0 /\ - shape.skip <= shape.keep
      BY ShapeFacts DEF TypeOK
    <3> QED
      BY <1>11, <3>1, <3>2, SkipLen DEF BufferLoop
  <2>2. rleft' \in Nat /\ rpc' \in ReadPcs
    BY <1>11, ReadCountFacts DEF BufferLoop, Idle, ReadPcs, TypeOK
  <2>3. skipping' \in BOOLEAN
    BY <1>11 DEF BufferLoop
  <2>4. UNCHANGED <<buffer, readc, writec, readable, writable, maxLatency, stopReader,
                    stopWriter, toRead, wpc, toWrite, wleft, wseen, written, shape,
                    running, ctl, inLen, inStop, outFull, outStop, fed, lastOut>>
    BY <1>11 DEF BufferLoop, fill, writer, stops, control, streams
  <2> QED
    BY <2>1, <2>2, <2>3, <2>4 DEF TypeOK, RingTypeOK
<1>12. CASE ReadTest(AfterFound) /\ Outside
  <2>1. toRead' \in 0 .. Size
    <3>1. readable \in Nat /\ readable <= Size /\ rleft \in Nat
      BY DEF TypeOK, RingTypeOK
    <3>2. Least(readable, rleft) \in Nat /\ Least(readable, rleft) <= readable
      BY <3>1, LeastFacts
    <3> QED
      BY <1>12, <3>1, <3>2 DEF ReadTest, Found, TypeOK, RingTypeOK
  <2>2. rpc' \in ReadPcs
    BY <1>12 DEF ReadTest, Found, AfterFound, Idle, ReadPcs, TypeOK, RingTypeOK
  <2>3. UNCHANGED <<buffer, readc, writec, readable, writable, maxLatency, stopReader,
                    stopWriter, rleft, wpc, toWrite, wleft, wseen, written, shape,
                    running, ctl, inLen, inStop, outFull, outStop, skipping, frame,
                    fed, lastOut>>
    BY <1>12 DEF ReadTest, AfterFound, Found, Outside, fill, writer, stops, control, streams,
       framing
  <2> QED
    BY <2>1, <2>2, <2>3 DEF TypeOK, RingTypeOK
<1>13. CASE ReadPred(AfterFound) /\ Outside
  <2>1. toRead' \in 0 .. Size
    <3>1. readable \in Nat /\ readable <= Size /\ rleft \in Nat
      BY DEF TypeOK, RingTypeOK
    <3>2. Least(readable, rleft) \in Nat /\ Least(readable, rleft) <= readable
      BY <3>1, LeastFacts
    <3> QED
      BY <1>13, <3>1, <3>2 DEF ReadPred, Found, TypeOK, RingTypeOK
  <2>2. rpc' \in ReadPcs
    BY <1>13 DEF ReadPred, Found, AfterFound, Idle, ReadPcs, TypeOK, RingTypeOK
  <2>3. UNCHANGED <<buffer, readc, writec, readable, writable, maxLatency, stopReader,
                    stopWriter, rleft, wpc, toWrite, wleft, wseen, written, shape,
                    running, ctl, inLen, inStop, outFull, outStop, skipping, frame,
                    fed, lastOut>>
    BY <1>13 DEF ReadPred, AfterFound, Found, Outside, fill, writer, stops, control, streams,
       framing
  <2> QED
    BY <2>1, <2>2, <2>3 DEF TypeOK, RingTypeOK
<1>14. CASE ReadSleep /\ Outside
  BY <1>14 DEF ReadSleep, Outside, fill, writer, stops, control, streams, framing, TypeOK,
     RingTypeOK, Idle, ReadPcs, WritePcs, ReadInv, WriteInv, FillInv, CtlInv, Waiting,
     Storing, Transferring
<1>15. CASE ReadTake /\ Outside
  BY <1>15 DEF ReadTake, Outside, writer, stops, control, streams, framing, TypeOK,
     RingTypeOK, Idle, ReadPcs, WritePcs, ReadInv, WriteInv, FillInv, CtlInv, Waiting,
     Storing, Transferring
<1>16. CASE ReadCredit /\ Outside
  BY <1>16 DEF ReadCredit, Outside, writer, stops, control, streams, framing, TypeOK,
     RingTypeOK, Idle, ReadPcs, WritePcs, ReadInv, WriteInv, FillInv, CtlInv, Waiting,
     Storing, Transferring
<1>17. CASE ReadAdvance /\ Outside
  BY <1>17 DEF ReadAdvance, NotifyWriter, Outside, fill, stops, control, streams, framing,
     TypeOK, RingTypeOK, Idle, ReadPcs, WritePcs, ReadInv, WriteInv, FillInv, CtlInv, Waiting,
     Storing, Transferring
<1>18. CASE BufferCopy
  <2>1. Len(frame') <= shape.keep
    <3>1. /\ frame \in Seq(Nat) /\ Len(frame) + rleft = shape.keep
          /\ toRead <= rleft /\ toRead \in Nat /\ rleft \in Nat
      BY <1>18 DEF BufferCopy, FrameInv, InFrame, Rest, Transferring, ReadInv, TypeOK,
         RingTypeOK
    <3> DEFINE t == [i \in 1 .. toRead |-> Slot(readc, i - 1)]
    <3>2. t \in Seq(Nat) /\ Len(t) = toRead
      BY <3>1, SlotsNat DEF TypeOK
    <3>3. frame' = frame \o t
      BY <1>18 DEF BufferCopy
    <3> HIDE DEF t
    <3> QED
      BY <3>1, <3>2, <3>3
  <2>2. rpc' \in ReadPcs
    BY <1>18 DEF BufferCopy, Idle, ReadPcs
  <2>3. UNCHANGED <<buffer, readc, writec, readable, writable, maxLatency, stopReader,
                    stopWriter, toRead, rleft, wpc, toWrite, wleft, wseen, written,
                    shape, running, ctl, inLen, inStop, outFull, outStop, skipping,
                    fed, lastOut>>
    BY <1>18 DEF BufferCopy, fill, writer, stops, control, streams
  <2> QED
    BY <2>1, <2>2, <2>3 DEF TypeOK, RingTypeOK
<1>19. CASE BufferSkip
  <2>1. rleft' \in Nat /\ rpc' \in ReadPcs
    BY <1>19, ShapeFacts DEF BufferSkip, Idle, ReadPcs, TypeOK
  <2>2. skipping' \in BOOLEAN
    BY <1>19 DEF BufferSkip
  <2>3. UNCHANGED <<buffer, readc, writec, readable, writable, maxLatency, stopReader,
                    stopWriter, toRead, wpc, toWrite, wleft, wseen, written, shape,
                    running, ctl, inLen, inStop, outFull, outStop, frame, fed, lastOut>>
    BY <1>19 DEF BufferSkip, fill, writer, stops, control, streams
  <2> QED
    BY <2>1, <2>2, <2>3 DEF TypeOK, RingTypeOK
<1>20. CASE BufferSwap
  <2>1. lastOut' \in 0 .. MaxSamples
    <3>1. frame[shape.keep] \in 0 .. MaxSamples
      BY <1>20, FrameEnd DEF BufferSwap
    <3> QED
      BY <1>20, <3>1 DEF BufferSwap, TypeOK
  <2>2. rpc' \in ReadPcs
    BY <1>20 DEF BufferSwap, Idle, ReadPcs
  <2>3. outFull' \in BOOLEAN
    BY <1>20 DEF BufferSwap, TypeOK
  <2>4. UNCHANGED <<buffer, readc, writec, readable, writable, maxLatency, stopReader,
                    stopWriter, toRead, rleft, wpc, toWrite, wleft, wseen, written,
                    shape, running, ctl, inLen, inStop, outStop, skipping, frame, fed>>
    BY <1>20 DEF BufferSwap, fill, writer, stops, control
  <2> QED
    BY <2>1, <2>2, <2>3, <2>4 DEF TypeOK, RingTypeOK
<1>21. CASE BufferExit
  BY <1>21 DEF BufferExit, fill, writer, stops, control, streams, framing, TypeOK, RingTypeOK,
     Idle, ReadPcs, WritePcs, ReadInv, WriteInv, FillInv, CtlInv, Waiting, Storing,
     Transferring
<1>22. CASE Start
  <2>1. Len(frame') <= shape.keep
    <3>1. shape.keep \in Nat
      BY ShapeFacts DEF TypeOK
    <3> QED
      BY <1>22, <3>1 DEF Start
  <2>2. lastOut' \in 0 .. MaxSamples
    BY <1>22, SamplesAssumption DEF Start
  <2>3. running' \in BOOLEAN
    BY <1>22 DEF Start
  <2>4. rpc' \in ReadPcs /\ wpc' \in WritePcs
    BY <1>22 DEF Start, Idle, ReadPcs, WritePcs
  <2>5. UNCHANGED <<buffer, readc, writec, readable, writable, maxLatency, stopReader,
                    stopWriter, toRead, rleft, toWrite, wleft, wseen, written, shape,
                    ctl, inLen, inStop, outFull, outStop, skipping, fed>>
    BY <1>22 DEF Start, fill, stops, streams
  <2> QED
    BY <2>1, <2>2, <2>3, <2>4, <2>5 DEF TypeOK, RingTypeOK
<1>23. CASE StopInput
  BY <1>23 DEF StopInput, fill, reader, writer, stops, framing, ring, TypeOK, RingTypeOK,
     Idle, ReadPcs, WritePcs, ReadInv, WriteInv, FillInv, CtlInv, Waiting, Storing,
     Transferring
<1>24. CASE StopRing
  BY <1>24 DEF StopRing, NotifyReader, StopReader, fill, writer, streams, framing, TypeOK,
     RingTypeOK, Idle, ReadPcs, WritePcs, ReadInv, WriteInv, FillInv, CtlInv, Waiting,
     Storing, Transferring
<1>25. CASE StopOutput
  BY <1>25 DEF StopOutput, fill, reader, writer, stops, framing, ring, TypeOK, RingTypeOK,
     Idle, ReadPcs, WritePcs, ReadInv, WriteInv, FillInv, CtlInv, Waiting, Storing,
     Transferring
<1>26. CASE StopRingWriter
  BY <1>26 DEF StopRingWriter, NotifyWriter, StopWriter, fill, reader, streams, framing,
     TypeOK, RingTypeOK, Idle, ReadPcs, WritePcs, ReadInv, WriteInv, FillInv, CtlInv, Waiting,
     Storing, Transferring
<1>27. CASE Join
  <2>1. Len(frame') <= shape.keep
    <3>1. shape.keep \in Nat
      BY ShapeFacts DEF TypeOK
    <3> QED
      BY <1>27, <3>1 DEF Join
  <2>2. lastOut' \in 0 .. MaxSamples
    BY <1>27, SamplesAssumption DEF Join
  <2>3. ctl' \in {"idle", "stopRing", "stopOut", "stopRingWriter", "join"}
    BY <1>27 DEF Join
  <2>4. /\ running' \in BOOLEAN /\ inStop' \in BOOLEAN /\ outStop' \in BOOLEAN
        /\ stopReader' \in BOOLEAN /\ stopWriter' \in BOOLEAN /\ skipping' \in BOOLEAN
    BY <1>27 DEF Join
  <2>5. UNCHANGED <<buffer, readc, writec, readable, writable, maxLatency, rpc, toRead,
                    rleft, wpc, toWrite, wleft, wseen, written, shape, inLen, outFull,
                    fed>>
    BY <1>27 DEF Join, fill, reader, writer
  <2> QED
    BY <2>1, <2>2, <2>3, <2>4, <2>5 DEF TypeOK, RingTypeOK
<1>28. CASE SetShape
  <2>1. shape' \in Shapes /\ maxLatency' \in Latencies
    BY <1>28, ShapeFacts DEF SetShape
  <2>2. Len(frame) <= shape'.keep
    <3>1. frame = <<>>
      BY <1>28 DEF SetShape, CtlInv
    <3>2. shape'.keep \in Nat
      BY <2>1, ShapeFacts
    <3> QED
      BY <3>1, <3>2
  <2>3. UNCHANGED <<buffer, readc, writec, readable, writable, stopReader, stopWriter,
                    rpc, toRead, rleft, wpc, toWrite, wleft, wseen, written, running,
                    ctl, inLen, inStop, outFull, outStop, skipping, frame, fed,
                    lastOut>>
    BY <1>28 DEF SetShape, fill, reader, writer, stops, streams, framing
  <2> QED
    BY <2>1, <2>2, <2>3 DEF TypeOK, RingTypeOK
<1>29. CASE Produce
  BY <1>29 DEF Produce, fill, reader, writer, stops, control, framing, ring, TypeOK,
     RingTypeOK, Idle, ReadPcs, WritePcs, ReadInv, WriteInv, FillInv, CtlInv, Waiting,
     Storing, Transferring
<1>30. CASE Consume
  <2>1. outFull' \in BOOLEAN
    BY <1>30 DEF Consume
  <2>2. UNCHANGED <<buffer, readc, writec, readable, writable, maxLatency, stopReader,
                    stopWriter, rpc, toRead, rleft, wpc, toWrite, wleft, wseen,
                    written, shape, running, ctl, inLen, inStop, outStop, skipping,
                    frame, fed, lastOut>>
    BY <1>30 DEF Consume, fill, reader, writer, stops, control, framing, ring
  <2> QED
    BY <2>1, <2>2 DEF TypeOK, RingTypeOK
<1>31. CASE \/ UNCHANGED vars
  <2>1. UNCHANGED <<buffer, readc, writec, readable, writable, maxLatency, stopReader,
                    stopWriter, rpc, toRead, rleft, wpc, toWrite, wleft, wseen, written,
                    shape, running, ctl, inLen, inStop, outFull, outStop, skipping,
                    frame, fed, lastOut>>
    BY <1>31 DEF vars, fill, reader, writer, stops, control, streams, framing, ring
  <2> QED
    BY <2>1 DEF TypeOK, RingTypeOK, Idle, ReadPcs, WritePcs, ReadInv, WriteInv, FillInv,
       CtlInv, Waiting, Storing, Transferring
<1> QED
  BY NextCases, <1>1, <1>2, <1>3, <1>4, <1>5, <1>6, <1>7, <1>8, <1>9, <1>10, <1>11, <1>12,
     <1>13, <1>14, <1>15, <1>16, <1>17, <1>18, <1>19, <1>20, <1>21, <1>22, <1>23, <1>24,
     <1>25, <1>26, <1>27, <1>28, <1>29, <1>30, <1>31

\* The shape changes while both threads are off.
LEMMA CtlInvNext ==
  ASSUME RingInv, [Next]_vars
  PROVE  CtlInv'
<1> USE SizeAssumption DEF RingInv
<1>1. CASE RunRead
  BY <1>1 DEF RunRead, fill, reader, stops, control, streams, framing, CtlInv, TypeOK
<1>2. CASE WriteTest /\ Outside
  BY <1>2 DEF WriteTest, Outside, fill, reader, stops, control, streams, framing, CtlInv,
     TypeOK
<1>3. CASE WriteRoom /\ Outside
  BY <1>3 DEF WriteRoom, Least, Room, Outside, fill, reader, stops, control, streams, framing,
     CtlInv, TypeOK
<1>4. CASE WritePred /\ Outside
  BY <1>4 DEF WritePred, Least, Room, Outside, fill, reader, stops, control, streams, framing,
     CtlInv, TypeOK
<1>5. CASE WriteSleep /\ Outside
  BY <1>5 DEF WriteSleep, Outside, fill, reader, stops, control, streams, framing, CtlInv,
     TypeOK
<1>6. CASE WriteCopy /\ Outside
  BY <1>6 DEF WriteCopy, Filled, Outside, fill, reader, stops, control, streams, framing,
     CtlInv, TypeOK
<1>7. CASE WritePublish /\ Outside
  BY <1>7 DEF WritePublish, Outside, reader, stops, control, streams, framing, CtlInv, TypeOK
<1>8. CASE WriteDebit /\ Outside
  BY <1>8 DEF WriteDebit, Outside, reader, stops, control, streams, framing, CtlInv, TypeOK
<1>9. CASE WriteAdvance /\ Outside
  BY <1>9 DEF WriteAdvance, NotifyReader, Outside, fill, stops, control, streams, framing,
     CtlInv, TypeOK
<1>10. CASE RunFlush
  BY <1>10 DEF RunFlush, fill, reader, stops, control, framing, CtlInv, TypeOK
<1>11. CASE BufferLoop
  BY <1>11 DEF BufferLoop, Least, ReadCount, fill, writer, stops, control, streams, CtlInv,
     TypeOK
<1>12. CASE ReadTest(AfterFound) /\ Outside
  BY <1>12 DEF ReadTest, AfterFound, Found, Least, Outside, fill, writer, stops, control,
     streams, framing, CtlInv, TypeOK
<1>13. CASE ReadPred(AfterFound) /\ Outside
  BY <1>13 DEF ReadPred, AfterFound, Found, Least, Outside, fill, writer, stops, control,
     streams, framing, CtlInv, TypeOK
<1>14. CASE ReadSleep /\ Outside
  BY <1>14 DEF ReadSleep, Outside, fill, writer, stops, control, streams, framing, CtlInv,
     TypeOK
<1>15. CASE ReadTake /\ Outside
  BY <1>15 DEF ReadTake, Outside, writer, stops, control, streams, framing, CtlInv, TypeOK
<1>16. CASE ReadCredit /\ Outside
  BY <1>16 DEF ReadCredit, Outside, writer, stops, control, streams, framing, CtlInv, TypeOK
<1>17. CASE ReadAdvance /\ Outside
  BY <1>17 DEF ReadAdvance, NotifyWriter, Outside, fill, stops, control, streams, framing,
     CtlInv, TypeOK
<1>18. CASE BufferCopy
  BY <1>18 DEF BufferCopy, Slot, fill, writer, stops, control, streams, CtlInv, TypeOK
<1>19. CASE BufferSkip
  BY <1>19 DEF BufferSkip, fill, writer, stops, control, streams, CtlInv, TypeOK
<1>20. CASE BufferSwap
  BY <1>20 DEF BufferSwap, fill, writer, stops, control, CtlInv, TypeOK
<1>21. CASE BufferExit
  BY <1>21 DEF BufferExit, fill, writer, stops, control, streams, framing, CtlInv, TypeOK
<1>22. CASE Start
  BY <1>22 DEF Start, fill, stops, streams, CtlInv, TypeOK
<1>23. CASE StopInput
  BY <1>23 DEF StopInput, fill, reader, writer, stops, framing, ring, CtlInv, TypeOK
<1>24. CASE StopRing
  BY <1>24 DEF StopRing, NotifyReader, StopReader, fill, writer, streams, framing, CtlInv,
     TypeOK
<1>25. CASE StopOutput
  BY <1>25 DEF StopOutput, fill, reader, writer, stops, framing, ring, CtlInv, TypeOK
<1>26. CASE StopRingWriter
  BY <1>26 DEF StopRingWriter, NotifyWriter, StopWriter, fill, reader, streams, framing,
     CtlInv, TypeOK
<1>27. CASE Join
  BY <1>27 DEF Join, fill, reader, writer, CtlInv, TypeOK
<1>28. CASE SetShape
  BY <1>28 DEF SetShape, fill, reader, writer, stops, streams, framing, CtlInv, TypeOK
<1>29. CASE \/ Produce \/ Consume
            \/ UNCHANGED vars
  <2>1. UNCHANGED <<maxLatency, rpc, wpc, shape, running, ctl, frame>>
    BY <1>29 DEF Produce, Consume, vars, fill, reader, writer, stops, control, streams,
       framing, ring
  <2> QED
    BY <2>1 DEF CtlInv, TypeOK
<1> QED
  BY NextCases, <1>1, <1>2, <1>3, <1>4, <1>5, <1>6, <1>7, <1>8, <1>9, <1>10, <1>11, <1>12,
     <1>13, <1>14, <1>15, <1>16, <1>17, <1>18, <1>19, <1>20, <1>21, <1>22, <1>23, <1>24,
     <1>25, <1>26, <1>27, <1>28, <1>29

\* The reader transfers readable samples.
LEMMA ReadInvNext ==
  ASSUME RingInv, [Next]_vars
  PROVE  ReadInv'
<1> USE SizeAssumption DEF RingInv
<1>1. CASE WritePublish /\ Outside
  BY <1>1, ReadCountFacts, ShapeFacts DEF WritePublish, Outside, reader, stops, control,
     streams, framing, ReadInv, CtlInv, TypeOK, RingTypeOK, Waiting, Transferring
<1>2. CASE WriteAdvance /\ Outside
  BY <1>2, ReadCountFacts, ShapeFacts DEF WriteAdvance, NotifyReader, Outside, fill, stops,
     control, streams, framing, ReadInv, CtlInv, TypeOK, RingTypeOK, Waiting, Transferring
<1>3. CASE BufferLoop
  BY <1>3, ReadCountFacts, ShapeFacts DEF BufferLoop, Least, ReadCount, fill, writer, stops,
     control, streams, ReadInv, CtlInv, TypeOK, RingTypeOK, Waiting, Transferring
<1>4. CASE ReadTest(AfterFound) /\ Outside
  <2>1. CASE toRead' = Least(readable, rleft) /\ readable # 0 /\ rpc' = AfterFound
    <3>1. rleft \in Nat /\ 1 <= rleft /\ readable \in Nat
      BY <1>4 DEF ReadTest, Waiting, ReadInv, TypeOK, RingTypeOK
    <3>2. toRead' \in Nat /\ 1 <= toRead' /\ toRead' <= readable /\ toRead' <= rleft
      BY <2>1, <3>1, LeastFacts
    <3>3. rpc' \in {"copy", "take"} /\ UNCHANGED <<rleft, readable>>
      BY <1>4, <2>1 DEF ReadTest, AfterFound, fill
    <3> QED
      BY <3>1, <3>2, <3>3 DEF ReadInv, Waiting, Transferring
  <2>2. CASE UNCHANGED toRead /\ rpc' \in {"failed", "pred", "sleeping"}
    BY <1>4, <2>2 DEF ReadTest, fill, ReadInv, Waiting, Transferring
  <2> QED
    BY <1>4, <2>1, <2>2 DEF ReadTest, Found, TypeOK, RingTypeOK
<1>5. CASE ReadPred(AfterFound) /\ Outside
  <2>1. CASE toRead' = Least(readable, rleft) /\ readable # 0 /\ rpc' = AfterFound
    <3>1. rleft \in Nat /\ 1 <= rleft /\ readable \in Nat
      BY <1>5 DEF ReadPred, Waiting, ReadInv, TypeOK, RingTypeOK
    <3>2. toRead' \in Nat /\ 1 <= toRead' /\ toRead' <= readable /\ toRead' <= rleft
      BY <2>1, <3>1, LeastFacts
    <3>3. rpc' \in {"copy", "take"} /\ UNCHANGED <<rleft, readable>>
      BY <1>5, <2>1 DEF ReadPred, AfterFound, fill
    <3> QED
      BY <3>1, <3>2, <3>3 DEF ReadInv, Waiting, Transferring
  <2>2. CASE UNCHANGED toRead /\ rpc' \in {"failed", "pred", "sleeping"}
    BY <1>5, <2>2 DEF ReadPred, fill, ReadInv, Waiting, Transferring
  <2> QED
    BY <1>5, <2>1, <2>2 DEF ReadPred, Found, TypeOK, RingTypeOK
<1>6. CASE ReadSleep /\ Outside
  BY <1>6, ReadCountFacts, ShapeFacts DEF ReadSleep, Outside, fill, writer, stops, control,
     streams, framing, ReadInv, CtlInv, TypeOK, RingTypeOK, Waiting, Transferring
<1>7. CASE ReadTake /\ Outside
  BY <1>7, ReadCountFacts, ShapeFacts DEF ReadTake, Outside, writer, stops, control, streams,
     framing, ReadInv, CtlInv, TypeOK, RingTypeOK, Waiting, Transferring
<1>8. CASE ReadCredit /\ Outside
  BY <1>8, ReadCountFacts, ShapeFacts DEF ReadCredit, Outside, writer, stops, control,
     streams, framing, ReadInv, CtlInv, TypeOK, RingTypeOK, Waiting, Transferring
<1>9. CASE ReadAdvance /\ Outside
  BY <1>9, ReadCountFacts, ShapeFacts DEF ReadAdvance, NotifyWriter, Outside, fill, stops,
     control, streams, framing, ReadInv, CtlInv, TypeOK, RingTypeOK, Waiting, Transferring
<1>10. CASE BufferCopy
  BY <1>10, ReadCountFacts, ShapeFacts DEF BufferCopy, Slot, fill, writer, stops, control,
     streams, ReadInv, CtlInv, TypeOK, RingTypeOK, Waiting, Transferring
<1>11. CASE BufferSkip
  <2>1. /\ shape \in Shapes /\ rpc = "done" /\ rpc' = "test" /\ UNCHANGED toRead
        /\ shape.skip > 0 /\ rleft' = shape.skip
    BY <1>11 DEF BufferSkip, TypeOK
  <2>2. rleft' >= 1
    BY <2>1, ShapeFacts
  <2> QED
    BY <2>1, <2>2 DEF ReadInv, Waiting, Transferring
<1>12. CASE BufferSwap
  BY <1>12, ReadCountFacts, ShapeFacts DEF BufferSwap, fill, writer, stops, control, ReadInv,
     CtlInv, TypeOK, RingTypeOK, Waiting, Transferring
<1>13. CASE BufferExit
  BY <1>13, ReadCountFacts, ShapeFacts DEF BufferExit, fill, writer, stops, control, streams,
     framing, ReadInv, CtlInv, TypeOK, RingTypeOK, Waiting, Transferring
<1>14. CASE Start
  BY <1>14, ReadCountFacts, ShapeFacts DEF Start, fill, stops, streams, ReadInv, CtlInv,
     TypeOK, RingTypeOK, Waiting, Transferring
<1>15. CASE StopRing
  BY <1>15, ReadCountFacts, ShapeFacts DEF StopRing, NotifyReader, StopReader, fill, writer,
     streams, framing, ReadInv, CtlInv, TypeOK, RingTypeOK, Waiting, Transferring
<1>16. CASE \/ RunRead \/ (WriteTest /\ Outside) \/ (WriteRoom /\ Outside)
            \/ (WritePred /\ Outside) \/ (WriteSleep /\ Outside) \/ (WriteCopy /\ Outside)
            \/ (WriteDebit /\ Outside) \/ RunFlush \/ StopInput \/ StopOutput
            \/ StopRingWriter \/ Join \/ SetShape \/ Produce \/ Consume
            \/ UNCHANGED vars
  <2>1. UNCHANGED <<readable, rpc, toRead, rleft>>
    BY <1>16 DEF RunRead, WriteTest, Outside, WriteRoom, WritePred, WriteSleep, WriteCopy,
       WriteDebit, RunFlush, StopInput, StopOutput, StopRingWriter, NotifyWriter, StopWriter,
       Join, SetShape, Produce, Consume, vars, fill, reader, writer, stops, control, streams,
       framing, ring
  <2> QED
    BY <2>1 DEF ReadInv, CtlInv, TypeOK, RingTypeOK, Waiting, Transferring
<1> QED
  BY NextCases, <1>1, <1>2, <1>3, <1>4, <1>5, <1>6, <1>7, <1>8, <1>9, <1>10, <1>11, <1>12,
     <1>13, <1>14, <1>15, <1>16

\* The writer transfers samples for which there is room.
LEMMA WriteInvNext ==
  ASSUME RingInv, [Next]_vars
  PROVE  WriteInv'
<1> USE SizeAssumption DEF RingInv
<1>1. CASE RunRead
  <2>1. /\ wpc = "loop" /\ UNCHANGED toWrite
        /\ wpc' = "off" \/ (wpc' = "test" /\ wleft' = inLen /\ inLen > 0)
    BY <1>1 DEF RunRead
  <2>2. inLen \in Nat
    BY ShapeAssumption DEF TypeOK
  <2> QED
    BY <2>1, <2>2 DEF WriteInv, Waiting, Storing
<1>2. CASE WriteTest /\ Outside
  <2>1. UNCHANGED <<readable, writable, maxLatency, toWrite, wleft>>
    BY <1>2 DEF WriteTest, fill
  <2>2. /\ wpc = "test"
        /\ wpc' = "failed" \/ (wpc' = "room" /\ wseen' = writable)
    BY <1>2 DEF WriteTest
  <2>3. writable \in Nat
    BY DEF TypeOK, RingTypeOK
  <2> QED
    BY <2>1, <2>2, <2>3 DEF WriteInv, Waiting, Storing
<1>3. CASE WriteRoom /\ Outside
  <2>1. CASE toWrite' = Least(Room(wseen), wleft) /\ Room(wseen) # 0 /\ wpc' = "copy"
    <3>1. /\ wleft \in Nat /\ 1 <= wleft /\ wseen \in Nat /\ wseen <= writable
          /\ writable \in Nat /\ readable \in Nat
      BY <1>3 DEF WriteRoom, Waiting, WriteInv, TypeOK, RingTypeOK
    <3>2. /\ Room(wseen) \in Nat /\ 1 <= Room(wseen) /\ Room(wseen) <= wseen
          /\ readable + Room(wseen) <= maxLatency
      BY <2>1, <3>1, RoomFacts
    <3>3. toWrite' \in Nat /\ 1 <= toWrite' /\ toWrite' <= Room(wseen) /\ toWrite' <= wleft
      BY <2>1, <3>1, <3>2, LeastFacts
    <3>4. /\ toWrite' <= writable /\ readable + toWrite' <= maxLatency
      BY <3>1, <3>2, <3>3, LatencyFacts
    <3>5. UNCHANGED <<wleft, readable, writable, maxLatency>>
      BY <1>3 DEF WriteRoom, fill
    <3> QED
      BY <2>1, <3>3, <3>4, <3>5 DEF WriteInv, Waiting, Storing
  <2>2. CASE UNCHANGED toWrite /\ wpc' \in {"failed", "pred", "sleeping"}
    BY <1>3, <2>2 DEF WriteRoom, fill, WriteInv, Waiting, Storing
  <2>3. Room(wseen) \in Nat
    <3>1. wseen \in Nat
      BY DEF TypeOK, RingTypeOK
    <3> QED
      BY <3>1, RoomFacts DEF TypeOK, RingTypeOK
  <2> QED
    BY <1>3, <2>1, <2>2, <2>3 DEF WriteRoom
<1>4. CASE WritePred /\ Outside
  <2>1. CASE toWrite' = Least(Room(writable), wleft) /\ Room(writable) # 0 /\ wpc' = "copy"
    <3>1. wleft \in Nat /\ 1 <= wleft /\ writable \in Nat /\ readable \in Nat
      BY <1>4 DEF WritePred, Waiting, WriteInv, TypeOK, RingTypeOK
    <3>2. /\ Room(writable) \in Nat /\ 1 <= Room(writable) /\ Room(writable) <= writable
          /\ readable + Room(writable) <= maxLatency
      BY <2>1, <3>1, RoomFacts
    <3>3. toWrite' \in Nat /\ 1 <= toWrite' /\ toWrite' <= Room(writable) /\ toWrite' <= wleft
      BY <2>1, <3>1, <3>2, LeastFacts
    <3>4. /\ toWrite' <= writable /\ readable + toWrite' <= maxLatency
      BY <3>1, <3>2, <3>3, LatencyFacts
    <3>5. UNCHANGED <<wleft, readable, writable, maxLatency>>
      BY <1>4 DEF WritePred, fill
    <3> QED
      BY <2>1, <3>3, <3>4, <3>5 DEF WriteInv, Waiting, Storing
  <2>2. CASE UNCHANGED toWrite /\ wpc' \in {"failed", "pred", "sleeping"}
    BY <1>4, <2>2 DEF WritePred, fill, WriteInv, Waiting, Storing
  <2>3. Room(writable) \in Nat
    <3>1. writable \in Nat
      BY DEF TypeOK, RingTypeOK
    <3> QED
      BY <3>1, RoomFacts DEF TypeOK, RingTypeOK
  <2> QED
    BY <1>4, <2>1, <2>2, <2>3 DEF WritePred
<1>5. CASE WriteSleep /\ Outside
  BY <1>5, LatencyFacts DEF WriteSleep, Outside, fill, reader, stops, control, streams,
     framing, WriteInv, FillInv, CtlInv, ReadInv, TypeOK, RingTypeOK, Waiting, Storing,
     Transferring
<1>6. CASE WriteCopy /\ Outside
  BY <1>6, LatencyFacts DEF WriteCopy, Filled, Outside, fill, reader, stops, control, streams,
     framing, WriteInv, FillInv, CtlInv, ReadInv, TypeOK, RingTypeOK, Waiting, Storing,
     Transferring
<1>7. CASE WritePublish /\ Outside
  BY <1>7, LatencyFacts DEF WritePublish, Outside, reader, stops, control, streams, framing,
     WriteInv, FillInv, CtlInv, ReadInv, TypeOK, RingTypeOK, Waiting, Storing, Transferring
<1>8. CASE WriteDebit /\ Outside
  BY <1>8, LatencyFacts DEF WriteDebit, Outside, reader, stops, control, streams, framing,
     WriteInv, FillInv, CtlInv, ReadInv, TypeOK, RingTypeOK, Waiting, Storing, Transferring
<1>9. CASE WriteAdvance /\ Outside
  BY <1>9, LatencyFacts DEF WriteAdvance, NotifyReader, Outside, fill, stops, control,
     streams, framing, WriteInv, FillInv, CtlInv, ReadInv, TypeOK, RingTypeOK, Waiting,
     Storing, Transferring
<1>10. CASE RunFlush
  BY <1>10, LatencyFacts DEF RunFlush, fill, reader, stops, control, framing, WriteInv,
     FillInv, CtlInv, ReadInv, TypeOK, RingTypeOK, Waiting, Storing, Transferring
<1>11. CASE ReadTake /\ Outside
  BY <1>11, LatencyFacts DEF ReadTake, Outside, writer, stops, control, streams, framing,
     WriteInv, FillInv, CtlInv, ReadInv, TypeOK, RingTypeOK, Waiting, Storing, Transferring
<1>12. CASE ReadCredit /\ Outside
  BY <1>12, LatencyFacts DEF ReadCredit, Outside, writer, stops, control, streams, framing,
     WriteInv, FillInv, CtlInv, ReadInv, TypeOK, RingTypeOK, Waiting, Storing, Transferring
<1>13. CASE ReadAdvance /\ Outside
  BY <1>13, LatencyFacts DEF ReadAdvance, NotifyWriter, Outside, fill, stops, control,
     streams, framing, WriteInv, FillInv, CtlInv, ReadInv, TypeOK, RingTypeOK, Waiting,
     Storing, Transferring
<1>14. CASE Start
  BY <1>14, LatencyFacts DEF Start, fill, stops, streams, WriteInv, FillInv, CtlInv, ReadInv,
     TypeOK, RingTypeOK, Waiting, Storing, Transferring
<1>15. CASE StopRingWriter
  BY <1>15, LatencyFacts DEF StopRingWriter, NotifyWriter, StopWriter, fill, reader, streams,
     framing, WriteInv, FillInv, CtlInv, ReadInv, TypeOK, RingTypeOK, Waiting, Storing,
     Transferring
<1>16. CASE SetShape
  BY <1>16, LatencyFacts DEF SetShape, fill, reader, writer, stops, streams, framing,
     WriteInv, FillInv, CtlInv, ReadInv, TypeOK, RingTypeOK, Waiting, Storing, Transferring
<1>17. CASE \/ BufferLoop \/ (ReadTest(AfterFound) /\ Outside)
            \/ (ReadPred(AfterFound) /\ Outside) \/ (ReadSleep /\ Outside) \/ BufferCopy
            \/ BufferSkip \/ BufferSwap \/ BufferExit \/ StopInput \/ StopRing \/ StopOutput
            \/ Join \/ Produce \/ Consume
            \/ UNCHANGED vars
  <2>1. UNCHANGED <<readable, writable, maxLatency, wpc, toWrite, wleft, wseen>>
    BY <1>17 DEF BufferLoop, ReadTest, Found, Outside, ReadPred, ReadSleep, BufferCopy,
       BufferSkip, BufferSwap, BufferExit, StopInput, StopRing, NotifyReader, StopReader,
       StopOutput, Join, Produce, Consume, vars, fill, reader, writer, stops, control,
       streams, framing, ring
  <2> QED
    BY <2>1 DEF WriteInv, FillInv, CtlInv, ReadInv, TypeOK, RingTypeOK, Waiting, Storing,
       Transferring
<1> QED
  BY NextCases, <1>1, <1>2, <1>3, <1>4, <1>5, <1>6, <1>7, <1>8, <1>9, <1>10, <1>11, <1>12,
     <1>13, <1>14, <1>15, <1>16, <1>17

\* The counters add up.
LEMMA FillInvNext ==
  ASSUME RingInv, [Next]_vars
  PROVE  FillInv'
<1> USE SizeAssumption DEF RingInv
<1>1. CASE RunRead
  BY <1>1 DEF RunRead, fill, reader, stops, control, streams, framing, FillInv, CtlInv,
     WriteInv, ReadInv, TypeOK, RingTypeOK, Waiting, Storing, Transferring, ToCopy, Published,
     Idle, ReadPcs, WritePcs
<1>2. CASE WriteTest /\ Outside
  BY <1>2 DEF WriteTest, Outside, fill, reader, stops, control, streams, framing, FillInv,
     CtlInv, WriteInv, ReadInv, TypeOK, RingTypeOK, Waiting, Storing, Transferring, ToCopy,
     Published, Idle, ReadPcs, WritePcs
<1>3. CASE WriteRoom /\ Outside
  BY <1>3 DEF WriteRoom, Least, Room, Outside, fill, reader, stops, control, streams, framing,
     FillInv, CtlInv, WriteInv, ReadInv, TypeOK, RingTypeOK, Waiting, Storing, Transferring,
     ToCopy, Published, Idle, ReadPcs, WritePcs
<1>4. CASE WritePred /\ Outside
  <2>1. ToCopy' = ToCopy \/ ToCopy' = 0
    BY <1>4 DEF WritePred, ToCopy, Waiting, streams
  <2>2. ToCopy \in Nat
    BY <1>4 DEF WritePred, ToCopy, Waiting, TypeOK, RingTypeOK
  <2>3. Published' = Published /\ wpc # "debit" /\ wpc' # "debit"
    BY <1>4 DEF WritePred, Published
  <2> QED
    BY <1>4, <2>1, <2>2, <2>3 DEF WritePred, Outside, fill, reader, streams, FillInv, TypeOK,
       RingTypeOK
<1>5. CASE WriteSleep /\ Outside
  BY <1>5 DEF WriteSleep, Outside, fill, reader, stops, control, streams, framing, FillInv,
     CtlInv, WriteInv, ReadInv, TypeOK, RingTypeOK, Waiting, Storing, Transferring, ToCopy,
     Published, Idle, ReadPcs, WritePcs
<1>6. CASE WriteCopy /\ Outside
  BY <1>6 DEF WriteCopy, Filled, Outside, fill, reader, stops, control, streams, framing,
     FillInv, CtlInv, WriteInv, ReadInv, TypeOK, RingTypeOK, Waiting, Storing, Transferring,
     ToCopy, Published, Idle, ReadPcs, WritePcs
<1>7. CASE WritePublish /\ Outside
  BY <1>7 DEF WritePublish, Outside, reader, stops, control, streams, framing, FillInv,
     CtlInv, WriteInv, ReadInv, TypeOK, RingTypeOK, Waiting, Storing, Transferring, ToCopy,
     Published, Idle, ReadPcs, WritePcs
<1>8. CASE WriteDebit /\ Outside
  BY <1>8 DEF WriteDebit, Outside, reader, stops, control, streams, framing, FillInv, CtlInv,
     WriteInv, ReadInv, TypeOK, RingTypeOK, Waiting, Storing, Transferring, ToCopy, Published,
     Idle, ReadPcs, WritePcs
<1>9. CASE WriteAdvance /\ Outside
  BY <1>9 DEF WriteAdvance, NotifyReader, Outside, fill, stops, control, streams, framing,
     FillInv, CtlInv, WriteInv, ReadInv, TypeOK, RingTypeOK, Waiting, Storing, Transferring,
     ToCopy, Published, Idle, ReadPcs, WritePcs
<1>10. CASE RunFlush
  BY <1>10 DEF RunFlush, fill, reader, stops, control, framing, FillInv, CtlInv, WriteInv,
     ReadInv, TypeOK, RingTypeOK, Waiting, Storing, Transferring, ToCopy, Published, Idle,
     ReadPcs, WritePcs
<1>11. CASE BufferLoop
  BY <1>11 DEF BufferLoop, Least, ReadCount, fill, writer, stops, control, streams, FillInv,
     CtlInv, WriteInv, ReadInv, TypeOK, RingTypeOK, Waiting, Storing, Transferring, ToCopy,
     Published, Idle, ReadPcs, WritePcs
<1>12. CASE ReadTest(AfterFound) /\ Outside
  BY <1>12 DEF ReadTest, AfterFound, Found, Least, Outside, fill, writer, stops, control,
     streams, framing, FillInv, CtlInv, WriteInv, ReadInv, TypeOK, RingTypeOK, Waiting,
     Storing, Transferring, ToCopy, Published, Idle, ReadPcs, WritePcs
<1>13. CASE ReadPred(AfterFound) /\ Outside
  BY <1>13 DEF ReadPred, AfterFound, Found, Least, Outside, fill, writer, stops, control,
     streams, framing, FillInv, CtlInv, WriteInv, ReadInv, TypeOK, RingTypeOK, Waiting,
     Storing, Transferring, ToCopy, Published, Idle, ReadPcs, WritePcs
<1>14. CASE ReadSleep /\ Outside
  BY <1>14 DEF ReadSleep, Outside, fill, writer, stops, control, streams, framing, FillInv,
     CtlInv, WriteInv, ReadInv, TypeOK, RingTypeOK, Waiting, Storing, Transferring, ToCopy,
     Published, Idle, ReadPcs, WritePcs
<1>15. CASE ReadTake /\ Outside
  BY <1>15 DEF ReadTake, Outside, writer, stops, control, streams, framing, FillInv, CtlInv,
     WriteInv, ReadInv, TypeOK, RingTypeOK, Waiting, Storing, Transferring, ToCopy, Published,
     Idle, ReadPcs, WritePcs
<1>16. CASE ReadCredit /\ Outside
  BY <1>16 DEF ReadCredit, Outside, writer, stops, control, streams, framing, FillInv, CtlInv,
     WriteInv, ReadInv, TypeOK, RingTypeOK, Waiting, Storing, Transferring, ToCopy, Published,
     Idle, ReadPcs, WritePcs
<1>17. CASE ReadAdvance /\ Outside
  BY <1>17 DEF ReadAdvance, NotifyWriter, Outside, fill, stops, control, streams, framing,
     FillInv, CtlInv, WriteInv, ReadInv, TypeOK, RingTypeOK, Waiting, Storing, Transferring,
     ToCopy, Published, Idle, ReadPcs, WritePcs
<1>18. CASE BufferCopy
  BY <1>18 DEF BufferCopy, Slot, fill, writer, stops, control, streams, FillInv, CtlInv,
     WriteInv, ReadInv, TypeOK, RingTypeOK, Waiting, Storing, Transferring, ToCopy, Published,
     Idle, ReadPcs, WritePcs
<1>19. CASE BufferSkip
  BY <1>19 DEF BufferSkip, fill, writer, stops, control, streams, FillInv, CtlInv, WriteInv,
     ReadInv, TypeOK, RingTypeOK, Waiting, Storing, Transferring, ToCopy, Published, Idle,
     ReadPcs, WritePcs
<1>20. CASE BufferSwap
  BY <1>20 DEF BufferSwap, fill, writer, stops, control, FillInv, CtlInv, WriteInv, ReadInv,
     TypeOK, RingTypeOK, Waiting, Storing, Transferring, ToCopy, Published, Idle, ReadPcs,
     WritePcs
<1>21. CASE BufferExit
  BY <1>21 DEF BufferExit, fill, writer, stops, control, streams, framing, FillInv, CtlInv,
     WriteInv, ReadInv, TypeOK, RingTypeOK, Waiting, Storing, Transferring, ToCopy, Published,
     Idle, ReadPcs, WritePcs
<1>22. CASE Start
  BY <1>22 DEF Start, fill, stops, streams, FillInv, CtlInv, WriteInv, ReadInv, TypeOK,
     RingTypeOK, Waiting, Storing, Transferring, ToCopy, Published, Idle, ReadPcs, WritePcs
<1>23. CASE StopRing
  BY <1>23 DEF StopRing, NotifyReader, StopReader, fill, writer, streams, framing, FillInv,
     CtlInv, WriteInv, ReadInv, TypeOK, RingTypeOK, Waiting, Storing, Transferring, ToCopy,
     Published, Idle, ReadPcs, WritePcs
<1>24. CASE StopRingWriter
  BY <1>24 DEF StopRingWriter, NotifyWriter, StopWriter, fill, reader, streams, framing,
     FillInv, CtlInv, WriteInv, ReadInv, TypeOK, RingTypeOK, Waiting, Storing, Transferring,
     ToCopy, Published, Idle, ReadPcs, WritePcs
<1>25. CASE Produce
  BY <1>25 DEF Produce, fill, reader, writer, stops, control, framing, ring, FillInv, CtlInv,
     WriteInv, ReadInv, TypeOK, RingTypeOK, Waiting, Storing, Transferring, ToCopy, Published,
     Idle, ReadPcs, WritePcs
<1>26. CASE \/ StopInput \/ StopOutput \/ Join \/ SetShape \/ Consume
            \/ UNCHANGED vars
  <2>1. UNCHANGED <<readable, writable, rpc, toRead, wpc, toWrite, wleft, written, inLen,
                    fed>>
    BY <1>26 DEF StopInput, StopOutput, Join, SetShape, Consume, vars, fill, reader, writer,
       stops, control, streams, framing, ring
  <2> QED
    BY <2>1 DEF FillInv, CtlInv, WriteInv, ReadInv, TypeOK, RingTypeOK, Waiting, Storing,
       Transferring, ToCopy, Published, Idle, ReadPcs, WritePcs
<1> QED
  BY NextCases, <1>1, <1>2, <1>3, <1>4, <1>5, <1>6, <1>7, <1>8, <1>9, <1>10, <1>11, <1>12,
     <1>13, <1>14, <1>15, <1>16, <1>17, <1>18, <1>19, <1>20, <1>21, <1>22, <1>23, <1>24,
     <1>25, <1>26

\* The samples are where they belong.
LEMMA SlotInvNext ==
  ASSUME RingInv, [Next]_vars
  PROVE  SlotInv'
<1> USE SizeAssumption DEF RingInv
<1>1. CASE RunRead
  BY <1>1 DEF RunRead, fill, reader, stops, control, streams, framing, SlotInv, ReadPos,
     WritePos, Published, ReadInv, WriteInv, FillInv, CtlInv, TypeOK, RingTypeOK, Storing,
     Transferring, Waiting
<1>2. CASE WriteTest /\ Outside
  BY <1>2 DEF WriteTest, Outside, fill, reader, stops, control, streams, framing, SlotInv,
     ReadPos, WritePos, Published, ReadInv, WriteInv, FillInv, CtlInv, TypeOK, RingTypeOK,
     Storing, Transferring, Waiting
<1>3. CASE WriteRoom /\ Outside
  BY <1>3 DEF WriteRoom, Least, Room, Outside, fill, reader, stops, control, streams, framing,
     SlotInv, ReadPos, WritePos, Published, ReadInv, WriteInv, FillInv, CtlInv, TypeOK,
     RingTypeOK, Storing, Transferring, Waiting
<1>4. CASE WritePred /\ Outside
  BY <1>4 DEF WritePred, Least, Room, Outside, fill, reader, stops, control, streams, framing,
     SlotInv, ReadPos, WritePos, Published, ReadInv, WriteInv, FillInv, CtlInv, TypeOK,
     RingTypeOK, Storing, Transferring, Waiting
<1>5. CASE WriteSleep /\ Outside
  BY <1>5 DEF WriteSleep, Outside, fill, reader, stops, control, streams, framing, SlotInv,
     ReadPos, WritePos, Published, ReadInv, WriteInv, FillInv, CtlInv, TypeOK, RingTypeOK,
     Storing, Transferring, Waiting
<1>6. CASE WriteCopy /\ Outside
  <2>1. /\ readc \in 0 .. Size - 1 /\ writec \in 0 .. Size - 1 /\ written \in Nat
        /\ ReadPos \in 0 .. Size - 1
    BY PosFacts DEF TypeOK, RingTypeOK
  <2>2. /\ ReadPos' = ReadPos /\ WritePos' = WritePos /\ readable' = readable
        /\ Published' = Published /\ Published = written /\ buffer' = Filled
        /\ UNCHANGED <<writec, toWrite>>
    BY <1>6, <2>1, FillFacts DEF WriteCopy, ReadPos, WritePos, Published, fill, reader
  <2>3. writec = Wrap(ReadPos + readable) /\ readable + toWrite <= Size
    BY <1>6, <2>1, FillFacts DEF WriteCopy, SlotInv, WritePos, Wrap
  <2>4. ASSUME NEW i \in 0 .. Size - 1, i < readable
        PROVE  Filled[Wrap(ReadPos + i)] = buffer[Wrap(ReadPos + i)]
    <3> DEFINE j == Wrap(ReadPos + i)
               d == IF j >= writec THEN j - writec ELSE j - writec + Size
    <3>1. j \in 0 .. Size - 1 /\ d \in Int /\ ~ d < toWrite
      BY <2>1, <2>3, <2>4, FillFacts DEF Wrap
    <3> HIDE DEF j
    <3>2. Filled[j] = IF d < toWrite THEN written + d + 1 ELSE buffer[j]
      BY <3>1, FilledAt
    <3> QED
      BY <3>1, <3>2 DEF j
  <2>5. ASSUME NEW i \in 0 .. Size - 1, i < toWrite
        PROVE  Filled[Wrap(writec + i)] = written + i + 1
    <3> DEFINE j == Wrap(writec + i)
               d == IF j >= writec THEN j - writec ELSE j - writec + Size
    <3>1. j \in 0 .. Size - 1 /\ d = i
      BY <2>1 DEF Wrap
    <3> HIDE DEF j
    <3>2. Filled[j] = IF d < toWrite THEN written + d + 1 ELSE buffer[j]
      BY <3>1, FilledAt
    <3> QED
      BY <2>5, <3>1, <3>2 DEF j
  <2> QED
    BY <2>2, <2>4, <2>5 DEF SlotInv
<1>7. CASE WritePublish /\ Outside
  <2>1. /\ readc \in 0 .. Size - 1 /\ writec \in 0 .. Size - 1 /\ written \in Nat
        /\ ReadPos \in 0 .. Size - 1
    BY PosFacts DEF TypeOK, RingTypeOK
  <2>2. /\ ReadPos' = ReadPos /\ readable' = readable + toWrite
        /\ Published' = Published + toWrite /\ UNCHANGED <<buffer, writec, toWrite>>
        /\ WritePos = Wrap(writec) /\ WritePos' = Wrap(writec + toWrite) /\ wpc' # "publish"
    BY <1>7, <2>1, FillFacts DEF WritePublish, ReadPos, WritePos, Published, reader
  <2>3. writec = Wrap(ReadPos + readable) /\ readable + toWrite <= Size
    BY <1>7, <2>1, <2>2, FillFacts DEF WritePublish, SlotInv, Wrap
  <2>4. WritePos' = Wrap(ReadPos' + readable')
    BY <2>1, <2>2, <2>3, FillFacts DEF Wrap
  <2>5. ASSUME NEW i \in 0 .. Size - 1, i < readable'
        PROVE  buffer[Wrap(ReadPos + i)] = Published' - readable' + i + 1
    <3>1. CASE i < readable
      BY <2>2, <3>1, FillFacts DEF SlotInv
    <3>2. CASE i >= readable
      <4> DEFINE k == i - readable
      <4>1. k \in 0 .. Size - 1 /\ k < toWrite /\ Wrap(ReadPos + i) = Wrap(writec + k)
        BY <2>1, <2>2, <2>3, <2>5, <3>2, FillFacts DEF Wrap
      <4> HIDE DEF k
      <4>2. buffer[Wrap(writec + k)] = Published + k + 1
        BY <1>7, <4>1 DEF WritePublish, SlotInv
      <4> QED
        BY <2>2, <4>1, <4>2, FillFacts DEF k
    <3> QED
      BY <3>1, <3>2, FillFacts
  <2> QED
    BY <2>2, <2>4, <2>5 DEF SlotInv
<1>8. CASE WriteDebit /\ Outside
  BY <1>8 DEF WriteDebit, Outside, reader, stops, control, streams, framing, SlotInv, ReadPos,
     WritePos, Published, ReadInv, WriteInv, FillInv, CtlInv, TypeOK, RingTypeOK, Storing,
     Transferring, Waiting
<1>9. CASE WriteAdvance /\ Outside
  <2>1. /\ readc \in 0 .. Size - 1 /\ writec \in 0 .. Size - 1 /\ written \in Nat
        /\ ReadPos \in 0 .. Size - 1
    BY PosFacts DEF TypeOK, RingTypeOK
  <2>2. writec' = Wrap(writec + toWrite)
    <3>1. writec + toWrite \in 0 .. 2 * Size - 1
      BY <2>1 DEF TypeOK, RingTypeOK
    <3> QED
      BY <1>9, <3>1, WrapMod DEF WriteAdvance
  <2>3. /\ ReadPos' = ReadPos /\ readable' = readable /\ Published' = Published
        /\ WritePos' = Wrap(writec') /\ WritePos = Wrap(writec + toWrite)
        /\ UNCHANGED buffer /\ wpc' # "publish"
    BY <1>9 DEF WriteAdvance, NotifyReader, ReadPos, WritePos, Published, fill
  <2>4. WritePos' = WritePos
    BY <2>1, <2>2, <2>3, PosFacts DEF Wrap
  <2> QED
    BY <2>3, <2>4 DEF SlotInv
<1>10. CASE RunFlush
  BY <1>10 DEF RunFlush, fill, reader, stops, control, framing, SlotInv, ReadPos, WritePos,
     Published, ReadInv, WriteInv, FillInv, CtlInv, TypeOK, RingTypeOK, Storing, Transferring,
     Waiting
<1>11. CASE BufferLoop
  BY <1>11 DEF BufferLoop, Least, ReadCount, fill, writer, stops, control, streams, SlotInv,
     ReadPos, WritePos, Published, ReadInv, WriteInv, FillInv, CtlInv, TypeOK, RingTypeOK,
     Storing, Transferring, Waiting
<1>12. CASE ReadTest(AfterFound) /\ Outside
  BY <1>12 DEF ReadTest, AfterFound, Found, Least, Outside, fill, writer, stops, control,
     streams, framing, SlotInv, ReadPos, WritePos, Published, ReadInv, WriteInv, FillInv,
     CtlInv, TypeOK, RingTypeOK, Storing, Transferring, Waiting
<1>13. CASE ReadPred(AfterFound) /\ Outside
  BY <1>13 DEF ReadPred, AfterFound, Found, Least, Outside, fill, writer, stops, control,
     streams, framing, SlotInv, ReadPos, WritePos, Published, ReadInv, WriteInv, FillInv,
     CtlInv, TypeOK, RingTypeOK, Storing, Transferring, Waiting
<1>14. CASE ReadSleep /\ Outside
  BY <1>14 DEF ReadSleep, Outside, fill, writer, stops, control, streams, framing, SlotInv,
     ReadPos, WritePos, Published, ReadInv, WriteInv, FillInv, CtlInv, TypeOK, RingTypeOK,
     Storing, Transferring, Waiting
<1>15. CASE ReadTake /\ Outside
  <2>1. /\ readc \in 0 .. Size - 1 /\ writec \in 0 .. Size - 1 /\ written \in Nat
        /\ ReadPos \in 0 .. Size - 1
    BY PosFacts DEF TypeOK, RingTypeOK
  <2>2. /\ ReadPos = readc /\ ReadPos' = Wrap(readc + toRead) /\ readable' = readable - toRead
        /\ Published' = Published /\ WritePos' = WritePos
        /\ UNCHANGED <<buffer, wpc, writec, toWrite>> /\ toRead <= readable
    BY <1>15, <2>1, FillFacts DEF ReadTake, ReadPos, WritePos, Published, Wrap, writer
  <2>3. WritePos' = Wrap(ReadPos' + readable')
    BY <2>1, <2>2, FillFacts DEF SlotInv, Wrap
  <2>4. ASSUME NEW i \in 0 .. Size - 1, i < readable'
        PROVE  buffer[Wrap(ReadPos' + i)] = Published' - readable' + i + 1
    <3> DEFINE k == i + toRead
    <3>1. k \in 0 .. Size - 1 /\ k < readable /\ Wrap(ReadPos' + i) = Wrap(ReadPos + k)
      BY <2>1, <2>2, <2>4, FillFacts DEF Wrap
    <3> HIDE DEF k
    <3>2. buffer[Wrap(ReadPos + k)] = Published - readable + k + 1
      BY <3>1 DEF SlotInv
    <3> QED
      BY <2>2, <3>1, <3>2, FillFacts DEF k
  <2> QED
    BY <2>2, <2>3, <2>4 DEF SlotInv
<1>16. CASE ReadCredit /\ Outside
  BY <1>16 DEF ReadCredit, Outside, writer, stops, control, streams, framing, SlotInv,
     ReadPos, WritePos, Published, ReadInv, WriteInv, FillInv, CtlInv, TypeOK, RingTypeOK,
     Storing, Transferring, Waiting
<1>17. CASE ReadAdvance /\ Outside
  <2>1. /\ readc \in 0 .. Size - 1 /\ writec \in 0 .. Size - 1 /\ written \in Nat
        /\ ReadPos \in 0 .. Size - 1
    BY PosFacts DEF TypeOK, RingTypeOK
  <2>2. readc' = Wrap(readc + toRead)
    <3>1. readc + toRead \in 0 .. 2 * Size - 1
      BY <2>1 DEF TypeOK, RingTypeOK
    <3> QED
      BY <1>17, <3>1, WrapMod DEF ReadAdvance
  <2>3. /\ ReadPos' = Wrap(readc') /\ ReadPos = Wrap(readc + toRead) /\ readable' = readable
        /\ Published' = Published /\ WritePos' = WritePos
        /\ UNCHANGED <<buffer, writec, toWrite>> /\ (wpc' = "publish" <=> wpc = "publish")
    BY <1>17 DEF ReadAdvance, NotifyWriter, ReadPos, WritePos, Published, fill
  <2>4. ReadPos' = ReadPos
    BY <2>1, <2>2, <2>3 DEF Wrap
  <2> QED
    BY <2>3, <2>4 DEF SlotInv
<1>18. CASE BufferCopy
  BY <1>18 DEF BufferCopy, Slot, fill, writer, stops, control, streams, SlotInv, ReadPos,
     WritePos, Published, ReadInv, WriteInv, FillInv, CtlInv, TypeOK, RingTypeOK, Storing,
     Transferring, Waiting
<1>19. CASE BufferSkip
  BY <1>19 DEF BufferSkip, fill, writer, stops, control, streams, SlotInv, ReadPos, WritePos,
     Published, ReadInv, WriteInv, FillInv, CtlInv, TypeOK, RingTypeOK, Storing, Transferring,
     Waiting
<1>20. CASE BufferSwap
  BY <1>20 DEF BufferSwap, fill, writer, stops, control, SlotInv, ReadPos, WritePos,
     Published, ReadInv, WriteInv, FillInv, CtlInv, TypeOK, RingTypeOK, Storing, Transferring,
     Waiting
<1>21. CASE BufferExit
  BY <1>21 DEF BufferExit, fill, writer, stops, control, streams, framing, SlotInv, ReadPos,
     WritePos, Published, ReadInv, WriteInv, FillInv, CtlInv, TypeOK, RingTypeOK, Storing,
     Transferring, Waiting
<1>22. CASE Start
  BY <1>22 DEF Start, fill, stops, streams, SlotInv, ReadPos, WritePos, Published, ReadInv,
     WriteInv, FillInv, CtlInv, TypeOK, RingTypeOK, Storing, Transferring, Waiting
<1>23. CASE StopRing
  BY <1>23 DEF StopRing, NotifyReader, StopReader, fill, writer, streams, framing, SlotInv,
     ReadPos, WritePos, Published, ReadInv, WriteInv, FillInv, CtlInv, TypeOK, RingTypeOK,
     Storing, Transferring, Waiting
<1>24. CASE StopRingWriter
  BY <1>24 DEF StopRingWriter, NotifyWriter, StopWriter, fill, reader, streams, framing,
     SlotInv, ReadPos, WritePos, Published, ReadInv, WriteInv, FillInv, CtlInv, TypeOK,
     RingTypeOK, Storing, Transferring, Waiting
<1>25. CASE \/ StopInput \/ StopOutput \/ Join \/ SetShape \/ Produce \/ Consume
            \/ UNCHANGED vars
  <2>1. UNCHANGED <<buffer, readc, writec, readable, rpc, toRead, wpc, toWrite, written>>
    BY <1>25 DEF StopInput, StopOutput, Join, SetShape, Produce, Consume, vars, fill, reader,
       writer, stops, control, streams, framing, ring
  <2> QED
    BY <2>1 DEF SlotInv, ReadPos, WritePos, Published, ReadInv, WriteInv, FillInv, CtlInv,
       TypeOK, RingTypeOK, Storing, Transferring, Waiting
<1> QED
  BY NextCases, <1>1, <1>2, <1>3, <1>4, <1>5, <1>6, <1>7, <1>8, <1>9, <1>10, <1>11, <1>12,
     <1>13, <1>14, <1>15, <1>16, <1>17, <1>18, <1>19, <1>20, <1>21, <1>22, <1>23, <1>24, <1>25

\* The frame holds what it should.
LEMMA GatherInvNext ==
  ASSUME IInv, [Next]_vars
  PROVE  GatherInv'
<1> USE SizeAssumption DEF IInv, RingInv, GatherInv
<1>1. CASE WriteAdvance /\ Outside
  <2>1. UNCHANGED <<frame, shape, lastOut, skipping, rleft, toRead>> /\ Taken' = Taken
    BY <1>1, TakenNext DEF WriteAdvance, NotifyReader, Outside, fill, stops, control, streams,
       framing
  <2>2. CASE rpc = "asleep"
    <3>1. InFrame /\ InFrame' /\ Rest' = Rest /\ LastSample' = LastSample /\ rpc' # "copy"
      BY <1>1, <2>1, <2>2 DEF WriteAdvance, NotifyReader, InFrame, Waiting, Transferring,
         Rest, LastSample
    <3> QED
      BY <2>1, <3>1, FrameKept
  <2>3. CASE UNCHANGED rpc
    BY <2>1, <2>3 DEF GatherInv, FrameInv, StrideInv, LastSample, Rest, InFrame, Overlap,
       ReadCount
  <2> QED
    BY <1>1, <2>2, <2>3 DEF WriteAdvance, NotifyReader
<1>2. CASE BufferLoop
  <2>1. /\ shape.keep \in Nat /\ shape.keep >= 1 /\ shape.skip \in Int
        /\ shape.keep + shape.skip > 0 /\ - shape.skip <= shape.keep /\ Overlap \in Nat
        /\ ReadCount \in Nat /\ ReadCount >= 1 /\ ReadCount + Overlap = shape.keep
    BY ShapeFacts, ReadCountFacts DEF TypeOK
  <2> DEFINE k == shape.keep
             s == shape.skip
  <2>2. /\ frame \in Seq(Nat) /\ Len(frame) = k /\ UNCHANGED <<shape, lastOut>>
        /\ rpc = "loop" /\ rpc' = "test" /\ rleft' = ReadCount /\ skipping' = FALSE
    BY <1>2 DEF BufferLoop, FrameInv, control
  <2>3. Overlap > 0 => s < 0 /\ Overlap = - s
    BY DEF Overlap
  <2>4. /\ frame' \in Seq(Nat) /\ Len(frame') = Overlap
        /\ \A i \in 1 .. Overlap : frame'[i] = frame[k + s + i]
    <3>1. CASE s < 0
      <4>1. frame' = SubSeq(frame, k + s + 1, k) /\ Overlap = - s
        BY <1>2, <3>1 DEF BufferLoop, Overlap
      <4>2. k \in Nat /\ s \in Int /\ k + s > 0 /\ - s <= k
        BY <2>1
      <4> HIDE DEF k, s
      <4> QED
        BY <2>2, <3>1, <4>1, <4>2, SkipLen
    <3>2. CASE s >= 0
      BY <1>2, <2>1, <2>2, <3>2 DEF BufferLoop, Overlap
    <3> QED
      BY <2>1, <3>1, <3>2
  <2>5. Taken' = Taken /\ Taken \in Int
    BY <2>2, TakenNext, FillFacts DEF Taken
  <2>6. /\ Rest' = ReadCount /\ LastSample' = Taken /\ UNCHANGED <<Overlap, ReadCount>>
    BY <2>2, <2>5 DEF Rest, LastSample, Overlap, ReadCount
  <2>7. InFrame' /\ rpc' # "loop" /\ rpc' # "copy"
    BY <2>2 DEF InFrame, Waiting
  <2>8. \A i \in 1 .. Overlap : frame'[i] # 0 /\ i < Overlap => frame'[i + 1] = frame'[i] + 1
    <3> SUFFICES ASSUME NEW i \in 1 .. Overlap, frame'[i] # 0, i < Overlap
                 PROVE  frame'[i + 1] = frame'[i] + 1
      OBVIOUS
    <3>1. /\ k + s + i \in 1 .. Len(frame) /\ k + s + i < Len(frame)
          /\ k + s + (i + 1) = (k + s + i) + 1 /\ i + 1 \in 1 .. Overlap
      <4>1. /\ Len(frame) = k /\ k \in Nat /\ s \in Int /\ k + s > 0 /\ Overlap \in Nat
            /\ Overlap = - s
        BY <2>1, <2>2, <2>3
      <4> HIDE DEF k, s
      <4> QED
        BY <4>1
    <3>2. frame'[i] = frame[k + s + i] /\ frame'[i + 1] = frame[k + s + (i + 1)]
      BY <2>4, <3>1
    <3> DEFINE n == k + s + i
    <3>3. frame[n] # 0 /\ n \in 1 .. Len(frame) /\ n < Len(frame)
      BY <3>1, <3>2
    <3> HIDE DEF n
    <3>4. frame[n + 1] = frame[n] + 1
      BY <2>2, <3>3 DEF FrameInv
    <3> QED
      BY <3>1, <3>2, <3>4 DEF n
  <2>9. Overlap > 0 /\ frame'[Overlap] # 0 => frame'[Overlap] = Taken
    <3> SUFFICES ASSUME Overlap > 0, frame'[Overlap] # 0 PROVE frame'[Overlap] = Taken
      OBVIOUS
    <3>1. s < 0 /\ k + s + Overlap = k /\ Overlap \in 1 .. Overlap /\ k \in 1 .. k
      BY <2>3, <2>1
    <3>2. frame'[Overlap] = frame[k]
      BY <2>4, <3>1
    <3>3. lastOut # 0
      BY <2>2, <3>1, <3>2 DEF FrameInv
    <3>4. frame[k] = lastOut /\ lastOut = Taken - (IF s > 0 THEN s ELSE 0)
      BY <2>2, <3>3 DEF FrameInv
    <3>5. lastOut = Taken
      BY <2>1, <2>5, <3>1, <3>4
    <3> QED
      BY <3>2, <3>4, <3>5
  <2>10. FrameInv'
    BY <2>1, <2>2, <2>4, <2>6, <2>7, <2>8, <2>9 DEF FrameInv
  <2>11. lastOut # 0 => Taken = lastOut + Overlap + s
    <3> SUFFICES ASSUME lastOut # 0 PROVE Taken = lastOut + Overlap + s
      OBVIOUS
    <3>1. lastOut = Taken - (IF s > 0 THEN s ELSE 0)
      BY <2>2 DEF FrameInv
    <3> QED
      BY <2>1, <2>5, <3>1 DEF Overlap, TypeOK
  <2>12. ASSUME lastOut # 0, ReadCount >= - s, NEW i \in 1 .. Overlap PROVE frame'[i] # 0
    <3>1. k + s + i \in 1 .. k /\ k + s + i > Overlap
      BY <2>1, <2>12 DEF Overlap, ReadCount, Least
    <3> QED
      BY <2>1, <2>2, <2>4, <2>12, <3>1 DEF FrameInv
  <2>13. StrideInv'
    BY <2>2, <2>4, <2>6, <2>11, <2>12 DEF StrideInv
  <2> QED
    BY <2>10, <2>13 DEF GatherInv
<1>3. CASE ReadTest(AfterFound) /\ Outside
  <2>1. CASE rpc' = "failed"
    BY <1>3, <2>1, FrameIdle DEF ReadTest, AfterFound, Found, Outside, fill, writer, stops,
       control, streams, framing, FrameInv
  <2>2. CASE rpc' # "failed"
    <3>1. InFrame /\ InFrame' /\ UNCHANGED <<frame, shape, lastOut, skipping>>
      BY <1>3, <2>2 DEF ReadTest, AfterFound, Found, Outside, fill, writer, stops, control,
         streams, framing, InFrame, Waiting, Transferring
    <3>2. rpc' = "copy" => ~skipping
      BY <1>3, <2>2 DEF ReadTest, AfterFound, Found, Outside, fill, writer, stops, control,
         streams, framing
    <3>3. Rest' = Rest /\ LastSample' = LastSample
      BY <1>3, <2>2, TakenNext, FillFacts DEF ReadTest, AfterFound, Found, Outside, fill,
         writer, stops, control, streams, framing, Rest, LastSample, TypeOK, RingTypeOK
    <3> QED
      BY <3>1, <3>2, <3>3, FrameKept
  <2> QED
    BY <2>1, <2>2
<1>4. CASE ReadPred(AfterFound) /\ Outside
  <2>1. CASE rpc' = "failed"
    BY <1>4, <2>1, FrameIdle DEF ReadPred, AfterFound, Found, Outside, fill, writer, stops,
       control, streams, framing, FrameInv
  <2>2. CASE rpc' # "failed"
    <3>1. InFrame /\ InFrame' /\ UNCHANGED <<frame, shape, lastOut, skipping>>
      BY <1>4, <2>2 DEF ReadPred, AfterFound, Found, Outside, fill, writer, stops, control,
         streams, framing, InFrame, Waiting, Transferring
    <3>2. rpc' = "copy" => ~skipping
      BY <1>4, <2>2 DEF ReadPred, AfterFound, Found, Outside, fill, writer, stops, control,
         streams, framing
    <3>3. Rest' = Rest /\ LastSample' = LastSample
      BY <1>4, <2>2, TakenNext, FillFacts DEF ReadPred, AfterFound, Found, Outside, fill,
         writer, stops, control, streams, framing, Rest, LastSample, TypeOK, RingTypeOK
    <3> QED
      BY <3>1, <3>2, <3>3, FrameKept
  <2> QED
    BY <2>1, <2>2
<1>5. CASE ReadSleep /\ Outside
  <2>1. InFrame /\ InFrame' /\ UNCHANGED <<frame, shape, lastOut, skipping>>
    BY <1>5 DEF ReadSleep, Outside, fill, writer, stops, control, streams, framing, InFrame,
       Waiting, Transferring
  <2>2. rpc' = "copy" => ~skipping
    BY <1>5 DEF ReadSleep, Outside, fill, writer, stops, control, streams, framing
  <2>3. Rest' = Rest /\ LastSample' = LastSample
    BY <1>5, TakenNext, FillFacts DEF ReadSleep, Outside, fill, writer, stops, control,
       streams, framing, Rest, LastSample, TypeOK, RingTypeOK
  <2> QED
    BY <2>1, <2>2, <2>3, FrameKept
<1>6. CASE ReadTake /\ Outside
  <2>1. InFrame /\ InFrame' /\ UNCHANGED <<frame, shape, lastOut, skipping>>
    BY <1>6 DEF ReadTake, Outside, writer, stops, control, streams, framing, InFrame, Waiting,
       Transferring
  <2>2. rpc' = "copy" => ~skipping
    BY <1>6 DEF ReadTake, Outside, writer, stops, control, streams, framing
  <2>3. LastSample' = LastSample /\ (Rest' = Rest \/ (skipping /\ Rest' <= shape.skip))
    <3>1. Taken' = Taken + toRead /\ Taken \in Int /\ toRead \in Nat /\ rleft \in Nat
      BY <1>6, FillFacts DEF ReadTake, Taken, Published, writer, TypeOK, RingTypeOK
    <3>2. shape.skip \in Int
      BY ShapeFacts DEF TypeOK
    <3> QED
      BY <1>6, <2>1, <3>1, <3>2 DEF ReadTake, Rest, LastSample, FrameInv
  <2> QED
    BY <2>1, <2>2, <2>3, FrameKept
<1>7. CASE ReadCredit /\ Outside
  <2>1. InFrame /\ InFrame' /\ UNCHANGED <<frame, shape, lastOut, skipping>>
    BY <1>7 DEF ReadCredit, Outside, writer, stops, control, streams, framing, InFrame,
       Waiting, Transferring
  <2>2. rpc' = "copy" => ~skipping
    BY <1>7 DEF ReadCredit, Outside, writer, stops, control, streams, framing
  <2>3. Rest' = Rest /\ LastSample' = LastSample
    BY <1>7, TakenNext, FillFacts DEF ReadCredit, Outside, writer, stops, control, streams,
       framing, Rest, LastSample, TypeOK, RingTypeOK
  <2> QED
    BY <2>1, <2>2, <2>3, FrameKept
<1>8. CASE ReadAdvance /\ Outside
  <2>1. InFrame /\ InFrame' /\ UNCHANGED <<frame, shape, lastOut, skipping>>
    BY <1>8 DEF ReadAdvance, NotifyWriter, Outside, fill, stops, control, streams, framing,
       InFrame, Waiting, Transferring
  <2>2. rpc' = "copy" => ~skipping
    BY <1>8 DEF ReadAdvance, NotifyWriter, Outside, fill, stops, control, streams, framing
  <2>3. Rest' = Rest /\ LastSample' = LastSample
    BY <1>8, TakenNext, FillFacts DEF ReadAdvance, NotifyWriter, Outside, fill, stops,
       control, streams, framing, Rest, LastSample, TypeOK, RingTypeOK
  <2> QED
    BY <2>1, <2>2, <2>3, FrameKept
<1>9. CASE BufferCopy
  <2>1. /\ shape.keep \in Nat /\ shape.keep >= 1 /\ shape.skip \in Int
        /\ shape.keep + shape.skip > 0 /\ - shape.skip <= shape.keep /\ Overlap \in Nat
        /\ ReadCount \in Nat /\ ReadCount >= 1 /\ ReadCount + Overlap = shape.keep
    BY ShapeFacts, ReadCountFacts DEF TypeOK
  <2> DEFINE n == Len(frame)
             t == [i \in 1 .. toRead |-> Slot(readc, i - 1)]
  <2>2. ~skipping /\ skipping' = skipping
    BY <1>9 DEF BufferCopy, FrameInv
  <2>3. /\ frame \in Seq(Nat) /\ n + rleft = shape.keep /\ rleft \in Nat
        /\ toRead \in Nat /\ 1 <= toRead /\ toRead <= rleft /\ toRead <= readable
        /\ InFrame /\ Rest = rleft /\ LastSample = Taken /\ n \in Nat /\ n = Len(frame)
    BY <1>9, <2>2 DEF BufferCopy, FrameInv, InFrame, Rest, LastSample, Transferring, ReadInv,
       TypeOK, RingTypeOK
  <2>4. /\ UNCHANGED <<shape, lastOut, rleft, toRead>> /\ rpc' = "take"
        /\ Taken' = Taken /\ Taken \in Nat
    BY <1>9, TakenNext, FillFacts DEF BufferCopy, control, Taken
  <2>5. ASSUME NEW i \in 1 .. toRead PROVE Slot(readc, i - 1) = Taken + i
    <3>1. /\ readc \in 0 .. Size - 1 /\ ReadPos = readc /\ readable \in Nat /\ readable <= Size
          /\ toRead <= readable
      BY <1>9, <2>3, FillFacts DEF BufferCopy, ReadPos, Wrap, TypeOK, RingTypeOK
    <3> DEFINE j == i - 1
    <3>2. /\ j \in 0 .. Size - 1 /\ j < readable /\ readc + j \in 0 .. 2 * Size - 1
      BY <2>3, <3>1
    <3> HIDE DEF j
    <3>3. Slot(readc, j) = buffer[Wrap(ReadPos + j)]
      BY <3>1, <3>2, WrapMod DEF Slot
    <3>4. buffer[Wrap(ReadPos + j)] = Published - readable + j + 1
      BY <3>2 DEF SlotInv
    <3> QED
      BY <3>3, <3>4, FillFacts DEF j, Taken
  <2>6. /\ t \in Seq(Nat) /\ Len(t) = toRead /\ frame' = frame \o t
        /\ \A i \in 1 .. toRead : t[i] = Taken + i
    BY <1>9, <2>3, <2>5, SlotsNat DEF BufferCopy
  <2>7. /\ Rest' = rleft - toRead /\ LastSample' = Taken + toRead /\ InFrame' /\ rpc' # "loop"
        /\ UNCHANGED <<Overlap, ReadCount>>
    BY <2>2, <2>3, <2>4 DEF Rest, LastSample, InFrame, Transferring, Overlap, ReadCount
  <2>8. /\ n >= Overlap /\ \A i \in 1 .. n : i > Overlap => frame[i] # 0
        /\ \A i \in 1 .. n : frame[i] # 0 /\ i < n => frame[i + 1] = frame[i] + 1
        /\ n > 0 /\ frame[n] # 0 => frame[n] = Taken
    BY <2>3 DEF FrameInv
  <2>9. /\ frame' \in Seq(Nat) /\ Len(frame') = n + toRead
        /\ \A i \in 1 .. Len(frame') :
             frame'[i] # 0 /\ i < Len(frame') => frame'[i + 1] = frame'[i] + 1
        /\ \A i \in 1 .. Len(frame') : i > Overlap => frame'[i] # 0
        /\ frame'[Len(frame')] = Taken + toRead
        /\ (\A i \in 1 .. n : frame[i] # 0) => \A i \in 1 .. Len(frame') : frame'[i] # 0
    <3>1. Taken \in Nat /\ toRead \in Nat /\ toRead >= 1 /\ Overlap \in Nat /\ n \in Nat
      BY <2>1, <2>3, <2>4
    <3>2. /\ frame' \in Seq(Nat) /\ Len(frame') = n + toRead
          /\ \A i \in 1 .. n : frame'[i] = frame[i]
          /\ \A i \in n + 1 .. n + toRead : frame'[i] = t[i - n]
      <4> HIDE DEF t
      <4> QED
        BY <2>3, <2>6, ConcatFacts
    <3> HIDE DEF t, n
    <3>3. ASSUME NEW i \in 1 .. n + toRead, i > n PROVE frame'[i] = Taken + (i - n)
      <4>1. i \in n + 1 .. n + toRead /\ i - n \in 1 .. toRead
        BY <3>1, <3>3
      <4> QED
        BY <2>6, <3>2, <4>1
    <3>4. Behind(frame', frame, n, toRead, Taken)
      BY <3>1, <3>2, <3>3 DEF Behind
    <3>5. Gathered(frame, n, Overlap, Taken)
      BY <2>8 DEF Gathered
    <3>6. /\ Gathered(frame', n + toRead, Overlap, Taken + toRead)
          /\ (\A i \in 1 .. n : frame[i] # 0) => \A i \in 1 .. n + toRead : frame'[i] # 0
      BY <3>1, <3>4, <3>5, RunBehind
    <3>7. frame'[n + toRead] # 0
      BY <2>8, <3>1, <3>6 DEF Gathered
    <3> QED
      BY <3>1, <3>2, <3>6, <3>7 DEF Gathered
  <2>10. FrameInv'
    BY <2>2, <2>1, <2>3, <2>4, <2>7, <2>8, <2>9 DEF FrameInv
  <2>11. StrideInv'
    <3> SUFFICES ASSUME lastOut # 0
                 PROVE  /\ LastSample' = lastOut + Len(frame') + shape.skip
                        /\ ReadCount >= - shape.skip => \A i \in 1 .. Len(frame') : frame'[i] # 0
      BY <2>4, <2>7 DEF StrideInv
    <3>1. /\ Taken = lastOut + n + shape.skip
          /\ ReadCount >= - shape.skip => \A i \in 1 .. n : frame[i] # 0
      BY <2>3 DEF StrideInv
    <3>2. lastOut \in Int /\ shape.skip \in Int /\ n \in Int /\ toRead \in Int
      BY <2>1, <2>3 DEF TypeOK
    <3>3. LastSample' = lastOut + Len(frame') + shape.skip
      BY <2>7, <2>9, <3>1, <3>2
    <3> QED
      BY <2>9, <3>1, <3>3
  <2> QED
    BY <2>10, <2>11 DEF GatherInv
<1>10. CASE BufferSkip
  <2>1. /\ shape.keep \in Nat /\ shape.keep >= 1 /\ shape.skip \in Int
        /\ shape.keep + shape.skip > 0 /\ - shape.skip <= shape.keep /\ Overlap \in Nat
        /\ ReadCount \in Nat /\ ReadCount >= 1 /\ ReadCount + Overlap = shape.keep
    BY ShapeFacts, ReadCountFacts DEF TypeOK
  <2>2. /\ InFrame /\ InFrame' /\ UNCHANGED <<frame, shape, lastOut>> /\ skipping' = TRUE
        /\ shape.skip > 0 /\ ~skipping /\ rpc' # "copy" /\ rpc' # "loop"
    BY <1>10 DEF BufferSkip, control, InFrame, Waiting, Transferring
  <2>3. Rest = 0 /\ Rest' = shape.skip
    BY <1>10, <2>1 DEF BufferSkip, Rest, ReadInv
  <2>4. Taken' = Taken /\ Taken \in Int
    BY <1>10, TakenNext, FillFacts DEF BufferSkip, Taken
  <2>5. LastSample' = LastSample
    BY <1>10, <2>1, <2>2, <2>3, <2>4 DEF BufferSkip, LastSample
  <2>6. UNCHANGED <<Overlap, ReadCount>>
    BY <2>2 DEF Overlap, ReadCount
  <2>7. FrameInv'
    BY <2>1, <2>2, <2>5, <2>6, <2>3 DEF FrameInv
  <2>8. StrideInv'
    BY <2>2, <2>5, <2>6 DEF StrideInv
  <2> QED
    BY <2>7, <2>8 DEF GatherInv
<1>11. CASE BufferSwap
  <2>1. /\ shape.keep \in Nat /\ shape.keep >= 1 /\ shape.skip \in Int
        /\ shape.keep + shape.skip > 0 /\ - shape.skip <= shape.keep /\ Overlap \in Nat
        /\ ReadCount \in Nat /\ ReadCount >= 1 /\ ReadCount + Overlap = shape.keep
    BY ShapeFacts, ReadCountFacts DEF TypeOK
  <2>2. frame \in Seq(Nat) /\ UNCHANGED <<frame, shape>>
    BY <1>11 DEF BufferSwap, control, FrameInv
  <2>3. CASE rpc' = "off"
    BY <2>2, <2>3, FrameIdle
  <2>4. CASE rpc' = "loop" /\ lastOut' = frame[shape.keep]
    <3>1. InFrame /\ Rest = 0
      BY <1>11 DEF BufferSwap, InFrame, Rest, ReadInv
    <3>2. Len(frame) = shape.keep /\ (skipping => shape.skip > 0)
      BY <1>11, <2>1, <3>1 DEF BufferSwap, FrameInv
    <3>3. Overlap < shape.keep
      BY <2>1
    <3>4. /\ \A i \in 1 .. shape.keep : i > Overlap => frame[i] # 0
          /\ frame[shape.keep] # 0 => frame[shape.keep] = LastSample
      BY <2>1, <3>1, <3>2 DEF FrameInv
    <3>5. frame[shape.keep] # 0 /\ frame[shape.keep] = LastSample
      BY <2>1, <3>3, <3>4
    <3>6. Taken' = Taken /\ Taken \in Int
      BY <1>11, TakenNext, FillFacts DEF BufferSwap, Taken
    <3>7. LastSample = Taken' - (IF shape.skip > 0 THEN shape.skip ELSE 0)
      BY <1>11, <2>1, <3>1, <3>2, <3>6 DEF BufferSwap, LastSample
    <3>8. \A i \in 1 .. Len(frame) : frame[i] # 0 /\ i < Len(frame) => frame[i + 1] = frame[i] + 1
      BY <3>1 DEF FrameInv
    <3>9. ~ InFrame' /\ UNCHANGED Overlap
      BY <2>2, <2>4 DEF InFrame, Waiting, Transferring, Overlap
    <3>10. FrameInv'
      BY <2>2, <2>4, <3>2, <3>4, <3>5, <3>7, <3>8, <3>9 DEF FrameInv
    <3> QED
      BY <3>9, <3>10 DEF GatherInv, StrideInv
  <2> QED
    BY <1>11, <2>3, <2>4 DEF BufferSwap
<1>12. CASE BufferExit
  BY <1>12, FrameIdle DEF BufferExit, framing, FrameInv
<1>13. CASE Start
  <2>1. shape.keep \in Nat /\ shape' = shape
    BY <1>13, ShapeFacts DEF Start, TypeOK
  <2>2. /\ frame' \in Seq(Nat) /\ Len(frame') = shape.keep /\ lastOut' = 0 /\ rpc' = "loop"
        /\ \A i \in 1 .. shape.keep : frame'[i] = 0
    BY <1>13, <2>1 DEF Start
  <2> QED
    BY <2>1, <2>2 DEF GatherInv, FrameInv, StrideInv, InFrame, Waiting, Transferring
<1>14. CASE StopRing
  <2>1. UNCHANGED <<frame, shape, lastOut, skipping, rleft, toRead>> /\ Taken' = Taken
    BY <1>14, TakenNext DEF StopRing, NotifyReader, StopReader, fill, writer, streams, framing
  <2>2. CASE rpc = "asleep"
    <3>1. InFrame /\ InFrame' /\ Rest' = Rest /\ LastSample' = LastSample /\ rpc' # "copy"
      BY <1>14, <2>1, <2>2 DEF StopRing, StopReader, NotifyReader, InFrame, Waiting,
         Transferring, Rest, LastSample
    <3> QED
      BY <2>1, <3>1, FrameKept
  <2>3. CASE UNCHANGED rpc
    BY <2>1, <2>3 DEF GatherInv, FrameInv, StrideInv, LastSample, Rest, InFrame, Overlap,
       ReadCount
  <2> QED
    BY <1>14, <2>2, <2>3 DEF StopRing, StopReader, NotifyReader
<1>15. CASE Join
  <2>1. frame' \in Seq(Nat) /\ rpc' = "off"
    BY <1>15 DEF Join, reader
  <2> QED
    BY <2>1, FrameIdle
<1>16. CASE SetShape
  <2>1. frame' \in Seq(Nat) /\ rpc' = "off"
    BY <1>16 DEF SetShape, reader, framing, CtlInv, FrameInv
  <2> QED
    BY <2>1, FrameIdle
<1>17. CASE \/ RunRead \/ (WriteTest /\ Outside) \/ (WriteRoom /\ Outside)
            \/ (WritePred /\ Outside) \/ (WriteSleep /\ Outside) \/ (WriteCopy /\ Outside)
            \/ (WritePublish /\ Outside) \/ (WriteDebit /\ Outside) \/ RunFlush \/ StopInput
            \/ StopOutput \/ StopRingWriter \/ Produce \/ Consume
            \/ UNCHANGED vars
  <2>1. UNCHANGED <<rpc, toRead, rleft, shape, skipping, frame, lastOut>>
    BY <1>17 DEF RunRead, WriteTest, Outside, WriteRoom, WritePred, WriteSleep, WriteCopy,
       WritePublish, WriteDebit, RunFlush, StopInput, StopOutput, StopRingWriter,
       NotifyWriter, StopWriter, Produce, Consume, vars, fill, reader, writer, stops, control,
       streams, framing, ring
  <2> QED
    BY <2>1, TakenNext DEF GatherInv, FrameInv, StrideInv, LastSample, Rest, InFrame, Overlap,
       ReadCount
<1> QED
  BY NextCases, <1>1, <1>2, <1>3, <1>4, <1>5, <1>6, <1>7, <1>8, <1>9, <1>10, <1>11, <1>12,
     <1>13, <1>14, <1>15, <1>16, <1>17

\* The repeated samples of a frame that begins: each was divided again.
LEMMA ScaleLoop ==
  ASSUME IInv, ScaleInv, BufferLoop
  PROVE  ScaleInv'
<1> DEFINE k == shape.keep
           s == shape.skip
<1>1. /\ k \in Nat /\ k >= 1 /\ s \in Int /\ k + s > 0 /\ - s <= k /\ Overlap \in Nat
      /\ ReadCount \in Nat /\ ReadCount >= 1 /\ ReadCount + Overlap = k
  BY ShapeFacts, ReadCountFacts DEF IInv, RingInv, TypeOK
<1>2. /\ frame \in Seq(Nat) /\ Len(frame) = k /\ shape' = shape /\ rpc = "loop"
      /\ tenths \in Seq(Nat) /\ Len(tenths) = k
  BY DEF BufferLoop, control, IInv, GatherInv, FrameInv, ScaleInv
<1>3. UNCHANGED <<Overlap, ReadCount>>
  BY <1>2 DEF Overlap, ReadCount
<1>4. CASE s >= 0
  <2>1. frame' = <<>> /\ tenths' = <<>>
    BY <1>1, <1>4 DEF BufferLoop
  <2> QED
    BY <2>1 DEF ScaleInv
<1>5. CASE s < 0
  <2>1. Overlap = - s /\ ReadCount = k + s
    BY <1>1, <1>5 DEF Overlap
  <2>2. /\ Len(frame') = Overlap
        /\ \A i \in 1 .. Overlap : frame'[i] = frame[ReadCount + i]
    <3>1. frame' = SubSeq(frame, k + s + 1, k)
      BY <1>5 DEF BufferLoop
    <3> HIDE DEF k, s
    <3> QED
      BY <1>1, <1>2, <1>5, <2>1, <3>1, SkipLen
  <2>3. tenths' = [i \in 1 .. Overlap |-> tenths[ReadCount + i] + Divisions]
    BY <1>5, <2>1 DEF BufferLoop
  <2>4. ASSUME NEW i \in 1 .. Overlap
        PROVE  /\ ReadCount + i \in 1 .. Len(frame) /\ ReadCount + i = i + ReadCount
               /\ tenths[ReadCount + i] \in Nat
    <3>1. ReadCount + i \in 1 .. k /\ ReadCount + i = i + ReadCount
      BY <1>1
    <3> HIDE DEF k
    <3> QED
      BY <1>2, <3>1
  <2>5. Divisions \in Nat /\ (Attenuated => Divisions = 1) /\ (~Attenuated => Divisions = 0)
    BY DEF Divisions
  <2>6. tenths' \in Seq(Nat) /\ Len(tenths') = Overlap
    <3>1. \A i \in 1 .. Overlap : tenths[ReadCount + i] + Divisions \in Nat
      BY <2>4, <2>5
    <3>2. Overlap \in Nat
      BY <1>1
    <3> QED
      BY <2>3, <3>1, <3>2
  <2>7. ASSUME NEW i \in 1 .. Overlap
        PROVE  /\ ~Attenuated => tenths'[i] = 0
               /\ Attenuated /\ frame'[i] # 0 =>
                    tenths'[i] = 1 + (IF i + ReadCount <= Overlap THEN tenths'[i + ReadCount] ELSE 0)
    <3> DEFINE j == i + ReadCount
    <3>1. /\ j \in 1 .. Len(frame) /\ j \in Nat /\ tenths'[i] = tenths[j] + Divisions
          /\ frame'[i] = frame[j] /\ tenths[j] \in Nat
      BY <2>2, <2>3, <2>4, <1>1
    <3>2. CASE ~Attenuated
      BY <1>2, <2>5, <3>1, <3>2 DEF ScaleInv
    <3>3. CASE Attenuated /\ frame'[i] # 0 /\ j > Overlap
      <4>1. tenths[j] = 0
        BY <1>2, <3>1, <3>3 DEF ScaleInv
      <4> QED
        BY <1>1, <2>5, <3>1, <3>3, <4>1
    <3>4. CASE Attenuated /\ frame'[i] # 0 /\ j <= Overlap
      <4>1. /\ j \in 1 .. Overlap
            /\ tenths[j] = 1 + (IF j + ReadCount <= Overlap THEN tenths[j + ReadCount] ELSE 0)
        <5>1. j \in 1 .. Overlap /\ frame[j] # 0
          BY <1>1, <3>1, <3>4
        <5> HIDE DEF j
        <5> QED
          BY <1>2, <3>1, <3>4, <5>1 DEF ScaleInv
      <4>2. /\ tenths'[j] = tenths[j + ReadCount] + 1
            /\ j + ReadCount \in 1 .. Len(frame) /\ tenths[j + ReadCount] \in Nat
        <5> HIDE DEF j
        <5>1. ReadCount + j \in 1 .. Len(frame) /\ tenths[ReadCount + j] \in Nat
          BY <2>4, <4>1
        <5>2. j + ReadCount = ReadCount + j
          BY <1>1, <4>1
        <5>3. tenths'[j] = tenths[ReadCount + j] + Divisions
          BY <2>3, <4>1
        <5> QED
          BY <2>5, <3>4, <5>1, <5>2, <5>3
      <4>3. j + ReadCount > Overlap => tenths[j + ReadCount] = 0
        BY <1>2, <4>2 DEF ScaleInv
      <4>4. tenths[j] = tenths[j + ReadCount] + 1
        BY <1>1, <4>1, <4>2, <4>3
      <4> QED
        BY <2>5, <3>1, <3>4, <4>2, <4>4
    <3> QED
      BY <1>1, <3>1, <3>2, <3>3, <3>4
  <2> QED
    BY <1>1, <1>3, <2>2, <2>6, <2>7 DEF ScaleInv
<1> QED
  BY <1>1, <1>4, <1>5

\* The samples put behind what the frame has are not divided.
LEMMA ScaleCopy ==
  ASSUME IInv, ScaleInv, BufferCopy
  PROVE  ScaleInv'
<1> DEFINE n == Len(frame)
           t == [i \in 1 .. toRead |-> Slot(readc, i - 1)]
           z == [i \in 1 .. toRead |-> 0]
<1>1. /\ frame \in Seq(Nat) /\ tenths \in Seq(Nat) /\ Len(tenths) = n /\ n \in Nat
      /\ toRead \in Nat /\ InFrame /\ n >= Overlap /\ UNCHANGED shape
  BY DEF IInv, RingInv, TypeOK, RingTypeOK, GatherInv, FrameInv, ScaleInv, BufferCopy, InFrame,
     Transferring, control
<1>2. UNCHANGED <<Overlap, ReadCount>> /\ Overlap \in Nat /\ ReadCount \in Nat
  BY <1>1, ReadCountFacts DEF Overlap, ReadCount, IInv, RingInv, TypeOK
<1>3. t \in Seq(Nat) /\ Len(t) = toRead /\ z \in Seq(Nat) /\ Len(z) = toRead
  BY <1>1, SlotsNat DEF IInv, RingInv
<1>4. frame' = frame \o t /\ tenths' = tenths \o z
  BY DEF BufferCopy
<1>5. \A i \in 1 .. toRead : z[i] = 0
  OBVIOUS
<1> HIDE DEF t, z
<1>6. /\ Len(frame') = n + toRead /\ tenths' \in Seq(Nat) /\ Len(tenths') = n + toRead
      /\ \A i \in 1 .. n : frame'[i] = frame[i] /\ tenths'[i] = tenths[i]
      /\ \A i \in n + 1 .. n + toRead : tenths'[i] = z[i - n]
  <2>1. frame \in Seq(Nat) /\ tenths \in Seq(Nat) /\ t \in Seq(Nat) /\ z \in Seq(Nat)
    BY <1>1, <1>3
  <2>2. /\ Len(frame \o t) = Len(frame) + Len(t)
        /\ \A i \in 1 .. Len(frame) : (frame \o t)[i] = frame[i]
    BY <2>1, ConcatFacts
  <2>3. /\ tenths \o z \in Seq(Nat) /\ Len(tenths \o z) = Len(tenths) + Len(z)
        /\ \A i \in 1 .. Len(tenths) : (tenths \o z)[i] = tenths[i]
        /\ \A i \in Len(tenths) + 1 .. Len(tenths) + Len(z) :
             (tenths \o z)[i] = z[i - Len(tenths)]
    BY <2>1, ConcatFacts
  <2> QED
    BY <1>1, <1>3, <1>4, <2>2, <2>3
<1>7. \A i \in n + 1 .. n + toRead : tenths'[i] = 0 /\ i > Overlap
  <2> SUFFICES ASSUME NEW i \in n + 1 .. n + toRead PROVE tenths'[i] = 0 /\ i > Overlap
    OBVIOUS
  <2>1. i - n \in 1 .. toRead /\ i > Overlap
    BY <1>1, <1>2
  <2> QED
    BY <1>5, <1>6, <2>1
<1>8. ASSUME NEW i \in 1 .. n
      PROVE  /\ ~Attenuated \/ i > Overlap => tenths[i] = 0
             /\ Attenuated /\ i <= Overlap /\ frame[i] # 0 =>
                  tenths[i] = 1 + (IF i + ReadCount <= Overlap THEN tenths'[i + ReadCount] ELSE 0)
  <2>1. i + ReadCount <= Overlap => i + ReadCount \in 1 .. n
    BY <1>1, <1>2
  <2>2. i + ReadCount <= Overlap => tenths'[i + ReadCount] = tenths[i + ReadCount]
    BY <1>6, <2>1
  <2> QED
    BY <1>1, <2>2 DEF ScaleInv
<1>9. ASSUME NEW i \in 1 .. n + toRead
      PROVE  /\ ~Attenuated \/ i > Overlap => tenths'[i] = 0
             /\ Attenuated /\ i <= Overlap /\ frame'[i] # 0 =>
                  tenths'[i] = 1 + (IF i + ReadCount <= Overlap THEN tenths'[i + ReadCount] ELSE 0)
  <2>1. CASE i \in 1 .. n
    BY <1>6, <1>8, <2>1
  <2>2. CASE i \in n + 1 .. n + toRead
    BY <1>2, <1>7, <2>2
  <2> HIDE DEF n
  <2> QED
    BY <1>1, <2>1, <2>2
<1> HIDE DEF n
<1> QED
  BY <1>2, <1>6, <1>9 DEF ScaleInv

\* Every step keeps the account of the divisions.
LEMMA ScaleInvNext ==
  ASSUME IInv, ScaleInv, [Next]_vars
  PROVE  ScaleInv'
<1>1. CASE BufferLoop
  BY <1>1, ScaleLoop
<1>2. CASE BufferCopy
  BY <1>2, ScaleCopy
<1>3. CASE Start
  <2>1. shape.keep \in Nat /\ shape' = shape
    BY <1>3, ShapeFacts DEF Start, IInv, RingInv, TypeOK
  <2>2. /\ tenths' \in Seq(Nat) /\ Len(frame') = shape.keep /\ Len(tenths') = shape.keep
        /\ \A i \in 1 .. shape.keep : tenths'[i] = 0 /\ frame'[i] = 0
    BY <1>3, <2>1 DEF Start
  <2> QED
    BY <2>1, <2>2 DEF ScaleInv
<1>4. CASE Join
  <2>1. frame' = <<>> /\ tenths' = <<>>
    BY <1>4 DEF Join
  <2> QED
    BY <2>1 DEF ScaleInv
<1>5. CASE SetShape
  <2>1. UNCHANGED <<frame, tenths>> /\ rpc' = "off"
    BY <1>5 DEF SetShape, reader, framing, IInv, RingInv, CtlInv
  <2> QED
    BY <2>1 DEF ScaleInv, InFrame, Waiting, Transferring
<1>6. CASE ~(BufferLoop \/ BufferCopy \/ Start \/ Join \/ SetShape)
  <2>1. UNCHANGED <<frame, tenths, shape>> /\ (InFrame' \/ rpc' = "loop" => InFrame \/ rpc = "loop")
    BY NextCases, <1>6 DEF RunRead, RunFlush, WriteTest, WriteRoom, WritePred, WriteSleep,
       WriteCopy, WritePublish, WriteDebit, WriteAdvance, BufferSkip, BufferSwap, BufferExit,
       ReadTest, ReadPred, ReadSleep, ReadTake, ReadCredit, ReadAdvance, Found, AfterFound,
       StopInput, StopRing, StopOutput, StopRingWriter, StopReader, StopWriter, NotifyReader,
       NotifyWriter, Produce, Consume, Outside, vars, ring, fill, reader, writer, stops, control,
       streams, framing, InFrame, Waiting, Transferring
  <2>2. UNCHANGED <<Overlap, ReadCount>>
    BY <2>1 DEF Overlap, ReadCount
  <2> QED
    BY <2>1, <2>2 DEF ScaleInv
<1> QED
  BY <1>1, <1>2, <1>3, <1>4, <1>5, <1>6

\* The initial states satisfy the inductive invariant.
LEMMA InitIInv == Init => IInv
<1> SUFFICES ASSUME Init PROVE IInv
  OBVIOUS
<1> USE SizeAssumption DEF Init, RingInit
<1>1. shape \in Shapes /\ shape.keep \in Nat /\ shape.keep >= 1 /\ maxLatency \in Latencies
  BY ShapeFacts
<1>2. TypeOK
  <2>1. /\ stopReader \in BOOLEAN /\ stopWriter \in BOOLEAN /\ running \in BOOLEAN
        /\ inStop \in BOOLEAN /\ outFull \in BOOLEAN /\ outStop \in BOOLEAN /\ skipping \in BOOLEAN
    BY Zenon
  <2>2. 0 \in 0 .. MaxSamples /\ 0 \in 0 .. MaxPacket /\ 0 \in 0 .. Size - 1 /\ 0 \in 0 .. Size
    BY SamplesAssumption, MaxPacketFact
  <2>3. 0 \in 0 .. 2 * Size /\ Size \in 0 .. 2 * Size /\ Len(frame) <= shape.keep
    BY <1>1
  <2>4. buffer \in [0 .. Size - 1 -> 0 .. MaxSamples]
    BY <2>2
  <2> QED
    BY <1>1, <2>1, <2>2, <2>3, <2>4 DEF TypeOK, RingTypeOK, Idle, ReadPcs, WritePcs
<1>3. CtlInv /\ ReadInv /\ WriteInv
  BY <1>1 DEF CtlInv, ReadInv, WriteInv, Waiting, Transferring, Storing
<1>4. FillInv
  BY DEF FillInv, Published, ToCopy
<1>5. SlotInv
  BY DEF SlotInv, ReadPos, WritePos, Wrap
<1>6. GatherInv
  BY DEF GatherInv, FrameInv, StrideInv, InFrame, Waiting, Transferring
<1> QED
  BY <1>2, <1>3, <1>4, <1>5, <1>6 DEF IInv, RingInv

\* Every step preserves the inductive invariant.
LEMMA NextIInv == IInv /\ [Next]_vars => IInv'
  BY TypeOKNext, CtlInvNext, ReadInvNext, WriteInvNext, FillInvNext, SlotInvNext,
     GatherInvNext DEF IInv, RingInv

-----------------------------------------------------------------------------
(***************************************************************************)
(* The theorems.                                                           *)
(***************************************************************************)

\* In every reachable state the counters, the positions, the slots and the
\* frame stand in the relations of IInv.
THEOREM ReshaperInvariant == Spec => []IInv
  BY InitIInv, NextIInv, PTL DEF Spec

\* The variables keep their types; in particular neither counter leaves its
\* range (ring_buffer.h read, write).
THEOREM ReshaperTypeOK == Spec => []TypeOK
<1>1. IInv => TypeOK
  BY DEF IInv, RingInv
<1> QED
  BY <1>1, ReshaperInvariant, PTL

\* While one thread copies out of the ring the other does not copy into the
\* same slots, and the two counters add up (ring_buffer.h read, write).
THEOREM SlotsAreNotShared == Spec => []SlotsAccounted
<1>1. ASSUME RingInv PROVE SlotsAccounted
  <2> USE SizeAssumption DEF RingInv
  <2>1. /\ readable + writable
             = Size - (IF rpc = "credit" THEN toRead ELSE 0) + (IF wpc = "debit" THEN toWrite ELSE 0)
    BY <1>1 DEF FillInv
  <2>2. ASSUME rpc = "copy", wpc = "copy", NEW i \in 0 .. toRead - 1, NEW j \in 0 .. toWrite - 1
        PROVE  (readc + i) % Size # (writec + j) % Size
    <3>1. /\ readc \in 0 .. Size - 1 /\ writec \in 0 .. Size - 1
          /\ toRead \in 0 .. Size /\ toWrite \in 0 .. Size /\ readable \in 0 .. Size
          /\ toRead <= readable /\ readable + toWrite <= Size
      BY <1>1, <2>2, FillFacts DEF TypeOK, RingTypeOK
    <3>2. writec = Wrap(readc + readable)
      BY <1>1, <2>2, <3>1 DEF SlotInv, ReadPos, WritePos, Wrap
    <3>3. (readc + i) % Size = Wrap(readc + i) /\ (writec + j) % Size = Wrap(writec + j)
      <4>1. readc + i \in 0 .. 2 * Size - 1 /\ writec + j \in 0 .. 2 * Size - 1
        BY <3>1
      <4> QED
        BY <4>1, WrapMod
    <3> QED
      BY <3>1, <3>2, <3>3 DEF Wrap
  <2>3. rpc = "copy" /\ wpc = "copy" => Run(readc, toRead) \cap Run(writec, toWrite) = {}
    BY <2>2 DEF Run
  <2> QED
    BY <2>1, <2>3 DEF SlotsAccounted
<1> QED
  BY <1>1, ReshaperInvariant, PTL DEF IInv

\* What a frame repeats was divided by ten once per repetition, and nothing else
\* was (reshaper.h bufferWorker).
THEOREM RepeatedSamplesFade == Spec => []ScaleInv
<1>1. Init => ScaleInv
  BY DEF Init, RingInit, ScaleInv
<1> QED
  BY <1>1, ScaleInvNext, ReshaperInvariant, PTL DEF Spec

\* Every frame ends a stride after the one before it and holds consecutive
\* samples; uninitialised ones leave in the first frame only, if frames overlap
\* by no more than half; and exactly the repeated samples of a complex_t or
\* stereo_t stream are divided by ten, once per repetition (reshaper.h
\* bufferWorker).
THEOREM FramesKeepTheStride == Spec => []FrameStride
<1>1. ASSUME IInv, ScaleInv PROVE FrameStride
  <2> SUFFICES ASSUME rpc = "done", skipping \/ shape.skip <= 0
               PROVE  /\ Len(frame) = shape.keep
                      /\ \A i \in 1 .. shape.keep - 1 : frame[i] # 0 => frame[i + 1] = frame[i] + 1
                      /\ lastOut # 0 => frame[shape.keep] = lastOut + shape.keep + shape.skip
                      /\ lastOut # 0 /\ ReadCount >= - shape.skip =>
                           \A i \in 1 .. shape.keep : frame[i] # 0
                      /\ \A i \in 1 .. shape.keep : frame[i] # 0 =>
                           tenths[i] = IF Attenuated /\ i <= - shape.skip
                                       THEN tenths[i + shape.keep + shape.skip] + 1 ELSE 0
    BY DEF FrameStride
  <2> USE DEF IInv, RingInv, GatherInv
  <2>1. /\ shape.keep \in Nat /\ shape.keep >= 1 /\ shape.skip \in Int
        /\ Overlap \in Nat /\ ReadCount \in Nat /\ ReadCount >= 1
        /\ ReadCount + Overlap = shape.keep
    BY <1>1, ShapeFacts, ReadCountFacts DEF TypeOK
  <2>2. InFrame /\ Rest = 0
    BY <1>1 DEF InFrame, Rest, ReadInv
  <2>3. Len(frame) = shape.keep
    BY <1>1, <2>1, <2>2 DEF FrameInv
  <2>4. \A i \in 1 .. shape.keep - 1 : frame[i] # 0 => frame[i + 1] = frame[i] + 1
    <3> SUFFICES ASSUME NEW i \in 1 .. shape.keep - 1, frame[i] # 0
                 PROVE  frame[i + 1] = frame[i] + 1
      OBVIOUS
    <3>1. i \in 1 .. Len(frame) /\ i < Len(frame)
      BY <2>1, <2>3
    <3> QED
      BY <1>1, <2>2, <3>1 DEF FrameInv
  <2>5. frame[shape.keep] = LastSample
    BY <1>1, <2>1, <2>2, <2>3 DEF FrameInv
  <2>6. ASSUME NEW i \in 1 .. shape.keep, frame[i] # 0
        PROVE  tenths[i] = IF Attenuated /\ i <= - shape.skip
                           THEN tenths[i + shape.keep + shape.skip] + 1 ELSE 0
    <3>1. /\ ~Attenuated \/ i > Overlap => tenths[i] = 0
          /\ Attenuated /\ i <= Overlap =>
               tenths[i] = 1 + (IF i + ReadCount <= Overlap THEN tenths[i + ReadCount] ELSE 0)
      BY <1>1, <2>2, <2>3, <2>6 DEF ScaleInv
    <3>2. CASE i <= - shape.skip
      <4>1. i <= Overlap /\ i + shape.keep + shape.skip = i + ReadCount /\ i + ReadCount \in 1 .. shape.keep
        BY <2>1, <3>2 DEF Overlap
      <4>2. tenths[i + ReadCount] \in Nat
        BY <1>1, <2>3, <4>1 DEF ScaleInv
      <4>3. Attenuated /\ i + ReadCount > Overlap => tenths[i + ReadCount] = 0
        BY <1>1, <2>2, <2>3, <4>1 DEF ScaleInv
      <4> QED
        BY <2>1, <3>1, <3>2, <4>1, <4>2, <4>3
    <3>3. CASE i > - shape.skip
      BY <2>1, <3>1, <3>3 DEF Overlap
    <3> QED
      BY <2>1, <3>2, <3>3
  <2> QED
    BY <1>1, <2>2, <2>3, <2>4, <2>5, <2>6 DEF StrideInv
<1> QED
  BY <1>1, ReshaperInvariant, RepeatedSamplesFade, PTL

-----------------------------------------------------------------------------
(***************************************************************************)
(* The ring implements SampleQueue.                                        *)
(***************************************************************************)

\* The next n samples after T.
Samples(T, n) == [i \in 1 .. n |-> T + i]

LEMMA SamplesSeq ==
  ASSUME NEW T \in Nat, NEW n \in Nat
  PROVE  Samples(T, n) \in Seq(Nat) /\ Len(Samples(T, n)) = n
  BY DEF Samples

LEMMA SamplesPut ==
  ASSUME NEW T \in Nat, NEW r \in Nat, NEW n \in Nat
  PROVE  Samples(T, r + n) = Samples(T, r) \o Samples(T + r, n)
  BY DEF Samples

LEMMA SamplesTake ==
  ASSUME NEW T \in Nat, NEW r \in Nat, NEW n \in 1 .. r
  PROVE  Samples(T + n, r - n) = SubSeq(Samples(T, r), n + 1, r)
  BY DEF Samples

\* A position and an offset, within three laps.
LEMMA WrapTwice ==
  ASSUME NEW x \in 0 .. 2 * Size - 1, NEW i \in 0 .. Size - 1
  PROVE  (x + i) % Size = Wrap(Wrap(x) + i)
<1> USE SizeAssumption
<1> DEFINE y == x + i
<1>1. CASE y < Size
  BY <1>1 DEF Wrap
<1>2. CASE y >= Size /\ y < 2 * Size
  <2>1. y \in Size .. 2 * Size - 1
    BY <1>2
  <2> HIDE DEF y
  <2>2. y % Size = y - Size
    BY <2>1
  <2> QED
    BY <2>1, <2>2 DEF y, Wrap
<1>3. CASE y >= 2 * Size
  <2>1. y \in 2 * Size .. 3 * Size - 1
    BY <1>3
  <2> HIDE DEF y
  <2>2. y % Size = y - 2 * Size
    BY <2>1
  <2> QED
    BY <2>1, <2>2 DEF y, Wrap
<1> QED
  BY <1>1, <1>2, <1>3

\* The ring holds the samples that were published and not taken, in order.
ContentsInv ==
  /\ Contents = Samples(Taken, readable) /\ Taken \in Nat /\ readable \in Nat
  /\ Published = Taken + readable

LEMMA ContentsAreSamples == RingInv => ContentsInv
<1> SUFFICES ASSUME RingInv PROVE ContentsInv
  OBVIOUS
<1> USE SizeAssumption DEF RingInv
<1> DEFINE h == IF rpc \in {"credit", "advance"} THEN readc + toRead ELSE readc
<1>1. Taken \in Nat /\ readable \in Nat /\ readable <= Size /\ Published = Taken + readable
  BY FillFacts DEF Taken
<1>2. h \in 0 .. 2 * Size - 1 /\ ReadPos = Wrap(h)
  BY DEF ReadPos, TypeOK, RingTypeOK
<1>3. Contents = [i \in 1 .. readable |-> Slot(h, i - 1)]
  BY DEF Contents
<1> HIDE DEF h
<1>4. ASSUME NEW i \in 1 .. readable PROVE Slot(h, i - 1) = Taken + i
  <2> DEFINE j == i - 1
  <2>1. j \in 0 .. Size - 1 /\ j < readable
    BY <1>1
  <2> HIDE DEF j
  <2>2. Slot(h, j) = buffer[Wrap(ReadPos + j)]
    BY <1>2, <2>1, WrapTwice DEF Slot
  <2>3. buffer[Wrap(ReadPos + j)] = Published - readable + j + 1
    BY <2>1 DEF SlotInv
  <2> QED
    BY <1>1, <2>2, <2>3 DEF j, Taken
<1> QED
  BY <1>1, <1>3, <1>4 DEF Samples, ContentsInv

LEMMA ContentsStaySamples == RingInv' => ContentsInv'
  BY ContentsAreSamples, PTL

\* readable += toWrite puts a run.
LEMMA PublishPuts ==
  ASSUME IInv, IInv', WritePublish /\ Outside, [Next]_vars
  PROVE  Queue!Put
<1>1. /\ Contents = Samples(Taken, readable) /\ Contents' = Samples(Taken', readable')
      /\ Taken \in Nat /\ readable \in Nat /\ Published = Taken + readable
      /\ Published' = Taken' + readable'
  BY ContentsAreSamples, ContentsStaySamples DEF ContentsInv, IInv
<1>2. /\ readable' = readable + toWrite /\ toWrite \in Nat /\ 1 <= toWrite
      /\ Len(Contents) = readable /\ UNCHANGED maxLatency
      /\ readable + toWrite <= Size /\ readable + toWrite <= maxLatency
  BY <1>1, FillFacts, SamplesSeq DEF WritePublish, IInv, RingInv, WriteInv, Storing
<1>3. Taken' = Taken
  BY <1>1, <1>2, FillFacts DEF WritePublish, Taken, Published, IInv, RingInv, TypeOK,
     RingTypeOK
<1>4. Contents' = Contents \o [i \in 1 .. toWrite |-> Published + i]
  BY <1>1, <1>2, <1>3, SamplesPut DEF Samples
<1>5. Published' = Published + toWrite /\ toWrite \in 1 .. Size
  BY <1>1, <1>2, <1>3, SizeAssumption
<1> QED
  BY <1>2, <1>4, <1>5 DEF Queue!Put

\* readable -= toRead takes one.
LEMMA TakeTakes ==
  ASSUME IInv, IInv', ReadTake /\ Outside, [Next]_vars
  PROVE  Queue!Take
<1>1. /\ Contents = Samples(Taken, readable) /\ Contents' = Samples(Taken', readable')
      /\ Taken \in Nat /\ readable \in Nat /\ Published = Taken + readable
  BY ContentsAreSamples, ContentsStaySamples DEF ContentsInv, IInv
<1>2. /\ readable' = readable - toRead /\ toRead \in 1 .. readable
      /\ Len(Contents) = readable /\ UNCHANGED <<maxLatency, Published>>
  BY <1>1, FillFacts, SamplesSeq DEF ReadTake, IInv, RingInv, ReadInv, Transferring, writer,
     Published
<1>3. Taken' = Taken + toRead
  BY <1>1, <1>2, FillFacts DEF Taken, IInv
<1>4. Contents' = SubSeq(Contents, toRead + 1, Len(Contents))
  BY <1>1, <1>2, <1>3, SamplesTake
<1> QED
  BY <1>2, <1>4 DEF Queue!Take

\* The ring, with its counters kept apart under two mutexes and its runs copied
\* in one or two pieces, is a queue of samples within its capacity and latency
\* limit (ring_buffer.h).
THEOREM RingImplementsQueue == Spec => RingIsQueue
<1>1. Init => Queue!Init
  <2> SUFFICES ASSUME Init PROVE Queue!Init
    OBVIOUS
  <2>1. IInv /\ readable = 0 /\ Published = 0
    BY InitIInv DEF Init, RingInit, Published
  <2>2. Contents = << >>
    BY <2>1, ContentsAreSamples DEF Samples, ContentsInv, IInv
  <2>3. maxLatency \in Nat
    BY <2>1, LatencyFacts DEF IInv, RingInv
  <2> QED
    BY <2>1, <2>2, <2>3 DEF Queue!Init
<1>2. IInv /\ IInv' /\ [Next]_vars => [Queue!Next]_(Queue!vars)
  <2> SUFFICES ASSUME IInv, IInv', [Next]_vars PROVE [Queue!Next]_(Queue!vars)
    OBVIOUS
  <2>1. CASE WritePublish /\ Outside
    BY <2>1, PublishPuts DEF Queue!Next
  <2>2. CASE ReadTake /\ Outside
    BY <2>2, TakeTakes DEF Queue!Next
  <2>3. CASE UNCHANGED <<readable, Published>>
    <3>1. UNCHANGED <<Contents, Published>>
      BY <2>3, ContentsAreSamples, ContentsStaySamples DEF ContentsInv, IInv, Taken
    <3>2. CASE UNCHANGED maxLatency
      BY <3>1, <3>2 DEF Queue!vars
    <3>3. CASE SetShape
      <4>1. maxLatency' \in Nat
        BY LatencyAssumption DEF IInv, RingInv, TypeOK, RingTypeOK
      <4> QED
        BY <3>1, <4>1 DEF Queue!Next, Queue!SetLimit
    <3> QED
      BY NextCases, <3>2, <3>3 DEF RunRead, WriteTest, Outside, WriteRoom, WritePred,
         WriteSleep, WriteDebit, WriteAdvance, NotifyReader, RunFlush, BufferLoop, ReadTest,
         ReadPred, ReadSleep, ReadCredit, ReadAdvance, NotifyWriter, BufferCopy, BufferSkip,
         BufferSwap, BufferExit, StopInput, StopRing, StopReader, StopOutput, StopRingWriter,
         StopWriter, Join, Produce, Consume, vars, fill, reader, writer, stops, control,
         streams, framing, ring, WriteCopy, WritePublish, ReadTake, Start
  <2>4. CASE WriteCopy /\ Outside
    BY <2>3, <2>4 DEF WriteCopy, Published, fill, IInv, RingInv, TypeOK, RingTypeOK
  <2>5. CASE Start
    BY <2>3, <2>5 DEF Start, Published, fill, IInv, RingInv, CtlInv
  <2> QED
    BY NextCases, <2>1, <2>2, <2>3, <2>4, <2>5 DEF RunRead, WriteTest, Outside, WriteRoom,
       WritePred, WriteSleep, WriteDebit, WriteAdvance, NotifyReader, RunFlush, BufferLoop,
       ReadTest, ReadPred, ReadSleep, ReadCredit, ReadAdvance, NotifyWriter, BufferCopy,
       BufferSkip, BufferSwap, BufferExit, StopInput, StopRing, StopReader, StopOutput,
       StopRingWriter, StopWriter, Join, SetShape, Produce, Consume, vars, fill, reader,
       writer, stops, control, streams, framing, ring, Published
<1> QED
  BY <1>1, <1>2, ReshaperInvariant, PTL DEF Spec, RingIsQueue, Queue!Spec

-----------------------------------------------------------------------------
(***************************************************************************)
(* No wake-up is lost between the two threads: the safety PacketsPass      *)
(* rests on.  A stop request can be lost (StopReturns); these are the      *)
(* wake-ups the threads owe each other.                                    *)
(***************************************************************************)
Dozing == {"sleeping", "asleep"}

\* A thread waits although it could go on only while the other is between the
\* change of the counter and its notification.
WakeInv ==
  /\ rpc = "sleeping" => readable = 0
  /\ rpc = "asleep" /\ readable # 0 => wpc \in {"debit", "advance"}
  /\ wpc = "sleeping" /\ Room(writable) # 0 => rpc = "credit"
  /\ wpc = "asleep" /\ Room(writable) # 0 => rpc \in {"credit", "advance"}

\* The reader sleeps on an empty ring, the writer on a full one or at the
\* latency limit, or their wake-up is under way; and the two never sleep at the
\* same time.
NoMissedWakeup ==
  WakeInv /\ ~(rpc \in Dozing /\ wpc \in Dozing)

\* What the steps leave alone of what the writer waits for.
LEMMA RoomStays ==
  ASSUME UNCHANGED <<readable, writable, maxLatency>>
  PROVE  Room(writable)' = Room(writable)
  BY DEF Room

\* A step preserves the relation between sleepers and counters.
LEMMA WakeInvNext ==
  ASSUME RingInv, WakeInv, [Next]_vars
  PROVE  WakeInv'
<1> USE DEF RingInv, WakeInv, Dozing
<1>1. CASE RunRead \/ RunFlush \/ BufferLoop \/ BufferCopy \/ BufferSkip \/ BufferSwap \/ BufferExit
  <2>1. UNCHANGED <<readable, writable, maxLatency>>
    BY <1>1 DEF RunRead, RunFlush, BufferLoop, BufferCopy, BufferSkip, BufferSwap, BufferExit, fill
  <2>2. /\ wpc' = wpc \/ wpc' \in {"off", "test", "loop"}
        /\ rpc' = rpc \/ rpc' \in {"off", "test", "loop", "take"}
        /\ wpc' = wpc => rpc' = rpc \/ rpc \in {"loop", "copy", "done", "failed"}
        /\ wpc' # wpc => rpc' = rpc /\ wpc \in {"loop", "done", "failed"}
    BY <1>1 DEF RunRead, RunFlush, BufferLoop, BufferCopy, BufferSkip, BufferSwap, BufferExit,
       reader, writer
  <2> QED
    BY <2>1, <2>2, RoomStays
<1>2. CASE (WriteTest \/ WriteRoom \/ WriteCopy) /\ Outside
  <2>1. UNCHANGED <<readable, writable, maxLatency, rpc>>
    BY <1>2 DEF WriteTest, WriteRoom, WriteCopy, fill, reader
  <2>2. wpc \in {"test", "room", "copy"} /\ wpc' \in {"failed", "room", "copy", "pred", "publish"}
    BY <1>2 DEF WriteTest, WriteRoom, WriteCopy
  <2> QED
    BY <2>1, <2>2
<1>3. CASE WritePred /\ Outside
  <2>1. UNCHANGED <<readable, writable, maxLatency, rpc>> /\ wpc = "pred"
    BY <1>3 DEF WritePred, fill, reader
  <2>2. wpc' \in {"failed", "copy"} \/ (wpc' = "sleeping" /\ Room(writable) = 0)
    BY <1>3 DEF WritePred
  <2> QED
    BY <2>1, <2>2, RoomStays
<1>4. CASE WriteSleep /\ Outside
  <2>1. UNCHANGED <<readable, writable, maxLatency, rpc>> /\ wpc = "sleeping" /\ wpc' = "asleep"
    BY <1>4 DEF WriteSleep, fill, reader
  <2> QED
    BY <2>1, RoomStays
<1>5. CASE WritePublish /\ Outside
  BY <1>5 DEF WritePublish, reader
<1>6. CASE WriteDebit /\ Outside
  BY <1>6 DEF WriteDebit, reader
<1>7. CASE WriteAdvance /\ Outside
  <2>1. /\ UNCHANGED readable /\ wpc = "advance" /\ wpc' \in {"done", "test"}
        /\ rpc' = IF rpc = "asleep" THEN "pred" ELSE rpc
    BY <1>7 DEF WriteAdvance, NotifyReader, fill
  <2> QED
    BY <2>1
<1>8. CASE ReadTest(AfterFound) /\ Outside
  <2>1. UNCHANGED <<readable, writable, maxLatency, wpc>> /\ rpc = "test"
    BY <1>8 DEF ReadTest, fill, writer
  <2>2. rpc' \in {"failed", "pred", "copy", "take"}
    BY <1>8 DEF ReadTest, Found, AfterFound
  <2> QED
    BY <2>1, <2>2, RoomStays
<1>9. CASE ReadPred(AfterFound) /\ Outside
  <2>1. UNCHANGED <<readable, writable, maxLatency, wpc>> /\ rpc = "pred"
    BY <1>9 DEF ReadPred, fill, writer
  <2>2. rpc' \in {"failed", "copy", "take"} \/ (rpc' = "sleeping" /\ readable = 0)
    BY <1>9 DEF ReadPred, Found, AfterFound
  <2> QED
    BY <2>1, <2>2, RoomStays
<1>10. CASE ReadSleep /\ Outside
  <2>1. UNCHANGED <<readable, writable, maxLatency, wpc>> /\ rpc = "sleeping" /\ rpc' = "asleep"
    BY <1>10 DEF ReadSleep, fill, writer
  <2> QED
    BY <2>1, RoomStays
<1>11. CASE (ReadTake \/ ReadCredit) /\ Outside
  <2>1. /\ UNCHANGED wpc
        /\ rpc' = "credit" \/ (rpc' = "advance" /\ wpc # "sleeping")
    BY <1>11 DEF ReadTake, ReadCredit, writer
  <2> QED
    BY <2>1
<1>12. CASE ReadAdvance /\ Outside
  <2>1. /\ rpc = "advance" /\ rpc' \in {"done", "test"}
        /\ wpc' = IF wpc = "asleep" THEN "pred" ELSE wpc
        /\ UNCHANGED <<readable, writable, maxLatency>>
    BY <1>12 DEF ReadAdvance, NotifyWriter, fill
  <2> QED
    BY <2>1, RoomStays
<1>13. CASE Start \/ SetShape \/ Join
  <2>1. wpc' \in {"off", "loop"} /\ rpc' \in {"off", "loop"}
    BY <1>13 DEF Start, SetShape, Join, CtlInv, reader, writer
  <2> QED
    BY <2>1
<1>14. CASE StopRing
  <2>1. /\ UNCHANGED <<readable, writable, maxLatency, wpc>>
        /\ rpc' = IF rpc = "asleep" THEN "pred" ELSE rpc
    BY <1>14 DEF StopRing, StopReader, NotifyReader, fill, writer
  <2> QED
    BY <2>1, RoomStays
<1>15. CASE StopRingWriter
  <2>1. /\ UNCHANGED <<readable, writable, maxLatency, rpc>>
        /\ wpc' = IF wpc = "asleep" THEN "pred" ELSE wpc
    BY <1>15 DEF StopRingWriter, StopWriter, NotifyWriter, fill, reader
  <2> QED
    BY <2>1, RoomStays
<1>16. CASE StopInput \/ StopOutput \/ Produce \/ Consume \/ UNCHANGED vars
  <2>1. UNCHANGED <<readable, writable, maxLatency, rpc, wpc>>
    BY <1>16 DEF StopInput, StopOutput, Produce, Consume, vars, ring, fill, reader, writer
  <2> QED
    BY <2>1, RoomStays
<1> QED
  BY NextCases, <1>1, <1>2, <1>3, <1>4, <1>5, <1>6, <1>7, <1>8, <1>9, <1>10, <1>11, <1>12,
     <1>13, <1>14, <1>15, <1>16

\* No wake-up of the reader or the writer is lost, whatever the ring size, the
\* latency limit and the interleaving, and they never wait for each other
\* (ring_buffer.h waitUntilReadable, waitUntilWritable and the notifications of
\* read, readAndSkip and write).
THEOREM WakeupsAreNotLost == Spec => []NoMissedWakeup
<1>1. Init => WakeInv
  BY DEF Init, RingInit, WakeInv, Dozing
<1>2. RingInv /\ WakeInv /\ [Next]_vars => WakeInv'
  BY WakeInvNext
<1>3. ASSUME RingInv, WakeInv PROVE ~(rpc \in Dozing /\ wpc \in Dozing)
  <2> SUFFICES ASSUME rpc \in Dozing, wpc \in Dozing PROVE FALSE
    OBVIOUS
  <2>1. readable = 0 /\ Room(writable) = 0
    BY <1>3 DEF WakeInv, Dozing
  <2>2. readable + writable = Size
    <3>1. rpc # "credit" /\ wpc # "debit"
      BY DEF Dozing
    <3> QED
      BY <1>3, <3>1, SizeAssumption DEF RingInv, FillInv
  <2>3. maxLatency \in Nat \ {0} /\ writable \in Nat /\ writable > 0
    BY <1>3, <2>1, <2>2, LatencyAssumption, SizeAssumption DEF RingInv, TypeOK, RingTypeOK
  <2> QED
    BY <2>1, <2>3 DEF Room, Least
<1> QED
  BY <1>1, <1>2, <1>3, ReshaperInvariant, PTL DEF Spec, IInv, NoMissedWakeup
=============================================================================
