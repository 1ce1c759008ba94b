----------------------------- MODULE DspPipeline -----------------------------
(***************************************************************************)
(* A graph of dsp::block workers connected by dsp::stream hand-offs.       *)
(*                                                                         *)
(* A stream has two buffers and two flags, each flag under a mutex of its  *)
(* own: canSwap (the writer waits for it in swap()) and dataReady (the     *)
(* reader waits for it in read()).  A block owns one worker thread that    *)
(* repeats run() until it returns -1, and a control side (start, stop,     *)
(* tempStop, tempStart) used by another thread.  swap() and flush() each   *)
(* take two critical sections, so they are two steps here.                 *)
(*                                                                         *)
(* A packet of samples is abstracted to its serial number.                 *)
(***************************************************************************)
EXTENDS Integers, Sequences

CONSTANTS
  Blocks,     \* the blocks of the graph
  Streams,    \* the streams of the graph
  NoStream,   \* "no input": the In of a source
  In,         \* In[b]: the stream block b reads
  Outs,       \* Outs[b]: the streams block b writes, in the order it writes
  Splitters,  \* blocks that run Splitter::run, the others run Processor::run
  Multirate,  \* processors whose process() may yield no output packet
  Stoppable,  \* bound: the blocks that are stopped or paused once started
  MaxItems,   \* bound: packets a source makes before it ends
  MaxDepth    \* bound: nesting of tempStop

IsSource(b) == In[b] = NoStream

OutIdx(b) == 1 .. Len(Outs[b])

(***************************************************************************)
(* Streams are single-producer / single-consumer: no two ends of the graph *)
(* share one, and each has a reader.  Processors and sources have at most  *)
(* one output.                                                             *)
(***************************************************************************)
ASSUME GraphAssumption ==
  /\ NoStream \notin Streams
  /\ In \in [Blocks -> Streams \cup {NoStream}]
  /\ Outs \in [Blocks -> Seq(Streams)]
  /\ Splitters \subseteq Blocks
  /\ Multirate \subseteq Blocks
  /\ \A b \in Blocks : In[b] # NoStream =>
       \A c \in Blocks : In[c] = In[b] => c = b
  /\ \A b, c \in Blocks : \A i \in OutIdx(b), j \in OutIdx(c) :
       Outs[b][i] = Outs[c][j] => b = c /\ i = j
  /\ \A s \in Streams : \E b \in Blocks : In[b] = s
  /\ \A b \in Blocks : IsSource(b) => b \notin Splitters /\ Len(Outs[b]) = 1
  /\ \A b \in Blocks \ Splitters : Len(Outs[b]) \in {0, 1}
  /\ \A b \in Multirate : Len(Outs[b]) = 1 /\ ~IsSource(b) /\ b \notin Splitters

ASSUME BoundAssumption == MaxItems \in Nat /\ MaxDepth \in Nat

VARIABLES
  \* dsp::stream
  canSwap, dataReady, readerStop, writerStop, writeBuf, readBuf,
  \* the worker thread of a block: where it is in run(), the output it is
  \* at, and the packet it works on
  wpc, k, cur,
  \* dsp::block control state, and where its control thread is in doStop()
  running, tempStopped, tempStopDepth, ctl,
  \* std::terminate() was called: a std::thread object was overwritten
  \* while joinable
  terminated

streamVars == <<canSwap, dataReady, readerStop, writerStop, writeBuf, readBuf>>
workVars   == <<wpc, k, cur>>
ctrlVars   == <<running, tempStopped, tempStopDepth, ctl, terminated>>
vars       == <<streamVars, workVars, ctrlVars>>

Items == 0 .. MaxItems

(***************************************************************************)
(* Worker locations.  "none": no thread; "exit": run() returned -1 and the *)
(* thread waits to be joined.  The other names are the statement the       *)
(* thread is about to execute or is blocked in.                            *)
(***************************************************************************)
WorkerPc == {"none", "read", "proc", "flushReady", "flushSwap", "swap",
             "publish", "exit"}

CtlPc == {"idle", "stopReaders", "stopWriters", "join"}

TypeOK ==
  /\ canSwap    \in [Streams -> BOOLEAN]
  /\ dataReady  \in [Streams -> BOOLEAN]
  /\ readerStop \in [Streams -> BOOLEAN]
  /\ writerStop \in [Streams -> BOOLEAN]
  /\ writeBuf   \in [Streams -> Items]
  /\ readBuf    \in [Streams -> Items]
  /\ wpc \in [Blocks -> WorkerPc]
  /\ k   \in [Blocks -> Nat \ {0}]
  /\ cur \in [Blocks -> Items]
  /\ running       \in [Blocks -> BOOLEAN]
  /\ tempStopped   \in [Blocks -> BOOLEAN]
  /\ tempStopDepth \in [Blocks -> 0 .. MaxDepth]
  /\ ctl           \in [Blocks -> CtlPc]
  /\ terminated \in BOOLEAN

Init ==
  /\ canSwap    = [s \in Streams |-> TRUE]
  /\ dataReady  = [s \in Streams |-> FALSE]
  /\ readerStop = [s \in Streams |-> FALSE]
  /\ writerStop = [s \in Streams |-> FALSE]
  /\ writeBuf   = [s \in Streams |-> 0]
  /\ readBuf    = [s \in Streams |-> 0]
  /\ wpc = [b \in Blocks |-> "none"]
  /\ k   = [b \in Blocks |-> 1]
  /\ cur = [b \in Blocks |-> 0]
  /\ running       = [b \in Blocks |-> FALSE]
  /\ tempStopped   = [b \in Blocks |-> FALSE]
  /\ tempStopDepth = [b \in Blocks |-> 0]
  /\ ctl           = [b \in Blocks |-> "idle"]
  /\ terminated = FALSE

-----------------------------------------------------------------------------
(***************************************************************************)
(* The worker thread.                                                      *)
(***************************************************************************)
Goto(b, loc) == wpc' = [wpc EXCEPT ![b] = loc]

\* Where an iteration of run() begins.
LoopTop(b) == IF IsSource(b) THEN "proc" ELSE "read"

\* stream::read(): blocks until dataReady or readerStop; the stop wins.
Read(b) ==
  /\ wpc[b] = "read"
  /\ dataReady[In[b]] \/ readerStop[In[b]]
  /\ \/ /\ readerStop[In[b]]
        /\ Goto(b, "exit")
        /\ UNCHANGED <<k, cur>>
     \/ /\ ~readerStop[In[b]]
        /\ Goto(b, "proc")
        /\ k' = [k EXCEPT ![b] = 1]
        /\ cur' = [cur EXCEPT ![b] = readBuf[In[b]]]
  /\ UNCHANGED <<streamVars, ctrlVars>>

\* A source fills its output buffer with the next packet, or ends (file_source's
\* worker, whose stop() makes the same calls as doStop()).
Produce(b) ==
  /\ wpc[b] = "proc" /\ IsSource(b)
  /\ \/ /\ cur[b] < MaxItems
        /\ cur' = [cur EXCEPT ![b] = cur[b] + 1]
        /\ writeBuf' = [writeBuf EXCEPT ![Outs[b][1]] = cur[b] + 1]
        /\ Goto(b, "swap")
     \/ /\ cur[b] = MaxItems
        /\ Goto(b, "exit")
        /\ UNCHANGED <<cur, writeBuf>>
  /\ UNCHANGED <<canSwap, dataReady, readerStop, writerStop, readBuf, k, ctrlVars>>

\* Processor and sink: process() reads readBuf and fills the output buffer.
Process(b) ==
  /\ wpc[b] = "proc" /\ ~IsSource(b) /\ b \notin Splitters
  /\ writeBuf' = [s \in Streams |->
                    IF Outs[b] # <<>> /\ s = Outs[b][1] THEN readBuf[In[b]]
                                                        ELSE writeBuf[s]]
  /\ Goto(b, "flushReady")
  /\ UNCHANGED <<canSwap, dataReady, readerStop, writerStop, readBuf, k, cur, ctrlVars>>

\* Splitter: copy to the next bound stream, or flush once all have it.
SplitCopy(b) ==
  /\ wpc[b] = "proc" /\ b \in Splitters
  /\ \/ /\ k[b] \in OutIdx(b)
        /\ writeBuf' = [writeBuf EXCEPT ![Outs[b][k[b]]] = readBuf[In[b]]]
        /\ Goto(b, "swap")
     \/ /\ k[b] \notin OutIdx(b)
        /\ Goto(b, "flushReady")
        /\ UNCHANGED writeBuf
  /\ UNCHANGED <<canSwap, dataReady, readerStop, writerStop, readBuf, k, cur, ctrlVars>>

\* stream::flush(), first critical section.
FlushReady(b) ==
  /\ wpc[b] = "flushReady"
  /\ dataReady' = [dataReady EXCEPT ![In[b]] = FALSE]
  /\ Goto(b, "flushSwap")
  /\ UNCHANGED <<canSwap, readerStop, writerStop, writeBuf, readBuf, k, cur, ctrlVars>>

\* Where run() goes after flush(): a splitter that could not write all its
\* outputs returns -1; a processor goes on to swap its output, unless a
\* multirate process() made none.
AfterFlush(b) ==
  IF b \in Splitters THEN {IF k[b] \in OutIdx(b) THEN "exit" ELSE "read"}
  ELSE IF Outs[b] = <<>> THEN {"read"}
  ELSE IF b \in Multirate THEN {"swap", "read"}
  ELSE {"swap"}

\* Mutant: flush() does not hand the buffer back to the writer.
FlushWithoutSwap(b) ==
  /\ wpc[b] = "flushSwap"
  /\ \E loc \in AfterFlush(b) : Goto(b, loc)
  /\ UNCHANGED <<streamVars, k, cur, ctrlVars>>

\* stream::flush(), second critical section.
FlushSwap(b) ==
  /\ wpc[b] = "flushSwap"
  /\ canSwap' = [canSwap EXCEPT ![In[b]] = TRUE]
  /\ \E loc \in AfterFlush(b) : Goto(b, loc)
  /\ UNCHANGED <<dataReady, readerStop, writerStop, writeBuf, readBuf, k, cur, ctrlVars>>

\* Mutant: swap() does not wait for the reader to flush.
EagerSwap(b) ==
  LET s == Outs[b][k[b]] IN
  /\ wpc[b] = "swap"
  /\ readBuf'  = [readBuf  EXCEPT ![s] = writeBuf[s]]
  /\ writeBuf' = [writeBuf EXCEPT ![s] = readBuf[s]]
  /\ canSwap'  = [canSwap  EXCEPT ![s] = FALSE]
  /\ Goto(b, IF writerStop[s] THEN "exit" ELSE "publish")
  /\ UNCHANGED <<dataReady, readerStop, writerStop, k, cur, ctrlVars>>

\* Mutant: a stopped splitter returns without flushing its input.
SwapWithoutFlush(b) ==
  LET s == Outs[b][k[b]] IN
  /\ wpc[b] = "swap"
  /\ canSwap[s] \/ writerStop[s]
  /\ IF writerStop[s]
     THEN Goto(b, "exit") /\ UNCHANGED <<canSwap, readBuf, writeBuf>>
     ELSE /\ readBuf'  = [readBuf  EXCEPT ![s] = writeBuf[s]]
          /\ writeBuf' = [writeBuf EXCEPT ![s] = readBuf[s]]
          /\ canSwap'  = [canSwap  EXCEPT ![s] = FALSE]
          /\ Goto(b, "publish")
  /\ UNCHANGED <<dataReady, readerStop, writerStop, k, cur, ctrlVars>>

\* stream::swap(), first critical section: blocks until canSwap or
\* writerStop; the stop wins.  A stopped splitter still flushes its input.
Swap(b) ==
  LET s == Outs[b][k[b]] IN
  /\ wpc[b] = "swap"
  /\ canSwap[s] \/ writerStop[s]
  /\ \/ /\ writerStop[s]
        /\ Goto(b, IF b \in Splitters THEN "flushReady" ELSE "exit")
        /\ UNCHANGED <<canSwap, readBuf, writeBuf>>
     \/ /\ ~writerStop[s]
        /\ readBuf'  = [readBuf  EXCEPT ![s] = writeBuf[s]]
        /\ writeBuf' = [writeBuf EXCEPT ![s] = readBuf[s]]
        /\ canSwap'  = [canSwap  EXCEPT ![s] = FALSE]
        /\ Goto(b, "publish")
  /\ UNCHANGED <<dataReady, readerStop, writerStop, k, cur, ctrlVars>>

\* stream::swap(), second critical section, and the return to run().
Publish(b) ==
  LET s == Outs[b][k[b]] IN
  /\ wpc[b] = "publish"
  /\ dataReady' = [dataReady EXCEPT ![s] = TRUE]
  /\ k' = [k EXCEPT ![b] = IF b \in Splitters THEN k[b] + 1 ELSE k[b]]
  /\ Goto(b, IF b \in Splitters THEN "proc" ELSE LoopTop(b))
  /\ UNCHANGED <<canSwap, readerStop, writerStop, writeBuf, readBuf, cur, ctrlVars>>

Work(b) ==
  \/ Read(b) \/ Produce(b) \/ Process(b) \/ SplitCopy(b)
  \/ FlushReady(b) \/ FlushSwap(b) \/ Swap(b) \/ Publish(b)

-----------------------------------------------------------------------------
(***************************************************************************)
(* The control side.  A block's control calls are made by one thread at a  *)
(* time (they hold ctrlMtx, or all come from the GUI thread) and a caller  *)
(* that pauses a block resumes it before it starts or stops it.            *)
(***************************************************************************)

\* block::doStart(): assigning to a joinable std::thread terminates.
DoStart(b) ==
  /\ wpc' = [wpc EXCEPT ![b] = LoopTop(b)]
  /\ terminated' = (terminated \/ wpc[b] # "none")

\* block::start().
Start(b) ==
  /\ ctl[b] = "idle" /\ tempStopDepth[b] = 0 /\ ~running[b]
  /\ running' = [running EXCEPT ![b] = TRUE]
  /\ DoStart(b)
  /\ UNCHANGED <<streamVars, k, cur, tempStopped, tempStopDepth, ctl>>

\* block::stop() up to its call of doStop().
Stop(b) ==
  /\ b \in Stoppable
  /\ ctl[b] = "idle" /\ tempStopDepth[b] = 0 /\ running[b]
  /\ ctl' = [ctl EXCEPT ![b] = "stopReaders"]
  /\ UNCHANGED <<streamVars, workVars, running, tempStopped, tempStopDepth, terminated>>

\* block::tempStop(): only the outermost call of a running block stops it.
TempStop(b) ==
  /\ b \in Stoppable
  /\ ctl[b] = "idle" /\ tempStopDepth[b] < MaxDepth
  /\ tempStopDepth' = [tempStopDepth EXCEPT ![b] = tempStopDepth[b] + 1]
  /\ IF tempStopDepth[b] = 0 /\ running[b] /\ ~tempStopped[b]
     THEN ctl' = [ctl EXCEPT ![b] = "stopReaders"]
     ELSE UNCHANGED ctl
  /\ UNCHANGED <<streamVars, workVars, running, tempStopped, terminated>>

\* block::tempStart(): the outermost call restarts what tempStop stopped.
TempStart(b) ==
  /\ ctl[b] = "idle" /\ tempStopDepth[b] > 0
  /\ tempStopDepth' = [tempStopDepth EXCEPT ![b] = tempStopDepth[b] - 1]
  /\ IF tempStopDepth[b] = 1 /\ tempStopped[b]
     THEN /\ DoStart(b)
          /\ tempStopped' = [tempStopped EXCEPT ![b] = FALSE]
     ELSE UNCHANGED <<wpc, tempStopped, terminated>>
  /\ UNCHANGED <<streamVars, k, cur, running, ctl>>

\* block::doStop(), first loop: stopReader() on every input.
StopReaders(b) ==
  /\ ctl[b] = "stopReaders"
  /\ readerStop' = [s \in Streams |-> readerStop[s] \/ s = In[b]]
  /\ ctl' = [ctl EXCEPT ![b] = "stopWriters"]
  /\ UNCHANGED <<canSwap, dataReady, writerStop, writeBuf, readBuf, workVars,
                 running, tempStopped, tempStopDepth, terminated>>

IsOut(b, s) == \E i \in OutIdx(b) : Outs[b][i] = s

\* Mutant: doStop() stops the readers only.
StopWritersSkipped(b) ==
  /\ ctl[b] = "stopWriters"
  /\ ctl' = [ctl EXCEPT ![b] = "join"]
  /\ UNCHANGED <<streamVars, workVars, running, tempStopped, tempStopDepth, terminated>>

\* block::doStop(), second loop: stopWriter() on every output.
StopWriters(b) ==
  /\ ctl[b] = "stopWriters"
  /\ writerStop' = [s \in Streams |-> writerStop[s] \/ IsOut(b, s)]
  /\ ctl' = [ctl EXCEPT ![b] = "join"]
  /\ UNCHANGED <<canSwap, dataReady, readerStop, writeBuf, readBuf, workVars,
                 running, tempStopped, tempStopDepth, terminated>>

\* block::doStop(): the worker is joined if there is one.
Joinable(b) == wpc[b] \in {"none", "exit"}

\* What stop() or tempStop() does once doStop() has returned.
Stopped(b) ==
  IF tempStopDepth[b] = 0
  THEN running' = [running EXCEPT ![b] = FALSE] /\ UNCHANGED tempStopped
  ELSE tempStopped' = [tempStopped EXCEPT ![b] = TRUE] /\ UNCHANGED running

\* The stop flags of the block's streams are cleared.
ClearStops(b) ==
  /\ readerStop' = [s \in Streams |-> readerStop[s] /\ s # In[b]]
  /\ writerStop' = [s \in Streams |-> writerStop[s] /\ ~IsOut(b, s)]

\* Mutant: the thread is left unjoined.
JoinWithoutReap(b) ==
  /\ ctl[b] = "join" /\ Joinable(b)
  /\ ClearStops(b) /\ Stopped(b)
  /\ ctl' = [ctl EXCEPT ![b] = "idle"]
  /\ UNCHANGED <<canSwap, dataReady, writeBuf, readBuf, workVars, tempStopDepth, terminated>>

\* Mutant: the stop flags stay set.
JoinKeepingStops(b) ==
  /\ ctl[b] = "join" /\ Joinable(b)
  /\ Goto(b, "none") /\ Stopped(b)
  /\ ctl' = [ctl EXCEPT ![b] = "idle"]
  /\ UNCHANGED <<streamVars, k, cur, tempStopDepth, terminated>>

\* Mutant: a stopped block gives its input buffer back, read or not.
JoinFreeingInput(b) ==
  /\ ctl[b] = "join" /\ Joinable(b)
  /\ Goto(b, "none") /\ ClearStops(b) /\ Stopped(b)
  /\ canSwap' = [s \in Streams |-> canSwap[s] \/ s = In[b]]
  /\ ctl' = [ctl EXCEPT ![b] = "idle"]
  /\ UNCHANGED <<dataReady, writeBuf, readBuf, k, cur, tempStopDepth, terminated>>

\* block::doStop() from the join on, and the return to stop() or tempStop():
\* with the worker gone nobody else touches the block's stop flags.
Join(b) ==
  /\ ctl[b] = "join" /\ Joinable(b)
  /\ Goto(b, "none") /\ ClearStops(b) /\ Stopped(b)
  /\ ctl' = [ctl EXCEPT ![b] = "idle"]
  /\ UNCHANGED <<canSwap, dataReady, writeBuf, readBuf, k, cur, tempStopDepth, terminated>>

DoStop(b) == StopReaders(b) \/ StopWriters(b) \/ Join(b)

Control(b) == Start(b) \/ Stop(b) \/ TempStop(b) \/ TempStart(b) \/ DoStop(b)

-----------------------------------------------------------------------------
Next == \E b \in Blocks : Work(b) \/ Control(b)

Spec == Init /\ [][Next]_vars

(***************************************************************************)
(* A runnable thread is eventually scheduled: every worker, and a control  *)
(* call that has begun.  Nobody is obliged to begin one, except that a     *)
(* caller of tempStop goes on to call tempStart.                           *)
(***************************************************************************)
Fairness ==
  \A b \in Blocks :
    WF_vars(Work(b)) /\ WF_vars(DoStop(b)) /\ WF_vars(TempStart(b))

FairSpec == Spec /\ Fairness

-----------------------------------------------------------------------------
(***************************************************************************)
(* Properties.                                                             *)
(***************************************************************************)

\* The worker of b is between read() and the end of flush(): it still uses
\* the read buffer of its input.
Holding(b) ==
  /\ ~IsSource(b)
  /\ \/ wpc[b] \in {"proc", "flushReady", "flushSwap"}
     \/ b \in Splitters /\ wpc[b] \in {"swap", "publish"}

\* The packet a reader is working on does not change under it: from read()
\* to the end of flush() the read buffer keeps the packet read() announced,
\* whatever the writer and the control threads do (stream.h swap/read/flush).
BufferStable == \A b \in Blocks : Holding(b) => readBuf[In[b]] = cur[b]

\* Packets pass every block in the order they were made and none passes
\* twice, through any number of stops, pauses and restarts of any block: a
\* packet left in a stream is read after a restart, a packet whose swap()
\* failed is gone, and neither ever shows up again (stream.h, block.h).
InOrder ==
  [][\A b \in Blocks : wpc[b] = "read" /\ wpc'[b] = "proc" => cur'[b] > cur[b]]_vars

Reader(s) == CHOOSE b \in Blocks : In[b] = s

Channel == INSTANCE PacketChannel
             WITH sent <- readBuf, got <- [s \in Streams |-> cur[Reader(s)]]

\* Every stream is a queue exactly one packet deep (doc/design/dsp-pipeline.md
\* section 1): a packet swapped in is read once before the next one takes its
\* place, also when either end is stopped, paused and restarted in between.
StreamsAreChannels == Channel!Spec

\* A paused or stopped block never ends the program: doStart() finds no
\* thread it would overwrite, even when the worker had ended by itself
\* (block.h doStart/doStop, "TODO: Make sure this isn't needed").
NoTerminate == ~terminated

\* While a block is paused or stopped and no control call is under way no
\* worker of it runs, and its streams are clear of stop flags, so its
\* parameters may be changed and its neighbours keep working (block.h).
QuietWhenStopped ==
  \A b \in Blocks :
    (ctl[b] = "idle" /\ (~running[b] \/ tempStopDepth[b] > 0)) =>
      /\ wpc[b] = "none"
      /\ ~IsSource(b) => ~readerStop[In[b]]
      /\ \A i \in OutIdx(b) : ~writerStop[Outs[b][i]]

\* stop() and tempStop() return: poisoning the streams of a block always
\* gets its worker out of read() and swap(), so the join ends (block.h
\* doStop), whatever its neighbours do.
StopReturns == \A b \in Stoppable : ctl[b] = "stopReaders" ~> ctl[b] = "idle"

AllUp == \A b \in Blocks : running[b] /\ tempStopDepth[b] = 0 /\ ctl[b] = "idle"

\* No wake-up is lost: once every block runs undisturbed the sources get rid
\* of all their packets, and these reach the end of the graph, none stays in
\* a stream (stream.h: each side is woken by the other).
Drained ==
  \A b \in Blocks :
    IF IsSource(b) THEN wpc[b] = "exit" /\ cur[b] = MaxItems
                   ELSE wpc[b] = "read" /\ ~dataReady[In[b]]

Drains == <>[]AllUp => <>[]Drained
=============================================================================
