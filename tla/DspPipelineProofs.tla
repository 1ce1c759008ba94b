-------------------------- MODULE DspPipelineProofs --------------------------
(***************************************************************************)
(* Machine-checked proofs about DspPipeline, for every graph, any number   *)
(* of packets and any nesting of pauses.  The last part is what the two    *)
(* liveness properties rest on: a stop is never stuck behind a wait and a  *)
(* graph without cycles never stands still with packets in it.             *)
(***************************************************************************)
EXTENDS DspPipeline, WellFoundedInduction, TLAPS

(***************************************************************************)
(* The inductive invariant.  ReaderInv: what a stream's flags say about    *)
(* the reader of the stream; canSwap is only given back when nobody uses   *)
(* the read buffer.                                                        *)
(***************************************************************************)
ReaderOK(b) ==
  LET s == In[b] IN
  /\ dataReady[s] => ~canSwap[s]
  /\ Holding(b) => ~canSwap[s] /\ readBuf[s] = cur[b]
  /\ Holding(b) /\ wpc[b] # "flushSwap" => dataReady[s]
  /\ wpc[b] = "flushSwap" => ~dataReady[s]
  /\ canSwap[s] => readBuf[s] = cur[b]
  /\ ~canSwap[s] /\ ~Holding(b) => readBuf[s] > cur[b]

ReaderInv == \A b \in Blocks : ~IsSource(b) => ReaderOK(b)

(***************************************************************************)
(* The packets a block has yet to write are newer than those its output    *)
(* streams hold.                                                           *)
(***************************************************************************)
Pending(b, i) ==
  \/ wpc[b] = "swap" /\ i >= k[b]
  \/ wpc[b] = "publish" /\ i > k[b]
  \/ wpc[b] = "proc" /\ ~IsSource(b) /\ (b \in Splitters => i >= k[b])
  \/ wpc[b] \in {"flushReady", "flushSwap"} /\ b \notin Splitters

Filled(b, i) ==
  \/ wpc[b] = "swap" /\ i = k[b]
  \/ wpc[b] \in {"flushReady", "flushSwap"} /\ b \notin Splitters

WriterOK(b, i) ==
  LET s == Outs[b][i] IN
  /\ cur[b] >= readBuf[s]
  /\ Pending(b, i) => cur[b] > readBuf[s]
  /\ Filled(b, i) => writeBuf[s] = cur[b]

WriterInv == \A b \in Blocks : \A i \in OutIdx(b) : WriterOK(b, i)

\* Between the two halves of swap() the stream belongs to its writer.
PublishOK(b, i) ==
  wpc[b] = "publish" /\ i = k[b] =>
    /\ ~canSwap[Outs[b][i]] /\ ~dataReady[Outs[b][i]]
    /\ \A c \in Blocks : In[c] = Outs[b][i] => ~Holding(c)

PublishInv == \A b \in Blocks : \A i \in OutIdx(b) : PublishOK(b, i)

\* The worker is at one of the outputs of its block.
IndexInv ==
  \A b \in Blocks :
    /\ wpc[b] \in {"swap", "publish"} => k[b] \in OutIdx(b)
    /\ b \notin Splitters => k[b] = 1
    /\ IsSource(b) => wpc[b] \notin {"read", "flushReady", "flushSwap"}

\* The control state of a block and its worker.
ControlOK(b) ==
  /\ ctl[b] = "idle" /\ (~running[b] \/ tempStopDepth[b] > 0) => wpc[b] = "none"
  /\ ctl[b] # "idle" => running[b] /\ tempStopDepth[b] \in {0, 1} /\ ~tempStopped[b]
  /\ tempStopped[b] => running[b] /\ tempStopDepth[b] > 0
  /\ ~IsSource(b) /\ readerStop[In[b]] => ctl[b] \in {"stopWriters", "join"}
  /\ \A i \in OutIdx(b) : writerStop[Outs[b][i]] => ctl[b] = "join"

ControlInv == \A b \in Blocks : ControlOK(b)

IInv ==
  /\ TypeOK /\ IndexInv /\ ControlInv /\ NoTerminate
  /\ ReaderInv /\ WriterInv /\ PublishInv
-----------------------------------------------------------------------------
(***************************************************************************)
(* Facts about the graph.                                                  *)
(***************************************************************************)

\* The ends of a block are streams of the graph.
LEMMA EndsAreStreams ==
  ASSUME NEW b \in Blocks
  PROVE  /\ ~IsSource(b) => In[b] \in Streams
         /\ \A i \in OutIdx(b) : Outs[b][i] \in Streams
         /\ IsSource(b) => 1 \in OutIdx(b)
         /\ b \notin Splitters /\ Outs[b] # <<>> => OutIdx(b) = {1}
         /\ Outs[b] = <<>> => OutIdx(b) = {}
         /\ Outs[b] # <<>> => 1 \in OutIdx(b)
         /\ Len(Outs[b]) \in Nat
<1>1. Outs[b] \in Seq(Streams) /\ In[b] \in Streams \cup {NoStream}
  BY GraphAssumption
<1>2. \A i \in OutIdx(b) : Outs[b][i] \in Streams
  BY <1>1 DEF OutIdx
<1>3. Outs[b] # <<>> => Len(Outs[b]) > 0
  BY <1>1
<1>4. IsSource(b) => Len(Outs[b]) = 1
  BY GraphAssumption
<1>5. b \notin Splitters => Len(Outs[b]) \in {0, 1}
  BY GraphAssumption
<1>6. Len(Outs[b]) \in Nat
  BY <1>1
<1>7. Outs[b] = <<>> => Len(Outs[b]) = 0
  OBVIOUS
<1> QED BY <1>1, <1>2, <1>3, <1>4, <1>5, <1>6, <1>7 DEF OutIdx, IsSource

\* A step keeps every variable in its type; a worker that writes has a valid
\* output index, so it writes a stream of the graph.
LEMMA TypeStep == TypeOK /\ IndexInv /\ [Next]_vars => TypeOK'
<1> SUFFICES ASSUME TypeOK, IndexInv, [Next]_vars PROVE TypeOK'
  OBVIOUS
<1> USE DEF TypeOK, WorkerPc, CtlPc
<1>1. CASE UNCHANGED vars
  BY <1>1 DEF vars, streamVars, workVars, ctrlVars
<1>2. ASSUME NEW b \in Blocks, Work(b) PROVE TypeOK'
  <2> USE EndsAreStreams, BoundAssumption DEF streamVars, workVars, ctrlVars, Goto
  <2>1. CASE Read(b)
    <3>1. In[b] \in Streams
      BY <2>1 DEF Read, IndexInv
    <3>2. readBuf[In[b]] \in Items
      BY <3>1
    <3>3. cur' \in [Blocks -> Items]
      BY <2>1, <3>2, Zenon DEF Read
    <3>0. k' = k \/ k' = [k EXCEPT ![b] = 1]
      BY <2>1, Zenon DEF Read
    <3>5. k' \in [Blocks -> Nat \ {0}]
      BY <3>0
    <3>4. wpc' \in [Blocks -> WorkerPc]
      BY <2>1 DEF Read
    <3> QED BY <2>1, <3>3, <3>4, <3>5 DEF Read
  <2>2. CASE Produce(b)
    <3>1. Outs[b][1] \in Streams
      BY <2>2 DEF Produce
    <3>2. cur[b] < MaxItems => cur[b] + 1 \in Items
      BY DEF Items
    <3>3. cur' \in [Blocks -> Items]
      BY <2>2, <3>2 DEF Produce
    <3>5. writeBuf' \in [Streams -> Items]
      BY <2>2, <3>1, <3>2 DEF Produce
    <3>4. wpc' \in [Blocks -> WorkerPc]
      BY <2>2 DEF Produce
    <3> QED BY <2>2, <3>3, <3>4, <3>5 DEF Produce
  <2>3. CASE Process(b)
    BY <2>3 DEF Process
  <2>4. CASE SplitCopy(b)
    <3>1. readBuf[In[b]] \in Items
      BY <2>4, GraphAssumption DEF SplitCopy, IsSource
    <3> QED BY <2>4, <3>1 DEF SplitCopy
  <2>5. CASE FlushReady(b)
    BY <2>5 DEF FlushReady
  <2>6. CASE FlushSwap(b)
    BY <2>6 DEF FlushSwap, AfterFlush
  <2>7. CASE Swap(b)
    <3>1. Outs[b][k[b]] \in Streams
      BY <2>7 DEF Swap, IndexInv
    <3>2. readBuf[Outs[b][k[b]]] \in Items /\ writeBuf[Outs[b][k[b]]] \in Items
      BY <3>1
    <3> QED BY <2>7, <3>1, <3>2 DEF Swap
  <2>8. CASE Publish(b)
    BY <2>8 DEF Publish, LoopTop, IndexInv
  <2> QED BY <1>2, <2>1, <2>2, <2>3, <2>4, <2>5, <2>6, <2>7, <2>8 DEF Work
<1>3. ASSUME NEW b \in Blocks, Control(b) PROVE TypeOK'
  <2> USE BoundAssumption DEF streamVars, workVars, ctrlVars, Goto, DoStart, LoopTop
  <2>1. CASE Start(b)
    BY <2>1 DEF Start
  <2>2. CASE Stop(b)
    BY <2>2 DEF Stop
  <2>3. CASE TempStop(b)
    BY <2>3 DEF TempStop
  <2>4. CASE TempStart(b)
    <3>1. tempStopDepth[b] > 0 => tempStopDepth[b] - 1 \in 0 .. MaxDepth
      OBVIOUS
    <3>2. tempStopDepth' \in [Blocks -> 0 .. MaxDepth]
      BY <2>4, <3>1 DEF TempStart
    <3>3. wpc' \in [Blocks -> WorkerPc] /\ terminated' \in BOOLEAN
      BY <2>4 DEF TempStart
    <3> QED BY <2>4, <3>2, <3>3 DEF TempStart
  <2>5. CASE StopReaders(b)
    BY <2>5 DEF StopReaders
  <2>6. CASE StopWriters(b)
    BY <2>6 DEF StopWriters
  <2>7. CASE Join(b)
    BY <2>7 DEF Join, ClearStops, Stopped
  <2> QED BY <1>3, <2>1, <2>2, <2>3, <2>4, <2>5, <2>6, <2>7 DEF Control, DoStop
<1> QED BY <1>1, <1>2, <1>3 DEF Next

-----------------------------------------------------------------------------
\* No two blocks read the same stream, no two outputs are the same stream.
LEMMA EndsAreUnique ==
  ASSUME NEW b \in Blocks, NEW c \in Blocks
  PROVE  /\ ~IsSource(b) /\ In[c] = In[b] => c = b
         /\ \A i \in OutIdx(b), j \in OutIdx(c) :
              Outs[b][i] = Outs[c][j] => b = c /\ i = j
  BY GraphAssumption DEF IsSource

\* A step keeps the output index of every worker within its outputs.
LEMMA IndexStep == TypeOK /\ IndexInv /\ [Next]_vars => IndexInv'
<1> SUFFICES ASSUME TypeOK, IndexInv, [Next]_vars, NEW c \in Blocks
             PROVE  /\ wpc'[c] \in {"swap", "publish"} => k'[c] \in OutIdx(c)
                    /\ c \notin Splitters => k'[c] = 1
                    /\ IsSource(c) => wpc'[c] \notin {"read", "flushReady", "flushSwap"}
  BY DEF IndexInv, OutIdx, IsSource
<1> USE EndsAreStreams DEF TypeOK, IndexInv, streamVars, workVars, ctrlVars, Goto, LoopTop
<1>1. CASE UNCHANGED vars
  BY <1>1 DEF vars
<1>2. ASSUME NEW b \in Blocks, Work(b)
      PROVE  /\ wpc'[c] \in {"swap", "publish"} => k'[c] \in OutIdx(c)
             /\ c \notin Splitters => k'[c] = 1
             /\ IsSource(c) => wpc'[c] \notin {"read", "flushReady", "flushSwap"}
  <2>0. IsSource(b) => b \notin Splitters
    BY GraphAssumption
  <2>1. CASE Read(b)
    BY <2>1 DEF Read
  <2>2. CASE Produce(b)
    BY <2>0, <2>2 DEF Produce
  <2>3. CASE Process(b)
    BY <2>3 DEF Process
  <2>4. CASE SplitCopy(b)
    BY <2>0, <2>4 DEF SplitCopy
  <2>5. CASE FlushReady(b)
    BY <2>5 DEF FlushReady
  <2>6. CASE FlushSwap(b)
    BY <2>6 DEF FlushSwap, AfterFlush
  <2>7. CASE Swap(b)
    BY <2>0, <2>7 DEF Swap
  <2>8. CASE Publish(b)
    BY <2>0, <2>8 DEF Publish
  <2> QED BY <1>2, <2>1, <2>2, <2>3, <2>4, <2>5, <2>6, <2>7, <2>8 DEF Work
<1>3. ASSUME NEW b \in Blocks, Control(b)
      PROVE  /\ wpc'[c] \in {"swap", "publish"} => k'[c] \in OutIdx(c)
             /\ c \notin Splitters => k'[c] = 1
             /\ IsSource(c) => wpc'[c] \notin {"read", "flushReady", "flushSwap"}
  <2>1. CASE Start(b) \/ TempStart(b)
    BY <2>1 DEF Start, TempStart, DoStart
  <2>2. CASE Stop(b) \/ TempStop(b) \/ StopReaders(b) \/ StopWriters(b)
    BY <2>2 DEF Stop, TempStop, StopReaders, StopWriters
  <2>3. CASE Join(b)
    BY <2>3 DEF Join, ClearStops, Stopped
  <2> QED BY <1>3, <2>1, <2>2, <2>3 DEF Control, DoStop
<1> QED BY <1>1, <1>2, <1>3 DEF Next

\* A step keeps the control side and the stop flags of a block consistent:
\* start and stop pair up with the worker thread (block.h).
LEMMA ControlStep ==
  TypeOK /\ IndexInv /\ ControlInv /\ NoTerminate /\ [Next]_vars
    => ControlInv' /\ NoTerminate'
<1> SUFFICES ASSUME TypeOK, IndexInv, ControlInv, NoTerminate, [Next]_vars
             PROVE  ControlInv' /\ NoTerminate'
  OBVIOUS
<1> USE DEF TypeOK, NoTerminate, streamVars, workVars, ctrlVars
<1>1. CASE UNCHANGED vars
  BY <1>1 DEF vars, ControlInv, ControlOK, OutIdx, IsSource
<1>2. ASSUME NEW b \in Blocks, Work(b) PROVE ControlInv' /\ NoTerminate'
  <2>1. /\ UNCHANGED <<readerStop, writerStop, ctrlVars>>
        /\ wpc[b] # "none"
        /\ \E loc \in WorkerPc : wpc' = [wpc EXCEPT ![b] = loc]
    BY <1>2 DEF Work, Read, Produce, Process, SplitCopy, FlushReady, FlushSwap,
                AfterFlush, Swap, Publish, Goto, LoopTop, WorkerPc
  <2>2. ASSUME NEW c \in Blocks PROVE ControlOK(c)'
    BY <2>1, ControlOK(c), ControlOK(b) DEF ControlInv, ControlOK, OutIdx, IsSource
  <2> QED BY <2>1, <2>2 DEF ControlInv
<1>3. ASSUME NEW b \in Blocks, Control(b) PROVE ControlInv' /\ NoTerminate'
  <2>0. ControlOK(b) /\ \A c \in Blocks : ControlOK(c)
    BY DEF ControlInv
  <2> SUFFICES ASSUME NEW c \in Blocks PROVE ControlOK(c)' /\ NoTerminate'
    BY <1>3 DEF ControlInv
  <2>1. CASE Start(b)
    BY <2>0, <2>1 DEF Start, DoStart, LoopTop, ControlOK, OutIdx, IsSource
  <2>2. CASE Stop(b)
    BY <2>0, <2>2, BoundAssumption DEF Stop, ControlOK, OutIdx, IsSource
  <2>3. CASE TempStop(b)
    BY <2>0, <2>3, BoundAssumption DEF TempStop, ControlOK, OutIdx, IsSource
  <2>4. CASE TempStart(b)
    BY <2>0, <2>4, BoundAssumption DEF TempStart, DoStart, LoopTop, ControlOK, OutIdx, IsSource
  <2>5. CASE StopReaders(b)
    BY <2>0, <2>5, EndsAreStreams, EndsAreUnique DEF StopReaders, ControlOK, OutIdx, IsSource
  <2>6. CASE StopWriters(b)
    BY <2>0, <2>6, EndsAreStreams, EndsAreUnique DEF StopWriters, IsOut, ControlOK, OutIdx, IsSource
  <2>7. CASE Join(b)
    BY <2>0, <2>7, EndsAreStreams, EndsAreUnique
       DEF Join, ClearStops, Stopped, Goto, IsOut, ControlOK, OutIdx, IsSource
  <2> QED BY <1>3, <2>1, <2>2, <2>3, <2>4, <2>5, <2>6, <2>7 DEF Control, DoStop
<1> QED BY <1>1, <1>2, <1>3 DEF Next

\* Only a worker step touches what ReaderInv and WriterInv speak of.
LEMMA ControlFrame ==
  ASSUME TypeOK, ControlInv, NEW b \in Blocks, Control(b)
  PROVE  /\ UNCHANGED <<canSwap, dataReady, writeBuf, readBuf, k, cur>>
         /\ \/ UNCHANGED wpc
            \/ /\ wpc[b] \in {"none", "exit"}
               /\ wpc' = [wpc EXCEPT ![b] = LoopTop(b)]
            \/ /\ wpc[b] \in {"none", "exit"}
               /\ wpc' = [wpc EXCEPT ![b] = "none"]
<1>1. ControlOK(b)
  BY DEF ControlInv
<1> QED BY <1>1 DEF TypeOK, Control, Start, Stop, TempStop, TempStart, DoStart, DoStop,
        StopReaders, StopWriters, Join, ClearStops, Stopped, Joinable, Goto, ControlOK,
        streamVars, workVars, ctrlVars

\* A step keeps the reader's end of a stream in its protocol: what read()
\* announced stays in the buffer until flush() (stream.h read, flush).
LEMMA ReaderStep ==
  IInv /\ [Next]_vars => ReaderInv'
<1> SUFFICES ASSUME TypeOK, IndexInv, ControlInv, ReaderInv, WriterInv, PublishInv, [Next]_vars,
                    NEW c \in Blocks, ~IsSource(c)
             PROVE  ReaderOK(c)'
  BY DEF IInv, ReaderInv, IsSource
<1>0. ReaderOK(c) /\ In[c] \in Streams
  BY EndsAreStreams DEF ReaderInv
<1> USE <1>0 DEF TypeOK, ReaderOK, Holding, streamVars, workVars, ctrlVars
<1>1. CASE UNCHANGED vars
  BY <1>1 DEF vars, IsSource
<1>2. ASSUME NEW b \in Blocks, Work(b) PROVE ReaderOK(c)'
  <2>0. ~IsSource(b) => (In[b] = In[c] => b = c)
    BY EndsAreUnique
  <2> USE <2>0 DEF Goto
  <2>1. CASE Read(b)
    <3>1. ~IsSource(b)
      BY <2>1 DEF Read, IndexInv
    <3> QED BY <2>1, <3>1 DEF Read, Items, IsSource
  <2>2. CASE Produce(b)
    BY <2>2 DEF Produce, IsSource
  <2>3. CASE Process(b)
    BY <2>3 DEF Process, IsSource
  <2>4. CASE SplitCopy(b)
    BY <2>4 DEF SplitCopy, IsSource
  <2>5. CASE FlushReady(b)
    BY <2>5 DEF FlushReady, IndexInv, IsSource
  <2>6. CASE FlushSwap(b)
    BY <2>6 DEF FlushSwap, AfterFlush, IndexInv, IsSource
  <2>7. CASE Swap(b)
    <3>1. k[b] \in OutIdx(b) /\ Outs[b][k[b]] \in Streams
      BY <2>7, EndsAreStreams DEF Swap, IndexInv
    <3>2. WriterOK(b, k[b])
      BY <3>1 DEF WriterInv
    <3>3. writeBuf[Outs[b][k[b]]] > readBuf[Outs[b][k[b]]]
      BY <2>7, <3>1, <3>2 DEF Swap, WriterOK, Pending, Filled
    <3> QED BY <2>7, <3>1, <3>3 DEF Swap, Items, IsSource
  <2>8. CASE Publish(b)
    <3>1. k[b] \in OutIdx(b) /\ Outs[b][k[b]] \in Streams
      BY <2>8, EndsAreStreams DEF Publish, IndexInv
    <3>2. ~canSwap[Outs[b][k[b]]] /\ ~dataReady[Outs[b][k[b]]]
      BY <2>8, <3>1 DEF Publish, PublishInv, PublishOK
    <3>3. CASE b = c
      BY <2>8, <3>1, <3>2, <3>3 DEF Publish, LoopTop, IsSource
    <3>4. CASE b # c
      <4>1. UNCHANGED <<canSwap, readBuf, cur>> /\ wpc'[c] = wpc[c]
        BY <2>8, <3>4 DEF Publish
      <4>2. dataReady' = [dataReady EXCEPT ![Outs[b][k[b]]] = TRUE]
        BY <2>8 DEF Publish
      <4>3. CASE Outs[b][k[b]] = In[c]
        <5>1. ~Holding(c)
          BY <2>8, <3>1, <4>3 DEF Publish, PublishInv, PublishOK
        <5> QED BY <3>2, <4>1, <4>2, <4>3, <5>1 DEF IsSource
      <4>4. CASE Outs[b][k[b]] # In[c]
        BY <3>1, <4>1, <4>2, <4>4 DEF IsSource
      <4> QED BY <4>3, <4>4
    <3> QED BY <3>3, <3>4
  <2> QED BY <1>2, <2>1, <2>2, <2>3, <2>4, <2>5, <2>6, <2>7, <2>8 DEF Work
<1>3. ASSUME NEW b \in Blocks, Control(b) PROVE ReaderOK(c)'
  BY <1>3, ControlFrame DEF LoopTop, IsSource
<1> QED BY <1>1, <1>2, <1>3 DEF Next

\* A step keeps the writer's end of a stream in its protocol: the buffers are
\* swapped only after the reader's flush() (stream.h swap).
LEMMA WriterStep == IInv /\ [Next]_vars => WriterInv'
<1> SUFFICES ASSUME TypeOK, IndexInv, ControlInv, ReaderInv, WriterInv, [Next]_vars,
                    NEW c \in Blocks, NEW i \in OutIdx(c)
             PROVE  WriterOK(c, i)'
  BY DEF IInv, WriterInv, OutIdx
<1>0. WriterOK(c, i) /\ Outs[c][i] \in Streams /\ Outs[c] # <<>>
  BY EndsAreStreams DEF WriterInv
<1>a. c \notin Splitters => i = 1
  BY <1>0, EndsAreStreams
<1>b. i \in Nat /\ (c \notin Splitters => k[c] = 1)
  BY DEF OutIdx, IndexInv
<1>c. cur[c] \in Nat /\ readBuf[Outs[c][i]] \in Nat /\ k[c] \in Nat
  BY <1>0 DEF TypeOK, Items
<1> USE <1>0, <1>a, <1>b, <1>c
    DEF TypeOK, WriterOK, Pending, Filled, streamVars, workVars, ctrlVars
<1>1. CASE UNCHANGED vars
  BY <1>1 DEF vars, IsSource
<1>2. ASSUME NEW b \in Blocks, Work(b) PROVE WriterOK(c, i)'
  <2> USE DEF Goto
  <2>1. CASE Read(b)
    <3>1. ~IsSource(b) /\ In[b] \in Streams
      BY <2>1, EndsAreStreams DEF Read, IndexInv
    <3>a. ReaderOK(b) /\ ~Holding(b) /\ readBuf[In[b]] \in Nat
      BY <2>1, <3>1 DEF Read, ReaderInv, Holding, Items
    <3>2. ~readerStop[In[b]] => readBuf[In[b]] > cur[b] /\ readBuf[In[b]] \in Nat
      BY <2>1, <3>1, <3>a DEF Read, ReaderOK
    <3>3. CASE b # c
      BY <2>1, <3>3 DEF Read, IsSource
    <3>4. CASE b = c /\ readerStop[In[b]]
      BY <2>1, <3>4 DEF Read, IsSource
    <3>5. CASE b = c /\ ~readerStop[In[b]]
      <4>1. cur'[c] = readBuf[In[b]] /\ wpc'[c] = "proc" /\ UNCHANGED readBuf
        BY <2>1, <3>5 DEF Read
      <4> QED BY <3>2, <3>5, <4>1 DEF IsSource
    <3> QED BY <3>3, <3>4, <3>5
  <2>2. CASE Produce(b)
    <3>1. CASE b # c
      <4>1. /\ UNCHANGED <<readBuf, k>> /\ cur'[c] = cur[c] /\ wpc'[c] = wpc[c]
            /\ Outs[b][1] # Outs[c][i] /\ Outs[c][i] \in Streams
        BY <2>2, <3>1, EndsAreStreams, EndsAreUnique DEF Produce
      <4>2. writeBuf'[Outs[c][i]] = writeBuf[Outs[c][i]]
        BY <2>2, <4>1 DEF Produce
      <4> QED BY <4>1, <4>2 DEF IsSource
    <3>2. CASE b = c /\ cur[b] < MaxItems
      <4>1. /\ cur'[c] = cur[c] + 1 /\ wpc'[c] = "swap"
            /\ writeBuf'[Outs[c][i]] = cur[c] + 1
            /\ UNCHANGED <<readBuf, k>>
        BY <2>2, <3>2, GraphAssumption DEF Produce, IsSource
      <4> QED BY <4>1
    <3>3. CASE b = c /\ ~(cur[b] < MaxItems)
      BY <2>2, <3>3 DEF Produce, IsSource
    <3> QED BY <3>1, <3>2, <3>3
  <2>3. CASE Process(b)
    <3>1. readBuf[In[b]] = cur[b]
      BY <2>3 DEF Process, ReaderInv, ReaderOK, Holding
    <3> QED BY <2>3, <3>1, EndsAreStreams, EndsAreUnique DEF Process, IsSource
  <2>4. CASE SplitCopy(b)
    <3>1. readBuf[In[b]] = cur[b] /\ ~IsSource(b)
      BY <2>4, GraphAssumption DEF SplitCopy, ReaderInv, ReaderOK, Holding, IsSource
    <3>2. CASE b # c
      BY <2>4, <3>2, EndsAreStreams, EndsAreUnique DEF SplitCopy, IsSource
    <3>3. CASE b = c /\ k[b] \in OutIdx(b)
      <4>1. /\ wpc[c] = "proc" /\ wpc'[c] = "swap" /\ UNCHANGED <<cur, readBuf, k>>
            /\ Outs[c][k[c]] \in Streams
            /\ writeBuf' = [writeBuf EXCEPT ![Outs[c][k[c]]] = cur[c]]
        BY <2>4, <3>1, <3>3, EndsAreStreams DEF SplitCopy
      <4> QED BY <2>4, <3>1, <3>3, <4>1 DEF SplitCopy
    <3>4. CASE b = c /\ k[b] \notin OutIdx(b)
      BY <2>4, <3>4 DEF SplitCopy, IsSource
    <3> QED BY <3>2, <3>3, <3>4
  <2>5. CASE FlushReady(b)
    BY <2>5 DEF FlushReady, IndexInv, IsSource
  <2>6. CASE FlushSwap(b)
    BY <2>6 DEF FlushSwap, AfterFlush, IndexInv, IsSource
  <2>7. CASE Swap(b)
    <3>1. k[b] \in OutIdx(b) /\ Outs[b][k[b]] \in Streams
      BY <2>7, EndsAreStreams DEF Swap, IndexInv
    <3>2. Outs[b][k[b]] = Outs[c][i] => b = c /\ i = k[b]
      BY <3>1, EndsAreUnique
    <3>3. CASE writerStop[Outs[b][k[b]]]
      BY <2>7, <3>3 DEF Swap, IsSource
    <3>4. CASE ~writerStop[Outs[b][k[b]]]
      <4>1. /\ wpc[b] = "swap" /\ wpc' = [wpc EXCEPT ![b] = "publish"] /\ UNCHANGED <<cur, k>>
            /\ readBuf' = [readBuf EXCEPT ![Outs[b][k[b]]] = writeBuf[Outs[b][k[b]]]]
            /\ writeBuf' = [writeBuf EXCEPT ![Outs[b][k[b]]] = readBuf[Outs[b][k[b]]]]
        BY <2>7, <3>4 DEF Swap
      <4>2. CASE b = c /\ i = k[b]
        BY <3>1, <4>1, <4>2
      <4>3. CASE Outs[b][k[b]] # Outs[c][i]
        BY <3>1, <4>1, <4>3 DEF IsSource
      <4> QED BY <3>2, <4>2, <4>3
    <3> QED BY <3>3, <3>4
  <2>8. CASE Publish(b)
    BY <2>8 DEF Publish, LoopTop, IsSource
  <2> QED BY <1>2, <2>1, <2>2, <2>3, <2>4, <2>5, <2>6, <2>7, <2>8 DEF Work
<1>3. ASSUME NEW b \in Blocks, Control(b) PROVE WriterOK(c, i)'
  <2>1. UNCHANGED <<writeBuf, readBuf, k, cur>>
    BY <1>3, ControlFrame
  <2>2. wpc'[c] \in {wpc[c], "none", LoopTop(c)}
    BY <1>3, ControlFrame
  <2> QED BY <2>1, <2>2 DEF LoopTop, IsSource
<1> QED BY <1>1, <1>2, <1>3 DEF Next

\* A step keeps the window inside swap() consistent: between its two critical
\* sections the packet is in the read buffer and not yet announced.
LEMMA PublishStep == IInv /\ [Next]_vars => PublishInv'
<1> SUFFICES ASSUME TypeOK, IndexInv, ControlInv, ReaderInv, PublishInv, [Next]_vars,
                    NEW c \in Blocks, NEW i \in OutIdx(c),
                    wpc'[c] = "publish", i = k'[c], NEW r \in Blocks
             PROVE  /\ ~canSwap'[Outs[c][i]] /\ ~dataReady'[Outs[c][i]]
                    /\ In[r] = Outs[c][i] => ~Holding(r)'
  BY DEF IInv, PublishInv, PublishOK, OutIdx
<1> DEFINE s == Outs[c][i]
<1>0. s \in Streams /\ PublishOK(c, i)
  BY EndsAreStreams DEF PublishInv
<1>a. In[r] = s => ~IsSource(r)
  BY <1>0, GraphAssumption DEF IsSource
<1> USE <1>0, <1>a DEF TypeOK, PublishOK, Holding, streamVars, workVars, ctrlVars
<1> HIDE DEF s
<1> DEFINE Goal == ~canSwap'[s] /\ ~dataReady'[s] /\ (In[r] = s => ~Holding(r)')
<1>1. CASE UNCHANGED vars
  BY <1>1 DEF vars, IsSource, s
<1>2. ASSUME NEW b \in Blocks, Work(b) PROVE Goal
  <2> USE DEF Goto
  <2>0. ~IsSource(b) /\ wpc[b] \in {"proc", "flushReady", "flushSwap"} => Holding(b)
    OBVIOUS
  <2>1. CASE Read(b)
    BY <2>1 DEF Read, IndexInv, IsSource, s
  <2>2. CASE Produce(b)
    BY <2>2 DEF Produce, IsSource, s
  <2>3. CASE Process(b)
    BY <2>3 DEF Process, IsSource, s
  <2>4. CASE SplitCopy(b)
    BY <2>4 DEF SplitCopy, IsSource, s
  <2>5. CASE FlushReady(b)
    BY <2>5 DEF FlushReady, IndexInv, IsSource, s
  <2>6. CASE FlushSwap(b)
    BY <2>6 DEF FlushSwap, AfterFlush, IndexInv, IsSource, s
  <2>7. CASE Swap(b)
    <3>1. k[b] \in OutIdx(b) /\ Outs[b][k[b]] \in Streams
      BY <2>7, EndsAreStreams DEF Swap, IndexInv
    <3>2. Outs[b][k[b]] = s => b = c /\ i = k[b]
      BY <3>1, EndsAreUnique DEF s
    <3>3. PICK q \in Blocks : In[q] = s
      BY GraphAssumption
    <3>4. canSwap[s] => ~dataReady[s] /\ (In[r] = s => ~Holding(r))
      <4>1. ~IsSource(q) /\ ReaderOK(q)
        BY <3>3, GraphAssumption DEF ReaderInv, IsSource
      <4>2. In[r] = s => ReaderOK(r)
        BY DEF ReaderInv
      <4> QED BY <3>3, <4>1, <4>2 DEF ReaderOK
    <3>5. CASE writerStop[Outs[b][k[b]]]
      BY <2>7, <3>5 DEF Swap, IsSource, s
    <3>6. CASE ~writerStop[Outs[b][k[b]]]
      <4>1. /\ wpc[b] = "swap" /\ wpc' = [wpc EXCEPT ![b] = "publish"]
            /\ UNCHANGED <<k, dataReady>> /\ canSwap[Outs[b][k[b]]]
            /\ canSwap' = [canSwap EXCEPT ![Outs[b][k[b]]] = FALSE]
        BY <2>7, <3>6 DEF Swap
      <4>2. In[r] = s => (Holding(r)' <=> Holding(r))
        BY <4>1 DEF IsSource
      <4>3. CASE Outs[b][k[b]] = s
        BY <3>1, <3>4, <4>1, <4>2, <4>3
      <4>4. CASE Outs[b][k[b]] # s
        <5>1. b # c
          BY <4>1, <4>4 DEF s
        <5> QED BY <3>1, <4>1, <4>2, <4>4, <5>1 DEF s
      <4> QED BY <4>3, <4>4
    <3> QED BY <3>5, <3>6
  <2>8. CASE Publish(b)
    <3>1. k[b] \in OutIdx(b) /\ Outs[b][k[b]] \in Streams
      BY <2>8, EndsAreStreams DEF Publish, IndexInv
    <3>2. Outs[b][k[b]] = s => b = c
      BY <3>1, EndsAreUnique DEF s
    <3> QED BY <2>8, <3>1, <3>2 DEF Publish, LoopTop, IsSource, s
  <2> QED BY <1>2, <2>1, <2>2, <2>3, <2>4, <2>5, <2>6, <2>7, <2>8 DEF Work
<1>3. ASSUME NEW b \in Blocks, Control(b) PROVE Goal
  BY <1>3, ControlFrame DEF LoopTop, IsSource, s
<1> QED BY <1>1, <1>2, <1>3 DEF Next, s

-----------------------------------------------------------------------------
\* A pipeline starts in its invariant.
LEMMA InitInv == Init => IInv
<1> SUFFICES ASSUME Init PROVE IInv
  OBVIOUS
<1> USE DEF Init
<1>1. TypeOK
  <2>1. 0 \in Items /\ 0 \in 0 .. MaxDepth /\ 1 \in Nat \ {0}
    BY BoundAssumption DEF Items
  <2> QED BY <2>1 DEF TypeOK, WorkerPc, CtlPc
<1>2. IndexInv
  BY DEF IndexInv
<1>6. PublishInv
  BY DEF PublishInv, PublishOK
<1>7. NoTerminate
  BY DEF NoTerminate
<1>3. ControlInv
  BY EndsAreStreams DEF ControlInv, ControlOK
<1>4. ReaderInv
  BY EndsAreStreams DEF ReaderInv, ReaderOK, Holding
<1>5. WriterInv
  BY EndsAreStreams DEF WriterInv, WriterOK, Pending, Filled
<1> QED BY <1>1, <1>2, <1>3, <1>4, <1>5, <1>6, <1>7 DEF IInv

\* Every step of a pipeline keeps the invariant.
LEMMA NextInv == IInv /\ [Next]_vars => IInv'
<1> SUFFICES ASSUME IInv, [Next]_vars PROVE IInv'
  OBVIOUS
<1>1. TypeOK' /\ IndexInv'
  BY TypeStep, IndexStep DEF IInv
<1>2. ControlInv' /\ NoTerminate'
  BY ControlStep DEF IInv
<1>3. ReaderInv' /\ WriterInv' /\ PublishInv'
  BY ReaderStep, WriterStep, PublishStep
<1> QED BY <1>1, <1>2, <1>3 DEF IInv

\* IInv is an invariant of every pipeline.
THEOREM PipelineInvariant == Spec => []IInv
  BY InitInv, NextInv, PTL DEF Spec

\* The state of every pipeline stays within its types (stream.h, block.h).
THEOREM TypeCorrect == Spec => []TypeOK
<1>1. IInv => TypeOK
  BY DEF IInv
<1> QED BY <1>1, PipelineInvariant, PTL

\* In every pipeline a reader's packet is not replaced while it works on it.
THEOREM BufferStability == Spec => []BufferStable
<1>1. IInv => BufferStable
  <2> SUFFICES ASSUME IInv, NEW b \in Blocks, Holding(b) PROVE readBuf[In[b]] = cur[b]
    BY DEF BufferStable
  <2>1. ReaderOK(b)
    BY DEF IInv, ReaderInv, Holding
  <2> QED BY <2>1 DEF ReaderOK
<1> QED BY <1>1, PipelineInvariant, PTL

\* In every pipeline starting, stopping and pausing blocks never overwrites
\* a joinable thread object (block.h doStart).
THEOREM ThreadSafety == Spec => []NoTerminate
<1>1. IInv => NoTerminate
  BY DEF IInv
<1> QED BY <1>1, PipelineInvariant, PTL

\* In every pipeline a stopped or paused block has no worker and leaves no
\* stop flag behind in its streams (block.h doStop).
THEOREM QuietStop == Spec => []QuietWhenStopped
<1>1. IInv => QuietWhenStopped
  BY DEF IInv, QuietWhenStopped, ControlInv, ControlOK
<1> QED BY <1>1, PipelineInvariant, PTL

\* In every pipeline each packet passes each block at most once and in order.
THEOREM OrderedDelivery == Spec => InOrder
<1>1. ASSUME IInv, [Next]_vars
      PROVE  [\A b \in Blocks : wpc[b] = "read" /\ wpc'[b] = "proc" => cur'[b] > cur[b]]_vars
  <2> SUFFICES ASSUME NEW b \in Blocks, wpc[b] = "read", wpc'[b] = "proc", Next
               PROVE  cur'[b] > cur[b]
    BY <1>1
  <2> USE DEF IInv, TypeOK
  <2>1. PICK c \in Blocks : Work(c) \/ Control(c)
    BY DEF Next
  <2>2. Read(b) /\ ~readerStop[In[b]]
    <3>1. CASE Control(c)
      BY <1>1, <2>1, <3>1, ControlFrame DEF LoopTop
    <3>2. CASE Work(c)
      <4>1. c = b
        BY <1>1, <3>2 DEF Work, Read, Produce, Process, SplitCopy, FlushReady, FlushSwap,
           Swap, Publish, Goto
      <4>2. Read(b)
        BY <3>2, <4>1 DEF Work, Produce, Process, SplitCopy, FlushReady, FlushSwap,
           Swap, Publish
      <4> QED BY <1>1, <4>2 DEF Read, Goto
    <3> QED BY <2>1, <3>1, <3>2
  <2>3. ~IsSource(b) /\ In[b] \in Streams
    BY <1>1, EndsAreStreams DEF IndexInv
  <2>4. ReaderOK(b) /\ ~Holding(b)
    BY <1>1, <2>3 DEF ReaderInv, Holding
  <2>5. readBuf[In[b]] > cur[b]
    BY <2>2, <2>4 DEF Read, ReaderOK
  <2> QED BY <1>1, <2>2, <2>5 DEF Read
<1> QED BY <1>1, PipelineInvariant, PTL DEF Spec, InOrder

-----------------------------------------------------------------------------
\* Reader(s) is the block that reads s.
LEMMA ReaderOfStream ==
  ASSUME NEW s \in Streams
  PROVE  /\ Reader(s) \in Blocks /\ In[Reader(s)] = s /\ ~IsSource(Reader(s))
         /\ \A b \in Blocks : In[b] = s => b = Reader(s)
<1>1. \E b \in Blocks : In[b] = s
  BY GraphAssumption
<1>2. Reader(s) \in Blocks /\ In[Reader(s)] = s
  BY <1>1 DEF Reader
<1>3. ~IsSource(Reader(s))
  BY <1>2, GraphAssumption DEF IsSource
<1> QED BY <1>2, <1>3, EndsAreUnique

\* Every step of a pipeline is a Put, a Get or a stutter of its channels.
LEMMA ChannelStep ==
  IInv /\ [Next]_vars => [Channel!Next]_<<readBuf, [s \in Streams |-> cur[Reader(s)]]>>
<1> DEFINE got == [s \in Streams |-> cur[Reader(s)]]
<1> SUFFICES ASSUME IInv, [Next]_vars PROVE [Channel!Next]_<<readBuf, got>>
  OBVIOUS
<1>0. got' = [s \in Streams |-> cur'[Reader(s)]]
  BY DEF Reader
<1> HIDE DEF got
<1> USE DEF IInv, TypeOK
<1>1. CASE UNCHANGED <<readBuf, cur>>
  BY <1>1, <1>0 DEF got
<1>2. ASSUME NEW b \in Blocks, Read(b), ~readerStop[In[b]]
      PROVE  Channel!Get(In[b]) /\ In[b] \in Streams
  <2>1. ~IsSource(b) /\ In[b] \in Streams
    BY <1>2, EndsAreStreams DEF Read, IndexInv
  <2>2. ReaderOK(b) /\ ~Holding(b)
    BY <1>2, <2>1 DEF ReaderInv, Holding, Read
  <2>3. readBuf[In[b]] > cur[b]
    BY <1>2, <2>2 DEF Read, ReaderOK
  <2>4. cur' = [cur EXCEPT ![b] = readBuf[In[b]]] /\ UNCHANGED readBuf
    BY <1>2 DEF Read, streamVars
  <2>5. Reader(In[b]) = b
    BY <2>1, ReaderOfStream
  <2>6. got' = [got EXCEPT ![In[b]] = readBuf[In[b]]]
    <3>1. ASSUME NEW s \in Streams, s # In[b] PROVE Reader(s) # b
      BY <3>1, ReaderOfStream
    <3>2. ASSUME NEW s \in Streams PROVE Reader(s) \in Blocks
      BY ReaderOfStream
    <3> QED BY <1>0, <2>1, <2>4, <2>5, <3>1, <3>2 DEF got
  <2>7. cur[b] \in Int /\ readBuf[In[b]] \in Int
    BY <2>1 DEF Items
  <2>8. readBuf[In[b]] # got[In[b]]
    BY <2>1, <2>3, <2>5, <2>7 DEF got
  <2> QED BY <2>1, <2>4, <2>6, <2>8 DEF Channel!Get, got
<1>3. ASSUME NEW b \in Blocks, Swap(b), ~writerStop[Outs[b][k[b]]]
      PROVE  Channel!Put(Outs[b][k[b]]) /\ Outs[b][k[b]] \in Streams
  <2> DEFINE s == Outs[b][k[b]]
  <2>1. k[b] \in OutIdx(b) /\ s \in Streams
    BY <1>3, EndsAreStreams DEF Swap, IndexInv
  <2> HIDE DEF s
  <2>2. /\ canSwap[s] /\ wpc[b] = "swap" /\ UNCHANGED cur
        /\ readBuf' = [readBuf EXCEPT ![s] = writeBuf[s]]
    BY <1>3 DEF Swap, s
  <2>3. writeBuf[s] > readBuf[s]
    BY <2>1, <2>2 DEF WriterInv, WriterOK, Pending, Filled, s
  <2>4. readBuf[s] = cur[Reader(s)]
    BY <2>1, <2>2, ReaderOfStream DEF ReaderInv, ReaderOK
  <2>5. readBuf[s] = got[s] /\ UNCHANGED got
    BY <1>0, <2>1, <2>2, <2>4 DEF got
  <2>6. writeBuf[s] \in Items
    BY <2>1
  <2> QED BY <2>1, <2>2, <2>3, <2>5, <2>6 DEF Channel!Put, got, s
<1>4. ASSUME NEW b \in Blocks, Produce(b) PROVE UNCHANGED <<readBuf, got>>
  <2>1. UNCHANGED readBuf /\ \A c \in Blocks : c # b => cur'[c] = cur[c]
    BY <1>4 DEF Produce
  <2>2. ASSUME NEW s \in Streams PROVE Reader(s) \in Blocks /\ Reader(s) # b
    BY <1>4, ReaderOfStream DEF Produce
  <2> QED BY <1>0, <2>1, <2>2 DEF got
<1>5. \/ UNCHANGED <<readBuf, cur>>
      \/ \E b \in Blocks : Read(b) /\ ~readerStop[In[b]]
      \/ \E b \in Blocks : Swap(b) /\ ~writerStop[Outs[b][k[b]]]
      \/ \E b \in Blocks : Produce(b)
  <2>1. CASE UNCHANGED vars
    BY <2>1 DEF vars, streamVars, workVars
  <2>2. ASSUME NEW b \in Blocks, Control(b) PROVE UNCHANGED <<readBuf, cur>>
    BY <2>2, ControlFrame
  <2>3. ASSUME NEW b \in Blocks, Work(b)
        PROVE  \/ UNCHANGED <<readBuf, cur>>
               \/ Read(b) /\ ~readerStop[In[b]]
               \/ Swap(b) /\ ~writerStop[Outs[b][k[b]]]
               \/ Produce(b)
    BY <2>3 DEF Work, Read, Process, SplitCopy, FlushReady, FlushSwap, Swap, Publish,
       streamVars, workVars
  <2> QED BY <2>1, <2>2, <2>3 DEF Next
<1> QED BY <1>1, <1>2, <1>3, <1>4, <1>5 DEF Channel!Next, got

\* Every pipeline's streams are channels exactly one packet deep: the
\* detailed specification implements PacketChannel (stream.h).
THEOREM ChannelRefinement == Spec => StreamsAreChannels
<1>1. Init => Channel!Init
  BY ReaderOfStream DEF Init, Channel!Init
<1> QED BY <1>1, ChannelStep, PipelineInvariant, PTL DEF Spec, StreamsAreChannels, Channel!Spec

-----------------------------------------------------------------------------
(***************************************************************************)
(* Stops that return and packets that arrive.                              *)
(***************************************************************************)

\* The worker waits in read() or swap() for its neighbour.
Blocked(b) ==
  \/ wpc[b] = "read" /\ ~dataReady[In[b]] /\ ~readerStop[In[b]]
  \/ wpc[b] = "swap" /\ ~canSwap[Outs[b][k[b]]] /\ ~writerStop[Outs[b][k[b]]]

\* Once doStop() waits for the worker all its streams are poisoned.
PoisonOK(b) ==
  /\ ctl[b] \in {"stopWriters", "join"} /\ ~IsSource(b) => readerStop[In[b]]
  /\ ctl[b] = "join" => \A i \in OutIdx(b) : writerStop[Outs[b][i]]

\* A worker is there while its block is up, and ends only when it is stopped
\* or has no more packets to make.
ExitOK(b) ==
  /\ ctl[b] = "idle" /\ running[b] /\ tempStopDepth[b] > 0 => tempStopped[b]
  /\ ctl[b] = "idle" /\ running[b] /\ tempStopDepth[b] = 0 => wpc[b] # "none"
  /\ wpc[b] = "exit" =>
       ctl[b] \in {"stopWriters", "join"} \/ (IsSource(b) /\ cur[b] = MaxItems)
  /\ b \in Splitters /\ wpc[b] \in {"flushReady", "flushSwap"} /\ k[b] \in OutIdx(b) =>
       ctl[b] = "join"

\* A stream its writer may not use holds a packet that was announced, or
\* somebody is about to announce it or to give the stream back.
HandOK(b) ==
  ~canSwap[In[b]] =>
    \/ dataReady[In[b]] \/ wpc[b] = "flushSwap"
    \/ \E c \in Blocks : wpc[c] = "publish" /\ Outs[c][k[c]] = In[b]

StopInv == \A b \in Blocks : PoisonOK(b) /\ ExitOK(b)
HandInv == \A b \in Blocks : ~IsSource(b) => HandOK(b)

\* The steps a worker has left once its streams are poisoned, at most.
StepsLeft(b) ==
  CASE wpc[b] = "publish" -> 7
    [] wpc[b] = "proc" -> 6
    [] wpc[b] = "swap" -> IF b \in Splitters THEN 5 ELSE 2
    [] wpc[b] = "flushReady" -> 4
    [] wpc[b] = "flushSwap" -> 3
    [] wpc[b] = "read" -> 2
    [] wpc[b] = "exit" -> 1
    [] wpc[b] = "none" -> 0

\* doStop() never joins a worker that waits for a neighbour ...
StopNotBlocked == \A b \in Blocks : ctl[b] = "join" => ~Blocked(b)

\* ... and every step the worker still makes brings it nearer to its end.
StopCountsDown ==
  [][\A b \in Blocks :
       ctl[b] = "join" /\ wpc'[b] # wpc[b] => StepsLeft(b)' < StepsLeft(b)]_vars

\* The graph has no cycle: blocks have heights that fall along the streams.
Acyclic ==
  \E height \in [Blocks -> Nat] :
    \A b \in Blocks : \A i \in OutIdx(b) : height[Reader(Outs[b][i])] < height[b]

\* No worker can make a step.
Stalled == \A b \in Blocks : Blocked(b) \/ wpc[b] = "exit"

\* A graph in which all blocks are up stands still only when it is empty.
StallsDrained == AllUp /\ Stalled => Drained

\* Every non-empty set of natural numbers has a least element.
LEMMA LeastOf ==
  ASSUME NEW T \in SUBSET Nat, T # {}
  PROVE  \E x \in T : \A y \in T : x <= y
<1>1. PICK x \in T : \A y \in T : ~ (<<y, x>> \in OpToRel(<, Nat))
  BY NatLessThanWellFounded, WFMin
<1>2. ASSUME NEW y \in T PROVE x <= y
  <2>1. ~ (y < x)
    BY <1>1 DEF OpToRel
  <2> QED BY <2>1
<1> QED BY <1>2

\* A step keeps the streams of a block that is being stopped poisoned.
LEMMA PoisonStep ==
  ASSUME IInv, StopInv, [Next]_vars, NEW c \in Blocks
  PROVE  PoisonOK(c)'
<1>0. PoisonOK(c) /\ TypeOK /\ ControlInv
  BY DEF StopInv, IInv
<1> USE <1>0 DEF TypeOK, PoisonOK
<1>1. CASE UNCHANGED vars
  BY <1>1 DEF vars, streamVars, ctrlVars, IsSource, OutIdx
<1>2. ASSUME NEW b \in Blocks, Work(b) PROVE PoisonOK(c)'
  <2>1. UNCHANGED <<readerStop, writerStop, ctl>>
    BY <1>2 DEF Work, Read, Produce, Process, SplitCopy, FlushReady, FlushSwap, Swap, Publish,
       streamVars, ctrlVars
  <2> QED BY <2>1 DEF IsSource, OutIdx
<1>3. ASSUME NEW b \in Blocks, Control(b) PROVE PoisonOK(c)'
  <2>1. CASE Start(b) \/ Stop(b) \/ TempStop(b) \/ TempStart(b)
    <3>1. /\ UNCHANGED <<readerStop, writerStop>>
          /\ ctl'[c] = ctl[c] \/ ctl'[c] = "stopReaders"
      BY <2>1 DEF Start, Stop, TempStop, TempStart, streamVars
    <3> QED BY <3>1 DEF IsSource, OutIdx
  <2>2. CASE StopReaders(b)
    <3>1. /\ readerStop' = [s \in Streams |-> readerStop[s] \/ s = In[b]]
          /\ UNCHANGED writerStop
          /\ ctl' = [ctl EXCEPT ![b] = "stopWriters"]
      BY <2>2 DEF StopReaders
    <3>2. ~IsSource(c) => In[c] \in Streams
      BY EndsAreStreams
    <3> QED BY <3>1, <3>2 DEF IsSource, OutIdx
  <2>3. CASE StopWriters(b)
    <3>1. /\ writerStop' = [s \in Streams |-> writerStop[s] \/ IsOut(b, s)]
          /\ UNCHANGED readerStop
          /\ ctl' = [ctl EXCEPT ![b] = "join"] /\ ctl[b] = "stopWriters"
      BY <2>3 DEF StopWriters
    <3>2. \A i \in OutIdx(c) : Outs[c][i] \in Streams
      BY EndsAreStreams
    <3> QED BY <3>1, <3>2 DEF IsSource, OutIdx, IsOut
  <2>4. CASE Join(b)
    <3>1. /\ readerStop' = [s \in Streams |-> readerStop[s] /\ s # In[b]]
          /\ writerStop' = [s \in Streams |-> writerStop[s] /\ ~IsOut(b, s)]
          /\ ctl' = [ctl EXCEPT ![b] = "idle"]
      BY <2>4 DEF Join, ClearStops
    <3>2. CASE c = b
      BY <3>1, <3>2
    <3>3. CASE c # b
      <4>1. /\ ~IsSource(c) => In[c] \in Streams /\ In[c] # In[b]
            /\ \A i \in OutIdx(c) : Outs[c][i] \in Streams /\ ~IsOut(b, Outs[c][i])
        BY <3>3, EndsAreStreams, EndsAreUnique DEF IsOut
      <4> QED BY <3>1, <3>3, <4>1 DEF IsSource, OutIdx
    <3> QED BY <3>2, <3>3
  <2> QED BY <1>3, <2>1, <2>2, <2>3, <2>4 DEF Control, DoStop
<1> QED BY <1>1, <1>2, <1>3 DEF Next

\* A step keeps the end of a worker tied to a stop or to the end of a source.
LEMMA ExitStep ==
  ASSUME IInv, StopInv, [Next]_vars, NEW c \in Blocks
  PROVE  ExitOK(c)'
<1>0. /\ ExitOK(c) /\ PoisonOK(c) /\ ControlOK(c)
      /\ TypeOK /\ ControlInv /\ IndexInv
  BY DEF StopInv, IInv, ControlInv
<1> USE <1>0 DEF TypeOK
<1>1. CASE UNCHANGED vars
  BY <1>1 DEF vars, workVars, ctrlVars, ExitOK, IsSource, OutIdx
<1>2. ASSUME NEW b \in Blocks, Work(b), c # b PROVE ExitOK(c)'
  <2>1. wpc'[c] = wpc[c] /\ k'[c] = k[c] /\ cur'[c] = cur[c] /\ UNCHANGED ctrlVars
    BY <1>2 DEF Work, Read, Produce, Process, SplitCopy, FlushReady, FlushSwap, Swap, Publish,
       Goto
  <2> QED BY <2>1 DEF ctrlVars, ExitOK, IsSource, OutIdx
<1>3. ASSUME Work(c) PROVE ExitOK(c)'
  <2>1. UNCHANGED ctrlVars /\ wpc[c] \notin {"none", "exit"}
    BY <1>3 DEF Work, Read, Produce, Process, SplitCopy, FlushReady, FlushSwap, Swap, Publish
  <2> USE <2>1 DEF ctrlVars, ExitOK, IsSource, OutIdx, Goto
  <2>2. CASE Read(c)
    BY <2>2 DEF Read, ControlOK, IndexInv
  <2>3. CASE Produce(c)
    BY <2>3 DEF Produce
  <2>4. CASE Process(c)
    BY <2>4 DEF Process
  <2>5. CASE SplitCopy(c)
    BY <2>5 DEF SplitCopy
  <2>6. CASE FlushReady(c)
    BY <2>6 DEF FlushReady
  <2>7. CASE FlushSwap(c)
    BY <2>7 DEF FlushSwap, AfterFlush
  <2>8. CASE Swap(c)
    <3>1. k[c] \in OutIdx(c)
      BY <2>8 DEF Swap, IndexInv
    <3>2. writerStop[Outs[c][k[c]]] => ctl[c] = "join"
      BY <3>1 DEF ControlOK
    <3> QED BY <2>8, <3>1, <3>2 DEF Swap
  <2>9. CASE Publish(c)
    BY <2>9 DEF Publish, LoopTop
  <2> QED BY <1>3, <2>2, <2>3, <2>4, <2>5, <2>6, <2>7, <2>8, <2>9 DEF Work
<1>4. ASSUME NEW b \in Blocks, Control(b), c # b PROVE ExitOK(c)'
  <2>1. UNCHANGED <<k, cur>>
    BY <1>4, ControlFrame
  <2>2. /\ wpc'[c] = wpc[c] /\ ctl'[c] = ctl[c] /\ running'[c] = running[c]
        /\ tempStopDepth'[c] = tempStopDepth[c] /\ tempStopped'[c] = tempStopped[c]
    BY <1>4 DEF Control, Start, Stop, TempStop, TempStart, DoStart, DoStop, StopReaders,
       StopWriters, Join, ClearStops, Stopped, Goto, workVars
  <2> QED BY <2>1, <2>2 DEF ExitOK, IsSource, OutIdx
<1>5. ASSUME Control(c) PROVE ExitOK(c)'
  <2>0. UNCHANGED <<k, cur>> /\ LoopTop(c) \notin {"none", "exit", "flushReady", "flushSwap"}
    BY <1>5, ControlFrame DEF LoopTop
  <2> USE <2>0, BoundAssumption DEF ExitOK, ControlOK, IsSource, OutIdx
  <2>1. CASE Start(c)
    BY <2>1 DEF Start, DoStart
  <2>2. CASE Stop(c)
    BY <2>2 DEF Stop, workVars
  <2>3. CASE TempStop(c)
    BY <2>3 DEF TempStop, workVars
  <2>4. CASE TempStart(c)
    BY <2>4 DEF TempStart, DoStart
  <2>5. CASE StopReaders(c)
    BY <2>5 DEF StopReaders, workVars
  <2>6. CASE StopWriters(c)
    BY <2>6 DEF StopWriters, workVars
  <2>7. CASE Join(c)
    BY <2>7 DEF Join, Stopped, Goto
  <2> QED BY <1>5, <2>1, <2>2, <2>3, <2>4, <2>5, <2>6, <2>7 DEF Control, DoStop
<1> QED BY <1>1, <1>2, <1>3, <1>4, <1>5 DEF Next

\* The writer of the input of c is about to announce a packet.
Announcing(c) == \E b \in Blocks : wpc[b] = "publish" /\ Outs[b][k[b]] = In[c]

\* A step keeps every stream with a packet or on its way back to its writer:
\* swap() and flush() leave nothing undone between their critical sections.
LEMMA HandStep ==
  ASSUME IInv, HandInv, [Next]_vars, NEW c \in Blocks, ~IsSource(c)
  PROVE  HandOK(c)'
<1>0. /\ HandOK(c) /\ In[c] \in Streams
      /\ TypeOK /\ ControlInv /\ IndexInv
  BY EndsAreStreams DEF HandInv, IInv
<1> USE <1>0 DEF TypeOK
<1>a. HandOK(c) <=> (~canSwap[In[c]] => dataReady[In[c]] \/ wpc[c] = "flushSwap" \/ Announcing(c))
  BY DEF HandOK, Announcing
<1>b. HandOK(c)' <=> (~canSwap'[In[c]] => dataReady'[In[c]] \/ wpc'[c] = "flushSwap" \/ Announcing(c)')
  BY DEF HandOK, Announcing
<1>c. ASSUME NEW b \in Blocks, UNCHANGED k, \A d \in Blocks : d # b => wpc'[d] = wpc[d],
             wpc[b] # "publish"
      PROVE  Announcing(c) => Announcing(c)'
  BY <1>c DEF Announcing
<1>1. CASE UNCHANGED vars
  BY <1>1, <1>a, <1>b DEF vars, streamVars, workVars, Announcing
<1>2. ASSUME NEW b \in Blocks, Control(b) PROVE HandOK(c)'
  <2>1. /\ UNCHANGED <<canSwap, dataReady, k>>
        /\ \A d \in Blocks : wpc'[d] = wpc[d] \/ wpc[d] \in {"none", "exit"}
    BY <1>2, ControlFrame
  <2>2. Announcing(c) => Announcing(c)'
    BY <2>1 DEF Announcing
  <2> QED BY <1>a, <1>b, <2>1, <2>2
<1>3. ASSUME NEW b \in Blocks, Work(b) PROVE HandOK(c)'
  <2> USE DEF Goto, streamVars
  <2>1. CASE Read(b) \/ Produce(b) \/ Process(b) \/ SplitCopy(b)
    <3>1. /\ UNCHANGED <<canSwap, dataReady>> /\ wpc[b] \in {"read", "proc"}
          /\ \A d \in Blocks : d # b => wpc'[d] = wpc[d] /\ k'[d] = k[d]
      BY <2>1 DEF Read, Produce, Process, SplitCopy
    <3>2. Announcing(c) => Announcing(c)'
      BY <3>1 DEF Announcing
    <3> QED BY <1>a, <1>b, <3>1, <3>2
  <2>2. CASE FlushReady(b)
    <3>1. /\ UNCHANGED canSwap /\ wpc[b] = "flushReady" /\ wpc' = [wpc EXCEPT ![b] = "flushSwap"]
          /\ dataReady' = [dataReady EXCEPT ![In[b]] = FALSE] /\ UNCHANGED k
      BY <2>2 DEF FlushReady
    <3>2. Announcing(c) => Announcing(c)'
      BY <1>c, <3>1
    <3>3. In[b] = In[c] => b = c
      BY EndsAreUnique
    <3> QED BY <1>a, <1>b, <3>1, <3>2, <3>3
  <2>3. CASE FlushSwap(b)
    <3>1. /\ UNCHANGED <<dataReady, k>> /\ wpc[b] = "flushSwap"
          /\ \A d \in Blocks : d # b => wpc'[d] = wpc[d]
          /\ canSwap' = [canSwap EXCEPT ![In[b]] = TRUE]
      BY <2>3 DEF FlushSwap
    <3>2. Announcing(c) => Announcing(c)'
      BY <1>c, <3>1
    <3> QED BY <1>a, <1>b, <3>1, <3>2
  <2>4. CASE Swap(b)
    <3>1. /\ UNCHANGED <<dataReady, k>> /\ wpc[b] = "swap"
          /\ \A d \in Blocks : d # b => wpc'[d] = wpc[d]
      BY <2>4 DEF Swap
    <3>2. \/ UNCHANGED canSwap
          \/ canSwap' = [canSwap EXCEPT ![Outs[b][k[b]]] = FALSE] /\ wpc'[b] = "publish"
      BY <2>4 DEF Swap
    <3>3. Announcing(c) => Announcing(c)'
      BY <1>c, <3>1
    <3>4. Outs[b][k[b]] = In[c] /\ wpc'[b] = "publish" => Announcing(c)'
      BY <3>1 DEF Announcing
    <3> QED BY <1>a, <1>b, <3>1, <3>2, <3>3, <3>4
  <2>5. CASE Publish(b)
    <3>1. /\ UNCHANGED canSwap /\ wpc[b] = "publish"
          /\ \A d \in Blocks : d # b => wpc'[d] = wpc[d] /\ k'[d] = k[d]
          /\ dataReady' = [dataReady EXCEPT ![Outs[b][k[b]]] = TRUE]
      BY <2>5 DEF Publish
    <3>2. CASE Outs[b][k[b]] = In[c]
      BY <1>b, <3>1, <3>2
    <3>3. CASE Outs[b][k[b]] # In[c]
      <4>1. Announcing(c) => Announcing(c)'
        BY <3>1, <3>3 DEF Announcing
      <4> QED BY <1>a, <1>b, <3>1, <3>3, <4>1
    <3> QED BY <3>2, <3>3
  <2> QED BY <1>3, <2>1, <2>2, <2>3, <2>4, <2>5 DEF Work
<1> QED BY <1>1, <1>2, <1>3 DEF Next

\* In every pipeline stops, ends and hand-offs are as StopInv and HandInv say.
THEOREM HandOffInvariant == Spec => [](StopInv /\ HandInv)
<1>1. Init => StopInv /\ HandInv
  <2> SUFFICES ASSUME Init PROVE StopInv /\ HandInv
    OBVIOUS
  <2>1. \A b \in Blocks : PoisonOK(b) /\ ExitOK(b)
    BY DEF Init, PoisonOK, ExitOK
  <2>2. \A b \in Blocks : ~IsSource(b) => HandOK(b)
    BY EndsAreStreams DEF Init, HandOK
  <2> QED BY <2>1, <2>2 DEF StopInv, HandInv
<1>2. IInv /\ StopInv /\ [Next]_vars => StopInv'
  BY PoisonStep, ExitStep DEF StopInv
<1>3. IInv /\ HandInv /\ [Next]_vars => HandInv'
  BY HandStep DEF HandInv, IsSource
<1> QED BY <1>1, <1>2, <1>3, PipelineInvariant, PTL DEF Spec

\* In every pipeline a worker that doStop() waits for is not waiting itself,
\* whatever its neighbours do: read() and swap() find the stop (block.h doStop,
\* stream.h stopReader, stopWriter).
THEOREM StopsAreNotBlocked == Spec => []StopNotBlocked
<1>1. ASSUME IInv, StopInv PROVE StopNotBlocked
  <2> SUFFICES ASSUME NEW b \in Blocks, ctl[b] = "join" PROVE ~Blocked(b)
    BY DEF StopNotBlocked
  <2>1. PoisonOK(b) /\ IndexInv
    BY <1>1 DEF StopInv, IInv
  <2>2. wpc[b] = "read" => readerStop[In[b]]
    BY <2>1 DEF PoisonOK, IndexInv
  <2>3. wpc[b] = "swap" => writerStop[Outs[b][k[b]]]
    BY <2>1 DEF PoisonOK, IndexInv
  <2> QED BY <2>2, <2>3 DEF Blocked
<1> QED BY <1>1, PipelineInvariant, HandOffInvariant, PTL

\* In every pipeline a worker that doStop() waits for makes at most seven more
\* steps: with StopsAreNotBlocked, the join returns if threads that can run do
\* (block.h doStop; StopReturns).
THEOREM StopsCountDown == Spec => StopCountsDown
<1>1. ASSUME IInv, StopInv, [Next]_vars
      PROVE  [\A b \in Blocks :
                ctl[b] = "join" /\ wpc'[b] # wpc[b] => StepsLeft(b)' < StepsLeft(b)]_vars
  <2> SUFFICES ASSUME NEW b \in Blocks, ctl[b] = "join", wpc'[b] # wpc[b], Next
               PROVE  StepsLeft(b)' < StepsLeft(b)
    BY <1>1
  <2>0. TypeOK /\ IndexInv /\ PoisonOK(b) /\ ControlInv /\ wpc[b] \in WorkerPc
    BY <1>1 DEF IInv, StopInv, TypeOK
  <2> USE <2>0 DEF TypeOK, Goto, streamVars
  <2>1. PICK c \in Blocks : Work(c) \/ Control(c)
    BY DEF Next
  <2>2. c = b
    BY <2>1 DEF Work, Read, Produce, Process, SplitCopy, FlushReady, FlushSwap, Swap, Publish,
       Control, Start, Stop, TempStop, TempStart, DoStart, DoStop, StopReaders, StopWriters,
       Join, workVars
  <2>3. CASE Control(b)
    <3>1. Join(b)
      BY <2>3 DEF Control, Start, Stop, TempStop, TempStart, DoStop, StopReaders, StopWriters
    <3>2. wpc[b] = "exit" /\ wpc'[b] = "none"
      BY <3>1 DEF Join, Joinable
    <3> QED BY <3>2 DEF StepsLeft
  <2>4. CASE Read(b)
    <3>1. wpc[b] = "read" /\ wpc'[b] = "exit"
      BY <2>4 DEF Read, PoisonOK, IndexInv
    <3> QED BY <3>1 DEF StepsLeft
  <2>5. CASE Produce(b)
    <3>1. wpc[b] = "proc" /\ wpc'[b] \in {"swap", "exit"}
      BY <2>5 DEF Produce
    <3> QED BY <3>1 DEF StepsLeft
  <2>6. CASE Process(b) \/ SplitCopy(b)
    <3>1. wpc[b] = "proc" /\ wpc'[b] \in {"swap", "flushReady"}
      BY <2>6 DEF Process, SplitCopy
    <3> QED BY <3>1 DEF StepsLeft
  <2>7. CASE FlushReady(b)
    <3>1. wpc[b] = "flushReady" /\ wpc'[b] = "flushSwap"
      BY <2>7 DEF FlushReady
    <3> QED BY <3>1 DEF StepsLeft
  <2>8. CASE FlushSwap(b)
    <3>1. wpc[b] = "flushSwap" /\ (wpc'[b] \in {"read", "exit"} \/ (wpc'[b] = "swap" /\ b \notin Splitters))
      BY <2>8 DEF FlushSwap, AfterFlush
    <3> QED BY <3>1 DEF StepsLeft
  <2>9. CASE Swap(b)
    <3>1. writerStop[Outs[b][k[b]]] /\ wpc[b] = "swap"
      BY <2>9 DEF Swap, PoisonOK, IndexInv
    <3>2. wpc'[b] = IF b \in Splitters THEN "flushReady" ELSE "exit"
      BY <2>9, <3>1 DEF Swap
    <3> QED BY <3>1, <3>2 DEF StepsLeft
  <2>10. CASE Publish(b)
    <3>1. wpc[b] = "publish" /\ wpc'[b] \in {"proc", "read"}
      BY <2>10 DEF Publish, LoopTop
    <3> QED BY <3>1 DEF StepsLeft
  <2> QED BY <2>1, <2>2, <2>3, <2>4, <2>5, <2>6, <2>7, <2>8, <2>9, <2>10 DEF Work
<1> QED BY <1>1, PipelineInvariant, HandOffInvariant, PTL DEF Spec, StopCountsDown

\* No wake-up is lost and nobody waits for everybody: a pipeline without a
\* cycle, all of whose blocks are up, stands still only when every source has
\* ended and every packet has left (stream.h, block.h; Drains).
THEOREM NoStallWithPackets ==
  ASSUME Acyclic
  PROVE  Spec => []StallsDrained
<1>1. ASSUME IInv, StopInv, HandInv PROVE StallsDrained
  <2> SUFFICES ASSUME AllUp, Stalled PROVE Drained
    BY DEF StallsDrained
  <2>0. TypeOK /\ IndexInv
    BY <1>1 DEF IInv
  <2>1. ASSUME NEW b \in Blocks, wpc[b] = "exit" PROVE IsSource(b) /\ cur[b] = MaxItems
    BY <1>1, <2>1 DEF AllUp, StopInv, ExitOK
  <2>2. ASSUME NEW b \in Blocks PROVE wpc[b] # "swap"
    <3>1. PICK height \in [Blocks -> Nat] :
            \A d \in Blocks : \A i \in OutIdx(d) : height[Reader(Outs[d][i])] < height[d]
      BY DEF Acyclic
    <3> DEFINE T == {height[d] : d \in {e \in Blocks : wpc[e] = "swap"}}
    <3>2. SUFFICES ASSUME wpc[b] = "swap" PROVE FALSE
      OBVIOUS
    <3>3. T \in SUBSET Nat /\ T # {}
      BY <3>2
    <3>4. PICK x \in T : \A y \in T : x <= y
      BY <3>3, LeastOf
    <3>5. PICK d \in Blocks : wpc[d] = "swap" /\ height[d] = x
      OBVIOUS
    <3> DEFINE s == Outs[d][k[d]]
               c == Reader(s)
    <3>6. k[d] \in OutIdx(d) /\ s \in Streams /\ ~canSwap[s]
      BY <2>0, <3>5, EndsAreStreams DEF IndexInv, Stalled, Blocked
    <3>7. c \in Blocks /\ In[c] = s /\ ~IsSource(c)
      BY <3>6, ReaderOfStream
    <3>8. height[c] < height[d]
      BY <3>1, <3>5, <3>6
    <3>9. wpc[c] # "swap"
      <4>1. wpc[c] = "swap" => height[c] \in T
        BY <3>7
      <4>2. height[c] \in Nat /\ height[d] \in Nat
        BY <3>1, <3>5, <3>7
      <4> QED BY <3>4, <3>5, <3>8, <4>1, <4>2
    <3>10. wpc[c] = "read" /\ ~dataReady[s]
      BY <2>1, <3>7, <3>9 DEF Stalled, Blocked
    <3>11. \A e \in Blocks : wpc[e] # "publish"
      BY DEF Stalled, Blocked
    <3>12. HandOK(c)
      BY <1>1, <3>7 DEF HandInv
    <3> QED BY <3>6, <3>7, <3>10, <3>11, <3>12 DEF HandOK
  <2>3. ASSUME NEW b \in Blocks
        PROVE  IF IsSource(b) THEN wpc[b] = "exit" /\ cur[b] = MaxItems
                              ELSE wpc[b] = "read" /\ ~dataReady[In[b]]
    <3>1. wpc[b] = "exit" \/ (wpc[b] = "read" /\ ~dataReady[In[b]])
      BY <2>2 DEF Stalled, Blocked
    <3>2. IsSource(b) => wpc[b] # "read"
      BY <2>0 DEF IndexInv
    <3> QED BY <2>1, <3>1, <3>2
  <2> QED BY <2>3 DEF Drained
<1> QED BY <1>1, PipelineInvariant, HandOffInvariant, PTL
=============================================================================
