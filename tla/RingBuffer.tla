----------------------------- MODULE RingBuffer -----------------------------
(***************************************************************************)
(* dsp::buffer::RingBuffer: one reader thread and one writer thread that   *)
(* share a circular array.  The fill level is kept twice, readable under   *)
(* one mutex and writable under another, so that every transfer is several *)
(* critical sections; the stop flags are under neither mutex.              *)
(*                                                                         *)
(* Samples are numbered in the order in which they are put into the ring.  *)
(* A thread that evaluates its wait predicate holds its mutex until it is  *)
(* asleep ("sleeping" to "asleep"); a notification only reaches a thread   *)
(* that is asleep.  Locals are 0 where the code does not use them again.   *)
(***************************************************************************)
EXTENDS Integers, Sequences

CONSTANTS
  Size,       \* RING_BUF_SZ
  Latencies,  \* the values maxLatency takes
  MaxSamples  \* bound: samples put into the ring

ASSUME SizeAssumption == Size \in Nat \ {0}
ASSUME LatencyAssumption == Latencies \subseteq Nat \ {0}
ASSUME SamplesAssumption == MaxSamples \in Nat

VARIABLES
  buffer, readc, writec, readable, writable, maxLatency,
  stopReader, stopWriter,
  rpc, toRead, rleft,          \* the reader in read(): where it is, the run it
                               \* transfers, what is left of len
  wpc, toWrite, wleft, wseen,  \* the writer in write(), and the writable it read
  written                      \* history: samples put into the ring

fill   == <<readable, writable>>
reader == <<rpc, toRead, rleft, readc>>
writer == <<wpc, toWrite, wleft, wseen, writec, buffer, written>>
stops  == <<stopReader, stopWriter>>

\* Outside read() and write(): "done" and "failed" are their results, the
\* others belong to the threads that call them.
Idle == {"off", "loop", "failed", "done"}

ReadPcs  == Idle \cup {"test", "pred", "sleeping", "asleep", "copy", "take", "credit", "advance"}
WritePcs ==
  Idle \cup {"test", "room", "pred", "sleeping", "asleep", "copy", "publish", "debit", "advance"}

RingTypeOK ==
  /\ buffer \in [0 .. Size - 1 -> 0 .. MaxSamples]
  /\ readc \in 0 .. Size - 1 /\ writec \in 0 .. Size - 1
  /\ readable \in 0 .. Size /\ writable \in 0 .. 2 * Size
  /\ maxLatency \in Latencies
  /\ stopReader \in BOOLEAN /\ stopWriter \in BOOLEAN
  /\ rpc \in ReadPcs /\ wpc \in WritePcs
  /\ toRead \in 0 .. Size /\ toWrite \in 0 .. Size
  /\ rleft \in Nat /\ wleft \in Nat
  /\ wseen \in 0 .. 2 * Size /\ written \in 0 .. MaxSamples

RingInit ==
  /\ buffer = [i \in 0 .. Size - 1 |-> 0]
  /\ readc = 0 /\ writec = 0 /\ readable = 0 /\ writable = Size
  /\ maxLatency \in Latencies
  /\ stopReader = FALSE /\ stopWriter = FALSE
  /\ rpc = "off" /\ toRead = 0 /\ rleft = 0
  /\ wpc = "off" /\ toWrite = 0 /\ wleft = 0 /\ wseen = 0
  /\ written = 0

Least(a, b) == IF a < b THEN a ELSE b

\* Sample number of slot i counted from the read position on.
Slot(from, i) == buffer[(from + i) % Size]

-----------------------------------------------------------------------------
(* Reader: read(), and each of the two loops of readAndSkip().             *)

\* min(waitUntilReadable(), len - dataRead): a run was found.
Found(next) == toRead' = Least(readable, rleft) /\ rpc' = next

\* if (_stopReader) return -1; getReadable() outside the wait.
ReadTest(next) ==
  /\ rpc = "test"
  /\ \/ stopReader /\ rpc' = "failed" /\ UNCHANGED toRead
     \/ ~stopReader /\ readable # 0 /\ Found(next)
     \/ ~stopReader /\ readable = 0 /\ rpc' = "pred" /\ UNCHANGED toRead
  /\ UNCHANGED <<fill, writer, stops, maxLatency, readc, rleft>>

\* The predicate of canReadVar.wait, and the tests after it.
ReadPred(next) ==
  /\ rpc = "pred"
  /\ \/ stopReader /\ rpc' = "failed" /\ UNCHANGED toRead
     \/ ~stopReader /\ readable > 0 /\ Found(next)
     \/ ~stopReader /\ readable = 0 /\ rpc' = "sleeping" /\ UNCHANGED toRead
  /\ UNCHANGED <<fill, writer, stops, maxLatency, readc, rleft>>

\* The wait releases _readable_mtx and the thread sleeps.
ReadSleep ==
  /\ rpc = "sleeping" /\ rpc' = "asleep"
  /\ UNCHANGED <<fill, writer, stops, maxLatency, toRead, rleft, readc>>

\* notify_one() on canReadVar, canWriteVar.
NotifyReader == rpc' = IF rpc = "asleep" THEN "pred" ELSE rpc
NotifyWriter == wpc' = IF wpc = "asleep" THEN "pred" ELSE wpc

\* readable -= toRead
ReadTake ==
  /\ rpc = "take"
  /\ readable' = readable - toRead /\ rpc' = "credit"
  /\ UNCHANGED <<writable, writer, stops, maxLatency, toRead, rleft, readc>>

\* writable += toRead, once the writer is not inside its wait predicate
ReadCredit ==
  /\ rpc = "credit" /\ wpc # "sleeping"
  /\ writable' = writable + toRead /\ rpc' = "advance"
  /\ UNCHANGED <<readable, writer, stops, maxLatency, toRead, rleft, readc>>

\* Mutant: the writer is not notified.
ReadAdvanceSilent ==
  /\ rpc = "advance"
  /\ readc' = (readc + toRead) % Size
  /\ rleft' = rleft - toRead /\ toRead' = 0 /\ rpc' = (IF rleft = toRead THEN "done" ELSE "test")
  /\ UNCHANGED <<wpc, fill, stops, maxLatency, toWrite, wleft, wseen, writec, buffer, written>>

\* readc is advanced, the writer notified, the loop repeated or left.
ReadAdvance ==
  /\ rpc = "advance"
  /\ readc' = (readc + toRead) % Size
  /\ rleft' = rleft - toRead /\ toRead' = 0 /\ rpc' = (IF rleft = toRead THEN "done" ELSE "test")
  /\ NotifyWriter
  /\ UNCHANGED <<fill, stops, maxLatency, toWrite, wleft, wseen, writec, buffer, written>>

-----------------------------------------------------------------------------
(* Writer: write().                                                        *)

\* getWritable() for the writable w and the readable now in force.
Room(w) == LET left == Least(w, maxLatency - readable) IN IF left > 0 THEN left ELSE 0

\* if (_stopWriter) return -1; getWritable() reads writable ...
WriteTest ==
  /\ wpc = "test"
  /\ \/ stopWriter /\ wpc' = "failed" /\ UNCHANGED wseen
     \/ ~stopWriter /\ wseen' = writable /\ wpc' = "room"
  /\ UNCHANGED <<fill, reader, stops, maxLatency, toWrite, wleft, writec, buffer, written>>

\* ... then readable, each under its own mutex.
WriteRoom ==
  /\ wpc = "room" /\ rpc # "sleeping"
  /\ \/ Room(wseen) # 0 /\ toWrite' = Least(Room(wseen), wleft) /\ wpc' = "copy"
     \/ Room(wseen) = 0 /\ wpc' = "pred" /\ UNCHANGED toWrite
  /\ wseen' = 0
  /\ UNCHANGED <<fill, reader, stops, maxLatency, wleft, writec, buffer, written>>

\* The predicate of canWriteVar.wait, which reads readable without its mutex.
WritePred ==
  /\ wpc = "pred"
  /\ \/ stopWriter /\ wpc' = "failed" /\ UNCHANGED toWrite
     \/ ~stopWriter /\ Room(writable) > 0 /\ toWrite' = Least(Room(writable), wleft) /\ wpc' = "copy"
     \/ ~stopWriter /\ Room(writable) = 0 /\ wpc' = "sleeping" /\ UNCHANGED toWrite
  /\ UNCHANGED <<fill, reader, stops, maxLatency, wleft, wseen, writec, buffer, written>>

WriteSleep ==
  /\ wpc = "sleeping" /\ wpc' = "asleep"
  /\ UNCHANGED <<fill, reader, stops, maxLatency, toWrite, wleft, wseen, writec, buffer, written>>

\* Mutant: the part of the run that wraps around is not copied.
FilledToEnd ==
  [j \in 0 .. Size - 1 |->
     IF j >= writec /\ j - writec < toWrite THEN written + j - writec + 1 ELSE buffer[j]]

\* The run that write() copies: the slots it fills with the next samples.
Filled ==
  [j \in 0 .. Size - 1 |->
     LET i == (j - writec) % Size IN IF i < toWrite THEN written + i + 1 ELSE buffer[j]]

\* The memcpys of write().
WriteCopy ==
  /\ wpc = "copy"
  /\ buffer' = Filled /\ written' = written + toWrite /\ wpc' = "publish"
  /\ UNCHANGED <<fill, reader, stops, maxLatency, toWrite, wleft, wseen, writec>>

\* readable += toWrite, once the reader is not inside its wait predicate
WritePublish ==
  /\ wpc = "publish" /\ rpc # "sleeping"
  /\ readable' = readable + toWrite /\ wpc' = "debit"
  /\ UNCHANGED <<writable, reader, stops, maxLatency, toWrite, wleft, wseen, writec, buffer, written>>

\* Mutant: everything that is left of the packet is debited.
WriteDebitAll ==
  /\ wpc = "debit"
  /\ writable' = writable - wleft /\ wpc' = "advance"
  /\ UNCHANGED <<readable, reader, stops, maxLatency, toWrite, wleft, wseen, writec, buffer, written>>

\* writable -= toWrite
WriteDebit ==
  /\ wpc = "debit"
  /\ writable' = writable - toWrite /\ wpc' = "advance"
  /\ UNCHANGED <<readable, reader, stops, maxLatency, toWrite, wleft, wseen, writec, buffer, written>>

\* writec is advanced, the reader notified, the loop repeated or left.
WriteAdvance ==
  /\ wpc = "advance"
  /\ writec' = (writec + toWrite) % Size
  /\ wleft' = wleft - toWrite /\ toWrite' = 0 /\ wpc' = (IF wleft = toWrite THEN "done" ELSE "test")
  /\ NotifyReader
  /\ UNCHANGED <<fill, stops, maxLatency, toRead, rleft, readc, wseen, buffer, written>>

WriteStep ==
  \/ WriteTest \/ WriteRoom \/ WritePred \/ WriteSleep
  \/ WriteCopy \/ WritePublish \/ WriteDebit \/ WriteAdvance

-----------------------------------------------------------------------------
(* Stop requests: a plain store, then the notification.                    *)

StopReader ==
  /\ stopReader' = TRUE /\ NotifyReader
  /\ UNCHANGED <<fill, writer, stopWriter, maxLatency, toRead, rleft, readc>>

StopWriter ==
  /\ stopWriter' = TRUE /\ NotifyWriter
  /\ UNCHANGED <<fill, reader, stopReader, maxLatency, toWrite, wleft, wseen, writec, buffer, written>>

-----------------------------------------------------------------------------
(* Properties.                                                             *)

\* Offsets, counted from slot c, of a run of n samples.
Run(c, n) == {(c + i) % Size : i \in 0 .. n - 1}

\* Every slot is accounted for: while read() copies a run out of the ring
\* write() does not copy into any of its slots, also when either run wraps
\* around, and the two counters, which are never updated or read together, add
\* up to the ring but for the run that is between the two critical sections of
\* its transfer (ring_buffer.h:54-60 and 149-155).
SlotsAccounted ==
  /\ rpc = "copy" /\ wpc = "copy" => Run(readc, toRead) \cap Run(writec, toWrite) = {}
  /\ readable + writable
       = Size - (IF rpc = "credit" THEN toRead ELSE 0) + (IF wpc = "debit" THEN toWrite ELSE 0)

\* The samples the reader may take, from the one read() is at on.
Contents ==
  LET head == IF rpc \in {"credit", "advance"} THEN readc + toRead ELSE readc
  IN [i \in 1 .. readable |-> Slot(head, i - 1)]

\* Samples put: those published count, those only copied do not yet.
Published == IF wpc = "publish" THEN written - toWrite ELSE written

Queue == INSTANCE SampleQueue
  WITH Capacity <- Size, q <- Contents, count <- Published, limit <- maxLatency

\* The ring behaves as a queue that keeps samples in order, hands each out
\* once and respects capacity and latency limit.
RingIsQueue == Queue!Spec
=============================================================================
