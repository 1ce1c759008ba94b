# Verification of SDRIAK's core

SDRIAK is a software-defined-radio receiver: a graph of DSP worker threads fed
by a radio source, managers that own sources, sinks, VFOs and modules, a
configuration store shared by several running copies of the program, and a
server/client pair that lets one copy use the radio of another.  This directory
holds TLA+ models of the parts whose correctness depends on the order in which
threads, processes and messages act, TLC configurations that check them on
small instances, and TLAPS proofs that hold for instances of any size.

`PROJECT.json` holds the map from definitions to source lines, the runs, for
each property a mutant (a plausible bug in the code under which TLC finds the
property violated), the hazards of the code, the findings and the theorems.

Paths below are relative to `src/`; `dsp/` is short for `core/src/dsp/`.

## 1. Inventory

| Part | State it keeps | Operations | Hard because |
|---|---|---|---|
| `dsp::stream` (`dsp/stream.h`) | two buffers, `canSwap`, `dataReady`, `readerStop`, `writerStop` | `swap`, `read`, `flush`, `stopReader/Writer`, `clear...` | two threads, two mutexes, one hand-off in two critical sections |
| `dsp::block` and its kinds (`block.h`, `processor.h`, `sink.h`, `source.h`, `routing/splitter.h`, `sink/handler_sink.h`) | `running`, `tempStopped`, `tempStopDepth`, worker thread, its streams | `start`, `stop`, `tempStop`, `tempStart`, `run` | stopped from another thread at any point of `run()` |
| `dsp::chain` (`dsp/chain.h`) | ordered blocks, which are enabled, input and output streams | add, remove, enable, disable, set input, start, stop | rewires running blocks one at a time |
| IQ front end (`core/src/signal_path/iq_frontend.cpp`), source, sink and VFO managers | the receive graph | select source, add and remove VFO, start, stop | compositions of the above, driven by the GUI thread |
| `ConfigManager` (`core/src/config.cpp`, `config.h`) | live document, baseline, dirty flag, lifecycle | `load`, `save`, `edit`, `enableAutoSave`, `shutdown` | snapshots used after the lock is dropped; several processes; crashes, failed writes |
| `ConfigSaver` (`core/src/config.cpp`) | registry of managers, worker, `pending`, `stopping` | enable, disable, notify, flush, worker loop | managers vanish while the worker holds a copy of the registry |
| Server (`core/src/server.cpp`) | client sessions, authentication, heartbeat, running source | accept, hello, authenticate, commands, heartbeat, close | four kinds of thread, time-outs, one owner of the radio |
| `AsyncConnector` (`core/src/utils/async_connector.h`) | a pending connection attempt | begin, poll, cancel, shutdown | the late result of a cancelled attempt |
| Ring buffer, reshaper (`dsp/buffer/ring_buffer.h`, `reshaper.h`) | array, indices, two fill counters, stop flags; `_keep`, `_skip` | read, read and skip, write, stop; start, stop, reshape | two counters under two mutexes, flags under neither; wrap-around; two worker threads |
| Frame buffer, prebuffer, packer (`dsp/buffer/`) | frames, indices | read, write, stop | a ring that drops |
| Server client (`source_modules/sdriak_server_source/src/sdriak_server_client.cpp`) | waiters, pushed state, handshake flags, socket | handshake, requests, receive, sync, close | answers that are late, lost or for somebody else; a link that dies in silence |
| Socket wrappers, rigctl, recorder, scanner | sockets, queues, files | read, write, close | partial sends |
| Numeric DSP, decoders, drivers, GUI | - | - | numeric or pure I/O code |

How the parts interact.  A source driver calls `swap()` on the stream it owns;
the IQ front end reads it through a chain and a splitter, whose outputs feed
VFOs, demodulators and audio sinks, one worker thread per block.  The GUI
thread starts, stops, pauses and rewires blocks; it shares only the flags of
`stream` and `block` with the workers.  Every module edits a `ConfigManager`;
the autosaver thread and `shutdown()` commit it to a file other processes
commit to as well.  The server's accept thread, read workers, main loop and
DSP thread meet at `sessionMtx`, `controlMtx` and reference-counted sessions.
The client side opens its connection through `AsyncConnector`; its network
worker receives, wakes the threads that wait for an acknowledgement, and caches
what the server pushes for the GUI thread to apply.  The waterfall's FFT gets
its frames from a `Reshaper`, whose two threads meet in a `RingBuffer`.

What makes the parts correct:

- streams and blocks: a packet does not change under its reader, none is lost,
  repeated or reordered inside a stream, stop always returns, no wake-up is
  lost;
- chain: one path through the enabled blocks, never two readers of one stream,
  a removed block is unused;
- configuration: a process commits its own edits and nothing else, no edit is
  lost in memory or on the way to disk, shutdown returns, a destroyed manager
  is not touched;
- server: only the owner of the slot changes shared state, a client is
  displaced only by one that has proved itself, sessions are destroyed exactly
  when nobody uses them;
- connector: no client leaks, a cancelled attempt reports nothing;
- ring buffer and reshaper: a FIFO queue within its capacity and latency, frames
  at their exact stride, no lost wake-up;
- server client: no caller is lost among acknowledgement, cancellation and
  time-out, no pushed state is lost, only an accepted session is used, a dead
  link is noticed, close returns.

## 2. Modules and the code they model

### DspPipeline, PacketChannel

`DspPipeline` is a graph of blocks given by the constants `In` (the stream a
block reads), `Outs` (those it writes), `Splitters` and `Multirate`
(processors that may yield no packet).  A packet of samples is its serial
number.  The stream variables have the code's names; `wpc[b]` is the statement
of `run()` at which the worker of `b` stands, `cur[b]` the packet it works on,
`k[b]` the output it is at; `running`, `tempStopped`, `tempStopDepth` are
`block`'s, `ctl[b]` is where the control thread is in `doStop()`.

`Read`, `Process`, `Produce` and `SplitCopy` are the parts of `run()`; no class
of the repository derives from `dsp::Source`, so `Produce` is the worker of
`file_source`, which is started and stopped by the same calls as a block.
`swap()` is two steps, `Swap` (under `swapMtx`) and `Publish` (under `rdyMtx`),
`flush()` likewise `FlushReady` and `FlushSwap`.  `Start`, `Stop`, `TempStop`
and `TempStart` are the control calls and `StopReaders`, `StopWriters`, `Join`
the steps of `doStop()`, between which workers run.  Control calls on a block
come from one thread at a time (`ctrlMtx`), and a paused block is resumed
before it is started or stopped; every caller in the repository does so.

`PacketChannel` is the abstract specification of a stream: a queue exactly one
packet deep.  `StreamsAreChannels` states that the pipeline implements it,
with `sent` mapped to the read buffer and `got` to the reader's last packet.

### DspChain

The list of blocks, the enabled ones, every block's input, the blocks that run
and the stream the downstream reader is on.  A stream has the name of the
block that writes it.  `setInput`, `start` and `stop` calls inside
`enableBlock`, `disableBlock` and `removeBlock` are separate steps, because
the workers run meanwhile.  The two users of the chain (the IQ front end and
the radio module) move the downstream reader in the callback, and add blocks
disabled once the chain is in service; the model does the same.

### ConfigStore, ConfigSaver, ConfigMerge, ConfigCommit

`ConfigStore` is the `ConfigManager`s of several processes and the file they
share.  A document is a flat map; `Absent` is a missing key.  Saves are split
at the points where a lock is released or a file operation may fail: begin
(snapshot), lock, merge, write the temporary, replace, commit.  Processes may
crash at each of them, the lock, the write and the rename may fail, and the
file may at first be good, missing or invalid.  `unsaved`, `inflight`,
`intent`, `blind` and `unseen` are history variables for the properties.

The merge knows an edit only by its value: what equals the value from which it
measures changes counts as not edited, and the document's value is taken
(`config.cpp`:278).  So an edit can be lost that gives a key back that value:
the default that `load()` started from because it could not take the commit
lock or store it (`config.cpp`:604-605, 645), or what the document said when
`load()` began, edited away and back while it ran.  The program does lose it;
the model has these behaviours, `unseen` collects the keys whose last edit met
this, and `EditsStayLive` and `CleanIsDurable` except exactly those keys (without
the exception TLC refutes both).  The edits of a process whose load failed are
otherwise demanded like all others.

`ConfigSaver` is the registry and its worker with `lifecycleMtx` and every
registration's `useMtx` explicit; a save is abstracted to its outcome, since
`ConfigStore` has its inside.

`ConfigMerge` is `mergeLocalChanges` on nested documents.  The JSON values are
the constant `Json`, whose members are scalars, null and objects of members with
a smaller `Depth`; the recursion is the recursive function `MergeFcn` and one
level of it the operator `MergeStep`.  What a merge promises (`KeepsLocalChanges`,
`KeepsOthers`, `Commutes`) is stated for every path into every three documents:
`Walk(j, p)` is what is found in `j` along the keys of `p`.

`ConfigCommit` puts the two together: `FlatIsNested` says that the flat merge of
`ConfigStore`, which the proofs about processes use, is `mergeLocalChanges` on
flat documents, and the other three demand the promises of every merge.

### ServerSessions

The slots `current`, `pending`, `retired`; per session the socket, the flags of
`ClientSession` and where its read worker is; the control state; where the
accept thread, `heartbeatTick` and the baseband thread are, and the sessions
they hold.  A step is one critical section of `sessionMtx` or `controlMtx`.  A
handler that promotes a session takes two steps and holds `controlMtx` between
them (location `promoted`), because threads that take only `sessionMtx` see
the new slot before the handshake is finished.  Destroying a session is
`close()` followed by joining its worker; whichever thread drops the last
reference does it.  The references are the slots (`InSlot`) and what each thread
holds: the accept thread its snapshot of the current session from `getSession()`
to the end of the test (`accCur`), the new session until the handler returns
(`accNew`) and the superseded one (`accOld`); the heartbeat `hbS` and `hbDoomed`;
the baseband thread `bbS`.  A thread that lets go of a session others hold only
forgets it (`LetGo`); an expired pending session is closed by the heartbeat
whoever holds it, and freed by whoever is last.  Time is abstract: a time-out may be found elapsed at any
tick.  `actor` (whose commands the control state reflects) and `starter` (who
started the stream and did not stop it) are history variables.

### RingBuffer, SampleQueue, Reshaper

`RingBuffer` has the code's fields; samples are numbered in the order they are
written.  `rpc` and `wpc` are the places of the reader in `read()` (and in each
loop of `readAndSkip()`) and of the writer in `write()`.  Each critical section
is a step, and so are the test of a wait predicate (`ReadPred`, `WritePred`)
and the sleep that follows it (`ReadSleep`, `WriteSleep`): the mutex is held in
between, so the counters cannot change, but the stop flags can, because the
code sets them without it.  `SampleQueue` is the abstract bounded FIFO queue
that `RingIsQueue` refines to: `q` is what may be read and `count` what was
published.

`Reshaper` adds the block around it: the work thread (`RunRead`, `RunWrite`,
`RunFlush`), the buffer worker (`BufferLoop` to `BufferExit`), `doStop()` in its
order, and `setKeep`, `setSkip`.  Its streams are the one-packet channels that
`DspPipeline` shows them to be.  The uninitialised start of `buf` is the sample
number 0.  With a negative `_skip` the end of a frame is repeated at the start of
the next, and for `complex_t` and `stereo_t` (`Attenuated`) divided by ten each
time (`dsp/buffer/reshaper.h`:116-121): `tenths[i]` counts the divisions of
`frame[i]`.

### ServerClient

`stage` is the owner's progress through the constructor, use and `close()`;
`pc[c]` the place of caller `c` in a request, `waiters` the map
`commandAckWaiters`, `ready`, `canceled` and `data` the `PacketWaiter` of each
caller; `wpc` the network worker.  Of the server (`core/src/server.cpp`) the
module has only what it sends: it answers requests in order, late or not at all,
pushes sample rates, heartbeats and baseband, closes the connection or vanishes
without a word.  It sends an authentication error only as the answer to the
challenge, so none meets the client between the check of `authFailed`
(`TakeChallenge`) and its reset (`Respond`); the steps are separate all the same.
A `send()` to a peer that is gone may close the socket.  `close()` ends in the
model with the join; `chain.stop()` and `decomp.stop()`, which follow it, are
`DspPipeline`'s.
Time-outs may happen at any moment.  Requests carry numbers that only the
properties read; the protocol has none.

### AsyncConnector

The flags, `pending`, `pendingError` and `lastErrorStr`, the worker's place and
the GUI thread's place in `cancel()` and `shutdown()`.  An attempt's client has
the attempt's number; `made`, `delivered`, `closed` and `abandoned` record what
became of it.  Each access to an atomic flag and each critical section is a
step.

### MC modules

`MCDspPipeline`, `MCDspChain`, `MCConfigStore`, `MCConfigSaver`,
`MCServerSessions`, `MCAsyncConnector`, `MCReshaper` and `MCServerClient` give
the graphs, key owners, documents, packet kinds, frame shapes and symmetry sets
the configurations name.  `MCConfigStore` extends `ConfigCommit`.

## 3. Runs

| Run | What it checks | What it shows |
|---|---|---|
| `dsp_tree` | `BufferStable`, `NoTerminate`, `QuietWhenStopped`, `InOrder`, `StreamsAreChannels`, `StopReturns`, `Drains` | a source, a splitter with a sink on one branch and a multirate processor and its sink on the other; the splitter is stopped, paused (nested twice) and restarted at any moment, also between two outputs; every stop returns, an undisturbed graph drains |
| `dsp_chain` | `OnePath`, `OneReader`, `RemovedIsFree` | three blocks added, removed, enabled, disabled in any order on a running chain |
| `config_shared` | `CleanIsDurable`, `EditsStayLive`, `NoLockout`, `CommitsOwnEdits` | two processes, a crash, restarts, a failed lock, write or rename (2.3 million states); the exception of section 2 applies to the first two |
| | `LocalChangesWin`, `OthersKept`, `CommitOrderIrrelevant`, `FlatIsNested` | at the moment a save merges: the document it commits is the one the nested algorithm gives, and that algorithm keeps what it has to at every place of every three nested documents (a constant formula, which TLC evaluates once for the documents of the instance) |
| `saver` | `ReleasedAfterDisable`, `WorkerServes`, `EditsAreSaved`, `LifecycleReturns` | managers registered, unregistered and destroyed while the worker and `flushAll()` scan |
| `server_open` | `StateIsOwners`, `NoUseAfterDestroy`, `ClientKnowsRate` | two clients without a password, every kind of packet, sample-rate changes (3.1 million states) |
| `server_auth` | `DisplacedByProof`, `DeadAreReclaimed` | with a password, wrong answers, the cooldown; dead sessions are reclaimed, if no `send()` blocks for ever (`SendsReturn`, see Fairness) |
| `server_streaming` | `StreamingKeepsSlot` | *violated*: first finding below |
| `connector` | `FlagTracksWorker`, `ClientsAccounted`, `CancelIsFinal`, `AttemptEnds` | three attempts, cancelled and shut down at any point |
| `reshaper` | `SlotsAccounted`, `FrameStride`, `RingIsQueue`, `PacketsPass` | a ring of three slots, frames that overlap (attenuated), abut or leave gaps, packets of one and two samples, reshaped, stopped and restarted at any moment |
| `reshaper_stop` | `StopReturns` | *violated*: second finding below |
| `server_client` | `WaitersAccounted`, `PushedStateNotLost`, `UsableMeansAccepted`, `DeadLinkDetected`, `CloseReturns` | the GUI and a second thread send requests to a server that may be late, refuse, close or vanish |
| `client_late_ack` | `AckAnswersRequest` | *violated*: third finding below |

`NoLockout` is the safety half of "shutdown returns": `shutdown()` waits for the
saver, a save waits for the commit lock, and the invariant says that the holder
of the lock is in the middle of steps that wait for nobody.

### Bounds and why they are enough

For the safety properties that section 4 proves the bounds are gone; the
liveness properties and the findings rest on them.

- `MaxItems = 2`: a packet in the stream and the next one behind it; with the
  buffer being double a third adds no new relation between neighbours.  The
  proofs remove the bound, that on `MaxDepth`, the choice of graph and of the
  blocks that are stopped.
- Three chain blocks: an enabled block before and one after the block that is
  changed; two inputs, so that the input is switched.
- Two processes, a key of one of them and a shared one, two values: own edit,
  stale copy, deletion; conflicts of three values are in the merge formulas.
  Two edits: one before and one during a save.
  One fault and one crash, with three starts: what follows a failure is
  failure-free, which is the case the code recovers from.
- Documents of depth two, with two keys at the top or two in a section: the
  settings files have sections and values, and a section needs one key that is
  changed and one that is not.  The proofs are for any keys and any depth.
- Two managers and two registrations: one leaves while the other stays; the
  last leaves and a new one comes.  Two edits: one falls into the save of the
  other.
- Two sessions: a holder of the slot and a rival; the first finding needs
  three, and so does an accept thread that is the last to hold the session it
  took for the current one (in `server_streaming` and the theorems).  `server_auth` sends only the packets that take the slot, fail to, or
  stream; `server_open` sends all.  `MaxRate = 1` is one change at any moment.
- Three attempts: a late result of the first meets the second, and a third
  begins after that.
- A ring of three slots with `_keep` one or three and `_skip` from -2 to 1: runs
  wrap around, the latency limit `2 * _keep` is below the size for one shape and
  above it for the other, as with the largest FFT size in the program, and with
  an overlap of two a sample is repeated, and divided, twice.  Five samples lap
  the ring.
- Two requests by two threads, one pushed rate that meets the GUI's sync at any
  of its steps, one packet of the server's own on its way beside the answers.

### Fairness

Worker threads and the control thread inside `doStop()` are weakly fair: the
operating system runs a thread that can run.  A caller of `tempStop` goes on to
call `tempStart`, as every caller in the repository does.  In `ConfigSaver` the worker,
`flushAll()` and calls of enable and disable under way are fair; edits and new
calls are not.  In `ServerSessions` the server's threads are fair, clients
are not: they may connect, send and leave or never do; `recv()` fails on a
socket that was shut down or found broken.  `send()`
(`core/src/utils/networking.cpp`:141) has no timeout, and a client that does not
read keeps the thread that writes to it: the baseband thread with the session of
its snapshot, displaced or not, and, since replies and pushes are sent under
`controlMtx`, a handler or the heartbeat with the whole control plane.  So a
step that writes to an open socket is not fair, and `DeadAreReclaimed` has the
premise `SendsReturn`: no thread stays in such a step for ever.  Without it the
property is false, of the model and of the code; once a socket is shut down the
step is fair.  The one write without this care is the refusal of a newcomer
(`server.cpp`:387), a few bytes into the empty buffer of a fresh connection.  In `AsyncConnector` `Poll` is
strongly fair since the GUI polls on every frame; `begin` and `cancel` are
never forced.  In `Reshaper` both threads, `doStop()` and the downstream reader
are weakly fair; packets need not come.  In `ServerClient` the worker, the
owner inside `close()` and the handshake, and requests under way are weakly
fair (a request that gets no answer times out); the server owes nothing.

## 4. Proofs

Each component has a proofs module.  All have the same layout: the inductive
invariant `IInv` as a conjunction of named parts, lemmas about the operators the
model is built from, one lemma per part with one step per action, and the
theorems.  TLC has checked every `IInv` on the instance of the component's run.

| Module | Theorem | States | Constants and assumptions |
|---|---|---|---|
| `DspPipelineProofs` | `BufferStability`, `ThreadSafety`, `QuietStop`, `OrderedDelivery`, `ChannelRefinement` | `BufferStable`, `NoTerminate`, `QuietWhenStopped`, `InOrder`, `StreamsAreChannels` | every graph whose streams have one writer and one reader (`GraphAssumption`), any bound (`BoundAssumption`) |
| | `StopsAreNotBlocked`, `StopsCountDown` | `StopNotBlocked`, `StopCountsDown`: `doStop()` never joins a worker that waits, and the worker has at most seven steps left | the same |
| | `NoStallWithPackets` | `StallsDrained`: when all blocks are up and no worker can go on, no packet is left | the same, and a graph without a cycle (`Acyclic`, a hypothesis of the theorem) |
| `DspChainProofs` | `SamplesTakeOnePath`, `StreamsHaveOneReader`, `RemovedBlocksAreFree` | `OnePath`, `OneReader`, `RemovedIsFree` | any set of blocks and of inputs; a stream has one writer (`ChainAssumption`) |
| `ReshaperProofs` | `SlotsAreNotShared`, `RingImplementsQueue`, `FramesKeepTheStride` | `SlotsAccounted`, `RingIsQueue`, `FrameStride` | any ring size, packet size and number of samples, any `_keep` and `_skip` with a positive stride and an overlap of at most a frame (`SizeAssumption`, `LatencyAssumption`, `SamplesAssumption`, `ShapeAssumption`) |
| | `WakeupsAreNotLost` | `NoMissedWakeup`: reader and writer never sleep both, nor one that could go on without its wake-up under way | the same |
| `ConfigStoreProofs` | `LocalChangesKept`, `OthersAreKept`, `MergeCommutes`; `SavesKeepLocalChanges`, `SavesKeepOthers`, `SavesCommute`, `SavesMergeAsTheCode` | `KeepsLocalChanges`, `KeepsOthers`, `Commutes`; `LocalChangesWin`, `OthersKept`, `CommitOrderIrrelevant`, `FlatIsNested` | any JSON values of finite depth (`JsonAssumption`), the flat documents among them (`FlatAssumption`) |
| | `OnlyOwnEditsAreCommitted`, `CleanManagersAreSaved`, `EditsAreKept`, `LockIsReleased` | `CommitsOwnEdits`, `CleanIsDurable`, `EditsStayLive`, `NoLockout` | any processes, keys, values, numbers of edits, faults, crashes and starts (`DocAssumption`, `OwnAssumption`, `StoreBounds`) |
| `ConfigSaverProofs` | `NoUseAfterDisable`, `WorkerWhileRegistered` | `ReleasedAfterDisable`, `WorkerServes` | any managers and bounds (`SaverBounds`, `ManagersAssumption`) |
| | `EditsAreNotForgotten` | `NoEditForgotten`: a dirty registered manager has somebody who is going to save it | the same |
| | `LifecycleIsNotBlocked`, `JoinsCountDown` | `LifecycleNotBlocked`, `JoinCountsDown`: `disable()` waits for nobody who waits in turn, and the worker it joins begins no other scan | the same |
| `ServerSessionsProofs` | `OnlyTheOwnerActs`, `SessionsAreNotUsedAfterDestruction`, `RateReachesTheClient`, `SlotIsTakenByProof` | `StateIsOwners`, `NoUseAfterDestroy`, `ClientKnowsRate`, `DisplacedByProof` | any sessions, packets sent and rate changes, with and without a password (`SessionAssumption`, `ConfigAssumption`, `SentAssumption`) |
| | `NoSessionIsOrphaned`, `JoinsAreOfShutSockets`, `JoinsCountDown` | `NoOrphan`, `JoinInv`, `JoinCountsDown`: every session alive has an owner, and a joined read worker has at most three steps left | the same |
| `ServerClientProofs` | `NoCallerIsLost`, `NoPushIsLost`, `NoUseWithoutAcceptance` | `WaitersAccounted`, `PushedStateNotLost`, `UsableMeansAccepted` | any callers, requests, pushes and queue length (`ClientAssumption`) |
| | `CloseIsNotBlocked`, `CloseCountsTheWorkerDown` | `CloseNotBlocked`, `CloseCountsDown`: `close()` never joins a worker that waits, and it has at most five steps left | the same |
| | `RecvIsBoundedInUse`, `DeadLinksCountDown` | `UseIsBounded`, `DrainCountsDown`: no `recv()` of a client in use waits without a bound if the server sends heartbeats, and behind a peer that is gone the worker only comes nearer to its end | the same |
| `AsyncConnectorProofs` | `FlagCorrect`, `NoLeak`, `CancelStands` | `FlagTracksWorker`, `ClientsAccounted`, `CancelIsFinal` | any number of attempts (`ConnectorAssumption`) |

Each module also proves its `TypeOK` and, by name, that its `IInv` always holds.
The assumptions say that the stand-ins for "none" are none of the values they
stand beside, that bounds are numbers, and what the table names.

### The inductive invariants

**DspPipeline.**  `BufferStable` alone is not inductive: that `swap()` leaves the
reader's buffer alone depends on who may set `canSwap` when.  `IInv` adds
`ReaderInv` (what the two flags say about the reader, and that the stream is
empty exactly when its read buffer is the reader's last packet), `WriterInv` (a
packet still to be written is newer than the one in the stream), `PublishInv`
(between the halves of `swap()` the stream belongs to its writer), `IndexInv`
(the worker's output index) and `ControlInv` (which threads and stop flags exist
in which control state).

**DspChain.**  Between operations the wiring is a path; inside one it is a path
through the enabled blocks *and* the block of the operation, which may not be
fed yet.  `WireInv` says which of these holds at which step; it describes a path
without recursion, by what feeds each block: the nearest enabled block before it
or the chain's input.  `ListInv` says that no block is listed twice and that the
operation works on a member, `RunInv` that the running blocks are the enabled
ones.  Lemmas about positions (`SpliceBetween`, `BypassLast`, ...) show that each
rewiring step leads from one kind of path to the next; others show what
`blockBefore()`, `blockAfter()` and the erasure from the list return.

**RingBuffer and Reshaper.**  That the two runs are disjoint depends on where the
published samples are.  `RingInv` has `ReadInv` and `WriteInv` (a run that is
being copied is covered by `readable`, or has room in `writable` and below
`maxLatency`, although the writer reads the two counters one after the other),
`FillInv` (the counters add up but for the run between two critical sections)
and `SlotInv` (the published samples lie in order between the two positions, and
what was copied lies behind them).  Mutual exclusion of the slots and the
refinement follow: publishing a run appends to the abstract queue, taking one off
`readable` removes from its head, a reshape sets its limit, every other step is a
stutter.  `GatherInv` describes the frame: how
much of it is gathered, which samples it holds (`FrameInv`) and where it ends
(`StrideInv`).  `ScaleInv` is an invariant beside it: how often what a frame holds
was divided at each place of the loop (`RepeatedSamplesFade`).

**ConfigStore.**  For each process `LockInv` (who holds the commit lock where),
`LifeInv` (which operation there can be in which phase of life), `EditInv` (the
live document, the snapshot and the baseline differ only in keys edited in
between), `DocInv` (a document to be committed is the merge against the file as
it is, since the lock keeps it so, and has every own key as the snapshot has it,
but for a key at the baseline of a process that started from a default that is
not on disk) and `DiskInv` (the file agrees with the baseline on the process's
own keys; what the user chose is live while it is not committed and on disk
afterwards, but for the keys in `unseen`).  The last part is what makes a stale
baseline harmless, and it holds because the other processes commit only their
own edits: the invariant is about all processes together.

**ConfigMerge.**  These are not invariants but facts about a recursive function,
and the library's induction theorems cannot be used.  `SetInduction` replaces
them: a set of naturals that contains `n` whenever it contains all smaller
numbers contains every natural, because its complement has no least element.
The depths for which a fact holds are such a set.  In this way `MergeExists`
shows that a function with the equation of `MergeFcn` exists (the code's recursion
ends, because both documents it descends into get smaller), `MergeUnfold` gives
the equation, and `WalkUnfold` does the same for paths.  `MergedPlaces` then says
what one level of the merge puts under a key, in terms of what the three documents
have there; walking a path keeps that relation (`WalkStep`) until a side is no
longer a section, and `LocalChangesKept` and `OthersAreKept` read it off at the
place in question.  `MergeCommutes` is an induction on the depth: independent
documents have independent members (`IndependentMembers`), so the two orders agree
under every key.

**ConfigSaver.**  `LifecycleInv` (who is inside `enable()` or `disable()`),
`UseInv` (a save holds the `useMtx` of a registration that is still bound, so
`disable()` cannot have passed it) and `WorkerInv` (the registry against the
flags, and the worker's life up to its join).

**ServerSessions.**  `HeldInv` (which thread has a session where, the accept
thread's snapshot and new session included), `OwnerInv` (a session is in one
place; the snapshots that threads hold were current once), `AliveInv` (whoever has a session keeps it alive),
`WorkInv` (where its read worker can be) and `ProofInv` (a pending session has
proved nothing; the current one has, or its promotion is under way).

**ServerClient.**  `WireInv` types the packets on their way; `HandshakeInv` says
that until the client is in use there is one request, on its way or answered
once, and that an answer which lets the owner go on comes from a server that has
accepted it; `UseInv` carries that through use.  The other two properties are
inductive with these.

**What the liveness rests on.**  A fair behaviour makes progress because nobody is
left waiting for something that need not happen, and because what is left to do
shrinks.  Both are safety, and both are proved, on top of each `IInv`:

- DspPipeline.  `StopInv` says that at the join of `doStop()` all streams of the
  block are poisoned, so its worker is not `Blocked`, and `StepsLeft` counts it
  down.  `HandInv` says that a stream its writer may not use holds an announced
  packet, or somebody is about to announce it or to give the stream back.  In a
  stalled graph take a blocked writer of least height: the reader of the stream
  it waits for cannot itself wait for a packet, so it is blocked as a writer
  further down, which contradicts the choice.  So nobody is blocked as a writer,
  and a graph where everyone waits for input holds no packet.
- Reshaper.  `WakeInv` says which thread owes a wake-up: one that dozes although
  it could go on does so only while the other is between the change of the
  counter and its notification.  The counter a thread waits for is changed under
  the mutex it waits with; `readable`, which the writer's predicate reads without
  its mutex, is changed by the reader before that one, so the notification still
  comes after it.  The stop flags are set without any mutex: that is the
  violation of `reshaper_stop`, and no theorem is about them.
- ConfigSaver.  `RegInv` (a manager has one registration at a time), `DirtyInv`
  (a dirty manager is announced, pending or in the scan under way) and `StaleInv`
  (an edit that falls into a save leaves the manager dirty and announced);
  `JoinInv` (a `disable()` that joins has told the worker to stop).  `WorkerLeft`
  counts the registrations left in the scan.
- ServerSessions.  `NoOrphan` is inductive with `IInv`; `WorkLeft` counts down a
  read worker whose socket was shut down.
- ServerClient.  `CloseInv` (what `close()` has closed before it joins) and
  `WatchdogInv`: `protocolReady` is set before `getUI()` sends, so the `recv()`
  that follows its answer is bounded.  `WorkerLeft` and `DrainLeft` count the
  worker down.

TLC has checked these invariants and countdowns on the instances of the runs;
they are not listed as properties of the runs, which check the liveness itself.

**AsyncConnector.**  `FreshInv` (a client exists only once its attempt's factory
has returned), `PlaceInv` (a client is with the worker, in `pending`, handed out
or closed, and in one of these only) and `CancelInv` (`cancelledFlag` stays up
from `cancel()` until the attempt is polled, and through `shutdown()`).

### Only model-checked

- All liveness (`StopReturns`, `Drains`, `EditsAreSaved`, `LifecycleReturns`,
  `DeadAreReclaimed`, `AttemptEnds`, `PacketsPass`, `DeadLinkDetected`,
  `CloseReturns`): fairness and `ENABLED` are out of the prover's reach.  The
  safety they rest on is proved (see above), except for `AttemptEnds`, whose
  worker waits for nothing but its factory.
- The three violations below.

## 5. Findings

- **A streaming client loses its slot** (`core/src/server.cpp`:931).  The
  heartbeat stops the source for a client it found dead without testing that
  this client still owns the slot; the stream of a successor is stopped, and
  since `running` is then false a third client may displace it.
- **A lost stop request** (`dsp/buffer/ring_buffer.h`:188).  `doStop()` is said
  to unblock the waits and join.  The ring's stop flags are set without the
  mutex of the waiting thread, so the flag and its notification can fall between
  the test of the wait predicate and the sleep; the thread sleeps on and the
  join in `Reshaper::doStop()` does not return.
- **A late acknowledgement answers the wrong request**
  (`source_modules/sdriak_server_source/src/sdriak_server_client.cpp`:395).
  Comments say that forgetting the waiter of a request that timed out keeps its
  late acknowledgement from a later request of the same command.
  Acknowledgements are matched by command alone, so the later request gets it.

A smaller gap between comment and code, seen in the model and without a run of
its own: `core/src/server.cpp`:500-502 says that the current session is always
fully handshaken, but a promotion makes the session current before it is
acknowledged, and the baseband thread takes only `sessionMtx`.

## 6. Not modelled, and why

- `stream::setBufferSize`, `read_for`, rebinding a block's input while it runs
  (the chain model covers rebinding between stop and start); hierarchical
  blocks.
- Changing the path of a loaded `ConfigManager`; destruction of the saver at
  program exit; corruption of the file by other programs at run time.
- The server's start-up, the contents of its UI draw lists, compression, and the
  tuning limits, which are recorded and pushed as the sample rate is.
- A block added *enabled* to a chain in service, and `stop()` of a paused
  block: no caller does either.
- A source left running without a client (the heartbeat's stop and close are
  two steps): the model has this behaviour, but nothing in the repository says
  it must not occur and the next promotion resets it.
- `SampleFrameBuffer`, `Prebuffer` and `Packer`; `RingBuffer::read` as distinct
  from the first loop of `readAndSkip` (the same code).
- In the server client: commands that wait for no answer, the prebuffer
  setting, the contents of the draw list.  A request on a socket that closed
  just before is a request that nobody answers.
- The socket wrapper, the IQ front end and the managers above it: the first is
  bytes below the packets the models exchange, the others are sequential calls
  of the GUI thread into the blocks and chains that are modelled.
- Numeric DSP, decoders, drivers, GUI and vendored code: floating point and
  pure I/O.

## 7. Plan

Every safety property of the passing runs that is within the prover's reach has
its theorem.  Order of further work, most important first.

1. Proofs: a shorter `ReshaperProofs` (steps that cite less).
2. The frame buffer and the prebuffer, as rings that drop, beside `RingBuffer`.
3. Socket wrapper `ConnClass`: read and write queues, close against a blocked
   worker, partial sends (`core/src/utils/networking.cpp`:141).
4. IQ front end: the chain and the splitter composed, VFOs bound and unbound
   while running; source, sink and VFO managers above it.
5. Recorder, scanner and rigctl server as far as they keep state of their own.
