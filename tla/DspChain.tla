------------------------------ MODULE DspChain ------------------------------
(***************************************************************************)
(* dsp::chain: an ordered list of processors of which some are enabled,    *)
(* spliced between an input stream and a downstream reader while samples   *)
(* flow.  A stream is named by the block that writes it; the streams that  *)
(* feed the chain are the members of Inputs.                               *)
(*                                                                         *)
(* enableAllBlocks() and disableAllBlocks() are sequences of enableBlock() *)
(* and disableBlock().                                                     *)
(*                                                                         *)
(* An operation runs on one thread, but the workers of the enabled blocks  *)
(* and of the downstream reader run meanwhile, so each setInput(), start() *)
(* and stop() an operation makes is a step of its own.  (The chains of the *)
(* IQ front end and of the radio module, with their onOutputChange         *)
(* callbacks, always move the downstream reader to the new output.)        *)
(***************************************************************************)
EXTENDS Naturals, Sequences

CONSTANTS
  Blocks,    \* the processors that may be added
  Inputs,    \* the streams that may feed the chain
  NoBlock    \* "no block", and the operand of an idle chain

ASSUME ChainAssumption ==
  Inputs # {} /\ Blocks \cap Inputs = {} /\ NoBlock \notin Blocks \cup Inputs

VARIABLES
  links,    \* the blocks of the chain in order
  states,   \* the enabled ones
  in,       \* _in
  out,      \* out
  running,  \* the chain was started
  input,    \* input[b]: the stream block b reads
  started,  \* the blocks whose worker runs
  tail,     \* the stream the downstream reader reads
  pc,       \* the next step of the operation under way
  arg,      \* the block it works on
  removing  \* the operation is removeBlock()

vars == <<links, states, in, out, running, input, started, tail, pc, arg, removing>>

Streams == Blocks \cup Inputs
Members == {links[i] : i \in 1 .. Len(links)}
Pcs == {"idle", "splice", "connect", "start", "stop", "bypass", "remove"}

TypeOK ==
  /\ links \in Seq(Blocks) /\ states \subseteq Blocks
  /\ in \in Inputs /\ out \in Streams /\ running \in BOOLEAN
  /\ input \in [Blocks -> Streams] /\ started \subseteq Blocks
  /\ tail \in Streams
  /\ pc \in Pcs /\ arg \in Blocks \cup {NoBlock} /\ removing \in BOOLEAN

\* chain::init(), with the downstream reader on the chain's output.
Init ==
  /\ links = <<>> /\ states = {}
  /\ in \in Inputs /\ out = in /\ tail = in
  /\ running = FALSE /\ started = {}
  /\ input = [b \in Blocks |-> in]
  /\ pc = "idle" /\ arg = NoBlock /\ removing = FALSE

-----------------------------------------------------------------------------
Index(b) == CHOOSE i \in 1 .. Len(links) : links[i] = b

\* The enabled blocks on either side of b in the list.
Earlier(b) == {c \in states : c \in Members /\ Index(c) < Index(b)}
Later(b)   == {c \in states : c \in Members /\ Index(c) > Index(b)}

\* blockBefore() and blockAfter(): the nearest ones, or NoBlock.
BlockBefore(b) ==
  IF Earlier(b) = {} THEN NoBlock
  ELSE CHOOSE c \in Earlier(b) : \A d \in Earlier(b) : Index(d) <= Index(c)
BlockAfter(b) ==
  IF Later(b) = {} THEN NoBlock
  ELSE CHOOSE c \in Later(b) : \A d \in Later(b) : Index(c) <= Index(d)

\* Mutant: a block is fed by its neighbour in the list, enabled or not.
UpstreamInList(b) == IF Index(b) = 1 THEN in ELSE links[Index(b) - 1]

\* before ? &before->out : _in
Upstream(b) == IF BlockBefore(b) = NoBlock THEN in ELSE BlockBefore(b)

\* Point whatever follows b in the chain at stream s: the next enabled block,
\* or the chain's output and, by onOutputChange, the downstream reader.
Feed(b, s) ==
  IF BlockAfter(b) # NoBlock
  THEN input' = [input EXCEPT ![BlockAfter(b)] = s] /\ UNCHANGED <<out, tail>>
  ELSE out' = s /\ tail' = s /\ UNCHANGED input

-----------------------------------------------------------------------------
\* addBlock(block, false), the form used on a chain in service.
AddBlock(b) ==
  /\ pc = "idle" /\ b \notin Members
  /\ links' = Append(links, b)
  /\ UNCHANGED <<states, in, out, running, input, started, tail, pc, arg, removing>>

\* setInput(): the first enabled block, or the downstream reader.
SetInput(s) ==
  /\ pc = "idle"
  /\ in' = s
  /\ LET first == {b \in states : Earlier(b) = {}} IN
     IF states # {}
     THEN /\ input' = [b \in Blocks |-> IF b \in first THEN s ELSE input[b]]
          /\ UNCHANGED <<out, tail>>
     ELSE out' = s /\ tail' = s /\ UNCHANGED input
  /\ UNCHANGED <<links, states, running, started, pc, arg, removing>>

\* enableBlock(), of a member that is not enabled.
EnableBlock(b) ==
  /\ pc = "idle" /\ b \in Members \ states
  /\ arg' = b /\ pc' = "splice"
  /\ UNCHANGED <<links, states, in, out, running, input, started, tail, removing>>

\* "Update input of next block or output"
Splice ==
  /\ pc = "splice"
  /\ Feed(arg, arg)
  /\ pc' = "connect"
  /\ UNCHANGED <<links, states, in, running, started, arg, removing>>

\* "Set input of the new block"
Connect ==
  /\ pc = "connect"
  /\ input' = [input EXCEPT ![arg] = Upstream(arg)]
  /\ pc' = "start"
  /\ UNCHANGED <<links, states, in, out, running, started, tail, arg, removing>>

\* "Start new block"
StartNew ==
  /\ pc = "start"
  /\ started' = IF running THEN started \cup {arg} ELSE started
  /\ states' = states \cup {arg}
  /\ pc' = "idle" /\ arg' = NoBlock
  /\ UNCHANGED <<links, in, out, running, input, tail, removing>>

\* disableBlock(), of an enabled member.
DisableBlock(b) ==
  /\ pc = "idle" /\ b \in states
  /\ arg' = b /\ pc' = "stop"
  /\ UNCHANGED <<links, states, in, out, running, input, started, tail, removing>>

\* removeBlock(): an enabled block is disabled first.
RemoveBlock(b) ==
  /\ pc = "idle" /\ b \in Members
  /\ arg' = b /\ removing' = TRUE
  /\ pc' = IF b \in states THEN "stop" ELSE "remove"
  /\ UNCHANGED <<links, states, in, out, running, input, started, tail>>

\* Mutant: the disabled block keeps running.
StopSkipped ==
  /\ pc = "stop"
  /\ states' = states \ {arg}
  /\ pc' = "bypass"
  /\ UNCHANGED <<links, in, out, running, input, started, tail, arg, removing>>

\* "Stop disabled block"
StopOld ==
  /\ pc = "stop"
  /\ started' = started \ {arg}
  /\ states' = states \ {arg}
  /\ pc' = "bypass"
  /\ UNCHANGED <<links, in, out, running, input, tail, arg, removing>>

\* Mutant: disabling the last enabled block leaves the output where it is.
BypassKeepingOutput ==
  /\ pc = "bypass"
  /\ IF BlockAfter(arg) # NoBlock THEN Feed(arg, Upstream(arg))
                                 ELSE UNCHANGED <<input, out, tail>>
  /\ pc' = IF ~removing THEN "idle" ELSE "remove"
  /\ arg' = IF ~removing THEN NoBlock ELSE arg
  /\ UNCHANGED <<links, states, in, running, started, removing>>

\* "Update input of next block or output"
Bypass ==
  /\ pc = "bypass"
  /\ Feed(arg, Upstream(arg))
  /\ pc' = IF ~removing THEN "idle" ELSE "remove"
  /\ arg' = IF ~removing THEN NoBlock ELSE arg
  /\ UNCHANGED <<links, states, in, running, started, removing>>

\* "Remove block from the list"
Remove ==
  /\ pc = "remove"
  /\ links' = SubSeq(links, 1, Index(arg) - 1) \o SubSeq(links, Index(arg) + 1, Len(links))
  /\ pc' = "idle" /\ arg' = NoBlock /\ removing' = FALSE
  /\ UNCHANGED <<states, in, out, running, input, started, tail>>

\* start() and stop() of the whole chain.
Start ==
  /\ pc = "idle" /\ ~running
  /\ running' = TRUE /\ started' = started \cup states
  /\ UNCHANGED <<links, states, in, out, input, tail, pc, arg, removing>>

Stop ==
  /\ pc = "idle" /\ running
  /\ running' = FALSE /\ started' = started \ states
  /\ UNCHANGED <<links, states, in, out, input, tail, pc, arg, removing>>

Next ==
  \/ \E b \in Blocks : AddBlock(b) \/ EnableBlock(b) \/ DisableBlock(b) \/ RemoveBlock(b)
  \/ \E s \in Inputs : SetInput(s)
  \/ Splice \/ Connect \/ StartNew \/ StopOld \/ Bypass \/ Remove
  \/ Start \/ Stop

Spec == Init /\ [][Next]_vars

-----------------------------------------------------------------------------
(***************************************************************************)
(* Properties.                                                             *)
(***************************************************************************)

\* Between operations the samples take one path: from the chain's input
\* through the enabled blocks in list order to the output the downstream
\* reader is on (what chain promises, whatever was added, removed, enabled).
OnePath ==
  pc = "idle" =>
    /\ \A b \in states : input[b] = Upstream(b)
    /\ tail = out
    /\ out = IF states = {} THEN in
             ELSE CHOOSE b \in states : Later(b) = {}

\* dsp::stream has one reader: at no moment of an operation do two running
\* readers (blocks or the downstream one) share a stream.
OneReader ==
  \A b \in started :
    /\ input[b] # tail
    /\ \A c \in started : input[b] = input[c] => b = c

\* A block runs only while it is enabled or is being enabled, so the caller
\* may free a block that was removed: nothing reads its output any more.
RemovedIsFree ==
  pc = "idle" => \A b \in Blocks \ Members :
    b \notin started /\ b # tail /\ b # out /\ \A c \in states : input[c] # b
=============================================================================
