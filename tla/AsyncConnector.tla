--------------------------- MODULE AsyncConnector ---------------------------
(***************************************************************************)
(* AsyncConnector: a connection attempt made by a worker thread, started,  *)
(* polled, cancelled and shut down by the GUI thread.                      *)
(*                                                                         *)
(* Attempts are numbered, and the client an attempt yields has the number  *)
(* of the attempt.  begin() and poll() act only once the worker has ended, *)
(* so each is one step; cancel() and the worker take one step for each     *)
(* access to an atomic flag and each critical section of mtx.              *)
(***************************************************************************)
EXTENDS Naturals

CONSTANTS
  NoClient,     \* an empty ClientT
  MaxAttempts   \* bound: calls of begin()

ASSUME ConnectorAssumption == MaxAttempts \in Nat /\ NoClient \notin Nat

Attempts == 1 .. MaxAttempts

VARIABLES
  connecting, cancelled,    \* connectingFlag, cancelledFlag
  pending, pendingError,    \* under mtx; the error only as set or empty
  lastError,                \* lastErrorStr, set or empty
  worker,                   \* the worker thread; "none": not joinable
  gui,                      \* where the GUI thread is in cancel()/shutdown()
  attempt,                  \* the latest attempt
  made, delivered, closed,  \* clients created, handed out by poll(), closed
  abandoned                 \* attempts cancelled before poll() reported them

clientVars == <<made, delivered, closed>>
vars == <<connecting, cancelled, pending, pendingError, lastError, worker, gui,
          attempt, clientVars, abandoned>>

WorkerPc == {"none", "factory", "store", "discard", "error", "setError", "end",
             "finished"}
GuiPc == {"idle", "cancel", "shutdown", "join", "over"}

FlagsOK ==
  /\ connecting \in BOOLEAN /\ cancelled \in BOOLEAN
  /\ pendingError \in BOOLEAN /\ lastError \in BOOLEAN

TypeOK ==
  /\ FlagsOK
  /\ pending \in Attempts \cup {NoClient}
  /\ worker \in WorkerPc /\ gui \in GuiPc
  /\ attempt \in 0 .. MaxAttempts
  /\ made \subseteq Attempts /\ delivered \subseteq Attempts
  /\ closed \subseteq Attempts /\ abandoned \subseteq Attempts

Init ==
  /\ connecting = FALSE /\ cancelled = FALSE
  /\ pending = NoClient /\ pendingError = FALSE /\ lastError = FALSE
  /\ worker = "none" /\ gui = "idle"
  /\ attempt = 0
  /\ made = {} /\ delivered = {} /\ closed = {} /\ abandoned = {}

\* client->close(), if there is a client.
Close(c) == closed' = closed \cup ({c} \ {NoClient})

-----------------------------------------------------------------------------
(***************************************************************************)
(* The GUI thread.                                                         *)
(***************************************************************************)

\* Mutant: begin() forgets a client that poll() never picked up.
BeginKeepingStale ==
  /\ gui = "idle" /\ ~connecting /\ attempt < MaxAttempts
  /\ pending' = NoClient /\ pendingError' = FALSE
  /\ cancelled' = FALSE /\ lastError' = FALSE
  /\ attempt' = attempt + 1
  /\ worker' = "factory" /\ connecting' = TRUE
  /\ UNCHANGED <<gui, made, delivered, closed, abandoned>>

\* begin(): connectingFlag is down, so the previous worker has ended.  The
\* thread may fail to start, which leaves an error and no worker.
Begin ==
  /\ gui = "idle" /\ ~connecting /\ attempt < MaxAttempts
  /\ Close(pending)
  /\ pending' = NoClient /\ pendingError' = FALSE
  /\ cancelled' = FALSE
  /\ attempt' = attempt + 1
  /\ \/ worker' = "factory" /\ connecting' = TRUE /\ lastError' = FALSE
     \/ worker' = "none" /\ connecting' = FALSE /\ lastError' = TRUE
  /\ UNCHANGED <<gui, made, delivered, abandoned>>

\* Mutant: poll() leaves a cancelled worker unjoined.
PollOnlyWanted ==
  /\ gui = "idle" /\ ~connecting /\ worker = "finished" /\ ~cancelled
  /\ worker' = "none"
  /\ pending' = NoClient /\ pendingError' = FALSE
  /\ delivered' = delivered \cup ({pending} \ {NoClient})
  /\ lastError' = (lastError \/ (pending = NoClient /\ pendingError))
  /\ UNCHANGED <<connecting, cancelled, gui, attempt, made, closed, abandoned>>

\* poll(), once the worker has ended: cancelled, connected, failed, or (no
\* client and no message) nothing to report.
Poll ==
  /\ gui = "idle" /\ ~connecting /\ worker = "finished"
  /\ worker' = "none" /\ cancelled' = FALSE
  /\ pending' = NoClient /\ pendingError' = FALSE
  /\ IF cancelled
     THEN Close(pending) /\ UNCHANGED <<delivered, lastError>>
     ELSE /\ delivered' = delivered \cup ({pending} \ {NoClient})
          /\ lastError' = (lastError \/ (pending = NoClient /\ pendingError))
          /\ UNCHANGED closed
  /\ UNCHANGED <<connecting, gui, attempt, made, abandoned>>

\* Mutant: cancel() abandons a finished attempt only, the flag stays down.
CancelWithoutFlag ==
  /\ gui = "idle"
  /\ gui' \in {"cancel", "shutdown"}
  /\ abandoned' = IF worker = "none" THEN abandoned ELSE abandoned \cup {attempt}
  /\ UNCHANGED <<connecting, cancelled, pending, pendingError, lastError, worker,
                 attempt, clientVars>>

\* cancel(), also as the first half of shutdown(): raise the flag.
Cancel ==
  /\ gui = "idle"
  /\ cancelled' = TRUE
  /\ gui' \in {"cancel", "shutdown"}
  /\ abandoned' = IF worker = "none" THEN abandoned ELSE abandoned \cup {attempt}
  /\ UNCHANGED <<connecting, pending, pendingError, lastError, worker, attempt,
                 clientVars>>

\* The rest of cancel(): discard what the worker left.
CancelTake ==
  /\ gui \in {"cancel", "shutdown"}
  /\ Close(pending)
  /\ pending' = NoClient /\ pendingError' = FALSE /\ lastError' = FALSE
  /\ gui' = IF gui = "cancel" THEN "idle" ELSE "join"
  /\ UNCHANGED <<connecting, cancelled, worker, attempt, made, delivered, abandoned>>

\* joinWorker() at the end of shutdown().
ShutdownJoin ==
  /\ gui = "join" /\ worker \in {"none", "finished"}
  /\ worker' = "none"
  /\ gui' = "over"
  /\ UNCHANGED <<connecting, cancelled, pending, pendingError, lastError, attempt,
                 clientVars, abandoned>>

-----------------------------------------------------------------------------
(***************************************************************************)
(* The worker thread.                                                      *)
(***************************************************************************)

\* factory(): yields a client or throws.
Factory ==
  /\ worker = "factory"
  /\ \/ worker' = "store" /\ made' = made \cup {attempt}
     \/ worker' = "error" /\ UNCHANGED made
  /\ UNCHANGED <<connecting, cancelled, pending, pendingError, lastError, gui,
                 attempt, delivered, closed, abandoned>>

\* The critical section that publishes the client, unless cancelled.
Store ==
  /\ worker = "store"
  /\ \/ cancelled /\ worker' = "discard" /\ UNCHANGED pending
     \/ ~cancelled /\ worker' = "end" /\ pending' = attempt
  /\ UNCHANGED <<connecting, cancelled, pendingError, lastError, gui, attempt,
                 clientVars, abandoned>>

Discard ==
  /\ worker = "discard"
  /\ Close(attempt)
  /\ worker' = "end"
  /\ UNCHANGED <<connecting, cancelled, pending, pendingError, lastError, gui,
                 attempt, made, delivered, abandoned>>

\* The handler of an exception: the flag is read before mtx is taken.
Error ==
  /\ worker = "error"
  /\ worker' = IF cancelled THEN "end" ELSE "setError"
  /\ UNCHANGED <<connecting, cancelled, pending, pendingError, lastError, gui,
                 attempt, clientVars, abandoned>>

SetError ==
  /\ worker = "setError"
  /\ pendingError' = TRUE
  /\ worker' = "end"
  /\ UNCHANGED <<connecting, cancelled, pending, lastError, gui, attempt,
                 clientVars, abandoned>>

\* Mutant: an attempt that was cancelled leaves connectingFlag up.
EndOnlyIfWanted ==
  /\ worker = "end"
  /\ connecting' = cancelled
  /\ worker' = "finished"
  /\ UNCHANGED <<cancelled, pending, pendingError, lastError, gui, attempt,
                 clientVars, abandoned>>

\* connectingFlag = false, the last thing the worker does.
End ==
  /\ worker = "end"
  /\ connecting' = FALSE
  /\ worker' = "finished"
  /\ UNCHANGED <<cancelled, pending, pendingError, lastError, gui, attempt,
                 clientVars, abandoned>>

Worker == Factory \/ Store \/ Discard \/ Error \/ SetError \/ End

-----------------------------------------------------------------------------
Next == Begin \/ Poll \/ Cancel \/ CancelTake \/ ShutdownJoin \/ Worker

Spec == Init /\ [][Next]_vars

(***************************************************************************)
(* The worker runs, its factory is bounded by the connect timeouts, and    *)
(* the GUI finishes the call it is in.  begin() and cancel() are the       *)
(* user's; however often they are called, every frame polls (strong        *)
(* fairness).                                                              *)
(***************************************************************************)
FairSpec ==
  /\ Spec
  /\ WF_vars(Worker) /\ SF_vars(Poll) /\ WF_vars(CancelTake) /\ WF_vars(ShutdownJoin)

-----------------------------------------------------------------------------
(***************************************************************************)
(* Properties.                                                             *)
(***************************************************************************)

\* begin() and poll() rely on it: while connectingFlag is down no worker is
\* at work, and while it is up one is.
FlagTracksWorker == connecting <=> worker \notin {"none", "finished"}

Held(c) == worker \in {"store", "discard"} /\ c = attempt

\* No connection leaks: a client that was made is with the worker, waits in
\* pending, was handed out or was closed, and only one of these; and none is
\* left in pending or with the worker when shutdown() returns.
ClientsAccounted ==
  /\ \A c \in made :
       /\ Held(c) \/ c = pending \/ c \in delivered \cup closed
       /\ ~(Held(c) /\ c = pending)
       /\ c \in delivered \cup closed => ~Held(c) /\ c # pending
  /\ delivered \cap closed = {}
  /\ gui = "over" => made \subseteq delivered \cup closed

\* An attempt that was cancelled before its outcome was reported is never
\* reported as connected or failed, whenever its late result arrives.
CancelIsFinal ==
  [][ worker = "finished" /\ worker' = "none" /\ attempt' \in abandoned
      => attempt \notin delivered' /\ lastError' = lastError ]_vars

\* Every attempt comes to an end: its worker ends and is joined, by poll(),
\* the next begin() or shutdown(), so a new attempt is possible.
AttemptEnds == worker = "factory" ~> worker = "none" /\ ~connecting
=============================================================================
