------------------------ MODULE AsyncConnectorProofs ------------------------
(***************************************************************************)
(* AsyncConnector for any number of attempts: no client leaks, and a       *)
(* cancelled attempt is never reported as connected or failed.             *)
(***************************************************************************)
EXTENDS AsyncConnector, TLAPS

USE ConnectorAssumption DEF Attempts

\* Where clients can be: only attempts that were begun made one, and an
\* attempt that has not made its own has left pending empty.
FreshInv ==
  /\ made \subseteq 1 .. attempt
  /\ delivered \subseteq made /\ closed \subseteq made
  /\ pending # NoClient => pending \in made
  /\ worker \in {"factory", "error", "setError"} => attempt \notin made
  /\ worker \in {"store", "discard"} => attempt \in made
  /\ worker \in {"factory", "error", "setError", "store", "discard"} => pending = NoClient

\* A client is in one place.
PlaceInv ==
  /\ \A c \in made : Held(c) \/ c = pending \/ c \in delivered \cup closed
  /\ \A c \in delivered \cup closed : ~Held(c) /\ c # pending
  /\ delivered \cap closed = {}

\* The flag stays up from cancel() to the report, and through shutdown().
CancelInv ==
  /\ gui # "idle" => cancelled
  /\ gui \in {"join", "over"} => pending = NoClient
  /\ gui = "over" => worker = "none"
  /\ abandoned \subseteq 1 .. attempt
  /\ worker # "none" => attempt \notin delivered /\ attempt > 0
  /\ worker # "none" /\ attempt \in abandoned => cancelled

IInv == TypeOK /\ FlagTracksWorker /\ FreshInv /\ PlaceInv /\ CancelInv

\* The initial states satisfy the inductive invariant.
LEMMA InitIInv == Init => IInv
<1> SUFFICES ASSUME Init PROVE IInv
  OBVIOUS
<1> USE DEF Init
<1>1. FlagsOK
  BY Zenon DEF FlagsOK
<1>2. TypeOK
  BY <1>1 DEF TypeOK, WorkerPc, GuiPc
<1>3. FlagTracksWorker /\ CancelInv
  BY DEF FlagTracksWorker, CancelInv
<1>4. FreshInv /\ PlaceInv
  BY DEF FreshInv, PlaceInv, Held
<1> QED
  BY <1>2, <1>3, <1>4 DEF IInv

\* The empty client is not the client of an attempt.
LEMMA NoClientFresh == NoClient \notin Attempts
<1>1. \A n \in Attempts : n \in Nat
  OBVIOUS
<1> QED
  BY <1>1

\* Adding a client that may be empty to a set of clients.
LEMMA AddClient ==
  ASSUME NEW S, NEW c
  PROVE  S \cup ({c} \ {NoClient}) = IF c = NoClient THEN S ELSE S \cup {c}
  OBVIOUS

\* Every step of the GUI thread and of the worker preserves it.
LEMMA NextIInv == IInv /\ [Next]_vars => IInv'
<1> SUFFICES ASSUME IInv, [Next]_vars PROVE IInv'
  OBVIOUS
<1>0. TypeOK /\ FlagTracksWorker /\ FreshInv /\ PlaceInv /\ CancelInv
  BY DEF IInv
<1>1. CASE Begin
  <2>a. closed' = IF pending = NoClient THEN closed ELSE closed \cup {pending}
    BY <1>1, AddClient DEF Begin, Close
  <2>b. worker \in {"none", "finished"}
    BY <1>0, <1>1 DEF Begin, FlagTracksWorker
  <2>c. NoClient \notin made
    BY <1>0, NoClientFresh DEF TypeOK
  <2> USE <1>0, <1>1, <2>a, <2>b, <2>c DEF Begin
  <2>1. FlagsOK'
    BY Zenon DEF TypeOK, FlagsOK
  <2>2. TypeOK'
    BY <2>1 DEF TypeOK, FreshInv, CancelInv, WorkerPc, GuiPc
  <2>3. FlagTracksWorker'
    BY DEF FlagTracksWorker
  <2>4. FreshInv'
    BY DEF TypeOK, FreshInv, CancelInv
  <2>5. PlaceInv'
    <3>1. CASE pending = NoClient
      BY <3>1 DEF TypeOK, FreshInv, PlaceInv, Held
    <3>2. CASE pending # NoClient
      BY <3>2 DEF TypeOK, FreshInv, PlaceInv, Held
    <3> QED
      BY <3>1, <3>2
  <2>6. CancelInv'
    BY DEF TypeOK, FreshInv, CancelInv
  <2> QED
    BY <2>2, <2>3, <2>4, <2>5, <2>6 DEF IInv
<1>2. CASE Poll
  <2>a. IF cancelled
        THEN /\ closed' = IF pending = NoClient THEN closed ELSE closed \cup {pending}
             /\ delivered' = delivered
        ELSE /\ delivered' = IF pending = NoClient THEN delivered
                                                   ELSE delivered \cup {pending}
             /\ closed' = closed
    BY <1>2, AddClient DEF Poll, Close
  <2> USE <1>0, <1>2, <2>a DEF Poll
  <2>1. FlagsOK'
    BY Zenon DEF TypeOK, FlagsOK
  <2>2. TypeOK'
    BY <2>1 DEF TypeOK, FreshInv, CancelInv, WorkerPc, GuiPc
  <2>3. FlagTracksWorker'
    BY DEF FlagTracksWorker
  <2>4. FreshInv'
    BY DEF TypeOK, FreshInv, CancelInv
  <2>5. PlaceInv'
    <3>1. NoClient \notin made
      BY NoClientFresh DEF TypeOK
    <3>2. \A x \in made : x = pending \/ x \in delivered \cup closed
      BY DEF PlaceInv, Held
    <3>3. \A x \in delivered' \cup closed' : x = pending \/ x \in delivered \cup closed
      OBVIOUS
    <3>4. \A x \in made : x \in delivered' \cup closed'
      BY <3>1, <3>2
    <3>5. \A x \in delivered' \cup closed' : x # NoClient
      BY <3>1, <3>3 DEF FreshInv
    <3>6. delivered' \cap closed' = {}
      BY DEF PlaceInv
    <3> QED
      BY <3>4, <3>5, <3>6 DEF PlaceInv, Held
  <2>6. CancelInv'
    BY DEF TypeOK, FreshInv, CancelInv
  <2> QED
    BY <2>2, <2>3, <2>4, <2>5, <2>6 DEF IInv
<1>3. CASE Cancel
  <2> USE <1>0, <1>3 DEF Cancel, clientVars
  <2>1. FlagsOK'
    BY Zenon DEF TypeOK, FlagsOK
  <2>2. TypeOK'
    BY <2>1 DEF TypeOK, FreshInv, CancelInv, WorkerPc, GuiPc
  <2>3. FlagTracksWorker'
    BY DEF FlagTracksWorker
  <2>4. FreshInv'
    BY DEF TypeOK, FreshInv, CancelInv
  <2>5. PlaceInv'
    BY DEF TypeOK, FreshInv, PlaceInv, CancelInv, Held
  <2>6. CancelInv'
    BY DEF TypeOK, FreshInv, CancelInv
  <2> QED
    BY <2>2, <2>3, <2>4, <2>5, <2>6 DEF IInv
<1>4. CASE CancelTake
  <2>a. closed' = IF pending = NoClient THEN closed ELSE closed \cup {pending}
    BY <1>4, AddClient DEF CancelTake, Close
  <2> USE <1>0, <1>4, <2>a DEF CancelTake
  <2>1. FlagsOK'
    BY Zenon DEF TypeOK, FlagsOK
  <2>2. TypeOK'
    BY <2>1 DEF TypeOK, FreshInv, CancelInv, WorkerPc, GuiPc
  <2>3. FlagTracksWorker'
    BY DEF FlagTracksWorker
  <2>4. FreshInv'
    BY DEF TypeOK, FreshInv, CancelInv
  <2>5. PlaceInv'
    BY DEF TypeOK, FreshInv, PlaceInv, CancelInv, Held
  <2>6. CancelInv'
    BY DEF TypeOK, FreshInv, CancelInv
  <2> QED
    BY <2>2, <2>3, <2>4, <2>5, <2>6 DEF IInv
<1>5. CASE ShutdownJoin
  <2> USE <1>0, <1>5 DEF ShutdownJoin, clientVars
  <2>1. FlagsOK'
    BY Zenon DEF TypeOK, FlagsOK
  <2>2. TypeOK'
    BY <2>1 DEF TypeOK, FreshInv, CancelInv, WorkerPc, GuiPc
  <2>3. FlagTracksWorker'
    BY DEF FlagTracksWorker
  <2>4. FreshInv'
    BY DEF TypeOK, FreshInv, CancelInv
  <2>5. PlaceInv'
    BY DEF TypeOK, FreshInv, PlaceInv, CancelInv, Held
  <2>6. CancelInv'
    BY DEF TypeOK, FreshInv, CancelInv
  <2> QED
    BY <2>2, <2>3, <2>4, <2>5, <2>6 DEF IInv
<1>6. CASE Factory
  <2>a. attempt \in Attempts /\ attempt \in 1 .. attempt
    BY <1>0, <1>6 DEF Factory, TypeOK, CancelInv
  <2>b. made' \subseteq made \cup {attempt}
    BY <1>6 DEF Factory
  <2> USE <1>0, <1>6, <2>a, <2>b DEF Factory
  <2>1. FlagsOK'
    BY Zenon DEF TypeOK, FlagsOK
  <2>2. TypeOK'
    BY <2>1 DEF TypeOK, WorkerPc, GuiPc
  <2>3. FlagTracksWorker'
    BY DEF FlagTracksWorker
  <2>4. FreshInv'
    <3>1. CASE worker' = "store" /\ made' = made \cup {attempt}
      BY <3>1 DEF FreshInv
    <3>2. CASE worker' = "error" /\ made' = made
      BY <3>2 DEF FreshInv
    <3> QED
      BY <3>1, <3>2
  <2>5. PlaceInv'
    BY DEF TypeOK, FreshInv, PlaceInv, CancelInv, Held
  <2>6. CancelInv'
    BY DEF TypeOK, FreshInv, CancelInv
  <2> QED
    BY <2>2, <2>3, <2>4, <2>5, <2>6 DEF IInv
<1>7. CASE Store
  <2> USE <1>0, <1>7 DEF Store, clientVars
  <2>1. FlagsOK'
    BY Zenon DEF TypeOK, FlagsOK
  <2>2. TypeOK'
    BY <2>1 DEF TypeOK, FreshInv, CancelInv, WorkerPc, GuiPc
  <2>3. FlagTracksWorker'
    BY DEF FlagTracksWorker
  <2>4. FreshInv'
    BY DEF TypeOK, FreshInv, CancelInv
  <2>5. PlaceInv'
    BY DEF TypeOK, FreshInv, PlaceInv, CancelInv, Held
  <2>6. CancelInv'
    BY DEF TypeOK, FreshInv, CancelInv
  <2> QED
    BY <2>2, <2>3, <2>4, <2>5, <2>6 DEF IInv
<1>8. CASE Discard
  <2>a. closed' = closed \cup {attempt}
    BY <1>0, <1>8, AddClient DEF Discard, Close, TypeOK
  <2> USE <1>0, <1>8, <2>a DEF Discard
  <2>1. FlagsOK'
    BY Zenon DEF TypeOK, FlagsOK
  <2>2. TypeOK'
    BY <2>1 DEF TypeOK, FreshInv, CancelInv, WorkerPc, GuiPc
  <2>3. FlagTracksWorker'
    BY DEF FlagTracksWorker
  <2>4. FreshInv'
    BY DEF TypeOK, FreshInv, CancelInv
  <2>5. PlaceInv'
    BY DEF TypeOK, FreshInv, PlaceInv, CancelInv, Held
  <2>6. CancelInv'
    BY DEF TypeOK, FreshInv, CancelInv
  <2> QED
    BY <2>2, <2>3, <2>4, <2>5, <2>6 DEF IInv
<1>9. CASE Error
  <2> USE <1>0, <1>9 DEF Error, clientVars
  <2>1. FlagsOK'
    BY Zenon DEF TypeOK, FlagsOK
  <2>2. TypeOK'
    BY <2>1 DEF TypeOK, FreshInv, CancelInv, WorkerPc, GuiPc
  <2>3. FlagTracksWorker'
    BY DEF FlagTracksWorker
  <2>4. FreshInv'
    BY DEF TypeOK, FreshInv, CancelInv
  <2>5. PlaceInv'
    BY DEF TypeOK, FreshInv, PlaceInv, CancelInv, Held
  <2>6. CancelInv'
    BY DEF TypeOK, FreshInv, CancelInv
  <2> QED
    BY <2>2, <2>3, <2>4, <2>5, <2>6 DEF IInv
<1>10. CASE SetError
  <2> USE <1>0, <1>10 DEF SetError, clientVars
  <2>1. FlagsOK'
    BY Zenon DEF TypeOK, FlagsOK
  <2>2. TypeOK'
    BY <2>1 DEF TypeOK, FreshInv, CancelInv, WorkerPc, GuiPc
  <2>3. FlagTracksWorker'
    BY DEF FlagTracksWorker
  <2>4. FreshInv'
    BY DEF TypeOK, FreshInv, CancelInv
  <2>5. PlaceInv'
    BY DEF TypeOK, FreshInv, PlaceInv, CancelInv, Held
  <2>6. CancelInv'
    BY DEF TypeOK, FreshInv, CancelInv
  <2> QED
    BY <2>2, <2>3, <2>4, <2>5, <2>6 DEF IInv
<1>11. CASE End
  <2> USE <1>0, <1>11 DEF End, clientVars
  <2>1. FlagsOK'
    BY Zenon DEF TypeOK, FlagsOK
  <2>2. TypeOK'
    BY <2>1 DEF TypeOK, FreshInv, CancelInv, WorkerPc, GuiPc
  <2>3. FlagTracksWorker'
    BY DEF FlagTracksWorker
  <2>4. FreshInv'
    BY DEF TypeOK, FreshInv, CancelInv
  <2>5. PlaceInv'
    BY DEF TypeOK, FreshInv, PlaceInv, CancelInv, Held
  <2>6. CancelInv'
    BY DEF TypeOK, FreshInv, CancelInv
  <2> QED
    BY <2>2, <2>3, <2>4, <2>5, <2>6 DEF IInv
<1>12. CASE UNCHANGED vars
  BY <1>12 DEF vars, clientVars, IInv, TypeOK, FlagsOK, FlagTracksWorker, FreshInv,
               PlaceInv, CancelInv, Held
<1> QED
  BY <1>1, <1>2, <1>3, <1>4, <1>5, <1>6, <1>7, <1>8, <1>9, <1>10, <1>11, <1>12
     DEF Next, Worker

\* The type invariant.
THEOREM TypeCorrect == Spec => []TypeOK
<1>1. IInv => TypeOK
  BY DEF IInv
<1> QED
  BY <1>1, InitIInv, NextIInv, PTL DEF Spec

\* connectingFlag tells whether a worker is at work (what begin() and poll()
\* rely on to join without waiting).
THEOREM FlagCorrect == Spec => []FlagTracksWorker
<1>1. IInv => FlagTracksWorker
  BY DEF IInv
<1> QED
  BY <1>1, InitIInv, NextIInv, PTL DEF Spec

\* No client leaks, however begin(), poll(), cancel() and shutdown()
\* interleave with the workers.
THEOREM NoLeak == Spec => []ClientsAccounted
<1>1. IInv => ClientsAccounted
  <2> SUFFICES ASSUME IInv PROVE ClientsAccounted
    OBVIOUS
  <2>1. NoClient \notin made
    BY NoClientFresh DEF IInv, TypeOK
  <2>2. FreshInv /\ PlaceInv /\ CancelInv
    BY DEF IInv
  <2>3. \A c \in made : ~(Held(c) /\ c = pending)
    BY <2>1, <2>2 DEF FreshInv, Held
  <2>4. gui = "over" => made \subseteq delivered \cup closed
    BY <2>1, <2>2 DEF PlaceInv, CancelInv, Held
  <2> QED
    BY <2>2, <2>3, <2>4 DEF PlaceInv, ClientsAccounted
<1> QED
  BY <1>1, InitIInv, NextIInv, PTL DEF Spec

\* A cancelled attempt is never reported as connected or failed.
THEOREM CancelStands == Spec => CancelIsFinal
<1> DEFINE Final == worker = "finished" /\ worker' = "none" /\ attempt' \in abandoned
                    => attempt \notin delivered' /\ lastError' = lastError
<1>1. IInv /\ [Next]_vars => [Final]_vars
  <2> SUFFICES ASSUME IInv, Next, worker = "finished", worker' = "none",
                      attempt' \in abandoned
               PROVE  attempt \notin delivered' /\ lastError' = lastError
    OBVIOUS
  <2>1. TypeOK /\ CancelInv
    BY DEF IInv
  <2>2. CASE Begin
    BY <2>1, <2>2 DEF Begin, TypeOK, CancelInv
  <2>3. CASE Poll
    <3>1. attempt' = attempt /\ cancelled
      BY <2>1, <2>3 DEF Poll, CancelInv
    <3> QED
      BY <2>1, <2>3, <3>1 DEF Poll, CancelInv
  <2>4. CASE ShutdownJoin
    BY <2>1, <2>4 DEF ShutdownJoin, clientVars, CancelInv
  <2> QED
    BY <2>2, <2>3, <2>4 DEF Next, Worker, Cancel, CancelTake, Factory, Store, Discard,
       Error, SetError, End
<1> QED
  BY <1>1, InitIInv, NextIInv, PTL DEF Spec, CancelIsFinal
=============================================================================
