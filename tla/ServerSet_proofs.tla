-------------------------- MODULE ServerSet_proofs --------------------------
(***************************************************************************)
(* Theorems about ServerSet for every finite set of servers, every set of  *)
(* faults and every bound: the connectLoop never dials a connection that   *)
(* is open and never misses a disconnect, and the WaitGroup counts the     *)
(* loops.                                                                  *)
(***************************************************************************)
EXTENDS ServerSet, FiniteSetTheorems, TLAPS

\* The Shutdown of a caller that looks at a server, or strobes it, has marked it.
Marked == \A c \in Caller :
    call[c].pc \in {"check", "strobe"} => call[c].at \in Server /\ shut[call[c].at]

\* Where a loop may be while its connection is open, or while a disconnect waits
\* to be received; a loop that waits is owed one or the other.
Session == \A s \in Server :
    /\ conn[s] # "down" => loop[s] \in {"wait", "done"}
    /\ gone[s] = 1 => conn[s] = "down" /\ loop[s] \in {"wait", "done"}
    /\ loop[s] = "wait" /\ conn[s] = "down" => gone[s] = 1

\* No signal is taken that was not sent.
Signals == sig + called <= sent

IInv == TypeOK /\ Marked /\ Session /\ Signals

\* The constants: the callers are not servers.
LEMMA Constants == /\ MaxSig \in Nat /\ None \notin Server
                   /\ None # "main" /\ None # "signal"
BY ServerAssumption

\* The values of call, as TypeOK has them.
Call == [pc : {"idle", "lock", "next", "check", "strobe", "report"},
         todo : SUBSET Server,
         at : Server \cup {None}, on : Server \cup {None}]
Calls == [Caller -> Call]

LEMMA InitIInv == Init => IInv
<1> SUFFICES ASSUME Init PROVE IInv
  OBVIOUS
<1>1. TypeOK
  BY Constants DEF Init, TypeOK, Caller, NoCall
<1>2. Marked
  BY DEF Init, Marked, Caller, NoCall
<1>3. Session
  BY DEF Init, Session
<1>4. Signals
  BY DEF Init, Signals
<1> QED
  BY <1>1, <1>2, <1>3, <1>4 DEF IInv

\* Types, and that gone is at most one, are kept by every step.
LEMMA TypeStep == ASSUME IInv, [Next]_vars PROVE TypeOK'
<1> USE Constants DEF IInv, TypeOK, Caller
<1>1. CASE Connect
  BY <1>1 DEF Connect
<1>2. CASE AddLoop
  BY <1>2 DEF AddLoop
<1>3. CASE Connected \/ Exit
  BY <1>3 DEF Connected, Exit
<1>4. ASSUME NEW s \in Server, StartLoop(s) PROVE TypeOK'
  BY <1>4 DEF StartLoop
<1>5. ASSUME NEW s \in Server, LoopStep(s) PROVE TypeOK'
  BY <1>5 DEF LoopStep, DialOk, DialFails, Pause
<1>6. ASSUME NEW s \in Server, StrobeByHandle(s) PROVE TypeOK'
  BY <1>6 DEF StrobeByHandle, Strobed
<1>7. ASSUME NEW s \in Server, NEW c \in Caller, StrobeByShutdown(s, c) PROVE TypeOK'
  <2>1. call' \in Calls
    BY <1>7 DEF StrobeByShutdown, Call, Calls
  <2>2. loop' \in [Server -> {"new", "dial", "wait", "select", "done"}] /\ wg' \in Int
        /\ main' \in {"init", "starting", "waiting", "returning", "exited", "fatal", "panic"}
    BY <1>7 DEF StrobeByShutdown, Strobed
  <2> QED
    BY <1>7, <2>1, <2>2 DEF StrobeByShutdown, Call, Calls
<1>8. ASSUME NEW s \in Server, Drop(s) PROVE TypeOK'
  BY <1>8 DEF Drop
<1>9. ASSUME NEW s \in Server, Handle(s) PROVE TypeOK'
  <2>1. gone[s] = 0
    BY <1>9 DEF Handle, Session
  <2> QED
    BY <1>9, <2>1 DEF Handle
<1>10. ASSUME NEW s \in Server, Notice(s) PROVE TypeOK'
  BY <1>10 DEF Notice
<1>11. CASE Interrupt
  BY <1>11 DEF Interrupt
<1>12. CASE TakeSignal
  <2>1. called' \in 0 .. MaxSig /\ sig' \in 0 .. 1
    BY <1>12 DEF TakeSignal, Signals
  <2>2. main' \in {"init", "starting", "waiting", "returning", "exited", "fatal", "panic"}
    BY <1>12 DEF TakeSignal
  <2>3. call' \in Calls
    BY <1>12 DEF TakeSignal, Call, Calls
  <2> QED
    BY <1>12, <2>1, <2>2, <2>3 DEF TakeSignal, Call, Calls
<1>13. CASE LockBot
  <2>1. call["signal"] \in Call
    BY DEF Call
  <2>2. [call["signal"] EXCEPT !.pc = "next", !.todo = Server] \in Call
    BY <2>1 DEF Call
  <2>3. call' = [call EXCEPT !["signal"] = [@ EXCEPT !.pc = "next", !.todo = Server]]
    BY <1>13 DEF LockBot
  <2>4. call \in Calls
    BY DEF Call, Calls
  <2>5. call' \in Calls
    <3> HIDE DEF IInv, TypeOK, Call
    <3> QED
      BY <2>2, <2>3, <2>4 DEF Calls
  <2>6. mu' = "signal" /\ UNCHANGED <<main, adding, loop, conn, gone, shut, quit,
                                      wg, sig, sent, called, faults>>
    BY <1>13 DEF LockBot
  <2> QED
    BY <2>5, <2>6 DEF Call, Calls
<1>14. ASSUME NEW c \in Caller, ShutdownStep(c) PROVE TypeOK'
  <2>1. ASSUME NEW s \in Server, Mark(c, s) PROVE TypeOK'
    BY <2>1 DEF Mark
  <2>2. CASE Check(c)
    <3>1. quit' \in [Server -> BOOLEAN]
      BY <2>2 DEF Check, Marked
    <3>2. call' \in Calls
      BY <2>2 DEF Check, Call, Calls
    <3> QED
      BY <2>2, <3>1, <3>2 DEF Check, Call, Calls
  <2>3. CASE WaitLoops(c)
    BY <2>3 DEF WaitLoops
  <2>4. CASE Report(c)
    <3>1. call' \in Calls
      BY <2>4 DEF Report, Call, Calls
    <3> QED
      BY <2>4, <3>1 DEF Report, Call, Calls
  <2> QED
    BY <1>14, <2>1, <2>2, <2>3, <2>4 DEF ShutdownStep
<1>15. CASE Ended \/ UNCHANGED vars
  BY <1>15 DEF Ended, vars
<1> QED
  BY <1>1, <1>2, <1>3, <1>4, <1>5, <1>6, <1>7, <1>8, <1>9, <1>10, <1>11, <1>12,
     <1>13, <1>14, <1>15 DEF Next

\* server.shutdown is never reset, and only Mark starts to look at a server.
LEMMA MarkedStep == ASSUME IInv, [Next]_vars PROVE Marked'
<1> USE Constants DEF IInv, TypeOK, Caller, Marked
<1>1. CASE Connect \/ AddLoop \/ Connected \/ Exit
  BY <1>1 DEF Connect, AddLoop, Connected, Exit
<1>2. ASSUME NEW s \in Server, StartLoop(s) \/ LoopStep(s) PROVE Marked'
  BY <1>2 DEF StartLoop, LoopStep, DialOk, DialFails, Pause
<1>3. ASSUME NEW s \in Server, StrobeByHandle(s) PROVE Marked'
  BY <1>3 DEF StrobeByHandle
<1>4. ASSUME NEW s \in Server, NEW c \in Caller, StrobeByShutdown(s, c) PROVE Marked'
  BY <1>4 DEF StrobeByShutdown
<1>5. ASSUME NEW s \in Server, Drop(s) \/ Handle(s) PROVE Marked'
  BY <1>5 DEF Drop, Handle
<1>6. ASSUME NEW s \in Server, Notice(s) PROVE Marked'
  BY <1>6 DEF Notice
<1>7. CASE Interrupt \/ LockBot
  BY <1>7 DEF Interrupt, LockBot
<1>8. CASE TakeSignal
  BY <1>8 DEF TakeSignal
<1>9. ASSUME NEW c \in Caller, ShutdownStep(c) PROVE Marked'
  <2>1. ASSUME NEW s \in Server, Mark(c, s) PROVE Marked'
    BY <2>1 DEF Mark
  <2>2. CASE Check(c)
    BY <2>2 DEF Check
  <2>3. CASE WaitLoops(c) \/ Report(c)
    BY <2>3 DEF WaitLoops, Report
  <2> QED
    BY <1>9, <2>1, <2>2, <2>3 DEF ShutdownStep
<1>10. CASE Ended \/ UNCHANGED vars
  BY <1>10 DEF Ended, vars
<1> QED
  BY <1>1, <1>2, <1>3, <1>4, <1>5, <1>6, <1>7, <1>8, <1>9, <1>10 DEF Next

\* The heart of it: who may strobe a loop that waits, and what the loop does then.
LEMMA SessionStep == ASSUME IInv, [Next]_vars PROVE Session'
<1> USE DEF IInv, TypeOK, Session
<1>1. CASE Connect \/ AddLoop \/ Connected \/ Exit \/ Interrupt \/ TakeSignal \/ LockBot
  BY <1>1 DEF Connect, AddLoop, Connected, Exit, Interrupt, TakeSignal, LockBot
<1>2. ASSUME NEW s \in Server, StartLoop(s) PROVE Session'
  BY <1>2 DEF StartLoop
<1>3. ASSUME NEW s \in Server, LoopStep(s) PROVE Session'
  BY <1>3 DEF LoopStep, DialOk, DialFails, Pause
<1>4. ASSUME NEW s \in Server, StrobeByHandle(s) PROVE Session'
  \* the disconnect of a connection that is down, to the loop that waits for it
  <2>1. conn[s] = "down" /\ loop[s] = "wait" /\ gone[s] = 1
    BY <1>4 DEF StrobeByHandle, Listening
  <2>2. loop' = [loop EXCEPT ![s] = "done"] \/ loop' = [loop EXCEPT ![s] = "dial"]
    BY <1>4 DEF StrobeByHandle, Strobed
  <2>3. gone' = [gone EXCEPT ![s] = 0] /\ conn' = conn
    BY <1>4, <2>1 DEF StrobeByHandle
  <2> QED
    BY <2>1, <2>2, <2>3
<1>5. ASSUME NEW s \in Server, NEW c \in Caller, StrobeByShutdown(s, c) PROVE Session'
  \* a loop that waits is told to end; one that is in the select has no connection
  <2>1. shut[s] /\ gone' = gone /\ conn' = conn
    BY <1>5 DEF StrobeByShutdown, Marked, Caller
  <2>2. CASE loop[s] = "wait"
    <3>1. loop' = [loop EXCEPT ![s] = "done"]
      BY <1>5, <2>1, <2>2 DEF StrobeByShutdown, Strobed
    <3> QED
      BY <2>1, <2>2, <3>1
  <2>3. CASE loop[s] = "select"
    <3>1. loop' = [loop EXCEPT ![s] = "dial"]
      BY <1>5, <2>3 DEF StrobeByShutdown, Strobed
    <3> QED
      BY <2>1, <2>3, <3>1
  <2> QED
    BY <1>5, <2>2, <2>3 DEF StrobeByShutdown, Listening
<1>6. ASSUME NEW s \in Server, Drop(s) \/ Handle(s) PROVE Session'
  BY <1>6 DEF Drop, Handle
<1>7. ASSUME NEW s \in Server, Notice(s) PROVE Session'
  BY <1>7 DEF Notice
<1>8. ASSUME NEW c \in Caller, ShutdownStep(c) PROVE Session'
  BY <1>8 DEF ShutdownStep, Mark, Check, WaitLoops, Report
<1>9. CASE Ended \/ UNCHANGED vars
  BY <1>9 DEF Ended, vars
<1> QED
  BY <1>1, <1>2, <1>3, <1>4, <1>5, <1>6, <1>7, <1>8, <1>9 DEF Next

LEMMA SignalsStep == ASSUME IInv, [Next]_vars PROVE Signals'
<1> USE DEF IInv, TypeOK, Signals
<1>1. CASE Interrupt
  BY <1>1 DEF Interrupt
<1>2. CASE TakeSignal
  BY <1>2 DEF TakeSignal
<1>3. CASE Connect \/ AddLoop \/ Connected \/ Exit \/ LockBot
  BY <1>3 DEF Connect, AddLoop, Connected, Exit, LockBot
<1>4. ASSUME NEW s \in Server,
             \/ StartLoop(s) \/ LoopStep(s) \/ StrobeByHandle(s)
             \/ Drop(s) \/ Handle(s) \/ Notice(s)
      PROVE Signals'
  BY <1>4 DEF StartLoop, LoopStep, DialOk, DialFails, Pause, StrobeByHandle, Drop, Handle, Notice
<1>5. ASSUME NEW s \in Server, NEW c \in Caller, StrobeByShutdown(s, c) PROVE Signals'
  BY <1>5 DEF StrobeByShutdown
<1>6. ASSUME NEW c \in Caller, ShutdownStep(c) PROVE Signals'
  BY <1>6 DEF ShutdownStep, Mark, Check, WaitLoops, Report
<1>7. CASE Ended \/ UNCHANGED vars
  BY <1>7 DEF Ended, vars
<1> QED
  BY <1>1, <1>2, <1>3, <1>4, <1>5, <1>6, <1>7 DEF Next

LEMMA Inductive == Spec => []IInv
<1>1. IInv /\ [Next]_vars => IInv'
  BY TypeStep, MarkedStep, SessionStep, SignalsStep DEF IInv
<1> QED
  BY InitIInv, <1>1, PTL DEF Spec

\* Every variable keeps its type; a server has at most one DISCONNECTED handler that
\* is blocked on the loop.
THEOREM TypeCorrect == Spec => []TypeOK
<1>1. IInv => TypeOK
  BY DEF IInv
<1> QED
  BY Inductive, <1>1, PTL

\* connectLoop never calls Connect on a connection that is still open, whatever
\* strobes Shutdown sends and whenever.
THEOREM NeverDialsOpen == Spec => []OneSession
<1>1. IInv => OneSession
  BY DEF IInv, TypeOK, Session, OneSession
<1> QED
  BY Inductive, <1>1, PTL

\* A connectLoop that waits for a disconnect has a connection, or the disconnect is
\* still to be received.
THEOREM NeverMissesDisconnect == Spec => []NoLostDisconnect
<1>1. IInv => NoLostDisconnect
  BY DEF IInv, TypeOK, Session, NoLostDisconnect
<1> QED
  BY Inductive, <1>1, PTL
-----------------------------------------------------------------------------
\* The loops that have started and not ended.
Running == {s \in Server : loop[s] \notin {"new", "done"}}

LEMMA RunningFinite == IsFiniteSet(Running) /\ Cardinality(Running) \in Nat
<1>1. IsFiniteSet(Server) /\ Running \subseteq Server
  BY ServerAssumption DEF Running
<1> QED
  BY <1>1, FS_Subset, FS_CardinalityType

\* What a step of one loop does to their number.
LEMMA RunningStep ==
    ASSUME NEW s \in Server, loop \in [Server -> {"new", "dial", "wait", "select", "done"}],
           NEW v \in {"dial", "wait", "select", "done"}, loop' = [loop EXCEPT ![s] = v]
    PROVE  /\ loop[s] = "new" /\ v # "done" => Cardinality(Running') = Cardinality(Running) + 1
           /\ s \in Running /\ v # "done" => Running' = Running
           /\ s \in Running /\ v = "done" => Cardinality(Running') = Cardinality(Running) - 1
<1>1. CASE loop[s] = "new" /\ v # "done"
  <2>1. s \notin Running /\ Running' = Running \cup {s}
    BY <1>1 DEF Running
  <2> QED
    BY <1>1, <2>1, RunningFinite, FS_AddElement DEF Running
<1>2. ASSUME s \in Running, v # "done" PROVE Running' = Running
  BY <1>2 DEF Running
<1>3. CASE s \in Running /\ v = "done"
  <2>1. Running' = Running \ {s}
    BY <1>3 DEF Running
  <2> QED
    BY <1>3, <2>1, RunningFinite, FS_RemoveElement DEF Running
<1> QED
  BY <1>1, <1>2, <1>3 DEF Running

LEMMA CountedStep == ASSUME IInv, Counted, [Next]_vars PROVE Counted'
<1> USE RunningFinite DEF IInv, TypeOK
<1>0. Counted <=> wg + (IF adding = None THEN 0 ELSE 1) = Cardinality(Running)
  BY DEF Counted, Running
<1>0a. Counted' <=> wg' + (IF adding' = None THEN 0 ELSE 1) = Cardinality(Running')
  BY DEF Counted, Running
<1>1. CASE AddLoop
  <2>1. Running' = Running
    BY <1>1 DEF AddLoop, Running
  <2> QED
    BY <1>0, <1>0a, <1>1, <2>1 DEF AddLoop
<1>2. ASSUME NEW s \in Server, StartLoop(s) PROVE Counted'
  <2>1. Cardinality(Running') = Cardinality(Running) + 1
    BY <1>2, RunningStep DEF StartLoop
  <2> QED
    BY <1>0, <1>0a, <1>2, <2>1, Constants DEF StartLoop
<1>3. ASSUME NEW s \in Server, LoopStep(s) PROVE Counted'
  <2>1. s \in Running
    BY <1>3 DEF LoopStep, DialOk, DialFails, Pause, Running
  <2>2. PICK v \in {"dial", "wait", "select"} : loop' = [loop EXCEPT ![s] = v]
    BY <1>3 DEF LoopStep, DialOk, DialFails, Pause
  <2>3. Running' = Running
    BY <2>1, <2>2, RunningStep
  <2>4. UNCHANGED <<wg, adding>>
    BY <1>3 DEF LoopStep, DialOk, DialFails, Pause
  <2> QED
    BY <1>0, <1>0a, <2>3, <2>4
<1>4. ASSUME NEW s \in Server,
             StrobeByHandle(s) \/ \E c \in Caller : StrobeByShutdown(s, c)
      PROVE Counted'
  <2>1. s \in Running /\ adding' = adding /\ Strobed(s)
    BY <1>4 DEF StrobeByHandle, StrobeByShutdown, Listening, Running
  <2>2. CASE loop' = [loop EXCEPT ![s] = "done"] /\ wg' = wg - 1
    <3>1. Cardinality(Running') = Cardinality(Running) - 1
      BY <2>1, <2>2, RunningStep
    <3> QED
      BY <1>0, <1>0a, <2>1, <2>2, <3>1
  <2>3. CASE loop' = [loop EXCEPT ![s] = "dial"] /\ wg' = wg
    <3>1. Running' = Running
      BY <2>1, <2>3, RunningStep
    <3> QED
      BY <1>0, <1>0a, <2>1, <2>3, <3>1
  <2> QED
    BY <2>1, <2>2, <2>3 DEF Strobed
<1>5. ASSUME UNCHANGED <<loop, wg, adding>> PROVE Counted'
  BY <1>5 DEF Counted
<1>6. CASE Connect \/ Connected \/ Exit \/ Interrupt \/ TakeSignal \/ LockBot
  BY <1>5, <1>6 DEF Connect, Connected, Exit, Interrupt, TakeSignal, LockBot
<1>7. ASSUME NEW s \in Server, Drop(s) \/ Handle(s) \/ Notice(s) PROVE Counted'
  BY <1>5, <1>7 DEF Drop, Handle, Notice
<1>8. ASSUME NEW c \in Caller, ShutdownStep(c) PROVE Counted'
  BY <1>5, <1>8 DEF ShutdownStep, Mark, Check, WaitLoops, Report
<1>9. CASE Ended \/ UNCHANGED vars
  BY <1>5, <1>9 DEF Ended, vars
<1> QED
  BY <1>1, <1>2, <1>3, <1>4, <1>6, <1>7, <1>8, <1>9 DEF Next

\* The WaitGroup that Shutdown waits for counts the loops, but for the one that
\* Connect has started and not yet added.
THEOREM CountsLoops == Spec => []Counted
<1>1. Init => Counted
  <2> SUFFICES ASSUME Init PROVE Counted
    OBVIOUS
  <2>1. {s \in Server : loop[s] \notin {"new", "done"}} = {}
    BY DEF Init
  <2> QED
    BY <2>1, FS_EmptySet DEF Init, Counted
<1>2. IInv /\ Counted /\ [Next]_vars => Counted'
  BY CountedStep
<1> QED
  BY Inductive, <1>1, <1>2, PTL DEF Spec
-----------------------------------------------------------------------------
\* The signal goroutine's Shutdown holds the bot's lock, which Connect holds while
\* it starts the loops.
Shutting == call["signal"].pc \in {"next", "check", "strobe", "report"}
Locked ==
    /\ main = "starting" => mu = "main"
    /\ Shutting => mu = "signal"

\* When Connect has returned every loop was started and added.
AllStarted == main \in {"waiting", "returning", "exited"} =>
    adding = None /\ \A s \in Server : loop[s] # "new"

\* Once a Shutdown has waited for the loops, all have ended.
AllDone == \A s \in Server : loop[s] = "done"
Waited ==
    /\ call["notice"].on = None => call["notice"].pc = "idle"
    /\ call["signal"].pc = "report" /\ main \in {"waiting", "returning"} => AllDone
    /\ main \in {"returning", "exited"} /\ call["notice"].on = None => AllDone

EInv == Locked /\ AllStarted /\ Waited

LEMMA InitEInv == Init => EInv
BY Constants DEF Init, EInv, Locked, Shutting, AllStarted, Waited, Caller, NoCall

LEMMA LockedStep == ASSUME IInv, Locked, [Next]_vars PROVE Locked'
<1> USE Constants DEF IInv, TypeOK, Caller, Locked, Shutting
<1>1. CASE Connect \/ AddLoop \/ Connected \/ Exit \/ Interrupt
  BY <1>1 DEF Connect, AddLoop, Connected, Exit, Interrupt
<1>2. CASE TakeSignal \/ LockBot
  BY <1>2 DEF TakeSignal, LockBot
<1>3. ASSUME NEW s \in Server, StartLoop(s) \/ LoopStep(s) \/ Drop(s) \/ Handle(s)
      PROVE  Locked'
  BY <1>3 DEF StartLoop, LoopStep, DialOk, DialFails, Pause, Drop, Handle
<1>4. ASSUME NEW s \in Server, StrobeByHandle(s) PROVE Locked'
  BY <1>4 DEF StrobeByHandle, Strobed
<1>5. ASSUME NEW s \in Server, NEW c \in Caller, StrobeByShutdown(s, c) PROVE Locked'
  <2>1. UNCHANGED mu /\ (main' = "starting" => main = "starting")
    BY <1>5 DEF StrobeByShutdown, Strobed
  <2>2. Shutting' => Shutting
    BY <1>5 DEF StrobeByShutdown
  <2> QED
    BY <2>1, <2>2
<1>6. ASSUME NEW s \in Server, Notice(s) PROVE Locked'
  BY <1>6 DEF Notice
<1>7. ASSUME NEW c \in Caller, ShutdownStep(c) PROVE Locked'
  <2>1. CASE \E s \in Server : Mark(c, s)
    BY <2>1 DEF Mark
  <2>2. CASE Check(c) \/ WaitLoops(c)
    BY <2>2 DEF Check, WaitLoops
  <2>3. CASE Report(c)
    BY <2>3 DEF Report
  <2> QED
    BY <1>7, <2>1, <2>2, <2>3 DEF ShutdownStep
<1>8. CASE Ended \/ UNCHANGED vars
  BY <1>8 DEF Ended, vars
<1> QED
  BY <1>1, <1>2, <1>3, <1>4, <1>5, <1>6, <1>7, <1>8 DEF Next

LEMMA AllStartedStep == ASSUME IInv, AllStarted, [Next]_vars PROVE AllStarted'
<1> USE Constants DEF IInv, TypeOK, AllStarted
<1>1. CASE Connect \/ AddLoop \/ Connected \/ Exit
  BY <1>1 DEF Connect, AddLoop, Connected, Exit
<1>2. CASE Interrupt \/ TakeSignal \/ LockBot
  BY <1>2 DEF Interrupt, TakeSignal, LockBot
<1>3. ASSUME NEW s \in Server, StartLoop(s) \/ LoopStep(s) \/ Drop(s) \/ Handle(s) \/ Notice(s)
      PROVE  AllStarted'
  BY <1>3 DEF StartLoop, LoopStep, DialOk, DialFails, Pause, Drop, Handle, Notice
<1>4. ASSUME NEW s \in Server, StrobeByHandle(s) \/ \E c \in Caller : StrobeByShutdown(s, c)
      PROVE  AllStarted'
  BY <1>4 DEF StrobeByHandle, StrobeByShutdown, Strobed
<1>5. ASSUME NEW c \in Caller, ShutdownStep(c) PROVE AllStarted'
  BY <1>5 DEF ShutdownStep, Mark, Check, WaitLoops, Report
<1>6. CASE Ended \/ UNCHANGED vars
  BY <1>6 DEF Ended, vars
<1> QED
  BY <1>1, <1>2, <1>3, <1>4, <1>5, <1>6 DEF Next

\* A loop that has ended stays so.
LEMMA DoneStep == ASSUME AllDone, [Next]_vars PROVE AllDone'
<1> USE DEF AllDone
<1>1. ASSUME UNCHANGED loop PROVE AllDone'
  BY <1>1
<1>2. ASSUME NEW s \in Server,
             \/ StartLoop(s) \/ LoopStep(s) \/ StrobeByHandle(s)
             \/ \E c \in Caller : StrobeByShutdown(s, c)
      PROVE  FALSE
  BY <1>2 DEF StartLoop, LoopStep, DialOk, DialFails, Pause, StrobeByHandle,
              StrobeByShutdown, Listening
<1>3. CASE Connect \/ AddLoop \/ Connected \/ Exit \/ Interrupt \/ TakeSignal \/ LockBot
  BY <1>1, <1>3 DEF Connect, AddLoop, Connected, Exit, Interrupt, TakeSignal, LockBot
<1>4. ASSUME NEW s \in Server, Drop(s) \/ Handle(s) \/ Notice(s) PROVE AllDone'
  BY <1>1, <1>4 DEF Drop, Handle, Notice
<1>5. ASSUME NEW c \in Caller, ShutdownStep(c) PROVE AllDone'
  BY <1>1, <1>5 DEF ShutdownStep, Mark, Check, WaitLoops, Report
<1>6. CASE Ended \/ UNCHANGED vars
  BY <1>1, <1>6 DEF Ended, vars
<1> QED
  BY <1>2, <1>3, <1>4, <1>5, <1>6 DEF Next

\* Where the WaitGroup is zero and all loops were started and added, all have ended.
LEMMA NoneRuns ==
    ASSUME IInv, Counted, adding = None, wg = 0, \A s \in Server : loop[s] # "new"
    PROVE  AllDone
<1>1. Cardinality(Running) = 0
  BY DEF Counted, Running
<1>2. Running = {}
  BY <1>1, RunningFinite, FS_EmptySet
<1> QED
  BY <1>2 DEF Running, AllDone

LEMMA WaitedStep ==
    ASSUME IInv, Counted, EInv, [Next]_vars
    PROVE  Waited'
<1> USE Constants DEF IInv, TypeOK, Caller, EInv, Waited
<1>1. ASSUME UNCHANGED call, main' = main \/ main' \notin {"waiting", "returning", "exited"}
      PROVE  Waited'
  BY <1>1, DoneStep
<1>2. CASE Connect \/ AddLoop \/ Interrupt
  BY <1>1, <1>2 DEF Connect, AddLoop, Interrupt
<1>3. CASE Connected
  \* Connect holds the lock, so no Shutdown by a signal is under way
  <2>1. ~ Shutting /\ UNCHANGED call /\ main' = "waiting"
    BY <1>3 DEF Connected, Locked
  <2> QED
    BY <2>1 DEF Shutting
<1>4. CASE Exit
  BY <1>4, DoneStep DEF Exit
<1>5. CASE TakeSignal \/ LockBot
  BY <1>5, DoneStep DEF TakeSignal, LockBot
<1>6. ASSUME NEW s \in Server, StartLoop(s) \/ LoopStep(s) \/ Drop(s) \/ Handle(s)
      PROVE  Waited'
  BY <1>1, <1>6 DEF StartLoop, LoopStep, DialOk, DialFails, Pause, Drop, Handle
<1>7. ASSUME NEW s \in Server, StrobeByHandle(s) PROVE Waited'
  BY <1>1, <1>7 DEF StrobeByHandle, Strobed
<1>8. ASSUME NEW s \in Server, NEW c \in Caller, StrobeByShutdown(s, c) PROVE Waited'
  <2>1. main' = main \/ main' = "panic"
    BY <1>8 DEF StrobeByShutdown, Strobed
  <2>2. call' = [call EXCEPT ![c].pc = "next"] /\ call[c].pc = "strobe"
    BY <1>8 DEF StrobeByShutdown
  <2> QED
    BY <2>1, <2>2, DoneStep
<1>9. ASSUME NEW s \in Server, Notice(s) PROVE Waited'
  BY <1>9, DoneStep DEF Notice
<1>10. ASSUME NEW c \in Caller, ShutdownStep(c) PROVE Waited'
  <2>1. CASE \E s \in Server : Mark(c, s)
    BY <2>1, DoneStep DEF Mark
  <2>2. CASE Check(c)
    BY <2>2, DoneStep DEF Check
  <2>3. CASE WaitLoops(c)
    <3>1. main \in {"waiting", "returning"} => AllDone
      BY <2>3, NoneRuns DEF WaitLoops, AllStarted
    <3>2. UNCHANGED <<main, loop>> /\ call' = [call EXCEPT ![c].pc = "report"]
          /\ call[c].pc = "next"
      BY <2>3 DEF WaitLoops
    <3>3. AllDone' <=> AllDone
      BY <3>2 DEF AllDone
    <3> QED
      BY <3>1, <3>2, <3>3
  <2>4. CASE Report(c)
    <3>1. main = "waiting" /\ main' = "returning" /\ call[c].pc = "report"
          /\ call' = [call EXCEPT ![c].pc = "idle"]
      BY <2>4 DEF Report
    <3>2. c = "signal" \/ call["notice"].on # None
      BY <3>1
    <3> QED
      BY <3>1, <3>2, DoneStep
  <2> QED
    BY <1>10, <2>1, <2>2, <2>3, <2>4 DEF ShutdownStep
<1>11. CASE Ended \/ UNCHANGED vars
  BY <1>1, <1>11 DEF Ended, vars
<1> QED
  BY <1>2, <1>3, <1>4, <1>5, <1>6, <1>7, <1>8, <1>9, <1>10, <1>11 DEF Next

\* A process that the user's interrupt ends cleanly has ended every connectLoop
\* first, whatever went wrong meanwhile.
THEOREM EndsLoopsFirst == Spec => []LoopsEndFirst
<1>1. IInv /\ Counted /\ EInv /\ [Next]_vars => EInv'
  BY LockedStep, AllStartedStep, WaitedStep DEF EInv
<1>2. EInv => LoopsEndFirst
  BY DEF EInv, Waited, AllDone, LoopsEndFirst
<1> QED
  BY Inductive, CountsLoops, InitEInv, <1>1, <1>2, PTL DEF Spec
=============================================================================
