----------------------------- MODULE ServerSet -----------------------------
(***************************************************************************)
(* The life of the bot's server connections (bot/serverset.go), from the   *)
(* Connect call of main to the end of the process (main.go, bot/bot.go):   *)
(* one connectLoop goroutine per server, the DISCONNECTED handler that     *)
(* strobes it, and the callers of Shutdown, which are main's signal        *)
(* goroutine and the handler of the rebuilder's NOTICE.                    *)
(*                                                                         *)
(* External (goirc): Connect holds the connection's lock while it dials    *)
(* and Close while it waits for the connection's goroutines, and           *)
(* Connected() takes that lock; the events of a connection are handled one *)
(* at a time, so DISCONNECTED waits for a handler that is still running.   *)
(* The channels are unbuffered: a send is one step with its receive.       *)
(***************************************************************************)
EXTENDS Integers, FiniteSets

CONSTANTS
    Server,
    Faults,   \* sets of what may go wrong: "refuse", "drop", "early", "notice"
    MaxSig,   \* bound: how often the user interrupts
    None

ASSUME ServerAssumption ==
    /\ IsFiniteSet(Server) /\ None \notin Server \cup {"main", "signal"}
    /\ Faults \subseteq SUBSET {"refuse", "drop", "early", "notice"}
    /\ MaxSig \in Nat

VARIABLES
    main,     \* where the main goroutine is, or how the process ended
    mu,       \* the holder of Bot.mu
    adding,   \* the server whose goroutine runs but is not yet in the WaitGroup
    loop,     \* where each connectLoop is
    conn,     \* each connection: "up", "closing" (Connected() is false) or "down"
    gone,     \* DISCONNECTED handlers of each server, blocked on server.wait
    shut,     \* server.shutdown
    quit,     \* QUIT was sent on this connection
    wg,       \* the WaitGroup's counter
    sig,      \* the buffered channel of signals (capacity 1)
    sent,     \* bound: interrupts so far
    called,   \* main's count of the signals it took
    call,     \* each caller's Shutdown
    faults    \* what may go wrong in this behaviour

vars == <<main, mu, adding, loop, conn, gone, shut, quit, wg, sig, sent, called, call,
          faults>>

Caller == {"signal", "notice"}
NoCall == [pc |-> "idle", todo |-> {}, at |-> None, on |-> None]
Alive == main \in {"init", "starting", "waiting", "returning"}

Init ==
    /\ main = "init"
    /\ mu = None
    /\ adding = None
    /\ loop = [s \in Server |-> "new"]
    /\ conn = [s \in Server |-> "down"]
    /\ gone = [s \in Server |-> 0]
    /\ shut = [s \in Server |-> FALSE]
    /\ quit = [s \in Server |-> FALSE]
    /\ wg = 0
    /\ sig = 0
    /\ sent = 0
    /\ called = 0
    /\ call = [c \in Caller |-> NoCall]
    /\ faults \in Faults

(***************************************************************************)
(* Connect.                                                                *)
(***************************************************************************)
Connect ==
    /\ main = "init" /\ mu = None
    /\ main' = "starting"
    /\ mu' = "main"
    /\ UNCHANGED <<adding, loop, conn, gone, shut, quit, wg, sig, sent, called, call, faults>>

\* "go server.connectLoop()" comes before "ss.wg.Add(1)".
StartLoop(s) ==
    /\ main = "starting" /\ adding = None /\ loop[s] = "new"
    /\ loop' = [loop EXCEPT ![s] = "dial"]
    /\ adding' = s
    /\ UNCHANGED <<main, mu, conn, gone, shut, quit, wg, sig, sent, called, call, faults>>

AddLoop ==
    /\ Alive /\ adding # None
    /\ wg' = wg + 1
    /\ adding' = None
    /\ UNCHANGED <<main, mu, loop, conn, gone, shut, quit, sig, sent, called, call, faults>>

Connected ==
    /\ main = "starting" /\ adding = None /\ \A s \in Server : loop[s] # "new"
    /\ main' = "waiting"
    /\ mu' = None
    /\ UNCHANGED <<adding, loop, conn, gone, shut, quit, wg, sig, sent, called, call, faults>>

(***************************************************************************)
(* connectLoop.                                                            *)
(***************************************************************************)
DialOk(s) ==
    /\ Alive /\ loop[s] = "dial" /\ conn[s] = "down"
    /\ conn' = [conn EXCEPT ![s] = "up"]
    /\ quit' = [quit EXCEPT ![s] = FALSE]
    /\ loop' = [loop EXCEPT ![s] = "wait"]
    /\ UNCHANGED <<main, mu, adding, gone, shut, wg, sig, sent, called, call, faults>>

\* The server refuses, or the connection is up already.
DialFails(s) ==
    /\ Alive /\ loop[s] = "dial"
    /\ "refuse" \in faults \/ conn[s] # "down"
    /\ loop' = [loop EXCEPT ![s] = "select"]
    /\ UNCHANGED <<main, mu, adding, conn, gone, shut, quit, wg, sig, sent, called, call, faults>>

Pause(s) ==
    /\ Alive /\ loop[s] = "select"
    /\ loop' = [loop EXCEPT ![s] = "dial"]
    /\ UNCHANGED <<main, mu, adding, conn, gone, shut, quit, wg, sig, sent, called, call, faults>>

\* Mutants of Strobed: a loop that was told to stop dials again; every strobe
\* ends the loop.
StrobedIgnored(s) == loop' = [loop EXCEPT ![s] = "dial"] /\ UNCHANGED <<wg, main>>
StrobedEnds(s) ==
    loop' = [loop EXCEPT ![s] = "done"] /\ wg' = wg - 1 /\ UNCHANGED main
\* What the loop does with a strobe. The break after a strobe in the select only
\* leaves the select.
Strobed(s) ==
    IF loop[s] = "wait" /\ shut[s]
    THEN /\ loop' = [loop EXCEPT ![s] = "done"]
         /\ wg' = wg - 1
         /\ main' = IF wg = 0 THEN "panic" ELSE main
    ELSE /\ loop' = [loop EXCEPT ![s] = "dial"]
         /\ UNCHANGED <<wg, main>>

Listening(s) == loop[s] \in {"wait", "select"}

StrobeByHandle(s) ==
    /\ Alive /\ Listening(s) /\ gone[s] > 0
    /\ Strobed(s)
    /\ gone' = [gone EXCEPT ![s] = gone[s] - 1]
    /\ UNCHANGED <<mu, adding, conn, shut, quit, sig, sent, called, call, faults>>

StrobeByShutdown(s, c) ==
    /\ Alive /\ Listening(s) /\ call[c].pc = "strobe" /\ call[c].at = s
    /\ Strobed(s)
    /\ call' = [call EXCEPT ![c].pc = "next"]
    /\ UNCHANGED <<mu, adding, conn, gone, shut, quit, sig, sent, called, faults>>

(***************************************************************************)
(* The connection, and its DISCONNECTED handler.                           *)
(***************************************************************************)
Drop(s) ==
    /\ Alive /\ conn[s] = "up"
    /\ "drop" \in faults \/ quit[s]
    /\ conn' = [conn EXCEPT ![s] = "closing"]
    /\ UNCHANGED <<main, mu, adding, loop, gone, shut, quit, wg, sig, sent, called, call, faults>>

Busy(s) == \E c \in Caller : call[c].on = s /\ call[c].pc # "idle"

Handle(s) ==
    /\ Alive /\ conn[s] = "closing" /\ ~Busy(s)
    /\ conn' = [conn EXCEPT ![s] = "down"]
    /\ gone' = [gone EXCEPT ![s] = gone[s] + 1]
    /\ UNCHANGED <<main, mu, adding, loop, shut, quit, wg, sig, sent, called, call, faults>>

(***************************************************************************)
(* Shutdown.                                                               *)
(***************************************************************************)
Interrupt ==
    /\ Alive /\ sent < MaxSig
    /\ "early" \in faults \/ main = "waiting"
    /\ sig' = 1
    /\ sent' = sent + 1
    /\ UNCHANGED <<main, mu, adding, loop, conn, gone, shut, quit, wg, called, call, faults>>

TakeSignal ==
    /\ Alive /\ sig = 1 /\ call["signal"].pc = "idle"
    /\ sig' = 0
    /\ called' = called + 1
    /\ IF called > 0
       THEN main' = "fatal" /\ UNCHANGED call
       ELSE call' = [call EXCEPT !["signal"].pc = "lock"] /\ UNCHANGED main
    /\ UNCHANGED <<mu, adding, loop, conn, gone, shut, quit, wg, sent, faults>>

LockBot ==
    /\ Alive /\ call["signal"].pc = "lock" /\ mu = None
    /\ mu' = "signal"
    /\ call' = [call EXCEPT !["signal"].pc = "next", !["signal"].todo = Server]
    /\ UNCHANGED <<main, adding, loop, conn, gone, shut, quit, wg, sig, sent, called, faults>>

\* The rebuilder's NOTICE on a connection: it does not lock the bot.
Notice(s) ==
    /\ Alive /\ "notice" \in faults /\ conn[s] = "up" /\ call["notice"].pc = "idle"
    /\ call' = [call EXCEPT !["notice"] =
                   [pc |-> "next", todo |-> Server, at |-> None, on |-> s]]
    /\ UNCHANGED <<main, mu, adding, loop, conn, gone, shut, quit, wg, sig, sent, called, faults>>

\* A mutant of Mark: server.shutdown is not set.
MarkForgets(c, s) ==
    /\ Alive /\ call[c].pc = "next" /\ s \in call[c].todo
    /\ call' = [call EXCEPT ![c].pc = "check", ![c].at = s, ![c].todo = @ \ {s}]
    /\ UNCHANGED <<main, mu, adding, loop, conn, gone, shut, quit, wg, sig, sent, called, faults>>

Mark(c, s) ==
    /\ Alive /\ call[c].pc = "next" /\ s \in call[c].todo
    /\ shut' = [shut EXCEPT ![s] = TRUE]
    /\ call' = [call EXCEPT ![c].pc = "check", ![c].at = s, ![c].todo = @ \ {s}]
    /\ UNCHANGED <<main, mu, adding, loop, conn, gone, quit, wg, sig, sent, called, faults>>

Check(c) ==
    /\ Alive /\ call[c].pc = "check" /\ conn[call[c].at] # "closing"
    /\ IF conn[call[c].at] = "up"
       THEN /\ quit' = [quit EXCEPT ![call[c].at] = TRUE]
            /\ call' = [call EXCEPT ![c].pc = "next"]
       ELSE /\ call' = [call EXCEPT ![c].pc = "strobe"]
            /\ UNCHANGED quit
    /\ UNCHANGED <<main, mu, adding, loop, conn, gone, shut, wg, sig, sent, called, faults>>

\* A mutant of WaitLoops: it does not wait.
WaitNoLoops(c) ==
    /\ Alive /\ call[c].pc = "next" /\ call[c].todo = {}
    /\ call' = [call EXCEPT ![c].pc = "report"]
    /\ UNCHANGED <<main, mu, adding, loop, conn, gone, shut, quit, wg, sig, sent, called, faults>>

WaitLoops(c) ==
    /\ Alive /\ call[c].pc = "next" /\ call[c].todo = {} /\ wg = 0
    /\ call' = [call EXCEPT ![c].pc = "report"]
    /\ UNCHANGED <<main, mu, adding, loop, conn, gone, shut, quit, wg, sig, sent, called, faults>>

\* "ss.rebuild <- rebuild" meets main's receive; the caller goes on.
Report(c) ==
    /\ call[c].pc = "report" /\ main = "waiting"
    /\ main' = "returning"
    /\ call' = [call EXCEPT ![c].pc = "idle"]
    /\ mu' = IF mu = c THEN None ELSE mu
    /\ UNCHANGED <<adding, loop, conn, gone, shut, quit, wg, sig, sent, called, faults>>

\* The process goes on until main has returned.
Exit ==
    /\ main = "returning"
    /\ main' = "exited"
    /\ UNCHANGED <<mu, adding, loop, conn, gone, shut, quit, wg, sig, sent, called, call, faults>>

Ended == ~Alive /\ UNCHANGED vars

LoopStep(s) == DialOk(s) \/ DialFails(s) \/ Pause(s)
ShutdownStep(c) ==
    (\E s \in Server : Mark(c, s)) \/ Check(c) \/ WaitLoops(c) \/ Report(c)

Next ==
    \/ Connect \/ AddLoop \/ Connected \/ Exit
    \/ \E s \in Server :
          \/ StartLoop(s)
          \/ LoopStep(s)
          \/ StrobeByHandle(s)
          \/ \E c \in Caller : StrobeByShutdown(s, c)
          \/ Drop(s) \/ Handle(s) \/ Notice(s)
    \/ Interrupt \/ TakeSignal \/ LockBot
    \/ \E c \in Caller : ShutdownStep(c)
    \/ Ended

\* Goroutines run, dials and pauses end, a server closes a connection after QUIT.
\* Nobody has to interrupt, to send a NOTICE or to drop a connection.
Fairness ==
    /\ WF_vars(Connect) /\ WF_vars(AddLoop) /\ WF_vars(Connected) /\ WF_vars(Exit)
    /\ WF_vars(TakeSignal) /\ WF_vars(LockBot)
    /\ \A s \in Server :
          /\ WF_vars(StartLoop(s)) /\ WF_vars(LoopStep(s)) /\ WF_vars(Handle(s))
          /\ WF_vars(StrobeByHandle(s)) /\ WF_vars(quit[s] /\ Drop(s))
          /\ \A c \in Caller : WF_vars(StrobeByShutdown(s, c))
    /\ \A c \in Caller : WF_vars(ShutdownStep(c))

Spec == Init /\ [][Next]_vars /\ Fairness

(***************************************************************************)
(* Properties.                                                             *)
(***************************************************************************)
TypeOK ==
    /\ main \in {"init", "starting", "waiting", "returning", "exited", "fatal", "panic"}
    /\ mu \in {None, "main", "signal"}
    /\ adding \in Server \cup {None}
    /\ loop \in [Server -> {"new", "dial", "wait", "select", "done"}]
    /\ conn \in [Server -> {"up", "closing", "down"}]
    /\ gone \in [Server -> 0 .. 1]
    /\ shut \in [Server -> BOOLEAN] /\ quit \in [Server -> BOOLEAN]
    /\ wg \in Int
    /\ sig \in 0 .. 1 /\ sent \in 0 .. MaxSig /\ called \in 0 .. MaxSig
    /\ faults \in Faults
    /\ call \in [Caller -> [pc : {"idle", "lock", "next", "check", "strobe", "report"},
                            todo : SUBSET Server,
                            at : Server \cup {None}, on : Server \cup {None}]]

\* The loop never calls Connect on a connection that is still open: a strobe that
\* is not a disconnect is only sent after server.shutdown was set
\* (serverset.go:130-138), so it can end the loop but not restart it.
OneSession == \A s \in Server : loop[s] \in {"dial", "select"} => conn[s] = "down"

\* A loop that waits for a disconnect is connected or will be strobed: the strobe
\* of a disconnect is never consumed by anything but the loop that waits for it.
NoLostDisconnect == \A s \in Server :
    loop[s] = "wait" /\ conn[s] = "down" => gone[s] = 1

\* The process ends cleanly only after every connectLoop ended ("Wait for all
\* connectLoops to terminate", serverset.go:141), unless a NOTICE shut it down: that
\* Shutdown may wait while Connect still adds the loops.
LoopsEndFirst ==
    main = "exited" /\ call["notice"].on = None => \A s \in Server : loop[s] = "done"

\* The WaitGroup counts the loops that were added and have not ended.
Counted == wg + (IF adding = None THEN 0 ELSE 1)
             = Cardinality({s \in Server : loop[s] \notin {"new", "done"}})

\* Until a Shutdown marks a server, a lost connection is dialled again, whatever the
\* other servers do.
Redials == \A s \in Server :
    conn[s] = "closing" ~> (loop[s] = "dial" \/ \E r \in Server : shut[r])

\* When nothing goes wrong an interrupt ends the process, wherever the dials are and
\* also when the user interrupts again.
CleanShutdown == (faults = {} /\ sig = 1) ~> main \in {"exited", "fatal"}

\* The comment at serverset.go:50: a strobe that reaches the loop while it waits
\* for a reconnect after Shutdown was called shuts the loop down.
ShutdownWhileWaiting ==
    [][\A s \in Server : \A c \in Caller :
          loop[s] = "select" /\ shut[s] /\ StrobeByShutdown(s, c)
              => loop'[s] = "done"]_vars

=============================================================================
