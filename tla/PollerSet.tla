----------------------------- MODULE PollerSet -----------------------------
(***************************************************************************)
(* Pollers (bot/pollerset.go): each registered poller has a goroutine that *)
(* polls on a ticker while the bot is connected to at least one server. It *)
(* is started by the first CONNECTED and told to quit by the last          *)
(* DISCONNECTED, whose handlers run under the set's lock; the goroutine    *)
(* itself only takes the lock to copy the contexts it polls with, so a     *)
(* closed goroutine may still be polling when the next one starts.         *)
(***************************************************************************)
EXTENDS Naturals, FiniteSets

CONSTANTS
    Poller,
    Conn,     \* server connections
    MaxRuns,  \* bound: goroutines started in all
    None

ASSUME PollerAssumption ==
    /\ IsFiniteSet(Poller)
    /\ MaxRuns \in Nat
    /\ None \notin Poller \cup 1 .. MaxRuns

VARIABLES
    quit,     \* ps.set: for each registered poller, the run whose channel it keeps
    conns,    \* ps.conns: the connections it has a context for
    started,  \* bound: the number of runs so far; runs are 1 .. started
    of,       \* the poller of each run
    pc,       \* where each run's goroutine is
    closed,   \* the runs whose quit channel is closed
    ticked,   \* the runs whose ticker's channel (capacity 1) holds a tick
    ctxs      \* the contexts each run polls with

vars == <<quit, conns, started, of, pc, closed, ticked, ctxs>>

Run == 1 .. MaxRuns
Added == DOMAIN quit

Init ==
    /\ quit = [p \in {} |-> None]
    /\ conns = {}
    /\ started = 0
    /\ of = [r \in Run |-> None]
    /\ pc = [r \in Run |-> "new"]
    /\ closed = {}
    /\ ticked = {}
    /\ ctxs = [r \in Run |-> {}]

\* startOne for every poller of P, in a state with at least one connection: a
\* bijection from the new runs to P.
StartAll(P, registered) ==
    /\ started + Cardinality(P) <= MaxRuns
    /\ \E n \in [P -> started + 1 .. started + Cardinality(P)] :
          /\ \A p, q \in P : n[p] = n[q] => p = q
          /\ quit' = [p \in registered |-> IF p \in P THEN n[p] ELSE quit[p]]
          /\ of' = [r \in Run |-> IF \E p \in P : n[p] = r
                                  THEN CHOOSE p \in P : n[p] = r ELSE of[r]]
          /\ pc' = [r \in Run |-> IF \E p \in P : n[p] = r THEN "start" ELSE pc[r]]
    /\ started' = started + Cardinality(P)
    /\ UNCHANGED <<closed, ticked, ctxs>>

\* Add: started at once when connected, else registered with a nil channel.
Add(p) ==
    /\ p \notin Added
    /\ IF conns = {}
       THEN /\ quit' = [q \in Added \cup {p} |-> IF q = p THEN None ELSE quit[q]]
            /\ UNCHANGED <<started, of, pc, closed, ticked, ctxs>>
       ELSE StartAll({p}, Added \cup {p})
    /\ UNCHANGED conns

\* A mutant of Connected: it starts the pollers on every connection.
ConnectedAlways(c) ==
    /\ c \notin conns
    /\ StartAll(Added, Added)
    /\ conns' = conns \cup {c}

Connected(c) ==
    /\ c \notin conns
    /\ IF conns = {}
       THEN StartAll(Added, Added)
       ELSE UNCHANGED <<quit, started, of, pc, closed, ticked, ctxs>>
    /\ conns' = conns \cup {c}

\* Also without a CONNECTED before it, when it changes nothing.
Disconnected(c) ==
    /\ conns' = conns \ {c}
    /\ IF conns = {c}
       THEN /\ closed' = closed \cup ({quit[p] : p \in Added} \ {None})
            /\ quit' = [p \in Added |-> None]
       ELSE UNCHANGED <<closed, quit>>
    /\ UNCHANGED <<started, of, pc, ticked, ctxs>>

\* p.Start() and the first Poll, with the connections there are by then.
Begin(r) ==
    /\ pc[r] = "start"
    /\ pc' = [pc EXCEPT ![r] = "poll"]
    /\ ctxs' = [ctxs EXCEPT ![r] = conns]
    /\ UNCHANGED <<quit, conns, started, of, closed, ticked>>

PollEnds(r) ==
    /\ pc[r] = "poll"
    /\ pc' = [pc EXCEPT ![r] = "select"]
    /\ ctxs' = [ctxs EXCEPT ![r] = {}]
    /\ UNCHANGED <<quit, conns, started, of, closed, ticked>>

\* A mutant of Tick: a timer instead of a ticker.
TickOnce(r) ==
    /\ pc[r] = "start"
    /\ ticked' = ticked \cup {r}
    /\ UNCHANGED <<quit, conns, started, of, pc, closed, ctxs>>

Tick(r) ==
    /\ pc[r] \in {"start", "poll", "select"}
    /\ ticked' = ticked \cup {r}
    /\ UNCHANGED <<quit, conns, started, of, pc, closed, ctxs>>

\* The select: both cases may be ready, and either is taken.
PollAgain(r) ==
    /\ pc[r] = "select" /\ r \in ticked
    /\ pc' = [pc EXCEPT ![r] = "poll"]
    /\ ctxs' = [ctxs EXCEPT ![r] = conns]
    /\ ticked' = ticked \ {r}
    /\ UNCHANGED <<quit, conns, started, of, closed>>

\* A mutant of Quit: quitting is only looked at when there is no tick.
QuitLast(r) ==
    /\ pc[r] = "select" /\ r \in closed /\ r \notin ticked
    /\ pc' = [pc EXCEPT ![r] = "ended"]
    /\ UNCHANGED <<quit, conns, started, of, closed, ticked, ctxs>>

Quit(r) ==
    /\ pc[r] = "select" /\ r \in closed
    /\ pc' = [pc EXCEPT ![r] = "ended"]
    /\ ticked' = ticked \ {r}
    /\ UNCHANGED <<quit, conns, started, of, closed, ctxs>>

Next ==
    \/ \E p \in Poller : Add(p)
    \/ \E c \in Conn : Connected(c) \/ Disconnected(c)
    \/ \E r \in Run : Begin(r) \/ PollEnds(r) \/ Tick(r) \/ PollAgain(r) \/ Quit(r)

\* Goroutines run and Poll returns; tickers tick; a select with both cases ready
\* again and again takes each of them (the runtime picks at random).
Fairness == \A r \in Run :
    WF_vars(Begin(r) \/ PollEnds(r)) /\ WF_vars(Tick(r))
        /\ SF_vars(PollAgain(r)) /\ SF_vars(Quit(r))

Spec == Init /\ [][Next]_vars /\ Fairness

(***************************************************************************)
(* Properties.                                                             *)
(***************************************************************************)
TypeOK ==
    /\ Added \subseteq Poller /\ quit \in [Added -> Run \cup {None}]
    /\ conns \subseteq Conn
    /\ started \in 0 .. MaxRuns
    /\ of \in [Run -> Poller \cup {None}]
    /\ pc \in [Run -> {"new", "start", "poll", "select", "ended"}]
    /\ closed \subseteq Run /\ ticked \subseteq Run
    /\ ctxs \in [Run -> SUBSET Conn]

Live(p) == {r \in Run : of[r] = p /\ r \notin closed}

\* While any server is connected each poller has exactly one goroutine that was
\* not told to quit, and its channel is the one kept in ps.set; while none is,
\* there is no such goroutine (pollerset.go:51-71).
OneLiveRun == \A p \in Added :
    IF conns = {} THEN quit[p] = None /\ Live(p) = {}
    ELSE quit[p] # None /\ Live(p) = {quit[p]}

\* A poll with no contexts to send to is made only by a goroutine that has been
\* told to quit.
EmptyPollsEnd == \A r \in Run : pc[r] = "poll" /\ ctxs[r] = {} => r \in closed

\* A goroutine that was told to quit ends, however long its polls are and however
\* many ticks are waiting.
ClosedEnds == \A r \in Run : r \in closed ~> pc[r] = "ended"

\* While the bot stays connected its pollers keep polling.
KeepsPolling == \A r \in Run :
    pc[r] = "select" ~> (pc[r] = "poll" \/ r \in closed)

=============================================================================
