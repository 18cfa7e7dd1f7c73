----------------------------- MODULE Reminders -----------------------------
(***************************************************************************)
(* Reminders (drivers/reminddriver, collections/reminders). A reminder is  *)
(* a stored record and, while the bot is connected, a goroutine that waits *)
(* for the record's time in a context with a deadline. Three maps that no  *)
(* lock guards relate them: running (the cancel function of the goroutine  *)
(* for a record), finished (the last reminder said to a nick, for snooze)  *)
(* and listed (what "remind list" showed, for "remind del").               *)
(*                                                                         *)
(* The handlers of one connection run one event at a time; those of other  *)
(* connections and the goroutines interleave with them. Each access to a   *)
(* map and each transaction of the store is one step.                      *)
(***************************************************************************)
EXTENDS Naturals, FiniteSets

CONSTANTS
    Conn,         \* server connections
    Nick,
    Reminder,     \* the ids NewObjectId may return
    From, To,     \* who sets each reminder, and whom it reminds
    None,
    MaxTime,      \* bound: the last instant
    MaxTimer,     \* bound: goroutines at a time
    MaxConnects,  \* bound: CONNECTED events
    MaxSnoozes,   \* bound: snooze commands
    MaxRestarts   \* bound: ends of the process

ASSUME RemindersAssumption ==
    /\ From \in [Reminder -> Nick] /\ To \in [Reminder -> Nick]
    /\ None \notin Reminder
    /\ {MaxTime, MaxTimer, MaxConnects, MaxSnoozes, MaxRestarts} \subseteq Nat

VARIABLES
    now,
    db,        \* the collection: the time of each reminder stored
    up,        \* the connections between their CONNECTED and DISCONNECTED
    handler,   \* what the handler of each connection has left to do
    timer,     \* the goroutines of Remind, each with its context
    running,   \* the goroutine whose context running[id] cancels
    finished,  \* the reminder snooze would reset, by target
    listed,    \* the reminders last listed to each nick that may delete one
    said,      \* history: how often each was said since it was set or snoozed
    unused,    \* ids that NewObjectId has not returned yet
    left       \* bounds: connects, snoozes and restarts left

vars == <<now, db, up, handler, timer, running, finished, listed, said, unused, left>>
memory == <<timer, running, finished, listed>>

Time == 0 .. MaxTime
Timer == 1 .. MaxTimer
Idle == [pc |-> "idle", todo |-> {}, nick |-> None]
Reminding(S) == [pc |-> "remind", todo |-> S, nick |-> None]
Free == [pc |-> "free", id |-> None, at |-> 0]

Without(f, x) == [y \in DOMAIN f \ {x} |-> f[y]]
With(f, x, v) == [y \in DOMAIN f \cup {x} |-> IF y = x THEN v ELSE f[y]]
Stored == {<<id, db[id]>> : id \in DOMAIN db}

Init ==
    /\ now = 0
    /\ db = [id \in {} |-> 0]
    /\ up = {}
    /\ handler = [c \in Conn |-> Idle]
    /\ timer = [k \in Timer |-> Free]
    /\ running = [id \in {} |-> 0]
    /\ finished = [n \in Nick |-> None]
    /\ listed = [n \in Nick |-> {}]
    /\ said = [id \in Reminder |-> 0]
    /\ unused = Reminder
    /\ left = [connects |-> MaxConnects, snoozes |-> MaxSnoozes, restarts |-> MaxRestarts]

Tick ==
    /\ now < MaxTime
    /\ now' = now + 1
    /\ UNCHANGED <<db, up, handler, memory, said, unused, left>>

-----------------------------------------------------------------------------
(* The handlers. *)

Ready(c) == c \in up /\ handler[c].pc = "idle"

\* load: LoadAndPrune reads the reminders ...
Connected(c) ==
    /\ c \notin up
    /\ left.connects > 0
    /\ left' = [left EXCEPT !.connects = @ - 1]
    /\ up' = up \cup {c}
    /\ handler' = [handler EXCEPT ![c] = [pc |-> "prune", todo |-> Stored, nick |-> None]]
    /\ UNCHANGED <<now, db, memory, said, unused>>

\* Mutants: load prunes nothing; it returns the reminders from one too far on.
PruneNothing(c) ==
    /\ handler[c].pc = "prune"
    /\ handler' = [handler EXCEPT ![c].pc = "remind"]
    /\ UNCHANGED <<now, db, up, memory, said, unused, left>>

PruneOneMore(c) ==
    LET old == {e \in handler[c].todo : e[2] <= now}
        new == handler[c].todo \ old IN
    /\ handler[c].pc = "prune"
    /\ db' = [id \in DOMAIN db \ {e[1] : e \in old} |-> db[id]]
    /\ handler' = [handler EXCEPT ![c] = Reminding({e \in new : \E f \in new : f[2] < e[2]})]
    /\ UNCHANGED <<now, up, memory, said, unused, left>>

\* ... deletes the ones that are not in the future, and load starts the others.
Prune(c) ==
    LET old == {e \in handler[c].todo : e[2] <= now} IN
    /\ handler[c].pc = "prune"
    /\ db' = [id \in DOMAIN db \ {e[1] : e \in old} |-> db[id]]
    /\ handler' = [handler EXCEPT ![c] = Reminding(@.todo \ old)]
    /\ UNCHANGED <<now, up, memory, said, unused, left>>

\* Remind: no goroutine for a time that has passed; otherwise one whose cancel
\* function replaces the one that running holds.
Remind(c) ==
    \E e \in handler[c].todo, k \in Timer :
        /\ handler[c].pc = "remind"
        /\ \A f \in handler[c].todo : e[2] <= f[2]
        /\ timer[k] = Free /\ \A j \in 1 .. k - 1 : timer[j] # Free
        /\ IF e[2] < now
           THEN UNCHANGED <<timer, running>>
           ELSE /\ timer' = [timer EXCEPT ![k] = [pc |-> "wait", id |-> e[1], at |-> e[2]]]
                /\ running' = With(running, e[1], k)
        /\ handler' = [handler EXCEPT ![c].todo = @ \ {e}]
        /\ UNCHANGED <<now, db, up, finished, listed, said, unused, left>>

\* The handler returns.
Reminded(c) ==
    /\ handler[c].pc = "remind" /\ handler[c].todo = {}
    /\ handler' = [handler EXCEPT ![c] = Idle]
    /\ UNCHANGED <<now, db, up, memory, said, unused, left>>

\* cancel() ends the goroutine, unless its context's deadline was first.
Cancel(ks) ==
    timer' = [k \in Timer |-> IF k \in ks /\ timer[k].pc = "wait" THEN Free ELSE timer[k]]

\* A mutant: unload empties the map and cancels nothing.
DisconnectedRuns(c) ==
    /\ Ready(c)
    /\ up' = up \ {c}
    /\ running' = [id \in {} |-> 0]
    /\ UNCHANGED <<now, db, handler, timer, finished, listed, said, unused, left>>

\* unload: on the DISCONNECTED of any connection, after its last handler.
Disconnected(c) ==
    /\ Ready(c)
    /\ up' = up \ {c}
    /\ Cancel({running[id] : id \in DOMAIN running})
    /\ running' = [id \in {} |-> 0]
    /\ UNCHANGED <<now, db, handler, finished, listed, said, unused, left>>

\* The commands: Put, with the setter's list dropped, then Remind.
Put(c, id, at, by) ==
    /\ db' = With(db, id, at)
    /\ said' = [said EXCEPT ![id] = 0]
    /\ listed' = [listed EXCEPT ![by] = {}]
    /\ handler' = [handler EXCEPT ![c] = Reminding({<<id, at>>})]
    /\ UNCHANGED <<now, up, timer, running, finished>>

\* remind: a time that is not before now.
Set(c) ==
    /\ Ready(c)
    /\ \E id \in unused, at \in now .. MaxTime :
          Put(c, id, at, From[id]) /\ unused' = unused \ {id}
    /\ UNCHANGED left

\* snooze: the finished reminder, with a new time; it stays in finished.
Snooze(c) ==
    /\ Ready(c)
    /\ left.snoozes > 0
    /\ left' = [left EXCEPT !.snoozes = @ - 1]
    /\ \E n \in Nick, at \in now .. MaxTime :
          finished[n] # None /\ Put(c, finished[n], at, n)
    /\ UNCHANGED unused

\* remind list
List(c) ==
    /\ Ready(c)
    /\ \E n \in Nick :
          LET mine == {id \in DOMAIN db : From[id] = n \/ To[id] = n} IN
          /\ mine # {}
          /\ listed' = [listed EXCEPT ![n] = mine]
    /\ UNCHANGED <<now, db, up, handler, timer, running, finished, said, unused, left>>

\* A mutant of Del: stop is not honoured.
DelRuns(c) ==
    /\ Ready(c)
    /\ \E n \in Nick : \E id \in listed[n] :
          /\ running' = Without(running, id)
          /\ handler' = [handler EXCEPT ![c] =
                           [pc |-> "forget", todo |-> {<<id, 0>>}, nick |-> n]]
    /\ UNCHANGED <<now, db, up, timer, finished, listed, said, unused, left>>

\* remind del: Forget(id, true) takes the goroutine out of running and cancels it ...
Del(c) ==
    /\ Ready(c)
    /\ \E n \in Nick : \E id \in listed[n] :
          /\ Cancel(IF id \in DOMAIN running THEN {running[id]} ELSE {})
          /\ running' = Without(running, id)
          /\ handler' = [handler EXCEPT ![c] =
                           [pc |-> "forget", todo |-> {<<id, 0>>}, nick |-> n]]
    /\ UNCHANGED <<now, db, up, finished, listed, said, unused, left>>

\* ... and deletes the record; then the list is dropped.
Forget(c) ==
    /\ handler[c].pc = "forget"
    /\ \E e \in handler[c].todo : db' = Without(db, e[1])
    /\ listed' = [listed EXCEPT ![handler[c].nick] = {}]
    /\ handler' = [handler EXCEPT ![c] = Idle]
    /\ UNCHANGED <<now, up, timer, running, finished, said, unused, left>>

\* The process ends, and starts again with the records only.
Restart ==
    /\ left.restarts > 0
    /\ left' = [left EXCEPT !.restarts = @ - 1]
    /\ up' = {}
    /\ handler' = [c \in Conn |-> Idle]
    /\ timer' = [k \in Timer |-> Free]
    /\ running' = [id \in {} |-> 0]
    /\ finished' = [n \in Nick |-> None]
    /\ listed' = [n \in Nick |-> {}]
    /\ UNCHANGED <<now, db, said, unused>>

-----------------------------------------------------------------------------
(* The goroutines. *)

At(k, pc) == timer[k].pc = pc
Go(k, pc) == timer' = [timer EXCEPT ![k].pc = pc]

\* The context's deadline: from now on cancel() does nothing.
Expire(k) ==
    /\ At(k, "wait") /\ timer[k].at <= now
    /\ Go(k, "due")
    /\ UNCHANGED <<now, db, up, handler, running, finished, listed, said, unused, left>>

Say(k) ==
    /\ At(k, "due")
    /\ Go(k, "said")
    /\ said' = [said EXCEPT ![timer[k].id] = @ + 1]
    /\ UNCHANGED <<now, db, up, handler, running, finished, listed, unused, left>>

\* Mutants: Forget leaves the entry of running; it deletes only what it finds there.
ForgetRunningNot(k) ==
    /\ At(k, "push")
    /\ Go(k, "forget")
    /\ UNCHANGED <<now, db, up, handler, running, finished, listed, said, unused, left>>

ForgetRecordRunning(k) ==
    /\ At(k, "forget")
    /\ timer' = [timer EXCEPT ![k] = Free]
    /\ db' = IF timer[k].id \in DOMAIN running THEN Without(db, timer[k].id) ELSE db
    /\ UNCHANGED <<now, up, handler, running, finished, listed, said, unused, left>>

\* For snooze; then the push, and Forget(id, false): the entry of running ...
Finish(k) ==
    /\ At(k, "said")
    /\ Go(k, "push")
    /\ finished' = [finished EXCEPT ![To[timer[k].id]] = timer[k].id]
    /\ UNCHANGED <<now, db, up, handler, running, listed, said, unused, left>>

ForgetRunning(k) ==
    /\ At(k, "push")
    /\ Go(k, "forget")
    /\ running' = Without(running, timer[k].id)
    /\ UNCHANGED <<now, db, up, handler, finished, listed, said, unused, left>>

\* ... and the record, whether or not there was an entry.
ForgetRecord(k) ==
    /\ At(k, "forget")
    /\ timer' = [timer EXCEPT ![k] = Free]
    /\ db' = Without(db, timer[k].id)
    /\ UNCHANGED <<now, up, handler, running, finished, listed, said, unused, left>>

Handle(c) == Prune(c) \/ Remind(c) \/ Reminded(c) \/ Forget(c)
Run(k) == Expire(k) \/ Say(k) \/ Finish(k) \/ ForgetRunning(k) \/ ForgetRecord(k)

Next ==
    \/ Tick \/ Restart
    \/ \E c \in Conn :
          \/ Connected(c) \/ Disconnected(c)
          \/ Set(c) \/ Snooze(c) \/ List(c) \/ Del(c)
          \/ Handle(c)
    \/ \E k \in Timer : Run(k)

Fairness ==
    /\ WF_vars(Tick)
    /\ \A c \in Conn : WF_vars(Handle(c))
    /\ \A k \in Timer : WF_vars(Run(k))

Spec == Init /\ [][Next]_vars
FairSpec == Spec /\ Fairness

-----------------------------------------------------------------------------
Waiting(id) == {k \in Timer : At(k, "wait") /\ timer[k].id = id}

\* Every variable has its type, and a goroutine there is waits for a reminder.
TypeOK ==
    /\ now \in Time /\ up \subseteq Conn /\ unused \subseteq Reminder
    /\ DOMAIN db \subseteq Reminder /\ \A id \in DOMAIN db : db[id] \in Time
    /\ handler \in [Conn -> [pc : {"idle", "prune", "remind", "forget"},
                             todo : SUBSET (Reminder \X Time), nick : Nick \cup {None}]]
    /\ timer \in [Timer -> {Free} \cup [pc : {"wait", "due", "said", "push", "forget"},
                                        id : Reminder, at : Time]]
    /\ DOMAIN running \subseteq Reminder
    /\ \A id \in DOMAIN running : running[id] \in Timer
    /\ finished \in [Nick -> Reminder \cup {None}]
    /\ listed \in [Nick -> SUBSET Reminder]
    /\ said \in [Reminder -> Nat]
    /\ left \in [connects : Nat, snoozes : Nat, restarts : Nat] /\ left.snoozes <= MaxSnoozes

\* An entry of running is never left behind by its goroutine, so the map does not
\* grow and cancel() is never that of another reminder's goroutine.
NoStaleCancel ==
    \A id \in DOMAIN running : timer[running[id]].id = id /\ ~At(running[id], "forget")

\* Nothing was snoozed so far: a snooze may start a second goroutine for a reminder,
\* which running then loses track of.
Unsnoozed == left.snoozes = MaxSnoozes

\* "We need to be able to kill reminder goroutines": a goroutine that waits is the
\* one that running cancels. It holds for one server: with two, the second's load starts
\* goroutines again.
Killable == Unsnoozed =>
    \A id \in Reminder : \A k \in Waiting(id) : id \in DOMAIN running /\ running[id] = k

\* A reminder is said once, across reconnections and restarts.
SaidOnce == Unsnoozed => \A id \in Reminder : said[id] <= 1

\* While connected to every server, and between commands, every reminder stored for a later time has
\* a goroutine that waits for it: it was put, loaded, or kept from before.
Kept ==
    (Unsnoozed /\ up = Conn /\ \A c \in Conn : handler[c].pc = "idle") =>
        \A id \in DOMAIN db : db[id] > now => Waiting(id) # {}

\* A goroutine's time comes only for a reminder that is stored, with that time:
\* none outlives a "remind del".
DueIsStored ==
    [][\A k \in Timer : Unsnoozed /\ At(k, "wait") /\ timer'[k].pc = "due" =>
          timer[k].id \in DOMAIN db /\ db[timer[k].id] = timer[k].at]_vars

\* A reminder that is waited for, while the bot stays connected, leaves the store:
\* it is said and forgotten, or deleted.
Forgotten ==
    \A id \in Reminder :
        (id \in DOMAIN db /\ Waiting(id) # {} /\ up = Conn) ~> (id \notin DOMAIN db \/ up # Conn)
=============================================================================
