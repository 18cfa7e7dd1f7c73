-------------------------------- MODULE Seen --------------------------------
(***************************************************************************)
(* When a nick was last seen, and doing what (collections/seen,            *)
(* drivers/seendriver). An event of a nick is recorded under its action: a *)
(* handler looks for the record of the nick and action, and puts it again  *)
(* with the new time, or a new one. Times are milliseconds, the precision  *)
(* of both the stored time and its key, so events may share one.           *)
(***************************************************************************)
EXTENDS Handlers

CONSTANTS
    Action,     \* "PRIVMSG", "JOIN", "SMOKE", "KICKING", "KICKED" and so on
    Kicks,      \* bound: whether someone may be kicked
    MaxTime     \* bound: the last millisecond

VARIABLES
    seen,       \* the collection
    now,
    sights,     \* the handler on each connection: what it has yet to record
    events,     \* bound: events so far
    lastAt,     \* history: the time put last for each nick and action
    crossed     \* history: the nicks and actions two handlers recorded across each other

seenVars == <<seen, now, sights, events, lastAt, crossed>>

Millis == 1 .. MaxTime
Sighting == [id : Id, nick : Nick, act : Action, ts : Millis]

\* An event makes one id at most.
ASSUME SeenAssumption ==
    /\ MaxTime \in Nat \ {0} /\ MaxEvents <= MaxId
    /\ Kicks \in BOOLEAN /\ (Kicks => {"KICKING", "KICKED"} \subseteq Action) /\ Action # {}
    /\ None \notin Sighting

ByAction(n, a) == <<"nick", n, a>>
ByTime(n, t) == <<"key", n, t>>
SightKeys == {ByAction(n, a) : n \in Nick, a \in Action} \cup {ByTime(n, t) : n \in Nick, t \in Millis}
SightIndexes(s) == <<ByAction(s.nick, s.act), ByTime(s.nick, s.ts)>>

Sn == INSTANCE IndexedStore WITH
    ObjectId <- Id, Nil <- None,
    Key <- SightKeys, Bucket <- {<<k[1], k[2]>> : k \in SightKeys}, Value <- Sighting,
    Client <- Conn, IdOf <- [s \in Sighting |-> s.id],
    Indexes <- [s \in Sighting |-> SightIndexes(s)],
    Path <- [k \in SightKeys |-> {<<k[1], k[2]>>}], Rejected <- {},
    ValidateValues <- KeepAll,
    store <- seen, batch <- None, scan <- None, copy <- [c \in Conn |-> None],
    made <- {}, stale <- {}

\* LastSeenDoing.
LastSeenDoing(n, a) == Sn!Lookup(seen, ByAction(n, a))

\* LastSeen: the last of All under the nick, which is ordered by time.
LastSeen(n) ==
    LET ts == {t \in Millis : Sn!Lookup(seen, ByTime(n, t)) # None} IN
    IF ts = {} THEN None
    ELSE Sn!Lookup(seen, ByTime(n, CHOOSE t \in ts : \A u \in ts : u <= t))

NoSight == [pc |-> "idle", left |-> <<>>, s |-> None, since |-> 0]

SeenInit ==
    /\ seen = Sn!EmptyStore
    /\ now = 1
    /\ sights = [c \in Conn |-> NoSight]
    /\ events = 0
    /\ lastAt = [x \in Nick \X Action |-> 0]
    /\ crossed = {}

Millisecond ==
    /\ now < MaxTime /\ now' = now + 1
    /\ UNCHANGED <<seen, sights, events, lastAt, crossed>>

\* What an event has its handler record. A public line is a PRIVMSG or an ACTION unless
\* it is about smoking; who is kicked is taken from the kick's message.
ToRecord == {<<<<n, a>>>> : n \in Nick, a \in Action \ {"KICKING", "KICKED"}}
            \cup (IF Kicks THEN {<<<<n, "KICKING">>, <<m, "KICKED">>>> : n, m \in Nick} ELSE {})

Occurs(c) ==
    \E r \in ToRecord :
        /\ sights[c] = NoSight
        /\ events + Len(r) <= MaxEvents
        /\ events' = events + Len(r)
        /\ sights' = [sights EXCEPT ![c] = [NoSight EXCEPT !.pc = "get", !.left = r]]
        /\ UNCHANGED <<seen, now, lastAt, crossed>>

GetSight(c) ==
    LET x == sights[c].left[1] IN
    /\ sights[c].pc = "get"
    /\ sights' = [sights EXCEPT ![c] =
                     [@ EXCEPT !.pc = "put", !.s = LastSeenDoing(x[1], x[2]), !.since = now]]
    /\ crossed' = IF \E d \in Conn : sights[d].pc = "put" /\ sights[d].left[1] = x
                  THEN crossed \cup {x} ELSE crossed
    /\ UNCHANGED <<seen, now, events, lastAt>>

\* A mutant: what was found is left alone.
SightNew(h, ts) == [id |-> 1 + Cardinality(Sn!Stored(seen)), ts |-> ts,
                    nick |-> h.left[1][1], act |-> h.left[1][2]]
\* The record found with a new time, or SawNick's.
Sight(h, ts) ==
    IF h.s = None THEN [id |-> 1 + Cardinality(Sn!Stored(seen)), ts |-> ts,
                        nick |-> h.left[1][1], act |-> h.left[1][2]]
    ELSE [h.s EXCEPT !.ts = ts]

\* The time was taken at some point since the read.
PutSight(c) ==
    \E ts \in sights[c].since .. now :
        /\ sights[c].pc = "put"
        /\ seen' = Sn!PutTx(seen, Sight(sights[c], ts))
        /\ lastAt' = [lastAt EXCEPT ![sights[c].left[1]] = ts]
        /\ sights' = [sights EXCEPT ![c] = IF Len(@.left) = 1 THEN NoSight
                         ELSE [NoSight EXCEPT !.pc = "get", !.left = Tail(sights[c].left)]]
        /\ UNCHANGED <<now, events, crossed>>

SeenNext == Millisecond \/ \E c \in Conn : Occurs(c) \/ GetSight(c) \/ PutSight(c)
SeenSpec == SeenInit /\ [][SeenNext]_seenVars

-----------------------------------------------------------------------------
\* "A given IRC nick must only have one stored *Nick per action type, and ... this is the
\* newest" (seen.go:142-145), and "seen nick" answers with the newest of all, although
\* times may collide: unless handlers of two connections recorded one action of the nick
\* across each other (seendriver/handlers.go:39-41).
NewestSeen ==
    \A n \in Nick :
        /\ \A a \in Action : <<n, a>> \notin crossed =>
            {s.ts : s \in {v \in Sn!Stored(seen) : v.nick = n /\ v.act = a}} =
                IF lastAt[<<n, a>>] = 0 THEN {} ELSE {LastSeenDoing(n, a).ts, lastAt[<<n, a>>]}
        /\ (\A a \in Action : <<n, a>> \notin crossed) =>
            LET m == CHOOSE t \in {lastAt[<<n, a>>] : a \in Action} :
                        \A a \in Action : lastAt[<<n, a>>] <= t
            IN  (m = 0 /\ LastSeen(n) = None) \/ LastSeen(n).ts = m
=============================================================================
