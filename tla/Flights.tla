------------------------------ MODULE Flights ------------------------------
(***************************************************************************)
(* Tracked flights (drivers/netdriver/flights.go, util/flights). A channel *)
(* stalks a flight; the poller asks AviationStack about every flight that  *)
(* is stalked and tells its channels what changed, until it has landed.    *)
(* The poller's mutex is not held while the service is asked, neither by a *)
(* poll nor by the stalk command, and two polls overlap when the goroutine *)
(* that a lost connection told to quit is still in Poll (PollerSet has the *)
(* goroutines in detail). A poll some of whose queries failed dereferences *)
(* nil, and the process ends.                                              *)
(***************************************************************************)
EXTENDS Naturals, Sequences

CONSTANTS
    Plane,
    Code,     \* what a flight is called: its IATA and ICAO codes
    Codes,    \* the codes of each plane's flight, in the service's order
    Nick,     \* other aliases
    Data,     \* what the service may say of a flight
    Conn,
    MaxCmds,  \* bound: commands ever given
    Scenes,   \* bound: what is stalked, by whom, and whether polls overlap
    None

ASSUME FlightsAssumption ==
    /\ Codes \in [Plane -> Seq(Code)]
    /\ MaxCmds \in Nat
    /\ Scenes \subseteq [codes : SUBSET Code, talk : SUBSET Conn, overlap : BOOLEAN]
    /\ \A f \in Code : \E p \in Plane : \E i \in 1 .. Len(Codes[p]) : Codes[p][i] = f
    /\ Data \subseteq [status : {"scheduled", "active", "landed"}, live : {"none", "ground", "air"}]
    /\ None \notin Code \cup Conn /\ None \notin Data

VARIABLES
    conns,     \* the connections that are up: ps.conns
    up,        \* whether the process lives
    sky,       \* what the service would say of each plane
    tracking,  \* fp.tracking; heard has the subscribers, and what each was told last
    aliases,   \* fp.aliases
    cmd,       \* the stalk command each connection handles
    given,     \* bound: the commands given so far
    scene,     \* bound: what may happen in this behaviour
    poll       \* the goroutines: the one that polls, and one told to quit

vars == <<conns, up, sky, tracking, aliases, cmd, given, poll, scene>>

PlaneOf(f) == CHOOSE p \in Plane : \E i \in 1 .. Len(Codes[p]) : Codes[p][i] = f

\* Data.String: the live data first, and an active flight reads like an airborne one.
Texts == {"scheduled", "air", "ground", "landed"}
Text(d) == IF d.live # "none" THEN d.live
           ELSE IF d.status = "active" THEN "air" ELSE d.status

\* Mutant: whether the status has changed, the live data notwithstanding.
UpdatedStatus(d, last) == d.status # last.status
Updated(d, last) == Text(d) # Text(last)

Over(d) == d.status = "landed"

\* The service does not always say that a flight has landed.
CameDown(d, last) == last # None /\ last.live = "air" /\ d.live # "air"
Landed(d, last) == Over(d) \/ CameDown(d, last)

NoCmd == [pc |-> "idle", text |-> None, data |-> None, left |-> <<>>]
Asking(pc, C, F, got) == [pc |-> pc, ctxs |-> C, all |-> F, got |-> got]
NoAnswer == [f \in {} |-> None]
Idle == Asking("idle", {}, {}, NoAnswer)
Ended == Asking("ended", {}, {}, NoAnswer)
Poller == {"live", "old"}

Init ==
    /\ conns = {}
    /\ up = TRUE
    /\ sky \in [Plane -> Data]
    /\ tracking = [f \in Code |-> None]
    /\ aliases = [a \in Code \cup Nick |-> None]
    /\ cmd = [c \in Conn |-> NoCmd]
    /\ given = 0
    /\ scene \in Scenes
    /\ poll = [r \in Poller |-> Ended]

Fly(p) ==
    /\ ~Over(sky[p])
    /\ \E d \in Data \ {sky[p]} : sky' = [sky EXCEPT ![p] = d]
    /\ UNCHANGED <<conns, up, tracking, aliases, cmd, given, poll, scene>>

Tracked == {f \in Code : tracking[f] # None}

\* getLocked: the flight a name stands for. Codes are upper case, and found first.
Resolve(a) == IF a \in Tracked THEN a ELSE aliases[a]

Key(a) == IF Resolve(a) = None THEN a ELSE Resolve(a)
Last(f) == IF f \in Tracked THEN tracking[f].data ELSE None
Heard(f) == IF f \in Tracked THEN tracking[f].heard ELSE [s \in {} |-> None]

\* cleanupLocked of the flights of F, and what is tracked otherwise.
Clean(F, now) ==
    /\ tracking' = [f \in Code |-> IF f \in F THEN None ELSE now[f]]
    /\ aliases' = [a \in DOMAIN aliases |-> IF aliases[a] \in F THEN None ELSE aliases[a]]

-----------------------------------------------------------------------------
(* Commands. *)

Gives(c) == c \in conns \cap scene.talk /\ cmd[c] = NoCmd /\ given < MaxCmds /\ given' = given + 1

\* The service is asked about the flight first; when that fails nothing is done.
QueryOne(c) ==
    \E f \in scene.codes :
        /\ Gives(c)
        /\ cmd' = [cmd EXCEPT ![c] =
                       [pc |-> "stalk", text |-> f, data |-> sky[PlaneOf(f)], left |-> <<>>]]
        /\ UNCHANGED <<conns, up, sky, tracking, aliases, poll, scene>>

\* A flight that has landed is not stalked, and no longer if it was; only c is told.
Decline(c) ==
    LET f == Key(cmd[c].text) IN
    /\ cmd[c].pc = "stalk"
    /\ Landed(cmd[c].data, Last(f))
    /\ Clean({f} \cap Tracked, tracking)
    /\ cmd' = [cmd EXCEPT ![c] = NoCmd]
    /\ UNCHANGED <<conns, up, sky, given, poll, scene>>

\* What the subscribers have heard when c stalks their flight again, with d: c is
\* told what changed, the others are not (None).
HearFrom(heard, c, d) ==
    [s \in DOMAIN heard \cup {c} |->
        IF (s = c /\ c \in conns) \/ (s # c /\ heard[s] = Text(d)) THEN Text(d) ELSE None]

Stalk(c) ==
    LET f == Key(cmd[c].text)
        d == cmd[c].data IN
    /\ cmd[c].pc = "stalk"
    /\ ~Landed(d, Last(f))
    /\ tracking' = [tracking EXCEPT ![f] = [data |-> d, heard |-> HearFrom(Heard(f), c, d)]]
    /\ cmd' = [cmd EXCEPT ![c] = [pc |-> "alias", text |-> cmd[c].text, data |-> None,
                                  left |-> Codes[PlaneOf(cmd[c].text)]]]
    /\ UNCHANGED <<conns, up, sky, aliases, given, poll, scene>>

\* Mutant of CanAlias: a flight may be aliased by its alias.
CanAliasAny(f, a) == a # f /\ Resolve(f) # None

\* flightPoller.alias: f must be tracked, not found by an alias.
CanAlias(f, a) == a # f /\ f \in Tracked

AliasCode(c) ==
    LET a == Head(cmd[c].left) IN
    /\ cmd[c].pc = "alias"
    /\ aliases' = [aliases EXCEPT ![a] = IF CanAlias(cmd[c].text, a) THEN cmd[c].text ELSE @]
    /\ cmd' = [cmd EXCEPT ![c] = IF Len(@.left) = 1 THEN NoCmd
                                 ELSE [cmd[c] EXCEPT !.left = Tail(cmd[c].left)]]
    /\ UNCHANGED <<conns, up, sky, tracking, given, poll, scene>>

\* The alias command.
Alias(c) ==
    \E f \in Code, a \in Code \cup Nick :
        /\ Gives(c)
        /\ CanAlias(f, a)
        /\ aliases' = [aliases EXCEPT ![a] = f]
        /\ UNCHANGED <<conns, up, sky, tracking, cmd, poll, scene>>

Unstalk(c) ==
    \E a \in Code \cup Nick :
        LET f == Resolve(a)
            left == [s \in DOMAIN tracking[f].heard \ {c} |-> tracking[f].heard[s]] IN
        /\ Gives(c)
        /\ f # None
        /\ Clean(IF DOMAIN left = {} THEN {f} ELSE {}, [tracking EXCEPT ![f].heard = left])
        /\ UNCHANGED <<conns, up, sky, cmd, poll, scene>>

-----------------------------------------------------------------------------
(* Polls. PollerSet has the goroutines in detail: one polls while anybody is *)
(* connected, and the one that the last DISCONNECTED told to quit may still  *)
(* be polling, or poll again, beside the next.                               *)

Connected(c) ==
    /\ c \notin conns
    /\ conns' = conns \cup {c}
    /\ poll' = IF conns = {} THEN [poll EXCEPT !["live"] = Idle] ELSE poll
    /\ UNCHANGED <<up, sky, tracking, aliases, cmd, given, scene>>

\* Bound: one goroutine told to quit at a time, and when the scene has no overlap only
\* one that is waiting, and ends at once.
Disconnected(c) ==
    /\ c \in conns
    /\ conns' = conns \ {c}
    /\ IF conns # {c} THEN UNCHANGED poll
       ELSE IF scene.overlap
       THEN /\ poll["old"] = Ended
            /\ poll' = [old |-> poll["live"], live |-> Ended]
       ELSE poll["live"] = Idle /\ poll' = [poll EXCEPT !["live"] = Ended]
    /\ UNCHANGED <<up, sky, tracking, aliases, cmd, given, scene>>

Quit(r) ==
    /\ r = "old" /\ poll[r] = Idle
    /\ poll' = [poll EXCEPT ![r] = Ended]
    /\ UNCHANGED <<conns, up, sky, tracking, aliases, cmd, given, scene>>

\* Poll is called with the contexts there are: at the start, or after a tick.
Start(r) ==
    /\ poll[r] = Idle
    /\ poll' = [poll EXCEPT ![r] = Asking("list", conns, {}, NoAnswer)]
    /\ UNCHANGED <<conns, up, sky, tracking, aliases, cmd, given, scene>>

List(r) ==
    /\ poll[r].pc = "list"
    /\ poll' = [poll EXCEPT ![r] =
           IF @.ctxs = {} \/ Tracked = {} THEN Idle
           ELSE Asking("query", @.ctxs, Tracked, NoAnswer)]
    /\ UNCHANGED <<conns, up, sky, tracking, aliases, cmd, given, scene>>

\* Each query succeeds or fails, and the poll is over when all have failed. They are
\* seconds apart; as each flight is asked about once, when it is within the poll tells
\* no flight's history from another.
Answered(r, F) ==
    /\ poll[r].pc = "query"
    /\ poll' = [poll EXCEPT ![r] =
           IF F = {} THEN Idle
           ELSE Asking("apply", @.ctxs, @.all, [f \in F |-> sky[PlaneOf(f)]])]
    /\ UNCHANGED <<conns, up, sky, tracking, aliases, cmd, given, scene>>

QueryAll(r) == \E F \in SUBSET poll[r].all : Answered(r, F)

\* The flights of a poll that are still tracked.
Current(r) == poll[r].all \cap Tracked

\* update with the answer of a query that failed: nil.
Panic(r) ==
    /\ poll[r].pc = "apply"
    /\ ~(Current(r) \subseteq DOMAIN poll[r].got)
    /\ up' = FALSE
    /\ UNCHANGED <<conns, sky, tracking, aliases, cmd, given, poll, scene>>

\* sendMsgs: subscribers on networks the poll has no context for are dropped, and
\* what is said on a connection that is gone since is lost (None).
Send(heard, r, d) ==
    [s \in DOMAIN heard \cap poll[r].ctxs |-> IF s \in conns THEN Text(d) ELSE None]

Apply(r) ==
    LET got == poll[r].got
        F == Current(r)
        last(f) == tracking[f].data IN
    /\ poll[r].pc = "apply"
    /\ F \subseteq DOMAIN got
    /\ Clean({f \in F : Landed(got[f], last(f))},
             [f \in Code |-> IF f \notin F THEN tracking[f]
                 ELSE [data |-> got[f],
                       heard |-> IF Updated(got[f], last(f)) THEN Send(tracking[f].heard, r, got[f])
                                 ELSE tracking[f].heard]])
    /\ poll' = [poll EXCEPT ![r] = Idle]
    /\ UNCHANGED <<conns, up, sky, cmd, given, scene>>

-----------------------------------------------------------------------------

Commands(c) ==
    QueryOne(c) \/ Decline(c) \/ Stalk(c) \/ AliasCode(c) \/ Alias(c) \/ Unstalk(c)

Step(r) ==
    Start(r) \/ List(r) \/ QueryAll(r) \/ Panic(r) \/ Apply(r)

Next ==
    /\ up
    /\ \/ \E p \in Plane : Fly(p)
       \/ \E c \in Conn : Connected(c) \/ Disconnected(c) \/ Commands(c)
       \/ \E r \in Poller : Quit(r) \/ Step(r)

\* PollerSet shows that the goroutines go on; commands end, and no query fails always.
Fairness ==
    /\ \A r \in Poller :
        WF_vars(up /\ Step(r)) /\ SF_vars(up /\ Answered(r, poll[r].all))
    /\ \A c \in Conn : WF_vars(up /\ (Decline(c) \/ Stalk(c) \/ AliasCode(c)))

Spec == Init /\ [][Next]_vars /\ Fairness

-----------------------------------------------------------------------------
(* Properties. *)

Hears == UNION {[S -> Texts \cup {None}] : S \in SUBSET Conn}
Answers == UNION {[F -> Data] : F \in SUBSET Code}
Info == [data : Data, heard : Hears]

ASSUME NoneAssumption == None \notin Info

\* What a command and a poll have read is there when they come to use it.
Cmds == {NoCmd}
        \cup [pc : {"stalk"}, text : Code, data : Data, left : {<<>>}]
        \cup [pc : {"alias"}, text : Code, data : {None}, left : Seq(Code) \ {<<>>}]
Polls == [pc : {"ended", "idle", "list", "query", "apply"},
          ctxs : SUBSET Conn, all : SUBSET Code, got : Answers]

TypeOK ==
    /\ conns \subseteq Conn
    /\ sky \in [Plane -> Data]
    /\ tracking \in [Code -> Info \cup {None}]
    /\ given \in 0 .. MaxCmds
    /\ scene \in Scenes
    /\ aliases \in [Code \cup Nick -> Code \cup {None}]
    /\ cmd \in [Conn -> Cmds]
    /\ poll \in [Poller -> Polls]
    /\ poll["live"] = Ended <=> conns = {}

\* getLocked follows an alias without looking whether it has followed it before
\* (flights.go:97): it ends, since each alias is of a tracked flight.
AliasesEnd == \A a \in DOMAIN aliases : aliases[a] # None => aliases[a] \in Tracked

\* A subscriber that is connected and stalks a flight was told what the bot knows
\* of it, unless another's stalk command told the bot, or the news was sent while
\* its server was lost (None).
Told == \A f \in Tracked : \A s \in DOMAIN tracking[f].heard :
    tracking[f].heard[s] \in {Text(tracking[f].data), None}

\* While somebody is connected a flight that has landed is forgotten in the end,
\* whatever queries fail and polls overlap, or the process has ended.
LandedForgotten == \A f \in Code :
    <>[](conns # {} /\ Over(sky[PlaneOf(f)]))
        => <>[](~up \/ f \notin Tracked)

=============================================================================
