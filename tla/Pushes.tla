------------------------------- MODULE Pushes -------------------------------
(***************************************************************************)
(* Push notifications (drivers/netdriver/pushbullet.go, collections/pushes, *)
(* util/push). A nick enables them with a command and gets a URL that names *)
(* a new push state; over HTTP the state gets a token (pushAuthHTTP) and a *)
(* device, to which a pin is pushed (pushDeviceHTTP); typing the pin makes *)
(* it done (pushConfirm). From then on other nicks may be its aliases.     *)
(*                                                                         *)
(* A connection handles one command at a time; HTTP requests are handled   *)
(* beside it. Each handler reads the state in one transaction and writes   *)
(* or deletes it in a later one. The transactions are IndexedStore's.      *)
(***************************************************************************)
EXTENDS Naturals, Sequences, FiniteSets

CONSTANTS
    Nick,
    Device,
    Conn,    \* server connections
    Req,     \* HTTP requests that are handled at a time
    MaxId,   \* bound: states ever made
    MaxTok,  \* bound: tokens ever granted
    MaxPin,  \* bound: pins ever drawn
    None

Id == 1 .. MaxId
Token == 1 .. MaxTok
Pin == 1 .. MaxPin

State == [id : Id, nick : Nick, aliases : Seq(Nick), iden : Device \cup {None},
          pin : Pin \cup {None}, token : Token \cup {None}, done : BOOLEAN]

ASSUME PushesAssumption ==
    /\ MaxId \in Nat /\ MaxTok \in Nat /\ MaxPin \in Nat
    /\ None \notin Nat \cup Nick \cup Device \cup State

HasAlias(s, a) == \E i \in 1 .. Len(s.aliases) : s.aliases[i] = a
AddAlias(s, a) == [s EXCEPT !.aliases = Append(@, a)]
DelAlias(s, a) ==
    LET i == CHOOSE j \in 1 .. Len(s.aliases) :
                s.aliases[j] = a /\ \A h \in 1 .. j - 1 : s.aliases[h] # a
    IN  [s EXCEPT !.aliases = SubSeq(@, 1, i - 1) \o SubSeq(@, i + 1, Len(@))]

WithPin(s, iden, pin) == [s EXCEPT !.iden = iden, !.pin = pin]

\* Mutant: a state that is done may be confirmed again.
CanConfirmAgain(s) == s.token # None /\ s.iden # None
CanConfirm(s) == s.token # None /\ s.iden # None /\ ~s.done
CanPush(s) == s.token # None /\ s.iden # None /\ s.done

\* The index keys of a state: its nick, and its aliases.
ByNick(n) == <<"nick", n>>
ByAlias(n) == <<"aliases", n>>
IdxKey == {"nick", "aliases"} \X Nick
Keys(s) == <<ByNick(s.nick)>> \o [i \in 1 .. Len(s.aliases) |-> ByAlias(s.aliases[i])]
KeepAll(S) == {}

VARIABLES
    db,      \* the collection
    next,    \* the next id that NewObjectId returns
    old,     \* the ids whose hour for the authorisation is over
    cmd,     \* the command each connection handles
    req,     \* the HTTP requests
    tokens,  \* tokens granted so far
    pushed,  \* history: the pins pushed, with state and device
    typed,   \* history: the pins typed, with the state they were for
    off      \* history: the states deleted by push disable

vars == <<db, next, old, cmd, req, tokens, pushed, typed, off>>

Tx == INSTANCE IndexedStore WITH
    ObjectId <- Id, Nil <- None,
    Key <- IdxKey, Bucket <- {"nick", "aliases"}, Value <- State, Client <- Conn,
    IdOf <- [s \in State |-> s.id], Indexes <- [s \in State |-> Keys(s)],
    Path <- [k \in IdxKey |-> {k[1]}], Rejected <- {},
    ValidateValues <- KeepAll,
    store <- db, batch <- None, scan <- None, copy <- [c \in Conn |-> None],
    made <- {}, stale <- {}

Fresh(n) == [id |-> next, nick |-> n, aliases |-> <<>>, iden |-> None, pin |-> None,
             token |-> None, done |-> FALSE]
NoCmd == [pc |-> "idle", is |-> None, nick |-> None, arg |-> None, want |-> None,
          too |-> FALSE, own |-> None, s |-> None]
NoReq == [pc |-> "idle", iden |-> None, s |-> None]

\* A command that is to look for the state of a nick, and the same later, with what
\* it has found; a request that is to put a state.
Kind == {"enable", "disable", "auth", "add", "del"}
Looking(is, n, arg, want, too, own) ==
    [pc |-> "nick", is |-> is, nick |-> n, arg |-> arg, want |-> want,
     too |-> too, own |-> own, s |-> None]
At(h, pc, s) ==
    [pc |-> pc, is |-> h.is, nick |-> h.nick, arg |-> h.arg, want |-> h.want,
     too |-> h.too, own |-> h.own, s |-> s]
Putting(s) == [pc |-> "put", iden |-> None, s |-> s]

Init ==
    /\ db = Tx!EmptyStore
    /\ next = 1
    /\ old = {}
    /\ cmd = [c \in Conn |-> NoCmd]
    /\ req = [r \in Req |-> NoReq]
    /\ tokens = 0
    /\ pushed = {}
    /\ typed = {}
    /\ off = {}

Expired(s) == ~CanPush(s) /\ s.id \in old

Hour(i) ==
    /\ i < next /\ i \notin old
    /\ old' = old \cup {i}
    /\ UNCHANGED <<db, next, cmd, req, tokens, pushed, typed, off>>

-----------------------------------------------------------------------------
(* Commands. *)

\* Whether a command looks for its own nick among the aliases, too: "it allows someone
\* to change nick to a known alias and then disable pushes for that user".
\* Mutant: push disable does.
TooDisable(is) == is \in {"enable", "disable"}
Too(is) == is = "enable"

\* Someone gives a command: with an alias, with a pin, or with nothing.
Ask(c) ==
    \E n \in Nick, is \in Kind,
       arg \in Nick \cup {p.pin : p \in pushed} \cup {None} :
        /\ cmd[c] = NoCmd
        /\ arg \in (CASE is \in {"add", "del"} -> Nick
                      [] is = "auth" -> {p.pin : p \in pushed}
                      [] OTHER -> {None})
        /\ is = "enable" => next <= MaxId
        /\ cmd' = [cmd EXCEPT ![c] = Looking(is, n, arg, n, Too(is), None)]
        /\ UNCHANGED <<db, next, old, req, tokens, pushed, typed, off>>

\* GetByNick: the state found, whose deletion is due when its window is over.
Found(h, s) == At(h, IF s # None /\ Expired(s) THEN "expired" ELSE "got", s)

GetNick(c) ==
    LET h == cmd[c]
        s == Tx!Lookup(db, ByNick(h.want)) IN
    /\ h.pc = "nick"
    /\ cmd' = [cmd EXCEPT ![c] = IF s = None /\ h.too THEN At(h, "alias", None)
                                 ELSE Found(h, s)]
    /\ UNCHANGED <<db, next, old, req, tokens, pushed, typed, off>>

GetAlias(c) ==
    /\ cmd[c].pc = "alias"
    /\ cmd' = [cmd EXCEPT ![c] = Found(@, Tx!Lookup(db, ByAlias(cmd[c].want)))]
    /\ UNCHANGED <<db, next, old, req, tokens, pushed, typed, off>>

DropExpired(c) ==
    /\ cmd[c].pc = "expired"
    /\ db' = Tx!DelTx(db, cmd[c].s)
    /\ cmd' = [cmd EXCEPT ![c] = At(@, "got", None)]
    /\ UNCHANGED <<next, old, req, tokens, pushed, typed, off>>

\* The commands' early returns.
Refused(h) ==
    IF h.s = None THEN h.is # "enable" /\ h.own = None
    ELSE CASE h.is = "enable" -> HasAlias(h.s, h.nick) \/ CanPush(h.s)
           [] h.is = "disable" -> FALSE
           [] h.is = "auth" -> h.s.done \/ h.s.pin # h.arg
           [] h.is = "add" -> h.own # None \/ ~CanPush(h.s) \/ HasAlias(h.s, h.arg)
           [] h.is = "del" -> ~CanPush(h.s) \/ ~HasAlias(h.s, h.arg)

Refuse(c) ==
    /\ cmd[c].pc = "got" /\ Refused(cmd[c])
    /\ cmd' = [cmd EXCEPT ![c] = NoCmd]
    /\ UNCHANGED <<db, next, old, req, tokens, pushed, typed, off>>

Going(c, is) == cmd[c].pc = "got" /\ cmd[c].is = is /\ ~Refused(cmd[c])

\* pushEnable deletes what is there, and then makes a new state.
Enable(c) ==
    /\ Going(c, "enable")
    /\ db' = IF cmd[c].s = None THEN db ELSE Tx!DelTx(db, cmd[c].s)
    /\ cmd' = [cmd EXCEPT ![c] = At(@, "new", None)]
    /\ UNCHANGED <<next, old, req, tokens, pushed, typed, off>>

NewState(c) ==
    /\ cmd[c].pc = "new" /\ next <= MaxId
    /\ db' = Tx!PutTx(db, Fresh(cmd[c].nick))
    /\ next' = next + 1
    /\ cmd' = [cmd EXCEPT ![c] = NoCmd]
    /\ UNCHANGED <<old, req, tokens, pushed, typed, off>>

Disable(c) ==
    /\ Going(c, "disable")
    /\ db' = Tx!DelTx(db, cmd[c].s)
    /\ off' = off \cup {cmd[c].s.id}
    /\ cmd' = [cmd EXCEPT ![c] = NoCmd]
    /\ UNCHANGED <<next, old, req, tokens, pushed, typed>>

Confirm(c) ==
    LET s == cmd[c].s IN
    /\ Going(c, "auth")
    /\ db' = Tx!PutTx(db, [s EXCEPT !.done = TRUE])
    /\ typed' = typed \cup {[id |-> s.id, pin |-> cmd[c].arg]}
    /\ cmd' = [cmd EXCEPT ![c] = NoCmd]
    /\ UNCHANGED <<next, old, req, tokens, pushed, off>>

\* pushAddAlias looks for another state that has the alias as nick or alias ...
CheckAlias(c) ==
    LET h == cmd[c] IN
    /\ Going(c, "add") /\ h.own = None
    /\ cmd' = [cmd EXCEPT ![c] = Looking("add", h.nick, h.arg, h.arg, TRUE, h.s)]
    /\ UNCHANGED <<db, next, old, req, tokens, pushed, typed, off>>

\* ... and puts the first one back with the alias.
PutAlias(c) ==
    /\ Going(c, "add") /\ cmd[c].own # None
    /\ db' = Tx!PutTx(db, AddAlias(cmd[c].own, cmd[c].arg))
    /\ cmd' = [cmd EXCEPT ![c] = NoCmd]
    /\ UNCHANGED <<next, old, req, tokens, pushed, typed, off>>

DropAlias(c) ==
    /\ Going(c, "del")
    /\ db' = Tx!PutTx(db, DelAlias(cmd[c].s, cmd[c].arg))
    /\ cmd' = [cmd EXCEPT ![c] = NoCmd]
    /\ UNCHANGED <<next, old, req, tokens, pushed, typed, off>>

-----------------------------------------------------------------------------
(* HTTP requests. *)

\* /oauth/auth, or a device posted to /oauth/device: GetByB64 of the state. A
\* request for one that is not stored changes nothing: Del of nil panics.
Visit(r) ==
    \E i \in Id, iden \in Device \cup {None} :
        LET s == db.vals[i] IN
        /\ req[r] = NoReq
        /\ s # None
        /\ req' = [req EXCEPT ![r] = [iden |-> iden, s |-> s,
              pc |-> IF Expired(s) THEN "expired"
                     ELSE IF iden = None THEN "exchange" ELSE "device"]]
        /\ UNCHANGED <<db, next, old, cmd, tokens, pushed, typed, off>>

VisitExpired(r) ==
    /\ req[r].pc = "expired"
    /\ db' = Tx!DelTx(db, req[r].s)
    /\ req' = [req EXCEPT ![r] = NoReq]
    /\ UNCHANGED <<next, old, cmd, tokens, pushed, typed, off>>

\* No code, a failed exchange or push, or a state that cannot be confirmed.
Fail(r) ==
    /\ req[r].pc \in {"exchange", "device"}
    /\ req' = [req EXCEPT ![r] = NoReq]
    /\ UNCHANGED <<db, next, old, cmd, tokens, pushed, typed, off>>

Exchange(r) ==
    /\ req[r].pc = "exchange" /\ tokens < MaxTok
    /\ tokens' = tokens + 1
    /\ req' = [req EXCEPT ![r] = Putting([req[r].s EXCEPT !.token = tokens + 1])]
    /\ UNCHANGED <<db, next, old, cmd, pushed, typed, off>>

\* The pin is pushed to the device before the state is put.
PushPin(r) ==
    LET s == WithPin(req[r].s, req[r].iden, Cardinality(pushed) + 1) IN
    /\ req[r].pc = "device" /\ Cardinality(pushed) < MaxPin
    /\ CanConfirm(s)
    /\ pushed' = pushed \cup {[id |-> s.id, iden |-> s.iden, pin |-> s.pin]}
    /\ req' = [req EXCEPT ![r] = Putting(s)]
    /\ UNCHANGED <<db, next, old, cmd, tokens, typed, off>>

PutState(r) ==
    /\ req[r].pc = "put"
    /\ db' = Tx!PutTx(db, req[r].s)
    /\ req' = [req EXCEPT ![r] = NoReq]
    /\ UNCHANGED <<next, old, cmd, tokens, pushed, typed, off>>

-----------------------------------------------------------------------------

Next ==
    \/ \E i \in Id : Hour(i)
    \/ \E c \in Conn :
        \/ Ask(c) \/ GetNick(c) \/ GetAlias(c) \/ DropExpired(c) \/ Refuse(c)
        \/ Enable(c) \/ NewState(c) \/ Disable(c) \/ Confirm(c)
        \/ CheckAlias(c) \/ PutAlias(c) \/ DropAlias(c)
    \/ \E r \in Req :
        \/ Visit(r) \/ VisitExpired(r) \/ Fail(r) \/ Exchange(r) \/ PushPin(r) \/ PutState(r)

Spec == Init /\ [][Next]_vars

-----------------------------------------------------------------------------
(* Properties. *)

Stored == {db.vals[i] : i \in Id} \ {None}

Cmds == [pc : {"idle", "nick", "alias", "expired", "got", "new"},
         is : Kind \cup {None}, nick : Nick \cup {None}, arg : Nick \cup Pin \cup {None},
         want : Nick \cup {None}, too : BOOLEAN, own : State \cup {None},
         s : State \cup {None}]
Reqs == [pc : {"idle", "expired", "exchange", "device", "put"},
         iden : Device \cup {None}, s : State \cup {None}]

TypeOK ==
    /\ db \in Tx!Store
    /\ \A i \in Id : db.vals[i] # None => db.vals[i].id = i
    /\ next \in 1 .. MaxId + 1 /\ old \cup off \subseteq Id /\ tokens \in 0 .. MaxTok
    /\ cmd \in [Conn -> Cmds] /\ req \in [Req -> Reqs]
    /\ pushed \subseteq [id : Id, iden : Device, pin : Pin] /\ IsFiniteSet(pushed)
    /\ typed \subseteq [id : Id, pin : Pin]

\* What the pin is for (pushbullet.go:32): a state that pushes go to has the device
\* to which the pin was pushed that its nick typed, whichever requests and commands
\* read it before and put it after.
Confirmed == \A s \in Stored :
    s.done => /\ [id |-> s.id, iden |-> s.iden, pin |-> s.pin] \in pushed
              /\ [id |-> s.id, pin |-> s.pin] \in typed

\* The comment at pushbullet.go:62: nobody disables the pushes of another by changing
\* to one of its aliases. Whatever else changes or deletes states meanwhile, the one
\* that push disable deletes is its own nick's.
OwnDisable == [][\A i \in Id : \A c \in Conn :
    (/\ db.vals[i] # None /\ db'.vals[i] = None
     /\ cmd[c].pc = "got" /\ cmd[c].is = "disable" /\ cmd'[c] # cmd[c])
        => cmd[c].nick = db.vals[i].nick]_vars

\* The help of push disable (netdriver.go:69): "Disable pushbullet notifications and
\* delete tokens." A state that was disabled is not stored again.
StaysDisabled == \A i \in off : db.vals[i] = None

=============================================================================
