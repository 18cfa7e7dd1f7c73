--------------------------- MODULE Flights_proofs ---------------------------
(***************************************************************************)
(* Theorems about Flights for any planes, codes, networks and answers of   *)
(* the service: that an alias always leads to a tracked flight, and what   *)
(* the subscribers were told.                                              *)
(***************************************************************************)
EXTENDS Flights, TLAPS

LEMMA HearsIs ==
    /\ \A S \in SUBSET Conn : \A h \in [S -> Texts \cup {None}] : h \in Hears
    /\ \A h \in Hears : DOMAIN h \subseteq Conn /\ h \in [DOMAIN h -> Texts \cup {None}]
BY DEF Hears

LEMMA AnswersIs ==
    /\ \A F \in SUBSET Code : \A g \in [F -> Data] : g \in Answers
    /\ \A g \in Answers : DOMAIN g \subseteq Code /\ g \in [DOMAIN g -> Data]
BY DEF Answers

LEMMA NoAnswerIs == NoAnswer \in Answers
<1>1. NoAnswer \in [{} -> Data]
  BY DEF NoAnswer
<1> QED BY <1>1, AnswersIs

LEMMA TextIs == ASSUME NEW d \in Data PROVE Text(d) \in Texts
BY FlightsAssumption DEF Text, Texts

LEMMA PlaneIs ==
    ASSUME NEW f \in Code
    PROVE  PlaneOf(f) \in Plane /\ Codes[PlaneOf(f)] \in Seq(Code) \ {<<>>}
<1>1. \E p \in Plane : \E i \in 1 .. Len(Codes[p]) : Codes[p][i] = f
  BY FlightsAssumption
<1>2. PlaneOf(f) \in Plane /\ \E i \in 1 .. Len(Codes[PlaneOf(f)]) : Codes[PlaneOf(f)][i] = f
  BY <1>1 DEF PlaneOf
<1>3. Codes[PlaneOf(f)] # <<>>
  BY <1>2
<1> QED BY <1>2, <1>3, FlightsAssumption

\* What is known of a tracked flight.
LEMMA TrackedIs ==
    ASSUME TypeOK, NEW f \in Tracked
    PROVE  /\ f \in Code /\ tracking[f] \in Info
           /\ tracking[f].data \in Data /\ tracking[f].heard \in Hears
<1>1. f \in Code /\ tracking[f] \in Info
  BY DEF TypeOK, Tracked
<1> QED BY <1>1 DEF Info

LEMMA NewInfo ==
    ASSUME NEW d \in Data, NEW h \in Hears
    PROVE  [data |-> d, heard |-> h] \in Info /\ [data |-> d, heard |-> h] # None
<1>1. [data |-> d, heard |-> h] \in Info
  BY DEF Info
<1> QED BY <1>1, NoneAssumption

IInv == TypeOK /\ AliasesEnd /\ Told

\* A name stands for a tracked flight, or for none.
LEMMA ResolveIs ==
    ASSUME IInv, NEW a \in Code \cup Nick
    PROVE  /\ Resolve(a) # None => Resolve(a) \in Tracked
           /\ a \in Code => Key(a) \in Code
BY DEF IInv, TypeOK, AliasesEnd, Resolve, Key, Tracked

LEMMA InitIInv == Init => IInv
<1> SUFFICES ASSUME Init PROVE IInv
  OBVIOUS
<1> USE FlightsAssumption DEF Init
<1>1. NoAnswer \in Answers
  BY NoAnswerIs
<1>2. \A r \in Poller : poll[r] = Ended
  OBVIOUS
<1>3. poll \in [Poller -> Polls]
  BY <1>1 DEF Ended, Asking, Polls
<1>4. TypeOK
  BY <1>2, <1>3 DEF TypeOK, Poller, Cmds
<1>5. Tracked = {}
  BY DEF Tracked
<1>6. AliasesEnd /\ Told
  BY <1>5 DEF AliasesEnd, Told
<1> QED BY <1>4, <1>6 DEF IInv

\* cleanupLocked: the flights it is given are tracked and aliased no more.
LEMMA CleanIInv ==
    ASSUME IInv, NEW F, NEW now \in [Code -> Info \cup {None}], Clean(F, now),
           \A f \in Code : now[f] = None => f \notin Tracked,
           \A f \in Code \ F : now[f] # None => \A s \in DOMAIN now[f].heard :
               now[f].heard[s] \in {Text(now[f].data), None}
    PROVE  /\ tracking' \in [Code -> Info \cup {None}]
           /\ aliases' \in [Code \cup Nick -> Code \cup {None}]
           /\ AliasesEnd' /\ Told'
<1>1. tracking' \in [Code -> Info \cup {None}]
  BY DEF Clean
<1>2. \A f \in Code : tracking'[f] = IF f \in F THEN None ELSE now[f]
  BY DEF Clean
<1>3. /\ DOMAIN aliases' = Code \cup Nick
      /\ \A a \in Code \cup Nick : aliases'[a] = IF aliases[a] \in F THEN None ELSE aliases[a]
      /\ \A a \in Code \cup Nick : aliases[a] \in Code \cup {None}
  BY DEF Clean, IInv, TypeOK
<1>4. aliases' \in [Code \cup Nick -> Code \cup {None}]
  BY DEF Clean, IInv, TypeOK
<1>5. AliasesEnd'
  <2> SUFFICES ASSUME NEW a \in Code \cup Nick, aliases'[a] # None
               PROVE  tracking'[aliases'[a]] # None /\ aliases'[a] \in Code
    BY <1>3 DEF AliasesEnd, Tracked
  <2>1. aliases'[a] = aliases[a] /\ aliases[a] \notin F /\ aliases[a] \in Code
    BY <1>3
  <2>2. aliases[a] \in Tracked
    BY <2>1 DEF IInv, AliasesEnd, TypeOK
  <2> QED BY <1>2, <2>1, <2>2
<1>6. Told'
  BY <1>2 DEF Told, Tracked
<1> QED BY <1>1, <1>4, <1>5, <1>6

\* A command has read what it is about.
LEMMA CmdIs ==
    ASSUME TypeOK, NEW c \in Conn
    PROVE  /\ cmd[c].pc = "stalk" => cmd[c].text \in Code /\ cmd[c].data \in Data
           /\ cmd[c].pc = "alias" => /\ cmd[c].text \in Code
                                     /\ cmd[c].left \in Seq(Code) /\ cmd[c].left # <<>>
BY DEF TypeOK, Cmds, NoCmd

LEMMA FlyIInv == ASSUME IInv, NEW p \in Plane, Fly(p) PROVE IInv'
BY DEF Fly, IInv, TypeOK, AliasesEnd, Told, Tracked

LEMMA GivesIs == ASSUME TypeOK, NEW c, Gives(c) PROVE given' \in 0 .. MaxCmds /\ c \in Conn
BY FlightsAssumption DEF TypeOK, Gives

LEMMA QueryOneIInv == ASSUME IInv, NEW c \in Conn, QueryOne(c) PROVE IInv'
<1>1. PICK f \in scene.codes :
        /\ Gives(c)
        /\ cmd' = [cmd EXCEPT ![c] =
                     [pc |-> "stalk", text |-> f, data |-> sky[PlaneOf(f)], left |-> <<>>]]
  BY DEF QueryOne
<1>2. f \in Code
  BY FlightsAssumption DEF IInv, TypeOK
<1>3. sky[PlaneOf(f)] \in Data
  BY <1>2, PlaneIs DEF IInv, TypeOK
<1>4. cmd' \in [Conn -> Cmds]
  BY <1>1, <1>2, <1>3 DEF IInv, TypeOK, Cmds
<1>5. UNCHANGED <<conns, up, sky, tracking, aliases, poll, scene>>
  BY DEF QueryOne
<1>6. TypeOK'
  BY <1>1, <1>4, <1>5, GivesIs DEF IInv, TypeOK
<1> QED BY <1>5, <1>6 DEF IInv, AliasesEnd, Told, Tracked

LEMMA DeclineIInv == ASSUME IInv, NEW c \in Conn, Decline(c) PROVE IInv'
<1> DEFINE f == Key(cmd[c].text)
<1>1. /\ Clean({f} \cap Tracked, tracking)
      /\ cmd' = [cmd EXCEPT ![c] = NoCmd]
      /\ UNCHANGED <<conns, up, sky, given, poll, scene>>
  BY DEF Decline
<1>2. /\ tracking' \in [Code -> Info \cup {None}]
      /\ aliases' \in [Code \cup Nick -> Code \cup {None}]
      /\ AliasesEnd' /\ Told'
  <2>1. tracking \in [Code -> Info \cup {None}]
    BY DEF IInv, TypeOK
  <2>2. \A g \in Code : tracking[g] = None => g \notin Tracked
    BY DEF Tracked
  <2>3. \A g \in Code : tracking[g] # None => \A s \in DOMAIN tracking[g].heard :
          tracking[g].heard[s] \in {Text(tracking[g].data), None}
    BY DEF IInv, Told, Tracked
  <2> QED BY <1>1, <2>1, <2>2, <2>3, CleanIInv
<1>3. cmd' \in [Conn -> Cmds]
  BY <1>1 DEF IInv, TypeOK, Cmds
<1> QED BY <1>1, <1>2, <1>3 DEF IInv, TypeOK

LEMMA HearFromIs ==
    ASSUME NEW c \in Conn, NEW d \in Data, NEW h \in Hears
    PROVE  /\ HearFrom(h, c, d) \in Hears
           /\ \A s \in DOMAIN HearFrom(h, c, d) : HearFrom(h, c, d)[s] \in {Text(d), None}
<1>1. DOMAIN h \cup {c} \in SUBSET Conn
  BY HearsIs
<1>2. HearFrom(h, c, d) \in [DOMAIN h \cup {c} -> Texts \cup {None}]
  BY TextIs DEF HearFrom
<1> QED BY <1>1, <1>2, HearsIs DEF HearFrom

LEMMA StalkIInv == ASSUME IInv, NEW c \in Conn, Stalk(c) PROVE IInv'
<1> DEFINE f == Key(cmd[c].text)
           d == cmd[c].data
           h == HearFrom(Heard(f), c, d)
           i == [data |-> d, heard |-> h]
<1>1. /\ tracking' = [tracking EXCEPT ![f] = i]
      /\ cmd' = [cmd EXCEPT ![c] = [pc |-> "alias", text |-> cmd[c].text, data |-> None,
                                    left |-> Codes[PlaneOf(cmd[c].text)]]]
      /\ UNCHANGED <<conns, up, sky, aliases, given, poll, scene>>
      /\ cmd[c].pc = "stalk"
  BY DEF Stalk
<1>2. cmd[c].text \in Code /\ d \in Data
  BY <1>1, CmdIs DEF IInv
<1>3. f \in Code
  BY <1>2, ResolveIs
<1>4. Heard(f) \in Hears
  <2>1. CASE f \in Tracked
    BY <2>1, TrackedIs DEF Heard, IInv
  <2>2. CASE f \notin Tracked
    <3>1. [s \in {} |-> None] \in [{} -> Texts \cup {None}]
      OBVIOUS
    <3> QED BY <2>2, <3>1, HearsIs DEF Heard
  <2> QED BY <2>1, <2>2
<1>5. h \in Hears /\ \A s \in DOMAIN h : h[s] \in {Text(d), None}
  BY <1>2, <1>4, HearFromIs
<1>6. i \in Info /\ i # None
  BY <1>2, <1>5, NewInfo
<1> HIDE DEF i, h
<1>7. /\ tracking' \in [Code -> Info \cup {None}]
      /\ tracking'[f] = i /\ \A g \in Code \ {f} : tracking'[g] = tracking[g]
  BY <1>1, <1>3, <1>6 DEF IInv, TypeOK
<1>8. Tracked' = Tracked \cup {f}
  BY <1>3, <1>6, <1>7 DEF Tracked
<1>9. AliasesEnd'
  BY <1>1, <1>8 DEF IInv, AliasesEnd
<1>10. i.data = d /\ i.heard = h
  BY DEF i
<1>11. Told'
  BY <1>5, <1>7, <1>8, <1>10 DEF IInv, Told, Tracked
<1>12. cmd' \in [Conn -> Cmds]
  BY <1>1, <1>2, PlaneIs DEF IInv, TypeOK, Cmds
<1> QED BY <1>1, <1>7, <1>9, <1>11, <1>12 DEF IInv, TypeOK

LEMMA AliasCodeIInv == ASSUME IInv, NEW c \in Conn, AliasCode(c) PROVE IInv'
<1> DEFINE a == Head(cmd[c].left)
           t == cmd[c].text
<1>1. /\ cmd[c].pc = "alias"
      /\ aliases' = [aliases EXCEPT ![a] = IF CanAlias(t, a) THEN t ELSE @]
      /\ cmd' = [cmd EXCEPT ![c] = IF Len(cmd[c].left) = 1 THEN NoCmd
                                   ELSE [cmd[c] EXCEPT !.left = Tail(cmd[c].left)]]
      /\ UNCHANGED <<conns, up, sky, tracking, given, poll, scene>>
  BY DEF AliasCode
<1>2. t \in Code /\ cmd[c].left \in Seq(Code) /\ cmd[c].left # <<>>
  BY <1>1, CmdIs DEF IInv
<1>3. a \in Code
  BY <1>2
<1>4. aliases' \in [Code \cup Nick -> Code \cup {None}]
  BY <1>1, <1>2 DEF IInv, TypeOK
<1>5. AliasesEnd'
  BY <1>1, <1>2, <1>4 DEF IInv, AliasesEnd, CanAlias, Tracked, TypeOK
<1>6. Told'
  BY <1>1 DEF IInv, Told, Tracked
<1>7. cmd[c] \in [pc : {"alias"}, text : Code, data : {None}, left : Seq(Code) \ {<<>>}]
  BY <1>1 DEF IInv, TypeOK, Cmds, NoCmd
<1>8. Len(cmd[c].left) # 1 => [cmd[c] EXCEPT !.left = Tail(cmd[c].left)] \in Cmds
  <2> SUFFICES ASSUME Len(cmd[c].left) # 1
               PROVE  Tail(cmd[c].left) \in Seq(Code) \ {<<>>}
    BY <1>7 DEF Cmds
  <2>1. Len(cmd[c].left) \in Nat /\ Len(cmd[c].left) # 0
    BY <1>2
  <2>2. Tail(cmd[c].left) \in Seq(Code) /\ Len(Tail(cmd[c].left)) = Len(cmd[c].left) - 1
    BY <1>2
  <2>3. Len(Tail(cmd[c].left)) # 0
    BY <2>1, <2>2
  <2>4. Tail(cmd[c].left) # <<>>
    <3>1. Len(<<>>) = 0
      OBVIOUS
    <3> QED BY <2>3, <3>1
  <2> QED BY <2>2, <2>4
<1> DEFINE x == IF Len(cmd[c].left) = 1 THEN NoCmd ELSE [cmd[c] EXCEPT !.left = Tail(cmd[c].left)]
<1>9. x \in Cmds
  BY <1>8 DEF Cmds
<1>10. cmd' \in [Conn -> Cmds]
  <2>1. cmd' = [cmd EXCEPT ![c] = x]
    BY <1>1
  <2> HIDE DEF x
  <2> QED BY <1>9, <2>1 DEF IInv, TypeOK
<1> QED BY <1>1, <1>4, <1>5, <1>6, <1>10 DEF IInv, TypeOK

LEMMA AliasIInv == ASSUME IInv, NEW c \in Conn, Alias(c) PROVE IInv'
<1>1. PICK f \in Code, a \in Code \cup Nick :
        /\ Gives(c) /\ CanAlias(f, a)
        /\ aliases' = [aliases EXCEPT ![a] = f]
        /\ UNCHANGED <<conns, up, sky, tracking, cmd, poll, scene>>
  BY DEF Alias
<1>2. TypeOK'
  BY <1>1, GivesIs DEF IInv, TypeOK
<1>3. AliasesEnd' /\ Told'
  BY <1>1 DEF IInv, AliasesEnd, Told, Tracked, CanAlias, TypeOK
<1> QED BY <1>2, <1>3 DEF IInv

LEMMA UnstalkIInv == ASSUME IInv, NEW c \in Conn, Unstalk(c) PROVE IInv'
<1>1. PICK a \in Code \cup Nick :
        LET f == Resolve(a)
            left == [s \in DOMAIN tracking[f].heard \ {c} |-> tracking[f].heard[s]] IN
        /\ Gives(c)
        /\ f # None
        /\ Clean(IF DOMAIN left = {} THEN {f} ELSE {}, [tracking EXCEPT ![f].heard = left])
        /\ UNCHANGED <<conns, up, sky, cmd, poll, scene>>
  BY DEF Unstalk
<1> DEFINE f == Resolve(a)
           left == [s \in DOMAIN tracking[f].heard \ {c} |-> tracking[f].heard[s]]
           now == [tracking EXCEPT ![f].heard = left]
<1>2. f \in Tracked /\ f \in Code /\ tracking[f].heard \in Hears /\ tracking[f].data \in Data
  BY <1>1, ResolveIs, TrackedIs DEF IInv
<1>3. left \in Hears
  <2>1. DOMAIN tracking[f].heard \ {c} \in SUBSET Conn
    BY <1>2, HearsIs
  <2>2. left \in [DOMAIN tracking[f].heard \ {c} -> Texts \cup {None}]
    BY <1>2, HearsIs
  <2> QED BY <2>1, <2>2, HearsIs
<1>4. \A s \in DOMAIN left : left[s] \in {Text(tracking[f].data), None}
  BY <1>2 DEF IInv, Told
<1> HIDE DEF left
<1>5. now \in [Code -> Info \cup {None}]
      /\ now[f] = [data |-> tracking[f].data, heard |-> left]
      /\ \A g \in Code \ {f} : now[g] = tracking[g]
  <2>1. tracking[f] \in [data : Data, heard : Hears]
    BY <1>2, TrackedIs DEF IInv, Info
  <2>2. [tracking[f] EXCEPT !.heard = left] = [data |-> tracking[f].data, heard |-> left]
    BY <2>1
  <2>3. [data |-> tracking[f].data, heard |-> left] \in Info
    BY <1>2, <1>3, NewInfo
  <2> QED BY <1>2, <2>2, <2>3 DEF IInv, TypeOK
<1>6. now[f] # None
  BY <1>2, <1>3, <1>5, NewInfo
<1>7. now[f].heard = left /\ now[f].data = tracking[f].data
  BY <1>5
<1> HIDE DEF now
<1>8. \A g \in Code : now[g] = None => g \notin Tracked
  BY <1>5, <1>6 DEF Tracked
<1>9. \A g \in Code : now[g] # None => \A s \in DOMAIN now[g].heard :
        now[g].heard[s] \in {Text(now[g].data), None}
  <2> SUFFICES ASSUME NEW g \in Code, now[g] # None
               PROVE  \A s \in DOMAIN now[g].heard : now[g].heard[s] \in {Text(now[g].data), None}
    OBVIOUS
  <2>1. CASE g = f
    BY <1>4, <1>7, <2>1
  <2>2. CASE g # f
    BY <1>5, <2>2 DEF IInv, Told, Tracked
  <2> QED BY <2>1, <2>2
<1>10. Clean(IF DOMAIN left = {} THEN {f} ELSE {}, now)
  BY <1>1 DEF now, left
<1>11. /\ tracking' \in [Code -> Info \cup {None}]
       /\ aliases' \in [Code \cup Nick -> Code \cup {None}]
       /\ AliasesEnd' /\ Told'
  BY <1>5, <1>8, <1>9, <1>10, CleanIInv
<1>12. given' \in 0 .. MaxCmds /\ UNCHANGED <<conns, up, sky, cmd, poll, scene>>
  BY <1>1, GivesIs DEF IInv
<1> QED BY <1>11, <1>12 DEF IInv, TypeOK

-----------------------------------------------------------------------------
(* Polls. *)

\* Steps of polls that change nothing but themselves.
LEMMA PollIInv ==
    ASSUME IInv, poll' \in [Poller -> Polls], poll'["live"] = Ended <=> conns' = {},
           conns' \subseteq Conn, UNCHANGED <<sky, tracking, aliases, cmd, given, scene>>
    PROVE  IInv'
BY DEF IInv, TypeOK, AliasesEnd, Told, Tracked

LEMMA AskingIs ==
    ASSUME NEW pc \in {"ended", "idle", "list", "query", "apply"}, NEW C \in SUBSET Conn,
           NEW F \in SUBSET Code, NEW got \in Answers
    PROVE  Asking(pc, C, F, got) \in Polls /\ (Asking(pc, C, F, got) = Ended => pc = "ended")
BY DEF Asking, Polls, Ended

LEMMA IdleIs == Idle \in Polls /\ Ended \in Polls /\ Idle # Ended
BY AskingIs, NoAnswerIs DEF Idle, Ended, Asking

LEMMA ConnectedIInv == ASSUME IInv, NEW c \in Conn, Connected(c) \/ Disconnected(c) PROVE IInv'
<1>1. CASE Connected(c)
  <2>1. /\ poll' = IF conns = {} THEN [poll EXCEPT !["live"] = Idle] ELSE poll
        /\ conns' = conns \cup {c}
        /\ UNCHANGED <<sky, tracking, aliases, cmd, given, scene>>
    BY <1>1 DEF Connected
  <2>2. poll' \in [Poller -> Polls] /\ poll'["live"] # Ended
    BY <2>1, IdleIs DEF IInv, TypeOK, Poller
  <2>3. conns' # {} /\ conns' \subseteq Conn
    BY <2>1 DEF IInv, TypeOK
  <2> QED BY <2>1, <2>2, <2>3, PollIInv
<1>2. CASE Disconnected(c)
  <2>1. /\ c \in conns /\ conns' = conns \ {c} /\ conns' \subseteq Conn
        /\ UNCHANGED <<sky, tracking, aliases, cmd, given, scene>>
    BY <1>2 DEF Disconnected, IInv, TypeOK
  <2>2. CASE conns # {c}
    <3>1. poll' = poll /\ conns' # {} /\ conns # {}
      BY <1>2, <2>1, <2>2 DEF Disconnected
    <3> QED BY <2>1, <3>1, PollIInv DEF IInv, TypeOK
  <2>3. CASE conns = {c}
    <3>1. poll' \in [Poller -> Polls] /\ poll'["live"] = Ended
      <4>1. CASE scene.overlap
        <5>1. poll' = [old |-> poll["live"], live |-> Ended]
          BY <1>2, <2>3, <4>1 DEF Disconnected
        <5>2. poll["live"] \in Polls
          BY DEF IInv, TypeOK, Poller
        <5>3. DOMAIN poll' = Poller
          BY <5>1 DEF Poller
        <5> QED BY <5>1, <5>2, <5>3, IdleIs DEF Poller
      <4>2. CASE ~scene.overlap
        BY <1>2, <2>3, <4>2, IdleIs DEF Disconnected, IInv, TypeOK, Poller
      <4> QED BY <4>1, <4>2
    <3>2. conns' = {}
      BY <2>1, <2>3
    <3> QED BY <2>1, <3>1, <3>2, PollIInv
  <2> QED BY <2>2, <2>3
<1> QED BY <1>1, <1>2

LEMMA AskIInv ==
    ASSUME IInv, NEW r \in Poller, Quit(r) \/ Start(r) \/ List(r) \/ QueryAll(r) \/ Panic(r)
    PROVE  IInv'
<1>1. UNCHANGED <<conns, sky, tracking, aliases, cmd, given, scene>>
  BY DEF Quit, Start, List, QueryAll, Answered, Panic
<1>2. poll \in [Poller -> Polls] /\ poll[r] \in Polls
  BY DEF IInv, TypeOK
<1>3. ASSUME NEW x \in Polls, poll' = [poll EXCEPT ![r] = x], poll[r] # Ended, x # Ended
      PROVE  IInv'
  <2>1. poll' \in [Poller -> Polls] /\ (poll'["live"] = Ended <=> poll["live"] = Ended)
    BY <1>2, <1>3 DEF Poller
  <2> QED BY <1>1, <2>1, PollIInv DEF IInv, TypeOK
<1>4. CASE Quit(r)
  <2>1. poll' \in [Poller -> Polls] /\ poll'["live"] = poll["live"]
    BY <1>2, <1>4, IdleIs DEF Quit, Poller
  <2> QED BY <1>1, <2>1, PollIInv DEF IInv, TypeOK
<1>5. CASE Start(r)
  <2>1. Asking("list", conns, {}, NoAnswer) \in Polls /\ Asking("list", conns, {}, NoAnswer) # Ended
    BY AskingIs, NoAnswerIs DEF IInv, TypeOK
  <2> QED BY <1>3, <1>5, <2>1, IdleIs DEF Start
<1>6. CASE List(r)
  <2> DEFINE x == Asking("query", poll[r].ctxs, Tracked, NoAnswer)
  <2>1. Tracked \in SUBSET Code /\ poll[r].ctxs \in SUBSET Conn
    BY <1>2 DEF Tracked, Polls
  <2>2. x \in Polls /\ x # Ended
    BY <2>1, AskingIs, NoAnswerIs
  <2>3. poll[r] # Ended
    BY <1>6 DEF List, Ended, Asking
  <2>4. poll' = [poll EXCEPT ![r] = IF poll[r].ctxs = {} \/ Tracked = {} THEN Idle ELSE x]
    BY <1>6 DEF List
  <2> HIDE DEF x
  <2> QED BY <1>3, <2>2, <2>3, <2>4, IdleIs
<1>7. CASE QueryAll(r)
  <2>1. PICK F \in SUBSET poll[r].all : Answered(r, F)
    BY <1>7 DEF QueryAll
  <2> DEFINE got == [f \in F |-> sky[PlaneOf(f)]]
             x == Asking("apply", poll[r].ctxs, poll[r].all, got)
  <2>2. poll[r].all \in SUBSET Code /\ poll[r].ctxs \in SUBSET Conn
    BY <1>2 DEF Polls
  <2>3. \A f \in F : sky[PlaneOf(f)] \in Data
    BY <2>2, PlaneIs DEF IInv, TypeOK
  <2>4. got \in [F -> Data] /\ F \in SUBSET Code
    BY <2>2, <2>3
  <2>5. got \in Answers
    BY <2>4, AnswersIs
  <2> HIDE DEF got
  <2>6. x \in Polls /\ x # Ended
    BY <2>2, <2>5, AskingIs
  <2>7. poll[r] # Ended
    BY <2>1 DEF Answered, Ended, Asking
  <2>8. poll' = [poll EXCEPT ![r] = IF F = {} THEN Idle ELSE x]
    BY <2>1 DEF Answered, got
  <2> HIDE DEF x
  <2> QED BY <1>3, <2>6, <2>7, <2>8, IdleIs
<1>8. CASE Panic(r)
  BY <1>1, <1>2, <1>8, PollIInv DEF Panic, IInv, TypeOK
<1> QED BY <1>4, <1>5, <1>6, <1>7, <1>8

LEMMA SendIs ==
    ASSUME NEW r, NEW d \in Data, NEW h \in Hears
    PROVE  /\ Send(h, r, d) \in Hears
           /\ \A s \in DOMAIN Send(h, r, d) : Send(h, r, d)[s] \in {Text(d), None}
<1>1. DOMAIN h \cap poll[r].ctxs \in SUBSET Conn
  BY HearsIs
<1>2. Send(h, r, d) \in [DOMAIN h \cap poll[r].ctxs -> Texts \cup {None}]
  BY TextIs DEF Send
<1> QED BY <1>1, <1>2, HearsIs DEF Send

LEMMA ApplyIInv == ASSUME IInv, NEW r \in Poller, Apply(r) PROVE IInv'
<1> DEFINE got == poll[r].got
           F == Current(r)
           hear(f) == IF Updated(got[f], tracking[f].data) THEN Send(tracking[f].heard, r, got[f])
                      ELSE tracking[f].heard
           now == [f \in Code |-> IF f \notin F THEN tracking[f]
                                  ELSE [data |-> got[f], heard |-> hear(f)]]
<1>1. /\ F \subseteq DOMAIN got
      /\ Clean({f \in F : Landed(got[f], tracking[f].data)}, now)
      /\ poll' = [poll EXCEPT ![r] = Idle] /\ poll[r].pc = "apply"
      /\ UNCHANGED <<conns, up, sky, cmd, given, scene>>
  BY DEF Apply
<1>2. ASSUME NEW f \in F
      PROVE  /\ f \in Tracked /\ got[f] \in Data /\ hear(f) \in Hears
             /\ \A s \in DOMAIN hear(f) : hear(f)[s] \in {Text(got[f]), None}
  <2>1. f \in Tracked /\ tracking[f].heard \in Hears
    BY TrackedIs DEF Current, IInv
  <2>2. got \in Answers
    BY DEF IInv, TypeOK, Polls
  <2>3. got[f] \in Data
    BY <1>1, <2>2, AnswersIs
  <2>4. CASE Updated(got[f], tracking[f].data)
    BY <2>1, <2>3, <2>4, SendIs
  <2>5. CASE ~Updated(got[f], tracking[f].data)
    BY <2>1, <2>3, <2>5 DEF Updated, IInv, Told
  <2> QED BY <2>4, <2>5, <2>1, <2>3
<1> HIDE DEF hear
<1>3. now \in [Code -> Info \cup {None}]
  BY <1>2, NewInfo DEF IInv, TypeOK
<1>4. \A f \in Code : now[f] = None => f \notin Tracked
  BY <1>2, NewInfo DEF Tracked
<1>5. \A f \in Code : now[f] # None =>
        \A s \in DOMAIN now[f].heard : now[f].heard[s] \in {Text(now[f].data), None}
  <2> SUFFICES ASSUME NEW f \in Code, now[f] # None
               PROVE  \A s \in DOMAIN now[f].heard : now[f].heard[s] \in {Text(now[f].data), None}
    OBVIOUS
  <2>1. CASE f \in F
    <3>1. now[f].heard = hear(f) /\ now[f].data = got[f]
      BY <2>1
    <3> QED BY <1>2, <2>1, <3>1
  <2>2. CASE f \notin F
    <3>1. now[f] = tracking[f]
      BY <2>2
    <3> QED BY <3>1 DEF IInv, Told, Tracked
  <2> QED BY <2>1, <2>2
<1> HIDE DEF now
<1>6. /\ tracking' \in [Code -> Info \cup {None}]
      /\ aliases' \in [Code \cup Nick -> Code \cup {None}]
      /\ AliasesEnd' /\ Told'
  BY <1>1, <1>3, <1>4, <1>5, CleanIInv
<1>7. poll' \in [Poller -> Polls] /\ (poll'["live"] = Ended <=> poll["live"] = Ended)
  <2>1. poll[r] # Ended
    BY <1>1 DEF Ended, Asking
  <2> QED BY <1>1, <2>1, IdleIs DEF IInv, TypeOK, Poller
<1> QED BY <1>1, <1>6, <1>7 DEF IInv, TypeOK

LEMMA StepIInv == IInv /\ [Next]_vars => IInv'
<1> SUFFICES ASSUME IInv, [Next]_vars PROVE IInv'
  OBVIOUS
<1>1. CASE UNCHANGED vars
  BY <1>1 DEF vars, IInv, TypeOK, AliasesEnd, Told, Tracked
<1>2. ASSUME NEW c \in Conn, Commands(c) PROVE IInv'
  BY <1>2, QueryOneIInv, DeclineIInv, StalkIInv, AliasCodeIInv, AliasIInv, UnstalkIInv DEF Commands
<1>3. ASSUME NEW r \in Poller, Quit(r) \/ Step(r) PROVE IInv'
  BY <1>3, AskIInv, ApplyIInv DEF Step
<1> QED BY <1>1, <1>2, <1>3, FlyIInv, ConnectedIInv DEF Next

\* Every variable keeps its type: what a command or a poll has read is there when it is used,
\* and one goroutine polls that was not told to quit if and only if somebody is connected.
THEOREM TypeCorrect == Spec => []TypeOK
<1>1. IInv => TypeOK
  BY DEF IInv
<1> QED BY InitIInv, StepIInv, <1>1, PTL DEF Spec

\* getLocked follows an alias to a tracked flight and no further, whatever polls, commands and
\* cleanups of other goroutines come in between (flights.go:92-110, 153-161).
THEOREM AliasesLead == Spec => []AliasesEnd
<1>1. IInv => AliasesEnd
  BY DEF IInv
<1> QED BY InitIInv, StepIInv, <1>1, PTL DEF Spec

\* Whoever stalks a flight was told the last of what the bot knows of it, but for what was
\* said to another or to a server that was lost.
THEOREM SubscribersTold == Spec => []Told
<1>1. IInv => Told
  BY DEF IInv
<1> QED BY InitIInv, StepIInv, <1>1, PTL DEF Spec
=============================================================================
