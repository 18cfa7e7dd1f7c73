------------------------------ MODULE Factoids ------------------------------
(***************************************************************************)
(* Factoids (drivers/factdriver, collections/factoids): values taught under *)
(* keys, one of which is shown when a line is its key. A key may have many *)
(* values: the choice among them is random, but a cache of the ids already *)
(* chosen (seen) keeps it from repeating itself. A value may point to other *)
(* keys, which are looked up in turn when it is shown. The last factoid    *)
(* shown or taught in a channel is the "that" of the commands which change *)
(* or delete it.                                                           *)
(*                                                                         *)
(* A line is handled by two goroutines at once, here act (an addition or a *)
(* command; commandset.go:128 keeps the two apart) and look (the lookup,   *)
(* which every line is subjected to, commands included). The next line of  *)
(* the connection waits for both. A transaction is one step, and so is     *)
(* what a handler does in memory between two of them.                      *)
(*                                                                         *)
(* A value is the sequence of the keys it points to; text, type and the    *)
(* counts of accesses are left out. The chance is certain or less.         *)
(***************************************************************************)
EXTENDS Naturals, Sequences, FiniteSets

CONSTANTS
    Conn,      \* server connections
    Chan,      \* where lines are said: channels, and nicks in private
    Key,       \* what a factoid may be filed under
    Text,      \* lines as keys (ToKey): members of Key, and others
    Any,       \* the empty key, which looks up all factoids
    Woot,      \* "randomwoot", whose values confirm an addition
    Talk,      \* bound: what may be said: lines, and how many additions
    MaxId,     \* bound: the most additions
    MaxKeys,   \* pointers that one lookup resolves (20)
    None

Id == 1 .. MaxId
Value == Seq(Key)
Fact == [key : Key, val : Value, sure : BOOLEAN]

\* What may be said: short is the text of an action that ends in the bot's nick,
\* without it. An edit is a replacement that depends on the value.
Add == [is : {"add"}, text : Text, short : {None}, key : Key, val : Value]
Command == [is : {"forget"}, text : Text, short : {None}]
    \cup [is : {"chance"}, text : Text, short : {None}, sure : BOOLEAN]
    \cup [is : {"replace"}, text : Text, short : {None}, val : Value]
Line == [is : {"say"}, text : Text, short : Text \cup {None}] \cup Add \cup Command

ASSUME FactoidsAssumption ==
    /\ Woot \in Key /\ Key \subseteq Text /\ Any \notin Key /\ Any \in Text
    /\ None \notin Text /\ None \notin Nat
    /\ MaxId \in Nat /\ MaxKeys \in Nat
    /\ \A t \in Talk : t.adds \in 0 .. MaxId /\ t.lines \subseteq Line


VARIABLES
    store,     \* the collection: the factoid stored under each id
    next,      \* the next id that NewObjectId returns
    seen,      \* the ids that GetPseudoRand has returned for a key
    lastSeen,  \* the id of the last factoid of each channel, or None
    act,       \* the addition or the command of each connection's line
    look,      \* the lookup of each connection's line
    said,      \* history: the last factoid each channel was told of
    streak,    \* history: how often i was chosen under a key since j was
    talk,      \* what is said in this behaviour
    lost       \* history: keys of which a factoid was forgotten in this round

vars == <<store, next, seen, lastSeen, act, look, said, streak, talk, lost>>

\* The two goroutines of a line: what got is depends on pc, the factoids of a key
\* or one factoid.
Act(pc, line, ch, id, got) ==
    [pc |-> pc, line |-> line, ch |-> ch, id |-> id, got |-> got]
Look(pc, ch, keys, short, id, got, rest) ==
    [pc |-> pc, ch |-> ch, keys |-> keys, short |-> short, id |-> id, got |-> got,
     rest |-> rest]

Nobody == Act("idle", None, None, None, None)
Nothing == Look("idle", None, {}, None, None, None, <<>>)

Init ==
    /\ store = [i \in {} |-> None]
    /\ next = 1
    /\ seen = [k \in Text |-> {}]
    /\ lastSeen = [ch \in Chan |-> None]
    /\ act = [c \in Conn |-> Nobody]
    /\ look = [c \in Conn |-> Nothing]
    /\ said = [ch \in Chan |-> None]
    /\ streak = [k \in Text |-> [p \in Id \X Id |-> 0]]
    /\ talk \in Talk
    /\ lost = {}

-----------------------------------------------------------------------------
(* The collection. *)

\* GetAll: a lookup under the key, or of everything.
Under(k) == {i \in DOMAIN store : k \in {store[i].key, Any}}
GetAll(k) == [i \in Under(k) |-> store[i]]
Put(i, f) == [j \in DOMAIN store \cup {i} |-> IF j = i THEN f ELSE store[j]]
Del(i) == [j \in DOMAIN store \ {i} |-> store[j]]

\* The choice of i among facts: those passed over since it was last their turn.
Passed(k, facts, i) == [p \in Id \X Id |->
    IF p[1] = i /\ p[2] \in DOMAIN facts \ {i}
    THEN (IF streak[k][p] = 3 THEN 3 ELSE streak[k][p] + 1)
    ELSE IF p[1] = i \/ p[2] = i THEN 0 ELSE streak[k][p]]

\* Mutants: the last of a round is noted like the others; none is ever noted.
ChooseLastToo(k, facts, i) ==
    LET new == DOMAIN facts \ seen[k] IN
    IF new = {}
    THEN i = None /\ seen' = [seen EXCEPT ![k] = {}] /\ lost' = lost \ {k}
                  /\ UNCHANGED streak
    ELSE i \in new /\ seen' = [seen EXCEPT ![k] = @ \cup {i}]
                   /\ streak' = [streak EXCEPT ![k] = Passed(k, facts, i)]
                   /\ UNCHANGED lost

ChooseAnew(k, facts, i) ==
    IF facts = [j \in {} |-> None]
    THEN i = None /\ UNCHANGED <<seen, streak, lost>>
    ELSE i \in DOMAIN facts /\ streak' = [streak EXCEPT ![k] = Passed(k, facts, i)]
                            /\ UNCHANGED <<seen, lost>>

\* GetPseudoRand after its GetAll. The one factoid left of a round ends it; so does
\* finding none, whether or not there are any.
Choose(k, facts, i) ==
    LET new == DOMAIN facts \ seen[k]
        ends == Cardinality(new) <= 1 IN
    /\ IF new = {} THEN i = None ELSE i \in new
    /\ seen' = [seen EXCEPT ![k] = IF ends THEN {} ELSE @ \cup {i}]
    /\ lost' = IF ends THEN lost \ {k} ELSE lost
    /\ streak' = IF new = {} THEN streak
                 ELSE [streak EXCEPT ![k] = Passed(k, facts, i)]

-----------------------------------------------------------------------------
(* A line. *)

Lookup(ch, l) == Look("all", ch, {l.text}, l.short, None, None, <<>>)

\* The handlers of a line start together. An addition has its id from here on,
\* which nothing can tell: ids are only unique.
Hear(c) ==
    \E l \in talk.lines, ch \in Chan :
        /\ act[c] = Nobody /\ look[c] = Nothing
        /\ l.is = "add" => next <= talk.adds
        /\ look' = [look EXCEPT ![c] = Lookup(ch, l)]
        /\ act' = CASE l.is = "say" -> act
                    [] l.is = "add" -> [act EXCEPT ![c] = Act("joy", l, ch, next, None)]
                    [] OTHER -> [act EXCEPT ![c] = Act("that", l, ch, None, None)]
        /\ next' = IF l.is = "add" THEN next + 1 ELSE next
        /\ UNCHANGED <<store, seen, lastSeen, said, streak, lost, talk>>

(* An addition: insert. *)
Joy(c) ==
    LET a == act[c] IN
    /\ a.pc = "joy"
    /\ act' = [act EXCEPT ![c] = Act("woo", a.line, a.ch, a.id, GetAll(Woot))]
    /\ UNCHANGED <<store, next, seen, lastSeen, look, said, streak, lost, talk>>

Woo(c) ==
    LET a == act[c] IN
    /\ a.pc = "woo"
    /\ \E i \in Id \cup {None} : Choose(Woot, a.got, i)
    /\ act' = [act EXCEPT ![c] = Act("put", a.line, a.ch, a.id, None)]
    /\ UNCHANGED <<store, next, lastSeen, look, said, talk>>

Insert(c) ==
    LET a == act[c] IN
    /\ a.pc = "put"
    /\ store' = Put(a.id, [key |-> a.line.key, val |-> a.line.val, sure |-> TRUE])
    /\ act' = [act EXCEPT ![c] = Act("taught", a.line, a.ch, a.id, None)]
    /\ UNCHANGED <<next, seen, lastSeen, look, said, streak, lost, talk>>

\* After a count of the key's factoids, which only the reply needs.
Taught(c) ==
    /\ act[c].pc = "taught"
    /\ lastSeen' = [lastSeen EXCEPT ![act[c].ch] = act[c].id]
    /\ said' = [said EXCEPT ![act[c].ch] = act[c].id]
    /\ act' = [act EXCEPT ![c] = Nobody]
    /\ UNCHANGED <<store, next, seen, look, streak, lost, talk>>

(* A command about that: chance, edit, replace, forget. *)
That(c) ==
    LET a == act[c] IN
    /\ a.pc = "that"
    /\ lastSeen' = [lastSeen EXCEPT ![a.ch] = None]
    /\ act' = [act EXCEPT ![c] = Act("get", a.line, a.ch, lastSeen[a.ch], None)]
    /\ UNCHANGED <<store, next, seen, look, said, streak, lost, talk>>

\* GetById; "I've already forgotten it" when there is none.
Get(c) ==
    LET a == act[c] IN
    /\ a.pc = "get"
    /\ act' = [act EXCEPT ![c] =
          IF a.id \in DOMAIN store THEN Act("change", a.line, a.ch, a.id, store[a.id])
          ELSE Nobody]
    /\ UNCHANGED <<store, next, seen, lastSeen, look, said, streak, lost, talk>>

\* Puts back what was got, changed.
Change(c) ==
    LET l == act[c].line
        f == act[c].got IN
    /\ act[c].pc = "change" /\ l.is # "forget"
    /\ store' = Put(act[c].id, IF l.is = "chance" THEN [f EXCEPT !.sure = l.sure]
                               ELSE [f EXCEPT !.val = l.val])
    /\ act' = [act EXCEPT ![c] = Nobody]
    /\ UNCHANGED <<next, seen, lastSeen, look, said, streak, lost, talk>>

Forget(c) ==
    /\ act[c].pc = "change" /\ act[c].line.is = "forget"
    /\ store' = Del(act[c].id)
    /\ lost' = lost \cup {act[c].got.key, Any}
    /\ act' = [act EXCEPT ![c] = Nobody]
    /\ UNCHANGED <<next, seen, lastSeen, look, said, streak, talk>>

(* The lookup of a line. *)
KeyOf(c) == CHOOSE k \in look[c].keys : TRUE

All(c) ==
    LET w == look[c] IN
    /\ w.pc = "all"
    /\ look' = [look EXCEPT ![c] =
          Look("pick", w.ch, w.keys, w.short, None, GetAll(KeyOf(c)), <<>>)]
    /\ UNCHANGED <<store, next, seen, lastSeen, act, said, streak, lost, talk>>

\* When there is nothing under an action's text the bot's own nick is cut off it.
Pick(c) ==
    LET w == look[c] IN
    /\ w.pc = "pick"
    /\ \E i \in Id \cup {None} :
        /\ Choose(KeyOf(c), w.got, i)
        /\ look' = [look EXCEPT ![c] =
              IF i # None THEN Look("toss", w.ch, w.keys, None, i, w.got[i], <<>>)
              ELSE IF w.short # None THEN Look("all", w.ch, {w.short}, None, None, None, <<>>)
              ELSE Nothing]
    /\ UNCHANGED <<store, next, lastSeen, act, said, talk>>

\* Mutant: a factoid that is not shown is remembered, too.
UnluckySeen(c) ==
    /\ look[c].pc = "toss"
    /\ ~look[c].got.sure \/ KeyOf(c) = Any
    /\ lastSeen' = [lastSeen EXCEPT ![look[c].ch] = look[c].id]
    /\ look' = [look EXCEPT ![c] = Nothing]
    /\ UNCHANGED <<store, next, seen, act, said, streak, lost, talk>>

\* The factoid's chance, or 40% when everything was looked up.
Unlucky(c) ==
    /\ look[c].pc = "toss"
    /\ ~look[c].got.sure \/ KeyOf(c) = Any
    /\ look' = [look EXCEPT ![c] = Nothing]
    /\ UNCHANGED <<store, next, seen, lastSeen, act, said, streak, lost, talk>>

Lucky(c) ==
    LET w == look[c] IN
    /\ w.pc = "toss"
    /\ lastSeen' = [lastSeen EXCEPT ![w.ch] = w.id]
    /\ look' = [look EXCEPT ![c] = Look("put", w.ch, w.keys, None, w.id, w.got, <<>>)]
    /\ UNCHANGED <<store, next, seen, act, said, streak, lost, talk>>

\* Puts back the factoid that was read by All, with its access.
Access(c) ==
    LET w == look[c] IN
    /\ w.pc = "put"
    /\ store' = Put(w.id, w.got)
    /\ look' = [look EXCEPT ![c] =
          Look("resolve", w.ch, w.keys, None, w.id, None, w.got.val)]
    /\ UNCHANGED <<next, seen, lastSeen, act, said, streak, lost, talk>>

\* Mutant: keys that were followed are not noted.
ResolveAgain(c) ==
    LET w == look[c] IN
    /\ w.pc = "resolve" /\ w.rest # <<>>
    /\ look' = [look EXCEPT ![c] =
          IF Head(w.rest) \in w.keys \/ Cardinality(w.keys) > MaxKeys
          THEN Look("resolve", w.ch, w.keys, None, w.id, None, <<>>)
          ELSE Look("follow", w.ch, w.keys, None, w.id, GetAll(Head(w.rest)), w.rest)]
    /\ UNCHANGED <<store, next, seen, lastSeen, act, said, streak, lost, talk>>

\* recurse: the first pointer of what is left of the value. One that was followed
\* before, or one too many, ends it.
Resolve(c) ==
    LET w == look[c] IN
    /\ w.pc = "resolve" /\ w.rest # <<>>
    /\ look' = [look EXCEPT ![c] =
          IF Head(w.rest) \in w.keys \/ Cardinality(w.keys) > MaxKeys
          THEN Look("resolve", w.ch, w.keys, None, w.id, None, <<>>)
          ELSE Look("follow", w.ch, w.keys \cup {Head(w.rest)}, None, w.id,
                    GetAll(Head(w.rest)), w.rest)]
    /\ UNCHANGED <<store, next, seen, lastSeen, act, said, streak, lost, talk>>

\* The value found takes the pointer's place; a pointer to nothing is left.
Follow(c) ==
    LET w == look[c] IN
    /\ w.pc = "follow"
    /\ \E i \in Id \cup {None} :
        /\ Choose(Head(w.rest), w.got, i)
        /\ look' = [look EXCEPT ![c] =
              Look("resolve", w.ch, w.keys, None, w.id, None,
                   (IF i = None THEN <<>> ELSE w.got[i].val) \o Tail(w.rest))]
    /\ UNCHANGED <<store, next, lastSeen, act, said, talk>>

Reply(c) ==
    /\ look[c].pc = "resolve" /\ look[c].rest = <<>>
    /\ said' = [said EXCEPT ![look[c].ch] = look[c].id]
    /\ look' = [look EXCEPT ![c] = Nothing]
    /\ UNCHANGED <<store, next, seen, lastSeen, act, streak, lost, talk>>

-----------------------------------------------------------------------------

Acting(c) ==
    \/ Joy(c) \/ Woo(c) \/ Insert(c) \/ Taught(c)
    \/ That(c) \/ Get(c) \/ Change(c) \/ Forget(c)
Looking(c) ==
    \/ All(c) \/ Pick(c) \/ Unlucky(c) \/ Lucky(c) \/ Access(c)
    \/ Resolve(c) \/ Follow(c) \/ Reply(c)

Next == \E c \in Conn : Hear(c) \/ Acting(c) \/ Looking(c)

\* A goroutine that can run does; nobody has to say anything.
Fairness == \A c \in Conn : WF_vars(Acting(c)) /\ WF_vars(Looking(c))

Spec == Init /\ [][Next]_vars /\ Fairness

-----------------------------------------------------------------------------
(* Properties. *)

\* With a list of the factoids I, in a state that has one.
Acts(I) ==
    {Nobody}
    \cup [pc : {"joy", "put", "taught"}, line : Add, ch : Chan, id : Id, got : {None}]
    \cup [pc : {"woo"}, line : Add, ch : Chan, id : Id, got : [I -> Fact]]
    \cup [pc : {"that"}, line : Command, ch : Chan, id : {None}, got : {None}]
    \cup [pc : {"get"}, line : Command, ch : Chan, id : Id \cup {None}, got : {None}]
    \cup [pc : {"change"}, line : Command, ch : Chan, id : Id, got : Fact]

Keys == (SUBSET Text) \ {{}}
Short == Text \cup {None}

Looks(I) ==
    {Nothing}
    \cup [pc : {"all"}, ch : Chan, keys : Keys, short : Short, id : {None}, got : {None},
          rest : {<<>>}]
    \cup [pc : {"pick"}, ch : Chan, keys : Keys, short : Short, id : {None}, got : [I -> Fact],
          rest : {<<>>}]
    \cup [pc : {"toss", "put"}, ch : Chan, keys : Keys, short : {None}, id : Id, got : Fact,
          rest : {<<>>}]
    \cup [pc : {"resolve"}, ch : Chan, keys : Keys, short : {None}, id : Id, got : {None},
          rest : Value]
    \cup [pc : {"follow"}, ch : Chan, keys : Keys, short : {None}, id : Id, got : [I -> Fact],
          rest : Value \ {<<>>}]

TypeOK ==
    /\ \E I \in SUBSET Id : store \in [I -> Fact]
    /\ next \in 1 .. MaxId + 1
    /\ seen \in [Text -> SUBSET Id]
    /\ lastSeen \in [Chan -> Id \cup {None}]
    /\ DOMAIN act = Conn /\ DOMAIN look = Conn
    /\ \A c \in Conn : \E I \in SUBSET Id : act[c] \in Acts(I)
    /\ \A c \in Conn : \E I \in SUBSET Id : look[c] \in Looks(I)
    /\ said \in [Chan -> Id \cup {None}]
    /\ streak \in [Text -> [Id \X Id -> 0 .. 3]]
    /\ talk \in Talk
    /\ lost \subseteq Text

\* What GetPseudoRand is for: of two factoids of a key that it finds each time, one
\* is chosen at most twice before it is the other's turn (last of a round and first
\* of the next), whatever is taught and forgotten in between.
Fair == \A k \in Text : \A p \in Id \X Id : streak[k][p] <= 2

\* The cache hides all there is under a key only after something of the key was
\* forgotten in the same round: otherwise a key that has factoids is answered.
Answers == \A k \in Text : Under(k) # {} /\ Under(k) \subseteq seen[k] => k \in lost

\* "That" is the last factoid the channel was told of, or nothing after a command:
\* a command about what was said before does not reach anything else. While a line
\* is handled the lookup is ahead of its reply.
ThatIsLast == \A ch \in Chan :
    (\A c \in Conn : act[c] = Nobody /\ look[c] = Nothing)
        => lastSeen[ch] \in {said[ch], None}

\* However values point at one another, and whatever a command makes of them
\* meanwhile, each line is done with.
Settles == \A c \in Conn : look[c] # Nothing ~> look[c] = Nothing

=============================================================================
