-------------------------- MODULE Factoids_proofs --------------------------
(***************************************************************************)
(* Theorems about Factoids, for any keys, lines and bounds: its types with *)
(* any number of connections and, with one, that the choice among a key's  *)
(* factoids is fair and finds one, and what "that" means.                  *)
(***************************************************************************)
EXTENDS Factoids, FiniteSetTheorems, TLAPS

LEMMA Constants ==
    /\ Woot \in Key /\ Key \subseteq Text /\ Any \notin Key /\ Any \in Text
    /\ None \notin Text /\ None \notin Id /\ MaxId \in Nat
    /\ Id \subseteq Nat /\ MaxKeys \in Nat
    /\ \A t \in Talk : t.adds \in 0 .. MaxId /\ t.lines \subseteq Line
BY FactoidsAssumption DEF Id

\* What an addition or a command is.
LEMMA ActIs ==
    ASSUME TypeOK, NEW c \in Conn
    PROVE  /\ act[c].pc \in {"idle", "joy", "woo", "put", "taught", "that", "get", "change"}
           /\ act[c] = Nobody <=> act[c].pc = "idle"
           /\ act[c].pc # "idle" => act[c].ch \in Chan
           /\ act[c].pc \in {"joy", "woo", "put", "taught"} => act[c].line \in Add
           /\ act[c].pc \in {"that", "get", "change"} => act[c].line \in Command
           /\ act[c].pc \in {"joy", "woo", "put", "taught", "change"} => act[c].id \in Id
           /\ act[c].pc = "get" => act[c].id \in Id \cup {None}
           /\ act[c].pc = "woo" => \E I \in SUBSET Id : act[c].got \in [I -> Fact]
           /\ act[c].pc = "change" => act[c].got \in Fact
<1>1. PICK I \in SUBSET Id : act[c] \in Acts(I)
  BY DEF TypeOK
<1> QED BY <1>1 DEF Acts, Nobody, Act

\* What a lookup is.
LEMMA LookIs ==
    ASSUME TypeOK, NEW c \in Conn
    PROVE  /\ look[c].pc \in {"idle", "all", "pick", "toss", "put", "resolve", "follow"}
           /\ look[c] = Nothing <=> look[c].pc = "idle"
           /\ look[c].pc # "idle" => look[c].ch \in Chan /\ look[c].keys \in Keys
           /\ look[c].pc \in {"all", "pick"} => look[c].short \in Short
           /\ look[c].pc \in {"toss", "put", "resolve", "follow"} => look[c].id \in Id
           /\ look[c].pc \in {"pick", "follow"} => \E I \in SUBSET Id : look[c].got \in [I -> Fact]
           /\ look[c].pc \in {"toss", "put"} => look[c].got \in Fact
           /\ look[c].pc \in {"resolve", "follow"} => look[c].rest \in Value
           /\ look[c].pc = "follow" => look[c].rest # <<>>
<1>1. PICK I \in SUBSET Id : look[c] \in Looks(I)
  BY DEF TypeOK
<1>2. CASE look[c] = Nothing
  BY <1>2 DEF Nothing, Look
<1>3. CASE look[c] # Nothing
  <2>1. look[c].pc # "idle" /\ look[c].ch \in Chan /\ look[c].keys \in Keys
    BY <1>1, <1>3 DEF Looks
  <2>2. look[c].pc \in {"all", "pick"} => look[c].short \in Short
    BY <1>1, <1>3 DEF Looks
  <2>3. look[c].pc \in {"toss", "put", "resolve", "follow"} => look[c].id \in Id
    BY <1>1, <1>3 DEF Looks
  <2>4. look[c].pc \in {"pick", "follow"} => look[c].got \in [I -> Fact]
    BY <1>1, <1>3 DEF Looks
  <2>5. look[c].pc \in {"toss", "put"} => look[c].got \in Fact
    BY <1>1, <1>3 DEF Looks
  <2>6. /\ look[c].pc \in {"resolve", "follow"} => look[c].rest \in Value
        /\ look[c].pc = "follow" => look[c].rest # <<>>
    BY <1>1, <1>3 DEF Looks
  <2>7. look[c].pc \in {"all", "pick", "toss", "put", "resolve", "follow"}
    BY <1>1, <1>3 DEF Looks
  <2> QED BY <1>3, <2>1, <2>2, <2>3, <2>4, <2>5, <2>6, <2>7
<1> QED BY <1>2, <1>3

LEMMA KeyOfIs ==
    ASSUME TypeOK, NEW c \in Conn, look[c].pc # "idle"
    PROVE  KeyOf(c) \in look[c].keys /\ KeyOf(c) \in Text
<1>1. look[c].keys \in (SUBSET Text) \ {{}}
  BY LookIs DEF Keys
<1>2. look[c].keys # {}
  BY <1>1
<1>3. \E k \in look[c].keys : TRUE
  BY <1>2
<1>4. KeyOf(c) \in look[c].keys
  BY <1>3 DEF KeyOf
<1> QED BY <1>1, <1>4

LEMMA GetAllIs ==
    ASSUME TypeOK, NEW k
    PROVE  \E I \in SUBSET Id : GetAll(k) \in [I -> Fact]
<1>1. PICK I \in SUBSET Id : store \in [I -> Fact]
  BY DEF TypeOK
<1>2. Under(k) \in SUBSET Id /\ Under(k) \subseteq I
  BY <1>1 DEF Under
<1>3. GetAll(k) \in [Under(k) -> Fact]
  BY <1>1, <1>2 DEF GetAll
<1> QED BY <1>2, <1>3

LEMMA PutIs ==
    ASSUME TypeOK, NEW i \in Id, NEW f \in Fact
    PROVE  \E I \in SUBSET Id : Put(i, f) \in [I -> Fact]
<1>1. PICK I \in SUBSET Id : store \in [I -> Fact]
  BY DEF TypeOK
<1>2. Put(i, f) \in [I \cup {i} -> Fact]
  BY <1>1 DEF Put
<1> QED BY <1>2

\* A round ends with the last of a key's factoids that it has not had yet.
LEMMA Ends ==
    ASSUME NEW S \in SUBSET Id
    PROVE  Cardinality(S) <= 1 <=> \A x, y \in S : x = y
<1>0. IsFiniteSet(Id)
  <2>1. 1 \in Int /\ MaxId \in Int
    BY Constants
  <2> QED BY <2>1, FS_Interval DEF Id
<1>1. IsFiniteSet(S)
  BY <1>0, FS_Subset
<1>2. Cardinality(S) \in Nat
  BY <1>1, FS_CardinalityType
<1>3. Cardinality(S) = 0 <=> S = {}
  BY <1>1, FS_EmptySet
<1>4. Cardinality(S) = 1 <=> \E x : S = {x}
  BY <1>1, FS_Singleton
<1>5. Cardinality(S) <= 1 <=> Cardinality(S) = 0 \/ Cardinality(S) = 1
  BY <1>2
<1> QED BY <1>3, <1>4, <1>5

\* What a choice of i among the factoids F of k does, without counting.
Chooses(k, F, i) ==
    LET new == DOMAIN F \ seen[k] IN
    /\ \/ /\ \A x, y \in new : x = y
          /\ seen' = [seen EXCEPT ![k] = {}] /\ lost' = lost \ {k}
       \/ /\ \E j \in new : j # i
          /\ i \in new
          /\ seen' = [seen EXCEPT ![k] = @ \cup {i}] /\ lost' = lost
    /\ \/ i = None /\ new = {} /\ streak' = streak
       \/ i \in new /\ streak' = [streak EXCEPT ![k] = Passed(k, F, i)]

LEMMA ChooseIs ==
    ASSUME TypeOK, NEW k, NEW I \in SUBSET Id, NEW F \in [I -> Fact], NEW i, Choose(k, F, i)
    PROVE  Chooses(k, F, i)
<1> DEFINE new == DOMAIN F \ seen[k]
           ends == Cardinality(new) <= 1
<1>1. new \in SUBSET Id
  OBVIOUS
<1>2. ends <=> \A x, y \in new : x = y
  BY <1>1, Ends
<1>3. /\ IF new = {} THEN i = None ELSE i \in new
      /\ seen' = [seen EXCEPT ![k] = IF ends THEN {} ELSE @ \cup {i}]
      /\ lost' = IF ends THEN lost \ {k} ELSE lost
      /\ streak' = IF new = {} THEN streak ELSE [streak EXCEPT ![k] = Passed(k, F, i)]
  BY DEF Choose
<1> HIDE DEF new, ends
<1>4. CASE ends
  <2>1. seen' = [seen EXCEPT ![k] = {}] /\ lost' = lost \ {k}
    BY <1>3, <1>4
  <2> QED BY <1>2, <1>3, <1>4, <2>1 DEF Chooses, new
<1>5. CASE ~ends
  <2>1. seen' = [seen EXCEPT ![k] = @ \cup {i}] /\ lost' = lost
    BY <1>3, <1>5
  <2>2. PICK x \in new, y \in new : x # y
    BY <1>2, <1>5
  <2>3. i \in new /\ \E j \in new : j # i
    BY <1>3, <2>2
  <2> QED BY <1>3, <2>1, <2>3 DEF Chooses, new
<1> QED BY <1>4, <1>5

\* A choice notes what it returns, and returns what it was given.
LEMMA ChooseType ==
    ASSUME TypeOK, NEW k \in Text, NEW I \in SUBSET Id, NEW F \in [I -> Fact],
           NEW i \in Id \cup {None}, Choose(k, F, i)
    PROVE  /\ seen' \in [Text -> SUBSET Id] /\ lost' \subseteq Text
           /\ streak' \in [Text -> [Id \X Id -> 0 .. 3]]
           /\ i # None => i \in I
<1>0. Chooses(k, F, i) /\ DOMAIN F = I
  BY ChooseIs
<1>1. i # None => i \in I \ seen[k]
  BY <1>0, Constants DEF Chooses
<1>2. seen' \in [Text -> SUBSET Id] /\ lost' \subseteq Text
  BY <1>0, <1>1 DEF TypeOK, Chooses
<1>3. ASSUME i \in Id PROVE Passed(k, F, i) \in [Id \X Id -> 0 .. 3]
  <2> SUFFICES ASSUME NEW p \in Id \X Id
               PROVE  /\ streak[k][p] + 1 \in 0 .. 3 \/ streak[k][p] = 3
                      /\ streak[k][p] \in 0 .. 3
    BY DEF Passed
  <2> QED BY DEF TypeOK
<1>4. streak' \in [Text -> [Id \X Id -> 0 .. 3]]
  BY <1>0, <1>1, <1>3 DEF TypeOK, Chooses
<1> QED BY <1>1, <1>2, <1>4

-----------------------------------------------------------------------------
(* Types, with any number of connections. *)

LEMMA ActTo ==
    ASSUME TypeOK, NEW c \in Conn, NEW x, NEW I \in SUBSET Id, x \in Acts(I),
           act' = [act EXCEPT ![c] = x]
    PROVE  DOMAIN act' = Conn /\ \A d \in Conn : \E J \in SUBSET Id : act'[d] \in Acts(J)
BY DEF TypeOK

LEMMA LookTo ==
    ASSUME TypeOK, NEW c \in Conn, NEW x, NEW I \in SUBSET Id, x \in Looks(I),
           look' = [look EXCEPT ![c] = x]
    PROVE  DOMAIN look' = Conn /\ \A d \in Conn : \E J \in SUBSET Id : look'[d] \in Looks(J)
BY DEF TypeOK

LEMMA ActToNone ==
    ASSUME TypeOK, NEW c \in Conn, NEW x, x \in Acts({}), act' = [act EXCEPT ![c] = x]
    PROVE  DOMAIN act' = Conn /\ \A d \in Conn : \E J \in SUBSET Id : act'[d] \in Acts(J)
<1> {} \in SUBSET Id
  OBVIOUS
<1> QED BY ActTo

LEMMA LookToNone ==
    ASSUME TypeOK, NEW c \in Conn, NEW x, x \in Looks({}), look' = [look EXCEPT ![c] = x]
    PROVE  DOMAIN look' = Conn /\ \A d \in Conn : \E J \in SUBSET Id : look'[d] \in Looks(J)
<1> {} \in SUBSET Id
  OBVIOUS
<1> QED BY LookTo

LEMMA Idle == Nobody \in Acts({}) /\ Nothing \in Looks({})
BY DEF Acts, Looks

LEMMA InitType == Init => TypeOK
<1> SUFFICES ASSUME Init PROVE TypeOK
  OBVIOUS
<1>1. store \in [{} -> Fact] /\ {} \in SUBSET Id
  BY DEF Init
<1>2. /\ \A c \in Conn : \E I \in SUBSET Id : act[c] \in Acts(I)
      /\ \A c \in Conn : \E I \in SUBSET Id : look[c] \in Looks(I)
  BY Idle DEF Init
<1>3. streak \in [Text -> [Id \X Id -> 0 .. 3]]
  BY DEF Init
<1>4. \E I \in SUBSET Id : store \in [I -> Fact]
  BY <1>1
<1>5. next \in 1 .. MaxId + 1
  BY Constants DEF Init
<1>6. DOMAIN act = Conn /\ DOMAIN look = Conn
  BY DEF Init
<1>7. /\ seen \in [Text -> SUBSET Id]
      /\ lastSeen \in [Chan -> Id \cup {None}]
      /\ said \in [Chan -> Id \cup {None}]
      /\ talk \in Talk /\ lost \subseteq Text
  BY DEF Init
<1> QED BY <1>2, <1>3, <1>4, <1>5, <1>6, <1>7 DEF TypeOK

LEMMA HearType == ASSUME TypeOK, NEW c \in Conn, Hear(c) PROVE TypeOK'
<1>1. PICK l \in talk.lines, ch \in Chan :
         /\ l.is = "add" => next <= talk.adds
         /\ look' = [look EXCEPT ![c] = Lookup(ch, l)]
         /\ act' = CASE l.is = "say" -> act
                     [] l.is = "add" -> [act EXCEPT ![c] = Act("joy", l, ch, next, None)]
                     [] OTHER -> [act EXCEPT ![c] = Act("that", l, ch, None, None)]
         /\ next' = IF l.is = "add" THEN next + 1 ELSE next
  BY DEF Hear
<1>1a. /\ next' \in 1 .. MaxId + 1
       /\ l.is = "add" => next \in Id
  BY <1>1, Constants DEF TypeOK, Id
<1>2. l \in Line
  BY Constants DEF TypeOK
<1>3. l.text \in Text /\ l.short \in Short
  BY <1>2 DEF Line, Add, Command, Short
<1>4. /\ l.is = "add" => l \in Add
      /\ l.is \notin {"add", "say"} => l \in Command
  BY <1>2 DEF Line, Add, Command
<1>5. {l.text} \in Keys
  BY <1>3 DEF Keys
<1>6. Lookup(ch, l) \in Looks({})
  BY <1>3, <1>5 DEF Lookup, Look, Looks
<1>7. DOMAIN look' = Conn /\ \A d \in Conn : \E J \in SUBSET Id : look'[d] \in Looks(J)
  BY <1>1, <1>6, LookToNone
<1>8. DOMAIN act' = Conn /\ \A d \in Conn : \E J \in SUBSET Id : act'[d] \in Acts(J)
  <2>1. CASE l.is = "say"
    BY <1>1, <2>1 DEF TypeOK
  <2>2. CASE l.is = "add"
    <3>1. Act("joy", l, ch, next, None) \in Acts({})
      BY <1>1a, <1>4, <2>2 DEF Act, Acts
    <3> QED BY <1>1, <2>2, <3>1, ActToNone
  <2>3. CASE l.is \notin {"add", "say"}
    <3>1. Act("that", l, ch, None, None) \in Acts({})
      BY <1>4, <2>3 DEF Act, Acts
    <3> QED BY <1>1, <2>3, <3>1, ActToNone
  <2> QED BY <2>1, <2>2, <2>3
<1>9. UNCHANGED <<store, seen, lastSeen, said, streak, lost, talk>>
  BY DEF Hear
<1> QED BY <1>1a, <1>7, <1>8, <1>9 DEF TypeOK

LEMMA ActingType == ASSUME TypeOK, NEW c \in Conn, Acting(c) PROVE TypeOK'
<1> DEFINE a == act[c]
           OK == DOMAIN act' = Conn /\ \A d \in Conn : \E J \in SUBSET Id : act'[d] \in Acts(J)
<1>0. /\ a.pc # "idle" => a.ch \in Chan
      /\ a.pc \in {"joy", "woo", "put", "taught"} => a.line \in Add
      /\ a.pc \in {"that", "get", "change"} => a.line \in Command
      /\ a.pc \in {"joy", "woo", "put", "taught", "change"} => a.id \in Id
      /\ a.pc = "change" => a.got \in Fact
  BY ActIs
<1>1. CASE Joy(c)
  <2>2. PICK I \in SUBSET Id : GetAll(Woot) \in [I -> Fact]
    BY GetAllIs
  <2>3. Act("woo", a.line, a.ch, a.id, GetAll(Woot)) \in Acts(I)
    BY <1>0, <1>1, <2>2 DEF Joy, Act, Acts
  <2>4. OK
    BY <1>1, <2>3, ActTo DEF Joy
  <2> QED BY <1>1, <2>4 DEF Joy, TypeOK
<1>2. CASE Woo(c)
  <2>1. PICK i \in Id \cup {None} : Choose(Woot, a.got, i)
    BY <1>2 DEF Woo
  <2>2. PICK I \in SUBSET Id : a.got \in [I -> Fact]
    BY <1>2, ActIs DEF Woo
  <2>3. /\ seen' \in [Text -> SUBSET Id] /\ lost' \subseteq Text
        /\ streak' \in [Text -> [Id \X Id -> 0 .. 3]]
    BY <2>1, <2>2, ChooseType, Constants
  <2>4. Act("put", a.line, a.ch, a.id, None) \in Acts({})
    BY <1>0, <1>2 DEF Woo, Act, Acts
  <2>5. OK
    BY <1>2, <2>4, ActToNone DEF Woo
  <2> QED BY <1>2, <2>3, <2>5 DEF Woo, TypeOK
<1>3. CASE Insert(c)
  <2>1. [key |-> a.line.key, val |-> a.line.val, sure |-> TRUE] \in Fact
    BY <1>0, <1>3 DEF Insert, Add, Fact
  <2>2. \E I \in SUBSET Id : store' \in [I -> Fact]
    BY <1>0, <1>3, <2>1, PutIs DEF Insert
  <2>3. Act("taught", a.line, a.ch, a.id, None) \in Acts({})
    BY <1>0, <1>3 DEF Insert, Act, Acts
  <2>4. OK
    BY <1>3, <2>3, ActToNone DEF Insert
  <2> QED BY <1>3, <2>2, <2>4 DEF Insert, TypeOK
<1>4. CASE Taught(c)
  <2>1. OK
    BY <1>4, Idle, ActToNone DEF Taught
  <2> QED BY <1>0, <1>4, <2>1 DEF Taught, TypeOK
<1>5. CASE That(c)
  <2>1. lastSeen[a.ch] \in Id \cup {None}
    BY <1>0, <1>5 DEF That, TypeOK
  <2>2. Act("get", a.line, a.ch, lastSeen[a.ch], None) \in Acts({})
    BY <1>0, <1>5, <2>1 DEF That, Act, Acts
  <2>3. OK
    BY <1>5, <2>2, ActToNone DEF That
  <2> QED BY <1>5, <2>3 DEF That, TypeOK
<1>6. CASE Get(c)
  <2>1. ASSUME a.id \in DOMAIN store
        PROVE  Act("change", a.line, a.ch, a.id, store[a.id]) \in Acts({})
    <3>1. a.id \in Id /\ store[a.id] \in Fact
      BY <2>1 DEF TypeOK
    <3> QED BY <1>0, <1>6, <3>1 DEF Get, Act, Acts
  <2>2. OK
    BY <1>6, <2>1, Idle, ActToNone DEF Get
  <2> QED BY <1>6, <2>2 DEF Get, TypeOK
<1>7. CASE Change(c)
  <2>1. [a.got EXCEPT !.sure = a.line.sure] \in Fact \/ a.line.is # "chance"
    BY <1>0, <1>7 DEF Change, Command, Fact
  <2>2. [a.got EXCEPT !.val = a.line.val] \in Fact \/ a.line.is = "chance"
    BY <1>0, <1>7 DEF Change, Command, Fact
  <2>3. \E I \in SUBSET Id : store' \in [I -> Fact]
    BY <1>0, <1>7, <2>1, <2>2, PutIs DEF Change
  <2>4. OK
    BY <1>7, Idle, ActToNone DEF Change
  <2> QED BY <1>7, <2>3, <2>4 DEF Change, TypeOK
<1>8. CASE Forget(c)
  <2>1. \E I \in SUBSET Id : store' \in [I -> Fact]
    <3>1. PICK I \in SUBSET Id : store \in [I -> Fact]
      BY DEF TypeOK
    <3>2. Del(a.id) \in [I \ {a.id} -> Fact]
      BY <3>1 DEF Del
    <3> QED BY <1>8, <3>2 DEF Forget
  <2>2. lost' \subseteq Text
    BY <1>0, <1>8, Constants DEF Forget, TypeOK, Fact
  <2>3. OK
    BY <1>8, Idle, ActToNone DEF Forget
  <2> QED BY <1>8, <2>1, <2>2, <2>3 DEF Forget, TypeOK
<1> QED BY <1>1, <1>2, <1>3, <1>4, <1>5, <1>6, <1>7, <1>8 DEF Acting

LEMMA LookingType == ASSUME TypeOK, NEW c \in Conn, Looking(c) PROVE TypeOK'
<1> DEFINE w == look[c]
           OK == DOMAIN look' = Conn /\ \A d \in Conn : \E J \in SUBSET Id : look'[d] \in Looks(J)
<1>0. /\ w.pc # "idle" => w.ch \in Chan /\ w.keys \in Keys
      /\ w.pc \in {"all", "pick"} => w.short \in Short
      /\ w.pc \in {"toss", "put", "resolve", "follow"} => w.id \in Id
      /\ w.pc \in {"toss", "put"} => w.got \in Fact
      /\ w.pc \in {"resolve", "follow"} => w.rest \in Value
      /\ w.pc = "follow" => w.rest # <<>>
      /\ w.pc \in {"pick", "follow"} => \E I \in SUBSET Id : w.got \in [I -> Fact]
  BY LookIs
<1>1. CASE All(c)
  <2>1. PICK I \in SUBSET Id : GetAll(KeyOf(c)) \in [I -> Fact]
    BY GetAllIs
  <2>2. Look("pick", w.ch, w.keys, w.short, None, GetAll(KeyOf(c)), <<>>) \in Looks(I)
    BY <1>0, <1>1, <2>1 DEF All, Look, Looks
  <2>3. OK
    BY <1>1, <2>2, LookTo DEF All
  <2> QED BY <1>1, <2>3 DEF All, TypeOK
<1>2. CASE Pick(c)
  <2>1. PICK i \in Id \cup {None} :
          /\ Choose(KeyOf(c), w.got, i)
          /\ look' = [look EXCEPT ![c] =
                IF i # None THEN Look("toss", w.ch, w.keys, None, i, w.got[i], <<>>)
                ELSE IF w.short # None THEN Look("all", w.ch, {w.short}, None, None, None, <<>>)
                ELSE Nothing]
    BY <1>2 DEF Pick
  <2>2. PICK I \in SUBSET Id : w.got \in [I -> Fact]
    BY <1>0, <1>2 DEF Pick
  <2>3. KeyOf(c) \in Text
    BY <1>2, KeyOfIs DEF Pick
  <2>4. /\ seen' \in [Text -> SUBSET Id] /\ lost' \subseteq Text
        /\ streak' \in [Text -> [Id \X Id -> 0 .. 3]]
        /\ i # None => i \in I
    BY <2>1, <2>2, <2>3, ChooseType
  <2>5. ASSUME i # None
        PROVE  Look("toss", w.ch, w.keys, None, i, w.got[i], <<>>) \in Looks({})
    <3>1. w.got[i] \in Fact
      BY <2>2, <2>4, <2>5
    <3> QED BY <1>0, <1>2, <2>5, <3>1 DEF Pick, Look, Looks
  <2>6. ASSUME w.short # None
        PROVE  Look("all", w.ch, {w.short}, None, None, None, <<>>) \in Looks({})
    <3>1. {w.short} \in Keys
      BY <1>0, <1>2, <2>6 DEF Pick, Short, Keys
    <3> QED BY <1>0, <1>2, <3>1 DEF Pick, Look, Looks, Short
  <2>7. OK
    BY <2>1, <2>5, <2>6, Idle, LookToNone
  <2> QED BY <1>2, <2>4, <2>7 DEF Pick, TypeOK
<1>3. CASE Unlucky(c)
  <2>1. OK
    BY <1>3, Idle, LookToNone DEF Unlucky
  <2> QED BY <1>3, <2>1 DEF Unlucky, TypeOK
<1>4. CASE Lucky(c)
  <2>1. Look("put", w.ch, w.keys, None, w.id, w.got, <<>>) \in Looks({})
    BY <1>0, <1>4 DEF Lucky, Look, Looks
  <2>2. OK
    BY <1>4, <2>1, LookToNone DEF Lucky
  <2> QED BY <1>0, <1>4, <2>2 DEF Lucky, TypeOK
<1>5. CASE Access(c)
  <2>1. w.got.val \in Value
    BY <1>0, <1>5 DEF Access, Fact
  <2>2. Look("resolve", w.ch, w.keys, None, w.id, None, w.got.val) \in Looks({})
    BY <1>0, <1>5, <2>1 DEF Access, Look, Looks
  <2>3. OK
    BY <1>5, <2>2, LookToNone DEF Access
  <2>4. \E I \in SUBSET Id : store' \in [I -> Fact]
    BY <1>0, <1>5, PutIs DEF Access
  <2> QED BY <1>5, <2>3, <2>4 DEF Access, TypeOK
<1>6. CASE Resolve(c)
  <2>1. Look("resolve", w.ch, w.keys, None, w.id, None, <<>>) \in Looks({})
    <3>1. <<>> \in Value
      BY DEF Value
    <3> QED BY <1>0, <1>6, <3>1 DEF Resolve, Look, Looks
  <2>2. PICK I \in SUBSET Id : GetAll(Head(w.rest)) \in [I -> Fact]
    BY GetAllIs
  <2>3. w.keys \cup {Head(w.rest)} \in Keys
    <3>1. Head(w.rest) \in Text
      BY <1>0, <1>6, Constants DEF Resolve, Value
    <3>2. w.keys \in (SUBSET Text) \ {{}}
      BY <1>0, <1>6 DEF Resolve, Keys
    <3> QED BY <3>1, <3>2 DEF Keys
  <2>4. Look("follow", w.ch, w.keys \cup {Head(w.rest)}, None, w.id, GetAll(Head(w.rest)), w.rest)
            \in Looks(I)
    BY <1>0, <1>6, <2>2, <2>3 DEF Resolve, Look, Looks
  <2>5. CASE Head(w.rest) \in w.keys \/ Cardinality(w.keys) > MaxKeys
    <3>1. look' = [look EXCEPT ![c] = Look("resolve", w.ch, w.keys, None, w.id, None, <<>>)]
      BY <1>6, <2>5 DEF Resolve
    <3>2. OK
      BY <2>1, <3>1, LookToNone
    <3> QED BY <1>6, <3>2 DEF Resolve, TypeOK
  <2>6. CASE ~(Head(w.rest) \in w.keys \/ Cardinality(w.keys) > MaxKeys)
    <3>1. look' = [look EXCEPT ![c] = Look("follow", w.ch, w.keys \cup {Head(w.rest)}, None, w.id,
                                           GetAll(Head(w.rest)), w.rest)]
      BY <1>6, <2>6 DEF Resolve
    <3>2. OK
      BY <2>4, <3>1, LookTo
    <3> QED BY <1>6, <3>2 DEF Resolve, TypeOK
  <2> QED BY <2>5, <2>6
<1>7. CASE Follow(c)
  <2>1. PICK i \in Id \cup {None} :
          /\ Choose(Head(w.rest), w.got, i)
          /\ look' = [look EXCEPT ![c] =
                Look("resolve", w.ch, w.keys, None, w.id, None,
                     (IF i = None THEN <<>> ELSE w.got[i].val) \o Tail(w.rest))]
    BY <1>7 DEF Follow
  <2>2. PICK I \in SUBSET Id : w.got \in [I -> Fact]
    BY <1>0, <1>7 DEF Follow
  <2>3. Head(w.rest) \in Text /\ Tail(w.rest) \in Value
    BY <1>0, <1>7, Constants DEF Follow, Value
  <2>4. /\ seen' \in [Text -> SUBSET Id] /\ lost' \subseteq Text
        /\ streak' \in [Text -> [Id \X Id -> 0 .. 3]]
        /\ i # None => i \in I
    BY <2>1, <2>2, <2>3, ChooseType
  <2>5. (IF i = None THEN <<>> ELSE w.got[i].val) \o Tail(w.rest) \in Value
    <3>1. i # None => w.got[i].val \in Value
      BY <2>2, <2>4 DEF Fact
    <3>2. (IF i = None THEN <<>> ELSE w.got[i].val) \in Value
      BY <3>1 DEF Value
    <3> QED BY <2>3, <3>2 DEF Value
  <2>6. Look("resolve", w.ch, w.keys, None, w.id, None,
             (IF i = None THEN <<>> ELSE w.got[i].val) \o Tail(w.rest)) \in Looks({})
    BY <1>0, <1>7, <2>5 DEF Follow, Look, Looks
  <2>7. OK
    BY <2>1, <2>6, LookToNone
  <2> QED BY <1>7, <2>4, <2>7 DEF Follow, TypeOK
<1>8. CASE Reply(c)
  <2>1. OK
    BY <1>8, Idle, LookToNone DEF Reply
  <2> QED BY <1>0, <1>8, <2>1 DEF Reply, TypeOK
<1> QED BY <1>1, <1>2, <1>3, <1>4, <1>5, <1>6, <1>7, <1>8 DEF Looking

LEMMA TypeStep == TypeOK /\ [Next]_vars => TypeOK'
<1> SUFFICES ASSUME TypeOK, [Next]_vars PROVE TypeOK'
  OBVIOUS
<1>1. CASE UNCHANGED vars
  BY <1>1 DEF vars, TypeOK
<1>2. CASE Next
  BY <1>2, HearType, ActingType, LookingType DEF Next
<1> QED BY <1>1, <1>2

\* What is stored, cached and held by a goroutine is of its type, with any number of
\* connections.
THEOREM TypeCorrect == Spec => []TypeOK
BY InitType, TypeStep, PTL DEF Spec

-----------------------------------------------------------------------------
(* "That", with one connection. *)

\* No addition is a line under which something may be found: "a :is b" is one if
\* it was taught with ":=".
PlainAdds == \A t \in Talk : \A l \in t.lines : l.is = "add" => l.text \notin Key \cup {Any}

\* What a channel was told of, or will be once the lookup is done.
Told(c, ch) == IF look[c].pc \in {"put", "resolve", "follow"} /\ look[c].ch = ch
               THEN look[c].id ELSE said[ch]

\* The two goroutines are about one channel; the lookup of an addition finds nothing.
OneLine(c) ==
    /\ act[c] # Nobody /\ look[c] # Nothing => act[c].ch = look[c].ch
    /\ act[c].pc \in {"joy", "woo", "put", "taught"} =>
          /\ look[c].pc \in {"idle", "all", "pick"}
          /\ look[c].short = None
          /\ look[c].keys \cap (Key \cup {Any}) = {}
          /\ look[c].pc = "pick" => DOMAIN look[c].got = {}

ThatInv(c) == OneLine(c) /\ \A ch \in Chan : lastSeen[ch] \in {None, Told(c, ch)}

LEMMA UnderNone ==
    ASSUME TypeOK, NEW k, k \notin Key \cup {Any}
    PROVE  DOMAIN GetAll(k) = {}
<1>1. PICK I \in SUBSET Id : store \in [I -> Fact]
  BY DEF TypeOK
<1>2. Under(k) = {}
  BY <1>1 DEF Under, Fact
<1> QED BY <1>2 DEF GetAll

LEMMA ThatInit == ASSUME NEW c \in Conn, Init PROVE ThatInv(c)
BY DEF Init, ThatInv, OneLine, Told, Nobody, Nothing, Act, Look

LEMMA ThatHear ==
    ASSUME NEW c \in Conn, TypeOK, PlainAdds, ThatInv(c), Hear(c)
    PROVE  ThatInv(c)'
<1>1. PICK l \in talk.lines, ch \in Chan :
         /\ act[c] = Nobody /\ look[c] = Nothing
         /\ look' = [look EXCEPT ![c] = Lookup(ch, l)]
         /\ act' = CASE l.is = "say" -> act
                     [] l.is = "add" -> [act EXCEPT ![c] = Act("joy", l, ch, next, None)]
                     [] OTHER -> [act EXCEPT ![c] = Act("that", l, ch, None, None)]
  BY DEF Hear
<1>2. l \in Line /\ talk \in Talk
  BY Constants DEF TypeOK
<1>3. look'[c] = Lookup(ch, l) /\ look'[c].pc = "all" /\ look'[c].ch = ch
      /\ look'[c].keys = {l.text} /\ look'[c].short = l.short
  BY <1>1 DEF TypeOK, Lookup, Look
<1>4. l.is = "add" => l.short = None /\ l.text \notin Key \cup {Any}
  BY <1>2 DEF Line, Add, Command, PlainAdds
<1>5. /\ act'[c] = Nobody \/ act'[c].ch = ch
      /\ act'[c].pc \in {"joy", "woo", "put", "taught"} => l.is = "add"
  <2>1. CASE l.is = "say"
    BY <1>1, <2>1 DEF Nobody, Act
  <2>2. CASE l.is = "add"
    BY <1>1, <2>2 DEF TypeOK, Act
  <2>3. CASE l.is \notin {"add", "say"}
    BY <1>1, <2>3 DEF TypeOK, Act
  <2> QED BY <2>1, <2>2, <2>3
<1>6. OneLine(c)'
  BY <1>3, <1>4, <1>5 DEF OneLine
<1>7. \A h \in Chan : Told(c, h)' = Told(c, h)
  BY <1>1, <1>3 DEF Told, Hear, Nothing, Look
<1> QED BY <1>6, <1>7 DEF ThatInv, Hear

LEMMA ThatActing ==
    ASSUME NEW c \in Conn, TypeOK, ThatInv(c), Acting(c)
    PROVE  ThatInv(c)'
<1> DEFINE a == act[c]
<1>0. /\ look' = look
      /\ a # Nobody /\ a.ch \in Chan
  BY ActIs DEF Acting, Joy, Woo, Insert, Taught, That, Get, Change, Forget
<1>1. CASE Joy(c)
  BY <1>0, <1>1 DEF Joy, ThatInv, OneLine, Told, TypeOK, Act
<1>2. CASE Woo(c)
  BY <1>0, <1>2 DEF Woo, ThatInv, OneLine, Told, TypeOK, Act
<1>3. CASE Insert(c)
  BY <1>0, <1>3 DEF Insert, ThatInv, OneLine, Told, TypeOK, Act
<1>4. CASE Taught(c)
  <2>1. act'[c] = Nobody
    BY <1>4 DEF Taught, TypeOK
  <2>2. OneLine(c)'
    BY <2>1 DEF OneLine, Nobody, Act
  <2>3. look[c].pc \notin {"put", "resolve", "follow"}
    BY <1>4 DEF Taught, ThatInv, OneLine
  <2>4. \A ch \in Chan : lastSeen'[ch] \in {None, Told(c, ch)'}
    BY <1>0, <1>4, <2>3 DEF Taught, ThatInv, Told, TypeOK
  <2> QED BY <2>2, <2>4 DEF ThatInv
<1>5. CASE That(c)
  BY <1>0, <1>5 DEF That, ThatInv, OneLine, Told, TypeOK, Act
<1>6. CASE Get(c)
  <2>1. \/ act'[c] = Nobody
        \/ act'[c].pc = "change" /\ act'[c].ch = a.ch
    BY <1>6 DEF Get, TypeOK, Act
  <2> QED BY <1>0, <1>6, <2>1 DEF Get, ThatInv, OneLine, Told, Nobody, Act
<1>7. CASE Change(c)
  BY <1>0, <1>7 DEF Change, ThatInv, OneLine, Told, TypeOK, Nobody, Act
<1>8. CASE Forget(c)
  BY <1>0, <1>8 DEF Forget, ThatInv, OneLine, Told, TypeOK, Nobody, Act
<1> QED BY <1>1, <1>2, <1>3, <1>4, <1>5, <1>6, <1>7, <1>8 DEF Acting

LEMMA ThatLooking ==
    ASSUME NEW c \in Conn, TypeOK, ThatInv(c), Looking(c)
    PROVE  ThatInv(c)'
<1> DEFINE w == look[c]
           Adding == act[c].pc \in {"joy", "woo", "put", "taught"}
<1>0. /\ act' = act
      /\ w # Nothing /\ w.ch \in Chan
  BY LookIs DEF Looking, All, Pick, Unlucky, Lucky, Access, Resolve, Follow, Reply
<1>1. CASE All(c)
  <2>1. look'[c] = Look("pick", w.ch, w.keys, w.short, None, GetAll(KeyOf(c)), <<>>)
    BY <1>1 DEF All, TypeOK
  <2>2. Adding => DOMAIN GetAll(KeyOf(c)) = {}
    <3>1. KeyOf(c) \in w.keys
      BY <1>1, KeyOfIs DEF All
    <3> QED BY <3>1, UnderNone DEF ThatInv, OneLine
  <2> QED BY <1>0, <1>1, <2>1, <2>2 DEF All, ThatInv, OneLine, Told, Look
<1>2. CASE Pick(c)
  <2>1. PICK i \in Id \cup {None} :
          /\ Choose(KeyOf(c), w.got, i)
          /\ look' = [look EXCEPT ![c] =
                IF i # None THEN Look("toss", w.ch, w.keys, None, i, w.got[i], <<>>)
                ELSE IF w.short # None THEN Look("all", w.ch, {w.short}, None, None, None, <<>>)
                ELSE Nothing]
    BY <1>2 DEF Pick
  <2>2. Adding => i = None /\ w.short = None
    BY <1>2, <2>1 DEF Choose, Pick, ThatInv, OneLine
  <2>3. \/ look'[c].pc \in {"toss", "all"} /\ look'[c].ch = w.ch /\ ~Adding
        \/ look'[c] = Nothing
    BY <2>1, <2>2 DEF TypeOK, Look
  <2> QED BY <1>0, <1>2, <2>3 DEF Pick, ThatInv, OneLine, Told, Look, Nothing
<1>3. CASE Unlucky(c)
  BY <1>0, <1>3 DEF Unlucky, ThatInv, OneLine, Told, Look, Nothing, TypeOK
<1>4. CASE Lucky(c)
  BY <1>0, <1>4 DEF Lucky, ThatInv, OneLine, Told, Look, TypeOK
<1>5. CASE Access(c)
  BY <1>0, <1>5 DEF Access, ThatInv, OneLine, Told, Look, TypeOK
<1>6. CASE Resolve(c)
  <2>1. look'[c].pc \in {"resolve", "follow"} /\ look'[c].ch = w.ch /\ look'[c].id = w.id
    BY <1>6 DEF Resolve, Look, TypeOK
  <2>2. w.pc = "resolve" /\ ~Adding
    BY <1>6 DEF Resolve, ThatInv, OneLine
  <2> QED BY <1>0, <1>6, <2>1, <2>2 DEF Resolve, ThatInv, OneLine, Told
<1>7. CASE Follow(c)
  <2>1. look'[c].pc = "resolve" /\ look'[c].ch = w.ch /\ look'[c].id = w.id
    BY <1>7 DEF Follow, Look, TypeOK
  <2>2. w.pc = "follow" /\ ~Adding
    BY <1>7 DEF Follow, ThatInv, OneLine
  <2> QED BY <1>0, <1>7, <2>1, <2>2 DEF Follow, ThatInv, OneLine, Told
<1>8. CASE Reply(c)
  <2>1. look'[c] = Nothing
    BY <1>8 DEF Reply, TypeOK
  <2>2. OneLine(c)'
    BY <2>1 DEF OneLine, Nothing, Look
  <2>3. \A ch \in Chan : Told(c, ch)' = Told(c, ch)
    BY <1>0, <1>8, <2>1 DEF Reply, Told, Nothing, Look, TypeOK
  <2> QED BY <1>8, <2>2, <2>3 DEF ThatInv, Reply
<1> QED BY <1>1, <1>2, <1>3, <1>4, <1>5, <1>6, <1>7, <1>8 DEF Looking

\* With one connection, and additions that are no keys themselves: "that" is what
\* the channel was last told of, or nothing, however the command and the lookup of
\* a line interleave.
THEOREM ThatIsTold ==
    ASSUME NEW c, Conn = {c}, PlainAdds
    PROVE  Spec => []ThatIsLast
<1>0. c \in Conn
  OBVIOUS
<1>1. Init => TypeOK /\ ThatInv(c)
  BY InitType, ThatInit
<1>2. TypeOK /\ ThatInv(c) /\ [Next]_vars => (TypeOK /\ ThatInv(c))'
  <2> SUFFICES ASSUME TypeOK, ThatInv(c), [Next]_vars PROVE (TypeOK /\ ThatInv(c))'
    OBVIOUS
  <2>1. CASE UNCHANGED vars
    BY <2>1 DEF vars, TypeOK, ThatInv, OneLine, Told
  <2>2. CASE Next
    BY <2>2, TypeStep, ThatHear, ThatActing, ThatLooking DEF Next
  <2> QED BY <2>1, <2>2
<1>3. TypeOK /\ ThatInv(c) => ThatIsLast
  BY DEF ThatInv, ThatIsLast, Told, Nothing, Look
<1> QED BY <1>1, <1>2, <1>3, PTL DEF Spec

-----------------------------------------------------------------------------
(* What is known of a factoid, with one connection: its copies in the collection *)
(* and in the goroutines agree on its key, and it does not come back once the    *)
(* last of them is gone.                                                         *)

Adding(c) == act[c].pc \in {"joy", "woo", "put"}
Listing(c) == look[c].pc \in {"pick", "follow"}
Chosen(c) == look[c].pc \in {"toss", "put"}

\* The key whose factoids a lookup has listed.
Sought(c) == IF look[c].pc = "pick" THEN KeyOf(c) ELSE Head(look[c].rest)

\* The factoid j is known, under the key k.
Known(c, j, k) ==
    \/ j \in DOMAIN store /\ store[j].key = k
    \/ Listing(c) /\ j \in DOMAIN look[c].got /\ look[c].got[j].key = k
    \/ Chosen(c) /\ j = look[c].id /\ look[c].got.key = k
    \/ act[c].pc = "woo" /\ j \in DOMAIN act[c].got /\ act[c].got[j].key = k
    \/ act[c].pc = "change" /\ j = act[c].id /\ act[c].got.key = k

Gone(c, j) == \A k \in Key : ~Known(c, j, k)
Unborn(c, j) == j >= next \/ (Adding(c) /\ j = act[c].id)

OneKey(c) == \A j \in Id : \A k, h \in Key : Known(c, j, k) /\ Known(c, j, h) => k = h

\* What was listed was filed under the key, and everything is under Any.
Listed(c) ==
    /\ Listing(c) => \A j \in DOMAIN look[c].got : Sought(c) \in {look[c].got[j].key, Any}
    /\ act[c].pc = "woo" => \A j \in DOMAIN act[c].got : act[c].got[j].key = Woot

KeyInv(c) ==
    /\ OneKey(c)
    /\ Listed(c)
    /\ Adding(c) => act[c].id < next
    /\ \A j \in Id : Unborn(c, j) => Gone(c, j)

LEMMA KeyInit == ASSUME NEW c \in Conn, Init PROVE KeyInv(c)
<1>1. \A j, k : ~Known(c, j, k)
  BY DEF Init, Known, Listing, Chosen, Nobody, Nothing, Act, Look
<1> QED BY <1>1 DEF Init, KeyInv, OneKey, Listed, Gone, Adding, Listing, Nobody, Nothing, Act, Look

\* A list taken by a goroutine is known from the collection.
LEMMA GetAllKnown ==
    ASSUME NEW c, NEW k, NEW j \in DOMAIN GetAll(k)
    PROVE  /\ j \in DOMAIN store /\ GetAll(k)[j] = store[j]
           /\ k \in {store[j].key, Any}
BY DEF GetAll, Under

\* Nothing becomes known but by Insert.
LEMMA KnownStep ==
    ASSUME NEW c \in Conn, TypeOK, Hear(c) \/ Acting(c) \/ Looking(c), ~Insert(c),
           NEW j, NEW k, Known(c, j, k)'
    PROVE  Known(c, j, k)
<1> USE DEF Known, Listing, Chosen
<1> DEFINE a == act[c]
           w == look[c]
<1>1. CASE Hear(c)
  <2>1. store' = store /\ look'[c].pc = "all" /\ act'[c].pc \in {"idle", "joy", "that"}
    BY <1>1 DEF Hear, TypeOK, Lookup, Look, Act, Nobody
  <2> QED BY <2>1
<1>2. CASE Joy(c)
  <2>1. act'[c] = Act("woo", a.line, a.ch, a.id, GetAll(Woot)) /\ store' = store /\ look' = look
    BY <1>2 DEF Joy, TypeOK
  <2> QED BY <2>1, GetAllKnown DEF Act
<1>3. CASE Woo(c)
  <2>1. act'[c].pc = "put" /\ store' = store /\ look' = look
    BY <1>3 DEF Woo, TypeOK, Act
  <2> QED BY <2>1
<1>4. CASE Taught(c)
  BY <1>4 DEF Taught, TypeOK, Nobody, Act
<1>5. CASE That(c)
  BY <1>5 DEF That, TypeOK, Act
<1>6. CASE Get(c)
  <2>1. /\ store' = store /\ look' = look
        /\ \/ a.id \in DOMAIN store /\ act'[c] = Act("change", a.line, a.ch, a.id, store[a.id])
           \/ act'[c] = Nobody
    BY <1>6 DEF Get, TypeOK
  <2> QED BY <2>1 DEF Nobody, Act
<1>7. CASE Change(c)
  <2>1. PICK f : /\ store' = Put(a.id, f) /\ f.key = a.got.key
                 /\ act'[c].pc = "idle" /\ look' = look /\ a.pc = "change"
    <3>1. a.got \in Fact
      BY <1>7, ActIs DEF Change
    <3>2. [a.got EXCEPT !.sure = a.line.sure].key = a.got.key
      BY <3>1 DEF Fact
    <3>3. [a.got EXCEPT !.val = a.line.val].key = a.got.key
      BY <3>1 DEF Fact
    <3> QED BY <1>7, <3>2, <3>3 DEF Change, TypeOK, Nobody, Act
  <2> QED BY <2>1 DEF Put
<1>8. CASE Forget(c)
  <2>1. store' = Del(a.id) /\ look' = look /\ act'[c].pc = "idle"
    BY <1>8 DEF Forget, TypeOK, Nobody, Act
  <2> QED BY <2>1 DEF Del
<1>9. CASE All(c)
  <2>1. /\ look'[c] = Look("pick", w.ch, w.keys, w.short, None, GetAll(KeyOf(c)), <<>>)
        /\ store' = store /\ act' = act
    BY <1>9 DEF All, TypeOK
  <2> QED BY <2>1, GetAllKnown DEF Look
<1>10. CASE Pick(c)
  <2>1. PICK i \in Id \cup {None} :
          /\ Choose(KeyOf(c), w.got, i)
          /\ look' = [look EXCEPT ![c] =
                IF i # None THEN Look("toss", w.ch, w.keys, None, i, w.got[i], <<>>)
                ELSE IF w.short # None THEN Look("all", w.ch, {w.short}, None, None, None, <<>>)
                ELSE Nothing]
    BY <1>10 DEF Pick
  <2>2. i # None => i \in DOMAIN w.got
    BY <2>1 DEF Choose
  <2>3. \/ look'[c] = Look("toss", w.ch, w.keys, None, i, w.got[i], <<>>) /\ i # None
        \/ look'[c].pc \in {"all", "idle"}
    BY <2>1 DEF TypeOK, Look, Nothing
  <2> QED BY <1>10, <2>2, <2>3 DEF Pick, Look
<1>11. CASE Unlucky(c)
  BY <1>11 DEF Unlucky, TypeOK, Nothing, Look
<1>12. CASE Lucky(c)
  <2>1. look'[c] = Look("put", w.ch, w.keys, None, w.id, w.got, <<>>)
    BY <1>12 DEF Lucky, TypeOK
  <2> QED BY <1>12, <2>1 DEF Lucky, Look
<1>13. CASE Access(c)
  <2>1. store' = Put(w.id, w.got) /\ look'[c].pc = "resolve" /\ act' = act /\ w.pc = "put"
    BY <1>13 DEF Access, TypeOK, Look
  <2> QED BY <2>1 DEF Put
<1>14. CASE Resolve(c)
  <2>1. /\ store' = store /\ act' = act
        /\ \/ look'[c].pc = "resolve"
           \/ look'[c].pc = "follow" /\ look'[c].got = GetAll(Head(w.rest))
    BY <1>14 DEF Resolve, TypeOK, Look
  <2> QED BY <2>1, GetAllKnown
<1>15. CASE Follow(c)
  <2>1. PICK i \in Id \cup {None} :
          look' = [look EXCEPT ![c] = Look("resolve", w.ch, w.keys, None, w.id, None,
                      (IF i = None THEN <<>> ELSE w.got[i].val) \o Tail(w.rest))]
    BY <1>15 DEF Follow
  <2>2. look'[c].pc = "resolve"
    BY <2>1 DEF TypeOK, Look
  <2> QED BY <1>15, <2>2 DEF Follow
<1>16. CASE Reply(c)
  BY <1>16 DEF Reply, TypeOK, Nothing, Look
<1> QED BY <1>1, <1>2, <1>3, <1>4, <1>5, <1>6, <1>7, <1>8, <1>9, <1>10, <1>11, <1>12, <1>13,
           <1>14, <1>15, <1>16 DEF Acting, Looking

\* An addition keeps its id until it is stored.
LEMMA UnbornStep ==
    ASSUME NEW c \in Conn, TypeOK, Hear(c) \/ Acting(c) \/ Looking(c),
           Adding(c) => act[c].id < next
    PROVE  /\ Adding(c)' => act[c].id' < next'
           /\ \A j \in Id : Unborn(c, j)' => Unborn(c, j) /\ (Insert(c) => j # act[c].id)
<1> DEFINE a == act[c]
<1>0. next \in Nat /\ Id \subseteq Nat
  BY Constants DEF TypeOK
<1>1. CASE Hear(c)
  <2>1. /\ next' \in {next, next + 1}
        /\ \/ act'[c].pc \in {"idle", "that"}
           \/ act'[c].pc = "joy" /\ act'[c].id = next /\ next' = next + 1
    BY <1>1 DEF Hear, TypeOK, Nobody, Act
  <2>2. ~Insert(c)
    BY <1>1 DEF Hear, Insert, Nobody, Act
  <2>3. Adding(c)' => act'[c].id < next'
    BY <1>0, <2>1 DEF Adding
  <2>4. ASSUME NEW j \in Id, Unborn(c, j)' PROVE Unborn(c, j)
    <3>1. j \in Nat /\ (j >= next' \/ (Adding(c)' /\ j = act'[c].id))
      BY <1>0, <2>4 DEF Unborn
    <3>2. j >= next
      BY <1>0, <2>1, <3>1 DEF Adding
    <3> QED BY <3>2 DEF Unborn
  <2> QED BY <2>2, <2>3, <2>4
<1>2. CASE Insert(c)
  <2>1. act'[c].pc = "taught" /\ next' = next /\ a.pc = "put"
    BY <1>2 DEF Insert, TypeOK, Act
  <2>2. a.id \in Nat /\ a.id < next
    BY <1>0, <2>1, ActIs DEF Adding
  <2>3. ~Adding(c)'
    BY <2>1 DEF Adding
  <2>4. ASSUME NEW j \in Id, Unborn(c, j)' PROVE Unborn(c, j) /\ j # a.id
    <3>1. j >= next
      BY <2>1, <2>3, <2>4 DEF Unborn
    <3> QED BY <1>0, <2>2, <3>1 DEF Unborn
  <2> QED BY <2>3, <2>4
<1>3. CASE Acting(c) /\ ~Insert(c)
  <2>1. /\ next' = next
        /\ \/ act'[c].pc \in {"woo", "put"} /\ a.pc \in {"joy", "woo"} /\ act'[c].id = a.id
           \/ act'[c].pc \in {"idle", "get", "change"}
    <3>1. CASE Joy(c)
      BY <3>1 DEF Joy, TypeOK, Act
    <3>2. CASE Woo(c)
      BY <3>2 DEF Woo, TypeOK, Act
    <3>3. CASE Taught(c) \/ That(c) \/ Get(c) \/ Change(c) \/ Forget(c)
      BY <3>3 DEF Taught, That, Get, Change, Forget, TypeOK, Nobody, Act
    <3> QED BY <1>3, <3>1, <3>2, <3>3 DEF Acting
  <2>2. Adding(c)' => Adding(c) /\ act'[c].id = a.id
    BY <2>1 DEF Adding
  <2> QED BY <1>3, <2>1, <2>2 DEF Unborn
<1>4. CASE Looking(c)
  <2>1. act' = act /\ next' = next
    BY <1>4 DEF Looking, All, Pick, Unlucky, Lucky, Access, Resolve, Follow, Reply
  <2>2. CASE Insert(c)
    BY <1>2, <2>2
  <2>3. CASE ~Insert(c)
    BY <2>1, <2>3 DEF Adding, Unborn
  <2> QED BY <2>2, <2>3
<1> QED BY <1>1, <1>2, <1>3, <1>4

LEMMA ListedStep ==
    ASSUME NEW c \in Conn, TypeOK, Listed(c), Hear(c) \/ Acting(c) \/ Looking(c)
    PROVE  Listed(c)'
<1> USE DEF Listed, Listing, Sought
<1> DEFINE a == act[c]
           w == look[c]
<1>1. CASE Hear(c)
  <2>1. look'[c].pc = "all" /\ act'[c].pc \in {"idle", "joy", "that"}
    BY <1>1 DEF Hear, TypeOK, Lookup, Look, Act, Nobody
  <2> QED BY <2>1
<1>2. CASE Acting(c)
  <2>1. look' = look
    BY <1>2 DEF Acting, Joy, Woo, Insert, Taught, That, Get, Change, Forget
  <2>2. CASE Joy(c)
    <3>1. act'[c] = Act("woo", a.line, a.ch, a.id, GetAll(Woot))
      BY <2>2 DEF Joy, TypeOK
    <3>2. \A j \in DOMAIN GetAll(Woot) : GetAll(Woot)[j].key = Woot
      BY GetAllKnown, Constants
    <3> QED BY <2>1, <3>1, <3>2 DEF Act, KeyOf
  <2>3. CASE ~Joy(c)
    <3>1. act'[c].pc # "woo"
      BY <1>2, <2>3 DEF Acting, Woo, Insert, Taught, That, Get, Change, Forget, TypeOK, Nobody, Act
    <3> QED BY <2>1, <3>1 DEF KeyOf
  <2> QED BY <2>2, <2>3
<1>3. CASE Looking(c)
  <2>1. act' = act
    BY <1>3 DEF Looking, All, Pick, Unlucky, Lucky, Access, Resolve, Follow, Reply
  <2>2. CASE All(c)
    <3>1. look'[c] = Look("pick", w.ch, w.keys, w.short, None, GetAll(KeyOf(c)), <<>>)
      BY <2>2 DEF All, TypeOK
    <3>2. KeyOf(c)' = KeyOf(c)
      BY <3>1 DEF KeyOf, Look
    <3> QED BY <2>1, <3>1, <3>2, GetAllKnown DEF Look
  <2>3. CASE Resolve(c)
    <3>1. \/ look'[c].pc = "resolve"
          \/ look'[c].pc = "follow" /\ look'[c].got = GetAll(Head(w.rest)) /\ look'[c].rest = w.rest
      BY <2>3 DEF Resolve, TypeOK, Look
    <3> QED BY <2>1, <3>1, GetAllKnown
  <2>4. CASE ~All(c) /\ ~Resolve(c)
    <3>1. look'[c].pc \notin {"pick", "follow"}
      <4>1. CASE Pick(c)
        <5>1. PICK i \in Id \cup {None} : look' = [look EXCEPT ![c] =
                IF i # None THEN Look("toss", w.ch, w.keys, None, i, w.got[i], <<>>)
                ELSE IF w.short # None THEN Look("all", w.ch, {w.short}, None, None, None, <<>>)
                ELSE Nothing]
          BY <4>1 DEF Pick
        <5> QED BY <5>1 DEF TypeOK, Look, Nothing
      <4>2. CASE Unlucky(c) \/ Lucky(c) \/ Reply(c)
        BY <4>2 DEF Unlucky, Lucky, Reply, TypeOK, Look, Nothing
      <4>3. CASE Access(c)
        BY <4>3 DEF Access, TypeOK, Look
      <4>4. CASE Follow(c)
        BY <4>4 DEF Follow, TypeOK, Look
      <4> QED BY <1>3, <2>4, <4>1, <4>2, <4>3, <4>4 DEF Looking
    <3> QED BY <2>1, <3>1
  <2> QED BY <2>2, <2>3, <2>4
<1> QED BY <1>1, <1>2, <1>3

LEMMA KeyStep ==
    ASSUME NEW c \in Conn, TypeOK, KeyInv(c), Hear(c) \/ Acting(c) \/ Looking(c)
    PROVE  KeyInv(c)'
<1>1. Listed(c)'
  BY ListedStep DEF KeyInv
<1>2. /\ Adding(c)' => act[c].id' < next'
      /\ \A j \in Id : Unborn(c, j)' => Unborn(c, j) /\ (Insert(c) => j # act[c].id)
  BY UnbornStep DEF KeyInv
<1>3. CASE ~Insert(c)
  <2>1. \A j, k : Known(c, j, k)' => Known(c, j, k)
    BY <1>3, KnownStep
  <2> QED BY <1>1, <1>2, <2>1 DEF KeyInv, OneKey, Gone
<1>4. CASE Insert(c)
  <2>1. /\ store' = Put(act[c].id, [key |-> act[c].line.key, val |-> act[c].line.val, sure |-> TRUE])
        /\ act'[c].pc = "taught" /\ look' = look /\ act[c].pc = "put"
    BY <1>4 DEF Insert, TypeOK, Act
  <2>2. \A j, k : Known(c, j, k)' => Known(c, j, k) \/ (j = act[c].id /\ k = act[c].line.key)
    BY <2>1 DEF Known, Put, Listing, Chosen
  <2>3. act[c].id \in Id /\ Gone(c, act[c].id)
    BY <2>1, ActIs DEF KeyInv, Unborn, Adding
  <2>4. OneKey(c)'
    BY <2>2, <2>3 DEF KeyInv, OneKey, Gone
  <2>5. \A j \in Id : Unborn(c, j)' => Gone(c, j)'
    BY <1>2, <1>4, <2>2 DEF KeyInv, Gone
  <2> QED BY <1>1, <1>2, <2>4, <2>5 DEF KeyInv
<1> QED BY <1>3, <1>4

-----------------------------------------------------------------------------
(* A key with factoids is answered, with one connection. *)

\* While an addition has not stored its factoid lists are up to date.
Stable(c) ==
    Adding(c) => /\ act[c].pc = "woo" => DOMAIN act[c].got = Under(Woot)
                 /\ Listing(c) => DOMAIN look[c].got = Under(Sought(c))

\* A factoid that the lookup has found and the collection no longer has was forgotten
\* by the command of the same line, which is done.
Listless(c) == Listing(c) =>
    \A j \in DOMAIN look[c].got \ DOMAIN store :
        act[c] = Nobody /\ {look[c].got[j].key, Any} \subseteq lost
Choiceless(c) == Chosen(c) /\ look[c].id \notin DOMAIN store =>
    /\ act[c] = Nobody
    /\ \A k \in {look[c].got.key, Any} : k \in lost \/ look[c].id \notin seen[k]

HoldInv(c) ==
    /\ Stable(c)
    /\ Listless(c)
    /\ Choiceless(c)
    /\ act[c].pc = "change" => act[c].id \in DOMAIN store
    /\ \A k \in Text : \A j \in seen[k] : ~Unborn(c, j)

LEMMA HoldInit == ASSUME NEW c \in Conn, Init PROVE HoldInv(c) /\ Answers
BY DEF Init, HoldInv, Stable, Listless, Choiceless, Adding, Listing, Chosen, Answers, Under,
       Nobody, Nothing, Act, Look

\* The key of a factoid is a key.
LEMMA FactKeys ==
    ASSUME NEW c \in Conn, TypeOK
    PROVE  /\ \A j \in DOMAIN store : j \in Id /\ store[j].key \in Key
           /\ Listing(c) => \A j \in DOMAIN look[c].got : j \in Id /\ look[c].got[j].key \in Key
           /\ Chosen(c) => look[c].id \in Id /\ look[c].got.key \in Key
           /\ act[c].pc = "woo" => \A j \in DOMAIN act[c].got : j \in Id /\ act[c].got[j].key \in Key
           /\ act[c].pc = "change" => act[c].id \in Id /\ act[c].got.key \in Key
<1>1. PICK I \in SUBSET Id : store \in [I -> Fact]
  BY DEF TypeOK
<1>2. \A j \in DOMAIN store : j \in Id /\ store[j].key \in Key
  BY <1>1 DEF Fact
<1>3. ASSUME Listing(c) PROVE \A j \in DOMAIN look[c].got : j \in Id /\ look[c].got[j].key \in Key
  <2>1. PICK J \in SUBSET Id : look[c].got \in [J -> Fact]
    BY <1>3, LookIs DEF Listing
  <2> QED BY <2>1 DEF Fact
<1>4. ASSUME act[c].pc = "woo"
      PROVE  \A j \in DOMAIN act[c].got : j \in Id /\ act[c].got[j].key \in Key
  <2>1. PICK J \in SUBSET Id : act[c].got \in [J -> Fact]
    BY <1>4, ActIs
  <2> QED BY <2>1 DEF Fact
<1>5. Chosen(c) => look[c].id \in Id /\ look[c].got.key \in Key
  BY LookIs DEF Chosen, Fact
<1>6. act[c].pc = "change" => act[c].id \in Id /\ act[c].got.key \in Key
  BY ActIs DEF Fact
<1> QED BY <1>2, <1>3, <1>4, <1>5, <1>6

\* Copies of a stored factoid have its key.
LEMMA Agree ==
    ASSUME NEW c \in Conn, TypeOK, OneKey(c), NEW j \in DOMAIN store, NEW k \in Key,
           Known(c, j, k)
    PROVE  store[j].key = k
<1>1. j \in Id /\ store[j].key \in Key
  BY FactKeys
<1>2. Known(c, j, store[j].key)
  BY DEF Known
<1> QED BY <1>1, <1>2 DEF OneKey

\* Putting a factoid back under its key adds nothing to any key.
LEMMA PutBack ==
    ASSUME NEW i \in DOMAIN store, NEW f, f.key = store[i].key, store' = Put(i, f)
    PROVE  DOMAIN store' = DOMAIN store /\ \A k : Under(k)' = Under(k)
<1>1. DOMAIN store' = DOMAIN store
  BY DEF Put
<1>2. \A j \in DOMAIN store : store'[j].key = store[j].key
  BY DEF Put
<1> QED BY <1>1, <1>2 DEF Under

LEMMA ChangeIs ==
    ASSUME NEW c \in Conn, TypeOK, KeyInv(c), HoldInv(c), Change(c)
    PROVE  DOMAIN store' = DOMAIN store /\ \A k : Under(k)' = Under(k)
<1> DEFINE a == act[c]
<1>1. a.pc = "change" /\ a.id \in DOMAIN store /\ a.got \in Fact
  BY ActIs DEF Change, HoldInv
<1>2. store[a.id].key = a.got.key
  BY <1>1, FactKeys, Agree DEF KeyInv, Known
<1>3. [a.got EXCEPT !.sure = a.line.sure].key = a.got.key
  BY <1>1 DEF Fact
<1>4. [a.got EXCEPT !.val = a.line.val].key = a.got.key
  BY <1>1 DEF Fact
<1>5. PICK f : store' = Put(a.id, f) /\ f.key = a.got.key
  BY <1>3, <1>4 DEF Change
<1> QED BY <1>1, <1>2, <1>5, PutBack

LEMMA AccessIs ==
    ASSUME NEW c \in Conn, TypeOK, KeyInv(c), Access(c), look[c].id \in DOMAIN store
    PROVE  DOMAIN store' = DOMAIN store /\ \A k : Under(k)' = Under(k)
<1>1. store[look[c].id].key = look[c].got.key
  BY FactKeys, Agree DEF Access, Chosen, KeyInv, Known
<1>2. store' = Put(look[c].id, look[c].got)
  BY DEF Access
<1> QED BY <1>1, <1>2, PutBack

\* What is chosen is known.
LEMMA ChooseKnown ==
    ASSUME NEW c \in Conn, TypeOK, NEW k \in Text, NEW F, NEW i, Chooses(k, F, i),
           NEW I \in SUBSET Id, F \in [I -> Fact],
           \A j \in DOMAIN F : Known(c, j, F[j].key),
           KeyInv(c), \A h \in Text : \A j \in seen[h] : ~Unborn(c, j)
    PROVE  \A h \in Text : \A j \in seen'[h] : ~Unborn(c, j)
<1>1. \A h \in Text : seen'[h] \subseteq seen[h] \cup (DOMAIN F)
  <2>1. seen \in [Text -> SUBSET Id]
    BY DEF TypeOK
  <2>2. \/ seen' = [seen EXCEPT ![k] = {}]
        \/ seen' = [seen EXCEPT ![k] = @ \cup {i}] /\ i \in DOMAIN F
    BY DEF Chooses
  <2> QED BY <2>1, <2>2
<1>2. \A j \in DOMAIN F : j \in Id /\ F[j].key \in Key
  BY DEF Fact
<1>3. \A j \in DOMAIN F : ~Gone(c, j)
  BY <1>2 DEF Gone
<1> QED BY <1>1, <1>2, <1>3 DEF KeyInv

LEMMA HoldActing ==
    ASSUME NEW c \in Conn, TypeOK, KeyInv(c), HoldInv(c), Acting(c)
    PROVE  HoldInv(c)'
<1> DEFINE a == act[c]
           w == look[c]
<1>0. /\ look' = look /\ KeyOf(c)' = KeyOf(c) /\ Sought(c)' = Sought(c)
      /\ Listing(c)' = Listing(c) /\ Chosen(c)' = Chosen(c)
      /\ a # Nobody
  <2>1. look' = look /\ a.pc # "idle"
    BY DEF Acting, Joy, Woo, Insert, Taught, That, Get, Change, Forget
  <2>2. KeyOf(c)' = KeyOf(c)
    BY <2>1 DEF KeyOf
  <2> QED BY <2>1, <2>2, ActIs DEF Sought, Listing, Chosen
<1>1. /\ Listing(c) => DOMAIN w.got \subseteq DOMAIN store
      /\ Chosen(c) => w.id \in DOMAIN store
  BY <1>0 DEF HoldInv, Listless, Choiceless
<1>2. \A j \in Id : Unborn(c, j)' => Unborn(c, j) /\ (Insert(c) => j # act[c].id)
  BY UnbornStep DEF KeyInv
<1>3. ASSUME seen' = seen
      PROVE  (\A k \in Text : \A j \in seen[k] : ~Unborn(c, j))'
  BY <1>2, <1>3 DEF HoldInv, TypeOK
<1>4. ASSUME DOMAIN store \subseteq DOMAIN store'
      PROVE  Listless(c)' /\ Choiceless(c)'
  BY <1>0, <1>1, <1>4 DEF Listless, Choiceless
<1>5. CASE Joy(c)
  <2>1. act'[c] = Act("woo", a.line, a.ch, a.id, GetAll(Woot)) /\ store' = store /\ seen' = seen
    BY <1>5 DEF Joy, TypeOK
  <2>2. DOMAIN GetAll(Woot) = Under(Woot) /\ \A k : Under(k)' = Under(k)
    BY <2>1 DEF GetAll, Under
  <2>3. Adding(c)
    BY <1>5 DEF Joy, Adding
  <2>4. Stable(c)'
    BY <1>0, <2>1, <2>2, <2>3 DEF Stable, Act, HoldInv
  <2> QED BY <1>3, <1>4, <2>1, <2>4 DEF HoldInv, Act
<1>6. CASE Woo(c)
  <2>1. act'[c].pc = "put" /\ store' = store /\ Adding(c)
    BY <1>6 DEF Woo, TypeOK, Act, Adding
  <2>2. \A k : Under(k)' = Under(k)
    BY <2>1 DEF Under
  <2>3. Stable(c)'
    BY <1>0, <2>1, <2>2 DEF Stable, HoldInv
  <2>4. PICK i \in Id \cup {None} : Choose(Woot, a.got, i)
    BY <1>6 DEF Woo
  <2>5. PICK I \in SUBSET Id : a.got \in [I -> Fact]
    BY <1>6, ActIs DEF Woo
  <2>6. Chooses(Woot, a.got, i)
    BY <2>4, <2>5, ChooseIs
  <2>7. \A j \in DOMAIN a.got : Known(c, j, a.got[j].key)
    BY <1>6 DEF Woo, Known
  <2>8. \A h \in Text : \A j \in seen'[h] : ~Unborn(c, j)
    BY <2>5, <2>6, <2>7, ChooseKnown, Constants DEF HoldInv
  <2>9. seen' \in [Text -> SUBSET Id]
    BY TypeStep, <1>6, ActingType DEF TypeOK
  <2> QED BY <1>2, <1>4, <2>1, <2>3, <2>8, <2>9 DEF HoldInv
<1>7. CASE Insert(c)
  <2>1. act'[c].pc = "taught" /\ seen' = seen /\ DOMAIN store \subseteq DOMAIN store'
    BY <1>7 DEF Insert, TypeOK, Act, Put
  <2> QED BY <1>3, <1>4, <2>1 DEF HoldInv, Stable, Adding
<1>8. CASE Taught(c) \/ That(c)
  <2>1. act'[c].pc \in {"idle", "get"} /\ seen' = seen /\ store' = store
    BY <1>8 DEF Taught, That, TypeOK, Act, Nobody
  <2> QED BY <1>3, <1>4, <2>1 DEF HoldInv, Stable, Adding
<1>9. CASE Get(c)
  <2>1. /\ seen' = seen /\ store' = store
        /\ \/ act'[c].pc = "idle"
           \/ act'[c].pc = "change" /\ act'[c].id \in DOMAIN store
    BY <1>9 DEF Get, TypeOK, Act, Nobody
  <2> QED BY <1>3, <1>4, <2>1 DEF HoldInv, Stable, Adding
<1>10. CASE Change(c)
  <2>1. act'[c].pc = "idle" /\ seen' = seen /\ DOMAIN store' = DOMAIN store
    BY <1>10, ChangeIs DEF Change, TypeOK, Act, Nobody
  <2> QED BY <1>3, <1>4, <2>1 DEF HoldInv, Stable, Adding
<1>11. CASE Forget(c)
  <2>1. /\ act'[c] = Nobody /\ seen' = seen /\ DOMAIN store' = DOMAIN store \ {a.id}
        /\ lost' = lost \cup {a.got.key, Any}
    BY <1>11 DEF Forget, Del, TypeOK
  <2>2. a.pc = "change" /\ a.id \in Id /\ a.got.key \in Key /\ Known(c, a.id, a.got.key)
    BY <1>11, FactKeys DEF Forget, Known
  <2>3. Listing(c) /\ a.id \in DOMAIN w.got => w.got[a.id].key = a.got.key
    BY <2>2, FactKeys DEF KeyInv, OneKey, Known
  <2>4. Chosen(c) /\ a.id = w.id => w.got.key = a.got.key
    BY <2>2, FactKeys DEF KeyInv, OneKey, Known
  <2>5. Listless(c)'
    BY <1>0, <1>1, <2>1, <2>3 DEF Listless
  <2>6. Choiceless(c)'
    BY <1>0, <1>1, <2>1, <2>4 DEF Choiceless
  <2> QED BY <1>3, <2>1, <2>5, <2>6 DEF HoldInv, Stable, Adding, Nobody, Act
<1> QED BY <1>5, <1>6, <1>7, <1>8, <1>9, <1>10, <1>11 DEF Acting

LEMMA HoldHear ==
    ASSUME NEW c \in Conn, TypeOK, KeyInv(c), HoldInv(c), Hear(c)
    PROVE  HoldInv(c)'
<1>1. /\ look'[c].pc = "all" /\ act'[c].pc \in {"idle", "joy", "that"}
      /\ seen' = seen
  BY DEF Hear, TypeOK, Lookup, Look, Act, Nobody
<1>2. \A j \in Id : Unborn(c, j)' => Unborn(c, j)
  BY UnbornStep DEF KeyInv
<1>3. Stable(c)' /\ Listless(c)' /\ Choiceless(c)'
  BY <1>1 DEF Stable, Listless, Choiceless, Listing, Chosen
<1>4. (\A k \in Text : \A j \in seen[k] : ~Unborn(c, j))'
  BY <1>1, <1>2 DEF HoldInv, TypeOK
<1> QED BY <1>1, <1>3, <1>4 DEF HoldInv

\* The choice of a lookup, from its list.
LEMMA LookChoice ==
    ASSUME NEW c \in Conn, TypeOK, Pick(c) \/ Follow(c)
    PROVE  \E i \in Id \cup {None} :
              /\ Chooses(Sought(c), look[c].got, i)
              /\ \/ look'[c].pc = "toss" /\ Pick(c) /\ look'[c].id = i
                    /\ i \in DOMAIN look[c].got /\ look'[c].got = look[c].got[i]
                 \/ look'[c].pc \in {"idle", "all", "resolve"}
<1> DEFINE w == look[c]
<1>0. PICK I \in SUBSET Id : w.got \in [I -> Fact]
  BY LookIs DEF Pick, Follow
<1>1. CASE Pick(c)
  <2>1. PICK i \in Id \cup {None} :
          /\ Choose(KeyOf(c), w.got, i)
          /\ look' = [look EXCEPT ![c] =
                IF i # None THEN Look("toss", w.ch, w.keys, None, i, w.got[i], <<>>)
                ELSE IF w.short # None THEN Look("all", w.ch, {w.short}, None, None, None, <<>>)
                ELSE Nothing]
    BY <1>1 DEF Pick
  <2>2. Chooses(Sought(c), w.got, i)
    BY <1>0, <1>1, <2>1, ChooseIs DEF Sought, Pick
  <2>3. i # None => i \in DOMAIN w.got
    BY <2>1 DEF Choose
  <2>4. CASE i # None
    <3>1. look'[c] = Look("toss", w.ch, w.keys, None, i, w.got[i], <<>>)
      BY <2>1, <2>4 DEF TypeOK
    <3> QED BY <1>1, <2>2, <2>3, <2>4, <3>1 DEF Look
  <2>5. CASE i = None
    <3>1. look'[c].pc \in {"idle", "all"}
      BY <2>1, <2>5 DEF TypeOK, Look, Nothing
    <3> QED BY <2>2, <3>1
  <2> QED BY <2>4, <2>5
<1>2. CASE Follow(c)
  <2>1. PICK i \in Id \cup {None} :
          /\ Choose(Head(w.rest), w.got, i)
          /\ look' = [look EXCEPT ![c] =
                Look("resolve", w.ch, w.keys, None, w.id, None,
                     (IF i = None THEN <<>> ELSE w.got[i].val) \o Tail(w.rest))]
    BY <1>2 DEF Follow
  <2>2. look'[c].pc = "resolve"
    BY <2>1 DEF TypeOK, Look
  <2>3. Sought(c) = Head(w.rest)
    BY <1>2 DEF Sought, Follow
  <2> QED BY <1>0, <2>1, <2>2, <2>3, ChooseIs
<1> QED BY <1>1, <1>2

LEMMA SoughtText == ASSUME NEW c \in Conn, TypeOK, Listing(c) PROVE Sought(c) \in Text
<1>1. CASE look[c].pc = "pick"
  BY <1>1, KeyOfIs DEF Sought
<1>2. CASE look[c].pc = "follow"
  BY <1>2, LookIs, Constants DEF Sought, Value
<1> QED BY <1>1, <1>2 DEF Listing

LEMMA HoldLooking ==
    ASSUME NEW c \in Conn, TypeOK, KeyInv(c), HoldInv(c), Looking(c)
    PROVE  HoldInv(c)'
<1> DEFINE a == act[c]
           w == look[c]
           Born == \A k \in Text : \A j \in seen[k] : ~Unborn(c, j)
<1>0. act' = act /\ next' = next /\ w.pc # "idle"
  BY DEF Looking, All, Pick, Unlucky, Lucky, Access, Resolve, Follow, Reply
<1>1. \A j : Unborn(c, j)' <=> Unborn(c, j)
  BY <1>0 DEF Unborn, Adding
<1>2. ASSUME seen' = seen PROVE Born'
  BY <1>1, <1>2 DEF HoldInv
<1>3. ASSUME store' = store, ~Listing(c)' PROVE Stable(c)'
  <2>1. \A k : Under(k)' = Under(k)
    BY <1>3 DEF Under
  <2> QED BY <1>0, <1>3, <2>1 DEF Stable, HoldInv, Adding
<1>4. ASSUME NEW k, look'[c].got = GetAll(k), store' = store, Listing(c)', Sought(c)' = k
      PROVE  Stable(c)' /\ Listless(c)'
  <2>1. \A h : Under(h)' = Under(h)
    BY <1>4 DEF Under
  <2>2. DOMAIN GetAll(k) = Under(k) /\ Under(k) \subseteq DOMAIN store
    BY DEF GetAll, Under
  <2>3. Stable(c)'
    BY <1>0, <1>4, <2>1, <2>2 DEF Stable, HoldInv, Adding
  <2>4. Listless(c)'
    BY <1>4, <2>2 DEF Listless
  <2> QED BY <2>3, <2>4
<1>5. CASE All(c)
  <2>1. look'[c] = Look("pick", w.ch, w.keys, w.short, None, GetAll(KeyOf(c)), <<>>)
    BY <1>5 DEF All, TypeOK
  <2>2. KeyOf(c)' = KeyOf(c)
    BY <2>1 DEF KeyOf, Look
  <2>3. /\ look'[c].got = GetAll(KeyOf(c)) /\ Listing(c)' /\ ~Chosen(c)'
        /\ Sought(c)' = KeyOf(c)
    BY <2>1, <2>2 DEF Look, Listing, Chosen, Sought
  <2>4. store' = store /\ seen' = seen
    BY <1>5 DEF All
  <2> QED BY <1>0, <1>2, <1>4, <2>3, <2>4 DEF HoldInv, Choiceless
<1>6. CASE Resolve(c)
  <2>1. store' = store /\ seen' = seen
    BY <1>6 DEF Resolve
  <2>2. CASE look'[c].pc = "resolve"
    BY <1>0, <1>2, <1>3, <2>1, <2>2 DEF HoldInv, Listless, Choiceless, Listing, Chosen
  <2>3. CASE look'[c].pc # "resolve"
    <3>1. look'[c].pc = "follow" /\ look'[c].got = GetAll(Head(w.rest)) /\ look'[c].rest = w.rest
      BY <1>6, <2>3 DEF Resolve, TypeOK, Look
    <3>2. Listing(c)' /\ ~Chosen(c)' /\ Sought(c)' = Head(w.rest)
      BY <3>1 DEF Listing, Chosen, Sought
    <3> QED BY <1>0, <1>2, <1>4, <2>1, <3>1, <3>2 DEF HoldInv, Choiceless
  <2> QED BY <2>2, <2>3
<1>7. CASE Pick(c) \/ Follow(c)
  <2>1. PICK i \in Id \cup {None} :
              /\ Chooses(Sought(c), w.got, i)
              /\ \/ look'[c].pc = "toss" /\ Pick(c) /\ look'[c].id = i
                    /\ i \in DOMAIN w.got /\ look'[c].got = w.got[i]
                 \/ look'[c].pc \in {"idle", "all", "resolve"}
    BY <1>7, LookChoice
  <2>2. store' = store /\ ~Listing(c)' /\ Listing(c)
    BY <1>7, <2>1 DEF Pick, Follow, Listing
  <2>3. Sought(c) \in Text
    BY <2>2, SoughtText
  <2>4. PICK I \in SUBSET Id : w.got \in [I -> Fact]
    BY <1>7, LookIs DEF Pick, Follow
  <2>5. \A j \in DOMAIN w.got : Known(c, j, w.got[j].key)
    BY <2>2 DEF Known
  <2>6. \A h \in Text : \A j \in seen'[h] : ~Unborn(c, j)
    BY <2>1, <2>3, <2>4, <2>5, ChooseKnown DEF HoldInv
  <2>7. Born'
    BY <1>1, <2>6
  <2>8. Choiceless(c)'
    <3>1. SUFFICES ASSUME look'[c].pc = "toss", look'[c].id \notin DOMAIN store
                   PROVE  /\ a = Nobody
                          /\ \A k \in {look'[c].got.key, Any} : k \in lost' \/ look'[c].id \notin seen'[k]
      BY <1>0, <2>1, <2>2 DEF Choiceless, Chosen
    <3>2. look'[c].id = i /\ i \in DOMAIN w.got /\ look'[c].got = w.got[i]
      BY <2>1, <3>1
    <3>3. a = Nobody /\ {w.got[i].key, Any} \subseteq lost
      BY <2>2, <3>1, <3>2 DEF HoldInv, Listless
    <3>4. seen \in [Text -> SUBSET Id]
      BY DEF TypeOK
    <3>5. \/ seen'[Sought(c)] = {} /\ lost' = lost \ {Sought(c)}
          \/ lost' = lost
      BY <2>1, <2>3, <3>4 DEF Chooses
    <3> QED BY <3>2, <3>3, <3>5
  <2> QED BY <1>0, <1>3, <2>2, <2>7, <2>8 DEF HoldInv, Listless
<1>8. CASE Unlucky(c) \/ Reply(c)
  <2>1. look'[c].pc = "idle" /\ store' = store /\ seen' = seen
    BY <1>8 DEF Unlucky, Reply, TypeOK, Nothing, Look
  <2> QED BY <1>0, <1>2, <1>3, <2>1 DEF HoldInv, Listless, Choiceless, Listing, Chosen
<1>9. CASE Lucky(c)
  <2>1. look'[c] = Look("put", w.ch, w.keys, None, w.id, w.got, <<>>)
    BY <1>9 DEF Lucky, TypeOK
  <2>2. store' = store /\ seen' = seen /\ lost' = lost /\ w.pc = "toss"
    BY <1>9 DEF Lucky
  <2>3. Choiceless(c)'
    BY <1>0, <2>1, <2>2 DEF HoldInv, Choiceless, Chosen, Look
  <2> QED BY <1>0, <1>2, <1>3, <2>1, <2>2, <2>3 DEF HoldInv, Listless, Listing, Look
<1>10. CASE Access(c)
  <2>1. /\ look'[c].pc = "resolve" /\ seen' = seen /\ w.pc = "put"
        /\ DOMAIN store \subseteq DOMAIN store'
    BY <1>10 DEF Access, TypeOK, Look, Put
  <2>2. Stable(c)'
    <3>1. CASE Adding(c)
      <4>1. w.id \in DOMAIN store
        BY <2>1, <3>1 DEF HoldInv, Choiceless, Chosen, Adding, Nobody, Act
      <4>2. \A k : Under(k)' = Under(k)
        BY <1>10, <4>1, AccessIs
      <4> QED BY <1>0, <2>1, <4>2 DEF Stable, HoldInv, Adding, Listing
    <3>2. CASE ~Adding(c)
      BY <1>0, <3>2 DEF Stable, Adding
    <3> QED BY <3>1, <3>2
  <2> QED BY <1>0, <1>2, <2>1, <2>2 DEF HoldInv, Listless, Choiceless, Listing, Chosen
<1> QED BY <1>5, <1>6, <1>7, <1>8, <1>9, <1>10 DEF Looking

\* A choice leaves something of the list to be chosen.
LEMMA AnswersChoose ==
    ASSUME NEW k \in Text, NEW F, NEW i, TypeOK, Answers, Chooses(k, F, i), store' = store,
           \A j \in DOMAIN F : j \in Under(k) \/ k \in lost
    PROVE  Answers'
<1>0. seen \in [Text -> SUBSET Id]
  BY DEF TypeOK
<1>1. \A h : Under(h)' = Under(h)
  BY DEF Under
<1> SUFFICES ASSUME NEW h \in Text, Under(h) # {}, Under(h) \subseteq seen'[h]
             PROVE  h \in lost'
  BY <1>1 DEF Answers
<1>2. CASE h # k
  <2>1. seen'[h] = seen[h] /\ (h \in lost => h \in lost')
    BY <1>0, <1>2 DEF Chooses
  <2> QED BY <2>1 DEF Answers
<1>3. CASE h = k /\ seen'[k] = {}
  BY <1>3
<1>4. CASE h = k /\ seen'[k] # {}
  <2>1. /\ \E j \in DOMAIN F \ seen[k] : j # i
        /\ seen'[k] = seen[k] \cup {i} /\ lost' = lost
    BY <1>0, <1>4 DEF Chooses
  <2>2. PICK j \in DOMAIN F : j \notin seen'[k]
    BY <2>1
  <2>3. j \notin Under(k)
    BY <1>4, <2>2
  <2> QED BY <1>4, <2>1, <2>3
<1> QED BY <1>2, <1>3, <1>4

LEMMA AnswersStep ==
    ASSUME NEW c \in Conn, TypeOK, KeyInv(c), HoldInv(c), Answers,
           Hear(c) \/ Acting(c) \/ Looking(c)
    PROVE  Answers'
<1> DEFINE a == act[c]
           w == look[c]
<1>1. ASSUME \A k : Under(k)' = Under(k), seen' = seen, lost' = lost
      PROVE  Answers'
  BY <1>1 DEF Answers
<1>2. ASSUME store' = store PROVE \A k : Under(k)' = Under(k)
  BY <1>2 DEF Under
<1>3. CASE Hear(c) \/ Joy(c) \/ Taught(c) \/ That(c) \/ Get(c)
  <2>1. UNCHANGED <<store, seen, lost>>
    BY <1>3 DEF Hear, Joy, Taught, That, Get
  <2> QED BY <1>1, <1>2, <2>1
<1>4. CASE Woo(c)
  <2>1. PICK i \in Id \cup {None} : Choose(Woot, a.got, i)
    BY <1>4 DEF Woo
  <2>2. PICK I \in SUBSET Id : a.got \in [I -> Fact]
    BY <1>4, ActIs DEF Woo
  <2>3. Chooses(Woot, a.got, i)
    BY <2>1, <2>2, ChooseIs
  <2>4. DOMAIN a.got = Under(Woot) /\ store' = store
    BY <1>4 DEF Woo, HoldInv, Stable, Adding
  <2> QED BY <2>3, <2>4, AnswersChoose, Constants
<1>5. CASE Insert(c)
  <2>1. PICK f : store' = Put(a.id, f) /\ f.key = a.line.key
    BY <1>5 DEF Insert
  <2>2. a.id \in Id /\ Unborn(c, a.id) /\ seen' = seen /\ lost' = lost
    BY <1>5, ActIs DEF Insert, Unborn, Adding
  <2>3. \A k \in Text : a.id \notin seen[k]
    BY <2>2 DEF HoldInv
  <2>4. a.id \notin DOMAIN store
    BY <2>2, FactKeys DEF KeyInv, Gone, Known
  <2>5. \A k : Under(k)' = Under(k) \cup (IF k \in {a.line.key, Any} THEN {a.id} ELSE {})
    BY <2>1, <2>4 DEF Under, Put
  <2> QED BY <2>2, <2>3, <2>5 DEF Answers
<1>6. CASE Change(c)
  <2>1. seen' = seen /\ lost' = lost
    BY <1>6 DEF Change
  <2> QED BY <1>1, <1>6, <2>1, ChangeIs
<1>7. CASE Forget(c)
  <2>1. /\ store' = Del(a.id) /\ seen' = seen /\ lost' = lost \cup {a.got.key, Any}
        /\ a.pc = "change"
    BY <1>7 DEF Forget
  <2>2. a.id \in DOMAIN store /\ Known(c, a.id, a.got.key) /\ a.got.key \in Key
    BY <2>1, FactKeys DEF HoldInv, Known
  <2>3. store[a.id].key = a.got.key
    BY <2>2, Agree DEF KeyInv
  <2>4. \A k : k \notin {a.got.key, Any} => Under(k)' = Under(k)
    BY <2>1, <2>3 DEF Under, Del
  <2> QED BY <2>1, <2>4 DEF Answers
<1>8. CASE All(c) \/ Unlucky(c) \/ Lucky(c) \/ Resolve(c) \/ Reply(c)
  <2>1. UNCHANGED <<store, seen, lost>>
    BY <1>8 DEF All, Unlucky, Lucky, Resolve, Reply
  <2> QED BY <1>1, <1>2, <2>1
<1>9. CASE Pick(c) \/ Follow(c)
  <2>1. PICK i \in Id \cup {None} : Chooses(Sought(c), w.got, i)
    BY <1>9, LookChoice
  <2>2. store' = store /\ Listing(c)
    BY <1>9 DEF Pick, Follow, Listing
  <2>3. Sought(c) \in Text
    BY <2>2, SoughtText
  <2>4. ASSUME NEW j \in DOMAIN w.got PROVE j \in Under(Sought(c)) \/ Sought(c) \in lost
    <3>1. Sought(c) \in {w.got[j].key, Any}
      BY <2>2 DEF KeyInv, Listed
    <3>2. CASE j \notin DOMAIN store
      BY <2>2, <3>1, <3>2 DEF HoldInv, Listless
    <3>3. CASE j \in DOMAIN store
      <4>1. w.got[j].key \in Key /\ Known(c, j, w.got[j].key)
        BY <2>2, FactKeys DEF Known
      <4>2. store[j].key = w.got[j].key
        BY <3>3, <4>1, Agree DEF KeyInv
      <4> QED BY <3>1, <3>3, <4>2 DEF Under
    <3> QED BY <3>2, <3>3
  <2> QED BY <2>1, <2>2, <2>3, <2>4, AnswersChoose
<1>10. CASE Access(c)
  <2>1. store' = Put(w.id, w.got) /\ seen' = seen /\ lost' = lost /\ Chosen(c)
    BY <1>10 DEF Access, Chosen
  <2>2. CASE w.id \in DOMAIN store
    BY <1>1, <1>10, <2>1, <2>2, AccessIs
  <2>3. CASE w.id \notin DOMAIN store
    <3>1. \A k \in {w.got.key, Any} : k \in lost \/ w.id \notin seen[k]
      BY <2>1, <2>3 DEF HoldInv, Choiceless
    <3>2. \A k : Under(k)' = Under(k) \cup (IF k \in {w.got.key, Any} THEN {w.id} ELSE {})
      BY <2>1, <2>3 DEF Under, Put
    <3> QED BY <2>1, <3>1, <3>2 DEF Answers
  <2> QED BY <2>2, <2>3
<1> QED BY <1>3, <1>4, <1>5, <1>6, <1>7, <1>8, <1>9, <1>10 DEF Acting, Looking

SeenInv(c) == TypeOK /\ KeyInv(c) /\ HoldInv(c) /\ Answers

LEMMA SeenStep ==
    ASSUME NEW c, Conn = {c}
    PROVE  /\ Init => SeenInv(c)
           /\ SeenInv(c) /\ [Next]_vars => SeenInv(c)'
<1>0. c \in Conn
  OBVIOUS
<1>1. Init => SeenInv(c)
  BY <1>0, InitType, KeyInit, HoldInit DEF SeenInv
<1>2. ASSUME SeenInv(c), [Next]_vars PROVE SeenInv(c)'
  <2>1. CASE UNCHANGED vars
    <3>1. KeyInv(c)'
      BY <1>2, <2>1 DEF SeenInv, vars, KeyInv, OneKey, Listed, Known, Gone, Unborn, Adding,
                        Listing, Chosen, Sought, KeyOf
    <3>2. HoldInv(c)' /\ Answers'
      BY <1>2, <2>1 DEF SeenInv, vars, HoldInv, Stable, Listless, Choiceless, Answers, Under,
                        Unborn, Adding, Listing, Chosen, Sought, KeyOf
    <3> QED BY <1>2, <3>1, <3>2, TypeStep DEF SeenInv
  <2>2. CASE Next
    <3>1. Hear(c) \/ Acting(c) \/ Looking(c)
      BY <2>2 DEF Next
    <3>2. KeyInv(c)' /\ HoldInv(c)' /\ Answers'
      BY <1>0, <1>2, <3>1, KeyStep, HoldHear, HoldActing, HoldLooking, AnswersStep DEF SeenInv
    <3> QED BY <1>2, <3>2, TypeStep DEF SeenInv
  <2> QED BY <1>2, <2>1, <2>2
<1> QED BY <1>1, <1>2

\* With one connection, a key's factoids are all in the cache of those it had only
\* when one of them was forgotten in this round.
THEOREM KeysAnswer ==
    ASSUME NEW c, Conn = {c}
    PROVE  Spec => []Answers
<1>1. SeenInv(c) => Answers
  BY DEF SeenInv
<1> QED BY <1>1, SeenStep, PTL DEF Spec

-----------------------------------------------------------------------------
(* The choice is fair, with one connection. *)

\* A list has the factoids that were passed over for one of its key and are left.
Lists(c, k, F) ==
    \A i \in Id, j \in Id \ DOMAIN F : Gone(c, j) \/ streak[k][<<i, j>>] = 0

\* i may have had two turns since j only if j is to have its own in this round, or
\* none ever; after j's turn i's is in the same round.
Bounded(c) == \A k \in Text : \A i, j \in Id :
    /\ streak[k][<<i, j>>] \in 0 .. 2
    /\ \/ streak[k][<<i, j>>] <= 1
       \/ i \in seen[k] /\ j \notin seen[k]
       \/ Gone(c, j)
    /\ j \in seen[k] /\ i \notin seen[k] => streak[k][<<i, j>>] = 0

\* Only factoids of a key are passed over when it is looked up.
Related(c) == \A k \in Text : \A i, j \in Id :
    streak[k][<<i, j>>] # 0 => /\ ~Unborn(c, j)
                               /\ \A h \in Key : Known(c, j, h) => k \in {h, Any}

StreakInv(c) ==
    /\ Bounded(c)
    /\ Related(c)
    /\ Listing(c) => Lists(c, Sought(c), look[c].got)
    /\ act[c].pc = "woo" => Lists(c, Woot, act[c].got)

LEMMA StreakInit == ASSUME NEW c \in Conn, Init PROVE StreakInv(c)
<1>1. \A k \in Text : \A i, j \in Id : streak[k][<<i, j>>] = 0
  BY DEF Init
<1>2. ~Listing(c) /\ act[c].pc # "woo"
  BY DEF Init, Listing, Nobody, Nothing, Act, Look
<1> QED BY <1>1, <1>2 DEF StreakInv, Bounded, Related

LEMMA PassedIs ==
    ASSUME NEW k, NEW F, NEW i \in Id, NEW x \in Id, NEW y \in Id
    PROVE  Passed(k, F, i)[<<x, y>>] =
              IF x = i /\ y \in DOMAIN F \ {i}
              THEN (IF streak[k][<<x, y>>] = 3 THEN 3 ELSE streak[k][<<x, y>>] + 1)
              ELSE IF x = i \/ y = i THEN 0 ELSE streak[k][<<x, y>>]
BY DEF Passed

\* What a choice does to one pair of factoids.
LEMMA ChooseStreak ==
    ASSUME TypeOK, NEW k \in Text, NEW I \in SUBSET Id, NEW F \in [I -> Fact], NEW i,
           Chooses(k, F, i), NEW x \in Id, NEW y \in Id
    PROVE  /\ \A h \in Text \ {k} : streak'[h][<<x, y>>] = streak[h][<<x, y>>]
           /\ i \notin Id => streak'[k][<<x, y>>] = streak[k][<<x, y>>]
           /\ i \in Id => streak'[k][<<x, y>>] =
                 IF x = i /\ y \in DOMAIN F \ {i}
                 THEN (IF streak[k][<<x, y>>] = 3 THEN 3 ELSE streak[k][<<x, y>>] + 1)
                 ELSE IF x = i \/ y = i THEN 0 ELSE streak[k][<<x, y>>]
<1>1. streak \in [Text -> [Id \X Id -> 0 .. 3]]
  BY DEF TypeOK
<1>2. \/ i \notin Id /\ streak' = streak
      \/ i \in Id /\ streak' = [streak EXCEPT ![k] = Passed(k, F, i)]
  BY Constants DEF Chooses
<1>3. CASE i \notin Id
  BY <1>2, <1>3
<1>4. CASE i \in Id
  <2>1. streak'[k] = Passed(k, F, i) /\ \A h \in Text \ {k} : streak'[h] = streak[h]
    BY <1>1, <1>2, <1>4
  <2> QED BY <1>4, <2>1, PassedIs
<1> QED BY <1>3, <1>4

\* Those that are not in the list have no turn to wait for.
LEMMA ChooseOut ==
    ASSUME TypeOK, NEW k \in Text, NEW I \in SUBSET Id, NEW F \in [I -> Fact], NEW i,
           Chooses(k, F, i), NEW h \in Text, NEW x \in Id, NEW y \in Id, h # k \/ y \notin DOMAIN F
    PROVE  streak'[h][<<x, y>>] \in {0, streak[h][<<x, y>>]}
<1>1. CASE h # k
  BY <1>1, ChooseStreak
<1>2. CASE h = k
  <2>1. i \in Id => y # i
    BY <1>2, Constants DEF Chooses
  <2> QED BY <1>2, <2>1, ChooseStreak
<1> QED BY <1>1, <1>2

LEMMA ChooseBounded ==
    ASSUME NEW c \in Conn, TypeOK, Bounded(c), NEW k \in Text, NEW I \in SUBSET Id,
           NEW F \in [I -> Fact], NEW i, Chooses(k, F, i), Lists(c, k, F),
           \A j \in DOMAIN F : ~Gone(c, j), \A j : Gone(c, j) => Gone(c, j)'
    PROVE  Bounded(c)'
<1>0. seen \in [Text -> SUBSET Id] /\ \A h \in Text \ {k} : seen'[h] = seen[h]
  BY DEF TypeOK, Chooses
<1> SUFFICES ASSUME NEW h \in Text, NEW x \in Id, NEW y \in Id
             PROVE  /\ streak'[h][<<x, y>>] \in 0 .. 2
                    /\ \/ streak'[h][<<x, y>>] <= 1
                       \/ x \in seen'[h] /\ y \notin seen'[h]
                       \/ Gone(c, y)'
                    /\ y \in seen'[h] /\ x \notin seen'[h] => streak'[h][<<x, y>>] = 0
  BY DEF Bounded
<1> DEFINE s == streak[k][<<x, y>>]
<1>1. CASE h # k
  <2>1. streak'[h][<<x, y>>] = streak[h][<<x, y>>]
    BY <1>1, ChooseStreak
  <2> QED BY <1>0, <1>1, <2>1 DEF Bounded
<1>2. CASE h = k
  <2>0. /\ s \in 0 .. 2
        /\ s <= 1 \/ (x \in seen[k] /\ y \notin seen[k]) \/ Gone(c, y)
        /\ y \in seen[k] /\ x \notin seen[k] => s = 0
        /\ y \notin DOMAIN F => Gone(c, y) \/ s = 0
    BY DEF Bounded, Lists
  <2>1. \/ /\ \A u, v \in DOMAIN F \ seen[k] : u = v
           /\ seen'[k] = {}
        \/ /\ \E j \in DOMAIN F \ seen[k] : j # i
           /\ i \in DOMAIN F \ seen[k]
           /\ seen'[k] = seen[k] \cup {i}
    BY <1>0 DEF Chooses
  <2>2. i \in DOMAIN F \ seen[k] \/ (i \notin Id /\ DOMAIN F \ seen[k] = {})
    BY Constants DEF Chooses
  <2>3. CASE i \notin Id
    <3>1. streak'[k][<<x, y>>] = s /\ seen'[k] = {} /\ (y \in DOMAIN F => y \in seen[k])
      BY <2>1, <2>2, <2>3, ChooseStreak
    <3> QED BY <1>2, <2>0, <3>1
  <2>4. CASE i \in Id
    <3>1. i \in DOMAIN F /\ i \notin seen[k]
      BY <2>2, <2>4
    <3>2. streak'[k][<<x, y>>] =
             IF x = i /\ y \in DOMAIN F \ {i} THEN (IF s = 3 THEN 3 ELSE s + 1)
             ELSE IF x = i \/ y = i THEN 0 ELSE s
      BY <2>4, ChooseStreak
    <3>3. CASE x = i /\ y \in DOMAIN F \ {i}
      <4>1. s <= 1 /\ streak'[k][<<x, y>>] = s + 1 /\ (y \in seen[k] => s = 0)
        BY <2>0, <3>1, <3>2, <3>3
      <4>2. CASE seen'[k] = {}
        <5>1. y \in seen[k]
          BY <2>1, <3>1, <3>3, <4>2
        <5> QED BY <1>2, <4>1, <4>2, <5>1
      <4>3. CASE seen'[k] = seen[k] \cup {i}
        BY <1>2, <2>0, <3>3, <4>1, <4>3
      <4> QED BY <2>1, <4>2, <4>3
    <3>4. CASE (x = i /\ y \notin DOMAIN F \ {i}) \/ y = i
      <4>1. streak'[k][<<x, y>>] = 0
        BY <3>2, <3>4
      <4> QED BY <1>2, <4>1
    <3>5. CASE x # i /\ y # i
      <4>1. streak'[k][<<x, y>>] = s
        BY <3>2, <3>5
      <4>2. CASE seen'[k] = {}
        <5>1. y \in DOMAIN F => y \in seen[k]
          BY <2>1, <3>1, <3>5, <4>2
        <5> QED BY <1>2, <2>0, <4>1, <4>2, <5>1
      <4>3. CASE seen'[k] = seen[k] \cup {i}
        BY <1>2, <2>0, <3>5, <4>1, <4>3
      <4> QED BY <2>1, <4>2, <4>3
    <3> QED BY <3>3, <3>4, <3>5
  <2> QED BY <2>3, <2>4
<1> QED BY <1>1, <1>2

\* What is gone stays gone; only an addition is new, and it was never passed over.
LEMMA GoneStep ==
    ASSUME NEW c \in Conn, TypeOK, KeyInv(c), Related(c), Hear(c) \/ Acting(c) \/ Looking(c)
    PROVE  /\ ~Insert(c) => \A j : Gone(c, j) => Gone(c, j)'
           /\ \A k \in Text : \A i, j \in Id :
                 Gone(c, j) => Gone(c, j)' \/ streak[k][<<i, j>>] = 0
<1>1. ~Insert(c) => \A j : Gone(c, j) => Gone(c, j)'
  BY KnownStep DEF Gone
<1>2. CASE ~Insert(c)
  BY <1>1, <1>2
<1>3. CASE Insert(c)
  <2>1. /\ store' = Put(act[c].id, [key |-> act[c].line.key, val |-> act[c].line.val, sure |-> TRUE])
        /\ act'[c].pc = "taught" /\ look' = look /\ act[c].pc = "put"
    BY <1>3 DEF Insert, TypeOK, Act
  <2>2. \A j, k : Known(c, j, k)' => Known(c, j, k) \/ j = act[c].id
    BY <2>1 DEF Known, Put, Listing, Chosen
  <2>3. \A j : Gone(c, j) => Gone(c, j)' \/ Unborn(c, j)
    BY <2>1, <2>2 DEF Gone, Unborn, Adding
  <2> QED BY <1>3, <2>3 DEF Related
<1> QED BY <1>1, <1>2, <1>3

\* Steps that choose nothing.
LEMMA QuietStep ==
    ASSUME NEW c \in Conn, TypeOK, KeyInv(c), StreakInv(c), Hear(c) \/ Acting(c) \/ Looking(c),
           seen' = seen, streak' = streak
    PROVE  /\ Bounded(c)' /\ Related(c)'
           /\ \A k \in Text : \A F : Lists(c, k, F) => Lists(c, k, F)'
<1>1. \A k \in Text : \A i, j \in Id : Gone(c, j) => Gone(c, j)' \/ streak[k][<<i, j>>] = 0
  BY GoneStep DEF StreakInv
<1>2. Bounded(c)'
  <2> SUFFICES ASSUME NEW k \in Text, NEW i \in Id, NEW j \in Id
               PROVE  /\ streak[k][<<i, j>>] \in 0 .. 2
                      /\ \/ streak[k][<<i, j>>] <= 1
                         \/ i \in seen[k] /\ j \notin seen[k]
                         \/ Gone(c, j)'
                      /\ j \in seen[k] /\ i \notin seen[k] => streak[k][<<i, j>>] = 0
    BY DEF Bounded
  <2>1. /\ streak[k][<<i, j>>] \in 0 .. 2
        /\ \/ streak[k][<<i, j>>] <= 1
           \/ i \in seen[k] /\ j \notin seen[k]
           \/ Gone(c, j)
        /\ j \in seen[k] /\ i \notin seen[k] => streak[k][<<i, j>>] = 0
    BY DEF StreakInv, Bounded
  <2>2. Gone(c, j) => Gone(c, j)' \/ streak[k][<<i, j>>] = 0
    BY <1>1
  <2> QED BY <2>1, <2>2
<1>3. ASSUME NEW k \in Text, NEW F, Lists(c, k, F) PROVE Lists(c, k, F)'
  BY <1>1, <1>3 DEF Lists
<1>4. Related(c)'
  <2>1. \A j \in Id : Unborn(c, j)' => Unborn(c, j)
    BY UnbornStep DEF KeyInv
  <2>2. ASSUME NEW j \in Id, NEW h \in Key, Known(c, j, h)'
        PROVE  Known(c, j, h) \/ Unborn(c, j)
    <3>1. CASE ~Insert(c)
      BY <2>2, <3>1, KnownStep
    <3>2. CASE Insert(c)
      <4>1. /\ store' = Put(act[c].id, [key |-> act[c].line.key, val |-> act[c].line.val, sure |-> TRUE])
            /\ act'[c].pc = "taught" /\ look' = look /\ act[c].pc = "put"
        BY <3>2 DEF Insert, TypeOK, Act
      <4>2. Known(c, j, h) \/ j = act[c].id
        BY <2>2, <4>1 DEF Known, Put, Listing, Chosen
      <4> QED BY <4>1, <4>2 DEF Unborn, Adding
    <3> QED BY <3>1, <3>2
  <2> QED BY <2>1, <2>2 DEF StreakInv, Related
<1> QED BY <1>2, <1>3, <1>4

\* While the lookup has no list, and before the addition takes one, all that is known
\* is in the collection.
LEMMA NewList ==
    ASSUME NEW c \in Conn, TypeOK, KeyInv(c), HoldInv(c), Related(c), NEW k \in Text,
           look[c].pc \in {"all", "resolve"} \/ act[c].pc = "joy",
           NEW F, F = GetAll(k)
    PROVE  Lists(c, k, F)
<1> SUFFICES ASSUME NEW i \in Id, NEW j \in Id, j \notin DOMAIN F, ~Gone(c, j)
             PROVE  streak[k][<<i, j>>] = 0
  BY DEF Lists
<1>1. PICK h \in Key : Known(c, j, h)
  BY DEF Gone
<1>2. j \in DOMAIN store
  <2>1. CASE act[c].pc = "joy"
    <3>1. act[c] # Nobody /\ act[c].pc # "woo" /\ act[c].pc # "change"
      BY <2>1 DEF Nobody, Act
    <3> QED BY <1>1, <3>1 DEF Known, HoldInv, Listless, Choiceless
  <2>2. CASE look[c].pc \in {"all", "resolve"}
    <3>1. ~Listing(c) /\ ~Chosen(c)
      BY <2>2 DEF Listing, Chosen
    <3>2. act[c].pc = "woo" => DOMAIN act[c].got \subseteq DOMAIN store
      BY DEF HoldInv, Stable, Adding, Under
    <3> QED BY <1>1, <3>1, <3>2 DEF Known, HoldInv
  <2> QED BY <2>1, <2>2
<1>3. Known(c, j, store[j].key) /\ store[j].key \in Key
  BY <1>2, FactKeys DEF Known
<1>4. k \notin {store[j].key, Any}
  BY <1>2 DEF GetAll, Under
<1> QED BY <1>3, <1>4 DEF Related

LEMMA ChooseRelated ==
    ASSUME NEW c \in Conn, TypeOK, KeyInv(c), Related(c), Hear(c) \/ Acting(c) \/ Looking(c),
           ~Insert(c), NEW k \in Text, NEW I \in SUBSET Id, NEW F \in [I -> Fact], NEW i,
           Chooses(k, F, i),
           \A j \in DOMAIN F : Known(c, j, F[j].key) /\ k \in {F[j].key, Any}
    PROVE  Related(c)'
<1>1. \A j \in Id : Unborn(c, j)' => Unborn(c, j)
  BY UnbornStep DEF KeyInv
<1>2. \A j, h : Known(c, j, h)' => Known(c, j, h)
  BY KnownStep
<1> SUFFICES ASSUME NEW h \in Text, NEW x \in Id, NEW y \in Id, streak'[h][<<x, y>>] # 0
             PROVE  ~Unborn(c, y) /\ \A g \in Key : Known(c, y, g) => h \in {g, Any}
  BY <1>1, <1>2 DEF Related
<1>3. CASE h # k \/ y \notin DOMAIN F
  <2>1. streak[h][<<x, y>>] # 0
    BY <1>3, ChooseOut
  <2> QED BY <2>1 DEF Related
<1>4. CASE h = k /\ y \in DOMAIN F
  <2>1. F[y].key \in Key /\ Known(c, y, F[y].key)
    BY <1>4 DEF Fact
  <2>2. ~Unborn(c, y)
    BY <2>1 DEF KeyInv, Gone
  <2>3. \A g \in Key : Known(c, y, g) => g = F[y].key
    BY <2>1 DEF KeyInv, OneKey
  <2> QED BY <1>4, <2>2, <2>3
<1> QED BY <1>3, <1>4

\* A list as long as the one chosen from, or of another key, stays one.
LEMMA ChooseLists ==
    ASSUME NEW c \in Conn, TypeOK, NEW k \in Text, NEW I \in SUBSET Id, NEW F \in [I -> Fact],
           NEW i, Chooses(k, F, i), \A j : Gone(c, j) => Gone(c, j)',
           NEW h \in Text, NEW G, Lists(c, h, G), h # k \/ DOMAIN G = DOMAIN F
    PROVE  Lists(c, h, G)'
<1> SUFFICES ASSUME NEW x \in Id, NEW y \in Id \ DOMAIN G
             PROVE  Gone(c, y)' \/ streak'[h][<<x, y>>] = 0
  BY DEF Lists
<1>1. streak'[h][<<x, y>>] \in {0, streak[h][<<x, y>>]}
  BY ChooseOut
<1> QED BY <1>1 DEF Lists

LEMMA StreakHear ==
    ASSUME NEW c \in Conn, TypeOK, KeyInv(c), StreakInv(c), Hear(c)
    PROVE  StreakInv(c)'
<1>1. /\ seen' = seen /\ streak' = streak
      /\ look'[c].pc = "all" /\ act'[c].pc \in {"idle", "joy", "that"}
  BY DEF Hear, TypeOK, Lookup, Look, Act, Nobody
<1>2. Bounded(c)' /\ Related(c)'
  BY <1>1, QuietStep
<1> QED BY <1>1, <1>2 DEF StreakInv, Listing

LEMMA StreakActing ==
    ASSUME NEW c \in Conn, TypeOK, KeyInv(c), HoldInv(c), StreakInv(c), Acting(c)
    PROVE  StreakInv(c)'
<1> DEFINE a == act[c]
<1> PICK k : k = Sought(c)
  OBVIOUS
<1> PICK G : G = look[c].got
  OBVIOUS
<1>0. /\ look' = look /\ Sought(c)' = k /\ look'[c].got = G
      /\ Listing(c)' = Listing(c)
  <2>1. look' = look
    BY DEF Acting, Joy, Woo, Insert, Taught, That, Get, Change, Forget
  <2>2. KeyOf(c)' = KeyOf(c)
    BY <2>1 DEF KeyOf
  <2> QED BY <2>1, <2>2 DEF Sought, Listing
<1>1. Listing(c) => k \in Text /\ Lists(c, k, G)
  BY SoughtText DEF StreakInv
<1>2. ASSUME ~Woo(c), ~Joy(c)
      PROVE  StreakInv(c)'
  <2>1. seen' = seen /\ streak' = streak /\ act'[c].pc # "woo"
    BY <1>2 DEF Acting, Insert, Taught, That, Get, Change, Forget, TypeOK, Act, Nobody
  <2>2. /\ Bounded(c)' /\ Related(c)'
        /\ Listing(c) => Lists(c, k, G)'
    BY <1>1, <2>1, QuietStep
  <2> QED BY <1>0, <2>1, <2>2 DEF StreakInv, Lists
<1>3. CASE Joy(c)
  <2> PICK F : F = GetAll(Woot)
    OBVIOUS
  <2>1. seen' = seen /\ streak' = streak /\ act'[c].got = F /\ a.pc = "joy"
    BY <1>3 DEF Joy, TypeOK, Act
  <2>2. Lists(c, Woot, F)
    BY <2>1, NewList, Constants DEF StreakInv
  <2>3. /\ Bounded(c)' /\ Related(c)' /\ Lists(c, Woot, F)'
        /\ Listing(c) => Lists(c, k, G)'
    BY <1>1, <2>1, <2>2, QuietStep, Constants
  <2> QED BY <1>0, <2>1, <2>3 DEF StreakInv, Lists
<1>4. CASE Woo(c)
  <2> PICK F : F = a.got
    OBVIOUS
  <2>1. PICK i \in Id \cup {None} : Choose(Woot, F, i)
    BY <1>4 DEF Woo
  <2>2. PICK I \in SUBSET Id : F \in [I -> Fact]
    BY <1>4, ActIs DEF Woo
  <2>3. Chooses(Woot, F, i)
    BY <2>1, <2>2, ChooseIs
  <2>4. a.pc = "woo" /\ act'[c].pc = "put" /\ ~Insert(c)
    BY <1>4 DEF Woo, TypeOK, Act, Insert
  <2>5. \A j : Gone(c, j) => Gone(c, j)'
    BY <2>4, GoneStep DEF StreakInv
  <2>6. \A j \in DOMAIN F : Known(c, j, F[j].key) /\ Woot \in {F[j].key, Any}
    BY <2>4 DEF Known, KeyInv, Listed
  <2>7. \A j \in DOMAIN F : ~Gone(c, j)
    BY <2>2, <2>6 DEF Gone, Fact
  <2>8. Woot \in Text /\ Lists(c, Woot, F)
    BY <2>4, Constants DEF StreakInv
  <2>9. Bounded(c)'
    BY <2>2, <2>3, <2>5, <2>7, <2>8, ChooseBounded DEF StreakInv
  <2>10. Related(c)'
    BY <2>2, <2>3, <2>4, <2>6, <2>8, ChooseRelated DEF StreakInv
  <2>11. Listing(c) => Lists(c, k, G)'
    <3>1. Listing(c) /\ k = Woot => DOMAIN G = DOMAIN F
      BY <2>4 DEF HoldInv, Stable, Adding
    <3> QED BY <1>1, <2>2, <2>3, <2>5, <2>8, <3>1, ChooseLists
  <2> QED BY <1>0, <2>4, <2>9, <2>10, <2>11 DEF StreakInv, Lists
<1> QED BY <1>2, <1>3, <1>4

LEMMA StreakLooking ==
    ASSUME NEW c \in Conn, TypeOK, KeyInv(c), HoldInv(c), StreakInv(c), Looking(c)
    PROVE  StreakInv(c)'
<1> DEFINE w == look[c]
<1> PICK G : G = act[c].got
  OBVIOUS
<1>0. act' = act /\ act'[c].got = G /\ w.pc # "idle"
  BY DEF Looking, All, Pick, Unlucky, Lucky, Access, Resolve, Follow, Reply
<1>1. act[c].pc = "woo" => Woot \in Text /\ Lists(c, Woot, G)
  BY Constants DEF StreakInv
<1>2. ASSUME seen' = seen, streak' = streak
      PROVE  /\ Bounded(c)' /\ Related(c)'
             /\ act'[c].pc = "woo" => Lists(c, Woot, act[c].got)'
  <2>1. /\ Bounded(c)' /\ Related(c)'
        /\ act[c].pc = "woo" => Lists(c, Woot, G)'
    BY <1>1, <1>2, QuietStep
  <2> QED BY <1>0, <2>1 DEF Lists
<1>3. ASSUME seen' = seen, streak' = streak, NEW k \in Text, NEW F, F = GetAll(k),
             w.pc \in {"all", "resolve"}, look'[c].got = F, Sought(c)' = k
      PROVE  Lists(c, Sought(c), look[c].got)'
  <2>1. Lists(c, k, F)
    BY <1>3, NewList DEF StreakInv
  <2>2. Lists(c, k, F)'
    BY <1>3, <2>1, QuietStep
  <2> QED BY <1>3, <2>2 DEF Lists
<1>4. CASE All(c)
  <2> PICK k : k = KeyOf(c)
    OBVIOUS
  <2> PICK F : F = GetAll(k)
    OBVIOUS
  <2>1. look'[c] = Look("pick", w.ch, w.keys, w.short, None, F, <<>>)
    BY <1>4 DEF All, TypeOK
  <2>2. KeyOf(c)' = k
    BY <2>1 DEF KeyOf, Look
  <2>3. look'[c].got = F /\ Sought(c)' = k /\ k \in Text
    BY <1>0, <2>1, <2>2, KeyOfIs DEF Look, Sought
  <2>4. seen' = seen /\ streak' = streak /\ w.pc = "all"
    BY <1>4 DEF All
  <2> QED BY <1>2, <1>3, <2>3, <2>4 DEF StreakInv
<1>5. CASE Resolve(c)
  <2> PICK k : k = Head(w.rest)
    OBVIOUS
  <2> PICK F : F = GetAll(k)
    OBVIOUS
  <2>1. seen' = seen /\ streak' = streak /\ w.pc = "resolve" /\ w.rest # <<>>
    BY <1>5 DEF Resolve
  <2>2. k \in Text
    BY <2>1, LookIs, Constants DEF Value
  <2>3. CASE look'[c].pc = "resolve"
    BY <1>2, <2>1, <2>3 DEF StreakInv, Listing
  <2>4. CASE look'[c].pc # "resolve"
    <3>1. look'[c].pc = "follow" /\ look'[c].got = F /\ look'[c].rest = w.rest
      BY <1>5, <2>4 DEF Resolve, TypeOK, Look
    <3>2. Sought(c)' = k
      BY <3>1 DEF Sought
    <3> QED BY <1>2, <1>3, <2>1, <2>2, <3>1, <3>2 DEF StreakInv
  <2> QED BY <2>3, <2>4
<1>6. CASE Unlucky(c) \/ Lucky(c) \/ Reply(c)
  <2>1. seen' = seen /\ streak' = streak /\ look'[c].pc \in {"idle", "put"}
    BY <1>6 DEF Unlucky, Lucky, Reply, TypeOK, Nothing, Look
  <2> QED BY <1>2, <2>1 DEF StreakInv, Listing
<1>7. CASE Access(c)
  <2>1. seen' = seen /\ streak' = streak /\ look'[c].pc = "resolve"
    BY <1>7 DEF Access, TypeOK, Look
  <2> QED BY <1>2, <2>1 DEF StreakInv, Listing
<1>8. CASE Pick(c) \/ Follow(c)
  <2> PICK k : k = Sought(c)
    OBVIOUS
  <2> PICK F : F = w.got
    OBVIOUS
  <2>1. PICK i \in Id \cup {None} : Chooses(k, F, i) /\ look'[c].pc \in {"toss", "idle", "all", "resolve"}
    BY <1>8, LookChoice
  <2>2. PICK I \in SUBSET Id : F \in [I -> Fact]
    BY <1>8, LookIs DEF Pick, Follow
  <2>3. Listing(c) /\ ~Listing(c)'
    BY <1>8, <2>1 DEF Pick, Follow, Listing
  <2>4. ~Insert(c)
    BY <1>0, ActIs DEF Insert, TypeOK, Act
  <2>5. \A j : Gone(c, j) => Gone(c, j)'
    BY <2>4, GoneStep DEF StreakInv
  <2>6. k \in Text /\ Lists(c, k, F)
    BY <2>3, SoughtText DEF StreakInv
  <2>7. \A j \in DOMAIN F : Known(c, j, F[j].key) /\ k \in {F[j].key, Any}
    BY <2>3 DEF Known, KeyInv, Listed
  <2>8. \A j \in DOMAIN F : ~Gone(c, j)
    BY <2>2, <2>7 DEF Gone, Fact
  <2>9. Bounded(c)'
    BY <2>1, <2>2, <2>5, <2>6, <2>8, ChooseBounded DEF StreakInv
  <2>10. Related(c)'
    BY <2>1, <2>2, <2>4, <2>6, <2>7, ChooseRelated DEF StreakInv
  <2>11. act[c].pc = "woo" => Lists(c, Woot, G)'
    <3>1. act[c].pc = "woo" /\ k = Woot => DOMAIN G = DOMAIN F
      BY <2>3 DEF HoldInv, Stable, Adding
    <3> QED BY <1>1, <2>1, <2>2, <2>5, <2>6, <3>1, ChooseLists
  <2> QED BY <1>0, <2>3, <2>9, <2>10, <2>11 DEF StreakInv, Lists
<1> QED BY <1>4, <1>5, <1>6, <1>7, <1>8 DEF Looking

\* With one connection: of two factoids of a key that are found each time, one has
\* at most two turns before it is the other's.
THEOREM TurnsFair ==
    ASSUME NEW c, Conn = {c}
    PROVE  Spec => []Fair
<1>0. c \in Conn
  OBVIOUS
<1>1. Init => SeenInv(c) /\ StreakInv(c)
  BY <1>0, SeenStep, StreakInit
<1>2. SeenInv(c) /\ StreakInv(c) /\ [Next]_vars => (SeenInv(c) /\ StreakInv(c))'
  <2> SUFFICES ASSUME SeenInv(c), StreakInv(c), [Next]_vars PROVE StreakInv(c)'
    BY SeenStep
  <2>1. CASE UNCHANGED vars
    BY <2>1 DEF vars, StreakInv, Bounded, Related, Lists, Known, Gone, Unborn, Adding,
                Listing, Chosen, Sought, KeyOf
  <2>2. CASE Next
    BY <1>0, <2>2, StreakHear, StreakActing, StreakLooking DEF Next, SeenInv
  <2> QED BY <2>1, <2>2
<1>3. SeenInv(c) /\ StreakInv(c) => Fair
  <2> SUFFICES ASSUME StreakInv(c), NEW k \in Text, NEW p \in Id \X Id
               PROVE  streak[k][p] <= 2
    BY DEF Fair
  <2>1. PICK i \in Id, j \in Id : p = <<i, j>>
    OBVIOUS
  <2> QED BY <2>1 DEF StreakInv, Bounded
<1> QED BY <1>1, <1>2, <1>3, PTL DEF Spec
=============================================================================
