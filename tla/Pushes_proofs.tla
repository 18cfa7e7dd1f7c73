--------------------------- MODULE Pushes_proofs ----------------------------
(***************************************************************************)
(* Theorems about Pushes for any nicks, devices, connections, requests and *)
(* bounds: a state that pushes go to is the one whose pin was pushed and   *)
(* typed, and push disable deletes the state of the nick that gives it.    *)
(***************************************************************************)
EXTENDS Pushes, FiniteSetTheorems, SequenceTheorems, WellFoundedInduction, TLAPS

-----------------------------------------------------------------------------
(* States. *)

\* Of the places at which a sequence has an element there is a first.
LEMMA FirstPlace ==
    ASSUME NEW S, NEW q \in Seq(S), NEW a, NEW n \in 1 .. Len(q), q[n] = a
    PROVE  \E j \in 1 .. Len(q) : q[j] = a /\ \A h \in 1 .. j - 1 : q[h] # a
<1> DEFINE T == {j \in 1 .. Len(q) : q[j] = a}
           F == {1 .. j : j \in T}
<1>1. T \subseteq Nat /\ n \in T
  OBVIOUS
<1>2. F \subseteq FiniteSubsetsOf(Nat) /\ F # {}
  <2>1. \A j \in T : IsFiniteSet(1 .. j) /\ 1 .. j \subseteq Nat
    BY <1>1, FS_Interval
  <2> QED BY <1>1, <2>1 DEF FiniteSubsetsOf
<1>3. PICK X \in F : \A Y \in F : ~ (<<Y, X>> \in StrictSubsetOrdering(Nat))
  <2> HIDE DEF F
  <2> QED BY <1>2, FS_StrictSubsetOrderingWellFounded, WFMin
<1>4. PICK j \in T : X = 1 .. j
  OBVIOUS
<1>5. ASSUME NEW h \in T, h < j
      PROVE  <<1 .. h, 1 .. j>> \in StrictSubsetOrdering(Nat)
  <2>1. 1 .. h \subseteq 1 .. j /\ j \in 1 .. j /\ j \notin 1 .. h
    BY <1>1, <1>5
  <2>2. 1 .. h \in SUBSET Nat /\ 1 .. j \in SUBSET Nat
    BY <1>1
  <2>3. 1 .. h # 1 .. j
    BY <2>1
  <2> QED BY <2>1, <2>2, <2>3 DEF StrictSubsetOrdering
<1>6. \A h \in T : ~ (h < j)
  BY <1>3, <1>4, <1>5
<1>7. \A h \in 1 .. j - 1 : q[h] # a
  BY <1>1, <1>6
<1> QED BY <1>1, <1>7

\* What the handlers make of a state is a state.
LEMMA StateIs ==
    ASSUME NEW s \in State
    PROVE  /\ s.id \in Id /\ s.nick \in Nick /\ s.aliases \in Seq(Nick) /\ s # None
           /\ s.done \in BOOLEAN /\ s.iden \in Device \cup {None} /\ s.pin \in Pin \cup {None}
BY PushesAssumption DEF State

LEMMA Marked ==
    ASSUME NEW s \in State
    PROVE  LET t == [s EXCEPT !.done = TRUE] IN
           t \in State /\ t.id = s.id /\ t.nick = s.nick /\ t.iden = s.iden /\ t.pin = s.pin
BY DEF State

LEMMA Granted ==
    ASSUME NEW s \in State, NEW n \in Token
    PROVE  LET t == [s EXCEPT !.token = n] IN
           /\ t \in State /\ t.id = s.id /\ t.nick = s.nick /\ t.iden = s.iden
           /\ t.pin = s.pin /\ t.done = s.done
BY DEF State

LEMMA Given ==
    ASSUME NEW s \in State, NEW d \in Device \cup {None}, NEW p \in Pin
    PROVE  LET t == WithPin(s, d, p) IN
           /\ t \in State /\ t.id = s.id /\ t.nick = s.nick /\ t.iden = d
           /\ t.pin = p /\ t.done = s.done
BY DEF State, WithPin

LEMMA Aliased ==
    ASSUME NEW s \in State, NEW q \in Seq(Nick)
    PROVE  LET t == [s EXCEPT !.aliases = q] IN
           /\ t \in State /\ t.id = s.id /\ t.nick = s.nick /\ t.iden = s.iden
           /\ t.pin = s.pin /\ t.done = s.done
BY DEF State

LEMMA AliasAdded ==
    ASSUME NEW s \in State, NEW a \in Nick
    PROVE  LET t == AddAlias(s, a) IN
           /\ t \in State /\ t.id = s.id /\ t.nick = s.nick /\ t.iden = s.iden
           /\ t.pin = s.pin /\ t.done = s.done
<1>1. Append(s.aliases, a) \in Seq(Nick)
  BY StateIs
<1> QED BY <1>1, Aliased DEF AddAlias

LEMMA AliasDropped ==
    ASSUME NEW s \in State, NEW a \in Nick, HasAlias(s, a)
    PROVE  LET t == DelAlias(s, a) IN
           /\ t \in State /\ t.id = s.id /\ t.nick = s.nick /\ t.iden = s.iden
           /\ t.pin = s.pin /\ t.done = s.done
<1> DEFINE q == s.aliases
           i == CHOOSE j \in 1 .. Len(q) : q[j] = a /\ \A h \in 1 .. j - 1 : q[h] # a
<1>1. q \in Seq(Nick)
  BY StateIs
<1>2. \E j \in 1 .. Len(q) : q[j] = a /\ \A h \in 1 .. j - 1 : q[h] # a
  <2>1. PICK n \in 1 .. Len(q) : q[n] = a
    BY DEF HasAlias
  <2> HIDE DEF q
  <2>2. \A x \in Seq(Nick) : \A m \in 1 .. Len(x) : x[m] = a =>
            \E j \in 1 .. Len(x) : x[j] = a /\ \A h \in 1 .. j - 1 : x[h] # a
    BY FirstPlace, Zenon
  <2> QED BY <1>1, <2>1, <2>2, Zenon
<1>3. i \in 1 .. Len(q)
  BY <1>2
<1> DEFINE r == SubSeq(q, 1, i - 1) \o SubSeq(q, i + 1, Len(q))
<1>4. r \in Seq(Nick)
  <2> HIDE DEF q, i
  <2>1. \A m, n \in Nat : m >= 1 /\ n <= Len(q) => SubSeq(q, m, n) \in Seq(Nick)
    BY <1>1
  <2> QED BY <1>1, <1>3, <2>1
<1>5. DelAlias(s, a) = [s EXCEPT !.aliases = r]
  BY DEF DelAlias
<1> HIDE DEF q, i, r
<1> QED BY <1>4, <1>5, Aliased

LEMMA FreshIs ==
    ASSUME NEW n \in Nick, next \in Id
    PROVE  /\ Fresh(n) \in State /\ Fresh(n).id = next /\ Fresh(n).nick = n
           /\ Fresh(n).pin = None /\ Fresh(n).done = FALSE
BY DEF Fresh, State

-----------------------------------------------------------------------------
(* Transactions. *)

\* The keys of a state: of the nicks, that of its own only.
LEMMA KeysAre ==
    ASSUME NEW s \in State
    PROVE  /\ Tx!KeysOf(s) \subseteq IdxKey
           /\ \A n \in Nick : ByNick(n) \in Tx!KeysOf(s) => n = s.nick
<1> DEFINE q == <<ByNick(s.nick)>>
           r == [i \in 1 .. Len(s.aliases) |-> ByAlias(s.aliases[i])]
<1>1. s.aliases \in Seq(Nick) /\ s.nick \in Nick
  BY StateIs
<1>2. q \in Seq(IdxKey) /\ Len(q) = 1 /\ q[1] = ByNick(s.nick)
  BY <1>1 DEF ByNick, IdxKey
<1>3. r \in Seq(IdxKey) /\ Len(r) = Len(s.aliases) /\ Len(r) \in Nat
  BY <1>1 DEF ByAlias, IdxKey
<1>4. \A i \in 1 .. Len(r) : \A n \in Nick : r[i] # ByNick(n)
  BY <1>1, <1>3 DEF ByAlias, ByNick
<1>5. Keys(s) = q \o r
  BY DEF Keys
<1>6. Tx!KeysOf(s) = {(q \o r)[i] : i \in 1 .. Len(q \o r)}
  BY <1>5 DEF Tx!KeysOf
<1> HIDE DEF q, r
<1>7. q \o r \in Seq(IdxKey) /\ Len(q \o r) = Len(r) + 1
  <2>1. q \o r \in Seq(IdxKey) /\ Len(q \o r) = Len(q) + Len(r)
    BY <1>2, <1>3, ConcatProperties, Zenon
  <2> QED BY <1>2, <1>3, <2>1
<1>8. \A i \in 1 .. Len(q \o r) : (q \o r)[i] = IF i = 1 THEN q[1] ELSE r[i - 1]
  <2>1. \A i \in 1 .. Len(q) + Len(r) :
           (q \o r)[i] = IF i <= Len(q) THEN q[i] ELSE r[i - Len(q)]
    BY <1>2, <1>3, ConcatProperties, Zenon
  <2> QED BY <1>2, <1>3, <1>7, <2>1
<1>9. ASSUME NEW n \in Nick, ByNick(n) \in Tx!KeysOf(s)
      PROVE  n = s.nick
  <2>1. PICK i \in 1 .. Len(q \o r) : ByNick(n) = (q \o r)[i]
    BY <1>6, <1>9
  <2>2. CASE i = 1
    BY <2>1, <2>2, <1>2, <1>8 DEF ByNick
  <2>3. CASE i # 1
    <3>1. i - 1 \in 1 .. Len(r) /\ ByNick(n) = r[i - 1]
      BY <2>1, <2>3, <1>3, <1>7, <1>8
    <3> QED BY <3>1, <1>4
  <2> QED BY <2>2, <2>3
<1> QED BY <1>6, <1>7, <1>9

\* What is in the collection's store after a put: the values, and, of the pointers,
\* those of the nicks.
LEMMA PutIs ==
    ASSUME NEW d \in Tx!Store, NEW s \in State
    PROVE  LET e == Tx!PutTx(d, s) IN
           /\ e \in Tx!Store
           /\ e.vals = [d.vals EXCEPT ![s.id] = s]
           /\ \A n \in Nick :
                \/ e.idxs[ByNick(n)] \in {None, d.idxs[ByNick(n)]}
                \/ n = s.nick /\ e.idxs[ByNick(n)] = s.id
<1> DEFINE b == IF d.vals[s.id] = None THEN d ELSE Tx!DelIndex(d, d.vals[s.id])
           c == Tx!SetValue(b, s.id, s)
           e == Tx!PutIndex(c, s)
<1>1. Tx!PutTx(d, s) = e
  BY DEF Tx!PutTx
<1>2. s.id \in Id
  BY StateIs
<1>3. /\ b \in Tx!Store /\ b.vals = d.vals
      /\ \A k \in IdxKey : b.idxs[k] \in {None, d.idxs[k]}
  BY DEF Tx!Store, Tx!DelIndex
<1> HIDE DEF b
<1>4. c \in Tx!Store /\ c.vals = [d.vals EXCEPT ![s.id] = s] /\ c.idxs = b.idxs
  BY <1>2, <1>3 DEF Tx!Store, Tx!SetValue
<1> HIDE DEF c
<1>6. /\ e \in Tx!Store /\ e.vals = c.vals
      /\ \A k \in IdxKey :
           \/ e.idxs[k] = c.idxs[k]
           \/ k \in Tx!KeysOf(s) /\ e.idxs[k] = s.id
  <2> DEFINE x == [k \in IdxKey |-> IF k \in Tx!KeysOf(s) THEN s.id ELSE c.idxs[k]]
             y == c.bkts \cup UNION {[h \in IdxKey |-> {h[1]}][k] : k \in Tx!KeysOf(s)}
  <2>1. e = [c EXCEPT !.idxs = x, !.bkts = y]
    BY DEF Tx!PutIndex
  <2>2. x \in [IdxKey -> Id \cup {None}]
    BY <1>2, <1>4 DEF Tx!Store
  <2>3. y \subseteq {"nick", "aliases"}
    <3>1. \A k \in Tx!KeysOf(s) : [h \in IdxKey |-> {h[1]}][k] \subseteq {"nick", "aliases"}
      BY KeysAre DEF IdxKey
    <3>2. c.bkts \subseteq {"nick", "aliases"}
      BY <1>4 DEF Tx!Store
    <3> DEFINE K == Tx!KeysOf(s)
               p == [k \in IdxKey |-> {k[1]}]
    <3> HIDE DEF K, p
    <3>3. \A k \in K : p[k] \subseteq {"nick", "aliases"}
      BY <3>1 DEF K, p
    <3>4. c.bkts \cup UNION {p[k] : k \in K} \subseteq {"nick", "aliases"}
      BY <3>2, <3>3
    <3> QED BY <3>4 DEF K, p
  <2>4. \A k \in IdxKey :
           \/ x[k] = c.idxs[k]
           \/ k \in Tx!KeysOf(s) /\ x[k] = s.id
    OBVIOUS
  <2> HIDE DEF x, y
  <2> QED BY <1>4, <2>1, <2>2, <2>3, <2>4 DEF Tx!Store
<1> HIDE DEF e
<1>7. \A n \in Nick : ByNick(n) \in IdxKey
  BY DEF ByNick, IdxKey
<1> QED BY <1>1, <1>3, <1>4, <1>6, <1>7, KeysAre

LEMMA DelIs ==
    ASSUME NEW d \in Tx!Store, NEW s \in State
    PROVE  LET e == Tx!DelTx(d, s) IN
           /\ e \in Tx!Store
           /\ e.vals = [d.vals EXCEPT ![s.id] = None]
           /\ \A n \in Nick : e.idxs[ByNick(n)] \in {None, d.idxs[ByNick(n)]}
<1> DEFINE c == Tx!SetValue(d, s.id, None)
<1>1. s.id \in Id
  BY StateIs
<1>2. c \in Tx!Store /\ c.vals = [d.vals EXCEPT ![s.id] = None] /\ c.idxs = d.idxs
  BY <1>1 DEF Tx!Store, Tx!SetValue
<1>3. Tx!DelTx(d, s) = Tx!DelIndex(c, s)
  BY DEF Tx!DelTx
<1>4. \A n \in Nick : ByNick(n) \in IdxKey
  BY DEF ByNick, IdxKey
<1> HIDE DEF c
<1> QED BY <1>2, <1>3, <1>4 DEF Tx!Store, Tx!DelIndex

\* A lookup finds the stored value that is pointed at, or nothing.
LEMMA LookupIs ==
    ASSUME NEW d \in Tx!Store, NEW k \in IdxKey
    PROVE  \/ Tx!Lookup(d, k) = None
           \/ d.idxs[k] \in Id /\ Tx!Lookup(d, k) = d.vals[d.idxs[k]]
BY DEF Tx!Lookup, Tx!Store

-----------------------------------------------------------------------------
(* The invariant: what a command or a request may hold while it is handled; *)
(* that every copy of a state, stored or held, has a pin only with the     *)
(* device to which it was pushed, and is done only when the pin was typed; *)
(* and that the copies of an id, and its nick's pointer, agree on its nick. *)

OkCmd(h) == h.pc # "idle" =>
    /\ h.is \in Kind /\ h.nick \in Nick /\ h.want \in Nick
    /\ h.is \in {"add", "del"} => h.arg \in Nick
    /\ h.is = "auth" => h.arg \in Pin
    /\ h.own # None => h.is = "add"
    /\ h.is = "disable" => h.want = h.nick /\ ~h.too
    /\ h.pc = "alias" => h.too
    /\ h.pc = "expired" => h.s # None
    /\ h.is = "disable" /\ h.pc = "got" /\ h.s # None => h.s.nick = h.nick
Doing == \A c \in Conn : OkCmd(cmd[c])

OkReq(q) ==
    /\ q.pc # "idle" => q.s # None
    /\ q.pc = "device" => q.iden # None
Asked == \A r \in Req : OkReq(req[r])

Held == ({cmd[c].s : c \in Conn} \cup {cmd[c].own : c \in Conn}
            \cup {req[r].s : r \in Req}) \ {None}
Copies == Stored \cup Held

\* Of a state, when f names the nick of each id, ids are used up to n, P was pushed
\* and T typed.
SoundWith(f, s, n, P, T) ==
    /\ s \in State /\ s.id < n /\ s.nick = f[s.id]
    /\ s.pin # None => [id |-> s.id, iden |-> s.iden, pin |-> s.pin] \in P
    /\ s.done => s.pin # None /\ [id |-> s.id, pin |-> s.pin] \in T
AllSound(f) == \A s \in Copies : SoundWith(f, s, next, pushed, typed)

\* The pointer of a nick leads to an id of that nick.
AllNamed(f) == \A n \in Nick : LET i == db.idxs[ByNick(n)] IN
    i # None => i < next /\ f[i] = n

IInv(f) ==
    /\ f \in [Id -> Nick \cup {None}]
    /\ TypeOK /\ Doing /\ Asked /\ AllSound(f) /\ AllNamed(f)
Inv == \E f : IInv(f)

LEMMA InitInv == Init => Inv
<1> DEFINE f == [i \in Id |-> None]
<1> SUFFICES ASSUME Init PROVE IInv(f)
  BY DEF Inv
<1>0. f \in [Id -> Nick \cup {None}]
  OBVIOUS
<1> HIDE DEF f
<1>1. db \in Tx!Store /\ \A i \in Id : db.vals[i] = None
  BY DEF Init, Tx!EmptyStore, Tx!Store
<1>2. NoCmd \in Cmds /\ NoReq \in Reqs
  BY DEF NoCmd, NoReq, Cmds, Reqs
<1>3. 1 \in 1 .. MaxId + 1 /\ 0 \in 0 .. MaxTok
  BY PushesAssumption
<1>4. TypeOK
  <2>1. cmd \in [Conn -> Cmds] /\ req \in [Req -> Reqs]
    BY <1>2 DEF Init
  <2>2. next \in 1 .. MaxId + 1 /\ tokens \in 0 .. MaxTok
    BY <1>3 DEF Init
  <2>3. old \cup off \subseteq Id /\ pushed = {} /\ typed = {} /\ IsFiniteSet(pushed)
    BY FS_EmptySet DEF Init
  <2> QED BY <1>1, <2>1, <2>2, <2>3 DEF TypeOK
<1>5. OkCmd(NoCmd) /\ OkReq(NoReq)
  BY DEF OkCmd, OkReq, NoCmd, NoReq
<1>6. Doing /\ Asked
  BY <1>5 DEF Doing, Asked, Init
<1>7. Stored = {}
  BY <1>1 DEF Stored
<1>8. Held = {}
  BY DEF Held, Init, NoCmd, NoReq
<1>9. AllNamed(f)
  BY DEF AllNamed, Init, Tx!EmptyStore, ByNick, IdxKey
<1> QED BY <1>0, <1>4, <1>6, <1>7, <1>8, <1>9 DEF IInv, AllSound, Copies

LEMMA CmdIs ==
    ASSUME NEW f, IInv(f), NEW c \in Conn
    PROVE  /\ cmd[c] \in Cmds /\ OkCmd(cmd[c])
           /\ cmd[c].s \in Copies \cup {None} /\ cmd[c].own \in Copies \cup {None}
BY DEF IInv, TypeOK, Doing, Copies, Held

LEMMA ReqIs ==
    ASSUME NEW f, IInv(f), NEW r \in Req
    PROVE  req[r] \in Reqs /\ OkReq(req[r]) /\ req[r].s \in Copies \cup {None}
BY DEF IInv, TypeOK, Asked, Copies, Held

LEMMA CopyIs ==
    ASSUME NEW f, IInv(f), NEW s \in Copies
    PROVE  s \in State /\ s # None /\ SoundWith(f, s, next, pushed, typed)
BY PushesAssumption DEF IInv, AllSound, SoundWith

LEMMA Longer ==
    ASSUME NEW f, NEW s, NEW n \in Nat, NEW m \in Nat, n <= m, NEW P, NEW Q, P \subseteq Q,
           NEW T, NEW U, T \subseteq U, SoundWith(f, s, n, P, T)
    PROVE  SoundWith(f, s, m, Q, U)
<1>1. s.id \in Nat
  BY StateIs DEF SoundWith, Id
<1> QED BY <1>1 DEF SoundWith

LEMMA AtIs ==
    ASSUME NEW h \in Cmds, NEW s \in State \cup {None},
           NEW pc \in {"idle", "nick", "alias", "expired", "got", "new"}
    PROVE  LET g == At(h, pc, s) IN
           /\ g \in Cmds /\ g.pc = pc /\ g.is = h.is /\ g.nick = h.nick /\ g.arg = h.arg
           /\ g.want = h.want /\ g.too = h.too /\ g.own = h.own /\ g.s = s
BY DEF At, Cmds

\* What a step that puts the states of N, or none, leaves stored and pointed at.
Stores(N) ==
    /\ db' \in Tx!Store /\ \A i \in Id : db'.vals[i] # None => db'.vals[i].id = i
    /\ Stored' \subseteq Stored \cup N
    /\ \A n \in Nick : \/ db'.idxs[ByNick(n)] \in {None, db.idxs[ByNick(n)]}
                       \/ \E s \in N : s.nick = n /\ s.id = db'.idxs[ByNick(n)]

LEMMA PutStores ==
    ASSUME TypeOK, NEW s \in State, db' = Tx!PutTx(db, s)
    PROVE  Stores({s})
<1>1. /\ db' \in Tx!Store /\ db'.vals = [db.vals EXCEPT ![s.id] = s]
      /\ \A n \in Nick :
           \/ db'.idxs[ByNick(n)] \in {None, db.idxs[ByNick(n)]}
           \/ n = s.nick /\ db'.idxs[ByNick(n)] = s.id
  BY PutIs DEF TypeOK
<1>2. db.vals \in [Id -> State \cup {None}] /\ s.id \in Id
  BY StateIs DEF TypeOK, Tx!Store
<1>3. Stored' \subseteq Stored \cup {s}
  BY <1>1, <1>2 DEF Stored
<1>4. \A i \in Id : db'.vals[i] # None => db'.vals[i].id = i
  BY <1>1, <1>2 DEF TypeOK
<1> QED BY <1>1, <1>3, <1>4 DEF Stores

LEMMA DelStores ==
    ASSUME TypeOK, NEW s \in State, db' = Tx!DelTx(db, s), NEW N
    PROVE  Stores(N)
<1>1. /\ db' \in Tx!Store /\ db'.vals = [db.vals EXCEPT ![s.id] = None]
      /\ \A n \in Nick : db'.idxs[ByNick(n)] \in {None, db.idxs[ByNick(n)]}
  BY DelIs DEF TypeOK
<1>2. db.vals \in [Id -> State \cup {None}] /\ s.id \in Id
  BY StateIs DEF TypeOK, Tx!Store
<1>3. Stored' \subseteq Stored
  BY <1>1, <1>2 DEF Stored
<1>4. \A i \in Id : db'.vals[i] # None => db'.vals[i].id = i
  BY <1>1, <1>2 DEF TypeOK
<1> QED BY <1>1, <1>3, <1>4 DEF Stores

LEMMA SameStores ==
    ASSUME TypeOK, UNCHANGED db, NEW N
    PROVE  Stores(N)
BY DEF TypeOK, Stored, Stores

\* The pointers of nicks after a step.
LEMMA NamedStill ==
    ASSUME NEW f, IInv(f), NEW P, NEW T, next \in Nat, next' \in Nat, next <= next',
           NEW N, \A s \in N : SoundWith(f, s, next', P, T), Stores(N)
    PROVE  AllNamed(f)'
<1> SUFFICES ASSUME NEW n \in Nick, db'.idxs[ByNick(n)] # None
             PROVE  db'.idxs[ByNick(n)] < next' /\ f[db'.idxs[ByNick(n)]] = n
  BY DEF AllNamed
<1>1. ByNick(n) \in IdxKey
  BY DEF ByNick, IdxKey
<1>2. db'.idxs[ByNick(n)] \in Nat
  BY <1>1 DEF Stores, Tx!Store, Id
<1>3. CASE db'.idxs[ByNick(n)] = db.idxs[ByNick(n)]
  BY <1>2, <1>3 DEF IInv, AllNamed
<1>4. CASE \E s \in N : s.nick = n /\ s.id = db'.idxs[ByNick(n)]
  BY <1>4 DEF SoundWith
<1> QED BY <1>3, <1>4 DEF Stores

\* A step of a command: N are the states that it makes.
LEMMA CmdStep ==
    ASSUME NEW f, IInv(f), NEW c \in Conn, NEW h \in Cmds, OkCmd(h),
           NEW N, \A s \in N : SoundWith(f, s, next', pushed, typed'),
           cmd' = [cmd EXCEPT ![c] = h], UNCHANGED <<old, req, tokens, pushed>>,
           Stores(N), {h.s, h.own} \subseteq Copies \cup N \cup {None},
           next' \in 1 .. MaxId + 1, next <= next', off' \subseteq Id,
           typed \subseteq typed', typed' \subseteq [id : Id, pin : Pin]
    PROVE  IInv(f)'
<1>1. TypeOK'
  BY DEF IInv, TypeOK, Stores
<1>2. Doing' /\ Asked'
  BY DEF IInv, TypeOK, Doing, Asked
<1>3. Copies' \subseteq Copies \cup N
  <2>1. Held' \subseteq Held \cup ({h.s, h.own} \ {None})
    BY DEF Held, IInv, TypeOK
  <2> QED BY <2>1 DEF Copies, Stores
<1>4. next \in Nat /\ next' \in Nat
  BY PushesAssumption DEF IInv, TypeOK
<1>5. \A s \in Copies : SoundWith(f, s, next', pushed', typed')
  BY <1>4, CopyIs, Longer
<1>6. AllSound(f)'
  BY <1>3, <1>5 DEF AllSound
<1>7. AllNamed(f)'
  BY <1>4, NamedStill
<1> QED BY <1>1, <1>2, <1>6, <1>7 DEF IInv

\* The same of a request.
LEMMA ReqStep ==
    ASSUME NEW f, IInv(f), NEW r \in Req, NEW q \in Reqs, OkReq(q),
           NEW N, \A s \in N : SoundWith(f, s, next, pushed', typed),
           req' = [req EXCEPT ![r] = q], UNCHANGED <<old, cmd, next, typed, off>>,
           Stores(N), q.s \in Copies \cup N \cup {None},
           tokens' \in 0 .. MaxTok, pushed \subseteq pushed', IsFiniteSet(pushed'),
           pushed' \subseteq [id : Id, iden : Device, pin : Pin]
    PROVE  IInv(f)'
<1>1. TypeOK'
  BY DEF IInv, TypeOK, Stores
<1>2. Doing' /\ Asked'
  BY DEF IInv, TypeOK, Doing, Asked
<1>3. Copies' \subseteq Copies \cup N
  <2>1. Held' \subseteq Held \cup ({q.s} \ {None})
    BY DEF Held, IInv, TypeOK
  <2> QED BY <2>1 DEF Copies, Stores
<1>4. next \in Nat
  BY PushesAssumption DEF IInv, TypeOK
<1>5. \A s \in Copies : SoundWith(f, s, next, pushed', typed)
  BY <1>4, CopyIs, Longer
<1>6. AllSound(f)'
  BY <1>3, <1>5 DEF AllSound
<1>7. AllNamed(f)'
  BY <1>4, NamedStill
<1> QED BY <1>1, <1>2, <1>6, <1>7 DEF IInv

-----------------------------------------------------------------------------
(* Each action preserves it. *)

\* The step of a command that is over.
LEMMA CmdEnds ==
    ASSUME NEW f, IInv(f), NEW c \in Conn,
           NEW N, \A s \in N : SoundWith(f, s, next', pushed', typed'),
           cmd' = [cmd EXCEPT ![c] = NoCmd], UNCHANGED <<old, req, tokens, pushed>>,
           Stores(N),
           next' \in 1 .. MaxId + 1, next <= next', off' \subseteq Id,
           typed \subseteq typed', typed' \subseteq [id : Id, pin : Pin]
    PROVE  IInv(f)'
<1>1. NoCmd \in Cmds /\ OkCmd(NoCmd) /\ {NoCmd.s, NoCmd.own} \subseteq {None}
  BY DEF NoCmd, Cmds, OkCmd
<1> QED BY <1>1, CmdStep

LEMMA ReqEnds ==
    ASSUME NEW f, IInv(f), NEW r \in Req,
           NEW N, \A s \in N : SoundWith(f, s, next, pushed, typed),
           req' = [req EXCEPT ![r] = NoReq],
           UNCHANGED <<old, cmd, next, tokens, pushed, typed, off>>,
           Stores(N)
    PROVE  IInv(f)'
<1>1. NoReq \in Reqs /\ OkReq(NoReq) /\ NoReq.s = None
  BY DEF NoReq, Reqs, OkReq
<1> QED BY <1>1, ReqStep DEF IInv, TypeOK

\* What all but a few steps leave as it is.
LEMMA Bounds ==
    ASSUME NEW f, IInv(f)
    PROVE  /\ next \in 1 .. MaxId + 1 /\ next \in Nat /\ off \subseteq Id
           /\ typed \subseteq [id : Id, pin : Pin] /\ tokens \in 0 .. MaxTok
           /\ pushed \subseteq [id : Id, iden : Device, pin : Pin] /\ IsFiniteSet(pushed)
BY PushesAssumption DEF IInv, TypeOK

\* A step of a command that only reads.
LEMMA CmdReads ==
    ASSUME NEW f, IInv(f), NEW c \in Conn, NEW h \in Cmds, OkCmd(h),
           {h.s, h.own} \subseteq Copies \cup {None},
           cmd' = [cmd EXCEPT ![c] = h],
           UNCHANGED <<db, next, old, req, tokens, pushed, typed, off>>
    PROVE  IInv(f)'
<1> DEFINE N == {}
<1>1. \A s \in N : SoundWith(f, s, next', pushed', typed')
  OBVIOUS
<1>2. Stores(N) /\ {h.s, h.own} \subseteq Copies \cup N \cup {None}
  BY SameStores DEF IInv
<1> HIDE DEF N
<1>3. /\ next' \in 1 .. MaxId + 1 /\ next <= next' /\ off' \subseteq Id
      /\ typed \subseteq typed' /\ typed' \subseteq [id : Id, pin : Pin]
  BY Bounds
<1> QED BY <1>1, <1>2, <1>3, CmdStep

LEMMA HourInv == ASSUME NEW f, IInv(f), NEW i \in Id, Hour(i) PROVE IInv(f)'
<1>1. TypeOK'
  BY DEF Hour, IInv, TypeOK
<1>2. Doing' /\ Asked' /\ AllSound(f)' /\ AllNamed(f)'
  BY DEF Hour, IInv, Doing, Asked, AllSound, AllNamed, Copies, Stored, Held
<1> QED BY <1>1, <1>2 DEF IInv

LEMMA AskInv == ASSUME NEW f, IInv(f), NEW c \in Conn, Ask(c) PROVE IInv(f)'
<1>1. PICK n \in Nick, is \in Kind, arg \in Nick \cup {p.pin : p \in pushed} \cup {None} :
        /\ arg \in (CASE is \in {"add", "del"} -> Nick
                      [] is = "auth" -> {p.pin : p \in pushed}
                      [] OTHER -> {None})
        /\ cmd' = [cmd EXCEPT ![c] = Looking(is, n, arg, n, Too(is), None)]
        /\ UNCHANGED <<db, next, old, req, tokens, pushed, typed, off>>
  BY DEF Ask
<1> DEFINE h == Looking(is, n, arg, n, Too(is), None)
<1>2. arg \in Nick \cup Pin \cup {None}
  BY Bounds
<1>3. is \in {"add", "del"} => arg \in Nick
  BY <1>1
<1>4. is = "auth" => arg \in Pin
  <2>1. is = "auth" => arg \in {p.pin : p \in pushed}
    BY <1>1
  <2> QED BY <2>1, Bounds
<1>5. h \in Cmds /\ OkCmd(h) /\ {h.s, h.own} \subseteq {None}
  BY <1>2, <1>3, <1>4 DEF Looking, Cmds, OkCmd, Too, Kind
<1> HIDE DEF h
<1>6. cmd' = [cmd EXCEPT ![c] = h]
  BY <1>1 DEF h
<1> QED BY <1>1, <1>5, <1>6, CmdReads

\* A command finds what is stored, or nothing.
LEMMA FoundInv ==
    ASSUME NEW f, IInv(f), NEW c \in Conn, cmd[c].pc \in {"nick", "alias"},
           NEW s \in Stored \cup {None},
           cmd[c].is = "disable" /\ s # None => s.nick = cmd[c].nick,
           \/ cmd' = [cmd EXCEPT ![c] = Found(cmd[c], s)]
           \/ cmd[c].too /\ cmd' = [cmd EXCEPT ![c] = At(cmd[c], "alias", None)],
           UNCHANGED <<db, next, old, req, tokens, pushed, typed, off>>
    PROVE  IInv(f)'
<1>1. s \in Copies \cup {None} /\ s \in State \cup {None}
  BY DEF Copies, Stored, IInv, TypeOK, Tx!Store
<1>2. ASSUME NEW h \in Cmds, OkCmd(h), {h.s, h.own} \subseteq Copies \cup {None},
             cmd' = [cmd EXCEPT ![c] = h]
      PROVE  IInv(f)'
  BY <1>2, CmdReads
<1>3. CASE cmd' = [cmd EXCEPT ![c] = Found(cmd[c], s)]
  <2> DEFINE pc == IF s # None /\ Expired(s) THEN "expired" ELSE "got"
             h == At(cmd[c], pc, s)
  <2>1. pc \in {"expired", "got"} /\ (pc = "expired" => s # None)
    OBVIOUS
  <2> HIDE DEF pc, h
  <2>2. h \in Cmds /\ OkCmd(h) /\ {h.s, h.own} \subseteq Copies \cup {None}
    <3>1. /\ pc \in {"idle", "nick", "alias", "expired", "got", "new"}
          /\ cmd[c] \in Cmds /\ s \in State \cup {None}
      BY <1>1, <2>1, CmdIs
    <3>2. /\ h \in Cmds /\ h.pc = pc /\ h.is = cmd[c].is /\ h.nick = cmd[c].nick
          /\ h.arg = cmd[c].arg /\ h.want = cmd[c].want /\ h.too = cmd[c].too
          /\ h.own = cmd[c].own /\ h.s = s
      BY <3>1 DEF h, At, Cmds
    <3> QED BY <1>1, <2>1, <3>2, CmdIs DEF OkCmd
  <2>3. Found(cmd[c], s) = h
    BY DEF Found, pc, h
  <2> QED BY <1>2, <1>3, <2>2, <2>3
<1>4. CASE cmd[c].too /\ cmd' = [cmd EXCEPT ![c] = At(cmd[c], "alias", None)]
  <2> DEFINE h == At(cmd[c], "alias", None)
  <2>1. h \in Cmds /\ OkCmd(h) /\ {h.s, h.own} \subseteq Copies \cup {None}
    BY <1>4, CmdIs, AtIs DEF OkCmd
  <2> HIDE DEF h
  <2>2. cmd' = [cmd EXCEPT ![c] = h]
    BY <1>4 DEF h
  <2> QED BY <1>2, <2>1, <2>2
<1> QED BY <1>3, <1>4

LEMMA LookupStored ==
    ASSUME NEW f, IInv(f), NEW k \in IdxKey
    PROVE  Tx!Lookup(db, k) \in Stored \cup {None}
BY LookupIs DEF IInv, TypeOK, Stored

\* A nick finds its own state.
LEMMA LookupOwn ==
    ASSUME NEW f, IInv(f), NEW n \in Nick, Tx!Lookup(db, ByNick(n)) # None
    PROVE  Tx!Lookup(db, ByNick(n)).nick = n
<1> DEFINE i == db.idxs[ByNick(n)]
           s == db.vals[i]
<1>1. i \in Id /\ Tx!Lookup(db, ByNick(n)) = s
  BY LookupIs DEF ByNick, IdxKey, IInv, TypeOK
<1>2. s \in Copies /\ s.id = i
  BY <1>1 DEF Copies, Stored, IInv, TypeOK
<1>3. s.nick = f[s.id]
  BY <1>2, CopyIs DEF SoundWith
<1>4. i # None /\ f[i] = n
  BY <1>1, PushesAssumption DEF IInv, AllNamed, Id
<1> QED BY <1>1, <1>2, <1>3, <1>4

LEMMA GetInv == ASSUME NEW f, IInv(f), NEW c \in Conn, GetNick(c) \/ GetAlias(c) PROVE IInv(f)'
<1>1. CASE GetNick(c)
  <2>1. cmd[c].pc = "nick" /\ ByNick(cmd[c].want) \in IdxKey
    BY <1>1, CmdIs DEF GetNick, OkCmd, ByNick, IdxKey
  <2>2. cmd[c].want \in Nick /\ (cmd[c].is = "disable" => cmd[c].want = cmd[c].nick)
    BY <2>1, CmdIs DEF OkCmd
  <2> DEFINE s == Tx!Lookup(db, ByNick(cmd[c].want))
  <2>3. s \in Stored \cup {None}
    BY <2>1, LookupStored
  <2>4. cmd[c].is = "disable" /\ s # None => s.nick = cmd[c].nick
    BY <2>2, LookupOwn
  <2>5. /\ \/ cmd' = [cmd EXCEPT ![c] = Found(cmd[c], s)]
           \/ cmd[c].too /\ cmd' = [cmd EXCEPT ![c] = At(cmd[c], "alias", None)]
        /\ UNCHANGED <<db, next, old, req, tokens, pushed, typed, off>>
    BY <1>1 DEF GetNick
  <2> HIDE DEF s
  <2> QED BY <2>1, <2>3, <2>4, <2>5, FoundInv
<1>2. CASE GetAlias(c)
  <2>1. cmd[c].pc = "alias" /\ ByAlias(cmd[c].want) \in IdxKey
    BY <1>2, CmdIs DEF GetAlias, OkCmd, ByAlias, IdxKey
  <2> DEFINE s == Tx!Lookup(db, ByAlias(cmd[c].want))
  <2>2. s \in Stored \cup {None}
    BY <2>1, LookupStored
  <2>3. cmd[c].is # "disable"
    BY <2>1, CmdIs DEF OkCmd
  <2>4. /\ cmd' = [cmd EXCEPT ![c] = Found(cmd[c], s)]
        /\ UNCHANGED <<db, next, old, req, tokens, pushed, typed, off>>
    BY <1>2, CmdIs DEF GetAlias, IInv, TypeOK
  <2> HIDE DEF s
  <2> QED BY <2>1, <2>2, <2>3, <2>4, FoundInv
<1> QED BY <1>1, <1>2

\* A command deletes, or not, the state that it has found, and goes on without it.
LEMMA DropInv == ASSUME NEW f, IInv(f), NEW c \in Conn, DropExpired(c) \/ Enable(c) PROVE IInv(f)'
<1>1. PICK pc \in {"got", "new"} :
        /\ cmd[c].pc # "idle" /\ cmd' = [cmd EXCEPT ![c] = At(cmd[c], pc, None)]
        /\ UNCHANGED <<next, old, req, tokens, pushed, typed, off>>
        /\ (db' = db) \/ (cmd[c].s # None /\ db' = Tx!DelTx(db, cmd[c].s))
  <2>1. CASE DropExpired(c)
    BY <2>1, CmdIs DEF DropExpired, OkCmd
  <2>2. CASE Enable(c)
    BY <2>2 DEF Enable, Going
  <2> QED BY <2>1, <2>2
<1> DEFINE h == At(cmd[c], pc, None)
           N == {}
<1>2. h \in Cmds /\ OkCmd(h) /\ {h.s, h.own} \subseteq Copies \cup N \cup {None}
  <2>1. cmd[c] \in Cmds /\ OkCmd(cmd[c]) /\ cmd[c].own \in Copies \cup {None}
    BY CmdIs
  <2>2. /\ h \in Cmds /\ h.pc = pc /\ h.is = cmd[c].is /\ h.nick = cmd[c].nick
        /\ h.arg = cmd[c].arg /\ h.want = cmd[c].want /\ h.too = cmd[c].too
        /\ h.own = cmd[c].own /\ h.s = None
    BY <2>1 DEF At, Cmds
  <2> HIDE DEF h
  <2> QED BY <1>1, <2>1, <2>2 DEF OkCmd
<1>3. Stores(N)
  <2>1. CASE db' = db
    BY <2>1, SameStores DEF IInv
  <2>2. CASE cmd[c].s # None /\ db' = Tx!DelTx(db, cmd[c].s)
    <3>1. cmd[c].s \in State
      BY <2>2, CmdIs, CopyIs
    <3> QED BY <2>2, <3>1, DelStores DEF IInv
  <2> QED BY <1>1, <2>1, <2>2
<1>4. \A s \in N : SoundWith(f, s, next', pushed', typed')
  OBVIOUS
<1>5. cmd' = [cmd EXCEPT ![c] = h]
  BY <1>1
<1>6. /\ next' \in 1 .. MaxId + 1 /\ next <= next' /\ off' \subseteq Id
      /\ typed \subseteq typed' /\ typed' \subseteq [id : Id, pin : Pin]
      /\ UNCHANGED <<old, req, tokens, pushed>>
  BY <1>1, Bounds
<1> HIDE DEF h, N
<1> QED BY <1>2, <1>3, <1>4, <1>5, <1>6, CmdStep

LEMMA CheckAliasInv == ASSUME NEW f, IInv(f), NEW c \in Conn, CheckAlias(c) PROVE IInv(f)'
<1> DEFINE h == Looking("add", cmd[c].nick, cmd[c].arg, cmd[c].arg, TRUE, cmd[c].s)
<1>1. cmd[c].pc = "got" /\ cmd[c].is = "add"
  BY DEF CheckAlias, Going
<1>2. cmd[c].nick \in Nick /\ cmd[c].arg \in Nick /\ cmd[c].s \in Copies \cup {None}
  BY <1>1, CmdIs DEF OkCmd
<1>3. cmd[c].s \in State \cup {None}
  BY <1>2, CopyIs
<1>4. h \in Cmds /\ OkCmd(h) /\ {h.s, h.own} \subseteq Copies \cup {None}
  BY <1>2, <1>3 DEF Looking, Cmds, OkCmd, Kind
<1>5. cmd' = [cmd EXCEPT ![c] = h]
  BY DEF CheckAlias
<1>6. UNCHANGED <<db, next, old, req, tokens, pushed, typed, off>>
  BY DEF CheckAlias
<1> HIDE DEF h
<1> QED BY <1>4, <1>5, <1>6, CmdReads

\* The commands that end with a put, of a state that N has, or with a deletion.
LEMMA RefuseInv == ASSUME NEW f, IInv(f), NEW c \in Conn, Refuse(c) PROVE IInv(f)'
<1>1. NoCmd \in Cmds /\ OkCmd(NoCmd) /\ {NoCmd.s, NoCmd.own} \subseteq {None}
  BY DEF NoCmd, Cmds, OkCmd
<1> QED BY <1>1, CmdReads DEF Refuse

LEMMA PutsInv ==
    ASSUME NEW f, IInv(f), NEW c \in Conn, NEW s \in State, db' = Tx!PutTx(db, s),
           SoundWith(f, s, next', pushed', typed'),
           cmd' = [cmd EXCEPT ![c] = NoCmd], UNCHANGED <<old, req, tokens, pushed, off>>,
           next' \in 1 .. MaxId + 1, next <= next',
           typed \subseteq typed', typed' \subseteq [id : Id, pin : Pin]
    PROVE  IInv(f)'
<1> DEFINE N == {s}
<1>1. \A t \in N : SoundWith(f, t, next', pushed', typed')
  OBVIOUS
<1>2. Stores(N)
  BY PutStores DEF IInv
<1> HIDE DEF N
<1> QED BY <1>1, <1>2, CmdEnds, Bounds

\* The id of a new state has no nick yet: f gives it that of the command.
LEMMA NewStateInv == ASSUME NEW f, IInv(f), NEW c \in Conn, NewState(c) PROVE Inv'
<1>1. cmd[c].nick \in Nick
  BY CmdIs DEF NewState, OkCmd
<1>2. next \in Id /\ next \in Nat /\ next' = next + 1 /\ next' \in 1 .. MaxId + 1
  BY Bounds, PushesAssumption DEF NewState, Id
<1> DEFINE s == Fresh(cmd[c].nick)
<1>3. s \in State /\ s.id = next /\ s.nick = cmd[c].nick /\ s.pin = None /\ s.done = FALSE
  BY <1>1, <1>2, FreshIs
<1>4. db' = Tx!PutTx(db, s)
  BY DEF NewState
<1>5. PICK g \in [Id -> Nick \cup {None}] :
        g[next] = cmd[c].nick /\ \A i \in Id : i < next => g[i] = f[i]
  <2> DEFINE h == [f EXCEPT ![next] = cmd[c].nick]
  <2>1. /\ h \in [Id -> Nick \cup {None}] /\ h[next] = cmd[c].nick
        /\ \A i \in Id : i < next => h[i] = f[i]
    BY <1>1, <1>2 DEF IInv
  <2> HIDE DEF h
  <2> QED BY <2>1
<1> HIDE DEF s
<1>6. IInv(g)
  <2>1. \A t \in Copies : SoundWith(g, t, next, pushed, typed)
    <3> SUFFICES ASSUME NEW t \in Copies PROVE SoundWith(g, t, next, pushed, typed)
      OBVIOUS
    <3>1. t \in State /\ t.id \in Id /\ SoundWith(f, t, next, pushed, typed)
      BY CopyIs, StateIs
    <3> QED BY <1>5, <3>1 DEF SoundWith
  <2>2. AllNamed(g)
    <3> SUFFICES ASSUME NEW n \in Nick, db.idxs[ByNick(n)] # None
                 PROVE  db.idxs[ByNick(n)] < next /\ g[db.idxs[ByNick(n)]] = n
      BY DEF AllNamed
    <3>1. db.idxs[ByNick(n)] \in Id
      BY DEF IInv, TypeOK, Tx!Store, ByNick, IdxKey
    <3>2. db.idxs[ByNick(n)] < next /\ f[db.idxs[ByNick(n)]] = n
      BY DEF IInv, AllNamed
    <3> QED BY <1>5, <3>1, <3>2
  <2> QED BY <1>5, <2>1, <2>2 DEF IInv, AllSound
<1>7. SoundWith(g, s, next', pushed', typed')
  BY <1>2, <1>3, <1>5 DEF SoundWith
<1>8. /\ next <= next' /\ typed \subseteq typed' /\ typed' \subseteq [id : Id, pin : Pin]
      /\ UNCHANGED <<old, req, tokens, pushed, off>> /\ cmd' = [cmd EXCEPT ![c] = NoCmd]
  BY <1>2, Bounds DEF NewState
<1>9. IInv(g)'
  BY <1>2, <1>3, <1>4, <1>6, <1>7, <1>8, PutsInv
<1> QED BY <1>9 DEF Inv

LEMMA DisableInv == ASSUME NEW f, IInv(f), NEW c \in Conn, Disable(c) PROVE IInv(f)'
<1>1. cmd[c].pc = "got" /\ cmd[c].is = "disable" /\ ~Refused(cmd[c])
  BY DEF Disable, Going
<1>2. cmd[c].s \in State
  <2>1. cmd[c].own = None
    BY <1>1, CmdIs DEF OkCmd
  <2>2. cmd[c].s # None
    BY <1>1, <2>1 DEF Refused
  <2> QED BY <2>2, CmdIs, CopyIs
<1> DEFINE N == {}
<1>3. \A t \in N : SoundWith(f, t, next', pushed', typed')
  OBVIOUS
<1>4. db' = Tx!DelTx(db, cmd[c].s)
  BY DEF Disable
<1>5. Stores(N)
  BY <1>2, <1>4, DelStores DEF IInv
<1>6. off' \subseteq Id
  BY <1>2, Bounds, StateIs DEF Disable
<1>7. /\ next' \in 1 .. MaxId + 1 /\ next <= next' /\ typed \subseteq typed'
      /\ typed' \subseteq [id : Id, pin : Pin]
      /\ UNCHANGED <<old, req, tokens, pushed>> /\ cmd' = [cmd EXCEPT ![c] = NoCmd]
  BY Bounds DEF Disable
<1> HIDE DEF N
<1> QED BY <1>3, <1>5, <1>6, <1>7, CmdEnds

\* The state that a confirmation has found has the pin typed, which was pushed.
LEMMA ConfirmInv == ASSUME NEW f, IInv(f), NEW c \in Conn, Confirm(c) PROVE IInv(f)'
<1>1. cmd[c].pc = "got" /\ cmd[c].is = "auth" /\ ~Refused(cmd[c])
  BY DEF Confirm, Going
<1>2. cmd[c].own = None /\ cmd[c].arg \in Pin
  BY <1>1, CmdIs DEF OkCmd
<1>3. cmd[c].s # None /\ cmd[c].s.pin = cmd[c].arg
  BY <1>1, <1>2 DEF Refused
<1>4. cmd[c].s \in State /\ SoundWith(f, cmd[c].s, next, pushed, typed)
  BY <1>3, CmdIs, CopyIs
<1> DEFINE s == cmd[c].s
           t == [s EXCEPT !.done = TRUE]
<1>5. /\ t \in State /\ t.id = s.id /\ t.nick = s.nick /\ t.iden = s.iden
      /\ t.pin = s.pin
  BY <1>4, Marked
<1>6. db' = Tx!PutTx(db, t) /\ typed' = typed \cup {[id |-> s.id, pin |-> cmd[c].arg]}
  BY DEF Confirm
<1>7. s.id \in Id /\ s.pin # None
  BY <1>2, <1>3, <1>4, StateIs, PushesAssumption DEF Pin
<1>8. UNCHANGED <<next, old, req, tokens, pushed, off>> /\ cmd' = [cmd EXCEPT ![c] = NoCmd]
  BY DEF Confirm
<1> HIDE DEF s, t
<1>9. typed' \subseteq [id : Id, pin : Pin]
  BY <1>2, <1>6, <1>7, Bounds
<1>10. SoundWith(f, t, next', pushed', typed')
  <2>1. cmd[c].arg = s.pin /\ SoundWith(f, s, next, pushed, typed)
    BY <1>3, <1>4 DEF s
  <2>2. [id |-> t.id, pin |-> t.pin] \in typed'
    BY <1>5, <1>6, <2>1
  <2>3. /\ t.id < next' /\ t.nick = f[t.id] /\ t.pin # None
        /\ [id |-> t.id, iden |-> t.iden, pin |-> t.pin] \in pushed'
    BY <1>5, <1>7, <1>8, <2>1 DEF SoundWith
  <2> QED BY <1>5, <2>2, <2>3 DEF SoundWith
<1>11. next' \in 1 .. MaxId + 1 /\ next <= next' /\ typed \subseteq typed'
  BY <1>6, <1>8, Bounds
<1> QED BY <1>5, <1>6, <1>8, <1>9, <1>10, <1>11, PutsInv

\* A state that differs in its aliases only is as sound.
LEMMA AsSound ==
    ASSUME NEW s \in State, NEW t \in State, t.id = s.id, t.nick = s.nick, t.iden = s.iden,
           t.pin = s.pin, t.done = s.done, NEW f, NEW n, NEW P, NEW T,
           SoundWith(f, s, n, P, T)
    PROVE  SoundWith(f, t, n, P, T)
BY DEF SoundWith

LEMMA AliasInv == ASSUME NEW f, IInv(f), NEW c \in Conn, PutAlias(c) \/ DropAlias(c) PROVE IInv(f)'
<1>1. PICK s \in State, t \in State :
        /\ s \in Copies /\ db' = Tx!PutTx(db, t)
        /\ t.id = s.id /\ t.nick = s.nick /\ t.iden = s.iden /\ t.pin = s.pin
        /\ t.done = s.done
  <2>1. CASE PutAlias(c)
    <3>1. cmd[c].own \in Copies /\ cmd[c].arg \in Nick
      BY <2>1, CmdIs DEF PutAlias, Going, OkCmd
    <3>2. cmd[c].own \in State
      BY <3>1, CopyIs
    <3> QED BY <2>1, <3>1, <3>2, AliasAdded DEF PutAlias
  <2>2. CASE DropAlias(c)
    <3>1. /\ cmd[c].is = "del" /\ cmd[c].arg \in Nick /\ cmd[c].own = None
          /\ ~Refused(cmd[c])
      BY <2>2, CmdIs DEF DropAlias, Going, OkCmd
    <3>2. cmd[c].s # None /\ HasAlias(cmd[c].s, cmd[c].arg)
      BY <3>1 DEF Refused
    <3>3. cmd[c].s \in Copies /\ cmd[c].s \in State
      BY <3>2, CmdIs, CopyIs
    <3> QED BY <2>2, <3>1, <3>2, <3>3, AliasDropped DEF DropAlias
  <2> QED BY <2>1, <2>2
<1>2. SoundWith(f, t, next, pushed, typed)
  BY <1>1, CopyIs, AsSound
<1>3. /\ UNCHANGED <<next, old, req, tokens, pushed, typed, off>>
      /\ cmd' = [cmd EXCEPT ![c] = NoCmd]
  BY DEF PutAlias, DropAlias
<1>4. SoundWith(f, t, next', pushed', typed')
  BY <1>2, <1>3
<1>5. /\ next' \in 1 .. MaxId + 1 /\ next <= next' /\ typed \subseteq typed'
      /\ typed' \subseteq [id : Id, pin : Pin]
  BY <1>3, Bounds
<1> QED BY <1>1, <1>3, <1>4, <1>5, PutsInv

\* A step of a request that stores nothing; N is what it makes of its state.
LEMMA ReqReads ==
    ASSUME NEW f, IInv(f), NEW r \in Req, NEW q \in Reqs, OkReq(q),
           NEW N, \A s \in N : SoundWith(f, s, next, pushed', typed),
           req' = [req EXCEPT ![r] = q], UNCHANGED <<db, old, cmd, next, typed, off>>,
           q.s \in Copies \cup N \cup {None},
           tokens' \in 0 .. MaxTok, pushed \subseteq pushed', IsFiniteSet(pushed'),
           pushed' \subseteq [id : Id, iden : Device, pin : Pin]
    PROVE  IInv(f)'
<1>1. Stores(N)
  BY SameStores DEF IInv
<1> QED BY <1>1, ReqStep

LEMMA VisitInv == ASSUME NEW f, IInv(f), NEW r \in Req, Visit(r) PROVE IInv(f)'
<1>1. PICK i \in Id, iden \in Device \cup {None} :
        /\ db.vals[i] # None
        /\ req' = [req EXCEPT ![r] = [iden |-> iden, s |-> db.vals[i],
              pc |-> IF Expired(db.vals[i]) THEN "expired"
                     ELSE IF iden = None THEN "exchange" ELSE "device"]]
        /\ UNCHANGED <<db, next, old, cmd, tokens, pushed, typed, off>>
  BY DEF Visit
<1> DEFINE s == db.vals[i]
           pc == IF Expired(s) THEN "expired"
                 ELSE IF iden = None THEN "exchange" ELSE "device"
           q == [iden |-> iden, s |-> s, pc |-> pc]
           N == {}
<1>2. s \in Copies /\ s # None
  BY <1>1 DEF Copies, Stored
<1>3. s \in State
  BY <1>2, CopyIs
<1>4. pc \in {"expired", "exchange", "device"} /\ (pc = "device" => iden # None)
  OBVIOUS
<1>5. req' = [req EXCEPT ![r] = q]
  BY <1>1
<1> HIDE DEF s, pc
<1>6. q \in Reqs /\ OkReq(q) /\ q.s \in Copies \cup N \cup {None}
  BY <1>2, <1>3, <1>4 DEF Reqs, OkReq
<1>7. \A t \in N : SoundWith(f, t, next, pushed', typed)
  OBVIOUS
<1>8. /\ tokens' \in 0 .. MaxTok /\ pushed \subseteq pushed' /\ IsFiniteSet(pushed')
      /\ pushed' \subseteq [id : Id, iden : Device, pin : Pin]
  BY <1>1, Bounds
<1> HIDE DEF q, N
<1> QED BY <1>1, <1>5, <1>6, <1>7, <1>8, ReqReads

LEMMA ReqOver ==
    ASSUME NEW f, IInv(f), NEW r \in Req, VisitExpired(r) \/ Fail(r) \/ PutState(r)
    PROVE  IInv(f)'
<1>1. req[r].s \in Copies
  <2>1. req[r].pc # "idle"
    BY DEF VisitExpired, Fail, PutState
  <2> QED BY <2>1, ReqIs DEF OkReq
<1>2. req[r].s \in State /\ SoundWith(f, req[r].s, next, pushed, typed)
  BY <1>1, CopyIs
<1> DEFINE N == {req[r].s}
<1>3. \A s \in N : SoundWith(f, s, next, pushed, typed)
  BY <1>2
<1>4. Stores(N)
  <2>1. CASE VisitExpired(r)
    BY <2>1, <1>2, DelStores DEF VisitExpired, IInv
  <2>2. CASE Fail(r)
    BY <2>2, SameStores DEF Fail, IInv
  <2>3. CASE PutState(r)
    BY <2>3, <1>2, PutStores DEF PutState, IInv
  <2> QED BY <2>1, <2>2, <2>3
<1>5. /\ req' = [req EXCEPT ![r] = NoReq]
      /\ UNCHANGED <<old, cmd, next, tokens, pushed, typed, off>>
  BY DEF VisitExpired, Fail, PutState
<1> HIDE DEF N
<1> QED BY <1>3, <1>4, <1>5, ReqEnds

LEMMA ExchangeInv == ASSUME NEW f, IInv(f), NEW r \in Req, Exchange(r) PROVE IInv(f)'
<1> DEFINE s == req[r].s
           t == [s EXCEPT !.token = tokens + 1]
           N == {t}
<1>1. s \in Copies
  BY ReqIs DEF Exchange, OkReq
<1>2. s \in State /\ SoundWith(f, s, next, pushed, typed)
  BY <1>1, CopyIs
<1>3. tokens + 1 \in Token /\ tokens' = tokens + 1 /\ tokens' \in 0 .. MaxTok
  BY Bounds, PushesAssumption DEF Exchange, Token
<1>4. /\ t \in State /\ t.id = s.id /\ t.nick = s.nick /\ t.iden = s.iden /\ t.pin = s.pin
      /\ t.done = s.done
  BY <1>2, <1>3, Granted
<1>5. req' = [req EXCEPT ![r] = Putting(t)]
  BY DEF Exchange
<1>6. UNCHANGED <<db, old, cmd, next, pushed, typed, off>>
  BY DEF Exchange
<1> HIDE DEF s, t
<1>7. SoundWith(f, t, next, pushed', typed)
  BY <1>2, <1>4, <1>6, AsSound
<1>8. /\ Putting(t) \in Reqs /\ OkReq(Putting(t)) /\ Putting(t).s \in Copies \cup N \cup {None}
  BY <1>4, StateIs DEF Putting, Reqs, OkReq
<1>9. \A x \in N : SoundWith(f, x, next, pushed', typed)
  BY <1>7
<1>10. /\ pushed \subseteq pushed' /\ IsFiniteSet(pushed')
       /\ pushed' \subseteq [id : Id, iden : Device, pin : Pin]
  BY <1>6, Bounds
<1> HIDE DEF N
<1> QED BY <1>3, <1>5, <1>6, <1>8, <1>9, <1>10, ReqReads

\* The pin is new, and the state has the device it was pushed to.
LEMMA PushPinInv == ASSUME NEW f, IInv(f), NEW r \in Req, PushPin(r) PROVE IInv(f)'
<1> DEFINE s == req[r].s
           p == Cardinality(pushed) + 1
           t == WithPin(s, req[r].iden, p)
           x == [id |-> t.id, iden |-> t.iden, pin |-> t.pin]
           N == {t}
<1>1. s \in Copies /\ req[r].iden \in Device
  BY ReqIs DEF PushPin, OkReq, Reqs
<1>2. s \in State /\ SoundWith(f, s, next, pushed, typed)
  BY <1>1, CopyIs
<1>3. p \in Pin
  BY Bounds, FS_CardinalityType, PushesAssumption DEF PushPin, Pin
<1>4. /\ CanConfirm(t) /\ pushed' = pushed \cup {x}
      /\ req' = [req EXCEPT ![r] = Putting(t)]
      /\ UNCHANGED <<db, next, old, cmd, tokens, typed, off>>
  BY DEF PushPin
<1> HIDE DEF p
<1>5. /\ t \in State /\ t.id = s.id /\ t.nick = s.nick /\ t.iden = req[r].iden /\ t.pin = p
  BY <1>1, <1>2, <1>3, Given
<1> HIDE DEF s, t
<1>6. ~t.done
  BY <1>4 DEF CanConfirm
<1>7. x \in [id : Id, iden : Device, pin : Pin]
  BY <1>1, <1>3, <1>5, StateIs
<1>8. /\ pushed \subseteq pushed' /\ IsFiniteSet(pushed')
      /\ pushed' \subseteq [id : Id, iden : Device, pin : Pin]
  BY <1>4, <1>7, Bounds, FS_AddElement
<1>9. SoundWith(f, t, next, pushed', typed)
  BY <1>2, <1>4, <1>5, <1>6 DEF SoundWith
<1>10. Putting(t) \in Reqs /\ OkReq(Putting(t)) /\ Putting(t).s \in Copies \cup N \cup {None}
  BY <1>5, StateIs DEF Putting, Reqs, OkReq
<1>11. \A y \in N : SoundWith(f, y, next, pushed', typed)
  BY <1>9
<1>12. tokens' \in 0 .. MaxTok
  BY <1>4, Bounds
<1> HIDE DEF N, x
<1> QED BY <1>4, <1>8, <1>10, <1>11, <1>12, ReqReads

LEMMA NextInv == Inv /\ [Next]_vars => Inv'
<1> SUFFICES ASSUME Inv, [Next]_vars PROVE Inv'
  OBVIOUS
<1> PICK f : IInv(f)
  BY DEF Inv
<1>0. IInv(f)' => Inv'
  BY DEF Inv
<1>1. ASSUME NEW i \in Id, Hour(i)
      PROVE  Inv'
  BY <1>0, <1>1, HourInv
<1>2. ASSUME NEW c \in Conn,
             \/ Ask(c) \/ GetNick(c) \/ GetAlias(c) \/ DropExpired(c) \/ Refuse(c)
             \/ Enable(c) \/ Disable(c) \/ Confirm(c)
             \/ CheckAlias(c) \/ PutAlias(c) \/ DropAlias(c)
      PROVE  Inv'
  BY <1>0, <1>2, AskInv, GetInv, DropInv, RefuseInv, DisableInv, ConfirmInv,
     CheckAliasInv, AliasInv
<1>3. ASSUME NEW c \in Conn, NewState(c)
      PROVE  Inv'
  BY <1>3, NewStateInv
<1>4. ASSUME NEW r \in Req,
             \/ Visit(r) \/ VisitExpired(r) \/ Fail(r) \/ Exchange(r) \/ PushPin(r)
             \/ PutState(r)
      PROVE  Inv'
  BY <1>0, <1>4, VisitInv, ReqOver, ExchangeInv, PushPinInv
<1>5. CASE UNCHANGED vars
  <2>1. TypeOK' /\ Doing' /\ Asked'
    BY <1>5 DEF vars, IInv, TypeOK, Doing, Asked
  <2>2. AllSound(f)' /\ AllNamed(f)'
    BY <1>5 DEF vars, IInv, AllSound, AllNamed, Copies, Stored, Held
  <2> QED BY <1>0, <2>1, <2>2 DEF IInv
<1> QED BY <1>1, <1>2, <1>3, <1>4, <1>5 DEF Next

-----------------------------------------------------------------------------

\* What the connections, the requests and the collection hold is always of its type.
THEOREM TypeCorrect == Spec => []TypeOK
<1>1. Inv => TypeOK
  BY DEF Inv, IInv
<1> QED BY InitInv, NextInv, <1>1, PTL DEF Spec

\* A state that pushes go to has the device to which the pin was pushed that was typed
\* for it (pushbullet.go:32), however commands and requests interleave.
THEOREM PinsConfirm == Spec => []Confirmed
<1>1. Inv => Confirmed
  <2> SUFFICES ASSUME NEW f, IInv(f), NEW s \in Stored, s.done
               PROVE  /\ [id |-> s.id, iden |-> s.iden, pin |-> s.pin] \in pushed
                      /\ [id |-> s.id, pin |-> s.pin] \in typed
    BY DEF Confirmed, Inv
  <2> QED BY CopyIs DEF Copies, SoundWith
<1> QED BY InitInv, NextInv, <1>1, PTL DEF Spec

\* Push disable deletes the state of the nick that gives the command, whoever has it for
\* an alias and whatever the index has been through (pushbullet.go:62).
THEOREM DisablesOwn == Spec => OwnDisable
<1>1. ASSUME Inv, [Next]_vars, NEW i \in Id, NEW c \in Conn,
             db.vals[i] # None, db'.vals[i] = None,
             cmd[c].pc = "got", cmd[c].is = "disable", cmd'[c] # cmd[c]
      PROVE  cmd[c].nick = db.vals[i].nick
  <2> PICK f : IInv(f)
    BY <1>1 DEF Inv
  <2>1. Disable(c)
    <3>1. ASSUME NEW r \in Req, UNCHANGED cmd
          PROVE  FALSE
      BY <1>1, <3>1
    <3>2. PICK d \in Conn :
             \/ Ask(d) \/ GetNick(d) \/ GetAlias(d) \/ DropExpired(d) \/ Refuse(d)
             \/ Enable(d) \/ NewState(d) \/ Disable(d) \/ Confirm(d)
             \/ CheckAlias(d) \/ PutAlias(d) \/ DropAlias(d)
      BY <1>1 DEF Next, vars, Hour, Visit, VisitExpired, Fail, Exchange, PushPin, PutState
    <3>3. \E h : cmd' = [cmd EXCEPT ![d] = h]
      BY <3>2 DEF Ask, GetNick, GetAlias, DropExpired, Refuse, Enable, NewState, Disable,
                  Confirm, CheckAlias, PutAlias, DropAlias
    <3>4. d = c
      BY <1>1, <3>3 DEF IInv, TypeOK
    <3>5. ~Refuse(c)
      BY <1>1 DEF Refuse
    <3> QED BY <1>1, <3>2, <3>4, <3>5 DEF Ask, NoCmd, GetNick, GetAlias, DropExpired, Enable,
                NewState, Confirm, CheckAlias, PutAlias, DropAlias, Going
  <2>2. cmd[c].s # None
    BY <2>1, CmdIs DEF Disable, Going, Refused, OkCmd
  <2>3. cmd[c].s \in Copies /\ cmd[c].s \in State
    BY <2>2, CmdIs, CopyIs
  <2>4. db'.vals = [db.vals EXCEPT ![cmd[c].s.id] = None]
    BY <2>1, <2>3, DelIs DEF Disable, IInv, TypeOK
  <2>5. i = cmd[c].s.id
    BY <1>1, <2>4 DEF IInv, TypeOK, Tx!Store
  <2>6. db.vals[i] \in Copies /\ db.vals[i].id = i
    BY <1>1 DEF Copies, Stored, IInv, TypeOK
  <2>7. cmd[c].s.nick = f[i] /\ db.vals[i].nick = f[i]
    BY <2>3, <2>5, <2>6, CopyIs DEF SoundWith
  <2>8. cmd[c].s.nick = cmd[c].nick
    BY <1>1, <2>2, CmdIs DEF OkCmd
  <2> QED BY <2>7, <2>8
<1>2. Inv /\ [Next]_vars =>
        [\A i \in Id : \A c \in Conn :
            (/\ db.vals[i] # None /\ db'.vals[i] = None
             /\ cmd[c].pc = "got" /\ cmd[c].is = "disable" /\ cmd'[c] # cmd[c])
                => cmd[c].nick = db.vals[i].nick]_vars
  BY <1>1
<1> QED BY InitInv, NextInv, <1>2, PTL DEF Spec, OwnDisable

=============================================================================
