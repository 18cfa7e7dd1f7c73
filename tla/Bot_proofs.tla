----------------------------- MODULE Bot_proofs -----------------------------
(***************************************************************************)
(* Theorems about PollerSet for every finite set of pollers, every set of  *)
(* connections and every bound on the number of goroutines: while the bot  *)
(* is connected each poller has exactly one goroutine that was not told to *)
(* quit, and only those told to quit poll with nothing to send to. About   *)
(* Dispatch, for any connections, commands, nick of the bot and lines:     *)
(* what is dispatched, once, and of whom nothing is. And about Keyed and   *)
(* Conf, for any keys that do not collide, values, namespaces and          *)
(* settings: what is stored under a key, alone or below another, and that  *)
(* the stored configuration answers as the one in memory.                  *)
(***************************************************************************)
EXTENDS PollerSet, Dispatch, Conf, Integers, FiniteSetTheorems, SequenceTheorems,
        WellFoundedInduction, TLAPS

-----------------------------------------------------------------------------
(* The pollers.                                                                *)

\* Goroutines that have not been started belong to no poller; the others belong to
\* a registered one.
Owned == \A r \in Run :
    /\ r > started => of[r] = None /\ r \notin closed
    /\ pc[r] = "new" <=> of[r] = None
    /\ of[r] # None => of[r] \in Added

IInv == TypeOK /\ Owned /\ OneLiveRun /\ EmptyPollsEnd

LEMMA InitIInv == Init => IInv
BY PollerAssumption
   DEF Init, IInv, TypeOK, Owned, OneLiveRun, EmptyPollsEnd, Run, Added

\* What startOne does for the pollers of P: each gets a goroutine of its own.
LEMMA Started ==
    ASSUME TypeOK, Owned, NEW P, NEW Q, P \subseteq Q, Q \subseteq Poller,
           \A p \in Q : p \in P \/ p \in Added, StartAll(P, Q)
    PROVE  /\ started' \in started .. MaxRuns
           /\ quit' \in [Q -> Run \cup {None}]
           /\ \A p \in Q \ P : quit'[p] = quit[p]
           /\ \A p \in P : quit'[p] \in Run /\ quit'[p] > started
           /\ \A p \in P : quit'[p] <= started'
           /\ of' \in [Run -> Poller \cup {None}]
           /\ pc' \in [Run -> {"new", "start", "poll", "select", "ended"}]
           /\ \A r \in Run : \A p \in P : of'[r] = p /\ r > started <=> r = quit'[p]
           /\ \A r \in Run : ~ (\E p \in P : r = quit'[p]) =>
                 of'[r] = of[r] /\ pc'[r] = pc[r]
           /\ \A r \in Run : (\E p \in P : r = quit'[p]) => pc'[r] = "start"
<1> DEFINE m == Cardinality(P)
<1>1. IsFiniteSet(P) /\ m \in Nat
  BY PollerAssumption, FS_Subset, FS_CardinalityType
<1>2. PICK n \in [P -> started + 1 .. started + m] :
          /\ \A p, q \in P : n[p] = n[q] => p = q
          /\ quit' = [p \in Q |-> IF p \in P THEN n[p] ELSE quit[p]]
          /\ of' = [r \in Run |-> IF \E p \in P : n[p] = r
                                  THEN CHOOSE p \in P : n[p] = r ELSE of[r]]
          /\ pc' = [r \in Run |-> IF \E p \in P : n[p] = r THEN "start" ELSE pc[r]]
  BY DEF StartAll
<1>3. started' = started + m /\ started + m <= MaxRuns
  BY DEF StartAll
<1> HIDE DEF m
<1>4. started \in Nat /\ MaxRuns \in Nat /\ started' \in started .. MaxRuns
  BY <1>1, <1>3, PollerAssumption DEF TypeOK
<1>5. \A p \in P : n[p] \in Run /\ n[p] > started /\ n[p] <= started' /\ quit'[p] = n[p]
  BY <1>1, <1>2, <1>3, <1>4 DEF Run
<1>6. quit' \in [Q -> Run \cup {None}] /\ \A p \in Q \ P : quit'[p] = quit[p]
  BY <1>2, <1>5 DEF TypeOK
<1>7. \A r \in Run : \A p \in P : n[p] = r => of'[r] = p
  BY <1>2
<1>8. \A r \in Run : ~ (\E p \in P : n[p] = r) => of'[r] = of[r] /\ pc'[r] = pc[r]
  BY <1>2
<1>9. of' \in [Run -> Poller \cup {None}]
  <2>1. \A r \in Run : of'[r] \in Poller \cup {None}
    BY <1>7, <1>8 DEF TypeOK
  <2> QED
    BY <1>2, <2>1
<1>10. pc' \in [Run -> {"new", "start", "poll", "select", "ended"}]
  BY <1>2 DEF TypeOK
<1>11. \A r \in Run : \A p \in P : of'[r] = p /\ r > started => r = n[p]
  BY <1>7, <1>8, PollerAssumption DEF Owned
<1>12. \A r \in Run : (\E p \in P : n[p] = r) => pc'[r] = "start"
  BY <1>2
<1> QED
  BY <1>4, <1>5, <1>6, <1>7, <1>8, <1>9, <1>10, <1>11, <1>12

\* The first connection, or a poller added while connected: the pollers of P, which
\* had no goroutine, have one each afterwards.
LEMMA StartIInv ==
    ASSUME IInv, NEW P, P \subseteq Poller, StartAll(P, Added \cup P),
           \A p \in P \cap Added : Live(p) = {},
           conns = {} => P = Added, conns' # {}, conns' \subseteq Conn
    PROVE  IInv'
<1> DEFINE Q == Added \cup P
<1>1. UNCHANGED <<closed, ticked, ctxs>>
  BY DEF StartAll
<1>2. P \subseteq Q /\ Q \subseteq Poller /\ \A p \in Q : p \in P \/ p \in Added
  BY DEF IInv, TypeOK
<1>3. /\ started' \in started .. MaxRuns
      /\ quit' \in [Q -> Run \cup {None}]
      /\ \A p \in Q \ P : quit'[p] = quit[p]
      /\ \A p \in P : quit'[p] \in Run /\ quit'[p] > started
      /\ \A p \in P : quit'[p] <= started'
      /\ of' \in [Run -> Poller \cup {None}]
      /\ pc' \in [Run -> {"new", "start", "poll", "select", "ended"}]
      /\ \A r \in Run : \A p \in P : of'[r] = p /\ r > started <=> r = quit'[p]
      /\ \A r \in Run : ~ (\E p \in P : r = quit'[p]) => of'[r] = of[r] /\ pc'[r] = pc[r]
      /\ \A r \in Run : (\E p \in P : r = quit'[p]) => pc'[r] = "start"
  BY <1>2, Started DEF IInv
<1>4. Added' = Q
  BY <1>3 DEF Added
<1>5. started \in Nat /\ MaxRuns \in Nat /\ started' \in Nat /\ started <= started'
  BY <1>3, PollerAssumption DEF IInv, TypeOK
<1>6. TypeOK'
  BY <1>1, <1>2, <1>3, <1>4, <1>5 DEF IInv, TypeOK
<1>7. Owned'
  <2> SUFFICES ASSUME NEW r \in Run
               PROVE  /\ r > started' => of'[r] = None /\ r \notin closed'
                      /\ pc'[r] = "new" <=> of'[r] = None
                      /\ of'[r] # None => of'[r] \in Added'
    BY DEF Owned
  <2>1. CASE \E p \in P : r = quit'[p]
    <3>1. PICK p \in P : r = quit'[p]
      BY <2>1
    <3>2. of'[r] = p /\ pc'[r] = "start" /\ r <= started' /\ p # None
      BY <1>2, <1>3, <3>1, PollerAssumption
    <3> QED
      BY <1>4, <1>5, <3>2 DEF Run
  <2>2. CASE ~ \E p \in P : r = quit'[p]
    <3>1. of'[r] = of[r] /\ pc'[r] = pc[r]
      BY <1>3, <2>2
    <3>2. r > started' => r > started
      BY <1>5 DEF Run
    <3> QED
      BY <1>1, <1>4, <3>1, <3>2 DEF IInv, Owned
  <2> QED
    BY <2>1, <2>2
<1>8. OneLiveRun'
  <2> SUFFICES ASSUME NEW p \in Q
               PROVE  quit'[p] # None /\ Live(p)' = {quit'[p]}
    BY <1>4 DEF OneLiveRun
  <2>1. CASE p \in P
    <3>1. quit'[p] \in Run /\ quit'[p] > started /\ quit'[p] \notin closed
      BY <1>3, <2>1 DEF IInv, Owned
    <3>2. ASSUME NEW r \in Run, of'[r] = p, r \notin closed, r # quit'[p] PROVE FALSE
      <4>1. ~ (r > started)
        BY <1>3, <2>1, <3>2
      <4>2. ~ \E q \in P : r = quit'[q]
        BY <1>3, <4>1
      <4>3. of[r] = p /\ p # None
        BY <1>2, <1>3, <3>2, <4>2, PollerAssumption
      <4>4. r \in Live(p) /\ p \in Added
        BY <3>2, <4>3 DEF Live, IInv, Owned
      <4> QED
        BY <2>1, <4>4
    <3>3. of'[quit'[p]] = p
      BY <1>3, <2>1, <3>1
    <3>4. Live(p)' = {quit'[p]}
      BY <1>1, <3>1, <3>2, <3>3 DEF Live
    <3> QED
      BY <3>1, <3>4, PollerAssumption DEF Run
  <2>2. CASE p \notin P
    <3>1. p \in Added /\ conns # {}
      BY <2>2
    <3>2. quit'[p] = quit[p] /\ quit[p] # None /\ Live(p) = {quit[p]}
      BY <1>3, <2>2, <3>1 DEF IInv, OneLiveRun
    <3>3. \A r \in Run : of'[r] = p <=> of[r] = p
      <4> TAKE r \in Run
      <4>1. CASE \E q \in P : r = quit'[q]
        <5>1. of'[r] \in P /\ r > started /\ of[r] = None
          BY <1>3, <4>1 DEF IInv, Owned
        <5> QED
          BY <1>2, <2>2, <5>1, PollerAssumption
      <4>2. CASE ~ \E q \in P : r = quit'[q]
        BY <1>3, <4>2
      <4> QED
        BY <4>1, <4>2
    <3>4. Live(p)' = Live(p)
      BY <1>1, <3>3 DEF Live
    <3> QED
      BY <3>2, <3>4
  <2> QED
    BY <2>1, <2>2
<1>9. EmptyPollsEnd'
  BY <1>1, <1>3 DEF IInv, EmptyPollsEnd
<1> QED
  BY <1>6, <1>7, <1>8, <1>9 DEF IInv

LEMMA AddIInv == ASSUME IInv, NEW p \in Poller, Add(p) PROVE IInv'
<1>1. CASE conns = {}
  <2>1. quit' = [q \in Added \cup {p} |-> IF q = p THEN None ELSE quit[q]]
        /\ UNCHANGED <<conns, started, of, pc, closed, ticked, ctxs>> /\ p \notin Added
    BY <1>1 DEF Add
  <2>2. Added' = Added \cup {p}
    BY <2>1 DEF Added
  <2>3. TypeOK'
    BY <2>1, <2>2 DEF IInv, TypeOK
  <2>4. Owned' /\ EmptyPollsEnd'
    BY <2>1, <2>2 DEF IInv, Owned, EmptyPollsEnd
  <2>5. Live(p) = {} /\ \A q \in Added \cup {p} : Live(q)' = Live(q)
    BY <2>1, PollerAssumption DEF IInv, Owned, Live
  <2>6. OneLiveRun'
    BY <1>1, <2>1, <2>2, <2>5 DEF IInv, OneLiveRun
  <2> QED
    BY <2>3, <2>4, <2>6 DEF IInv
<1>2. CASE conns # {}
  <2>1. p \notin Added /\ StartAll({p}, Added \cup {p}) /\ conns' = conns
    BY <1>2 DEF Add
  <2>2. {p} \cap Added = {} /\ conns' \subseteq Conn
    BY <2>1 DEF IInv, TypeOK
  <2> QED
    BY <1>2, <2>1, <2>2, StartIInv
<1> QED
  BY <1>1, <1>2

LEMMA ConnectedIInv == ASSUME IInv, NEW c \in Conn, Connected(c) PROVE IInv'
<1>1. conns' = conns \cup {c} /\ conns' \subseteq Conn /\ conns' # {}
  BY DEF Connected, IInv, TypeOK
<1>2. CASE conns = {}
  <2>1. StartAll(Added, Added \cup Added) /\ Added \subseteq Poller
    BY <1>2 DEF Connected, IInv, TypeOK
  <2>2. \A p \in Added \cap Added : Live(p) = {}
    BY <1>2 DEF IInv, OneLiveRun
  <2> QED
    BY <1>1, <1>2, <2>1, <2>2, StartIInv
<1>3. CASE conns # {}
  <2>1. UNCHANGED <<quit, started, of, pc, closed, ticked, ctxs>>
    BY <1>3 DEF Connected
  <2>2. Added' = Added /\ \A p \in Added : Live(p)' = Live(p)
    BY <2>1 DEF Added, Live
  <2> QED
    BY <1>1, <1>3, <2>1, <2>2
       DEF IInv, TypeOK, Owned, OneLiveRun, EmptyPollsEnd
<1> QED
  BY <1>2, <1>3

LEMMA DisconnectedIInv == ASSUME IInv, NEW c \in Conn, Disconnected(c) PROVE IInv'
<1>1. CASE conns = {c}
  <2>1. /\ conns' = {} /\ quit' = [p \in Added |-> None]
        /\ closed' = closed \cup ({quit[p] : p \in Added} \ {None})
        /\ UNCHANGED <<started, of, pc, ticked, ctxs>>
    BY <1>1 DEF Disconnected
  <2>2. Added' = Added
    BY <2>1 DEF Added
  <2>3. \A p \in Added : quit[p] \in Run /\ Live(p) = {quit[p]}
    BY <1>1 DEF IInv, OneLiveRun, TypeOK
  <2>4. closed' = closed \cup {quit[p] : p \in Added}
    BY <2>1, <2>3, PollerAssumption DEF Run
  <2>5. TypeOK'
    BY <2>1, <2>2, <2>3, <2>4 DEF IInv, TypeOK
  <2>6. \A r \in Run : r > started => r \notin closed'
    BY <2>3, <2>4, PollerAssumption DEF IInv, TypeOK, Owned, Live
  <2>7. Owned' /\ EmptyPollsEnd'
    BY <2>1, <2>2, <2>4, <2>6 DEF IInv, Owned, EmptyPollsEnd
  <2>8. \A p \in Added : Live(p)' = {}
    BY <2>1, <2>3, <2>4 DEF Live
  <2>9. OneLiveRun'
    BY <2>1, <2>2, <2>8 DEF OneLiveRun
  <2> QED
    BY <2>5, <2>7, <2>9 DEF IInv
<1>2. CASE conns # {c}
  <2>1. conns' = conns \ {c} /\ (conns = {} <=> conns' = {})
        /\ UNCHANGED <<quit, started, of, pc, closed, ticked, ctxs>>
    BY <1>2 DEF Disconnected
  <2>2. Added' = Added /\ \A p \in Added : Live(p)' = Live(p)
    BY <2>1 DEF Added, Live
  <2> QED
    BY <2>1, <2>2 DEF IInv, TypeOK, Owned, OneLiveRun, EmptyPollsEnd
<1> QED
  BY <1>1, <1>2

\* The steps of a goroutine change neither the set nor who was told to quit.
LEMMA RunIInv ==
    ASSUME IInv, NEW r \in Run,
           Begin(r) \/ PollEnds(r) \/ Tick(r) \/ PollAgain(r) \/ Quit(r)
    PROVE  IInv'
<1>1. UNCHANGED <<quit, conns, started, of, closed>>
  BY DEF Begin, PollEnds, Tick, PollAgain, Quit
<1>2. Added' = Added /\ \A p \in Added : Live(p)' = Live(p)
  BY <1>1 DEF Added, Live
<1>3. OneLiveRun'
  BY <1>1, <1>2 DEF IInv, OneLiveRun
<1>4. TypeOK'
  BY <1>1, <1>2 DEF IInv, TypeOK, Begin, PollEnds, Tick, PollAgain, Quit
<1>5. Owned'
  BY <1>1, <1>2 DEF IInv, TypeOK, Owned, Begin, PollEnds, Tick, PollAgain, Quit
<1>6. r \notin closed /\ pc[r] # "new" => conns # {}
  \* it is the live goroutine of a registered poller
  <2> SUFFICES ASSUME r \notin closed, pc[r] # "new" PROVE conns # {}
    OBVIOUS
  <2>1. of[r] \in Added /\ r \in Live(of[r])
    BY DEF IInv, Owned, Live
  <2> QED
    BY <2>1 DEF IInv, OneLiveRun
<1>7. EmptyPollsEnd'
  BY <1>1, <1>6 DEF IInv, TypeOK, EmptyPollsEnd, Begin, PollEnds, Tick, PollAgain, Quit
<1> QED
  BY <1>3, <1>4, <1>5, <1>7 DEF IInv

LEMMA Inductive == Spec => []IInv
<1>1. ASSUME IInv, [Next]_vars PROVE IInv'
  <2>1. CASE UNCHANGED vars
    <3>1. Added' = Added /\ \A p \in Added : Live(p)' = Live(p)
      BY <2>1 DEF vars, Added, Live
    <3>2. UNCHANGED <<quit, conns, started, of, pc, closed, ticked, ctxs>>
      BY <2>1 DEF vars
    <3>3. TypeOK' /\ Owned' /\ EmptyPollsEnd'
      BY <3>1, <3>2, <1>1 DEF IInv, TypeOK, Owned, EmptyPollsEnd
    <3>4. OneLiveRun'
      BY <3>1, <3>2, <1>1 DEF IInv, OneLiveRun
    <3> QED
      BY <3>3, <3>4 DEF IInv
  <2> QED
    BY <1>1, <2>1, AddIInv, ConnectedIInv, DisconnectedIInv, RunIInv DEF Next
<1> QED
  BY InitIInv, <1>1, PTL DEF Spec

\* Every variable of the poller set keeps its type.
THEOREM TypeCorrect == Spec => []TypeOK
<1>1. IInv => TypeOK
  BY DEF IInv
<1> QED
  BY Inductive, <1>1, PTL

\* While a server is connected each registered poller has exactly one goroutine that
\* was not told to quit, the one whose channel the set keeps; while none is, no
\* poller has one. It holds however many old goroutines are still polling.
THEOREM OneGoroutine == Spec => []OneLiveRun
<1>1. IInv => OneLiveRun
  BY DEF IInv
<1> QED
  BY Inductive, <1>1, PTL

\* Only a goroutine that has been told to quit polls with no connection.
THEOREM PollsSomewhere == Spec => []EmptyPollsEnd
<1>1. IInv => EmptyPollsEnd
  BY DEF IInv
<1> QED
  BY Inductive, <1>1, PTL

-----------------------------------------------------------------------------
(* The dispatch of lines.                                                      *)

\* One connection's line: each handler did one thing at most, what it may do; those of a
\* muted nick have not passed the filter.
ConnInv(c) ==
    /\ heard[c] = Nobody => /\ \A h \in Handler : progress[c][h] = "done"
                            /\ ran[c] = {} /\ c \notin quiet
    /\ \A x \in ran[c] :
        /\ x[1] \in Handler /\ progress[c][x[1]] \in {"reply", "done"}
        /\ x[1] = "commands" => /\ x[2] \in Match(NewContext(heard[c]).text)
                                /\ ~IsFactoidAddition(heard[c].text)
        /\ x[1] = "insert" => IsFactoidAddition(heard[c].text)
    /\ \A x, y \in ran[c] : x # y => x[1] # y[1]
    /\ c \in quiet => /\ Lower(heard[c].nick) \in ignored /\ ran[c] = {}
                      /\ \A h \in Handler : progress[c][h] \in {"new", "done"}

\* What ignore has said is in the namespace, until it is taken out by unignore.
DispatchInv ==
    /\ muted \subseteq ignored
    /\ heard \in [Server -> LineHeard \cup {Nobody}]
    /\ progress \in [Server -> [Handler -> {"new", "passed", "reply", "done"}]]
    /\ DOMAIN ran = Server
    /\ \A c \in Server : ConnInv(c)

\* The symbols of texts, also those that Cut leaves.
Symbol == STRING \cup {"=", "is"}

LEMMA SymbolIs ==
    /\ "=" \in Symbol /\ "is" \in Symbol
    /\ \A s \in Seq(STRING) : s \in Seq(Symbol)
<1>1. STRING \subseteq Symbol
  BY DEF Symbol
<1>2. ASSUME NEW s \in Seq(STRING) PROVE s \in Seq(Symbol)
  <2> HIDE DEF Symbol
  <2>1. Len(s) \in Nat /\ s = [i \in 1 .. Len(s) |-> s[i]] /\ \A i \in 1 .. Len(s) : s[i] \in STRING
    OBVIOUS
  <2>2. \A i \in 1 .. Len(s) : s[i] \in Symbol
    BY <1>1, <2>1
  <2>3. [i \in 1 .. Len(s) |-> s[i]] \in Seq(Symbol)
    BY <2>1, <2>2, IsASeq
  <2> QED BY <2>1, <2>3
<1> QED BY <1>2 DEF Symbol

\* Of some naturals there is a least, which is their Min.
LEMMA LeastIs ==
    ASSUME NEW N \in SUBSET Nat, N # {}
    PROVE  \E m \in N : \A n \in N : m <= n
<1>1. PICK m \in N : \A n \in N : <<n, m>> \notin OpToRel(<, Nat)
  BY NatLessThanWellFounded, WFMin
<1>2. \A n \in N : ~(n < m)
  BY <1>1 DEF OpToRel
<1> QED BY <1>2

LEMMA MinIs ==
    ASSUME NEW N \in SUBSET Nat, N # {}
    PROVE  Min(N) \in N /\ \A n \in N : Min(N) <= n
BY LeastIs DEF Min

LEMMA SubSeqIs ==
    ASSUME NEW T, NEW s \in Seq(T), NEW m \in 1 .. Len(s) + 1, NEW n \in 0 .. Len(s)
    PROVE  /\ SubSeq(s, m, n) \in Seq(T)
           /\ Len(SubSeq(s, m, n)) = IF m <= n THEN n - m + 1 ELSE 0
           /\ \A i \in DOMAIN SubSeq(s, m, n) :
                i + m - 1 \in DOMAIN s /\ SubSeq(s, m, n)[i] = s[i + m - 1]
<1> DEFINE k == IF m <= n THEN n - m + 1 ELSE 0
           b == SubSeq(s, m, n)
<1>1. Len(s) \in Nat /\ m \in Int /\ n \in Int /\ \A i \in m .. n : i \in 1 .. Len(s) /\ s[i] \in T
  OBVIOUS
<1>2. b \in Seq(T) /\ Len(b) = k /\ \A i \in 1 .. n - m + 1 : b[i] = s[m + i - 1]
  BY <1>1, SubSeqProperties
<1>3. \A i \in 1 .. k : i \in 1 .. n - m + 1 /\ i + m - 1 \in 1 .. Len(s) /\ m + i - 1 = i + m - 1
  BY <1>1
<1>4. DOMAIN b = 1 .. k /\ DOMAIN s = 1 .. Len(s)
  BY <1>2
<1> QED BY <1>2, <1>3, <1>4

LEMMA ScanIs ==
    ASSUME NEW t \in Seq(Symbol), NEW set, "EOF" \notin set
    PROVE  Scan(t, 1, set) \in 1 .. Len(t) + 1
<1> DEFINE N == {j \in 1 .. Len(t) + 1 : At(t, j) \notin set}
<1>1. Len(t) \in Nat /\ DOMAIN t = 1 .. Len(t)
  OBVIOUS
<1>2. N \in SUBSET Nat
  BY <1>1
<1>3. Len(t) + 1 \notin DOMAIN t /\ Len(t) + 1 \in 1 .. Len(t) + 1
  BY <1>1
<1>4. At(t, Len(t) + 1) = "EOF"
  BY <1>3 DEF At
<1>5. Len(t) + 1 \in N
  BY <1>3, <1>4
<1>6. Min(N) \in N
  BY <1>2, <1>5, MinIs
<1> QED BY <1>6 DEF Scan

\* A text without the spaces around it is a part of it.
LEMMA TrimmedIs ==
    ASSUME NEW s \in Seq(Symbol)
    PROVE  /\ Trimmed(s) \in Seq(Symbol)
           /\ \A i \in DOMAIN Trimmed(s) : \E j \in DOMAIN s : Trimmed(s)[i] = s[j]
<1>1. Len(s) \in Nat /\ DOMAIN s = 1 .. Len(s)
  OBVIOUS
<1>2. Reverse(s) \in Seq(Symbol) /\ Len(Reverse(s)) = Len(s)
  <2>1. \A i \in 1 .. Len(s) : s[(Len(s) - i) + 1] \in Symbol
    BY <1>1
  <2> QED BY <1>1, <2>1 DEF Reverse
<1> DEFINE first == Scan(s, 1, {" "})
           last == Scan(Reverse(s), 1, {" "})
           end == Len(s) + 1 - last
<1>3. first \in 1 .. Len(s) + 1 /\ end \in 0 .. Len(s)
  <2>1. "EOF" \notin {" "}
    BY Zenon
  <2>2. first \in 1 .. Len(s) + 1 /\ last \in 1 .. Len(Reverse(s)) + 1
    BY <1>2, <2>1, ScanIs
  <2> HIDE DEF first, last
  <2> QED BY <1>1, <1>2, <2>2
<1>4. Trimmed(s) = SubSeq(s, first, end)
  BY DEF Trimmed
<1> HIDE DEF first, end
<1> QED BY <1>3, <1>4, SubSeqIs

\* What is left of a line is an addition only if the line is one.
LEMMA ContextIs ==
    ASSUME NEW l \in LineHeard
    PROVE  /\ NewContext(l).text \in Seq(Symbol)
           /\ IsFactoidAddition(NewContext(l).text) => IsFactoidAddition(l.text)
<1> DEFINE s == Trimmed(l.text)
           t == Cut(s[2]) \o SubSeq(s, 3, Len(s))
           part(p) == \A i \in DOMAIN p :
                        p[i] \in {":=", ":is"} => \E j \in DOMAIN l.text : p[i] = l.text[j]
<1>1. l.text \in Seq(Symbol)
  BY DispatchAssumption, SymbolIs
<1>2. s \in Seq(Symbol) /\ part(s)
  BY <1>1, TrimmedIs
<1>3. NewContext(l).text = IF HasPrefixedNick(s) THEN Trimmed(t) ELSE s
  BY DEF NewContext
<1> HIDE DEF s
<1>4. ASSUME HasPrefixedNick(s)
      PROVE  t \in Seq(Symbol) /\ part(t)
  <2>1. Len(s) > 1 /\ Len(s) \in Nat
    <3>1. Len(s) \in Nat
      BY <1>2
    <3> QED BY <1>4, <3>1 DEF HasPrefixedNick
  <2>0. 3 \in 1 .. Len(s) + 1 /\ Len(s) \in 0 .. Len(s)
    BY <2>1
  <2> DEFINE r == SubSeq(s, 3, Len(s))
             u == Cut(s[2])
  <2>2. r \in Seq(Symbol) /\ part(r)
    BY <1>2, <2>0, SubSeqIs
  <2>3. u \in {<<"=">>, <<"is">>, <<>>}
    BY DEF Cut
  <2>4. u \in Seq(Symbol) /\ part(u)
    <3> HIDE DEF u
    <3>1. ASSUME NEW w \in Symbol, w \notin {":=", ":is"}
          PROVE  <<w>> \in Seq(Symbol) /\ part(<<w>>)
      BY <3>1
    <3>2. /\ "=" \in Symbol /\ "=" \notin {":=", ":is"}
          /\ "is" \in Symbol /\ "is" \notin {":=", ":is"}
      BY SymbolIs
    <3>3. CASE u = <<>>
      BY <3>3
    <3>4. ASSUME NEW w \in {"=", "is"}, u = <<w>> PROVE u \in Seq(Symbol) /\ part(u)
      <4>1. w \in Symbol /\ w \notin {":=", ":is"}
        BY <3>2, <3>4
      <4> QED BY <3>1, <3>4, <4>1
    <3>5. u = <<>> \/ \E w \in {"=", "is"} : u = <<w>>
      BY <2>3
    <3> HIDE DEF part
    <3> QED BY <3>3, <3>4, <3>5
  <2> HIDE DEF r, u
  <2>5. u \o r \in Seq(Symbol) /\ part(u \o r)
    <3>1. u \o r \in Seq(Symbol) /\ Len(u \o r) = Len(u) + Len(r)
          /\ Len(u) \in Nat /\ Len(r) \in Nat
      BY <2>2, <2>4
    <3>2. ASSUME NEW i \in 1 .. Len(u \o r)
          PROVE  \/ i \in DOMAIN u /\ (u \o r)[i] = u[i]
                 \/ i - Len(u) \in DOMAIN r /\ (u \o r)[i] = r[i - Len(u)]
      BY <2>2, <2>4, <3>1
    <3>3. ASSUME NEW i \in DOMAIN (u \o r), (u \o r)[i] \in {":=", ":is"}
          PROVE  \E j \in DOMAIN l.text : (u \o r)[i] = l.text[j]
      <4>1. i \in 1 .. Len(u \o r)
        BY <3>1
      <4>2. CASE i \in DOMAIN u /\ (u \o r)[i] = u[i]
        BY <2>4, <3>3, <4>2
      <4>3. CASE i - Len(u) \in DOMAIN r /\ (u \o r)[i] = r[i - Len(u)]
        BY <2>2, <3>3, <4>3
      <4> QED BY <3>2, <4>1, <4>2, <4>3
    <3> QED BY <3>1, <3>3
  <2> QED BY <2>5 DEF r, u
<1>5. ASSUME HasPrefixedNick(s)
      PROVE  Trimmed(t) \in Seq(Symbol) /\ part(Trimmed(t))
  <2> HIDE DEF t
  <2> QED BY <1>4, <1>5, TrimmedIs
<1>6. NewContext(l).text \in Seq(Symbol) /\ part(NewContext(l).text)
  BY <1>2, <1>3, <1>5
<1> QED BY <1>6 DEF IsFactoidAddition

LEMMA LowerIs ==
    ASSUME NEW s \in Seq(Symbol)
    PROVE  /\ LowerText(s) \in Seq({Lower(w) : w \in Symbol}) /\ Len(LowerText(s)) = Len(s)
           /\ DOMAIN LowerText(s) = 1 .. Len(s)
           /\ \A i \in 1 .. Len(s) : LowerText(s)[i] = Lower(s[i])
<1>1. Len(s) \in Nat /\ DOMAIN s = 1 .. Len(s) /\ \A i \in 1 .. Len(s) : s[i] \in Symbol
  OBVIOUS
<1>2. LowerText(s) = [i \in 1 .. Len(s) |-> Lower(s[i])]
  BY <1>1 DEF LowerText
<1>3. \A i \in 1 .. Len(s) : Lower(s[i]) \in {Lower(w) : w \in Symbol}
  BY <1>1
<1> QED BY <1>1, <1>2, <1>3

\* A prefix, in lower case, is the beginning of a text as long, in lower case.
LEMMA PrefixIs ==
    ASSUME NEW p \in Seq(Symbol), NEW s \in Seq(Symbol)
    PROVE  IsPrefix(LowerText(p), LowerText(s)) <=>
               /\ Len(p) <= Len(s)
               /\ LowerText(SubSeq(s, 1, Len(p))) = LowerText(p)
<1> DEFINE lp == LowerText(p)
           ls == LowerText(s)
           T == {Lower(w) : w \in Symbol}
<1>1. /\ lp \in Seq(T) /\ Len(lp) = Len(p) /\ ls \in Seq(T) /\ Len(ls) = Len(s)
      /\ \A i \in 1 .. Len(s) : ls[i] = Lower(s[i])
  BY LowerIs
<1>2. Len(p) \in Nat /\ Len(s) \in Nat
  OBVIOUS
<1>3. ASSUME Len(p) <= Len(s)
      PROVE  SubSeq(ls, 1, Len(p)) = LowerText(SubSeq(s, 1, Len(p)))
  <2> DEFINE b == SubSeq(s, 1, Len(p))
             c == SubSeq(ls, 1, Len(p))
  <2>0. Len(p) \in 0 .. Len(s) /\ 1 \in 1 .. Len(s) + 1
        /\ (IF 1 <= Len(p) THEN Len(p) - 1 + 1 ELSE 0) = Len(p)
    BY <1>2, <1>3
  <2>1. b \in Seq(Symbol) /\ Len(b) = Len(p) /\ \A i \in DOMAIN b : b[i] = s[i + 1 - 1]
    BY <2>0, SubSeqIs
  <2>2. b \in Seq(Symbol) /\ Len(b) = Len(p) /\ \A i \in 1 .. Len(p) : b[i] = s[i]
    BY <1>2, <2>1
  <2> HIDE DEF ls, T
  <2>3. c \in Seq(T) /\ Len(c) = Len(p) /\ \A i \in DOMAIN c : c[i] = ls[i + 1 - 1]
    BY <1>1, <2>0, SubSeqIs
  <2>4. c \in Seq(T) /\ Len(c) = Len(p) /\ \A i \in 1 .. Len(p) : c[i] = ls[i]
    BY <1>2, <2>3
  <2> HIDE DEF b, c
  <2>5. LowerText(b) \in Seq(T) /\ Len(LowerText(b)) = Len(p)
        /\ \A i \in 1 .. Len(p) : LowerText(b)[i] = Lower(b[i])
    BY <2>2, LowerIs DEF T
  <2>6. \A i \in 1 .. Len(p) : i \in 1 .. Len(s)
    BY <1>2, <1>3
  <2>7. \A i \in 1 .. Len(p) : LowerText(b)[i] = c[i]
    BY <1>1, <2>2, <2>4, <2>5, <2>6
  <2>8. c = LowerText(b)
    BY <2>4, <2>5, <2>7, SeqEqual
  <2> QED BY <2>8 DEF b, c
<1> HIDE DEF lp, ls, T
<1>4. IsPrefix(lp, ls) <=> Len(p) <= Len(s) /\ SubSeq(lp, 1, Len(p)) = SubSeq(ls, 1, Len(p))
  BY <1>1 DEF IsPrefix
<1>5. SubSeq(lp, 1, Len(p)) = lp
  <2>1. /\ SubSeq(lp, 1, Len(p)) \in Seq(T) /\ Len(SubSeq(lp, 1, Len(p))) = Len(p)
        /\ \A i \in 1 .. Len(p) : SubSeq(lp, 1, Len(p))[i] = lp[i]
    BY <1>1, <1>2, SubSeqProperties
  <2> QED BY <1>1, <2>1, SeqEqual
<1> QED BY <1>3, <1>4, <1>5 DEF lp, ls

\* Every prefix that is not empty has a command.
LEMMA PrefixHasCommand ==
    ASSUME NEW r \in Range(Registered), r[1] # <<>>
    PROVE  \E q \in CommandSet : q[1] = r[1]
<1> DEFINE N == {i \in DOMAIN Registered : Registered[i][1] = r[1]}
<1>1. DOMAIN Registered = 1 .. Len(Registered) /\ Len(Registered) \in Nat
  BY DispatchAssumption
<1>2. N # {} /\ N \in SUBSET Nat
  BY <1>1 DEF Range
<1>3. PICK i \in N : \A j \in N : i <= j
  BY <1>2, LeastIs
<1>4. ASSUME NEW j \in 1 .. i - 1 PROVE Registered[j][1] # Registered[i][1]
  BY <1>1, <1>3
<1>5. Registered[i] \in CommandSet
  BY <1>3, <1>4 DEF CommandSet
<1> QED BY <1>3, <1>5

\* The command that matches has the longest prefix of all that are added.
Longest(s, r) ==
    /\ LowerText(SubSeq(s, 1, Len(r[1]))) = LowerText(r[1])
    /\ \A q \in Range(Registered) : Len(q[1]) > Len(r[1])
         => LowerText(SubSeq(s, 1, Min({Len(q[1]), Len(s)}))) # LowerText(q[1])

LEMMA MatchIsLongest ==
    ASSUME NEW s \in Seq(Symbol), NEW r \in Match(s)
    PROVE  Longest(s, r)
<1>1. \A q \in Range(Registered) : q[1] \in Seq(Symbol) /\ Len(q[1]) \in Nat
  BY DispatchAssumption, SymbolIs DEF Range
<1>2. CommandSet \subseteq Range(Registered)
  BY DEF CommandSet, Range
<1>3. r \in CommandSet /\ IsPrefix(LowerText(r[1]), LowerText(s))
      /\ \A q \in Matching(s) : Len(q[1]) <= Len(r[1])
  BY DEF Match, Matching
<1>4. LowerText(SubSeq(s, 1, Len(r[1]))) = LowerText(r[1])
  BY <1>1, <1>2, <1>3, PrefixIs
<1>5. ASSUME NEW q \in Range(Registered), Len(q[1]) > Len(r[1]),
             LowerText(SubSeq(s, 1, Min({Len(q[1]), Len(s)}))) = LowerText(q[1])
      PROVE  FALSE
  <2> DEFINE n == Min({Len(q[1]), Len(s)})
  <2>1. /\ n \in {Len(q[1]), Len(s)} /\ n <= Len(q[1]) /\ n <= Len(s)
        /\ Len(q[1]) \in Nat /\ Len(s) \in Nat /\ Len(r[1]) \in Nat
    <3>1. Len(q[1]) \in Nat /\ Len(s) \in Nat /\ Len(r[1]) \in Nat
      BY <1>1, <1>2, <1>3
    <3>2. {Len(q[1]), Len(s)} \in SUBSET Nat /\ {Len(q[1]), Len(s)} # {}
      BY <3>1
    <3> QED BY <3>1, <3>2, MinIs
  <2> HIDE DEF n
  <2>2. Len(LowerText(SubSeq(s, 1, n))) = n
    <3>1. SubSeq(s, 1, n) \in Seq(Symbol) /\ Len(SubSeq(s, 1, n)) = n
      BY <2>1, SubSeqIs
    <3> QED BY <3>1, LowerIs
  <2>3. n = Len(q[1])
    BY <1>1, <1>5, <2>2, LowerIs DEF n
  <2>4. IsPrefix(LowerText(q[1]), LowerText(s))
    BY <1>1, <1>5, <2>1, <2>3, PrefixIs DEF n
  <2>5. q[1] # <<>>
    BY <1>5, <2>1
  <2>6. PICK p \in CommandSet : p[1] = q[1]
    BY <2>5, PrefixHasCommand
  <2>7. p \in Matching(s)
    BY <2>4, <2>6 DEF Matching
  <2> QED BY <1>3, <1>5, <2>1, <2>6, <2>7
<1> QED BY <1>4, <1>5 DEF Longest

\* A connection that a step leaves alone, but for what it makes ignored or heard again.
LEMMA OthersStay ==
    ASSUME NEW d \in Server, ConnInv(d),
           heard'[d] = heard[d], progress'[d] = progress[d], ran'[d] = ran[d],
           d \in quiet' => d \in quiet,
           d \in quiet' => (Lower(heard[d].nick) \in ignored => Lower(heard[d].nick) \in ignored')
    PROVE  ConnInv(d)'
BY DEF ConnInv

LEMMA StepHear ==
    ASSUME DispatchInv, NEW c \in Server, NEW l \in LineHeard, Hear(c, l)
    PROVE  DispatchInv'
<1>1. /\ heard' = [heard EXCEPT ![c] = l] /\ ran' = [ran EXCEPT ![c] = {}]
      /\ progress' = [progress EXCEPT ![c] = [h \in Handler |-> "new"]]
      /\ quiet' = IF Lower(l.nick) \in muted THEN quiet \cup {c} ELSE quiet \ {c}
      /\ UNCHANGED <<ignored, muted>>
  BY DEF Hear
<1>2. /\ heard' \in [Server -> LineHeard \cup {Nobody}] /\ DOMAIN ran' = Server
      /\ progress' \in [Server -> [Handler -> {"new", "passed", "reply", "done"}]]
  BY <1>1 DEF DispatchInv
<1>3. heard'[c] = l /\ ran'[c] = {} /\ l # Nobody /\ \A h \in Handler : progress'[c][h] = "new"
  BY <1>1, DispatchAssumption DEF DispatchInv
<1>4. c \in quiet' => Lower(l.nick) \in ignored'
  BY <1>1 DEF DispatchInv
<1>5. ConnInv(c)'
  BY <1>3, <1>4 DEF ConnInv
<1>6. ASSUME NEW d \in Server, d # c PROVE ConnInv(d)'
  BY <1>1, <1>6, OthersStay DEF DispatchInv
<1> QED BY <1>1, <1>2, <1>5, <1>6 DEF DispatchInv

\* What a step adds to what the handlers of a connection did.
RanMore(c, did) ==
    /\ DOMAIN ran' = Server
    /\ \A d \in Server : ran'[d] = IF d = c THEN ran[d] \cup did ELSE ran[d]

\* A handler's step: it goes on, and may do its thing, once.
Does(c, h, to, did) ==
    /\ progress[c][h] # "done" /\ to \in {"passed", "reply", "done"}
    /\ Go(c, h, to) /\ heard' = heard
    /\ progress[c][h] = "new" /\ c \in quiet => to = "done"
    /\ progress[c][h] = "reply" => to # "passed"
    /\ RanMore(c, did)
    /\ \A x, y \in did : x = y
    /\ \A x \in did : /\ x[1] = h /\ progress[c][h] = "passed" /\ to # "passed"
                      /\ h = "commands" => /\ x[2] \in Match(NewContext(heard[c]).text)
                                           /\ ~IsFactoidAddition(heard[c].text)
                      /\ h = "insert" => IsFactoidAddition(heard[c].text)
    /\ quiet' \subseteq quiet /\ muted' \subseteq ignored'
    /\ \A d \in quiet' : Lower(heard[d].nick) \in ignored => Lower(heard[d].nick) \in ignored'

LEMMA HandlerSteps ==
    ASSUME DispatchInv, NEW c \in Server, NEW h \in Handler, NEW to, NEW did, Does(c, h, to, did)
    PROVE  DispatchInv'
<1> USE DEF Does, RanMore
<1>1. progress' = [progress EXCEPT ![c][h] = to]
  BY DEF Go
<1>2. /\ progress' \in [Server -> [Handler -> {"new", "passed", "reply", "done"}]]
      /\ DOMAIN ran' = Server
      /\ progress'[c][h] = to /\ ran'[c] = ran[c] \cup did
      /\ \A g \in Handler : g # h => progress'[c][g] = progress[c][g]
      /\ \A d \in Server : d # c => progress'[d] = progress[d] /\ ran'[d] = ran[d]
  BY <1>1 DEF DispatchInv
<1>3. ASSUME NEW d \in Server, d # c PROVE ConnInv(d)'
  BY <1>2, <1>3, OthersStay DEF DispatchInv
<1>4. ConnInv(c) /\ heard[c] # Nobody
  BY DEF DispatchInv, ConnInv
<1>5. ASSUME NEW x \in ran'[c]
      PROVE  /\ x[1] \in Handler /\ progress'[c][x[1]] \in {"reply", "done"}
             /\ x[1] = "commands" => /\ x[2] \in Match(NewContext(heard[c]).text)
                                     /\ ~IsFactoidAddition(heard[c].text)
             /\ x[1] = "insert" => IsFactoidAddition(heard[c].text)
  <2>1. CASE x \in did
    BY <1>2, <2>1
  <2>2. CASE x \in ran[c]
    <3>1. progress'[c][x[1]] \in {"reply", "done"}
      <4>1. CASE x[1] = h
        BY <1>2, <1>4, <2>2, <4>1 DEF ConnInv
      <4>2. CASE x[1] # h
        BY <1>2, <1>4, <2>2, <4>2 DEF ConnInv
      <4> QED BY <4>1, <4>2
    <3> QED BY <1>4, <2>2, <3>1 DEF ConnInv
  <2> QED BY <1>2, <2>1, <2>2
<1>6. ASSUME NEW x \in ran'[c], NEW y \in ran'[c], x # y PROVE x[1] # y[1]
  <2>1. ASSUME NEW z \in ran[c], NEW w \in did PROVE z[1] # w[1]
    BY <1>4, <2>1 DEF ConnInv
  <2> QED BY <1>2, <1>4, <1>6, <2>1 DEF ConnInv
<1>7. ASSUME c \in quiet'
      PROVE  /\ Lower(heard[c].nick) \in ignored' /\ ran'[c] = {}
             /\ \A g \in Handler : progress'[c][g] \in {"new", "done"}
  <2>1. /\ c \in quiet /\ ran[c] = {} /\ Lower(heard[c].nick) \in ignored
        /\ \A g \in Handler : progress[c][g] \in {"new", "done"}
    BY <1>4, <1>7 DEF ConnInv
  <2>2. progress[c][h] = "new" /\ to = "done" /\ did = {}
    BY <2>1
  <2> QED BY <1>2, <1>7, <2>1, <2>2
<1>8. ConnInv(c)'
  BY <1>4, <1>5, <1>6, <1>7 DEF ConnInv
<1> QED BY <1>2, <1>3, <1>8 DEF DispatchInv

LEMMA StepFilter ==
    ASSUME DispatchInv, NEW c \in Server, NEW h \in Handler, Filter(c, h)
    PROVE  DispatchInv'
<1> DEFINE to == IF IsIgnored(heard[c].nick) THEN "done" ELSE "passed"
<1>1. /\ progress[c][h] = "new" /\ Go(c, h, to) /\ UNCHANGED <<ignored, heard, ran, muted, quiet>>
  BY DEF Filter
<1>2. c \in quiet => to = "done"
  BY DEF DispatchInv, ConnInv, IsIgnored
<1>3. RanMore(c, {})
  BY <1>1 DEF DispatchInv, RanMore
<1>4. to \in {"passed", "reply", "done"} /\ muted' \subseteq ignored'
  BY <1>1 DEF DispatchInv
<1> HIDE DEF to
<1>5. Does(c, h, to, {})
  BY <1>1, <1>2, <1>3, <1>4 DEF Does
<1> QED BY <1>5, HandlerSteps

LEMMA StepRunCommand ==
    ASSUME DispatchInv, NEW c \in Server, RunCommand(c)
    PROVE  DispatchInv'
<1> DEFINE text == NewContext(heard[c]).text
<1>1. progress[c]["commands"] = "passed" /\ heard' = heard /\ "commands" \in Handler
  BY DEF RunCommand, Handler
<1>2. CASE Go(c, "commands", "done") /\ UNCHANGED <<ignored, ran, muted, quiet>>
  <2>1. RanMore(c, {}) /\ muted' \subseteq ignored'
    BY <1>2 DEF DispatchInv, RanMore
  <2>2. Does(c, "commands", "done", {})
    BY <1>1, <1>2, <2>1 DEF Does
  <2> QED BY <1>1, <2>2, HandlerSteps
<1>3. ASSUME ~(Go(c, "commands", "done") /\ UNCHANGED <<ignored, ran, muted, quiet>>)
      PROVE  DispatchInv'
  <2> DEFINE args(r) == Compressed(SubSeq(text, Len(r[1]) + 1, Len(text)))
             nick(r) == Lower(args(r)[1])
  <2>1. ~IsFactoidAddition(heard[c].text)
    BY <1>3 DEF RunCommand
  <2>2. PICK r \in Match(text) :
          /\ \E what \in IF r[2] = "help" THEN Help(args(r)) ELSE {r[2]} :
                ran' = [ran EXCEPT ![c] = @ \cup {<<"commands", r, what, args(r)>>}]
          /\ IF r[2] \notin {"ignore", "unignore"} \/ args(r) = <<>>
             THEN Go(c, "commands", "done") /\ UNCHANGED <<ignored, muted, quiet>>
             ELSE /\ Go(c, "commands", "reply")
                  /\ ignored' = IF r[2] = "ignore" THEN ignored \cup {nick(r)}
                                ELSE ignored \ {nick(r)}
                  /\ muted' = IF r[2] = "ignore" THEN muted ELSE muted \ {nick(r)}
                  /\ quiet' = IF r[2] = "ignore" THEN quiet
                              ELSE {d \in quiet : Lower(heard[d].nick) # nick(r)}
    BY <1>3 DEF RunCommand
  <2>3. PICK what : ran' = [ran EXCEPT ![c] = @ \cup {<<"commands", r, what, args(r)>>}]
    BY <2>2
  <2> DEFINE x == <<"commands", r, what, args(r)>>
             n == nick(r)
  <2>4. x[1] = "commands" /\ x[2] = r /\ ran' = [ran EXCEPT ![c] = @ \cup {x}]
    BY <2>3
  <2>5. \/ Go(c, "commands", "done") /\ UNCHANGED <<ignored, muted, quiet>>
        \/ /\ Go(c, "commands", "reply")
           /\ \/ ignored' = ignored \cup {n} /\ muted' = muted /\ quiet' = quiet
              \/ /\ ignored' = ignored \ {n} /\ muted' = muted \ {n}
                 /\ quiet' = {d \in quiet : Lower(heard[d].nick) # n}
    BY <2>2
  <2> HIDE DEF args, nick, x, n, text
  <2>6. PICK to \in {"reply", "done"} : Go(c, "commands", to)
    BY <2>5
  <2>7. /\ quiet' \subseteq quiet /\ muted' \subseteq ignored'
        /\ \A d \in quiet' : Lower(heard[d].nick) \in ignored => Lower(heard[d].nick) \in ignored'
    BY <2>5 DEF DispatchInv
  <2>8. \A y \in {x} : /\ y[1] = "commands" /\ y[2] \in Match(NewContext(heard[c]).text)
                       /\ ~IsFactoidAddition(heard[c].text)
    BY <2>1, <2>4 DEF text
  <2>9. to \in {"passed", "reply", "done"} /\ to # "passed" /\ "commands" # "insert"
    OBVIOUS
  <2>10. RanMore(c, {x})
    BY <2>4 DEF DispatchInv, RanMore
  <2>11. Does(c, "commands", to, {x})
    BY <1>1, <2>6, <2>7, <2>8, <2>9, <2>10 DEF Does
  <2> QED BY <1>1, <2>11, HandlerSteps
<1> QED BY <1>2, <1>3

LEMMA StepReplyTo ==
    ASSUME DispatchInv, NEW c \in Server, ReplyTo(c)
    PROVE  DispatchInv'
<1>1. /\ progress[c]["commands"] = "reply" /\ Go(c, "commands", "done") /\ "commands" \in Handler
      /\ UNCHANGED <<ignored, heard, ran, quiet>>
  BY DEF ReplyTo, Handler
<1>2. muted' \subseteq ignored'
  BY <1>1 DEF ReplyTo, DispatchInv
<1>3. RanMore(c, {})
  BY <1>1 DEF DispatchInv, RanMore
<1>4. Does(c, "commands", "done", {})
  BY <1>1, <1>2, <1>3 DEF Does
<1> QED BY <1>1, <1>4, HandlerSteps

LEMMA StepRunHandler ==
    ASSUME DispatchInv, NEW c \in Server, NEW h \in Handler, RunHandler(c, h)
    PROVE  DispatchInv'
<1> DEFINE text == NewContext(heard[c]).text
           x == <<h, <<>>, "", text>>
<1>1. /\ h # "commands" /\ progress[c][h] = "passed" /\ Go(c, h, "done")
      /\ UNCHANGED <<ignored, heard, muted, quiet>>
      /\ \/ ran' = ran
         \/ /\ ran' = [ran EXCEPT ![c] = @ \cup {x}]
            /\ h = "lookup" \/ IsFactoidAddition(text)
  BY DEF RunHandler
<1>2. x[1] = h
  OBVIOUS
<1>3. heard[c] \in LineHeard
  BY <1>1 DEF DispatchInv, ConnInv
<1>4. IsFactoidAddition(text) => IsFactoidAddition(heard[c].text)
  BY <1>3, ContextIs
<1> HIDE DEF text, x
<1>5. muted' \subseteq ignored'
  BY <1>1 DEF DispatchInv
<1>6. CASE ran' = ran
  <2>1. RanMore(c, {})
    BY <1>6 DEF DispatchInv, RanMore
  <2>2. Does(c, h, "done", {})
    BY <1>1, <1>5, <2>1 DEF Does
  <2> QED BY <2>2, HandlerSteps
<1>7. CASE ran' = [ran EXCEPT ![c] = @ \cup {x}] /\ (h = "lookup" \/ IsFactoidAddition(text))
  <2>1. h = "insert" => IsFactoidAddition(heard[c].text)
    BY <1>4, <1>7
  <2>2. RanMore(c, {x})
    BY <1>7 DEF DispatchInv, RanMore
  <2>3. Does(c, h, "done", {x})
    BY <1>1, <1>2, <1>5, <2>1, <2>2 DEF Does
  <2> QED BY <2>3, HandlerSteps
<1> QED BY <1>1, <1>6, <1>7

\* For any connections, commands and lines: a line runs one command at most, the one with
\* the longest prefix, and none when it adds a factoid, in whatever order its handlers run;
\* of a nick the bot said it ignores nothing is handled until it is unignored
\* (commandset.go:87-95, commandset.go:125-128, filter.go:22-27).
THEOREM LinesAreDispatched == DispatchSpec => []Dispatched
<1>1. DispatchInit => DispatchInv
  <2> SUFFICES ASSUME DispatchInit PROVE DispatchInv
    OBVIOUS
  <2>1. /\ muted = {} /\ ignored = {} /\ quiet = {}
        /\ \A c \in Server : heard[c] = Nobody /\ ran[c] = {}
        /\ \A c \in Server : \A h \in Handler : progress[c][h] = "done"
        /\ DOMAIN ran = Server /\ heard \in [Server -> LineHeard \cup {Nobody}]
        /\ progress \in [Server -> [Handler -> {"new", "passed", "reply", "done"}]]
    BY DEF DispatchInit
  <2> QED BY <2>1 DEF DispatchInv, ConnInv
<1>2. DispatchInv /\ [DispatchNext]_dispatchVars => DispatchInv'
  <2> SUFFICES ASSUME DispatchInv, [DispatchNext]_dispatchVars PROVE DispatchInv'
    OBVIOUS
  <2>1. CASE UNCHANGED dispatchVars
    BY <2>1 DEF dispatchVars, DispatchInv, ConnInv
  <2>2. CASE DispatchNext
    BY <2>2, StepHear, StepFilter, StepRunCommand, StepReplyTo, StepRunHandler DEF DispatchNext
  <2> QED BY <2>1, <2>2
<1>3. DispatchInv => Dispatched
  <2> SUFFICES ASSUME DispatchInv, NEW c \in Server
               PROVE  LET commands == {x \in ran[c] : x[1] = "commands"}
                          t == NewContext(heard[c]).text
                      IN  /\ \A x, y \in ran[c] :
                              x # y => x[1] # y[1] /\ {x[1], y[1]} # {"commands", "insert"}
                          /\ \A x \in commands : Longest(t, x[2])
                          /\ c \in quiet => ran[c] = {}
    BY DEF Dispatched, Longest
  <2> DEFINE text == NewContext(heard[c]).text
  <2>1. ConnInv(c)
    BY DEF DispatchInv
  <2>2. ASSUME NEW x \in ran[c], NEW y \in ran[c], x # y
        PROVE  x[1] # y[1] /\ {x[1], y[1]} # {"commands", "insert"}
    <3>1. x[1] = "commands" => y[1] # "insert"
      BY <2>1 DEF ConnInv
    <3>2. y[1] = "commands" => x[1] # "insert"
      BY <2>1 DEF ConnInv
    <3>3. x[1] # y[1]
      BY <2>1, <2>2 DEF ConnInv
    <3> QED BY <3>1, <3>2, <3>3
  <2>3. ASSUME NEW x \in ran[c], x[1] = "commands"
        PROVE  x[2] \in Match(text) /\ text \in Seq(Symbol)
    <3>1. heard[c] \in LineHeard
      BY <2>1, <2>3 DEF DispatchInv, ConnInv
    <3> QED BY <2>1, <2>3, <3>1, ContextIs DEF ConnInv
  <2>4. c \in quiet => ran[c] = {}
    BY <2>1 DEF ConnInv
  <2> HIDE DEF text
  <2>5. ASSUME NEW x \in ran[c], x[1] = "commands"
        PROVE  Longest(text, x[2])
    BY <2>3, <2>5, MatchIsLongest
  <2> QED BY <2>2, <2>4, <2>5 DEF text
<1> QED BY <1>1, <1>2, <1>3, PTL DEF DispatchSpec

-----------------------------------------------------------------------------
(* Keyed collections: keys and their paths.                                    *)

\* The elements of keys, what they are as bytes, and sequences of such.
Elements == UNION {Range(k) : k \in Keys}
Piece == UNION {Range(B(k)) : k \in Keys}
Paths == Seq(Piece)

\* Of an element the bytes after the separator are no number of values.
Octet == Byte \cup UNION {Range(BigEndian(n)) : n \in Nat}

LEMMA BytesOfValues ==
    ASSUME NEW e, IsElem(e)
    PROVE  ValueBytes(e) \in Seq(Octet)
<1>1. Byte \subseteq Octet /\ TRUEB \in Octet /\ FALSEB \in Octet
  BY DEF Octet, Byte, TRUEB, FALSEB
<1>2. ASSUME e.type \in {"S", "ID"} PROVE ValueBytes(e) \in Seq(Octet)
  <2>1. e.value \in Seq(Byte)
    BY <1>2 DEF IsElem
  <2>2. e.value \in Seq(Octet)
    BY <1>1, <2>1, SeqMonotonic
  <2> QED BY <1>2, <2>2 DEF ValueBytes
<1>3. ASSUME e.type = "T" PROVE ValueBytes(e) \in Seq(Octet)
  <2>1. ValueBytes(e) = Truth(e.value)
    BY <1>3 DEF ValueBytes
  <2>2. Truth(e.value) = <<TRUEB>> \/ Truth(e.value) = <<FALSEB>>
    BY DEF Truth
  <2>3. <<TRUEB>> \in Seq(Octet) /\ <<FALSEB>> \in Seq(Octet)
    BY <1>1
  <2> QED BY <2>1, <2>2, <2>3
<1>4. ASSUME NEW n \in Nat PROVE BigEndian(n) \in Seq(Octet)
  <2>1. Width \in Nat /\ DOMAIN BigEndian(n) = 1 .. Width
    BY KeyedAssumption DEF BigEndian
  <2>4. Range(BigEndian(n)) \subseteq Octet
    BY Zenon DEF Octet
  <2>2. \A i \in 1 .. Width : BigEndian(n)[i] \in Octet
    BY <2>1, <2>4, Zenon DEF Range
  <2>3. BigEndian(n) = [i \in 1 .. Width |-> BigEndian(n)[i]]
    BY DEF BigEndian
  <2> HIDE DEF Octet
  <2>5. BigEndian(n) \in [1 .. Width -> Octet]
    BY <2>2, <2>3
  <2> QED BY <2>1, <2>5
<1>5. ASSUME e.type \in {"I", "TS"} PROVE ValueBytes(e) \in Seq(Octet)
  <2>1. e.value \in Nat
    BY <1>5 DEF IsElem
  <2>3. e.value \div Milli \in Nat
    BY <2>1, SMT DEF Milli
  <2>2. ValueBytes(e) = BigEndian(e.value) \/ ValueBytes(e) = BigEndian(e.value \div Milli)
    BY <1>5 DEF ValueBytes
  <2> QED BY <1>4, <2>1, <2>2, <2>3
<1> QED BY <1>2, <1>3, <1>5 DEF IsElem

\* The first separator ends the name: names without one and all that follow them are told apart.
LEMMA Separated ==
    ASSUME NEW a \in Seq(Octet), NEW b \in Seq(Octet), NEW c \in Seq(Octet), NEW d \in Seq(Octet),
           ~Contains(a, USEP), ~Contains(c, USEP),
           a \o <<USEP>> \o b = c \o <<USEP>> \o d
    PROVE  a = c /\ b = d
<1> DEFINE s == a \o <<USEP>>
           t == c \o <<USEP>>
<1>1. USEP \in Octet /\ <<USEP>> \in Seq(Octet) /\ Len(<<USEP>>) = 1 /\ <<USEP>>[1] = USEP
  BY DEF Octet, Byte, USEP
<1>2. /\ s \in Seq(Octet) /\ Len(s) = Len(a) + 1
      /\ \A i \in 1 .. Len(a) + 1 : s[i] = IF i <= Len(a) THEN a[i] ELSE <<USEP>>[i - Len(a)]
  BY <1>1, ConcatProperties
<1>3. /\ t \in Seq(Octet) /\ Len(t) = Len(c) + 1
      /\ \A i \in 1 .. Len(c) + 1 : t[i] = IF i <= Len(c) THEN c[i] ELSE <<USEP>>[i - Len(c)]
  BY <1>1, ConcatProperties
<1>4. Len(a) \in Nat /\ Len(b) \in Nat /\ Len(c) \in Nat /\ Len(d) \in Nat
  OBVIOUS
<1>5. s[Len(a) + 1] = USEP /\ t[Len(c) + 1] = USEP
  BY <1>1, <1>2, <1>3, <1>4
<1>6. (\A i \in 1 .. Len(a) : s[i] # USEP) /\ (\A i \in 1 .. Len(c) : t[i] # USEP)
  BY <1>2, <1>3, <1>4 DEF Contains
<1>7. \A i \in 1 .. Len(a) : s[i] = a[i]
  BY <1>2, <1>4
<1>8. \A i \in 1 .. Len(c) : t[i] = c[i]
  BY <1>3, <1>4
<1> HIDE DEF s, t
<1>9. /\ \A i \in 1 .. Len(s) : (s \o b)[i] = s[i]
      /\ \A i \in 1 .. Len(t) : (t \o d)[i] = t[i]
  <2>1. \A i \in 1 .. Len(s) + Len(b) : (s \o b)[i] = IF i <= Len(s) THEN s[i] ELSE b[i - Len(s)]
    BY <1>2, ConcatProperties
  <2>2. \A i \in 1 .. Len(t) + Len(d) : (t \o d)[i] = IF i <= Len(t) THEN t[i] ELSE d[i - Len(t)]
    BY <1>3, ConcatProperties
  <2> QED BY <1>2, <1>3, <1>4, <2>1, <2>2
<1>10. s \o b = t \o d
  BY DEF s, t
<1>11. Len(a) = Len(c)
  <2>1. CASE Len(a) < Len(c)
    <3> DEFINE i == Len(a) + 1
    <3>1. i \in 1 .. Len(s) /\ i \in 1 .. Len(t) /\ i \in 1 .. Len(c)
      BY <2>1, <1>2, <1>3, <1>4
    <3>2. s[i] = USEP /\ t[i] # USEP
      BY <3>1, <1>5, <1>6
    <3> QED BY <3>1, <3>2, <1>9, <1>10
  <2>2. CASE Len(c) < Len(a)
    <3> DEFINE i == Len(c) + 1
    <3>1. i \in 1 .. Len(s) /\ i \in 1 .. Len(t) /\ i \in 1 .. Len(a)
      BY <2>2, <1>2, <1>3, <1>4
    <3>2. t[i] = USEP /\ s[i] # USEP
      BY <3>1, <1>5, <1>6
    <3> QED BY <3>1, <3>2, <1>9, <1>10
  <2> QED BY <2>1, <2>2, <1>4
<1>12. a = c
  <2>1. \A i \in 1 .. Len(a) : a[i] = c[i]
    BY <1>2, <1>3, <1>4, <1>7, <1>8, <1>9, <1>10, <1>11
  <2> QED BY <2>1, <1>11, SeqEqual
<1>13. b = d
  <2>1. s = t
    BY <1>12 DEF s, t
  <2> QED BY <2>1, <1>2, <1>10, ConcatSimplifications
<1> QED BY <1>12, <1>13

LEMMA KeyIs ==
    ASSUME NEW k \in Keys
    PROVE  /\ k \in Seq(Elements) /\ B(k) \in Paths /\ Len(B(k)) = Len(k)
           /\ \A i \in 1 .. Len(k) :
                /\ k[i] \in Range(k) /\ IsElem(k[i])
                /\ B(k)[i] = k[i].name \o <<USEP>> \o ValueBytes(k[i])
<1>1. k \in Seq(Range(k)) /\ Len(k) \in Nat /\ DOMAIN k = 1 .. Len(k)
  BY KeyedAssumption
<1>2. Range(k) \subseteq Elements /\ Range(B(k)) \subseteq Piece
  BY DEF Elements, Piece
<1>3. k \in Seq(Elements)
  BY <1>1, <1>2, SeqMonotonic
<1>4. B(k) = [i \in 1 .. Len(k) |-> k[i].name \o <<USEP>> \o ValueBytes(k[i])]
  BY <1>1 DEF B, Path
<1>5. B(k) \in Paths /\ Len(B(k)) = Len(k)
  <2>1. DOMAIN B(k) = 1 .. Len(k) /\ B(k) = [i \in 1 .. Len(k) |-> B(k)[i]]
    BY <1>4
  <2>2. \A i \in 1 .. Len(k) : B(k)[i] \in Range(B(k))
    BY <2>1 DEF Range
  <2>3. \A i \in 1 .. Len(k) : B(k)[i] \in Piece
    BY <1>2, <2>2
  <2>4. B(k) \in [1 .. Len(k) -> Piece]
    BY <2>1, <2>3
  <2> QED BY <1>1, <2>4 DEF Paths
<1>6. \A i \in 1 .. Len(k) : k[i] \in Range(k) /\ IsElem(k[i])
  BY <1>1, KeyedAssumption DEF Range
<1> QED BY <1>3, <1>4, <1>5, <1>6

\* Of sequences the beginnings are those that have the same at every place of theirs.
LEMMA PrefixIsPointwise ==
    ASSUME NEW S, NEW s \in Seq(S), NEW t \in Seq(S)
    PROVE  IsPrefix(s, t) <=> Len(s) <= Len(t) /\ \A i \in 1 .. Len(s) : s[i] = t[i]
<1>1. Len(s) \in Nat /\ Len(t) \in Nat
  OBVIOUS
<1>2. SubSeq(s, 1, Len(s)) = s
  BY SubSeqFull
<1>3. ASSUME Len(s) <= Len(t)
      PROVE  /\ SubSeq(t, 1, Len(s)) \in Seq(S) /\ Len(SubSeq(t, 1, Len(s))) = Len(s)
             /\ \A i \in 1 .. Len(s) : SubSeq(t, 1, Len(s))[i] = t[i]
  <2>1. \A i \in 1 .. Len(s) : t[i] \in S
    BY <1>1, <1>3
  <2>2. /\ SubSeq(t, 1, Len(s)) \in Seq(S)
        /\ Len(SubSeq(t, 1, Len(s))) = IF 1 <= Len(s) THEN Len(s) - 1 + 1 ELSE 0
        /\ \A i \in 1 .. Len(s) - 1 + 1 : SubSeq(t, 1, Len(s))[i] = t[1 + i - 1]
    BY <1>1, <2>1, SubSeqProperties
  <2> QED BY <1>1, <2>2
<1>4. ASSUME Len(s) <= Len(t), \A i \in 1 .. Len(s) : s[i] = t[i]
      PROVE  s = SubSeq(t, 1, Len(s))
  <2> DEFINE u == SubSeq(t, 1, Len(s))
  <2>1. u \in Seq(S) /\ Len(s) = Len(u) /\ \A i \in 1 .. Len(s) : s[i] = u[i]
    BY <1>3, <1>4
  <2> HIDE DEF u
  <2>2. s = u
    BY <2>1, SeqEqual
  <2> QED BY <2>2 DEF u
<1> QED BY <1>2, <1>3, <1>4 DEF IsPrefix

\* Beginnings are a partial order with the empty path below all.
LEMMA PrefixOrder ==
    ASSUME NEW S, NEW p \in Seq(S), NEW q \in Seq(S), NEW r \in Seq(S)
    PROVE  /\ IsPrefix(p, p) /\ IsPrefix(<<>>, p)
           /\ IsPrefix(p, q) /\ IsPrefix(q, p) => p = q
           /\ IsPrefix(p, q) /\ IsPrefix(q, r) => IsPrefix(p, r)
<1>1. Len(p) \in Nat /\ Len(q) \in Nat /\ Len(r) \in Nat /\ <<>> \in Seq(S) /\ Len(<<>>) = 0
  OBVIOUS
<1>2. IsPrefix(p, p) /\ IsPrefix(<<>>, p)
  <2>1. IsPrefix(p, p)
    BY <1>1, PrefixIsPointwise
  <2>2. ASSUME NEW e \in Seq(S), Len(e) = 0 PROVE IsPrefix(e, p)
    <3>1. Len(e) <= Len(p) /\ \A i \in 1 .. Len(e) : e[i] = p[i]
      BY <1>1, <2>2
    <3> QED BY <3>1, PrefixIsPointwise
  <2> QED BY <1>1, <2>1, <2>2
<1>3. ASSUME IsPrefix(p, q), IsPrefix(q, p) PROVE p = q
  <2>1. Len(p) <= Len(q) /\ Len(q) <= Len(p) /\ \A i \in 1 .. Len(p) : p[i] = q[i]
    BY <1>3, PrefixIsPointwise
  <2>2. Len(p) = Len(q)
    BY <1>1, <2>1
  <2> QED BY <2>1, <2>2, SeqEqual
<1>4. ASSUME IsPrefix(p, q), IsPrefix(q, r) PROVE IsPrefix(p, r)
  <2>1. Len(p) <= Len(q) /\ \A i \in 1 .. Len(p) : p[i] = q[i]
    BY <1>4, PrefixIsPointwise
  <2>2. Len(q) <= Len(r) /\ \A i \in 1 .. Len(q) : q[i] = r[i]
    BY <1>4, PrefixIsPointwise
  <2>3. Len(p) <= Len(r) /\ \A i \in 1 .. Len(p) : p[i] = r[i]
    BY <1>1, <2>1, <2>2
  <2> QED BY <2>3, PrefixIsPointwise
<1> QED BY <1>2, <1>3, <1>4

\* The buckets on the way to a path are its beginnings, but for the collection's and itself.
LEMMA ParentsAre ==
    ASSUME NEW p \in Paths
    PROVE  Parents(p) = {q \in Paths : q # <<>> /\ q # p /\ IsPrefix(q, p)}
<1> DEFINE W == {q \in Paths : q # <<>> /\ q # p /\ IsPrefix(q, p)}
<1>1. Len(p) \in Nat /\ p \in Seq(Piece)
  BY DEF Paths
<1>2. ASSUME NEW n \in 1 .. Len(p) - 1 PROVE SubSeq(p, 1, n) \in W
  <2> DEFINE q == SubSeq(p, 1, n)
  <2>1. n \in Nat /\ 1 <= n /\ n <= Len(p) - 1 /\ \A i \in 1 .. n : p[i] \in Piece
    BY <1>1
  <2>2. /\ q \in Seq(Piece)
        /\ Len(q) = IF 1 <= n THEN n - 1 + 1 ELSE 0
        /\ \A i \in 1 .. n - 1 + 1 : q[i] = p[1 + i - 1]
    BY <2>1, SubSeqProperties
  <2>3. Len(q) = n /\ \A i \in 1 .. n : q[i] = p[i]
    BY <2>1, <2>2
  <2> HIDE DEF q
  <2>4. q # <<>> /\ q # p /\ IsPrefix(q, p)
    BY <1>1, <2>1, <2>2, <2>3, PrefixIsPointwise
  <2>5. q \in W
    BY <2>2, <2>4 DEF Paths
  <2> QED BY <2>5 DEF q
<1>3. ASSUME NEW q \in W PROVE \E n \in 1 .. Len(p) - 1 : q = SubSeq(p, 1, n)
  <2>1. q \in Seq(Piece) /\ Len(q) \in Nat /\ q # <<>> /\ q # p /\ IsPrefix(q, p)
    BY DEF Paths
  <2>2. Len(q) # 0
    BY <2>1
  <2>3. Len(q) <= Len(p) /\ \A i \in 1 .. Len(q) : q[i] = p[i]
    BY <1>1, <2>1, PrefixIsPointwise
  <2>4. Len(q) # Len(p)
    BY <1>1, <2>1, <2>3, SeqEqual
  <2>5. Len(q) \in 1 .. Len(p) - 1
    BY <1>1, <2>1, <2>2, <2>3, <2>4
  <2>6. SubSeq(q, 1, Len(q)) = q
    BY <2>1, SubSeqFull
  <2>7. q = SubSeq(p, 1, Len(q))
    BY <2>1, <2>6 DEF IsPrefix
  <2> QED BY <2>5, <2>7
<1> QED BY <1>2, <1>3 DEF Parents

-----------------------------------------------------------------------------

\* Valid keys whose elements differ in their bytes.
Distinct(K) ==
    /\ K \subseteq Keys
    /\ \A j, k \in K : Valid(k) /\ \A e \in Range(j), f \in Range(k) :
            e.name = f.name /\ ValueBytes(e) = ValueBytes(f) => e = f

LEMMA BytesDiffer ==
    ASSUME NEW K, Distinct(K), NEW j \in K, NEW k \in K,
           NEW i \in 1 .. Len(j), i \in 1 .. Len(k), B(j)[i] = B(k)[i]
    PROVE  j[i] = k[i]
<1> DEFINE e == j[i]
           f == k[i]
<1>1. j \in Keys /\ k \in Keys /\ Valid(j) /\ Valid(k)
  BY DEF Distinct
<1>2. /\ e \in Range(j) /\ IsElem(e) /\ f \in Range(k) /\ IsElem(f)
      /\ e.name \o <<USEP>> \o ValueBytes(e) = f.name \o <<USEP>> \o ValueBytes(f)
  BY <1>1, KeyIs
<1>3. ~Contains(e.name, USEP) /\ ~Contains(f.name, USEP)
  <2>1. i \in DOMAIN j /\ i \in DOMAIN k
    BY <1>1, KeyIs
  <2> QED BY <1>1, <2>1 DEF Valid
<1>4. e.name \in Seq(Octet) /\ f.name \in Seq(Octet)
  <2>1. Byte \subseteq Octet
    BY DEF Octet
  <2>2. e.name \in Seq(Byte) /\ f.name \in Seq(Byte)
    BY <1>2 DEF IsElem
  <2> QED BY <2>1, <2>2, SeqMonotonic
<1>5. ValueBytes(e) \in Seq(Octet) /\ ValueBytes(f) \in Seq(Octet)
  BY <1>2, BytesOfValues
<1> HIDE DEF e, f
<1>6. e.name = f.name /\ ValueBytes(e) = ValueBytes(f)
  BY <1>2, <1>3, <1>4, <1>5, Separated
<1>7. e = f
  BY <1>2, <1>6 DEF Distinct
<1> QED BY <1>7 DEF e, f

\* So a key is the beginning of another where its path is.
LEMMA PrefixOfBytes ==
    ASSUME NEW K, Distinct(K), NEW j \in K, NEW k \in K
    PROVE  /\ IsPrefix(B(j), B(k)) <=> IsPrefix(j, k)
           /\ B(j) = B(k) => j = k
           /\ B(j) = <<>> <=> j = <<>>
<1>1. j \in Keys /\ k \in Keys
  BY DEF Distinct
<1>2. /\ j \in Seq(Elements) /\ B(j) \in Seq(Piece) /\ Len(B(j)) = Len(j)
      /\ Len(j) \in Nat
  <2>1. j \in Seq(Elements) /\ B(j) \in Paths /\ Len(B(j)) = Len(j)
    BY <1>1, KeyIs
  <2> QED BY <2>1 DEF Paths
<1>3. /\ k \in Seq(Elements) /\ B(k) \in Seq(Piece) /\ Len(B(k)) = Len(k)
      /\ Len(k) \in Nat
  <2>1. k \in Seq(Elements) /\ B(k) \in Paths /\ Len(B(k)) = Len(k)
    BY <1>1, KeyIs
  <2> QED BY <2>1 DEF Paths
<1>4. IsPrefix(B(j), B(k)) <=> Len(j) <= Len(k) /\ \A i \in 1 .. Len(j) : B(j)[i] = B(k)[i]
  BY <1>2, <1>3, PrefixIsPointwise
<1>5. IsPrefix(j, k) <=> Len(j) <= Len(k) /\ \A i \in 1 .. Len(j) : j[i] = k[i]
  <2>1. j \in Seq(Elements) /\ k \in Seq(Elements)
    BY <1>2, <1>3
  <2> QED BY <2>1, PrefixIsPointwise
<1>6. ASSUME Len(j) <= Len(k), NEW i \in 1 .. Len(j) PROVE B(j)[i] = B(k)[i] <=> j[i] = k[i]
  <2>1. i \in 1 .. Len(k)
    BY <1>2, <1>3, <1>6
  <2>2. B(j)[i] = B(k)[i] => j[i] = k[i]
    BY <2>1, BytesDiffer
  <2>3. /\ B(j)[i] = j[i].name \o <<USEP>> \o ValueBytes(j[i])
        /\ B(k)[i] = k[i].name \o <<USEP>> \o ValueBytes(k[i])
    BY <1>1, <2>1, KeyIs
  <2> QED BY <2>2, <2>3
<1>7. IsPrefix(B(j), B(k)) <=> IsPrefix(j, k)
  BY <1>4, <1>5, <1>6
<1>8. ASSUME B(j) = B(k) PROVE j = k
  <2>1. Len(j) = Len(k) /\ \A i \in 1 .. Len(j) : j[i] = k[i]
    BY <1>2, <1>3, <1>6, <1>8
  <2> QED BY <1>2, <1>3, <2>1, SeqEqual
<1> QED BY <1>2, <1>3, <1>7, <1>8

-----------------------------------------------------------------------------
(* The state of a keyed collection whose keys are K: what is stored is what is wanted. *)

\* Of a store and of what is wanted: a value under the path of each key that one is wanted
\* under and no other, in buckets that are all there, which are those of keys.
Fits(K, t, w) ==
    /\ DOMAIN w = Keys
    /\ \A k \in Keys : w[k] # NoValue => k \in K /\ k # <<>>
    /\ DOMAIN t.vals = {B(k) : k \in {j \in K : w[j] # NoValue}}
    /\ \A k \in K : w[k] # NoValue => t.vals[B(k)] = w[k]
    /\ \A q \in t.bkts \cup DOMAIN t.vals : Parents(q) \subseteq t.bkts
    /\ \A q \in t.bkts : \E k \in K : q \in Parents(B(k))
    /\ t.bkts \cap DOMAIN t.vals = {}

\* Of a store and the numbers given: their buckets are there with them.
Numbered(K, t, g) ==
    \A k \in DOMAIN g :
        /\ k \in K /\ B(k) \in t.bkts \cup {<<>>}
        /\ B(k) \in DOMAIN t.seqs /\ t.seqs[B(k)] = g[k]

LEMMA PutFits ==
    ASSUME NEW K, Distinct(K), NEW t, NEW w, Fits(K, t, w),
           NEW k \in K, k # <<>>, NEW v, v # NoValue, ~Refused(t, B(k))
    PROVE  Fits(K, PutTx(t, B(k), v), [w EXCEPT ![k] = v])
<1> DEFINE p == B(k)
           u == PutTx(t, p, v)
           x == [w EXCEPT ![k] = v]
<1>1. K \subseteq Keys /\ k \in Keys /\ DOMAIN w = Keys
  BY DEF Distinct, Fits
<1>2. /\ u.bkts = t.bkts \cup Parents(p)
      /\ DOMAIN u.vals = DOMAIN t.vals \cup {p}
      /\ \A q \in DOMAIN u.vals : u.vals[q] = IF q = p THEN v ELSE t.vals[q]
  BY DEF PutTx
<1>3. DOMAIN x = Keys /\ \A j \in Keys : x[j] = IF j = k THEN v ELSE w[j]
  BY <1>1
<1>4. p \notin t.bkts /\ Parents(p) \cap DOMAIN t.vals = {}
  BY DEF Refused
<1>5. \A j \in K : B(j) = p <=> j = k
  BY PrefixOfBytes
<1> HIDE DEF p, u, x
<1>6. \A j \in Keys : x[j] # NoValue => j \in K /\ j # <<>>
  BY <1>3 DEF Fits
<1>7. DOMAIN u.vals = {B(j) : j \in {i \in K : x[i] # NoValue}}
  <2>1. ASSUME NEW q \in DOMAIN u.vals PROVE \E j \in K : x[j] # NoValue /\ q = B(j)
    <3>1. CASE q = p
      BY <3>1, <1>1, <1>3 DEF p
    <3>2. CASE q \in DOMAIN t.vals /\ q # p
      BY <3>2, <1>1, <1>3, <1>5 DEF Fits
    <3> QED BY <3>1, <3>2, <1>2
  <2>2. ASSUME NEW j \in K, x[j] # NoValue PROVE B(j) \in DOMAIN u.vals
    BY <2>2, <1>1, <1>2, <1>3, <1>5 DEF Fits
  <2> QED BY <2>1, <2>2
<1>8. \A j \in K : x[j] # NoValue => u.vals[B(j)] = x[j]
  BY <1>1, <1>2, <1>3, <1>5, <1>7 DEF Fits
<1>9. p \in Paths /\ k \in K /\ p = B(k)
  BY <1>1, KeyIs DEF p
<1>10. \A q \in Parents(p) : q # p /\ Parents(q) \subseteq Parents(p)
  <2>1. ASSUME NEW q \in Parents(p) PROVE q # p /\ Parents(q) \subseteq Parents(p)
    <3>1. q \in Paths /\ q # <<>> /\ q # p /\ IsPrefix(q, p)
      BY <1>9, ParentsAre
    <3>2. ASSUME NEW r \in Parents(q) PROVE r \in Parents(p)
      <4>1. r \in Paths /\ r # <<>> /\ r # q /\ IsPrefix(r, q)
        BY <3>1, ParentsAre
      <4>2. IsPrefix(r, p) /\ (r = p => r = q)
        BY <1>9, <3>1, <4>1, PrefixOrder DEF Paths
      <4> QED BY <1>9, <4>1, <4>2, ParentsAre
    <3> QED BY <3>1, <3>2
  <2> QED BY <2>1
<1>11. \A q \in u.bkts \cup DOMAIN u.vals : Parents(q) \subseteq u.bkts
  BY <1>2, <1>10 DEF Fits
<1>12. \A q \in u.bkts : \E j \in K : q \in Parents(B(j))
  BY <1>2, <1>9 DEF Fits
<1>13. u.bkts \cap DOMAIN u.vals = {}
  BY <1>2, <1>4, <1>10 DEF Fits
<1> QED BY <1>3, <1>6, <1>7, <1>8, <1>11, <1>12, <1>13 DEF Fits, p, u, x

\* What answers, of a store that fits: Get and All.
LEMMA FitsAnswers ==
    ASSUME NEW K, Distinct(K), Fits(K, tree, want), NEW k \in K
    PROVE  /\ Get(k) = want[k]
           /\ All(k) = {<<B(j), want[j]>> : j \in {i \in Keys :
                            want[i] # NoValue /\ k # i /\ IsPrefix(k, i)}}
<1>1. K \subseteq Keys /\ k \in Keys /\ B(k) \in Paths
  BY KeyIs DEF Distinct
<1>2. ASSUME B(k) \in DOMAIN tree.vals PROVE Get(k) = want[k] /\ want[k] # NoValue
  <2>1. PICK j \in K : want[j] # NoValue /\ B(k) = B(j)
    BY <1>2 DEF Fits
  <2>2. j = k
    BY <2>1, PrefixOfBytes
  <2>3. Parents(B(k)) \subseteq tree.bkts
    BY <1>2 DEF Fits
  <2> QED BY <1>2, <2>1, <2>2, <2>3 DEF Fits, Get, Found
<1>3. ASSUME B(k) \notin DOMAIN tree.vals PROVE Get(k) = want[k]
  <2>1. want[k] = NoValue
    BY <1>3 DEF Fits
  <2> QED BY <1>3, <2>1 DEF Get
<1>4. ASSUME NEW i \in Keys, want[i] # NoValue, k # i, IsPrefix(k, i)
      PROVE  /\ B(i) \in DOMAIN tree.vals /\ tree.vals[B(i)] = want[i]
             /\ IsBucket(B(k)) /\ B(i) # B(k) /\ IsPrefix(B(k), B(i))
  <2>1. i \in K /\ B(i) \in DOMAIN tree.vals /\ tree.vals[B(i)] = want[i]
    BY <1>4 DEF Fits
  <2>2. B(i) # B(k) /\ IsPrefix(B(k), B(i))
    BY <1>4, <2>1, PrefixOfBytes
  <2>3. B(k) = <<>> \/ B(k) \in Parents(B(i))
    <3>1. B(i) \in Paths
      BY <1>1, <2>1, KeyIs
    <3> QED BY <1>1, <2>2, <3>1, ParentsAre
  <2>4. B(k) = <<>> \/ (B(k) \in tree.bkts /\ Parents(B(k)) \subseteq tree.bkts)
    BY <2>1, <2>3 DEF Fits
  <2> QED BY <2>1, <2>2, <2>4 DEF IsBucket, Found
<1>5. ASSUME NEW q \in DOMAIN tree.vals, q # B(k), IsPrefix(B(k), q)
      PROVE  \E i \in Keys : /\ want[i] # NoValue /\ k # i /\ IsPrefix(k, i)
                             /\ q = B(i) /\ tree.vals[q] = want[i]
  <2>1. PICK i \in K : want[i] # NoValue /\ q = B(i)
    BY DEF Fits
  <2>2. IsPrefix(k, i) /\ k # i /\ tree.vals[q] = want[i]
    BY <1>5, <2>1, PrefixOfBytes DEF Fits
  <2> QED BY <1>1, <2>1, <2>2
<1>6. All(k) = {<<B(j), want[j]>> : j \in {i \in Keys :
                    want[i] # NoValue /\ k # i /\ IsPrefix(k, i)}}
  <2> DEFINE I == {i \in Keys : want[i] # NoValue /\ k # i /\ IsPrefix(k, i)}
             Q == {q \in DOMAIN tree.vals : IsBucket(B(k)) /\ q # B(k) /\ IsPrefix(B(k), q)}
  <2>1. \A i \in I : B(i) \in Q /\ tree.vals[B(i)] = want[i]
    BY <1>4
  <2>2. \A q \in Q : \E i \in I : q = B(i) /\ tree.vals[q] = want[i]
    BY <1>5
  <2>3. All(k) = {<<q, tree.vals[q]>> : q \in Q}
    BY DEF All
  <2> HIDE DEF I, Q
  <2>4. {<<q, tree.vals[q]>> : q \in Q} = {<<B(i), want[i]>> : i \in I}
    BY <2>1, <2>2
  <2> QED BY <2>3, <2>4 DEF I
<1> QED BY <1>2, <1>3, <1>6

\* A path of the tree, of a value or a bucket, is of the form of a path.
LEMMA TreeOfPaths ==
    ASSUME NEW K, Distinct(K), NEW t, NEW w, Fits(K, t, w), NEW q \in t.bkts \cup DOMAIN t.vals
    PROVE  q \in Paths
<1>1. K \subseteq Keys
  BY DEF Distinct
<1>2. CASE q \in DOMAIN t.vals
  <2>1. PICK k \in K : q = B(k)
    BY <1>2 DEF Fits
  <2> QED BY <1>1, <2>1, KeyIs
<1>3. CASE q \in t.bkts
  <2>1. PICK k \in K : q \in Parents(B(k))
    BY <1>3 DEF Fits
  <2>2. B(k) \in Paths
    BY <1>1, KeyIs
  <2> QED BY <2>1, <2>2, ParentsAre
<1> QED BY <1>2, <1>3

LEMMA DelFits ==
    ASSUME NEW K, Distinct(K), Fits(K, tree, want), Numbered(K, tree, given),
           NEW k \in K, Del(k)
    PROVE  Fits(K, tree', want') /\ Numbered(K, tree', given')
<1> DEFINE p == B(k)
           C == Cleared(p)
<1>1. K \subseteq Keys /\ k \in Keys /\ p \in Paths /\ DOMAIN want = Keys
  BY KeyIs DEF Distinct, Fits
<1>2. /\ tree'.bkts = tree.bkts \ C
      /\ DOMAIN tree'.vals = DOMAIN tree.vals \ C
      /\ \A q \in DOMAIN tree'.vals : tree'.vals[q] = tree.vals[q]
      /\ DOMAIN tree'.seqs = DOMAIN tree.seqs \ C
      /\ \A q \in DOMAIN tree'.seqs : tree'.seqs[q] = tree.seqs[q]
  BY DEF Del, Restrict
<1>3. /\ DOMAIN want' = Keys
      /\ \A j \in Keys : want'[j] = IF IsPrefix(k, j) THEN NoValue ELSE want[j]
  BY DEF Del
<1>4. /\ DOMAIN given' = {j \in DOMAIN given : ~IsPrefix(k, j)}
      /\ \A j \in DOMAIN given' : given'[j] = given[j]
  BY DEF Del, Restrict
<1>5. \A q \in tree.bkts \cup DOMAIN tree.vals \cup DOMAIN tree.seqs :
        q \in C <=> Found(p) /\ IsPrefix(p, q)
  BY DEF Cleared, Under
<1>6. \A j \in K : IsPrefix(p, B(j)) <=> IsPrefix(k, j)
  BY PrefixOfBytes
<1>7. ASSUME NEW j \in K, want[j] # NoValue, IsPrefix(k, j) PROVE Found(p)
  <2>1. B(j) \in DOMAIN tree.vals /\ B(j) \in Paths /\ IsPrefix(p, B(j))
    BY <1>1, <1>6, <1>7, KeyIs DEF Fits
  <2>2. Parents(B(j)) \subseteq tree.bkts
    BY <2>1 DEF Fits
  <2>3. p = <<>> => Parents(p) = {}
    <3>1. ASSUME p = <<>>, NEW q \in Parents(p) PROVE FALSE
      <4>1. q \in Paths /\ q # p /\ IsPrefix(q, p)
        BY <1>1, ParentsAre
      <4>2. IsPrefix(p, q)
        BY <3>1, <4>1, PrefixOrder DEF Paths
      <4> QED BY <1>1, <4>1, <4>2, PrefixOrder DEF Paths
    <3> QED BY <3>1
  <2>4. p = <<>> \/ p = B(j) \/ p \in Parents(B(j))
    BY <1>1, <2>1, ParentsAre
  <2>5. p \in Parents(B(j)) => Parents(p) \subseteq tree.bkts
    BY <2>2 DEF Fits
  <2> QED BY <2>2, <2>3, <2>4, <2>5 DEF Found
<1> HIDE DEF p, C
<1>8. p = B(k)
  BY DEF p
<1>9. \A j \in Keys : want'[j] # NoValue => j \in K /\ j # <<>>
  BY <1>3 DEF Fits
<1>10. \A j \in K : want[j] # NoValue => (B(j) \in C <=> IsPrefix(k, j))
  <2>1. \A j \in K : want[j] # NoValue => B(j) \in DOMAIN tree.vals
    BY DEF Fits
  <2> QED BY <2>1, <1>5, <1>6, <1>7
<1>11. DOMAIN tree'.vals = {B(j) : j \in {i \in K : want'[i] # NoValue}}
  <2>1. ASSUME NEW q \in DOMAIN tree'.vals PROVE \E j \in K : want'[j] # NoValue /\ q = B(j)
    <3>1. q \in DOMAIN tree.vals /\ q \notin C
      BY <1>2
    <3>2. PICK j \in K : want[j] # NoValue /\ q = B(j)
      BY <3>1 DEF Fits
    <3> QED BY <1>1, <1>3, <1>10, <3>1, <3>2
  <2>2. ASSUME NEW j \in K, want'[j] # NoValue PROVE B(j) \in DOMAIN tree'.vals
    <3>1. want[j] # NoValue /\ ~IsPrefix(k, j)
      BY <1>1, <1>3, <2>2
    <3>2. B(j) \in DOMAIN tree.vals
      BY <3>1 DEF Fits
    <3> QED BY <1>2, <1>10, <3>1, <3>2
  <2> QED BY <2>1, <2>2
<1>12. \A j \in K : want'[j] # NoValue => tree'.vals[B(j)] = want'[j]
  <2>1. ASSUME NEW j \in K, want'[j] # NoValue PROVE tree'.vals[B(j)] = want'[j]
    <3>1. want[j] # NoValue /\ want'[j] = want[j]
      BY <1>1, <1>3, <2>1
    <3>2. B(j) \in DOMAIN tree'.vals
      BY <1>11, <2>1
    <3> QED BY <1>2, <3>1, <3>2 DEF Fits
  <2> QED BY <2>1
<1>13. \A q \in tree'.bkts \cup DOMAIN tree'.vals : Parents(q) \subseteq tree'.bkts
  <2>1. ASSUME NEW q \in tree'.bkts \cup DOMAIN tree'.vals, NEW r \in Parents(q)
        PROVE  r \in tree'.bkts
    <3>1. q \in tree.bkts \cup DOMAIN tree.vals /\ q \notin C
      BY <1>2
    <3>2. q \in Paths /\ r \in tree.bkts
      BY <3>1, TreeOfPaths DEF Fits
    <3>3. r \in Paths /\ IsPrefix(r, q)
      BY <3>2, ParentsAre
    <3>4. IsPrefix(p, r) => IsPrefix(p, q)
      BY <1>1, <3>2, <3>3, PrefixOrder DEF Paths
    <3>5. r \notin C
      BY <1>5, <3>1, <3>2, <3>4
    <3> QED BY <1>2, <3>2, <3>5
  <2> QED BY <2>1
<1>14. /\ \A q \in tree'.bkts : \E j \in K : q \in Parents(B(j))
       /\ tree'.bkts \cap DOMAIN tree'.vals = {}
  BY <1>2 DEF Fits
<1>15. Numbered(K, tree', given')
  <2> SUFFICES ASSUME NEW j \in DOMAIN given'
               PROVE  /\ j \in K /\ B(j) \in tree'.bkts \cup {<<>>}
                      /\ B(j) \in DOMAIN tree'.seqs /\ tree'.seqs[B(j)] = given'[j]
    BY DEF Numbered
  <2>1. j \in DOMAIN given /\ ~IsPrefix(k, j) /\ given'[j] = given[j]
    BY <1>4
  <2>2. /\ j \in K /\ B(j) \in tree.bkts \cup {<<>>}
        /\ B(j) \in DOMAIN tree.seqs /\ tree.seqs[B(j)] = given[j]
    BY <2>1 DEF Numbered
  <2>3. B(j) \notin C
    BY <1>5, <1>6, <2>1, <2>2
  <2> QED BY <1>2, <2>1, <2>2, <2>3
<1> QED BY <1>3, <1>9, <1>11, <1>12, <1>13, <1>14, <1>15 DEF Fits

LEMMA PutNumbered ==
    ASSUME NEW K, NEW t, NEW g, Numbered(K, t, g), NEW p, NEW v
    PROVE  Numbered(K, PutTx(t, p, v), g)
BY DEF Numbered, PutTx

\* Of an empty collection nothing is wanted.
LEMMA InitFits ==
    ASSUME NEW K, Distinct(K), KeyedInit
    PROVE  Fits(K, tree, want) /\ Numbered(K, tree, given) /\ batch = NoValue
<1>1. K \subseteq Keys
  BY DEF Distinct
<1>2. /\ tree.bkts = {} /\ tree.vals = <<>> /\ want = [k \in Keys |-> NoValue]
      /\ given = <<>> /\ batch = NoValue
  BY DEF KeyedInit
<1>3. DOMAIN tree.vals = {} /\ DOMAIN given = {}
  BY <1>2
<1>4. \A k \in Keys : want[k] = NoValue
  BY <1>2
<1>5. DOMAIN tree.vals = {B(k) : k \in {j \in K : want[j] # NoValue}}
  BY <1>1, <1>3, <1>4
<1> QED BY <1>1, <1>2, <1>3, <1>4, <1>5 DEF Fits, Numbered

-----------------------------------------------------------------------------

\* What the batch that runs has done fits what it wants, and what it has to put are keys.
KeyedInv(K) ==
    /\ Fits(K, tree, want) /\ Numbered(K, tree, given)
    /\ batch # NoValue =>
        /\ Fits(K, batch.tree, batch.want) /\ Numbered(K, batch.tree, given)
        /\ batch.todo \in Seq((K \ {<<>>}) \X Value)

ValidKeys == {k \in Keys : Valid(k)}

LEMMA ValidDistinct ==
    ASSUME KeysDiffer
    PROVE  Distinct(ValidKeys)
BY DEF Distinct, KeysDiffer, ValidKeys

LEMMA StepPut ==
    ASSUME KeysDiffer, KeyedInv(ValidKeys), NEW k \in Keys, NEW v \in Value, Put(k, v)
    PROVE  KeyedInv(ValidKeys)'
<1>1. Distinct(ValidKeys) /\ v # NoValue
  BY ValidDistinct, KeyedAssumption
<1>2. /\ k \in ValidKeys /\ k # <<>> /\ ~Refused(tree, B(k)) /\ batch = NoValue
      /\ tree' = PutTx(tree, B(k), v) /\ want' = [want EXCEPT ![k] = v]
      /\ UNCHANGED <<batch, given>>
  BY DEF Put, ValidKeys
<1>3. Fits(ValidKeys, tree', want')
  BY <1>1, <1>2, PutFits DEF KeyedInv
<1>4. Numbered(ValidKeys, tree', given')
  BY <1>2, PutNumbered DEF KeyedInv
<1> QED BY <1>2, <1>3, <1>4 DEF KeyedInv

LEMMA StepBatchPut ==
    ASSUME KeyedInv(ValidKeys), NEW n \in 0 .. MaxBatch, NEW todo \in [1 .. n -> Keys \X Value],
           BatchPut(todo)
    PROVE  KeyedInv(ValidKeys)'
<1>1. /\ batch' = [todo |-> todo, tree |-> tree, want |-> want]
      /\ \A i \in 1 .. n : todo[i][1] # <<>> /\ Valid(todo[i][1])
      /\ UNCHANGED <<tree, want, given>>
  BY DEF BatchPut
<1>2. n \in Nat /\ \A i \in 1 .. n : todo[i] \in (ValidKeys \ {<<>>}) \X Value
  BY <1>1, KeyedAssumption DEF ValidKeys
<1>3. todo \in Seq((ValidKeys \ {<<>>}) \X Value)
  BY <1>2
<1> QED BY <1>1, <1>3 DEF KeyedInv

LEMMA StepBatchStep ==
    ASSUME KeysDiffer, KeyedInv(ValidKeys), BatchStep
    PROVE  KeyedInv(ValidKeys)'
<1> DEFINE x == Head(batch.todo)
           k == x[1]
           v == x[2]
           t == PutTx(batch.tree, B(k), v)
           w == [batch.want EXCEPT ![k] = v]
<1>1. /\ batch # NoValue /\ batch.todo # <<>>
      /\ batch' = IF Refused(batch.tree, B(k)) THEN NoValue
                  ELSE [todo |-> Tail(batch.todo), tree |-> t, want |-> w]
      /\ UNCHANGED <<tree, want, given>>
  BY DEF BatchStep
<1>2. CASE Refused(batch.tree, B(k))
  BY <1>1, <1>2 DEF KeyedInv
<1>3. CASE ~Refused(batch.tree, B(k))
  <2>1. /\ Fits(ValidKeys, batch.tree, batch.want) /\ Numbered(ValidKeys, batch.tree, given)
        /\ batch.todo \in Seq((ValidKeys \ {<<>>}) \X Value)
    BY <1>1 DEF KeyedInv
  <2>2. /\ x \in (ValidKeys \ {<<>>}) \X Value
        /\ Tail(batch.todo) \in Seq((ValidKeys \ {<<>>}) \X Value)
    BY <1>1, <2>1, HeadTailProperties
  <2>3. k \in ValidKeys /\ k # <<>> /\ v \in Value /\ v # NoValue /\ Distinct(ValidKeys)
    BY <2>2, ValidDistinct, KeyedAssumption
  <2> HIDE DEF x, k, v
  <2>4. Fits(ValidKeys, t, w) /\ Numbered(ValidKeys, t, given)
    BY <1>3, <2>1, <2>3, PutFits, PutNumbered
  <2> HIDE DEF t, w
  <2>5. batch'.todo = Tail(batch.todo) /\ batch'.tree = t /\ batch'.want = w
    BY <1>1, <1>3
  <2> QED BY <1>1, <2>2, <2>4, <2>5 DEF KeyedInv
<1> QED BY <1>2, <1>3

LEMMA StepBatchCommit ==
    ASSUME KeyedInv(ValidKeys), BatchCommit
    PROVE  KeyedInv(ValidKeys)'
BY DEF BatchCommit, KeyedInv

LEMMA StepDel ==
    ASSUME KeysDiffer, KeyedInv(ValidKeys), NEW k \in Keys, Del(k)
    PROVE  KeyedInv(ValidKeys)'
<1>1. k \in ValidKeys /\ batch = NoValue /\ batch' = batch /\ Distinct(ValidKeys)
  BY ValidDistinct DEF Del, ValidKeys
<1>2. Fits(ValidKeys, tree', want') /\ Numbered(ValidKeys, tree', given')
  BY <1>1, DelFits DEF KeyedInv
<1> QED BY <1>1, <1>2 DEF KeyedInv

\* Next of an invalid key finds no bucket.
LEMMA StepNextSeq ==
    ASSUME KeysDiffer, KeyedInv(ValidKeys), NEW k \in Keys, NEW set, NextSeq(k, set)
    PROVE  KeyedInv(ValidKeys)'
<1> DEFINE p == B(k)
<1>1. Distinct(ValidKeys) /\ p \in Paths
  BY ValidDistinct, KeyIs
<1>2. PICK n :
        /\ batch = NoValue /\ IsBucket(p)
        /\ tree' = [bkts |-> tree.bkts, vals |-> tree.vals,
                    seqs |-> [q \in DOMAIN tree.seqs \cup {p} |-> IF q = p THEN n ELSE tree.seqs[q]]]
        /\ given' = [j \in DOMAIN given \cup {k} |-> IF j = k THEN n ELSE given[j]]
        /\ batch' = batch /\ want' = want
  BY DEF NextSeq
<1>3. Fits(ValidKeys, tree', want')
  BY <1>2 DEF KeyedInv, Fits
<1>4. k \in ValidKeys
  <2>1. CASE p = <<>>
    <3>1. k \in Seq(Elements) /\ Len(k) = Len(p)
      BY KeyIs
    <3>2. Len(k) = 0 /\ DOMAIN k = 1 .. Len(k)
      BY <2>1, <3>1
    <3>3. \A i \in DOMAIN k : FALSE
      BY <3>2
    <3> QED BY <3>3 DEF Valid, ValidKeys
  <2>2. CASE p # <<>>
    <3>1. p \in tree.bkts
      BY <1>2, <2>2 DEF IsBucket
    <3>2. PICK i \in ValidKeys : p \in Parents(B(i))
      BY <3>1 DEF KeyedInv, Fits
    <3>3. i \in Keys /\ Valid(i) /\ B(i) \in Paths
      BY KeyIs DEF ValidKeys
    <3>4. IsStrictPrefix(p, B(i))
      BY <3>2, <3>3, ParentsAre DEF IsStrictPrefix
    <3> QED BY <3>3, <3>4 DEF KeysDiffer, ValidKeys
  <2> QED BY <2>1, <2>2
<1>5. Numbered(ValidKeys, tree', given')
  <2> SUFFICES ASSUME NEW j \in DOMAIN given'
               PROVE  /\ j \in ValidKeys /\ B(j) \in tree'.bkts \cup {<<>>}
                      /\ B(j) \in DOMAIN tree'.seqs /\ tree'.seqs[B(j)] = given'[j]
    BY DEF Numbered
  <2>1. /\ tree'.bkts = tree.bkts /\ DOMAIN tree'.seqs = DOMAIN tree.seqs \cup {p}
        /\ \A q \in DOMAIN tree'.seqs : tree'.seqs[q] = IF q = p THEN n ELSE tree.seqs[q]
    BY <1>2
  <2>2. DOMAIN given' = DOMAIN given \cup {k} /\ given'[j] = IF j = k THEN n ELSE given[j]
    BY <1>2
  <2>3. CASE j = k
    BY <1>2, <1>4, <2>1, <2>2, <2>3 DEF IsBucket
  <2>4. CASE j # k
    <3>1. /\ j \in ValidKeys /\ B(j) \in tree.bkts \cup {<<>>}
          /\ B(j) \in DOMAIN tree.seqs /\ tree.seqs[B(j)] = given[j]
      BY <2>2, <2>4 DEF KeyedInv, Numbered
    <3>2. B(j) # p
      BY <1>1, <1>4, <2>4, <3>1, PrefixOfBytes
    <3> QED BY <2>1, <2>2, <2>4, <3>1, <3>2
  <2> QED BY <2>3, <2>4
<1> QED BY <1>2, <1>3, <1>5 DEF KeyedInv

\* For any keys that do not collide, any values, any number of them in a batch and integers of
\* any width: Get and All answer what the calls that succeeded put and did not delete, and of
\* a batch that runs or failed nothing; a bucket's sequence goes on while it lives
\* (keyed.go:85-147, keyed.go:193-201, keyed.go:226-230, keyed.go:289-301).
THEOREM KeysKeep ==
    ASSUME KeysDiffer
    PROVE  KeyedSpec => []KeyedKept
<1>1. KeyedInit => KeyedInv(ValidKeys)
  BY ValidDistinct, InitFits DEF KeyedInv
<1>2. KeyedInv(ValidKeys) /\ [KeyedNext(Keys)]_keyedVars => KeyedInv(ValidKeys)'
  <2> SUFFICES ASSUME KeyedInv(ValidKeys), [KeyedNext(Keys)]_keyedVars
               PROVE  KeyedInv(ValidKeys)'
    OBVIOUS
  <2>1. CASE UNCHANGED keyedVars
    BY <2>1 DEF keyedVars, KeyedInv
  <2>2. CASE \E k \in Keys, v \in Value : Put(k, v)
    BY <2>2, StepPut
  <2>3. CASE \E n \in 0 .. MaxBatch : \E todo \in [1 .. n -> Keys \X Value] : BatchPut(todo)
    BY <2>3, StepBatchPut
  <2>4. CASE BatchStep \/ BatchCommit
    BY <2>4, StepBatchStep, StepBatchCommit
  <2>5. CASE \E k \in Keys : Del(k)
    BY <2>5, StepDel
  <2>6. CASE \E k \in Keys, set \in {NoValue, 0} : NextSeq(k, set)
    BY <2>6, StepNextSeq
  <2> QED BY <2>1, <2>2, <2>3, <2>4, <2>5, <2>6 DEF KeyedNext
<1>3. KeyedInv(ValidKeys) => KeyedKept
  <2> SUFFICES ASSUME KeyedInv(ValidKeys) PROVE KeyedKept
    OBVIOUS
  <2>1. Fits(ValidKeys, tree, want) /\ Distinct(ValidKeys)
    BY ValidDistinct DEF KeyedInv
  <2>2. \A k \in ValidKeys :
            /\ Get(k) = want[k]
            /\ All(k) = {<<B(j), want[j]>> : j \in {i \in Keys :
                            want[i] # NoValue /\ k # i /\ IsPrefix(k, i)}}
    BY <2>1, FitsAnswers
  <2>3. \A k \in DOMAIN given : B(k) \in DOMAIN tree.seqs /\ tree.seqs[B(k)] = given[k]
    BY DEF KeyedInv, Numbered
  <2> QED BY <2>2, <2>3 DEF KeyedKept, ValidKeys
<1> QED BY <1>1, <1>2, <1>3, PTL DEF KeyedSpec

\* Of strings alone, as karma and the configuration have them, keys that are valid do not collide.
THEOREM StringsDiffer ==
    ASSUME \A k \in Keys : Valid(k) /\ \A i \in DOMAIN k : k[i].type = "S"
    PROVE  KeysDiffer
<1> SUFFICES ASSUME NEW j \in Keys, NEW k \in Keys, NEW e \in Range(j), NEW f \in Range(k),
                    e.name = f.name, ValueBytes(e) = ValueBytes(f)
             PROVE  e = f
  BY DEF KeysDiffer
<1>1. e.type = "S" /\ IsElem(e) /\ f.type = "S" /\ IsElem(f)
  BY KeyedAssumption DEF Range
<1>2. ValueBytes(e) = e.value /\ ValueBytes(f) = f.value
  BY <1>1 DEF ValueBytes
<1> QED BY <1>1, <1>2 DEF IsElem

-----------------------------------------------------------------------------
(* The configuration.                                                          *)

EntryKeys == {EntryKey(ns, name) : ns \in Ns, name \in Name}

LEMMA EntryIs ==
    ASSUME NEW ns \in Ns, NEW name \in Name
    PROVE  /\ EntryKey(ns, name) \in Keys /\ EntryKey(ns, name) \in EntryKeys
           /\ EntryKey(ns, name) # <<>> /\ Len(EntryKey(ns, name)) = 2
           /\ EntryKey(ns, name)[1].value = ns /\ EntryKey(ns, name)[2].value = name
           /\ Valid(EntryKey(ns, name))
           /\ \A e \in Range(EntryKey(ns, name)) :
                e.type = "S" /\ e = [type |-> e.type, name |-> e.name, value |-> e.value]
<1> DEFINE k == EntryKey(ns, name)
           d == [type |-> "S", name |-> <<110, 115>>, value |-> ns]
           e == [type |-> "S", name |-> <<107, 101, 121>>, value |-> name]
<1>1. k \in Keys /\ k \in EntryKeys
  BY ConfAssumption DEF EntryKeys
<1>2. k = <<d, e>>
  BY DEF EntryKey
<1>3. k # <<>> /\ Len(k) = 2 /\ DOMAIN k = {1, 2} /\ k[1] = d /\ k[2] = e
  BY <1>2
<1>4. Range(k) = {d, e}
  BY <1>3 DEF Range
<1>5. ~Contains(<<110, 115>>, USEP) /\ ~Contains(<<107, 101, 121>>, USEP)
  BY DEF Contains, USEP
<1>6. Valid(k)
  <2>1. k[1].name = <<110, 115>> /\ k[2].name = <<107, 101, 121>>
    BY <1>3
  <2> QED BY <1>3, <1>5, <2>1 DEF Valid
<1>7. k[1].value = ns /\ k[2].value = name
  BY <1>3
<1>8. \A x \in Range(k) : x.type = "S" /\ x = [type |-> x.type, name |-> x.name, value |-> x.value]
  BY <1>4
<1> QED BY <1>1, <1>3, <1>6, <1>7, <1>8

LEMMA EntriesDistinct == Distinct(EntryKeys)
<1>1. \A k \in EntryKeys :
        /\ k \in Keys /\ Valid(k)
        /\ \A e \in Range(k) :
             e.type = "S" /\ e = [type |-> e.type, name |-> e.name, value |-> e.value]
  BY EntryIs DEF EntryKeys
<1>2. ASSUME NEW j \in EntryKeys, NEW k \in EntryKeys, NEW e \in Range(j), NEW f \in Range(k),
             e.name = f.name, ValueBytes(e) = ValueBytes(f)
      PROVE  e = f
  <2>1. e.type = "S" /\ e = [type |-> e.type, name |-> e.name, value |-> e.value]
    BY <1>1
  <2>2. f.type = "S" /\ f = [type |-> f.type, name |-> f.name, value |-> f.value]
    BY <1>1
  <2>3. ValueBytes(e) = e.value /\ ValueBytes(f) = f.value
    BY <2>1, <2>2 DEF ValueBytes
  <2> QED BY <1>2, <2>1, <2>2, <2>3
<1> QED BY <1>1, <1>2 DEF Distinct

\* An entry's key is the beginning of no other's.
LEMMA EntriesApart ==
    ASSUME NEW x \in Ns \X Name, NEW y \in Ns \X Name
    PROVE  IsPrefix(EntryKey(x[1], x[2]), EntryKey(y[1], y[2])) <=> x = y
<1> DEFINE j == EntryKey(x[1], x[2])
           k == EntryKey(y[1], y[2])
<1>1. /\ j \in Seq(Elements) /\ Len(j) = 2 /\ j[1].value = x[1] /\ j[2].value = x[2]
      /\ k \in Seq(Elements) /\ Len(k) = 2 /\ k[1].value = y[1] /\ k[2].value = y[2]
  <2>1. x[1] \in Ns /\ x[2] \in Name /\ y[1] \in Ns /\ y[2] \in Name
    OBVIOUS
  <2>2. j \in Keys /\ Len(j) = 2 /\ j[1].value = x[1] /\ j[2].value = x[2]
    BY <2>1, EntryIs
  <2>3. k \in Keys /\ Len(k) = 2 /\ k[1].value = y[1] /\ k[2].value = y[2]
    BY <2>1, EntryIs
  <2> QED BY <2>2, <2>3, KeyIs
<1> HIDE DEF j, k
<1>2. IsPrefix(j, k) => j[1] = k[1] /\ j[2] = k[2]
  BY <1>1, PrefixIsPointwise
<1>3. IsPrefix(j, j)
  BY <1>1, PrefixOrder
<1> QED BY <1>1, <1>2, <1>3 DEF j, k

\* What is stored of an entry is what memory has, as it is encoded, but where it was lost.
ConfInv ==
    /\ batch = NoValue
    /\ Fits(EntryKeys, tree, want) /\ Numbered(EntryKeys, tree, given)
    /\ mem \in [Ns \X Name -> Setting \cup {NoValue}]
    /\ \A e \in (Ns \X Name) \ unsaved :
         want[EntryKey(e[1], e[2])] = IF mem[e] = NoValue THEN NoValue ELSE Coded(mem[e])

LEMMA StepSet ==
    ASSUME ConfInv, NEW ns \in Ns, NEW name \in Name, Set(ns, name)
    PROVE  ConfInv'
<1> DEFINE x == <<ns, name>>
           k == EntryKey(ns, name)
<1>1. PICK s \in Setting :
        /\ mem' = [mem EXCEPT ![x] = s]
        /\ \/ Store(ns, name, Coded(s)) /\ Saved(x)
           \/ Lost(x)
  BY DEF Set
<1>2. x \in Ns \X Name /\ s # NoValue /\ Coded(s) # NoValue
  BY ConfAssumption
<1>3. /\ mem' \in [Ns \X Name -> Setting \cup {NoValue}]
      /\ \A e \in Ns \X Name : mem'[e] = IF e = x THEN s ELSE mem[e]
  BY <1>1, <1>2 DEF ConfInv
<1>4. CASE Store(ns, name, Coded(s)) /\ Saved(x)
  <2>1. /\ ~Refused(tree, B(k)) /\ tree' = PutTx(tree, B(k), Coded(s))
        /\ want' = [want EXCEPT ![k] = Coded(s)] /\ batch' = batch /\ given' = given
        /\ unsaved' = unsaved \ {x}
    BY <1>4 DEF Store, Put, Saved
  <2>2. k \in EntryKeys /\ k \in Keys /\ k # <<>>
    BY EntryIs
  <2>3. Fits(EntryKeys, tree', want') /\ Numbered(EntryKeys, tree', given')
    BY <1>2, <2>1, <2>2, EntriesDistinct, PutFits, PutNumbered DEF ConfInv
  <2>4. ASSUME NEW e \in (Ns \X Name) \ unsaved'
        PROVE  want'[EntryKey(e[1], e[2])] = IF mem'[e] = NoValue THEN NoValue ELSE Coded(mem'[e])
    <3>1. DOMAIN want = Keys
      BY DEF ConfInv, Fits
    <3>2. CASE e = x
      <4>1. EntryKey(e[1], e[2]) = k
        BY <3>2
      <4> QED BY <1>2, <1>3, <2>1, <2>2, <3>1, <3>2, <4>1
    <3>3. CASE e # x
      <4>1. EntryKey(e[1], e[2]) # k
        <5>1. IsPrefix(EntryKey(x[1], x[2]), k)
          BY <1>2, EntriesApart
        <5>2. ~IsPrefix(EntryKey(x[1], x[2]), EntryKey(e[1], e[2]))
          BY <1>2, <3>3, EntriesApart
        <5> QED BY <5>1, <5>2
      <4>2. e \in (Ns \X Name) \ unsaved
        BY <2>1, <3>3
      <4>3. want'[EntryKey(e[1], e[2])] = want[EntryKey(e[1], e[2])]
        BY <2>1, <4>1
      <4> QED BY <1>3, <3>3, <4>2, <4>3 DEF ConfInv
    <3> QED BY <3>2, <3>3
  <2> QED BY <1>3, <2>1, <2>3, <2>4 DEF ConfInv
<1>5. CASE Lost(x)
  <2>1. unsaved' = unsaved \cup {x} /\ UNCHANGED <<tree, batch, want, given>>
    BY <1>5 DEF Lost, keyedVars
  <2> QED BY <1>3, <2>1 DEF ConfInv
<1> QED BY <1>1, <1>4, <1>5

LEMMA StepDelete ==
    ASSUME ConfInv, NEW ns \in Ns, NEW name \in Name, Delete(ns, name)
    PROVE  ConfInv'
<1> DEFINE x == <<ns, name>>
           k == EntryKey(ns, name)
<1>1. /\ mem' = [mem EXCEPT ![x] = NoValue]
      /\ \/ Del(k) /\ Saved(x)
         \/ Lost(x)
  BY DEF Delete
<1>2. x \in Ns \X Name /\ k = EntryKey(x[1], x[2])
  OBVIOUS
<1>3. /\ mem' \in [Ns \X Name -> Setting \cup {NoValue}]
      /\ \A e \in Ns \X Name : mem'[e] = IF e = x THEN NoValue ELSE mem[e]
  BY <1>1, <1>2 DEF ConfInv
<1>4. CASE Del(k) /\ Saved(x)
  <2>1. /\ want' = [j \in Keys |-> IF IsPrefix(k, j) THEN NoValue ELSE want[j]]
        /\ batch' = batch /\ unsaved' = unsaved \ {x}
    BY <1>4 DEF Del, Saved
  <2>2. k \in EntryKeys
    BY EntryIs
  <2>3. Fits(EntryKeys, tree', want') /\ Numbered(EntryKeys, tree', given')
    BY <1>4, <2>2, EntriesDistinct, DelFits DEF ConfInv
  <2>4. ASSUME NEW e \in (Ns \X Name) \ unsaved'
        PROVE  want'[EntryKey(e[1], e[2])] = IF mem'[e] = NoValue THEN NoValue ELSE Coded(mem'[e])
    <3>1. EntryKey(e[1], e[2]) \in Keys
      BY EntryIs
    <3>2. IsPrefix(k, EntryKey(e[1], e[2])) <=> x = e
      BY <1>2, EntriesApart
    <3>3. want'[EntryKey(e[1], e[2])] = IF x = e THEN NoValue ELSE want[EntryKey(e[1], e[2])]
      BY <2>1, <3>1, <3>2
    <3>4. e # x => e \in (Ns \X Name) \ unsaved
      BY <2>1
    <3> QED BY <1>3, <3>3, <3>4 DEF ConfInv
  <2> QED BY <1>3, <2>1, <2>3, <2>4 DEF ConfInv
<1>5. CASE Lost(x)
  <2>1. unsaved' = unsaved \cup {x} /\ UNCHANGED <<tree, batch, want, given>>
    BY <1>5 DEF Lost, keyedVars
  <2> QED BY <1>3, <2>1 DEF ConfInv
<1> QED BY <1>1, <1>4, <1>5

\* For any namespaces, keys and settings: the configuration in the database answers as the one
\* in memory, but for what could not be stored and integers of more than 32 bits
\* (namespace.go:28-80, inmemory.go:17-54).
THEOREM NamespacesAgree == ConfSpec => []ConfAgrees
<1>1. ConfInit => ConfInv
  <2> SUFFICES ASSUME ConfInit PROVE ConfInv
    OBVIOUS
  <2>1. Fits(EntryKeys, tree, want) /\ Numbered(EntryKeys, tree, given) /\ batch = NoValue
    BY EntriesDistinct, InitFits DEF ConfInit
  <2>2. /\ mem = [e \in Ns \X Name |-> NoValue]
        /\ want = [k \in Keys |-> NoValue]
    BY DEF ConfInit, KeyedInit
  <2>3. \A e \in Ns \X Name : EntryKey(e[1], e[2]) \in Keys
    BY EntryIs
  <2> QED BY <2>1, <2>2, <2>3 DEF ConfInv
<1>2. ConfInv /\ [ConfNext]_confVars => ConfInv'
  <2> SUFFICES ASSUME ConfInv, [ConfNext]_confVars PROVE ConfInv'
    OBVIOUS
  <2>1. CASE UNCHANGED confVars
    BY <2>1 DEF confVars, keyedVars, ConfInv
  <2>2. CASE ConfNext
    BY <2>2, StepSet, StepDelete DEF ConfNext
  <2> QED BY <2>1, <2>2
<1>3. ConfInv => ConfAgrees
  <2> SUFFICES ASSUME ConfInv, NEW ns \in Ns, NEW name \in Name, NEW type \in Type,
                      <<ns, name>> \notin unsaved
               PROVE  LET m == mem[<<ns, name>>] IN
                      As(type, Get(EntryKey(ns, name))) =
                        IF m # NoValue /\ Coded(m) # m THEN NoValue ELSE As(type, m)
    BY DEF ConfAgrees
  <2> DEFINE m == mem[<<ns, name>>]
  <2>1. Get(EntryKey(ns, name)) = IF m = NoValue THEN NoValue ELSE Coded(m)
    <3>1. EntryKey(ns, name) \in EntryKeys
      BY EntryIs
    <3>2. Get(EntryKey(ns, name)) = want[EntryKey(ns, name)]
      BY <3>1, EntriesDistinct, FitsAnswers DEF ConfInv
    <3> QED BY <3>2 DEF ConfInv
  <2>2. m \in Setting \cup {NoValue}
    BY DEF ConfInv
  <2> HIDE DEF m
  <2>3. ASSUME m # NoValue, Coded(m) # m PROVE As(type, Coded(m)) = NoValue
    <3>1. Coded(m) = <<"int64", m[2]>>
      BY <2>3 DEF Coded
    <3>2. Coded(m)[1] # type
      BY <3>1 DEF Type
    <3> QED BY <3>2 DEF As
  <2>4. As(type, NoValue) = NoValue
    BY DEF As
  <2>5. As(type, Get(EntryKey(ns, name))) = IF m # NoValue /\ Coded(m) # m THEN NoValue ELSE As(type, m)
    BY <2>1, <2>3, <2>4
  <2> QED BY <2>5 DEF m
<1> QED BY <1>1, <1>2, <1>3, PTL DEF ConfSpec

=============================================================================
