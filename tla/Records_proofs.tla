--------------------------- MODULE Records_proofs ---------------------------
(***************************************************************************)
(* Theorems about the parts that read a record and later put it, or count  *)
(* what is put: Quotes, Markov, Seen and Urls for any connections, texts,  *)
(* words, events, codes and bounds, Counters for any lines said and        *)
(* connections saying them, and the limit on lookups, for any gap and      *)
(* however long.                                                           *)
(***************************************************************************)
EXTENDS Quotes, Markov, Counters, Seen, Urls, RateLimit,
        FiniteSetTheorems, WellFoundedInduction, TLAPS

-----------------------------------------------------------------------------
(* The limit on lookups. *)

RateType ==
    /\ clock \in Nat
    /\ badness \in Nat
    /\ lastsent \in Int /\ first \in Int
    /\ -1 <= lastsent /\ lastsent <= clock
    /\ -1 <= first /\ first <= lastsent
    /\ count \in Nat

\* What a window's calls leave: one Gap for each after the first, less the time they took.
Due == Gap * (count - 1) - (lastsent - first)

RateInv ==
    /\ RateType
    /\ first # -1 => Due <= badness /\ Due <= Burst

\* A further call that is let through is due another Gap, less the time since the last.
LEMMA NextDue ==
    ASSUME Gap \in Nat, NEW n \in Nat
    PROVE  Gap * n \in Int /\ Gap * (n + 1 - 1) = Gap * (n - 1) + Gap /\ Gap * (1 - 1) = 0
BY SMT

LEMMA InitRate == RateInit => RateInv
BY DEF RateInit, RateInv, RateType

LEMMA StepRate == RateInv /\ [RateNext]_rateVars => RateInv'
<1> SUFFICES ASSUME RateInv, [RateNext]_rateVars PROVE RateInv'
  OBVIOUS
<1>0. Gap \in Nat /\ Horizon \in Nat /\ Burst \in Nat
  BY RateAssumption DEF Burst
<1>1. ASSUME NEW d \in 1 .. Horizon, Pass(d) PROVE RateInv'
  <2>1. RateType'
    BY <1>0, <1>1 DEF RateInv, RateType, Pass
  <2> QED BY <1>0, <1>1, <2>1 DEF RateInv, Due, Burst, Pass
<1>2. Bad \in Nat
  BY <1>0 DEF RateInv, RateType, Bad
<1>3. CASE Refuse
  <2>1. RateType'
    BY <1>2, <1>3 DEF RateInv, RateType, Refuse
  <2>2. Due' = Due /\ badness' > Burst /\ first' = first
    BY <1>3 DEF Due, Refuse
  <2>3. Due \in Int
    BY <1>0 DEF Due, RateInv, RateType
  <2>4. Burst' = Burst
    BY DEF Burst
  <2>5. badness' \in Nat
    BY <2>1 DEF RateType
  <2> QED BY <1>0, <2>1, <2>2, <2>3, <2>4, <2>5 DEF RateInv
<1>4. CASE Allow
  <2>1. RateType'
    BY <1>2, <1>4 DEF RateInv, RateType, Allow
  <2>2. Burst' = Burst
    BY DEF Burst
  <2>3. badness' = Bad /\ Bad <= Burst
    BY <1>4 DEF Allow
  <2>4. CASE first' = first /\ first # -1
    <3>1. lastsent # -1 /\ count' = count + 1 /\ lastsent' = clock
      BY <1>4, <2>4 DEF Allow, RateInv, RateType
    <3>2. Gap * (count' - 1) = Gap * (count - 1) + Gap /\ Gap * (count - 1) \in Int
      BY <1>0, <3>1, NextDue DEF RateInv, RateType
    <3>3. Due' = Due + Gap - (clock - lastsent) /\ Due \in Int
      BY <1>0, <2>4, <3>1, <3>2 DEF Due, RateInv, RateType
    <3>4. Bad >= badness + Gap - (clock - lastsent)
      BY <1>0, <3>1 DEF Bad, RateInv, RateType
    <3>5. Due' <= Bad
      BY <1>0, <1>2, <2>4, <3>3, <3>4 DEF RateInv, RateType
    <3> QED BY <1>0, <1>2, <2>1, <2>2, <2>3, <3>3, <3>5 DEF RateInv, RateType
  <2>5. CASE first' = clock /\ first = -1 /\ count' = 1
    <3>1. Due' = 0
      BY <1>0, <1>4, <2>5, NextDue DEF Due, Allow, RateInv, RateType
    <3> QED BY <1>0, <1>2, <2>1, <2>2, <2>3, <3>1 DEF RateInv
  <2>6. CASE first' = first /\ first = -1
    BY <2>1, <2>6 DEF RateInv
  <2> QED BY <1>4, <2>4, <2>5, <2>6 DEF Allow
<1>5. CASE UNCHANGED rateVars
  BY <1>5 DEF rateVars, RateInv, RateType, Due, Burst
<1> QED BY <1>1, <1>3, <1>4, <1>5 DEF RateNext

\* No window ever has more calls let through than its time allows and the burst
\* (quotedriver.go:49-57).
THEOREM RateIsKept == RateSpec => []RateKept
<1>1. RateInv => RateKept
  <2> SUFFICES ASSUME RateInv, first # -1 PROVE Gap * (count - 1) <= Burst + (lastsent - first)
    BY DEF RateKept
  <2>1. Gap * (count - 1) \in Int /\ Burst \in Nat
    BY RateAssumption DEF RateInv, RateType, Burst
  <2> QED BY <2>1 DEF RateInv, RateType, Due
<1> QED BY InitRate, StepRate, <1>1, PTL DEF RateSpec
-----------------------------------------------------------------------------
(* Quotes. *)

LEMMA Bounds == MaxId \in Nat /\ MaxEvents \in Nat /\ MaxEvents <= MaxId
               /\ None \notin Id /\ None \notin Quote
BY HandlersAssumption, QuotesAssumption DEF Id

LEMMA QuoteIs ==
    ASSUME NEW q \in Quote
    PROVE  /\ q.id \in Id /\ q.qid \in 1 .. MaxEvents /\ q.text \in Text
           /\ q.accessed \in 0 .. MaxEvents /\ q # None
           /\ Qt!KeysOf(q) = {q.qid} /\ \A d : Qt!DelKeys(d, q) = {q.qid}
<1>1. /\ q.id \in Id /\ q.qid \in 1 .. MaxEvents /\ q.text \in Text
      /\ q.accessed \in 0 .. MaxEvents /\ q # None
  BY Bounds DEF Quote
<1>2. Len(<<q.qid>>) = 1 /\ <<q.qid>>[1] = q.qid
  OBVIOUS
<1>3. Qt!KeysOf(q) = {q.qid}
  BY <1>2 DEF Qt!KeysOf
<1>4. ASSUME NEW d PROVE Qt!DelKeys(d, q) = {q.qid}
  <2>1. Qt!Found(d, q.qid)
    BY <1>1 DEF Qt!Found
  <2> QED BY <1>2, <2>1 DEF Qt!DelKeys
<1> QED BY <1>1, <1>3, <1>4

\* What a quote's Put does: its number points to it, and of the other pointers that of
\* the number it had is gone.
LEMMA PutQuoteIs ==
    ASSUME NEW d \in Qt!Store, NEW q \in Quote
    PROVE  LET e == Qt!PutTx(d, q) IN
           /\ e \in Qt!Store
           /\ e.vals = [d.vals EXCEPT ![q.id] = q]
           /\ \A k \in 1 .. MaxEvents : e.idxs[k] =
                IF k = q.qid THEN q.id
                ELSE IF d.vals[q.id] # None /\ k = d.vals[q.id].qid THEN None
                ELSE d.idxs[k]
<1> DEFINE old == d.vals[q.id]
           b == IF old = None THEN d ELSE Qt!DelIndex(d, old)
           c == Qt!SetValue(b, q.id, q)
           e == Qt!PutIndex(c, q)
<1>1. Qt!PutTx(d, q) = e
  BY QuoteIs DEF Qt!PutTx
<1>2. q.id \in Id /\ q.qid \in 1 .. MaxEvents /\ old \in Quote \cup {None}
  BY QuoteIs DEF Qt!Store
<1>3. /\ b \in Qt!Store /\ b.vals = d.vals
      /\ \A k \in 1 .. MaxEvents : b.idxs[k] =
            IF old # None /\ k = old.qid THEN None ELSE d.idxs[k]
  <2>1. CASE old = None
    BY <2>1
  <2>2. CASE old # None
    <3>1. Qt!DelKeys(d, old) = {old.qid}
      BY <1>2, <2>2, QuoteIs
    <3> QED BY <2>2, <3>1 DEF Qt!Store, Qt!DelIndex
  <2> QED BY <2>1, <2>2
<1> HIDE DEF b
<1>4. c \in Qt!Store /\ c.vals = [d.vals EXCEPT ![q.id] = q] /\ c.idxs = b.idxs
  BY <1>2, <1>3 DEF Qt!Store, Qt!SetValue
<1> HIDE DEF c
<1>5. /\ e \in Qt!Store /\ e.vals = c.vals
      /\ \A k \in 1 .. MaxEvents : e.idxs[k] = IF k = q.qid THEN q.id ELSE c.idxs[k]
  <2> DEFINE x == [k \in 1 .. MaxEvents |-> IF k = q.qid THEN q.id ELSE c.idxs[k]]
             y == c.bkts \cup UNION {[h \in 1 .. MaxEvents |-> {}][k] : k \in {q.qid}}
  <2>1. e = [c EXCEPT !.idxs = x, !.bkts = y]
    BY QuoteIs DEF Qt!PutIndex
  <2>2. x \in [1 .. MaxEvents -> Id \cup {None}]
    BY <1>2, <1>4 DEF Qt!Store
  <2>3. y \subseteq {}
    BY <1>2, <1>4 DEF Qt!Store
  <2>4. \A k \in 1 .. MaxEvents : x[k] = IF k = q.qid THEN q.id ELSE c.idxs[k]
    OBVIOUS
  <2> HIDE DEF x, y
  <2> QED BY <1>4, <2>1, <2>2, <2>3, <2>4 DEF Qt!Store
<1> HIDE DEF e
<1> QED BY <1>1, <1>3, <1>4, <1>5

LEMMA DelQuoteIs ==
    ASSUME NEW d \in Qt!Store, NEW q \in Quote
    PROVE  LET e == Qt!DelTx(d, q) IN
           /\ e \in Qt!Store
           /\ e.vals = [d.vals EXCEPT ![q.id] = None]
           /\ \A k \in 1 .. MaxEvents : e.idxs[k] = IF k = q.qid THEN None ELSE d.idxs[k]
<1> DEFINE c == Qt!SetValue(d, q.id, None)
<1>1. c \in Qt!Store /\ c.vals = [d.vals EXCEPT ![q.id] = None] /\ c.idxs = d.idxs
  BY QuoteIs DEF Qt!Store, Qt!SetValue
<1>2. Qt!DelTx(d, q) = Qt!DelIndex(c, q) /\ Qt!DelKeys(c, q) = {q.qid}
  BY QuoteIs DEF Qt!DelTx
<1> DEFINE x == [k \in 1 .. MaxEvents |-> IF k = q.qid THEN None ELSE c.idxs[k]]
<1> HIDE DEF c
<1>3. Qt!DelTx(d, q) = [c EXCEPT !.idxs = x]
  BY <1>2 DEF Qt!DelIndex
<1>4. x \in [1 .. MaxEvents -> Id \cup {None}]
  BY <1>1 DEF Qt!Store
<1> QED BY <1>1, <1>3, <1>4 DEF Qt!Store

\* A quote as it is stored or as a command holds it: each may be put, or was read.
IsCopy(q) ==
    \/ quotes.vals[q.id] = q
    \/ \E c \in Conn : q \in quoting[c].all \/ q = quoting[c].q

Reads(h) == h.pc \in {"match", "plugin", "put"}
Adds(h) == h.pc \in {"next", "add"}
Waiting == {c \in Conn : quoting[c].pc = "next"}
Reading == {c \in Conn : Reads(quoting[c])}

Command ==
    [pc : {"idle", "next", "add", "find", "del", "match", "plugin", "put"},
     id : 0 .. MaxEvents, arg : Text \cup Regex \cup {None}, qid : 0 .. MaxEvents,
     q : Quote \cup {None}, all : SUBSET Quote]

CommandOK(h) ==
    /\ h \in Command
    /\ Adds(h) => h.arg \in Text /\ h.id \in 1 .. MaxEvents
    /\ h.pc \in {"add", "find"} => h.qid \in 1 .. MaxEvents
    /\ h.pc \in {"del", "put"} <=> h.q # None
    /\ h.all # {} => h.pc \in {"match", "plugin"}

QuotesType ==
    /\ quotes \in Qt!Store
    /\ quoting \in [Conn -> Command] /\ \A c \in Conn : CommandOK(quoting[c])
    /\ asked \in 0 .. MaxEvents /\ qseq \in Nat
    /\ forgot \subseteq Id /\ \A i \in forgot : i <= asked

\* Every number given and every access counted was asked for.
Counted ==
    /\ IsFiniteSet(Waiting) /\ qseq + Cardinality(Waiting) <= asked
    /\ IsFiniteSet(Reading) /\ Cardinality(Reading) <= asked
    /\ \A q \in Quote : IsCopy(q) => q.accessed + Cardinality(Reading) <= asked

\* Numbers and ids are one to one ...
OneToOne ==
    /\ \A q, r \in Quote : IsCopy(q) /\ IsCopy(r) => (q.id = r.id <=> q.qid = r.qid)
    /\ \A q \in Quote : IsCopy(q) => q.id <= asked /\ q.qid <= qseq

\* ... and what is yet to be added has an id and, once it has one, a number of its own.
IdsNew ==
    \A c \in Conn : Adds(quoting[c]) =>
        /\ quoting[c].id <= asked /\ quoting[c].id \notin forgot
        /\ \A q \in Quote : IsCopy(q) => q.id # quoting[c].id
        /\ \A d \in Conn \ {c} : Adds(quoting[d]) => quoting[d].id # quoting[c].id
NumbersNew ==
    \A c \in Conn : quoting[c].pc = "add" =>
        /\ quoting[c].qid <= qseq
        /\ \A q \in Quote : IsCopy(q) => q.qid # quoting[c].qid
        /\ \A d \in Conn \ {c} : quoting[d].pc = "add" => quoting[d].qid # quoting[c].qid

Pointed ==
    \A i \in Id : quotes.vals[i] # None =>
        quotes.vals[i].id = i /\ quotes.idxs[quotes.vals[i].qid] = i

Forgotten ==
    \A i \in forgot \ inHand : quotes.vals[i] = None /\ \A c \in Conn : ~Holds(quoting[c], i)

QuotesInv ==
    QuotesType /\ Counted /\ OneToOne /\ IdsNew /\ NumbersNew /\ Pointed /\ Forgotten

LEMMA NoQuoteOK == CommandOK(NoQuote) /\ ~Adds(NoQuote) /\ ~Reads(NoQuote)
BY Bounds DEF CommandOK, NoQuote, Command, Adds, Reads

LEMMA QuotesStart == QuotesInit => QuotesInv
<1> SUFFICES ASSUME QuotesInit PROVE QuotesInv
  OBVIOUS
<1>1. QuotesType
  BY Bounds, NoQuoteOK DEF QuotesInit, QuotesType, Qt!EmptyStore, Qt!Store, CommandOK
<1>2. \A q \in Quote : ~IsCopy(q)
  BY Bounds, QuoteIs DEF QuotesInit, IsCopy, Qt!EmptyStore, NoQuote
<1>3. Waiting = {} /\ Reading = {}
  BY NoQuoteOK DEF QuotesInit, Waiting, Reading, NoQuote
<1>4. Counted
  BY <1>2, <1>3, FS_EmptySet DEF Counted, QuotesInit
<1>5. IdsNew /\ NumbersNew
  BY NoQuoteOK DEF IdsNew, NumbersNew, QuotesInit, NoQuote
<1> QED BY <1>1, <1>2, <1>4, <1>5 DEF QuotesInv, QuotesInit, OneToOne, Pointed, Forgotten, Qt!EmptyStore

\* A command goes on as h.
Goes(c, h) == \A d \in Conn : quoting'[d] = IF d = c THEN h ELSE quoting[d]

LEMMA GoesIs ==
    ASSUME QuotesType, NEW c \in Conn, NEW h, quoting' = [quoting EXCEPT ![c] = h], CommandOK(h)
    PROVE  /\ Goes(c, h) /\ quoting' \in [Conn -> Command]
           /\ \A d \in Conn : CommandOK(quoting'[d])
BY DEF QuotesType, Goes, CommandOK

\* The commands that wait for a number, and those that have read or are to.
LEMMA WaitingIs ==
    ASSUME NEW c \in Conn, NEW h, Goes(c, h),
           IsFiniteSet(Waiting)
    PROVE  /\ IsFiniteSet(Waiting')
           /\ Cardinality(Waiting') = Cardinality(Waiting)
                + (IF h.pc = "next" THEN 1 ELSE 0) - (IF quoting[c].pc = "next" THEN 1 ELSE 0)
<1>1. Waiting' = IF h.pc = "next" THEN Waiting \cup {c} ELSE Waiting \ {c}
  BY DEF Waiting, Goes
<1>2. c \in Waiting <=> quoting[c].pc = "next"
  BY DEF Waiting
<1>3. Cardinality(Waiting) \in Nat
  BY FS_CardinalityType
<1>4. CASE h.pc = "next"
  BY <1>1, <1>2, <1>3, <1>4, FS_AddElement
<1>5. CASE h.pc # "next"
  BY <1>1, <1>2, <1>3, <1>5, FS_RemoveElement
<1> QED BY <1>4, <1>5

LEMMA ReadingIs ==
    ASSUME NEW c \in Conn, NEW h, Goes(c, h),
           IsFiniteSet(Reading)
    PROVE  /\ IsFiniteSet(Reading')
           /\ Cardinality(Reading') = Cardinality(Reading)
                + (IF Reads(h) THEN 1 ELSE 0) - (IF Reads(quoting[c]) THEN 1 ELSE 0)
<1>1. Reading' = IF Reads(h) THEN Reading \cup {c} ELSE Reading \ {c}
  BY DEF Reading, Goes
<1>2. c \in Reading <=> Reads(quoting[c])
  BY DEF Reading
<1>3. Cardinality(Reading) \in Nat
  BY FS_CardinalityType
<1>4. CASE Reads(h)
  BY <1>1, <1>2, <1>3, <1>4, FS_AddElement
<1>5. CASE ~Reads(h)
  BY <1>1, <1>2, <1>3, <1>5, FS_RemoveElement
<1> QED BY <1>4, <1>5

\* What the copies are after a step: those there were and what the step made.
LEMMA CopiesAre ==
    ASSUME NEW c \in Conn, NEW h, Goes(c, h), NEW x,
           \A q \in Quote : quotes'.vals[q.id] = q => IsCopy(q) \/ q = x,
           \A q \in Quote : q \in h.all \/ q = h.q => IsCopy(q) \/ q = x
    PROVE  \A q \in Quote : IsCopy(q)' => IsCopy(q) \/ q = x
<1> SUFFICES ASSUME NEW q \in Quote, IsCopy(q)', q # x PROVE IsCopy(q)
  OBVIOUS
<1>1. CASE quotes'.vals[q.id] = q
  BY <1>1
<1>2. CASE \E d \in Conn : q \in quoting'[d].all \/ q = quoting'[d].q
  <2>1. PICK d \in Conn : q \in quoting'[d].all \/ q = quoting'[d].q
    BY <1>2
  <2>2. CASE d = c
    BY <2>1, <2>2 DEF Goes
  <2>3. CASE d # c
    BY <2>1, <2>3 DEF Goes, IsCopy
  <2> QED BY <2>2, <2>3
<1> QED BY <1>1, <1>2 DEF IsCopy

\* Steps that leave the collection and the numbers alone and hold nothing new: FindQuote,
\* MatchQuotes and PickQuote.
LEMMA StepReads ==
    ASSUME QuotesInv, NEW c \in Conn, NEW h, quoting' = [quoting EXCEPT ![c] = h],
           CommandOK(h), ~Adds(h), ~Adds(quoting[c]), Reads(h) => Reads(quoting[c]),
           UNCHANGED <<quotes, qseq, asked, forgot, inHand>>,
           \A q \in Quote : q \in h.all \/ q = h.q => IsCopy(q),
           \A i \in forgot \ inHand : ~Holds(h, i)
    PROVE  QuotesInv'
<1>1. Goes(c, h) /\ QuotesType'
  BY GoesIs DEF QuotesInv, QuotesType
<1>2. \A q \in Quote : IsCopy(q)' => IsCopy(q)
  <2>1. \A q \in Quote : IsCopy(q)' => IsCopy(q) \/ q = None
    <3>1. \A q \in Quote : quotes'.vals[q.id] = q => IsCopy(q) \/ q = None
      BY DEF IsCopy
    <3> HIDE DEF Goes
    <3> QED BY <1>1, <3>1, CopiesAre
  <2> QED BY <2>1, Bounds
<1>3. Counted'
  <2>1. IsFiniteSet(Waiting') /\ Cardinality(Waiting') = Cardinality(Waiting)
    BY <1>1, WaitingIs, FS_CardinalityType DEF QuotesInv, Counted, Adds
  <2>2. IsFiniteSet(Reading') /\ Cardinality(Reading') <= Cardinality(Reading)
        /\ Cardinality(Reading') \in Nat /\ Cardinality(Reading) \in Nat
    BY <1>1, ReadingIs, FS_CardinalityType DEF QuotesInv, Counted
  <2>3. \A q \in Quote : q.accessed \in Nat
    BY QuoteIs, Bounds
  <2> QED BY <1>2, <2>1, <2>2, <2>3 DEF QuotesInv, Counted, QuotesType
<1>4. OneToOne'
  BY <1>2 DEF QuotesInv, OneToOne
<1>5. IdsNew' /\ NumbersNew'
  BY <1>1, <1>2 DEF QuotesInv, IdsNew, NumbersNew, Goes, Adds
<1>6. Forgotten'
  BY <1>1 DEF QuotesInv, Forgotten, Goes
<1> QED BY <1>1, <1>3, <1>4, <1>5, <1>6 DEF QuotesInv, Pointed

LEMMA StepFind ==
    ASSUME QuotesInv, NEW c \in Conn, FindQuote(c)
    PROVE  QuotesInv'
<1> DEFINE q == GetByQID(quoting[c].qid)
           h == IF q = None THEN NoQuote ELSE [quoting[c] EXCEPT !.pc = "del", !.q = q]
<1>1. /\ CommandOK(quoting[c]) /\ quoting[c].pc = "find"
      /\ quotes \in Qt!Store /\ quoting[c].qid \in 1 .. MaxEvents
  BY DEF QuotesInv, QuotesType, FindQuote, CommandOK
<1>2. q = None \/ (q \in Quote /\ IsCopy(q))
  <2>1. q = None \/ \E i \in Id : q = quotes.vals[i]
    BY <1>1 DEF GetByQID, Qt!Lookup, Qt!Store
  <2>2. \A i \in Id : quotes.vals[i] # None => quotes.vals[i] \in Quote /\ quotes.vals[i].id = i
    BY <1>1 DEF QuotesInv, Pointed, Qt!Store
  <2> QED BY <2>1, <2>2 DEF IsCopy
<1> HIDE DEF q
<1>3. CommandOK(h) /\ ~Adds(h) /\ ~Reads(h) /\ h.all = {} /\ h.q = q
  <2>1. CASE q = None
    BY <2>1, NoQuoteOK DEF NoQuote
  <2>2. CASE q # None
    BY <1>1, <1>2, <2>2, Bounds DEF CommandOK, Command, Adds, Reads
  <2> QED BY <2>1, <2>2
<1>4. \A i \in forgot \ inHand : ~Holds(h, i)
  BY <1>3 DEF Holds, Reads
<1>5. /\ quoting' = [quoting EXCEPT ![c] = h]
      /\ UNCHANGED <<quotes, qseq, asked, forgot, inHand>>
  BY DEF FindQuote, q
<1>6. ~Adds(quoting[c])
  BY <1>1 DEF Adds
<1>7. \A r \in Quote : r \in h.all \/ r = h.q => IsCopy(r)
  BY <1>2, <1>3, Bounds
<1> HIDE DEF h
<1> QED BY <1>3, <1>4, <1>5, <1>6, <1>7, StepReads

LEMMA StepMatch ==
    ASSUME QuotesInv, NEW c \in Conn, MatchQuotes(c)
    PROVE  QuotesInv'
<1> DEFINE all == {q \in Qt!Stored(quotes) : q.text \in Matches[quoting[c].arg]}
           h == IF all = {} THEN NoQuote ELSE [quoting[c] EXCEPT !.all = all]
<1>1. /\ CommandOK(quoting[c]) /\ quoting[c].pc \in {"match", "plugin"}
      /\ quotes \in Qt!Store
  BY DEF QuotesInv, QuotesType, MatchQuotes
<1>2. \A q \in all : q \in Quote /\ quotes.vals[q.id] = q
  BY <1>1 DEF Qt!Stored, Qt!Store, QuotesInv, Pointed
<1>3. /\ quoting' = [quoting EXCEPT ![c] = h]
      /\ UNCHANGED <<quotes, qseq, asked, forgot, inHand>>
  BY DEF MatchQuotes
<1> HIDE DEF all
<1>4. /\ CommandOK(h) /\ ~Adds(h) /\ h.q = None /\ h.all \subseteq all
      /\ h.pc \in {"idle", "match", "plugin"}
  <2>1. CASE all = {}
    BY <2>1, NoQuoteOK DEF NoQuote
  <2>2. CASE all # {}
    <3>1. all \subseteq Quote
      BY <1>2
    <3> QED BY <1>1, <2>2, <3>1, Bounds DEF CommandOK, Command, Adds
  <2> QED BY <2>1, <2>2
<1>5. \A i \in forgot \ inHand : ~Holds(h, i)
  <2> SUFFICES ASSUME NEW i \in forgot \ inHand, Holds(h, i) PROVE FALSE
    OBVIOUS
  <2>1. PICK q \in all : q.id = i
    BY <1>4 DEF Holds
  <2>2. quotes.vals[i] = None
    BY DEF QuotesInv, Forgotten
  <2> QED BY <1>2, <2>1, <2>2, Bounds
<1>6. \A r \in Quote : r \in h.all \/ r = h.q => IsCopy(r)
  BY <1>2, <1>4, Bounds DEF IsCopy
<1>7. ~Adds(quoting[c]) /\ Reads(quoting[c])
  BY <1>1 DEF Adds, Reads
<1> HIDE DEF h
<1> QED BY <1>3, <1>4, <1>5, <1>6, <1>7, StepReads

LEMMA StepPick ==
    ASSUME QuotesInv, NEW c \in Conn, PickQuote(c)
    PROVE  QuotesInv'
<1>1. /\ CommandOK(quoting[c]) /\ quoting[c].all # {}
      /\ quoting[c].pc \in {"match", "plugin"} /\ quoting[c].all \subseteq Quote
  BY DEF QuotesInv, QuotesType, PickQuote, CommandOK, Command
<1>2. \E h : /\ quoting' = [quoting EXCEPT ![c] = h]
             /\ \/ h = NoQuote
                \/ /\ quoting[c].pc = "match"
                   /\ \E q \in quoting[c].all : h = [NoQuote EXCEPT !.pc = "put", !.q = q]
  BY <1>1 DEF PickQuote
<1>3. PICK h : /\ quoting' = [quoting EXCEPT ![c] = h]
               /\ \/ h = NoQuote
                  \/ /\ quoting[c].pc = "match"
                     /\ \E q \in quoting[c].all : h = [NoQuote EXCEPT !.pc = "put", !.q = q]
  BY <1>2
<1>4. UNCHANGED <<quotes, qseq, asked, forgot, inHand>>
  BY DEF PickQuote
<1>5. ~Adds(quoting[c]) /\ Reads(quoting[c])
  BY <1>1 DEF Adds, Reads
<1>6. CASE h = NoQuote
  <2>1. /\ CommandOK(h) /\ ~Adds(h) /\ h.q = None /\ h.all = {} /\ h.pc = "idle"
    BY <1>6, NoQuoteOK DEF NoQuote
  <2>2. \A i \in forgot \ inHand : ~Holds(h, i)
    BY <2>1 DEF Holds
  <2>3. \A r \in Quote : r \in h.all \/ r = h.q => IsCopy(r)
    BY <2>1, Bounds
  <2> QED BY <1>3, <1>4, <1>5, <2>1, <2>2, <2>3, StepReads
<1>7. CASE h # NoQuote
  <2>1. PICK q \in quoting[c].all : h = [NoQuote EXCEPT !.pc = "put", !.q = q]
    BY <1>3, <1>7
  <2>2. q \in Quote /\ q # None /\ IsCopy(q)
    BY <1>1, Bounds DEF IsCopy
  <2>3. /\ CommandOK(h) /\ ~Adds(h) /\ h.q = q /\ h.all = {} /\ h.pc = "put"
    BY <2>1, <2>2, NoQuoteOK, Bounds DEF NoQuote, CommandOK, Command, Adds
  <2>4. \A i \in forgot \ inHand : ~Holds(h, i)
    BY <1>3, <1>7, <2>3 DEF Holds, QuotesInv, Forgotten
  <2>5. \A r \in Quote : r \in h.all \/ r = h.q => IsCopy(r)
    BY <2>2, <2>3
  <2> QED BY <1>3, <1>4, <1>5, <2>3, <2>4, <2>5, StepReads
<1> QED BY <1>6, <1>7

\* The steps that add, up to the Put.
LEMMA StepAsk ==
    ASSUME QuotesInv, NEW c \in Conn, AskQuote(c)
    PROVE  QuotesInv'
<1>1. \E h : /\ quoting' = [quoting EXCEPT ![c] = h]
             /\ h.q = None /\ h.all = {} /\ CommandOK(h)
             /\ \/ h.pc = "next" /\ h.id = asked + 1
                \/ h.pc \in {"find", "match", "plugin"}
  <2>1. asked + 1 \in 1 .. MaxEvents /\ 0 \in 0 .. MaxEvents
    <3>1. asked \in 0 .. MaxEvents
      BY DEF QuotesInv, QuotesType
    <3>2. asked < MaxEvents
      BY DEF AskQuote
    <3> QED BY <3>1, <3>2, Bounds
  <2>2. CASE \E t \in Text : quoting' = [quoting EXCEPT ![c] =
                          [@ EXCEPT !.pc = "next", !.arg = t, !.id = asked + 1]]
    <3>1. PICK t \in Text : quoting' = [quoting EXCEPT ![c] =
                          [@ EXCEPT !.pc = "next", !.arg = t, !.id = asked + 1]]
      BY <2>2
    <3> DEFINE h == [NoQuote EXCEPT !.pc = "next", !.arg = t, !.id = asked + 1]
    <3>2. quoting' = [quoting EXCEPT ![c] = h]
      BY <3>1 DEF AskQuote
    <3>3. /\ h.pc = "next" /\ h.id = asked + 1 /\ h.arg = t /\ h.qid = 0
          /\ h.q = None /\ h.all = {}
      BY DEF NoQuote
    <3>4. h \in Command
      <4>1. NoQuote \in Command
        BY NoQuoteOK DEF CommandOK
      <4>2. t \in Text \cup Regex \cup {None} /\ asked + 1 \in 0 .. MaxEvents
        BY <2>1, Bounds
      <4> QED BY <4>1, <4>2 DEF Command
    <3>5. h.q = None /\ h.all = {} /\ CommandOK(h) /\ h.pc = "next" /\ h.id = asked + 1
      BY <2>1, <3>3, <3>4, Bounds DEF CommandOK, Adds
    <3> QED BY <3>2, <3>3, <3>5
  <2>3. CASE \E n \in 1 .. MaxEvents :
            quoting' = [quoting EXCEPT ![c] = [@ EXCEPT !.pc = "find", !.qid = n]]
    <3>1. PICK n \in 1 .. MaxEvents :
            quoting' = [quoting EXCEPT ![c] = [@ EXCEPT !.pc = "find", !.qid = n]]
      BY <2>3
    <3> DEFINE h == [NoQuote EXCEPT !.pc = "find", !.qid = n]
    <3>2. quoting' = [quoting EXCEPT ![c] = h]
      BY <3>1 DEF AskQuote
    <3>3. /\ h.pc = "find" /\ h.id = 0 /\ h.arg = None /\ h.qid = n
          /\ h.q = None /\ h.all = {}
      BY DEF NoQuote
    <3>4. h \in Command
      <4>1. NoQuote \in Command
        BY NoQuoteOK DEF CommandOK
      <4>2. n \in 0 .. MaxEvents
        BY <2>1, Bounds
      <4> QED BY <4>1, <4>2 DEF Command
    <3>5. h.q = None /\ h.all = {} /\ CommandOK(h) /\ h.pc = "find"
      BY <2>1, <3>3, <3>4, Bounds DEF CommandOK, Adds
    <3> QED BY <3>2, <3>3, <3>5
  <2>4. CASE \E r \in Regex, pc \in {"match", "plugin"} :
            quoting' = [quoting EXCEPT ![c] = [@ EXCEPT !.pc = pc, !.arg = r]]
    <3>1. PICK r \in Regex, pc \in {"match", "plugin"} :
            quoting' = [quoting EXCEPT ![c] = [@ EXCEPT !.pc = pc, !.arg = r]]
      BY <2>4
    <3> DEFINE h == [NoQuote EXCEPT !.pc = pc, !.arg = r]
    <3>2. quoting' = [quoting EXCEPT ![c] = h]
      BY <3>1 DEF AskQuote
    <3>3. /\ h.pc = pc /\ h.id = 0 /\ h.arg = r /\ h.qid = 0
          /\ h.q = None /\ h.all = {}
      BY DEF NoQuote
    <3>4. h \in Command
      <4>1. NoQuote \in Command
        BY NoQuoteOK DEF CommandOK
      <4>2. r \in Text \cup Regex \cup {None}
        BY <2>1, Bounds
      <4> QED BY <4>1, <4>2 DEF Command
    <3>5. h.q = None /\ h.all = {} /\ CommandOK(h) /\ h.pc \in {"match", "plugin"}
      BY <2>1, <3>3, <3>4, Bounds DEF CommandOK, Adds
    <3> QED BY <3>2, <3>3, <3>5
  <2> QED BY <2>2, <2>3, <2>4 DEF AskQuote
<1>2. PICK h : /\ quoting' = [quoting EXCEPT ![c] = h]
               /\ h.q = None /\ h.all = {} /\ CommandOK(h)
               /\ \/ h.pc = "next" /\ h.id = asked + 1
                  \/ h.pc \in {"find", "match", "plugin"}
  BY <1>1
<1>3. /\ quoting[c] = NoQuote /\ asked' = asked + 1 /\ asked < MaxEvents
      /\ UNCHANGED <<quotes, qseq, forgot, inHand>>
  BY DEF AskQuote
<1>4. Goes(c, h) /\ QuotesType'
  <2>1. QuotesType
    BY DEF QuotesInv
  <2>2. /\ Goes(c, h) /\ quoting' \in [Conn -> Command]
        /\ \A d \in Conn : CommandOK(quoting'[d])
    BY <1>2, <2>1, GoesIs
  <2>3. asked' \in 0 .. MaxEvents /\ \A i \in forgot : i <= asked'
    <3>1. asked \in Nat /\ MaxEvents \in Nat /\ \A i \in forgot : i \in Nat /\ i <= asked
      BY <2>1, Bounds DEF QuotesType, Id
    <3> QED BY <1>3, <3>1
  <2> QED BY <1>3, <2>1, <2>2, <2>3 DEF QuotesType
<1>5. \A q \in Quote : IsCopy(q)' => IsCopy(q)
  <2>1. \A q \in Quote : quotes'.vals[q.id] = q => IsCopy(q) \/ q = None
    BY <1>3 DEF IsCopy
  <2>2. \A q \in Quote : q \in h.all \/ q = h.q => IsCopy(q) \/ q = None
    BY <1>2
  <2>3. \A q \in Quote : IsCopy(q)' => IsCopy(q) \/ q = None
    BY <1>4, <2>1, <2>2, CopiesAre
  <2> QED BY <2>3, Bounds
<1>6. Counted'
  <2>1. /\ IsFiniteSet(Waiting') /\ Cardinality(Waiting') <= Cardinality(Waiting) + 1
        /\ Cardinality(Waiting) \in Nat /\ Cardinality(Waiting') \in Nat
    BY <1>3, <1>4, WaitingIs, FS_CardinalityType DEF QuotesInv, Counted, NoQuote
  <2>2. IsFiniteSet(Reading') /\ Cardinality(Reading') <= Cardinality(Reading) + 1
        /\ Cardinality(Reading') \in Nat /\ Cardinality(Reading) \in Nat
    BY <1>3, <1>4, ReadingIs, FS_CardinalityType, NoQuoteOK DEF QuotesInv, Counted
  <2>3. \A q \in Quote : q.accessed \in Nat
    BY QuoteIs, Bounds
  <2> QED BY <1>3, <1>5, <2>1, <2>2, <2>3 DEF QuotesInv, Counted, QuotesType
<1>7. \A q \in Quote : q.id \in Nat /\ q.qid \in Nat
  BY QuoteIs DEF Id
<1>8. OneToOne'
  BY <1>3, <1>5, <1>7 DEF QuotesInv, OneToOne, QuotesType
<1>9. IdsNew'
  <2>1. \A d \in Conn : Adds(quoting[d]) => quoting[d].id \in Nat
    BY DEF QuotesInv, QuotesType, CommandOK
  <2>2. asked \in Nat /\ asked' = asked + 1 /\ asked + 1 \notin forgot
    BY <1>3 DEF QuotesInv, QuotesType
  <2>3. \A q \in Quote : IsCopy(q)' => q.id <= asked
    BY <1>5 DEF QuotesInv, OneToOne
  <2>4. Adds(h) => h.id = asked + 1
    BY <1>2 DEF Adds
  <2>5. \A d \in Conn : Adds(quoting[d]) =>
            /\ quoting[d].id <= asked /\ quoting[d].id \notin forgot
            /\ \A q \in Quote : IsCopy(q)' => q.id # quoting[d].id
            /\ \A e \in Conn \ {d} : Adds(quoting[e]) => quoting[e].id # quoting[d].id
    BY <1>5 DEF QuotesInv, IdsNew
  <2>6. forgot' = forgot
    BY <1>3
  <2>7. \A d \in Conn : quoting'[d] = IF d = c THEN h ELSE quoting[d]
    BY <1>4 DEF Goes
  <2> QED BY <1>7, <2>1, <2>2, <2>3, <2>4, <2>5, <2>6, <2>7 DEF IdsNew
<1>10. NumbersNew'
  BY <1>2, <1>3, <1>4, <1>5 DEF QuotesInv, NumbersNew, Goes
<1>11. Forgotten'
  BY <1>2, <1>3, <1>4 DEF QuotesInv, Forgotten, Goes, Holds
<1>12. Pointed'
  BY <1>3 DEF QuotesInv, Pointed
<1> QED BY <1>4, <1>6, <1>8, <1>9, <1>10, <1>11, <1>12 DEF QuotesInv

LEMMA StepNewQID ==
    ASSUME QuotesInv, NEW c \in Conn, NewQID(c)
    PROVE  QuotesInv'
<1> DEFINE h == [quoting[c] EXCEPT !.pc = "add", !.qid = qseq + 1]
<1>1. /\ quoting' = [quoting EXCEPT ![c] = h] /\ qseq' = qseq + 1
      /\ UNCHANGED <<quotes, asked, forgot, inHand>> /\ quoting[c].pc = "next"
  BY DEF NewQID
<1>2. /\ CommandOK(quoting[c]) /\ quoting[c].q = None /\ quoting[c].all = {}
      /\ quoting[c].id \in 1 .. MaxEvents /\ quoting[c].arg \in Text
  BY <1>1 DEF QuotesInv, QuotesType, CommandOK, Adds
<1>3. /\ Cardinality(Waiting) \in Nat /\ Cardinality(Waiting) # 0
      /\ qseq + Cardinality(Waiting) <= asked /\ asked \in 0 .. MaxEvents /\ qseq \in Nat
  <2>1. c \in Waiting /\ IsFiniteSet(Waiting)
    BY <1>1 DEF Waiting, QuotesInv, Counted
  <2> QED BY <2>1, FS_CardinalityType, FS_EmptySet DEF QuotesInv, Counted, QuotesType
<1>4. qseq + 1 \in 1 .. MaxEvents
  BY <1>3, Bounds
<1>5. h \in Command
  <2>1. quoting[c] \in Command /\ qseq + 1 \in 0 .. MaxEvents
    BY <1>2, <1>4 DEF CommandOK
  <2> QED BY <2>1 DEF Command
<1>6. /\ h.pc = "add" /\ h.q = None /\ h.all = {} /\ h.id = quoting[c].id
      /\ h.arg = quoting[c].arg /\ h.qid = qseq + 1
  BY <1>2 DEF CommandOK, Command
<1>7. CommandOK(h)
  BY <1>2, <1>4, <1>5, <1>6 DEF CommandOK
<1> HIDE DEF h
<1>8. Goes(c, h) /\ QuotesType'
  <2>1. QuotesType
    BY DEF QuotesInv
  <2>2. /\ Goes(c, h) /\ quoting' \in [Conn -> Command]
        /\ \A d \in Conn : CommandOK(quoting'[d])
    BY <1>1, <1>7, <2>1, GoesIs
  <2> QED BY <1>1, <2>1, <2>2 DEF QuotesType
<1>9. \A q \in Quote : IsCopy(q)' => IsCopy(q)
  <2>1. \A q \in Quote : quotes'.vals[q.id] = q => IsCopy(q) \/ q = None
    BY <1>1 DEF IsCopy
  <2>2. \A q \in Quote : q \in h.all \/ q = h.q => IsCopy(q) \/ q = None
    BY <1>6
  <2>3. \A q \in Quote : IsCopy(q)' => IsCopy(q) \/ q = None
    BY <1>8, <2>1, <2>2, CopiesAre
  <2> QED BY <2>3, Bounds
<1>10. Counted'
  <2>1. /\ IsFiniteSet(Waiting') /\ Cardinality(Waiting') = Cardinality(Waiting) - 1
    BY <1>1, <1>3, <1>6, <1>8, WaitingIs DEF QuotesInv, Counted
  <2>2. IsFiniteSet(Reading') /\ Cardinality(Reading') = Cardinality(Reading)
    BY <1>1, <1>6, <1>8, ReadingIs, FS_CardinalityType DEF QuotesInv, Counted, Reads
  <2> QED BY <1>1, <1>3, <1>9, <2>1, <2>2 DEF QuotesInv, Counted
<1>11. \A q \in Quote : q.id \in Nat /\ q.qid \in Nat
  BY QuoteIs DEF Id
<1>12. OneToOne'
  BY <1>1, <1>3, <1>9, <1>11 DEF QuotesInv, OneToOne
<1>13. IdsNew'
  BY <1>1, <1>6, <1>8, <1>9 DEF QuotesInv, IdsNew, Goes, Adds
<1>14. NumbersNew'
  <2>1. \A d \in Conn : quoting[d].pc = "add" => quoting[d].qid \in Nat
    BY DEF QuotesInv, QuotesType, CommandOK
  <2>2. \A q \in Quote : IsCopy(q)' => q.qid <= qseq
    BY <1>9 DEF QuotesInv, OneToOne
  <2>3. \A d \in Conn : quoting[d].pc = "add" =>
            /\ quoting[d].qid <= qseq
            /\ \A q \in Quote : IsCopy(q)' => q.qid # quoting[d].qid
            /\ \A e \in Conn \ {d} : quoting[e].pc = "add" => quoting[e].qid # quoting[d].qid
    BY <1>9 DEF QuotesInv, NumbersNew
  <2>4. \A d \in Conn : quoting'[d] = IF d = c THEN h ELSE quoting[d]
    BY <1>8 DEF Goes
  <2> QED BY <1>1, <1>3, <1>6, <1>11, <2>1, <2>2, <2>3, <2>4 DEF NumbersNew
<1>15. Forgotten'
  BY <1>1, <1>6, <1>8 DEF QuotesInv, Forgotten, Goes, Holds
<1>16. Pointed'
  BY <1>1 DEF QuotesInv, Pointed
<1> QED BY <1>8, <1>10, <1>12, <1>13, <1>14, <1>15, <1>16 DEF QuotesInv

\* The steps that write: after each the command is done.
LEMMA StepAdd ==
    ASSUME QuotesInv, NEW c \in Conn, AddQuote(c)
    PROVE  QuotesInv'
<1> DEFINE x == [id |-> quoting[c].id, qid |-> quoting[c].qid, text |-> quoting[c].arg,
                 accessed |-> 0]
<1>1. /\ quoting' = [quoting EXCEPT ![c] = NoQuote] /\ quotes' = Qt!PutTx(quotes, x)
      /\ UNCHANGED <<qseq, asked, forgot, inHand>> /\ quoting[c].pc = "add"
  BY DEF AddQuote
<1>2. /\ x \in Quote /\ x.id = quoting[c].id /\ x.qid = quoting[c].qid /\ x.accessed = 0
  <2>1. /\ quoting[c].id \in 1 .. MaxEvents /\ quoting[c].qid \in 1 .. MaxEvents
        /\ quoting[c].arg \in Text
    BY <1>1 DEF QuotesInv, QuotesType, CommandOK, Adds
  <2>2. quoting[c].id \in Id /\ 0 \in 0 .. MaxEvents
    BY <2>1, Bounds DEF Id
  <2> QED BY <2>1, <2>2 DEF Quote
<1> HIDE DEF x
<1>3. /\ quotes' \in Qt!Store /\ quotes'.vals = [quotes.vals EXCEPT ![x.id] = x]
      /\ \A k \in 1 .. MaxEvents : quotes'.idxs[k] =
            IF k = x.qid THEN x.id
            ELSE IF quotes.vals[x.id] # None /\ k = quotes.vals[x.id].qid THEN None
            ELSE quotes.idxs[k]
  <2>1. quotes \in Qt!Store
    BY DEF QuotesInv, QuotesType
  <2> QED BY <1>1, <1>2, <2>1, PutQuoteIs
<1>4. Goes(c, NoQuote) /\ QuotesType'
  <2>1. QuotesType
    BY DEF QuotesInv
  <2>2. /\ Goes(c, NoQuote) /\ quoting' \in [Conn -> Command]
        /\ \A d \in Conn : CommandOK(quoting'[d])
    BY <1>1, <2>1, NoQuoteOK, GoesIs
  <2> QED BY <1>1, <1>3, <2>1, <2>2 DEF QuotesType
<1>5. \A i \in Id : quotes'.vals[i] = IF i = x.id THEN x ELSE quotes.vals[i]
  BY <1>3, <1>2, QuoteIs DEF QuotesInv, QuotesType, Qt!Store
<1>6. \A q \in Quote : IsCopy(q)' => IsCopy(q) \/ q = x
  <2>1. \A q \in Quote : quotes'.vals[q.id] = q => IsCopy(q) \/ q = x
    BY <1>5, QuoteIs DEF IsCopy
  <2>2. \A q \in Quote : q \in NoQuote.all \/ q = NoQuote.q => IsCopy(q) \/ q = x
    BY Bounds DEF NoQuote
  <2> QED BY <1>4, <2>1, <2>2, CopiesAre
<1>7. /\ x.id <= asked /\ x.id \notin forgot /\ x.qid <= qseq
      /\ \A q \in Quote : IsCopy(q) => q.id # x.id /\ q.qid # x.qid
      /\ \A d \in Conn \ {c} : /\ Adds(quoting[d]) => quoting[d].id # x.id
                               /\ quoting[d].pc = "add" => quoting[d].qid # x.qid
  BY <1>1, <1>2 DEF QuotesInv, IdsNew, NumbersNew, Adds
<1>8. quotes.vals[x.id] = None
  <2>1. quotes.vals[x.id] \in Quote \cup {None}
    BY <1>2, QuoteIs DEF QuotesInv, QuotesType, Qt!Store
  <2>2. quotes.vals[x.id] # None => quotes.vals[x.id].id = x.id
    BY <1>2, QuoteIs DEF QuotesInv, Pointed
  <2> QED BY <1>7, <2>1, <2>2 DEF IsCopy
<1>9. Counted'
  <2>1. IsFiniteSet(Waiting') /\ Cardinality(Waiting') = Cardinality(Waiting)
    BY <1>1, <1>4, WaitingIs, FS_CardinalityType DEF QuotesInv, Counted, NoQuote
  <2>2. IsFiniteSet(Reading') /\ Cardinality(Reading') = Cardinality(Reading)
    BY <1>1, <1>4, ReadingIs, FS_CardinalityType, NoQuoteOK DEF QuotesInv, Counted, Reads
  <2>3. Cardinality(Reading) <= asked
    BY DEF QuotesInv, Counted
  <2>4. Cardinality(Reading) \in Nat
    BY FS_CardinalityType DEF QuotesInv, Counted
  <2> QED BY <1>1, <1>2, <1>6, <2>1, <2>2, <2>3, <2>4 DEF QuotesInv, Counted
<1>10. OneToOne'
  BY <1>1, <1>6, <1>7 DEF QuotesInv, OneToOne
<1>11. IdsNew' /\ NumbersNew'
  BY <1>1, <1>4, <1>6, <1>7, NoQuoteOK DEF QuotesInv, IdsNew, NumbersNew, Goes, Adds
<1>12. Pointed'
  <2> SUFFICES ASSUME NEW i \in Id, quotes'.vals[i] # None
               PROVE  quotes'.vals[i].id = i /\ quotes'.idxs[quotes'.vals[i].qid] = i
    BY DEF Pointed
  <2>1. CASE i = x.id
    BY <1>2, <1>3, <1>5, <2>1, QuoteIs
  <2>2. CASE i # x.id
    <3> DEFINE v == quotes.vals[i]
    <3>1. quotes'.vals[i] = v /\ v \in Quote /\ v.id = i /\ quotes.idxs[v.qid] = i
      BY <1>5, <2>2 DEF QuotesInv, QuotesType, Pointed, Qt!Store
    <3>2. v.qid # x.qid /\ v.qid \in 1 .. MaxEvents
      BY <1>7, <3>1, QuoteIs DEF IsCopy
    <3> QED BY <1>3, <1>8, <3>1, <3>2
  <2> QED BY <2>1, <2>2
<1>13. Forgotten'
  <2>1. \A i \in forgot : i # x.id /\ i \in Id
    BY <1>7 DEF QuotesInv, QuotesType
  <2>2. \A i : ~Holds(NoQuote, i)
    BY DEF Holds, NoQuote
  <2> QED BY <1>1, <1>4, <1>5, <2>1, <2>2 DEF QuotesInv, Forgotten, Goes
<1> QED BY <1>4, <1>9, <1>10, <1>11, <1>12, <1>13 DEF QuotesInv

LEMMA StepDel ==
    ASSUME QuotesInv, NEW c \in Conn, DelQuote(c)
    PROVE  QuotesInv'
<1> DEFINE x == quoting[c].q
<1>1. /\ quoting' = [quoting EXCEPT ![c] = NoQuote] /\ quotes' = Qt!DelTx(quotes, x)
      /\ forgot' = forgot \cup {x.id}
      /\ inHand' = IF \E d \in Conn : Holds(quoting[d], x.id) THEN inHand \cup {x.id} ELSE inHand
      /\ UNCHANGED <<qseq, asked>> /\ quoting[c].pc = "del"
  BY DEF DelQuote
<1>2. x \in Quote /\ IsCopy(x)
  BY <1>1 DEF QuotesInv, QuotesType, CommandOK, Command, IsCopy
<1> HIDE DEF x
<1>3. /\ quotes' \in Qt!Store /\ quotes'.vals = [quotes.vals EXCEPT ![x.id] = None]
      /\ \A k \in 1 .. MaxEvents :
            quotes'.idxs[k] = IF k = x.qid THEN None ELSE quotes.idxs[k]
  <2>1. quotes \in Qt!Store
    BY DEF QuotesInv, QuotesType
  <2> QED BY <1>1, <1>2, <2>1, DelQuoteIs
<1>4. Goes(c, NoQuote) /\ QuotesType'
  <2>1. QuotesType
    BY DEF QuotesInv
  <2>2. /\ Goes(c, NoQuote) /\ quoting' \in [Conn -> Command]
        /\ \A d \in Conn : CommandOK(quoting'[d])
    BY <1>1, <2>1, NoQuoteOK, GoesIs
  <2>3. x.id \in Id /\ x.id <= asked
    BY <1>2, QuoteIs DEF QuotesInv, OneToOne
  <2> QED BY <1>1, <1>3, <2>1, <2>2, <2>3 DEF QuotesType
<1>5. \A i \in Id : quotes'.vals[i] = IF i = x.id THEN None ELSE quotes.vals[i]
  BY <1>3, <1>2, QuoteIs DEF QuotesInv, QuotesType, Qt!Store
<1>6. \A q \in Quote : IsCopy(q)' => IsCopy(q)
  <2>1. \A q \in Quote : quotes'.vals[q.id] = q => IsCopy(q) \/ q = None
    BY <1>5, QuoteIs DEF IsCopy
  <2>2. \A q \in Quote : q \in NoQuote.all \/ q = NoQuote.q => IsCopy(q) \/ q = None
    BY Bounds DEF NoQuote
  <2>3. \A q \in Quote : IsCopy(q)' => IsCopy(q) \/ q = None
    BY <1>4, <2>1, <2>2, CopiesAre
  <2> QED BY <2>3, Bounds
<1>7. \A q \in Quote : IsCopy(q) => (q.id = x.id <=> q.qid = x.qid)
  BY <1>2 DEF QuotesInv, OneToOne
<1>8. Counted'
  <2>1. IsFiniteSet(Waiting') /\ Cardinality(Waiting') = Cardinality(Waiting)
    BY <1>1, <1>4, WaitingIs, FS_CardinalityType DEF QuotesInv, Counted, NoQuote
  <2>2. IsFiniteSet(Reading') /\ Cardinality(Reading') = Cardinality(Reading)
    BY <1>1, <1>4, ReadingIs, FS_CardinalityType, NoQuoteOK DEF QuotesInv, Counted, Reads
  <2> QED BY <1>1, <1>6, <2>1, <2>2 DEF QuotesInv, Counted
<1>9. OneToOne'
  BY <1>1, <1>6 DEF QuotesInv, OneToOne
<1>10. IdsNew' /\ NumbersNew'
  <2>1. \A d \in Conn : Adds(quoting[d]) => quoting[d].id # x.id
    BY <1>2 DEF QuotesInv, IdsNew
  <2> QED BY <1>1, <1>4, <1>6, <2>1, NoQuoteOK DEF QuotesInv, IdsNew, NumbersNew, Goes, Adds
<1>11. Pointed'
  <2> SUFFICES ASSUME NEW i \in Id, quotes'.vals[i] # None
               PROVE  quotes'.vals[i].id = i /\ quotes'.idxs[quotes'.vals[i].qid] = i
    BY DEF Pointed
  <2> DEFINE v == quotes.vals[i]
  <2>1. quotes'.vals[i] = v /\ i # x.id /\ v \in Quote /\ v.id = i /\ quotes.idxs[v.qid] = i
    BY <1>5 DEF QuotesInv, QuotesType, Pointed, Qt!Store
  <2>2. v.qid # x.qid /\ v.qid \in 1 .. MaxEvents
    BY <1>7, <2>1, QuoteIs DEF IsCopy
  <2> QED BY <1>3, <2>1, <2>2
<1>12. Forgotten'
  <2>1. \A i : ~Holds(NoQuote, i)
    BY DEF Holds, NoQuote
  <2>2. \A i \in forgot' \ inHand' : i \in Id
    BY <1>4 DEF QuotesType
  <2>3. \A i \in forgot' \ inHand' : i = x.id =>
            \A d \in Conn : ~Holds(quoting[d], i)
    BY <1>1
  <2>4. \A i \in forgot' \ inHand' : i # x.id => i \in forgot \ inHand
    BY <1>1
  <2> QED BY <1>4, <1>5, <2>1, <2>2, <2>3, <2>4 DEF QuotesInv, Forgotten, Goes
<1> QED BY <1>4, <1>8, <1>9, <1>10, <1>11, <1>12 DEF QuotesInv

LEMMA StepCount ==
    ASSUME QuotesInv, NEW c \in Conn, CountAccess(c)
    PROVE  QuotesInv'
<1> DEFINE y == quoting[c].q
           x == [y EXCEPT !.accessed = @ + 1]
<1>1. /\ quoting' = [quoting EXCEPT ![c] = NoQuote] /\ quotes' = Qt!PutTx(quotes, x)
      /\ UNCHANGED <<qseq, asked, forgot, inHand>> /\ quoting[c].pc = "put"
  BY DEF CountAccess
<1>2. y \in Quote /\ IsCopy(y)
  BY <1>1 DEF QuotesInv, QuotesType, CommandOK, Command, IsCopy
<1>3. Cardinality(Reading) \in Nat \ {0} /\ y.accessed + Cardinality(Reading) <= asked
  <2>1. c \in Reading /\ IsFiniteSet(Reading)
    BY <1>1 DEF Reading, Reads, QuotesInv, Counted
  <2> QED BY <1>2, <2>1, FS_CardinalityType, FS_EmptySet DEF QuotesInv, Counted
<1>4. Holds(quoting[c], y.id)
  BY <1>1 DEF Holds
<1> HIDE DEF y
<1>5. x \in Quote /\ x.id = y.id /\ x.qid = y.qid /\ x.accessed = y.accessed + 1
  <2>1. y.accessed + 1 \in 0 .. MaxEvents
    <3>1. asked <= MaxEvents /\ asked \in Nat /\ y.accessed \in Nat
      BY <1>2, QuoteIs, Bounds DEF QuotesInv, QuotesType
    <3> QED BY <1>3, <3>1, Bounds
  <2> QED BY <1>2, <2>1 DEF Quote
<1> HIDE DEF x
<1>6. /\ quotes' \in Qt!Store /\ quotes'.vals = [quotes.vals EXCEPT ![x.id] = x]
      /\ \A k \in 1 .. MaxEvents : quotes'.idxs[k] =
            IF k = x.qid THEN x.id
            ELSE IF quotes.vals[x.id] # None /\ k = quotes.vals[x.id].qid THEN None
            ELSE quotes.idxs[k]
  <2>1. quotes \in Qt!Store
    BY DEF QuotesInv, QuotesType
  <2> QED BY <1>1, <1>5, <2>1, PutQuoteIs
<1>7. Goes(c, NoQuote) /\ QuotesType'
  <2>1. QuotesType
    BY DEF QuotesInv
  <2>2. /\ Goes(c, NoQuote) /\ quoting' \in [Conn -> Command]
        /\ \A d \in Conn : CommandOK(quoting'[d])
    BY <1>1, <2>1, NoQuoteOK, GoesIs
  <2> QED BY <1>1, <1>6, <2>1, <2>2 DEF QuotesType
<1>8. \A i \in Id : quotes'.vals[i] = IF i = x.id THEN x ELSE quotes.vals[i]
  BY <1>5, <1>6, QuoteIs DEF QuotesInv, QuotesType, Qt!Store
<1>9. \A q \in Quote : IsCopy(q)' => IsCopy(q) \/ q = x
  <2>1. \A q \in Quote : quotes'.vals[q.id] = q => IsCopy(q) \/ q = x
    BY <1>8, QuoteIs DEF IsCopy
  <2>2. \A q \in Quote : q \in NoQuote.all \/ q = NoQuote.q => IsCopy(q) \/ q = x
    BY Bounds DEF NoQuote
  <2> QED BY <1>7, <2>1, <2>2, CopiesAre
\* It has the id and the number of the quote that was read.
<1>10. \A q \in Quote : IsCopy(q)' =>
            \E r \in Quote : IsCopy(r) /\ r.id = q.id /\ r.qid = q.qid
  BY <1>2, <1>5, <1>9
<1>11. Counted'
  <2>1. IsFiniteSet(Waiting') /\ Cardinality(Waiting') = Cardinality(Waiting)
    BY <1>1, <1>7, WaitingIs, FS_CardinalityType DEF QuotesInv, Counted, NoQuote
  <2>2. IsFiniteSet(Reading') /\ Cardinality(Reading') = Cardinality(Reading) - 1
    BY <1>1, <1>3, <1>7, ReadingIs, NoQuoteOK DEF QuotesInv, Counted, Reads
  <2>3. asked \in Nat /\ \A q \in Quote : q.accessed \in Nat
    BY QuoteIs, Bounds DEF QuotesInv, QuotesType
  <2>4. \A q \in Quote : IsCopy(q)' => q.accessed + Cardinality(Reading') <= asked
    BY <1>2, <1>3, <1>5, <1>9, <2>2, <2>3 DEF QuotesInv, Counted
  <2> QED BY <1>1, <1>3, <2>1, <2>2, <2>3, <2>4 DEF QuotesInv, Counted
<1>12. OneToOne'
  <2> SUFFICES ASSUME NEW q \in Quote, NEW r \in Quote, IsCopy(q)', IsCopy(r)'
               PROVE  (q.id = r.id <=> q.qid = r.qid) /\ q.id <= asked /\ q.qid <= qseq
    BY <1>1 DEF OneToOne
  <2>1. PICK s \in Quote : IsCopy(s) /\ s.id = q.id /\ s.qid = q.qid
    BY <1>10
  <2>2. PICK t \in Quote : IsCopy(t) /\ t.id = r.id /\ t.qid = r.qid
    BY <1>10
  <2> QED BY <2>1, <2>2 DEF QuotesInv, OneToOne
<1>13. IdsNew' /\ NumbersNew'
  <2>1. \A d \in Conn : Adds(quoting[d]) =>
            \A q \in Quote : IsCopy(q)' => q.id # quoting[d].id
    BY <1>10 DEF QuotesInv, IdsNew
  <2>2. \A d \in Conn : quoting[d].pc = "add" =>
            \A q \in Quote : IsCopy(q)' => q.qid # quoting[d].qid
    BY <1>10 DEF QuotesInv, NumbersNew
  <2> QED BY <1>1, <1>7, <2>1, <2>2, NoQuoteOK DEF QuotesInv, IdsNew, NumbersNew, Goes, Adds
<1>14. Pointed'
  <2> SUFFICES ASSUME NEW i \in Id, quotes'.vals[i] # None
               PROVE  quotes'.vals[i].id = i /\ quotes'.idxs[quotes'.vals[i].qid] = i
    BY DEF Pointed
  <2>1. CASE i = x.id
    BY <1>5, <1>6, <1>8, <2>1, QuoteIs
  <2>2. CASE i # x.id
    <3> DEFINE v == quotes.vals[i]
               o == quotes.vals[x.id]
    <3>1. quotes'.vals[i] = v /\ v \in Quote /\ v.id = i /\ quotes.idxs[v.qid] = i
      BY <1>8, <2>2 DEF QuotesInv, QuotesType, Pointed, Qt!Store
    <3>2. v.qid # x.qid /\ v.qid \in 1 .. MaxEvents
      BY <1>2, <1>5, <2>2, <3>1, QuoteIs DEF IsCopy, QuotesInv, OneToOne
    <3>3. o # None => v.qid # o.qid
      <4> SUFFICES ASSUME o # None PROVE v.qid # o.qid
        OBVIOUS
      <4>1. o \in Quote /\ o.id = x.id
        BY <1>5, QuoteIs DEF QuotesInv, QuotesType, Pointed, Qt!Store
      <4> QED BY <2>2, <3>1, <4>1 DEF IsCopy, QuotesInv, OneToOne
    <3> QED BY <1>6, <3>1, <3>2, <3>3
  <2> QED BY <2>1, <2>2
<1>15. Forgotten'
  <2>1. \A i \in forgot \ inHand : i # x.id /\ i \in Id
    BY <1>4, <1>5 DEF QuotesInv, QuotesType, Forgotten
  <2>2. \A i : ~Holds(NoQuote, i)
    BY DEF Holds, NoQuote
  <2> QED BY <1>1, <1>7, <1>8, <2>1, <2>2 DEF QuotesInv, Forgotten, Goes
<1> QED BY <1>7, <1>11, <1>12, <1>13, <1>14, <1>15 DEF QuotesInv

LEMMA StepQuotes == QuotesInv /\ [QuotesNext]_quotesVars => QuotesInv'
<1> SUFFICES ASSUME QuotesInv, [QuotesNext]_quotesVars PROVE QuotesInv'
  OBVIOUS
<1>1. CASE QuotesNext
  BY <1>1, StepAsk, StepNewQID, StepAdd, StepFind, StepDel, StepMatch, StepPick, StepCount
     DEF QuotesNext
<1>2. CASE UNCHANGED quotesVars
  <2>1. Waiting' = Waiting /\ Reading' = Reading /\ \A q \in Quote : IsCopy(q)' <=> IsCopy(q)
    BY <1>2 DEF quotesVars, Waiting, Reading, IsCopy
  <2> QED BY <1>2, <2>1 DEF quotesVars, QuotesInv, QuotesType, Counted, OneToOne, IdsNew,
                            NumbersNew, Pointed, Forgotten
<1> QED BY <1>1, <1>2

\* However the commands of connections cross, a number names one quote, which is found by
\* it, and a quote that was forgotten and that no lookup held stays so.
THEOREM QuotesStay == QuotesSpec => []DeletedStays
<1>1. QuotesInv => DeletedStays
  <2> SUFFICES ASSUME QuotesInv PROVE DeletedStays
    OBVIOUS
  <2>1. ASSUME NEW q \in Qt!Stored(quotes) PROVE GetByQID(q.qid) = q
    <3>1. PICK i \in Id : q = quotes.vals[i] /\ q # None
      BY DEF Qt!Stored
    <3>2. q \in Quote /\ quotes.idxs[q.qid] = i
      BY <3>1 DEF QuotesInv, QuotesType, Pointed, Qt!Store
    <3>3. q.qid \in 1 .. MaxEvents /\ i # None
      BY <3>2, QuoteIs, Bounds
    <3> QED BY <3>1, <3>2, <3>3 DEF GetByQID, Qt!Lookup, Qt!Found
  <2> QED BY <2>1 DEF DeletedStays, QuotesInv, Forgotten
<1> QED BY <1>1, QuotesStart, StepQuotes, PTL DEF QuotesSpec

-----------------------------------------------------------------------------
(* Markov chains. *)

\* A line that is being learnt is on the way: what is left of it follows its source in it.
OnTheWay(h) ==
    \E s \in Sentences : \E i \in 1 .. Len(s) :
        /\ h.source = s[i] /\ Len(h.left) = Len(s) - i
        /\ \A k \in 1 .. Len(h.left) : h.left[k] = s[i + k]

\* What Going says, told of the lines that are on the way alone, and of no URL.
Leads(t, w) ==
    /\ w \notin UrlWord
    /\ \/ \E d \in Word \cup {End} : uses[<<t, w, d>>] > 0
       \/ w \in BesideUrl
       \/ \E c \in Conn : /\ chains[c].pc = "add" /\ chains[c].tag = t
                          /\ chains[c].source = w /\ OnTheWay(chains[c])

Chain == [pc : {"idle", "add", "clear", "walk"}, tag : Tag \cup {None},
          source : Word \cup Start \cup {None}, left : Seq(Word), out : Nat, cut : BOOLEAN]

ChainOK(h) ==
    /\ h \in Chain
    /\ h.pc = "add" => /\ h.tag \in Tag /\ h.source \in Word \cup Start
                       /\ OnTheWay(h) \/ h.left \in Sentences
    /\ h.pc = "walk" => h.tag \in Tag /\ h.source \in Word \cup Start

MarkovType ==
    /\ uses \in [Link -> Nat] /\ markov \subseteq Nick
    /\ chains \in [Conn -> Chain] /\ \A c \in Conn : ChainOK(chains[c])

LinksLead == \A l \in Link : uses[l] > 0 /\ l[3] # End => Leads(l[1], l[3])
WalksLead ==
    \A c \in Conn : chains[c].pc = "walk" /\ ~chains[c].cut /\ chains[c].out > 0 =>
        Leads(chains[c].tag, chains[c].source)

\* Of who is not enabled nothing is left or learnt, unless it is about to be deleted.
Cleared ==
    \A n \in Nick \ (markov \cup outlived) :
        \/ \E c \in Conn : chains[c].pc = "clear" /\ chains[c].tag = n
        \/ /\ \A l \in Link : l[1] = n => uses[l] = 0
           /\ \A c \in Conn : ~(chains[c].pc = "add" /\ chains[c].tag = n)

MarkovInv == MarkovType /\ LinksLead /\ WalksLead /\ Cleared

LEMMA QuietOK == ChainOK(Quiet) /\ Quiet.pc = "idle"
<1>1. <<>> \in Seq(Word)
  OBVIOUS
<1> QED BY <1>1 DEF ChainOK, Quiet, Chain

LEMMA MarkovStart == MarkovInit => MarkovInv
<1> SUFFICES ASSUME MarkovInit PROVE MarkovInv
  OBVIOUS
<1>1. MarkovType
  BY QuietOK DEF MarkovInit, MarkovType, ChainOK
<1>2. LinksLead
  BY DEF MarkovInit, LinksLead
<1>3. WalksLead /\ Cleared
  BY QuietOK DEF MarkovInit, WalksLead, Cleared
<1> QED BY <1>1, <1>2, <1>3 DEF MarkovInv

LEMMA IncUsesIs ==
    ASSUME uses \in [Link -> Nat], NEW t \in Tag, NEW s \in Word \cup Start,
           NEW d \in Word \cup {End}, IncUses(t, s, d)
    PROVE  /\ uses' \in [Link -> Nat] /\ <<t, s, d>> \in Link
           /\ \A l \in Link : uses'[l] = IF l = <<t, s, d>> /\ s \notin UrlWord /\ d \notin UrlWord
                                         THEN uses[l] + 1 ELSE uses[l]
<1>1. <<t, s, d>> \in Link
  BY DEF Link
<1>2. CASE {s, d} \cap UrlWord # {}
  BY <1>1, <1>2 DEF IncUses
<1>3. CASE {s, d} \cap UrlWord = {}
  <2>1. uses' = [uses EXCEPT ![<<t, s, d>>] = @ + 1]
    BY <1>3 DEF IncUses
  <2> QED BY <1>1, <1>3, <2>1
<1> QED BY <1>2, <1>3

\* A round of Add: the line learns a link, and is at the next word or done.
LEMMA LearnIs ==
    ASSUME MarkovType, NEW c \in Conn, LearnPair(c)
    PROVE  \E d \in Word \cup {End}, h \in Chain :
              /\ IncUses(chains[c].tag, chains[c].source, d) /\ ChainOK(h)
              /\ chains' = [chains EXCEPT ![c] = h]
              /\ \/ d = End /\ h.pc = "idle"
                 \/ /\ h.pc = "add" /\ h.tag = chains[c].tag /\ h.source = d /\ OnTheWay(h)
                    /\ OnTheWay(chains[c]) /\ d \in UrlWord => chains[c].source \in BesideUrl
<1> DEFINE g == chains[c]
           h == [g EXCEPT !.source = g.left[1], !.left = Tail(g.left)]
<1>1. /\ g \in Chain /\ g.pc = "add" /\ g.tag \in Tag /\ g.source \in Word \cup Start
      /\ OnTheWay(g) \/ g.left \in Sentences
  <2>1. ChainOK(g)
    BY DEF MarkovType
  <2>2. g.pc = "add"
    BY DEF LearnPair
  <2> QED BY <2>1, <2>2 DEF ChainOK
<1>2. CASE g.left = <<>>
  <2>1. IncUses(g.tag, g.source, End) /\ chains' = [chains EXCEPT ![c] = Quiet]
    BY <1>2 DEF LearnPair
  <2>2. Quiet \in Chain
    BY QuietOK DEF ChainOK
  <2> QED BY <2>1, <2>2, QuietOK
<1>3. CASE g.left # <<>>
  <2>1. g.left \in Seq(Word)
    BY <1>1 DEF Chain
  <2>2. /\ g.left[1] \in Word /\ Tail(g.left) \in Seq(Word) /\ Len(g.left) \in Nat \ {0}
        /\ Len(Tail(g.left)) = Len(g.left) - 1
        /\ \A k \in 1 .. Len(g.left) - 1 : Tail(g.left)[k] = g.left[k + 1]
    BY <1>3, <2>1
  <2>3. IncUses(g.tag, g.source, g.left[1]) /\ chains' = [chains EXCEPT ![c] = h]
    BY <1>3 DEF LearnPair
  <2>4. /\ h \in Chain /\ h.pc = "add" /\ h.tag = g.tag /\ h.source = g.left[1]
        /\ h.left = Tail(g.left)
    BY <1>1, <2>2 DEF Chain
  <2> HIDE DEF h
  <2>5. OnTheWay(h)
    <3>1. CASE OnTheWay(g)
      <4>1. PICK s \in Sentences : \E i \in 1 .. Len(s) :
                /\ g.source = s[i] /\ Len(g.left) = Len(s) - i
                /\ \A k \in 1 .. Len(g.left) : g.left[k] = s[i + k]
        BY <3>1 DEF OnTheWay
      <4>2. PICK i \in 1 .. Len(s) :
                /\ g.source = s[i] /\ Len(g.left) = Len(s) - i
                /\ \A k \in 1 .. Len(g.left) : g.left[k] = s[i + k]
        BY <4>1
      <4>3. s \in Seq(Word) /\ Len(s) \in Nat
        BY MarkovAssumption
      <4>4. i + 1 \in 1 .. Len(s) /\ h.source = s[i + 1] /\ Len(h.left) = Len(s) - (i + 1)
        BY <2>2, <2>4, <4>2, <4>3
      <4>5. \A k \in 1 .. Len(h.left) : h.left[k] = s[(i + 1) + k]
        <5> SUFFICES ASSUME NEW k \in 1 .. Len(h.left) PROVE h.left[k] = s[(i + 1) + k]
          OBVIOUS
        <5>1. h.left[k] = g.left[k + 1] /\ k + 1 \in 1 .. Len(g.left)
          BY <2>2, <2>4
        <5>2. g.left[k + 1] = s[i + (k + 1)] /\ i + (k + 1) = (i + 1) + k
          BY <4>2, <5>1
        <5> QED BY <5>1, <5>2
      <4> QED BY <4>4, <4>5 DEF OnTheWay
    <3>2. CASE g.left \in Sentences
      <4>1. 1 \in 1 .. Len(g.left) /\ h.source = g.left[1] /\ Len(h.left) = Len(g.left) - 1
        BY <2>2, <2>4
      <4>2. \A k \in 1 .. Len(h.left) : h.left[k] = g.left[1 + k]
        BY <2>2, <2>4
      <4> QED BY <3>2, <4>1, <4>2 DEF OnTheWay
    <3> QED BY <1>1, <3>1, <3>2
  <2>6. ASSUME OnTheWay(g), g.left[1] \in UrlWord PROVE g.source \in BesideUrl
    <3>1. PICK s \in Sentences : \E i \in 1 .. Len(s) :
              /\ g.source = s[i] /\ Len(g.left) = Len(s) - i
              /\ \A k \in 1 .. Len(g.left) : g.left[k] = s[i + k]
      BY <2>6 DEF OnTheWay
    <3>2. PICK i \in 1 .. Len(s) :
              /\ g.source = s[i] /\ Len(g.left) = Len(s) - i
              /\ \A k \in 1 .. Len(g.left) : g.left[k] = s[i + k]
      BY <3>1
    <3>3. s \in Seq(Word) /\ Len(s) \in Nat
      BY MarkovAssumption
    <3>4. i \in 1 .. Len(s) - 1 /\ s[i] = g.source /\ s[i + 1] \in UrlWord
      BY <2>2, <2>6, <3>2, <3>3
    <3>5. g.source \in Word
      BY <3>3, <3>4
    <3> QED BY <3>4, <3>5 DEF BesideUrl
  <2>7. ChainOK(h)
    BY <1>1, <2>2, <2>4, <2>5 DEF ChainOK
  <2> QED BY <2>2, <2>3, <2>4, <2>5, <2>6, <2>7
<1> QED BY <1>2, <1>3

LEMMA StepLearn ==
    ASSUME MarkovInv, NEW c \in Conn, LearnPair(c)
    PROVE  MarkovInv'
<1> DEFINE t == chains[c].tag
           s == chains[c].source
<1>1. MarkovType /\ t \in Tag /\ s \in Word \cup Start /\ chains[c].pc = "add"
  BY DEF MarkovInv, MarkovType, LearnPair, ChainOK
<1>2. PICK d \in Word \cup {End}, h \in Chain :
              /\ IncUses(t, s, d) /\ ChainOK(h)
              /\ chains' = [chains EXCEPT ![c] = h]
              /\ \/ d = End /\ h.pc = "idle"
                 \/ /\ h.pc = "add" /\ h.tag = t /\ h.source = d /\ OnTheWay(h)
                    /\ OnTheWay(chains[c]) /\ d \in UrlWord => s \in BesideUrl
  BY <1>1, LearnIs
<1>3. UNCHANGED <<markov, outlived>>
  BY DEF LearnPair
<1> HIDE DEF t, s
<1>4. /\ uses' \in [Link -> Nat] /\ <<t, s, d>> \in Link
      /\ \A l \in Link : uses'[l] = IF l = <<t, s, d>> /\ s \notin UrlWord /\ d \notin UrlWord
                                    THEN uses[l] + 1 ELSE uses[l]
  BY <1>1, <1>2, IncUsesIs DEF MarkovType
<1>5. \A e \in Conn : chains'[e] = IF e = c THEN h ELSE chains[e]
  BY <1>1, <1>2 DEF MarkovType
<1>6. MarkovType'
  <2>1. chains' \in [Conn -> Chain]
    BY <1>1, <1>2 DEF MarkovType, ChainOK
  <2> QED BY <1>1, <1>2, <1>3, <1>4, <1>5, <2>1 DEF MarkovType
\* What led on still does, and the line leads on where it has got to.
<1>7. \A u \in Tag, w \in Word \cup Start : Leads(u, w) => Leads(u, w)'
  <2> SUFFICES ASSUME NEW u \in Tag, NEW w \in Word \cup Start, Leads(u, w) PROVE Leads(u, w)'
    OBVIOUS
  <2>1. CASE \E x \in Word \cup {End} : uses[<<u, w, x>>] > 0
    <3>1. PICK x \in Word \cup {End} : uses[<<u, w, x>>] > 0
      BY <2>1
    <3>2. <<u, w, x>> \in Link /\ uses[<<u, w, x>>] \in Nat
      BY <1>1 DEF Link, MarkovType
    <3>3. uses'[<<u, w, x>>] > 0
      BY <1>4, <3>1, <3>2
    <3> QED BY <3>3 DEF Leads
  <2>2. CASE w \in BesideUrl
    BY <2>2 DEF Leads
  <2>3. CASE \E e \in Conn : /\ chains[e].pc = "add" /\ chains[e].tag = u
                             /\ chains[e].source = w /\ OnTheWay(chains[e])
    <3>1. PICK e \in Conn : /\ chains[e].pc = "add" /\ chains[e].tag = u
                            /\ chains[e].source = w /\ OnTheWay(chains[e])
      BY <2>3
    <3>2. CASE e # c
      BY <1>5, <3>1, <3>2 DEF Leads
    <3>3. CASE e = c /\ d \notin UrlWord
      <4>1. u = t /\ w = s /\ w \notin UrlWord
        BY <3>1, <3>3 DEF Leads, t, s
      <4>2. uses'[<<t, s, d>>] = uses[<<t, s, d>>] + 1 /\ uses[<<t, s, d>>] \in Nat
        BY <1>1, <1>4, <3>3, <4>1 DEF MarkovType
      <4>3. uses'[<<u, w, d>>] > 0
        BY <4>1, <4>2
      <4> QED BY <4>1, <4>3 DEF Leads
    <3>4. CASE e = c /\ d \in UrlWord
      <4>1. w = s /\ d # End /\ OnTheWay(chains[c])
        BY <3>1, <3>4, MarkovAssumption DEF s
      <4>2. w \in BesideUrl
        BY <1>2, <3>4, <4>1
      <4> QED BY <4>2 DEF Leads
    <3> QED BY <3>2, <3>3, <3>4
  <2> QED BY <2>1, <2>2, <2>3 DEF Leads
<1>8. LinksLead'
  <2> SUFFICES ASSUME NEW l \in Link, uses'[l] > 0, l[3] # End PROVE Leads(l[1], l[3])'
    BY DEF LinksLead
  <2>1. l[1] \in Tag /\ l[3] \in Word
    BY DEF Link
  <2>2. CASE uses[l] > 0
    BY <1>7, <2>1, <2>2 DEF MarkovInv, LinksLead
  <2>3. CASE ~(uses[l] > 0)
    <3>1. l = <<t, s, d>> /\ d \notin UrlWord
      BY <1>4, <2>3
    <3>2. h.pc = "add" /\ h.tag = t /\ h.source = d /\ OnTheWay(h)
      BY <1>2, <3>1
    <3>3. h = chains'[c]
      BY <1>5
    <3> QED BY <3>1, <3>2, <3>3 DEF Leads
  <2> QED BY <2>2, <2>3
<1>9. WalksLead'
  <2> SUFFICES ASSUME NEW e \in Conn, chains'[e].pc = "walk", ~chains'[e].cut, chains'[e].out > 0
               PROVE  Leads(chains[e].tag, chains[e].source)'
    BY DEF WalksLead
  <2>1. e # c /\ chains'[e] = chains[e]
    BY <1>2, <1>5
  <2>2. /\ Leads(chains[e].tag, chains[e].source)
        /\ chains[e].tag \in Tag /\ chains[e].source \in Word \cup Start
    BY <2>1, <1>1 DEF MarkovInv, WalksLead, MarkovType, ChainOK
  <2>3. PICK u \in Tag, w \in Word \cup Start :
            u = chains[e].tag /\ w = chains[e].source /\ Leads(u, w)
    BY <2>2
  <2>4. Leads(u, w)'
    BY <1>7, <2>3
  <2> QED BY <2>1, <2>3, <2>4 DEF Leads
<1>10. Cleared'
  <2> SUFFICES ASSUME NEW n \in Nick \ (markov \cup outlived),
                      \A e \in Conn : ~(chains[e].pc = "clear" /\ chains[e].tag = n)
               PROVE  /\ \A l \in Link : l[1] = n => uses'[l] = 0
                      /\ \A e \in Conn : ~(chains'[e].pc = "add" /\ chains'[e].tag = n)
    BY <1>1, <1>3, <1>5 DEF Cleared
  <2>1. /\ \A l \in Link : l[1] = n => uses[l] = 0
        /\ \A e \in Conn : ~(chains[e].pc = "add" /\ chains[e].tag = n)
    BY DEF MarkovInv, Cleared
  <2>2. t # n
    BY <1>1, <2>1 DEF t
  <2> QED BY <1>2, <1>4, <1>5, <2>1, <2>2
<1> QED BY <1>6, <1>8, <1>9, <1>10 DEF MarkovInv

\* Steps that leave the links alone: HearLine and WalkOn.
LEMMA StepOther ==
    ASSUME MarkovInv, NEW c \in Conn, NEW h, ChainOK(h),
           chains[c].pc \in {"idle", "walk"},
           chains' = [chains EXCEPT ![c] = h], uses' = uses, outlived' = outlived,
           h.pc = "walk" /\ ~h.cut /\ h.out > 0 => Leads(h.tag, h.source),
           markov' \subseteq Nick,
           \A n \in Nick \ (markov' \cup outlived) :
              /\ n \in markov => h.pc = "clear" /\ h.tag = n
              /\ h.pc = "add" => h.tag # n
    PROVE  MarkovInv'
<1>1. MarkovType
  BY DEF MarkovInv
<1>2. \A e \in Conn : chains'[e] = IF e = c THEN h ELSE chains[e]
  BY <1>1 DEF MarkovType
<1>3. MarkovType'
  <2>1. chains' \in [Conn -> Chain]
    BY <1>1 DEF MarkovType, ChainOK
  <2> QED BY <1>1, <1>2, <2>1 DEF MarkovType
<1>4. ASSUME NEW u, NEW w, Leads(u, w) PROVE Leads(u, w)'
  BY <1>2, <1>4 DEF Leads
<1>5. LinksLead'
  <2> SUFFICES ASSUME NEW l \in Link, uses[l] > 0, l[3] # End PROVE Leads(l[1], l[3])'
    BY DEF LinksLead
  <2>1. Leads(l[1], l[3])
    BY DEF MarkovInv, LinksLead
  <2> QED BY <1>4, <2>1
<1>6. WalksLead'
  <2> SUFFICES ASSUME NEW e \in Conn, chains'[e].pc = "walk", ~chains'[e].cut, chains'[e].out > 0
               PROVE  Leads(chains[e].tag, chains[e].source)'
    BY DEF WalksLead
  <2>1. PICK g \in Chain : chains'[e] = g
    BY <1>3 DEF MarkovType
  <2>2. Leads(g.tag, g.source)
    <3>1. CASE e = c
      BY <1>2, <2>1, <3>1
    <3>2. CASE e # c
      BY <1>2, <2>1, <3>2 DEF MarkovInv, WalksLead
    <3> QED BY <3>1, <3>2
  <2>3. Leads(g.tag, g.source)'
    BY <1>4, <2>2
  <2> QED BY <2>1, <2>3 DEF Leads
<1>7. Cleared'
  <2> SUFFICES ASSUME NEW n \in Nick \ (markov' \cup outlived),
                      \A e \in Conn : ~(chains'[e].pc = "clear" /\ chains'[e].tag = n)
               PROVE  /\ \A l \in Link : l[1] = n => uses[l] = 0
                      /\ \A e \in Conn : ~(chains'[e].pc = "add" /\ chains'[e].tag = n)
    BY DEF Cleared
  <2>1. n \notin markov
    BY <1>2
  <2>2. \A e \in Conn : ~(chains[e].pc = "clear" /\ chains[e].tag = n)
    BY <1>2
  <2> QED BY <1>2, <2>1, <2>2 DEF MarkovInv, Cleared
<1> QED BY <1>3, <1>5, <1>6, <1>7 DEF MarkovInv

LEMMA StepHear ==
    ASSUME MarkovInv, NEW c \in Conn, HearLine(c)
    PROVE  MarkovInv'
<1>1. /\ chains[c].pc = "idle" /\ uses' = uses /\ outlived' = outlived
      /\ chains \in [Conn -> Chain]
  BY QuietOK DEF HearLine, MarkovInv, MarkovType
<1>6. markov \subseteq Nick
  BY DEF MarkovInv, MarkovType
<1>2. CASE \E n \in Nick : markov' = markov \cup {n} /\ UNCHANGED chains
  <2>1. chains' = [chains EXCEPT ![c] = Quiet]
    BY <1>1, <1>2 DEF HearLine
  <2>2. \A n \in Nick \ (markov' \cup outlived) : n \notin markov
    BY <1>2
  <2> QED BY <1>1, <1>2, <1>6, <2>1, <2>2, QuietOK, StepOther
<1>3. CASE \E n \in Nick : /\ markov' = markov \ {n}
                           /\ chains' = [chains EXCEPT ![c] = [Quiet EXCEPT !.pc = "clear", !.tag = n]]
  <2>1. PICK n \in Nick : /\ markov' = markov \ {n}
                          /\ chains' = [chains EXCEPT ![c] = [Quiet EXCEPT !.pc = "clear", !.tag = n]]
    BY <1>3
  <2> DEFINE h == [Quiet EXCEPT !.pc = "clear", !.tag = n]
  <2>2. ChainOK(h) /\ h.pc = "clear" /\ h.tag = n
    <3>1. <<>> \in Seq(Word)
      OBVIOUS
    <3> QED BY <3>1 DEF ChainOK, Chain, Quiet, Tag
  <2> HIDE DEF h
  <2>3. \A m \in Nick \ (markov' \cup outlived) : m \in markov => m = n
    BY <2>1
  <2>4. chains' = [chains EXCEPT ![c] = h]
    BY <2>1 DEF h
  <2> QED BY <1>1, <1>6, <2>1, <2>2, <2>3, <2>4, StepOther
<1>4. CASE \E t \in Tag, s \in Start, ws \in Sentences :
              /\ t \in markov \cup {"tag"} /\ markov' = markov
              /\ chains' = [chains EXCEPT ![c] =
                    [Quiet EXCEPT !.pc = "add", !.tag = t, !.source = s, !.left = ws]]
  <2>1. PICK t \in Tag, s \in Start, ws \in Sentences :
              /\ t \in markov \cup {"tag"} /\ markov' = markov
              /\ chains' = [chains EXCEPT ![c] =
                    [Quiet EXCEPT !.pc = "add", !.tag = t, !.source = s, !.left = ws]]
    BY <1>4
  <2> DEFINE h == [Quiet EXCEPT !.pc = "add", !.tag = t, !.source = s, !.left = ws]
  <2>2. ChainOK(h) /\ h.pc = "add" /\ h.tag = t
    <3>1. ws \in Seq(Word)
      BY MarkovAssumption
    <3>2. h \in Chain
      BY <3>1 DEF Chain, Quiet
    <3>3. h.pc = "add" /\ h.tag = t /\ h.source = s /\ h.left = ws
      BY DEF Quiet
    <3> QED BY <3>2, <3>3 DEF ChainOK
  <2> HIDE DEF h
  <2>3. \A m \in Nick \ (markov' \cup outlived) : m \notin markov /\ t # m
    BY <2>1, MarkovAssumption
  <2>4. chains' = [chains EXCEPT ![c] = h]
    BY <2>1 DEF h
  <2> QED BY <1>1, <1>6, <2>1, <2>2, <2>3, <2>4, StepOther
<1>5. CASE \E n \in markov : /\ markov' = markov
                             /\ chains' = [chains EXCEPT ![c] =
                                    [Quiet EXCEPT !.pc = "walk", !.tag = n, !.source = "!SENTENCE_START"]]
  <2>1. PICK n \in markov : /\ markov' = markov
                            /\ chains' = [chains EXCEPT ![c] =
                                    [Quiet EXCEPT !.pc = "walk", !.tag = n, !.source = "!SENTENCE_START"]]
    BY <1>5
  <2> DEFINE h == [Quiet EXCEPT !.pc = "walk", !.tag = n, !.source = "!SENTENCE_START"]
  <2>2. ChainOK(h) /\ h.pc = "walk" /\ h.out = 0
    <3>1. <<>> \in Seq(Word) /\ n \in Tag /\ "!SENTENCE_START" \in Start
      BY <1>6 DEF Tag, Start
    <3> QED BY <3>1 DEF ChainOK, Chain, Quiet
  <2> HIDE DEF h
  <2>3. \A m \in Nick \ (markov' \cup outlived) : m \notin markov
    BY <2>1
  <2>4. chains' = [chains EXCEPT ![c] = h]
    BY <2>1 DEF h
  <2>5. ~(h.pc = "walk" /\ ~h.cut /\ h.out > 0)
    BY <2>2
  <2>6. markov' \subseteq Nick /\ h.pc # "add"
    BY <1>6, <2>1, <2>2
  <2> QED BY <1>1, <2>2, <2>3, <2>4, <2>5, <2>6, StepOther
<1> QED
  <2>1. CASE \E n \in Nick : \/ /\ markov' = markov \cup {n}
                                /\ UNCHANGED chains
                             \/ /\ markov' = markov \ {n}
                                /\ chains' = [chains EXCEPT ![c] = [Quiet EXCEPT !.pc = "clear", !.tag = n]]
    BY <1>2, <1>3, <2>1
  <2>2. CASE /\ \E t \in Tag, s \in Start, ws \in Sentences :
                  /\ t = "tag" => s = "!SENTENCE_START"
                  /\ t \in markov \cup {"tag"}
                  /\ chains' = [chains EXCEPT ![c] =
                       [Quiet EXCEPT !.pc = "add", !.tag = t, !.source = s, !.left = ws]]
             /\ UNCHANGED markov
    BY <1>4, <2>2
  <2>3. CASE /\ \E n \in markov : chains' = [chains EXCEPT ![c] =
                       [Quiet EXCEPT !.pc = "walk", !.tag = n, !.source = "!SENTENCE_START"]]
             /\ UNCHANGED markov
    BY <1>5, <2>3
  <2> QED BY <2>1, <2>2, <2>3 DEF HearLine

LEMMA StepClear ==
    ASSUME MarkovInv, NEW c \in Conn, ClearTag(c)
    PROVE  MarkovInv'
<1> DEFINE t == chains[c].tag
<1>1. /\ chains[c].pc = "clear" /\ markov' = markov
      /\ uses' = [l \in Link |-> IF l[1] = t THEN 0 ELSE uses[l]]
      /\ outlived' = IF \E d \in Conn : chains[d].pc = "add" /\ chains[d].tag = t
                     THEN outlived \cup {t} ELSE outlived \ {t}
      /\ chains' = [d \in Conn |-> IF d = c THEN Quiet
                                 ELSE IF chains[d].pc = "walk" /\ chains[d].tag = t
                                 THEN [chains[d] EXCEPT !.cut = TRUE] ELSE chains[d]]
  BY DEF ClearTag
<1>2. MarkovType
  BY DEF MarkovInv
<1> HIDE DEF t
<1>3. \A d \in Conn \ {c} :
          /\ chains'[d] = IF chains[d].pc = "walk" /\ chains[d].tag = t
                          THEN [chains[d] EXCEPT !.cut = TRUE] ELSE chains[d]
          /\ ChainOK(chains[d])
  BY <1>1, <1>2 DEF MarkovType
<1>4. \A d \in Conn \ {c} :
          /\ ChainOK(chains'[d]) /\ chains'[d].pc = chains[d].pc /\ chains'[d].tag = chains[d].tag
          /\ chains'[d].source = chains[d].source /\ chains'[d].out = chains[d].out
          /\ chains[d].pc = "add" => chains'[d] = chains[d]
          /\ ~chains'[d].cut => ~(chains[d].pc = "walk" /\ chains[d].tag = t) /\ ~chains[d].cut
  <2> SUFFICES ASSUME NEW d \in Conn \ {c}
               PROVE  /\ ChainOK(chains'[d]) /\ chains'[d].pc = chains[d].pc
                      /\ chains'[d].tag = chains[d].tag /\ chains'[d].source = chains[d].source
                      /\ chains'[d].out = chains[d].out
                      /\ chains[d].pc = "add" => chains'[d] = chains[d]
                      /\ ~chains'[d].cut => /\ ~(chains[d].pc = "walk" /\ chains[d].tag = t)
                                           /\ ~chains[d].cut
    OBVIOUS
  <2>1. CASE ~(chains[d].pc = "walk" /\ chains[d].tag = t)
    BY <1>3, <2>1
  <2>2. CASE chains[d].pc = "walk" /\ chains[d].tag = t
    <3> DEFINE g == chains[d]
               h == [g EXCEPT !.cut = TRUE]
    <3>1. ChainOK(g) /\ g \in Chain /\ chains'[d] = h
      BY <1>3, <2>2 DEF ChainOK
    <3>2. /\ h \in Chain /\ h.pc = "walk" /\ h.tag = g.tag /\ h.source = g.source
          /\ h.out = g.out /\ h.cut
      BY <2>2, <3>1 DEF Chain
    <3>3. ChainOK(h)
      BY <2>2, <3>1, <3>2 DEF ChainOK
    <3> HIDE DEF h
    <3> QED BY <2>2, <3>1, <3>2, <3>3
  <2> QED BY <2>1, <2>2
<1>5. chains'[c] = Quiet
  BY <1>1
<1>6. MarkovType'
  <2>1. uses' \in [Link -> Nat]
    BY <1>1, <1>2 DEF MarkovType
  <2>2. \A d \in Conn : ChainOK(chains'[d])
    BY <1>4, <1>5, QuietOK
  <2>3. chains' \in [Conn -> Chain]
    <3>1. \A d \in Conn : chains'[d] \in Chain
      BY <2>2 DEF ChainOK
    <3>2. chains' = [d \in Conn |-> chains'[d]]
      BY <1>1
    <3> QED BY <3>1, <3>2
  <2> QED BY <1>1, <1>2, <2>1, <2>2, <2>3 DEF MarkovType
<1>7. ASSUME NEW u \in Tag, NEW w \in Word \cup Start, Leads(u, w), u # t PROVE Leads(u, w)'
  <2>1. \A x \in Word \cup {End} : <<u, w, x>> \in Link /\ uses'[<<u, w, x>>] = uses[<<u, w, x>>]
    BY <1>1, <1>7 DEF Link
  <2>2. ASSUME NEW e \in Conn, chains[e].pc = "add", chains[e].tag = u,
               chains[e].source = w, OnTheWay(chains[e])
        PROVE  Leads(u, w)'
    BY <1>1, <1>4, <1>7, <2>2 DEF Leads
  <2> QED BY <1>7, <2>1, <2>2 DEF Leads
<1>8. LinksLead'
  <2> SUFFICES ASSUME NEW l \in Link, uses'[l] > 0, l[3] # End PROVE Leads(l[1], l[3])'
    BY DEF LinksLead
  <2>1. l[1] # t /\ uses[l] > 0
    BY <1>1
  <2>2. l[1] \in Tag /\ l[3] \in Word
    BY DEF Link
  <2> QED BY <1>7, <2>1, <2>2 DEF MarkovInv, LinksLead
<1>9. WalksLead'
  <2> SUFFICES ASSUME NEW e \in Conn, chains'[e].pc = "walk", ~chains'[e].cut, chains'[e].out > 0
               PROVE  Leads(chains[e].tag, chains[e].source)'
    BY DEF WalksLead
  <2>1. e # c
    BY <1>5, QuietOK
  <2>2. /\ chains[e].pc = "walk" /\ ~chains[e].cut /\ chains[e].out > 0 /\ chains[e].tag # t
        /\ ChainOK(chains[e])
    BY <1>3, <1>4, <2>1
  <2>3. PICK u \in Tag, w \in Word \cup Start : u = chains[e].tag /\ w = chains[e].source
    BY <2>2 DEF ChainOK
  <2>4. Leads(u, w)'
    BY <1>7, <2>2, <2>3 DEF MarkovInv, WalksLead
  <2> QED BY <1>4, <2>1, <2>3, <2>4 DEF Leads
<1>10. Cleared'
  <2> SUFFICES ASSUME NEW n \in Nick \ (markov \cup outlived'),
                      \A e \in Conn : ~(chains'[e].pc = "clear" /\ chains'[e].tag = n)
               PROVE  /\ \A l \in Link : l[1] = n => uses'[l] = 0
                      /\ \A e \in Conn : ~(chains'[e].pc = "add" /\ chains'[e].tag = n)
    BY <1>1 DEF Cleared
  <2>1. CASE n = t
    <3>1. \A d \in Conn : ~(chains[d].pc = "add" /\ chains[d].tag = t)
      BY <1>1, <2>1
    <3> QED BY <1>1, <1>4, <1>5, <2>1, <3>1, QuietOK
  <2>2. CASE n # t
    <3>1. n \notin outlived /\ \A e \in Conn : ~(chains[e].pc = "clear" /\ chains[e].tag = n)
      BY <1>1, <1>4, <2>2 DEF t
    <3>2. /\ \A l \in Link : l[1] = n => uses[l] = 0
          /\ \A e \in Conn : ~(chains[e].pc = "add" /\ chains[e].tag = n)
      BY <3>1 DEF MarkovInv, Cleared
    <3> QED BY <1>1, <1>4, <1>5, <2>2, <3>2, QuietOK
  <2> QED BY <2>1, <2>2
<1> QED BY <1>6, <1>8, <1>9, <1>10 DEF MarkovInv

LEMMA StepWalk ==
    ASSUME MarkovInv, NEW c \in Conn, WalkOn(c)
    PROVE  MarkovInv'
<1> DEFINE g == chains[c]
<1>1. /\ g \in Chain /\ g.pc = "walk" /\ g.tag \in Tag /\ g.source \in Word \cup Start
      /\ uses' = uses /\ outlived' = outlived /\ markov' = markov
  <2>1. ChainOK(g) /\ g.pc = "walk"
    BY DEF MarkovInv, MarkovType, WalkOn
  <2> QED BY <2>1 DEF ChainOK, WalkOn
<1>2. \A n \in Nick \ (markov' \cup outlived) : n \notin markov
  BY <1>1
<1>3. CASE chains' = [chains EXCEPT ![c] = Quiet]
  <2>1. markov \subseteq Nick
    BY DEF MarkovInv, MarkovType
  <2> QED BY <1>1, <1>2, <1>3, <2>1, QuietOK, StepOther
<1>4. CASE \E d \in Children(g.tag, g.source) :
              d # End /\ chains' = [chains EXCEPT ![c] = [g EXCEPT !.source = d, !.out = @ + 1]]
  <2>1. PICK d \in Children(g.tag, g.source) :
              d # End /\ chains' = [chains EXCEPT ![c] = [g EXCEPT !.source = d, !.out = @ + 1]]
    BY <1>4
  <2> DEFINE h == [g EXCEPT !.source = d, !.out = @ + 1]
             l == <<g.tag, g.source, d>>
  <2>2. d \in Word /\ uses[l] > 0 /\ l \in Link /\ l[1] = g.tag /\ l[3] = d
    BY <1>1, <2>1 DEF Children, Link
  <2>3. Leads(g.tag, d)
    BY <2>1, <2>2 DEF MarkovInv, LinksLead
  <2>4. h \in Chain
    <3>1. g.out + 1 \in Nat
      BY <1>1 DEF Chain
    <3> QED BY <1>1, <2>2, <3>1 DEF Chain
  <2>5. h.pc = "walk" /\ h.tag = g.tag /\ h.source = d
    BY <1>1 DEF Chain
  <2>6. ChainOK(h)
    BY <1>1, <2>2, <2>4, <2>5 DEF ChainOK
  <2>7. chains' = [chains EXCEPT ![c] = h]
    BY <2>1
  <2> HIDE DEF h
  <2>8. markov \subseteq Nick
    BY DEF MarkovInv, MarkovType
  <2> QED BY <1>1, <1>2, <2>3, <2>5, <2>6, <2>7, <2>8, StepOther
<1> QED
  <2>1. \/ chains' = [chains EXCEPT ![c] = Quiet]
        \/ \E d \in Children(g.tag, g.source) \cup {End} :
              /\ d = End \/ d \in Children(g.tag, g.source)
              /\ chains' = [chains EXCEPT ![c] =
                   IF d = End THEN Quiet ELSE [g EXCEPT !.source = d, !.out = @ + 1]]
    BY DEF WalkOn
  <2> QED BY <1>3, <1>4, <2>1

LEMMA StepMarkov == MarkovInv /\ [MarkovNext]_markovVars => MarkovInv'
<1> SUFFICES ASSUME MarkovInv, [MarkovNext]_markovVars PROVE MarkovInv'
  OBVIOUS
<1>1. CASE MarkovNext
  BY <1>1, StepHear, StepLearn, StepClear, StepWalk DEF MarkovNext
<1>2. CASE UNCHANGED markovVars
  <2>1. UNCHANGED markovVars /\ MarkovType /\ LinksLead /\ WalksLead /\ Cleared
    BY <1>2 DEF MarkovInv
  <2>2. MarkovType'
    BY <2>1 DEF markovVars, MarkovType
  <2>3. LinksLead' /\ WalksLead'
    BY <2>1 DEF markovVars, LinksLead, WalksLead, Leads
  <2>4. Cleared'
    BY <2>1 DEF markovVars, Cleared
  <2> QED BY <2>2, <2>3, <2>4 DEF MarkovInv
<1> QED BY <1>1, <1>2

\* A sentence gets stuck only where a URL was left out, at the end of a line that is being
\* learnt, or when its chain was deleted meanwhile, and a chain that was deleted stays empty
\* unless a line was being learnt for it: for any words, sentences and connections.
THEOREM ChainsLead == MarkovSpec => []ChainsWalk
<1>1. MarkovInv => ChainsWalk
  <2> SUFFICES ASSUME MarkovInv PROVE ChainsWalk
    OBVIOUS
  <2>1. ASSUME NEW u \in Tag, NEW w \in Word \cup Start, Leads(u, w) PROVE Going(u, w)
    <3>1. CASE \E d \in Word \cup {End} : uses[<<u, w, d>>] > 0
      BY <3>1 DEF Going, Children
    <3>2. CASE ~\E d \in Word \cup {End} : uses[<<u, w, d>>] > 0
      BY <2>1, <3>2 DEF Leads, Going
    <3> QED BY <3>1, <3>2
  <2>2. ASSUME NEW l \in Link, uses[l] > 0, l[3] # End PROVE Going(l[1], l[3])
    <3>1. l[1] \in Tag /\ l[3] \in Word
      BY <2>2 DEF Link
    <3> QED BY <2>1, <2>2, <3>1 DEF MarkovInv, LinksLead
  <2>3. ASSUME NEW c \in Conn, chains[c].pc = "walk", ~chains[c].cut, chains[c].out > 0
        PROVE  Going(chains[c].tag, chains[c].source)
    <3>1. chains[c].tag \in Tag /\ chains[c].source \in Word \cup Start
      BY <2>3 DEF MarkovInv, MarkovType, ChainOK
    <3> QED BY <2>1, <2>3, <3>1 DEF MarkovInv, WalksLead
  <2>4. ASSUME NEW n \in Nick \ (markov \cup outlived), \A c \in Conn : chains[c].tag # n
        PROVE  \A s \in Word \cup Start : Children(n, s) = {}
    <3>1. \A l \in Link : l[1] = n => uses[l] = 0
      BY <2>4 DEF MarkovInv, Cleared
    <3>2. \A s \in Word \cup Start, d \in Word \cup {End} :
              <<n, s, d>> \in Link /\ <<n, s, d>>[1] = n
      BY DEF Link, Tag
    <3>3. \A s \in Word \cup Start, d \in Word \cup {End} : uses[<<n, s, d>>] = 0
      BY <3>1, <3>2
    <3> SUFFICES ASSUME NEW s \in Word \cup Start, NEW d \in Children(n, s) PROVE FALSE
      OBVIOUS
    <3>4. d \in Word \cup {End} /\ uses[<<n, s, d>>] > 0
      BY DEF Children
    <3> QED BY <3>3, <3>4
  <2> QED BY <2>2, <2>3, <2>4 DEF ChainsWalk
<1> QED BY <1>1, MarkovStart, StepMarkov, PTL DEF MarkovSpec

-----------------------------------------------------------------------------
(* Karma. *)

KarmaRec == [score : Int, votes : Nat]
Voting == [pc : {"idle", "get", "put"}, left : Seq(Thing \X {-1, 1}),
           k : KarmaRec \cup {None}, seen : KarmaRec \cup {None}]
VotingOK(h) ==
    /\ h \in Voting
    /\ h.pc # "idle" => h.left # <<>>
    /\ h.pc = "put" => h.k = h.seen

Sum(k) == IF k = None THEN [score |-> 0, votes |-> 0] ELSE k
Ups(t) == heard[<<t, 1>>]
Downs(t) == heard[<<t, -1>>]

\* None that was read was more than was heard by then.
Heard(t, k) == k.votes <= Ups(t) + Downs(t) /\ -Downs(t) <= k.score /\ k.score <= Ups(t)

KarmaInv ==
    /\ karma \in [Thing -> KarmaRec \cup {None}]
    /\ heard \in [Thing \X {-1, 1} -> Nat]
    /\ voting \in [Conn -> Voting] /\ \A c \in Conn : VotingOK(voting[c])
    /\ \A t \in Thing :
          IF t \in met THEN Heard(t, Sum(karma[t])) /\ Sum(karma[t]).votes > 0
          ELSE Sum(karma[t]) = [score |-> Ups(t) - Downs(t), votes |-> Ups(t) + Downs(t)]
    /\ \A c \in Conn : voting[c].pc = "put" => Heard(voting[c].left[1][1], Sum(voting[c].k))

\* The same without records of which the sum is one.
LEMMA SumIs ==
    ASSUME NEW k \in KarmaRec \cup {None}
    PROVE  /\ Sum(k) \in KarmaRec
           /\ \A a \in Int, b \in Nat : Sum(k) = [score |-> a, votes |-> b]
                  <=> Sum(k).score = a /\ Sum(k).votes = b
<1>1. Sum(k) \in KarmaRec
  BY DEF Sum, KarmaRec
<1> QED BY <1>1 DEF KarmaRec

LEMMA NoVoteOK == VotingOK(NoVote) /\ NoVote.pc = "idle"
<1>1. <<>> \in Seq(Thing \X {-1, 1})
  OBVIOUS
<1> QED BY <1>1 DEF VotingOK, Voting, NoVote

LEMMA KarmaStart == CountersInit => KarmaInv
<1> SUFFICES ASSUME CountersInit PROVE KarmaInv
  OBVIOUS
<1>1. \A t \in Thing : <<t, 1>> \in Thing \X {-1, 1} /\ <<t, -1>> \in Thing \X {-1, 1}
  OBVIOUS
<1>2. \A t \in Thing : Ups(t) = 0 /\ Downs(t) = 0 /\ Sum(karma[t]) = [score |-> 0, votes |-> 0]
  BY <1>1 DEF CountersInit, Ups, Downs, Sum
<1>3. 0 - 0 = 0 /\ 0 + 0 = 0
  OBVIOUS
<1>4. karma \in [Thing -> KarmaRec \cup {None}] /\ heard \in [Thing \X {-1, 1} -> Nat] /\ met = {}
  BY DEF CountersInit
<1>5. /\ voting \in [Conn -> Voting] /\ \A c \in Conn : VotingOK(voting[c])
      /\ \A c \in Conn : voting[c].pc = "idle"
  BY NoVoteOK DEF CountersInit, VotingOK
<1> QED BY <1>2, <1>3, <1>4, <1>5 DEF KarmaInv

LEMMA VotePut ==
    ASSUME KarmaInv, NEW c \in Conn, NEW t \in Thing, NEW by \in {-1, 1},
           NEW k \in KarmaRec \cup {None}, Heard(t, Sum(k)), NEW h, VotingOK(h), h.pc # "put",
           karma' = [karma EXCEPT ![t] = Vote(Sum(k), by)],
           heard' = [heard EXCEPT ![<<t, by>>] = @ + 1],
           met' = IF karma[t] = k THEN met ELSE met \cup {t},
           voting' = [voting EXCEPT ![c] = h]
    PROVE  KarmaInv'
<1> DEFINE r == Vote(Sum(k), by)
<1>1. Sum(k) \in KarmaRec
  BY SumIs
<1>2. r \in KarmaRec /\ r.score = Sum(k).score + by /\ r.votes = Sum(k).votes + 1
  BY <1>1 DEF Vote, KarmaRec
<1> HIDE DEF r
<1>3. /\ karma' \in [Thing -> KarmaRec \cup {None}]
      /\ karma'[t] = r /\ \A u \in Thing \ {t} : karma'[u] = karma[u]
  BY <1>2 DEF KarmaInv, r
<1>4. heard \in [Thing \X {-1, 1} -> Nat] /\ heard' \in [Thing \X {-1, 1} -> Nat]
  BY DEF KarmaInv
<1>5. \A u \in Thing : <<u, 1>> \in Thing \X {-1, 1} /\ <<u, -1>> \in Thing \X {-1, 1}
  OBVIOUS
<1>6. \A u \in Thing : Ups(u) \in Nat /\ Downs(u) \in Nat
  BY <1>4, <1>5 DEF Ups, Downs
<1>7. \A u \in Thing : \A b \in {-1, 1} :
          heard'[<<u, b>>] = IF u = t /\ b = by THEN heard[<<u, b>>] + 1 ELSE heard[<<u, b>>]
  <2> SUFFICES ASSUME NEW u \in Thing, NEW b \in {-1, 1}
               PROVE  heard'[<<u, b>>] = IF u = t /\ b = by THEN heard[<<u, b>>] + 1
                                         ELSE heard[<<u, b>>]
    OBVIOUS
  <2>1. <<u, b>> \in Thing \X {-1, 1} /\ (<<u, b>> = <<t, by>> <=> u = t /\ b = by)
    OBVIOUS
  <2> QED BY <1>4, <2>1
<1>8. \A u \in Thing \ {t} : Ups(u)' = Ups(u) /\ Downs(u)' = Downs(u)
  BY <1>7 DEF Ups, Downs
<1>9. \/ by = 1 /\ Ups(t)' = Ups(t) + 1 /\ Downs(t)' = Downs(t)
      \/ by = -1 /\ Ups(t)' = Ups(t) /\ Downs(t)' = Downs(t) + 1
  <2>1. CASE by = 1
    <3>1. by # -1
      BY <2>1
    <3> QED BY <1>7, <2>1, <3>1 DEF Ups, Downs
  <2>2. CASE by = -1
    <3>1. by # 1
      BY <2>2
    <3> QED BY <1>7, <2>2, <3>1 DEF Ups, Downs
  <2> QED BY <2>1, <2>2
<1>10. voting' \in [Conn -> Voting] /\ \A d \in Conn : voting'[d] = IF d = c THEN h ELSE voting[d]
  BY DEF KarmaInv, VotingOK
<1>11. Sum(karma'[t]) = r
  BY <1>2, <1>3, CountersAssumption DEF Sum, KarmaRec
<1>12. /\ r.votes <= Ups(t)' + Downs(t)' /\ -Downs(t)' <= r.score /\ r.score <= Ups(t)'
       /\ r.votes > 0
  <2>1. Sum(k).votes \in Nat /\ Sum(k).score \in Int
    BY <1>1 DEF KarmaRec
  <2> QED BY <1>2, <1>6, <1>9, <2>1 DEF Heard
<1>13. \A u \in Thing :
          IF u \in met' THEN Heard(u, Sum(karma[u]))' /\ Sum(karma'[u]).votes > 0
          ELSE Sum(karma'[u]) = [score |-> Ups(u)' - Downs(u)', votes |-> Ups(u)' + Downs(u)']
  <2> SUFFICES ASSUME NEW u \in Thing
               PROVE  IF u \in met' THEN Heard(u, Sum(karma[u]))' /\ Sum(karma'[u]).votes > 0
                      ELSE Sum(karma'[u]) = [score |-> Ups(u)' - Downs(u)',
                                             votes |-> Ups(u)' + Downs(u)']
    OBVIOUS
  <2>1. CASE u # t
    <3>1. u \in met' <=> u \in met
      BY <2>1
    <3>2. Sum(karma'[u]) = Sum(karma[u])
      BY <1>3, <2>1
    <3>3. Heard(u, Sum(karma[u]))' <=> Heard(u, Sum(karma[u]))
      BY <1>8, <2>1, <3>2 DEF Heard, Sum
    <3> QED BY <1>8, <2>1, <3>1, <3>2, <3>3 DEF KarmaInv
  <2>2. CASE u = t /\ t \in met'
    <3>1. Heard(t, Sum(karma[t]))' <=>
              /\ Sum(karma'[t]).votes <= Ups(t)' + Downs(t)'
              /\ -Downs(t)' <= Sum(karma'[t]).score /\ Sum(karma'[t]).score <= Ups(t)'
      BY DEF Heard, Sum
    <3> QED BY <1>11, <1>12, <2>2, <3>1
  <2>3. CASE u = t /\ t \notin met'
    <3>1. karma[t] = k /\ t \notin met
      BY <2>3
    <3>2. Sum(k) = [score |-> Ups(t) - Downs(t), votes |-> Ups(t) + Downs(t)]
      BY <3>1 DEF KarmaInv
    <3>3. Sum(k).score = Ups(t) - Downs(t) /\ Sum(k).votes = Ups(t) + Downs(t)
      BY <3>2
    <3>4. r.score = Ups(t)' - Downs(t)' /\ r.votes = Ups(t)' + Downs(t)'
      BY <1>2, <1>6, <1>9, <3>3
    <3>5. r = [score |-> Ups(t)' - Downs(t)', votes |-> Ups(t)' + Downs(t)']
      BY <1>2, <3>4 DEF KarmaRec
    <3> QED BY <1>11, <2>3, <3>5
  <2> QED BY <2>1, <2>2, <2>3
<1>14. \A d \in Conn : voting'[d].pc = "put" => Heard(voting[d].left[1][1], Sum(voting[d].k))'
  <2> SUFFICES ASSUME NEW d \in Conn, voting'[d].pc = "put"
               PROVE  Heard(voting[d].left[1][1], Sum(voting[d].k))'
    OBVIOUS
  <2>1. d # c /\ voting'[d] = voting[d]
    BY <1>10
  <2>2. PICK w \in Voting : w = voting[d] /\ w.pc = "put" /\ w.left # <<>>
                            /\ Heard(w.left[1][1], Sum(w.k))
    BY <2>1 DEF KarmaInv, VotingOK
  <2>3. w.left[1][1] \in Thing
    <3>1. w.left \in Seq(Thing \X {-1, 1})
      BY DEF Voting
    <3>2. w.left[1] \in Thing \X {-1, 1}
      BY <2>2, <3>1
    <3> QED BY <3>2
  <2>4. PICK u \in Thing, m \in KarmaRec : u = w.left[1][1] /\ m = Sum(w.k) /\ Heard(u, m)
    BY <2>2, <2>3, SumIs DEF Voting
  <2>5. m.votes \in Nat /\ m.score \in Int
    BY DEF KarmaRec
  <2>6. m.votes <= Ups(u)' + Downs(u)' /\ -Downs(u)' <= m.score /\ m.score <= Ups(u)'
    BY <1>6, <1>8, <1>9, <2>4, <2>5 DEF Heard
  <2>7. Sum(voting'[d].k) = m /\ voting'[d].left[1][1] = u
    BY <2>1, <2>2, <2>4
  <2> QED BY <2>6, <2>7 DEF Heard, Ups, Downs, Sum
<1>15. \A d \in Conn : VotingOK(voting'[d])
  BY <1>10 DEF KarmaInv
<1> QED BY <1>3, <1>4, <1>10, <1>13, <1>14, <1>15 DEF KarmaInv

LEMMA StepPutKarma ==
    ASSUME KarmaInv, NEW c \in Conn, PutKarma(c)
    PROVE  KarmaInv'
<1> DEFINE v == voting[c]
           h == IF Len(v.left) = 1 THEN NoVote ELSE [NoVote EXCEPT !.pc = "get", !.left = Tail(v.left)]
<1>1. /\ v \in Voting /\ v.pc = "put" /\ v.left # <<>> /\ v.k = v.seen
      /\ Heard(v.left[1][1], Sum(v.k))
  <2>1. VotingOK(v) /\ v.pc = "put"
    BY DEF KarmaInv, PutKarma
  <2> QED BY <2>1 DEF VotingOK, KarmaInv
<1>2. v.left \in Seq(Thing \X {-1, 1})
  BY <1>1 DEF Voting
<1>3. v.left[1] \in Thing \X {-1, 1} /\ Len(Tail(v.left)) = Len(v.left) - 1
      /\ Tail(v.left) \in Seq(Thing \X {-1, 1}) /\ Len(v.left) \in Nat
  BY <1>1, <1>2
<1>4. Len(v.left) # 1 => Tail(v.left) # <<>>
  <2>1. Tail(v.left) = <<>> => Len(Tail(v.left)) = Len(<<>>)
    OBVIOUS
  <2>2. Len(<<>>) = 0
    OBVIOUS
  <2> QED BY <1>3, <2>1, <2>2
<1>5. VotingOK(h) /\ h.pc # "put"
  <2>1. CASE Len(v.left) = 1
    BY <2>1, NoVoteOK
  <2>2. CASE Len(v.left) # 1
    <3>1. h = [NoVote EXCEPT !.pc = "get", !.left = Tail(v.left)]
      BY <2>2
    <3>2. h.pc = "get" /\ h.left = Tail(v.left)
      BY <3>1 DEF NoVote
    <3>3. h \in Voting
      BY <1>3, <3>1, NoVoteOK DEF VotingOK, Voting
    <3> QED BY <1>4, <2>2, <3>2, <3>3 DEF VotingOK
  <2> QED BY <2>1, <2>2
<1>6. PICK t \in Thing, by \in {-1, 1}, k \in KarmaRec \cup {None} :
          v.left[1] = <<t, by>> /\ v.left[1][1] = t /\ v.left[1][2] = by /\ v.k = k
  <2>1. v.k \in KarmaRec \cup {None}
    BY <1>1 DEF Voting
  <2> DEFINE x == v.left[1]
  <2>2. x \in Thing \X {-1, 1}
    BY <1>3
  <2> HIDE DEF x
  <2>3. x[1] \in Thing /\ x[2] \in {-1, 1} /\ x = <<x[1], x[2]>>
    BY <2>2
  <2> QED BY <2>1, <2>3 DEF x
<1>7. /\ karma' = [karma EXCEPT ![t] = Vote(Sum(k), by)]
      /\ heard' = [heard EXCEPT ![<<t, by>>] = @ + 1]
      /\ met' = IF karma[t] = k THEN met ELSE met \cup {t}
      /\ voting' = [voting EXCEPT ![c] = h]
  BY <1>1, <1>6 DEF PutKarma, Sum
<1> HIDE DEF h
<1> QED BY <1>1, <1>5, <1>6, <1>7, VotePut

\* The other steps leave what was heard alone.
LEMMA KarmaStays ==
    ASSUME KarmaInv, NEW c \in Conn, NEW h, VotingOK(h), voting' = [voting EXCEPT ![c] = h],
           UNCHANGED <<karma, heard>>, \A t \in Thing : t \in met' <=> t \in met,
           h.pc = "put" => Heard(h.left[1][1], Sum(h.k))
    PROVE  KarmaInv'
<1>1. /\ voting' \in [Conn -> Voting] /\ \A d \in Conn : voting'[d] = IF d = c THEN h ELSE voting[d]
  BY DEF KarmaInv, VotingOK
<1>2. \A t, k : Heard(t, k) => k.votes <= Ups(t)' + Downs(t)' /\ -Downs(t)' <= k.score /\ k.score <= Ups(t)'
  BY DEF Heard, Ups, Downs
<1>3. \A t \in Thing :
          IF t \in met' THEN Heard(t, Sum(karma[t]))' /\ Sum(karma'[t]).votes > 0
          ELSE Sum(karma'[t]) = [score |-> Ups(t)' - Downs(t)', votes |-> Ups(t)' + Downs(t)']
  BY DEF KarmaInv, Heard, Ups, Downs, Sum
<1>4. \A d \in Conn : voting'[d].pc = "put" => Heard(voting[d].left[1][1], Sum(voting[d].k))'
  <2> SUFFICES ASSUME NEW d \in Conn, voting'[d].pc = "put"
               PROVE  Heard(voting[d].left[1][1], Sum(voting[d].k))'
    OBVIOUS
  <2>1. Heard(voting'[d].left[1][1], Sum(voting'[d].k))
    BY <1>1 DEF KarmaInv
  <2> QED BY <1>2, <2>1 DEF Heard, Ups, Downs, Sum
<1> QED BY <1>1, <1>3, <1>4 DEF KarmaInv

LEMMA StepGetKarma ==
    ASSUME KarmaInv, NEW c \in Conn, GetKarma(c)
    PROVE  KarmaInv'
<1> DEFINE v == voting[c]
           k == karma[v.left[1][1]]
           h == [v EXCEPT !.pc = "put", !.k = k, !.seen = k]
<1>1. v \in Voting /\ v.left # <<>>
  BY DEF KarmaInv, VotingOK, GetKarma
<1>2. v.left[1][1] \in Thing
  <2>1. v.left \in Seq(Thing \X {-1, 1})
    BY <1>1 DEF Voting
  <2>2. v.left[1] \in Thing \X {-1, 1}
    BY <1>1, <2>1
  <2> QED BY <2>2
<1>3. k \in KarmaRec \cup {None}
  BY <1>2 DEF KarmaInv
<1>4. Heard(v.left[1][1], Sum(k))
  <2>1. PICK t \in Thing : t = v.left[1][1]
    BY <1>2
  <2>2. Ups(t) \in Nat /\ Downs(t) \in Nat
    <3>1. <<t, 1>> \in Thing \X {-1, 1} /\ <<t, -1>> \in Thing \X {-1, 1}
      OBVIOUS
    <3> QED BY <3>1 DEF Ups, Downs, KarmaInv
  <2>3. CASE t \in met
    BY <2>1, <2>3 DEF KarmaInv
  <2>4. CASE t \notin met
    <3>1. Sum(k) = [score |-> Ups(t) - Downs(t), votes |-> Ups(t) + Downs(t)]
      BY <2>1, <2>4 DEF KarmaInv
    <3>2. Sum(k).score = Ups(t) - Downs(t) /\ Sum(k).votes = Ups(t) + Downs(t)
      BY <3>1
    <3> QED BY <2>1, <2>2, <3>2 DEF Heard
  <2> QED BY <2>3, <2>4
<1>5. voting' = [voting EXCEPT ![c] = h] /\ UNCHANGED <<karma, heard, met>>
  BY DEF GetKarma
<1> HIDE DEF k
<1>6. /\ h \in Voting /\ h.pc = "put" /\ h.k = k /\ h.seen = k /\ h.left = v.left
  BY <1>1, <1>3 DEF Voting
<1>7. VotingOK(h)
  BY <1>1, <1>6 DEF VotingOK
<1> HIDE DEF h
<1> QED BY <1>4, <1>5, <1>6, <1>7, KarmaStays

LEMMA StepLineKarma ==
    ASSUME KarmaInv, NEW c \in Conn, Line(c)
    PROVE  KarmaInv'
<1>1. PICK l \in Said :
          /\ voting' = [voting EXCEPT ![c] =
                          IF l[3] = <<>> THEN NoVote ELSE [NoVote EXCEPT !.pc = "get", !.left = l[3]]]
          /\ UNCHANGED <<karma, heard, met>>
  BY DEF Line
<1> DEFINE h == IF l[3] = <<>> THEN NoVote ELSE [NoVote EXCEPT !.pc = "get", !.left = l[3]]
<1>2. l[3] \in Seq(Thing \X {-1, 1})
  BY CountersAssumption
<1>3. VotingOK(h) /\ h.pc # "put"
  <2>1. CASE l[3] = <<>>
    BY <2>1, NoVoteOK
  <2>2. CASE l[3] # <<>>
    <3>1. h = [NoVote EXCEPT !.pc = "get", !.left = l[3]]
      BY <2>2
    <3>2. h.pc = "get" /\ h.left = l[3]
      BY <3>1 DEF NoVote
    <3>3. h \in Voting
      BY <1>2, <3>1, NoVoteOK DEF VotingOK, Voting
    <3> QED BY <2>2, <3>2, <3>3 DEF VotingOK
  <2> QED BY <2>1, <2>2
<1>4. voting' = [voting EXCEPT ![c] = h]
  BY <1>1
<1> HIDE DEF h
<1> QED BY <1>1, <1>3, <1>4, KarmaStays

-----------------------------------------------------------------------------
(* Statistics. *)

Ch == Channel \cup {"me"}

LEMMA StatIs ==
    ASSUME NEW s \in Stat
    PROVE  /\ s.id \in Id /\ s.nick \in Nick /\ s.chan \in Ch /\ s.lines \in 1 .. MaxEvents
           /\ s # None
           /\ ByNick(s.nick, s.chan) \in StatKeys /\ ByLines(s.chan, s.lines) \in StatKeys
           /\ St!KeysOf(s) = {ByNick(s.nick, s.chan), ByLines(s.chan, s.lines)}
<1>1. /\ s.id \in Id /\ s.nick \in Nick /\ s.chan \in Ch /\ s.lines \in 1 .. MaxEvents
      /\ s # None
  BY CountersAssumption DEF Stat, Ch
<1>2. ByNick(s.nick, s.chan) \in StatKeys /\ ByLines(s.chan, s.lines) \in StatKeys
  BY <1>1 DEF StatKeys, Ch
<1> DEFINE x == <<ByNick(s.nick, s.chan), ByLines(s.chan, s.lines)>>
<1>3. Len(x) = 2 /\ x[1] = ByNick(s.nick, s.chan) /\ x[2] = ByLines(s.chan, s.lines)
  OBVIOUS
<1> HIDE DEF x
<1>4. [v \in Stat |-> StatIndexes(v)][s] = x
  BY DEF StatIndexes, x
<1>5. St!KeysOf(s) = {x[i] : i \in 1 .. 2}
  BY <1>3, <1>4 DEF St!KeysOf
<1>6. St!KeysOf(s) = {ByNick(s.nick, s.chan), ByLines(s.chan, s.lines)}
  BY <1>3, <1>5
<1> QED BY <1>1, <1>2, <1>6

\* Its buckets are there: when they are, the keys of a record are those it deletes.
Housed(d, s) == <<"chan", s.chan>> \in d.bkts /\ <<"lines", s.chan>> \in d.bkts

LEMMA StatDelKeys ==
    ASSUME NEW d \in St!Store, NEW s \in Stat, Housed(d, s)
    PROVE  St!DelKeys(d, s) = {ByNick(s.nick, s.chan), ByLines(s.chan, s.lines)}
<1> DEFINE x == <<ByNick(s.nick, s.chan), ByLines(s.chan, s.lines)>>
<1>1. Len(x) = 2 /\ x[1] = ByNick(s.nick, s.chan) /\ x[2] = ByLines(s.chan, s.lines)
  OBVIOUS
<1>2. /\ x[1] \in StatKeys /\ x[2] \in StatKeys
      /\ x[1][1] = "chan" /\ x[1][2] = s.chan /\ x[2][1] = "lines" /\ x[2][2] = s.chan
  BY <1>1, StatIs DEF ByNick, ByLines
<1>3. St!Found(d, x[1]) /\ St!Found(d, x[2])
  BY <1>2 DEF Housed, St!Found
<1> HIDE DEF x
<1>4. [v \in Stat |-> StatIndexes(v)][s] = x
  BY DEF StatIndexes, x
<1>5. St!DelKeys(d, s) = {x[i] : i \in {n \in 1 .. 2 : \A m \in 1 .. n : St!Found(d, x[m])}}
  BY <1>1, <1>4 DEF St!DelKeys
<1>6. \A n \in 1 .. 2 : \A m \in 1 .. n : St!Found(d, x[m])
  BY <1>3
<1>7. St!DelKeys(d, s) = {x[i] : i \in 1 .. 2}
  BY <1>5, <1>6
<1> QED BY <1>1, <1>7

\* What a record's Put does.
LEMMA PutStatIs ==
    ASSUME NEW d \in St!Store, NEW s \in Stat,
           d.vals[s.id] # None => Housed(d, d.vals[s.id])
    PROVE  LET e == St!PutTx(d, s)
               old == d.vals[s.id] IN
           /\ e \in St!Store
           /\ e.vals = [d.vals EXCEPT ![s.id] = s]
           /\ e.bkts = d.bkts \cup {<<"chan", s.chan>>, <<"lines", s.chan>>}
           /\ \A k \in StatKeys : e.idxs[k] =
                IF k = ByNick(s.nick, s.chan) \/ k = ByLines(s.chan, s.lines) THEN s.id
                ELSE IF old # None /\ (k = ByNick(old.nick, old.chan) \/ k = ByLines(old.chan, old.lines))
                THEN None ELSE d.idxs[k]
<1> DEFINE old == d.vals[s.id]
           b == IF old = None THEN d ELSE St!DelIndex(d, old)
           c == St!SetValue(b, s.id, s)
           e == St!PutIndex(c, s)
           K(v) == {ByNick(v.nick, v.chan), ByLines(v.chan, v.lines)}
<1>1. St!PutTx(d, s) = e
  BY StatIs DEF St!PutTx
<1>2. s.id \in Id /\ old \in Stat \cup {None}
  BY StatIs DEF St!Store
<1>3. /\ b \in St!Store /\ b.vals = d.vals /\ b.bkts = d.bkts
      /\ \A k \in StatKeys : b.idxs[k] =
            IF old # None /\ k \in K(old) THEN None ELSE d.idxs[k]
  <2>1. CASE old = None
    BY <2>1
  <2>2. CASE old # None
    <3>1. St!DelKeys(d, old) = K(old)
      BY <1>2, <2>2, StatDelKeys
    <3> HIDE DEF K
    <3> QED BY <2>2, <3>1 DEF St!Store, St!DelIndex
  <2> QED BY <2>1, <2>2
<1> HIDE DEF b
<1>4. c \in St!Store /\ c.vals = [d.vals EXCEPT ![s.id] = s] /\ c.idxs = b.idxs /\ c.bkts = b.bkts
  BY <1>2, <1>3 DEF St!Store, St!SetValue
<1> HIDE DEF c
<1>5. /\ e \in St!Store /\ e.vals = c.vals
      /\ e.bkts = d.bkts \cup {<<"chan", s.chan>>, <<"lines", s.chan>>}
      /\ \A k \in StatKeys : e.idxs[k] = IF k \in K(s) THEN s.id ELSE c.idxs[k]
  <2> DEFINE x == [k \in StatKeys |-> IF k \in K(s) THEN s.id ELSE c.idxs[k]]
             y == c.bkts \cup UNION {[j \in StatKeys |-> {<<j[1], j[2]>>}][k] : k \in K(s)}
  <2>1. e = [c EXCEPT !.idxs = x, !.bkts = y]
    BY StatIs DEF St!PutIndex
  <2>2. x \in [StatKeys -> Id \cup {None}]
    BY <1>2, <1>4 DEF St!Store
  <2>3. y = d.bkts \cup {<<"chan", s.chan>>, <<"lines", s.chan>>}
    <3>1. /\ K(s) \subseteq StatKeys
          /\ \A k \in K(s) : [j \in StatKeys |-> {<<j[1], j[2]>>}][k] = {<<k[1], k[2]>>}
      BY StatIs
    <3>2. /\ ByNick(s.nick, s.chan)[1] = "chan" /\ ByNick(s.nick, s.chan)[2] = s.chan
          /\ ByLines(s.chan, s.lines)[1] = "lines" /\ ByLines(s.chan, s.lines)[2] = s.chan
      BY DEF ByNick, ByLines
    <3>3. UNION {[j \in StatKeys |-> {<<j[1], j[2]>>}][k] : k \in K(s)}
            = {<<"chan", s.chan>>, <<"lines", s.chan>>}
      BY <3>1, <3>2
    <3> QED BY <1>3, <1>4, <3>3
  <2>4. y \subseteq {<<k[1], k[2]>> : k \in StatKeys}
    <3>1. /\ ByNick(s.nick, s.chan) \in StatKeys /\ ByLines(s.chan, s.lines) \in StatKeys
      BY StatIs
    <3>2. d.bkts \subseteq {<<k[1], k[2]>> : k \in StatKeys}
      BY DEF St!Store
    <3>3. /\ <<"chan", s.chan>> = <<ByNick(s.nick, s.chan)[1], ByNick(s.nick, s.chan)[2]>>
          /\ <<"lines", s.chan>> = <<ByLines(s.chan, s.lines)[1], ByLines(s.chan, s.lines)[2]>>
      BY DEF ByNick, ByLines
    <3> QED BY <2>3, <3>1, <3>2, <3>3
  <2>5. \A k \in StatKeys : x[k] = IF k \in K(s) THEN s.id ELSE c.idxs[k]
    OBVIOUS
  <2> HIDE DEF x, y
  <2> QED BY <1>4, <2>1, <2>2, <2>3, <2>4, <2>5 DEF St!Store
<1> HIDE DEF e
<1> QED BY <1>1, <1>3, <1>4, <1>5

Say == [pc : {"idle", "get", "put"}, nick : Nick \cup {None}, chan : Channel \cup {None},
        s : Stat \cup {None}, seen : Stat \cup {None}]
SayOK(h) ==
    /\ h \in Say
    /\ h.pc # "idle" => h.nick \in Nick
    /\ h.pc = "put" => h.seen = h.s

StatsType ==
    /\ stats \in St!Store
    /\ saying \in [Conn -> Say] /\ \A c \in Conn : SayOK(saying[c])
    /\ lines \in 0 .. MaxEvents
    /\ told \in [Nick \X Channel -> Nat]

Busy == {c \in Conn : saying[c].pc # "idle"}
Total == Cardinality(St!Stored(stats))

\* A handler still at work has a record to make or a line to add to one.
StatsCounted ==
    /\ IsFiniteSet(Busy) /\ IsFiniteSet(St!Stored(stats))
    /\ Total + Cardinality(Busy) <= lines
    /\ \A i \in Id : stats.vals[i] # None => stats.vals[i].lines + Cardinality(Busy) <= lines
    /\ \A c \in Conn : saying[c].pc = "put" /\ saying[c].s # None =>
            saying[c].s.lines + Cardinality(Busy) <= lines

StatsPlaced ==
    \A i \in Id : /\ stats.vals[i] # None <=> i <= Total
                  /\ stats.vals[i] # None => /\ stats.vals[i].id = i
                                             /\ Housed(stats, stats.vals[i])

\* What a handler holds is of the nick and the channel of its line, as is what is stored.
StatsHeld ==
    \A c \in Conn : LET h == saying[c] IN
        h.pc = "put" /\ h.s # None =>
            /\ h.chan # None /\ h.s.nick = h.nick /\ h.s.chan = h.chan
            /\ stats.vals[h.s.id] # None
            /\ stats.vals[h.s.id].nick = h.nick /\ stats.vals[h.s.id].chan = h.chan
            /\ h.s.lines <= told[<<h.nick, h.chan>>]

StatsPointed ==
    /\ \A n \in Nick, ch \in Ch :
            LET i == stats.idxs[ByNick(n, ch)] IN
            i # None => stats.vals[i] # None /\ stats.vals[i].nick = n /\ stats.vals[i].chan = ch
    /\ \A n \in Nick, m \in Nick : stats.idxs[ByNick(n, m)] = None
    /\ \A ch \in Ch, l \in 1 .. MaxEvents :
            LET i == stats.idxs[ByLines(ch, l)] IN
            i # None => stats.vals[i] # None /\ stats.vals[i].chan = ch /\ stats.vals[i].lines = l

StatsTold ==
    \A n \in Nick, ch \in Channel :
        LET i == stats.idxs[ByNick(n, ch)] IN
        IF <<n, ch>> \in met THEN i # None /\ stats.vals[i].lines <= told[<<n, ch>>]
        ELSE IF i = None THEN told[<<n, ch>>] = 0 ELSE stats.vals[i].lines = told[<<n, ch>>]

StatsListed ==
    \A i \in Id :
        stats.vals[i] # None /\ (\A n \in Nick : <<n, stats.vals[i].chan>> \notin met) =>
            \E l \in 1 .. MaxEvents : /\ l >= stats.vals[i].lines
                                      /\ stats.idxs[ByLines(stats.vals[i].chan, l)] # None

StatsInv ==
    /\ StatsType /\ StatsCounted /\ StatsPlaced /\ StatsHeld
    /\ StatsPointed /\ StatsTold /\ StatsListed

LEMMA NamesDiffer == "me" \notin Channel /\ "me" \notin Nick /\ Nick \cap Channel = {}
                     /\ None \notin Nick /\ None \notin Channel /\ None \notin Id
                     /\ MaxId \in Nat /\ MaxEvents \in Nat /\ MaxEvents <= MaxId
BY HandlersAssumption, CountersAssumption DEF Id

LEMMA NoSayOK == SayOK(NoSay) /\ NoSay.pc = "idle"
BY DEF SayOK, Say, NoSay

LEMMA KeysIn ==
    /\ \A n \in Nick, ch \in Ch \cup Nick : ByNick(n, ch) \in StatKeys
    /\ \A ch \in Ch, l \in 1 .. MaxEvents : ByLines(ch, l) \in StatKeys
BY DEF StatKeys, Ch

LEMMA StatsStart == CountersInit => StatsInv
<1> SUFFICES ASSUME CountersInit PROVE StatsInv
  OBVIOUS
<1>1. StatsType
  BY NoSayOK, NamesDiffer DEF CountersInit, StatsType, St!EmptyStore, St!Store, SayOK
<1>2. St!Stored(stats) = {} /\ Busy = {} /\ \A c \in Conn : saying[c].pc = "idle"
  BY NoSayOK DEF CountersInit, St!EmptyStore, St!Stored, Busy
<1>3. Total = 0 /\ IsFiniteSet(St!Stored(stats)) /\ IsFiniteSet(Busy) /\ Cardinality(Busy) = 0
  BY <1>2, FS_EmptySet DEF Total
<1>4. /\ \A i \in Id : stats.vals[i] = None
      /\ \A k \in StatKeys : stats.idxs[k] = None
      /\ lines = 0 /\ met = {} /\ \A n \in Nick, ch \in Channel : told[<<n, ch>>] = 0
  <2>1. \A n \in Nick, ch \in Channel : <<n, ch>> \in Nick \X Channel
    OBVIOUS
  <2> QED BY <2>1 DEF CountersInit, St!EmptyStore
<1>5. StatsCounted /\ StatsPlaced /\ StatsHeld /\ StatsListed
  BY <1>2, <1>3, <1>4 DEF StatsCounted, StatsPlaced, StatsHeld, StatsListed, Id
<1>6. StatsPointed
  BY <1>4, KeysIn DEF StatsPointed
<1>7. StatsTold
  BY <1>4, KeysIn DEF StatsTold, Ch
<1> QED BY <1>1, <1>5, <1>6, <1>7 DEF StatsInv

\* A lookup follows the pointer; in private there is none.
LEMMA LookupIs ==
    ASSUME StatsInv, NEW n \in Nick
    PROVE  /\ \A ch \in Ch : St!Lookup(stats, ByNick(n, ch)) =
                 IF stats.idxs[ByNick(n, ch)] = None THEN None
                 ELSE stats.vals[stats.idxs[ByNick(n, ch)]]
           /\ \A m \in Nick : St!Lookup(stats, ByNick(n, m)) = None
<1>1. ASSUME NEW ch \in Ch, stats.idxs[ByNick(n, ch)] # None
      PROVE  St!Found(stats, ByNick(n, ch))
  <2> DEFINE k == ByNick(n, ch)
             i == stats.idxs[k]
  <2>1. k \in StatKeys /\ k[1] = "chan" /\ k[2] = ch
    BY KeysIn DEF ByNick
  <2>2. i \in Id
    BY <1>1, <2>1 DEF StatsInv, StatsType, St!Store
  <2>3. stats.vals[i] # None /\ stats.vals[i].chan = ch
    BY <1>1 DEF StatsInv, StatsPointed
  <2>4. <<"chan", ch>> \in stats.bkts
    BY <2>2, <2>3 DEF StatsInv, StatsPlaced, Housed
  <2> QED BY <2>1, <2>4 DEF St!Found
<1>2. ASSUME NEW m \in Nick PROVE stats.idxs[ByNick(n, m)] = None
  BY DEF StatsInv, StatsPointed
<1> QED BY <1>1, <1>2 DEF St!Lookup

\* Handlers at work.
LEMMA BusyIs ==
    ASSUME NEW c \in Conn, NEW h, saying \in [Conn -> Say], saying' = [saying EXCEPT ![c] = h],
           IsFiniteSet(Busy)
    PROVE  /\ IsFiniteSet(Busy')
           /\ Cardinality(Busy') = Cardinality(Busy)
                + (IF h.pc # "idle" THEN 1 ELSE 0) - (IF saying[c].pc # "idle" THEN 1 ELSE 0)
<1>1. Busy' = IF h.pc # "idle" THEN Busy \cup {c} ELSE Busy \ {c}
  BY DEF Busy
<1>2. c \in Busy <=> saying[c].pc # "idle"
  BY DEF Busy
<1>3. Cardinality(Busy) \in Nat
  BY FS_CardinalityType
<1>4. CASE h.pc # "idle"
  BY <1>1, <1>2, <1>3, <1>4, FS_AddElement
<1>5. CASE h.pc = "idle"
  BY <1>1, <1>2, <1>3, <1>5, FS_RemoveElement
<1> QED BY <1>4, <1>5

\* Steps that leave the collection alone.
LEMMA StatsStay ==
    ASSUME StatsInv, NEW c \in Conn, NEW h, SayOK(h), saying' = [saying EXCEPT ![c] = h],
           UNCHANGED <<stats, told>>, met \subseteq met',
           \A n \in Nick, ch \in Channel : <<n, ch>> \in met' <=> <<n, ch>> \in met,
           lines' \in 0 .. MaxEvents, lines' >= lines,
           saying[c].pc # "idle" \/ h.pc = "idle" \/ lines' = lines + 1,
           h.pc = "put" /\ h.s # None =>
              /\ h.chan # None /\ h.s.nick = h.nick /\ h.s.chan = h.chan
              /\ stats.vals[h.s.id] # None
              /\ stats.vals[h.s.id].nick = h.nick /\ stats.vals[h.s.id].chan = h.chan
              /\ h.s.lines <= told[<<h.nick, h.chan>>]
              /\ saying[c].pc # "idle" /\ h.s.lines + Cardinality(Busy) <= lines
    PROVE  StatsInv'
<1>1. StatsType
  BY DEF StatsInv
<1>2. \A d \in Conn : saying'[d] = IF d = c THEN h ELSE saying[d]
  BY <1>1 DEF StatsType
<1>3. StatsType'
  <2>1. saying' \in [Conn -> Say]
    BY <1>1 DEF StatsType, SayOK
  <2> QED BY <1>1, <1>2, <2>1 DEF StatsType
<1>4. StatsCounted'
  <2>1. /\ IsFiniteSet(Busy) /\ IsFiniteSet(Busy')
        /\ Cardinality(Busy') = Cardinality(Busy)
                + (IF h.pc # "idle" THEN 1 ELSE 0) - (IF saying[c].pc # "idle" THEN 1 ELSE 0)
    BY <1>1, BusyIs DEF StatsInv, StatsCounted, StatsType
  <2>2. Cardinality(Busy) \in Nat /\ Cardinality(Busy') \in Nat
    BY <2>1, FS_CardinalityType
  <2>3. /\ lines \in Nat /\ lines' \in Nat
        /\ Cardinality(Busy') <= Cardinality(Busy) + (lines' - lines)
        /\ saying[c].pc # "idle" => Cardinality(Busy') <= Cardinality(Busy)
    BY <1>1, <2>1, <2>2 DEF StatsType
  <2>4. IsFiniteSet(St!Stored(stats)) /\ Total \in Nat /\ Total' = Total
        /\ St!Stored(stats)' = St!Stored(stats)
    BY FS_CardinalityType DEF StatsInv, StatsCounted, Total, St!Stored
  <2>5. \A i \in Id : stats.vals[i] # None => stats.vals[i].lines \in Nat
    <3>1. \A i \in Id : stats.vals[i] \in Stat \cup {None}
      BY <1>1 DEF StatsType, St!Store
    <3> QED BY <3>1, StatIs
  <2>6. \A d \in Conn : saying[d].s # None => saying[d].s.lines \in Nat
    BY <1>1, StatIs DEF StatsType, Say
  <2>7. h.s # None => h.s.lines \in Nat
    BY StatIs DEF SayOK, Say
  <2>8. Total + Cardinality(Busy') <= lines'
    BY <2>2, <2>3, <2>4 DEF StatsInv, StatsCounted
  <2>9. \A i \in Id : stats.vals[i] # None => stats.vals[i].lines + Cardinality(Busy') <= lines'
    BY <2>2, <2>3, <2>5 DEF StatsInv, StatsCounted
  <2>10. ASSUME NEW d \in Conn, saying'[d].pc = "put", saying'[d].s # None
         PROVE  saying'[d].s.lines + Cardinality(Busy') <= lines'
    <3>1. CASE d = c
      <4>1. h.s.lines + Cardinality(Busy) <= lines /\ Cardinality(Busy') <= Cardinality(Busy)
        BY <1>2, <2>3, <2>10, <3>1
      <4> QED BY <1>2, <2>2, <2>3, <2>7, <2>10, <3>1, <4>1
    <3>2. CASE d # c
      <4>1. saying[d].s.lines + Cardinality(Busy) <= lines /\ saying[d].s.lines \in Nat
        BY <1>2, <2>6, <2>10, <3>2 DEF StatsInv, StatsCounted
      <4> QED BY <1>2, <2>2, <2>3, <3>2, <4>1
    <3> QED BY <3>1, <3>2
  <2> QED BY <2>1, <2>4, <2>8, <2>9, <2>10 DEF StatsCounted
<1>5. Total' = Total /\ StatsPlaced'
  BY DEF StatsInv, StatsPlaced, Total, St!Stored, Housed
<1>6. StatsHeld'
  BY <1>2 DEF StatsInv, StatsHeld
<1>7. StatsPointed'
  BY DEF StatsInv, StatsPointed
<1>8. StatsTold'
  BY DEF StatsInv, StatsTold
<1>9. StatsListed'
  <2> SUFFICES ASSUME NEW i \in Id, stats.vals[i] # None,
                      \A n \in Nick : <<n, stats.vals[i].chan>> \notin met'
               PROVE  \E l \in 1 .. MaxEvents :
                        /\ l >= stats.vals[i].lines
                        /\ stats.idxs[ByLines(stats.vals[i].chan, l)] # None
    BY DEF StatsListed
  <2> QED BY DEF StatsInv, StatsListed
<1> QED BY <1>3, <1>4, <1>5, <1>6, <1>7, <1>8, <1>9 DEF StatsInv

LEMMA StepLineStats ==
    ASSUME StatsInv, NEW c \in Conn, Line(c)
    PROVE  StatsInv'
<1>1. PICK l \in Said :
          /\ saying[c] = NoSay /\ lines < MaxEvents /\ lines' = lines + 1
          /\ saying' = [saying EXCEPT ![c] = [NoSay EXCEPT !.pc = "get", !.nick = l[1], !.chan = l[2]]]
          /\ UNCHANGED <<stats, told, met>>
  BY DEF Line
<1> DEFINE h == [NoSay EXCEPT !.pc = "get", !.nick = l[1], !.chan = l[2]]
<1>2. SayOK(h) /\ h.pc = "get"
  <2>1. l[1] \in Nick /\ l[2] \in Channel \cup {None}
    BY CountersAssumption
  <2>2. h.pc = "get" /\ h.nick = l[1]
    BY DEF NoSay
  <2>3. h \in Say
    BY <2>1 DEF Say, NoSay
  <2> QED BY <2>1, <2>2, <2>3 DEF SayOK
<1>3. lines' \in 0 .. MaxEvents /\ lines' >= lines
  <2>1. lines \in 0 .. MaxEvents
    BY DEF StatsInv, StatsType
  <2> QED BY <1>1, <2>1, NamesDiffer
<1>4. saying' = [saying EXCEPT ![c] = h]
  BY <1>1
<1> HIDE DEF h
<1> QED BY <1>1, <1>2, <1>3, <1>4, StatsStay

LEMMA StepGetStat ==
    ASSUME StatsInv, NEW c \in Conn, GetStat(c)
    PROVE  StatsInv'
<1> DEFINE g == saying[c]
           at == IF g.chan = None THEN g.nick ELSE g.chan
           s == St!Lookup(stats, ByNick(g.nick, at))
           h == [g EXCEPT !.pc = "put", !.s = s, !.seen = s]
<1>1. /\ g \in Say /\ g.pc = "get" /\ g.nick \in Nick
      /\ saying' = [saying EXCEPT ![c] = h] /\ UNCHANGED <<stats, told, met, lines>>
  <2>1. SayOK(g) /\ g.pc = "get"
    BY DEF StatsInv, StatsType, GetStat
  <2> QED BY <2>1 DEF GetStat, SayOK
<1>2. g.chan = None => s = None
  BY <1>1, LookupIs
<1>3. ASSUME s # None
      PROVE  /\ g.chan \in Channel /\ s \in Stat /\ s.nick = g.nick /\ s.chan = g.chan
             /\ stats.vals[s.id] = s /\ s.lines <= told[<<g.nick, g.chan>>]
             /\ s.lines + Cardinality(Busy) <= lines
  <2>1. g.chan \in Channel
    BY <1>1, <1>2, <1>3 DEF Say
  <2> DEFINE i == stats.idxs[ByNick(g.nick, g.chan)]
  <2>2. i # None /\ s = stats.vals[i] /\ g.chan \in Ch
    BY <1>1, <1>3, <2>1, LookupIs, NamesDiffer DEF Ch
  <2>3. i \in Id
    BY <1>1, <2>2, KeysIn DEF StatsInv, StatsType, St!Store
  <2>4. s \in Stat /\ s.id = i /\ s.lines + Cardinality(Busy) <= lines
    <3>1. stats.vals[i] # None
      BY <1>3, <2>2
    <3>2. stats.vals[i] \in Stat
      BY <2>3, <3>1 DEF StatsInv, StatsType, St!Store
    <3>3. stats.vals[i].id = i
      BY <2>3, <3>1 DEF StatsInv, StatsPlaced
    <3>4. stats.vals[i].lines + Cardinality(Busy) <= lines
      BY <2>3, <3>1 DEF StatsInv, StatsCounted
    <3> QED BY <2>2, <3>2, <3>3, <3>4
  <2>5. s.nick = g.nick /\ s.chan = g.chan
    <3>1. \A n \in Nick, ch \in Ch :
              stats.idxs[ByNick(n, ch)] # None =>
                  /\ stats.vals[stats.idxs[ByNick(n, ch)]].nick = n
                  /\ stats.vals[stats.idxs[ByNick(n, ch)]].chan = ch
      BY DEF StatsInv, StatsPointed
    <3> HIDE DEF g
    <3> QED BY <1>1, <2>2, <3>1
  <2>6. s.lines <= told[<<g.nick, g.chan>>]
    <3>1. <<g.nick, g.chan>> \in Nick \X Channel
      BY <1>1, <2>1
    <3>2. told[<<g.nick, g.chan>>] \in Nat /\ s.lines \in Nat
      BY <2>4, <3>1, StatIs DEF StatsInv, StatsType
    <3> QED BY <1>1, <2>1, <2>2, <3>2 DEF StatsInv, StatsTold
  <2> QED BY <2>1, <2>2, <2>4, <2>5, <2>6
<1> HIDE DEF s
<1>4. s \in Stat \cup {None}
  BY <1>3
<1>5. /\ h \in Say /\ h.pc = "put" /\ h.s = s /\ h.seen = s /\ h.nick = g.nick /\ h.chan = g.chan
  BY <1>1, <1>4 DEF Say
<1>6. SayOK(h)
  BY <1>1, <1>5 DEF SayOK
<1>7. lines' \in 0 .. MaxEvents /\ lines' >= lines
  BY <1>1 DEF StatsInv, StatsType
<1>8. h.s # None =>
              /\ h.chan # None /\ h.s.nick = h.nick /\ h.s.chan = h.chan
              /\ stats.vals[h.s.id] # None
              /\ stats.vals[h.s.id].nick = h.nick /\ stats.vals[h.s.id].chan = h.chan
              /\ h.s.lines <= told[<<h.nick, h.chan>>]
              /\ h.s.lines + Cardinality(Busy) <= lines
  BY <1>3, <1>5, NamesDiffer
<1> HIDE DEF h
<1> QED BY <1>1, <1>6, <1>7, <1>8, StatsStay

\* The steps of the votes do not touch the counts.
LEMMA StatsOfKarma ==
    ASSUME StatsInv, NEW c \in Conn, UNCHANGED <<stats, saying, lines, told>>, met \subseteq met',
           \A n \in Nick, ch \in Channel : <<n, ch>> \in met' <=> <<n, ch>> \in met
    PROVE  StatsInv'
<1> DEFINE h == saying[c]
<1>1. SayOK(h) /\ saying' = [saying EXCEPT ![c] = h]
  BY DEF StatsInv, StatsType
<1>2. h.pc = "put" /\ h.s # None =>
              /\ h.chan # None /\ h.s.nick = h.nick /\ h.s.chan = h.chan
              /\ stats.vals[h.s.id] # None
              /\ stats.vals[h.s.id].nick = h.nick /\ stats.vals[h.s.id].chan = h.chan
              /\ h.s.lines <= told[<<h.nick, h.chan>>]
              /\ h.pc # "idle" /\ h.s.lines + Cardinality(Busy) <= lines
  BY DEF StatsInv, StatsHeld, StatsCounted
<1>3. lines' \in 0 .. MaxEvents /\ lines' >= lines
  BY DEF StatsInv, StatsType
<1> QED BY <1>1, <1>2, <1>3, StatsStay

\* What PutStat puts, x, under an id that is the next or that of the record it read.
LEMMA PutIs ==
    ASSUME StatsInv, NEW c \in Conn, PutStat(c)
    PROVE  \E x \in Stat : LET h == saying[c]
                               old == stats.vals[x.id] IN
              /\ stats' = St!PutTx(stats, x) /\ h.pc = "put" /\ h.nick \in Nick
              /\ x.nick = h.nick /\ (h.s # None => h.chan # None)
              /\ x.chan = IF h.chan = None THEN "me" ELSE h.chan
              /\ IF h.s = None THEN old = None /\ x.id = Total + 1 /\ x.lines = 1
                 ELSE /\ old # None /\ old.nick = x.nick /\ old.chan = x.chan
                      /\ x.id = h.s.id /\ x.lines = h.s.lines + 1
              /\ x.lines + Cardinality(Busy) <= lines + 1
              /\ c \in Busy /\ Cardinality(Busy) \in Nat \ {0}
<1> DEFINE h == saying[c]
           ns == IF h.s = None THEN NewStat(h) ELSE h.s
           x == [ns EXCEPT !.lines = @ + 1]
<1>1. /\ h \in Say /\ h.pc = "put" /\ h.nick \in Nick /\ stats' = St!PutTx(stats, x)
  <2>1. SayOK(h) /\ h.pc = "put"
    BY DEF StatsInv, StatsType, PutStat
  <2> QED BY <2>1 DEF PutStat, SayOK
<1>2. /\ c \in Busy /\ Cardinality(Busy) \in Nat \ {0}
      /\ Total \in Nat /\ Total + Cardinality(Busy) <= lines /\ lines <= MaxEvents /\ lines \in Nat
  <2>1. c \in Busy
    BY <1>1 DEF Busy
  <2>2. IsFiniteSet(Busy) /\ IsFiniteSet(St!Stored(stats)) /\ Total + Cardinality(Busy) <= lines
    BY DEF StatsInv, StatsCounted
  <2>3. Cardinality(Busy) \in Nat /\ Cardinality(Busy) # 0 /\ Total \in Nat
    BY <2>1, <2>2, FS_CardinalityType, FS_EmptySet DEF Total
  <2> QED BY <2>1, <2>2, <2>3, NamesDiffer DEF StatsInv, StatsType
<1>3. CASE h.s = None
  <2>1. /\ x.id = Total + 1 /\ x.lines = 1 /\ x.nick = h.nick
        /\ x.chan = IF h.chan = None THEN "me" ELSE h.chan
        /\ x = [id |-> Total + 1, nick |-> h.nick, lines |-> 1,
                chan |-> IF h.chan = None THEN "me" ELSE h.chan]
    <3>1. Total \in Nat /\ 1 + Total = Total + 1 /\ 0 + 1 = 1
      BY <1>2
    <3> QED BY <1>3, <3>1 DEF NewStat, Total
  <2>2. Total + 1 \in Id /\ 1 \in 1 .. MaxEvents
    BY <1>2, NamesDiffer DEF Id
  <2>3. (IF h.chan = None THEN "me" ELSE h.chan) \in Channel \cup {"me"}
    BY <1>1 DEF Say
  <2>4. x \in Stat
    BY <1>1, <2>1, <2>2, <2>3 DEF Stat
  <2>5. stats.vals[x.id] = None
    BY <1>2, <2>1, <2>2 DEF StatsInv, StatsPlaced
  <2>6. x.lines + Cardinality(Busy) <= lines + 1
    BY <1>2, <2>1
  <2> HIDE DEF x
  <2> QED BY <1>1, <1>2, <1>3, <2>1, <2>4, <2>5, <2>6
<1>4. CASE h.s # None
  <2>1. h.s \in Stat
    BY <1>1, <1>4 DEF Say
  <2>2. /\ h.chan # None /\ h.s.nick = h.nick /\ h.s.chan = h.chan
        /\ stats.vals[h.s.id] # None
        /\ stats.vals[h.s.id].nick = h.nick /\ stats.vals[h.s.id].chan = h.chan
        /\ h.s.lines + Cardinality(Busy) <= lines
    BY <1>1, <1>4 DEF StatsInv, StatsHeld, StatsCounted
  <2>3. h.s.lines \in Nat
    BY <2>1, StatIs
  <2>4. h.s.lines + 1 \in 1 .. MaxEvents
    BY <1>2, <2>2, <2>3, NamesDiffer
  <2>5. x = [h.s EXCEPT !.lines = @ + 1]
    BY <1>4
  <2>6. /\ x \in Stat /\ x.id = h.s.id /\ x.nick = h.s.nick /\ x.chan = h.s.chan
        /\ x.lines = h.s.lines + 1
    BY <2>1, <2>4, <2>5 DEF Stat
  <2>7. x.lines + Cardinality(Busy) <= lines + 1
    BY <1>2, <2>2, <2>3, <2>6
  <2> HIDE DEF x
  <2> QED BY <1>1, <1>2, <1>4, <2>2, <2>6, <2>7
<1> QED BY <1>3, <1>4

\* What the collection is after that.
LEMMA AfterPut ==
    ASSUME StatsInv, NEW x \in Stat, stats' = St!PutTx(stats, x),
           stats.vals[x.id] # None => stats.vals[x.id].nick = x.nick /\ stats.vals[x.id].chan = x.chan
    PROVE  /\ stats' \in St!Store
           /\ \A i \in Id : stats'.vals[i] = IF i = x.id THEN x ELSE stats.vals[i]
           /\ stats.bkts \subseteq stats'.bkts /\ Housed(stats', x)
           /\ \A n \in Nick, ch \in Ch \cup Nick : stats'.idxs[ByNick(n, ch)] =
                 IF n = x.nick /\ ch = x.chan THEN x.id ELSE stats.idxs[ByNick(n, ch)]
           /\ \A ch \in Ch, l \in 1 .. MaxEvents : stats'.idxs[ByLines(ch, l)] =
                 IF ch = x.chan /\ l = x.lines THEN x.id
                 ELSE IF stats.vals[x.id] # None /\ ch = x.chan /\ l = stats.vals[x.id].lines
                 THEN None ELSE stats.idxs[ByLines(ch, l)]
<1> DEFINE old == stats.vals[x.id]
<1>1. stats \in St!Store /\ x.id \in Id /\ (old # None => Housed(stats, old))
  BY StatIs DEF StatsInv, StatsType, StatsPlaced
<1>2. /\ stats' \in St!Store
      /\ stats'.vals = [stats.vals EXCEPT ![x.id] = x]
      /\ stats'.bkts = stats.bkts \cup {<<"chan", x.chan>>, <<"lines", x.chan>>}
      /\ \A k \in StatKeys : stats'.idxs[k] =
            IF k = ByNick(x.nick, x.chan) \/ k = ByLines(x.chan, x.lines) THEN x.id
            ELSE IF old # None /\ (k = ByNick(old.nick, old.chan) \/ k = ByLines(old.chan, old.lines))
            THEN None ELSE stats.idxs[k]
  BY <1>1, PutStatIs
<1>3. \A i \in Id : stats'.vals[i] = IF i = x.id THEN x ELSE stats.vals[i]
  BY <1>1, <1>2 DEF St!Store
<1>4. stats.bkts \subseteq stats'.bkts /\ Housed(stats', x)
  BY <1>2 DEF Housed
<1>5. \A n, m, ch, dh : ByNick(n, ch) = ByNick(m, dh) <=> n = m /\ ch = dh
  BY DEF ByNick
<1>6. \A k, l, ch, dh : ByLines(ch, l) = ByLines(dh, k) <=> l = k /\ ch = dh
  BY DEF ByLines
<1>7. \A n, l, ch, dh : ByNick(n, ch) # ByLines(dh, l)
  BY DEF ByNick, ByLines
<1> HIDE DEF old
<1>8. ASSUME NEW n \in Nick, NEW ch \in Ch \cup Nick
      PROVE  stats'.idxs[ByNick(n, ch)] =
                 IF n = x.nick /\ ch = x.chan THEN x.id ELSE stats.idxs[ByNick(n, ch)]
  <2>1. ByNick(n, ch) \in StatKeys
    BY KeysIn
  <2>2. old # None => old.nick = x.nick /\ old.chan = x.chan
    BY DEF old
  <2> QED BY <1>2, <1>5, <1>7, <2>1, <2>2
<1>9. ASSUME NEW ch \in Ch, NEW l \in 1 .. MaxEvents
      PROVE  stats'.idxs[ByLines(ch, l)] =
                 IF ch = x.chan /\ l = x.lines THEN x.id
                 ELSE IF old # None /\ ch = x.chan /\ l = old.lines
                 THEN None ELSE stats.idxs[ByLines(ch, l)]
  <2>1. ByLines(ch, l) \in StatKeys
    BY KeysIn
  <2>2. old # None => old.nick = x.nick /\ old.chan = x.chan
    BY DEF old
  <2> QED BY <1>2, <1>6, <1>7, <2>1, <2>2
<1> QED BY <1>2, <1>3, <1>4, <1>8, <1>9 DEF old

\* One more is stored if the id is new.
LEMMA TotalAfter ==
    ASSUME StatsInv, NEW x \in Stat, stats' = St!PutTx(stats, x),
           stats.vals[x.id] # None => stats.vals[x.id].nick = x.nick /\ stats.vals[x.id].chan = x.chan
    PROVE  /\ IsFiniteSet(St!Stored(stats))'
           /\ Total \in Nat
           /\ Total' = IF stats.vals[x.id] = None THEN Total + 1 ELSE Total
<1> DEFINE S == St!Stored(stats)
           old == stats.vals[x.id]
<1>1. /\ \A i \in Id : stats'.vals[i] = IF i = x.id THEN x ELSE stats.vals[i]
      /\ x.id \in Id /\ x # None /\ \A i \in Id : stats.vals[i] # None => stats.vals[i].id = i
  BY AfterPut, StatIs DEF StatsInv, StatsPlaced
<1>2. St!Stored(stats)' = (S \ {old}) \cup {x}
  BY <1>1 DEF St!Stored
<1>3. x \notin S \ {old}
  BY <1>1 DEF St!Stored
<1>4. IsFiniteSet(S) /\ Cardinality(S) \in Nat
  BY FS_CardinalityType DEF StatsInv, StatsCounted
<1>5. old \in S <=> old # None
  BY <1>1 DEF St!Stored
<1> HIDE DEF S, old
<1>6. /\ IsFiniteSet(S \ {old})
      /\ Cardinality(S \ {old}) = IF old = None THEN Cardinality(S) ELSE Cardinality(S) - 1
  BY <1>4, <1>5, FS_RemoveElement
<1>7. /\ IsFiniteSet((S \ {old}) \cup {x})
      /\ Cardinality((S \ {old}) \cup {x}) = Cardinality(S \ {old}) + 1
  BY <1>3, <1>6, FS_AddElement
<1> QED BY <1>2, <1>4, <1>6, <1>7 DEF Total, S, old

LEMMA StepPutStat ==
    ASSUME StatsInv, NEW c \in Conn, PutStat(c)
    PROVE  StatsInv'
<1> DEFINE h == saying[c]
           at == <<h.nick, h.chan>>
<1>1. PICK x \in Stat : LET old == stats.vals[x.id] IN
              /\ stats' = St!PutTx(stats, x) /\ h.pc = "put" /\ h.nick \in Nick
              /\ x.nick = h.nick /\ (h.s # None => h.chan # None)
              /\ x.chan = IF h.chan = None THEN "me" ELSE h.chan
              /\ IF h.s = None THEN old = None /\ x.id = Total + 1 /\ x.lines = 1
                 ELSE /\ old # None /\ old.nick = x.nick /\ old.chan = x.chan
                      /\ x.id = h.s.id /\ x.lines = h.s.lines + 1
              /\ x.lines + Cardinality(Busy) <= lines + 1
              /\ c \in Busy /\ Cardinality(Busy) \in Nat \ {0}
  BY PutIs
<1> DEFINE old == stats.vals[x.id]
<1>2. /\ UNCHANGED lines /\ saying' = [saying EXCEPT ![c] = NoSay]
      /\ told' = IF h.chan = None THEN told ELSE [told EXCEPT ![at] = @ + 1]
      /\ met' = IF h.chan # None /\ St!Lookup(stats, ByNick(h.nick, h.chan)) # h.seen
                THEN met \cup {at} ELSE met
      /\ h \in Say /\ h.seen = h.s
  <2>1. SayOK(h) /\ h.pc = "put"
    BY DEF StatsInv, StatsType, PutStat
  <2> QED BY <2>1 DEF PutStat, SayOK
<1>3. old # None => old.nick = x.nick /\ old.chan = x.chan
  BY <1>1
<1>4. /\ stats' \in St!Store
      /\ \A i \in Id : stats'.vals[i] = IF i = x.id THEN x ELSE stats.vals[i]
      /\ stats.bkts \subseteq stats'.bkts /\ Housed(stats', x)
      /\ \A n \in Nick, ch \in Ch \cup Nick : stats'.idxs[ByNick(n, ch)] =
            IF n = x.nick /\ ch = x.chan THEN x.id ELSE stats.idxs[ByNick(n, ch)]
      /\ \A ch \in Ch, l \in 1 .. MaxEvents : stats'.idxs[ByLines(ch, l)] =
            IF ch = x.chan /\ l = x.lines THEN x.id
            ELSE IF old # None /\ ch = x.chan /\ l = old.lines
            THEN None ELSE stats.idxs[ByLines(ch, l)]
  BY <1>1, <1>3, AfterPut
<1>5. /\ IsFiniteSet(St!Stored(stats))' /\ Total \in Nat
      /\ Total' = IF old = None THEN Total + 1 ELSE Total
  BY <1>1, <1>3, TotalAfter
<1>6. /\ x.id \in Id /\ x.nick \in Nick /\ x.chan \in Ch /\ x.lines \in 1 .. MaxEvents /\ x # None
      /\ \A i \in Id : stats.vals[i] \in Stat \cup {None}
  BY StatIs DEF StatsInv, StatsType, St!Store
<1>7. \A d \in Conn : saying'[d] = IF d = c THEN NoSay ELSE saying[d]
  BY <1>2 DEF StatsInv, StatsType
<1>8. /\ told' \in [Nick \X Channel -> Nat]
      /\ \A n \in Nick, ch \in Channel : told'[<<n, ch>>] =
            IF n = x.nick /\ ch = x.chan THEN told[<<n, ch>>] + 1 ELSE told[<<n, ch>>]
  <2>1. told \in [Nick \X Channel -> Nat]
    BY DEF StatsInv, StatsType
  <2>2. CASE h.chan = None
    BY <1>1, <1>2, <2>1, <2>2, NamesDiffer
  <2>3. CASE h.chan # None
    <3>1. at \in Nick \X Channel /\ h.chan \in Channel /\ x.chan = h.chan
      BY <1>1, <1>2, <2>3 DEF Say
    <3>2. told' = [told EXCEPT ![at] = @ + 1]
      BY <1>2, <2>3
    <3>3. \A n \in Nick, ch \in Channel : <<n, ch>> \in Nick \X Channel
                                          /\ (<<n, ch>> = at <=> n = x.nick /\ ch = x.chan)
      BY <1>1, <3>1
    <3> HIDE DEF at
    <3> QED BY <2>1, <3>1, <3>2, <3>3
  <2> QED BY <2>2, <2>3
<1>9. /\ met \subseteq met'
      /\ \A n \in Nick, ch \in Channel : <<n, ch>> \in met' =>
            <<n, ch>> \in met \/ (n = x.nick /\ ch = x.chan)
  BY <1>1, <1>2
\* When the put crosses none, what it overwrites is what it read.
<1>10. ASSUME x.chan \in Channel, <<x.nick, x.chan>> \notin met'
       PROVE  IF h.s = None THEN stats.idxs[ByNick(x.nick, x.chan)] = None
              ELSE stats.idxs[ByNick(x.nick, x.chan)] = x.id /\ old = h.s
  <2>1. h.chan # None /\ x.chan = h.chan /\ x.chan \in Ch
    BY <1>1, <1>10, NamesDiffer DEF Ch
  <2>2. St!Lookup(stats, ByNick(x.nick, x.chan)) = h.s
    BY <1>1, <1>2, <1>10, <2>1
  <2> DEFINE i == stats.idxs[ByNick(x.nick, x.chan)]
  <2>3. h.s = IF i = None THEN None ELSE stats.vals[i]
    BY <1>6, <2>1, <2>2, LookupIs
  <2>4. i # None => i \in Id /\ stats.vals[i] # None /\ stats.vals[i].id = i
    <3>1. i \in Id \cup {None}
      BY <1>6, <2>1, KeysIn DEF StatsInv, StatsType, St!Store
    <3>2. i # None => stats.vals[i] # None
      BY <1>6, <2>1 DEF StatsInv, StatsPointed
    <3> QED BY <3>1, <3>2 DEF StatsInv, StatsPlaced
  <2> QED BY <1>1, <2>3, <2>4
<1>11. StatsType'
  <2>1. saying' \in [Conn -> Say] /\ \A d \in Conn : SayOK(saying'[d])
    BY <1>2, <1>7, NoSayOK DEF StatsInv, StatsType, SayOK
  <2> QED BY <1>2, <1>4, <1>8, <2>1 DEF StatsInv, StatsType
<1>12. StatsCounted'
  <2>1. /\ IsFiniteSet(Busy) /\ IsFiniteSet(Busy') /\ Cardinality(Busy') = Cardinality(Busy) - 1
    <3>1. saying[c].pc = "put" /\ Cardinality(Busy) \in Nat
      BY <1>1
    <3>2. saying[c].pc # "idle" /\ NoSay.pc = "idle" /\ saying' = [saying EXCEPT ![c] = NoSay]
      BY <1>2, <3>1, NoSayOK
    <3>3. saying \in [Conn -> Say] /\ IsFiniteSet(Busy)
      BY DEF StatsInv, StatsCounted, StatsType
    <3>4. /\ IsFiniteSet(Busy')
          /\ Cardinality(Busy') = Cardinality(Busy)
                + (IF NoSay.pc # "idle" THEN 1 ELSE 0) - (IF saying[c].pc # "idle" THEN 1 ELSE 0)
      BY <3>2, <3>3, BusyIs
    <3> QED BY <3>1, <3>2, <3>3, <3>4
  <2>2. lines \in Nat
    BY NamesDiffer DEF StatsInv, StatsType
  <2>3. Total' + Cardinality(Busy') <= lines
    BY <1>1, <1>5, <2>1, <2>2 DEF StatsInv, StatsCounted
  <2>4. \A i \in Id : stats.vals[i] # None => stats.vals[i].lines \in Nat
    BY <1>6, StatIs
  <2>5. ASSUME NEW i \in Id, stats'.vals[i] # None
        PROVE  stats'.vals[i].lines + Cardinality(Busy') <= lines
    <3>1. CASE i = x.id
      BY <1>1, <1>4, <1>6, <2>1, <2>2, <3>1
    <3>2. CASE i # x.id
      <4>1. stats'.vals[i] = stats.vals[i]
        BY <1>4, <3>2
      <4> QED BY <1>1, <2>1, <2>2, <2>4, <2>5, <4>1 DEF StatsInv, StatsCounted
    <3> QED BY <3>1, <3>2
  <2>6. ASSUME NEW d \in Conn, saying'[d].pc = "put", saying'[d].s # None
        PROVE  saying'[d].s.lines + Cardinality(Busy') <= lines
    <3>1. d # c /\ saying'[d] = saying[d]
      BY <1>7, <2>6, NoSayOK
    <3>2. saying[d].s.lines \in Nat
      BY <2>6, <3>1, StatIs DEF StatsInv, StatsType, Say
    <3>3. saying[d].s.lines + Cardinality(Busy) <= lines
      BY <2>6, <3>1 DEF StatsInv, StatsCounted
    <3> QED BY <1>1, <2>1, <2>2, <3>1, <3>2, <3>3
  <2> QED BY <1>2, <1>5, <2>1, <2>3, <2>5, <2>6 DEF StatsCounted
<1>13. StatsPlaced'
  <2>1. ASSUME NEW i \in Id PROVE stats'.vals[i] # None <=> i <= Total'
    <3>1. stats.vals[i] # None <=> i <= Total
      BY DEF StatsInv, StatsPlaced
    <3>2. CASE i = x.id
      <4>1. old # None => i <= Total
        BY <3>1, <3>2
      <4>2. i \in Nat
        BY DEF Id
      <4> QED BY <1>1, <1>4, <1>5, <1>6, <3>2, <4>1, <4>2
    <3>3. CASE i # x.id
      <4>1. stats'.vals[i] = stats.vals[i] /\ i \in Nat
        BY <1>4, <3>3 DEF Id
      <4>2. CASE old # None
        BY <1>5, <3>1, <4>1, <4>2
      <4>3. CASE old = None
        <5>1. x.id = Total + 1 /\ Total' = Total + 1
          BY <1>1, <1>5, <4>3
        <5> QED BY <1>5, <3>1, <3>3, <4>1, <5>1
      <4> QED BY <4>2, <4>3
    <3> QED BY <3>2, <3>3
  <2>2. ASSUME NEW i \in Id, stats'.vals[i] # None
        PROVE  stats'.vals[i].id = i /\ Housed(stats', stats'.vals[i])
    <3>1. CASE i = x.id
      BY <1>4, <3>1
    <3>2. CASE i # x.id
      <4>1. stats'.vals[i] = stats.vals[i] /\ stats.vals[i] # None
        BY <1>4, <2>2, <3>2
      <4>2. stats.vals[i].id = i /\ Housed(stats, stats.vals[i])
        BY <4>1 DEF StatsInv, StatsPlaced
      <4> QED BY <1>4, <4>1, <4>2 DEF Housed
    <3> QED BY <3>1, <3>2
  <2> QED BY <2>1, <2>2 DEF StatsPlaced, Housed
<1>14. StatsHeld'
  <2> SUFFICES ASSUME NEW d \in Conn, saying'[d].pc = "put", saying'[d].s # None
               PROVE  LET g == saying'[d] IN
                      /\ g.chan # None /\ g.s.nick = g.nick /\ g.s.chan = g.chan
                      /\ stats'.vals[g.s.id] # None
                      /\ stats'.vals[g.s.id].nick = g.nick /\ stats'.vals[g.s.id].chan = g.chan
                      /\ g.s.lines <= told'[<<g.nick, g.chan>>]
    BY DEF StatsHeld
  <2> DEFINE g == saying[d]
  <2>1. d # c /\ saying'[d] = g
    BY <1>7, NoSayOK
  <2>2. /\ g.chan # None /\ g.s.nick = g.nick /\ g.s.chan = g.chan
        /\ stats.vals[g.s.id] # None
        /\ stats.vals[g.s.id].nick = g.nick /\ stats.vals[g.s.id].chan = g.chan
        /\ g.s.lines <= told[<<g.nick, g.chan>>]
    BY <2>1 DEF StatsInv, StatsHeld
  <2>3. /\ g.s \in Stat /\ g.chan \in Channel /\ g.nick \in Nick /\ g.s.id \in Id
        /\ g.s.lines \in Nat
    <3>1. SayOK(g) /\ g.pc = "put" /\ g.s # None
      BY <2>1 DEF StatsInv, StatsType
    <3>2. g.s \in Stat /\ g.chan \in Channel /\ g.nick \in Nick
      BY <2>2, <3>1 DEF SayOK, Say
    <3> QED BY <3>2, StatIs
  <2>4. stats'.vals[g.s.id] # None
        /\ stats'.vals[g.s.id].nick = g.nick /\ stats'.vals[g.s.id].chan = g.chan
    BY <1>3, <1>4, <1>6, <2>2, <2>3
  <2>5. g.s.lines <= told'[<<g.nick, g.chan>>]
    <3>1. told[<<g.nick, g.chan>>] \in Nat
      BY <2>3 DEF StatsInv, StatsType
    <3> QED BY <1>8, <2>2, <2>3, <3>1
  <2> QED BY <2>1, <2>2, <2>4, <2>5
<1>15. StatsPointed'
  <2>1. ASSUME NEW n \in Nick, NEW ch \in Ch, stats'.idxs[ByNick(n, ch)] # None
        PROVE  LET i == stats'.idxs[ByNick(n, ch)] IN
               stats'.vals[i] # None /\ stats'.vals[i].nick = n /\ stats'.vals[i].chan = ch
    <3>1. CASE n = x.nick /\ ch = x.chan
      <4>1. stats'.idxs[ByNick(n, ch)] = x.id
        BY <1>4, <3>1
      <4> QED BY <1>4, <1>6, <3>1, <4>1
    <3>2. CASE ~(n = x.nick /\ ch = x.chan)
      <4> DEFINE i == stats.idxs[ByNick(n, ch)]
      <4>1. stats'.idxs[ByNick(n, ch)] = i /\ i # None
        BY <1>4, <2>1, <3>2
      <4>2. i \in Id /\ stats.vals[i] # None /\ stats.vals[i].nick = n /\ stats.vals[i].chan = ch
        BY <4>1, KeysIn DEF StatsInv, StatsType, StatsPointed, St!Store
      <4>3. i # x.id
        BY <1>3, <3>2, <4>2
      <4> QED BY <1>4, <4>1, <4>2, <4>3
    <3> QED BY <3>1, <3>2
  <2>2. ASSUME NEW n \in Nick, NEW m \in Nick PROVE stats'.idxs[ByNick(n, m)] = None
    <3>1. x.chan # m
      BY <1>6, NamesDiffer DEF Ch
    <3> QED BY <1>4, <3>1 DEF StatsInv, StatsPointed
  <2>3. ASSUME NEW ch \in Ch, NEW l \in 1 .. MaxEvents, stats'.idxs[ByLines(ch, l)] # None
        PROVE  LET i == stats'.idxs[ByLines(ch, l)] IN
               stats'.vals[i] # None /\ stats'.vals[i].chan = ch /\ stats'.vals[i].lines = l
    <3>1. CASE ch = x.chan /\ l = x.lines
      <4>1. stats'.idxs[ByLines(ch, l)] = x.id
        BY <1>4, <3>1
      <4> QED BY <1>4, <1>6, <3>1, <4>1
    <3>2. CASE ~(ch = x.chan /\ l = x.lines)
      <4> DEFINE i == stats.idxs[ByLines(ch, l)]
      <4>1. stats'.idxs[ByLines(ch, l)] = i /\ i # None
            /\ ~(old # None /\ ch = x.chan /\ l = old.lines)
        BY <1>4, <2>3, <3>2
      <4>2. i \in Id /\ stats.vals[i] # None /\ stats.vals[i].chan = ch /\ stats.vals[i].lines = l
        BY <4>1, KeysIn DEF StatsInv, StatsType, StatsPointed, St!Store
      <4>3. i # x.id
        BY <1>3, <4>1, <4>2
      <4> QED BY <1>4, <4>1, <4>2, <4>3
    <3> QED BY <3>1, <3>2
  <2> QED BY <2>1, <2>2, <2>3 DEF StatsPointed
<1>16. StatsTold'
  <2> SUFFICES ASSUME NEW n \in Nick, NEW ch \in Channel
               PROVE  LET i == stats'.idxs[ByNick(n, ch)] IN
                      IF <<n, ch>> \in met' THEN i # None /\ stats'.vals[i].lines <= told'[<<n, ch>>]
                      ELSE IF i = None THEN told'[<<n, ch>>] = 0
                      ELSE stats'.vals[i].lines = told'[<<n, ch>>]
    BY DEF StatsTold
  <2>1. ch \in Ch /\ told[<<n, ch>>] \in Nat
    BY DEF Ch, StatsInv, StatsType
  <2>2. CASE n = x.nick /\ ch = x.chan
    <3>1. stats'.idxs[ByNick(n, ch)] = x.id /\ x.id # None /\ stats'.vals[x.id] = x
      BY <1>4, <1>6, <2>1, <2>2, NamesDiffer
    <3>2. told'[<<n, ch>>] = told[<<n, ch>>] + 1
      BY <1>8, <2>2
    <3>3. /\ h.chan = ch /\ h.nick = n
      BY <1>1, <2>2, NamesDiffer
    <3>4. h.s # None => h.s.lines <= told[<<n, ch>>] /\ x.lines = h.s.lines + 1 /\ h.s.lines \in Nat
      <4>1. h.s # None => h.s \in Stat
        BY <1>2 DEF Say
      <4>2. h.s # None => h.s.lines <= told[<<n, ch>>]
        BY <1>1, <3>3 DEF StatsInv, StatsHeld
      <4> QED BY <1>1, <4>1, <4>2, StatIs
    <3>5. x.lines <= told[<<n, ch>>] + 1
      BY <1>1, <2>1, <3>4
    <3>6. ASSUME <<n, ch>> \notin met' PROVE x.lines = told[<<n, ch>>] + 1
      <4>1. <<n, ch>> \notin met
        BY <1>9, <3>6
      <4>2. CASE h.s = None
        <5>1. stats.idxs[ByNick(n, ch)] = None /\ x.lines = 1
          BY <1>1, <1>10, <2>2, <3>6, <4>2
        <5>2. told[<<n, ch>>] = 0
          BY <4>1, <5>1 DEF StatsInv, StatsTold
        <5> QED BY <5>1, <5>2
      <4>3. CASE h.s # None
        <5>1. stats.idxs[ByNick(n, ch)] = x.id /\ old = h.s
          BY <1>10, <2>2, <3>6, <4>3
        <5>2. old.lines = told[<<n, ch>>]
          BY <3>1, <4>1, <5>1 DEF StatsInv, StatsTold
        <5> QED BY <3>4, <4>3, <5>1, <5>2
      <4> QED BY <4>2, <4>3
    <3> QED BY <3>1, <3>2, <3>5, <3>6
  <2>3. CASE ~(n = x.nick /\ ch = x.chan)
    <3> DEFINE i == stats.idxs[ByNick(n, ch)]
    <3>1. stats'.idxs[ByNick(n, ch)] = i /\ told'[<<n, ch>>] = told[<<n, ch>>]
      BY <1>4, <1>8, <2>1, <2>3
    <3>2. <<n, ch>> \in met' <=> <<n, ch>> \in met
      BY <1>9, <2>3
    <3>3. i # None => stats'.vals[i] = stats.vals[i]
      <4>1. i # None => i \in Id /\ stats.vals[i] # None /\ stats.vals[i].nick = n
                        /\ stats.vals[i].chan = ch
        BY <2>1, KeysIn DEF StatsInv, StatsType, StatsPointed, St!Store
      <4> QED BY <1>3, <1>4, <2>3, <4>1
    <3> QED BY <3>1, <3>2, <3>3 DEF StatsInv, StatsTold
  <2> QED BY <2>2, <2>3
<1>17. StatsListed'
  <2> SUFFICES ASSUME NEW i \in Id, stats'.vals[i] # None,
                      \A n \in Nick : <<n, stats'.vals[i].chan>> \notin met'
               PROVE  \E l \in 1 .. MaxEvents :
                        /\ l >= stats'.vals[i].lines
                        /\ stats'.idxs[ByLines(stats'.vals[i].chan, l)] # None
    BY DEF StatsListed
  <2>1. x.id # None
    BY <1>6, NamesDiffer
  <2>2. CASE i = x.id
    <3>1. stats'.vals[i] = x /\ stats'.idxs[ByLines(x.chan, x.lines)] # None /\ x.lines \in Int
      BY <1>4, <1>6, <2>1, <2>2
    <3> QED BY <1>6, <3>1
  <2>3. CASE i # x.id
    <3> DEFINE v == stats.vals[i]
    <3>1. stats'.vals[i] = v /\ v \in Stat /\ v.chan \in Ch /\ v.lines \in 1 .. MaxEvents
      BY <1>4, <1>6, <2>3, StatIs
    <3>2. PICK l \in 1 .. MaxEvents : l >= v.lines /\ stats.idxs[ByLines(v.chan, l)] # None
      BY <1>9, <3>1, StatIs DEF StatsInv, StatsListed
    <3>3. CASE v.chan = x.chan /\ l = x.lines
      BY <1>4, <2>1, <3>1, <3>2, <3>3
    <3>4. CASE ~(v.chan = x.chan /\ l = x.lines) /\ ~(old # None /\ v.chan = x.chan /\ l = old.lines)
      BY <1>4, <3>1, <3>2, <3>4
    <3>5. CASE old # None /\ v.chan = x.chan /\ l = old.lines
      <4>1. h.s # None /\ x.chan \in Channel
        <5>1. h.s # None
          BY <1>1, <3>5
        <5>2. h.chan \in Channel
          BY <1>1, <1>2, <5>1 DEF Say
        <5> QED BY <1>1, <5>1, <5>2, NamesDiffer
      <4>2. <<x.nick, x.chan>> \notin met'
        BY <1>6, <3>1, <3>5
      <4>3. x.lines = l + 1
        BY <1>1, <1>10, <3>5, <4>1, <4>2
      <4>4. x.lines >= v.lines
        BY <3>1, <3>2, <4>3
      <4> QED BY <1>4, <1>6, <2>1, <3>1, <3>5, <4>4
    <3> QED BY <3>3, <3>4, <3>5
  <2> QED BY <2>2, <2>3
<1> QED BY <1>11, <1>12, <1>13, <1>14, <1>15, <1>16, <1>17 DEF StatsInv

-----------------------------------------------------------------------------
CountersInv == KarmaInv /\ StatsInv

LEMMA StepCounters == CountersInv /\ [CountersNext]_countersVars => CountersInv'
<1> SUFFICES ASSUME CountersInv, [CountersNext]_countersVars PROVE CountersInv'
  OBVIOUS
<1>1. ASSUME NEW c \in Conn, Line(c) PROVE CountersInv'
  BY <1>1, StepLineKarma, StepLineStats DEF CountersInv
<1>2. ASSUME NEW c \in Conn, GetKarma(c) PROVE CountersInv'
  <2>1. UNCHANGED <<stats, saying, lines, told, met>>
    BY <1>2 DEF GetKarma
  <2> QED BY <1>2, <2>1, StepGetKarma, StatsOfKarma DEF CountersInv
<1>3. ASSUME NEW c \in Conn, PutKarma(c) PROVE CountersInv'
  <2>1. UNCHANGED <<stats, saying, lines, told>>
    BY <1>3 DEF PutKarma
  <2>2. voting[c].left[1][1] \in Thing
    <3>1. voting[c].left \in Seq(Thing \X {-1, 1}) /\ voting[c].left # <<>>
      BY <1>3 DEF CountersInv, KarmaInv, VotingOK, Voting, PutKarma
    <3>2. voting[c].left[1] \in Thing \X {-1, 1}
      BY <3>1
    <3> QED BY <3>2
  <2>3. met' = met \/ met' = met \cup {voting[c].left[1][1]}
    BY <1>3 DEF PutKarma
  <2>4. \A n \in Nick, ch \in Channel : <<n, ch>> \notin Thing
    BY CountersAssumption
  <2>5. /\ met \subseteq met'
        /\ \A n \in Nick, ch \in Channel : <<n, ch>> \in met' <=> <<n, ch>> \in met
    BY <2>2, <2>3, <2>4
  <2> QED BY <1>3, <2>1, <2>5, StepPutKarma, StatsOfKarma DEF CountersInv
<1>4. ASSUME NEW c \in Conn, GetStat(c) \/ PutStat(c) PROVE CountersInv'
  <2>1. UNCHANGED <<karma, heard, voting>>
    BY <1>4 DEF GetStat, PutStat
  <2>2. \A t \in Thing : t \in met' <=> t \in met
    <3>1. CASE GetStat(c)
      BY <3>1 DEF GetStat
    <3>2. CASE PutStat(c)
      <4>1. \/ met' = met
            \/ saying[c].chan # None /\ met' = met \cup {<<saying[c].nick, saying[c].chan>>}
        BY <3>2 DEF PutStat
      <4>2. saying[c].nick \in Nick /\ saying[c].chan \in Channel \cup {None}
        BY <3>2 DEF PutStat, CountersInv, StatsInv, StatsType, SayOK, Say
      <4>3. saying[c].chan # None => <<saying[c].nick, saying[c].chan>> \notin Thing
        BY <4>2, CountersAssumption
      <4> QED BY <4>1, <4>3
    <3> QED BY <1>4, <3>1, <3>2
  <2>3. VotingOK(voting[c]) /\ voting' = [voting EXCEPT ![c] = voting[c]]
    BY <2>1 DEF CountersInv, KarmaInv
  <2>4. KarmaInv'
    BY <2>1, <2>2, <2>3, KarmaStays DEF CountersInv, KarmaInv
  <2> QED BY <1>4, <2>4, StepGetStat, StepPutStat DEF CountersInv
<1>5. CASE CountersNext
  BY <1>1, <1>2, <1>3, <1>4, <1>5 DEF CountersNext
<1>6. CASE UNCHANGED countersVars
  <2>1. Busy' = Busy /\ Total' = Total /\ St!Stored(stats)' = St!Stored(stats)
    BY <1>6 DEF countersVars, Busy, Total, St!Stored
  <2>0. UNCHANGED <<karma, stats, voting, saying, lines, heard, told, met>>
    BY <1>6 DEF countersVars
  <2>2. StatsInv'
    <3>1. StatsType' /\ StatsCounted'
      BY <2>0, <2>1 DEF CountersInv, StatsInv, StatsType, StatsCounted
    <3>2. StatsPlaced' /\ StatsHeld'
      BY <2>0, <2>1 DEF CountersInv, StatsInv, StatsPlaced, StatsHeld, Housed
    <3>3. StatsPointed'
      BY <2>0 DEF CountersInv, StatsInv, StatsPointed
    <3>4. StatsTold' /\ StatsListed'
      BY <2>0 DEF CountersInv, StatsInv, StatsTold, StatsListed
    <3> QED BY <3>1, <3>2, <3>3, <3>4 DEF StatsInv
  <2>3. KarmaInv'
    BY <2>0 DEF CountersInv, KarmaInv, Heard, Ups, Downs
  <2> QED BY <2>2, <2>3 DEF CountersInv
<1> QED BY <1>5, <1>6

\* A score is the sum of its votes and a count the lines said, but where two connections
\* put across each other what they had read: then none is invented
\* (karmadriver/handlers.go:13-22, statsdriver/handlers.go:9-21).
THEOREM CountsAreKept == CountersSpec => []CountsKept
<1>1. CountersInit => CountersInv
  BY KarmaStart, StatsStart DEF CountersInv
<1>2. CountersInv => CountsKept
  <2> SUFFICES ASSUME CountersInv PROVE CountsKept
    OBVIOUS
  <2>1. ASSUME NEW t \in Thing
        PROVE  IF t \in met THEN /\ Sum(karma[t]).votes \in 1 .. Ups(t) + Downs(t)
                                 /\ Sum(karma[t]).score \in -Downs(t) .. Ups(t)
               ELSE Sum(karma[t]) = [score |-> Ups(t) - Downs(t), votes |-> Ups(t) + Downs(t)]
    <3>1. Ups(t) \in Nat /\ Downs(t) \in Nat
      <4>1. <<t, 1>> \in Thing \X {-1, 1} /\ <<t, -1>> \in Thing \X {-1, 1}
        OBVIOUS
      <4> QED BY <4>1 DEF Ups, Downs, CountersInv, KarmaInv
    <3>2. CASE t \in met
      <4> DEFINE k == Sum(karma[t])
      <4>1. k \in KarmaRec
        BY SumIs DEF CountersInv, KarmaInv
      <4>2. k.votes \in Nat /\ k.score \in Int
        BY <4>1 DEF KarmaRec
      <4>3. k.votes <= Ups(t) + Downs(t) /\ -Downs(t) <= k.score /\ k.score <= Ups(t) /\ k.votes > 0
        BY <3>2 DEF CountersInv, KarmaInv, Heard
      <4> HIDE DEF k
      <4>4. k.votes \in 1 .. Ups(t) + Downs(t) /\ k.score \in -Downs(t) .. Ups(t)
        BY <3>1, <4>2, <4>3
      <4> QED BY <3>2, <4>4 DEF k
    <3>3. CASE t \notin met
      BY <3>3 DEF CountersInv, KarmaInv
    <3> QED BY <3>2, <3>3
  <2>2. ASSUME NEW n \in Nick, NEW ch \in Channel
        PROVE  IF <<n, ch>> \in met THEN LinesOf(n, ch) \in 1 .. told[<<n, ch>>]
               ELSE LinesOf(n, ch) = told[<<n, ch>>]
    <3> DEFINE i == stats.idxs[ByNick(n, ch)]
    <3>1. ch \in Ch /\ told[<<n, ch>>] \in Nat
      BY DEF Ch, CountersInv, StatsInv, StatsType
    <3>2. St!Lookup(stats, ByNick(n, ch)) = IF i = None THEN None ELSE stats.vals[i]
      BY <3>1, LookupIs DEF CountersInv
    <3>3. IF <<n, ch>> \in met THEN i # None /\ stats.vals[i].lines <= told[<<n, ch>>]
          ELSE IF i = None THEN told[<<n, ch>>] = 0 ELSE stats.vals[i].lines = told[<<n, ch>>]
      BY DEF CountersInv, StatsInv, StatsTold
    <3>4. CASE i = None
      BY <3>2, <3>3, <3>4 DEF LinesOf
    <3>5. CASE i # None
      <4>1. i \in Id /\ stats.vals[i] # None
        BY <3>1, <3>5, KeysIn DEF CountersInv, StatsInv, StatsType, StatsPointed, St!Store
      <4>2. stats.vals[i] \in Stat
        BY <4>1 DEF CountersInv, StatsInv, StatsType, St!Store
      <4>3. stats.vals[i].lines \in Nat /\ stats.vals[i].lines >= 1
        BY <4>2, StatIs, NamesDiffer
      <4>4. LinesOf(n, ch) = stats.vals[i].lines
        BY <3>2, <3>5, <4>1 DEF LinesOf
      <4> QED BY <3>1, <3>3, <3>5, <4>3, <4>4
    <3> QED BY <3>4, <3>5
  <2> QED BY <2>1, <2>2 DEF CountsKept, Sum, Ups, Downs
<1> QED BY <1>1, <1>2, StepCounters, PTL DEF CountersSpec

\* In a channel where no put crossed another a record is unlisted only while another has
\* as many lines: who has said most is listed (the lines index, stats.go:75-79).
THEOREM LeaderIsListed == CountersSpec => []LeaderListed
<1>1. CountersInit => CountersInv
  BY KarmaStart, StatsStart DEF CountersInv
<1>2. CountersInv => LeaderListed
  <2> SUFFICES ASSUME CountersInv, NEW s \in St!Stored(stats),
                      \A n \in Nick : <<n, s.chan>> \notin met
               PROVE  \E l \in St!AllUnder(stats, <<"lines", s.chan>>) : l.lines >= s.lines
    BY DEF LeaderListed
  <2>1. PICK i \in Id : s = stats.vals[i] /\ s # None
    BY DEF St!Stored
  <2>2. s \in Stat
    BY <2>1 DEF CountersInv, StatsInv, StatsType, St!Store
  <2>3. PICK l \in 1 .. MaxEvents : l >= s.lines /\ stats.idxs[ByLines(s.chan, l)] # None
    BY <2>1 DEF CountersInv, StatsInv, StatsListed
  <2> DEFINE k == ByLines(s.chan, l)
             p == stats.idxs[k]
  <2>4. k \in StatKeys /\ k[1] = "lines" /\ k[2] = s.chan /\ s.chan \in Ch
    BY <2>2, StatIs, KeysIn DEF ByLines
  <2>5. stats.vals[p] # None /\ stats.vals[p].lines = l
    BY <2>3, <2>4 DEF CountersInv, StatsInv, StatsPointed
  <2>6. <<"lines", s.chan>> \in stats.bkts
    BY <2>1 DEF CountersInv, StatsInv, StatsPlaced, Housed
  <2>7. [j \in StatKeys |-> {<<j[1], j[2]>>}][k] = {<<"lines", s.chan>>}
    BY <2>4
  <2>8. St!Found(stats, k)
    BY <2>6, <2>7 DEF St!Found
  <2> HIDE DEF k
  <2>9. stats.vals[p] \in St!AllUnder(stats, <<"lines", s.chan>>)
    BY <2>3, <2>4, <2>5, <2>7, <2>8 DEF St!AllUnder, k
  <2> QED BY <2>3, <2>5, <2>9 DEF k
<1> QED BY <1>1, <1>2, StepCounters, PTL DEF CountersSpec

-----------------------------------------------------------------------------
(* Last seen. *)

LEMMA SightIs ==
    ASSUME NEW s \in Sighting
    PROVE  /\ s.id \in Id /\ s.nick \in Nick /\ s.act \in Action /\ s.ts \in Millis
           /\ s # None
           /\ ByAction(s.nick, s.act) \in SightKeys /\ ByTime(s.nick, s.ts) \in SightKeys
           /\ Sn!KeysOf(s) = {ByAction(s.nick, s.act), ByTime(s.nick, s.ts)}
<1>1. /\ s.id \in Id /\ s.nick \in Nick /\ s.act \in Action /\ s.ts \in Millis
      /\ s # None
  BY SeenAssumption DEF Sighting
<1>2. ByAction(s.nick, s.act) \in SightKeys /\ ByTime(s.nick, s.ts) \in SightKeys
  BY <1>1 DEF SightKeys
<1> DEFINE x == <<ByAction(s.nick, s.act), ByTime(s.nick, s.ts)>>
<1>3. Len(x) = 2 /\ x[1] = ByAction(s.nick, s.act) /\ x[2] = ByTime(s.nick, s.ts)
  OBVIOUS
<1> HIDE DEF x
<1>4. [v \in Sighting |-> SightIndexes(v)][s] = x
  BY DEF SightIndexes, x
<1>5. Sn!KeysOf(s) = {x[i] : i \in 1 .. 2}
  BY <1>3, <1>4 DEF Sn!KeysOf
<1>6. Sn!KeysOf(s) = {ByAction(s.nick, s.act), ByTime(s.nick, s.ts)}
  BY <1>3, <1>5
<1> QED BY <1>1, <1>2, <1>6

\* Its buckets are there: when they are, the keys of a record are those it deletes.
Lodged(d, s) == <<"nick", s.nick>> \in d.bkts /\ <<"key", s.nick>> \in d.bkts

LEMMA SightDelKeys ==
    ASSUME NEW d \in Sn!Store, NEW s \in Sighting, Lodged(d, s)
    PROVE  Sn!DelKeys(d, s) = {ByAction(s.nick, s.act), ByTime(s.nick, s.ts)}
<1> DEFINE x == <<ByAction(s.nick, s.act), ByTime(s.nick, s.ts)>>
<1>1. Len(x) = 2 /\ x[1] = ByAction(s.nick, s.act) /\ x[2] = ByTime(s.nick, s.ts)
  OBVIOUS
<1>2. /\ x[1] \in SightKeys /\ x[2] \in SightKeys
      /\ x[1][1] = "nick" /\ x[1][2] = s.nick /\ x[2][1] = "key" /\ x[2][2] = s.nick
  BY <1>1, SightIs DEF ByAction, ByTime
<1>3. Sn!Found(d, x[1]) /\ Sn!Found(d, x[2])
  BY <1>2 DEF Lodged, Sn!Found
<1> HIDE DEF x
<1>4. [v \in Sighting |-> SightIndexes(v)][s] = x
  BY DEF SightIndexes, x
<1>5. Sn!DelKeys(d, s) = {x[i] : i \in {n \in 1 .. 2 : \A m \in 1 .. n : Sn!Found(d, x[m])}}
  BY <1>1, <1>4 DEF Sn!DelKeys
<1>6. \A n \in 1 .. 2 : \A m \in 1 .. n : Sn!Found(d, x[m])
  BY <1>3
<1>7. Sn!DelKeys(d, s) = {x[i] : i \in 1 .. 2}
  BY <1>5, <1>6
<1> QED BY <1>1, <1>7

\* What a record's Put does.
LEMMA PutSightIs ==
    ASSUME NEW d \in Sn!Store, NEW s \in Sighting,
           d.vals[s.id] # None => Lodged(d, d.vals[s.id])
    PROVE  LET e == Sn!PutTx(d, s)
               old == d.vals[s.id] IN
           /\ e \in Sn!Store
           /\ e.vals = [d.vals EXCEPT ![s.id] = s]
           /\ e.bkts = d.bkts \cup {<<"nick", s.nick>>, <<"key", s.nick>>}
           /\ \A k \in SightKeys : e.idxs[k] =
                IF k = ByAction(s.nick, s.act) \/ k = ByTime(s.nick, s.ts) THEN s.id
                ELSE IF old # None /\ (k = ByAction(old.nick, old.act) \/ k = ByTime(old.nick, old.ts))
                THEN None ELSE d.idxs[k]
<1> DEFINE old == d.vals[s.id]
           b == IF old = None THEN d ELSE Sn!DelIndex(d, old)
           c == Sn!SetValue(b, s.id, s)
           e == Sn!PutIndex(c, s)
           K(v) == {ByAction(v.nick, v.act), ByTime(v.nick, v.ts)}
<1>1. Sn!PutTx(d, s) = e
  BY SightIs DEF Sn!PutTx
<1>2. s.id \in Id /\ old \in Sighting \cup {None}
  BY SightIs DEF Sn!Store
<1>3. /\ b \in Sn!Store /\ b.vals = d.vals /\ b.bkts = d.bkts
      /\ \A k \in SightKeys : b.idxs[k] =
            IF old # None /\ k \in K(old) THEN None ELSE d.idxs[k]
  <2>1. CASE old = None
    BY <2>1
  <2>2. CASE old # None
    <3>1. Sn!DelKeys(d, old) = K(old)
      BY <1>2, <2>2, SightDelKeys
    <3> HIDE DEF K
    <3> QED BY <2>2, <3>1 DEF Sn!Store, Sn!DelIndex
  <2> QED BY <2>1, <2>2
<1> HIDE DEF b
<1>4. c \in Sn!Store /\ c.vals = [d.vals EXCEPT ![s.id] = s] /\ c.idxs = b.idxs /\ c.bkts = b.bkts
  BY <1>2, <1>3 DEF Sn!Store, Sn!SetValue
<1> HIDE DEF c
<1>5. /\ e \in Sn!Store /\ e.vals = c.vals
      /\ e.bkts = d.bkts \cup {<<"nick", s.nick>>, <<"key", s.nick>>}
      /\ \A k \in SightKeys : e.idxs[k] = IF k \in K(s) THEN s.id ELSE c.idxs[k]
  <2> DEFINE x == [k \in SightKeys |-> IF k \in K(s) THEN s.id ELSE c.idxs[k]]
             y == c.bkts \cup UNION {[j \in SightKeys |-> {<<j[1], j[2]>>}][k] : k \in K(s)}
  <2>1. e = [c EXCEPT !.idxs = x, !.bkts = y]
    BY SightIs DEF Sn!PutIndex
  <2>2. x \in [SightKeys -> Id \cup {None}]
    BY <1>2, <1>4 DEF Sn!Store
  <2>3. y = d.bkts \cup {<<"nick", s.nick>>, <<"key", s.nick>>}
    <3>1. /\ K(s) \subseteq SightKeys
          /\ \A k \in K(s) : [j \in SightKeys |-> {<<j[1], j[2]>>}][k] = {<<k[1], k[2]>>}
      BY SightIs
    <3>2. /\ ByAction(s.nick, s.act)[1] = "nick" /\ ByAction(s.nick, s.act)[2] = s.nick
          /\ ByTime(s.nick, s.ts)[1] = "key" /\ ByTime(s.nick, s.ts)[2] = s.nick
      BY DEF ByAction, ByTime
    <3>3. UNION {[j \in SightKeys |-> {<<j[1], j[2]>>}][k] : k \in K(s)}
            = {<<"nick", s.nick>>, <<"key", s.nick>>}
      BY <3>1, <3>2
    <3> QED BY <1>3, <1>4, <3>3
  <2>4. y \subseteq {<<k[1], k[2]>> : k \in SightKeys}
    <3>1. /\ ByAction(s.nick, s.act) \in SightKeys /\ ByTime(s.nick, s.ts) \in SightKeys
      BY SightIs
    <3>2. d.bkts \subseteq {<<k[1], k[2]>> : k \in SightKeys}
      BY DEF Sn!Store
    <3>3. /\ <<"nick", s.nick>> = <<ByAction(s.nick, s.act)[1], ByAction(s.nick, s.act)[2]>>
          /\ <<"key", s.nick>> = <<ByTime(s.nick, s.ts)[1], ByTime(s.nick, s.ts)[2]>>
      BY DEF ByAction, ByTime
    <3> QED BY <2>3, <3>1, <3>2, <3>3
  <2>5. \A k \in SightKeys : x[k] = IF k \in K(s) THEN s.id ELSE c.idxs[k]
    OBVIOUS
  <2> HIDE DEF x, y
  <2> QED BY <1>4, <2>1, <2>2, <2>3, <2>4, <2>5 DEF Sn!Store
<1> HIDE DEF e
<1> QED BY <1>1, <1>3, <1>4, <1>5

Look == [pc : {"idle", "get", "put"}, left : Seq(Nick \X Action),
         s : Sighting \cup {None}, since : 0 .. MaxTime]
LookOK(h) ==
    /\ h \in Look
    /\ IF h.pc = "idle" THEN h.left = <<>> ELSE Len(h.left) \in {1, 2}
    /\ h.pc = "put" => h.since \in 1 .. now

SeenType ==
    /\ seen \in Sn!Store
    /\ now \in Millis /\ events \in 0 .. MaxEvents
    /\ sights \in [Conn -> Look] /\ \A c \in Conn : LookOK(sights[c])
    /\ lastAt \in [Nick \X Action -> 0 .. MaxTime]

Pend == {p \in Conn \X {1, 2} : p[2] <= Len(sights[p[1]].left)}
Shown == Cardinality(Sn!Stored(seen))

\* What an event has yet to record may each need an id.
SeenCounted ==
    /\ IsFiniteSet(Pend) /\ IsFiniteSet(Sn!Stored(seen))
    /\ Shown + Cardinality(Pend) <= events

SeenPlaced ==
    \A i \in Id : LET v == seen.vals[i] IN
        /\ v # None <=> i <= Shown
        /\ v # None => /\ v.id = i /\ Lodged(seen, v) /\ v.ts <= now
                       /\ seen.idxs[ByAction(v.nick, v.act)] # None

\* What a handler holds is of what it records, and still what is stored unless crossed.
SeenHeld ==
    \A c \in Conn : LET h == sights[c]
                        x == h.left[1]
                        i == seen.idxs[ByAction(x[1], x[2])] IN
        h.pc = "put" =>
            /\ h.s # None =>
                  /\ h.s.nick = x[1] /\ h.s.act = x[2] /\ h.s.ts <= h.since
                  /\ seen.vals[h.s.id] # None
                  /\ seen.vals[h.s.id].nick = x[1] /\ seen.vals[h.s.id].act = x[2]
            /\ x \notin crossed => h.s = IF i = None THEN None ELSE seen.vals[i]

SeenAlone ==
    \A c, d \in Conn :
        c # d /\ sights[c].pc = "put" /\ sights[d].pc = "put" /\ sights[c].left[1] = sights[d].left[1]
            => sights[c].left[1] \in crossed

SeenPointed ==
    /\ \A n \in Nick, a \in Action : LET i == seen.idxs[ByAction(n, a)] IN
          i # None => seen.vals[i] # None /\ seen.vals[i].nick = n /\ seen.vals[i].act = a
    /\ \A n \in Nick, t \in Millis : LET i == seen.idxs[ByTime(n, t)] IN
          i # None => seen.vals[i] # None /\ seen.vals[i].nick = n /\ seen.vals[i].ts = t

SeenOnce ==
    \A n \in Nick, a \in Action : LET i == seen.idxs[ByAction(n, a)] IN
        <<n, a>> \notin crossed =>
            /\ lastAt[<<n, a>>] = IF i = None THEN 0 ELSE seen.vals[i].ts
            /\ \A j \in Id : seen.vals[j] # None /\ seen.vals[j].nick = n /\ seen.vals[j].act = a
                                => j = i

SeenListed ==
    \A j \in Id : LET v == seen.vals[j] IN
        v # None /\ (\A a \in Action : <<v.nick, a>> \notin crossed) =>
            \E t \in Millis : t >= v.ts /\ seen.idxs[ByTime(v.nick, t)] # None

SeenInv ==
    /\ SeenType /\ SeenCounted /\ SeenPlaced /\ SeenHeld /\ SeenAlone
    /\ SeenPointed /\ SeenOnce /\ SeenListed

LEMMA SeenIds == None \notin Id /\ MaxTime \in Nat \ {0} /\ MaxId \in Nat /\ MaxEvents \in Nat
                 /\ MaxEvents <= MaxId
BY HandlersAssumption, SeenAssumption DEF Id

LEMMA NoSightOK == NoSight \in Look /\ NoSight.pc = "idle" /\ NoSight.left = <<>>
<1>1. <<>> \in Seq(Nick \X Action) /\ 0 \in 0 .. MaxTime
  BY SeenIds
<1> QED BY <1>1 DEF Look, NoSight

LEMMA SightKeysIn ==
    /\ \A n \in Nick, a \in Action : ByAction(n, a) \in SightKeys
    /\ \A n \in Nick, t \in Millis : ByTime(n, t) \in SightKeys
BY DEF SightKeys

\* What a handler records next.
LEMMA LeftIs ==
    ASSUME NEW h \in Look, h.left # <<>>
    PROVE  /\ h.left[1] \in Nick \X Action /\ h.left[1] = <<h.left[1][1], h.left[1][2]>>
           /\ h.left[1][1] \in Nick /\ h.left[1][2] \in Action
<1>1. h.left \in Seq(Nick \X Action)
  BY DEF Look
<1> DEFINE x == h.left[1]
<1>2. x \in Nick \X Action
  BY <1>1
<1> HIDE DEF x
<1>3. x = <<x[1], x[2]>> /\ x[1] \in Nick /\ x[2] \in Action
  BY <1>2
<1> QED BY <1>2, <1>3 DEF x

\* A handler at work records something.
LEMMA AtWork ==
    ASSUME NEW h, LookOK(h), h.pc # "idle"
    PROVE  h \in Look /\ h.left # <<>> /\ h.left \in Seq(Nick \X Action) /\ Len(h.left) \in {1, 2}
<1>1. Len(h.left) \in {1, 2} /\ h \in Look
  BY DEF LookOK
<1>2. h.left # <<>>
  BY <1>1
<1> QED BY <1>1, <1>2 DEF Look

LEMMA SeenStart == SeenInit => SeenInv
<1> SUFFICES ASSUME SeenInit PROVE SeenInv
  OBVIOUS
<1>1. /\ \A i \in Id : seen.vals[i] = None
      /\ \A k \in SightKeys : seen.idxs[k] = None
      /\ \A c \in Conn : sights[c] = NoSight
      /\ events = 0 /\ crossed = {} /\ \A n \in Nick, a \in Action : lastAt[<<n, a>>] = 0
  <2>1. \A n \in Nick, a \in Action : <<n, a>> \in Nick \X Action
    OBVIOUS
  <2> QED BY <2>1 DEF SeenInit, Sn!EmptyStore
<1>2. SeenType
  <2>1. seen \in Sn!Store
    BY DEF SeenInit, Sn!EmptyStore, Sn!Store
  <2>2. now \in Millis /\ events \in 0 .. MaxEvents /\ 0 \in 0 .. MaxTime
    BY SeenIds DEF SeenInit, Millis
  <2>3. lastAt \in [Nick \X Action -> 0 .. MaxTime]
    BY <2>2 DEF SeenInit
  <2>4. sights \in [Conn -> Look] /\ LookOK(NoSight)
    BY NoSightOK DEF SeenInit, LookOK
  <2> QED BY <1>1, <2>1, <2>2, <2>3, <2>4 DEF SeenType
<1>3. Sn!Stored(seen) = {}
  BY <1>1 DEF Sn!Stored
<1>4. Pend = {}
  <2>1. Len(<<>>) = 0
    OBVIOUS
  <2> QED BY <1>1, <2>1, NoSightOK DEF Pend
<1>5. IsFiniteSet({}) /\ Cardinality({}) = 0
  BY FS_EmptySet
<1>6. Shown = 0 /\ SeenCounted
  BY <1>1, <1>3, <1>4, <1>5 DEF Shown, SeenCounted
<1>7. SeenPlaced /\ SeenListed
  BY <1>1, <1>6 DEF SeenPlaced, SeenListed, Id
<1>8. SeenHeld /\ SeenAlone
  BY <1>1, NoSightOK DEF SeenHeld, SeenAlone
<1>9. SeenPointed /\ SeenOnce
  BY <1>1, SightKeysIn DEF SeenPointed, SeenOnce
<1> QED BY <1>2, <1>6, <1>7, <1>8, <1>9 DEF SeenInv

\* A lookup follows the pointer.
LEMMA SightFound ==
    ASSUME SeenInv, NEW n \in Nick
    PROVE  /\ \A a \in Action : Sn!Lookup(seen, ByAction(n, a)) =
                 IF seen.idxs[ByAction(n, a)] = None THEN None
                 ELSE seen.vals[seen.idxs[ByAction(n, a)]]
           /\ \A t \in Millis : Sn!Lookup(seen, ByTime(n, t)) =
                 IF seen.idxs[ByTime(n, t)] = None THEN None
                 ELSE seen.vals[seen.idxs[ByTime(n, t)]]
<1>1. ASSUME NEW k \in SightKeys, seen.idxs[k] # None, k[1] \in {"nick", "key"}, k[2] = n,
             seen.vals[seen.idxs[k]] # None, seen.vals[seen.idxs[k]].nick = n
      PROVE  Sn!Found(seen, k)
  <2>1. seen.idxs[k] \in Id
    BY <1>1 DEF SeenInv, SeenType, Sn!Store
  <2>2. <<"nick", n>> \in seen.bkts /\ <<"key", n>> \in seen.bkts
    BY <1>1, <2>1 DEF SeenInv, SeenPlaced, Lodged
  <2> QED BY <1>1, <2>2 DEF Sn!Found
<1>2. ASSUME NEW a \in Action, seen.idxs[ByAction(n, a)] # None
      PROVE  Sn!Found(seen, ByAction(n, a))
  <2> DEFINE k == ByAction(n, a)
  <2>1. k \in SightKeys /\ k[1] \in {"nick", "key"} /\ k[2] = n
    BY SightKeysIn DEF ByAction
  <2>2. seen.vals[seen.idxs[k]] # None /\ seen.vals[seen.idxs[k]].nick = n
    BY <1>2 DEF SeenInv, SeenPointed
  <2> QED BY <1>1, <1>2, <2>1, <2>2
<1>3. ASSUME NEW t \in Millis, seen.idxs[ByTime(n, t)] # None
      PROVE  Sn!Found(seen, ByTime(n, t))
  <2> DEFINE k == ByTime(n, t)
  <2>1. k \in SightKeys /\ k[1] \in {"nick", "key"} /\ k[2] = n
    BY SightKeysIn DEF ByTime
  <2>2. seen.vals[seen.idxs[k]] # None /\ seen.vals[seen.idxs[k]].nick = n
    BY <1>3 DEF SeenInv, SeenPointed
  <2> QED BY <1>1, <1>3, <2>1, <2>2
<1> QED BY <1>2, <1>3 DEF Sn!Lookup

\* Steps that leave the collection alone.
LEMMA SeenStays ==
    ASSUME SeenInv, UNCHANGED <<seen, lastAt>>, now' \in Millis, now' >= now, crossed \subseteq crossed',
           events' \in 0 .. MaxEvents, sights' \in [Conn -> Look],
           \A c \in Conn : LookOK(sights[c])',
           IsFiniteSet(Pend'), Shown + Cardinality(Pend') <= events', SeenHeld', SeenAlone'
    PROVE  SeenInv'
<1>1. SeenType'
  BY DEF SeenInv, SeenType
<1>2. Shown' = Shown /\ Sn!Stored(seen)' = Sn!Stored(seen)
  BY DEF Shown, Sn!Stored
<1>3. SeenCounted'
  BY <1>2 DEF SeenInv, SeenCounted
<1>4. SeenPlaced'
  <2>1. now \in Int /\ now' \in Int
    BY SeenIds DEF SeenInv, SeenType, Millis
  <2>2. \A i \in Id : seen.vals[i] # None => seen.vals[i].ts \in Int
    <3>1. \A i \in Id : seen.vals[i] # None => seen.vals[i] \in Sighting
      BY DEF SeenInv, SeenType, Sn!Store
    <3> QED BY <3>1, SightIs DEF Millis
  <2> QED BY <1>2, <2>1, <2>2 DEF SeenInv, SeenPlaced, Lodged
<1>5. SeenPointed' /\ SeenOnce' /\ SeenListed'
  <2>1. SeenPointed'
    BY DEF SeenInv, SeenPointed
  <2>2. SeenOnce'
    BY DEF SeenInv, SeenOnce
  <2>3. SeenListed'
    <3> SUFFICES ASSUME NEW j \in Id, seen.vals[j] # None,
                        \A a \in Action : <<seen.vals[j].nick, a>> \notin crossed'
                 PROVE  \E t \in Millis : /\ t >= seen.vals[j].ts
                                          /\ seen.idxs[ByTime(seen.vals[j].nick, t)] # None
      BY DEF SeenListed
    <3> QED BY DEF SeenInv, SeenListed
  <2> QED BY <2>1, <2>2, <2>3
<1> QED BY <1>1, <1>3, <1>4, <1>5 DEF SeenInv

LEMMA StepMillisecond == SeenInv /\ Millisecond => SeenInv'
<1> SUFFICES ASSUME SeenInv, Millisecond PROVE SeenInv'
  OBVIOUS
<1>1. now' \in Millis /\ now' >= now /\ \A t \in 1 .. now : t \in 1 .. now'
  BY SeenIds DEF Millisecond, SeenInv, SeenType, Millis
<1>2. UNCHANGED <<seen, sights, events, lastAt, crossed>>
  BY DEF Millisecond
<1>3. Pend' = Pend
  BY <1>2 DEF Pend
<1>4. \A c \in Conn : LookOK(sights[c])'
  BY <1>1, <1>2 DEF SeenInv, SeenType, LookOK
<1>5. SeenHeld' /\ SeenAlone'
  <2>1. SeenHeld /\ SeenAlone
    BY DEF SeenInv
  <2>2. SeenHeld'
    BY <1>2, <2>1 DEF SeenHeld
  <2>3. SeenAlone'
    BY <1>2, <2>1 DEF SeenAlone
  <2> QED BY <2>2, <2>3
<1> QED BY <1>1, <1>2, <1>3, <1>4, <1>5, SeenStays DEF SeenInv, SeenType, SeenCounted

\* What is to be recorded when a handler turns to h.
LEMMA PendIs ==
    ASSUME SeenType, NEW c \in Conn, NEW h \in Look, sights' = [sights EXCEPT ![c] = h]
    PROVE  \A p \in Conn \X {1, 2} : p \in Pend' <=>
              IF p[1] = c THEN p[2] <= Len(h.left) ELSE p \in Pend
BY DEF SeenType, Pend

LEMMA StepOccurs ==
    ASSUME SeenInv, NEW c \in Conn, Occurs(c)
    PROVE  SeenInv'
<1>1. PICK r \in ToRecord :
        /\ sights[c] = NoSight
        /\ events + Len(r) <= MaxEvents /\ events' = events + Len(r)
        /\ sights' = [sights EXCEPT ![c] = [NoSight EXCEPT !.pc = "get", !.left = r]]
        /\ UNCHANGED <<seen, now, lastAt, crossed>>
  BY DEF Occurs
<1> DEFINE h == [NoSight EXCEPT !.pc = "get", !.left = r]
<1>2. r \in Seq(Nick \X Action) /\ Len(r) \in {1, 2}
  <2>1. CASE r \in {<<<<n, a>>>> : n \in Nick, a \in Action \ {"KICKING", "KICKED"}}
    <3>1. PICK n \in Nick, a \in Action : r = <<<<n, a>>>>
      BY <2>1
    <3>2. <<n, a>> \in Nick \X Action
      OBVIOUS
    <3> HIDE DEF h
    <3> QED BY <3>1, <3>2
  <2>2. CASE Kicks /\ r \in {<<<<n, "KICKING">>, <<m, "KICKED">>>> : n, m \in Nick}
    <3>1. PICK n \in Nick, m \in Nick : r = <<<<n, "KICKING">>, <<m, "KICKED">>>>
      BY <2>2
    <3>2. <<n, "KICKING">> \in Nick \X Action /\ <<m, "KICKED">> \in Nick \X Action
      BY <2>2, SeenAssumption
    <3> QED BY <3>1, <3>2
  <2> QED BY <2>1, <2>2 DEF ToRecord
<1>3. h \in Look /\ h.pc = "get" /\ h.left = r
  BY <1>2, NoSightOK DEF Look, NoSight
<1>4. sights' = [sights EXCEPT ![c] = h]
  BY <1>1
<1> HIDE DEF h
<1>5. sights' \in [Conn -> Look] /\ \A d \in Conn : sights'[d] = IF d = c THEN h ELSE sights[d]
  BY <1>3, <1>4 DEF SeenInv, SeenType
<1>6. LookOK(h) /\ \A d \in Conn : LookOK(sights[d])'
  <2>1. LookOK(h)
    BY <1>2, <1>3 DEF LookOK
  <2> QED BY <1>1, <1>3, <1>5, <2>1 DEF SeenInv, SeenType, LookOK
<1>7. SeenHeld' /\ SeenAlone'
  <2>1. \A d \in Conn : sights'[d].pc = "put" => d # c /\ sights'[d] = sights[d]
    BY <1>3, <1>5
  <2>2. SeenHeld /\ SeenAlone /\ UNCHANGED <<seen, crossed>>
    BY <1>1 DEF SeenInv
  <2>3. SeenHeld'
    <3> SUFFICES ASSUME NEW d \in Conn, sights'[d].pc = "put"
                 PROVE  LET k == sights'[d]
                            x == k.left[1]
                            i == seen.idxs[ByAction(x[1], x[2])] IN
                        /\ k.s # None =>
                              /\ k.s.nick = x[1] /\ k.s.act = x[2] /\ k.s.ts <= k.since
                              /\ seen.vals[k.s.id] # None
                              /\ seen.vals[k.s.id].nick = x[1] /\ seen.vals[k.s.id].act = x[2]
                        /\ x \notin crossed => k.s = IF i = None THEN None ELSE seen.vals[i]
      BY <2>2 DEF SeenHeld
    <3>1. sights'[d] = sights[d] /\ sights[d].pc = "put"
      BY <2>1
    <3>2. LET k == sights[d]
              x == k.left[1]
              i == seen.idxs[ByAction(x[1], x[2])] IN
          /\ k.s # None =>
                /\ k.s.nick = x[1] /\ k.s.act = x[2] /\ k.s.ts <= k.since
                /\ seen.vals[k.s.id] # None
                /\ seen.vals[k.s.id].nick = x[1] /\ seen.vals[k.s.id].act = x[2]
          /\ x \notin crossed => k.s = IF i = None THEN None ELSE seen.vals[i]
      BY <2>2, <3>1 DEF SeenHeld
    <3> QED BY <3>1, <3>2
  <2>4. SeenAlone'
    BY <2>1, <2>2 DEF SeenAlone
  <2> QED BY <2>3, <2>4
<1>8. IsFiniteSet(Pend') /\ Cardinality(Pend') = Cardinality(Pend) + Len(r)
  <2>1. \A p \in Conn \X {1, 2} : p \in Pend' <=> IF p[1] = c THEN p[2] <= Len(r) ELSE p \in Pend
    BY <1>3, <1>4, PendIs DEF SeenInv
  <2>2. \A p \in Conn \X {1, 2} : p[1] = c => p \notin Pend
    <3>1. Len(<<>>) = 0
      OBVIOUS
    <3> QED BY <1>1, <3>1, NoSightOK DEF Pend
  <2>3. Pend \subseteq Conn \X {1, 2} /\ Pend' \subseteq Conn \X {1, 2}
    BY DEF Pend
  <2>4. IsFiniteSet(Pend) /\ Cardinality(Pend) \in Nat
    BY FS_CardinalityType DEF SeenInv, SeenCounted
  <2>5. <<c, 1>> \in Conn \X {1, 2} /\ <<c, 2>> \in Conn \X {1, 2} /\ <<c, 1>> # <<c, 2>>
        /\ <<c, 1>> \notin Pend /\ <<c, 2>> \notin Pend
    BY <2>2
  <2>6. \A p \in Conn \X {1, 2} : p[1] = c => p = <<c, 1>> \/ p = <<c, 2>>
    OBVIOUS
  <2>7. IsFiniteSet(Pend \cup {<<c, 1>>}) /\ Cardinality(Pend \cup {<<c, 1>>}) = Cardinality(Pend) + 1
    BY <2>4, <2>5, FS_AddElement
  <2>8. CASE Len(r) = 1
    <3>1. Pend' = Pend \cup {<<c, 1>>}
      BY <2>1, <2>2, <2>3, <2>5, <2>6, <2>8
    <3> QED BY <2>7, <2>8, <3>1
  <2>9. CASE Len(r) = 2
    <3>1. Pend' = (Pend \cup {<<c, 1>>}) \cup {<<c, 2>>}
      BY <2>1, <2>2, <2>3, <2>5, <2>6, <2>9
    <3>2. <<c, 2>> \notin Pend \cup {<<c, 1>>}
      BY <2>5
    <3>3. /\ IsFiniteSet((Pend \cup {<<c, 1>>}) \cup {<<c, 2>>})
          /\ Cardinality((Pend \cup {<<c, 1>>}) \cup {<<c, 2>>}) = Cardinality(Pend \cup {<<c, 1>>}) + 1
      BY <2>7, <3>2, FS_AddElement
    <3> QED BY <2>4, <2>7, <2>9, <3>1, <3>3
  <2> QED BY <1>2, <2>8, <2>9
<1>9. events' \in 0 .. MaxEvents /\ Shown + Cardinality(Pend') <= events'
  <2>1. Cardinality(Pend) \in Nat /\ Shown \in Nat /\ Shown + Cardinality(Pend) <= events
    BY FS_CardinalityType DEF SeenInv, SeenCounted, Shown
  <2>2. events \in 0 .. MaxEvents /\ MaxEvents \in Nat /\ Len(r) \in Nat
    BY <1>2, SeenIds DEF SeenInv, SeenType
  <2> QED BY <1>1, <1>8, <2>1, <2>2
<1>10. now' \in Millis /\ now' >= now
  BY <1>1 DEF SeenInv, SeenType, Millis
<1> QED BY <1>1, <1>5, <1>6, <1>7, <1>8, <1>9, <1>10, SeenStays

LEMMA StepGetSight ==
    ASSUME SeenInv, NEW c \in Conn, GetSight(c)
    PROVE  SeenInv'
<1> DEFINE g == sights[c]
           x == g.left[1]
           s == Sn!Lookup(seen, ByAction(x[1], x[2]))
           h == [g EXCEPT !.pc = "put", !.s = s, !.since = now]
           i == seen.idxs[ByAction(x[1], x[2])]
<1>1. /\ g \in Look /\ g.left # <<>> /\ g.pc = "get" /\ Len(g.left) \in {1, 2}
      /\ sights' = [sights EXCEPT ![c] = h] /\ UNCHANGED <<seen, now, events, lastAt>>
      /\ crossed' = IF \E d \in Conn : sights[d].pc = "put" /\ sights[d].left[1] = x
                    THEN crossed \cup {x} ELSE crossed
  <2>1. LookOK(g) /\ g.pc = "get"
    BY DEF SeenInv, SeenType, GetSight
  <2> QED BY <2>1, AtWork DEF GetSight, LastSeenDoing
<1>2. x \in Nick \X Action /\ x = <<x[1], x[2]>> /\ x[1] \in Nick /\ x[2] \in Action
  BY <1>1, LeftIs
<1> HIDE DEF x
<1>3. s = IF i = None THEN None ELSE seen.vals[i]
  BY <1>2, SightFound
<1>4. now \in Millis /\ now \in 1 .. now /\ now \in 0 .. MaxTime /\ now >= now
  BY SeenIds DEF SeenInv, SeenType, Millis
<1>5. s # None => /\ s \in Sighting /\ s.nick = x[1] /\ s.act = x[2] /\ s.ts <= now
                  /\ s.id = i /\ i \in Id /\ seen.vals[i] = s
  <2> SUFFICES ASSUME s # None
               PROVE  /\ s \in Sighting /\ s.nick = x[1] /\ s.act = x[2] /\ s.ts <= now
                      /\ s.id = i /\ i \in Id /\ seen.vals[i] = s
    OBVIOUS
  <2>1. i # None /\ s = seen.vals[i]
    BY <1>3
  <2>2. i \in Id
    BY <1>2, <2>1, SightKeysIn DEF SeenInv, SeenType, Sn!Store
  <2>3. s \in Sighting
    <3>1. \A j \in Id : seen.vals[j] \in Sighting \cup {None}
      BY DEF SeenInv, SeenType, Sn!Store
    <3> HIDE DEF s, i
    <3> QED BY <2>1, <2>2, <3>1
  <2>4. s.nick = x[1] /\ s.act = x[2]
    <3>1. \A n \in Nick, a \in Action :
              seen.idxs[ByAction(n, a)] # None =>
                  /\ seen.vals[seen.idxs[ByAction(n, a)]].nick = n
                  /\ seen.vals[seen.idxs[ByAction(n, a)]].act = a
      BY DEF SeenInv, SeenPointed
    <3> HIDE DEF s
    <3> QED BY <1>2, <2>1, <3>1
  <2>5. s.id = i /\ s.ts <= now
    <3>1. \A j \in Id : seen.vals[j] # None => seen.vals[j].id = j /\ seen.vals[j].ts <= now
      BY DEF SeenInv, SeenPlaced
    <3> HIDE DEF s, i
    <3> QED BY <2>1, <2>2, <3>1
  <2> QED BY <2>1, <2>2, <2>3, <2>4, <2>5
<1> HIDE DEF s, i
<1>6. /\ h \in Look /\ h.pc = "put" /\ h.left = g.left /\ h.s = s /\ h.since = now
  BY <1>1, <1>4, <1>5 DEF Look
<1> HIDE DEF h
<1>7. sights' \in [Conn -> Look] /\ \A d \in Conn : sights'[d] = IF d = c THEN h ELSE sights[d]
  BY <1>1, <1>6 DEF SeenInv, SeenType
<1>8. \A d \in Conn : LookOK(sights[d])'
  <2>1. LookOK(h)
    BY <1>1, <1>4, <1>6 DEF LookOK
  <2> QED BY <1>1, <1>7, <2>1 DEF SeenInv, SeenType, LookOK
<1>9. SeenHeld'
  <2> SUFFICES ASSUME NEW d \in Conn, sights'[d].pc = "put"
               PROVE  LET k == sights'[d]
                          y == k.left[1]
                          j == seen.idxs[ByAction(y[1], y[2])] IN
                      /\ k.s # None =>
                            /\ k.s.nick = y[1] /\ k.s.act = y[2] /\ k.s.ts <= k.since
                            /\ seen.vals[k.s.id] # None
                            /\ seen.vals[k.s.id].nick = y[1] /\ seen.vals[k.s.id].act = y[2]
                      /\ y \notin crossed' => k.s = IF j = None THEN None ELSE seen.vals[j]
    <3>1. UNCHANGED seen
      BY <1>1
    <3> QED BY <3>1 DEF SeenHeld
  <2>0. sights'[d].pc = "put"
    OBVIOUS
  <2>1. CASE d = c
    <3>1. sights'[d] = h /\ h.left[1] = x
      BY <1>6, <1>7, <2>1 DEF x
    <3> QED BY <1>3, <1>5, <1>6, <3>1 DEF i
  <2>2. CASE d # c
    <3>1. sights'[d] = sights[d]
      BY <1>7, <2>2
    <3> DEFINE k == sights[d]
               y == k.left[1]
               j == seen.idxs[ByAction(y[1], y[2])]
    <3>2. /\ k.s # None =>
                /\ k.s.nick = y[1] /\ k.s.act = y[2] /\ k.s.ts <= k.since
                /\ seen.vals[k.s.id] # None
                /\ seen.vals[k.s.id].nick = y[1] /\ seen.vals[k.s.id].act = y[2]
          /\ y \notin crossed => k.s = IF j = None THEN None ELSE seen.vals[j]
      BY <2>0, <3>1 DEF SeenInv, SeenHeld
    <3>3. y \notin crossed' => y \notin crossed
      BY <1>1
    <3> HIDE DEF j, y
    <3> QED BY <3>1, <3>2, <3>3 DEF j, y
  <2> QED BY <2>1, <2>2
<1>10. SeenAlone'
  <2>1. ASSUME NEW d \in Conn, d # c, sights[d].pc = "put", sights[d].left[1] = x
        PROVE  x \in crossed'
    BY <1>1, <2>1
  <2>2. h.left[1] = x
    BY <1>6 DEF x
  <2>3. crossed \subseteq crossed'
    BY <1>1
  <2> QED BY <1>7, <2>1, <2>2, <2>3 DEF SeenInv, SeenAlone
<1>11. Pend' = Pend
  <2>1. \A p \in Conn \X {1, 2} : p \in Pend' <=> IF p[1] = c THEN p[2] <= Len(h.left) ELSE p \in Pend
    BY <1>1, <1>6, PendIs DEF SeenInv
  <2> QED BY <1>6, <2>1 DEF Pend
<1>12. /\ IsFiniteSet(Pend') /\ Shown + Cardinality(Pend') <= events' /\ events' \in 0 .. MaxEvents
       /\ now' \in Millis /\ now' >= now /\ crossed \subseteq crossed'
  BY <1>1, <1>4, <1>11 DEF SeenInv, SeenCounted, SeenType
<1> QED BY <1>1, <1>7, <1>8, <1>9, <1>10, <1>12, SeenStays

\* What PutSight puts, x, under an id that is the next or that of the record it read.
LEMMA SightPut ==
    ASSUME SeenInv, NEW c \in Conn, PutSight(c)
    PROVE  \E x \in Sighting : LET h == sights[c]
                                   old == seen.vals[x.id] IN
              /\ seen' = Sn!PutTx(seen, x) /\ h.pc = "put"
              /\ h.left[1] = <<x.nick, x.act>> /\ x.ts <= now
              /\ lastAt' = [lastAt EXCEPT ![h.left[1]] = x.ts]
              /\ IF h.s = None THEN old = None /\ x.id = Shown + 1
                 ELSE /\ old # None /\ old.nick = x.nick /\ old.act = x.act
                      /\ x.id = h.s.id /\ h.s.ts <= x.ts
<1> DEFINE h == sights[c]
<1>1. PICK ts \in h.since .. now :
        /\ seen' = Sn!PutTx(seen, Sight(h, ts))
        /\ lastAt' = [lastAt EXCEPT ![h.left[1]] = ts]
  BY DEF PutSight
<1>2. h \in Look /\ h.pc = "put" /\ h.left # <<>> /\ h.since \in 1 .. now /\ Len(h.left) \in {1, 2}
  <2>1. LookOK(h) /\ h.pc = "put"
    BY DEF SeenInv, SeenType, PutSight
  <2> QED BY <2>1, AtWork DEF LookOK
<1>3. ts \in Millis /\ h.since <= ts /\ ts <= now
  BY <1>1, <1>2, SeenIds DEF SeenInv, SeenType, Millis
<1>4. /\ h.left[1] = <<h.left[1][1], h.left[1][2]>>
      /\ h.left[1][1] \in Nick /\ h.left[1][2] \in Action
  BY <1>2, LeftIs
<1>5. Shown \in Nat /\ Shown + 1 \in Id
  <2>1. /\ IsFiniteSet(Pend) /\ IsFiniteSet(Sn!Stored(seen))
        /\ Shown + Cardinality(Pend) <= events /\ events \in 0 .. MaxEvents
    BY DEF SeenInv, SeenCounted, SeenType
  <2>2. <<c, 1>> \in Pend
    BY <1>2 DEF Pend
  <2>3. Cardinality(Pend) \in Nat /\ Cardinality(Pend) # 0 /\ Shown \in Nat
    BY <2>1, <2>2, FS_CardinalityType, FS_EmptySet DEF Shown
  <2> QED BY <2>1, <2>3, SeenIds DEF Id
<1> DEFINE x == Sight(h, ts)
<1>6. CASE h.s = None
  <2>1. x = [id |-> Shown + 1, ts |-> ts, nick |-> h.left[1][1], act |-> h.left[1][2]]
    <3>1. 1 + Shown = Shown + 1
      BY <1>5
    <3> QED BY <1>6, <3>1 DEF Sight, Shown
  <2>2. /\ x \in Sighting /\ x.id = Shown + 1 /\ x.ts = ts
        /\ x.nick = h.left[1][1] /\ x.act = h.left[1][2]
    BY <1>3, <1>4, <1>5, <2>1 DEF Sighting
  <2>3. seen.vals[x.id] = None
    BY <1>5, <2>2 DEF SeenInv, SeenPlaced
  <2> HIDE DEF x
  <2>4. h.left[1] = <<x.nick, x.act>>
    BY <1>4, <2>2
  <2> QED BY <1>1, <1>2, <1>3, <1>6, <2>2, <2>3, <2>4 DEF x
<1>7. CASE h.s # None
  <2>1. /\ h.s.nick = h.left[1][1] /\ h.s.act = h.left[1][2] /\ h.s.ts <= h.since
        /\ seen.vals[h.s.id] # None
        /\ seen.vals[h.s.id].nick = h.left[1][1] /\ seen.vals[h.s.id].act = h.left[1][2]
    BY <1>2, <1>7 DEF SeenInv, SeenHeld
  <2>2. h.s \in Sighting
    BY <1>2, <1>7 DEF Look
  <2>3. x = [h.s EXCEPT !.ts = ts]
    BY <1>7 DEF Sight
  <2>4. x \in Sighting /\ x.id = h.s.id /\ x.ts = ts /\ x.nick = h.s.nick /\ x.act = h.s.act
    BY <1>3, <2>2, <2>3 DEF Sighting
  <2>5. h.s.ts <= ts
    <3>1. h.s.ts \in Int /\ h.since \in Int /\ ts \in Int
      BY <1>2, <1>3, <2>2, SightIs DEF Millis
    <3> QED BY <1>3, <2>1, <3>1
  <2> HIDE DEF x
  <2>6. h.left[1] = <<x.nick, x.act>>
    BY <1>4, <2>1, <2>4
  <2> QED BY <1>1, <1>2, <1>3, <1>7, <2>1, <2>4, <2>5, <2>6 DEF x
<1> QED BY <1>6, <1>7

\* What the collection is after that.
LEMMA AfterSight ==
    ASSUME SeenInv, NEW x \in Sighting, seen' = Sn!PutTx(seen, x),
           seen.vals[x.id] # None => seen.vals[x.id].nick = x.nick /\ seen.vals[x.id].act = x.act
    PROVE  /\ seen' \in Sn!Store
           /\ \A i \in Id : seen'.vals[i] = IF i = x.id THEN x ELSE seen.vals[i]
           /\ seen.bkts \subseteq seen'.bkts /\ Lodged(seen', x)
           /\ \A n \in Nick, a \in Action : seen'.idxs[ByAction(n, a)] =
                 IF n = x.nick /\ a = x.act THEN x.id ELSE seen.idxs[ByAction(n, a)]
           /\ \A n \in Nick, t \in Millis : seen'.idxs[ByTime(n, t)] =
                 IF n = x.nick /\ t = x.ts THEN x.id
                 ELSE IF seen.vals[x.id] # None /\ n = x.nick /\ t = seen.vals[x.id].ts
                 THEN None ELSE seen.idxs[ByTime(n, t)]
           /\ IsFiniteSet(Sn!Stored(seen))' /\ Shown \in Nat
           /\ Shown' = IF seen.vals[x.id] = None THEN Shown + 1 ELSE Shown
<1> DEFINE old == seen.vals[x.id]
           S == Sn!Stored(seen)
<1>1. seen \in Sn!Store /\ x.id \in Id /\ x # None /\ (old # None => Lodged(seen, old))
  BY SightIs DEF SeenInv, SeenType, SeenPlaced
<1>2. /\ seen' \in Sn!Store
      /\ seen'.vals = [seen.vals EXCEPT ![x.id] = x]
      /\ seen'.bkts = seen.bkts \cup {<<"nick", x.nick>>, <<"key", x.nick>>}
      /\ \A k \in SightKeys : seen'.idxs[k] =
            IF k = ByAction(x.nick, x.act) \/ k = ByTime(x.nick, x.ts) THEN x.id
            ELSE IF old # None /\ (k = ByAction(old.nick, old.act) \/ k = ByTime(old.nick, old.ts))
            THEN None ELSE seen.idxs[k]
  BY <1>1, PutSightIs
<1>3. \A i \in Id : seen'.vals[i] = IF i = x.id THEN x ELSE seen.vals[i]
  BY <1>1, <1>2 DEF Sn!Store
<1>4. seen.bkts \subseteq seen'.bkts /\ Lodged(seen', x)
  BY <1>2 DEF Lodged
<1>5. \A n, m, a, b : ByAction(n, a) = ByAction(m, b) <=> n = m /\ a = b
  BY DEF ByAction
<1>6. \A n, m, t, u : ByTime(n, t) = ByTime(m, u) <=> n = m /\ t = u
  BY DEF ByTime
<1>7. \A n, m, a, t : ByAction(n, a) # ByTime(m, t)
  BY DEF ByAction, ByTime
<1>8. old # None => old.nick = x.nick /\ old.act = x.act
  OBVIOUS
<1>9. /\ Sn!Stored(seen)' = (S \ {old}) \cup {x} /\ x \notin S \ {old}
      /\ IsFiniteSet(S) /\ Cardinality(S) \in Nat /\ (old \in S <=> old # None)
  <2>1. \A i \in Id : seen.vals[i] # None => seen.vals[i].id = i
    BY DEF SeenInv, SeenPlaced
  <2>2. Sn!Stored(seen)' = (S \ {old}) \cup {x}
    BY <1>1, <1>3, <2>1 DEF Sn!Stored
  <2>3. x \notin S \ {old} /\ (old \in S <=> old # None)
    BY <1>1, <2>1 DEF Sn!Stored
  <2> QED BY <2>2, <2>3, FS_CardinalityType DEF SeenInv, SeenCounted
<1> HIDE DEF old, S
<1>10. ASSUME NEW n \in Nick, NEW a \in Action
       PROVE  seen'.idxs[ByAction(n, a)] =
                 IF n = x.nick /\ a = x.act THEN x.id ELSE seen.idxs[ByAction(n, a)]
  BY <1>2, <1>5, <1>7, <1>8, SightKeysIn
<1>11. ASSUME NEW n \in Nick, NEW t \in Millis
       PROVE  seen'.idxs[ByTime(n, t)] =
                 IF n = x.nick /\ t = x.ts THEN x.id
                 ELSE IF old # None /\ n = x.nick /\ t = old.ts
                 THEN None ELSE seen.idxs[ByTime(n, t)]
  BY <1>2, <1>6, <1>7, <1>8, SightKeysIn
<1>12. /\ IsFiniteSet(Sn!Stored(seen))' /\ Cardinality(S) \in Nat
       /\ Shown' = IF old = None THEN Cardinality(S) + 1 ELSE Cardinality(S)
  <2>1. /\ IsFiniteSet(S \ {old})
        /\ Cardinality(S \ {old}) = IF old = None THEN Cardinality(S) ELSE Cardinality(S) - 1
    BY <1>9, FS_RemoveElement
  <2>2. /\ IsFiniteSet((S \ {old}) \cup {x})
        /\ Cardinality((S \ {old}) \cup {x}) = Cardinality(S \ {old}) + 1
    BY <1>9, <2>1, FS_AddElement
  <2> QED BY <1>9, <2>1, <2>2 DEF Shown
<1> QED BY <1>2, <1>3, <1>4, <1>10, <1>11, <1>12 DEF old, S, Shown

\* Where a handler goes from a put: what it had recorded is no longer pending.
LEMMA SightDone ==
    ASSUME SeenInv, NEW c \in Conn, PutSight(c)
    PROVE  /\ sights' \in [Conn -> Look] /\ \A d \in Conn : LookOK(sights[d])'
           /\ sights'[c].pc # "put" /\ \A d \in Conn \ {c} : sights'[d] = sights[d]
           /\ IsFiniteSet(Pend') /\ Cardinality(Pend) \in Nat
           /\ Cardinality(Pend') = Cardinality(Pend) - 1
<1> DEFINE g == sights[c]
           h == IF Len(g.left) = 1 THEN NoSight
                ELSE [NoSight EXCEPT !.pc = "get", !.left = Tail(g.left)]
<1>1. /\ g.left # <<>> /\ g.left \in Seq(Nick \X Action) /\ Len(g.left) \in {1, 2}
  BY AtWork DEF SeenInv, SeenType, PutSight
<1>2. h \in Look /\ LookOK(h) /\ h.pc # "put" /\ Len(h.left) = Len(g.left) - 1
  <2>1. CASE Len(g.left) = 1
    <3>1. Len(<<>>) = 0
      OBVIOUS
    <3> QED BY <2>1, <3>1, NoSightOK DEF LookOK
  <2>2. CASE Len(g.left) = 2
    <3>1. Tail(g.left) \in Seq(Nick \X Action) /\ Len(Tail(g.left)) = 1
      BY <1>1, <2>2
    <3>2. h = [NoSight EXCEPT !.pc = "get", !.left = Tail(g.left)]
      BY <2>2
    <3>3. h \in Look /\ h.pc = "get" /\ h.left = Tail(g.left)
      BY <3>1, <3>2, NoSightOK DEF Look, NoSight
    <3> HIDE DEF h
    <3> QED BY <2>2, <3>1, <3>3 DEF LookOK
  <2> QED BY <1>1, <2>1, <2>2
<1>3. sights' = [sights EXCEPT ![c] = h] /\ UNCHANGED now
  BY DEF PutSight
<1> HIDE DEF h
<1>4. sights' \in [Conn -> Look] /\ \A d \in Conn : sights'[d] = IF d = c THEN h ELSE sights[d]
  BY <1>2, <1>3 DEF SeenInv, SeenType
<1>5. \A d \in Conn : LookOK(sights[d])'
  BY <1>2, <1>3, <1>4 DEF SeenInv, SeenType, LookOK
<1>6. \A p \in Conn \X {1, 2} : p \in Pend' <=> IF p[1] = c THEN p[2] <= Len(h.left) ELSE p \in Pend
  BY <1>2, <1>3, PendIs DEF SeenInv
<1> DEFINE q == <<c, Len(g.left)>>
<1>7. q \in Pend /\ Pend' = Pend \ {q}
  <2>1. q \in Conn \X {1, 2} /\ q[1] = c /\ q[2] = Len(g.left)
    BY <1>1
  <2>2. q \in Pend
    BY <2>1 DEF Pend
  <2>3. ASSUME NEW p \in Conn \X {1, 2} PROVE p \in Pend' <=> p \in Pend /\ p # q
    <3>1. CASE p[1] = c
      <4>1. p = <<c, p[2]>> /\ p[2] \in {1, 2}
        BY <3>1
      <4>2. p \in Pend <=> p[2] <= Len(g.left)
        BY <3>1 DEF Pend
      <4>3. p \in Pend' <=> p[2] <= Len(h.left)
        BY <1>6, <3>1
      <4>4. p = q <=> p[2] = Len(g.left)
        BY <2>1, <4>1
      <4> QED BY <1>1, <1>2, <4>1, <4>2, <4>3, <4>4
    <3>2. CASE p[1] # c
      BY <1>6, <2>1, <3>2
    <3> QED BY <3>1, <3>2
  <2>4. Pend \subseteq Conn \X {1, 2} /\ Pend' \subseteq Conn \X {1, 2}
    BY DEF Pend
  <2> QED BY <2>2, <2>3, <2>4
<1>8. IsFiniteSet(Pend) /\ Cardinality(Pend) \in Nat
  BY FS_CardinalityType DEF SeenInv, SeenCounted
<1>9. IsFiniteSet(Pend') /\ Cardinality(Pend') = Cardinality(Pend) - 1
  BY <1>7, <1>8, FS_RemoveElement
<1> QED BY <1>2, <1>4, <1>5, <1>8, <1>9

LEMMA StepPutSight ==
    ASSUME SeenInv, NEW c \in Conn, PutSight(c)
    PROVE  SeenInv'
<1> DEFINE h == sights[c]
<1>1. PICK x \in Sighting : LET old == seen.vals[x.id] IN
              /\ seen' = Sn!PutTx(seen, x) /\ h.pc = "put"
              /\ h.left[1] = <<x.nick, x.act>> /\ x.ts <= now
              /\ lastAt' = [lastAt EXCEPT ![h.left[1]] = x.ts]
              /\ IF h.s = None THEN old = None /\ x.id = Shown + 1
                 ELSE /\ old # None /\ old.nick = x.nick /\ old.act = x.act
                      /\ x.id = h.s.id /\ h.s.ts <= x.ts
  BY SightPut
<1> DEFINE old == seen.vals[x.id]
<1>2. old # None => old.nick = x.nick /\ old.act = x.act
  BY <1>1
<1>3. /\ seen' \in Sn!Store
      /\ \A i \in Id : seen'.vals[i] = IF i = x.id THEN x ELSE seen.vals[i]
      /\ seen.bkts \subseteq seen'.bkts /\ Lodged(seen', x)
      /\ \A n \in Nick, a \in Action : seen'.idxs[ByAction(n, a)] =
            IF n = x.nick /\ a = x.act THEN x.id ELSE seen.idxs[ByAction(n, a)]
      /\ \A n \in Nick, t \in Millis : seen'.idxs[ByTime(n, t)] =
            IF n = x.nick /\ t = x.ts THEN x.id
            ELSE IF old # None /\ n = x.nick /\ t = old.ts
            THEN None ELSE seen.idxs[ByTime(n, t)]
      /\ IsFiniteSet(Sn!Stored(seen))' /\ Shown \in Nat
      /\ Shown' = IF old = None THEN Shown + 1 ELSE Shown
  BY <1>1, <1>2, AfterSight
<1>4. /\ sights' \in [Conn -> Look] /\ \A d \in Conn : LookOK(sights[d])'
      /\ sights'[c].pc # "put" /\ \A d \in Conn \ {c} : sights'[d] = sights[d]
      /\ IsFiniteSet(Pend') /\ Cardinality(Pend) \in Nat
      /\ Cardinality(Pend') = Cardinality(Pend) - 1
  BY SightDone
<1>5. /\ x.id \in Id /\ x.nick \in Nick /\ x.act \in Action /\ x.ts \in Millis /\ x # None
      /\ x.id # None /\ UNCHANGED <<now, events, crossed>>
      /\ \A i \in Id : seen.vals[i] \in Sighting \cup {None}
  BY SightIs, SeenIds DEF PutSight, SeenInv, SeenType, Sn!Store
<1>6. \A i \in Id : seen.vals[i] # None => seen.vals[i].ts \in Millis
                                           /\ seen.vals[i].nick \in Nick /\ seen.vals[i].act \in Action
  BY <1>5, SightIs
\* What a put that crosses none overwrites is what its handler read, all there was.
<1>7. ASSUME <<x.nick, x.act>> \notin crossed
      PROVE  IF h.s = None THEN seen.idxs[ByAction(x.nick, x.act)] = None
             ELSE /\ seen.idxs[ByAction(x.nick, x.act)] = x.id
                  /\ old = h.s /\ old.ts <= x.ts
  <2> DEFINE i == seen.idxs[ByAction(x.nick, x.act)]
  <2>1. h.left[1] = <<x.nick, x.act>> /\ h.left[1][1] = x.nick /\ h.left[1][2] = x.act
    BY <1>1
  <2>2. h.s = IF i = None THEN None ELSE seen.vals[i]
    BY <1>1, <1>7, <2>1 DEF SeenInv, SeenHeld
  <2>3. i # None => i \in Id /\ seen.vals[i] # None /\ seen.vals[i].id = i
    <3>1. i \in Id \cup {None}
      BY <1>5, SightKeysIn DEF SeenInv, SeenType, Sn!Store
    <3>2. i # None => seen.vals[i] # None
      BY <1>5 DEF SeenInv, SeenPointed
    <3> QED BY <3>1, <3>2 DEF SeenInv, SeenPlaced
  <2> HIDE DEF i
  <2> QED BY <1>1, <2>2, <2>3 DEF i
<1>8. SeenType'
  <2>1. x.ts \in 0 .. MaxTime
    BY <1>5, SeenIds DEF Millis
  <2>2. lastAt' \in [Nick \X Action -> 0 .. MaxTime]
    BY <1>1, <2>1 DEF SeenInv, SeenType
  <2> QED BY <1>3, <1>4, <1>5, <2>2 DEF SeenInv, SeenType
<1>9. SeenCounted'
  <2>1. Shown + Cardinality(Pend) <= events /\ events \in Nat
    BY DEF SeenInv, SeenCounted, SeenType
  <2>2. Shown' + Cardinality(Pend') <= events
    BY <1>3, <1>4, <2>1
  <2> QED BY <1>3, <1>4, <1>5, <2>2 DEF SeenCounted
<1>10. SeenPlaced'
  <2>1. ASSUME NEW i \in Id PROVE seen'.vals[i] # None <=> i <= Shown'
    <3>1. seen.vals[i] # None <=> i <= Shown
      BY DEF SeenInv, SeenPlaced
    <3>2. i \in Nat
      BY DEF Id
    <3>3. CASE i = x.id
      <4>1. old # None => i <= Shown
        BY <3>1, <3>3
      <4> QED BY <1>1, <1>3, <1>5, <3>2, <3>3, <4>1
    <3>4. CASE i # x.id
      <4>1. seen'.vals[i] = seen.vals[i]
        BY <1>3, <3>4
      <4>2. CASE old # None
        BY <1>3, <3>1, <4>1, <4>2
      <4>3. CASE old = None
        <5>1. x.id = Shown + 1 /\ Shown' = Shown + 1
          BY <1>1, <1>3, <4>3
        <5> QED BY <1>3, <3>1, <3>2, <3>4, <4>1, <5>1
      <4> QED BY <4>2, <4>3
    <3> QED BY <3>3, <3>4
  <2>2. ASSUME NEW i \in Id, seen'.vals[i] # None
        PROVE  LET v == seen'.vals[i] IN
               /\ v.id = i /\ Lodged(seen', v) /\ v.ts <= now'
               /\ seen'.idxs[ByAction(v.nick, v.act)] # None
    <3>1. CASE i = x.id
      <4>1. seen'.vals[i] = x /\ seen'.idxs[ByAction(x.nick, x.act)] = x.id
        BY <1>3, <1>5, <3>1
      <4> QED BY <1>1, <1>3, <1>5, <3>1, <4>1
    <3>2. CASE i # x.id
      <4> DEFINE v == seen.vals[i]
      <4>1. seen'.vals[i] = v /\ v # None
        BY <1>3, <2>2, <3>2
      <4>2. v.id = i /\ Lodged(seen, v) /\ v.ts <= now /\ seen.idxs[ByAction(v.nick, v.act)] # None
        BY <4>1 DEF SeenInv, SeenPlaced
      <4>3. v.nick \in Nick /\ v.act \in Action
        BY <1>6, <4>1
      <4>4. seen'.idxs[ByAction(v.nick, v.act)] # None
        BY <1>3, <1>5, <4>2, <4>3
      <4>5. Lodged(seen', v)
        BY <1>3, <4>2 DEF Lodged
      <4> HIDE DEF v
      <4> QED BY <1>5, <4>1, <4>2, <4>4, <4>5
    <3> QED BY <3>1, <3>2
  <2> QED BY <2>1, <2>2 DEF SeenPlaced, Lodged
<1>11. ASSUME NEW d \in Conn, sights'[d].pc = "put"
       PROVE  LET k == sights'[d]
                  y == k.left[1]
                  j == seen'.idxs[ByAction(y[1], y[2])] IN
              /\ k.s # None =>
                    /\ k.s.nick = y[1] /\ k.s.act = y[2] /\ k.s.ts <= k.since
                    /\ seen'.vals[k.s.id] # None
                    /\ seen'.vals[k.s.id].nick = y[1] /\ seen'.vals[k.s.id].act = y[2]
              /\ y \notin crossed' => k.s = IF j = None THEN None ELSE seen'.vals[j]
  <2> DEFINE k == sights[d]
             y == k.left[1]
             j == seen.idxs[ByAction(y[1], y[2])]
  <2>1. d # c /\ sights'[d] = k /\ k.pc = "put"
    BY <1>4, <1>11
  <2>2. k \in Look /\ k.left # <<>>
    BY <2>1, AtWork DEF SeenInv, SeenType
  <2>3. y[1] \in Nick /\ y[2] \in Action /\ y = <<y[1], y[2]>>
    BY <2>2, LeftIs
  <2>4. /\ k.s # None =>
              /\ k.s.nick = y[1] /\ k.s.act = y[2] /\ k.s.ts <= k.since
              /\ seen.vals[k.s.id] # None
              /\ seen.vals[k.s.id].nick = y[1] /\ seen.vals[k.s.id].act = y[2]
        /\ y \notin crossed => k.s = IF j = None THEN None ELSE seen.vals[j]
    BY <2>1 DEF SeenInv, SeenHeld
  <2>5. y \notin crossed => ~(y[1] = x.nick /\ y[2] = x.act)
    <3>1. h.left[1] = y => y \in crossed
      BY <1>1, <2>1 DEF SeenInv, SeenAlone
    <3> QED BY <1>1, <2>3, <3>1
  <2>6. k.s # None => k.s.id \in Id
    BY <2>2, SightIs DEF Look
  <2>7. k.s # None => /\ seen'.vals[k.s.id] # None
                      /\ seen'.vals[k.s.id].nick = y[1] /\ seen'.vals[k.s.id].act = y[2]
    BY <1>2, <1>3, <1>5, <2>4, <2>6
  <2>8. ASSUME y \notin crossed
        PROVE  /\ seen'.idxs[ByAction(y[1], y[2])] = j
               /\ j # None => seen'.vals[j] = seen.vals[j]
    <3>1. seen'.idxs[ByAction(y[1], y[2])] = j
      BY <1>3, <2>3, <2>5, <2>8
    <3>2. j # None => j \in Id
      BY <2>3, SightKeysIn DEF SeenInv, SeenType, Sn!Store
    <3>3. j # None => seen.vals[j] # None /\ seen.vals[j].nick = y[1] /\ seen.vals[j].act = y[2]
      <4>1. \A n \in Nick, b \in Action :
                seen.idxs[ByAction(n, b)] # None =>
                    /\ seen.vals[seen.idxs[ByAction(n, b)]] # None
                    /\ seen.vals[seen.idxs[ByAction(n, b)]].nick = n
                    /\ seen.vals[seen.idxs[ByAction(n, b)]].act = b
        BY DEF SeenInv, SeenPointed
      <4> HIDE DEF y
      <4> QED BY <2>3, <4>1
    <3>4. j # None => j # x.id
      BY <1>2, <2>5, <2>8, <3>3
    <3> QED BY <1>3, <3>1, <3>2, <3>4
  <2> HIDE DEF y, j, k
  <2> QED BY <1>5, <2>1, <2>4, <2>7, <2>8 DEF j, y
<1>12. SeenHeld' /\ SeenAlone'
  <2>1. SeenHeld'
    BY <1>11 DEF SeenHeld
  <2>2. SeenAlone'
    BY <1>4, <1>5 DEF SeenInv, SeenAlone
  <2> QED BY <2>1, <2>2
<1>13. SeenPointed'
  <2>1. ASSUME NEW n \in Nick, NEW a \in Action, seen'.idxs[ByAction(n, a)] # None
        PROVE  LET i == seen'.idxs[ByAction(n, a)] IN
               seen'.vals[i] # None /\ seen'.vals[i].nick = n /\ seen'.vals[i].act = a
    <3>1. CASE n = x.nick /\ a = x.act
      <4>1. seen'.idxs[ByAction(n, a)] = x.id
        BY <1>3, <3>1
      <4> QED BY <1>3, <1>5, <3>1, <4>1
    <3>2. CASE ~(n = x.nick /\ a = x.act)
      <4> DEFINE i == seen.idxs[ByAction(n, a)]
      <4>1. seen'.idxs[ByAction(n, a)] = i /\ i # None
        BY <1>3, <2>1, <3>2
      <4>2. i \in Id /\ seen.vals[i] # None /\ seen.vals[i].nick = n /\ seen.vals[i].act = a
        BY <4>1, SightKeysIn DEF SeenInv, SeenType, SeenPointed, Sn!Store
      <4>3. i # x.id
        BY <1>2, <3>2, <4>2
      <4> QED BY <1>3, <4>1, <4>2, <4>3
    <3> QED BY <3>1, <3>2
  <2>2. ASSUME NEW n \in Nick, NEW t \in Millis, seen'.idxs[ByTime(n, t)] # None
        PROVE  LET i == seen'.idxs[ByTime(n, t)] IN
               seen'.vals[i] # None /\ seen'.vals[i].nick = n /\ seen'.vals[i].ts = t
    <3>1. CASE n = x.nick /\ t = x.ts
      <4>1. seen'.idxs[ByTime(n, t)] = x.id
        BY <1>3, <3>1
      <4> QED BY <1>3, <1>5, <3>1, <4>1
    <3>2. CASE ~(n = x.nick /\ t = x.ts)
      <4> DEFINE i == seen.idxs[ByTime(n, t)]
      <4>1. seen'.idxs[ByTime(n, t)] = i /\ i # None
            /\ ~(old # None /\ n = x.nick /\ t = old.ts)
        BY <1>3, <2>2, <3>2
      <4>2. i \in Id /\ seen.vals[i] # None /\ seen.vals[i].nick = n /\ seen.vals[i].ts = t
        BY <4>1, SightKeysIn DEF SeenInv, SeenType, SeenPointed, Sn!Store
      <4>3. i # x.id
        BY <1>2, <4>1, <4>2
      <4> QED BY <1>3, <4>1, <4>2, <4>3
    <3> QED BY <3>1, <3>2
  <2> QED BY <2>1, <2>2 DEF SeenPointed
<1>14. SeenOnce'
  <2> SUFFICES ASSUME NEW n \in Nick, NEW a \in Action, <<n, a>> \notin crossed
               PROVE  LET i == seen'.idxs[ByAction(n, a)] IN
                      /\ lastAt'[<<n, a>>] = IF i = None THEN 0 ELSE seen'.vals[i].ts
                      /\ \A j \in Id : seen'.vals[j] # None /\ seen'.vals[j].nick = n
                                       /\ seen'.vals[j].act = a => j = i
    BY <1>5 DEF SeenOnce
  <2> DEFINE i == seen.idxs[ByAction(n, a)]
  <2>0. <<n, a>> \in Nick \X Action /\ <<x.nick, x.act>> \in Nick \X Action
        /\ lastAt \in [Nick \X Action -> 0 .. MaxTime]
    BY <1>5 DEF SeenInv, SeenType
  <2>1. /\ lastAt[<<n, a>>] = IF i = None THEN 0 ELSE seen.vals[i].ts
        /\ \A j \in Id : seen.vals[j] # None /\ seen.vals[j].nick = n /\ seen.vals[j].act = a => j = i
    BY DEF SeenInv, SeenOnce
  <2>2. CASE n = x.nick /\ a = x.act
    <3>1. seen'.idxs[ByAction(n, a)] = x.id /\ x.id # None /\ seen'.vals[x.id] = x
      BY <1>3, <1>5, <2>2
    <3>2. lastAt'[<<n, a>>] = x.ts
      BY <1>1, <2>0, <2>2
    <3>3. IF h.s = None THEN i = None ELSE i = x.id
      BY <1>7, <2>2
    <3>4. ASSUME NEW j \in Id, j # x.id, seen'.vals[j] # None, seen'.vals[j].nick = n,
                 seen'.vals[j].act = a
          PROVE  FALSE
      <4>1. seen.vals[j] # None /\ seen.vals[j].nick = n /\ seen.vals[j].act = a
        BY <1>3, <3>4
      <4>2. j = i /\ i # None
        BY <2>1, <4>1, SeenIds
      <4> QED BY <3>3, <3>4, <4>2
    <3> QED BY <3>1, <3>2, <3>4
  <2>3. CASE ~(n = x.nick /\ a = x.act)
    <3>1. seen'.idxs[ByAction(n, a)] = i
      BY <1>3, <2>3
    <3>2. lastAt'[<<n, a>>] = lastAt[<<n, a>>]
      <4>1. <<n, a>> # <<x.nick, x.act>>
        BY <2>3
      <4> QED BY <1>1, <2>0, <4>1
    <3>3. i # None => i \in Id /\ i # x.id
      <4>1. i # None => i \in Id /\ seen.vals[i] # None /\ seen.vals[i].nick = n
                        /\ seen.vals[i].act = a
        BY SightKeysIn DEF SeenInv, SeenType, SeenPointed, Sn!Store
      <4> QED BY <1>2, <2>3, <4>1
    <3>4. \A j \in Id : seen'.vals[j] # None /\ seen'.vals[j].nick = n
                        /\ seen'.vals[j].act = a => j # x.id
      BY <1>3, <2>3
    <3> HIDE DEF i
    <3> QED BY <1>3, <2>1, <3>1, <3>2, <3>3, <3>4
  <2> QED BY <2>2, <2>3
<1>15. SeenListed'
  <2> SUFFICES ASSUME NEW j \in Id, seen'.vals[j] # None,
                      \A a \in Action : <<seen'.vals[j].nick, a>> \notin crossed
               PROVE  \E t \in Millis : /\ t >= seen'.vals[j].ts
                                        /\ seen'.idxs[ByTime(seen'.vals[j].nick, t)] # None
    BY <1>5 DEF SeenListed
  <2>1. seen'.idxs[ByTime(x.nick, x.ts)] = x.id /\ x.ts \in Int
    BY <1>3, <1>5, SeenIds DEF Millis
  <2>2. CASE j = x.id
    <3>1. seen'.vals[j] = x
      BY <1>3, <2>2
    <3> QED BY <1>5, <2>1, <3>1
  <2>3. CASE j # x.id
    <3> DEFINE v == seen.vals[j]
    <3>1. seen'.vals[j] = v /\ v # None
      BY <1>3, <2>3
    <3>2. v.nick \in Nick /\ v.ts \in Millis
      BY <1>6, <3>1
    <3>3. PICK t \in Millis : t >= v.ts /\ seen.idxs[ByTime(v.nick, t)] # None
      BY <3>1 DEF SeenInv, SeenListed
    <3>4. CASE v.nick = x.nick /\ t = x.ts
      BY <1>5, <2>1, <3>1, <3>3, <3>4
    <3>5. CASE ~(v.nick = x.nick /\ t = x.ts) /\ ~(old # None /\ v.nick = x.nick /\ t = old.ts)
      BY <1>3, <3>1, <3>2, <3>3, <3>5
    <3>6. CASE old # None /\ v.nick = x.nick /\ t = old.ts
      <4>1. <<x.nick, x.act>> \notin crossed
        BY <1>5, <3>1, <3>6
      <4>2. h.s # None
        BY <1>1, <3>6
      <4>3. old.ts <= x.ts
        BY <1>7, <4>1, <4>2
      <4>4. x.ts >= v.ts
        <5>1. t \in Int /\ v.ts \in Int
          BY <3>2 DEF Millis
        <5> QED BY <2>1, <3>3, <3>6, <4>3, <5>1
      <4> QED BY <1>5, <2>1, <3>1, <3>6, <4>4
    <3> QED BY <3>4, <3>5, <3>6
  <2> QED BY <2>2, <2>3
<1> QED BY <1>8, <1>9, <1>10, <1>12, <1>13, <1>14, <1>15 DEF SeenInv

\* Of some times up to the last there is a latest.
LEMMA LatestIs ==
    ASSUME NEW T \in SUBSET (0 .. MaxTime), T # {}
    PROVE  \E m \in T : \A t \in T : t <= m
<1> DEFINE Before == {MaxTime - t : t \in T}
<1>1. MaxTime \in Nat /\ \A t \in T : t \in Nat /\ t <= MaxTime /\ MaxTime - t \in Nat
  BY SeenIds
<1>2. Before \subseteq Nat /\ Before # {}
  BY <1>1
<1>3. PICK b \in Before : \A a \in Before : <<a, b>> \notin OpToRel(<, Nat)
  BY <1>2, NatLessThanWellFounded, WFMin
<1>4. PICK m \in T : b = MaxTime - m
  OBVIOUS
<1>5. \A t \in T : ~(MaxTime - t < b)
  <2> SUFFICES ASSUME NEW t \in T PROVE ~(MaxTime - t < b)
    OBVIOUS
  <2>1. MaxTime - t \in Before /\ MaxTime - t \in Nat /\ b \in Nat
    BY <1>1, <1>2
  <2>2. <<MaxTime - t, b>> \notin OpToRel(<, Nat)
    BY <1>3, <2>1
  <2> QED BY <2>1, <2>2 DEF OpToRel
<1>6. \A t \in T : t <= m
  BY <1>1, <1>4, <1>5
<1> QED BY <1>6

\* What is stored for a nick and an action is the newest, and "seen nick" answers with the
\* newest of all, unless two connections recorded one action of the nick across each other
\* (seen.go:142-145, seendriver/handlers.go:39-41).
THEOREM NewestIsSeen == SeenSpec => []NewestSeen
<1>1. SeenInv /\ [SeenNext]_seenVars => SeenInv'
  <2> SUFFICES ASSUME SeenInv, [SeenNext]_seenVars PROVE SeenInv'
    OBVIOUS
  <2>1. CASE UNCHANGED seenVars
    <3>1. UNCHANGED <<seen, now, sights, events, lastAt, crossed>>
      BY <2>1 DEF seenVars
    <3>2. SeenType /\ SeenCounted /\ SeenHeld /\ SeenAlone
      BY DEF SeenInv
    <3>3. Pend' = Pend
      BY <3>1 DEF Pend
    <3>4. \A c \in Conn : LookOK(sights[c])'
      BY <3>1, <3>2 DEF LookOK, SeenType
    <3>5. SeenHeld'
      BY <3>1, <3>2 DEF SeenHeld
    <3>6. SeenAlone'
      BY <3>1, <3>2 DEF SeenAlone
    <3>7. now' \in Millis /\ now' >= now
      BY <3>1, <3>2, SeenIds DEF SeenType, Millis
    <3>8. IsFiniteSet(Pend') /\ Shown + Cardinality(Pend') <= events'
      BY <3>1, <3>2, <3>3 DEF SeenCounted
    <3>9. events' \in 0 .. MaxEvents /\ sights' \in [Conn -> Look]
      BY <3>1, <3>2 DEF SeenType
    <3> QED BY <3>1, <3>4, <3>5, <3>6, <3>7, <3>8, <3>9, SeenStays
  <2> QED BY <2>1, StepMillisecond, StepOccurs, StepGetSight, StepPutSight DEF SeenNext
<1>2. SeenInv => NewestSeen
  <2> SUFFICES ASSUME SeenInv, NEW n \in Nick
               PROVE  /\ \A a \in Action : <<n, a>> \notin crossed =>
                          {s.ts : s \in {v \in Sn!Stored(seen) : v.nick = n /\ v.act = a}} =
                              IF lastAt[<<n, a>>] = 0 THEN {}
                              ELSE {LastSeenDoing(n, a).ts, lastAt[<<n, a>>]}
                      /\ (\A a \in Action : <<n, a>> \notin crossed) =>
                          LET m == CHOOSE t \in {lastAt[<<n, a>>] : a \in Action} :
                                      \A a \in Action : lastAt[<<n, a>>] <= t
                          IN  (m = 0 /\ LastSeen(n) = None) \/ LastSeen(n).ts = m
    BY DEF NewestSeen
  <2> DEFINE At(a) == seen.idxs[ByAction(n, a)]
             On(t) == seen.idxs[ByTime(n, t)]
  <2>1. \A a \in Action : lastAt[<<n, a>>] \in 0 .. MaxTime
    BY DEF SeenInv, SeenType
  <2>2. ASSUME NEW a \in Action
        PROVE  /\ Sn!Lookup(seen, ByAction(n, a)) = IF At(a) = None THEN None ELSE seen.vals[At(a)]
               /\ At(a) # None => /\ At(a) \in Id /\ seen.vals[At(a)] # None
                                  /\ seen.vals[At(a)] \in Sighting
                                  /\ seen.vals[At(a)].nick = n /\ seen.vals[At(a)].act = a
                                  /\ seen.vals[At(a)].ts \in Millis
    <3>1. At(a) # None => At(a) \in Id /\ seen.vals[At(a)] # None
                          /\ seen.vals[At(a)].nick = n /\ seen.vals[At(a)].act = a
      BY SightKeysIn DEF SeenInv, SeenType, SeenPointed, Sn!Store
    <3>2. At(a) # None => seen.vals[At(a)] \in Sighting
      BY <3>1 DEF SeenInv, SeenType, Sn!Store
    <3> QED BY <3>1, <3>2, SightFound, SightIs
  <2>3. ASSUME NEW a \in Action, <<n, a>> \notin crossed
        PROVE  /\ lastAt[<<n, a>>] = IF At(a) = None THEN 0 ELSE seen.vals[At(a)].ts
               /\ \A j \in Id : seen.vals[j] # None /\ seen.vals[j].nick = n
                                /\ seen.vals[j].act = a => j = At(a)
    BY <2>3 DEF SeenInv, SeenOnce
  <2>4. ASSUME NEW a \in Action, <<n, a>> \notin crossed
        PROVE  {s.ts : s \in {v \in Sn!Stored(seen) : v.nick = n /\ v.act = a}} =
                   IF lastAt[<<n, a>>] = 0 THEN {}
                   ELSE {LastSeenDoing(n, a).ts, lastAt[<<n, a>>]}
    <3> DEFINE V == {v \in Sn!Stored(seen) : v.nick = n /\ v.act = a}
    <3>1. CASE At(a) = None
      <4>1. V = {}
        BY <2>3, <2>4, <3>1, SeenIds DEF Sn!Stored
      <4> QED BY <2>3, <2>4, <3>1, <4>1
    <3>2. CASE At(a) # None
      <4>1. V = {seen.vals[At(a)]}
        <5>1. seen.vals[At(a)] \in V
          BY <2>2, <3>2 DEF Sn!Stored
        <5>2. \A v \in V : v = seen.vals[At(a)]
          BY <2>3, <2>4 DEF Sn!Stored
        <5> QED BY <5>1, <5>2
      <4>2. seen.vals[At(a)].ts = lastAt[<<n, a>>] /\ lastAt[<<n, a>>] # 0
        BY <2>2, <2>3, <2>4, <3>2 DEF Millis
      <4>3. LastSeenDoing(n, a) = seen.vals[At(a)]
        BY <2>2, <3>2 DEF LastSeenDoing
      <4> QED BY <4>1, <4>2, <4>3
    <3> QED BY <3>1, <3>2
  <2>5. ASSUME \A a \in Action : <<n, a>> \notin crossed
        PROVE  LET m == CHOOSE t \in {lastAt[<<n, a>>] : a \in Action} :
                            \A a \in Action : lastAt[<<n, a>>] <= t
               IN  (m = 0 /\ LastSeen(n) = None) \/ LastSeen(n).ts = m
    <3> DEFINE S == {lastAt[<<n, a>>] : a \in Action}
               m == CHOOSE t \in S : \A a \in Action : lastAt[<<n, a>>] <= t
               ts == {t \in Millis : Sn!Lookup(seen, ByTime(n, t)) # None}
               last == CHOOSE t \in ts : \A u \in ts : u <= t
    <3>1. m \in S /\ \A a \in Action : lastAt[<<n, a>>] <= m
      <4>1. S \in SUBSET (0 .. MaxTime) /\ S # {}
        BY <2>1, SeenAssumption
      <4>2. \E t \in S : \A u \in S : u <= t
        BY <4>1, LatestIs
      <4>3. \E t \in S : \A a \in Action : lastAt[<<n, a>>] <= t
        BY <4>2
      <4> HIDE DEF S
      <4> QED BY <4>3
    <3>2. PICK a \in Action : m = lastAt[<<n, a>>]
      BY <3>1
    <3> HIDE DEF m
    <3>3. ASSUME NEW t \in Millis
          PROVE  /\ t \in ts <=> On(t) # None
                 /\ On(t) # None => /\ Sn!Lookup(seen, ByTime(n, t)) = seen.vals[On(t)]
                                    /\ On(t) \in Id /\ seen.vals[On(t)] # None
                                    /\ seen.vals[On(t)].nick = n /\ seen.vals[On(t)].ts = t
      <4>1. On(t) # None => /\ On(t) \in Id /\ seen.vals[On(t)] # None
                            /\ seen.vals[On(t)].nick = n /\ seen.vals[On(t)].ts = t
        BY SightKeysIn DEF SeenInv, SeenType, SeenPointed, Sn!Store
      <4>2. Sn!Lookup(seen, ByTime(n, t)) = IF On(t) = None THEN None ELSE seen.vals[On(t)]
        BY SightFound
      <4> QED BY <4>1, <4>2
    \* What is listed is not newer than the newest ...
    <3>4. ASSUME NEW t \in ts PROVE t <= m
      <4>1. On(t) # None /\ seen.vals[On(t)] # None /\ On(t) \in Id
            /\ seen.vals[On(t)].nick = n /\ seen.vals[On(t)].ts = t
        BY <3>3, <3>4
      <4>2. seen.vals[On(t)] \in Sighting
        BY <4>1 DEF SeenInv, SeenType, Sn!Store
      <4> DEFINE b == seen.vals[On(t)].act
      <4>3. b \in Action
        BY <4>2, SightIs
      <4>4. On(t) = At(b)
        BY <2>3, <2>5, <4>1, <4>3
      <4>5. lastAt[<<n, b>>] = t
        BY <2>3, <2>5, <4>1, <4>3, <4>4
      <4> QED BY <3>1, <4>3, <4>5
    \* ... and something as new is listed, if there is anything.
    <3>5. m # 0 => \E t \in ts : t >= m
      <4> SUFFICES ASSUME m # 0 PROVE \E t \in ts : t >= m
        OBVIOUS
      <4>1. At(a) # None /\ seen.vals[At(a)].ts = m
        BY <2>3, <2>5, <3>2
      <4>2. At(a) \in Id /\ seen.vals[At(a)] # None /\ seen.vals[At(a)].nick = n
        BY <2>2, <4>1
      <4>3. PICK t \in Millis : t >= m /\ On(t) # None
        BY <2>5, <4>1, <4>2 DEF SeenInv, SeenListed
      <4> QED BY <3>3, <4>3
    <3>6. m \in 0 .. MaxTime /\ ts \subseteq 0 .. MaxTime /\ \A t \in ts : t >= 1 /\ t \in Int
      <4>1. ts \subseteq Millis
        OBVIOUS
      <4> HIDE DEF ts
      <4>2. \A t \in ts : t \in 0 .. MaxTime /\ t >= 1 /\ t \in Int
        BY <4>1, SeenIds DEF Millis
      <4>3. m \in 0 .. MaxTime
        BY <2>1, <3>2
      <4> QED BY <4>2, <4>3
    <3>7. LastSeen(n) = IF ts = {} THEN None ELSE Sn!Lookup(seen, ByTime(n, last))
      BY DEF LastSeen
    <3>8. CASE ts = {}
      BY <3>5, <3>7, <3>8 DEF m
    <3>9. CASE ts # {}
      <4>1. last \in ts /\ \A u \in ts : u <= last
        <5>1. \E t \in ts : \A u \in ts : u <= t
          BY <3>6, <3>9, LatestIs
        <5> HIDE DEF ts
        <5> QED BY <5>1
      <4> HIDE DEF last
      <4>2. m # 0
        BY <3>4, <3>6, <4>1
      <4>3. last = m
        <5>1. PICK t \in ts : t >= m
          BY <3>5, <4>2
        <5>2. t <= last /\ last <= m
          BY <3>4, <4>1
        <5> HIDE DEF ts
        <5> QED BY <3>6, <4>1, <5>1, <5>2
      <4>4. last \in Millis
        BY <4>1
      <4>5. Sn!Lookup(seen, ByTime(n, last)).ts = last
        BY <3>3, <4>1, <4>4
      <4> HIDE DEF ts
      <4> QED BY <3>7, <3>9, <4>3, <4>5 DEF m
    <3> QED BY <3>8, <3>9
  <2> HIDE DEF At, On
  <2> QED BY <2>4, <2>5
<1> QED BY <1>1, <1>2, SeenStart, PTL DEF SeenSpec

-----------------------------------------------------------------------------
(* Shortened and cached URLs. *)

Cached(c) == <<"cachedas", c>>
Shortened(c) == <<"shortened", c>>

LEMMA UrlConstants ==
    /\ MaxId \in Nat /\ None \notin Id /\ None \notin Code /\ None \notin UrlRec /\ None \notin Url
    /\ Hash \in [Url -> Code] /\ Known \in Url \cup {None} /\ (Known # None => 1 \in Id)
BY HandlersAssumption, UrlsAssumption DEF Id

ElementsOf(s) == {s[i] : i \in 1 .. Len(s)}

LEMMA Joined ==
    ASSUME NEW S, NEW r \in Seq(S), NEW t \in Seq(S)
    PROVE  ElementsOf(r \o t) = ElementsOf(r) \cup ElementsOf(t)
<1> DEFINE x == r \o t
<1>1. /\ Len(r) \in Nat /\ Len(t) \in Nat /\ Len(x) = Len(r) + Len(t)
      /\ \A i \in 1 .. Len(r) : x[i] = r[i]
      /\ \A i \in 1 .. Len(t) : x[Len(r) + i] = t[i]
  OBVIOUS
<1> HIDE DEF x
<1>2. ASSUME NEW i \in 1 .. Len(x)
      PROVE  x[i] \in {r[n] : n \in 1 .. Len(r)} \cup {t[n] : n \in 1 .. Len(t)}
  <2>1. CASE i <= Len(r)
    BY <1>1, <2>1
  <2>2. CASE i > Len(r)
    <3>1. i - Len(r) \in 1 .. Len(t) /\ Len(r) + (i - Len(r)) = i
      BY <1>1, <2>2
    <3>2. x[i] = t[i - Len(r)]
      BY <1>1, <3>1
    <3> QED BY <3>1, <3>2
  <2> QED BY <1>1, <2>1, <2>2
<1>3. /\ \A i \in 1 .. Len(r) : i \in 1 .. Len(x) /\ x[i] = r[i]
      /\ \A i \in 1 .. Len(t) : Len(r) + i \in 1 .. Len(x) /\ x[Len(r) + i] = t[i]
  BY <1>1
<1>4. ElementsOf(x) \subseteq ElementsOf(r) \cup ElementsOf(t)
  BY <1>2 DEF ElementsOf
<1>5. ElementsOf(r) \subseteq ElementsOf(x)
  BY <1>3 DEF ElementsOf
<1>6. ElementsOf(t) \subseteq ElementsOf(x)
  BY <1>3 DEF ElementsOf
<1>7. ElementsOf(x) = ElementsOf(r) \cup ElementsOf(t)
  BY <1>4, <1>5, <1>6
<1> QED BY <1>7 DEF x

LEMMA UrlRecIs ==
    ASSUME NEW u \in UrlRec
    PROVE  /\ u # None /\ u.id \in Id /\ u.url \in Url
           /\ u.cachedas \in Code \cup {None} /\ u.shortened \in Code \cup {None}
           /\ Ur!KeysOf(u) \subseteq UrlKeys
           /\ Ur!KeysOf(u) # {}
           /\ \A c \in Code : /\ Cached(c) \in UrlKeys /\ Shortened(c) \in UrlKeys
                              /\ Cached(c) \in Ur!KeysOf(u) <=> u.cachedas = c
                              /\ Shortened(c) \in Ur!KeysOf(u) <=> u.shortened = c
<1>1. /\ u # None /\ u.id \in Id /\ u.url \in Url
      /\ u.cachedas \in Code \cup {None} /\ u.shortened \in Code \cup {None}
  BY UrlConstants DEF UrlRec
<1> DEFINE x == UrlIndexes(u)
           k == <<"url", u.url>>
           K == {k} \cup (IF u.cachedas # None THEN {Cached(u.cachedas)} ELSE {})
                    \cup (IF u.shortened # None THEN {Shortened(u.shortened)} ELSE {})
<1>2. ElementsOf(x) = K
  <2> DEFINE a == <<k>>
             b == IF u.cachedas # None THEN <<Cached(u.cachedas)>> ELSE <<>>
             c == IF u.shortened # None THEN <<Shortened(u.shortened)>> ELSE <<>>
             S == {k, Cached(u.cachedas), Shortened(u.shortened)}
  <2>1. x = (a \o b) \o c
    BY DEF UrlIndexes, Cached, Shortened
  <2>2. /\ a \in Seq(S) /\ ElementsOf(a) = {k}
        /\ b \in Seq(S) /\ ElementsOf(b) = IF u.cachedas # None THEN {Cached(u.cachedas)} ELSE {}
        /\ c \in Seq(S) /\ ElementsOf(c) = IF u.shortened # None THEN {Shortened(u.shortened)} ELSE {}
    <3>1. a \in Seq(S) /\ Len(a) = 1 /\ a[1] = k
      OBVIOUS
    <3>2. /\ b \in Seq(S)
          /\ IF u.cachedas # None THEN Len(b) = 1 /\ b[1] = Cached(u.cachedas) ELSE Len(b) = 0
      <4>1. CASE u.cachedas = None
        <5>1. b = <<>> /\ <<>> \in Seq(S) /\ Len(<<>>) = 0
          BY <4>1
        <5> QED BY <4>1, <5>1
      <4>2. CASE u.cachedas # None
        <5>1. b = <<Cached(u.cachedas)>>
          BY <4>2
        <5> HIDE DEF b
        <5>2. Cached(u.cachedas) \in S
          OBVIOUS
        <5> HIDE DEF S
        <5>3. b \in Seq(S) /\ Len(b) = 1 /\ b[1] = Cached(u.cachedas)
          BY <5>1, <5>2
        <5> QED BY <4>2, <5>3
      <4> QED BY <4>1, <4>2
    <3>3. /\ c \in Seq(S)
          /\ IF u.shortened # None THEN Len(c) = 1 /\ c[1] = Shortened(u.shortened) ELSE Len(c) = 0
      <4>1. CASE u.shortened = None
        <5>1. c = <<>> /\ <<>> \in Seq(S) /\ Len(<<>>) = 0
          BY <4>1
        <5> QED BY <4>1, <5>1
      <4>2. CASE u.shortened # None
        <5>1. c = <<Shortened(u.shortened)>>
          BY <4>2
        <5> HIDE DEF c
        <5>2. Shortened(u.shortened) \in S
          OBVIOUS
        <5> HIDE DEF S
        <5>3. c \in Seq(S) /\ Len(c) = 1 /\ c[1] = Shortened(u.shortened)
          BY <5>1, <5>2
        <5> QED BY <4>2, <5>3
      <4> QED BY <4>1, <4>2
    <3> HIDE DEF a, b, c, S, k
    <3>4. ElementsOf(a) = {k}
      BY <3>1 DEF ElementsOf
    <3>5. ElementsOf(b) = IF u.cachedas # None THEN {Cached(u.cachedas)} ELSE {}
      BY <3>2 DEF ElementsOf
    <3>6. ElementsOf(c) = IF u.shortened # None THEN {Shortened(u.shortened)} ELSE {}
      BY <3>3 DEF ElementsOf
    <3> QED BY <3>1, <3>2, <3>3, <3>4, <3>5, <3>6
  <2> HIDE DEF a, b, c, S, k
  <2>3. a \in Seq(S) /\ b \in Seq(S) /\ c \in Seq(S)
    BY <2>2
  <2>4. a \o b \in Seq(S)
    BY <2>3
  <2>5. ElementsOf(a \o b) = ElementsOf(a) \cup ElementsOf(b)
    BY <2>3, Joined
  <2>6. ElementsOf((a \o b) \o c) = ElementsOf(a \o b) \cup ElementsOf(c)
    <3> DEFINE r == a \o b
    <3>1. r \in Seq(S)
      BY <2>4
    <3> HIDE DEF r
    <3>2. ElementsOf(r \o c) = ElementsOf(r) \cup ElementsOf(c)
      BY <2>3, <3>1, Joined
    <3> QED BY <3>2 DEF r
  <2> QED BY <2>1, <2>2, <2>5, <2>6
<1>3. Ur!KeysOf(u) = K
  <2>1. [v \in UrlRec |-> UrlIndexes(v)][u] = x
    OBVIOUS
  <2> HIDE DEF x, K
  <2> QED BY <1>2, <2>1 DEF Ur!KeysOf, ElementsOf
<1>4. /\ k \in UrlKeys
      /\ \A c \in Code : /\ Cached(c) \in UrlKeys /\ Shortened(c) \in UrlKeys
                         /\ Cached(c) # k /\ Shortened(c) # k
  BY <1>1 DEF UrlKeys, Cached, Shortened
<1>5. \A c, d \in Code : /\ Cached(c) # Shortened(d)
                         /\ Cached(c) = Cached(d) => c = d
                         /\ Shortened(c) = Shortened(d) => c = d
  BY DEF Cached, Shortened
<1> HIDE DEF k
<1>6. K \subseteq UrlKeys /\ K # {}
  BY <1>1, <1>4
<1>7. \A c \in Code : Cached(c) \in K <=> u.cachedas = c
  BY <1>1, <1>4, <1>5, UrlConstants
<1>8. \A c \in Code : Shortened(c) \in K <=> u.shortened = c
  BY <1>1, <1>4, <1>5, UrlConstants
<1> HIDE DEF K
<1> QED BY <1>1, <1>3, <1>4, <1>6, <1>7, <1>8

\* There are no buckets: every key is found.
LEMMA UrlLookupIs ==
    ASSUME NEW d, NEW k \in UrlKeys
    PROVE  /\ Ur!Found(d, k)
           /\ Ur!Lookup(d, k) = IF d.idxs[k] # None THEN d.vals[d.idxs[k]] ELSE None
<1>1. [j \in UrlKeys |-> {}][k] \subseteq d.bkts
  OBVIOUS
<1>2. Ur!Found(d, k)
  BY <1>1 DEF Ur!Found
<1> QED BY <1>2 DEF Ur!Lookup

\* What a record's Put does.
LEMMA PutUrlIs ==
    ASSUME NEW d \in Ur!Store, NEW u \in UrlRec
    PROVE  LET e == Ur!PutTx(d, u)
               old == d.vals[u.id] IN
           /\ e \in Ur!Store
           /\ e.vals = [d.vals EXCEPT ![u.id] = u]
           /\ \A k \in UrlKeys : e.idxs[k] =
                IF k \in Ur!KeysOf(u) THEN u.id
                ELSE IF old # None /\ k \in Ur!KeysOf(old) THEN None ELSE d.idxs[k]
<1> DEFINE old == d.vals[u.id]
           b == IF old = None THEN d ELSE Ur!DelIndex(d, old)
           c == Ur!SetValue(b, u.id, u)
           e == Ur!PutIndex(c, u)
<1>1. Ur!PutTx(d, u) = e
  BY DEF Ur!PutTx
<1>2. u.id \in Id /\ old \in UrlRec \cup {None}
  BY UrlRecIs DEF Ur!Store
<1>3. /\ b \in Ur!Store /\ b.vals = d.vals /\ b.bkts = {}
      /\ \A k \in UrlKeys : b.idxs[k] =
            IF old # None /\ k \in Ur!KeysOf(old) THEN None ELSE d.idxs[k]
  <2>1. CASE old = None
    BY <2>1 DEF Ur!Store
  <2>2. CASE old # None
    <3>1. Ur!DelKeys(d, old) = Ur!KeysOf(old)
      <4> DEFINE x == UrlIndexes(old)
      <4>1. [v \in UrlRec |-> UrlIndexes(v)][old] = x
        BY <1>2, <2>2
      <4> HIDE DEF x
      <4>2. Ur!KeysOf(old) = {x[i] : i \in 1 .. Len(x)}
        BY <4>1 DEF Ur!KeysOf
      <4>3. Ur!DelKeys(d, old) = {x[i] : i \in {n \in 1 .. Len(x) : \A m \in 1 .. n : Ur!Found(d, x[m])}}
        BY <4>1 DEF Ur!DelKeys
      <4>4. \A n \in 1 .. Len(x) : \A m \in 1 .. n : Ur!Found(d, x[m])
        <5> SUFFICES ASSUME NEW n \in 1 .. Len(x), NEW m \in 1 .. n PROVE Ur!Found(d, x[m])
          OBVIOUS
        <5>1. Len(x) \in Nat
          BY DEF x, UrlIndexes
        <5>2. m \in 1 .. Len(x)
          BY <5>1
        <5>3. x[m] \in UrlKeys
          BY <1>2, <2>2, <4>2, <5>2, UrlRecIs
        <5> QED BY <5>3, UrlLookupIs
      <4>5. {n \in 1 .. Len(x) : \A m \in 1 .. n : Ur!Found(d, x[m])} = 1 .. Len(x)
        BY <4>4
      <4> QED BY <4>2, <4>3, <4>5
    <3> QED BY <2>2, <3>1 DEF Ur!Store, Ur!DelIndex
  <2> QED BY <2>1, <2>2
<1> HIDE DEF b
<1>4. c \in Ur!Store /\ c.vals = [d.vals EXCEPT ![u.id] = u] /\ c.idxs = b.idxs /\ c.bkts = {}
  BY <1>2, <1>3 DEF Ur!Store, Ur!SetValue
<1> HIDE DEF c
<1>5. /\ e \in Ur!Store /\ e.vals = c.vals
      /\ \A k \in UrlKeys : e.idxs[k] = IF k \in Ur!KeysOf(u) THEN u.id ELSE c.idxs[k]
  <2> DEFINE x == [k \in UrlKeys |-> IF k \in Ur!KeysOf(u) THEN u.id ELSE c.idxs[k]]
             y == c.bkts \cup UNION {[j \in UrlKeys |-> {}][k] : k \in Ur!KeysOf(u)}
  <2>1. e = [c EXCEPT !.idxs = x, !.bkts = y]
    BY DEF Ur!PutIndex
  <2>2. x \in [UrlKeys -> Id \cup {None}]
    BY <1>2, <1>4 DEF Ur!Store
  <2>3. y = {}
    <3>1. \A k \in Ur!KeysOf(u) : [j \in UrlKeys |-> {}][k] = {}
      BY UrlRecIs
    <3>2. UNION {[j \in UrlKeys |-> {}][k] : k \in Ur!KeysOf(u)} = {}
      BY <3>1
    <3> QED BY <1>4, <3>2
  <2>4. \A k \in UrlKeys : x[k] = IF k \in Ur!KeysOf(u) THEN u.id ELSE c.idxs[k]
    OBVIOUS
  <2> HIDE DEF x, y
  <2> QED BY <1>4, <2>1, <2>2, <2>3, <2>4 DEF Ur!Store
<1> HIDE DEF e
<1> QED BY <1>1, <1>3, <1>4, <1>5

Worker == [pc : {"idle", "get", "try", "free?", "ask", "copy", "put"},
           is : {None, "scan", "find", "shorten", "cache"}, ch : Channel \cup {None},
           left : Seq(Url), that : BOOLEAN, u : UrlRec \cup {None}, was : UrlRec \cup {None},
           code : Code \cup {None}, tries : Nat]

\* What a handler holds is a new record, or one that was stored and has not the code it wants.
WorkerOK(w) ==
    /\ w \in Worker
    /\ w.pc # "idle" => w.ch \in Channel
    /\ w.pc \in {"idle", "get"} => w.u = None /\ w.was = None /\ w.code = None
    /\ w.pc = "get" => /\ w.is \in {"scan", "find", "shorten", "cache"}
                       /\ w.is = "scan" => ~w.that
                       /\ w.is # "find" /\ ~w.that => w.left # <<>>
    /\ w.pc \notin {"idle", "get"} => w.u # None /\ w.is \in {"scan", "shorten", "cache"}
    /\ w.pc \in {"ask", "copy"} => w.is = "cache"
    /\ w.pc \in {"free?", "ask", "copy"} \/ (w.pc = "put" /\ w.is = "cache") => w.code # None
    /\ w.u # None => /\ IF w.was = None THEN w.u.cachedas = None /\ w.u.shortened = None
                        ELSE w.u = w.was
                     /\ IF w.is = "cache" THEN w.u.cachedas = None ELSE w.u.shortened = None

UrlsType ==
    /\ urls \in Ur!Store
    /\ urlIds \in 0 .. MaxId
    /\ lastseen \in [Channel -> Id \cup {None}]
    /\ file \in [Code -> Url \cup {None}]
    /\ work \in [Handler -> Worker] /\ \A h \in Handler : WorkerOK(work[h])
    /\ announced \subseteq {"s", "c"} \X (Code \cup {None}) \X Url
    /\ risky \subseteq Code

UrlsPlaced ==
    \A i \in Id : urls.vals[i] # None => urls.vals[i].id = i /\ i <= urlIds

UrlsPointed ==
    \A k \in UrlKeys : LET i == urls.idxs[k] IN
        i # None => urls.vals[i] # None /\ k \in Ur!KeysOf(urls.vals[i])

\* A code that is not risky is found under the record that has it, so one alone has it.
UrlsOwned ==
    \A i \in Id, c \in Code \ risky :
        urls.vals[i] # None => /\ urls.vals[i].cachedas = c => urls.idxs[Cached(c)] = i
                               /\ urls.vals[i].shortened = c => urls.idxs[Shortened(c)] = i

\* A new record's id is its handler's alone.
UrlsFresh ==
    \A h \in Handler : LET w == work[h] IN
        w.u # None =>
            /\ w.u.id <= urlIds
            /\ w.was # None => urls.vals[w.u.id] # None
            /\ w.was = None => /\ urls.vals[w.u.id] = None
                               /\ \A g \in Handler \ {h} : work[g].u # None => work[g].u.id # w.u.id

\* The codes of a copy are still stored.
UrlsHeld ==
    \A h \in Handler, c \in Code \ risky : LET v == work[h].was IN
        v # None => /\ v.cachedas = c => urls.vals[v.id].cachedas = c
                    /\ v.shortened = c => urls.vals[v.id].shortened = c

UrlsAlone ==
    \A g, h \in Handler : g # h /\ work[g].code = work[h].code => work[h].code \in risky \cup {None}

\* A code that was tried is free still.
UrlsFree ==
    \A h \in Handler, i \in Id : LET w == work[h] v == urls.vals[i] IN
        w.pc \in {"free?", "ask", "copy", "put"} /\ w.code \in Code \ risky /\ v # None =>
            v.cachedas # w.code /\ (w.pc # "free?" => v.shortened # w.code)

UrlsCopied ==
    \A h \in Handler : LET w == work[h] IN
        w.pc = "put" /\ w.is = "cache" /\ w.code \in Code \ risky => file[w.code] = w.u.url

UrlsLed ==
    \A a \in announced : a[2] \in Code \ risky =>
        LET i == urls.idxs[IF a[1] = "s" THEN Shortened(a[2]) ELSE Cached(a[2])] IN
        /\ i # None /\ urls.vals[i].url = a[3]
        /\ a[1] = "c" => file[a[2]] = a[3]

UrlsInv ==
    /\ UrlsType /\ UrlsPlaced /\ UrlsPointed /\ UrlsOwned /\ UrlsFresh
    /\ UrlsHeld /\ UrlsAlone /\ UrlsFree /\ UrlsCopied /\ UrlsLed

LEMMA IdleOK == WorkerOK(Idle) /\ Idle.pc = "idle" /\ Idle.u = None /\ Idle.was = None /\ Idle.code = None
<1>1. <<>> \in Seq(Url) /\ 0 \in Nat
  OBVIOUS
<1> QED BY <1>1 DEF WorkerOK, Worker, Idle

LEMMA NewUrlIs ==
    ASSUME NEW i \in Id, NEW w \in Url
    PROVE  /\ NewUrl(i, w) \in UrlRec
           /\ NewUrl(i, w).id = i /\ NewUrl(i, w).cachedas = None /\ NewUrl(i, w).shortened = None
BY DEF NewUrl, UrlRec

LEMMA UrlsStart == UrlsInit => UrlsInv
<1> SUFFICES ASSUME UrlsInit PROVE UrlsInv
  OBVIOUS
<1> DEFINE d == Ur!EmptyStore
           v == NewUrl(1, Known)
<1>1. /\ d \in Ur!Store /\ (\A i \in Id : d.vals[i] = None) /\ \A k \in UrlKeys : d.idxs[k] = None
  BY DEF Ur!EmptyStore, Ur!Store
<1>2. /\ urls \in Ur!Store
      /\ urlIds \in 0 .. MaxId
      /\ \A i \in Id : urls.vals[i] # None =>
            i = 1 /\ urls.vals[i] = v /\ v \in UrlRec /\ v.id = 1 /\ i <= urlIds
      /\ \A k \in UrlKeys : urls.idxs[k] # None =>
            urls.idxs[k] = 1 /\ urls.vals[1] = v /\ k \in Ur!KeysOf(v) /\ urls.vals[1] # None
  <2>1. CASE Known = None
    <3>1. urls = d
      BY <2>1 DEF UrlsInit
    <3>2. Ur!Stored(urls) = {}
      BY <1>1, <3>1 DEF Ur!Stored
    <3>3. urlIds = 0
      BY <3>2, FS_EmptySet DEF UrlsInit
    <3> QED BY <1>1, <3>1, <3>3, UrlConstants
  <2>2. CASE Known # None
    <3>1. urls = Ur!PutTx(d, v) /\ 1 \in Id /\ Known \in Url
      BY <2>2, UrlConstants DEF UrlsInit
    <3>2. v \in UrlRec /\ v.id = 1 /\ v # None
      BY <3>1, NewUrlIs, UrlRecIs
    <3> HIDE DEF v
    <3>3. /\ urls \in Ur!Store /\ urls.vals = [d.vals EXCEPT ![1] = v]
          /\ \A k \in UrlKeys : urls.idxs[k] = IF k \in Ur!KeysOf(v) THEN 1 ELSE None
      BY <1>1, <3>1, <3>2, PutUrlIs
    <3> HIDE DEF d
    <3>4. /\ urls.vals[1] = v /\ \A i \in Id : i # 1 => urls.vals[i] = None
      BY <1>1, <3>1, <3>3 DEF Ur!Store
    <3>5. Ur!Stored(urls) = {v}
      BY <3>1, <3>2, <3>4 DEF Ur!Stored
    <3>6. urlIds = 1
      BY <3>5, FS_Singleton DEF UrlsInit
    <3> QED BY <3>1, <3>2, <3>3, <3>4, <3>6, UrlConstants DEF Id
  <2> QED BY <2>1, <2>2
<1> HIDE DEF d
<1>3. /\ \A h \in Handler : work[h] = Idle
      /\ announced = {} /\ risky = {}
  BY DEF UrlsInit
<1>4. UrlsType
  <2>1. work \in [Handler -> Worker]
    BY IdleOK DEF UrlsInit, WorkerOK
  <2> QED BY <1>2, <1>3, <2>1, IdleOK DEF UrlsInit, UrlsType
<1>5. UrlsPlaced
  BY <1>2 DEF UrlsPlaced
<1>6. UrlsPointed /\ UrlsOwned
  <2>1. \A i \in Id : urls.vals[i] # None => i = 1 /\ urls.vals[i].cachedas = None /\ urls.vals[i].shortened = None
    BY <1>2 DEF NewUrl
  <2>2. UrlsOwned
    BY <2>1, UrlConstants DEF UrlsOwned
  <2>3. UrlsPointed
    <3> HIDE DEF v
    <3> QED BY <1>2 DEF UrlsPointed
  <2> QED BY <2>2, <2>3
<1>7. UrlsFresh /\ UrlsHeld /\ UrlsAlone /\ UrlsFree /\ UrlsCopied /\ UrlsLed
  BY <1>3, IdleOK DEF UrlsFresh, UrlsHeld, UrlsAlone, UrlsFree, UrlsCopied, UrlsLed
<1> QED BY <1>4, <1>5, <1>6, <1>7 DEF UrlsInv

\* Steps that leave the collection and the announcements alone.
LEMMA UrlsStay ==
    ASSUME UrlsInv, UNCHANGED <<urls, urlIds, lastseen, announced>>,
           risky \subseteq risky', risky' \subseteq Code, file' \in [Code -> Url \cup {None}],
           work' \in [Handler -> Worker], \A h \in Handler : WorkerOK(work'[h]),
           \A h \in Handler : \/ work'[h].pc \in {"idle", "get"}
                              \/ work'[h].u = work[h].u /\ work'[h].was = work[h].was,
           UrlsAlone', UrlsFree', UrlsCopied',
           \A a \in announced : a[1] = "c" /\ a[2] \in Code \ risky => file'[a[2]] = file[a[2]]
    PROVE  UrlsInv'
<1>1. UrlsType'
  BY DEF UrlsInv, UrlsType
<1>2. UrlsPlaced' /\ UrlsPointed'
  <2>1. UrlsPlaced'
    BY DEF UrlsInv, UrlsPlaced
  <2>2. UrlsPointed'
    BY DEF UrlsInv, UrlsPointed
  <2> QED BY <2>1, <2>2
<1>3. UrlsOwned'
  BY DEF UrlsInv, UrlsOwned
<1>4. \A h \in Handler : work'[h].u # None \/ work'[h].was # None =>
            work'[h].u = work[h].u /\ work'[h].was = work[h].was
  BY DEF WorkerOK
<1>5. UrlsFresh'
  <2>1. UrlsFresh
    BY DEF UrlsInv
  <2> QED BY <1>4, <2>1 DEF UrlsFresh
<1>6. UrlsHeld'
  <2>1. UrlsHeld
    BY DEF UrlsInv
  <2> QED BY <1>4, <2>1 DEF UrlsHeld
<1>7. UrlsLed'
  <2> SUFFICES ASSUME NEW a \in announced, a[2] \in Code \ risky'
               PROVE  LET i == urls.idxs[IF a[1] = "s" THEN Shortened(a[2]) ELSE Cached(a[2])] IN
                      /\ i # None /\ urls.vals[i].url = a[3]
                      /\ a[1] = "c" => file'[a[2]] = a[3]
    BY DEF UrlsLed
  <2>1. a[2] \in Code \ risky
    OBVIOUS
  <2> QED BY <2>1 DEF UrlsInv, UrlsLed
<1> QED BY <1>1, <1>2, <1>3, <1>5, <1>6, <1>7 DEF UrlsInv

\* A handler at work has something in hand; what it holds is a record with an id.
LEMMA InHand ==
    ASSUME UrlsInv, NEW h \in Handler
    PROVE  LET w == work[h] IN
           /\ w \in Worker /\ WorkerOK(w)
           /\ w.u # None => w.u \in UrlRec /\ w.u.id \in Id
           /\ w.was # None => w.was \in UrlRec /\ w.u = w.was
           /\ w.pc \notin {"idle", "get"} => w.u # None
<1>1. work[h] \in Worker /\ WorkerOK(work[h])
  BY DEF UrlsInv, UrlsType
<1>2. work[h].u \in UrlRec \cup {None} /\ work[h].was \in UrlRec \cup {None}
  BY <1>1 DEF Worker
<1> QED BY <1>1, <1>2, UrlRecIs DEF WorkerOK

\* Some handlers start afresh, with nothing in hand, or stop.
LEMMA Afresh ==
    ASSUME UrlsInv, UNCHANGED <<urls, urlIds, lastseen, file, announced>>,
           risky \subseteq risky', risky' \subseteq Code,
           work' \in [Handler -> Worker], \A h \in Handler : WorkerOK(work'[h]),
           \A h \in Handler : work'[h] = work[h] \/ work'[h].pc \in {"idle", "get"}
    PROVE  UrlsInv'
<1>1. \A h \in Handler : work'[h].pc \in {"idle", "get"} => work'[h].code = None
  BY DEF WorkerOK
<1>2. UrlsAlone'
  <2>1. UrlsAlone
    BY DEF UrlsInv
  <2> SUFFICES ASSUME NEW g \in Handler, NEW h \in Handler, g # h, work'[g].code = work'[h].code,
                      work'[h].code # None
               PROVE  work'[h].code \in risky'
    BY DEF UrlsAlone
  <2>2. work'[g] = work[g] /\ work'[h] = work[h]
    BY <1>1
  <2> QED BY <2>1, <2>2 DEF UrlsAlone
<1>3. UrlsFree'
  <2>1. UrlsFree
    BY DEF UrlsInv
  <2> QED BY <1>1, <2>1, UrlConstants DEF UrlsFree
<1>4. UrlsCopied'
  <2>1. UrlsCopied
    BY DEF UrlsInv
  <2> QED BY <1>1, <2>1, UrlConstants DEF UrlsCopied
<1>5. file' \in [Code -> Url \cup {None}]
  BY DEF UrlsInv, UrlsType
<1> QED BY <1>2, <1>3, <1>4, <1>5, UrlsStay

LEMMA StepSayUrls ==
    ASSUME UrlsInv, NEW c \in Conn, SayUrls(c)
    PROVE  UrlsInv'
<1> PICK l \in Lines :
        LET start == [Idle EXCEPT !.pc = "get", !.ch = l.ch, !.left = l.words] IN
        /\ work' = [work EXCEPT
              ![<<c, "scan">>] = IF l.words = <<>> THEN Idle ELSE [start EXCEPT !.is = "scan"],
              ![<<c, "command">>] = IF l.is = "say" THEN Idle
                                    ELSE [start EXCEPT !.is = l.is, !.that = l.that]]
        /\ UNCHANGED <<urls, urlIds, lastseen, file, urlSeen, announced, risky>>
  BY DEF SayUrls
<1> DEFINE start == [Idle EXCEPT !.pc = "get", !.ch = l.ch, !.left = l.words]
           scan == IF l.words = <<>> THEN Idle ELSE [start EXCEPT !.is = "scan"]
           command == IF l.is = "say" THEN Idle ELSE [start EXCEPT !.is = l.is, !.that = l.that]
<1>1. /\ l.ch \in Channel /\ l.is \in {"say", "find", "shorten", "cache"}
      /\ l.that \in BOOLEAN /\ l.words \in Seq(Url)
      /\ l.is \in {"shorten", "cache"} /\ ~l.that => l.words # <<>>
  BY UrlsAssumption
<1>2. WorkerOK(scan) /\ scan.pc \in {"idle", "get"}
  <2>1. CASE l.words = <<>>
    BY <2>1, IdleOK
  <2>2. CASE l.words # <<>>
    BY <1>1, <2>2 DEF WorkerOK, Worker, Idle
  <2> QED BY <2>1, <2>2
<1>3. WorkerOK(command) /\ command.pc \in {"idle", "get"}
  <2>1. CASE l.is = "say"
    BY <2>1, IdleOK
  <2>2. CASE l.is # "say"
    BY <1>1, <2>2 DEF WorkerOK, Worker, Idle
  <2> QED BY <2>1, <2>2
<1>4. work' = [work EXCEPT ![<<c, "scan">>] = scan, ![<<c, "command">>] = command]
  OBVIOUS
<1> HIDE DEF scan, command
<1>5. work \in [Handler -> Worker] /\ \A h \in Handler : WorkerOK(work[h])
  BY DEF UrlsInv, UrlsType
<1>6. \A h \in Handler : work'[h] \in {work[h], scan, command}
  BY <1>4, <1>5
<1>7. \A h \in Handler : WorkerOK(work'[h])
  BY <1>2, <1>3, <1>5, <1>6
<1>8. work' \in [Handler -> Worker]
  <2>1. scan \in Worker /\ command \in Worker
    BY <1>2, <1>3 DEF WorkerOK
  <2> QED BY <1>4, <1>5, <2>1
<1>9. risky \subseteq risky' /\ risky' \subseteq Code
  BY DEF UrlsInv, UrlsType
<1>10. \A h \in Handler : work'[h] = work[h] \/ work'[h].pc \in {"idle", "get"}
  BY <1>2, <1>3, <1>6
<1> QED BY <1>7, <1>8, <1>9, <1>10, Afresh

\* A handler starts afresh or stops.
LEMMA OneAfresh ==
    ASSUME UrlsInv, NEW h \in Handler, NEW w, WorkerOK(w), w.pc \in {"idle", "get"},
           UNCHANGED <<urls, urlIds, lastseen, file, announced>>,
           risky \subseteq risky', risky' \subseteq Code, work' = [work EXCEPT ![h] = w]
    PROVE  UrlsInv'
<1>1. w \in Worker
  BY DEF WorkerOK
<1>2. work' \in [Handler -> Worker] /\ \A g \in Handler : work'[g] = IF g = h THEN w ELSE work[g]
  BY <1>1 DEF UrlsInv, UrlsType
<1>3. \A g \in Handler : WorkerOK(work'[g])
  BY <1>2 DEF UrlsInv, UrlsType
<1> QED BY <1>2, <1>3, Afresh

LEMMA StepFindUrl ==
    ASSUME UrlsInv, NEW h \in Handler, Find(h)
    PROVE  UrlsInv'
<1>1. risky \subseteq risky' /\ risky' \subseteq Code
  BY DEF Find, UrlsInv, UrlsType
<1>2. work' = [work EXCEPT ![h] = Idle] /\ UNCHANGED <<urls, urlIds, lastseen, file, announced>>
  BY DEF Find
<1> QED BY <1>1, <1>2, IdleOK, OneAfresh

LEMMA NextWordOK ==
    ASSUME UrlsInv, NEW h \in Handler, work[h].pc # "idle"
    PROVE  WorkerOK(NextWord(h)) /\ NextWord(h).pc \in {"idle", "get"}
<1>1. work[h] \in Worker /\ work[h].ch \in Channel
  BY DEF UrlsInv, UrlsType, WorkerOK
<1>2. CASE Len(work[h].left) > 1 /\ work[h].is = "scan"
  <2> DEFINE s == work[h].left
  <2>1. s \in Seq(Url)
    BY <1>1 DEF Worker
  <2> HIDE DEF s
  <2>2. CASE Len(s) > 1
    <3>1. Tail(s) \in Seq(Url) /\ Len(Tail(s)) = Len(s) - 1 /\ Len(s) \in Nat
      BY <2>1, <2>2
    <3> DEFINE t == Tail(s)
    <3>2. NextWord(h) = [Idle EXCEPT !.pc = "get", !.is = "scan", !.ch = work[h].ch, !.left = t]
      BY <1>2 DEF NextWord, s
    <3>3. t \in Seq(Url) /\ Len(t) > 0
      BY <2>2, <3>1
    <3> HIDE DEF t
    <3>4. t # <<>>
      <4>1. Len(<<>>) = 0
        OBVIOUS
      <4> QED BY <3>3, <4>1
    <3>5. NextWord(h) = [pc |-> "get", is |-> "scan", ch |-> work[h].ch, left |-> t, that |-> FALSE,
                         u |-> None, was |-> None, code |-> None, tries |-> 0]
      BY <3>2 DEF Idle
    <3>6. NextWord(h) \in Worker
      BY <1>1, <3>3, <3>5 DEF Worker
    <3> QED BY <1>1, <3>4, <3>5, <3>6 DEF WorkerOK
  <2> QED BY <1>2, <2>2 DEF s
<1>3. CASE ~(Len(work[h].left) > 1 /\ work[h].is = "scan")
  BY <1>3, IdleOK DEF NextWord
<1> QED BY <1>2, <1>3

\* A URL that is found is a stored record's, with its id.
LEMMA UrlFound ==
    ASSUME UrlsInv, NEW i \in Id, urls.vals[i] # None
    PROVE  urls.vals[i] \in UrlRec /\ urls.vals[i].id = i /\ i <= urlIds
BY DEF UrlsInv, UrlsType, UrlsPlaced, Ur!Store

\* What a handler finds with its URL, or with the last one of its channel.
Old(w) == IF w.that THEN GetById(lastseen[w.ch]) ELSE GetByUrl(w.left[1])

LEMMA OldIs ==
    ASSUME UrlsInv, NEW h \in Handler, work[h].pc = "get", work[h].is # "find"
    PROVE  /\ ~work[h].that => work[h].left[1] \in Url
           /\ Old(work[h]) # None =>
                 /\ Old(work[h]) \in UrlRec /\ urls.vals[Old(work[h]).id] = Old(work[h])
                 /\ Old(work[h]).id <= urlIds
<1> DEFINE w == work[h]
<1>1. w \in Worker /\ WorkerOK(w) /\ w.ch \in Channel
  BY InHand DEF WorkerOK
<1>2. ~w.that => w.left[1] \in Url
  <2> SUFFICES ASSUME ~w.that PROVE w.left[1] \in Url
    OBVIOUS
  <2> DEFINE s == w.left
  <2>1. s \in Seq(Url) /\ s # <<>>
    BY <1>1 DEF WorkerOK, Worker
  <2> HIDE DEF s
  <2>2. s[1] \in Url
    BY <2>1
  <2> QED BY <2>2 DEF s
<1>3. Old(w) # None => \E i \in Id : Old(w) = urls.vals[i]
  <2>1. CASE w.that
    <3>1. lastseen[w.ch] \in Id \cup {None}
      BY <1>1 DEF UrlsInv, UrlsType
    <3> QED BY <2>1, <3>1 DEF Old, GetById
  <2>2. CASE ~w.that
    <3>1. <<"url", w.left[1]>> \in UrlKeys
      BY <1>2, <2>2 DEF UrlKeys
    <3>2. urls.idxs[<<"url", w.left[1]>>] \in Id \cup {None}
      BY <3>1 DEF UrlsInv, UrlsType, Ur!Store
    <3> QED BY <2>2, <3>1, <3>2, UrlLookupIs DEF Old, GetByUrl
  <2> QED BY <2>1, <2>2
<1> QED BY <1>2, <1>3, UrlFound

LEMMA StepGetUrl ==
    ASSUME UrlsInv, NEW h \in Handler, GetUrl(h)
    PROVE  UrlsInv'
<1> DEFINE w == work[h]
           old == Old(w)
           u == IF old = None THEN NewUrl(urlIds + 1, w.left[1]) ELSE old
           next == IF w.is = "scan" /\ u.url \notin Long THEN "put" ELSE "try"
           new == [w EXCEPT !.u = u, !.was = old, !.pc = next]
<1>1. /\ w.pc = "get" /\ w.is # "find" /\ w \in Worker /\ WorkerOK(w)
      /\ w.u = None /\ w.was = None /\ w.code = None /\ w.is \in {"scan", "shorten", "cache"}
      /\ w.ch \in Channel
  <2>1. w.pc = "get" /\ w.is # "find"
    BY DEF GetUrl
  <2> QED BY <2>1, InHand DEF WorkerOK
<1>2. /\ ~w.that => w.left[1] \in Url
      /\ old # None => old \in UrlRec /\ urls.vals[old.id] = old /\ old.id <= urlIds
  BY <1>1, OldIs
<1>3. CASE work' = [work EXCEPT ![h] = NextWord(h)] /\ UNCHANGED <<urls, urlIds, lastseen, file, announced, risky>>
  <2>1. risky \subseteq risky' /\ risky' \subseteq Code
    BY <1>3 DEF UrlsInv, UrlsType
  <2> QED BY <1>1, <1>3, <2>1, NextWordOK, OneAfresh
<1>4. CASE /\ work' = [work EXCEPT ![h] = new]
           /\ UNCHANGED <<urls, lastseen, file, announced, risky>>
           /\ IF old = None THEN urlIds' = urlIds + 1 /\ urlIds < MaxId /\ ~w.that
              ELSE urlIds' = urlIds /\ w.is # "scan"
           /\ old # None => IF w.is = "shorten" THEN old.shortened = None ELSE old.cachedas = None
  <2>1. urlIds \in 0 .. MaxId /\ urlIds' \in 0 .. MaxId /\ urlIds <= urlIds'
    BY <1>4, UrlConstants DEF UrlsInv, UrlsType
  <2>2. /\ u \in UrlRec /\ u.id \in Id /\ u.id <= urlIds'
        /\ old = None => u.id = urlIds + 1 /\ u.cachedas = None /\ u.shortened = None
    <3>1. CASE old = None
      <4>1. urlIds + 1 \in Id /\ w.left[1] \in Url
        BY <1>2, <1>4, <2>1, <3>1, UrlConstants DEF Id
      <4> QED BY <1>4, <2>1, <3>1, <4>1, NewUrlIs, UrlRecIs
    <3>2. CASE old # None
      BY <1>2, <1>4, <3>2, UrlRecIs
    <3> QED BY <3>1, <3>2
  <2>3. old = None => urls.vals[u.id] = None
    BY <2>1, <2>2 DEF UrlsInv, UrlsPlaced
  <2>4. old # None => u = old /\ urls.vals[u.id] = old
    BY <1>2
  <2> HIDE DEF u, old
  <2>5. /\ new \in Worker /\ new.pc \in {"put", "try"} /\ new.u = u /\ new.was = old
        /\ new.is = w.is /\ new.code = None /\ new.ch = w.ch
    <3>1. next \in {"put", "try"} /\ old \in UrlRec \cup {None}
      BY <1>2
    <3> HIDE DEF next
    <3> QED BY <1>1, <2>2, <3>1 DEF Worker
  <2>6. WorkerOK(new)
    <3>1. new.is = "cache" => new.pc # "put"
      BY <1>1, <2>5
    <3>2. u # None
      BY <2>2, UrlConstants
    <3> HIDE DEF new
    <3> QED BY <1>1, <1>4, <2>2, <2>4, <2>5, <3>1, <3>2 DEF WorkerOK
  <2> HIDE DEF new
  <2>7. \A g \in Handler : work'[g] = IF g = h THEN new ELSE work[g]
    BY <1>4 DEF UrlsInv, UrlsType
  <2>8. UrlsType'
    <3>1. work' \in [Handler -> Worker]
      BY <1>4, <2>5 DEF UrlsInv, UrlsType
    <3>2. \A g \in Handler : WorkerOK(work'[g])
      BY <2>6, <2>7 DEF UrlsInv, UrlsType
    <3> QED BY <1>4, <2>1, <3>1, <3>2 DEF UrlsInv, UrlsType
  <2>9. UrlsPlaced'
    <3>1. \A i \in Id : i \in Int
      BY DEF Id
    <3> QED BY <1>4, <2>1, <3>1 DEF UrlsInv, UrlsPlaced
  <2>10. UrlsPointed' /\ UrlsOwned'
    <3>1. UrlsPointed'
      BY <1>4 DEF UrlsInv, UrlsPointed
    <3>2. UrlsOwned'
      BY <1>4 DEF UrlsInv, UrlsOwned
    <3> QED BY <3>1, <3>2
  <2>11. UrlsFresh'
    <3>1. \A g \in Handler : work[g].u # None => /\ work[g].u.id \in Id /\ work[g].u.id <= urlIds
                                                 /\ work[g].was # None => urls.vals[work[g].u.id] # None
                                                 /\ work[g].was = None => urls.vals[work[g].u.id] = None
      BY InHand DEF UrlsInv, UrlsFresh
    <3>2. old # None => urls.vals[u.id] # None
      BY <2>4
    <3>3. ASSUME NEW g \in Handler, work[g].u # None, g # h
          PROVE  /\ work[g].u.id <= urlIds'
                 /\ old = None => work[g].u.id # u.id
                 /\ work[g].was = None => work[g].u.id # u.id
      <4>1. work[g].u.id \in Int /\ work[g].u.id <= urlIds
        BY <3>1, <3>3 DEF Id
      <4>2. old = None => work[g].u.id # u.id
        BY <2>1, <2>2, <4>1
      <4>3. old # None /\ work[g].was = None => work[g].u.id # u.id
        BY <3>1, <3>2, <3>3
      <4> QED BY <2>1, <4>1, <4>2, <4>3
    <3>4. ASSUME NEW g \in Handler, work'[g].u # None
          PROVE  /\ work'[g].u.id <= urlIds'
                 /\ work'[g].was # None => urls.vals[work'[g].u.id] # None
                 /\ work'[g].was = None =>
                       /\ urls.vals[work'[g].u.id] = None
                       /\ \A f \in Handler \ {g} : work'[f].u # None => work'[f].u.id # work'[g].u.id
      <4>1. CASE g = h
        BY <2>2, <2>3, <2>5, <2>7, <3>2, <3>3, <4>1
      <4>2. CASE g # h
        <5>1. work'[g] = work[g] /\ work[g].u # None
          BY <2>7, <3>4, <4>2
        <5>2. work[g].was = None =>
                 \A f \in Handler \ {g} : work[f].u # None => work[f].u.id # work[g].u.id
          BY <5>1 DEF UrlsInv, UrlsFresh
        <5>3. work[g].was = None =>
                 \A f \in Handler \ {g} : work'[f].u # None => work'[f].u.id # work[g].u.id
          BY <2>5, <2>7, <3>3, <4>2, <5>1, <5>2
        <5> QED BY <3>1, <3>3, <4>2, <5>1, <5>3
      <4> QED BY <4>1, <4>2
    <3> QED BY <1>4, <3>4 DEF UrlsFresh
  <2>12. UrlsHeld'
    <3> SUFFICES ASSUME NEW g \in Handler, NEW c \in Code \ risky, work'[g].was # None
                 PROVE  LET v == work'[g].was IN
                        /\ v.cachedas = c => urls.vals[v.id].cachedas = c
                        /\ v.shortened = c => urls.vals[v.id].shortened = c
      BY <1>4 DEF UrlsHeld
    <3>1. CASE g = h
      BY <2>4, <2>5, <2>7, <3>1
    <3>2. CASE g # h
      BY <2>7, <3>2 DEF UrlsInv, UrlsHeld
    <3> QED BY <3>1, <3>2
  <2>13. UrlsAlone'
    <3>1. UrlsAlone
      BY DEF UrlsInv
    <3> QED BY <1>4, <2>5, <2>7, <3>1 DEF UrlsAlone
  <2>14. UrlsFree'
    <3>1. UrlsFree
      BY DEF UrlsInv
    <3> QED BY <1>4, <2>5, <2>7, <3>1, UrlConstants DEF UrlsFree
  <2>15. UrlsCopied'
    <3>1. UrlsCopied
      BY DEF UrlsInv
    <3> QED BY <1>4, <2>5, <2>7, <3>1, UrlConstants DEF UrlsCopied
  <2>16. UrlsLed'
    BY <1>4 DEF UrlsInv, UrlsLed
  <2> QED BY <2>8, <2>9, <2>10, <2>11, <2>12, <2>13, <2>14, <2>15, <2>16 DEF UrlsInv
<1> DEFINE done == \/ w.that /\ old = None
                   \/ old # None /\ (CASE w.is = "scan" -> TRUE
                                       [] w.is = "shorten" -> old.shortened # None
                                       [] w.is = "cache" -> old.cachedas # None)
<1>5. /\ work' = [work EXCEPT ![h] = IF done THEN NextWord(h) ELSE new]
      /\ urlIds' = IF ~done /\ old = None THEN urlIds + 1 ELSE urlIds
      /\ ~done /\ old = None => urlIds < MaxId
      /\ UNCHANGED <<urls, lastseen, file, announced, risky>>
  BY DEF GetUrl, Old
<1> HIDE DEF new, u
<1>6. ~done => /\ old = None => ~w.that
               /\ old # None => /\ w.is # "scan"
                                /\ IF w.is = "shorten" THEN old.shortened = None ELSE old.cachedas = None
  BY <1>1
<1> HIDE DEF done, old
<1> QED BY <1>3, <1>4, <1>5, <1>6 DEF old

\* A handler goes on with the record it holds.
LEMMA Onward ==
    ASSUME UrlsInv, NEW h \in Handler, NEW w, WorkerOK(w), w.u = work[h].u, w.was = work[h].was,
           UNCHANGED <<urls, urlIds, lastseen, announced>>, work' = [work EXCEPT ![h] = w],
           risky \subseteq risky', risky' \subseteq Code, file' \in [Code -> Url \cup {None}],
           w.code \in Code \ risky' => \A g \in Handler \ {h} : work[g].code # w.code,
           w.pc \in {"free?", "ask", "copy", "put"} /\ w.code \in Code \ risky' =>
                \A i \in Id : urls.vals[i] # None =>
                    /\ urls.vals[i].cachedas # w.code
                    /\ w.pc # "free?" => urls.vals[i].shortened # w.code,
           w.pc = "put" /\ w.is = "cache" /\ w.code \in Code \ risky' => file'[w.code] = w.u.url,
           \A c \in Code \ risky : \/ file'[c] = file[c]
                                   \/ /\ w.code = c
                                      /\ \A i \in Id : urls.vals[i] # None => urls.vals[i].cachedas # c
    PROVE  UrlsInv'
<1>1. w \in Worker
  BY DEF WorkerOK
<1>2. work' \in [Handler -> Worker] /\ \A g \in Handler : work'[g] = IF g = h THEN w ELSE work[g]
  BY <1>1 DEF UrlsInv, UrlsType
<1>3. \A g \in Handler : WorkerOK(work'[g])
  BY <1>2 DEF UrlsInv, UrlsType
<1>4. \A g \in Handler : work[g].code \in Code \cup {None} /\ w.code \in Code \cup {None}
  BY <1>1, InHand DEF Worker
<1>5. UrlsAlone'
  <2>1. UrlsAlone
    BY DEF UrlsInv
  <2> QED BY <1>2, <1>4, <2>1 DEF UrlsAlone
<1>6. UrlsFree'
  <2>1. UrlsFree
    BY DEF UrlsInv
  <2> QED BY <1>2, <2>1 DEF UrlsFree
<1>7. UrlsCopied'
  <2> SUFFICES ASSUME NEW g \in Handler, work'[g].pc = "put", work'[g].is = "cache",
                      work'[g].code \in Code \ risky'
               PROVE  file'[work'[g].code] = work'[g].u.url
    BY DEF UrlsCopied
  <2>1. CASE g = h
    BY <1>2, <2>1
  <2>2. CASE g # h
    <3>1. work'[g] = work[g] /\ work[g].code \in Code \ risky /\ work[g].code # w.code
      BY <1>2, <2>2
    <3>2. file[work[g].code] = work[g].u.url
      BY <3>1 DEF UrlsInv, UrlsCopied
    <3> QED BY <3>1, <3>2
  <2> QED BY <2>1, <2>2
<1>8. \A a \in announced : a[1] = "c" /\ a[2] \in Code \ risky => file'[a[2]] = file[a[2]]
  <2> SUFFICES ASSUME NEW a \in announced, a[1] = "c", a[2] \in Code \ risky
               PROVE  \E i \in Id : urls.vals[i] # None /\ urls.vals[i].cachedas = a[2]
    OBVIOUS
  <2> DEFINE k == Cached(a[2])
             i == urls.idxs[k]
  <2>1. i # None
    BY DEF UrlsInv, UrlsLed
  <2>2. k \in UrlKeys
    BY DEF UrlKeys, Cached
  <2>3. i \in Id /\ urls.vals[i] # None /\ k \in Ur!KeysOf(urls.vals[i])
    BY <2>1, <2>2 DEF UrlsInv, UrlsType, UrlsPointed, Ur!Store
  <2>4. urls.vals[i] \in UrlRec
    BY <2>3, UrlFound
  <2>5. urls.vals[i].cachedas = a[2]
    BY <2>3, <2>4, UrlRecIs
  <2> QED BY <2>3, <2>5
<1>9. \A g \in Handler : \/ work'[g].pc \in {"idle", "get"}
                         \/ work'[g].u = work[g].u /\ work'[g].was = work[g].was
  BY <1>2
<1> QED BY <1>2, <1>3, <1>5, <1>6, <1>7, <1>8, <1>9, UrlsStay

LEMMA CollidedIs ==
    ASSUME NEW w, WorkerOK(w), w.pc = "free?"
    PROVE  /\ WorkerOK(Collided(w))
           /\ \/ Collided(w) = Idle
              \/ /\ Collided(w).u = w.u /\ Collided(w).was = w.was
                 /\ \/ Collided(w).pc = "try" /\ Collided(w).code = w.code
                    \/ Collided(w).pc = "put" /\ Collided(w).code = None
<1>1. w \in Worker /\ w.is \in {"scan", "shorten", "cache"} /\ w.u # None
  BY DEF WorkerOK
<1>2. CASE w.tries < MaxTries
  BY <1>1, <1>2 DEF Collided, WorkerOK, Worker
<1>3. CASE ~(w.tries < MaxTries) /\ w.is = "cache"
  BY <1>3, IdleOK DEF Collided
<1>4. CASE ~(w.tries < MaxTries) /\ w.is # "cache"
  BY <1>1, <1>4 DEF Collided, WorkerOK, Worker
<1> QED BY <1>2, <1>3, <1>4

\* A code that is not risky and not found is no record's.
LEMMA NotFound ==
    ASSUME UrlsInv, NEW c \in Code \ risky
    PROVE  /\ GetCached(c) = None => \A i \in Id : urls.vals[i] # None => urls.vals[i].cachedas # c
           /\ GetShortened(c) = None => \A i \in Id : urls.vals[i] # None => urls.vals[i].shortened # c
<1>1. Cached(c) \in UrlKeys /\ Shortened(c) \in UrlKeys
  BY DEF UrlKeys, Cached, Shortened
<1>2. ASSUME NEW i \in Id, urls.vals[i] # None, urls.vals[i].cachedas = c PROVE GetCached(c) # None
  <2>1. urls.idxs[Cached(c)] = i
    BY <1>2 DEF UrlsInv, UrlsOwned
  <2> QED BY <1>1, <1>2, <2>1, UrlConstants, UrlLookupIs DEF GetCached, Cached
<1>3. ASSUME NEW i \in Id, urls.vals[i] # None, urls.vals[i].shortened = c PROVE GetShortened(c) # None
  <2>1. urls.idxs[Shortened(c)] = i
    BY <1>3 DEF UrlsInv, UrlsOwned
  <2> QED BY <1>1, <1>3, <2>1, UrlConstants, UrlLookupIs DEF GetShortened, Shortened
<1> QED BY <1>2, <1>3

LEMMA StepTryCode ==
    ASSUME UrlsInv, NEW h \in Handler, TryCode(h)
    PROVE  UrlsInv'
<1> DEFINE w == work[h]
<1>1. w.pc = "try" /\ w \in Worker /\ WorkerOK(w) /\ w.u \in UrlRec /\ w.u.url \in Url
  <2>1. w.pc = "try"
    BY DEF TryCode
  <2> QED BY <2>1, InHand, UrlRecIs DEF WorkerOK
<1> PICK c \in IF w.tries = 0 THEN {Hash[w.u.url]} ELSE Code \ {w.code} :
        LET tried == [w EXCEPT !.pc = "free?", !.code = c, !.tries = @ + 1] IN
        /\ work' = [work EXCEPT ![h] = IF GetCached(c) # None THEN Collided(tried) ELSE tried]
        /\ risky' = IF \E g \in Handler \ {h} : work[g].code = c THEN risky \cup {c} ELSE risky
  BY DEF TryCode
<1> DEFINE tried == [w EXCEPT !.pc = "free?", !.code = c, !.tries = @ + 1]
<1>2. c \in Code
  BY <1>1, UrlConstants
<1>3. /\ WorkerOK(tried) /\ tried.u = w.u /\ tried.was = w.was /\ tried.pc = "free?"
      /\ tried.code = c
  <2> DEFINE n == w.tries + 1
  <2>1. w.tries \in Nat /\ n \in Nat
    BY <1>1 DEF Worker
  <2>2. tried = [w EXCEPT !.pc = "free?", !.code = c, !.tries = n]
    OBVIOUS
  <2> HIDE DEF n, tried
  <2>3. /\ tried \in Worker /\ tried.u = w.u /\ tried.was = w.was /\ tried.pc = "free?"
        /\ tried.code = c /\ tried.is = w.is /\ tried.ch = w.ch
    BY <1>1, <1>2, <2>1, <2>2 DEF Worker
  <2> QED BY <1>1, <1>2, <2>3, UrlConstants DEF WorkerOK
<1>4. /\ work' = [work EXCEPT ![h] = IF GetCached(c) # None THEN Collided(tried) ELSE tried]
      /\ risky' = IF \E g \in Handler \ {h} : work[g].code = c THEN risky \cup {c} ELSE risky
  OBVIOUS
<1>5. UNCHANGED <<urls, urlIds, lastseen, file, announced>>
  BY DEF TryCode
<1> HIDE DEF tried
<1>6. /\ risky \subseteq risky' /\ risky' \subseteq Code
      /\ c \notin risky' => \A g \in Handler \ {h} : work[g].code # c
      /\ file' \in [Code -> Url \cup {None}]
  BY <1>2, <1>4, <1>5 DEF UrlsInv, UrlsType
<1>7. CASE GetCached(c) = None
  <2>1. c \notin risky' => \A i \in Id : urls.vals[i] # None => urls.vals[i].cachedas # c
    BY <1>2, <1>6, <1>7, NotFound
  <2>2. work' = [work EXCEPT ![h] = tried]
    BY <1>4, <1>7
  <2> QED BY <1>3, <1>5, <1>6, <2>1, <2>2, Onward
<1>8. CASE GetCached(c) # None
  <2> DEFINE x == Collided(tried)
  <2>1. /\ WorkerOK(x)
        /\ \/ x = Idle
           \/ /\ x.u = w.u /\ x.was = w.was
              /\ \/ x.pc = "try" /\ x.code = c
                 \/ x.pc = "put" /\ x.code = None
    BY <1>3, CollidedIs
  <2>2. work' = [work EXCEPT ![h] = x]
    BY <1>4, <1>8
  <2> HIDE DEF x
  <2>3. CASE x = Idle
    BY <1>5, <1>6, <2>1, <2>2, <2>3, IdleOK, OneAfresh
  <2>4. CASE x # Idle
    <3>1. /\ WorkerOK(x) /\ x.u = w.u /\ x.was = w.was
          /\ x.pc # "free?" /\ x.pc \notin {"ask", "copy"}
          /\ x.pc = "put" => x.code \notin Code
          /\ x.code \in Code => x.code = c
      BY <2>1, <2>4, UrlConstants
    <3>2. x.code \in Code \ risky' => \A g \in Handler \ {h} : work[g].code # x.code
      BY <1>6, <3>1
    <3> QED BY <1>5, <1>6, <2>2, <3>1, <3>2, Onward
  <2> QED BY <2>3, <2>4
<1> QED BY <1>7, <1>8

LEMMA StepIsFree ==
    ASSUME UrlsInv, NEW h \in Handler, IsFree(h)
    PROVE  UrlsInv'
<1> DEFINE w == work[h]
           next == IF w.is = "cache" THEN "ask" ELSE "put"
           x == IF GetShortened(w.code) # None THEN Collided(w) ELSE [w EXCEPT !.pc = next]
<1>1. w.pc = "free?" /\ w \in Worker /\ WorkerOK(w) /\ w.code \in Code
  <2>1. w.pc = "free?"
    BY DEF IsFree
  <2> QED BY <2>1, InHand DEF WorkerOK, Worker
<1>2. /\ work' = [work EXCEPT ![h] = x]
      /\ UNCHANGED <<urls, urlIds, lastseen, file, announced, risky>>
  BY DEF IsFree
<1>3. risky \subseteq risky' /\ risky' \subseteq Code /\ file' \in [Code -> Url \cup {None}]
  BY <1>2 DEF UrlsInv, UrlsType
<1>4. w.code \notin risky' => \A g \in Handler \ {h} : work[g].code # w.code
  BY <1>1, <1>2, UrlConstants DEF UrlsInv, UrlsAlone
<1>5. CASE GetShortened(w.code) = None
  <2>1. /\ WorkerOK(x) /\ x.u = w.u /\ x.was = w.was /\ x.code = w.code
        /\ x.is = "cache" => x.pc # "put"
    BY <1>1, <1>5, UrlConstants DEF WorkerOK, Worker
  <2> HIDE DEF x
  <2>2. w.code \notin risky' => \A i \in Id : urls.vals[i] # None =>
            urls.vals[i].cachedas # w.code /\ urls.vals[i].shortened # w.code
    <3>1. w.code \notin risky => \A i \in Id : urls.vals[i] # None => urls.vals[i].cachedas # w.code
      BY <1>1 DEF UrlsInv, UrlsFree
    <3>2. w.code \notin risky => \A i \in Id : urls.vals[i] # None => urls.vals[i].shortened # w.code
      BY <1>1, <1>5, NotFound
    <3> QED BY <1>2, <3>1, <3>2
  <2> QED BY <1>2, <1>3, <1>4, <2>1, <2>2, Onward
<1>6. CASE GetShortened(w.code) # None
  <2>1. /\ WorkerOK(x)
        /\ \/ x = Idle
           \/ /\ x.u = w.u /\ x.was = w.was
              /\ \/ x.pc = "try" /\ x.code = w.code
                 \/ x.pc = "put" /\ x.code = None
    BY <1>1, <1>6, CollidedIs
  <2> HIDE DEF x
  <2>2. CASE x = Idle
    BY <1>2, <1>3, <2>1, <2>2, IdleOK, OneAfresh
  <2>3. CASE x # Idle
    BY <1>2, <1>3, <1>4, <2>1, <2>3, UrlConstants, Onward
  <2> QED BY <2>2, <2>3
<1> QED BY <1>5, <1>6

\* The file of a code that is tried is nobody else's: it may be emptied and written.
LEMMA StepAskUrl ==
    ASSUME UrlsInv, NEW h \in Handler, Ask(h)
    PROVE  UrlsInv'
<1> DEFINE w == work[h]
           x == [w EXCEPT !.pc = "copy"]
<1>1. w.pc = "ask" /\ w \in Worker /\ WorkerOK(w) /\ w.code \in Code /\ w.is = "cache"
  <2>1. w.pc = "ask"
    BY DEF Ask
  <2> QED BY <2>1, InHand DEF WorkerOK, Worker
<1>2. UNCHANGED <<urls, urlIds, lastseen, announced, risky>>
  BY DEF Ask
<1>3. risky \subseteq risky' /\ risky' \subseteq Code
  BY <1>2 DEF UrlsInv, UrlsType
<1>4. work \in [Handler -> Worker] /\ file \in [Code -> Url \cup {None}]
  BY DEF UrlsInv, UrlsType
<1>5. CASE work' = [work EXCEPT ![h] = Idle]
  <2>1. work'[h] = Idle
    BY <1>4, <1>5
  <2>2. file' = file
    BY <2>1 DEF Ask
  <2> QED BY <1>2, <1>3, <1>5, <2>2, IdleOK, OneAfresh
<1>6. CASE work' = [work EXCEPT ![h] = x]
  <2>1. /\ WorkerOK(x) /\ x.u = w.u /\ x.was = w.was /\ x.code = w.code /\ x.pc = "copy"
    BY <1>1 DEF WorkerOK, Worker
  <2>2. work'[h] = x
    BY <1>4, <1>6
  <2> HIDE DEF x
  <2>3. file' = [file EXCEPT ![w.code] = None]
    BY <2>1, <2>2, IdleOK DEF Ask
  <2>4. /\ file' \in [Code -> Url \cup {None}]
        /\ \A c \in Code : c # w.code => file'[c] = file[c]
    BY <1>1, <1>4, <2>3
  <2>5. x.code \in Code \ risky' => \A i \in Id : urls.vals[i] # None =>
            urls.vals[i].cachedas # x.code /\ urls.vals[i].shortened # x.code
    BY <1>1, <1>2, <2>1 DEF UrlsInv, UrlsFree
  <2>6. x.code \in Code \ risky' => \A g \in Handler \ {h} : work[g].code # x.code
    BY <1>1, <1>2, <2>1, UrlConstants DEF UrlsInv, UrlsAlone
  <2>7. \A c \in Code \ risky : \/ file'[c] = file[c]
                                 \/ /\ x.code = c
                                    /\ \A i \in Id : urls.vals[i] # None => urls.vals[i].cachedas # c
    BY <1>2, <2>1, <2>4, <2>5
  <2> QED BY <1>2, <1>3, <1>6, <2>1, <2>4, <2>5, <2>6, <2>7, Onward
<1>7. work' \in {[work EXCEPT ![h] = x], [work EXCEPT ![h] = Idle]}
  <2>1. work' \in {[work EXCEPT ![h].pc = "copy"], [work EXCEPT ![h] = Idle]}
    BY DEF Ask
  <2> QED BY <2>1
<1> QED BY <1>5, <1>6, <1>7

LEMMA StepCopyUrl ==
    ASSUME UrlsInv, NEW h \in Handler, Copy(h)
    PROVE  UrlsInv'
<1> DEFINE w == work[h]
           x == [w EXCEPT !.pc = "put"]
<1>1. /\ w.pc = "copy" /\ w \in Worker /\ WorkerOK(w) /\ w.code \in Code /\ w.is = "cache"
      /\ w.u \in UrlRec /\ w.u.url \in Url
  <2>1. w.pc = "copy"
    BY DEF Copy
  <2> QED BY <2>1, InHand, UrlRecIs DEF WorkerOK, Worker
<1>2. UNCHANGED <<urls, urlIds, lastseen, announced, risky>>
  BY DEF Copy
<1>3. risky \subseteq risky' /\ risky' \subseteq Code
  BY <1>2 DEF UrlsInv, UrlsType
<1>4. work \in [Handler -> Worker] /\ file \in [Code -> Url \cup {None}]
  BY DEF UrlsInv, UrlsType
<1>5. CASE work' = [work EXCEPT ![h] = Idle] /\ file' = file
  BY <1>2, <1>3, <1>5, IdleOK, OneAfresh
<1>6. CASE work' = [work EXCEPT ![h] = x] /\ file' = [file EXCEPT ![w.code] = w.u.url]
  <2>1. /\ WorkerOK(x) /\ x.u = w.u /\ x.was = w.was /\ x.code = w.code
    BY <1>1 DEF WorkerOK, Worker
  <2> HIDE DEF x
  <2>2. /\ file' \in [Code -> Url \cup {None}]
        /\ \A c \in Code : c # w.code => file'[c] = file[c]
        /\ file'[w.code] = w.u.url
    BY <1>1, <1>4, <1>6
  <2>3. x.code \in Code \ risky' => \A i \in Id : urls.vals[i] # None =>
            urls.vals[i].cachedas # x.code /\ urls.vals[i].shortened # x.code
    BY <1>1, <1>2, <2>1 DEF UrlsInv, UrlsFree
  <2>4. x.code \in Code \ risky' => \A g \in Handler \ {h} : work[g].code # x.code
    BY <1>1, <1>2, <2>1, UrlConstants DEF UrlsInv, UrlsAlone
  <2>5. \A c \in Code \ risky : \/ file'[c] = file[c]
                                 \/ /\ x.code = c
                                    /\ \A i \in Id : urls.vals[i] # None => urls.vals[i].cachedas # c
    BY <1>2, <2>1, <2>2, <2>3
  <2>6. file'[x.code] = x.u.url
    BY <2>1, <2>2
  <2>7. work' = [work EXCEPT ![h] = x]
    BY <1>6
  <2> QED BY <1>2, <1>3, <2>1, <2>2, <2>3, <2>4, <2>5, <2>6, <2>7, Onward
<1>7. \/ work' = [work EXCEPT ![h] = Idle] /\ file' = file
      \/ work' = [work EXCEPT ![h] = x] /\ file' = [file EXCEPT ![w.code] = w.u.url]
  <2>1. [work EXCEPT ![h].pc = "put"] = [work EXCEPT ![h] = x]
    OBVIOUS
  <2> HIDE DEF x
  <2> QED BY <2>1 DEF Copy
<1> HIDE DEF w, x
<1> QED BY <1>5, <1>6, <1>7

\* What a Put leaves of the codes that are not risky: those stored stay where they are, and
\* the one that is put is found under its record.
LEMMA StepPutUrl ==
    ASSUME UrlsInv, NEW h \in Handler, PutUrl(h)
    PROVE  UrlsInv'
<1> DEFINE w == work[h]
           u == IF w.is = "cache" THEN [w.u EXCEPT !.cachedas = w.code]
                ELSE [w.u EXCEPT !.shortened = w.code]
           j == u.id
           old == urls.vals[j]
           X == IF old = None THEN {} ELSE {old.cachedas, old.shortened} \ {None}
<1>1. /\ w.pc = "put" /\ w \in Worker /\ WorkerOK(w) /\ w.u \in UrlRec /\ w.code \in Code \cup {None}
      /\ w.is \in {"scan", "shorten", "cache"} /\ w.ch \in Channel
      /\ w.is = "cache" => w.code # None
      /\ w.was # None => w.was \in UrlRec /\ w.u = w.was
  <2>1. w.pc = "put"
    BY DEF PutUrl
  <2> QED BY <2>1, InHand DEF WorkerOK, Worker
<1>2. /\ u \in UrlRec /\ u.id = w.u.id /\ u.url = w.u.url
      /\ IF w.is = "cache" THEN u.cachedas = w.code /\ u.shortened = w.u.shortened /\ w.u.cachedas = None
         ELSE u.shortened = w.code /\ u.cachedas = w.u.cachedas /\ w.u.shortened = None
      /\ w.was = None => w.u.cachedas = None /\ w.u.shortened = None
  BY <1>1 DEF UrlRec, WorkerOK
<1> DEFINE kind == IF w.is = "cache" THEN "c" ELSE "s"
<1>3. /\ urls' = Ur!PutTx(urls, u)
      /\ announced' \subseteq announced \cup {<<kind, w.code, u.url>>} /\ announced \subseteq announced'
      /\ risky' = IF old = w.was THEN risky ELSE risky \cup ({old.cachedas, old.shortened} \ {None})
      /\ lastseen' = IF w.is = "scan" THEN [lastseen EXCEPT ![w.ch] = j] ELSE lastseen
      /\ work' = [work EXCEPT ![h] = NextWord(h)]
      /\ UNCHANGED <<urlIds, file>>
  BY DEF PutUrl
<1> HIDE DEF u
<1>4. /\ j \in Id /\ j <= urlIds /\ old \in UrlRec \cup {None}
      /\ w.was # None => old # None
      /\ w.was = None => old = None /\ \A g \in Handler \ {h} : work[g].u # None => work[g].u.id # j
  <2>1. w.u # None /\ j \in Id
    BY <1>1, <1>2, UrlRecIs
  <2> QED BY <1>2, <2>1 DEF UrlsInv, UrlsType, UrlsFresh, Ur!Store
<1>5. /\ urls' \in Ur!Store
      /\ \A i \in Id : urls'.vals[i] = IF i = j THEN u ELSE urls.vals[i]
      /\ \A k \in UrlKeys : urls'.idxs[k] =
            IF k \in Ur!KeysOf(u) THEN j
            ELSE IF old # None /\ k \in Ur!KeysOf(old) THEN None ELSE urls.idxs[k]
  <2>1. urls \in Ur!Store
    BY DEF UrlsInv, UrlsType
  <2>2. LET e == Ur!PutTx(urls, u) IN
        /\ e \in Ur!Store /\ e.vals = [urls.vals EXCEPT ![u.id] = u]
        /\ \A k \in UrlKeys : e.idxs[k] =
            IF k \in Ur!KeysOf(u) THEN u.id
            ELSE IF old # None /\ k \in Ur!KeysOf(old) THEN None ELSE urls.idxs[k]
    BY <1>2, <2>1, PutUrlIs
  <2> QED BY <1>3, <2>1, <2>2 DEF Ur!Store
<1>6. /\ risky \subseteq risky' /\ risky' \subseteq Code
      /\ old # None /\ old # w.was => \A c \in Code \ risky' : old.cachedas # c /\ old.shortened # c
  <2>1. risky \subseteq Code
    BY DEF UrlsInv, UrlsType
  <2>2. old # None => old.cachedas \in Code \cup {None} /\ old.shortened \in Code \cup {None}
    BY <1>4, UrlRecIs
  <2> QED BY <1>3, <1>4, <2>1, <2>2, UrlConstants
<1>7. u # None /\ \A c \in Code : c # None
  BY <1>2, UrlConstants
\* The record keeps its codes and its URL,
<1>8. ASSUME NEW c \in Code \ risky', old # None, old.cachedas = c \/ old.shortened = c
      PROVE  /\ old.cachedas = c => u.cachedas = c
             /\ old.shortened = c => u.shortened = c
             /\ u.url = old.url
  <2>1. old = w.was /\ w.was = w.u
    BY <1>1, <1>4, <1>6, <1>8
  <2> QED BY <1>2, <1>7, <2>1
\* and takes no other record's.
<1>9. ASSUME NEW c \in Code \ risky', NEW i \in Id, i # j, urls.vals[i] # None
      PROVE  /\ urls.vals[i].cachedas = c => u.cachedas # c
             /\ urls.vals[i].shortened = c => u.shortened # c
  <2>1. ASSUME w.code = c
        PROVE  urls.vals[i].cachedas # c /\ urls.vals[i].shortened # c
    BY <1>1, <1>6, <1>9, <2>1 DEF UrlsInv, UrlsFree
  <2>2. w.was # None => /\ w.was.cachedas = c => urls.vals[j].cachedas = c
                        /\ w.was.shortened = c => urls.vals[j].shortened = c
    <3>1. w.was # None => w.was.id = j
      BY <1>1, <1>2
    <3>2. c \in Code \ risky
      BY <1>6
    <3>3. w.was # None => /\ w.was.cachedas = c => urls.vals[w.was.id].cachedas = c
                          /\ w.was.shortened = c => urls.vals[w.was.id].shortened = c
      BY <3>2 DEF UrlsInv, UrlsHeld
    <3> QED BY <3>1, <3>3
  <2>3. ASSUME w.was # None, w.was.cachedas = c PROVE urls.vals[i].cachedas # c
    BY <1>4, <1>6, <1>9, <2>2, <2>3 DEF UrlsInv, UrlsOwned
  <2>4. ASSUME w.was # None, w.was.shortened = c PROVE urls.vals[i].shortened # c
    BY <1>4, <1>6, <1>9, <2>2, <2>4 DEF UrlsInv, UrlsOwned
  <2> QED BY <1>1, <1>2, <1>7, <2>1, <2>3, <2>4
\* So the others are found as before.
<1>10. ASSUME NEW c \in Code \ risky', NEW i \in Id, i # j, urls.vals[i] # None
       PROVE  /\ urls.vals[i].cachedas = c => urls'.idxs[Cached(c)] = i
              /\ urls.vals[i].shortened = c => urls'.idxs[Shortened(c)] = i
  <2>1. /\ urls.vals[i].cachedas = c => urls.idxs[Cached(c)] = i
        /\ urls.vals[i].shortened = c => urls.idxs[Shortened(c)] = i
    BY <1>6, <1>10 DEF UrlsInv, UrlsOwned
  <2>2. /\ Cached(c) \in UrlKeys /\ Shortened(c) \in UrlKeys
        /\ Cached(c) \in Ur!KeysOf(u) <=> u.cachedas = c
        /\ Shortened(c) \in Ur!KeysOf(u) <=> u.shortened = c
    BY <1>2, UrlRecIs
  <2>3. old # None => /\ Cached(c) \in Ur!KeysOf(old) => u.cachedas = c
                      /\ Shortened(c) \in Ur!KeysOf(old) => u.shortened = c
    <3> SUFFICES ASSUME old # None
                 PROVE  /\ Cached(c) \in Ur!KeysOf(old) => u.cachedas = c
                        /\ Shortened(c) \in Ur!KeysOf(old) => u.shortened = c
      OBVIOUS
    <3>1. /\ Cached(c) \in Ur!KeysOf(old) <=> old.cachedas = c
          /\ Shortened(c) \in Ur!KeysOf(old) <=> old.shortened = c
      BY <1>4, UrlRecIs
    <3> QED BY <1>8, <3>1
  <2> HIDE DEF old
  <2> QED BY <1>5, <1>9, <1>10, <2>1, <2>2, <2>3
<1>11. ASSUME NEW c \in Code
       PROVE  /\ u.cachedas = c => urls'.idxs[Cached(c)] = j
              /\ u.shortened = c => urls'.idxs[Shortened(c)] = j
  BY <1>2, <1>5, UrlRecIs
<1>12. WorkerOK(NextWord(h)) /\ NextWord(h).pc \in {"idle", "get"}
  BY <1>1, NextWordOK
<1>13. NextWord(h).u = None /\ NextWord(h).was = None /\ NextWord(h).code = None /\ NextWord(h) \in Worker
  BY <1>12 DEF WorkerOK
<1> DEFINE next == NextWord(h)
<1> HIDE DEF next
<1>14. \A g \in Handler : work'[g] = IF g = h THEN next ELSE work[g]
  BY <1>3 DEF UrlsInv, UrlsType, next
<1>15. next.u = None /\ next.was = None /\ next.code = None /\ next.pc \in {"idle", "get"}
  BY <1>12, <1>13 DEF next
<1> HIDE DEF w, j, old, X
<1>16. UrlsType'
  <2>1. announced' \subseteq {"s", "c"} \X (Code \cup {None}) \X Url
    <3>1. u.url \in Url
      BY <1>2, UrlRecIs
    <3> QED BY <1>1, <1>3, <3>1 DEF UrlsInv, UrlsType
  <2>2. lastseen' \in [Channel -> Id \cup {None}]
    BY <1>1, <1>3, <1>4 DEF UrlsInv, UrlsType
  <2>3. work' \in [Handler -> Worker]
    BY <1>3, <1>13 DEF UrlsInv, UrlsType
  <2>4. \A g \in Handler : WorkerOK(work'[g])
    BY <1>12, <1>14 DEF UrlsInv, UrlsType, next
  <2> QED BY <1>3, <1>5, <1>6, <2>1, <2>2, <2>3, <2>4 DEF UrlsInv, UrlsType
<1>17. UrlsPlaced'
  BY <1>3, <1>4, <1>5 DEF UrlsInv, UrlsPlaced, j
<1>18. UrlsPointed'
  <2> SUFFICES ASSUME NEW k \in UrlKeys, urls'.idxs[k] # None
               PROVE  /\ urls'.vals[urls'.idxs[k]] # None
                      /\ k \in Ur!KeysOf(urls'.vals[urls'.idxs[k]])
    BY DEF UrlsPointed
  <2>1. CASE k \in Ur!KeysOf(u)
    BY <1>4, <1>5, <1>7, <2>1
  <2>2. CASE k \notin Ur!KeysOf(u)
    <3> DEFINE i == urls.idxs[k]
    <3>1. urls'.idxs[k] = i /\ ~(old # None /\ k \in Ur!KeysOf(old)) /\ i # None
      BY <1>5, <2>2
    <3>2. i \in Id /\ urls.vals[i] # None /\ k \in Ur!KeysOf(urls.vals[i])
      BY <3>1 DEF UrlsInv, UrlsType, UrlsPointed, Ur!Store
    <3>3. i # j
      BY <3>1, <3>2 DEF old
    <3> HIDE DEF i
    <3> QED BY <1>5, <3>1, <3>2, <3>3
  <2> QED BY <2>1, <2>2
<1>19. UrlsOwned'
  <2> SUFFICES ASSUME NEW i \in Id, NEW c \in Code \ risky', urls'.vals[i] # None
               PROVE  /\ urls'.vals[i].cachedas = c => urls'.idxs[Cached(c)] = i
                      /\ urls'.vals[i].shortened = c => urls'.idxs[Shortened(c)] = i
    BY DEF UrlsOwned
  <2>1. CASE i = j
    BY <1>5, <1>11, <2>1
  <2>2. CASE i # j
    BY <1>5, <1>10, <2>2
  <2> QED BY <2>1, <2>2
<1>20. UrlsFresh'
  <2> SUFFICES ASSUME NEW g \in Handler, work'[g].u # None
               PROVE  /\ work'[g].u.id <= urlIds
                      /\ work'[g].was # None => urls'.vals[work'[g].u.id] # None
                      /\ work'[g].was = None =>
                            /\ urls'.vals[work'[g].u.id] = None
                            /\ \A f \in Handler \ {g} : work'[f].u # None => work'[f].u.id # work'[g].u.id
    BY <1>3 DEF UrlsFresh
  <2>1. g # h /\ work'[g] = work[g] /\ work[g].u # None /\ work[g].u.id \in Id
    BY <1>14, <1>15, InHand
  <2>2. /\ work[g].u.id <= urlIds
        /\ work[g].was # None => urls.vals[work[g].u.id] # None
        /\ work[g].was = None =>
              /\ urls.vals[work[g].u.id] = None
              /\ \A f \in Handler \ {g} : work[f].u # None => work[f].u.id # work[g].u.id
    BY <2>1 DEF UrlsInv, UrlsFresh
  <2>3. work[g].was = None => work[g].u.id # j
    <3>1. w.u # None /\ w.u.id = j
      BY <1>1, <1>2, UrlConstants DEF j
    <3> QED BY <2>1, <2>2, <3>1 DEF w
  <2> QED BY <1>5, <1>7, <1>14, <1>15, <2>1, <2>2, <2>3
<1>21. UrlsHeld'
  <2> SUFFICES ASSUME NEW g \in Handler, NEW c \in Code \ risky', work'[g].was # None
               PROVE  LET v == work'[g].was IN
                      /\ v.cachedas = c => urls'.vals[v.id].cachedas = c
                      /\ v.shortened = c => urls'.vals[v.id].shortened = c
    BY DEF UrlsHeld
  <2> DEFINE v == work[g].was
  <2>1. g # h /\ work'[g].was = v /\ v # None
    BY <1>14, <1>15
  <2>2. v \in UrlRec /\ v.id \in Id /\ urls.vals[v.id] # None
    <3>1. v \in UrlRec /\ work[g].u = v
      BY <2>1, InHand
    <3>2. v # None /\ v.id \in Id
      BY <3>1, UrlRecIs
    <3> QED BY <3>1, <3>2 DEF UrlsInv, UrlsFresh
  <2>3. /\ v.cachedas = c => urls.vals[v.id].cachedas = c
        /\ v.shortened = c => urls.vals[v.id].shortened = c
    BY <1>6, <2>1 DEF UrlsInv, UrlsHeld
  <2> HIDE DEF v
  <2>4. CASE v.id = j
    <3>1. urls'.vals[v.id] = u /\ urls.vals[v.id] = old
      BY <1>5, <2>2, <2>4 DEF old
    <3> QED BY <1>8, <2>1, <2>2, <2>3, <3>1
  <2>5. CASE v.id # j
    BY <1>5, <2>1, <2>2, <2>3, <2>5
  <2> QED BY <2>4, <2>5
<1>22. UrlsAlone'
  <2>1. UrlsAlone
    BY DEF UrlsInv
  <2> QED BY <1>6, <1>14, <1>15, <2>1 DEF UrlsAlone
<1>23. UrlsFree'
  <2> SUFFICES ASSUME NEW g \in Handler, NEW i \in Id, urls'.vals[i] # None,
                      work'[g].pc \in {"free?", "ask", "copy", "put"}, work'[g].code \in Code \ risky'
               PROVE  /\ urls'.vals[i].cachedas # work'[g].code
                      /\ work'[g].pc # "free?" => urls'.vals[i].shortened # work'[g].code
    BY DEF UrlsFree
  <2> DEFINE c == work[g].code
             p == work[g].pc
  <2>1. g # h /\ work'[g] = work[g] /\ c \in Code \ risky /\ c \in Code \ risky'
        /\ p \in {"free?", "ask", "copy", "put"}
    BY <1>6, <1>7, <1>14, <1>15
  <2>2. \A l \in Id : urls.vals[l] # None => urls.vals[l].cachedas # c /\ (p # "free?" => urls.vals[l].shortened # c)
    BY <2>1 DEF UrlsInv, UrlsFree
  <2>3. w.code # c
    BY <1>7, <2>1 DEF UrlsInv, UrlsAlone, w
  <2>4. /\ w.was # None /\ w.was.cachedas = c => urls.vals[j] # None /\ urls.vals[j].cachedas = c
        /\ w.was # None /\ w.was.shortened = c => urls.vals[j] # None /\ urls.vals[j].shortened = c
    <3>1. w.was # None => w.was.id = j /\ urls.vals[j] # None
      BY <1>1, <1>2, <1>4 DEF j, old
    <3>2. w.was # None => /\ w.was.cachedas = c => urls.vals[w.was.id].cachedas = c
                          /\ w.was.shortened = c => urls.vals[w.was.id].shortened = c
      BY <2>1 DEF UrlsInv, UrlsHeld, w
    <3> QED BY <3>1, <3>2
  <2> HIDE DEF c, p
  <2>5. u.cachedas # c /\ (p # "free?" => u.shortened # c)
    BY <1>1, <1>2, <1>4, <1>7, <2>1, <2>2, <2>3, <2>4
  <2>6. urls'.vals[i].cachedas # c /\ (p # "free?" => urls'.vals[i].shortened # c)
    BY <1>5, <2>2, <2>5
  <2> QED BY <2>1, <2>6 DEF c, p
<1>24. UrlsCopied'
  <2>1. UrlsCopied
    BY DEF UrlsInv
  <2> QED BY <1>3, <1>6, <1>14, <1>15, <2>1 DEF UrlsCopied
<1>25. UrlsLed'
  <2> SUFFICES ASSUME NEW a \in announced', a[2] \in Code \ risky'
               PROVE  LET i == urls'.idxs[IF a[1] = "s" THEN Shortened(a[2]) ELSE Cached(a[2])] IN
                      /\ i # None /\ urls'.vals[i].url = a[3]
                      /\ a[1] = "c" => file[a[2]] = a[3]
    BY <1>3 DEF UrlsLed
  <2>1. CASE a = <<kind, w.code, u.url>>
    <3>1. a[1] = kind /\ a[2] = w.code /\ a[3] = u.url /\ w.code \in Code \ risky
      BY <1>6, <2>1
    <3>2. j # None
      BY <1>4, UrlConstants
    <3>3. CASE w.is = "cache"
      <4>1. file[w.code] = u.url
        BY <1>1, <1>2, <3>1, <3>3 DEF UrlsInv, UrlsCopied, w
      <4>2. a[1] # "s" /\ urls'.idxs[Cached(w.code)] = j
        BY <1>2, <1>11, <3>1, <3>3
      <4> QED BY <1>4, <1>5, <3>1, <3>2, <4>1, <4>2
    <3>4. CASE w.is # "cache"
      <4>1. a[1] = "s" /\ urls'.idxs[Shortened(w.code)] = j
        BY <1>2, <1>11, <3>1, <3>4
      <4> QED BY <1>4, <1>5, <3>1, <3>2, <4>1
    <3> QED BY <3>3, <3>4
  <2>2. CASE a \in announced
    <3> DEFINE c == a[2]
               k == IF a[1] = "s" THEN Shortened(c) ELSE Cached(c)
               i == urls.idxs[k]
    <3>1. i # None /\ urls.vals[i].url = a[3] /\ (a[1] = "c" => file[c] = a[3]) /\ c \in Code \ risky'
      BY <1>6, <2>2 DEF UrlsInv, UrlsLed
    <3>2. k \in UrlKeys
      BY <3>1 DEF UrlKeys, Cached, Shortened
    <3>3. i \in Id /\ urls.vals[i] # None /\ k \in Ur!KeysOf(urls.vals[i]) /\ urls.vals[i] \in UrlRec
      BY <3>1, <3>2, UrlFound DEF UrlsInv, UrlsType, UrlsPointed, Ur!Store
    <3>4. IF a[1] = "s" THEN urls.vals[i].shortened = c ELSE urls.vals[i].cachedas = c
      BY <3>1, <3>3, UrlRecIs
    <3> HIDE DEF i, c
    <3>5. CASE i # j
      <4>1. urls'.idxs[k] = i /\ urls'.vals[i] = urls.vals[i]
        BY <1>5, <1>10, <3>1, <3>3, <3>4, <3>5
      <4> QED BY <3>1, <4>1 DEF c
    <3>6. CASE i = j
      <4>1. old # None /\ urls.vals[i] = old
        BY <3>3, <3>6 DEF old
      <4>2. /\ IF a[1] = "s" THEN u.shortened = c ELSE u.cachedas = c
            /\ u.url = old.url
        BY <1>8, <3>1, <3>4, <4>1
      <4>3. urls'.idxs[k] = j
        BY <1>11, <3>1, <4>2
      <4>4. urls'.vals[j].url = a[3]
        BY <1>4, <1>5, <3>1, <4>1, <4>2
      <4> QED BY <1>4, <3>1, <4>3, <4>4, UrlConstants DEF c
    <3> QED BY <3>5, <3>6
  <2> QED BY <1>3, <2>1, <2>2
<1> QED BY <1>16, <1>17, <1>18, <1>19, <1>20, <1>21, <1>22, <1>23, <1>24, <1>25 DEF UrlsInv

\* A shortened URL that was announced leads where it should, and the file of a cached one has
\* its content, but for the codes of handlers that crossed (http.go:11-13,
\* urldriver.go:100-104).
THEOREM CodesAlwaysLead == UrlsSpec => []CodesLead
<1>1. UrlsInv /\ [UrlsNext]_urlsVars => UrlsInv'
  <2> SUFFICES ASSUME UrlsInv, [UrlsNext]_urlsVars PROVE UrlsInv'
    OBVIOUS
  <2>1. CASE UNCHANGED urlsVars
    <3>1. risky \subseteq risky' /\ risky' \subseteq Code /\ work' \in [Handler -> Worker]
          /\ \A h \in Handler : WorkerOK(work'[h])
      BY <2>1 DEF urlsVars, UrlsInv, UrlsType
    <3> QED BY <2>1, <3>1, Afresh DEF urlsVars
  <2>2. CASE UrlsNext
    BY <2>2, StepSayUrls, StepFindUrl, StepGetUrl, StepTryCode, StepIsFree, StepAskUrl,
       StepCopyUrl, StepPutUrl DEF UrlsNext
  <2> QED BY <2>1, <2>2
<1>2. UrlsInv => CodesLead
  <2> SUFFICES ASSUME UrlsInv, NEW a \in announced, a[2] \notin risky \cup {None}
               PROVE  IF a[1] = "s" THEN GetShortened(a[2]) # None /\ GetShortened(a[2]).url = a[3]
                      ELSE /\ GetCached(a[2]) # None /\ GetCached(a[2]).url = a[3]
                           /\ file[a[2]] = a[3]
    BY DEF CodesLead
  <2> DEFINE k == IF a[1] = "s" THEN Shortened(a[2]) ELSE Cached(a[2])
             i == urls.idxs[k]
  <2>1. a[2] \in Code \ risky /\ a[1] \in {"s", "c"}
    BY DEF UrlsInv, UrlsType
  <2>2. i # None /\ urls.vals[i].url = a[3] /\ (a[1] = "c" => file[a[2]] = a[3])
    BY <2>1 DEF UrlsInv, UrlsLed
  <2>3. k \in UrlKeys
    BY <2>1 DEF UrlKeys, Cached, Shortened
  <2>4. urls.vals[i] # None
    BY <2>2, <2>3 DEF UrlsInv, UrlsPointed
  <2>5. Ur!Lookup(urls, k) = urls.vals[i]
    BY <2>2, <2>3, UrlLookupIs
  <2> QED BY <2>1, <2>2, <2>4, <2>5 DEF GetShortened, GetCached, Shortened, Cached
<1> QED BY <1>1, <1>2, UrlsStart, PTL DEF UrlsSpec
=============================================================================
