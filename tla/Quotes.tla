------------------------------- MODULE Quotes -------------------------------
(***************************************************************************)
(* Quotes (collections/quotes, drivers/quotedriver). A quote gets the next *)
(* number of the collection's sequence in one transaction and is put in    *)
(* another; a lookup picks one of those that match at random, none twice   *)
(* until all have been picked, and puts it back with one more access.      *)
(***************************************************************************)
EXTENDS Handlers

CONSTANTS
    Text,
    Regex,
    Matches     \* the texts that each regular expression matches

VARIABLES
    quotes,     \* the collection
    qseq,       \* the sequence of its bucket
    picked,     \* qc.seen: for each regex the ids picked, or None
    quoting,    \* the command each connection handles
    asked,      \* bound: commands given so far
    forgot,     \* history: the ids of the quotes that were forgotten
    inHand      \* history: those a lookup was about to put back at that time

quotesVars == <<quotes, qseq, picked, quoting, asked, forgot, inHand>>

Quote == [id : Id, qid : 1 .. MaxEvents, text : Text, accessed : 0 .. MaxEvents]

\* A command makes one id at most.
ASSUME QuotesAssumption ==
    /\ Matches \in [Regex -> SUBSET Text]
    /\ MaxEvents <= MaxId
    /\ None \notin Quote

Qt == INSTANCE IndexedStore WITH
    ObjectId <- Id, Nil <- None,
    Key <- 1 .. MaxEvents, Bucket <- {}, Value <- Quote, Client <- Conn,
    IdOf <- [q \in Quote |-> q.id], Indexes <- [q \in Quote |-> <<q.qid>>],
    Path <- [k \in 1 .. MaxEvents |-> {}], Rejected <- {},
    ValidateValues <- KeepAll,
    store <- quotes, batch <- None, scan <- None, copy <- [c \in Conn |-> None],
    made <- {}, stale <- {}

NoQuote == [pc |-> "idle", id |-> 0, arg |-> None, qid |-> 0, q |-> None, all |-> {}]

QuotesInit ==
    /\ quotes = Qt!EmptyStore
    /\ qseq = 0
    /\ picked = [r \in Regex |-> None]
    /\ quoting = [c \in Conn |-> NoQuote]
    /\ asked = 0
    /\ forgot = {} /\ inHand = {}

\* qadd, qdel, and quote or, in any line, the plugin <plugin=quote regex>, whose pick is
\* not put back. "quote #" and the plugin with a number only read: GetByQID.
AskQuote(c) ==
    /\ quoting[c] = NoQuote
    /\ asked < MaxEvents /\ asked' = asked + 1
    /\ \/ \E t \in Text : quoting' = [quoting EXCEPT ![c] = 
                          [@ EXCEPT !.pc = "next", !.arg = t, !.id = asked + 1]]
       \/ \E n \in 1 .. MaxEvents :
            quoting' = [quoting EXCEPT ![c] = [@ EXCEPT !.pc = "find", !.qid = n]]
       \/ \E r \in Regex, pc \in {"match", "plugin"} :
            quoting' = [quoting EXCEPT ![c] = [@ EXCEPT !.pc = pc, !.arg = r]]
    /\ UNCHANGED <<quotes, qseq, picked, forgot, inHand>>

GetByQID(n) == Qt!Lookup(quotes, n)

\* A mutant: one more than there are quotes.
NewQIDCount(c) ==
    /\ quoting[c].pc = "next"
    /\ qseq' = Cardinality(Qt!Stored(quotes)) + 1
    /\ quoting' = [quoting EXCEPT ![c] = [@ EXCEPT !.pc = "add", !.qid = qseq']]
    /\ UNCHANGED <<quotes, picked, asked, forgot, inHand>>
\* The object id was made before.
NewQID(c) ==
    /\ quoting[c].pc = "next"
    /\ qseq' = qseq + 1
    /\ quoting' = [quoting EXCEPT ![c] = [@ EXCEPT !.pc = "add", !.qid = qseq + 1]]
    /\ UNCHANGED <<quotes, picked, asked, forgot, inHand>>

AddQuote(c) ==
    LET q == [id |-> quoting[c].id, qid |-> quoting[c].qid, text |-> quoting[c].arg,
              accessed |-> 0] IN
    /\ quoting[c].pc = "add"
    /\ quotes' = Qt!PutTx(quotes, q)
    /\ quoting' = [quoting EXCEPT ![c] = NoQuote]
    /\ UNCHANGED <<qseq, picked, asked, forgot, inHand>>

FindQuote(c) ==
    LET q == GetByQID(quoting[c].qid) IN
    /\ quoting[c].pc = "find"
    /\ quoting' = [quoting EXCEPT ![c] = IF q = None THEN NoQuote
                                         ELSE [@ EXCEPT !.pc = "del", !.q = q]]
    /\ UNCHANGED <<quotes, qseq, picked, asked, forgot, inHand>>

\* Whether a lookup may put that quote back.
Holds(h, i) == \/ h.pc = "match" /\ \E s \in h.all : s.id = i
               \/ h.pc = "put" /\ h.q.id = i

DelQuote(c) ==
    LET q == quoting[c].q IN
    /\ quoting[c].pc = "del"
    /\ quotes' = Qt!DelTx(quotes, q)
    /\ forgot' = forgot \cup {q.id}
    /\ inHand' = IF \E d \in Conn : Holds(quoting[d], q.id) THEN inHand \cup {q.id} ELSE inHand
    /\ quoting' = [quoting EXCEPT ![c] = NoQuote]
    /\ UNCHANGED <<qseq, picked, asked>>

\* GetPseudoRand reads what matches ...
MatchQuotes(c) ==
    /\ quoting[c].pc \in {"match", "plugin"} /\ quoting[c].all = {}
    /\ LET all == {q \in Qt!Stored(quotes) : q.text \in Matches[quoting[c].arg]} IN
       /\ quoting' = [quoting EXCEPT ![c] = IF all = {} THEN NoQuote ELSE [@ EXCEPT !.all = all]]
       /\ picked' = IF all = {} THEN [picked EXCEPT ![quoting[c].arg] = None] ELSE picked
    /\ UNCHANGED <<quotes, qseq, asked, forgot, inHand>>

\* ... leaves out what it picked before, forgetting that when one or none is left ...
PickQuote(c) ==
    LET h    == quoting[c]
        left == IF picked[h.arg] = None THEN h.all
                ELSE {q \in h.all : q.id \notin picked[h.arg]}
        before == IF picked[h.arg] = None THEN {} ELSE picked[h.arg] IN
    /\ h.all # {}
    /\ IF left = {}
       THEN /\ picked' = [picked EXCEPT ![h.arg] = None]
            /\ quoting' = [quoting EXCEPT ![c] = NoQuote]
       ELSE \E q \in left :
            /\ picked' = [picked EXCEPT ![h.arg] = IF left = {q} THEN None ELSE before \cup {q.id}]
            /\ quoting' = [quoting EXCEPT ![c] = IF h.pc = "plugin" THEN NoQuote
                               ELSE [NoQuote EXCEPT !.pc = "put", !.q = q]]
    /\ UNCHANGED <<quotes, qseq, asked, forgot, inHand>>

\* ... and lookup puts it back, even if it was deleted since.
CountAccess(c) ==
    /\ quoting[c].pc = "put"
    /\ quotes' = Qt!PutTx(quotes, [quoting[c].q EXCEPT !.accessed = @ + 1])
    /\ quoting' = [quoting EXCEPT ![c] = NoQuote]
    /\ UNCHANGED <<qseq, picked, asked, forgot, inHand>>

QuotesNext == \E c \in Conn :
    \/ AskQuote(c) \/ NewQID(c) \/ AddQuote(c) \/ FindQuote(c) \/ DelQuote(c)
    \/ MatchQuotes(c) \/ PickQuote(c) \/ CountAccess(c)
QuotesSpec == QuotesInit /\ [][QuotesNext]_quotesVars

-----------------------------------------------------------------------------
\* A number that was announced names one quote, and that quote is found by it
\* (quotedriver/commands.go:14-19), and a quote forgotten (commands.go:36-38) stays so,
\* unless a lookup had read it before and puts it back (commands.go:76).
DeletedStays ==
    /\ \A q \in Qt!Stored(quotes) : GetByQID(q.qid) = q
    /\ \A i \in forgot \ inHand : quotes.vals[i] = None
=============================================================================
