------------------------------ MODULE Counters ------------------------------
(***************************************************************************)
(* Karma and statistics: every line said is counted for its nick in its    *)
(* channel (collections/stats, drivers/statsdriver) and every "thing++" or *)
(* "thing--" in it is a vote (collections/karma, drivers/karmadriver). The *)
(* two handlers of a line run beside each other; each reads a record, adds *)
(* to it and puts it. Karma is keyed by the thing, a count by nick and     *)
(* channel, whatever the network: the counts of two connections can meet.  *)
(***************************************************************************)
EXTENDS Handlers, Integers

CONSTANTS
    Thing,      \* what is voted on, in lower case
    Said        \* bound: the lines <<nick, channel or None, votes>>, a vote a <<thing, 1 or -1>>

VARIABLES
    karma,      \* the keyed collection: what is stored for each thing
    stats,      \* the indexed collection of NickStats
    voting,     \* recordKarma on each connection
    saying,     \* recordStats on each connection
    lines,      \* bound: the lines said so far
    heard,      \* history: the votes for and against each thing that were put
    told,       \* history: the lines of each nick in each channel that were put
    met         \* history: what two handlers had read and put across each other

countersVars == <<karma, stats, voting, saying, lines, heard, told, met>>

Stat == [id : Id, nick : Nick, chan : Channel \cup {"me"}, lines : 1 .. MaxEvents]

ByNick(n, c) == <<"chan", c, n>>
ByLines(c, l) == <<"lines", c, l>>
StatKeys == {ByNick(n, c) : n \in Nick, c \in Channel \cup Nick \cup {"me"}}
            \cup {ByLines(c, l) : c \in Channel \cup {"me"}, l \in 1 .. MaxEvents}

\* A mutant: the number of lines is not part of the key.
StatIndexesOne(s) == <<ByNick(s.nick, s.chan), ByLines(s.chan, 1)>>
StatIndexes(s) == <<ByNick(s.nick, s.chan), ByLines(s.chan, s.lines)>>

St == INSTANCE IndexedStore WITH
    ObjectId <- Id, Nil <- None,
    Key <- StatKeys, Bucket <- {<<k[1], k[2]>> : k \in StatKeys}, Value <- Stat,
    Client <- Conn, IdOf <- [s \in Stat |-> s.id], Indexes <- [s \in Stat |-> StatIndexes(s)],
    Path <- [k \in StatKeys |-> {<<k[1], k[2]>>}], Rejected <- {},
    ValidateValues <- KeepAll,
    store <- stats, batch <- None, scan <- None, copy <- [c \in Conn |-> None],
    made <- {}, stale <- {}

\* Names differ from each other's, the records from none, and a line makes one id at most.
ASSUME CountersAssumption ==
    /\ \A l \in Said : /\ l[1] \in Nick /\ l[2] \in Channel \cup {None}
                       /\ l[3] \in Seq(Thing \X {-1, 1})
    /\ "me" \notin Channel \cup Nick /\ Thing \cap (Nick \X Channel) = {}
    /\ None \notin Thing \cup Stat /\ None \notin [score : Int, votes : Nat]
    /\ MaxEvents <= MaxId

NoVote == [pc |-> "idle", left |-> <<>>, k |-> None, seen |-> None]
NoSay == [pc |-> "idle", nick |-> None, chan |-> None, s |-> None, seen |-> None]

CountersInit ==
    /\ karma = [t \in Thing |-> None]
    /\ stats = St!EmptyStore
    /\ voting = [c \in Conn |-> NoVote]
    /\ saying = [c \in Conn |-> NoSay]
    /\ lines = 0
    /\ heard = [v \in Thing \X {-1, 1} |-> 0]
    /\ told = [at \in Nick \X Channel |-> 0]
    /\ met = {}

\* A line in a channel or, with the nick for a target, in private.
Line(c) ==
    \E l \in Said :
        /\ voting[c] = NoVote /\ saying[c] = NoSay
        /\ lines < MaxEvents /\ lines' = lines + 1
        /\ voting' = [voting EXCEPT ![c] =
                          IF l[3] = <<>> THEN NoVote ELSE [NoVote EXCEPT !.pc = "get", !.left = l[3]]]
        /\ saying' = [saying EXCEPT ![c] = [NoSay EXCEPT !.pc = "get", !.nick = l[1], !.chan = l[2]]]
        /\ UNCHANGED <<karma, stats, heard, told, met>>

\* KarmaFor.
GetKarma(c) ==
    /\ voting[c].pc = "get"
    /\ LET k == karma[voting[c].left[1][1]] IN
       voting' = [voting EXCEPT ![c] = [@ EXCEPT !.pc = "put", !.k = k, !.seen = k]]
    /\ UNCHANGED <<karma, stats, saying, lines, heard, told, met>>

\* A mutant: a vote against does not count as one.
VoteSigned(k, by) == [score |-> k.score + by, votes |-> IF by = 1 THEN k.votes + 1 ELSE k.votes]
\* NewKarma, Plus and Minus.
Vote(k, by) == [score |-> k.score + by, votes |-> k.votes + 1]

PutKarma(c) ==
    LET v == voting[c]
        t == v.left[1][1]
        k == IF v.k = None THEN [score |-> 0, votes |-> 0] ELSE v.k IN
    /\ v.pc = "put"
    /\ karma' = [karma EXCEPT ![t] = Vote(k, v.left[1][2])]
    /\ heard' = [heard EXCEPT ![v.left[1]] = @ + 1]
    /\ met' = IF karma[t] = v.seen THEN met ELSE met \cup {t}
    /\ voting' = [voting EXCEPT ![c] = IF Len(v.left) = 1 THEN NoVote
                      ELSE [NoVote EXCEPT !.pc = "get", !.left = Tail(v.left)]]
    /\ UNCHANGED <<stats, saying, lines, told>>

\* StatsFor(nick, target): the target of a private line is its nick.
GetStat(c) ==
    LET h == saying[c]
        s == St!Lookup(stats, ByNick(h.nick, IF h.chan = None THEN h.nick ELSE h.chan)) IN
    /\ h.pc = "get"
    /\ saying' = [saying EXCEPT ![c] = [h EXCEPT !.pc = "put", !.s = s, !.seen = s]]
    /\ UNCHANGED <<karma, stats, voting, lines, heard, told, met>>

\* NewStat with Storable's channel, which is the bot's own nick ("me") for a private
\* line: what is stored under it is never found again.
NewStat(h) == [id |-> 1 + Cardinality(St!Stored(stats)), nick |-> h.nick, lines |-> 0,
               chan |-> IF h.chan = None THEN "me" ELSE h.chan]

PutStat(c) ==
    LET h  == saying[c]
        ns == IF h.s = None THEN NewStat(h) ELSE h.s
        at == <<h.nick, h.chan>> IN
    /\ h.pc = "put"
    /\ stats' = St!PutTx(stats, [ns EXCEPT !.lines = @ + 1])
    /\ told' = IF h.chan = None THEN told ELSE [told EXCEPT ![at] = @ + 1]
    /\ met' = IF h.chan # None /\ St!Lookup(stats, ByNick(h.nick, h.chan)) # h.seen
              THEN met \cup {at} ELSE met
    /\ saying' = [saying EXCEPT ![c] = NoSay]
    /\ UNCHANGED <<karma, voting, lines, heard>>

CountersNext == \E c \in Conn : Line(c) \/ GetKarma(c) \/ PutKarma(c) \/ GetStat(c) \/ PutStat(c)
CountersSpec == CountersInit /\ [][CountersNext]_countersVars

-----------------------------------------------------------------------------
LinesOf(n, ch) == LET s == St!Lookup(stats, ByNick(n, ch)) IN IF s = None THEN 0 ELSE s.lines

\* A score is the sum of the votes and a count the lines said, but where two connections
\* put across each other what they had read (karmadriver/handlers.go:13-22,
\* statsdriver/handlers.go:9-21): then some are lost, and none is invented.
CountsKept ==
    /\ \A t \in Thing :
        LET ups   == heard[<<t, 1>>]
            downs == heard[<<t, -1>>]
            k     == IF karma[t] = None THEN [score |-> 0, votes |-> 0] ELSE karma[t]
        IN  IF t \in met THEN k.votes \in 1 .. ups + downs /\ k.score \in -downs .. ups
            ELSE k = [score |-> ups - downs, votes |-> ups + downs]
    /\ \A n \in Nick, ch \in Channel :
        LET said == told[<<n, ch>>]
        IN  IF <<n, ch>> \in met THEN LinesOf(n, ch) \in 1 .. said ELSE LinesOf(n, ch) = said

\* What TopTen lists begins with who has said most: a record is unlisted only while another
\* of its channel has as many lines (the comment on the lines index, stats.go:75-79), if no
\* line there was put across another. A put from a stale copy also unlists, for good, a
\* second record that had come to have as many lines as the one it overwrites.
LeaderListed ==
    \A s \in St!Stored(stats) :
        (\A n \in Nick : <<n, s.chan>> \notin met) =>
            \E l \in St!AllUnder(stats, <<"lines", s.chan>>) : l.lines >= s.lines
=============================================================================
