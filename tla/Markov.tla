------------------------------- MODULE Markov -------------------------------
(***************************************************************************)
(* Markov chains (collections/markov, drivers/markovdriver, util/markov).  *)
(* What an enabled nick says in public is learnt one pair of words after   *)
(* the other, each in a transaction of its own, while others may generate  *)
(* a sentence, which reads the chain word by word, or the nick disables it *)
(* and has it deleted. Words that look like URLs are left out.             *)
(***************************************************************************)
EXTENDS Handlers

CONSTANTS
    Word,
    UrlWord,    \* those that look like URLs
    Sentences,  \* bound: what may be said, as sequences of words
    Length      \* the words a generated sentence may have (50 in the code)

Start == {"!ACTION_START", "!SENTENCE_START"}
End == "!SENTENCE_END"
Tag == Nick \cup {"tag"}    \* "user:" and a nick, or "tag:" and what is learnt on request
Link == Tag \X (Word \cup Start) \X (Word \cup {End})

\* Of what is said, a word is not a URL for being that of the end.
ASSUME MarkovAssumption ==
    /\ UrlWord \subseteq Word /\ Sentences \subseteq Seq(Word) /\ Length \in Nat \ {0}
    /\ End \notin UrlWord
    /\ None \notin Word /\ "tag" \notin Nick

VARIABLES
    uses,       \* the uses of each link; its buckets exist when it has some
    markov,     \* the nicks that are enabled, in the configuration
    chains,     \* the line each connection handles
    heardLines, \* bound: lines so far
    outlived    \* history: the nicks whose chain was deleted while a line was learnt for it

markovVars == <<uses, markov, chains, heardLines, outlived>>

Quiet == [pc |-> "idle", tag |-> None, source |-> None, left |-> <<>>, out |-> 0, cut |-> FALSE]

MarkovInit ==
    /\ uses = [l \in Link |-> 0]
    /\ markov = {}
    /\ chains = [c \in Conn |-> Quiet]
    /\ heardLines = 0
    /\ outlived = {}

\* Learning is from a nick that is enabled or "learn"; a line addressed to the bot is one
\* of its commands and never recorded.
HearLine(c) ==
    /\ chains[c] = Quiet
    /\ heardLines < MaxEvents /\ heardLines' = heardLines + 1
    /\ \/ \E n \in Nick : \/ /\ markov' = markov \cup {n}
                             /\ UNCHANGED chains
                          \/ /\ markov' = markov \ {n}
                             /\ chains' = [chains EXCEPT ![c] = [Quiet EXCEPT !.pc = "clear", !.tag = n]]
       \/ /\ \E t \in Tag, s \in Start, ws \in Sentences :
                /\ t = "tag" => s = "!SENTENCE_START"
                /\ t \in markov \cup {"tag"}
                /\ chains' = [chains EXCEPT ![c] =
                       [Quiet EXCEPT !.pc = "add", !.tag = t, !.source = s, !.left = ws]]
          /\ UNCHANGED markov
       \/ /\ \E n \in markov : chains' = [chains EXCEPT ![c] =
                       [Quiet EXCEPT !.pc = "walk", !.tag = n, !.source = "!SENTENCE_START"]]
          /\ UNCHANGED markov
    /\ UNCHANGED <<uses, outlived>>

\* incUses.
IncUses(t, s, d) ==
    uses' = IF {s, d} \cap UrlWord # {} THEN uses ELSE [uses EXCEPT ![<<t, s, d>>] = @ + 1]

\* A mutant: a sentence has no end.
LearnPairEndless(c) ==
    LET h == chains[c] IN
    /\ h.pc = "add"
    /\ IF h.left = <<>>
       THEN UNCHANGED uses /\ chains' = [chains EXCEPT ![c] = Quiet]
       ELSE /\ IncUses(h.tag, h.source, h.left[1])
            /\ chains' = [chains EXCEPT ![c] = [h EXCEPT !.source = h.left[1], !.left = Tail(h.left)]]
    /\ UNCHANGED <<markov, heardLines, outlived>>
\* One round of Add: the next pair of words, or the last and the end of the sentence.
LearnPair(c) ==
    LET h == chains[c] IN
    /\ h.pc = "add"
    /\ IF h.left = <<>>
       THEN IncUses(h.tag, h.source, End) /\ chains' = [chains EXCEPT ![c] = Quiet]
       ELSE /\ IncUses(h.tag, h.source, h.left[1])
            /\ chains' = [chains EXCEPT ![c] = [h EXCEPT !.source = h.left[1], !.left = Tail(h.left)]]
    /\ UNCHANGED <<markov, heardLines, outlived>>

\* ClearTag deletes the tag's bucket; without one it is an error and nothing changes.
ClearTag(c) ==
    LET t == chains[c].tag IN
    /\ chains[c].pc = "clear"
    /\ uses' = [l \in Link |-> IF l[1] = t THEN 0 ELSE uses[l]]
    /\ outlived' = IF \E d \in Conn : chains[d].pc = "add" /\ chains[d].tag = t
                   THEN outlived \cup {t} ELSE outlived \ {t}
    /\ chains' = [d \in Conn |-> IF d = c THEN Quiet
                                 ELSE IF chains[d].pc = "walk" /\ chains[d].tag = t
                                 THEN [chains[d] EXCEPT !.cut = TRUE] ELSE chains[d]]
    /\ UNCHANGED <<markov, heardLines>>

Children(t, s) == {d \in Word \cup {End} : uses[t, s, d] > 0}

\* One round of generate: a child at random; the end, when it is one and most of the
\* length is used. Without children or words left it is an error.
WalkOn(c) ==
    LET h == chains[c]
        next == IF h.out > (4 * Length) \div 5 /\ End \in Children(h.tag, h.source) THEN {End}
                ELSE Children(h.tag, h.source) IN
    /\ h.pc = "walk"
    /\ IF next = {} \/ h.out = Length THEN chains' = [chains EXCEPT ![c] = Quiet]
       ELSE \E d \in next : chains' = [chains EXCEPT ![c] =
                IF d = End THEN Quiet ELSE [h EXCEPT !.source = d, !.out = @ + 1]]
    /\ UNCHANGED <<uses, markov, heardLines, outlived>>

MarkovNext == \E c \in Conn : HearLine(c) \/ LearnPair(c) \/ ClearTag(c) \/ WalkOn(c)
MarkovSpec == MarkovInit /\ [][MarkovNext]_markovVars

-----------------------------------------------------------------------------
BesideUrl == {w \in Word : \E s \in Sentences : \E i \in 1 .. Len(s) - 1 : s[i] = w /\ s[i + 1] \in UrlWord}
Going(t, w) ==
    \/ Children(t, w) # {}
    \/ w \in BesideUrl
    \/ \E c \in Conn : chains[c].pc = "add" /\ chains[c].tag = t /\ chains[c].source = w

\* A sentence that is generated gets stuck in the middle only where a URL was left out
\* (markov.go:41-44), at the end of a line that is being learnt (markov.go:82-86), or when
\* the chain was deleted meanwhile. And who had it deleted has none, unless a line of theirs
\* was being learnt at that time (markovdriver/commands.go:18-19).
ChainsWalk ==
    /\ \A l \in Link : uses[l] > 0 /\ l[3] # End => Going(l[1], l[3])
    /\ \A c \in Conn : chains[c].pc = "walk" /\ ~chains[c].cut /\ chains[c].out > 0 =>
            Going(chains[c].tag, chains[c].source)
    /\ \A n \in Nick \ (markov \cup outlived) :
            \/ \E c \in Conn : chains[c].tag = n
            \/ \A s \in Word \cup Start : Children(n, s) = {}
=============================================================================
