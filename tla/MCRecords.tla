----------------------------- MODULE MCRecords -----------------------------
(* The collections that handlers read and put, the store of a collection, and *)
(* the limit on lookups. They share no state, so each scene is a behaviour of *)
(* one of them.                                                               *)
EXTENDS Counters, Seen, Quotes, Urls, Markov, RateLimit, IndexedStore, TLC
CONSTANTS n1, n2, ann, bob, ch, xen, yak, any, one, p1, p2, wi, vo, un,
          kTop, kMove, kNest, kOther, bNest, v1, v2, v3, w1
VARIABLE scene

\* Two nicks in one channel, a line in private, and two lines with votes.
LinesSaid == {<<ann, ch, <<>>>>, <<bob, ch, <<>>>>, <<ann, None, <<>>>>,
              <<ann, ch, <<<<xen, -1>>, <<xen, 1>>>>>>, <<bob, None, <<<<xen, 1>>>>>>}
TextsMatching == (any :> {xen, yak}) @@ (one :> {xen})
\* xen is known, yak is long, and both have the same hash.
OneHash == [l \in Url |-> p1]
UrlLine(is, that, words) == [ch |-> ch, is |-> is, that |-> that, words |-> words]
UrlLines == {UrlLine("shorten", FALSE, <<xen, yak>>), UrlLine("find", FALSE, <<>>),
             UrlLine("shorten", TRUE, <<>>), UrlLine("cache", TRUE, <<>>),
             UrlLine("cache", FALSE, <<xen>>)}
WordsSaid == {<<vo, wi>>, <<vo, un, wi>>, <<wi, wi>>}

\* A collection of three forms of one value and a value of another id. The second form
\* has one more key, in a nested bucket; the third has another key.
Forms == v1 :> 1 @@ v2 :> 1 @@ v3 :> 1 @@ w1 :> 2
FormKeys == v1 :> <<kTop>> @@ v2 :> <<kNest, kTop>> @@ v3 :> <<kMove>> @@ w1 :> <<kOther>>
Paths == kTop :> {} @@ kMove :> {} @@ kNest :> {bNest} @@ kOther :> {}
\* The second form is not wanted while the other id is stored.
Superseded(S) == IF w1 \in S THEN S \cap {v2} ELSE {}

CountersDo == scene = "counters" /\ CountersNext
SeenDo == scene = "seen" /\ SeenNext
QuotesDo == scene = "quotes" /\ QuotesNext
UrlsDo == scene = "urls" /\ UrlsNext
MarkovDo == scene = "markov" /\ MarkovNext
RateDo == scene = "rate" /\ RateNext
CollectionDo == scene = "collection" /\ Next

RecordsInit ==
    /\ scene \in {"counters", "seen", "quotes", "urls", "markov", "rate", "collection"}
    /\ CountersInit /\ SeenInit /\ QuotesInit /\ UrlsInit /\ MarkovInit /\ RateInit /\ Init
RecordsNext ==
    /\ UNCHANGED scene
    /\ \/ CountersDo /\ UNCHANGED <<seenVars, quotesVars, urlsVars, markovVars, rateVars, vars>>
       \/ SeenDo /\ UNCHANGED <<countersVars, quotesVars, urlsVars, markovVars, rateVars, vars>>
       \/ QuotesDo /\ UNCHANGED <<countersVars, seenVars, urlsVars, markovVars, rateVars, vars>>
       \/ UrlsDo /\ UNCHANGED <<countersVars, seenVars, quotesVars, markovVars, rateVars, vars>>
       \/ MarkovDo /\ UNCHANGED <<countersVars, seenVars, quotesVars, urlsVars, rateVars, vars>>
       \/ RateDo /\ UNCHANGED <<countersVars, seenVars, quotesVars, urlsVars, markovVars, vars>>
       \/ /\ CollectionDo
          /\ UNCHANGED <<countersVars, seenVars, quotesVars, urlsVars, markovVars, rateVars>>
RecordsSpec ==
    RecordsInit /\ [][RecordsNext]_<<scene, countersVars, seenVars, quotesVars, urlsVars,
                                     markovVars, rateVars, vars>>

\* Connections, which are the clients too, are alike.
Alike == Permutations(Conn)
=============================================================================
