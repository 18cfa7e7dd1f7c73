------------------------------ MODULE MCShared ------------------------------
(* What all drivers use: the keyed collections with the configuration in one, *)
(* the backups of their file, the dispatch of lines to handlers, and the      *)
(* functions of texts and dates. A scene is a behaviour of one of them: of    *)
(* shared state they have but the file and the ignored nicks, a scene's own.  *)
EXTENDS Conf, Backup, Calc, Dispatch, Text, Dates, TLC
CONSTANTS u, v, a, b, n1, n2
VARIABLE scene

S(name, value) == [type |-> "S", name |-> name, value |-> value]
ns == <<110, 115>>
key == <<107, 101, 121>>
x == <<120>>
y == <<121>>
z == <<122>>
\* Two keys are not both valid: they would have the same bytes.
KeysUsed ==
    { <<>>, <<S(ns, z)>>, EntryKey(z, x), <<S(ns, y), S(key, z)>>,
      <<S(key, <<USEP, 120>>)>>, <<S(key \o <<USEP>>, x)>>,
      <<S(ns, z), [type |-> "I", name |-> x, value |-> 258], [type |-> "T", name |-> y, value |-> TRUE]>>,
      <<S(ns, z), [type |-> "TS", name |-> y, value |-> 258000000],
        [type |-> "ID", name |-> <<95, 105, 100>>, value |-> x]>> }
Namespaces == {x, y}
Names == {x}
AllKeys == KeysUsed \cup {EntryKey(n, x) : n \in Namespaces}
ASSUME KeysDiffer
OneSetting == {<<"string", u>>}
Settings == {<<"string", u>>, <<"int", 1>>, <<"int", 4>>, <<"float", v>>}

Num(s) == <<"num", s>>
Leaves == {Num(<<"1">>), Num(<<"-", "1", ".", "2", "e", "-", "2">>), <<"neg", <<Num(<<"pi">>)>>>>}
Over(L, R) ==
    {<<op, <<l, r>>>> : op \in {"-", "/", "**"}, l \in L, r \in R}
    \cup {<<"atan2", <<l, r>>>> : l \in L, r \in R} \cup {<<"abs", <<l>>>> : l \in L}
Shallow == Leaves \cup Over(Leaves, Leaves)
Expressions(k) == IF k = 0 THEN Shallow \cup Over(Shallow, Shallow) ELSE {Num(<<"1">>)}
Follows(k) == {<<"result", k>>, <<"neg", <<<<"result", k>>>>>>} \cup
              Over({<<"result", k>>}, {<<"result", k>>})
Garbages == { <<>>, <<"foo">>, <<"1", "+">>, <<"(", "1">>, <<"1", ")">>, <<"1", ",", "1">>,
              <<"abs", "(", "1", ",", "1", ")">>, <<"abs", "2">>, <<"-", "(", "1", ")">>, <<"&">>,
              <<"log", "1", "0", "1">>, <<"-", " ", "1">>, <<"1", "e">>, <<"1", "(", "2", "+", ")">>,
              <<"log", "2", "(", "1", ")">>, <<"*", "+">>, <<"result">>, <<"-", "foo">> }

Commands == << <<<<"help">>, "help">>, <<<<"ignore">>, "ignore">>, <<<<"unignore">>, "unignore">>,
               <<<<"quote">>, "lookup">>, <<<<"quote", " ", "del">>, "del">>, <<<<"quote">>, "again">>, <<<<>>, "empty">> >>
Heard(nick, private, words) == [nick |-> nick, private |-> private, text |-> words]
LinesHeard ==
    { Heard("op", TRUE, <<"ignore", " ", "Troll">>), Heard("op", FALSE, <<"bot", ":", "unignore", " ", " ", "troll">>),
      Heard("Troll", TRUE, <<"Quote", " ", "del", " ", " ", "s">>), Heard("troll", FALSE, <<"Bot", ",", " ", "quote", "s">>),
      Heard("op", FALSE, <<"bot", ":", " ", "quote", " ", "del", ":is", "s">>), Heard("op", FALSE, <<"quote">>),
      Heard("op", TRUE, <<"help", " ", "del">>),
      Heard("op", FALSE, <<"bot", ":=", "quote">>), Heard("", TRUE, <<"help", "foo">>) }

SymbolsOf(t) ==
    CASE t = "colours" -> {"^C", "1", ",", "a"} [] t = "karma" -> {"a", "+", "-", " ", "(", ")"}
      [] t = "pointer" -> {"*", "{", "}", "a", " "} [] t = "decide" -> {"a", " ", "|", "\"", "'"}
      [] t = "plugin" -> {"<decide", ">", "a", " ", "'"}
LongestOf(t) == IF t = "colours" THEN 7 ELSE IF t = "karma" THEN 6 ELSE 5

Year2016 == DayOf(2016, 1, 1)
Ordinals(nths, weekdays, months, nums, years) ==
    [kind : {"nth"}, nth : nths, weekday : weekdays, month : months, num : nums, year : years]
Phrases ==
    [kind : {"clock"}, hour : {0, 5, 17, 29}]
    \cup [kind : {"half", "minutes"}, hour : {11, 12}, half : {0, 12}]
    \cup [kind : {"ansi"}, hour : {13}, year : {2004}]
    \cup [kind : {"date"}, day : {29, 31}, month : {2, 12}, year : {0, 16, 69}]
    \cup [kind : {"date"}, day : {32}, month : {12, 13}, year : {0}]
    \cup [kind : {"the"}, day : {1, 31}]
    \cup [kind : {"week"}, year : {2020}, week : {1, 53}, wday : {1, 7}] \cup [kind : {"week"}, year : {2016}, week : {1}, wday : {5}]
    \cup [kind : {"weekday"}, num : -1 .. 2, weekday : {0, 2, 6}]
    \cup [kind : {"month"}, num : -1 .. 1, month : {1, 2, 6, 12}]
    \cup Ordinals({1, 5}, {0, 3}, {0, 3}, {0}, {0, 2016}) \cup Ordinals({2}, {3}, {2, 11}, {-1, 1}, {0})
    \cup [kind : {"offset"}, unit : Units, num : {-1, 13}, ago : BOOLEAN]
\* From December 2015 to January 2017 days of every month, from its first to its last; two
\* phrases on three of them.
Dawn == [day |-> DayOf(2016, 1, 31), hour |-> 0]
TwoSaid == {Dawn, [day |-> DayOf(2016, 2, 29), hour |-> 13], [day |-> DayOf(2016, 11, 3), hour |-> 23]}
Moments == TwoSaid \cup {[day |-> n, hour |-> 13] :
    n \in {k \in Year2016 - 31 .. Year2016 + 396 : DateOf(k).day \in {1, 2, 11} \cup 28 .. 31}}
MostPhrases(t) == IF t \in TwoSaid THEN 2 ELSE 1

Scene == {"keyed", "conf", "backup", "calc", "dispatch", "text", "dates"}
Init ==
    /\ scene \in Scene
    /\ ConfInit /\ BackupInit /\ CalcInit /\ DispatchInit /\ TextInit /\ (scene # "text" => tool = "karma")
    /\ DatesInit /\ (scene # "dates" => today = Dawn)

KeyedDo == scene = "keyed" /\ KeyedNext(KeysUsed)
ConfDo == scene = "conf" /\ ConfNext
BackupDo == scene = "backup" /\ BackupNext
CalcDo == scene = "calc" /\ CalcNext
DispatchDo == scene = "dispatch" /\ DispatchNext
TextDo == scene = "text" /\ TextNext
DatesDo == scene = "dates" /\ DatesNext
Next ==
    /\ UNCHANGED scene
    /\ \/ KeyedDo /\ UNCHANGED <<mem, unsaved, backupVars, calcVars, dispatchVars, textVars, datesVars>>
       \/ ConfDo /\ UNCHANGED <<backupVars, calcVars, dispatchVars, textVars, datesVars>>
       \/ BackupDo /\ UNCHANGED <<confVars, calcVars, dispatchVars, textVars, datesVars>>
       \/ CalcDo /\ UNCHANGED <<confVars, backupVars, dispatchVars, textVars, datesVars>>
       \/ DispatchDo /\ UNCHANGED <<confVars, backupVars, calcVars, textVars, datesVars>>
       \/ TextDo /\ UNCHANGED <<confVars, backupVars, calcVars, dispatchVars, datesVars>>
       \/ DatesDo /\ UNCHANGED <<confVars, backupVars, calcVars, dispatchVars, textVars>>
Spec == Init /\ [][Next]_<<scene, confVars, backupVars, calcVars, dispatchVars, textVars, datesVars>>

\* Connections are alike, and nicks that calculate.
Alike == Permutations(Server) \cup Permutations(User)
=============================================================================
