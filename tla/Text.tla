-------------------------------- MODULE Text --------------------------------
(***************************************************************************)
(* What the drivers make of texts: colours that are removed from keys      *)
(* (util.RemoveColours), the things a line votes for (karmadriver), the    *)
(* pointer in a factoid (util.FactPointer), the options one decides among  *)
(* (decisiondriver) and a plugin in a reply (util.ApplyPluginFunction). A  *)
(* text grows symbol by symbol, each tool reading those that matter to it. *)
(***************************************************************************)
EXTENDS Lexer

CONSTANTS
    Symbols(_),  \* bound: the symbols in the texts of a tool
    MaxText(_)   \* bound: the length of its texts

Tool == {"colours", "karma", "pointer", "decide", "plugin"}
Digits == {"0", "1"}
Letters == {"a", "b"} \cup Digits

\* What an index beyond the text, which Go panics at, gives.
Crash == <<"crash">>

-----------------------------------------------------------------------------
\* Where the colour that begins at i ends, and a comma in it was last seen at c; 0 past the end.
ColourEnd(s, i) ==
    LET loop[j \in i + 1 .. Len(s) + 1, c \in 0 .. Len(s)] ==
            IF c # 0 /\ j > c + 2 THEN j
            ELSE IF j > Len(s) THEN 0
            ELSE IF s[j] = "," THEN loop[j + 1, j]
            ELSE IF (c = 0 /\ j > i + 2) \/ s[j] \notin Digits THEN j
            ELSE loop[j + 1, c]
    IN loop[i + 1, 0]

Without(s, end(_)) ==
    LET from[i \in 1 .. Len(s) + 1] ==
            IF i > Len(s) THEN <<>> ELSE IF s[i] = "^C" THEN from[end(i)] ELSE <<s[i]>> \o from[i + 1]
    IN from[1]

RemoveColours(s) == IF \E i \in DOMAIN s : s[i] = "^C" /\ ColourEnd(s, i) = 0 THEN Crash
                    ELSE Without(s, LAMBDA i : ColourEnd(s, i))

\* In the reversed text, a space, the end or what was read before is before the sign at j.
KarmaBegins(r, i, j) == i = j \/ r[j - 1] = " "

PlusMinus == {"+", "-"}

\* karmaThings: what a line votes for, and how, from its end.
KarmaThings(s) ==
    LET r == Reverse(s)
        from[i \in 1 .. Len(s) + 1] ==
            LET j == Not(r, i, PlusMinus)
                k == Scan(r, j, PlusMinus)
                sign == SubSeq(r, j, k - 1)
                bracket == At(r, k) = ")"
                first == IF bracket THEN k + 1 ELSE k
                end == IF bracket THEN Not(r, first, {"("}) ELSE Scan(r, first, Letters)
                thing == Reverse(SubSeq(r, first, end - 1)) IN
            IF j > Len(r) THEN <<>>
            ELSE IF ~KarmaBegins(r, i, j) THEN from[j + 1]
            ELSE IF sign \notin {<<"+", "+">>, <<"-", "-">>} THEN from[k]
            ELSE IF bracket /\ end > Len(r) THEN <<>>
            ELSE (IF thing = <<>> THEN <<>> ELSE <<[thing |-> thing, sign |-> sign]>>) \o from[end]
    IN from[1]

NoPointer == [key |-> <<>>, start |-> 0, end |-> 0]

\* FactPointer: of the first star only; end is the position after it.
FactPointer(s) ==
    LET start == Not(s, 1, {"*"})
        close == Not(s, start, {"}"})
        end == Scan(s, start + 1, Letters) IN
    IF start >= Len(s) THEN NoPointer
    ELSE IF s[start + 1] = "{"
    THEN IF close > Len(s) THEN [NoPointer EXCEPT !.key = Crash]
         ELSE [key |-> Trimmed(SubSeq(s, start + 2, close - 1)), start |-> start, end |-> close + 1]
    ELSE IF At(s, end) = "*" THEN NoPointer
    ELSE [key |-> SubSeq(s, start + 1, end - 1), start |-> start, end |-> end]

Quotes == {"\"", "'"}
Unbalanced == <<"unbalanced">>

SplitAt(s, sep) ==
    LET from[i \in 1 .. Len(s) + 1] == LET j == Not(s, i, {sep}) IN
            <<SubSeq(s, i, j - 1)>> \o (IF j > Len(s) THEN <<>> ELSE from[j + 1])
    IN from[1]
\* A mutant: bars are not looked for.
SimpleSplitSpaces(s) == SplitAt(s, " ")
SimpleSplit(s) == IF Contains(s, "|") THEN SplitAt(s, "|") ELSE SplitAt(s, " ")

\* quoteSplit: of an error, the last is Unbalanced.
QuoteSplit(s) ==
    LET from[i0 \in 1 .. Len(s) + 1] ==
            LET i == Scan(s, i0, {" "})
                quoted == At(s, i) \in Quotes
                end == IF quoted THEN Not(s, i + 1, {s[i]}) ELSE Not(s, i, {" "}) IN
            IF i > Len(s) THEN <<>>
            ELSE IF quoted /\ end > Len(s) THEN <<Unbalanced>>
            ELSE IF quoted THEN <<SubSeq(s, i + 1, end - 1)>> \o from[end + 1]
            ELSE <<SubSeq(s, i, end - 1)>> \o from[end]
    IN from[1]

\* splitDelimitedString: quotes count if the first begins and its fellow ends a word.
Split(s) ==
    LET x == Not(s, 1, Quotes)
        y == Not(s, x + 1, {s[x]}) IN
    IF Trimmed(s) = <<>> THEN <<>>
    ELSE IF /\ x < Len(s) /\ (x = 1 \/ s[x - 1] = " ")
            /\ y <= Len(s) /\ s[x + 1] # " " /\ s[y - 1] # " " /\ At(s, y + 1) \in {"EOF", " "}
    THEN QuoteSplit(s) ELSE SimpleSplit(s)

\* decideCmd and decidePlugin: what may be chosen; of nothing and of an error, the error.
MayChoose(s) == IF Split(s) = <<>> \/ Last(Split(s)) = Unbalanced THEN {<<"error", ">">>}
              ELSE {Trimmed(o) : o \in Range(Split(s))}

\* ApplyPluginFunction with decidePlugin's: every text that may come out of one. "<decide" is
\* the beginning of the plugin, up to its arguments.
RECURSIVE Plugged(_)
Plugged(s) ==
    LET ps == Not(s, 1, {"<decide"})
        pe == Not(s, ps, {">"})
        mid == Scan(s, ps + 1, {" "}) IN
    IF pe > Len(s) THEN {s}
    ELSE UNION {Plugged(SubSeq(s, 1, ps - 1) \o c \o SubSeq(s, pe + 1, Len(s))) :
                c \in MayChoose(SubSeq(s, mid, pe - 1))}

-----------------------------------------------------------------------------
VARIABLES tool, text
textVars == <<tool, text>>

TextInit == tool \in Tool /\ text = <<>>
TextNext == Len(text) < MaxText(tool) /\ (\E c \in Symbols(tool) : text' = Append(text, c)) /\ UNCHANGED tool

\* The colours that RemoveColours' comment (utils.go:41-46) describes.
ColourByBNF(s, i) ==
    LET num(j) == Min({Scan(s, j, Digits), j + 2})
        fore == num(i + 1)
        back == IF fore > i + 1 /\ At(s, fore) = "," THEN num(fore + 1) ELSE fore IN
    IF back > fore + 1 THEN back ELSE fore

\* They are removed, unless one ends the text, which the code reads beyond, or a comma that is
\* not its own follows, which the code takes for its own.
ColoursGone ==
    (\A i \in DOMAIN text : text[i] = "^C" => At(text, ColourByBNF(text, i)) \notin {",", "EOF"})
        => RemoveColours(text) = Without(text, LAMBDA i : ColourByBNF(text, i))

\* A word that ++ or -- follows, and a space or the end (karmadriver.go:62), is voted for, if
\* no bracket to its right takes it; and what is voted for stands before its sign. (That a
\* space follows is not always required: "a++b++" is two votes.)
VotesMeant ==
    LET votes == Range(KarmaThings(text)) IN
    /\ \A k \in 2 .. Len(text) - 1, b \in 1 .. Len(text) :
        /\ text[k] \in PlusMinus /\ text[k + 1] = text[k] /\ At(text, k + 2) \in {"EOF", " "}
        /\ b < k /\ (\A i \in b .. k - 1 : text[i] \in Letters) /\ (b = 1 \/ text[b - 1] \notin Letters)
        /\ \A i \in k + 2 .. Len(text) : text[i] # ")"
        => [thing |-> SubSeq(text, b, k - 1), sign |-> <<text[k], text[k]>>] \in votes
    /\ \A v \in votes : \E i, j \in DOMAIN text :
        SubSeq(text, i, j) \in {v.thing \o v.sign, <<"(">> \o v.thing \o <<")">> \o v.sign}

\* A pointer is a star with letters, not an *emphasis*, or with brackets; an open bracket is
\* read beyond the end of the text.
PointerFound ==
    LET p == FactPointer(text) IN
    /\ p.key = Crash => \E i \in 1 .. Len(text) - 1 : /\ text[i] = "*" /\ text[i + 1] = "{"
                                                      /\ ~Contains(SubSeq(text, i, Len(text)), "}")
    /\ p.start # 0 => /\ \/ SubSeq(text, p.start, p.end - 1) = <<"*">> \o p.key
                         \/ text[p.start + 1] = "{" /\ text[p.end - 1] = "}"
                      /\ At(text, p.end) # "*" \/ text[p.end - 1] = "}"

\* Options keep all that is not a delimiter; what is quoted is one option, whatever is in it,
\* and so is what is between bars.
OptionsKept ==
    LET kept(s) == SelectSeq(s, LAMBDA c : c \in Letters)
        s == text IN
    /\ s # <<>> /\ s[1] # " " /\ Last(s) # " " /\ ~Contains(s, "\"") =>
        Split(<<"\"">> \o s \o <<"\"", " ", "a">>) = <<s, <<"a">>>>
    /\ (\A q \in Quotes \cup {"|"} : ~Contains(s, q)) /\ kept(s) # <<>> => Split(s \o <<"|">> \o s) = <<s, s>>
    /\ kept(s) # <<>> /\ Last(Split(s)) # Unbalanced => kept(FlattenSeq(Split(s))) = kept(s)

\* However plugins and their errors nest, all that end are replaced; what stands before the
\* first and after the last end is left as it is.
PluginsGone ==
    LET first == Not(text, 1, {"<decide"})
        end == Max({0} \cup {i \in DOMAIN text : text[i] = ">"}) IN
    \A t \in Plugged(text) :
        /\ Not(t, Not(t, 1, {"<decide"}), {">"}) > Len(t)
        /\ IsPrefix(SubSeq(text, 1, first - 1), t)
        /\ IsSuffix(SubSeq(text, end + 1, Len(text)), t)

\* Each tool does as its comments say (utils.go:40, 128 and 153, karmadriver.go:62,
\* decisiondriver.go:72), but for the texts that are excepted above, where the code does not.
TextAgrees ==
    CASE tool = "colours" -> ColoursGone
      [] tool = "karma" -> VotesMeant
      [] tool = "pointer" -> PointerFound
      [] tool = "decide" -> OptionsKept
      [] tool = "plugin" -> PluginsGone
=============================================================================
