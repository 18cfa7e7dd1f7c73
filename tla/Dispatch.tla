------------------------------ MODULE Dispatch ------------------------------
(***************************************************************************)
(* What the bot makes of a line (bot/commandset.go, filter.go, context.go, *)
(* commands.go): every handler of the line, in a goroutine of its own,     *)
(* asks the filter whether its nick is ignored; the command set runs the   *)
(* command whose prefix is the longest, factdriver's insert takes what     *)
(* adds a factoid. Connections handle their lines beside each other. A     *)
(* text is a sequence of symbols: words, spaces, marks.                    *)
(***************************************************************************)
EXTENDS Lexer

CONSTANTS
    Server,      \* the connections
    Registered,  \* the commands added, in order: pairs of a prefix and a name
    Me,          \* the bot's nick, a symbol
    LineHeard,   \* bound: lines: [nick, private, text]
    MaxHeard,    \* bound: lines heard
    Nobody

ASSUME DispatchAssumption ==
    /\ MaxHeard \in Nat /\ Nobody \notin LineHeard
    /\ LineHeard \subseteq [nick : STRING, private : BOOLEAN, text : Seq(STRING)]
    /\ Registered \in Seq(Seq(STRING) \X STRING)

Handler == {"commands", "insert", "lookup"}

\* The symbols that are written in upper case in LineHeard.
Lower(w) == CASE w = "Quote" -> "quote" [] w = "Troll" -> "troll" [] w = "Bot" -> "bot" [] OTHER -> w
LowerText(s) == [i \in DOMAIN s |-> Lower(s[i])]

\* strings.Fields, joined by single spaces.
Compressed(s) ==
    LET t == Trimmed(s) IN FoldLeft(LAMBDA r, i : IF t[i] = " " /\ t[i - 1] = " " THEN r ELSE Append(r, t[i]),
                                      <<>>, [i \in DOMAIN t |-> i])

HasPrefixedNick(s) == Len(s) > 1 /\ Lower(s[1]) = Lower(Me) /\ s[2] \in {":", ";", ",", ">", "-", ":=", ":is"}
\* The mark that a symbol leaves when its first character is cut off.
Cut(w) == CASE w = ":=" -> <<"=">> [] w = ":is" -> <<"is">> [] OTHER -> <<>>

IsFactoidAddition(s) == \E i \in DOMAIN s : s[i] \in {":=", ":is"}

\* newContext: the text of a line without the nick that addresses the bot.
NewContext(l) ==
    LET s == Trimmed(l.text)
        named == HasPrefixedNick(s) IN
    [addressed |-> named \/ l.private,
     text |-> IF named THEN Trimmed(Cut(s[2]) \o SubSeq(s, 3, Len(s))) ELSE s]

\* Add: an empty prefix and one that is there already are refused.
CommandSet == {Registered[i] : i \in {i \in DOMAIN Registered : /\ Registered[i][1] # <<>>
                                        /\ \A j \in 1 .. i - 1 : Registered[j][1] # Registered[i][1]}}
Matching(s) == {r \in CommandSet : IsPrefix(LowerText(r[1]), LowerText(s))}

\* match: what the loop through the map may end with.
Match(s) == {r \in Matching(s) : \A q \in Matching(s) : Len(q[1]) <= Len(r[1])}

\* possible: the commands with a word of the text in their prefix.
Possible(s) == {r \in CommandSet : \E i \in DOMAIN s : s[i] # " " /\ Contains(LowerText(r[1]), Lower(s[i]))}

\* What help replies.
Help(s) == IF Match(s) # {} THEN {r[2] : r \in Match(s)}
           ELSE IF s = <<>> THEN {"wiki"} ELSE IF Possible(s) # {} THEN {"possible"} ELSE {"unrecognised"}

VARIABLES
    ignored,    \* the nicks in the namespace "ignore"
    heard,      \* the line a connection handles, or Nobody
    progress,   \* of each of its handlers: "new", "passed", "reply" of a command, "done"
    ran,        \* history: by connection, what the handlers did: <<handler, what, arguments>>
    muted,      \* history: nicks that were told to be ignored, and not since to be heard
    quiet,      \* history: the connections whose line came from one, before it was heard again
    lines       \* bound: lines heard so far

dispatchVars == <<ignored, heard, progress, ran, muted, quiet, lines>>

DispatchInit ==
    /\ ignored = {} /\ muted = {} /\ quiet = {} /\ lines = 0
    /\ heard = [c \in Server |-> Nobody]
    /\ progress = [c \in Server |-> [h \in Handler |-> "done"]]
    /\ ran = [c \in Server |-> {}]

\* A connection goes on when all handlers of its last line are done.
Hear(c, l) ==
    /\ lines < MaxHeard /\ \A h \in Handler : progress[c][h] = "done"
    /\ lines' = lines + 1
    /\ heard' = [heard EXCEPT ![c] = l]
    /\ progress' = [progress EXCEPT ![c] = [h \in Handler |-> "new"]]
    /\ ran' = [ran EXCEPT ![c] = {}]
    /\ quiet' = IF Lower(l.nick) \in muted THEN quiet \cup {c} ELSE quiet \ {c}
    /\ UNCHANGED <<ignored, muted>>

Go(c, h, to) == progress' = [progress EXCEPT ![c][h] = to]

\* A mutant: the nick is looked for as it is written.
IsIgnoredExactly(nick) == nick \in ignored
IsIgnored(nick) == Lower(nick) \in ignored

\* ShouldProcess, of the filter that Connect adds: each handler asks for itself.
Filter(c, h) ==
    /\ progress[c][h] = "new"
    /\ Go(c, h, IF IsIgnored(heard[c].nick) THEN "done" ELSE "passed")
    /\ UNCHANGED <<ignored, heard, ran, muted, quiet, lines>>

\* commandSet.Handle: no command, or the one that matches; ignore and unignore go on.
RunCommand(c) ==
    LET ctx == NewContext(heard[c])
        args(r) == Compressed(SubSeq(ctx.text, Len(r[1]) + 1, Len(ctx.text))) IN
    /\ progress[c]["commands"] = "passed"
    /\ \/ /\ IsFactoidAddition(heard[c].text) \/ ~ctx.addressed \/ Match(ctx.text) = {}
          /\ Go(c, "commands", "done")
          /\ UNCHANGED <<ignored, ran, muted, quiet>>
       \/ /\ ~IsFactoidAddition(heard[c].text) /\ ctx.addressed
          /\ \E r \in Match(ctx.text) :
                LET nick == Lower(args(r)[1]) IN
                /\ \E what \in IF r[2] = "help" THEN Help(args(r)) ELSE {r[2]} :
                        ran' = [ran EXCEPT ![c] = @ \cup {<<"commands", r, what, args(r)>>}]
                /\ IF r[2] \notin {"ignore", "unignore"} \/ args(r) = <<>>
                   THEN Go(c, "commands", "done") /\ UNCHANGED <<ignored, muted, quiet>>
                   ELSE /\ Go(c, "commands", "reply")
                        /\ ignored' = IF r[2] = "ignore" THEN ignored \cup {nick} ELSE ignored \ {nick}
                        /\ muted' = IF r[2] = "ignore" THEN muted ELSE muted \ {nick}
                        /\ quiet' = IF r[2] = "ignore" THEN quiet
                                    ELSE {d \in quiet : Lower(heard[d].nick) # nick}
    /\ UNCHANGED <<heard, lines>>

\* The reply of ignore and unignore. (While somebody unignores the nick it promises nothing.)
ReplyTo(c) ==
    /\ progress[c]["commands"] = "reply"
    /\ muted' = muted \cup {Lower(x[4][1]) : x \in {y \in ran[c] : y[3] = "ignore" /\ Lower(y[4][1]) \in ignored}}
    /\ Go(c, "commands", "done")
    /\ UNCHANGED <<ignored, heard, ran, quiet, lines>>

\* factdriver's insert and lookup, whose work the module Factoids models.
RunHandler(c, h) ==
    LET ctx == NewContext(heard[c]) IN
    /\ h # "commands" /\ progress[c][h] = "passed"
    /\ ran' = IF h = "lookup" \/ (ctx.addressed /\ IsFactoidAddition(ctx.text))
              THEN [ran EXCEPT ![c] = @ \cup {<<h, <<>>, "", ctx.text>>}] ELSE ran
    /\ Go(c, h, "done")
    /\ UNCHANGED <<ignored, heard, muted, quiet, lines>>

DispatchNext == \E c \in Server :
    \/ \E l \in LineHeard : Hear(c, l)
    \/ \E h \in Handler : Filter(c, h) \/ RunHandler(c, h)
    \/ RunCommand(c) \/ ReplyTo(c)

DispatchSpec == DispatchInit /\ [][DispatchNext]_dispatchVars

-----------------------------------------------------------------------------
\* A line runs one command at most: the one with the longest prefix, whatever the map's order
\* (commandset.go:87-95), however it is written; and none when it adds a factoid, though the
\* two handlers look at different texts (commandset.go:125-128). Of a nick the bot said it
\* ignores nothing is handled, "completely" (bot.go:77), however the nick is written, until
\* it is unignored, also on another connection.
Dispatched == \A c \in Server :
    LET commands == {x \in ran[c] : x[1] = "commands"}
        text == NewContext(heard[c]).text IN
    /\ \A x, y \in ran[c] : x # y => x[1] # y[1] /\ {x[1], y[1]} # {"commands", "insert"}
    /\ \A x \in commands :
        /\ LowerText(SubSeq(text, 1, Len(x[2][1]))) = LowerText(x[2][1])
        /\ \A r \in Range(Registered) : Len(r[1]) > Len(x[2][1])
                => LowerText(SubSeq(text, 1, Min({Len(r[1]), Len(text)}))) # LowerText(r[1])
    /\ c \in quiet => ran[c] = {}
=============================================================================
