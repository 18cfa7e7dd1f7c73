-------------------------------- MODULE Calc --------------------------------
(***************************************************************************)
(* The calculator (util/calc, util.Lexer, calcdriver's calculate): a text  *)
(* becomes tokens, shunting-yard orders them, and a stack machine computes.*)
(* A text is a sequence of symbols: a digit or another character, or a     *)
(* whole run of letters. A number is the term that gives it, <<operator,   *)
(* arguments>> with <<"num", symbols>> and <<"result", calculation>> at    *)
(* the leaves, so that two answers are the same only for the same terms.   *)
(***************************************************************************)
EXTENDS Lexer

CONSTANTS
    User,         \* the nicks that calculate
    Expression(_),\* bound: of the calculations done, the terms written out next
    Follow(_),    \* bound: of a calculation, terms that use its result
    Garbage,      \* bound: texts that are no expression
    MaxCalc,      \* bound: calculations
    NoAnswer

ASSUME CalcAssumption == MaxCalc \in Nat

Digit == {"0", "1", "2"}
Const == {"e", "pi", "phi", "answer"}
\* Of each sort of function, those that show it.
Argc == [abs |-> 1, log |-> 1, log2 |-> 1, log10 |-> 1, atan |-> 1, atan2 |-> 2, max |-> 2]
Word == Const \cup {"result", "foo"} \cup {"abs", "log", "atan", "max"}
Sign == {"+", "-"}

Prec(op) == CASE op \in {"**", "^"} -> 3 [] op \in {"*", "/", "%"} -> 2 [] OTHER -> 1
LeftAssoc(op) == Prec(op) # 3

\* A mutant: every operator is left-associative.
precedenceLeft(op1, op2) == Prec(op1) <= Prec(op2)
precedence(op1, op2) == Prec(op1) < Prec(op2) \/ (LeftAssoc(op1) /\ Prec(op1) = Prec(op2))

Tok(kind, val) == [kind |-> kind, val |-> val]
Zero == <<"num", <<"0">>>>

\* Number: where the number that begins at i ends, and what it is: 0 if it does not parse.
Number(s, i) ==
    LET m == IF At(s, i) = "-" THEN i + 1 ELSE i
        d == Scan(s, m, Digit)
        f == IF At(s, d) = "." THEN Scan(s, d + 1, Digit) ELSE d
        x == IF At(s, f + 1) \in Sign THEN f + 2 ELSE f + 1
        exp == At(s, f) = "e"
        end == IF exp THEN Scan(s, x, Digit) ELSE f
        parses == (\E j \in m .. f - 1 : s[j] \in Digit) /\ (exp => end > x) IN
    [next |-> end, tok |-> Tok("NUM", IF parses THEN <<"num", SubSeq(s, i, end - 1)>> ELSE Zero)]

\* token: the one at i, where no space is, and where it ends. A minus begins a number unless
\* a value is before it.
Token(s, i, binaryMinus, toks) ==
    LET r == s[i]
        one(kind) == [next |-> i + 1, tok |-> Tok(kind, r)]
        two == At(s, i + 1) = "2"
        ten == At(s, i + 1) = "1" /\ At(s, i + 2) = "0" IN
    CASE r \in {"+", "/", "%", "^"} -> one("OP")
      [] r = "(" -> one("LPAR")
      [] r = ")" -> one("RPAR")
      [] r = "," -> one("COMMA")
      [] r = "-" /\ binaryMinus -> one("OP")
      [] r = "-" /\ ~binaryMinus /\ At(s, i + 1) \in Word ->
            [next |-> i + 2, tok |-> IF At(s, i + 1) \in DOMAIN toks
                THEN Tok("NUM", <<"neg", <<toks[s[i + 1]]>>>>) ELSE Tok("NFI", r)]
      [] r = "*" /\ At(s, i + 1) = "*" -> [next |-> i + 2, tok |-> Tok("OP", "**")]
      [] r = "*" /\ At(s, i + 1) # "*" -> one("OP")
      [] r \in DOMAIN Argc ->
            [next |-> IF two THEN i + 2 ELSE IF ten THEN i + 3 ELSE i + 1,
             tok |-> Tok("FUNC", IF two THEN <<r, "2">> ELSE IF ten THEN <<r, "10">> ELSE <<r, "">>)]
      [] r \in DOMAIN toks -> [next |-> i + 1, tok |-> Tok("NUM", toks[r])]
      [] r \in Digit \/ (r = "-" /\ ~binaryMinus) -> Number(s, i)
      [] OTHER -> one("NFI")

\* tokens
Tokens(s, toks) ==
    LET from[i \in 1 .. Len(s) + 1, bm \in BOOLEAN] ==
            IF i > Len(s) THEN <<>>
            ELSE IF s[i] = " " THEN from[i + 1, bm]
            ELSE LET t == Token(s, i, bm, toks) IN
                 <<t.tok>> \o from[t.next, t.tok.kind \notin {"OP", "LPAR", "COMMA"}]
    IN from[1, FALSE]

Func(f) == CASE f = <<"log", "2">> -> "log2" [] f = <<"log", "10">> -> "log10"
             [] f = <<"atan", "2">> -> "atan2" [] f[2] = "" -> f[1] [] OTHER -> "unknown"

\* The last token on a stack for which P holds, or 0: what a loop of pops leaves.
LastOf(stack, P(_)) == Max({0} \cup {i \in DOMAIN stack : P(stack[i])})
Top(stack, n) == Reverse(SubSeq(stack, n + 1, Len(stack)))

ShuntStep(st, tok) ==
    LET lpar == LastOf(st.stack, LAMBDA t : t.kind = "LPAR")
        kept == LastOf(st.stack, LAMBDA t : t.kind # "OP" \/ ~precedence(tok.val, t.val))
        argcs == Len(st.argcs)
        fails == [st EXCEPT !.err = TRUE] IN
    CASE st.err \/ tok.kind = "NFI" -> fails
      [] tok.kind = "NUM" -> [st EXCEPT !.out = Append(@, tok)]
      [] tok.kind = "OP" -> [st EXCEPT !.out = @ \o Top(st.stack, kept),
                                       !.stack = Append(SubSeq(@, 1, kept), tok)]
      [] tok.kind = "FUNC" -> [st EXCEPT !.stack = Append(@, tok),
                                         !.argcs = Append(@, [func |-> Func(tok.val), n |-> 0])]
      [] tok.kind = "LPAR" -> [st EXCEPT !.stack = Append(@, tok)]
      [] tok.kind \in {"RPAR", "COMMA"} /\ lpar = 0 -> fails
      [] tok.kind = "RPAR" /\ lpar > 1 /\ st.stack[lpar - 1].kind = "FUNC" ->
            [st EXCEPT !.out = Append(@ \o Top(st.stack, lpar), st.stack[lpar - 1]),
                       !.stack = SubSeq(@, 1, lpar - 2),
                       !.argcs = SubSeq(@, 1, argcs - 1),
                       !.err = argcs > 0 /\ (Last(st.argcs).func \notin DOMAIN Argc
                                             \/ Argc[Last(st.argcs).func] # Last(st.argcs).n + 1)]
      [] tok.kind = "RPAR" -> [st EXCEPT !.out = @ \o Top(st.stack, lpar),
                                         !.stack = SubSeq(@, 1, lpar - 1)]
      [] tok.kind = "COMMA" -> [st EXCEPT !.out = @ \o Top(st.stack, lpar),
                                          !.stack = SubSeq(@, 1, lpar),
                                          !.argcs = IF argcs = 0 THEN @ ELSE [@ EXCEPT ![argcs].n = @ + 1]]

\* shunt: tokens in reverse Polish order, or an error.
Shunt(input) ==
    LET st == FoldLeft(ShuntStep, [stack |-> <<>>, argcs |-> <<>>, out |-> <<>>, err |-> FALSE], input) IN
    [err |-> st.err \/ \E i \in DOMAIN st.stack : st.stack[i].kind = "LPAR",
     out |-> st.out \o Top(st.stack, 0)]

\* getNums and the operator or function, of the last n numbers on the stack. (A function
\* that is not known, "abs2", panics, which the handler's caller recovers from.)
Apply(op, n, stack) == LET l == Len(stack) - n IN
    Append(SubSeq(stack, 1, l), <<op, SubSeq(stack, l + 1, Len(stack))>>)

CalcStep(stack, tok) ==
    LET op == IF tok.kind = "FUNC" THEN Func(tok.val) ELSE tok.val
        n == IF tok.kind = "OP" THEN 2 ELSE Argc[op] IN
    IF stack = <<NoAnswer>> THEN stack
    ELSE IF tok.kind = "NUM" THEN Append(stack, tok.val)
    ELSE IF op = "unknown" \/ Len(stack) < n THEN <<NoAnswer>>
    ELSE Apply(op, n, stack)

Calculated(s, toks) ==
    LET rpn == Shunt(Tokens(s, toks))
        stack == FoldLeft(CalcStep, <<>>, rpn.out) IN
    IF rpn.err \/ Len(stack) # 1 THEN NoAnswer ELSE stack[1]

VARIABLES
    results,    \* by nick, the calculation that gave its last result, or 0
    calcs,      \* bound: the calculations done
    said,       \* history: the term that was written out for the last, or NoAnswer
    answer      \* the reply to the last: a number or NoAnswer

calcVars == <<results, calcs, said, answer>>

CalcInit ==
    /\ results = [n \in User |-> 0]
    /\ calcs = 0 /\ said = NoAnswer /\ answer = NoAnswer

\* calculate, with the constants, and the nick's last result if there is one.
Calculate(nick, s) ==
    LET k == results[nick]
        toks == [c \in Const \cup (IF k = 0 THEN {} ELSE {"result"}) |->
                    IF c = "result" THEN <<"result", k>> ELSE <<"num", <<c>>>>] IN
    /\ calcs < MaxCalc /\ calcs' = calcs + 1
    /\ answer' = Calculated(s, toks)
    /\ results' = [results EXCEPT ![nick] = IF answer' = NoAnswer THEN @ ELSE calcs']

-----------------------------------------------------------------------------
\* How one writes a term, with no more parentheses than the usual precedences need.
Level(t) == IF t[1] \in {"+", "-", "*", "/", "%", "^", "**"} THEN Prec(t[1]) ELSE 4
RECURSIVE Written(_)
Written(t) ==
    LET inner(u, need) == IF need THEN <<"(">> \o Written(u) \o <<")">> ELSE Written(u) IN
    CASE t[1] = "num" -> t[2]
      [] t[1] = "result" -> <<"result">>
      [] t[1] = "neg" -> <<"-">> \o Written(t[2][1])
      [] Level(t) < 4 -> inner(t[2][1], Level(t[2][1]) < Level(t) \/ (Level(t) = 3 /\ Level(t[2][1]) = 3))
                         \o (IF t[1] = "**" THEN <<"*", "*">> ELSE <<t[1]>>)
                         \o inner(t[2][2], Level(t[2][2]) < Level(t) \/ (Level(t) # 3 /\ Level(t[2][2]) = Level(t)))
      [] OTHER -> (IF t[1] = "atan2" THEN <<"atan", "2">> ELSE <<t[1]>>)
                  \o FoldLeft(LAMBDA a, u : a \o (IF a = <<"(">> THEN <<>> ELSE <<",">>) \o Written(u), <<"(">>, t[2])
                  \o <<")">>

CalcNext == \E nick \in User :
    \/ \E t \in Expression(calcs) \cup (IF results[nick] = 0 THEN {} ELSE Follow(results[nick])) :
            Calculate(nick, Written(t)) /\ said' = t
    \/ \E s \in Garbage : Calculate(nick, s) /\ said' = NoAnswer

\* Every well-formed expression is computed as its precedences, associativity, parentheses
\* and arguments read it (calc.go:42-44), with "result" the nick's last answer: however
\* functions, operators and negative numbers nest. (Not all else is an error.)
CalcAgrees == said # NoAnswer => answer = said
=============================================================================
