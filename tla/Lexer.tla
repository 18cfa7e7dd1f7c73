------------------------------- MODULE Lexer -------------------------------
(* util.Lexer: it moves through a text, a sequence of symbols. Here each of   *)
(* its steps gives the position where it stops.                               *)
EXTENDS Naturals, Sequences, FiniteSetsExt, SequencesExt

\* Peek, which is "EOF" at the end.
At(s, i) == IF i \in DOMAIN s THEN s[i] ELSE "EOF"

\* Scan: the end of the run of symbols of the set that begins at i.
Scan(s, i, set) == Min({j \in i .. Len(s) + 1 : At(s, j) \notin set})

\* Not, and Find with a set of one: where the first symbol of the set is, from i on, or the end.
Not(s, i, set) == Min({j \in i .. Len(s) + 1 : At(s, j) \in set \cup {"EOF"}})

\* strings.TrimSpace
Trimmed(s) == LET first == Scan(s, 1, {" "})
                  last == Scan(Reverse(s), 1, {" "}) IN SubSeq(s, first, Len(s) + 1 - last)
=============================================================================
