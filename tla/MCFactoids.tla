---------------------------- MODULE MCFactoids ----------------------------
(* Lines about a key, some of whose values point to "randomwoot" and back. *)
EXTENDS Factoids
CONSTANTS k, woot, other, any, c1, ch1, ch2
Say(t) == [is |-> "say", text |-> t, short |-> None]
Teach(key, val) == [is |-> "add", text |-> other, short |-> None, key |-> key, val |-> val]
Drop(t) == [is |-> "forget", text |-> t, short |-> None]
\* Nothing is filed under most lines; "forget that" is a key in one talk.
Pointers == [adds |-> 2, lines |->
    {Say(k), Teach(k, <<>>), Teach(k, <<woot>>), Teach(woot, <<k, woot>>), Drop(k),
     [is |-> "say", text |-> other, short |-> woot],
     [is |-> "chance", text |-> other, short |-> None, sure |-> FALSE],
     [is |-> "replace", text |-> other, short |-> None, val |-> <<woot>>]}]
Values == [adds |-> 3, lines |-> {Say(woot), Teach(woot, <<>>), Drop(other)}]
Random == [adds |-> 2, lines |-> {Say(k), Say(any), Teach(k, <<>>), Drop(other)}]
MCTalk == {Pointers, Values, Random}
===========================================================================
