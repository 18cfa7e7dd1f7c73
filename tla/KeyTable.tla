------------------------------ MODULE KeyTable ------------------------------
(* What an indexed collection promises (the Indexer comment of db/indexed.go  *)
(* and the collection interface of db/db.go): a table of values by id, which  *)
(* can be looked up by each key of a value. It has no pointers: a lookup      *)
(* searches the values (found is its answer). After a delete with an outdated copy an id is loose:  *)
(* a key may then find that id's value although the value lost the key.       *)
EXTENDS Naturals, Sequences

CONSTANTS Id, Key, Value, Client, IdOf, Indexes, None

VARIABLES
    tbl,      \* the value of each id
    loose,
    copy,     \* what each client read last
    found     \* what a lookup of each key answers

vars == <<tbl, loose, copy, found>>

Keys(v) == {Indexes[v][i] : i \in 1 .. Len(Indexes[v])}

Init ==
    /\ tbl = [i \in Id |-> None]
    /\ loose = {}
    /\ copy = [c \in Client |-> None]
    /\ found = [k \in Key |-> None]

Having(k) == {v \in {tbl[i] : i \in Id} \ {None} : k \in Keys(v)}

\* What looking a key up may answer.
Answers(k) == (IF Having(k) = {} THEN {None} ELSE Having(k))
              \cup {tbl[i] : i \in loose}

Answered == \A k \in Key : found[k] \in Answers(k)

Find(c, k) ==
    /\ copy' = [copy EXCEPT ![c] = found[k]]
    /\ UNCHANGED <<tbl, loose, found>>

\* By id, by bucket or by scanning: some stored value, or nothing.
Fetch(c) ==
    /\ \E i \in Id : copy' = [copy EXCEPT ![c] = tbl[i]]
    /\ UNCHANGED <<tbl, loose, found>>

\* Store one or more values at once.
Write(W) ==
    /\ \A v, w \in W : IdOf[v] = IdOf[w] => v = w
    /\ tbl' = [i \in Id |-> IF \E v \in W : IdOf[v] = i
                            THEN CHOOSE v \in W : IdOf[v] = i ELSE tbl[i]]
    /\ UNCHANGED loose

Put(c, v) == Write({v}) /\ copy' = [copy EXCEPT ![c] = v]

\* Remove ids at once; those removed through an outdated copy become loose.
Erase(D) ==
    /\ tbl' = [i \in Id |-> IF \E d \in D : IdOf[d] = i THEN None ELSE tbl[i]]
    /\ loose' = loose \cup {i \in Id : \E d \in D : /\ IdOf[d] = i
                                                    /\ tbl[i] \notin {None, d}}
    /\ UNCHANGED copy

Forget ==
    /\ copy' = [c \in Client |-> None]
    /\ UNCHANGED <<tbl, loose, found>>

\* The answers for keys that lead to loose ids may change by themselves.
Mend == UNCHANGED <<tbl, loose, copy>>

Step ==
    \/ Mend
    \/ Forget
    \/ \E c \in Client : \/ \E k \in Key : Find(c, k)
                         \/ Fetch(c)
                         \/ \E v \in Value : Put(c, v)
    \/ \E W \in SUBSET Value : Write(W) /\ UNCHANGED copy
    \/ \E D \in SUBSET Value : Erase(D)

\* After every step each lookup answers what a search would.
Next == Step /\ Answered'

Spec == Init /\ [][Next]_vars
=============================================================================
