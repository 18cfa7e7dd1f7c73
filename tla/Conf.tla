-------------------------------- MODULE Conf --------------------------------
(***************************************************************************)
(* The configuration (db/conf): namespaces of keys, each with a string, an *)
(* integer or a float. A namespace is kept in a keyed collection or, for   *)
(* tests, in memory. What cannot be stored is logged and lost.             *)
(***************************************************************************)
EXTENDS Keyed, Integers

CONSTANTS
    Ns, Name,    \* namespaces and keys, as bytes
    Setting,     \* pairs of a type and a value
    IntBits      \* integers below 2^IntBits are stored in 32 bits (31 in the code)

Type == {"string", "int", "float"}

VARIABLES
    mem,         \* what namespaces in memory have
    unsaved      \* history: the entries whose last change could not be stored

confVars == <<keyedVars, mem, unsaved>>

\* Entry.K: the elements "ns" and "key".
EntryKey(ns, name) == <<[type |-> "S", name |-> <<110, 115>>, value |-> ns],
                        [type |-> "S", name |-> <<107, 101, 121>>, value |-> name]>>

\* What the encoding makes of a value: an integer of more than 32 bits comes back an int64.
Coded(s) == IF s[1] = "int" /\ s[2] \notin -(2 ^ IntBits) .. 2 ^ IntBits - 1
            THEN <<"int64", s[2]>> ELSE s

ASSUME ConfAssumption ==
    /\ \A ns \in Ns, name \in Name : EntryKey(ns, name) \in Keys
    /\ \A s \in Setting : s[1] \in Type /\ NoValue \notin {s, Coded(s)}

\* String, Int and Float, without a value: a value of another type reads as none.
As(type, s) == IF s # NoValue /\ s[1] = type THEN s ELSE NoValue

ConfInit ==
    /\ KeyedInit
    /\ mem = [e \in Ns \X Name |-> NoValue]
    /\ unsaved = {}

Lost(e) == unsaved' = unsaved \cup {e} /\ UNCHANGED keyedVars
Saved(e) == unsaved' = unsaved \ {e}

\* A mutant: the entry's key leaves the namespace out.
StoreKeyOnly(ns, name, s) == Put(EntryKey(CHOOSE n \in Ns : TRUE, name), s)
Store(ns, name, s) == Put(EntryKey(ns, name), s)

\* String, Int and Float, with a value: set, and inMem's.
Set(ns, name) == \E s \in Setting :
    /\ mem' = [mem EXCEPT ![<<ns, name>>] = s]
    /\ \/ Store(ns, name, Coded(s)) /\ Saved(<<ns, name>>)
       \/ Lost(<<ns, name>>)

Delete(ns, name) ==
    /\ mem' = [mem EXCEPT ![<<ns, name>>] = NoValue]
    /\ \/ Del(EntryKey(ns, name)) /\ Saved(<<ns, name>>)
       \/ Lost(<<ns, name>>)

ConfNext == \E ns \in Ns, name \in Name : Set(ns, name) \/ Delete(ns, name)

ConfSpec == ConfInit /\ [][ConfNext]_confVars

-----------------------------------------------------------------------------
\* A namespace in the database answers String, Int and Float as one in memory does, so that
\* what the tests show of the one holds of the other: but for what could not be stored and
\* for integers of more than 32 bits, which read as none (namespace.go:65 of an int64).
ConfAgrees ==
    \A ns \in Ns, name \in Name, type \in Type :
        LET m == mem[<<ns, name>>] IN
        <<ns, name>> \notin unsaved =>
            As(type, Get(EntryKey(ns, name))) = IF m # NoValue /\ Coded(m) # m THEN NoValue
                                                ELSE As(type, m)
=============================================================================
