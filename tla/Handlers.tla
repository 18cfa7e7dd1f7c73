------------------------------ MODULE Handlers ------------------------------
(* The goroutines that use the collections. A connection handles one event at  *)
(* a time, every handler of the event in a goroutine of its own, and the       *)
(* connections handle their events beside each other. A handler reads in one   *)
(* transaction and writes in a later one; the transactions are IndexedStore's. *)
EXTENDS Naturals, Sequences, FiniteSets

CONSTANTS
    Conn,     \* server connections
    Nick,     \* the lower-case nicks
    Channel,
    MaxId,    \* bound: object ids ever allocated
    MaxEvents,\* bound: events ever handled
    None

ASSUME HandlersAssumption ==
    /\ {MaxId, MaxEvents} \subseteq Nat
    /\ Nick \cap Channel = {}
    /\ None \notin Nat \cup Nick \cup Channel

Id == 1 .. MaxId

\* No collection here is ever checked by Fsck, which alone would use these.
KeepAll(S) == {}
=============================================================================
