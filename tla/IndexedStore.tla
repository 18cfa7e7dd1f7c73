---------------------------- MODULE IndexedStore ----------------------------
(***************************************************************************)
(* An indexed collection of the database (db/indexed.go, db/scan.go): the  *)
(* values stored by object id in the "_vals" bucket, and one pointer to    *)
(* the id under each key of the value in the (nested) "_idxs" bucket.      *)
(*                                                                         *)
(* Every Update transaction of BoltDB excludes the others and every View   *)
(* sees the last commit, so Put, Del and a pass of Fsck are one step each. *)
(* BatchPut runs its values one after the other in one transaction; its    *)
(* unfinished copy of the store is "batch".                                *)
(*                                                                         *)
(* A client is a goroutine of the bot (one handler of one event). It reads *)
(* a value in one transaction and writes or deletes it in a later one, so  *)
(* the copy it holds may be stale by then.                                 *)
(***************************************************************************)
EXTENDS Naturals, Sequences

CONSTANTS
    ObjectId, \* object ids
    Key,      \* complete index keys (db.K with all its elements)
    Bucket,   \* nested index buckets, each named by its whole path
    Value,    \* the values the collection may be asked to store
    Client,
    IdOf,     \* Value -> ObjectId                 (Indexer.Id)
    Indexes,  \* Value -> sequence of keys         (Indexer.Indexes)
    Path,     \* Key -> the buckets on its path    (elems of Key.B)
    Rejected, \* values with an invalid key or id: Put refuses them
    ValidateValues(_), \* those of a set of values that should be deleted
    Nil

ASSUME ConstantsAssumption ==
    /\ IdOf \in [Value -> ObjectId]
    /\ Indexes \in [Value -> Seq(Key)]
    /\ Path \in [Key -> SUBSET Bucket]
    /\ Rejected \subseteq Value
    /\ Nil \notin Value \cup ObjectId
    /\ \A S \in SUBSET Value : ValidateValues(S) \subseteq S

VARIABLES
    store,    \* the last committed state of the collection
    batch,    \* the running BatchPut transaction, or Nil
    scan,     \* what Fsck is to delete of what it read, or Nil
    copy,     \* copy[c]: the value client c holds, or Nil
    made,     \* the object ids allocated so far
    stale     \* history: the ids deleted through a copy other than the stored

vars == <<store, batch, scan, copy, made, stale>>

KeysOf(v) == {Indexes[v][i] : i \in 1 .. Len(Indexes[v])}

Store == [vals : [ObjectId -> Value \cup {Nil}],
          idxs : [Key -> ObjectId \cup {Nil}],
          bkts : SUBSET Bucket]

Stored(s) == {s.vals[i] : i \in ObjectId} \ {Nil}

(***************************************************************************)
(* Transactions, as functions from a state of the store to the next.       *)
(***************************************************************************)

\* find(): every bucket on the key's path exists.
Found(s, k) == Path[k] \subseteq s.bkts

\* delIndex() goes through the keys in order, and returns without an error at
\* the first one whose bucket does not exist: the keys it has deleted by then.
DelKeys(s, v) ==
    {Indexes[v][i] : i \in {n \in 1 .. Len(Indexes[v]) :
                               \A m \in 1 .. n : Found(s, Indexes[v][m])}}

\* It does not look at the pointer it deletes.
DelIndex(s, v) ==
    [s EXCEPT !.idxs = [k \in Key |-> IF k \in DelKeys(s, v) THEN Nil
                                                              ELSE s.idxs[k]]]

\* A mutant of PutIndex: the first key only.
PutIndexFirst(s, v) ==
    [s EXCEPT !.idxs = [s.idxs EXCEPT ![Indexes[v][1]] = IdOf[v]],
              !.bkts = s.bkts \cup Path[Indexes[v][1]]]

PutIndex(s, v) ==
    [s EXCEPT !.idxs = [k \in Key |-> IF k \in KeysOf(v) THEN IdOf[v]
                                                          ELSE s.idxs[k]],
              !.bkts = s.bkts \cup UNION {Path[k] : k \in KeysOf(v)}]

SetValue(s, i, v) == [s EXCEPT !.vals = [s.vals EXCEPT ![i] = v]]

\* Mutants of PutTx: the old value is unindexed last; or never.
PutTxUnindexLast(s, v) ==
    LET old  == s.vals[IdOf[v]]
        next == PutIndex(SetValue(s, IdOf[v], v), v)
    IN  IF old = Nil THEN next ELSE DelIndex(next, old)
PutTxKeepOld(s, v) == PutIndex(SetValue(s, IdOf[v], v), v)

\* Unindex the value stored under the id, overwrite it, index the new one.
PutTx(s, v) ==
    LET old     == s.vals[IdOf[v]]
        cleared == IF old = Nil THEN s ELSE DelIndex(s, old)
    IN  PutIndex(SetValue(cleared, IdOf[v], v), v)

\* Delete by id, then unindex the value the CALLER passed.
DelTx(s, v) == DelIndex(SetValue(s, IdOf[v], Nil), v)

\* Fsck's deletions of what ValidateValues returned, in one transaction.
DelAllTx(s, D) ==
    [s EXCEPT !.vals = [i \in ObjectId |-> IF \E d \in D : IdOf[d] = i THEN Nil
                                                                ELSE s.vals[i]],
              !.idxs = [k \in Key |-> IF \E d \in D : k \in DelKeys(s, d)
                                      THEN Nil ELSE s.idxs[k]]]

\* fsckIndexPass: the cursor sees the top level only; drop a pointer whose
\* value is gone or has no such key.
IndexPass(s) ==
    [s EXCEPT !.idxs = [k \in Key |->
        IF /\ s.idxs[k] # Nil
           /\ Path[k] = {}
           /\ \/ s.vals[s.idxs[k]] = Nil
              \/ k \notin KeysOf(s.vals[s.idxs[k]])
        THEN Nil ELSE s.idxs[k]]]

\* A nested bucket at the top of "_idxs" has no value: the index pass takes it for
\* a bad pointer, and Cursor.Delete refuses it.
IndexPassFails(s) == s.bkts # {}

\* fsckValuePass: it decodes what is stored with the prefix that toBson put before
\* it, which reads as a length of half a gigabyte, and so fails at the first value,
\* before it looks at any pointer. With no value there is nothing to do.
ValuePassFails(s) == Stored(s) # {}

(***************************************************************************)
(* Views.                                                                  *)
(***************************************************************************)

\* Get by an index key; a missing bucket, pointer or value reads as zero.
Lookup(s, k) ==
    IF Found(s, k) /\ s.idxs[k] # Nil THEN s.vals[s.idxs[k]] ELSE Nil

\* All of a bucket and those below it: dangling pointers are skipped.
AllUnder(s, b) ==
    {s.vals[s.idxs[k]] : k \in {x \in Key : /\ b \in Path[x]
                                            /\ Found(s, x)
                                            /\ s.idxs[x] # Nil}} \ {Nil}

(***************************************************************************)
(* The behaviour.                                                          *)
(***************************************************************************)

EmptyStore == [vals |-> [i \in ObjectId |-> Nil],
               idxs |-> [k \in Key |-> Nil],
               bkts |-> {}]

Init ==
    /\ store = EmptyStore
    /\ batch = Nil
    /\ scan = Nil
    /\ copy = [c \in Client |-> Nil]
    /\ made = {}
    /\ stale = {}

\* A client writes a changed form of the value it holds, or a value whose id it
\* has just allocated (bson.NewObjectId).
MayWrite(c, v) == IF IdOf[v] \in made
                  THEN copy[c] # Nil /\ IdOf[copy[c]] = IdOf[v]
                  ELSE TRUE

\* Get by key, by id, and All/Match, of which the client keeps one.
Get(c, k) ==
    /\ copy' = [copy EXCEPT ![c] = Lookup(store, k)]
    /\ UNCHANGED <<store, batch, scan, made, stale>>

GetValue(c, i) ==
    /\ copy' = [copy EXCEPT ![c] = store.vals[i]]
    /\ UNCHANGED <<store, batch, scan, made, stale>>

All(c, b) ==
    /\ \E v \in AllUnder(store, b) : copy' = [copy EXCEPT ![c] = v]
    /\ UNCHANGED <<store, batch, scan, made, stale>>

Match(c) ==
    /\ \E v \in Stored(store) : copy' = [copy EXCEPT ![c] = v]
    /\ UNCHANGED <<store, batch, scan, made, stale>>

\* Put: an invalid value is refused and nothing changes.
Put(c, v) ==
    /\ batch = Nil
    /\ MayWrite(c, v)
    /\ v \notin Rejected
    /\ store' = PutTx(store, v)
    /\ made' = made \cup {IdOf[v]}
    /\ copy' = [copy EXCEPT ![c] = v]
    /\ UNCHANGED <<batch, scan, stale>>

\* Ids whose stored value is neither gone nor the one being deleted.
Outdated(s, D) == {i \in ObjectId : \E d \in D : IdOf[d] = i /\ s.vals[i] \notin {Nil, d}}

Del(c) ==
    /\ batch = Nil
    /\ copy[c] # Nil
    /\ store' = DelTx(store, copy[c])
    /\ stale' = stale \cup Outdated(store, {copy[c]})
    /\ UNCHANGED <<batch, scan, copy, made>>

BatchPut(c, todo) ==
    /\ batch = Nil
    /\ \A i \in 1 .. Len(todo) : MayWrite(c, todo[i]) /\ todo[i] \notin Rejected
    /\ batch' = [pending |-> store, todo |-> todo]
    /\ UNCHANGED <<store, scan, copy, made, stale>>

BatchStep ==
    /\ batch # Nil
    /\ batch.todo # <<>>
    /\ batch' = [pending |-> PutTx(batch.pending, Head(batch.todo)),
                 todo    |-> Tail(batch.todo)]
    /\ made' = made \cup {IdOf[Head(batch.todo)]}
    /\ UNCHANGED <<store, scan, copy, stale>>

BatchCommit ==
    /\ batch # Nil
    /\ batch.todo = <<>>
    /\ store' = batch.pending
    /\ batch' = Nil
    /\ UNCHANGED <<scan, copy, made, stale>>

\* Fsck first reads everything in a View of its own and asks ValidateValues ...
FsckScan ==
    /\ scan = Nil
    /\ scan' = ValidateValues(Stored(store))
    /\ UNCHANGED <<store, batch, copy, made, stale>>

\* ... deletes what that does not want, and stops there;
FsckDelete ==
    /\ batch = Nil
    /\ scan \notin {Nil, {}}
    /\ store' = DelAllTx(store, scan)
    /\ stale' = stale \cup Outdated(store, scan)
    /\ scan' = Nil
    /\ UNCHANGED <<batch, copy, made>>

\* or, when there is nothing to delete, makes the two passes in one transaction,
\* which is rolled back when either fails.
FsckPasses ==
    /\ batch = Nil
    /\ scan = {}
    /\ store' = IF IndexPassFails(store) \/ ValuePassFails(store) THEN store ELSE IndexPass(store)
    /\ scan' = Nil
    /\ UNCHANGED <<batch, copy, made, stale>>

\* The process dies and starts again: what was not committed is lost. The
\* collection is registered as it is (main.go); nothing calls Fsck.
Restart ==
    /\ batch' = Nil
    /\ scan' = Nil
    /\ copy' = [c \in Client |-> Nil]
    /\ UNCHANGED <<store, made, stale>>

Next ==
    \/ \E c \in Client :
          \/ \E k \in Key : Get(c, k)
          \/ \E i \in ObjectId : GetValue(c, i)
          \/ \E b \in Bucket : All(c, b)
          \/ Match(c)
          \/ \E v \in Value : Put(c, v)
          \/ Del(c)
          \/ \E v, w \in Value : BatchPut(c, <<v, w>>)
    \/ BatchStep
    \/ BatchCommit
    \/ FsckScan
    \/ FsckDelete
    \/ FsckPasses
    \/ Restart

Spec == Init /\ [][Next]_vars

(***************************************************************************)
(* Properties.                                                             *)
(***************************************************************************)

TypeOK ==
    /\ store \in Store
    /\ batch \in {Nil} \cup [pending : Store, todo : Seq(Value)]
    /\ scan \in {Nil} \cup SUBSET Value
    /\ copy \in [Client -> Value \cup {Nil}]
    /\ made \subseteq ObjectId
    /\ stale \subseteq ObjectId

\* A store is a function of ids: what is stored under an id has that id.
Keyed(s) == \A i \in ObjectId : s.vals[i] # Nil => IdOf[s.vals[i]] = i

\* The buckets of every key of every stored value exist.
Bucketed(s) == \A v \in Stored(s) : \A k \in KeysOf(v) : Found(s, k)

\* Every stored value is pointed at from each of its keys.
Indexed(s) == \A i \in ObjectId : s.vals[i] # Nil =>
                  \A k \in KeysOf(s.vals[i]) : s.idxs[k] = i

\* A pointer points at a stored value that has the key, or at a loose id.
Pointed(s, loose) == \A k \in Key : s.idxs[k] # Nil =>
                  \/ s.idxs[k] \in loose
                  \/ /\ s.vals[s.idxs[k]] # Nil
                     /\ k \in KeysOf(s.vals[s.idxs[k]])

\* The committed store, and the one BatchPut is building.
States == {store} \cup (IF batch = Nil THEN {} ELSE {batch.pending})

\* No two values of different ids share a key: true of factoids, quotes, urls.
UniqueKeys == \A v, w \in Value :
                  IdOf[v] # IdOf[w] => KeysOf(v) \cap KeysOf(w) = {}

\* A stored value can be found through every one of its index keys, whatever
\* puts, stale deletes, half-done batches and Fsck came before: putIndex and
\* delIndex never lose the pointer of a value that stays stored. It is what
\* "pointers for each Key in _idxs" (indexed.go:13) promises.
Complete == \A s \in States : Bucketed(s) /\ Indexed(s)

\* An index pointer leads to a stored value that has the key, except for ids that
\* were deleted with a copy that was no longer the stored one: the only way to
\* the "dangling index pointers" of the TODO at indexed.go:308.
Exact == \A s \in States : Pointed(s, stale)

\* After the passes of Fsck each key of a stored value points at a value that has the
\* key, also where another value that shared it was deleted: "as the fsckValues
\* iterator finds each one of them it repoints the lines index" (stats.go:77). It is
\* false: the value pass fails before it has repointed anything (scan.go:102).
FsckRepairs ==
    [][FsckPasses => \A v \in Stored(store') : \A k \in KeysOf(v) :
           /\ store'.idxs[k] # Nil
           /\ k \in KeysOf(store'.vals[store'.idxs[k]])]_vars

-----------------------------------------------------------------------------
\* What the collection promises its clients, whatever its pointers look like.
Table == INSTANCE KeyTable WITH Id <- ObjectId, None <- Nil,
                                tbl <- store.vals, loose <- stale,
                                found <- [k \in Key |-> Lookup(store, k)]

\* Reads by key through the pointers answer what a search of the stored values
\* would, and Put, Del, BatchPut and Fsck are atomic changes of the values.
ImplementsTable == Table!Spec

=============================================================================
