------------------------------- MODULE Keyed -------------------------------
(***************************************************************************)
(* A keyed collection of the database (db/keyed.go, db/db.go): values in   *)
(* nested buckets, each under the bytes of its key. A key is a sequence of *)
(* elements, each a name and a value; all but the last name a bucket. A    *)
(* key that is the beginning of others names a bucket: all below it in All *)
(* and Del. Every call that writes is one transaction, which excludes the  *)
(* others and which an error rolls back; a batch puts its values one by    *)
(* one in a copy of its own, "batch". Keyed collections hold karma and     *)
(* configuration, whose types validate no values: Fsck deletes nothing.    *)
(***************************************************************************)
EXTENDS Naturals, Sequences, FiniteSets, SequencesExt

CONSTANTS
    Keys,       \* bound: the keys used, each a sequence of elements
    Value,      \* bound: the values put
    Width,      \* bytes of an integer (8 in the code)
    MaxSeq,     \* bound: the numbers a bucket's sequence gives
    MaxBatch,   \* bound: the values of a batch
    NoValue     \* under a key without a value; of "batch", no transaction

USEP == 31
TRUEB == 255
FALSEB == 0
Byte == 0 .. 255

IsElem(e) ==
    /\ e = [type |-> e.type, name |-> e.name, value |-> e.value]
    /\ e.name \in Seq(Byte)
    /\ \/ e.type \in {"S", "ID"} /\ e.value \in Seq(Byte)
       \/ e.type = "T" /\ e.value \in BOOLEAN
       \/ e.type \in {"I", "TS"} /\ e.value \in Nat

ASSUME KeyedAssumption ==
    /\ {Width, MaxSeq, MaxBatch} \subseteq Nat
    /\ \A k \in Keys : k \in Seq(Range(k)) /\ \A i \in DOMAIN k : IsElem(k[i])
    /\ NoValue \notin Value

\* Big endian, which sorts.
BigEndian(n) == [i \in 1 .. Width |-> (n \div 256 ^ (Width - i)) % 256]

Truth(b) == <<IF b THEN TRUEB ELSE FALSEB>>

\* Of a time, in nanoseconds, the key has the milliseconds.
Milli == 1000000
ValueBytes(e) ==
    CASE e.type \in {"S", "ID"} -> e.value
      [] e.type = "T" -> Truth(e.value)
      [] e.type = "I" -> BigEndian(e.value)
      [] e.type = "TS" -> BigEndian(e.value \div Milli)

\* The path of buckets and the key in the last of them.
Path == [k \in Keys |-> [i \in DOMAIN k |-> k[i].name \o <<USEP>> \o ValueBytes(k[i])]]
B(k) == Path[k]

Valid(k) == \A i \in DOMAIN k : ~Contains(k[i].name, USEP)

\* What the code leaves to those who choose the keys: elements of one name and the same bytes
\* are the same (of two types they need not be, nor are times of one millisecond); and no
\* bucket has the bytes of an invalid key, which Next does not refuse.
KeysDiffer == \A j, k \in Keys : Valid(k) =>
    IF Valid(j) THEN \A e \in Range(j), f \in Range(k) :
                        e.name = f.name /\ ValueBytes(e) = ValueBytes(f) => e = f
    ELSE ~IsStrictPrefix(B(j), B(k))

VARIABLES
    tree,       \* the committed state: buckets, values and sequences by path
    batch,      \* the running BatchPut: what it has to put, its copies of tree and want
    want,       \* history: what the calls that succeeded say is stored under each key
    given       \* history: the last number that the sequence of each bucket gave

keyedVars == <<tree, batch, want, given>>

Under(p) == {q \in tree.bkts \cup DOMAIN tree.vals \cup DOMAIN tree.seqs : IsPrefix(p, q)}
Parents(p) == {SubSeq(p, 1, n) : n \in 1 .. Len(p) - 1}

\* find: the buckets on the way are all there. (The collection's own always is.)
Found(p) == Parents(p) \subseteq tree.bkts
IsBucket(p) == p = <<>> \/ (Found(p) /\ p \in tree.bkts)

Get(k) == IF Found(B(k)) /\ B(k) \in DOMAIN tree.vals THEN tree.vals[B(k)] ELSE NoValue

\* All of a bucket, or of the collection, and of the buckets in it; nothing of a missing one.
All(k) == {<<q, tree.vals[q]>> : q \in {q \in DOMAIN tree.vals :
                                        IsBucket(B(k)) /\ q # B(k) /\ IsPrefix(B(k), q)}}

KeyedInit ==
    /\ tree = [bkts |-> {}, vals |-> <<>>, seqs |-> <<>>]
    /\ batch = NoValue
    /\ want = [k \in Keys |-> NoValue]
    /\ given = <<>>

\* create and putTx. bbolt refuses a bucket where a value is, and a value where a bucket is.
Refused(t, p) == p \in t.bkts \/ Parents(p) \cap DOMAIN t.vals # {}

PutTx(t, p, v) ==
    [bkts |-> t.bkts \cup Parents(p),
     vals |-> [q \in DOMAIN t.vals \cup {p} |-> IF q = p THEN v ELSE t.vals[q]],
     seqs |-> t.seqs]

Put(k, v) ==
    /\ batch = NoValue /\ k # <<>> /\ Valid(k)
    /\ ~Refused(tree, B(k))
    /\ tree' = PutTx(tree, B(k), v)
    /\ want' = [want EXCEPT ![k] = v]
    /\ UNCHANGED <<batch, given>>

\* BatchPut: of nothing but valid keys; in order, in one transaction, or an error and nothing.
BatchPut(todo) ==
    /\ batch = NoValue
    /\ \A i \in DOMAIN todo : todo[i][1] # <<>> /\ Valid(todo[i][1])
    /\ batch' = [todo |-> todo, tree |-> tree, want |-> want]
    /\ UNCHANGED <<tree, want, given>>

\* A mutant: what was put before the refused value stays.
BatchStepKeep ==
    LET k == Head(batch.todo)[1]
        val == Head(batch.todo)[2] IN
    /\ batch # NoValue /\ batch.todo # <<>>
    /\ IF Refused(batch.tree, B(k)) THEN batch' = NoValue /\ tree' = batch.tree
       ELSE batch' = [todo |-> Tail(batch.todo),
                      tree |-> PutTx(batch.tree, B(k), val),
                      want |-> [batch.want EXCEPT ![k] = val]] /\ UNCHANGED tree
    /\ UNCHANGED <<want, given>>
BatchStep ==
    LET k == Head(batch.todo)[1]
        val == Head(batch.todo)[2] IN
    /\ batch # NoValue /\ batch.todo # <<>>
    /\ batch' = IF Refused(batch.tree, B(k)) THEN NoValue
                ELSE [todo |-> Tail(batch.todo),
                      tree |-> PutTx(batch.tree, B(k), val),
                      want |-> [batch.want EXCEPT ![k] = val]]
    /\ UNCHANGED <<tree, want, given>>

BatchCommit ==
    /\ batch # NoValue /\ batch.todo = <<>>
    /\ tree' = batch.tree /\ want' = batch.want
    /\ batch' = NoValue
    /\ UNCHANGED given

\* What goes with a path: a value, or a bucket with all below it and its sequence.
Cleared(p) == IF Found(p) THEN Under(p) ELSE {}

Del(k) ==
    LET cleared == Cleared(B(k)) IN
    /\ batch = NoValue /\ k # <<>> /\ Valid(k)
    /\ tree' = [bkts |-> tree.bkts \ cleared,
                vals |-> Restrict(tree.vals, DOMAIN tree.vals \ cleared),
                seqs |-> Restrict(tree.seqs, DOMAIN tree.seqs \ cleared)]
    /\ want' = [j \in Keys |-> IF IsPrefix(k, j) THEN NoValue ELSE want[j]]
    /\ given' = Restrict(given, {j \in DOMAIN given : ~IsPrefix(k, j)})
    /\ UNCHANGED batch

\* Next: of the bucket the whole key names, its sequence's next number or the one it is set
\* to; without the bucket an error.
NextSeq(k, set) ==
    LET p == B(k)
        n == IF set # NoValue THEN set ELSE IF p \in DOMAIN tree.seqs THEN tree.seqs[p] + 1 ELSE 1 IN
    /\ batch = NoValue
    /\ IsBucket(p) /\ n <= MaxSeq
    /\ tree' = [bkts |-> tree.bkts, vals |-> tree.vals,
                seqs |-> [q \in DOMAIN tree.seqs \cup {p} |-> IF q = p THEN n ELSE tree.seqs[q]]]
    /\ given' = [j \in DOMAIN given \cup {k} |-> IF j = k THEN n ELSE given[j]]
    /\ UNCHANGED <<batch, want>>

KeyedNext(Used) ==
    \/ \E k \in Used, v \in Value : Put(k, v)
    \/ \E n \in 0 .. MaxBatch : \E todo \in [1 .. n -> Used \X Value] : BatchPut(todo)
    \/ BatchStep \/ BatchCommit
    \/ \E k \in Used : Del(k)
    \/ \E k \in Used, set \in {NoValue, 0} : NextSeq(k, set)

KeyedSpec == KeyedInit /\ [][KeyedNext(Keys)]_keyedVars

-----------------------------------------------------------------------------
\* Under every key is what a call that succeeded put there last, unless a later one deleted
\* it by that key or by a beginning of it (keyed.go:226-230); All has just what is below;
\* of a batch that fails nothing is stored (keyed.go:193-201), nor seen before its end; a sequence goes on as long
\* as its bucket lives. It needs that valid keys do not collide (db.go:205-210).
KeyedKept ==
    /\ \A k \in Keys : Valid(k) =>
        /\ Get(k) = want[k]
        /\ All(k) = {<<B(j), want[j]>> : j \in {i \in Keys :
                        want[i] # NoValue /\ k # i /\ IsPrefix(k, i)}}
    /\ \A k \in DOMAIN given : B(k) \in DOMAIN tree.seqs /\ tree.seqs[B(k)] = given[k]
=============================================================================
