-------------------------- MODULE Database_proofs --------------------------
(* Proofs about the database: its indexed collections, for every set of ids,   *)
(* keys, buckets, values and clients and every ValidateValues, and its file's  *)
(* backups, for every number of minutes and of transactions.                   *)
EXTENDS IndexedStore, Backup, Integers, TLAPS

-----------------------------------------------------------------------------
(* The indexed collections.                                                    *)

USE ConstantsAssumption

\* The keys a value is indexed under are keys.
LEMMA KeysType == ASSUME NEW v \in Value PROVE KeysOf(v) \subseteq Key
  BY DEF KeysOf

\* delIndex deletes none but the value's own keys, and all of them when their
\* buckets exist.
LEMMA DelKeysBounds ==
    ASSUME NEW s \in Store, NEW v \in Value
    PROVE  /\ DelKeys(s, v) \subseteq KeysOf(v)
           /\ (\A k \in KeysOf(v) : Found(s, k)) => DelKeys(s, v) = KeysOf(v)
<1> DEFINE N == {n \in 1 .. Len(Indexes[v]) :
                    \A m \in 1 .. n : Found(s, Indexes[v][m])}
<1>1. DelKeys(s, v) = {Indexes[v][i] : i \in N}
  BY DEF DelKeys
<1>2. N \subseteq 1 .. Len(Indexes[v])
  OBVIOUS
<1>3. ASSUME \A k \in KeysOf(v) : Found(s, k) PROVE N = 1 .. Len(Indexes[v])
  <2>1. Len(Indexes[v]) \in Nat
    OBVIOUS
  <2>2. \A m \in 1 .. Len(Indexes[v]) : Indexes[v][m] \in KeysOf(v)
    BY DEF KeysOf
  <2>3. \A n \in 1 .. Len(Indexes[v]) : \A m \in 1 .. n :
            m \in 1 .. Len(Indexes[v])
    BY <2>1
  <2>4. QED
    BY <1>3, <2>2, <2>3
<1>4. QED
  BY <1>1, <1>2, <1>3 DEF KeysOf

\* The stored values are values.
LEMMA StoredType == ASSUME NEW s \in Store PROVE Stored(s) \subseteq Value
  BY DEF Stored, Store

\* Every transaction maps a store to a store.
LEMMA DelIndexType ==
    ASSUME NEW s \in Store, NEW v \in Value
    PROVE  /\ DelIndex(s, v) \in Store
           /\ DelIndex(s, v).vals = s.vals
           /\ DelIndex(s, v).bkts = s.bkts
           /\ \A k \in Key : DelIndex(s, v).idxs[k] =
                  IF k \in DelKeys(s, v) THEN Nil ELSE s.idxs[k]
  BY DEF DelIndex, Store

LEMMA PutIndexType ==
    ASSUME NEW s \in Store, NEW v \in Value
    PROVE  /\ PutIndex(s, v) \in Store
           /\ PutIndex(s, v).vals = s.vals
           /\ PutIndex(s, v).bkts = s.bkts \cup UNION {Path[k] : k \in KeysOf(v)}
           /\ \A k \in Key : PutIndex(s, v).idxs[k] =
                  IF k \in KeysOf(v) THEN IdOf[v] ELSE s.idxs[k]
<1>1. IdOf[v] \in ObjectId
  OBVIOUS
<1>2. UNION {Path[k] : k \in KeysOf(v)} \subseteq Bucket
  BY KeysType
<1>3. [k \in Key |-> IF k \in KeysOf(v) THEN IdOf[v] ELSE s.idxs[k]]
        \in [Key -> ObjectId \cup {Nil}]
  BY <1>1 DEF Store
<1>4. QED
  BY <1>2, <1>3 DEF PutIndex, Store

LEMMA SetValueType ==
    ASSUME NEW s \in Store, NEW i \in ObjectId, NEW v \in Value \cup {Nil}
    PROVE  /\ SetValue(s, i, v) \in Store
           /\ SetValue(s, i, v).vals = [s.vals EXCEPT ![i] = v]
           /\ SetValue(s, i, v).idxs = s.idxs
           /\ SetValue(s, i, v).bkts = s.bkts
  BY DEF SetValue, Store

\* What Put does to the three parts of a store whose buckets are in order.
LEMMA PutTxParts ==
    ASSUME NEW s \in Store, NEW v \in Value, Bucketed(s)
    PROVE  /\ PutTx(s, v) \in Store
           /\ PutTx(s, v).vals = [s.vals EXCEPT ![IdOf[v]] = v]
           /\ PutTx(s, v).bkts = s.bkts \cup UNION {Path[k] : k \in KeysOf(v)}
           /\ \A k \in Key : PutTx(s, v).idxs[k] =
                  IF k \in KeysOf(v) THEN IdOf[v]
                  ELSE IF s.vals[IdOf[v]] # Nil /\ k \in KeysOf(s.vals[IdOf[v]])
                       THEN Nil ELSE s.idxs[k]
<1> DEFINE old == s.vals[IdOf[v]]
           cleared == IF old = Nil THEN s ELSE DelIndex(s, old)
           set == SetValue(cleared, IdOf[v], v)
<1>1. IdOf[v] \in ObjectId /\ old \in Value \cup {Nil}
  BY DEF Store
<1>2. /\ cleared \in Store /\ cleared.vals = s.vals /\ cleared.bkts = s.bkts
      /\ \A k \in Key : cleared.idxs[k] =
            IF old # Nil /\ k \in KeysOf(old) THEN Nil ELSE s.idxs[k]
  <2>1. CASE old = Nil
    BY <2>1
  <2>2. CASE old # Nil
    <3>1. old \in Value /\ old \in Stored(s)
      BY <1>1, <2>2 DEF Stored
    <3>2. DelKeys(s, old) = KeysOf(old)
      BY <3>1, DelKeysBounds DEF Bucketed
    <3>3. cleared = DelIndex(s, old)
      BY <2>2
    <3>4. QED
      BY <2>2, <3>1, <3>2, <3>3, DelIndexType
  <2>3. QED
    BY <2>1, <2>2
<1>3. /\ set \in Store /\ set.vals = [s.vals EXCEPT ![IdOf[v]] = v]
      /\ set.idxs = cleared.idxs /\ set.bkts = s.bkts
  BY <1>1, <1>2, SetValueType
<1>4. PutTx(s, v) = PutIndex(set, v)
  BY DEF PutTx
<1> HIDE DEF cleared, set
<1>5. /\ PutIndex(set, v) \in Store
      /\ PutIndex(set, v).vals = set.vals
      /\ PutIndex(set, v).bkts = set.bkts \cup UNION {Path[k] : k \in KeysOf(v)}
      /\ \A k \in Key : PutIndex(set, v).idxs[k] =
             IF k \in KeysOf(v) THEN IdOf[v] ELSE set.idxs[k]
  BY <1>3, PutIndexType
<1>6. QED
  BY <1>2, <1>3, <1>4, <1>5

\* What Del does, whatever copy it is given.
LEMMA DelTxParts ==
    ASSUME NEW s \in Store, NEW v \in Value
    PROVE  /\ DelTx(s, v) \in Store
           /\ DelTx(s, v).vals = [s.vals EXCEPT ![IdOf[v]] = Nil]
           /\ DelTx(s, v).bkts = s.bkts
           /\ \A k \in Key : DelTx(s, v).idxs[k] =
                  IF k \in DelKeys(s, v) THEN Nil ELSE s.idxs[k]
<1> DEFINE set == SetValue(s, IdOf[v], Nil)
<1>1. /\ set \in Store /\ set.vals = [s.vals EXCEPT ![IdOf[v]] = Nil]
      /\ set.idxs = s.idxs /\ set.bkts = s.bkts
  BY SetValueType
<1>2. DelKeys(set, v) = DelKeys(s, v)
  BY <1>1 DEF DelKeys, Found
<1>3. DelTx(s, v) = DelIndex(set, v)
  BY DEF DelTx
<1>4. QED
  BY <1>1, <1>2, <1>3, DelIndexType

LEMMA DelAllTxParts ==
    ASSUME NEW s \in Store, NEW D \in SUBSET Value
    PROVE  /\ DelAllTx(s, D) \in Store
           /\ DelAllTx(s, D).bkts = s.bkts
           /\ \A i \in ObjectId : DelAllTx(s, D).vals[i] =
                  IF \E d \in D : IdOf[d] = i THEN Nil ELSE s.vals[i]
           /\ \A k \in Key : DelAllTx(s, D).idxs[k] =
                  IF \E d \in D : k \in DelKeys(s, d) THEN Nil ELSE s.idxs[k]
  BY DEF DelAllTx, Store

\* The index pass drops pointers and changes nothing else.
LEMMA IndexPassParts ==
    ASSUME NEW s \in Store
    PROVE  /\ IndexPass(s) \in Store
           /\ IndexPass(s).vals = s.vals
           /\ IndexPass(s).bkts = s.bkts
           /\ \A k \in Key : IndexPass(s).idxs[k] \in {Nil, s.idxs[k]}
  BY DEF IndexPass, Store

-----------------------------------------------------------------------------
(* The parts of the invariant, transaction by transaction.                     *)

\* A store in order: all but the parts that need unique keys.
Good(s, loose) == s \in Store /\ Keyed(s) /\ Bucketed(s) /\ Pointed(s, loose)

LEMMA PutTxGood ==
    ASSUME NEW s, NEW loose, Good(s, loose), NEW v \in Value
    PROVE  Good(PutTx(s, v), loose)
<1> DEFINE t == PutTx(s, v)
<1>1. /\ s \in Store /\ Bucketed(s)
      /\ t \in Store
      /\ t.vals = [s.vals EXCEPT ![IdOf[v]] = v]
      /\ t.bkts = s.bkts \cup UNION {Path[k] : k \in KeysOf(v)}
      /\ \A k \in Key : t.idxs[k] =
            IF k \in KeysOf(v) THEN IdOf[v]
            ELSE IF s.vals[IdOf[v]] # Nil /\ k \in KeysOf(s.vals[IdOf[v]])
                 THEN Nil ELSE s.idxs[k]
  BY PutTxParts DEF Good
<1>2. /\ IdOf[v] \in ObjectId /\ v # Nil
      /\ \A i \in ObjectId : t.vals[i] = IF i = IdOf[v] THEN v ELSE s.vals[i]
  BY <1>1 DEF Store
<1> HIDE DEF t
<1>3. Keyed(t)
  BY <1>2 DEF Good, Keyed
<1>4. Bucketed(t)
  <2>1. Stored(t) \subseteq Stored(s) \cup {v}
    BY <1>2 DEF Stored
  <2>2. \A k \in KeysOf(v) : Path[k] \subseteq t.bkts
    BY <1>1
  <2>3. \A w \in Stored(s) : \A k \in KeysOf(w) : Path[k] \subseteq t.bkts
    BY <1>1 DEF Bucketed, Found
  <2>4. QED
    BY <2>1, <2>2, <2>3 DEF Bucketed, Found
<1>5. Pointed(t, loose)
  <2> SUFFICES ASSUME NEW k \in Key, t.idxs[k] # Nil, t.idxs[k] \notin loose
               PROVE  t.vals[t.idxs[k]] # Nil /\ k \in KeysOf(t.vals[t.idxs[k]])
    BY DEF Pointed
  <2>1. CASE k \in KeysOf(v)
    BY <1>1, <1>2, <2>1
  <2>2. CASE k \notin KeysOf(v)
    <3>1. t.idxs[k] = s.idxs[k] /\ s.idxs[k] \in ObjectId
      BY <1>1, <2>2 DEF Store
    <3>2. s.vals[s.idxs[k]] # Nil /\ k \in KeysOf(s.vals[s.idxs[k]])
      BY <3>1 DEF Good, Pointed
    <3>3. s.idxs[k] # IdOf[v]
      BY <1>1, <2>2, <3>2
    <3>4. QED
      BY <1>2, <3>1, <3>2, <3>3
  <2>3. QED
    BY <2>1, <2>2
<1>6. QED
  BY <1>1, <1>3, <1>4, <1>5 DEF Good, t

\* With unique keys Put disturbs the pointers of no other id.
LEMMA PutTxIndexed ==
    ASSUME NEW s, NEW loose, Good(s, loose), NEW v \in Value,
           UniqueKeys, Indexed(s)
    PROVE  Indexed(PutTx(s, v))
<1> DEFINE t == PutTx(s, v)
<1>1. /\ s \in Store /\ Keyed(s)
      /\ t.vals = [s.vals EXCEPT ![IdOf[v]] = v]
      /\ \A k \in Key : t.idxs[k] =
            IF k \in KeysOf(v) THEN IdOf[v]
            ELSE IF s.vals[IdOf[v]] # Nil /\ k \in KeysOf(s.vals[IdOf[v]])
                 THEN Nil ELSE s.idxs[k]
  BY PutTxParts DEF Good
<1>2. /\ IdOf[v] \in ObjectId
      /\ \A i \in ObjectId : t.vals[i] = IF i = IdOf[v] THEN v ELSE s.vals[i]
      /\ \A i \in ObjectId : s.vals[i] \in Value \cup {Nil}
  BY <1>1 DEF Store
<1> HIDE DEF t
<1> SUFFICES ASSUME NEW i \in ObjectId, t.vals[i] # Nil, NEW k \in KeysOf(t.vals[i])
             PROVE  t.idxs[k] = i
  BY DEF Indexed, t
<1>3. t.vals[i] \in Value /\ k \in Key
  BY <1>2, KeysType
<1>4. CASE i = IdOf[v]
  BY <1>1, <1>2, <1>3, <1>4
<1>5. CASE i # IdOf[v]
  <2>1. t.vals[i] = s.vals[i] /\ s.vals[i] \in Value /\ IdOf[s.vals[i]] = i
    BY <1>1, <1>2, <1>3, <1>5 DEF Keyed
  <2>2. k \notin KeysOf(v)
    BY <1>5, <2>1 DEF UniqueKeys
  <2>3. s.vals[IdOf[v]] # Nil => k \notin KeysOf(s.vals[IdOf[v]])
    BY <1>1, <1>2, <1>5, <2>1 DEF UniqueKeys, Keyed
  <2>4. s.idxs[k] = i
    BY <2>1 DEF Indexed
  <2>5. QED
    BY <1>1, <1>3, <2>2, <2>3, <2>4
<1>6. QED
  BY <1>4, <1>5

\* A set of deletions, of which Del makes one and Fsck several.
DeletedIds(D) == {IdOf[d] : d \in D}

LEMMA DeletionGood ==
    ASSUME NEW s, NEW loose, Good(s, loose), NEW D \in SUBSET Value,
           NEW t \in Store, t.bkts = s.bkts,
           \A i \in ObjectId : t.vals[i] = IF \E d \in D : IdOf[d] = i THEN Nil
                                                               ELSE s.vals[i],
           \A k \in Key : t.idxs[k] = IF \E d \in D : k \in DelKeys(s, d)
                                      THEN Nil ELSE s.idxs[k]
    PROVE  /\ Good(t, loose \cup Outdated(s, D))
           /\ UniqueKeys /\ Indexed(s) => Indexed(t)
<1>1. s \in Store /\ Keyed(s) /\ Bucketed(s) /\ Pointed(s, loose)
  BY DEF Good
<1>2. Stored(t) \subseteq Stored(s)
  BY DEF Stored
<1>3. Keyed(t) /\ Bucketed(t)
  BY <1>1, <1>2 DEF Keyed, Bucketed, Found
<1>4. ASSUME NEW k \in Key, t.idxs[k] # Nil, t.idxs[k] \notin loose,
             t.idxs[k] \notin Outdated(s, D)
      PROVE  t.vals[t.idxs[k]] # Nil /\ k \in KeysOf(t.vals[t.idxs[k]])
  <2> DEFINE i == s.idxs[k]
  <2>1. t.idxs[k] = i /\ i \in ObjectId /\ \A d \in D : k \notin DelKeys(s, d)
    BY <1>1, <1>4 DEF Store
  <2>2. s.vals[i] # Nil /\ k \in KeysOf(s.vals[i])
    BY <1>1, <1>4, <2>1 DEF Pointed
  <2>3. ASSUME NEW d \in D, IdOf[d] = i PROVE FALSE
    <3>1. s.vals[i] = d
      BY <1>4, <2>1, <2>2, <2>3 DEF Outdated
    <3>2. d \in Stored(s) /\ d \in Value
      BY <2>1, <2>2, <3>1 DEF Stored
    <3>3. DelKeys(s, d) = KeysOf(d)
      BY <1>1, <3>2, DelKeysBounds DEF Bucketed
    <3>4. QED
      BY <2>1, <2>2, <2>3, <3>1, <3>3
  <2>4. QED
    BY <2>1, <2>2, <2>3
<1>5. Pointed(t, loose \cup Outdated(s, D))
  BY <1>4 DEF Pointed
<1>6. ASSUME UniqueKeys, Indexed(s) PROVE Indexed(t)
  <2> SUFFICES ASSUME NEW i \in ObjectId, t.vals[i] # Nil,
                      NEW k \in KeysOf(t.vals[i])
               PROVE  t.idxs[k] = i
    BY DEF Indexed
  <2>1. /\ t.vals[i] = s.vals[i] /\ s.vals[i] \in Value /\ IdOf[s.vals[i]] = i
        /\ \A d \in D : IdOf[d] # i
    BY <1>1 DEF Store, Keyed
  <2>2. k \in Key /\ s.idxs[k] = i
    BY <1>6, <2>1, KeysType DEF Indexed
  <2>3. ASSUME NEW d \in D PROVE k \notin DelKeys(s, d)
    BY <1>1, <1>6, <2>1, DelKeysBounds DEF UniqueKeys
  <2>4. QED
    BY <2>2, <2>3
<1>7. QED
  BY <1>3, <1>5, <1>6 DEF Good

LEMMA DelTxGood ==
    ASSUME NEW s, NEW loose, Good(s, loose), NEW v \in Value
    PROVE  /\ Good(DelTx(s, v), loose \cup Outdated(s, {v}))
           /\ UniqueKeys /\ Indexed(s) => Indexed(DelTx(s, v))
<1>1. s \in Store /\ IdOf[v] \in ObjectId
  BY DEF Good
<1> DEFINE t == DelTx(s, v)
<1>2. /\ t \in Store /\ t.bkts = s.bkts
      /\ t.vals = [s.vals EXCEPT ![IdOf[v]] = Nil]
      /\ \A k \in Key : t.idxs[k] = IF k \in DelKeys(s, v) THEN Nil
                                                           ELSE s.idxs[k]
  BY <1>1, DelTxParts
<1> HIDE DEF t
<1>3. \A i \in ObjectId : t.vals[i] = IF \E d \in {v} : IdOf[d] = i THEN Nil
                                                              ELSE s.vals[i]
  BY <1>1, <1>2 DEF Store
<1>4. \A k \in Key : t.idxs[k] = IF \E d \in {v} : k \in DelKeys(s, d)
                                 THEN Nil ELSE s.idxs[k]
  BY <1>2
<1>5. {v} \in SUBSET Value
  OBVIOUS
<1>6. QED
  BY <1>2, <1>3, <1>4, <1>5, DeletionGood DEF t

\* What the passes commit is in order; with values stored they change nothing.
LEMMA PassesGood ==
    ASSUME NEW loose, Good(store, loose), FsckPasses
    PROVE  /\ Good(store', loose)
           /\ store'.vals = store.vals
           /\ Indexed(store) => Indexed(store')
<1> DEFINE t == IndexPass(store)
<1>1. CASE store' = store
  BY <1>1 DEF Good
<1>2. CASE store' = t /\ Stored(store) = {}
  <2>1. store \in Store /\ Keyed(store) /\ Bucketed(store) /\ Pointed(store, loose)
    BY DEF Good
  <2>2. /\ t \in Store /\ t.vals = store.vals /\ t.bkts = store.bkts
        /\ \A k \in Key : t.idxs[k] \in {Nil, store.idxs[k]}
    BY <2>1, IndexPassParts
  <2> HIDE DEF t
  <2>3. Keyed(t) /\ Bucketed(t)
    BY <2>1, <2>2 DEF Keyed, Bucketed, Stored, Found
  <2>4. Pointed(t, loose)
    <3> SUFFICES ASSUME NEW k \in Key, t.idxs[k] # Nil, t.idxs[k] \notin loose
                 PROVE  t.vals[t.idxs[k]] # Nil /\ k \in KeysOf(t.vals[t.idxs[k]])
      BY DEF Pointed
    <3>1. t.idxs[k] = store.idxs[k]
      BY <2>2
    <3>2. QED
      BY <2>1, <2>2, <3>1 DEF Pointed
  <2>5. Indexed(t)
    BY <1>2, <2>2 DEF Stored, Indexed
  <2>6. QED
    BY <1>2, <2>2, <2>3, <2>4, <2>5 DEF Good
<1>3. QED
  BY <1>1, <1>2 DEF FsckPasses, ValuePassFails

-----------------------------------------------------------------------------
(* The inductive invariant and its theorems.                                   *)

\* Both the committed store and the one being built are in order.
IInv == TypeOK /\ \A s \in States : Good(s, stale)

\* With unique keys they are also completely indexed.
UInv == IInv /\ \A s \in States : Indexed(s)

\* When the batch is gone the committed store is the only one.
LEMMA StatesOf ==
    /\ store \in States
    /\ batch = Nil => States = {store}
    /\ batch # Nil => States = {store, batch.pending}
  BY DEF States

LEMMA InitIInv == Init => UInv
<1> SUFFICES ASSUME Init PROVE UInv
  OBVIOUS
<1>1. TypeOK
  BY DEF Init, TypeOK, EmptyStore, Store
<1>2. Good(store, stale) /\ Indexed(store)
  <2>1. Stored(store) = {}
    BY DEF Init, EmptyStore, Stored
  <2>2. store \in Store
    BY <1>1 DEF TypeOK
  <2>3. Keyed(store) /\ Indexed(store) /\ Pointed(store, stale)
    BY DEF Init, EmptyStore, Keyed, Indexed, Pointed
  <2>4. QED
    BY <2>1, <2>2, <2>3 DEF Good, Bucketed
<1>3. QED
  BY <1>1, <1>2 DEF UInv, IInv, States, Init

\* What a step does to the committed store and to the batch, action by action.
LEMMA StepIInv ==
    ASSUME IInv, [Next]_vars
    PROVE  /\ IInv'
           /\ UniqueKeys /\ (\A s \in States : Indexed(s))
                 => (\A s \in States : Indexed(s))'
<1> USE DEF IInv
<1>0. /\ TypeOK /\ Good(store, stale) /\ store \in Store
      /\ UniqueKeys /\ (\A s \in States : Indexed(s)) => Indexed(store)
  BY StatesOf DEF TypeOK
<1> DEFINE Goal == /\ IInv'
                   /\ UniqueKeys /\ (\A s \in States : Indexed(s))
                         => (\A s \in States : Indexed(s))'
\* Steps that only read.
<1>1. ASSUME UNCHANGED <<store, batch, stale>>, TypeOK' PROVE Goal
  BY <1>1 DEF States
\* Steps that commit with no batch running.
<1>2. ASSUME batch = Nil, batch' = Nil, TypeOK', Good(store', stale'),
             UniqueKeys /\ Indexed(store) => Indexed(store')
      PROVE  Goal
  BY <1>0, <1>2 DEF States
<1>3. ASSUME NEW c \in Client, NEW k \in Key, Get(c, k) PROVE Goal
  <2>1. Lookup(store, k) \in Value \cup {Nil}
    BY <1>0 DEF Lookup, Store
  <2>2. TypeOK'
    BY <1>0, <1>3, <2>1 DEF TypeOK, Get
  <2>3. QED
    BY <1>1, <1>3, <2>2 DEF Get
<1>4. ASSUME NEW c \in Client, NEW i \in ObjectId, GetValue(c, i) PROVE Goal
  <2>1. TypeOK'
    BY <1>0, <1>4 DEF TypeOK, GetValue, Store
  <2>2. QED
    BY <1>1, <1>4, <2>1 DEF GetValue
<1>5. ASSUME NEW c \in Client, NEW b \in Bucket, All(c, b) PROVE Goal
  <2>1. AllUnder(store, b) \subseteq Value
    BY <1>0 DEF AllUnder, Store
  <2>2. TypeOK'
    BY <1>0, <1>5, <2>1 DEF TypeOK, All
  <2>3. QED
    BY <1>1, <1>5, <2>2 DEF All
<1>6. ASSUME NEW c \in Client, Match(c) PROVE Goal
  <2>1. TypeOK'
    BY <1>0, <1>6, StoredType DEF TypeOK, Match
  <2>2. QED
    BY <1>1, <1>6, <2>1 DEF Match
<1>7. ASSUME NEW c \in Client, NEW v \in Value, Put(c, v) PROVE Goal
  <2>1. Good(store', stale') /\ (UniqueKeys /\ Indexed(store) => Indexed(store'))
    BY <1>0, <1>7, PutTxGood, PutTxIndexed DEF Put
  <2>2. TypeOK'
    BY <1>0, <1>7, <2>1 DEF TypeOK, Put, Good
  <2>3. QED
    BY <1>2, <1>7, <2>1, <2>2 DEF Put
<1>8. ASSUME NEW c \in Client, Del(c) PROVE Goal
  <2>1. copy[c] \in Value
    BY <1>0, <1>8 DEF TypeOK, Del
  <2>2. Good(store', stale') /\ (UniqueKeys /\ Indexed(store) => Indexed(store'))
    BY <1>0, <1>8, <2>1, DelTxGood DEF Del
  <2>3. TypeOK'
    BY <1>0, <1>8, <2>2 DEF TypeOK, Del, Good, Outdated
  <2>4. QED
    BY <1>2, <1>8, <2>2, <2>3 DEF Del
<1>9. ASSUME NEW c \in Client, NEW v \in Value, NEW w \in Value,
             BatchPut(c, <<v, w>>)
      PROVE  Goal
  <2>1. batch' = [pending |-> store, todo |-> <<v, w>>] /\ store' = store
        /\ UNCHANGED <<scan, copy, made, stale>>
    BY <1>9 DEF BatchPut
  <2>2. batch' \in [pending : Store, todo : Seq(Value)] /\ batch'.pending = store
    BY <1>0, <2>1
  <2>3. TypeOK'
    BY <1>0, <2>1, <2>2 DEF TypeOK
  <2>4. States' = {store}
    BY <2>1, <2>2 DEF States
  <2>5. QED
    BY <1>0, <2>1, <2>3, <2>4
<1>10. ASSUME BatchStep PROVE Goal
  <2>1. /\ batch \in [pending : Store, todo : Seq(Value)]
        /\ batch.todo \in Seq(Value) /\ batch.todo # <<>>
    BY <1>0, <1>10 DEF TypeOK, BatchStep
  <2> DEFINE v == Head(batch.todo)
             p == batch.pending
  <2>2. v \in Value /\ Tail(batch.todo) \in Seq(Value)
    BY <2>1
  <2>3. Good(p, stale) /\ (UniqueKeys /\ (\A s \in States : Indexed(s)) => Indexed(p))
    BY <1>10, StatesOf DEF BatchStep
  <2>4. /\ Good(PutTx(p, v), stale)
        /\ UniqueKeys /\ Indexed(p) => Indexed(PutTx(p, v))
    BY <2>2, <2>3, PutTxGood, PutTxIndexed
  <2>5. PutTx(p, v) \in Store
    BY <2>4 DEF Good
  <2>6. /\ batch' = [pending |-> PutTx(p, v), todo |-> Tail(batch.todo)]
        /\ UNCHANGED <<store, scan, copy, stale>> /\ made' = made \cup {IdOf[v]}
    BY <1>10 DEF BatchStep
  <2> HIDE DEF p, v
  <2>7. batch' \in [pending : Store, todo : Seq(Value)]
        /\ batch'.pending = PutTx(p, v)
    BY <2>2, <2>5, <2>6
  <2>8. TypeOK'
    BY <1>0, <2>2, <2>6, <2>7 DEF TypeOK
  <2>9. States' \subseteq {store, PutTx(p, v)}
    BY <2>6, <2>7 DEF States
  <2>10. QED
    BY <1>0, <2>3, <2>4, <2>6, <2>8, <2>9
<1>11. ASSUME BatchCommit PROVE Goal
  <2>1. batch \in [pending : Store, todo : Seq(Value)]
    BY <1>0, <1>11 DEF TypeOK, BatchCommit
  <2>2. /\ Good(batch.pending, stale)
        /\ UniqueKeys /\ (\A s \in States : Indexed(s)) => Indexed(batch.pending)
    BY <1>11, StatesOf DEF BatchCommit
  <2>3. TypeOK'
    BY <1>0, <1>11, <2>1 DEF TypeOK, BatchCommit
  <2>4. States' = {batch.pending} /\ stale' = stale
    BY <1>11 DEF States, BatchCommit
  <2>5. QED
    BY <2>2, <2>3, <2>4
<1>12. ASSUME FsckScan PROVE Goal
  <2>1. scan' \in SUBSET Value
    <3>1. Stored(store) \in SUBSET Value
      BY <1>0, StoredType DEF TypeOK
    <3>2. ValidateValues(Stored(store)) \subseteq Stored(store)
      BY <3>1, ConstantsAssumption
    <3>3. QED
      BY <1>12, <3>1, <3>2 DEF FsckScan
  <2>2. TypeOK'
    BY <1>0, <1>12, <2>1 DEF TypeOK, FsckScan
  <2>3. QED
    BY <1>1, <1>12, <2>2 DEF FsckScan
<1>13. ASSUME FsckDelete PROVE Goal
  <2> DEFINE D == scan
  <2>1. D \in SUBSET Value
    BY <1>0, <1>13 DEF TypeOK, FsckDelete
  <2> HIDE DEF D
  <2>2. store' = DelAllTx(store, D) /\ stale' = stale \cup Outdated(store, D)
        /\ batch = Nil /\ batch' = Nil /\ scan' = Nil /\ UNCHANGED <<copy, made>>
    BY <1>13 DEF FsckDelete, D
  <2>3. Good(store', stale') /\ (UniqueKeys /\ Indexed(store) => Indexed(store'))
    <3>1. /\ store' \in Store /\ store'.bkts = store.bkts
          /\ \A i \in ObjectId : store'.vals[i] =
                IF \E d \in D : IdOf[d] = i THEN Nil ELSE store.vals[i]
          /\ \A k \in Key : store'.idxs[k] =
                IF \E d \in D : k \in DelKeys(store, d) THEN Nil
                                                        ELSE store.idxs[k]
      BY <1>0, <2>1, <2>2, DelAllTxParts
    <3>2. QED
      BY <1>0, <2>1, <2>2, <3>1, DeletionGood
  <2>4. TypeOK'
    BY <1>0, <2>2, <2>3 DEF TypeOK, Good, Outdated
  <2>5. QED
    BY <1>2, <2>2, <2>3, <2>4
<1>14. ASSUME FsckPasses PROVE Goal
  <2>1. /\ Good(store', stale') /\ (Indexed(store) => Indexed(store'))
        /\ batch = Nil /\ batch' = Nil /\ scan' = Nil
        /\ UNCHANGED <<copy, made, stale>>
    BY <1>0, <1>14, PassesGood DEF FsckPasses
  <2>2. TypeOK'
    BY <1>0, <2>1 DEF TypeOK, Good
  <2>3. QED
    BY <1>2, <2>1, <2>2
<1>15. ASSUME Restart PROVE Goal
  <2>1. TypeOK'
    BY <1>0, <1>15 DEF TypeOK, Restart
  <2>2. States' = {store}
    BY <1>15 DEF States, Restart
  <2>3. QED
    BY <1>0, <1>15, <2>1, <2>2 DEF Restart
<1>16. CASE UNCHANGED vars
  <2>1. TypeOK'
    BY <1>0, <1>16 DEF TypeOK, vars
  <2>2. QED
    BY <1>1, <1>16, <2>1 DEF vars
<1>17. QED
  BY <1>3, <1>4, <1>5, <1>6, <1>7, <1>8, <1>9, <1>10, <1>11, <1>12, <1>13, <1>14,
     <1>15, <1>16 DEF Next

\* The collection's state has its type, for all constants.
THEOREM TypeCorrect == Spec => []TypeOK
<1>1. Init => IInv
  BY InitIInv DEF UInv
<1>2. IInv /\ [Next]_vars => IInv'
  BY StepIInv
<1>3. IInv => TypeOK
  BY DEF IInv
<1>4. QED
  BY <1>1, <1>2, <1>3, PTL DEF Spec

\* No pointer dangles or lies except those of ids that a stale copy deleted
\* (indexed.go:308-313), whether or not values share keys.
THEOREM PointersExact == Spec => []Exact
<1>1. Init => IInv
  BY InitIInv DEF UInv
<1>2. IInv /\ [Next]_vars => IInv'
  BY StepIInv
<1>3. IInv => Exact
  BY DEF IInv, Exact, Good
<1>4. QED
  BY <1>1, <1>2, <1>3, PTL DEF Spec

\* When no two ids share a key, every stored value is found through each of its
\* keys after any history of puts, deletes, batches, Fscks and restarts.
THEOREM PointersComplete == UniqueKeys => (Spec => []Complete)
<1> SUFFICES ASSUME UniqueKeys PROVE Spec => []Complete
  OBVIOUS
<1>1. Init => UInv
  BY InitIInv
<1>2. UInv /\ [Next]_vars => UInv'
  BY StepIInv DEF UInv
<1>3. UInv => Complete
  BY DEF UInv, IInv, Complete, Good
<1>4. QED
  BY <1>1, <1>2, <1>3, PTL DEF Spec

-----------------------------------------------------------------------------
(* The collection implements its table.                                        *)

\* A batch in progress removes nothing.
Grows == batch # Nil => \A i \in ObjectId :
             store.vals[i] # Nil => batch.pending.vals[i] # Nil

LEMMA StepGrows == ASSUME IInv, Grows, [Next]_vars PROVE Grows'
<1>0. TypeOK /\ store \in Store
  BY DEF IInv, TypeOK
<1>1. ASSUME UNCHANGED <<store, batch>> PROVE Grows'
  BY <1>1 DEF Grows
<1>2. ASSUME batch' = Nil PROVE Grows'
  BY <1>2 DEF Grows
<1>3. ASSUME NEW c \in Client, NEW v \in Value, NEW w \in Value,
             BatchPut(c, <<v, w>>)
      PROVE  Grows'
  BY <1>3 DEF BatchPut, Grows
<1>4. ASSUME BatchStep PROVE Grows'
  <2> DEFINE v == Head(batch.todo)
             p == batch.pending
  <2>1. v \in Value /\ Good(p, stale) /\ p \in Store
    BY <1>0, <1>4, StatesOf DEF IInv, TypeOK, BatchStep, Good
  <2>2. PutTx(p, v).vals = [p.vals EXCEPT ![IdOf[v]] = v]
    BY <2>1, PutTxParts DEF Good
  <2>3. batch'.pending = PutTx(p, v) /\ store' = store /\ batch # Nil
    BY <1>4 DEF BatchStep
  <2> HIDE DEF v, p
  <2>4. \A i \in ObjectId : p.vals[i] # Nil => PutTx(p, v).vals[i] # Nil
    BY <2>1, <2>2 DEF Store
  <2>5. \A i \in ObjectId : store.vals[i] # Nil => p.vals[i] # Nil
    BY <2>3 DEF Grows, p
  <2>6. QED
    BY <2>3, <2>4, <2>5 DEF Grows
<1>5. CASE UNCHANGED vars
  BY <1>1, <1>5 DEF vars
<1>6. QED
  BY <1>1, <1>2, <1>3, <1>4, <1>5
     DEF Next, Get, GetValue, All, Match, Put, Del, BatchCommit, FsckScan,
         FsckDelete, FsckPasses, Restart

\* A lookup by key answers what a search of the values may.
LEMMA LookupAnswers ==
    ASSUME UInv, NEW k \in Key
    PROVE  Lookup(store, k) \in Table!Answers(k)
<1>1. /\ store \in Store /\ Pointed(store, stale) /\ Bucketed(store)
      /\ Keyed(store) /\ Indexed(store)
  BY StatesOf DEF UInv, IInv, Good
<1> DEFINE j == store.idxs[k]
           Having == Table!Having(k)
<1>2. Having = {v \in Stored(store) : k \in KeysOf(v)}
  BY DEF Table!Having, Table!Keys, KeysOf, Stored
<1>3. Table!Answers(k) = (IF Having = {} THEN {Nil} ELSE Having)
                         \cup {store.vals[i] : i \in stale}
  BY DEF Table!Answers
<1>4. ASSUME NEW v \in Having PROVE Found(store, k) /\ j # Nil
  <2>1. PICK i \in ObjectId : v = store.vals[i] /\ v # Nil
    BY <1>2 DEF Stored
  <2>2. j = i /\ Found(store, k)
    BY <1>1, <1>2, <2>1 DEF Indexed, Bucketed, Stored
  <2>3. QED
    BY <2>2, ConstantsAssumption
<1>5. CASE ~(Found(store, k) /\ j # Nil)
  BY <1>3, <1>4, <1>5 DEF Lookup
<1>6. CASE Found(store, k) /\ j # Nil
  <2>1. Lookup(store, k) = store.vals[j] /\ j \in ObjectId
    BY <1>1, <1>6 DEF Lookup, Store
  <2>2. CASE j \in stale
    BY <1>3, <2>1, <2>2
  <2>3. CASE j \notin stale
    <3>1. store.vals[j] # Nil /\ k \in KeysOf(store.vals[j])
      BY <1>1, <1>6, <2>3 DEF Pointed
    <3>2. store.vals[j] \in Having
      BY <1>2, <2>1, <3>1 DEF Stored
    <3>3. QED
      BY <1>3, <2>1, <3>2
  <2>4. QED
    BY <2>2, <2>3
<1>7. QED
  BY <1>5, <1>6

\* Every step of the collection is a step of the table or changes none of its
\* variables.
LEMMA StepTable ==
    ASSUME UInv, Grows, [Next]_vars
    PROVE  Table!Step \/ UNCHANGED Table!vars
<1>0. TypeOK /\ Good(store, stale) /\ store \in Store /\ Bucketed(store)
  BY StatesOf DEF UInv, IInv, Good
<1> USE DEF Table!vars
<1>1. ASSUME NEW c \in Client, NEW k \in Key, Get(c, k) PROVE Table!Step
  BY <1>1 DEF Get, Table!Find, Table!Step
<1>2. ASSUME NEW c \in Client, NEW i \in ObjectId, copy' = [copy EXCEPT ![c] = store.vals[i]],
             UNCHANGED <<store, stale>>
      PROVE  Table!Step
  BY <1>2 DEF Table!Fetch, Table!Step
<1>3. ASSUME NEW c \in Client, NEW b \in Bucket, All(c, b) PROVE Table!Step
  <2>1. AllUnder(store, b) \subseteq {store.vals[i] : i \in ObjectId}
    BY <1>0 DEF AllUnder, Store
  <2>2. PICK v \in AllUnder(store, b) : copy' = [copy EXCEPT ![c] = v]
    BY <1>3 DEF All
  <2>3. PICK i \in ObjectId : v = store.vals[i]
    BY <2>1
  <2>4. UNCHANGED <<store, stale>>
    BY <1>3 DEF All
  <2>5. QED
    BY <1>2, <2>2, <2>3, <2>4
<1>4. ASSUME NEW c \in Client, Match(c) PROVE Table!Step
  BY <1>2, <1>4 DEF Match, Stored
<1>5. ASSUME NEW c \in Client, NEW v \in Value, Put(c, v) PROVE Table!Step
  <2>1. store'.vals = [store.vals EXCEPT ![IdOf[v]] = v]
    BY <1>0, <1>5, PutTxParts DEF Put
  <2>2. store'.vals = [i \in ObjectId |-> IF \E w \in {v} : IdOf[w] = i
                             THEN CHOOSE w \in {v} : IdOf[w] = i ELSE store.vals[i]]
    <3>1. ASSUME NEW i \in ObjectId, IdOf[v] = i PROVE (CHOOSE w \in {v} : IdOf[w] = i) = v
      BY <3>1
    <3>2. QED
      BY <1>0, <2>1, <3>1 DEF Store
  <2>3. Table!Put(c, v)
    BY <1>5, <2>2 DEF Put, Table!Put, Table!Write
  <2>4. QED
    BY <2>3 DEF Table!Step
<1>6. ASSUME NEW D \in SUBSET Value, UNCHANGED copy,
             \A i \in ObjectId : store'.vals[i] = IF \E d \in D : IdOf[d] = i
                                            THEN Nil ELSE store.vals[i],
             store' \in Store, stale' = stale \cup Outdated(store, D)
      PROVE  Table!Step
  <2>1. store'.vals = [i \in ObjectId |-> IF \E d \in D : IdOf[d] = i THEN Nil
                                                              ELSE store.vals[i]]
    BY <1>6 DEF Store
  <2>2. Table!Erase(D)
    BY <1>6, <2>1 DEF Table!Erase, Outdated
  <2>3. QED
    BY <2>2 DEF Table!Step
<1>7. ASSUME NEW c \in Client, Del(c) PROVE Table!Step
  <2>1. copy[c] \in Value /\ {copy[c]} \in SUBSET Value
    BY <1>0, <1>7 DEF TypeOK, Del
  <2>2. store' \in Store /\ store'.vals = [store.vals EXCEPT ![IdOf[copy[c]]] = Nil]
    BY <1>0, <1>7, <2>1, DelTxParts DEF Del
  <2>3. \A i \in ObjectId : store'.vals[i] = IF \E d \in {copy[c]} : IdOf[d] = i
                                       THEN Nil ELSE store.vals[i]
    BY <1>0, <2>1, <2>2 DEF Store
  <2>4. UNCHANGED copy /\ stale' = stale \cup Outdated(store, {copy[c]})
    BY <1>7 DEF Del
  <2>5. QED
    BY <1>6, <2>1, <2>2, <2>3, <2>4
<1>8. ASSUME UNCHANGED <<store, stale, copy>> PROVE UNCHANGED Table!vars
  BY <1>8
<1>9. ASSUME BatchCommit PROVE Table!Step
  <2> DEFINE p == batch.pending
             W == {v \in Value : \E i \in ObjectId : v = p.vals[i] /\ v # store.vals[i]}
  <2>1. p \in Store /\ Keyed(p) /\ store' = p /\ UNCHANGED <<copy, stale>>
        /\ \A i \in ObjectId : store.vals[i] # Nil => p.vals[i] # Nil
    BY <1>9, StatesOf DEF BatchCommit, UInv, IInv, Good, Grows
  <2> HIDE DEF p
  <2>2. \A v \in W : v = p.vals[IdOf[v]] /\ v # store.vals[IdOf[v]] /\ v # Nil
    BY <2>1, ConstantsAssumption DEF Keyed
  <2>3. ASSUME NEW i \in ObjectId
        PROVE  p.vals[i] = IF \E v \in W : IdOf[v] = i
                           THEN CHOOSE v \in W : IdOf[v] = i ELSE store.vals[i]
    <3>1. CASE \E v \in W : IdOf[v] = i
      <4>1. /\ (CHOOSE v \in W : IdOf[v] = i) \in W
            /\ IdOf[CHOOSE v \in W : IdOf[v] = i] = i
        BY <3>1
      <4>2. QED
        BY <2>2, <3>1, <4>1
    <3>2. CASE ~ \E v \in W : IdOf[v] = i
      <4>1. p.vals[i] \in Value \cup {Nil} /\ store.vals[i] \in Value \cup {Nil}
        BY <1>0, <2>1 DEF Store
      <4>2. CASE p.vals[i] = Nil
        BY <2>1, <3>2, <4>1, <4>2
      <4>3. CASE p.vals[i] # Nil
        BY <2>1, <3>2, <4>1, <4>3 DEF Keyed
      <4>4. QED
        BY <4>2, <4>3
    <3>3. QED
      BY <3>1, <3>2
  <2>4. p.vals = [i \in ObjectId |-> IF \E v \in W : IdOf[v] = i
                           THEN CHOOSE v \in W : IdOf[v] = i ELSE store.vals[i]]
    BY <2>1, <2>3 DEF Store
  <2>5. \A v, w \in W : IdOf[v] = IdOf[w] => v = w
    BY <2>2
  <2> HIDE DEF W
  <2>6. Table!Write(W)
    BY <2>1, <2>4, <2>5 DEF Table!Write
  <2>7. W \in SUBSET Value
    BY DEF W
  <2>8. QED
    BY <2>1, <2>6, <2>7 DEF Table!Step
<1>10. ASSUME FsckDelete PROVE Table!Step
  <2> DEFINE D == scan
  <2>1. D \in SUBSET Value
    BY <1>0, <1>10 DEF TypeOK, FsckDelete
  <2>2. /\ store' = DelAllTx(store, D) /\ UNCHANGED copy
        /\ stale' = stale \cup Outdated(store, D)
    BY <1>10 DEF FsckDelete
  <2> HIDE DEF D
  <2>3. /\ store' \in Store
        /\ \A i \in ObjectId : store'.vals[i] =
               IF \E d \in D : IdOf[d] = i THEN Nil ELSE store.vals[i]
    BY <1>0, <2>1, <2>2, DelAllTxParts
  <2>4. QED
    BY <1>6, <2>1, <2>2, <2>3
<1>11. ASSUME FsckPasses PROVE Table!Step
  <2>1. store'.vals = store.vals /\ UNCHANGED <<copy, stale>>
    BY <1>0, <1>11, PassesGood DEF FsckPasses
  <2>2. QED
    BY <2>1 DEF Table!Mend, Table!Step
<1>12. ASSUME Restart PROVE Table!Step
  BY <1>12 DEF Restart, Table!Forget, Table!Step
<1>13. QED
  BY <1>1, <1>2, <1>3, <1>4, <1>5, <1>7, <1>8, <1>9, <1>10, <1>11, <1>12
     DEF Next, vars, GetValue, BatchPut, BatchStep, FsckScan

\* With unique keys an indexed collection is a table of values that can be
\* looked up by key: the pointers, the buckets, the half-done batch and the two
\* phases of Fsck are invisible to its clients.
THEOREM Implements == UniqueKeys => (Spec => ImplementsTable)
<1> SUFFICES ASSUME UniqueKeys PROVE Spec => ImplementsTable
  OBVIOUS
<1>1. Init => UInv /\ Grows /\ Table!Init
  BY InitIInv DEF Init, EmptyStore, Grows, Table!Init, Lookup
<1>2. UInv /\ Grows /\ [Next]_vars => (UInv /\ Grows)'
  BY StepIInv, StepGrows DEF UInv
<1>3. UInv => Table!Answered
  BY LookupAnswers DEF Table!Answered
<1>4. UInv' => Table!Answered'
  BY <1>3, PTL
<1>5. UInv /\ Grows /\ [Next]_vars => [Table!Next]_(Table!vars)
  BY <1>2, <1>4, StepTable DEF Table!Next
<1>6. QED
  BY <1>1, <1>2, <1>5, PTL DEF Spec, ImplementsTable, Table!Spec

-----------------------------------------------------------------------------
(* The file and its backups.                                                   *)

HIDE ConstantsAssumption

BackupType ==
    /\ minute \in Minute /\ commits \in 0 .. MaxCommit
    /\ handle \in {"open", "closed", "nil"} /\ due \in BOOLEAN
    /\ loop \in {"none", "start", "wait", "tick", "quit"}
    /\ stage \in {"none", "created", "copying", "copied"}
    /\ ticked \in Minute /\ ticked <= minute
    /\ fn \in Minute /\ fn <= minute
    /\ snap \in 0 .. MaxCommit /\ snap <= commits
    /\ file \in [Minute -> {NoFile, Part} \cup 0 .. MaxCommit]
    /\ started \in (0 .. MaxCommit) \X Minute /\ started[1] <= commits /\ started[2] <= minute
    /\ spoiled \subseteq Minute

\* New and the loop's ticks are who writes a backup. That of New is of the state it started
\* from or a later one; a tick comes in a minute after it, even one that waited.
BackupInv ==
    /\ BackupType
    /\ stage # "none" <=> loop \in {"start", "tick"}
    /\ loop = "start" => /\ ~due /\ fn = started[2]
                         /\ stage \in {"copying", "copied"} => snap >= started[1]
    /\ loop \in {"wait", "tick"} => ticked >= started[2] /\ (due => ticked > started[2])
    /\ loop = "tick" => fn > started[2]
    /\ BackupsWhole

\* A tuple of a state and a minute, by its parts.
LEMMA StartedIs ==
    ASSUME NEW c \in 0 .. MaxCommit, NEW m \in Minute
    PROVE  /\ <<c, m>> \in (0 .. MaxCommit) \X Minute
           /\ <<c, m>>[1] = c /\ <<c, m>>[2] = m
OBVIOUS

\* The process is gone: a file that it was writing is spoiled.
LEMMA StepGone ==
    ASSUME BackupInv, Gone
    PROVE  BackupInv'
<1>1. BackupType'
  BY DEF BackupInv, BackupType, Gone
<1>2. BackupsWhole'
  <2> SUFFICES ASSUME NEW m \in Minute, m \notin spoiled'
               PROVE  file[m] \in {NoFile} \cup 0 .. commits
    BY DEF Gone, BackupsWhole
  <2>1. m \notin spoiled /\ ~(stage # "none" /\ fn = m)
    BY DEF Gone
  <2> QED BY <2>1 DEF BackupInv, BackupsWhole
<1> QED BY <1>1, <1>2 DEF BackupInv, Gone

\* A file is created in its minute: that of no other backup is touched.
LEMMA StepCreate ==
    ASSUME BackupInv, Create, UNCHANGED <<minute, commits>>,
           \/ loop' = "start" /\ ~due' /\ started' = <<commits, minute>> /\ ticked' = ticked
           \/ loop = "wait" /\ due /\ loop' = "tick" /\ ~due' /\ UNCHANGED <<ticked, started>>,
           handle' \in {"open", "closed", "nil"}, due' \in BOOLEAN
    PROVE  BackupInv'
<1>1. /\ stage = "none" /\ stage' = "created" /\ fn' = minute /\ snap' = snap
      /\ file' = [file EXCEPT ![minute] = Part] /\ spoiled' = spoiled \ {minute}
  BY DEF Create
<1>2. minute \in Int /\ ticked \in Int /\ started[2] \in Int /\ commits \in Int /\ minute \in Minute
      /\ commits \in 0 .. MaxCommit
  BY BackupAssumption DEF BackupInv, BackupType, Minute
<1>3. started' \in (0 .. MaxCommit) \X Minute /\ started'[1] <= commits /\ started'[2] <= minute
      /\ loop' = "start" => started'[2] = minute
  BY <1>2, StartedIs DEF BackupInv, BackupType
<1>4. BackupType'
  BY <1>1, <1>2, <1>3 DEF BackupInv, BackupType
<1>5. loop' = "tick" => ticked > started[2] /\ minute > started[2] /\ started' = started
  BY <1>2 DEF BackupInv, BackupType
<1>6. BackupsWhole'
  <2>1. \A m \in Minute : m # minute => file'[m] = file[m]
    BY <1>1, <1>2 DEF BackupInv, BackupType
  <2>2. ASSUME NEW m \in Minute, m \notin spoiled'
        PROVE  file'[m] \in {NoFile} \cup 0 .. commits \/ fn' = m
    BY <1>1, <2>1, <2>2 DEF BackupInv, BackupsWhole
  <2>3. ASSUME loop' = "tick"
        PROVE  started[2] \in spoiled' \/ file'[started[2]] \in started[1] .. commits
    <3>1. started[2] \in Minute /\ started[2] # minute
      BY <1>2, <1>5, <2>3 DEF BackupInv, BackupType
    <3>2. started[2] \in spoiled \/ file[started[2]] \in started[1] .. commits
      BY <2>3 DEF BackupInv, BackupsWhole
    <3> QED BY <1>1, <2>1, <3>1, <3>2
  <2> QED BY <1>1, <1>5, <2>2, <2>3 DEF BackupsWhole
<1> QED BY <1>1, <1>3, <1>4, <1>5, <1>6 DEF BackupInv

\* Steps that leave the files and what is written alone.
LEMMA FilesStay ==
    ASSUME BackupInv, UNCHANGED <<stage, fn, snap, file, started, spoiled>>,
           minute' \in Minute, minute' >= minute, commits' \in 0 .. MaxCommit, commits' >= commits,
           handle' \in {"open", "closed", "nil"},
           \/ UNCHANGED <<loop, due, ticked>>
           \/ loop = "wait" /\ loop' = "quit" /\ UNCHANGED <<due, ticked>>
           \/ /\ loop \in {"wait", "tick"} /\ loop' = loop /\ due' = TRUE
              /\ ticked' = minute /\ minute > ticked
    PROVE  BackupInv'
<1>1. /\ minute \in Int /\ minute' \in Int /\ commits \in Int /\ commits' \in Int /\ ticked \in Int
      /\ fn \in Int /\ snap \in Int /\ started[1] \in Int /\ started[2] \in Int
  BY BackupAssumption DEF BackupInv, BackupType, Minute
<1>2. BackupType'
  <2>1. ticked' \in Minute /\ ticked' <= minute' /\ due' \in BOOLEAN
        /\ loop' \in {"none", "start", "wait", "tick", "quit"}
    <3>1. /\ ticked \in Minute /\ ticked <= minute /\ due \in BOOLEAN /\ TRUE \in BOOLEAN /\ minute \in Minute
          /\ loop \in {"none", "start", "wait", "tick", "quit"}
      BY DEF BackupInv, BackupType
    <3>2. ticked <= minute'
      BY <1>1, <3>1
    <3>3. CASE loop \in {"wait", "tick"} /\ loop' = loop /\ due' = TRUE /\ ticked' = minute /\ minute > ticked
      BY <1>1, <3>1, <3>3
    <3> QED BY <3>1, <3>2, <3>3
  <2>2. snap <= commits' /\ fn <= minute' /\ started[1] <= commits' /\ started[2] <= minute'
    BY <1>1 DEF BackupInv, BackupType
  <2> QED BY <2>1, <2>2 DEF BackupInv, BackupType
<1>3. BackupsWhole'
  <2>1. \A x : x \in 0 .. commits => x \in 0 .. commits'
    BY <1>1
  <2>2. \A x : x \in started[1] .. commits => x \in started[1] .. commits'
    BY <1>1
  <2> QED BY <2>1, <2>2 DEF BackupInv, BackupsWhole
<1>4. loop' \in {"wait", "tick"} => ticked' >= started[2] /\ (due' => ticked' > started[2])
  BY <1>1 DEF BackupInv
<1> QED BY <1>2, <1>3, <1>4 DEF BackupInv

\* A copy that fails takes its file along.
LEMMA StepNotCopied ==
    ASSUME BackupInv, NotCopied
    PROVE  BackupInv'
<1>1. /\ stage \in {"copying", "created"} /\ loop \in {"start", "tick"}
      /\ file' = [file EXCEPT ![fn] = NoFile] /\ stage' = "none"
      /\ UNCHANGED <<minute, commits, fn, snap, started, spoiled>>
      /\ \/ loop = "start" /\ loop' = "none" /\ handle' = "nil" /\ due' = FALSE /\ ticked' = ticked
         \/ /\ loop # "start" /\ loop' = "wait" /\ UNCHANGED <<handle, due>>
            /\ ticked' = ticked
  BY DEF NotCopied, Done, BackupInv
<1>2. BackupType'
  BY <1>1 DEF BackupInv, BackupType
<1>3. /\ \A m \in Minute : m # fn => file'[m] = file[m]
      /\ file'[fn] = NoFile
  BY <1>1 DEF BackupInv, BackupType
<1>4. BackupsWhole'
  <2>1. ASSUME NEW m \in Minute, m \notin spoiled PROVE file'[m] \in {NoFile} \cup 0 .. commits
    BY <1>3, <2>1 DEF BackupInv, BackupsWhole
  <2>2. ASSUME loop = "tick"
        PROVE  started[2] \in spoiled \/ file'[started[2]] \in started[1] .. commits
    <3>1. started[2] \in Minute /\ started[2] # fn
      BY <2>2, BackupAssumption DEF BackupInv, BackupType, Minute
    <3> QED BY <1>3, <2>2, <3>1 DEF BackupInv, BackupsWhole
  <2> QED BY <1>1, <2>1, <2>2 DEF BackupsWhole
<1> QED BY <1>1, <1>2, <1>4 DEF BackupInv

\* A backup is whole when it is flushed.
LEMMA StepFlush ==
    ASSUME BackupInv, Flush
    PROVE  BackupInv'
<1>1. /\ stage = "copied" /\ loop \in {"start", "tick"} /\ stage' = "none" /\ loop' = "wait"
      /\ UNCHANGED <<minute, commits, handle, due, fn, snap, started>>
      /\ ticked' = IF loop = "start" THEN minute ELSE ticked
      /\ \/ file' = [file EXCEPT ![fn] = snap] /\ spoiled' = spoiled
         \/ spoiled' = spoiled \cup {fn} /\ file' = file
  BY DEF Flush, Done, BackupInv
<1>2. /\ fn \in Minute /\ snap \in 0 .. commits /\ minute \in Int /\ ticked \in Int /\ started[2] \in Int
      /\ snap \in Int /\ commits \in Int /\ started[1] \in Int /\ fn \in Int /\ started[2] \in Minute
  BY BackupAssumption DEF BackupInv, BackupType, Minute
<1>3. BackupType'
  <2>1. minute \in Minute /\ minute <= minute /\ ticked \in Minute /\ ticked <= minute
    BY <1>2 DEF BackupInv, BackupType
  <2>2. ticked' \in Minute /\ ticked' <= minute
    BY <1>1, <2>1
  <2>3. file' \in [Minute -> {NoFile, Part} \cup 0 .. MaxCommit]
    <3>1. snap \in 0 .. MaxCommit /\ file \in [Minute -> {NoFile, Part} \cup 0 .. MaxCommit]
      BY DEF BackupInv, BackupType
    <3> QED BY <1>1, <3>1
  <2>4. spoiled' \subseteq Minute
    BY <1>1, <1>2 DEF BackupInv, BackupType
  <2> QED BY <1>1, <2>2, <2>3, <2>4 DEF BackupInv, BackupType
<1>4. /\ \A m \in Minute : m # fn => file'[m] = file[m] /\ (m \in spoiled' <=> m \in spoiled)
      /\ fn \notin spoiled' => file'[fn] = snap
  BY <1>1, <1>2 DEF BackupInv, BackupType
<1>5. BackupsWhole'
  <2>1. ASSUME NEW m \in Minute, m \notin spoiled' PROVE file'[m] \in {NoFile} \cup 0 .. commits
    BY <1>2, <1>4, <2>1 DEF BackupInv, BackupsWhole
  <2>2. started[2] \in spoiled' \/ file'[started[2]] \in started[1] .. commits
    <3>1. CASE loop = "start"
      <4>1. fn = started[2] /\ snap >= started[1]
        BY <1>1, <3>1 DEF BackupInv
      <4>2. snap \in started[1] .. commits
        BY <1>2, <4>1
      <4> QED BY <1>4, <4>1, <4>2
    <3>2. CASE loop = "tick"
      <4>1. started[2] # fn
        BY <1>2, <3>2 DEF BackupInv
      <4> QED BY <1>2, <1>4, <3>2, <4>1 DEF BackupInv, BackupsWhole
    <3> QED BY <1>1, <3>1, <3>2
  <2> QED BY <1>1, <2>1, <2>2 DEF BackupsWhole
<1>6. ticked' >= started[2] /\ (due => ticked' > started[2])
  BY <1>1, <1>2 DEF BackupInv, BackupType
<1> QED BY <1>1, <1>3, <1>5, <1>6 DEF BackupInv

\* The copy goes on: what it reads was committed, after the start if New reads it.
LEMMA StepCopies ==
    ASSUME BackupInv, stage \in {"created", "copying"}, stage' \in {"copying", "copied"},
           UNCHANGED <<minute, commits, handle, loop, due, ticked, fn, file, started, spoiled>>,
           snap' = commits \/ (stage = "copying" /\ snap' = snap)
    PROVE  BackupInv'
<1>1. commits \in 0 .. MaxCommit /\ commits <= commits /\ started[1] <= commits /\ commits >= started[1]
  BY BackupAssumption DEF BackupInv, BackupType
<1>2. BackupType'
  BY <1>1 DEF BackupInv, BackupType
<1>3. BackupsWhole'
  BY DEF BackupInv, BackupsWhole
<1> QED BY <1>1, <1>2, <1>3 DEF BackupInv

\* A file that nobody writes restores to a state the database was in, unless its writer died
\* or could not flush it, and while the bot runs it has a backup of the state it started from
\* or of a later one, whatever ticks, failed copies, Close and crashes meet (bolt.go:75,
\* bolt.go:131-134).
THEOREM BackupsAreWhole == BackupSpec => []BackupsWhole
<1>1. BackupInit => BackupInv
  <2> SUFFICES ASSUME BackupInit PROVE BackupInv
    OBVIOUS
  <2>1. 0 \in Minute /\ 0 \in 0 .. MaxCommit
    BY BackupAssumption DEF Minute
  <2>2. started \in (0 .. MaxCommit) \X Minute /\ started[1] = 0 /\ started[2] = 0
    BY <2>1, StartedIs DEF BackupInit
  <2>3. file \in [Minute -> {NoFile, Part} \cup 0 .. MaxCommit]
    BY DEF BackupInit
  <2>4. /\ minute = 0 /\ commits = 0 /\ handle = "nil" /\ loop = "none" /\ due = FALSE /\ ticked = 0
        /\ stage = "none" /\ fn = 0 /\ snap = 0 /\ spoiled = {}
    BY DEF BackupInit
  <2>5. BackupType
    <3>1. minute \in Minute /\ ticked \in Minute /\ fn \in Minute /\ commits \in 0 .. MaxCommit /\ snap \in 0 .. MaxCommit
      BY <2>1, <2>4
    <3>2. handle \in {"open", "closed", "nil"} /\ loop \in {"none", "start", "wait", "tick", "quit"}
          /\ stage \in {"none", "created", "copying", "copied"}
      BY <2>4
    <3>3. due \in BOOLEAN /\ spoiled \subseteq Minute
      BY <2>4
    <3>4. ticked <= minute /\ fn <= minute /\ snap <= commits /\ started[1] <= commits /\ started[2] <= minute
      BY <2>2, <2>4
    <3> QED BY <2>2, <2>3, <3>1, <3>2, <3>3, <3>4 DEF BackupType
  <2> QED BY <2>5 DEF BackupInit, BackupInv, BackupsWhole
<1>2. BackupInv /\ [BackupNext]_backupVars => BackupInv'
  <2> SUFFICES ASSUME BackupInv, [BackupNext]_backupVars PROVE BackupInv'
    OBVIOUS
  <2> USE DEF doBackupVars
  <2>1. /\ minute \in Minute /\ commits \in 0 .. MaxCommit /\ handle \in {"open", "closed", "nil"}
        /\ minute >= minute /\ commits >= commits
    BY BackupAssumption DEF BackupInv, BackupType, Minute
  <2>2. CASE New
    BY <2>2, StepCreate DEF New
  <2>3. CASE Tick
    BY <2>1, <2>3, FilesStay DEF Tick
  <2>4. CASE TickBackup
    BY <2>1, <2>4, StepCreate DEF TickBackup
  <2>5. CASE Quit
    BY <2>1, <2>5, FilesStay DEF Quit
  <2>6. CASE View
    BY <2>6, StepCopies, StepGone DEF View
  <2>7. CASE Copied
    BY <2>7, StepCopies DEF Copied
  <2>8. CASE CloseFile \/ Close
    BY <2>1, <2>8, FilesStay DEF CloseFile, Close
  <2>9. CASE Commit
    <3>1. commits' \in 0 .. MaxCommit /\ commits' >= commits
      BY <2>1, <2>9, BackupAssumption DEF Commit
    <3> QED BY <2>1, <2>9, <3>1, FilesStay DEF Commit
  <2>10. CASE Die
    BY <2>10, StepGone DEF Die
  <2>11. CASE Minutes
    <3>1. minute' \in Minute /\ minute' >= minute
      BY <2>1, <2>11, BackupAssumption DEF Minutes, Minute
    <3> QED BY <2>1, <2>11, <3>1, FilesStay DEF Minutes
  <2>12. CASE UNCHANGED backupVars
    BY <2>1, <2>12, FilesStay DEF backupVars
  <2> QED BY <2>2, <2>3, <2>4, <2>5, <2>6, <2>7, <2>8, <2>9, <2>10, <2>11, <2>12,
             StepNotCopied, StepFlush DEF BackupNext
<1>3. BackupInv => BackupsWhole
  BY DEF BackupInv
<1> QED BY <1>1, <1>2, <1>3, PTL DEF BackupSpec

=============================================================================
