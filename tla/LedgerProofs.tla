---------------------------- MODULE LedgerProofs ----------------------------
(***************************************************************************)
(* Proofs about Ledger, for every set of processes, committers, readers    *)
(* and batches, and every ledger a promotion may have left at the start.   *)
(***************************************************************************)
EXTENDS Ledger, TLAPS

(* An element of a sequence.                                                  *)
LEMMA SeqItem == ASSUME NEW S, NEW q \in Seq(S), NEW i \in 1..Len(q) PROVE q[i] \in S
  OBVIOUS

(* The empty sequence.                                                        *)
LEMMA SeqEmpty ==
    ASSUME NEW S
    PROVE  << >> \in Seq(S) /\ Len(<< >>) = 0 /\ \A q \in Seq(S) : q # << >> => Len(q) \in Nat \ {0}
  OBVIOUS

(* A sequence is a function on its positions.                                 *)
LEMMA SeqLen ==
    ASSUME NEW S, NEW q \in Seq(S)
    PROVE  Len(q) \in Nat /\ DOMAIN q = 1..Len(q) /\ q \in [1..Len(q) -> S]
  OBVIOUS

(* Sequences with the same elements are the same.                             *)
LEMMA SeqSame ==
    ASSUME NEW S, NEW q \in Seq(S), NEW r \in Seq(S), Len(q) = Len(r), \A i \in 1..Len(q) : q[i] = r[i]
    PROVE  q = r
  OBVIOUS

(* The elements of a concatenation.                                           *)
LEMMA SeqConcat ==
    ASSUME NEW S, NEW q \in Seq(S), NEW r \in Seq(S)
    PROVE  /\ q \o r \in Seq(S) /\ Len(q \o r) = Len(q) + Len(r)
           /\ \A i \in 1..(Len(q) + Len(r)) : (q \o r)[i] = IF i <= Len(q) THEN q[i] ELSE r[i - Len(q)]
  OBVIOUS

(* The empty sequence adds nothing.                                           *)
LEMMA SeqConcatEmpty == ASSUME NEW S, NEW q \in Seq(S) PROVE q \o << >> = q /\ << >> \o q = q
  OBVIOUS

(* The elements of a slice.                                                   *)
LEMMA SeqSlice ==
    ASSUME NEW S, NEW q, NEW a \in Nat \ {0}, NEW b \in Nat, \A i \in a..b : q[i] \in S
    PROVE  /\ SubSeq(q, a, b) \in Seq(S) /\ Len(SubSeq(q, a, b)) = IF a <= b THEN b - a + 1 ELSE 0
           /\ \A i \in 1..(b - a + 1) : SubSeq(q, a, b)[i] = q[a + i - 1]
  OBVIOUS

(* The first elements of a sequence.                                          *)
LEMMA SeqPrefix ==
    ASSUME NEW S, NEW q \in Seq(S), NEW n \in Nat, n <= Len(q)
    PROVE  /\ SubSeq(q, 1, n) \in Seq(S) /\ Len(SubSeq(q, 1, n)) = n
           /\ \A i \in 1..n : SubSeq(q, 1, n)[i] = q[i]
  OBVIOUS

(* The slice of every position.                                               *)
LEMMA SeqWhole == ASSUME NEW S, NEW q \in Seq(S) PROVE SubSeq(q, 1, Len(q)) = q
  OBVIOUS

(* The elements after one is appended.                                        *)
LEMMA SeqAppend ==
    ASSUME NEW S, NEW q \in Seq(S), NEW e \in S
    PROVE  /\ Append(q, e) \in Seq(S) /\ Len(Append(q, e)) = Len(q) + 1 /\ Append(q, e)[Len(q) + 1] = e
           /\ \A i \in 1..Len(q) : Append(q, e)[i] = q[i]
  OBVIOUS

-----------------------------------------------------------------------------
(* Lemmas about the hash chain and the rows of a batch *)

\* A function on 1..n with values in S is a sequence over S of length n.
LEMMA SeqOfFunction ==
  ASSUME NEW S, NEW n \in Nat, NEW f \in [1 .. n -> S]
  PROVE  f \in Seq(S) /\ Len(f) = n
  OBVIOUS

\* The suffix a batch adds to the chain hash is a sequence of pairs.
LEMMA SuffixType ==
  ASSUME NEW seq \in Nat, NEW evs \in Seq(Event), NEW i \in 0 .. Len(evs)
  PROVE  /\ [j \in 1 .. i |-> <<seq + j, evs[j]>>] \in Hash
         /\ Len([j \in 1 .. i |-> <<seq + j, evs[j]>>]) = i
<1>1. i \in Nat
  OBVIOUS
<1>2. \A j \in 1 .. i : <<seq + j, evs[j]>> \in Nat \X Event
  BY <1>1, SeqItem
<1>3. [j \in 1 .. i |-> <<seq + j, evs[j]>>] \in [1 .. i -> Nat \X Event]
  BY <1>2
<1> QED
  BY <1>1, <1>3, SeqOfFunction DEF Hash

\* BatchHash yields a hash.
LEMMA BatchHashType ==
  ASSUME NEW prev \in Hash, NEW seq \in Nat, NEW evs \in Seq(Event),
         NEW i \in 0 .. Len(evs)
  PROVE  BatchHash(prev, seq, evs, i) \in Hash
  BY SuffixType, SeqConcat DEF BatchHash, Hash

\* No events leave the previous hash as it is.
LEMMA BatchHashZero ==
  ASSUME NEW prev \in Hash, NEW seq \in Nat, NEW evs \in Seq(Event)
  PROVE  BatchHash(prev, seq, evs, 0) = prev
<1> DEFINE suffix == [j \in 1 .. 0 |-> <<seq + j, evs[j]>>]
<1>1. suffix \in Hash /\ Len(suffix) = 0
  <2>1. 0 \in 0 .. Len(evs)
    BY SeqLen
  <2> QED
    BY <2>1, SuffixType, Zenon
<1>2. suffix = <<>>
  BY <1>1, SeqEmpty DEF Hash
<1> QED
  BY <1>2, SeqConcatEmpty DEF BatchHash, Hash

\* One more event is one more application of hash_entry.
LEMMA BatchHashStep ==
  ASSUME NEW prev \in Hash, NEW seq \in Nat, NEW evs \in Seq(Event),
         NEW i \in 1 .. Len(evs)
  PROVE  BatchHash(prev, seq, evs, i) =
           hash_entry(seq + i, BatchHash(prev, seq, evs, i - 1), evs[i])
<1> DEFINE long == [j \in 1 .. i |-> <<seq + j, evs[j]>>]
           short == [j \in 1 .. (i - 1) |-> <<seq + j, evs[j]>>]
           last == <<seq + i, evs[i]>>
<1>1. i \in Nat /\ i - 1 \in 0 .. Len(evs) /\ i \in 0 .. Len(evs)
  OBVIOUS
<1>2. long \in Hash /\ Len(long) = i
  BY <1>1, SuffixType, Zenon
<1>3. short \in Hash /\ Len(short) = i - 1
  BY <1>1, SuffixType, Zenon
<1>4. last \in Nat \X Event
  BY <1>1, SeqItem
<1> DEFINE lhs == prev \o long
           rhs == Append(prev \o short, last)
<1>5. /\ lhs \in Hash
      /\ Len(lhs) = Len(prev) + i
      /\ \A k \in 1 .. Len(prev) + i : lhs[k] =
           IF k <= Len(prev) THEN prev[k] ELSE long[k - Len(prev)]
  BY <1>2, SeqConcat DEF Hash
<1>6. /\ prev \o short \in Hash
      /\ Len(prev \o short) = Len(prev) + (i - 1)
      /\ \A k \in 1 .. Len(prev) + (i - 1) : (prev \o short)[k] =
           IF k <= Len(prev) THEN prev[k] ELSE short[k - Len(prev)]
  BY <1>3, SeqConcat DEF Hash
<1>7. Len(prev) \in Nat
  BY SeqLen DEF Hash
<1>8. /\ rhs \in Hash
      /\ Len(rhs) = Len(prev) + i
      /\ \A k \in 1 .. Len(prev) + (i - 1) : rhs[k] = (prev \o short)[k]
      /\ rhs[Len(prev) + i] = last
  <2> DEFINE s == prev \o short
  <2> HIDE DEF s, last
  <2> SUFFICES Append(s, last) \in Seq(Nat \X Event)
             /\ Len(Append(s, last)) = Len(s) + 1
             /\ \A k \in 1 .. Len(s) : Append(s, last)[k] = s[k]
             /\ Append(s, last)[Len(s) + 1] = last
    BY <1>1, <1>6, <1>7 DEF s, Hash
  <2> s \in Seq(Nat \X Event) /\ last \in Nat \X Event
    BY <1>4, <1>6 DEF Hash, s
  <2> QED
    BY SeqAppend
<1>9. \A k \in 1 .. Len(lhs) : lhs[k] = rhs[k]
  <2> TAKE k \in 1 .. Len(lhs)
  <2>1. CASE k <= Len(prev)
    BY <2>1, <1>1, <1>5, <1>6, <1>7, <1>8
  <2>2. CASE k > Len(prev) /\ k < Len(prev) + i
    <3>1. k - Len(prev) \in 1 .. (i - 1)
      BY <2>2, <1>1, <1>5, <1>7
    <3>2. short[k - Len(prev)] = long[k - Len(prev)]
      BY <3>1, <1>1
    <3> QED
      BY <2>2, <3>1, <3>2, <1>1, <1>5, <1>6, <1>7, <1>8
  <2>3. CASE k = Len(prev) + i
    <3>1. lhs[k] = long[i]
      <4>1. /\ k \in 1 .. Len(prev) + i
            /\ ~ (k <= Len(prev))
            /\ k - Len(prev) = i
        BY <2>3, <1>1, <1>7
      <4> QED
        BY <4>1, <1>5
    <3>2. long[i] = last
      BY <1>1
    <3> QED
      BY <2>3, <3>1, <3>2, <1>8
  <2>4. k <= Len(prev) \/ (k > Len(prev) /\ k < Len(prev) + i) \/ k = Len(prev) + i
    <3>1. k \in 1 .. Len(prev) + i
      BY <1>5
    <3> QED
      BY <3>1, <1>1, <1>7
  <2> QED
    BY <2>1, <2>2, <2>3, <2>4
<1> HIDE DEF lhs, rhs
<1>10. lhs = rhs
  BY <1>5, <1>8, <1>9, SeqSame DEF Hash
<1> QED
  BY <1>10, Zenon DEF BatchHash, hash_entry, lhs, rhs

\* The rows of a batch: as many as it has events, each over the hash before it.
LEMMA NewRowsType ==
  ASSUME NEW prev \in Hash, NEW seq \in Nat, NEW b \in Batch
  PROVE  /\ NewRows(prev, seq, b) \in Rows
         /\ Len(NewRows(prev, seq, b)) = Len(eventsOf[b])
         /\ Len(eventsOf[b]) \in Nat \ {0}
<1> DEFINE evs == eventsOf[b]
<1>1. evs \in Seq(Event) /\ evs # <<>>
  BY LedgerAssumption
<1>2. Len(evs) \in Nat \ {0}
  BY <1>1, SeqEmpty
<1>3. ASSUME NEW i \in 1 .. Len(evs)
      PROVE  [seq |-> seq + i, event |-> evs[i],
              prev |-> BatchHash(prev, seq, evs, i - 1),
              hash |-> BatchHash(prev, seq, evs, i), batch |-> b] \in Row
  <2>1. i \in 0 .. Len(evs) /\ i - 1 \in 0 .. Len(evs) /\ seq + i \in Nat
    BY <1>2
  <2>2. evs[i] \in Event
    BY <1>1, SeqItem
  <2>3. BatchHash(prev, seq, evs, i) \in Hash
    BY <1>1, <2>1, BatchHashType
  <2>4. BatchHash(prev, seq, evs, i - 1) \in Hash
    BY <1>1, <2>1, BatchHashType
  <2> QED
    BY <2>1, <2>2, <2>3, <2>4 DEF Row
<1>4. NewRows(prev, seq, b) \in [1 .. Len(evs) -> Row]
  BY <1>3 DEF NewRows
<1> QED
  BY <1>2, <1>4, SeqOfFunction DEF Rows

\* The columns of the k-th row of a batch.
LEMMA NewRowColumns ==
  ASSUME NEW prev, NEW seq, NEW b, NEW k \in 1 .. Len(eventsOf[b])
  PROVE  /\ NewRows(prev, seq, b)[k].seq = seq + k
         /\ NewRows(prev, seq, b)[k].event = eventsOf[b][k]
         /\ NewRows(prev, seq, b)[k].prev = BatchHash(prev, seq, eventsOf[b], k - 1)
         /\ NewRows(prev, seq, b)[k].hash = BatchHash(prev, seq, eventsOf[b], k)
         /\ NewRows(prev, seq, b)[k].batch = b
  BY DEF NewRows

\* Leaves maps rows to their hashes, one for one.
LEMMA LeavesType ==
  ASSUME NEW rows \in Rows
  PROVE  /\ Leaves(rows) \in Seq(Hash)
         /\ Len(Leaves(rows)) = Len(rows)
         /\ \A i \in 1 .. Len(rows) : Leaves(rows)[i] = rows[i].hash
<1>1. Len(rows) \in Nat /\ DOMAIN rows = 1 .. Len(rows)
  BY SeqLen DEF Rows
<1>2. \A i \in 1 .. Len(rows) : rows[i].hash \in Hash
  <2>1. \A i \in 1 .. Len(rows) : rows[i] \in Row
    BY SeqItem DEF Rows
  <2> QED
    BY <2>1 DEF Row
<1>3. Leaves(rows) \in [1 .. Len(rows) -> Hash]
  BY <1>1, <1>2 DEF Leaves
<1> QED
  BY <1>1, <1>3, SeqOfFunction DEF Leaves

\* The hash of the last stored row, or of genesis, is a hash.
LEMMA TipType ==
  ASSUME entries \in Rows
  PROVE  tip_hash \in Hash /\ max_seq \in Nat
<1>1. Len(entries) \in Nat
  BY SeqLen DEF Rows
<1>2. CASE entries = <<>>
  BY <1>1, <1>2, SeqEmpty DEF tip_hash, max_seq, Genesis, Hash
<1>3. CASE entries # <<>>
  <2>1. Len(entries) \in 1 .. Len(entries)
    BY <1>1, <1>3, SeqEmpty DEF Rows
  <2>2. entries[Len(entries)].hash \in Hash /\ entries[Len(entries)].seq \in Nat
    <3>1. entries[Len(entries)] \in Row
      BY <2>1, SeqItem DEF Rows
    <3> QED
      BY <3>1 DEF Row
  <2> QED
    BY <1>1, <1>3, <2>2 DEF tip_hash, max_seq
<1> QED
  BY <1>2, <1>3

\* The count check returns lists of leaf hashes.
LEMMA ExtendCacheType ==
  ASSUME NEW cached \in Seq(Hash), NEW stored \in Seq(Hash), NEW new \in Seq(Hash)
  PROVE  ExtendCache(cached, stored, new) \in
           [leaves : Seq(Hash), cache : Seq(Hash)]
<1>1. cached \o new \in Seq(Hash) /\ stored \o new \in Seq(Hash)
  BY SeqConcat
<1> QED
  BY <1>1 DEF ExtendCache

\* ensure_cache_covers leaves a list of leaf hashes.
LEMMA CoverCacheType ==
  ASSUME NEW cached \in Seq(Hash), NEW stored \in Seq(Hash), NEW n \in Nat,
         Len(cached) >= n \/ n \in 0 .. Len(stored)
  PROVE  CoverCache(cached, stored, n) \in Seq(Hash)
<1>1. CASE Len(cached) >= n
  BY <1>1 DEF CoverCache
<1>2. CASE n \in 0 .. Len(stored)
  <2>1. \A i \in 1 .. n : stored[i] \in Hash
    BY <1>2, SeqItem, SeqLen
  <2>2. SubSeq(stored, 1, n) \in Seq(Hash)
    BY <2>1, SeqSlice
  <2> QED
    BY <2>2 DEF CoverCache
<1> QED
  BY <1>1, <1>2

\* Adding rows keeps the ledger's type.
LEMMA DurableType ==
  ASSUME LedgerTypeOK, LockInv, NEW c \in Committer, Durable(c)
  PROVE  /\ entries' \in Rows
         /\ batches' \in SUBSET BatchRow
         /\ sths' \in SUBSET TreeHead
         /\ lock' \in Committer \cup {NoOne}
<1>1. /\ entries \in Rows /\ head[c].rows \in Rows /\ head[c].leaves \in Seq(Hash)
      /\ job[c] \in Batch
  BY DEF LedgerTypeOK, LockInv, Durable
<1>2. entries' \in Rows
  BY <1>1, SeqConcat DEF Durable, Rows
<1>3. /\ max_seq + Len(head[c].rows) \in Nat
      /\ Len(head[c].leaves) \in Nat
  <2>1. max_seq \in Nat
    BY <1>1, TipType
  <2>2. Len(head[c].rows) \in Nat /\ Len(head[c].leaves) \in Nat
    BY <1>1, SeqLen DEF Rows
  <2> QED
    BY <2>1, <2>2
<1>4. [id |-> job[c], last |-> max_seq + Len(head[c].rows),
       root |-> head[c].leaves] \in BatchRow
  BY <1>1, <1>3 DEF BatchRow
<1>5. [size |-> Len(head[c].leaves), root |-> head[c].leaves] \in TreeHead
  BY <1>1, <1>3 DEF TreeHead
<1>6. batches' \in SUBSET BatchRow
  BY <1>4 DEF Durable, LedgerTypeOK
<1>7. sths' \in SUBSET TreeHead
  BY <1>5 DEF Durable, LedgerTypeOK
<1> QED
  BY <1>2, <1>6, <1>7 DEF Durable

\* A prefix no longer than the first list is not changed by what follows.
LEMMA SubSeqGrow ==
  ASSUME NEW S, NEW s \in Seq(S), NEW t \in Seq(S), NEW n \in 0 .. Len(s)
  PROVE  SubSeq(s \o t, 1, n) = SubSeq(s, 1, n)
<1>1. Len(s) \in Nat /\ Len(t) \in Nat /\ n \in Nat
  BY SeqLen
<1>2. \A i \in 1 .. n : s[i] \in S /\ (s \o t)[i] = s[i]
  BY <1>1, SeqItem, SeqConcat
<1>3. /\ SubSeq(s, 1, n) \in Seq(S) /\ Len(SubSeq(s, 1, n)) = n
      /\ \A i \in 1 .. n : SubSeq(s, 1, n)[i] = s[i]
  BY <1>1, <1>2, SeqSlice
<1>4. /\ SubSeq(s \o t, 1, n) \in Seq(S) /\ Len(SubSeq(s \o t, 1, n)) = n
      /\ \A i \in 1 .. n : SubSeq(s \o t, 1, n)[i] = (s \o t)[i]
  BY <1>1, <1>2, SeqSlice
<1> QED
  BY <1>2, <1>3, <1>4, SeqSame

-----------------------------------------------------------------------------
(* Types *)

\* Replacing a field of a record keeps the record's type.
LEMMA HeadRecord ==
  ASSUME NEW R, NEW L, NEW h \in [rows : R, leaves : L], NEW l \in L
  PROVE  /\ [h EXCEPT !.leaves = l] \in [rows : R, leaves : L]
         /\ [h EXCEPT !.leaves = l] = [rows |-> h.rows, leaves |-> l]
  OBVIOUS

\* Replacing a field of a prepared head keeps its type.
LEMMA PrepRecord ==
  ASSUME NEW G, NEW H, NEW L,
         NEW p \in [stage : G, tip : H, seq : Nat, leaves : L],
         NEW g \in G, NEW n \in Nat, NEW l \in L
  PROVE  /\ [p EXCEPT !.stage = g, !.seq = n]
              \in [stage : G, tip : H, seq : Nat, leaves : L]
         /\ [p EXCEPT !.stage = g, !.leaves = l]
              \in [stage : G, tip : H, seq : Nat, leaves : L]
  BY Zenon

\* The answer of a reader that has just started has its type.
LEMMA ReadRecord ==
  ASSUME NEW n \in Nat
  PROVE  [size |-> n, leaves |-> <<>>] \in [size : Nat, leaves : Seq(Hash)]
  OBVIOUS

\* Initially every variable has its type.
LEMMA TypeInit == Init => LedgerTypeOK
<1> SUFFICES ASSUME Init PROVE LedgerTypeOK
  OBVIOUS
<1>1. /\ <<>> \in Rows /\ <<>> \in Seq(Hash) /\ <<>> \in Hash
  BY SeqEmpty DEF Rows, Hash
<1>2. entries \in Rows /\ batches \in SUBSET BatchRow /\ sths \in SUBSET TreeHead
  BY OriginAssumption DEF Init
<1> QED
  BY <1>1, <1>2, LedgerAssumption DEF Init, LedgerTypeOK, NoHead, NoPrep, NoAnswer

\* Every step keeps the types.
LEMMA TypeStep ==
  ASSUME LedgerTypeOK, LockInv, ReaderInv, [Next]_vars
  PROVE  LedgerTypeOK'
<1> USE DEF LedgerTypeOK, ledgerVars, committerVars, readerVars
<1>1. /\ <<>> \in Rows /\ <<>> \in Seq(Hash) /\ <<>> \in Hash
  BY SeqEmpty DEF Rows, Hash
<1>2. NoHead \in [rows : Rows, leaves : Seq(Hash)]
  BY <1>1 DEF NoHead
<1>3. NoAnswer \in [size : Nat, leaves : Seq(Hash)]
  BY <1>1 DEF NoAnswer
<1>4. \A c \in Committer : procOf[c] \in Proc
  BY LedgerAssumption
<1>5. \A r \in Reader : procOf[r] \in Proc
  BY LedgerAssumption
<1>6. tip_hash \in Hash /\ max_seq \in Nat
  BY TipType
<1>7. ASSUME NEW c \in Committer, CommitterNext(c) PROVE LedgerTypeOK'
  <2>1. ASSUME NEW b \in Batch, Begin(c, b) PROVE LedgerTypeOK'
    BY <2>1 DEF Begin
  <2>2. CASE InsertRows(c)
    <3>1. NewRows(tip_hash, max_seq, job[c]) \in Rows
      BY <2>2, <1>6, NewRowsType DEF InsertRows, LockInv
    <3>2. [rows |-> NewRows(tip_hash, max_seq, job[c]), leaves |-> <<>>]
            \in [rows : Rows, leaves : Seq(Hash)]
      BY <3>1, <1>1
    <3> QED
      BY <2>2, <3>2 DEF InsertRows
  <2>3. CASE ComputeRoot(c)
    <3> DEFINE p == procOf[c]
               x == ExtendCache(leaf_cache[p], Leaves(entries), Leaves(head[c].rows))
    <3>1. x \in [leaves : Seq(Hash), cache : Seq(Hash)]
      BY <1>4, LeavesType, ExtendCacheType
    <3>2. x.leaves \in Seq(Hash) /\ x.cache \in Seq(Hash)
      BY <3>1
    <3> HIDE DEF x
    <3>3. /\ leaf_cache' = [leaf_cache EXCEPT ![p] = x.cache]
          /\ head' = [head EXCEPT ![c].leaves = x.leaves]
          /\ pc'[c] \in {"sealed", "failed"}
          /\ pc' = [pc EXCEPT ![c] = pc'[c]]
          /\ UNCHANGED <<ledgerVars, lock, job, prep, readerVars>>
      BY <2>3 DEF ComputeRoot, x
    <3>4. head' \in [Committer -> [rows : Rows, leaves : Seq(Hash)]]
      <4>0. head[c] \in [rows : Rows, leaves : Seq(Hash)]
        OBVIOUS
      <4>1. [head[c] EXCEPT !.leaves = x.leaves] \in [rows : Rows, leaves : Seq(Hash)]
        BY <3>2, <4>0, HeadRecord, Zenon
      <4>2. head' = [head EXCEPT ![c] = [head[c] EXCEPT !.leaves = x.leaves]]
        BY <3>3
      <4> QED
        BY <4>1, <4>2
    <3>5. leaf_cache' \in [Proc -> Seq(Hash)]
      BY <3>2, <3>3, Zenon
    <3>6. pc' \in [Committer -> {"idle", "begun", "locked", "sealed", "failed"}]
      BY <3>3, Zenon
    <3> QED
      BY <3>3, <3>4, <3>5, <3>6
  <2>4. CASE CommitTx(c)
    <3>1. /\ entries' \in Rows
          /\ batches' \in SUBSET BatchRow
          /\ sths' \in SUBSET TreeHead
          /\ lock' \in Committer \cup {NoOne}
      BY <2>4, DurableType DEF CommitTx
    <3> QED
      BY <2>4, <3>1, <1>2 DEF CommitTx, Idle
  <2>5. CASE CommitTxUnanswered(c)
    <3>1. /\ entries' \in Rows
          /\ batches' \in SUBSET BatchRow
          /\ sths' \in SUBSET TreeHead
          /\ lock' \in Committer \cup {NoOne}
      BY <2>5, DurableType DEF CommitTxUnanswered
    <3> QED
      BY <2>5, <3>1 DEF CommitTxUnanswered
  <2>6. CASE Fail(c)
    BY <2>6 DEF Fail
  <2>7. CASE ResetCache(c)
    BY <2>7, <1>1, <1>2, <1>4 DEF ResetCache, Idle
  <2>8. CASE Rollback(c)
    BY <2>8 DEF Rollback
  <2>9. CASE Cancel(c)
    BY <2>9, <1>2 DEF Cancel, Idle
  <2> QED
    BY <1>7, <2>1, <2>2, <2>3, <2>4, <2>5, <2>6, <2>7, <2>8, <2>9 DEF CommitterNext
<1>8. ASSUME NEW b \in Batch, PrepareNext(b) PROVE LedgerTypeOK'
  <2>1. CASE PrepareTip(b)
    BY <2>1, <1>1, <1>6, Zenon DEF PrepareTip, NoPrep
  <2>2. CASE PrepareSeq(b)
    <3>0. prep[b] \in [stage : {"none", "tip", "seq", "signed"}, tip : Hash,
                       seq : Nat, leaves : Seq(Hash)]
      OBVIOUS
    <3>1. [prep[b] EXCEPT !.stage = "seq", !.seq = max_seq] \in
            [stage : {"none", "tip", "seq", "signed"}, tip : Hash,
             seq : Nat, leaves : Seq(Hash)]
      BY <3>0, <1>1, <1>6, PrepRecord, Zenon
    <3>2. prep' = [prep EXCEPT ![b] = [prep[b] EXCEPT !.stage = "seq", !.seq = max_seq]]
      BY <2>2, Zenon DEF PrepareSeq
    <3>3. UNCHANGED <<ledgerVars, lock, leaf_cache, committerVars, readerVars>>
      BY <2>2 DEF PrepareSeq
    <3> QED
      BY <3>1, <3>2, <3>3
  <2>3. CASE PrepareRoot(b)
    <3>0. prep[b] \in [stage : {"none", "tip", "seq", "signed"}, tip : Hash,
                       seq : Nat, leaves : Seq(Hash)]
      OBVIOUS
    <3>1. prep[b].tip \in Hash /\ prep[b].seq \in Nat
      BY <3>0
    <3> DEFINE l == Leaves(entries) \o Leaves(NewRows(prep[b].tip, prep[b].seq, b))
    <3>2. l \in Seq(Hash)
      BY <3>1, NewRowsType, LeavesType, SeqConcat
    <3>3. prep' = [prep EXCEPT ![b] = [prep[b] EXCEPT !.stage = "signed", !.leaves = l]]
      BY <2>3, Zenon DEF PrepareRoot
    <3> HIDE DEF l
    <3>4. [prep[b] EXCEPT !.stage = "signed", !.leaves = l] \in
            [stage : {"none", "tip", "seq", "signed"}, tip : Hash,
             seq : Nat, leaves : Seq(Hash)]
      BY <3>0, <1>6, <3>2, PrepRecord, Zenon
    <3>5. UNCHANGED <<ledgerVars, lock, leaf_cache, committerVars, readerVars>>
      BY <2>3 DEF PrepareRoot
    <3> QED
      BY <3>3, <3>4, <3>5
  <2> QED
    BY <1>8, <2>1, <2>2, <2>3 DEF PrepareNext
<1>9. ASSUME NEW r \in Reader, ReaderNext(r) PROVE LedgerTypeOK'
  <2>1. ASSUME NEW n \in 1 .. Len(entries), StartRead(r, n) PROVE LedgerTypeOK'
    <3>0. n \in Nat
      BY <1>1
    <3>1. [size |-> n, leaves |-> <<>>] \in [size : Nat, leaves : Seq(Hash)]
      BY <3>0, ReadRecord, Zenon
    <3>2. /\ answer' = [answer EXCEPT ![r] = [size |-> n, leaves |-> <<>>]]
          /\ rpc' = [rpc EXCEPT ![r] = "ensure"]
          /\ UNCHANGED <<ledgerVars, lock, leaf_cache, committerVars, prep>>
      BY <2>1 DEF StartRead
    <3>3. answer' \in [Reader -> [size : Nat, leaves : Seq(Hash)]]
      BY <3>1, <3>2
    <3>4. rpc' \in [Reader -> {"idle", "ensure", "read", "served", "panicked"}]
      BY <3>2
    <3> QED
      BY <3>2, <3>3, <3>4
  <2>2. CASE EnsureCacheCovers(r)
    <3> DEFINE n == answer[r].size
               new == CoverCache(leaf_cache[procOf[r]], Leaves(entries), n)
    <3>1. n \in 0 .. Len(entries) /\ n \in Nat
      BY <2>2 DEF EnsureCacheCovers, ReaderInv
    <3>2. Leaves(entries) \in Seq(Hash) /\ n \in 0 .. Len(Leaves(entries))
      BY <3>1, LeavesType
    <3>3. new \in Seq(Hash)
      BY <3>1, <3>2, <1>5, CoverCacheType, Zenon
    <3> HIDE DEF new, n
    <3> QED
      BY <2>2, <3>3, Zenon DEF EnsureCacheCovers, new, n
  <2>3. CASE ReadCache(r)
    <3> DEFINE n == answer[r].size
               cached == leaf_cache[procOf[r]]
    <3>1. CASE n <= Len(cached)
      <4>1. cached \in Seq(Hash) /\ n \in Nat
        BY <1>5
      <4>3. SubSeq(cached, 1, n) \in Seq(Hash)
        BY <3>1, <4>1, SeqPrefix, Zenon
      <4>4. [answer[r] EXCEPT !.leaves = SubSeq(cached, 1, n)]
              \in [size : Nat, leaves : Seq(Hash)]
        BY <4>3, Zenon
      <4>5. answer' = [answer EXCEPT ![r] =
                         [answer[r] EXCEPT !.leaves = SubSeq(cached, 1, n)]]
        BY <2>3, <3>1 DEF ReadCache
      <4>6. answer' \in [Reader -> [size : Nat, leaves : Seq(Hash)]]
        BY <4>4, <4>5
      <4> QED
        BY <2>3, <3>1, <4>6, Zenon DEF ReadCache
    <3>2. CASE ~ (n <= Len(cached))
      BY <2>3, <3>2, Zenon DEF ReadCache
    <3> QED
      BY <3>1, <3>2
  <2>4. CASE EndRead(r)
    <3>1. /\ answer' = [answer EXCEPT ![r] = NoAnswer]
          /\ rpc' = [rpc EXCEPT ![r] = "idle"]
          /\ UNCHANGED <<ledgerVars, lock, leaf_cache, committerVars, prep>>
      BY <2>4 DEF EndRead
    <3>2. answer' \in [Reader -> [size : Nat, leaves : Seq(Hash)]]
      BY <1>3, <3>1
    <3>3. rpc' \in [Reader -> {"idle", "ensure", "read", "served", "panicked"}]
      BY <3>1
    <3> QED
      BY <3>1, <3>2, <3>3
  <2> QED
    BY <1>9, <2>1, <2>2, <2>3, <2>4, Zenon DEF ReaderNext
<1>10. ASSUME NEW p \in Proc, Crash(p) PROVE LedgerTypeOK'
  BY <1>10, <1>1, <1>2, <1>3 DEF Crash
<1>11. CASE UNCHANGED vars
  BY <1>11 DEF vars
<1> QED
  BY <1>7, <1>8, <1>9, <1>10, <1>11 DEF Next

-----------------------------------------------------------------------------
(* The lock, the readers and the chain *)

\* A step keeps the append lock exclusive and the pending rows on the tip.
LEMMA LockStep ==
  ASSUME LedgerTypeOK, LockInv, [Next]_vars
  PROVE  LockInv'
<1> USE DEF LedgerTypeOK, LockInv, ledgerVars, committerVars, readerVars
<1>1. ASSUME entries' = entries PROVE tip_hash' = tip_hash /\ max_seq' = max_seq
  BY <1>1 DEF tip_hash, max_seq
<1>2. NoOne \notin Committer
  BY LedgerAssumption
<1>3. ASSUME NEW c \in Committer, CommitterNext(c) PROVE LockInv'
  <2>1. ASSUME NEW b \in Batch, Begin(c, b) PROVE LockInv'
    <3>1. /\ pc' = [pc EXCEPT ![c] = "begun"]
          /\ job' = [job EXCEPT ![c] = b]
          /\ UNCHANGED <<entries, lock, head>>
      BY <2>1 DEF Begin
    <3>2. job'[c] \in Batch /\ pc'[c] = "begun"
      BY <3>1
    <3>3. \A d \in Committer \ {c} : pc'[d] = pc[d] /\ job'[d] = job[d]
      BY <3>1
    <3> QED
      BY <3>1, <3>2, <3>3, <1>1
  <2>2. CASE InsertRows(c)
    <3>1. /\ lock = NoOne /\ lock' = c /\ pc[c] = "begun"
          /\ pc' = [pc EXCEPT ![c] = "locked"]
          /\ head' = [head EXCEPT ![c] =
                        [rows |-> NewRows(tip_hash, max_seq, job[c]), leaves |-> <<>>]]
          /\ UNCHANGED <<entries, job>>
      BY <2>2 DEF InsertRows
    <3>2. \A d \in Committer : pc[d] \notin {"locked", "sealed"}
      BY <3>1, <1>2
    <3>3. head'[c].rows = NewRows(tip_hash, max_seq, job[c])
      BY <3>1
    <3>4. \A d \in Committer \ {c} : pc'[d] = pc[d]
      BY <3>1
    <3> QED
      BY <3>1, <3>2, <3>3, <3>4, <1>1
  <2>3. CASE ComputeRoot(c)
    <3> DEFINE x == ExtendCache(leaf_cache[procOf[c]], Leaves(entries),
                                Leaves(head[c].rows))
    <3>0. head[c] \in [rows : Rows, leaves : Seq(Hash)]
      OBVIOUS
    <3>1. /\ pc[c] = "locked" /\ pc'[c] \in {"sealed", "failed"}
          /\ pc' = [pc EXCEPT ![c] = pc'[c]]
          /\ UNCHANGED <<entries, lock, job>>
          /\ head' = [head EXCEPT ![c] = [head[c] EXCEPT !.leaves = x.leaves]]
      BY <2>3 DEF ComputeRoot
    <3>2. \A d \in Committer : head'[d].rows = head[d].rows
      <4>1. head'[c] = [head[c] EXCEPT !.leaves = x.leaves]
        BY <3>1
      <4>2. [head[c] EXCEPT !.leaves = x.leaves].rows = head[c].rows
        BY <3>0
      <4> QED
        BY <3>1, <4>1, <4>2
    <3> HIDE DEF x
    <3> QED
      BY <3>1, <3>2, <1>1
  <2>4. CASE CommitTx(c)
    BY <2>4 DEF CommitTx, Durable, Idle
  <2>5. CASE CommitTxUnanswered(c)
    BY <2>5 DEF CommitTxUnanswered, Durable
  <2>6. CASE Fail(c)
    BY <2>6, <1>1 DEF Fail
  <2>7. CASE ResetCache(c)
    BY <2>7, <1>1 DEF ResetCache, Idle
  <2>8. CASE Rollback(c)
    BY <2>8, <1>1 DEF Rollback
  <2>9. CASE Cancel(c)
    BY <2>9, <1>1 DEF Cancel, Idle
  <2> QED
    BY <1>3, <2>1, <2>2, <2>3, <2>4, <2>5, <2>6, <2>7, <2>8, <2>9 DEF CommitterNext
<1>4. ASSUME NEW b \in Batch, PrepareNext(b) PROVE LockInv'
  BY <1>4, <1>1 DEF PrepareNext, PrepareTip, PrepareSeq, PrepareRoot
<1>5. ASSUME NEW r \in Reader, ReaderNext(r) PROVE LockInv'
  BY <1>5, <1>1 DEF ReaderNext, StartRead, EnsureCacheCovers, ReadCache, EndRead
<1>6. ASSUME NEW p \in Proc, Crash(p) PROVE LockInv'
  BY <1>6, <1>1 DEF Crash
<1>7. CASE UNCHANGED vars
  BY <1>7, <1>1 DEF vars
<1> QED
  BY <1>3, <1>4, <1>5, <1>6, <1>7 DEF Next

\* The committed rows grow only when a transaction commits.
LEMMA EntriesStep ==
  ASSUME [Next]_vars
  PROVE  \/ entries' = entries /\ sths' = sths /\ batches' = batches
         \/ \E c \in Committer : Durable(c) /\ UNCHANGED readerVars
<1> USE DEF ledgerVars, readerVars
<1>1. ASSUME NEW c \in Committer, CommitterNext(c)
      PROVE  \/ entries' = entries /\ sths' = sths /\ batches' = batches
             \/ Durable(c) /\ UNCHANGED readerVars
  BY <1>1 DEF CommitterNext, Begin, InsertRows, ComputeRoot, CommitTx,
              CommitTxUnanswered, Fail, ResetCache, Rollback, Cancel
<1>2. ASSUME NEW b \in Batch, PrepareNext(b)
      PROVE  entries' = entries /\ sths' = sths /\ batches' = batches
  BY <1>2 DEF PrepareNext, PrepareTip, PrepareSeq, PrepareRoot
<1>3. ASSUME NEW r \in Reader, ReaderNext(r)
      PROVE  entries' = entries /\ sths' = sths /\ batches' = batches
  BY <1>3 DEF ReaderNext, StartRead, EnsureCacheCovers, ReadCache, EndRead
<1>4. ASSUME NEW p \in Proc, Crash(p)
      PROVE  entries' = entries /\ sths' = sths /\ batches' = batches
  BY <1>4 DEF Crash
<1>5. CASE UNCHANGED vars
  BY <1>5 DEF vars
<1> QED
  BY <1>1, <1>2, <1>3, <1>4, <1>5 DEF Next

\* What a commit does to the rows: the old ones stay, the new ones follow.
LEMMA DurableRows ==
  ASSUME LedgerTypeOK, LockInv, NEW c \in Committer, Durable(c)
  PROVE  /\ Len(entries) \in Nat
         /\ Len(head[c].rows) \in Nat
         /\ Len(entries') = Len(entries) + Len(head[c].rows)
         /\ \A i \in 1 .. Len(entries') : entries'[i] =
              IF i <= Len(entries) THEN entries[i]
              ELSE head[c].rows[i - Len(entries)]
<1>1. entries \in Seq(Row) /\ head[c].rows \in Seq(Row)
  BY DEF LedgerTypeOK, Rows
<1>2. entries' = entries \o head[c].rows
  BY DEF Durable
<1> QED
  BY <1>1, <1>2, SeqLen, SeqConcat

\* The size a reader asked for stays committed, because rows only grow.
LEMMA ReaderStep ==
  ASSUME LedgerTypeOK, LockInv, ReaderInv, [Next]_vars
  PROVE  ReaderInv'
<1> USE DEF LedgerTypeOK, ReaderInv, ledgerVars, committerVars, readerVars
<1>0. Len(entries) \in Nat
  BY SeqLen DEF Rows
<1>1. ASSUME NEW c \in Committer, CommitterNext(c) PROVE ReaderInv'
  <2>1. CASE entries' = entries
    BY <1>1, <2>1 DEF CommitterNext, Begin, InsertRows, ComputeRoot, CommitTx,
                      CommitTxUnanswered, Fail, ResetCache, Rollback, Cancel
  <2>2. CASE Durable(c)
    <3>1. Len(entries') \in Nat /\ Len(entries') >= Len(entries)
      <4>1. /\ Len(head[c].rows) \in Nat
            /\ Len(entries') = Len(entries) + Len(head[c].rows)
        BY <2>2, DurableRows
      <4> QED
        BY <4>1, <1>0
    <3>2. UNCHANGED readerVars
      BY <1>1, <2>2 DEF CommitterNext, Begin, InsertRows, ComputeRoot, CommitTx,
                        CommitTxUnanswered, Fail, ResetCache, Rollback, Cancel
    <3> QED
      BY <3>1, <3>2, <1>0
  <2> QED
    BY <1>1, <2>1, <2>2 DEF CommitterNext, Begin, InsertRows, ComputeRoot, CommitTx,
                            CommitTxUnanswered, Fail, ResetCache, Rollback, Cancel
<1>2. ASSUME NEW b \in Batch, PrepareNext(b) PROVE ReaderInv'
  BY <1>2 DEF PrepareNext, PrepareTip, PrepareSeq, PrepareRoot
<1>3. ASSUME NEW r \in Reader, ReaderNext(r) PROVE ReaderInv'
  <2>1. ASSUME NEW n \in 1 .. Len(entries), StartRead(r, n) PROVE ReaderInv'
    BY <2>1 DEF StartRead
  <2>2. CASE EnsureCacheCovers(r)
    BY <2>2 DEF EnsureCacheCovers
  <2>3. CASE ReadCache(r)
    <3>1. /\ entries' = entries
          /\ rpc'[r] \notin {"ensure", "read"}
          /\ \A q \in Reader \ {r} : rpc'[q] = rpc[q] /\ answer'[q] = answer[q]
      BY <2>3 DEF ReadCache
    <3> QED
      BY <3>1, Zenon
  <2>4. CASE EndRead(r)
    BY <2>4 DEF EndRead
  <2> QED
    BY <1>3, <2>1, <2>2, <2>3, <2>4 DEF ReaderNext
<1>4. ASSUME NEW p \in Proc, Crash(p) PROVE ReaderInv'
  BY <1>4 DEF Crash
<1>5. CASE UNCHANGED vars
  BY <1>5 DEF vars
<1> QED
  BY <1>1, <1>2, <1>3, <1>4, <1>5 DEF Next

\* What a commit writes at position i: an old row, or the k-th of the batch.
LEMMA DurableSplit ==
  ASSUME LedgerTypeOK, LockInv, NEW c \in Committer, Durable(c)
  PROVE  LET n == Len(entries)
             evs == eventsOf[job[c]]
         IN /\ n \in Nat /\ Len(evs) \in Nat \ {0} /\ evs \in Seq(Event)
            /\ tip_hash \in Hash /\ max_seq \in Nat /\ job[c] \in Batch
            /\ Len(entries') = n + Len(evs)
            /\ DOMAIN entries = 1 .. n /\ DOMAIN (entries') = 1 .. (n + Len(evs))
            /\ \A i \in 1 .. n : entries'[i] = entries[i]
            /\ \A k \in 1 .. Len(evs) :
                 /\ entries'[n + k].seq = max_seq + k
                 /\ entries'[n + k].event = evs[k]
                 /\ entries'[n + k].prev = BatchHash(tip_hash, max_seq, evs, k - 1)
                 /\ entries'[n + k].hash = BatchHash(tip_hash, max_seq, evs, k)
                 /\ entries'[n + k].batch = job[c]
<1>1. /\ entries \in Rows /\ entries' \in Rows /\ job[c] \in Batch
      /\ head[c].rows = NewRows(tip_hash, max_seq, job[c])
  BY DurableType DEF LockInv, Durable, LedgerTypeOK
<1>2. tip_hash \in Hash /\ max_seq \in Nat
  BY <1>1, TipType
<1>3. /\ Len(NewRows(tip_hash, max_seq, job[c])) = Len(eventsOf[job[c]])
      /\ Len(eventsOf[job[c]]) \in Nat \ {0} /\ eventsOf[job[c]] \in Seq(Event)
  BY <1>1, <1>2, NewRowsType, LedgerAssumption
<1>4. PICK n, m : n = Len(entries) /\ m = Len(eventsOf[job[c]])
  BY Zenon
<1>5. /\ n \in Nat /\ m \in Nat \ {0} /\ Len(entries') = n + m
      /\ DOMAIN entries = 1 .. n /\ DOMAIN (entries') = 1 .. (n + m)
      /\ \A i \in 1 .. (n + m) : entries'[i] =
           IF i <= n THEN entries[i] ELSE NewRows(tip_hash, max_seq, job[c])[i - n]
  <2>1. /\ n \in Nat /\ m \in Nat \ {0} /\ DOMAIN entries = 1 .. n
        /\ Len(entries') = n + m
        /\ \A i \in 1 .. Len(entries') : entries'[i] =
             IF i <= n THEN entries[i] ELSE NewRows(tip_hash, max_seq, job[c])[i - n]
    BY <1>1, <1>3, <1>4, DurableRows, SeqLen, Zenon DEF Rows
  <2>2. DOMAIN (entries') = 1 .. Len(entries')
    BY <1>1, SeqLen, Zenon DEF Rows
  <2> QED
    BY <2>1, <2>2, Zenon
<1>6. \A i \in 1 .. n : entries'[i] = entries[i]
  BY <1>5
<1>7. ASSUME NEW k \in 1 .. m
      PROVE  /\ entries'[n + k].seq = max_seq + k
             /\ entries'[n + k].event = eventsOf[job[c]][k]
             /\ entries'[n + k].prev = BatchHash(tip_hash, max_seq, eventsOf[job[c]], k - 1)
             /\ entries'[n + k].hash = BatchHash(tip_hash, max_seq, eventsOf[job[c]], k)
             /\ entries'[n + k].batch = job[c]
  <2>1. n + k \in 1 .. (n + m) /\ ~(n + k <= n) /\ (n + k) - n = k
    BY <1>5
  <2>2. entries'[n + k] = NewRows(tip_hash, max_seq, job[c])[k]
    BY <1>5, <2>1
  <2>3. k \in 1 .. Len(eventsOf[job[c]])
    BY <1>4
  <2>4. /\ NewRows(tip_hash, max_seq, job[c])[k].seq = max_seq + k
        /\ NewRows(tip_hash, max_seq, job[c])[k].event = eventsOf[job[c]][k]
        /\ NewRows(tip_hash, max_seq, job[c])[k].prev =
             BatchHash(tip_hash, max_seq, eventsOf[job[c]], k - 1)
        /\ NewRows(tip_hash, max_seq, job[c])[k].hash =
             BatchHash(tip_hash, max_seq, eventsOf[job[c]], k)
        /\ NewRows(tip_hash, max_seq, job[c])[k].batch = job[c]
    BY <2>3, NewRowColumns
  <2> QED
    BY <2>2, <2>4, Zenon
<1> QED
  BY <1>1, <1>2, <1>3, <1>4, <1>5, <1>6, <1>7, Zenon

\* A commit extends the chain by rows that link to its tip and to each other.
LEMMA DurableChain ==
  ASSUME LedgerTypeOK, LockInv, ChainIntact, NEW c \in Committer, Durable(c)
  PROVE  ChainIntact'
<1>0. PICK n, evs : n = Len(entries) /\ evs = eventsOf[job[c]]
  BY Zenon
<1>1. /\ n \in Nat /\ Len(evs) \in Nat \ {0} /\ evs \in Seq(Event)
      /\ tip_hash \in Hash /\ max_seq \in Nat
      /\ Len(entries') = n + Len(evs)
      /\ DOMAIN entries = 1 .. n /\ DOMAIN (entries') = 1 .. (n + Len(evs))
      /\ \A i \in 1 .. n : entries'[i] = entries[i]
  BY <1>0, DurableSplit
<1>2. ASSUME NEW k \in 1 .. Len(evs)
      PROVE  /\ entries'[n + k].seq = max_seq + k
             /\ entries'[n + k].event = evs[k]
             /\ entries'[n + k].prev = BatchHash(tip_hash, max_seq, evs, k - 1)
             /\ entries'[n + k].hash = BatchHash(tip_hash, max_seq, evs, k)
  BY <1>0, DurableSplit
<1>3. n # 0 => n \in 1 .. n /\ tip_hash = entries[n].hash /\ max_seq = entries[n].seq
  BY <1>0, <1>1, SeqEmpty DEF tip_hash, max_seq
<1>4. n = 0 => tip_hash = Genesis /\ max_seq = 0
  <2>1. entries \in Seq(Row)
    BY DEF LedgerTypeOK, Rows
  <2>2. n = 0 => entries = <<>>
    BY <1>0, <2>1, SeqEmpty
  <2> QED
    BY <2>2 DEF tip_hash, max_seq
<1>5. ASSUME NEW i \in 1 .. n
      PROVE  /\ entries'[i].seq > SeqBefore(entries', i)
             /\ i \in Len(origin.rows) + 1 .. n => entries'[i].seq = SeqBefore(entries', i) + 1
             /\ entries'[i].prev = (IF i = 1 THEN Genesis ELSE entries'[i - 1].hash)
             /\ entries'[i].hash = hash_entry(entries'[i].seq, entries'[i].prev, entries'[i].event)
  <2>1. entries'[i] = entries[i] /\ (i # 1 => entries'[i - 1] = entries[i - 1])
    BY <1>1
  <2>2. SeqBefore(entries', i) = SeqBefore(entries, i)
    BY <2>1 DEF SeqBefore
  <2>3. /\ entries[i].seq > SeqBefore(entries, i)
        /\ i \in Len(origin.rows) + 1 .. n => entries[i].seq = SeqBefore(entries, i) + 1
        /\ entries[i].prev = (IF i = 1 THEN Genesis ELSE entries[i - 1].hash)
        /\ entries[i].hash = hash_entry(entries[i].seq, entries[i].prev, entries[i].event)
    BY <1>0, <1>1 DEF ChainIntact, Chained
  <2> QED
    BY <2>1, <2>2, <2>3
<1>6. ASSUME NEW k \in 1 .. Len(evs)
      PROVE  /\ entries'[n + k].seq = SeqBefore(entries', n + k) + 1
             /\ entries'[n + k].seq > SeqBefore(entries', n + k)
             /\ entries'[n + k].prev = (IF n + k = 1 THEN Genesis ELSE entries'[(n + k) - 1].hash)
             /\ entries'[n + k].hash =
                  hash_entry(entries'[n + k].seq, entries'[n + k].prev, entries'[n + k].event)
  <2>1. entries'[n + k].hash =
          hash_entry(entries'[n + k].seq, entries'[n + k].prev, entries'[n + k].event)
    <3>1. BatchHash(tip_hash, max_seq, evs, k) =
            hash_entry(max_seq + k, BatchHash(tip_hash, max_seq, evs, k - 1), evs[k])
      BY <1>1, BatchHashStep
    <3> QED
      BY <3>1, <1>2, Zenon
  <2>2. CASE k = 1
    <3>1. entries'[n + k].seq = max_seq + 1 /\ entries'[n + k].prev = tip_hash
      <4>1. BatchHash(tip_hash, max_seq, evs, k - 1) = tip_hash
        BY <2>2, <1>1, BatchHashZero
      <4> QED
        BY <2>2, <4>1, <1>2
    <3>2. CASE n = 0
      BY <2>1, <2>2, <3>1, <3>2, <1>1, <1>4 DEF SeqBefore
    <3>3. CASE n # 0
      <4>1. n + k # 1 /\ (n + k) - 1 = n /\ entries'[n] = entries[n]
        BY <2>2, <3>3, <1>1, <1>3
      <4>2. SeqBefore(entries', n + k) = max_seq /\ entries'[(n + k) - 1].hash = tip_hash
        BY <4>1, <3>3, <1>3 DEF SeqBefore
      <4> QED
        BY <2>1, <3>1, <4>1, <4>2, <1>1
    <3> QED
      BY <3>2, <3>3
  <2>3. CASE k # 1
    <3>1. k - 1 \in 1 .. Len(evs) /\ n + k # 1 /\ (n + k) - 1 = n + (k - 1)
      BY <2>3, <1>1
    <3>2. /\ entries'[n + (k - 1)].seq = max_seq + (k - 1)
          /\ entries'[n + (k - 1)].hash = BatchHash(tip_hash, max_seq, evs, k - 1)
      BY <3>1, <1>2
    <3>3. SeqBefore(entries', n + k) = max_seq + (k - 1)
      BY <3>1, <3>2 DEF SeqBefore
    <3>4. entries'[n + k].seq = max_seq + k
      BY <1>2
    <3>5. entries'[n + k].prev = entries'[(n + k) - 1].hash
      BY <3>1, <3>2, <1>2, Zenon
    <3>6. /\ entries'[n + k].seq = SeqBefore(entries', n + k) + 1
          /\ entries'[n + k].seq > SeqBefore(entries', n + k)
      BY <3>3, <3>4, <1>1
    <3> QED
      BY <2>1, <3>1, <3>5, <3>6, Zenon
  <2> QED
    BY <2>2, <2>3
<1>7. ASSUME NEW i \in 1 .. (n + Len(evs)), i \notin 1 .. n
      PROVE  i - n \in 1 .. Len(evs) /\ n + (i - n) = i
  BY <1>1, <1>7
<1>8. Chained(entries')
  <2> SUFFICES ASSUME NEW i \in 1 .. (n + Len(evs))
               PROVE  /\ entries'[i].seq > SeqBefore(entries', i)
                      /\ entries'[i].prev = (IF i = 1 THEN Genesis ELSE entries'[i - 1].hash)
                      /\ entries'[i].hash =
                           hash_entry(entries'[i].seq, entries'[i].prev, entries'[i].event)
    BY <1>1 DEF Chained
  <2>1. CASE i \in 1 .. n
    BY <2>1, <1>5
  <2>2. CASE i \notin 1 .. n
    <3> DEFINE k == i - n
    <3>1. k \in 1 .. Len(evs) /\ n + k = i
      BY <2>2, <1>7
    <3> HIDE DEF k
    <3> QED
      BY <3>1, <1>6
  <2> QED
    BY <2>1, <2>2
<1>9. \A i \in Len(origin.rows) + 1 .. Len(entries') :
        entries'[i].seq = SeqBefore(entries', i) + 1
  <2> SUFFICES ASSUME NEW i \in Len(origin.rows) + 1 .. (n + Len(evs))
               PROVE  entries'[i].seq = SeqBefore(entries', i) + 1
    BY <1>1
  <2>0. Len(origin.rows) \in Nat /\ i \in 1 .. (n + Len(evs))
    BY <1>1, OriginAssumption, SeqLen DEF Rows
  <2>1. CASE i \in 1 .. n
    BY <2>0, <2>1, <1>1, <1>5
  <2>2. CASE i \notin 1 .. n
    <3> DEFINE k == i - n
    <3>1. k \in 1 .. Len(evs) /\ n + k = i
      BY <2>0, <2>2, <1>7
    <3> HIDE DEF k
    <3> QED
      BY <3>1, <1>6
  <2> QED
    BY <2>1, <2>2
<1> QED
  BY <1>8, <1>9 DEF ChainIntact

\* The invariant of the chain holds initially.
LEMMA ChainInvInit == Init => ChainInv
<1> SUFFICES ASSUME Init PROVE ChainInv
  OBVIOUS
<1>1. LedgerTypeOK
  BY TypeInit
<1>2. ChainIntact
  <2>1. entries = origin.rows /\ Len(entries) \in Nat /\ Chained(entries)
    BY <1>1, OriginAssumption, SeqLen DEF Init, LedgerTypeOK, Rows
  <2> QED
    BY <2>1 DEF ChainIntact
<1>3. LockInv /\ ReaderInv
  BY DEF Init, LockInv, ReaderInv
<1> QED
  BY <1>1, <1>2, <1>3 DEF ChainInv

\* The invariant of the chain is kept by every step.
LEMMA ChainInvStep ==
  ASSUME ChainInv, [Next]_vars
  PROVE  ChainInv'
<1>1. LedgerTypeOK' /\ LockInv' /\ ReaderInv'
  BY TypeStep, LockStep, ReaderStep DEF ChainInv
<1>2. ChainIntact'
  <2>1. CASE entries' = entries
    BY <2>1 DEF ChainInv, ChainIntact
  <2>2. CASE \E c \in Committer : Durable(c)
    BY <2>2, DurableChain DEF ChainInv
  <2> QED
    BY <2>1, <2>2, EntriesStep
<1> QED
  BY <1>1, <1>2 DEF ChainInv

\* Every variable keeps its type.
THEOREM LedgerTypes == Spec => []LedgerTypeOK
<1>1. ChainInv /\ [Next]_vars => ChainInv'
  BY ChainInvStep
<1>2. ChainInv => LedgerTypeOK
  BY DEF ChainInv
<1> QED
  BY ChainInvInit, <1>1, <1>2, PTL DEF Spec

\* The hash chain is never broken.  For every number of processes, committers
\* (also dropped ones), readers and batches, the rows commit and finalize leave
\* in the table are one chain from genesis, to which they
\* have added no gap in seq.
THEOREM ChainAlwaysIntact == Spec => []ChainIntact
<1>1. ChainInv /\ [Next]_vars => ChainInv'
  BY ChainInvStep
<1>2. ChainInv => ChainIntact
  BY DEF ChainInv
<1> QED
  BY ChainInvInit, <1>1, <1>2, PTL DEF Spec

\* Nothing committed is changed or removed, by any call, failure or crash.
THEOREM LedgerAppendOnly == Spec => AppendOnly
<1> DEFINE Grows == /\ Len(entries') >= Len(entries)
                    /\ SubSeq(entries', 1, Len(entries)) = entries
                    /\ batches \subseteq batches'
                    /\ sths \subseteq sths'
<1>1. ChainInv /\ [Next]_vars => ChainInv'
  BY ChainInvStep
<1>2. ChainInv /\ [Next]_vars => [Grows]_vars
  <2> SUFFICES ASSUME ChainInv, [Next]_vars PROVE Grows
    OBVIOUS
  <2>1. entries \in Seq(Row) /\ Len(entries) \in Nat
    BY SeqLen DEF ChainInv, LedgerTypeOK, Rows
  <2>2. SubSeq(entries, 1, Len(entries)) = entries
    BY <2>1, SeqWhole
  <2>3. CASE entries' = entries /\ sths' = sths /\ batches' = batches
    BY <2>1, <2>2, <2>3
  <2>4. ASSUME NEW c \in Committer, Durable(c) PROVE Grows
    <3>1. head[c].rows \in Seq(Row) /\ entries' = entries \o head[c].rows
      BY <2>4 DEF ChainInv, LedgerTypeOK, Rows, Durable
    <3>2. SubSeq(entries', 1, Len(entries)) = SubSeq(entries, 1, Len(entries))
      BY <2>1, <3>1, SubSeqGrow
    <3>3. Len(entries') >= Len(entries)
      BY <2>4, DurableRows DEF ChainInv
    <3> QED
      BY <2>2, <2>4, <3>2, <3>3 DEF Durable
  <2> QED
    BY <2>3, <2>4, EntriesStep
<1> QED
  BY ChainInvInit, <1>1, <1>2, PTL DEF Spec, AppendOnly
=============================================================================
