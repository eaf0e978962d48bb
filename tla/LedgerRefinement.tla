-------------------------- MODULE LedgerRefinement --------------------------
(***************************************************************************)
(* Where each process has one committer whose calls run to their end,      *)
(* Ledger signs only heads of what it stores, serves only proofs of that,  *)
(* and implements TransparencyLog.  Its batches are stored once and whole, *)
(* whatever is dropped or crashes.                                         *)
(***************************************************************************)
EXTENDS LedgerProofs

-----------------------------------------------------------------------------
(* Signed heads *)

\* The leaves of two lists of rows, one after the other.
LEMMA LeavesConcat ==
  ASSUME NEW r \in Rows, NEW s \in Rows
  PROVE  Leaves(r \o s) = Leaves(r) \o Leaves(s)
<1>1. r \o s \in Rows /\ Len(r \o s) = Len(r) + Len(s)
  BY SeqConcat DEF Rows
<1>2. Len(r) \in Nat /\ Len(s) \in Nat
  BY SeqLen DEF Rows
<1>3. /\ Leaves(r) \in Seq(Hash) /\ Len(Leaves(r)) = Len(r)
      /\ Leaves(s) \in Seq(Hash) /\ Len(Leaves(s)) = Len(s)
      /\ Leaves(r \o s) \in Seq(Hash) /\ Len(Leaves(r \o s)) = Len(r) + Len(s)
  BY <1>1, LeavesType, Zenon
<1>4. /\ Leaves(r) \o Leaves(s) \in Seq(Hash)
      /\ Len(Leaves(r) \o Leaves(s)) = Len(r) + Len(s)
  <2>1. /\ Leaves(r) \o Leaves(s) \in Seq(Hash)
        /\ Len(Leaves(r) \o Leaves(s)) = Len(Leaves(r)) + Len(Leaves(s))
    BY <1>3, SeqConcat, Zenon
  <2> QED
    BY <2>1, <1>2, <1>3
<1>5. ASSUME NEW i \in 1 .. Len(r) + Len(s)
      PROVE  Leaves(r \o s)[i] = (Leaves(r) \o Leaves(s))[i]
  <2>1. (r \o s)[i] = IF i <= Len(r) THEN r[i] ELSE s[i - Len(r)]
    BY SeqConcat DEF Rows
  <2>2. (Leaves(r) \o Leaves(s))[i] =
          IF i <= Len(r) THEN Leaves(r)[i] ELSE Leaves(s)[i - Len(r)]
    BY <1>3, SeqConcat
  <2>3. Leaves(r \o s)[i] = (r \o s)[i].hash
    BY <1>1, LeavesType, Zenon
  <2>4. CASE i <= Len(r)
    <3>1. Leaves(r)[i] = r[i].hash
      BY <2>4, <1>2, LeavesType
    <3> QED
      BY <2>1, <2>2, <2>3, <2>4, <3>1
  <2>5. CASE ~ (i <= Len(r))
    <3>1. i - Len(r) \in 1 .. Len(s)
      BY <2>5, <1>2
    <3>2. Leaves(s)[i - Len(r)] = s[i - Len(r)].hash
      BY <3>1, LeavesType
    <3> QED
      BY <2>1, <2>2, <2>3, <2>5, <3>2
  <2> QED
    BY <2>4, <2>5, Zenon
<1> QED
  BY <1>3, <1>4, <1>5, SeqSame

\* A prefix of a list is a prefix of any list that extends it.
LEMMA PrefixConcat ==
  ASSUME NEW S, NEW s \in Seq(S), NEW t \in Seq(S), NEW u \in Seq(S),
         IsPrefixOf(s, t)
  PROVE  IsPrefixOf(s, t \o u)
<1>1. Len(s) \in Nat /\ Len(t) \in Nat /\ Len(u) \in Nat
  BY SeqLen
<1>2. /\ Len(t \o u) = Len(t) + Len(u)
      /\ \A i \in 1 .. Len(t) : (t \o u)[i] = t[i]
  BY <1>1, SeqConcat
<1> QED
  BY <1>1, <1>2 DEF IsPrefixOf

\* The empty cache agrees with every table.
LEMMA PrefixEmpty ==
  ASSUME NEW S, NEW t \in Seq(S)
  PROVE  IsPrefixOf(<<>>, t)
  BY SeqLen, SeqEmpty DEF IsPrefixOf

\* A cache that agrees with the table and counts as many leaves is the table,
\* so the count check of insert_batch_and_compute_root then gives the leaves of
\* the table with the new rows, and leaves a cache that agrees with them.
LEMMA ExtendCacheRight ==
  ASSUME NEW cached \in Seq(Hash), NEW stored \in Seq(Hash), NEW new \in Seq(Hash),
         IsPrefixOf(cached, stored)
  PROVE  /\ ExtendCache(cached, stored, new).leaves = stored \o new
         /\ IsPrefixOf(ExtendCache(cached, stored, new).cache, stored \o new)
<1>1. stored \o new \in Seq(Hash) /\ Len(stored \o new) \in Nat
  BY SeqConcat, SeqLen
<1>2. IsPrefixOf(stored \o new, stored \o new)
  BY <1>1 DEF IsPrefixOf
<1>3. IsPrefixOf(cached, stored \o new)
  BY PrefixConcat
<1>4. CASE Len(cached) = Len(stored)
  <2>1. cached = stored
    BY <1>4, SeqSame DEF IsPrefixOf
  <2> QED
    BY <1>2, <1>4, <2>1 DEF ExtendCache
<1>5. CASE Len(cached) # Len(stored)
  BY <1>2, <1>3, <1>5 DEF ExtendCache
<1> QED
  BY <1>4, <1>5

\* ensure_cache_covers keeps a cache that agrees with the table, or takes one
\* from it.
LEMMA CoverCacheRight ==
  ASSUME NEW cached \in Seq(Hash), NEW stored \in Seq(Hash),
         NEW n \in 0 .. Len(stored)
  PROVE  \/ CoverCache(cached, stored, n) = cached
         \/ IsPrefixOf(CoverCache(cached, stored, n), stored)
<1>1. Len(stored) \in Nat /\ n \in Nat
  BY SeqLen
<1>2. \A i \in 1 .. n : stored[i] \in Hash
  BY <1>1, SeqItem
<1>3. /\ Len(SubSeq(stored, 1, n)) = n
      /\ \A i \in 1 .. n : SubSeq(stored, 1, n)[i] = stored[i]
  BY <1>1, <1>2, SeqSlice
<1>4. IsPrefixOf(SubSeq(stored, 1, n), stored)
  BY <1>1, <1>3 DEF IsPrefixOf
<1> QED
  BY <1>4 DEF CoverCache

\* A commit publishes the root of the rows as they then are.
LEMMA DurableHeads ==
  ASSUME LedgerTypeOK, LockInv, CacheInv, HeadsMatchLedger,
         NEW c \in Committer, Durable(c)
  PROVE  /\ Leaves(entries') = head[c].leaves
         /\ Leaves(entries') = Leaves(entries) \o Leaves(head[c].rows)
         /\ HeadsMatchLedger'
<1>1. /\ entries \in Rows /\ head[c].rows \in Rows /\ entries' \in Rows
      /\ entries' = entries \o head[c].rows
      /\ pc[c] = "sealed"
  BY DurableType, Zenon DEF LedgerTypeOK, Durable
<1>2. Leaves(entries') = Leaves(entries) \o Leaves(head[c].rows)
  BY <1>1, LeavesConcat
<1>3. Leaves(entries') = head[c].leaves
  BY <1>1, <1>2 DEF CacheInv
<1>4. /\ Len(entries) \in Nat /\ Len(entries') \in Nat
      /\ Len(entries) <= Len(entries')
  <2>1. /\ Len(entries) \in Nat /\ Len(head[c].rows) \in Nat
        /\ Len(entries') = Len(entries) + Len(head[c].rows)
    BY DurableRows
  <2> QED
    BY <2>1
<1>5. ASSUME NEW h \in sths
      PROVE  /\ h.size <= Len(entries')
             /\ h.root = Leaves(SubSeq(entries', 1, h.size))
  <2>1. /\ h.size \in Nat /\ h.size <= Len(entries)
        /\ h.root = Leaves(SubSeq(entries, 1, h.size))
    BY DEF LedgerTypeOK, TreeHead, HeadsMatchLedger
  <2>2. SubSeq(entries', 1, h.size) = SubSeq(entries, 1, h.size)
    BY <1>1, <1>4, <2>1, SubSeqGrow DEF Rows
  <2>3. h.size <= Len(entries')
    BY <1>4, <2>1
  <2> QED
    BY <2>1, <2>2, <2>3, Zenon
<1>6. /\ Len(head[c].leaves) = Len(entries')
      /\ head[c].leaves = Leaves(SubSeq(entries', 1, Len(entries')))
  <2>1. SubSeq(entries', 1, Len(entries')) = entries'
    BY <1>1, SeqWhole DEF Rows
  <2>2. Len(Leaves(entries')) = Len(entries')
    BY <1>1, LeavesType, Zenon
  <2> QED
    BY <1>3, <2>1, <2>2, Zenon
<1>7. sths' = sths \cup {[size |-> Len(head[c].leaves), root |-> head[c].leaves]}
  BY DEF Durable
<1>8. HeadsMatchLedger'
  BY <1>4, <1>5, <1>6, <1>7 DEF HeadsMatchLedger
<1> QED
  BY <1>2, <1>3, <1>8

\* With one committer per process and no dropped futures, every step keeps the
\* caches in agreement with the table.
LEMMA CacheStep ==
  ASSUME SoleCommitters, ChainInv, HeadInv, [Next]_vars
  PROVE  CacheInv'
<1> USE DEF ledgerVars, committerVars, readerVars
<1>1. /\ LedgerTypeOK /\ LockInv /\ ReaderInv /\ CacheInv /\ HeadsMatchLedger
  BY DEF ChainInv, HeadInv
<1>2. /\ entries \in Rows /\ Leaves(entries) \in Seq(Hash)
      /\ Len(Leaves(entries)) = Len(entries)
      /\ \A p \in Proc : leaf_cache[p] \in Seq(Hash)
      /\ \A c \in Committer : /\ procOf[c] \in Proc
                              /\ head[c] \in [rows : Rows, leaves : Seq(Hash)]
                              /\ Leaves(head[c].rows) \in Seq(Hash)
  BY <1>1, LedgerAssumption, LeavesType DEF LedgerTypeOK
<1>3. \A c, d \in Committer : procOf[c] = procOf[d] => c = d
  BY DEF SoleCommitters
<1>4. \A c, d \in Committer :
        pc[c] \in {"locked", "sealed"} /\ pc[d] \in {"locked", "sealed"} => c = d
  BY <1>1 DEF LockInv
<1>5. pc \in [Committer -> {"idle", "begun", "locked", "sealed", "failed"}]
  BY <1>1 DEF LedgerTypeOK
<1>51. /\ leaf_cache \in [Proc -> Seq(Hash)]
       /\ head \in [Committer -> [rows : Rows, leaves : Seq(Hash)]]
  BY <1>1 DEF LedgerTypeOK
<1>6. ASSUME NEW c \in Committer, CommitterNext(c) PROVE CacheInv'
  <2> DEFINE p == procOf[c]
  <2>1. ASSUME NEW b \in Batch, Begin(c, b) PROVE CacheInv'
    BY <2>1, <1>1, <1>5 DEF Begin, CacheInv
  <2>2. CASE InsertRows(c)
    BY <2>2, <1>1, <1>5, <1>51, Zenon DEF InsertRows, CacheInv
  <2>3. CASE ComputeRoot(c)
    <3> DEFINE new == Leaves(head[c].rows)
               x == ExtendCache(leaf_cache[p], Leaves(entries), new)
    <3>1. pc[c] = "locked"
      BY <2>3 DEF ComputeRoot
    <3>2. IsPrefixOf(leaf_cache[p], Leaves(entries))
      BY <3>1, <1>1, <1>2, <1>3 DEF CacheInv
    <3>3. x.leaves = Leaves(entries) \o new /\ IsPrefixOf(x.cache, Leaves(entries) \o new)
      BY <3>2, <1>2, ExtendCacheRight
    <3>4. /\ leaf_cache' = [leaf_cache EXCEPT ![p] = x.cache]
          /\ head' = [head EXCEPT ![c] = [head[c] EXCEPT !.leaves = x.leaves]]
          /\ pc'[c] \in {"sealed", "failed"}
          /\ pc' = [pc EXCEPT ![c] = pc'[c]]
          /\ entries' = entries
      BY <2>3, <1>5 DEF ComputeRoot
    <3> HIDE DEF x
    <3>5. head'[c].leaves = x.leaves /\ head'[c].rows = head[c].rows
      <4>1. head'[c] = [head[c] EXCEPT !.leaves = x.leaves]
        BY <3>4, <1>51
      <4>2. head[c] \in [rows : Rows, leaves : Seq(Hash)]
        BY <1>2
      <4> QED
        BY <4>1, <4>2
    <3>6. ASSUME NEW d \in Committer, pc'[d] = "sealed"
          PROVE  /\ head'[d].leaves = Leaves(entries') \o Leaves(head'[d].rows)
                 /\ IsPrefixOf(leaf_cache'[procOf[d]], head'[d].leaves)
      <4>1. d = c
        BY <3>1, <3>4, <3>6, <1>4, <1>5
      <4> QED
        BY <4>1, <3>3, <3>4, <3>5, <1>2, <1>51
    <3>7. ASSUME NEW q \in Proc,
                 \A d \in Committer : procOf[d] = q => pc'[d] \notin {"sealed", "failed"}
          PROVE  IsPrefixOf(leaf_cache'[q], Leaves(entries'))
      <4>1. q # p
        BY <3>4, <3>7
      <4>2. leaf_cache'[q] = leaf_cache[q]
        BY <4>1, <3>4, <1>51
      <4>3. \A d \in Committer : procOf[d] = q => pc[d] \notin {"sealed", "failed"}
        BY <4>1, <3>4, <3>7, <1>5
      <4> QED
        BY <4>2, <4>3, <3>4, <1>1 DEF CacheInv
    <3> QED
      BY <3>6, <3>7 DEF CacheInv
  <2>4. CASE Durable(c) /\ pc' = [pc EXCEPT ![c] = pc'[c]]
             /\ pc'[c] \in {"idle", "failed"} /\ UNCHANGED leaf_cache
    <3>1. pc[c] = "sealed"
      BY <2>4 DEF Durable
    <3>2. \A d \in Committer : pc'[d] # "sealed"
      BY <2>4, <3>1, <1>4, <1>5
    <3>3. /\ Leaves(entries') = head[c].leaves
          /\ Leaves(entries') = Leaves(entries) \o Leaves(head[c].rows)
      BY <2>4, <1>1, DurableHeads
    <3>4. ASSUME NEW q \in Proc,
                 \A d \in Committer : procOf[d] = q => pc'[d] \notin {"sealed", "failed"}
          PROVE  IsPrefixOf(leaf_cache[q], Leaves(entries'))
      <4>1. CASE q = p
        BY <4>1, <3>1, <3>3, <1>1, Zenon DEF CacheInv
      <4>2. CASE q # p
        <5>1. \A d \in Committer : procOf[d] = q => pc[d] \notin {"sealed", "failed"}
          BY <4>2, <3>4, <2>4, <1>5
        <5>2. IsPrefixOf(leaf_cache[q], Leaves(entries))
          BY <5>1, <1>1 DEF CacheInv
        <5> QED
          BY <5>2, <3>3, <1>2, PrefixConcat
      <4> QED
        BY <4>1, <4>2
    <3> QED
      BY <2>4, <3>2, <3>4 DEF CacheInv
  <2>5. CASE CommitTx(c)
    BY <2>4, <2>5, <1>5 DEF CommitTx, Idle
  <2>6. CASE CommitTxUnanswered(c)
    BY <2>4, <2>6, <1>5 DEF CommitTxUnanswered
  <2>7. CASE Fail(c)
    BY <2>7, <1>1, <1>5 DEF Fail, CacheInv
  <2>8. CASE ResetCache(c)
    <3>1. /\ leaf_cache' = [leaf_cache EXCEPT ![p] = <<>>]
          /\ pc' = [pc EXCEPT ![c] = "idle"]
          /\ head' = [head EXCEPT ![c] = NoHead]
          /\ entries' = entries
      BY <2>8 DEF ResetCache, Idle
    <3>2. IsPrefixOf(<<>>, Leaves(entries))
      BY <1>2, PrefixEmpty
    <3>3. ASSUME NEW d \in Committer, pc'[d] = "sealed"
          PROVE  /\ head'[d] = head[d] /\ pc[d] = "sealed"
                 /\ leaf_cache'[procOf[d]] = leaf_cache[procOf[d]]
      BY <3>1, <3>3, <1>2, <1>3, <1>5, <1>51
    <3>4. ASSUME NEW q \in Proc,
                 \A d \in Committer : procOf[d] = q => pc'[d] \notin {"sealed", "failed"}
          PROVE  IsPrefixOf(leaf_cache'[q], Leaves(entries'))
      <4>1. CASE q = p
        BY <4>1, <3>1, <3>2, <1>51
      <4>2. CASE q # p
        BY <4>2, <3>1, <3>4, <1>1, <1>5, <1>51 DEF CacheInv
      <4> QED
        BY <4>1, <4>2
    <3> QED
      BY <3>1, <3>3, <3>4, <1>1, Zenon DEF CacheInv
  <2>9. CASE Rollback(c)
    BY <2>9, <1>1 DEF Rollback, CacheInv
  <2>10. CASE Cancel(c)
    BY <2>10 DEF Cancel, SoleCommitters
  <2> QED
    BY <1>6, <2>1, <2>2, <2>3, <2>5, <2>6, <2>7, <2>8, <2>9, <2>10 DEF CommitterNext
<1>7. ASSUME NEW b \in Batch, PrepareNext(b) PROVE CacheInv'
  BY <1>7, <1>1, Zenon DEF PrepareNext, PrepareTip, PrepareSeq, PrepareRoot, CacheInv
<1>8. ASSUME NEW r \in Reader, ReaderNext(r) PROVE CacheInv'
  <2>1. ASSUME UNCHANGED <<ledgerVars, leaf_cache, committerVars>> PROVE CacheInv'
    BY <2>1, <1>1 DEF CacheInv
  <2>2. CASE EnsureCacheCovers(r)
    <3> DEFINE p == procOf[r]
               n == answer[r].size
               new == CoverCache(leaf_cache[p], Leaves(entries), n)
    <3>0. p \in Proc
      BY LedgerAssumption
    <3>1. n \in 0 .. Len(Leaves(entries))
      <4>1. n \in 1 .. Len(entries)
        BY <2>2, <1>1 DEF EnsureCacheCovers, ReaderInv
      <4>2. Len(Leaves(entries)) = Len(entries)
        BY <1>2
      <4> QED
        BY <4>1, <4>2
    <3>2. new = leaf_cache[p] \/ IsPrefixOf(new, Leaves(entries))
      BY <3>0, <3>1, <1>2, CoverCacheRight
    <3>21. new \in Seq(Hash)
      <4>1. n \in Nat
        BY <1>1 DEF LedgerTypeOK
      <4> QED
        BY <3>0, <3>1, <4>1, <1>2, CoverCacheType, Zenon
    <3>3. /\ leaf_cache' = [leaf_cache EXCEPT ![p] = new]
          /\ UNCHANGED <<entries, pc, head>>
      BY <2>2 DEF EnsureCacheCovers
    <3> HIDE DEF new
    <3>4. ASSUME NEW d \in Committer, pc[d] = "sealed"
          PROVE  IsPrefixOf(leaf_cache'[procOf[d]], head[d].leaves)
      <4>1. /\ head[d].leaves = Leaves(entries) \o Leaves(head[d].rows)
            /\ IsPrefixOf(leaf_cache[procOf[d]], head[d].leaves)
        BY <3>4, <1>1 DEF CacheInv
      <4>2. CASE leaf_cache'[procOf[d]] = leaf_cache[procOf[d]]
        BY <4>1, <4>2
      <4>3. CASE leaf_cache'[procOf[d]] = new /\ IsPrefixOf(new, Leaves(entries))
        <5>1. Leaves(head[d].rows) \in Seq(Hash) /\ Leaves(entries) \in Seq(Hash)
          BY <1>2
        <5>2. IsPrefixOf(new, Leaves(entries) \o Leaves(head[d].rows))
          BY <4>3, <3>21, <5>1, PrefixConcat
        <5> QED
          BY <4>1, <4>3, <5>2
      <4> QED
        BY <4>2, <4>3, <3>2, <3>3, <1>2, <1>51
    <3>5. ASSUME NEW q \in Proc,
                 \A d \in Committer : procOf[d] = q => pc[d] \notin {"sealed", "failed"}
          PROVE  IsPrefixOf(leaf_cache'[q], Leaves(entries))
      <4>1. IsPrefixOf(leaf_cache[q], Leaves(entries))
        BY <3>5, <1>1 DEF CacheInv
      <4> QED
        BY <4>1, <3>2, <3>3, <1>51
    <3> QED
      BY <3>3, <3>4, <3>5, <1>1 DEF CacheInv
  <2> QED
    BY <1>8, <2>1, <2>2 DEF ReaderNext, StartRead, ReadCache, EndRead
<1>9. ASSUME NEW p \in Proc, Crash(p) PROVE CacheInv'
  <2>1. /\ leaf_cache' = [leaf_cache EXCEPT ![p] = <<>>]
        /\ entries' = entries
        /\ \A d \in Committer : procOf[d] = p => pc'[d] = "idle"
        /\ \A d \in Committer : procOf[d] # p => pc'[d] = pc[d] /\ head'[d] = head[d]
    BY <1>9 DEF Crash
  <2>2. IsPrefixOf(<<>>, Leaves(entries))
    BY <1>2, PrefixEmpty
  <2>3. ASSUME NEW d \in Committer, pc'[d] = "sealed"
        PROVE  /\ head'[d] = head[d] /\ pc[d] = "sealed"
               /\ leaf_cache'[procOf[d]] = leaf_cache[procOf[d]]
    BY <2>1, <2>3, <1>2, <1>51
  <2>4. ASSUME NEW q \in Proc,
               \A d \in Committer : procOf[d] = q => pc'[d] \notin {"sealed", "failed"}
        PROVE  IsPrefixOf(leaf_cache'[q], Leaves(entries'))
    <3>1. CASE q = p
      BY <3>1, <2>1, <2>2, <1>51
    <3>2. CASE q # p
      BY <3>2, <2>1, <2>4, <1>1, <1>51 DEF CacheInv
    <3> QED
      BY <3>1, <3>2
  <2> QED
    BY <2>1, <2>3, <2>4, <1>1, Zenon DEF CacheInv
<1>10. CASE UNCHANGED vars
  BY <1>10, <1>1 DEF vars, CacheInv
<1> QED
  BY <1>6, <1>7, <1>8, <1>9, <1>10 DEF Next

\* The invariant of the signed heads holds initially.
LEMMA HeadInvInit == Init => HeadInv
<1> SUFFICES ASSUME Init PROVE HeadInv
  OBVIOUS
<1>1. entries \in Rows
  BY TypeInit DEF LedgerTypeOK
<1>2. Leaves(entries) \in Seq(Hash)
  BY <1>1, LeavesType
<1>3. IsPrefixOf(<<>>, Leaves(entries))
  BY <1>2, PrefixEmpty
<1>4. CacheInv
  BY <1>3 DEF Init, CacheInv
<1>5. HeadsMatchLedger
  BY OriginAssumption DEF Init, HeadsMatchLedger
<1> QED
  BY <1>4, <1>5 DEF HeadInv

\* The invariant of the signed heads is kept by every step.
LEMMA HeadInvStep ==
  ASSUME SoleCommitters, ChainInv, HeadInv, [Next]_vars
  PROVE  HeadInv'
<1>1. CacheInv'
  BY CacheStep
<1>2. HeadsMatchLedger'
  <2>1. CASE entries' = entries /\ sths' = sths
    BY <2>1 DEF HeadInv, HeadsMatchLedger
  <2>2. CASE \E c \in Committer : Durable(c)
    BY <2>2, DurableHeads DEF ChainInv, HeadInv
  <2> QED
    BY <2>1, <2>2, EntriesStep
<1> QED
  BY <1>1, <1>2 DEF HeadInv

\* Every signed tree head is the root of the stored rows.  For any number of
\* processes on one database, each with one committer whose calls run to their
\* end (whatever fails, crashes or reads beside them), the count check of the
\* leaf cache and its reset on error are enough for this.
THEOREM SignedHeadsMatchLedger ==
  ASSUME SoleCommitters PROVE Spec => []HeadsMatchLedger
<1>1. Init => ChainInv /\ HeadInv
  BY ChainInvInit, HeadInvInit
<1>2. ChainInv /\ HeadInv /\ [Next]_vars => ChainInv' /\ HeadInv'
  BY ChainInvStep, HeadInvStep
<1>3. HeadInv => HeadsMatchLedger
  BY DEF HeadInv
<1> QED
  BY <1>1, <1>2, <1>3, PTL DEF Spec

-----------------------------------------------------------------------------
(* Served proofs *)

\* Only ReadCache serves a reader.
LEMMA ServedByRead ==
  ASSUME LedgerTypeOK, [Next]_vars, NEW r \in Reader, rpc[r] = "read", rpc'[r] = "served"
  PROVE  ReadCache(r)
<1> USE DEF LedgerTypeOK, ledgerVars, committerVars, readerVars
<1>1. ASSUME NEW c \in Committer, CommitterNext(c) PROVE FALSE
  BY <1>1 DEF CommitterNext, Begin, InsertRows, ComputeRoot, CommitTx,
              CommitTxUnanswered, Fail, ResetCache, Rollback, Cancel
<1>2. ASSUME NEW b \in Batch, PrepareNext(b) PROVE FALSE
  BY <1>2 DEF PrepareNext, PrepareTip, PrepareSeq, PrepareRoot
<1>3. ASSUME NEW q \in Reader, ReaderNext(q), ~ ReadCache(r) PROVE FALSE
  <2>1. CASE \E n \in 1 .. Len(entries) : StartRead(q, n)
    BY <2>1 DEF StartRead
  <2>2. CASE EnsureCacheCovers(q)
    BY <2>2 DEF EnsureCacheCovers
  <2>3. CASE ReadCache(q)
    BY <2>3, <1>3 DEF ReadCache
  <2>4. CASE EndRead(q)
    BY <2>4 DEF EndRead
  <2> QED
    BY <1>3, <2>1, <2>2, <2>3, <2>4 DEF ReaderNext
<1>4. ASSUME NEW p \in Proc, Crash(p) PROVE FALSE
  BY <1>4 DEF Crash
<1>5. CASE UNCHANGED vars
  BY <1>5 DEF vars
<1> QED
  BY <1>1, <1>2, <1>3, <1>4, <1>5 DEF Next

\* Up to the size of the table, the cache of a process without a failed call
\* is the table.
LEMMA CacheIsTable ==
  ASSUME LedgerTypeOK, CacheInv, NEW p \in Proc,
         \A c \in Committer : procOf[c] = p => pc[c] # "failed",
         NEW i \in 1 .. Len(entries), i <= Len(leaf_cache[p])
  PROVE  leaf_cache[p][i] = entries[i].hash
<1>1. /\ entries \in Rows /\ Len(entries) \in Nat
      /\ leaf_cache[p] \in Seq(Hash) /\ Len(leaf_cache[p]) \in Nat
  BY SeqLen DEF LedgerTypeOK, Rows
<1>2. /\ Leaves(entries) \in Seq(Hash) /\ Len(Leaves(entries)) = Len(entries)
      /\ Leaves(entries)[i] = entries[i].hash
  BY <1>1, LeavesType
<1>3. CASE \E c \in Committer : procOf[c] = p /\ pc[c] = "sealed"
  <2>1. PICK c \in Committer : procOf[c] = p /\ pc[c] = "sealed"
    BY <1>3
  <2>2. /\ head[c].leaves = Leaves(entries) \o Leaves(head[c].rows)
        /\ IsPrefixOf(leaf_cache[p], head[c].leaves)
    BY <2>1 DEF CacheInv
  <2>3. leaf_cache[p][i] = (Leaves(entries) \o Leaves(head[c].rows))[i]
    BY <1>1, <2>2 DEF IsPrefixOf
  <2>4. Leaves(head[c].rows) \in Seq(Hash)
    BY LeavesType DEF LedgerTypeOK
  <2>5. (Leaves(entries) \o Leaves(head[c].rows))[i] = Leaves(entries)[i]
    BY <1>1, <1>2, <2>4, SeqConcat
  <2> QED
    BY <1>2, <2>3, <2>5
<1>4. CASE \A c \in Committer : procOf[c] = p => pc[c] \notin {"sealed", "failed"}
  <2>1. IsPrefixOf(leaf_cache[p], Leaves(entries))
    BY <1>4 DEF CacheInv
  <2> QED
    BY <1>1, <1>2, <2>1 DEF IsPrefixOf
<1> QED
  BY <1>3, <1>4

\* The leaves behind a served proof are the ones the table holds at that size,
\* although ensure_cache_covers and the read take the cache lock one after the
\* other: for any number of processes and readers, with one committer per
\* process whose calls run to their end, while no failed call is about to reset
\* the cache.
THEOREM ProofsAreGenuine ==
  ASSUME SoleCommitters PROVE Spec => ServedGenuine
<1> DEFINE Genuine ==
      \A r \in Reader :
        (/\ rpc[r] = "read" /\ rpc'[r] = "served"
         /\ \A c \in Committer : procOf[c] = procOf[r] => pc[c] # "failed")
        => answer'[r].leaves = Leaves(SubSeq(entries, 1, answer[r].size))
<1>1. Init => ChainInv /\ HeadInv
  BY ChainInvInit, HeadInvInit
<1>2. ChainInv /\ HeadInv /\ [Next]_vars => ChainInv' /\ HeadInv'
  BY ChainInvStep, HeadInvStep
<1>3. ChainInv /\ HeadInv /\ [Next]_vars => [Genuine]_vars
  <2> SUFFICES ASSUME ChainInv, HeadInv, [Next]_vars, NEW r \in Reader,
                      rpc[r] = "read", rpc'[r] = "served",
                      \A c \in Committer : procOf[c] = procOf[r] => pc[c] # "failed"
               PROVE  answer'[r].leaves = Leaves(SubSeq(entries, 1, answer[r].size))
    OBVIOUS
  <2> DEFINE p == procOf[r]
             n == answer[r].size
             cached == leaf_cache[p]
             rows == SubSeq(entries, 1, n)
  <2>1. LedgerTypeOK /\ CacheInv /\ p \in Proc /\ n \in 1 .. Len(entries)
    BY LedgerAssumption DEF ChainInv, HeadInv, ReaderInv
  <2>2. /\ entries \in Seq(Row) /\ Len(entries) \in Nat /\ n \in Nat
        /\ cached \in Seq(Hash) /\ Len(cached) \in Nat
    BY <2>1, SeqLen DEF LedgerTypeOK, Rows
  <2>3. n <= Len(cached) /\ answer'[r].leaves = SubSeq(cached, 1, n)
    <3>1. ReadCache(r)
      BY <2>1, ServedByRead
    <3> QED
      BY <3>1, <2>1 DEF ReadCache, LedgerTypeOK
  <2> HIDE DEF p, n, cached
  <2>4. /\ rows \in Rows /\ Len(rows) = n
        /\ \A i \in 1 .. n : rows[i] = entries[i]
    <3>1. \A i \in 1 .. n : entries[i] \in Row
      BY <2>1, <2>2, SeqItem
    <3> QED
      BY <2>1, <2>2, <3>1, SeqSlice DEF Rows
  <2>5. /\ SubSeq(cached, 1, n) \in Seq(Hash) /\ Len(SubSeq(cached, 1, n)) = n
        /\ \A i \in 1 .. n : SubSeq(cached, 1, n)[i] = cached[i]
    <3>1. \A i \in 1 .. n : cached[i] \in Hash
      BY <2>2, <2>3, SeqItem
    <3> QED
      BY <2>1, <2>2, <3>1, SeqSlice
  <2> HIDE DEF rows
  <2>6. /\ Leaves(rows) \in Seq(Hash) /\ Len(Leaves(rows)) = n
        /\ \A i \in 1 .. n : Leaves(rows)[i] = rows[i].hash
    BY <2>4, LeavesType
  <2>7. \A i \in 1 .. n : cached[i] = entries[i].hash
    <3> SUFFICES ASSUME NEW i \in 1 .. n PROVE cached[i] = entries[i].hash
      OBVIOUS
    <3>1. i \in 1 .. Len(entries) /\ i <= Len(cached)
      BY <2>1, <2>2, <2>3
    <3> QED
      BY <2>1, <3>1, CacheIsTable DEF cached, p
  <2>8. SubSeq(cached, 1, n) = Leaves(rows)
    <3>1. \A i \in 1 .. n : SubSeq(cached, 1, n)[i] = Leaves(rows)[i]
      BY <2>4, <2>5, <2>6, <2>7, Zenon
    <3> QED
      BY <2>5, <2>6, <3>1, SeqSame, Zenon
  <2> QED
    BY <2>3, <2>8 DEF rows, n
<1> QED
  BY <1>1, <1>2, <1>3, PTL DEF Spec, ServedGenuine

-----------------------------------------------------------------------------
(* Ledger implements TransparencyLog *)

\* The hash of the last row lists as many pairs as there are rows.
LEMMA FlatTip ==
  ASSUME LedgerTypeOK, LogInv
  PROVE  /\ Len(entries) \in Nat
         /\ tip_hash \in Hash
         /\ Len(tip_hash) = Len(entries)
         /\ \A j \in 1 .. Len(entries) : tip_hash[j] = <<entries[j].seq, entries[j].event>>
<1>1. /\ entries \in Seq(Row) /\ Len(entries) \in Nat /\ tip_hash \in Hash
      /\ DOMAIN entries = 1 .. Len(entries)
  BY TipType, SeqLen DEF LedgerTypeOK, Rows
<1>2. CASE entries = <<>>
  BY <1>1, <1>2, SeqEmpty DEF tip_hash, Genesis
<1>3. CASE entries # <<>>
  <2>1. Len(entries) \in 1 .. Len(entries)
    BY <1>1, <1>3, SeqEmpty
  <2>2. tip_hash = [j \in 1 .. Len(entries) |-> <<entries[j].seq, entries[j].event>>]
    BY <1>1, <1>3, <2>1 DEF tip_hash, LogInv, Flat
  <2>3. Len(tip_hash) = Len(entries)
    <3>1. DOMAIN tip_hash = 1 .. Len(entries)
      BY <2>2
    <3>2. DOMAIN tip_hash = 1 .. Len(tip_hash) /\ Len(tip_hash) \in Nat
      BY <1>1, SeqLen DEF Hash
    <3> QED
      BY <3>1, <3>2, <1>1
  <2> QED
    BY <1>1, <2>2, <2>3
<1> QED
  BY <1>2, <1>3

\* A chain hash with the pairs of a batch behind it, position by position.
LEMMA BatchHashFlat ==
  ASSUME NEW prev \in Hash, NEW seq \in Nat, NEW evs \in Seq(Event), NEW k \in 1 .. Len(evs)
  PROVE  /\ BatchHash(prev, seq, evs, k) \in Hash
         /\ Len(BatchHash(prev, seq, evs, k)) = Len(prev) + k
         /\ \A j \in 1 .. Len(prev) : BatchHash(prev, seq, evs, k)[j] = prev[j]
         /\ \A j \in 1 .. k : BatchHash(prev, seq, evs, k)[Len(prev) + j] = <<seq + j, evs[j]>>
<1> DEFINE suffix == [j \in 1 .. k |-> <<seq + j, evs[j]>>]
<1>1. k \in 0 .. Len(evs) /\ k \in Nat /\ Len(prev) \in Nat
  BY SeqLen DEF Hash
<1>2. suffix \in Hash /\ Len(suffix) = k
  BY <1>1, SuffixType, Zenon
<1>3. \A j \in 1 .. k : suffix[j] = <<seq + j, evs[j]>>
  OBVIOUS
<1>4. BatchHash(prev, seq, evs, k) = prev \o suffix
  BY DEF BatchHash
<1> HIDE DEF suffix
<1>5. /\ prev \o suffix \in Hash /\ Len(prev \o suffix) = Len(prev) + k
      /\ \A j \in 1 .. (Len(prev) + k) : (prev \o suffix)[j] =
           IF j <= Len(prev) THEN prev[j] ELSE suffix[j - Len(prev)]
  BY <1>2, SeqConcat DEF Hash
<1>6. \A j \in 1 .. Len(prev) : (prev \o suffix)[j] = prev[j]
  BY <1>1, <1>5
<1>7. \A j \in 1 .. k : (prev \o suffix)[Len(prev) + j] = suffix[j]
  <2> TAKE j \in 1 .. k
  <2>1. /\ Len(prev) + j \in 1 .. (Len(prev) + k) /\ ~(Len(prev) + j <= Len(prev))
        /\ (Len(prev) + j) - Len(prev) = j
    BY <1>1
  <2> QED
    BY <1>5, <2>1
<1> QED
  BY <1>3, <1>4, <1>5, <1>6, <1>7

\* A commit leaves rows whose hashes list the seqs and events up to them.
LEMMA DurableFlat ==
  ASSUME LedgerTypeOK, LockInv, LogInv, NEW c \in Committer, Durable(c)
  PROVE  Flat(entries')
<1>0. PICK n, evs : n = Len(entries) /\ evs = eventsOf[job[c]]
  BY Zenon
<1>1. /\ n \in Nat /\ Len(evs) \in Nat \ {0} /\ evs \in Seq(Event)
      /\ tip_hash \in Hash /\ max_seq \in Nat
      /\ DOMAIN entries = 1 .. n /\ DOMAIN (entries') = 1 .. (n + Len(evs))
      /\ \A i \in 1 .. n : entries'[i] = entries[i]
  BY <1>0, DurableSplit
<1>2. ASSUME NEW k \in 1 .. Len(evs)
      PROVE  /\ entries'[n + k].seq = max_seq + k
             /\ entries'[n + k].event = evs[k]
             /\ entries'[n + k].hash = BatchHash(tip_hash, max_seq, evs, k)
  BY <1>0, DurableSplit
<1>3. /\ Len(tip_hash) = n
      /\ \A j \in 1 .. n : tip_hash[j] = <<entries[j].seq, entries[j].event>>
  BY <1>0, FlatTip
<1>4. ASSUME NEW i \in 1 .. n
      PROVE  entries'[i].hash = [j \in 1 .. i |-> <<entries'[j].seq, entries'[j].event>>]
  <2>1. entries[i].hash = [j \in 1 .. i |-> <<entries[j].seq, entries[j].event>>]
    BY <1>1 DEF LogInv, Flat
  <2>2. \A j \in 1 .. i : entries'[j] = entries[j]
    BY <1>1
  <2> QED
    BY <1>1, <2>1, <2>2
<1>5. ASSUME NEW k \in 1 .. Len(evs)
      PROVE  entries'[n + k].hash =
               [j \in 1 .. (n + k) |-> <<entries'[j].seq, entries'[j].event>>]
  <2> DEFINE h == BatchHash(tip_hash, max_seq, evs, k)
             flat == [j \in 1 .. (n + k) |-> <<entries'[j].seq, entries'[j].event>>]
  <2>1. /\ h \in Hash /\ Len(h) = n + k
        /\ \A j \in 1 .. n : h[j] = tip_hash[j]
        /\ \A j \in 1 .. k : h[n + j] = <<max_seq + j, evs[j]>>
    <3>1. /\ h \in Hash /\ Len(h) = Len(tip_hash) + k
          /\ \A j \in 1 .. Len(tip_hash) : h[j] = tip_hash[j]
          /\ \A j \in 1 .. k : h[Len(tip_hash) + j] = <<max_seq + j, evs[j]>>
      <4>1. tip_hash \in Hash /\ max_seq \in Nat /\ evs \in Seq(Event)
        BY <1>1
      <4> QED
        BY <4>1, BatchHashFlat, Zenon
    <3> HIDE DEF h
    <3> QED
      BY <1>3, <3>1
  <2>2. DOMAIN h = 1 .. (n + k)
    BY <2>1, SeqLen DEF Hash
  <2>3. h = [j \in 1 .. (n + k) |-> h[j]]
    BY <2>1, <2>2, SeqLen, Zenon DEF Hash
  <2> HIDE DEF h
  <2>4. ASSUME NEW j \in 1 .. (n + k) PROVE h[j] = <<entries'[j].seq, entries'[j].event>>
    <3>1. CASE j \in 1 .. n
      BY <3>1, <1>1, <1>3, <2>1
    <3>2. CASE j \notin 1 .. n
      <4> DEFINE m == j - n
      <4>1. m \in 1 .. k /\ m \in 1 .. Len(evs) /\ n + m = j
        BY <3>2, <1>1
      <4> HIDE DEF m
      <4>2. h[n + m] = <<max_seq + m, evs[m]>>
        BY <4>1, <2>1
      <4> QED
        BY <4>1, <4>2, <1>2
    <3> QED
      BY <3>1, <3>2
  <2> QED
    BY <1>2, <2>3, <2>4 DEF h
<1>6. ASSUME NEW i \in 1 .. (n + Len(evs)), i \notin 1 .. n
      PROVE  i - n \in 1 .. Len(evs) /\ n + (i - n) = i
  BY <1>1, <1>6
<1> SUFFICES ASSUME NEW i \in 1 .. (n + Len(evs))
             PROVE  entries'[i].hash =
                      [j \in 1 .. i |-> <<entries'[j].seq, entries'[j].event>>]
  BY <1>1 DEF Flat
<1>7. CASE i \in 1 .. n
  BY <1>4, <1>7
<1>8. CASE i \notin 1 .. n
  <2> DEFINE k == i - n
  <2>1. k \in 1 .. Len(evs) /\ n + k = i
    BY <1>6, <1>8
  <2> HIDE DEF k
  <2>2. entries'[n + k].hash =
          [j \in 1 .. (n + k) |-> <<entries'[j].seq, entries'[j].event>>]
    BY <1>5, <2>1
  <2> QED
    BY <2>1, <2>2
<1> QED
  BY <1>7, <1>8

\* What rows commit to, one pair for each.
LEMMA PairsType ==
  ASSUME NEW rows \in Rows
  PROVE  /\ Pairs(rows) \in Hash
         /\ Len(Pairs(rows)) = Len(rows)
         /\ \A i \in 1 .. Len(rows) : Pairs(rows)[i] = <<rows[i].seq, rows[i].event>>
<1>1. Len(rows) \in Nat /\ DOMAIN rows = 1 .. Len(rows)
  BY SeqLen DEF Rows
<1>2. \A i \in 1 .. Len(rows) : <<rows[i].seq, rows[i].event>> \in Nat \X Event
  <2>1. \A i \in 1 .. Len(rows) : rows[i] \in Row
    BY SeqItem DEF Rows
  <2> QED
    BY <2>1 DEF Row
<1>3. Pairs(rows) \in [1 .. Len(rows) -> Nat \X Event]
  BY <1>1, <1>2 DEF Pairs
<1> QED
  BY <1>1, <1>3, SeqOfFunction DEF Pairs, Hash

\* What a commit does to the log a client sees.
LEMMA DurableSettles ==
  ASSUME LedgerTypeOK, LockInv, LogInv, CacheInv, HeadsMatchLedger,
         NEW c \in Committer, Durable(c)
  PROVE  Log!LogNext
<1>0. PICK n, b, evs : n = Len(entries) /\ b = job[c] /\ evs = eventsOf[b]
  BY Zenon
<1>1. b \in Batch /\ b \notin CommittedIds
  BY <1>0 DEF LockInv, LogInv, Durable
<1>2. CommittedIds' = CommittedIds \cup {b}
  <2> DEFINE x == [id |-> b, last |-> max_seq + Len(head[c].rows), root |-> head[c].leaves]
  <2>1. batches' = batches \cup {x} /\ x.id = b
    BY <1>0 DEF Durable
  <2> HIDE DEF x
  <2> QED
    BY <2>1 DEF CommittedIds
<1>3. /\ n \in Nat /\ Len(evs) \in Nat \ {0} /\ evs \in Seq(Event) /\ max_seq \in Nat
      /\ Len(entries') = n + Len(evs)
      /\ DOMAIN entries = 1 .. n /\ DOMAIN (entries') = 1 .. (n + Len(evs))
      /\ \A i \in 1 .. n : entries'[i] = entries[i]
  BY <1>0, DurableSplit
<1>4. ASSUME NEW k \in 1 .. Len(evs)
      PROVE  entries'[n + k].seq = max_seq + k /\ entries'[n + k].event = evs[k]
  BY <1>0, DurableSplit
<1>5. entries \in Rows /\ entries' \in Rows
  BY DurableType DEF LedgerTypeOK
<1>6. /\ Pairs(entries) \in Hash /\ Len(Pairs(entries)) = n
      /\ \A i \in 1 .. n : Pairs(entries)[i] = <<entries[i].seq, entries[i].event>>
  BY <1>0, <1>5, PairsType
<1>7. /\ Pairs(entries') \in Hash /\ Len(Pairs(entries')) = n + Len(evs)
      /\ \A i \in 1 .. (n + Len(evs)) : Pairs(entries')[i] = <<entries'[i].seq, entries'[i].event>>
  BY <1>3, <1>5, PairsType
<1>8. Log!LastSeq(Pairs(entries)) = max_seq
  <2>1. CASE entries = <<>>
    <3>1. Len(entries) = 0
      BY <2>1, SeqEmpty
    <3>2. Pairs(entries) = <<>>
      BY <3>1, <1>0, <1>6, SeqEmpty DEF Hash
    <3> QED
      BY <2>1, <3>2 DEF Log!LastSeq, max_seq
  <2>2. CASE entries # <<>>
    <3>1. n \in 1 .. n
      BY <2>2, <1>0, <1>3, <1>5, SeqEmpty DEF Rows
    <3>2. Pairs(entries) # <<>>
      BY <3>1, <1>6, SeqEmpty
    <3>3. Pairs(entries)[n][1] = entries[n].seq
      BY <3>1, <1>6
    <3> QED
      BY <2>2, <3>2, <3>3, <1>0, <1>6 DEF Log!LastSeq, max_seq
  <2> QED
    BY <2>1, <2>2
<1>9. Pairs(entries') = Pairs(entries) \o Log!Numbered(max_seq, evs)
  <2> DEFINE more == Log!Numbered(max_seq, evs)
             old == Pairs(entries)
             new == Pairs(entries')
  <2>1. more = [j \in 1 .. Len(evs) |-> <<max_seq + j, evs[j]>>]
    BY DEF Log!Numbered
  <2>2. more \in Hash /\ Len(more) = Len(evs)
    <3>1. Len(evs) \in 0 .. Len(evs)
      BY <1>3
    <3> QED
      <4>1. max_seq \in Nat /\ evs \in Seq(Event)
        BY <1>3
      <4>2. /\ [j \in 1 .. Len(evs) |-> <<max_seq + j, evs[j]>>] \in Hash
            /\ Len([j \in 1 .. Len(evs) |-> <<max_seq + j, evs[j]>>]) = Len(evs)
        BY <3>1, <4>1, SuffixType, Zenon
      <4> QED
        BY <2>1, <4>2, Zenon
  <2>3. \A j \in 1 .. Len(evs) : more[j] = <<max_seq + j, evs[j]>>
    BY <2>1
  <2> HIDE DEF more, old, new
  <2>4. old \in Hash /\ Len(old) = n /\ new \in Hash /\ Len(new) = n + Len(evs)
    BY <1>6, <1>7 DEF old, new
  <2>5. /\ old \o more \in Hash /\ Len(old \o more) = n + Len(evs)
        /\ \A i \in 1 .. (n + Len(evs)) : (old \o more)[i] = IF i <= n THEN old[i] ELSE more[i - n]
    <3>1. /\ old \o more \in Hash /\ Len(old \o more) = Len(old) + Len(more)
          /\ \A i \in 1 .. (Len(old) + Len(more)) : (old \o more)[i] =
               IF i <= Len(old) THEN old[i] ELSE more[i - Len(old)]
      <4>1. PICK T : T = Nat \X Event
        BY Zenon
      <4>2. old \in Seq(T) /\ more \in Seq(T)
        BY <2>2, <2>4, <4>1 DEF Hash
      <4> QED
        BY <4>1, <4>2, SeqConcat, Zenon DEF Hash
    <3> QED
      BY <2>2, <2>4, <3>1
  <2>6. ASSUME NEW i \in 1 .. (n + Len(evs)) PROVE new[i] = (old \o more)[i]
    <3>1. CASE i \in 1 .. n
      <4>1. new[i] = old[i]
        BY <3>1, <1>3, <1>6, <1>7 DEF old, new
      <4> QED
        BY <3>1, <4>1, <1>3, <2>5
    <3>2. CASE i \notin 1 .. n
      <4> DEFINE k == i - n
      <4>1. k \in 1 .. Len(evs) /\ n + k = i /\ ~(i <= n)
        BY <3>2, <1>3
      <4>2. (old \o more)[i] = more[k]
        BY <4>1, <2>5
      <4> HIDE DEF k
      <4>3. new[n + k] = <<entries'[n + k].seq, entries'[n + k].event>>
        BY <4>1, <1>7 DEF new
      <4> QED
        BY <4>1, <4>2, <4>3, <1>4, <2>3
    <3> QED
      BY <3>1, <3>2
  <2>7. new = old \o more
    BY <2>4, <2>5, <2>6, SeqSame, Zenon DEF Hash
  <2> QED
    BY <2>7 DEF old, new, more
<1>10. sths' = sths \cup {Log!HeadOf(Pairs(entries'))}
  <2> DEFINE new == Pairs(entries')
  <2>1. Leaves(entries') = head[c].leaves
    BY DurableHeads
  <2>2. /\ Leaves(entries') \in Seq(Hash) /\ Len(Leaves(entries')) = n + Len(evs)
        /\ \A i \in 1 .. (n + Len(evs)) : Leaves(entries')[i] = entries'[i].hash
    BY <1>3, <1>5, LeavesType
  <2>3. ASSUME NEW i \in 1 .. (n + Len(evs))
        PROVE  Log!Leaf(new, i) = entries'[i].hash
    <3>1. entries'[i].hash = [j \in 1 .. i |-> <<entries'[j].seq, entries'[j].event>>]
      BY <1>3, DurableFlat DEF Flat
    <3>2. \A j \in 1 .. i : new[j] = <<entries'[j].seq, entries'[j].event>>
      BY <1>3, <1>7
    <3>3. Log!Leaf(new, i) = [j \in 1 .. i |-> new[j]]
      BY DEF Log!Leaf
    <3> HIDE DEF new
    <3>4. [j \in 1 .. i |-> new[j]] = [j \in 1 .. i |-> <<entries'[j].seq, entries'[j].event>>]
      BY <3>2
    <3> QED
      BY <3>1, <3>3, <3>4, Zenon
  <2>4. Len(new) = n + Len(evs)
    BY <1>7
  <2> HIDE DEF new
  <2>5. Leaves(entries') = [i \in 1 .. Len(new) |-> Log!Leaf(new, i)]
    <3>1. Leaves(entries') = [i \in 1 .. (n + Len(evs)) |-> Leaves(entries')[i]]
      BY <2>2, SeqLen
    <3> QED
      BY <2>2, <2>3, <2>4, <3>1
  <2>6. Log!HeadOf(new) = [size |-> Len(head[c].leaves), root |-> head[c].leaves]
    BY <2>1, <2>2, <2>4, <2>5 DEF Log!HeadOf
  <2> QED
    BY <2>6, Zenon DEF Durable, new
<1> QED
  BY <1>0, <1>1, <1>2, <1>8, <1>9, <1>10, Zenon DEF Log!LogNext, Log!Settle

\* The freshness of a sealed batch and the flat hashes are kept by every step.
LEMMA LogStep ==
  ASSUME ChainInv, LogInv, [Next]_vars
  PROVE  LogInv'
<1>1. LedgerTypeOK /\ LockInv
  BY DEF ChainInv
<1>2. Flat(entries')
  <2>1. CASE entries' = entries
    BY <2>1 DEF LogInv
  <2>2. CASE \E c \in Committer : Durable(c)
    BY <2>2, <1>1, DurableFlat, Zenon
  <2> QED
    BY <2>1, <2>2, EntriesStep, Zenon
<1>3. \A c \in Committer : pc'[c] = "sealed" => job'[c] \notin CommittedIds'
  <2> SUFFICES ASSUME NEW c \in Committer, pc'[c] = "sealed"
               PROVE  job'[c] \notin CommittedIds'
    OBVIOUS
  <2>0. pc \in [Committer -> {"idle", "begun", "locked", "sealed", "failed"}]
    BY <1>1 DEF LedgerTypeOK
  <2>1. CASE ComputeRoot(c)
    BY <2>0, <2>1 DEF ComputeRoot, Accepted, CommittedIds, ledgerVars
  <2>2. CASE pc[c] = "sealed" /\ job'[c] = job[c] /\ batches' = batches
    BY <2>2 DEF LogInv, CommittedIds
  <2>3. CASE pc[c] = "sealed" /\ \E d \in Committer \ {c} : Durable(d)
    BY <2>3, <1>1 DEF LockInv, Durable
  <2>4. \/ ComputeRoot(c)
        \/ pc[c] = "sealed" /\ job'[c] = job[c] /\ batches' = batches
        \/ pc[c] = "sealed" /\ \E d \in Committer \ {c} : Durable(d)
    <3> USE DEF ledgerVars, committerVars, readerVars
    <3>0. job \in [Committer -> Batch \cup {NoOne}]
      BY <1>1 DEF LedgerTypeOK
    <3>1. ASSUME NEW d \in Committer, CommitterNext(d)
          PROVE  \/ ComputeRoot(c)
                 \/ pc[c] = "sealed" /\ job'[c] = job[c] /\ batches' = batches
                 \/ pc[c] = "sealed" /\ \E e \in Committer \ {c} : Durable(e)
      <4>1. CASE \E b \in Batch : Begin(d, b)
        BY <4>1, <2>0, <3>0 DEF Begin
      <4>2. CASE InsertRows(d)
        BY <4>2, <2>0 DEF InsertRows
      <4>3. CASE ComputeRoot(d)
        BY <4>3, <2>0, Zenon DEF ComputeRoot
      <4>4. CASE CommitTx(d)
        BY <4>4, <2>0 DEF CommitTx, Idle
      <4>5. CASE CommitTxUnanswered(d)
        BY <4>5, <2>0 DEF CommitTxUnanswered
      <4>6. CASE Fail(d)
        BY <4>6, <2>0 DEF Fail
      <4>7. CASE ResetCache(d)
        BY <4>7, <2>0, <3>0 DEF ResetCache, Idle
      <4>8. CASE Rollback(d)
        BY <4>8 DEF Rollback
      <4>9. CASE Cancel(d)
        BY <4>9, <2>0, <3>0 DEF Cancel, Idle
      <4> QED
        BY <3>1, <4>1, <4>2, <4>3, <4>4, <4>5, <4>6, <4>7, <4>8, <4>9
           DEF CommitterNext
    <3>2. ASSUME NEW b \in Batch, PrepareNext(b)
          PROVE  pc' = pc /\ job' = job /\ batches' = batches
      BY <3>2 DEF PrepareNext, PrepareTip, PrepareSeq, PrepareRoot
    <3>3. ASSUME NEW r \in Reader, ReaderNext(r)
          PROVE  pc' = pc /\ job' = job /\ batches' = batches
      BY <3>3 DEF ReaderNext, StartRead, EnsureCacheCovers, ReadCache, EndRead
    <3>4. ASSUME NEW p \in Proc, Crash(p)
          PROVE  pc[c] = "sealed" /\ job'[c] = job[c] /\ batches' = batches
      BY <3>4 DEF Crash
    <3>5. CASE UNCHANGED vars
      BY <3>5 DEF vars
    <3> QED
      BY <3>1, <3>2, <3>3, <3>4, <3>5 DEF Next
  <2> QED
    BY <2>1, <2>2, <2>3, <2>4
<1> QED
  BY <1>2, <1>3 DEF LogInv

\* The ledger implements the log it promises.  With one committer per process
\* whose calls run to their end, every behaviour of commit, finalize, prepare,
\* the proof readers, failures and crashes is a behaviour of the abstract log:
\* batches settle one at a time, once and whole, with the right head.
THEOREM LedgerImplementsLog ==
  ASSUME SoleCommitters PROVE Spec => ImplementsLog
<1> DEFINE IInv == ChainInv /\ HeadInv /\ LogInv
<1>1. Init => IInv
  <2> SUFFICES ASSUME Init PROVE IInv
    OBVIOUS
  <2>1. ChainInv /\ HeadInv
    BY ChainInvInit, HeadInvInit
  <2>2. LogInv
    BY OriginAssumption DEF Init, LogInv
  <2> QED
    BY <2>1, <2>2
<1>2. IInv /\ [Next]_vars => IInv'
  BY ChainInvStep, HeadInvStep, LogStep
<1>3. Init => Log!LogInit
  <2> SUFFICES ASSUME Init PROVE Log!LogInit
    OBVIOUS
  <2> QED
    BY DEF Init, CommittedIds, Log!LogInit
<1>4. IInv /\ [Next]_vars => [Log!LogNext]_Log!logVars
  <2> SUFFICES ASSUME IInv, [Next]_vars PROVE [Log!LogNext]_Log!logVars
    OBVIOUS
  <2>1. CASE entries' = entries /\ sths' = sths /\ batches' = batches
    BY <2>1 DEF Log!logVars, CommittedIds, Pairs
  <2>2. ASSUME NEW c \in Committer, Durable(c) PROVE Log!LogNext
    BY <2>2, DurableSettles DEF ChainInv, HeadInv
  <2> QED
    BY <2>1, <2>2, EntriesStep
<1> QED
  BY <1>1, <1>2, <1>3, <1>4, PTL DEF Spec, ImplementsLog, Log!LogSpec

-----------------------------------------------------------------------------
(* Batches settle once and whole *)

\* A commit appends the rows of one batch that had none.
LEMMA DurableWhole ==
  ASSUME LedgerTypeOK, LockInv, LogInv, BatchesWhole, NEW c \in Committer, Durable(c)
  PROVE  BatchesWhole'
<1>0. PICK m, a, k : m = Len(entries) /\ a = job[c] /\ k = Len(eventsOf[a])
  BY Zenon
<1>1. a \in Batch /\ a \notin CommittedIds
  BY <1>0 DEF LockInv, LogInv, Durable
<1>2. CommittedIds' = CommittedIds \cup {a}
  <2> DEFINE x == [id |-> a, last |-> max_seq + Len(head[c].rows), root |-> head[c].leaves]
  <2>1. batches' = batches \cup {x} /\ x.id = a
    BY <1>0 DEF Durable
  <2> HIDE DEF x
  <2> QED
    BY <2>1 DEF CommittedIds
<1>3. /\ m \in Nat /\ k \in Nat /\ Len(entries') = m + k
      /\ \A i \in 1 .. m : entries'[i] = entries[i]
  BY <1>0, DurableSplit
<1>4. \A i \in 1 .. k : entries'[m + i].batch = a /\ entries'[m + i].event = eventsOf[a][i]
  BY <1>0, DurableSplit
<1>5. \A i \in 1 .. m + k : i > m => i - m \in 1 .. k /\ m + (i - m) = i
  BY <1>3
<1>7. \A i \in 1 .. m : entries'[i] = entries[i] /\ entries[i].batch # a
  <2>1. PICK n \in 0 .. Len(entries) : StoredAfter(n, a)
    BY <1>1 DEF BatchesWhole
  <2>2. \A i \in 1 .. m : entries[i].batch = a <=> i \in n + 1 .. n + 0
    BY <1>0, <1>1, <2>1 DEF StoredAfter
  <2>3. \A i \in 1 .. m : i \notin n + 1 .. n + 0
    BY <1>0, <1>3, <2>1
  <2> QED
    BY <1>3, <2>2, <2>3
<1>8. \A i \in 1 .. m + k : i > m => /\ entries'[i].batch = a
                                     /\ entries'[i].event = eventsOf[a][i - m]
  BY <1>4, <1>5
<1>9. StoredAfter(m, a)'
  <2>1. \A i \in 1 .. m + k : entries'[i].batch = a <=> i \in m + 1 .. m + k
    BY <1>3, <1>7, <1>8
  <2>2. \A i \in 1 .. k : entries'[m + i].event = eventsOf[a][i]
    <3> SUFFICES ASSUME NEW i \in 1 .. k PROVE entries'[m + i].event = eventsOf[a][i]
      OBVIOUS
    <3>1. m + i \in 1 .. m + k /\ m + i > m /\ (m + i) - m = i
      BY <1>3
    <3> QED
      BY <3>1, <1>8
  <2>3. a \in CommittedIds'
    BY <1>2
  <2> QED
    BY <1>0, <1>3, <2>1, <2>2, <2>3 DEF StoredAfter
<1>10. ASSUME NEW b \in Batch, b # a PROVE \E n \in 0 .. m : StoredAfter(n, b)'
  <2>1. PICK n \in 0 .. m : StoredAfter(n, b)
    BY <1>0 DEF BatchesWhole
  <2> DEFINE l == IF b \in CommittedIds THEN Len(eventsOf[b]) ELSE 0
  <2>2. /\ n + l <= m
        /\ \A i \in 1 .. m : entries[i].batch = b <=> i \in n + 1 .. n + l
        /\ \A i \in 1 .. l : entries[n + i].event = eventsOf[b][i]
    BY <1>0, <2>1 DEF StoredAfter
  <2>3. l \in Nat
    BY LedgerAssumption, SeqLen
  <2>4. l = IF b \in CommittedIds' THEN Len(eventsOf[b]) ELSE 0
    BY <1>2, <1>10
  <2> HIDE DEF l
  <2>5. n + l <= m + k
    BY <1>3, <2>2, <2>3
  <2>6. \A i \in 1 .. m + k : entries'[i].batch = b <=> i \in n + 1 .. n + l
    <3> SUFFICES ASSUME NEW i \in 1 .. m + k
                 PROVE  entries'[i].batch = b <=> i \in n + 1 .. n + l
      OBVIOUS
    <3>1. CASE i <= m
      BY <3>1, <1>3, <1>7, <2>2
    <3>2. CASE i > m
      BY <3>2, <1>3, <1>8, <1>10, <2>2, <2>3
    <3> QED
      BY <3>1, <3>2, <1>3
  <2>7. \A i \in 1 .. l : entries'[n + i].event = eventsOf[b][i]
    <3> SUFFICES ASSUME NEW i \in 1 .. l PROVE entries'[n + i].event = eventsOf[b][i]
      OBVIOUS
    <3>1. n + i \in 1 .. m
      BY <1>3, <2>2, <2>3
    <3> QED
      BY <3>1, <1>7, <2>2
  <2>8. StoredAfter(n, b)'
    BY <1>3, <2>4, <2>5, <2>6, <2>7 DEF StoredAfter
  <2> QED
    BY <2>8
<1>11. \A n \in 0 .. m : n \in 0 .. Len(entries')
  BY <1>3
<1>12. ASSUME NEW b \in Batch PROVE \E n \in 0 .. Len(entries') : StoredAfter(n, b)'
  <2>1. CASE b = a
    BY <2>1, <1>3, <1>9, <1>11
  <2>2. CASE b # a
    BY <2>2, <1>10, <1>11
  <2> QED
    BY <2>1, <2>2
<1> QED
  BY <1>12 DEF BatchesWhole

\* A batch id is in the ledger once, whole and in one piece or not at all: for
\* any number of processes and committers, droppable ones included, under
\* retries, lost answers, failures and crashes of commit and finalize.
THEOREM BatchesSettleWhole == Spec => []BatchesWhole
<1> DEFINE IInv == ChainInv /\ LogInv /\ BatchesWhole
<1>1. Init => IInv
  <2> SUFFICES ASSUME Init PROVE IInv
    OBVIOUS
  <2>1. ChainInv /\ LogInv
    BY ChainInvInit, OriginAssumption DEF Init, LogInv
  <2>2. Len(entries) \in Nat /\ DOMAIN entries = 1 .. Len(entries)
    BY <2>1, SeqLen DEF ChainInv, LedgerTypeOK, Rows
  <2>3. ASSUME NEW b \in Batch PROVE StoredAfter(0, b)
    <3>1. b \notin CommittedIds
      BY OriginAssumption DEF Init, CommittedIds
    <3>2. \A i \in 1 .. Len(entries) : entries[i].batch # b
      BY <2>2, OriginAssumption DEF Init
    <3> QED
      BY <2>2, <3>1, <3>2 DEF StoredAfter
  <2> QED
    BY <2>1, <2>2, <2>3 DEF BatchesWhole
<1>2. IInv /\ [Next]_vars => IInv'
  <2> SUFFICES ASSUME IInv, [Next]_vars PROVE IInv'
    OBVIOUS
  <2>1. ChainInv' /\ LogInv'
    BY ChainInvStep, LogStep
  <2>2. CASE entries' = entries /\ batches' = batches
    BY <2>1, <2>2 DEF BatchesWhole, StoredAfter, CommittedIds
  <2>3. CASE \E c \in Committer : Durable(c)
    BY <2>1, <2>3, DurableWhole DEF ChainInv
  <2> QED
    BY <2>2, <2>3, EntriesStep
<1> QED
  BY <1>1, <1>2, PTL DEF Spec
=============================================================================
