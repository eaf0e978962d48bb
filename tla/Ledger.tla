------------------------------- MODULE Ledger -------------------------------
(***************************************************************************)
(* The settlement ledger of one shard: PostgresSettlementProvider in       *)
(* crates/chain/src/postgres.rs.                                           *)
(*                                                                         *)
(* Several server processes share one database.  Each process keeps an     *)
(* in-memory copy of the Merkle leaves (leaf_cache).  A committer is one   *)
(* in-flight call of commit or finalize; a reader is one in-flight proof   *)
(* request.                                                                *)
(*                                                                         *)
(* Hashes are ideal: the hash of an entry is the list of the (seq, event)  *)
(* pairs the chain commits to up to that entry, and a Merkle root is the   *)
(* list of leaf hashes below it.  Two hashes are equal exactly when what   *)
(* they commit to is equal.                                                *)
(***************************************************************************)
EXTENDS Naturals, Sequences, FiniteSets

CONSTANTS
  Proc,         \* server processes sharing the database
  Committer,    \* in-flight commit/finalize calls
  Reader,       \* in-flight proof requests
  procOf,       \* the process each committer and reader runs in
  Cancellable,  \* committers whose future may be dropped (request handlers)
  Batch,        \* batch ids
  Event,        \* events
  eventsOf,     \* the events of each batch
  Managed,      \* batches committed by finalize with a caller's signature
  Past,         \* ids of the batches a promotion copied into the ledger
  origin,       \* the rows, batches and heads the ledger starts with
  NoOne         \* no lock holder, no job

ASSUME LedgerAssumption ==
  /\ procOf \in [Committer \cup Reader -> Proc]
  /\ Cancellable \subseteq Committer
  /\ eventsOf \in [Batch -> Seq(Event) \ {<<>>}]
  /\ Managed \subseteq Batch
  /\ NoOne \notin Committer \cup Batch

VARIABLES
  entries,     \* ledger_entries, committed rows in seq order
  batches,     \* ledger_batches, committed rows
  sths,        \* signed_tree_heads, committed rows
  lock,        \* holder of the append advisory lock
  leaf_cache,  \* each process's cached leaves
  pc,          \* where each committer is
  job,         \* the batch each committer is committing
  head,        \* the rows and tree head each committer computed
  prep,        \* what prepare returned, and its caller signed, per batch
  rpc,         \* where each reader is
  answer       \* the size a reader asks for and the leaves it was served

ledgerVars == <<entries, batches, sths>>
committerVars == <<pc, job, head>>
readerVars == <<rpc, answer>>
vars == <<entries, batches, sths, lock, leaf_cache, pc, job, head, prep,
          rpc, answer>>

-----------------------------------------------------------------------------
(* Hashing and the rows of a batch *)

\* entry_hash binds seq, the previous hash and the event (hash_entry).
hash_entry(seq, prev, event) == Append(prev, <<seq, event>>)

\* The entry hash before any entry: GENESIS_HASH.
Genesis == <<>>

\* The rows are in seq order, so the last one has the tip and MAX(seq).
tip_hash == IF entries = <<>> THEN Genesis ELSE entries[Len(entries)].hash

max_seq == IF entries = <<>> THEN 0 ELSE entries[Len(entries)].seq

\* The leaves of a list of rows, in seq order.
Leaves(rows) == [i \in DOMAIN rows |-> rows[i].hash]

\* The hash after the first i events of a batch that starts after seq.
BatchHash(prev, seq, events, i) ==
  prev \o [j \in 1 .. i |-> <<seq + j, events[j]>>]

\* The rows insert_batch_and_compute_root writes for batch b.
NewRows(prev, seq, b) ==
  [i \in 1 .. Len(eventsOf[b]) |->
     [seq   |-> seq + i,
      event |-> eventsOf[b][i],
      prev  |-> BatchHash(prev, seq, eventsOf[b], i - 1),
      hash  |-> BatchHash(prev, seq, eventsOf[b], i),
      batch |-> b]]

\* What a list of rows commits to, and the rows' hashes if it is a chain.
Pairs(rows) == [i \in DOMAIN rows |-> <<rows[i].seq, rows[i].event>>]
Flat(rows) ==
  \A i \in DOMAIN rows :
    rows[i].hash = [j \in 1 .. i |-> <<rows[j].seq, rows[j].event>>]

\* The seq before row i: a gap separates the two if row i's is not the next.
SeqBefore(rows, i) == IF i = 1 THEN 0 ELSE rows[i - 1].seq

\* Rows with rising seqs, each bound to the one before it.
Chained(rows) ==
  \A i \in DOMAIN rows :
    /\ rows[i].seq > SeqBefore(rows, i)
    /\ rows[i].prev = (IF i = 1 THEN Genesis ELSE rows[i - 1].hash)
    /\ rows[i].hash = hash_entry(rows[i].seq, rows[i].prev, rows[i].event)

Hash == Seq(Nat \X Event)
Row == [seq : Nat, event : Event, prev : Hash, hash : Hash, batch : Batch \cup Past]
Rows == Seq(Row)
BatchRow == [id : Batch \cup Past, last : Nat, root : Seq(Hash)]
TreeHead == [size : Nat, root : Seq(Hash)]

\* A ledger starts empty or with what promote-mirror wrote: a chain it has
\* checked, whose seqs may have gaps, and heads over its prefixes.
ASSUME OriginAssumption ==
  /\ origin \in [rows : Rows, batches : SUBSET BatchRow, heads : SUBSET TreeHead]
  /\ Chained(origin.rows) /\ Flat(origin.rows)
  /\ \A h \in origin.heads : /\ h.size <= Len(origin.rows)
                             /\ h.root = Leaves(SubSeq(origin.rows, 1, h.size))
  /\ \A i \in DOMAIN origin.rows : origin.rows[i].batch \in Past
  /\ \A x \in origin.batches : x.id \in Past
  /\ Past \cap Batch = {}

NoHead == [rows |-> <<>>, leaves |-> <<>>]
NoAnswer == [size |-> 0, leaves |-> <<>>]
NoPrep == [stage |-> "none", tip |-> <<>>, seq |-> 0, leaves |-> <<>>]

-----------------------------------------------------------------------------
Init ==
  /\ entries = origin.rows
  /\ batches = origin.batches
  /\ sths = origin.heads
  /\ lock = NoOne
  /\ leaf_cache = [p \in Proc |-> <<>>]
  /\ pc = [c \in Committer |-> "idle"]
  /\ job = [c \in Committer |-> NoOne]
  /\ head = [c \in Committer |-> NoHead]
  /\ prep = [b \in Batch |-> NoPrep]
  /\ rpc = [r \in Reader |-> "idle"]
  /\ answer = [r \in Reader |-> NoAnswer]

CommittedIds == {x.id : x \in batches}

\* A call that finds its batch id committed returns the stored commitment and
\* changes nothing; any other call opens a transaction.
Begin(c, b) ==
  /\ pc[c] = "idle"
  /\ b \notin CommittedIds
  /\ b \in Managed => prep[b].stage = "signed"
  /\ pc' = [pc EXCEPT ![c] = "begun"]
  /\ job' = [job EXCEPT ![c] = b]
  /\ UNCHANGED <<ledgerVars, lock, leaf_cache, head, prep, readerVars>>

\* pg_advisory_xact_lock, then the tip and MAX(seq) are read under it and the
\* batch's rows are inserted in the open transaction.
InsertRows(c) ==
  /\ pc[c] = "begun"
  /\ lock = NoOne
  /\ lock' = c
  /\ head' = [head EXCEPT ![c] =
                [rows |-> NewRows(tip_hash, max_seq, job[c]), leaves |-> <<>>]]
  /\ pc' = [pc EXCEPT ![c] = "locked"]
  /\ UNCHANGED <<ledgerVars, leaf_cache, job, prep, readerVars>>

\* Mutant of ExtendCache: the refetched root leaves out the batch's own rows.
ExtendCacheShort(cached, stored, new) ==
  IF Len(cached) = Len(stored)
    THEN [leaves |-> cached \o new, cache |-> cached \o new]
    ELSE [leaves |-> stored, cache |-> stored]

\* What the count check makes of the cache: the leaves the new root is
\* computed from and the cache that is left.  The cache is extended in place
\* when it has as many leaves as the table had rows, rebuilt when the refetched
\* list is longer, and otherwise left as it is.
ExtendCache(cached, stored, new) ==
  IF Len(cached) = Len(stored)
    THEN [leaves |-> cached \o new, cache |-> cached \o new]
    ELSE [leaves |-> stored \o new,
          cache  |-> IF Len(stored) + Len(new) > Len(cached)
                       THEN stored \o new ELSE cached]

\* finalize accepts a caller's signature only over the head it computed.
SignatureFits(b, leaves) == b \in Managed => prep[b].leaves = leaves

\* What the transaction still checks once the root is computed.
Accepted(b, leaves) == b \notin CommittedIds /\ SignatureFits(b, leaves)

\* The root of the ledger with the new rows, then the ledger_batches insert
\* (which fails on a committed batch id) and, in finalize, the check of the
\* caller's signature.  The cache keeps its new leaves on either failure.
ComputeRoot(c) ==
  LET p == procOf[c]
      x == ExtendCache(leaf_cache[p], Leaves(entries), Leaves(head[c].rows))
  IN /\ pc[c] = "locked"
     /\ leaf_cache' = [leaf_cache EXCEPT ![p] = x.cache]
     /\ head' = [head EXCEPT ![c].leaves = x.leaves]
     /\ pc' = [pc EXCEPT ![c] = IF Accepted(job[c], x.leaves) THEN "sealed" ELSE "failed"]
     /\ UNCHANGED <<ledgerVars, lock, job, prep, readerVars>>

\* tx.commit(): rows, batch and tree head become durable together and the
\* transaction's lock is released.
Durable(c) ==
  /\ pc[c] = "sealed"
  /\ entries' = entries \o head[c].rows
  /\ batches' = batches \cup
       {[id |-> job[c], last |-> max_seq + Len(head[c].rows),
         root |-> head[c].leaves]}
  /\ sths' = sths \cup
       {[size |-> Len(head[c].leaves), root |-> head[c].leaves]}
  /\ lock' = NoOne

Idle(c) ==
  /\ pc' = [pc EXCEPT ![c] = "idle"]
  /\ job' = [job EXCEPT ![c] = NoOne]
  /\ head' = [head EXCEPT ![c] = NoHead]

CommitTx(c) ==
  /\ Durable(c)
  /\ Idle(c)
  /\ UNCHANGED <<leaf_cache, prep, readerVars>>

\* The transaction committed but the connection failed before the answer: the
\* caller sees an error, as after any other failure.
CommitTxUnanswered(c) ==
  /\ Durable(c)
  /\ pc' = [pc EXCEPT ![c] = "failed"]
  /\ UNCHANGED <<leaf_cache, job, head, prep, readerVars>>

\* Any storage, payload or signing error inside the transaction.
Fail(c) ==
  /\ pc[c] \in {"begun", "locked", "sealed"}
  /\ pc' = [pc EXCEPT ![c] = "failed"]
  /\ UNCHANGED <<ledgerVars, lock, leaf_cache, job, head, prep, readerVars>>

\* reset_leaf_cache, the last step of a call that failed.
ResetCache(c) ==
  /\ pc[c] = "failed"
  /\ leaf_cache' = [leaf_cache EXCEPT ![procOf[c]] = <<>>]
  /\ Idle(c)
  /\ UNCHANGED <<ledgerVars, lock, prep, readerVars>>

\* Mutant of Rollback: only a call that returned an error gives its lock back.
RollbackOnError(c) ==
  /\ lock = c
  /\ pc[c] = "failed"
  /\ lock' = NoOne
  /\ UNCHANGED <<ledgerVars, leaf_cache, committerVars, prep, readerVars>>

\* The database carries out the rollback of a transaction the process has
\* dropped.  Dropping it only queues the ROLLBACK, so the reset of the cache
\* can come before or after.
Rollback(c) ==
  /\ lock = c
  /\ pc[c] \in {"idle", "begun", "failed"}
  /\ lock' = NoOne
  /\ UNCHANGED <<ledgerVars, leaf_cache, committerVars, prep, readerVars>>

\* A request handler's future is dropped at an await: the transaction is
\* dropped with it and nothing after the await runs.
Cancel(c) ==
  /\ c \in Cancellable
  /\ pc[c] # "idle"
  /\ Idle(c)
  /\ UNCHANGED <<ledgerVars, lock, leaf_cache, prep, readerVars>>

\* A process stops and starts again: its memory is gone, and the database
\* rolls back its open transaction when the connection closes.
Crash(p) ==
  LET mine == {c \in Committer : procOf[c] = p}
  IN /\ leaf_cache' = [leaf_cache EXCEPT ![p] = <<>>]
     /\ pc' = [c \in Committer |-> IF c \in mine THEN "idle" ELSE pc[c]]
     /\ job' = [c \in Committer |-> IF c \in mine THEN NoOne ELSE job[c]]
     /\ head' = [c \in Committer |-> IF c \in mine THEN NoHead ELSE head[c]]
     /\ rpc' = [r \in Reader |-> IF procOf[r] = p THEN "idle" ELSE rpc[r]]
     /\ answer' = [r \in Reader |-> IF procOf[r] = p THEN NoAnswer ELSE answer[r]]
     /\ UNCHANGED <<ledgerVars, lock, prep>>

-----------------------------------------------------------------------------
(* prepare: three separate reads outside any transaction, after which the  *)
(* integrator signs the head it was given.                                 *)

PrepareTip(b) ==
  /\ b \in Managed
  /\ prep[b].stage \in {"none", "signed"}
  /\ prep' = [prep EXCEPT ![b] = [NoPrep EXCEPT !.stage = "tip",
                                                !.tip = tip_hash]]
  /\ UNCHANGED <<ledgerVars, lock, leaf_cache, committerVars, readerVars>>

PrepareSeq(b) ==
  /\ prep[b].stage = "tip"
  /\ prep' = [prep EXCEPT ![b].stage = "seq", ![b].seq = max_seq]
  /\ UNCHANGED <<ledgerVars, lock, leaf_cache, committerVars, readerVars>>

PrepareRoot(b) ==
  /\ prep[b].stage = "seq"
  /\ prep' = [prep EXCEPT
       ![b].stage = "signed",
       ![b].leaves = Leaves(entries) \o Leaves(NewRows(prep[b].tip, prep[b].seq, b))]
  /\ UNCHANGED <<ledgerVars, lock, leaf_cache, committerVars, readerVars>>

-----------------------------------------------------------------------------
(* Proof requests, served from the cache. *)

\* The handler refuses a size above entry_count.
StartRead(r, n) ==
  /\ rpc[r] = "idle"
  /\ n \in 1 .. Len(entries)
  /\ rpc' = [rpc EXCEPT ![r] = "ensure"]
  /\ answer' = [answer EXCEPT ![r] = [size |-> n, leaves |-> <<>>]]
  /\ UNCHANGED <<ledgerVars, lock, leaf_cache, committerVars, prep>>

\* The cache ensure_cache_covers leaves for a request of size n.
CoverCache(cached, stored, n) ==
  IF Len(cached) >= n THEN cached ELSE SubSeq(stored, 1, n)

EnsureCacheCovers(r) ==
  /\ rpc[r] = "ensure"
  /\ leaf_cache' = [leaf_cache EXCEPT ![procOf[r]] =
       CoverCache(leaf_cache[procOf[r]], Leaves(entries), answer[r].size)]
  /\ rpc' = [rpc EXCEPT ![r] = "read"]
  /\ UNCHANGED <<ledgerVars, lock, committerVars, prep, answer>>

\* The read takes the cache lock again; it indexes the leaves it was promised.
ReadCache(r) ==
  LET cached == leaf_cache[procOf[r]]
      n == answer[r].size
  IN /\ rpc[r] = "read"
     /\ IF n <= Len(cached)
          THEN /\ rpc' = [rpc EXCEPT ![r] = "served"]
               /\ answer' = [answer EXCEPT ![r].leaves = SubSeq(cached, 1, n)]
          ELSE /\ rpc' = [rpc EXCEPT ![r] = "panicked"]
               /\ UNCHANGED answer
     /\ UNCHANGED <<ledgerVars, lock, leaf_cache, committerVars, prep>>

EndRead(r) ==
  /\ rpc[r] \in {"served", "panicked"}
  /\ rpc' = [rpc EXCEPT ![r] = "idle"]
  /\ answer' = [answer EXCEPT ![r] = NoAnswer]
  /\ UNCHANGED <<ledgerVars, lock, leaf_cache, committerVars, prep>>

-----------------------------------------------------------------------------
(* The audit of a stored commitment, and the next-state relation. *)

\* verify: the batch's own rows chain and rehash, and the root recomputed from
\* every row up to the batch's last one is the root the commitment claims.
Verify(x) ==
  LET rows == SelectSeq(entries, LAMBDA e : e.batch = x.id)
  IN /\ rows # <<>>
     /\ \A i \in DOMAIN rows :
          /\ i > 1 => rows[i].prev = rows[i - 1].hash
          /\ rows[i].hash = hash_entry(rows[i].seq, rows[i].prev, rows[i].event)
     /\ x.root = Leaves(SelectSeq(entries, LAMBDA e : e.seq <= x.last))

CommitterNext(c) ==
  \/ \E b \in Batch : Begin(c, b)
  \/ InsertRows(c)
  \/ ComputeRoot(c)
  \/ CommitTx(c)
  \/ CommitTxUnanswered(c)
  \/ Fail(c)
  \/ ResetCache(c)
  \/ Rollback(c)
  \/ Cancel(c)

PrepareNext(b) == PrepareTip(b) \/ PrepareSeq(b) \/ PrepareRoot(b)

ReaderNext(r) ==
  \/ \E n \in 1 .. Len(entries) : StartRead(r, n)
  \/ EnsureCacheCovers(r)
  \/ ReadCache(r)
  \/ EndRead(r)

Next ==
  \/ \E c \in Committer : CommitterNext(c)
  \/ \E b \in Batch : PrepareNext(b)
  \/ \E r \in Reader : ReaderNext(r)
  \/ \E p \in Proc : Crash(p)

Spec == Init /\ [][Next]_vars

\* Every step of a call that has begun is eventually taken; the advisory lock
\* is granted in arrival order, so a waiter is not passed over for ever.
Fairness ==
  \A c \in Committer :
    /\ SF_vars(InsertRows(c))
    /\ WF_vars(ComputeRoot(c))
    /\ WF_vars(CommitTx(c))
    /\ WF_vars(ResetCache(c))
    /\ WF_vars(Rollback(c))

FairSpec == Spec /\ Fairness

-----------------------------------------------------------------------------
(* Properties *)

\* Every variable has its type.
LedgerTypeOK ==
  /\ entries \in Rows
  /\ batches \in SUBSET BatchRow
  /\ sths \in SUBSET TreeHead
  /\ lock \in Committer \cup {NoOne}
  /\ leaf_cache \in [Proc -> Seq(Hash)]
  /\ pc \in [Committer -> {"idle", "begun", "locked", "sealed", "failed"}]
  /\ job \in [Committer -> Batch \cup {NoOne}]
  /\ head \in [Committer -> [rows : Rows, leaves : Seq(Hash)]]
  /\ prep \in [Batch -> [stage : {"none", "tip", "seq", "signed"}, tip : Hash,
                         seq : Nat, leaves : Seq(Hash)]]
  /\ rpc \in [Reader -> {"idle", "ensure", "read", "served", "panicked"}]
  /\ answer \in [Reader -> [size : Nat, leaves : Seq(Hash)]]

\* The stored rows are one hash chain from genesis, whatever calls overlapped,
\* failed, were dropped or crashed: seqs rise, each row's prev_hash is the hash
\* of the row before, and its entry_hash binds the two and the event.  What the
\* ledger began with may have gaps in seq; commits leave none, the ones rolled
\* back included (next_seq is max_seq + 1, read under the append lock).
ChainIntact ==
  /\ Chained(entries)
  /\ \A i \in Len(origin.rows) + 1 .. Len(entries) :
       entries[i].seq = SeqBefore(entries, i) + 1

\* The rows under batch id b are the ones after the first n, and they carry the
\* batch's events in order; an uncommitted id has no rows.
StoredAfter(n, b) ==
  LET k == IF b \in CommittedIds THEN Len(eventsOf[b]) ELSE 0
  IN /\ n + k <= Len(entries)
     /\ \A i \in 1 .. Len(entries) : entries[i].batch = b <=> i \in n + 1 .. n + k
     /\ \A i \in 1 .. k : entries[n + i].event = eventsOf[b][i]

\* A batch id is in the ledger once, whole and in one piece, or not at all,
\* however often its caller retries it and in whichever process (the replay
\* check of commit and finalize, and the primary key behind it).
BatchesWhole == \A b \in Batch : \E n \in 0 .. Len(entries) : StoredAfter(n, b)

\* Every signed tree head is the root of the rows the ledger really holds: the
\* cached leaves a root was computed from never differ from the table.
HeadsMatchLedger ==
  \A h \in sths :
    /\ h.size <= Len(entries)
    /\ h.root = Leaves(SubSeq(entries, 1, h.size))

\* Rows, batches and tree heads are only ever added.
AppendOnly ==
  [][/\ Len(entries') >= Len(entries)
     /\ SubSeq(entries', 1, Len(entries)) = entries
     /\ batches \subseteq batches'
     /\ sths \subseteq sths']_vars

\* The log a client sees: the seqs and events of the committed rows, the signed
\* heads and the committed batch ids.
Log == INSTANCE TransparencyLog WITH
         log        <- Pairs(entries),
         heads      <- sths,
         settled    <- CommittedIds,
         oldLog     <- Pairs(origin.rows),
         oldHeads   <- origin.heads,
         oldSettled <- {x.id : x \in origin.batches}

\* The ledger is the log it promises: whatever commit, finalize, failures and
\* crashes do inside, batches settle one at a time, each once and whole, with
\* the head of the log they leave.
ImplementsLog == Log!LogSpec

\* The leaves behind a served proof are the leaves the ledger stores at that
\* size, whatever commits extend or rebuild the cache between the two reads.
\* Excepted is a reader in the process of a failed commit that has not yet
\* reached reset_leaf_cache: the cache still holds the commit's undone leaves.
ServedGenuine ==
  [][\A r \in Reader :
       (/\ rpc[r] = "read" /\ rpc'[r] = "served"
        /\ \A c \in Committer : procOf[c] = procOf[r] => pc[c] # "failed")
       => answer'[r].leaves = Leaves(SubSeq(entries, 1, answer[r].size))]_vars

\* A commit that has begun ends, with an answer or an error; nobody waits for
\* ever on the advisory lock, even if its holder failed, was dropped or crashed.
CommitsTerminate ==
  \A c \in Committer : pc[c] = "begun" ~> pc[c] = "idle"

\* One committer per process and no dropped futures: the deployment in which
\* the leaf cache's count check is enough.
SoleCommitters ==
  /\ Cancellable = {}
  /\ \A c, d \in Committer : procOf[c] = procOf[d] => c = d

-----------------------------------------------------------------------------
(* Inductive invariants *)

\* Whoever inserts rows holds the lock and wrote them after the stored tip.
LockInv ==
  \A c \in Committer :
    /\ pc[c] # "idle" => job[c] \in Batch
    /\ pc[c] \in {"locked", "sealed"} =>
         /\ lock = c
         /\ head[c].rows = NewRows(tip_hash, max_seq, job[c])

\* A size a reader is about to cover or to read is committed.
ReaderInv ==
  \A r \in Reader : rpc[r] \in {"ensure", "read"} => answer[r].size \in 1 .. Len(entries)

ChainInv == LedgerTypeOK /\ ChainIntact /\ LockInv /\ ReaderInv

IsPrefixOf(s, t) == Len(s) <= Len(t) /\ \A i \in 1 .. Len(s) : s[i] = t[i]

\* A cache agrees with the table, but for the rows its process's open
\* transaction has sealed, and for a failed call that has yet to reset it.
CacheInv ==
  /\ \A c \in Committer : pc[c] = "sealed" =>
       /\ head[c].leaves = Leaves(entries) \o Leaves(head[c].rows)
       /\ IsPrefixOf(leaf_cache[procOf[c]], head[c].leaves)
  /\ \A p \in Proc :
       (\A c \in Committer : procOf[c] = p => pc[c] \notin {"sealed", "failed"})
         => IsPrefixOf(leaf_cache[p], Leaves(entries))

HeadInv == CacheInv /\ HeadsMatchLedger

\* A sealed batch is not in the ledger yet, and each stored hash is the list of
\* seqs and events up to its row.
LogInv ==
  /\ \A c \in Committer : pc[c] = "sealed" => job[c] \notin CommittedIds
  /\ Flat(entries)

=============================================================================
