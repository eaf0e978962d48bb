------------------------------- MODULE Outbox -------------------------------
(***************************************************************************)
(* The transactional outbox: crates/server/src/outbox.rs.                  *)
(*                                                                         *)
(* A request handler writes protocol events into protocol_outbox in the    *)
(* transaction of the rows they describe.  The outbox worker of every      *)
(* server process on the database drains pending rows, oldest first, under *)
(* a session advisory lock: one batch per shard, committed to the node's   *)
(* own ledger or submitted to the shard's remote authority, then the rows  *)
(* are marked one by one on the connection that holds the lock.            *)
(*                                                                         *)
(* A row's number is its place in (enqueued_at, seq) order; a batch holds  *)
(* its rows in that order and is written as a set.  A ledger is the        *)
(* sequence of the batches settled in it: commit is one transaction, as    *)
(* the module Ledger models it.                                            *)
(***************************************************************************)
EXTENDS Naturals, Sequences, FiniteSets

CONSTANTS
  Drainer,              \* server processes sharing the database
  Row,               \* outbox rows, numbered in (enqueued_at, seq) order
  Shard,             \* shard ids, numbered in the order of their names
  Authority,         \* settlement authorities
  Own,               \* this node's own ledger
  Batch,             \* batch ids: a bound on the batches alive at once
  DRAIN_BATCH_SIZE,  \* rows one tick picks up
  shard_id_for_event,\* the shard of each row's event
  txOf,              \* the transaction that enqueues each row
  target_for_shard,  \* the configured authority of each shard
  Unparseable,       \* rows whose event this version cannot read
  Down,              \* remote authorities that never answer
  OutboxFaults,            \* which ambiguous failures may happen
  NoOne              \* no lock holder, no batch

ASSUME OutboxAssumption ==
  /\ Row \subseteq Nat
  /\ Shard \subseteq Nat
  /\ DRAIN_BATCH_SIZE \in Nat \ {0}
  /\ Own \in Authority
  /\ shard_id_for_event \in [Row -> Shard]
  /\ target_for_shard \in [Shard -> Authority]
  /\ Unparseable \subseteq Row
  /\ Down \subseteq Authority \ {Own}
  /\ OutboxFaults \subseteq {"timeout", "unanswered", "update", "disconnect", "crash"}
  /\ NoOne \notin Drainer \cup Batch

VARIABLES
  outbox,      \* protocol_outbox: each row's state and batch_id
  ledger,      \* the batches settled at each authority, in order
  flight,      \* submitted batches an authority may still commit
  drain_lock,  \* holder of the drain advisory lock
  conn,        \* whether the connection of each drain is alive
  drain_pc,          \* where each worker is
  by_shard,    \* the groups each tick still has to commit
  cur,         \* the batch each tick is committing or marking
  todo,        \* rows each tick still has to update
  failing      \* RemoteSubmitStatus of each process

outboxDb == <<outbox, ledger, flight>>
outboxVars == <<outbox, ledger, flight, drain_lock, conn, drain_pc, by_shard, cur, todo,
          failing>>

NoGroups == [s \in Shard |-> {}]
NoBatch == [batch |-> NoOne, dest |-> Own, shard |-> NoOne, rows |-> {}]

Target(r) == target_for_shard[shard_id_for_event[r]]

Absent == [state |-> "absent", batch |-> NoOne]
Enqueued == [state |-> "pending", batch |-> NoOne]
Marked(b) == [state |-> "committed", batch |-> b]

PendingRows == {r \in Row : outbox[r].state = "pending"}

\* Batch b is in the ledger of authority a with these rows.
SettledAt(a, b, rows) ==
  \E i \in DOMAIN ledger[a] : ledger[a][i] = [batch |-> b, rows |-> rows]

\* A batch id no ledger, request, row or tick refers to: Uuid::new_v4.
Fresh(b) ==
  /\ \A a \in Authority : \A i \in DOMAIN ledger[a] : ledger[a][i].batch # b
  /\ \A q \in flight : q.batch # b
  /\ \A p \in Drainer : cur[p].batch # b

-----------------------------------------------------------------------------
OutboxInit ==
  /\ outbox = [r \in Row |-> Absent]
  /\ ledger = [a \in Authority |-> <<>>]
  /\ flight = {}
  /\ drain_lock = NoOne
  /\ conn = [p \in Drainer |-> FALSE]
  /\ drain_pc = [p \in Drainer |-> "idle"]
  /\ by_shard = [p \in Drainer |-> NoGroups]
  /\ cur = [p \in Drainer |-> NoBatch]
  /\ todo = [p \in Drainer |-> {}]
  /\ failing = [p \in Drainer |-> {}]

\* The transaction of a request commits: all its rows become visible at once.
\* Transactions may commit in another order than they started in.
enqueue(t) ==
  /\ \A r \in Row : txOf[r] = t => outbox[r].state = "absent"
  /\ outbox' = [r \in Row |-> IF txOf[r] = t THEN Enqueued ELSE outbox[r]]
  /\ UNCHANGED <<ledger, flight, drain_lock, conn, drain_pc, by_shard, cur, todo,
                 failing>>

\* pg_try_advisory_lock.  A tick that does not get the lock changes nothing.
drain_once(p) ==
  /\ drain_pc[p] = "idle"
  /\ drain_lock = NoOne
  /\ drain_lock' = p
  /\ conn' = [conn EXCEPT ![p] = TRUE]
  /\ drain_pc' = [drain_pc EXCEPT ![p] = "select"]
  /\ UNCHANGED <<outboxDb, by_shard, cur, todo, failing>>

\* Mutant of Oldest: LIMIT without ORDER BY.
OldestUnordered(rows) ==
  /\ rows \subseteq PendingRows
  /\ Cardinality(rows) <= DRAIN_BATCH_SIZE

\* The rows ORDER BY enqueued_at, seq LIMIT DRAIN_BATCH_SIZE returns.
Oldest(rows) ==
  /\ rows \subseteq PendingRows
  /\ Cardinality(rows) <= DRAIN_BATCH_SIZE
  /\ Cardinality(rows) < DRAIN_BATCH_SIZE => rows = PendingRows
  /\ \A r \in rows, q \in PendingRows \ rows : r < q

\* pending_rows, and the grouping by shard.  Rows that do not parse are set
\* aside to be dropped first.
pending_rows(p) ==
  /\ drain_pc[p] = "select"
  /\ conn[p]
  /\ \E rows \in SUBSET PendingRows :
       /\ Oldest(rows)
       /\ todo' = [todo EXCEPT ![p] = rows \cap Unparseable]
       /\ by_shard' = [by_shard EXCEPT ![p] =
            [s \in Shard |-> {r \in rows \ Unparseable :
                                shard_id_for_event[r] = s}]]
  /\ drain_pc' = [drain_pc EXCEPT ![p] = "drop"]
  /\ UNCHANGED <<outboxDb, drain_lock, conn, cur, failing>>

\* An unparseable row is marked without a batch.
DropUnparseable(p) ==
  /\ drain_pc[p] = "drop"
  /\ \/ /\ todo[p] = {}
        /\ drain_pc' = [drain_pc EXCEPT ![p] = "next"]
        /\ UNCHANGED <<outbox, todo>>
     \/ \E r \in todo[p] :
          /\ conn[p]
          /\ \A q \in todo[p] : r <= q
          /\ outbox' = [outbox EXCEPT ![r] = Marked(NoOne)]
          /\ todo' = [todo EXCEPT ![p] = @ \ {r}]
          /\ UNCHANGED drain_pc
  /\ UNCHANGED <<ledger, flight, drain_lock, conn, by_shard, cur, failing>>

\* The next shard's group becomes a batch with a new id.  A shard without a
\* configured target is committed here; any other is submitted.
NextBatch(p) ==
  /\ drain_pc[p] = "next"
  /\ \E s \in Shard, b \in Batch :
       LET a == target_for_shard[s]
           rows == by_shard[p][s]
       IN  /\ rows # {}
           /\ \A t \in Shard : by_shard[p][t] # {} => s <= t
           /\ Fresh(b)
           /\ cur' = [cur EXCEPT ![p] =
                [batch |-> b, dest |-> a, shard |-> s, rows |-> rows]]
           /\ by_shard' = [by_shard EXCEPT ![p][s] = {}]
           /\ flight' = IF a \in Down \cup {Own} THEN flight
                        ELSE flight \cup {[batch |-> b, dest |-> a, rows |-> rows]}
           /\ drain_pc' = [drain_pc EXCEPT ![p] = IF a = Own THEN "commit" ELSE "await"]
  /\ UNCHANGED <<outbox, ledger, drain_lock, conn, todo, failing>>

Settle(a, b, rows) ==
  ledger' = [ledger EXCEPT ![a] = Append(@, [batch |-> b, rows |-> rows])]

\* The tick turns to marking the rows of the batch it was answered for.
StartMarking(p) ==
  /\ drain_pc' = [drain_pc EXCEPT ![p] = "mark"]
  /\ todo' = [todo EXCEPT ![p] = cur[p].rows]
  /\ UNCHANGED cur

\* The batch failed: its rows stay pending for a later tick.
GiveUp(p) ==
  /\ drain_pc' = [drain_pc EXCEPT ![p] = "next"]
  /\ cur' = [cur EXCEPT ![p] = NoBatch]
  /\ UNCHANGED todo

\* chain.commit returned a commitment.
CommitLocal(p) ==
  /\ drain_pc[p] = "commit"
  /\ Settle(Own, cur[p].batch, cur[p].rows)
  /\ StartMarking(p)
  /\ UNCHANGED <<outbox, flight, drain_lock, conn, by_shard, failing>>

\* chain.commit returned an error and nothing is durable.
CommitFails(p) ==
  /\ drain_pc[p] = "commit"
  /\ GiveUp(p)
  /\ UNCHANGED <<outboxDb, drain_lock, conn, by_shard, failing>>

\* chain.commit returned an error although its transaction is durable: the
\* answer to COMMIT was lost.
CommitUnanswered(p) ==
  /\ "unanswered" \in OutboxFaults
  /\ drain_pc[p] = "commit"
  /\ Settle(Own, cur[p].batch, cur[p].rows)
  /\ GiveUp(p)
  /\ UNCHANGED <<outbox, flight, drain_lock, conn, by_shard, failing>>

\* The authority's submit_ledger_batch commits a submitted batch.
submit_ledger_batch(q) ==
  /\ q \in flight
  /\ flight' = flight \ {q}
  /\ Settle(q.dest, q.batch, q.rows)
  /\ UNCHANGED <<outbox, drain_lock, conn, drain_pc, by_shard, cur, todo, failing>>

\* The request is lost, or the authority refuses it or fails to commit it.
LoseRequest(q) ==
  /\ q \in flight
  /\ flight' = flight \ {q}
  /\ UNCHANGED <<outbox, ledger, drain_lock, conn, drain_pc, by_shard, cur, todo,
                 failing>>

\* submit returns the authority's commitment; record_success.
SubmitOk(p) ==
  /\ drain_pc[p] = "await"
  /\ SettledAt(cur[p].dest, cur[p].batch, cur[p].rows)
  /\ StartMarking(p)
  /\ failing' = [failing EXCEPT ![p] = @ \ {cur[p].shard}]
  /\ UNCHANGED <<outboxDb, drain_lock, conn, by_shard>>

\* The request is over without a commitment: it was refused or lost, or its
\* authority never answers and REMOTE_SETTLEMENT_TIMEOUT has passed.
NotSettling(p) ==
  /\ \A q \in flight : q.batch # cur[p].batch
  /\ ~SettledAt(cur[p].dest, cur[p].batch, cur[p].rows)

\* Mutant of SubmitErr: waits on instead of leaving the rows to a later tick.
SubmitErrWaits(p) ==
  /\ drain_pc[p] = "await"
  /\ NotSettling(p)
  /\ failing' = [failing EXCEPT ![p] = @ \cup {cur[p].shard}]
  /\ UNCHANGED <<outboxDb, drain_lock, conn, drain_pc, by_shard, cur, todo>>

\* submit returns an error; record_failure.  A timeout or a lost answer says
\* nothing about what the authority did or is still doing.
SubmitErr(p) ==
  /\ drain_pc[p] = "await"
  /\ NotSettling(p) \/ "timeout" \in OutboxFaults
  /\ GiveUp(p)
  /\ failing' = [failing EXCEPT ![p] = @ \cup {cur[p].shard}]
  /\ UNCHANGED <<outboxDb, drain_lock, conn, by_shard>>

\* UPDATE protocol_outbox, one row at a time, on the connection of the lock.
MarkRow(p) ==
  /\ drain_pc[p] = "mark"
  /\ \/ /\ todo[p] = {}
        /\ drain_pc' = [drain_pc EXCEPT ![p] = "next"]
        /\ cur' = [cur EXCEPT ![p] = NoBatch]
        /\ UNCHANGED <<outbox, todo>>
     \/ \E r \in todo[p] :
          /\ conn[p]
          /\ \A q \in todo[p] : r <= q
          /\ outbox' = [outbox EXCEPT ![r] = Marked(cur[p].batch)]
          /\ todo' = [todo EXCEPT ![p] = @ \ {r}]
          /\ UNCHANGED <<drain_pc, cur>>
  /\ UNCHANGED <<ledger, flight, drain_lock, conn, by_shard, failing>>

\* What is left of a tick when it ends, however it ends.  pg_advisory_unlock
\* does not fail on a live connection.
Leave(p) ==
  /\ drain_lock' = IF drain_lock = p THEN NoOne ELSE drain_lock
  /\ conn' = [conn EXCEPT ![p] = FALSE]
  /\ drain_pc' = [drain_pc EXCEPT ![p] = "idle"]
  /\ by_shard' = [by_shard EXCEPT ![p] = NoGroups]
  /\ cur' = [cur EXCEPT ![p] = NoBatch]
  /\ todo' = [todo EXCEPT ![p] = {}]

\* Every group was handled: pg_advisory_unlock.
EndDrain(p) ==
  /\ drain_pc[p] = "next"
  /\ by_shard[p] = NoGroups
  /\ Leave(p)
  /\ UNCHANGED <<outboxDb, failing>>

\* A statement of the tick fails on the lock's connection and drain_locked
\* returns early; it always does once that connection is gone.
TickFails(p) ==
  /\ drain_pc[p] \in {"select", "drop", "mark"}
  /\ ~conn[p] \/ "update" \in OutboxFaults
  /\ drain_pc[p] # "select" => todo[p] # {}
  /\ Leave(p)
  /\ UNCHANGED <<outboxDb, failing>>

\* The lock's connection is lost while the tick runs on; Postgres releases
\* the lock.
Disconnect(p) ==
  /\ "disconnect" \in OutboxFaults
  /\ conn[p]
  /\ conn' = [conn EXCEPT ![p] = FALSE]
  /\ drain_lock' = IF drain_lock = p THEN NoOne ELSE drain_lock
  /\ UNCHANGED <<outboxDb, drain_pc, by_shard, cur, todo, failing>>

\* The process dies and is restarted.
DrainerCrash(p) ==
  /\ "crash" \in OutboxFaults
  /\ drain_pc[p] # "idle" \/ failing[p] # {}
  /\ Leave(p)
  /\ failing' = [failing EXCEPT ![p] = {}]
  /\ UNCHANGED outboxDb

Worker(p) ==
  \/ drain_once(p)
  \/ pending_rows(p)
  \/ DropUnparseable(p)
  \/ NextBatch(p)
  \/ CommitLocal(p)
  \/ CommitFails(p)
  \/ SubmitOk(p)
  \/ SubmitErr(p)
  \/ MarkRow(p)
  \/ EndDrain(p)
  \/ TickFails(p)

OutboxNext ==
  \/ \E t \in {txOf[r] : r \in Row} : enqueue(t)
  \/ \E p \in Drainer : Worker(p) \/ CommitUnanswered(p) \/ Disconnect(p) \/ DrainerCrash(p)
  \/ \E q \in flight : submit_ledger_batch(q) \/ LoseRequest(q)

OutboxSpec == OutboxInit /\ [][OutboxNext]_outboxVars

\* Every worker keeps polling, every request reaches its end, and an authority
\* that answers at all does not fail every time.
OutboxFairness ==
  /\ \A t \in {txOf[r] : r \in Row} : WF_outboxVars(enqueue(t))
  /\ \A p \in Drainer : WF_outboxVars(Worker(p)) /\ SF_outboxVars(CommitLocal(p))
  /\ WF_outboxVars(\E q \in flight : submit_ledger_batch(q) \/ LoseRequest(q))
  /\ \A a \in Authority :
       SF_outboxVars(\E q \in flight : q.dest = a /\ submit_ledger_batch(q))

OutboxFairSpec == OutboxSpec /\ OutboxFairness

-----------------------------------------------------------------------------
(* Properties *)

Batches == [batch : Batch, rows : SUBSET Row]

\* Type correctness of the outbox table, the ledgers and the workers' state.
OutboxTypeOK ==
  /\ outbox \in [Row -> [state : {"absent", "pending", "committed"},
                         batch : Batch \cup {NoOne}]]
  /\ ledger \in [Authority -> Seq(Batches)]
  /\ flight \subseteq [batch : Batch, dest : Authority, rows : SUBSET Row]
  /\ drain_lock \in Drainer \cup {NoOne}
  /\ conn \in [Drainer -> BOOLEAN]
  /\ drain_pc \in [Drainer -> {"idle", "select", "drop", "next", "commit", "await", "mark"}]
  /\ by_shard \in [Drainer -> [Shard -> SUBSET Row]]
  /\ cur \in [Drainer -> [batch : Batch \cup {NoOne}, dest : Authority,
                       shard : Shard \cup {NoOne}, rows : SUBSET Row]]
  /\ todo \in [Drainer -> SUBSET Row]
  /\ failing \in [Drainer -> SUBSET Shard]

\* No event is lost: a row marked committed with a batch id is in that batch,
\* in the ledger of the one authority its shard is configured for, whatever
\* failed or crashed in between (drain_locked marks only after a commitment).
MarkedIsSettled ==
  \A r \in Row :
    (outbox[r].state = "committed" /\ r \notin Unparseable) =>
      \E rows \in SUBSET Row :
        r \in rows /\ SettledAt(Target(r), outbox[r].batch, rows)

\* A marked row keeps its mark and its batch_id: no second tick, however the
\* lock's connection was lost, marks it again (the updates of drain_locked run
\* on the connection that holds the drain lock).
MarkedOnce ==
  [][\A r \in Row : outbox[r].state = "committed" => outbox'[r] = outbox[r]]_outboxVars

\* Of the events one transaction enqueued for a shard, none is in the ledger
\* before an earlier one: whatever is cut off by the batch size, retried,
\* timed out or settled late keeps the order of ORDER BY enqueued_at, seq.
TransactionOrder ==
  \A r, q \in Row \ Unparseable :
    (r < q /\ txOf[r] = txOf[q] /\ shard_id_for_event[r] = shard_id_for_event[q]) =>
      \A i \in DOMAIN ledger[Target(q)] :
        q \in ledger[Target(q)][i].rows =>
          \E j \in 1 .. i : r \in ledger[Target(q)][j].rows

\* No event is committed into the ledger twice: with several processes
\* polling the same table, OUTBOX_DRAIN_LOCK_KEY rules out a double commit.
SettledOnce ==
  \A a \in Authority : \A i, j \in DOMAIN ledger[a] :
    ledger[a][i].rows \cap ledger[a][j].rows # {} => i = j

\* Every enqueued event is eventually marked, unless its own authority never
\* answers: a failing shard holds up no other shard.
OtherShardsProgress ==
  \A r \in Row :
    (outbox[r].state = "pending" /\ Target(r) \notin Down)
      ~> (outbox[r].state = "committed")

-----------------------------------------------------------------------------
(* Inductive invariants *)

\* What a tick holds: groups by shard without unparseable rows, and the batch
\* of one shard, settled once its rows are being marked.
TickOf(p) ==
  /\ drain_pc[p] \in {"idle", "select"} => todo[p] = {} /\ by_shard[p] = NoGroups
  /\ drain_pc[p] = "drop" => todo[p] \subseteq Unparseable
  /\ \A s \in Shard : \A r \in by_shard[p][s] :
       shard_id_for_event[r] = s /\ r \notin Unparseable
  /\ drain_pc[p] \in {"commit", "await", "mark"} =>
       /\ cur[p].batch \in Batch
       /\ cur[p].shard \in Shard
       /\ cur[p].dest = target_for_shard[cur[p].shard]
       /\ by_shard[p][cur[p].shard] = {}
       /\ \A r \in cur[p].rows :
            shard_id_for_event[r] = cur[p].shard /\ r \notin Unparseable
  /\ drain_pc[p] = "commit" => cur[p].dest = Own
  /\ drain_pc[p] = "mark" =>
       /\ todo[p] \subseteq cur[p].rows
       /\ SettledAt(cur[p].dest, cur[p].batch, cur[p].rows)

TickInv == \A p \in Drainer : TickOf(p)

\* A live connection in a tick holds the lock.
DrainLockInv == \A p \in Drainer : conn[p] => drain_lock = p

\* The rows a tick holds.
Holds(p) ==
  {r \in Row : \/ r \in todo[p]
               \/ \E s \in Shard : r \in by_shard[p][s]
               \/ drain_pc[p] \in {"commit", "await"} /\ r \in cur[p].rows}

\* The rows a tick holds are pending as long as its connection lives.
HeldInv == \A p \in Drainer : conn[p] => Holds(p) \subseteq PendingRows

Before(r, q) ==
  /\ r < q
  /\ txOf[r] = txOf[q]
  /\ shard_id_for_event[r] = shard_id_for_event[q]

\* Rows become visible with their transaction.
VisibleTogether ==
  \A r, q \in Row :
    txOf[r] = txOf[q] /\ outbox[r].state = "absent" => outbox[q].state = "absent"

\* The row is in a batch of its authority's ledger.
InLedger(r) == \E j \in DOMAIN ledger[Target(r)] : r \in ledger[Target(r)][j].rows

\* A set of rows leaves out an earlier row of a transaction only when that row
\* is settled.
Closed(rows) ==
  \A q \in rows, r \in Row \ Unparseable :
    Before(r, q) => r \in rows \/ InLedger(r)

OrderInv ==
  /\ VisibleTogether
  /\ \A p \in Drainer : \A s \in Shard : Closed(by_shard[p][s])
  /\ \A p \in Drainer : drain_pc[p] \in {"commit", "await"} => Closed(cur[p].rows)
  /\ \A q \in flight : Closed(q.rows)
  /\ TransactionOrder
=============================================================================
