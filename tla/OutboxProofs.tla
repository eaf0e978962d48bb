---------------------------- MODULE OutboxProofs ----------------------------
(***************************************************************************)
(* Proofs about the outbox, for any number of processes, rows, shards and  *)
(* authorities and whatever fails: a marked row is settled, it is marked   *)
(* once, and the rows of a transaction settle in order.                    *)
(***************************************************************************)
EXTENDS Outbox, TLAPS

USE OutboxAssumption

-----------------------------------------------------------------------------
(* Records and sequences *)

\* Appending keeps the elements there are and adds one at the end.
LEMMA AppendFacts ==
  ASSUME NEW S, NEW s \in Seq(S), NEW e \in S
  PROVE  /\ Append(s, e) \in Seq(S)
         /\ Len(Append(s, e)) = Len(s) + 1
         /\ DOMAIN s = 1 .. Len(s)
         /\ DOMAIN Append(s, e) = 1 .. Len(s) + 1
         /\ \A i \in 1 .. Len(s) : Append(s, e)[i] = s[i]
         /\ Append(s, e)[Len(s) + 1] = e
  OBVIOUS

CurRecord == [batch : Batch \cup {NoOne}, dest : Authority,
              shard : Shard \cup {NoOne}, rows : SUBSET Row]

\* The rows of a settled batch are those it was built with.
LEMMA RecordRows ==
  ASSUME NEW x, NEW b, NEW R, x = [batch |-> b, rows |-> R]
  PROVE  x.rows = R
  OBVIOUS

\* The empty batch of an idle tick has its type.
LEMMA NoBatchType == NoBatch \in CurRecord
  BY DEF NoBatch, CurRecord

\* The empty grouping of an idle tick has its type.
LEMMA NoGroupsType == NoGroups \in [Shard -> SUBSET Row]
  BY DEF NoGroups

\* Grouping rows by shard gives sets of rows.
LEMMA GroupType ==
  ASSUME OutboxTypeOK, NEW p \in Drainer, NEW s \in Shard
  PROVE  by_shard[p][s] \in SUBSET Row
<1>1. by_shard \in [Drainer -> [Shard -> SUBSET Row]]
  BY Zenon DEF OutboxTypeOK
<1>2. by_shard[p] \in [Shard -> SUBSET Row]
  BY <1>1
<1> QED
  BY <1>2

\* What a tick's own variables hold, without the records and ledgers around them.
LEMMA TickTypes ==
  ASSUME OutboxTypeOK
  PROVE  /\ drain_pc \in [Drainer -> {"idle", "select", "drop", "next", "commit", "await", "mark"}]
         /\ conn \in [Drainer -> BOOLEAN]
         /\ by_shard \in [Drainer -> [Shard -> SUBSET Row]]
         /\ todo \in [Drainer -> SUBSET Row]
         /\ cur = [q \in Drainer |-> cur[q]]
         /\ \A q \in Drainer : /\ cur[q].batch \in Batch \cup {NoOne}
                               /\ cur[q].dest \in Authority
                               /\ cur[q].shard \in Shard \cup {NoOne}
                               /\ cur[q].rows \in SUBSET Row
<1>1. cur \in [Drainer -> CurRecord]
  BY Zenon DEF OutboxTypeOK, CurRecord
<1>2. cur = [q \in Drainer |-> cur[q]] /\ \A q \in Drainer : cur[q] \in CurRecord
  BY <1>1
<1>3. \A c \in CurRecord : /\ c.batch \in Batch \cup {NoOne} /\ c.dest \in Authority
                            /\ c.shard \in Shard \cup {NoOne} /\ c.rows \in SUBSET Row
  BY DEF CurRecord
<1>4. /\ drain_pc \in [Drainer -> {"idle", "select", "drop", "next", "commit", "await", "mark"}]
      /\ conn \in [Drainer -> BOOLEAN]
      /\ by_shard \in [Drainer -> [Shard -> SUBSET Row]]
      /\ todo \in [Drainer -> SUBSET Row]
  BY Zenon DEF OutboxTypeOK
<1> QED
  BY <1>2, <1>3, <1>4, Zenon

\* Leaving a tick keeps the types of what it resets.
LEMMA LeaveType ==
  ASSUME OutboxTypeOK, NEW p \in Drainer, Leave(p)
  PROVE  /\ drain_lock' \in Drainer \cup {NoOne}
         /\ conn' \in [Drainer -> BOOLEAN]
         /\ drain_pc' \in [Drainer -> {"idle", "select", "drop", "next", "commit", "await", "mark"}]
         /\ by_shard' \in [Drainer -> [Shard -> SUBSET Row]]
         /\ cur' \in [Drainer -> CurRecord]
         /\ todo' \in [Drainer -> SUBSET Row]
  BY NoBatchType, NoGroupsType DEF Leave, OutboxTypeOK, CurRecord

\* Settling a batch keeps the ledgers' type.
LEMMA SettleType ==
  ASSUME OutboxTypeOK, NEW a \in Authority, NEW b \in Batch, NEW rows \in SUBSET Row,
         Settle(a, b, rows)
  PROVE  ledger' \in [Authority -> Seq(Batches)]
<1>1. [batch |-> b, rows |-> rows] \in Batches
  BY DEF Batches
<1>2. ledger[a] \in Seq(Batches)
  BY DEF OutboxTypeOK
<1>3. Append(ledger[a], [batch |-> b, rows |-> rows]) \in Seq(Batches)
  BY <1>1, <1>2, AppendFacts
<1> QED
  BY <1>3 DEF Settle, OutboxTypeOK

\* Type correctness holds in the initial state.
LEMMA TypeInit == OutboxInit => OutboxTypeOK
<1> SUFFICES ASSUME OutboxInit PROVE OutboxTypeOK
  OBVIOUS
<1>1. <<>> \in Seq(Batches)
  OBVIOUS
<1>2. cur \in [Drainer -> CurRecord]
  BY NoBatchType DEF OutboxInit
<1>3. outbox \in [Row -> [state : {"absent", "pending", "committed"},
                          batch : Batch \cup {NoOne}]]
  BY DEF OutboxInit, Absent
<1> QED
  BY <1>1, <1>2, <1>3, NoGroupsType DEF OutboxInit, OutboxTypeOK, CurRecord

OutboxRow == [state : {"absent", "pending", "committed"}, batch : Batch \cup {NoOne}]

\* A row just enqueued or just marked has its type.
LEMMA RowTypes ==
  /\ Enqueued \in OutboxRow
  /\ \A b \in Batch \cup {NoOne} : Marked(b) \in OutboxRow
  BY DEF Enqueued, Marked, OutboxRow

\* Type correctness is preserved by every step.
LEMMA TypeStep ==
  ASSUME OutboxTypeOK, TickInv, [OutboxNext]_outboxVars
  PROVE  OutboxTypeOK'
<1> USE DEF OutboxTypeOK
<1>1. CASE UNCHANGED outboxVars
  BY <1>1 DEF outboxVars
<1>2. ASSUME NEW t \in {txOf[r] : r \in Row}, enqueue(t) PROVE OutboxTypeOK'
  <2>1. outbox' \in [Row -> OutboxRow]
    BY <1>2, RowTypes DEF enqueue, OutboxRow
  <2> QED
    BY <1>2, <2>1 DEF enqueue, OutboxRow
<1>3. ASSUME NEW p \in Drainer, drain_once(p) PROVE OutboxTypeOK'
  BY <1>3 DEF drain_once, outboxDb
<1>4. ASSUME NEW p \in Drainer, pending_rows(p) PROVE OutboxTypeOK'
  <2>1. PICK rows \in SUBSET PendingRows :
          /\ todo' = [todo EXCEPT ![p] = rows \cap Unparseable]
          /\ by_shard' = [by_shard EXCEPT ![p] =
               [s \in Shard |-> {r \in rows \ Unparseable : shard_id_for_event[r] = s}]]
    BY <1>4, Zenon DEF pending_rows
  <2>2. rows \subseteq Row
    BY DEF PendingRows
  <2>3. by_shard' \in [Drainer -> [Shard -> SUBSET Row]] /\ todo' \in [Drainer -> SUBSET Row]
    BY <2>1, <2>2, Zenon
  <2> QED
    BY <1>4, <2>3 DEF pending_rows, outboxDb
<1>5. ASSUME NEW p \in Drainer, DropUnparseable(p) PROVE OutboxTypeOK'
  <2>a. ASSUME UNCHANGED <<outbox, todo>>
        PROVE  outbox' \in [Row -> OutboxRow] /\ todo' \in [Drainer -> SUBSET Row]
    BY <2>a DEF OutboxRow
  <2>b. ASSUME NEW r \in todo[p], outbox' = [outbox EXCEPT ![r] = Marked(NoOne)],
               todo' = [todo EXCEPT ![p] = @ \ {r}]
        PROVE  outbox' \in [Row -> OutboxRow] /\ todo' \in [Drainer -> SUBSET Row]
    <3>1. Marked(NoOne) \in OutboxRow
      BY RowTypes
    <3>2. outbox \in [Row -> OutboxRow]
      BY DEF OutboxRow
    <3> QED
      BY <2>b, <3>1, <3>2
  <2>1. outbox' \in [Row -> OutboxRow] /\ todo' \in [Drainer -> SUBSET Row]
    BY <1>5, <2>a, <2>b, Zenon DEF DropUnparseable, OutboxRow
  <2>2. drain_pc' \in [Drainer -> {"idle", "select", "drop", "next", "commit", "await", "mark"}]
    BY <1>5, Zenon DEF DropUnparseable
  <2> QED
    BY <1>5, <2>1, <2>2 DEF DropUnparseable, OutboxRow
<1>6. ASSUME NEW p \in Drainer, NextBatch(p) PROVE OutboxTypeOK'
  <2>1. PICK s \in Shard, b \in Batch :
          /\ cur' = [cur EXCEPT ![p] =
               [batch |-> b, dest |-> target_for_shard[s], shard |-> s,
                rows |-> by_shard[p][s]]]
          /\ by_shard' = [by_shard EXCEPT ![p][s] = {}]
          /\ flight' = IF target_for_shard[s] \in Down \cup {Own} THEN flight
                       ELSE flight \cup {[batch |-> b, dest |-> target_for_shard[s],
                                          rows |-> by_shard[p][s]]}
          /\ drain_pc' = [drain_pc EXCEPT ![p] = IF target_for_shard[s] = Own THEN "commit" ELSE "await"]
    BY <1>6, Zenon DEF NextBatch
  <2>a. by_shard[p] \in [Shard -> SUBSET Row]
    OBVIOUS
  <2>b. by_shard[p][s] \in SUBSET Row
    BY <2>a
  <2>c. target_for_shard[s] \in Authority
    OBVIOUS
  <2>2. [batch |-> b, dest |-> target_for_shard[s], shard |-> s,
         rows |-> by_shard[p][s]] \in CurRecord
    BY <2>b, <2>c, Zenon DEF CurRecord
  <2>3. cur' \in [Drainer -> CurRecord]
    BY <2>1, <2>2 DEF CurRecord
  <2>4. flight' \subseteq [batch : Batch, dest : Authority, rows : SUBSET Row]
    BY <2>1
  <2>5. by_shard' \in [Drainer -> [Shard -> SUBSET Row]]
    BY <2>1
  <2> QED
    BY <1>6, <2>1, <2>3, <2>4, <2>5 DEF NextBatch, CurRecord
<1>7. ASSUME NEW p \in Drainer, CommitLocal(p) PROVE OutboxTypeOK'
  <2>1. cur[p].batch \in Batch /\ cur[p].rows \in SUBSET Row
    BY <1>7 DEF TickInv, TickOf, CommitLocal
  <2>2. ledger' \in [Authority -> Seq(Batches)]
    BY <1>7, <2>1, SettleType DEF CommitLocal
  <2> QED
    BY <1>7, <2>1, <2>2 DEF CommitLocal, StartMarking
<1>8. ASSUME NEW p \in Drainer, CommitFails(p) PROVE OutboxTypeOK'
  <2>1. cur' \in [Drainer -> CurRecord]
    BY <1>8, NoBatchType DEF CommitFails, GiveUp, CurRecord
  <2> QED
    BY <1>8, <2>1 DEF CommitFails, GiveUp, outboxDb, CurRecord
<1>9. ASSUME NEW p \in Drainer, CommitUnanswered(p) PROVE OutboxTypeOK'
  <2>1. cur[p].batch \in Batch /\ cur[p].rows \in SUBSET Row
    BY <1>9 DEF TickInv, TickOf, CommitUnanswered
  <2>2. ledger' \in [Authority -> Seq(Batches)]
    BY <1>9, <2>1, SettleType DEF CommitUnanswered
  <2>3. cur' \in [Drainer -> CurRecord]
    BY <1>9, NoBatchType DEF CommitUnanswered, GiveUp, CurRecord
  <2> QED
    BY <1>9, <2>2, <2>3 DEF CommitUnanswered, GiveUp, CurRecord
<1>10. ASSUME NEW q \in flight, submit_ledger_batch(q) PROVE OutboxTypeOK'
  <2>1. ledger' \in [Authority -> Seq(Batches)]
    BY <1>10, SettleType DEF submit_ledger_batch
  <2> QED
    BY <1>10, <2>1 DEF submit_ledger_batch
<1>11. ASSUME NEW q \in flight, LoseRequest(q) PROVE OutboxTypeOK'
  BY <1>11 DEF LoseRequest
<1>12. ASSUME NEW p \in Drainer, SubmitOk(p) PROVE OutboxTypeOK'
  BY <1>12 DEF SubmitOk, StartMarking, outboxDb
<1>13. ASSUME NEW p \in Drainer, SubmitErr(p) PROVE OutboxTypeOK'
  <2>1. cur' \in [Drainer -> CurRecord]
    BY <1>13, NoBatchType DEF SubmitErr, GiveUp, CurRecord
  <2>2. failing' \in [Drainer -> SUBSET Shard]
    BY <1>13 DEF SubmitErr, TickInv, TickOf
  <2> QED
    BY <1>13, <2>1, <2>2 DEF SubmitErr, GiveUp, outboxDb, CurRecord
<1>14. ASSUME NEW p \in Drainer, MarkRow(p) PROVE OutboxTypeOK'
  <2>a. ASSUME UNCHANGED <<outbox, todo>>
        PROVE  outbox' \in [Row -> OutboxRow] /\ todo' \in [Drainer -> SUBSET Row]
    BY <2>a DEF OutboxRow
  <2>b. ASSUME NEW r \in todo[p], outbox' = [outbox EXCEPT ![r] = Marked(cur[p].batch)],
               todo' = [todo EXCEPT ![p] = @ \ {r}]
        PROVE  outbox' \in [Row -> OutboxRow] /\ todo' \in [Drainer -> SUBSET Row]
    <3>1. Marked(cur[p].batch) \in OutboxRow
      BY RowTypes
    <3>2. outbox \in [Row -> OutboxRow]
      BY DEF OutboxRow
    <3> QED
      BY <2>b, <3>1, <3>2
  <2>1. outbox' \in [Row -> OutboxRow] /\ todo' \in [Drainer -> SUBSET Row]
    BY <1>14, <2>a, <2>b, Zenon DEF MarkRow, OutboxRow
  <2>2. cur' \in [Drainer -> CurRecord]
    <3>1. cur' = cur \/ cur' = [cur EXCEPT ![p] = NoBatch]
      BY <1>14 DEF MarkRow
    <3>2. cur \in [Drainer -> CurRecord]
      BY DEF CurRecord
    <3> QED
      BY <3>1, <3>2, NoBatchType, Zenon
  <2>3. drain_pc' \in [Drainer -> {"idle", "select", "drop", "next", "commit", "await", "mark"}]
    BY <1>14, Zenon DEF MarkRow
  <2> QED
    BY <1>14, <2>1, <2>2, <2>3 DEF MarkRow, OutboxRow, CurRecord
<1>15. ASSUME NEW p \in Drainer, EndDrain(p) \/ TickFails(p) PROVE OutboxTypeOK'
  BY <1>15, LeaveType DEF EndDrain, TickFails, outboxDb, CurRecord
<1>16. ASSUME NEW p \in Drainer, Disconnect(p) PROVE OutboxTypeOK'
  BY <1>16 DEF Disconnect, outboxDb
<1>17. ASSUME NEW p \in Drainer, DrainerCrash(p) PROVE OutboxTypeOK'
  BY <1>17, LeaveType DEF DrainerCrash, outboxDb, CurRecord
<1> QED
  BY Zenon, <1>1, <1>2, <1>3, <1>4, <1>5, <1>6, <1>7, <1>8, <1>9, <1>10, <1>11, <1>12,
     <1>13, <1>14, <1>15, <1>16, <1>17 DEF OutboxNext, Worker

-----------------------------------------------------------------------------
(* The ledgers only grow *)

\* The positions of a ledger are 1 to its length.
LEMMA LedgerDomain ==
  ASSUME OutboxTypeOK, NEW a \in Authority
  PROVE  DOMAIN ledger[a] = 1 .. Len(ledger[a]) /\ Len(ledger[a]) \in Nat
<1>1. ledger \in [Authority -> Seq(Batches)]
  BY Zenon DEF OutboxTypeOK
<1>2. ledger[a] \in Seq(Batches)
  BY <1>1, Zenon
<1> QED
  BY ONLY <1>2

Grows ==
  \A a \in Authority :
    /\ DOMAIN ledger[a] \subseteq DOMAIN ledger'[a]
    /\ \A i \in DOMAIN ledger[a] : ledger'[a][i] = ledger[a][i]

\* Settling a batch only adds to a ledger.
LEMMA SettleGrows ==
  ASSUME OutboxTypeOK, NEW a \in Authority, NEW b \in Batch, NEW rows \in SUBSET Row,
         Settle(a, b, rows)
  PROVE  /\ Grows
         /\ SettledAt(a, b, rows)'
         /\ \A c \in Authority \ {a} : ledger'[c] = ledger[c]
         /\ DOMAIN ledger[a] = 1 .. Len(ledger[a])
         /\ DOMAIN ledger'[a] = 1 .. Len(ledger[a]) + 1
         /\ ledger'[a][Len(ledger[a]) + 1] = [batch |-> b, rows |-> rows]
<1> DEFINE e == [batch |-> b, rows |-> rows]
<1>1. e \in Batches
  BY DEF Batches
<1>2. ledger \in [Authority -> Seq(Batches)] /\ ledger[a] \in Seq(Batches)
  BY DEF OutboxTypeOK
<1>3. ledger' = [ledger EXCEPT ![a] = Append(ledger[a], e)]
  BY DEF Settle
<1> HIDE DEF e
<1>4. /\ DOMAIN ledger[a] = 1 .. Len(ledger[a])
      /\ DOMAIN Append(ledger[a], e) = 1 .. Len(ledger[a]) + 1
      /\ \A i \in 1 .. Len(ledger[a]) : Append(ledger[a], e)[i] = ledger[a][i]
      /\ Append(ledger[a], e)[Len(ledger[a]) + 1] = e
      /\ Len(ledger[a]) \in Nat
  BY <1>1, <1>2, AppendFacts
<1>5. ledger'[a] = Append(ledger[a], e) /\ \A c \in Authority \ {a} : ledger'[c] = ledger[c]
  BY <1>2, <1>3
<1>6. Grows
  BY <1>4, <1>5, SMTT(30) DEF Grows
<1>7. Len(ledger[a]) + 1 \in DOMAIN ledger'[a] /\ ledger'[a][Len(ledger[a]) + 1] = e
  BY <1>4, <1>5
<1>8. SettledAt(a, b, rows)'
  BY <1>7 DEF SettledAt, e
<1> QED
  BY <1>4, <1>5, <1>6, <1>7, <1>8 DEF e

\* A step that leaves the ledgers alone removes nothing from them.
LEMMA UnchangedGrows == ASSUME UNCHANGED ledger PROVE Grows
  BY DEF Grows

\* No step removes or changes a settled batch.
LEMMA GrowsStep ==
  ASSUME OutboxTypeOK, TickInv, [OutboxNext]_outboxVars
  PROVE  Grows
<1>1. ASSUME NEW p \in Drainer, CommitLocal(p) \/ CommitUnanswered(p) PROVE Grows
  <2>1. cur[p].batch \in Batch /\ cur[p].rows \in SUBSET Row /\ Own \in Authority
    <3>1. drain_pc[p] = "commit"
      BY <1>1 DEF CommitLocal, CommitUnanswered
    <3>2. cur[p].batch \in Batch
      BY <3>1 DEF TickInv, TickOf
    <3> QED
      BY <3>2, TickTypes
  <2>2. Settle(Own, cur[p].batch, cur[p].rows)
    BY <1>1 DEF CommitLocal, CommitUnanswered
  <2> QED
    BY <2>1, <2>2, SettleGrows, Zenon
<1>2. ASSUME NEW q \in flight, submit_ledger_batch(q) PROVE Grows
  <2>1. q.batch \in Batch /\ q.dest \in Authority /\ q.rows \in SUBSET Row
    BY DEF OutboxTypeOK
  <2>2. Settle(q.dest, q.batch, q.rows)
    BY <1>2 DEF submit_ledger_batch
  <2> QED
    BY <2>1, <2>2, SettleGrows, Zenon
<1>3. CASE UNCHANGED ledger
  BY <1>3, UnchangedGrows
<1>4. \/ \E p \in Drainer : CommitLocal(p) \/ CommitUnanswered(p)
      \/ \E q \in flight : submit_ledger_batch(q)
      \/ UNCHANGED ledger
  BY DEF OutboxNext, Worker, outboxVars, outboxDb, enqueue, drain_once, pending_rows,
         DropUnparseable, NextBatch, CommitFails, LoseRequest, SubmitOk, SubmitErr,
         MarkRow, EndDrain, TickFails, Disconnect, DrainerCrash
<1> QED
  BY <1>1, <1>2, <1>3, <1>4

\* What is settled stays settled.
LEMMA GrowsKeeps ==
  ASSUME Grows
  PROVE  /\ \A a \in Authority : \A b, rows : SettledAt(a, b, rows) => SettledAt(a, b, rows)'
         /\ \A r \in Row : InLedger(r) => InLedger(r)'
<1>1. ASSUME NEW a \in Authority, NEW b, NEW rows, SettledAt(a, b, rows)
      PROVE  SettledAt(a, b, rows)'
  BY <1>1 DEF Grows, SettledAt
<1>2. ASSUME NEW r \in Row, InLedger(r) PROVE InLedger(r)'
  <2>1. Target(r) \in Authority
    BY Zenon DEF Target
  <2>2. Target(r)' = Target(r)
    BY DEF Target
  <2> QED
    BY <1>2, <2>1, <2>2 DEF Grows, InLedger
<1> QED
  BY <1>1, <1>2

-----------------------------------------------------------------------------
(* What a tick holds *)

\* A step of process p.
Steps(p) ==
  Worker(p) \/ CommitUnanswered(p) \/ Disconnect(p) \/ DrainerCrash(p)

\* A step of one process leaves the ticks of the others alone.
LEMMA OthersSame ==
  ASSUME OutboxTypeOK, NEW p \in Drainer, Steps(p), NEW q \in Drainer, q # p
  PROVE  /\ drain_pc'[q] = drain_pc[q] /\ by_shard'[q] = by_shard[q] /\ cur'[q] = cur[q]
         /\ todo'[q] = todo[q] /\ conn'[q] = conn[q]
<1> USE DEF OutboxTypeOK, outboxDb
<1>1. CASE drain_once(p) \/ Disconnect(p)
  BY <1>1 DEF drain_once, Disconnect
<1>2. CASE pending_rows(p)
  BY <1>2 DEF pending_rows
<1>3. CASE DropUnparseable(p)
  BY <1>3 DEF DropUnparseable
<1>4. CASE NextBatch(p)
  BY <1>4 DEF NextBatch
<1>5. CASE CommitLocal(p) \/ CommitFails(p) \/ CommitUnanswered(p)
  BY <1>5 DEF CommitLocal, CommitFails, CommitUnanswered, StartMarking, GiveUp
<1>6. CASE SubmitOk(p) \/ SubmitErr(p)
  BY <1>6 DEF SubmitOk, SubmitErr, StartMarking, GiveUp
<1>7. CASE MarkRow(p)
  BY <1>7 DEF MarkRow
<1>8. CASE EndDrain(p) \/ TickFails(p) \/ DrainerCrash(p)
  BY <1>8 DEF EndDrain, TickFails, DrainerCrash, Leave
<1> QED
  BY <1>1, <1>2, <1>3, <1>4, <1>5, <1>6, <1>7, <1>8 DEF Steps, Worker

\* An environment step leaves every tick alone.
LEMMA EnvironmentSame ==
  ASSUME \/ UNCHANGED outboxVars
         \/ \E t : enqueue(t)
         \/ \E q \in flight : submit_ledger_batch(q) \/ LoseRequest(q)
  PROVE  UNCHANGED <<drain_pc, by_shard, cur, todo, conn, drain_lock>>
  BY DEF outboxVars, enqueue, submit_ledger_batch, LoseRequest

\* A tick whose variables a step leaves alone still holds what it did, because
\* ledgers only grow.
LEMMA TickFrame ==
  ASSUME OutboxTypeOK, Grows, NEW q \in Drainer, TickOf(q),
         drain_pc'[q] = drain_pc[q], by_shard'[q] = by_shard[q], cur'[q] = cur[q], todo'[q] = todo[q]
  PROVE  TickOf(q)'
<1>1. drain_pc[q] = "mark" => SettledAt(cur[q].dest, cur[q].batch, cur[q].rows)'
  <2>1. cur[q].dest \in Authority
    BY TickTypes
  <2>2. SUFFICES ASSUME drain_pc[q] = "mark"
                 PROVE  \E i \in DOMAIN ledger'[cur[q].dest] :
                          ledger'[cur[q].dest][i] =
                            [batch |-> cur[q].batch, rows |-> cur[q].rows]
    BY DEF SettledAt
  <2>3. SettledAt(cur[q].dest, cur[q].batch, cur[q].rows)
    BY <2>2 DEF TickOf
  <2>4. PICK i \in DOMAIN ledger[cur[q].dest] :
          ledger[cur[q].dest][i] = [batch |-> cur[q].batch, rows |-> cur[q].rows]
    BY <2>3 DEF SettledAt
  <2>5. i \in DOMAIN ledger'[cur[q].dest] /\ ledger'[cur[q].dest][i] = ledger[cur[q].dest][i]
    BY <2>1, Zenon DEF Grows
  <2> QED
    BY <2>4, <2>5, Zenon
<1> QED
  BY <1>1 DEF TickOf, SettledAt

\* A tick that has left holds nothing.
LEMMA LeaveTick ==
  ASSUME OutboxTypeOK, NEW p \in Drainer, Leave(p)
  PROVE  TickOf(p)'
<1>1. drain_pc'[p] = "idle" /\ todo'[p] = {} /\ by_shard'[p] = NoGroups
  BY DEF Leave, OutboxTypeOK
<1>2. \A s \in Shard : NoGroups[s] = {}
  BY DEF NoGroups
<1> QED
  BY <1>1, <1>2 DEF TickOf

\* What a tick holds is kept by every step.
LEMMA TickStep ==
  ASSUME OutboxTypeOK, TickInv, [OutboxNext]_outboxVars
  PROVE  TickInv'
<1> USE TickTypes
<1>0. Grows
  BY GrowsStep
<1>1. ASSUME \/ UNCHANGED outboxVars
             \/ \E t : enqueue(t)
             \/ \E q \in flight : submit_ledger_batch(q) \/ LoseRequest(q)
      PROVE  TickInv'
  BY <1>0, <1>1, EnvironmentSame, TickFrame DEF TickInv
<1>2. ASSUME NEW p \in Drainer, Steps(p), TickOf(p)'
      PROVE  TickInv'
  BY <1>0, <1>2, OthersSame, TickFrame DEF TickInv
<1>3. ASSUME NEW p \in Drainer, drain_once(p) PROVE TickOf(p)'
  <2>1. drain_pc[p] = "idle" /\ drain_pc'[p] = "select"
        /\ UNCHANGED <<by_shard, cur, todo>>
    BY <1>3 DEF drain_once
  <2> QED
    BY <2>1 DEF TickInv, TickOf
<1>4. ASSUME NEW p \in Drainer, pending_rows(p) PROVE TickOf(p)'
  <2>1. PICK rows \in SUBSET PendingRows :
          /\ todo' = [todo EXCEPT ![p] = rows \cap Unparseable]
          /\ by_shard' = [by_shard EXCEPT ![p] =
               [s \in Shard |-> {r \in rows \ Unparseable : shard_id_for_event[r] = s}]]
    BY <1>4, Zenon DEF pending_rows
  <2>2. drain_pc'[p] = "drop"
    BY <1>4 DEF pending_rows
  <2>3. todo'[p] \subseteq Unparseable
    BY <2>1
  <2>4. \A s \in Shard : by_shard'[p][s] =
                           {r \in rows \ Unparseable : shard_id_for_event[r] = s}
    BY <2>1
  <2> QED
    BY <2>2, <2>3, <2>4 DEF TickOf
<1>5. ASSUME NEW p \in Drainer, DropUnparseable(p) PROVE TickOf(p)'
  <2>1. drain_pc[p] = "drop" /\ drain_pc'[p] \in {"drop", "next"} /\ UNCHANGED by_shard
        /\ todo'[p] \subseteq todo[p]
    BY <1>5 DEF DropUnparseable
  <2> QED
    BY <2>1 DEF TickInv, TickOf
<1>6. ASSUME NEW p \in Drainer, NextBatch(p) PROVE TickOf(p)'
  <2>1. PICK s \in Shard, b \in Batch :
          /\ cur' = [cur EXCEPT ![p] =
               [batch |-> b, dest |-> target_for_shard[s], shard |-> s,
                rows |-> by_shard[p][s]]]
          /\ by_shard' = [by_shard EXCEPT ![p] = [by_shard[p] EXCEPT ![s] = {}]]
          /\ drain_pc' = [drain_pc EXCEPT ![p] = IF target_for_shard[s] = Own THEN "commit" ELSE "await"]
    BY <1>6, Zenon DEF NextBatch
  <2>2. /\ cur'[p].batch = b /\ cur'[p].dest = target_for_shard[s]
        /\ cur'[p].shard = s /\ cur'[p].rows = by_shard[p][s]
    BY <2>1
  <2>3. by_shard'[p][s] = {} /\ \A t \in Shard : by_shard'[p][t] \subseteq by_shard[p][t]
    BY <2>1
  <2>4. drain_pc'[p] \in {"commit", "await"} /\ (drain_pc'[p] = "commit" => target_for_shard[s] = Own)
    BY <2>1
  <2>5. \A t \in Shard : \A r \in by_shard[p][t] :
          shard_id_for_event[r] = t /\ r \notin Unparseable
    BY DEF TickInv, TickOf
  <2> QED
    BY <2>2, <2>3, <2>4, <2>5 DEF TickOf
<1>7. ASSUME NEW p \in Drainer, CommitLocal(p) PROVE TickOf(p)'
  <2>1. cur[p].batch \in Batch /\ cur[p].rows \in SUBSET Row /\ cur[p].dest = Own
    BY <1>7 DEF TickInv, TickOf, CommitLocal
  <2> DEFINE b == cur[p].batch
             rows == cur[p].rows
  <2>2. \E i \in DOMAIN ledger'[Own] : ledger'[Own][i] = [batch |-> b, rows |-> rows]
    <3>1. Settle(Own, b, rows) /\ Own \in Authority
      BY <1>7 DEF CommitLocal
    <3>2. PICK B \in Batch, R \in SUBSET Row : B = b /\ R = rows
      BY <2>1
    <3>3. Settle(Own, B, R)
      BY <3>1, <3>2, Zenon
    <3>4. SettledAt(Own, B, R)'
      BY <3>1, <3>3, SettleGrows, Zenon
    <3>5. \E i \in DOMAIN ledger'[Own] : ledger'[Own][i] = [batch |-> B, rows |-> R]
      BY <3>4, Zenon DEF SettledAt
    <3> QED
      BY <3>2, <3>5, Zenon
  <2>3. /\ drain_pc[p] = "commit" /\ drain_pc'[p] = "mark" /\ todo'[p] = cur[p].rows
        /\ UNCHANGED <<cur, by_shard>>
    BY <1>7 DEF CommitLocal, StartMarking
  <2> QED
    BY <2>1, <2>2, <2>3 DEF TickInv, TickOf, SettledAt
<1>8. ASSUME NEW p \in Drainer, CommitFails(p) \/ CommitUnanswered(p) \/ SubmitErr(p)
      PROVE  TickOf(p)'
  <2>1. drain_pc'[p] = "next" /\ UNCHANGED by_shard
    BY <1>8 DEF CommitFails, CommitUnanswered, SubmitErr, GiveUp
  <2> QED
    BY <2>1 DEF TickInv, TickOf
<1>9. ASSUME NEW p \in Drainer, SubmitOk(p) PROVE TickOf(p)'
  <2>1. /\ drain_pc[p] = "await" /\ drain_pc'[p] = "mark" /\ todo'[p] = cur[p].rows
        /\ UNCHANGED <<cur, by_shard, ledger>>
        /\ SettledAt(cur[p].dest, cur[p].batch, cur[p].rows)
    BY <1>9 DEF SubmitOk, StartMarking, outboxDb
  <2>2. cur'[p] = cur[p] /\ by_shard'[p] = by_shard[p]
        /\ SettledAt(cur[p].dest, cur[p].batch, cur[p].rows)'
    BY <2>1 DEF SettledAt
  <2>3. TickOf(p)
    BY DEF TickInv
  <2> QED
    BY <2>1, <2>2, <2>3, Zenon DEF TickOf, SettledAt
<1>10. ASSUME NEW p \in Drainer, MarkRow(p) PROVE TickOf(p)'
  <2>1. CASE UNCHANGED <<drain_pc, cur>>
    <3>1. drain_pc[p] = "mark" /\ todo'[p] \subseteq todo[p] /\ UNCHANGED <<by_shard, ledger>>
      BY <1>10 DEF MarkRow
    <3> QED
      BY <2>1, <3>1 DEF TickInv, TickOf, SettledAt
  <2>2. CASE drain_pc' = [drain_pc EXCEPT ![p] = "next"]
    <3>1. drain_pc'[p] = "next" /\ UNCHANGED by_shard
      BY <1>10, <2>2 DEF MarkRow
    <3> QED
      BY <3>1 DEF TickInv, TickOf
  <2> QED
    BY <1>10, <2>1, <2>2 DEF MarkRow
<1>11. ASSUME NEW p \in Drainer, EndDrain(p) \/ TickFails(p) \/ DrainerCrash(p) PROVE TickOf(p)'
  BY <1>11, LeaveTick DEF EndDrain, TickFails, DrainerCrash
<1>12. ASSUME NEW p \in Drainer, Disconnect(p) PROVE TickOf(p)'
  <2>1. UNCHANGED <<drain_pc, by_shard, cur, todo>>
    BY <1>12 DEF Disconnect
  <2> QED
    BY <1>0, <2>1, TickFrame DEF TickInv
<1>13. ASSUME NEW p \in Drainer, Steps(p) PROVE TickOf(p)'
  BY <1>3, <1>4, <1>5, <1>6, <1>7, <1>8, <1>9, <1>10, <1>11, <1>12, <1>13
     DEF Steps, Worker
<1> QED
  BY <1>1, <1>2, <1>13 DEF OutboxNext, Steps

-----------------------------------------------------------------------------
(* The drain lock and the rows it protects *)

\* Every step keeps a live connection the holder of the drain lock.
LEMMA DrainLockStep ==
  ASSUME OutboxTypeOK, DrainLockInv, [OutboxNext]_outboxVars
  PROVE  DrainLockInv'
<1> USE DEF OutboxTypeOK, DrainLockInv, outboxDb
<1>1. CASE UNCHANGED <<conn, drain_lock>>
  BY <1>1
<1>2. ASSUME NEW p \in Drainer, drain_once(p) PROVE DrainLockInv'
  BY <1>2 DEF drain_once
<1>3. ASSUME NEW p \in Drainer, Leave(p) \/ Disconnect(p) PROVE DrainLockInv'
  <2>1. /\ conn' = [conn EXCEPT ![p] = FALSE]
        /\ drain_lock' = IF drain_lock = p THEN NoOne ELSE drain_lock
    BY <1>3 DEF Leave, Disconnect
  <2>2. SUFFICES ASSUME NEW q \in Drainer, conn'[q] PROVE drain_lock' = q
    OBVIOUS
  <2>3. q # p /\ conn[q]
    BY <2>1, <2>2, Zenon
  <2> QED
    BY <2>1, <2>3
<1>4. \/ UNCHANGED <<conn, drain_lock>>
      \/ \E p \in Drainer : drain_once(p) \/ Leave(p) \/ Disconnect(p)
  BY DEF OutboxNext, Worker, outboxVars, enqueue, pending_rows, DropUnparseable, NextBatch,
         CommitLocal, CommitFails, CommitUnanswered, submit_ledger_batch, LoseRequest,
         SubmitOk, SubmitErr, MarkRow, EndDrain, TickFails, DrainerCrash
<1> QED
  BY <1>1, <1>2, <1>3, <1>4

\* What a tick holds, by the variable it is held in.
LEMMA InHolds ==
  ASSUME NEW p \in Drainer, NEW x
  PROVE  /\ x \in Holds(p) <=> x \in Row /\
              \/ x \in todo[p]
              \/ \E s \in Shard : x \in by_shard[p][s]
              \/ drain_pc[p] \in {"commit", "await"} /\ x \in cur[p].rows
         /\ x \in Holds(p)' <=> x \in Row /\
              \/ x \in todo'[p]
              \/ \E s \in Shard : x \in by_shard'[p][s]
              \/ drain_pc'[p] \in {"commit", "await"} /\ x \in cur'[p].rows
  BY DEF Holds

HeldOf(p) == conn[p] => Holds(p) \subseteq PendingRows

\* A tick whose variables and rows a step leaves alone keeps them pending.
LEMMA HeldFrame ==
  ASSUME OutboxTypeOK, NEW q \in Drainer, HeldOf(q),
         drain_pc'[q] = drain_pc[q], by_shard'[q] = by_shard[q], cur'[q] = cur[q],
         todo'[q] = todo[q], conn'[q] = conn[q],
         PendingRows \subseteq PendingRows'
  PROVE  HeldOf(q)'
<1>1. Holds(q)' = Holds(q)
  BY DEF Holds
<1> QED
  BY <1>1 DEF HeldOf

\* A step that leaves the table alone leaves the same rows pending.
LEMMA SamePending == ASSUME UNCHANGED outbox PROVE PendingRows' = PendingRows
  BY DEF PendingRows

\* A tick that drops what it holds keeps its rows pending.
LEMMA HeldShrinks ==
  ASSUME NEW p \in Drainer, HeldOf(p), UNCHANGED <<outbox, conn>>,
         \A x : x \in Holds(p)' => x \in Holds(p)
  PROVE  HeldOf(p)'
  BY SamePending DEF HeldOf

\* Updating row r takes it out of the pending rows and out of what the tick
\* holds; no other tick has a live connection.
LEMMA HeldUpdate ==
  ASSUME OutboxTypeOK, DrainLockInv, HeldInv, NEW p \in Drainer, NEW r \in Row,
         NEW b \in Batch \cup {NoOne},
         conn[p], outbox' = [outbox EXCEPT ![r] = Marked(b)], UNCHANGED conn,
         \A x : x \in Holds(p)' => x \in Holds(p) /\ x # r
  PROVE  HeldInv'
<1>1. PendingRows' = PendingRows \ {r}
  BY DEF PendingRows, Marked, OutboxTypeOK
<1>2. SUFFICES ASSUME NEW q \in Drainer, conn'[q] PROVE Holds(q)' \subseteq PendingRows'
  BY DEF HeldInv
<1>3. q = p
  BY <1>2 DEF DrainLockInv
<1> QED
  BY <1>1, <1>3 DEF HeldInv

\* The rows a live tick holds stay pending.
LEMMA HeldStep ==
  ASSUME OutboxTypeOK, TickInv, DrainLockInv, HeldInv, [OutboxNext]_outboxVars
  PROVE  HeldInv'
<1> USE TickTypes DEF outboxDb
<1>0. \A q \in Drainer : HeldOf(q)
  BY DEF HeldInv, HeldOf
<1>1. ASSUME UNCHANGED outboxVars \/ \E q \in flight : submit_ledger_batch(q) \/ LoseRequest(q)
      PROVE  HeldInv'
  <2>1. UNCHANGED <<outbox, drain_pc, by_shard, cur, todo, conn>>
    BY <1>1 DEF outboxVars, submit_ledger_batch, LoseRequest
  <2> QED
    BY <1>0, <2>1, SamePending, HeldFrame DEF HeldInv, HeldOf
<1>2. ASSUME NEW t, enqueue(t) PROVE HeldInv'
  <2>1. UNCHANGED <<drain_pc, by_shard, cur, todo, conn>>
    BY <1>2 DEF enqueue
  <2>2. PendingRows \subseteq PendingRows'
    BY <1>2 DEF enqueue, PendingRows, Enqueued
  <2> QED
    BY <1>0, <2>1, <2>2, HeldFrame, Zenon DEF HeldInv, HeldOf
<1>3. ASSUME NEW p \in Drainer, Steps(p), UNCHANGED outbox, HeldOf(p)' PROVE HeldInv'
  <2>1. SUFFICES ASSUME NEW q \in Drainer PROVE HeldOf(q)'
    BY DEF HeldInv, HeldOf
  <2>2. CASE q = p
    BY <1>3, <2>2
  <2>3. CASE q # p
    BY <1>0, <1>3, <2>3, OthersSame, SamePending, HeldFrame
  <2> QED
    BY <2>2, <2>3
<1>4. ASSUME NEW p \in Drainer, drain_once(p) PROVE HeldInv'
  <2>1. /\ drain_pc[p] = "idle" /\ drain_pc'[p] = "select"
        /\ UNCHANGED <<outbox, by_shard, cur, todo>>
    BY <1>4 DEF drain_once
  <2>2. todo[p] = {} /\ \A s \in Shard : by_shard[p][s] = {}
    BY <2>1 DEF TickInv, TickOf, NoGroups
  <2>3. \A x : x \notin Holds(p)'
    BY <2>1, <2>2, InHolds
  <2>4. HeldOf(p)'
    BY <2>3 DEF HeldOf
  <2> QED
    BY <1>3, <1>4, <2>1, <2>4 DEF Steps, Worker
<1>5. ASSUME NEW p \in Drainer, pending_rows(p) PROVE HeldInv'
  <2>1. PICK rows \in SUBSET PendingRows :
          /\ todo' = [todo EXCEPT ![p] = rows \cap Unparseable]
          /\ by_shard' = [by_shard EXCEPT ![p] =
               [s \in Shard |-> {r \in rows \ Unparseable : shard_id_for_event[r] = s}]]
    BY <1>5, Zenon DEF pending_rows
  <2>2. drain_pc'[p] = "drop" /\ UNCHANGED outbox
    BY <1>5 DEF pending_rows
  <2>3. todo'[p] \subseteq rows /\ \A s \in Shard : by_shard'[p][s] \subseteq rows
    BY <2>1
  <2>4. \A x : x \in Holds(p)' => x \in rows
    BY <2>2, <2>3, InHolds, Zenon
  <2>5. HeldOf(p)'
    BY <2>2, <2>4, SamePending DEF HeldOf
  <2> QED
    BY <1>3, <1>5, <2>2, <2>5 DEF Steps, Worker
<1>6. ASSUME NEW p \in Drainer, DropUnparseable(p) PROVE HeldInv'
  <2>1. CASE todo[p] = {} /\ UNCHANGED <<outbox, todo>>
    <3>1. drain_pc'[p] \in {"drop", "next"} /\ UNCHANGED <<by_shard, conn>>
      BY <1>6 DEF DropUnparseable
    <3>2. \A x : x \in Holds(p)' => x \in Holds(p)
      BY <2>1, <3>1, InHolds
    <3>3. HeldOf(p)'
      BY <1>0, <2>1, <3>1, <3>2, HeldShrinks
    <3> QED
      BY <1>3, <1>6, <2>1, <3>3 DEF Steps, Worker
  <2>2. ASSUME NEW r \in todo[p], conn[p], outbox' = [outbox EXCEPT ![r] = Marked(NoOne)],
               todo' = [todo EXCEPT ![p] = @ \ {r}], UNCHANGED drain_pc
        PROVE  HeldInv'
    <3>1. drain_pc[p] = "drop" /\ UNCHANGED <<by_shard, conn>>
      BY <1>6 DEF DropUnparseable
    <3>2. r \in Unparseable /\ \A s \in Shard : r \notin by_shard[p][s]
      BY <2>2, <3>1 DEF TickInv, TickOf
    <3>3. todo'[p] = todo[p] \ {r} /\ r \in Row
      BY <2>2
    <3>4. ASSUME NEW x, x \in Holds(p)' PROVE x \in Holds(p) /\ x # r
      <4>1. drain_pc'[p] = drain_pc[p] /\ by_shard'[p] = by_shard[p]
        BY <2>2, <3>1
      <4>2. x \in Row /\ (x \in todo'[p] \/ \E s \in Shard : x \in by_shard[p][s])
        BY <3>1, <3>4, <4>1, InHolds
      <4>3. x \in Holds(p)
        BY <3>3, <4>2, InHolds
      <4> QED
        BY <3>2, <3>3, <4>2, <4>3
    <3> QED
      BY <2>2, <3>1, <3>3, <3>4, HeldUpdate, Zenon
  <2> QED
    BY <1>6, <2>1, <2>2 DEF DropUnparseable
<1>7. ASSUME NEW p \in Drainer, NextBatch(p) PROVE HeldInv'
  <2>1. PICK s \in Shard, b \in Batch :
          /\ cur' = [cur EXCEPT ![p] =
               [batch |-> b, dest |-> target_for_shard[s], shard |-> s,
                rows |-> by_shard[p][s]]]
          /\ by_shard' = [by_shard EXCEPT ![p] = [by_shard[p] EXCEPT ![s] = {}]]
    BY <1>7, Zenon DEF NextBatch
  <2>2. cur'[p].rows = by_shard[p][s]
    BY <2>1
  <2>3. \A t \in Shard : by_shard'[p][t] \subseteq by_shard[p][t]
    BY <2>1
  <2>4. UNCHANGED <<outbox, conn, todo>>
    BY <1>7 DEF NextBatch
  <2>5. \A x : x \in Holds(p)' => x \in Holds(p)
    BY <2>2, <2>3, <2>4, InHolds
  <2>6. HeldOf(p)'
    BY <1>0, <2>4, <2>5, HeldShrinks
  <2> QED
    BY <1>3, <1>7, <2>4, <2>6 DEF Steps, Worker
<1>8. ASSUME NEW p \in Drainer,
             \/ CommitLocal(p) \/ SubmitOk(p)
             \/ CommitFails(p) \/ CommitUnanswered(p) \/ SubmitErr(p)
      PROVE  HeldInv'
  <2>1. /\ drain_pc[p] \in {"commit", "await"} /\ drain_pc'[p] \in {"mark", "next"}
        /\ todo'[p] \in {todo[p], cur[p].rows}
        /\ UNCHANGED <<outbox, conn, by_shard>>
    BY <1>8 DEF CommitLocal, SubmitOk, CommitFails, CommitUnanswered, SubmitErr,
                StartMarking, GiveUp
  <2>2. \A x : x \in Holds(p)' => x \in Holds(p)
    BY <2>1, InHolds
  <2>3. HeldOf(p)'
    BY <1>0, <2>1, <2>2, HeldShrinks
  <2> QED
    BY <1>3, <1>8, <2>1, <2>3 DEF Steps, Worker
<1>9. ASSUME NEW p \in Drainer, MarkRow(p) PROVE HeldInv'
  <2>1. CASE UNCHANGED <<outbox, todo>>
    <3>1. drain_pc[p] = "mark" /\ drain_pc'[p] \in {"mark", "next"} /\ UNCHANGED <<by_shard, conn>>
      BY <1>9 DEF MarkRow
    <3>2. \A x : x \in Holds(p)' => x \in Holds(p)
      BY <2>1, <3>1, InHolds
    <3>3. HeldOf(p)'
      BY <1>0, <2>1, <3>1, <3>2, HeldShrinks
    <3> QED
      BY <1>3, <1>9, <2>1, <3>3 DEF Steps, Worker
  <2>2. ASSUME NEW r \in todo[p], conn[p],
               outbox' = [outbox EXCEPT ![r] = Marked(cur[p].batch)],
               todo' = [todo EXCEPT ![p] = @ \ {r}], UNCHANGED <<drain_pc, cur>>
        PROVE  HeldInv'
    <3>1. drain_pc[p] = "mark" /\ UNCHANGED <<by_shard, conn>>
      BY <1>9 DEF MarkRow
    <3>2. \A s \in Shard : r \notin by_shard[p][s]
      BY <2>2, <3>1 DEF TickInv, TickOf
    <3>3. todo'[p] = todo[p] \ {r} /\ r \in Row /\ cur[p].batch \in Batch \cup {NoOne}
      BY <2>2
    <3>4. ASSUME NEW x, x \in Holds(p)' PROVE x \in Holds(p) /\ x # r
      <4>1. drain_pc'[p] = drain_pc[p] /\ by_shard'[p] = by_shard[p]
        BY <2>2, <3>1
      <4>2. x \in Row /\ (x \in todo'[p] \/ \E s \in Shard : x \in by_shard[p][s])
        BY <3>1, <3>4, <4>1, InHolds
      <4>3. x \in Holds(p)
        BY <3>3, <4>2, InHolds
      <4> QED
        BY <3>2, <3>3, <4>2, <4>3
    <3> QED
      BY <2>2, <3>1, <3>3, <3>4, HeldUpdate, Zenon
  <2> QED
    BY <1>9, <2>1, <2>2 DEF MarkRow
<1>10. ASSUME NEW p \in Drainer, EndDrain(p) \/ TickFails(p) \/ DrainerCrash(p) \/ Disconnect(p)
       PROVE  HeldInv'
  <2>1. ~conn'[p] /\ UNCHANGED outbox
    BY <1>10 DEF EndDrain, TickFails, DrainerCrash, Disconnect, Leave
  <2>2. HeldOf(p)'
    BY <2>1 DEF HeldOf
  <2> QED
    BY <1>3, <1>10, <2>1, <2>2 DEF Steps, Worker
<1> QED
  BY <1>1, <1>2, <1>4, <1>5, <1>6, <1>7, <1>8, <1>9, <1>10 DEF OutboxNext, Worker

-----------------------------------------------------------------------------
(* A marked row is settled *)

\* What a step does to the outbox table: it enqueues rows, drops an unparseable
\* pending row, or marks a pending row of the batch its tick was answered for.
LEMMA RowStep ==
  ASSUME OutboxTypeOK, TickInv, [OutboxNext]_outboxVars
  PROVE  \/ UNCHANGED outbox
         \/ \E t : enqueue(t)
         \/ \E p \in Drainer, r \in Unparseable :
              /\ drain_pc[p] = "drop" /\ conn[p] /\ r \in todo[p]
              /\ outbox' = [outbox EXCEPT ![r] = Marked(NoOne)]
         \/ \E p \in Drainer, r \in Row :
              /\ drain_pc[p] = "mark" /\ conn[p] /\ r \in todo[p]
              /\ outbox' = [outbox EXCEPT ![r] = Marked(cur[p].batch)]
<1>1. ASSUME NEW p \in Drainer, DropUnparseable(p)
      PROVE  \/ UNCHANGED outbox
             \/ \E r \in Unparseable :
                  /\ drain_pc[p] = "drop" /\ conn[p] /\ r \in todo[p]
                  /\ outbox' = [outbox EXCEPT ![r] = Marked(NoOne)]
  <2>1. drain_pc[p] = "drop" /\ todo[p] \subseteq Unparseable
    BY <1>1 DEF DropUnparseable, TickInv, TickOf
  <2> QED
    BY <1>1, <2>1, Zenon DEF DropUnparseable
<1>2. ASSUME NEW p \in Drainer, MarkRow(p)
      PROVE  \/ UNCHANGED outbox
             \/ \E r \in Row :
                  /\ drain_pc[p] = "mark" /\ conn[p] /\ r \in todo[p]
                  /\ outbox' = [outbox EXCEPT ![r] = Marked(cur[p].batch)]
  <2>1. todo[p] \subseteq Row
    BY DEF OutboxTypeOK
  <2> QED
    BY <1>2, <2>1, Zenon DEF MarkRow
<1>3. \/ UNCHANGED outbox
      \/ \E t : enqueue(t)
      \/ \E p \in Drainer : DropUnparseable(p) \/ MarkRow(p)
  BY DEF OutboxNext, Worker, outboxVars, outboxDb, drain_once, pending_rows, NextBatch, CommitLocal,
         CommitFails, CommitUnanswered, submit_ledger_batch, LoseRequest, SubmitOk,
         SubmitErr, EndDrain, TickFails, Disconnect, DrainerCrash
<1> QED
  BY <1>1, <1>2, <1>3

\* A marked row stays in the ledger, and a newly marked one is there.
LEMMA MarkedStep ==
  ASSUME OutboxTypeOK, TickInv, MarkedIsSettled, [OutboxNext]_outboxVars
  PROVE  MarkedIsSettled'
<1>0. Grows
  BY GrowsStep
<1>1. SUFFICES ASSUME NEW r \in Row, outbox'[r].state = "committed", r \notin Unparseable
               PROVE  \E rows \in SUBSET Row :
                        r \in rows /\ SettledAt(Target(r), outbox[r].batch, rows)'
  BY DEF MarkedIsSettled, Target
<1>2. Target(r) \in Authority /\ Target(r)' = Target(r)
  BY Zenon DEF Target
<1>3. CASE outbox'[r] = outbox[r]
  <2>1. PICK rows \in SUBSET Row : r \in rows /\ SettledAt(Target(r), outbox[r].batch, rows)
    BY <1>1, <1>3, Zenon DEF MarkedIsSettled
  <2>2. SettledAt(Target(r), outbox[r].batch, rows)'
    BY <1>0, <1>2, <1>3, <2>1 DEF SettledAt, Grows
  <2> QED
    BY <2>1, <2>2
<1>4. ASSUME NEW t, enqueue(t) PROVE outbox'[r] = outbox[r]
  BY <1>1, <1>4 DEF enqueue, Enqueued, OutboxTypeOK
<1>5. ASSUME NEW u \in Unparseable, outbox' = [outbox EXCEPT ![u] = Marked(NoOne)]
      PROVE  outbox'[r] = outbox[r]
  BY <1>1, <1>5 DEF OutboxTypeOK
<1>6. ASSUME NEW p \in Drainer, NEW q \in Row, drain_pc[p] = "mark", q \in todo[p],
             outbox' = [outbox EXCEPT ![q] = Marked(cur[p].batch)]
      PROVE  \E rows \in SUBSET Row :
               r \in rows /\ SettledAt(Target(r), outbox[r].batch, rows)'
  <2>1. CASE r # q
    BY <1>3, <1>6, <2>1 DEF OutboxTypeOK
  <2>2. CASE r = q
    <3>1. outbox'[r].batch = cur[p].batch
      BY <1>6, <2>2 DEF OutboxTypeOK, Marked
    <3>2. /\ r \in cur[p].rows /\ cur[p].dest = Target(r) /\ cur[p].rows \in SUBSET Row
          /\ SettledAt(cur[p].dest, cur[p].batch, cur[p].rows)
      <4>1. TickOf(p) /\ cur[p].rows \in SUBSET Row
        BY <1>6, TickTypes DEF TickInv
      <4>2. r \in cur[p].rows /\ SettledAt(cur[p].dest, cur[p].batch, cur[p].rows)
        BY <1>6, <2>2, <4>1 DEF TickOf
      <4>3. cur[p].dest = target_for_shard[cur[p].shard] /\ shard_id_for_event[r] = cur[p].shard
        BY <1>6, <4>1, <4>2 DEF TickOf
      <4> QED
        BY <4>1, <4>2, <4>3 DEF Target
    <3>3. PICK i \in DOMAIN ledger[Target(r)] :
            ledger[Target(r)][i] = [batch |-> cur[p].batch, rows |-> cur[p].rows]
      BY <3>2 DEF SettledAt
    <3>4. i \in DOMAIN ledger'[Target(r)] /\ ledger'[Target(r)][i] = ledger[Target(r)][i]
      BY <1>0, <1>2, <3>3 DEF Grows
    <3>5. PICK rows \in SUBSET Row : rows = cur[p].rows
      BY <3>2
    <3>6. ledger'[Target(r)][i] = [batch |-> outbox'[r].batch, rows |-> rows]
      BY <3>1, <3>3, <3>4, <3>5
    <3>7. SettledAt(Target(r), outbox[r].batch, rows)'
      BY <1>2, <3>4, <3>6 DEF SettledAt
    <3> QED
      BY <3>2, <3>5, <3>7
  <2> QED
    BY <2>1, <2>2
<1> QED
  BY <1>3, <1>4, <1>5, <1>6, RowStep

-----------------------------------------------------------------------------
(* The rows of a transaction settle in order *)

\* A set of rows that leaves out settled rows only still does so later.
LEMMA ClosedKeeps ==
  ASSUME Grows, NEW rows \in SUBSET Row, Closed(rows)
  PROVE  Closed(rows)'
  BY GrowsKeeps DEF Closed, Before

\* Settling a closed set of rows keeps every transaction's order.
LEMMA SettleOrder ==
  ASSUME OutboxTypeOK, TransactionOrder, NEW a \in Authority, NEW b \in Batch,
         NEW rows \in SUBSET Row, Settle(a, b, rows), Closed(rows)
  PROVE  TransactionOrder'
<1>1. SUFFICES ASSUME NEW r \in Row \ Unparseable, NEW q \in Row \ Unparseable, Before(r, q),
                      NEW i \in DOMAIN ledger'[Target(q)], q \in ledger'[Target(q)][i].rows
               PROVE  \E j \in 1 .. i : r \in ledger'[Target(q)][j].rows
  BY DEF TransactionOrder, Before, Target
<1>2. Target(q) \in Authority /\ Target(r) = Target(q)
  BY <1>1, Zenon DEF Target, Before
<1>3. DOMAIN ledger[Target(q)] = 1 .. Len(ledger[Target(q)]) /\ Len(ledger[Target(q)]) \in Nat
  BY <1>2, LedgerDomain
<1>4. CASE i \in DOMAIN ledger[Target(q)]
  <2>1. Grows
    BY SettleGrows, Zenon
  <2>2. q \in ledger[Target(q)][i].rows
    BY <1>1, <1>2, <1>4, <2>1 DEF Grows
  <2>3. PICK j \in 1 .. i : r \in ledger[Target(q)][j].rows
    BY <1>1, <1>4, <2>2 DEF TransactionOrder, Before
  <2>4. j \in DOMAIN ledger[Target(q)]
    BY <1>3, <1>4, <2>3
  <2> QED
    BY <1>2, <2>1, <2>3, <2>4 DEF Grows
<1>5. CASE i \notin DOMAIN ledger[Target(q)]
  <2>1. Target(q) = a
    BY <1>2, <1>5, SettleGrows, Zenon
  <2>a. /\ DOMAIN ledger[a] = 1 .. Len(ledger[a])
        /\ DOMAIN ledger'[a] = 1 .. Len(ledger[a]) + 1
        /\ ledger'[a][Len(ledger[a]) + 1] = [batch |-> b, rows |-> rows]
    BY SettleGrows
  <2>b. i \in 1 .. Len(ledger[a]) + 1 /\ i \notin 1 .. Len(ledger[a]) /\ Len(ledger[a]) \in Nat
    BY <1>3, <1>5, <2>1, <2>a
  <2>c. i = Len(ledger[a]) + 1
    BY ONLY <2>b
  <2>2. i = Len(ledger[a]) + 1 /\ ledger'[a][i] = [batch |-> b, rows |-> rows]
    BY <2>a, <2>c, Zenon
  <2>d. ledger'[a][i].rows = rows
    BY ONLY <2>2
  <2>3. q \in rows
    BY <1>1, <2>1, <2>d, Zenon
  <2>4. CASE r \in rows
    <3>1. i \in 1 .. i
      BY ONLY <2>b
    <3> QED
      BY <2>1, <2>4, <2>d, <3>1, Zenon
  <2>5. CASE InLedger(r)
    <3>1. PICK j \in DOMAIN ledger[a] : r \in ledger[a][j].rows
      BY <1>2, <2>1, <2>5 DEF InLedger
    <3>2. ledger'[a][j] = ledger[a][j]
      BY <3>1, SettleGrows, Zenon DEF Grows
    <3> QED
      BY <1>3, <2>1, <2>2, <3>1, <3>2
  <2> QED
    BY <1>1, <2>3, <2>4, <2>5 DEF Closed
<1> QED
  BY <1>4, <1>5

\* Rows of one transaction stay visible together.
LEMMA VisibleStep ==
  ASSUME OutboxTypeOK, TickInv, HeldInv, VisibleTogether, [OutboxNext]_outboxVars
  PROVE  VisibleTogether'
<1>1. CASE UNCHANGED outbox
  BY <1>1 DEF VisibleTogether
<1>2. ASSUME NEW t, enqueue(t) PROVE VisibleTogether'
  <2>1. outbox = [r \in Row |-> outbox[r]]
    BY DEF OutboxTypeOK
  <2> QED
    BY <1>2, <2>1 DEF enqueue, Enqueued, VisibleTogether
<1>3. ASSUME NEW p \in Drainer, NEW r \in Row, conn[p], r \in todo[p], NEW b,
             outbox' = [outbox EXCEPT ![r] = Marked(b)]
      PROVE  VisibleTogether'
  <2>1. outbox[r].state = "pending"
    BY <1>3, InHolds DEF HeldInv, PendingRows
  <2>2. \A q \in Row : outbox'[q].state = "absent" <=> outbox[q].state = "absent"
    BY <1>3, <2>1 DEF Marked, OutboxTypeOK
  <2> QED
    BY <2>2 DEF VisibleTogether
<1>4. \/ UNCHANGED outbox
      \/ \E t : enqueue(t)
      \/ \E p \in Drainer, r \in Row : \E b :
           conn[p] /\ r \in todo[p] /\ outbox' = [outbox EXCEPT ![r] = Marked(b)]
  <2>1. Unparseable \subseteq Row
    OBVIOUS
  <2> QED
    BY <2>1, RowStep, Zenon
<1> QED
  BY <1>1, <1>2, <1>3, <1>4

\* The rows a tick selects leave out no earlier row that is not settled.
LEMMA SelectClosed ==
  ASSUME OutboxTypeOK, MarkedIsSettled, VisibleTogether,
         NEW rows \in SUBSET PendingRows, Oldest(rows), NEW s \in Shard
  PROVE  Closed({r \in rows \ Unparseable : shard_id_for_event[r] = s})
<1>1. SUFFICES ASSUME NEW q \in rows \ Unparseable, shard_id_for_event[q] = s,
                      NEW r \in Row \ Unparseable, Before(r, q), r \notin rows
               PROVE  InLedger(r)
  BY DEF Closed, Before
<1>2. q \in Row /\ outbox[q].state = "pending"
  BY DEF PendingRows
<1>3. outbox[r].state # "absent"
  BY <1>1, <1>2 DEF VisibleTogether, Before
<1>4. outbox[r].state # "pending"
  <2>1. SUFFICES ASSUME outbox[r].state = "pending" PROVE FALSE
    OBVIOUS
  <2>2. r \in PendingRows \ rows
    BY <1>1, <2>1 DEF PendingRows
  <2>3. q < r /\ r < q /\ q \in Nat /\ r \in Nat
    BY <1>1, <1>2, <2>2 DEF Oldest, Before
  <2> QED
    BY <2>3
<1>5. outbox[r].state = "committed"
  BY <1>3, <1>4 DEF OutboxTypeOK
<1>6. PICK R \in SUBSET Row : r \in R /\ SettledAt(Target(r), outbox[r].batch, R)
  BY <1>1, <1>5, Zenon DEF MarkedIsSettled
<1>7. PICK j \in DOMAIN ledger[Target(r)] :
        ledger[Target(r)][j] = [batch |-> outbox[r].batch, rows |-> R]
  BY <1>6 DEF SettledAt
<1>8. ledger[Target(r)][j].rows = R
  BY <1>7, RecordRows, Zenon
<1> QED
  BY <1>6, <1>7, <1>8, Zenon DEF InLedger

ClosedTick(p) ==
  /\ \A s \in Shard : Closed(by_shard[p][s])
  /\ drain_pc[p] \in {"commit", "await"} => Closed(cur[p].rows)

\* A tick whose variables a step leaves alone still holds closed sets of rows.
LEMMA ClosedTickFrame ==
  ASSUME OutboxTypeOK, Grows, NEW q \in Drainer, ClosedTick(q),
         drain_pc'[q] = drain_pc[q], by_shard'[q] = by_shard[q], cur'[q] = cur[q]
  PROVE  ClosedTick(q)'
<1>1. ASSUME NEW s \in Shard PROVE Closed(by_shard[q][s])'
  <2>1. PICK rows \in SUBSET Row : rows = by_shard[q][s]
    BY GroupType
  <2>2. Closed(rows)'
    BY <2>1, ClosedKeeps DEF ClosedTick
  <2> QED
    BY <2>1, <2>2, Zenon DEF Closed
<1>2. ASSUME drain_pc[q] \in {"commit", "await"} PROVE Closed(cur[q].rows)'
  <2>1. PICK rows \in SUBSET Row : rows = cur[q].rows
    BY DEF OutboxTypeOK
  <2>2. Closed(rows)'
    BY <1>2, <2>1, ClosedKeeps DEF ClosedTick
  <2> QED
    BY <2>1, <2>2, Zenon DEF Closed
<1> QED
  BY <1>1, <1>2, Zenon DEF ClosedTick

\* The order of a transaction's rows is kept by every step.
LEMMA OrderStep ==
  ASSUME OutboxTypeOK, TickInv, HeldInv, MarkedIsSettled, OrderInv, [OutboxNext]_outboxVars
  PROVE  OrderInv'
<1> USE DEF OutboxTypeOK, outboxDb
<1>0. Grows
  BY GrowsStep
<1>1. VisibleTogether'
  BY VisibleStep DEF OrderInv
<1>2. \A p \in Drainer : ClosedTick(p)
  BY DEF OrderInv, ClosedTick
<1>3. \A p \in Drainer : ClosedTick(p)'
  <2>1. CASE UNCHANGED <<drain_pc, by_shard, cur>>
    BY <1>0, <1>2, <2>1, ClosedTickFrame
  <2>2. ASSUME NEW p \in Drainer, Steps(p), ClosedTick(p)' PROVE \A q \in Drainer : ClosedTick(q)'
    BY <1>0, <1>2, <2>2, OthersSame, ClosedTickFrame, Zenon
  <2>3. ASSUME NEW p \in Drainer, by_shard'[p] = by_shard[p], drain_pc'[p] \notin {"commit", "await"}
        PROVE  ClosedTick(p)'
    <3>1. ASSUME NEW s \in Shard PROVE Closed(by_shard[p][s])'
      <4>1. PICK rows \in SUBSET Row : rows = by_shard[p][s]
        BY GroupType
      <4>2. Closed(rows)'
        BY <1>0, <1>2, <4>1, ClosedKeeps DEF ClosedTick
      <4> QED
        BY <2>3, <4>1, <4>2, Zenon DEF Closed
    <3> QED
      BY <2>3, <3>1 DEF ClosedTick
  <2>4. ASSUME NEW p \in Drainer, pending_rows(p) PROVE ClosedTick(p)'
    <3>1. PICK rows \in SUBSET PendingRows :
            /\ Oldest(rows)
            /\ by_shard' = [by_shard EXCEPT ![p] =
                 [s \in Shard |-> {r \in rows \ Unparseable : shard_id_for_event[r] = s}]]
      BY <2>4, Zenon DEF pending_rows
    <3>2. drain_pc'[p] = "drop"
      BY <2>4 DEF pending_rows
    <3>3. ASSUME NEW s \in Shard PROVE Closed(by_shard[p][s])'
      <4>1. PICK R \in SUBSET Row :
              R = {r \in rows \ Unparseable : shard_id_for_event[r] = s}
        BY Zenon DEF PendingRows
      <4>a. VisibleTogether
        BY DEF OrderInv
      <4>b. Closed({r \in rows \ Unparseable : shard_id_for_event[r] = s})
        <5> HIDE DEF OutboxTypeOK
        <5>1. OutboxTypeOK /\ MarkedIsSettled /\ rows \in SUBSET PendingRows /\ Oldest(rows)
          BY <3>1
        <5> QED
          BY <4>a, <5>1, SelectClosed, Zenon
      <4>2. Closed(R)
        BY <4>1, <4>b, Zenon
      <4>3. Closed(R)'
        BY <1>0, <4>2, ClosedKeeps
      <4>4. by_shard'[p][s] = R
        BY <3>1, <4>1
      <4> QED
        BY <4>3, <4>4, Zenon DEF Closed
    <3> QED
      BY <3>2, <3>3 DEF ClosedTick
  <2>5. ASSUME NEW p \in Drainer, NextBatch(p) PROVE ClosedTick(p)'
    <3>1. PICK s \in Shard, b \in Batch :
            /\ cur' = [cur EXCEPT ![p] =
                 [batch |-> b, dest |-> target_for_shard[s], shard |-> s,
                  rows |-> by_shard[p][s]]]
            /\ by_shard' = [by_shard EXCEPT ![p] = [by_shard[p] EXCEPT ![s] = {}]]
      BY <2>5, Zenon DEF NextBatch
    <3>2. PICK R \in SUBSET Row : R = by_shard[p][s]
      BY GroupType
    <3>3. Closed(R)'
      BY <1>0, <1>2, <3>2, ClosedKeeps DEF ClosedTick
    <3>4. Closed(cur[p].rows)'
      BY <3>1, <3>2, <3>3 DEF Closed
    <3>5. ASSUME NEW t \in Shard PROVE Closed(by_shard[p][t])'
      <4>1. CASE t = s
        BY <3>1, <4>1 DEF Closed
      <4>2. CASE t # s
        <5>1. PICK T \in SUBSET Row : T = by_shard[p][t]
          BY GroupType, Zenon
        <5>2. Closed(T)' /\ by_shard'[p][t] = T
          BY <1>0, <1>2, <3>1, <4>2, <5>1, ClosedKeeps DEF ClosedTick
        <5> QED
          BY <5>2, Zenon DEF Closed
      <4> QED
        BY <4>1, <4>2
    <3> QED
      BY <3>4, <3>5 DEF ClosedTick
  <2>6. ASSUME NEW p \in Drainer, Leave(p) PROVE ClosedTick(p)'
    <3>1. drain_pc'[p] = "idle" /\ by_shard'[p] = NoGroups
      BY <2>6 DEF Leave
    <3>2. \A s \in Shard : by_shard'[p][s] = {}
      BY <3>1 DEF NoGroups
    <3> QED
      BY <3>1, <3>2 DEF ClosedTick, Closed
  <2>7. ASSUME NEW p \in Drainer, Steps(p) PROVE ClosedTick(p)'
    <3>1. CASE drain_once(p) \/ DropUnparseable(p) \/ CommitLocal(p) \/ CommitFails(p)
               \/ CommitUnanswered(p) \/ SubmitOk(p) \/ SubmitErr(p) \/ MarkRow(p)
      <4>1. by_shard'[p] = by_shard[p] /\ drain_pc'[p] \notin {"commit", "await"}
        BY <3>1 DEF drain_once, DropUnparseable, CommitLocal, CommitFails,
                    CommitUnanswered, SubmitOk, SubmitErr, MarkRow, StartMarking, GiveUp
      <4> QED
        BY <2>3, <4>1
    <3>2. CASE Disconnect(p)
      <4>1. UNCHANGED <<drain_pc, by_shard, cur>>
        BY <3>2 DEF Disconnect
      <4> QED
        BY <2>1, <4>1
    <3>3. CASE EndDrain(p) \/ TickFails(p) \/ DrainerCrash(p)
      BY <2>6, <3>3 DEF EndDrain, TickFails, DrainerCrash
    <3> QED
      BY <2>4, <2>5, <2>7, <3>1, <3>2, <3>3 DEF Steps, Worker
  <2>8. \/ UNCHANGED <<drain_pc, by_shard, cur>>
        \/ \E p \in Drainer : Steps(p)
    BY EnvironmentSame DEF OutboxNext, Steps
  <2> QED
    BY <2>1, <2>2, <2>7, <2>8
<1>4. \A q \in flight' : Closed(q.rows)'
  <2>1. SUFFICES ASSUME NEW q \in flight' PROVE Closed(q.rows)'
    OBVIOUS
  <2>2. CASE q \in flight
    <3>1. q.rows \in SUBSET Row /\ Closed(q.rows)
      BY <2>2 DEF OrderInv
    <3> QED
      BY <1>0, <3>1, ClosedKeeps
  <2>3. CASE q \notin flight
    <3>1. PICK p \in Drainer : NextBatch(p)
      BY <2>3 DEF OutboxNext, Worker, outboxVars, enqueue, drain_once, pending_rows, DropUnparseable,
                  CommitLocal, CommitFails, CommitUnanswered, submit_ledger_batch,
                  LoseRequest, SubmitOk, SubmitErr, MarkRow, EndDrain, TickFails,
                  Disconnect, DrainerCrash
    <3>a. PICK s \in Shard, b \in Batch :
            flight' = IF target_for_shard[s] \in Down \cup {Own} THEN flight
                      ELSE flight \cup {[batch |-> b, dest |-> target_for_shard[s],
                                         rows |-> by_shard[p][s]]}
      BY <3>1, Zenon DEF NextBatch
    <3>b. q = [batch |-> b, dest |-> target_for_shard[s], rows |-> by_shard[p][s]]
      BY <2>1, <2>3, <3>a, Zenon
    <3>2. q.rows = by_shard[p][s]
      BY ONLY <3>b
    <3>3. q.rows \in SUBSET Row /\ Closed(q.rows)
      BY <1>2, <3>2, GroupType DEF ClosedTick
    <3> QED
      BY <1>0, <3>3, ClosedKeeps
  <2> QED
    BY <2>2, <2>3
<1>5. TransactionOrder'
  <2>0. TransactionOrder
    BY DEF OrderInv
  <2>1. CASE UNCHANGED ledger
    BY <2>0, <2>1, Zenon DEF TransactionOrder, Target
  <2>2. ASSUME NEW p \in Drainer, CommitLocal(p) \/ CommitUnanswered(p) PROVE TransactionOrder'
    <3>1. cur[p].batch \in Batch /\ cur[p].rows \in SUBSET Row /\ Own \in Authority
      BY <2>2 DEF TickInv, TickOf, CommitLocal, CommitUnanswered
    <3>2. Settle(Own, cur[p].batch, cur[p].rows) /\ Closed(cur[p].rows)
      BY <1>2, <2>2 DEF CommitLocal, CommitUnanswered, ClosedTick
    <3> QED
      BY <2>0, <3>1, <3>2, SettleOrder
  <2>3. ASSUME NEW q \in flight, submit_ledger_batch(q) PROVE TransactionOrder'
    <3>1. q.batch \in Batch /\ q.dest \in Authority /\ q.rows \in SUBSET Row
      OBVIOUS
    <3>2. Settle(q.dest, q.batch, q.rows) /\ Closed(q.rows)
      BY <2>3 DEF submit_ledger_batch, OrderInv
    <3> QED
      BY <2>0, <3>1, <3>2, SettleOrder
  <2>4. \/ \E p \in Drainer : CommitLocal(p) \/ CommitUnanswered(p)
        \/ \E q \in flight : submit_ledger_batch(q)
        \/ UNCHANGED ledger
    BY Zenon DEF OutboxNext, Worker, outboxVars, enqueue, drain_once, pending_rows,
           DropUnparseable, NextBatch, CommitFails, LoseRequest, SubmitOk, SubmitErr,
           MarkRow, EndDrain, TickFails, Disconnect, DrainerCrash
  <2> QED
    BY <2>1, <2>2, <2>3, <2>4
<1> QED
  BY <1>1, <1>3, <1>4, <1>5 DEF OrderInv, ClosedTick

-----------------------------------------------------------------------------
(* The theorems *)

OutboxInv ==
  OutboxTypeOK /\ TickInv /\ DrainLockInv /\ HeldInv /\ MarkedIsSettled /\ OrderInv

\* The inductive invariant holds initially.
LEMMA OutboxInvInit == OutboxInit => OutboxInv
<1> SUFFICES ASSUME OutboxInit PROVE OutboxInv
  OBVIOUS
<1>1. OutboxTypeOK
  BY TypeInit
<1>2. \A p \in Drainer : /\ drain_pc[p] = "idle" /\ todo[p] = {} /\ by_shard[p] = NoGroups /\ ~conn[p]
                         /\ \A s \in Shard : by_shard[p][s] = {}
  BY DEF OutboxInit, NoGroups
<1>3. TickInv
  BY <1>2 DEF TickInv, TickOf
<1>4. DrainLockInv /\ HeldInv
  BY <1>2 DEF DrainLockInv, HeldInv
<1>5. MarkedIsSettled
  BY DEF OutboxInit, MarkedIsSettled, Absent
<1>6. \A a \in Authority : DOMAIN ledger[a] = {}
  BY DEF OutboxInit
<1>7. TransactionOrder
  BY <1>6, Zenon DEF TransactionOrder, Target
<1>8. OrderInv
  BY <1>2, <1>7 DEF OrderInv, Closed, VisibleTogether, OutboxInit, Absent
<1> QED
  BY <1>1, <1>3, <1>4, <1>5, <1>8 DEF OutboxInv

\* The inductive invariant is kept by every step.
LEMMA OutboxInvStep == OutboxInv /\ [OutboxNext]_outboxVars => OutboxInv'
  BY TypeStep, TickStep, DrainLockStep, HeldStep, MarkedStep, OrderStep DEF OutboxInv

\* The inductive invariant always holds.
LEMMA OutboxInvariant == OutboxSpec => []OutboxInv
  BY OutboxInvInit, OutboxInvStep, PTL DEF OutboxSpec

\* The outbox's state keeps its types.
THEOREM OutboxTypes == OutboxSpec => []OutboxTypeOK
<1>1. OutboxInv => OutboxTypeOK
  BY DEF OutboxInv
<1> QED
  BY <1>1, OutboxInvariant, PTL

\* No event is lost: whatever fails, a row drain_locked marks with a batch id is
\* in that batch in its own authority's ledger.
THEOREM NoEventLost == OutboxSpec => []MarkedIsSettled
<1>1. OutboxInv => MarkedIsSettled
  BY DEF OutboxInv
<1> QED
  BY <1>1, OutboxInvariant, PTL

\* The events a transaction enqueued for one shard reach the ledger in order,
\* through retries, timeouts, late settlements and crashes.
THEOREM TransactionsSettleInOrder == OutboxSpec => []TransactionOrder
<1>1. OutboxInv => TransactionOrder
  BY DEF OutboxInv, OrderInv
<1> QED
  BY <1>1, OutboxInvariant, PTL

\* A marked row keeps its batch id: the updates run on the connection that
\* holds the drain lock, so no second tick can reach it.
THEOREM RowsMarkedOnce == OutboxSpec => MarkedOnce
<1>1. OutboxInv /\ [OutboxNext]_outboxVars =>
        [\A r \in Row : outbox[r].state = "committed" => outbox'[r] = outbox[r]]_outboxVars
  <2> SUFFICES ASSUME OutboxInv, [OutboxNext]_outboxVars, NEW r \in Row, outbox[r].state = "committed"
               PROVE  outbox'[r] = outbox[r]
    BY DEF OutboxInv
  <2> USE DEF OutboxInv, OutboxTypeOK
  <2>1. ASSUME NEW t, enqueue(t) PROVE outbox'[r] = outbox[r]
    BY <2>1, Zenon DEF enqueue
  <2>2. ASSUME NEW p \in Drainer, NEW q \in Row, NEW b, conn[p], q \in todo[p],
               outbox' = [outbox EXCEPT ![q] = Marked(b)]
        PROVE  outbox'[r] = outbox[r]
    <3>1. outbox[q].state = "pending"
      BY <2>2, InHolds DEF HeldInv, PendingRows
    <3> QED
      BY <2>2, <3>1
  <2>3. \/ UNCHANGED outbox
        \/ \E t : enqueue(t)
        \/ \E p \in Drainer, q \in Row : \E b :
             conn[p] /\ q \in todo[p] /\ outbox' = [outbox EXCEPT ![q] = Marked(b)]
    <3>1. Unparseable \subseteq Row
      OBVIOUS
    <3> QED
      BY <3>1, RowStep, Zenon
  <2> QED
    BY <2>1, <2>2, <2>3
<1> QED
  BY <1>1, OutboxInvariant, PTL DEF OutboxSpec, MarkedOnce
=============================================================================
