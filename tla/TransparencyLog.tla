-------------------------- MODULE TransparencyLog ---------------------------
(***************************************************************************)
(* What a shard's settlement ledger promises its clients, without          *)
(* processes, transactions or caches: batches of events are appended whole *)
(* and at most once, under the next sequence numbers, and every append     *)
(* publishes the head of the log it leaves behind.                         *)
(***************************************************************************)
EXTENDS Naturals, Sequences

CONSTANTS
  Batch,       \* batch ids
  eventsOf,    \* the events of each batch
  oldLog,      \* the log, the heads and the batch ids it starts with
  oldHeads,
  oldSettled

VARIABLES
  log,       \* the events with their sequence numbers, in order
  heads,     \* the published heads
  settled    \* the batch ids already in the log

logVars == <<log, heads, settled>>

\* The i-th leaf binds every event up to it to its sequence number.
Leaf(l, i) == [j \in 1 .. i |-> l[j]]

\* The head of a log: its size and the leaves its root commits to.
HeadOf(l) ==
  [size |-> Len(l), root |-> [i \in 1 .. Len(l) |-> Leaf(l, i)]]

\* The events of a batch take the sequence numbers after the last one.
LastSeq(l) == IF l = <<>> THEN 0 ELSE l[Len(l)][1]
Numbered(seq, events) == [i \in 1 .. Len(events) |-> <<seq + i, events[i]>>]

LogInit ==
  /\ log = oldLog
  /\ heads = oldHeads
  /\ settled = oldSettled

Settle(b) ==
  /\ b \notin settled
  /\ settled' = settled \cup {b}
  /\ log' = log \o Numbered(LastSeq(log), eventsOf[b])
  /\ heads' = heads \cup {HeadOf(log')}

LogNext == \E b \in Batch : Settle(b)

LogSpec == LogInit /\ [][LogNext]_logVars
=============================================================================
