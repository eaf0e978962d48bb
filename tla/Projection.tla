----------------------------- MODULE Projection -----------------------------
(***************************************************************************)
(* Projection of mirrored entries into the local indexer: store_and_project*)
(* and reproject_with of crates/server/src/mirror_watcher.rs, the          *)
(* scheduler of crates/server/src/mirror_watcher/deferral.rs and, as far   *)
(* as they decide an attempt's outcome, apply_in_tx_from and IndexError of *)
(* crates/indexer.                                                         *)
(*                                                                         *)
(* A tick of the watcher takes a shard, tries its stored entries that are  *)
(* not projected yet if a scan is due, and then stores new entries, each   *)
(* projected in the transaction that stores it.  An entry may wait for a   *)
(* key (the shard goes on without it) or for its parent identity (the      *)
(* shard's later entries must wait behind it).  mirrored_entries,          *)
(* indexer_applied_events and projection_rejection are tables; the clean   *)
(* flags, the waits and the parked ids are memory of the process.          *)
(***************************************************************************)
EXTENDS Naturals, Sequences, FiniteSets, SequencesExt

CONSTANTS
  ProjectedShard,        \* shards this node mirrors
  ProjectedEntry,        \* their entries and the events this node projects itself
  log,          \* each shard's entries in seq order
  event_id,     \* the event id of an entry
  identity,     \* the identity an entry is about
  keys,         \* the entries that must be projected for its signature to verify
  parent,       \* the entries its projection row refers to
  KeyEvent,     \* entries that change identity or key state
  Invalid,      \* entries the indexer refuses
  Undecodable,  \* entries that are no protocol event
  ProjectionFaults,       \* which failures may happen
  MAX_DEFERRED_PER_SHARD

Mirrored == UNION {Range(log[s]) : s \in ProjectedShard}
Local == ProjectedEntry \ Mirrored

ASSUME ProjectionAssumption ==
  /\ log \in [ProjectedShard -> Seq(ProjectedEntry)]
  /\ \A s \in ProjectedShard : IsInjective(log[s])
  /\ \A s, t \in ProjectedShard : s # t => Range(log[s]) \cap Range(log[t]) = {}
  /\ keys \in [ProjectedEntry -> SUBSET ProjectedEntry]
  /\ parent \in [ProjectedEntry -> SUBSET ProjectedEntry]
  /\ \A s \in ProjectedShard : \A e, f \in Range(log[s]) : event_id[e] = event_id[f] => e = f
  /\ DOMAIN event_id = ProjectedEntry /\ DOMAIN identity = ProjectedEntry
  /\ KeyEvent \subseteq ProjectedEntry /\ Invalid \subseteq ProjectedEntry /\ Undecodable \subseteq ProjectedEntry
  /\ ProjectionFaults \subseteq {"transient", "storage", "restart"}
  /\ MAX_DEFERRED_PER_SHARD \in Nat \ {0}

VARIABLES
  stored,    \* how many entries of each shard mirrored_entries holds
  applied,   \* indexer_applied_events
  rejected,  \* entries with projection_rejection set
  age,       \* 1: stored for ORDERED_EXPIRY, 2: for KEY_WAIT_EXPIRY
  clean,     \* shards with no scan outstanding
  waiting,   \* waits: "none", "held" until next_retry, or "due"
  ordered,   \* waits that hold back their shard
  parked,    \* PARKED: ids that failed for good in this process
  projector_pc,        \* where the tick is
  shard,     \* the shard it works on
  cursor,    \* the position scanned up to
  tracked,   \* waits the scan has met
  blocked    \* projection_blocked

projectionDb == <<stored, applied, rejected, age>>
memVars == <<clean, waiting, ordered, parked>>
projectionTick == <<projector_pc, shard, cursor, tracked, blocked>>
projectionVars == <<stored, applied, rejected, age, clean, waiting, ordered, parked,
          projector_pc, shard, cursor, tracked, blocked>>

ShardOf(e) == CHOOSE s \in ProjectedShard : e \in Range(log[s])
InShard(s) == Range(log[s])
PositionOf(e) == CHOOSE i \in 1 .. Len(log[ShardOf(e)]) : log[ShardOf(e)][i] = e
Waits(s) == {e \in InShard(s) : waiting[e] # "none"}

\* Stored, neither projected nor refused: what a scan selects.
Unapplied(s) ==
  {e \in InShard(s) : PositionOf(e) <= stored[s] /\ e \notin applied \cup rejected}

ProjectionInit ==
  /\ stored = [s \in ProjectedShard |-> 0]
  /\ applied = {}
  /\ rejected = {}
  /\ age = [e \in ProjectedEntry |-> 0]
  /\ clean = {}
  /\ waiting = [e \in ProjectedEntry |-> "none"]
  /\ ordered = {}
  /\ parked = {}
  /\ projector_pc = "idle"
  /\ shard = CHOOSE s \in ProjectedShard : TRUE
  /\ cursor = 0
  /\ tracked = {}
  /\ blocked = FALSE

-----------------------------------------------------------------------------
(* The scheduler *)

\* Mutant: only an unclean shard is scanned.
scan_dueNoRetry(s) == s \notin clean

\* A scan is due unless the shard is clean and no wait of it has come due.
scan_due(s) == s \notin clean \/ \E e \in Waits(s) : waiting[e] = "due"

\* Track a deferral, if it is tracked already or there is room.
note(e, isOrdered) ==
  IF waiting[e] # "none" \/ Cardinality(Waits(ShardOf(e))) < MAX_DEFERRED_PER_SHARD
  THEN /\ waiting' = [waiting EXCEPT ![e] = "held"]
       /\ ordered' = IF isOrdered THEN ordered \cup {e} ELSE ordered \ {e}
  ELSE UNCHANGED <<waiting, ordered>>

forget(e) ==
  /\ waiting' = [waiting EXCEPT ![e] = "none"]
  /\ ordered' = ordered \ {e}

\* An entry was projected: its own wait is over, and if it changed keys the
\* waits about its identity become due, and so do all waits of the shards not
\* re-armed within REARM_MIN_INTERVAL.
entry_applied(e, failed) ==
  \E rate_ok \in SUBSET ProjectedShard :
    LET same(f) == identity[f] = identity[e]
        armed == {f \in Mirrored \ {e} : /\ e \in KeyEvent
                                         /\ waiting[f] # "none"
                                         /\ same(f) \/ ShardOf(f) \in rate_ok}
        own == IF waiting[e] # "none" THEN {ShardOf(e)} ELSE {}
    IN  /\ waiting' = [f \in ProjectedEntry |-> IF f = e THEN "none"
                                   ELSE IF f \in armed THEN "due" ELSE waiting[f]]
        /\ ordered' = ordered \ {e}
        /\ clean' = clean \ (failed \cup own \cup {ShardOf(f) : f \in armed})

-----------------------------------------------------------------------------
(* One attempt *)

\* How the indexer answers: proof of the signature comes before the row that
\* refers to a parent.
IndexOutcome(e) ==
  IF e \in Undecodable THEN "skipped"
  ELSE IF e \in Invalid THEN "permanent"
  ELSE IF ~ keys[e] \subseteq applied
       THEN IF age[e] >= 2 THEN "permanent" ELSE "deferred"
  ELSE IF ~ parent[e] \subseteq applied
       THEN IF age[e] >= 1 THEN "permanent" ELSE "ordered"
  ELSE "applied"

Outcomes(e) ==
  {IndexOutcome(e)} \cup
    (IF "transient" \in ProjectionFaults /\ e \notin Undecodable THEN {"transient"} ELSE {})

\* What an attempt does to the scheduler, mark_projection_failed included.
Scheduled(e, outcome, failed) ==
  LET s == ShardOf(e)
  IN  \/ outcome = "applied" /\ entry_applied(e, failed)
      \/ outcome = "skipped" /\ forget(e) /\ clean' = clean \ failed
      \/ outcome = "permanent" /\ forget(e) /\ clean' = clean \ {s}
      \/ outcome = "transient" /\ clean' = clean \ {s} /\ UNCHANGED <<waiting, ordered>>
      \/ outcome = "deferred" /\ note(e, FALSE) /\ clean' = clean \ failed
      \/ outcome = "ordered" /\ note(e, TRUE) /\ clean' = clean \ failed

\* What it leaves in the tables.
Written(e, outcome) ==
  /\ applied' = IF outcome = "applied" THEN applied \cup {e} ELSE applied
  /\ rejected' = IF outcome = "permanent" THEN rejected \cup {e} ELSE rejected

park_entry(e, outcome) ==
  parked' = IF outcome = "permanent" THEN parked \cup {event_id[e]} ELSE parked

-----------------------------------------------------------------------------
(* A tick *)

EndProjectionTick ==
  /\ projector_pc' = "idle"
  /\ cursor' = 0
  /\ tracked' = {}
  /\ blocked' = FALSE
  /\ UNCHANGED shard

\* The scan is over; new entries are stored next.
ToStore(isBlocked) ==
  /\ projector_pc' = "store"
  /\ cursor' = 0
  /\ tracked' = {}
  /\ blocked' = isBlocked
  /\ UNCHANGED shard

\* The tick turns to a shard and scans it if a scan is due.
reproject_unapplied(s) ==
  /\ projector_pc = "idle"
  /\ projector_pc' = IF scan_due(s) THEN "scan" ELSE "store"
  /\ shard' = s
  /\ UNCHANGED <<projectionDb, memVars, cursor, tracked, blocked>>

\* The next entry the scan selects.
Selected(e) ==
  /\ e \in Unapplied(shard)
  /\ PositionOf(e) > cursor
  /\ \A f \in Unapplied(shard) : PositionOf(f) > cursor => PositionOf(e) <= PositionOf(f)

ScanPast(e) ==
  /\ cursor' = PositionOf(e)
  /\ UNCHANGED <<projector_pc, shard, blocked>>

SkipParked(e) ==
  /\ projector_pc = "scan"
  /\ Selected(e)
  /\ event_id[e] \in parked
  /\ ScanPast(e)
  /\ UNCHANGED <<projectionDb, memVars, tracked>>

\* Mutant: a wait the scan meets is not remembered.
TrackUnseen(e) ==
  IF Cardinality(tracked \cup {e}) >= MAX_DEFERRED_PER_SHARD
  THEN ToStore(FALSE) /\ clean' = clean \cup {shard}
  ELSE ScanPast(e) /\ UNCHANGED <<tracked, clean>>

\* Count a wait; at the cap the pass ends and the shard is clean.
Track(e) ==
  IF Cardinality(tracked \cup {e}) >= MAX_DEFERRED_PER_SHARD
  THEN ToStore(FALSE) /\ clean' = clean \cup {shard}
  ELSE ScanPast(e) /\ tracked' = tracked \cup {e} /\ UNCHANGED clean

\* The entry's retry time has not come.
holding(e) ==
  /\ projector_pc = "scan"
  /\ Selected(e)
  /\ event_id[e] \notin parked
  /\ waiting[e] = "held"
  /\ \/ /\ e \in ordered /\ age[e] >= 1
        /\ rejected' = rejected \cup {e}
        /\ forget(e)
        /\ ScanPast(e)
        /\ UNCHANGED <<clean, tracked>>
     \/ /\ e \in ordered /\ age[e] = 0
        /\ ToStore(TRUE)
        /\ UNCHANGED <<rejected, clean, waiting, ordered>>
     \/ /\ e \notin ordered
        /\ Track(e)
        /\ UNCHANGED <<rejected, waiting, ordered>>
  /\ UNCHANGED <<stored, applied, age, parked>>

\* Try a selected entry in a transaction of its own.
projectAs(e, outcome) ==
  /\ projector_pc = "scan"
  /\ Selected(e)
  /\ event_id[e] \notin parked
  /\ waiting[e] # "held"
  /\ Written(e, outcome)
  /\ park_entry(e, outcome)
  /\ \/ /\ outcome \in {"applied", "skipped", "permanent"}
        /\ Scheduled(e, outcome, {})
        /\ ScanPast(e)
        /\ UNCHANGED tracked
     \/ /\ outcome \in {"transient", "ordered"}
        /\ Scheduled(e, outcome, {})
        /\ ToStore(TRUE)
     \/ /\ outcome = "deferred"
        /\ note(e, FALSE)
        /\ Track(e)
  /\ UNCHANGED <<stored, age>>

project(e) == \E outcome \in Outcomes(e) : projectAs(e, outcome)

\* The transaction of an attempt does not commit: the tables are as before,
\* the memory is not, and the tick ends.
ProjectFails(e) ==
  /\ "storage" \in ProjectionFaults
  /\ projector_pc = "scan"
  /\ Selected(e)
  /\ event_id[e] \notin parked
  /\ waiting[e] # "held"
  /\ \E outcome \in Outcomes(e) : Scheduled(e, outcome, {shard})
  /\ EndProjectionTick
  /\ UNCHANGED <<projectionDb, parked>>

\* A query of the scan fails, which ends the tick.
ScanFails ==
  /\ "storage" \in ProjectionFaults
  /\ projector_pc = "scan"
  /\ EndProjectionTick
  /\ UNCHANGED <<projectionDb, memVars>>

\* No entry is left: waits the scan did not meet are dropped, the shard is clean.
mark_scan_clean ==
  /\ projector_pc = "scan"
  /\ \A e \in Unapplied(shard) : PositionOf(e) <= cursor
  /\ LET unseen == Waits(shard) \ tracked
     IN  /\ waiting' = [e \in ProjectedEntry |-> IF e \in unseen THEN "none" ELSE waiting[e]]
         /\ ordered' = ordered \ unseen
  /\ clean' = clean \cup {shard}
  /\ ToStore(FALSE)
  /\ UNCHANGED <<projectionDb, parked>>

\* Store the next verified entry and, unless an earlier one blocks, project it
\* in the same transaction.
store_and_project ==
  /\ projector_pc = "store"
  /\ stored[shard] < Len(log[shard])
  /\ LET e == log[shard][stored[shard] + 1]
     IN  \/ /\ blocked
            /\ clean' = clean \ {shard}
            /\ UNCHANGED <<applied, rejected, waiting, ordered, parked, blocked>>
         \/ /\ ~ blocked
            /\ \E outcome \in Outcomes(e) :
                 /\ Written(e, outcome)
                 /\ park_entry(e, outcome)
                 /\ Scheduled(e, outcome, {})
                 /\ blocked' = (outcome \in {"transient", "ordered"})
  /\ stored' = [stored EXCEPT ![shard] = @ + 1]
  /\ UNCHANGED <<age, projector_pc, shard, cursor, tracked>>

\* The storing transaction does not commit: the entry is not there, what the
\* attempt noted in memory is.
StoreFails ==
  /\ "storage" \in ProjectionFaults
  /\ projector_pc = "store"
  /\ stored[shard] < Len(log[shard])
  /\ LET e == log[shard][stored[shard] + 1]
     IN  \/ /\ blocked
            /\ clean' = clean \ {shard}
            /\ UNCHANGED <<waiting, ordered, parked>>
         \/ /\ ~ blocked
            /\ \E outcome \in Outcomes(e) :
                 /\ Scheduled(e, outcome, {})
                 /\ park_entry(e, outcome)
  /\ EndProjectionTick
  /\ UNCHANGED projectionDb

\* Nothing more is stored in this tick: the head is reached, the budget is
\* spent, or no source serves the next entry.
StopStoring ==
  /\ projector_pc = "store"
  /\ EndProjectionTick
  /\ UNCHANGED <<projectionDb, memVars>>

-----------------------------------------------------------------------------
(* The environment *)

\* The backoff of a wait runs out.
RetryTime(e) ==
  /\ waiting[e] = "held"
  /\ waiting' = [waiting EXCEPT ![e] = "due"]
  /\ UNCHANGED <<projectionDb, clean, ordered, parked, projectionTick>>

\* A stored entry that is not settled gets older.
Age(e) ==
  /\ age[e] < 2
  /\ e \in Unapplied(ShardOf(e))
  /\ age' = [age EXCEPT ![e] = @ + 1]
  /\ UNCHANGED <<stored, applied, rejected, memVars, projectionTick>>

\* This node projects an event of its own, outside the watcher.
ApplyLocal(e) ==
  /\ e \notin applied
  /\ applied' = applied \cup {e}
  /\ UNCHANGED <<stored, rejected, age, memVars, projectionTick>>

Restart ==
  /\ "restart" \in ProjectionFaults
  /\ clean' = {}
  /\ waiting' = [e \in ProjectedEntry |-> "none"]
  /\ ordered' = {}
  /\ parked' = {}
  /\ EndProjectionTick
  /\ UNCHANGED projectionDb

ScanStep ==
  \/ \E e \in InShard(shard) : SkipParked(e) \/ holding(e) \/ project(e)
  \/ mark_scan_clean

ProjectionNext ==
  \/ \E s \in ProjectedShard : reproject_unapplied(s)
  \/ ScanStep
  \/ \E e \in InShard(shard) : ProjectFails(e)
  \/ ScanFails
  \/ store_and_project
  \/ StoreFails
  \/ StopStoring
  \/ \E e \in Mirrored : RetryTime(e) \/ Age(e)
  \/ \E e \in Local : ApplyLocal(e)
  \/ Restart

ProjectionSpec == ProjectionInit /\ [][ProjectionNext]_projectionVars

(***************************************************************************)
(* Fairness: the watcher ticks for ever and takes every mirrored shard in  *)
(* each tick; its scan and its storing go on; time passes, so backoffs and *)
(* expiries are reached.  A storage failure does not repeat for ever on    *)
(* one entry.                                                              *)
(***************************************************************************)
ProjectionFairness ==
  /\ \A s \in ProjectedShard : SF_projectionVars(reproject_unapplied(s))
  /\ \A e \in Mirrored :
       /\ SF_projectionVars(projectAs(e, IndexOutcome(e)))
       /\ WF_projectionVars(RetryTime(e))
       /\ WF_projectionVars(Age(e))
  /\ WF_projectionVars(ScanStep)
  /\ SF_projectionVars(store_and_project)
  /\ WF_projectionVars(StopStoring)
  /\ \A e \in Local : WF_projectionVars(ApplyLocal(e))

ProjectionFairSpec == ProjectionSpec /\ ProjectionFairness

-----------------------------------------------------------------------------
(* What projection promises *)

\* Between ticks, a clean shard with a stored entry that is not settled has a
\* wait, whose retry time scans the shard: the entry's own, or one of those that
\* fill the cap before it.  The scheduler loses no entry, whatever failed.
NoEntryForgotten ==
  projector_pc = "idle" =>
    \A s \in clean : \A e \in Unapplied(s) \ Undecodable :
      event_id[e] \in parked \/ Waits(s) # {}

\* Every mirrored entry is projected or refused in the end.
EveryEntrySettles == \A e \in Mirrored \ Undecodable : <>(e \in applied \cup rejected)
=============================================================================
