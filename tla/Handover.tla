------------------------------ MODULE Handover ------------------------------
(* Two operator tools that carry a shard to another database: promote_mirror *)
(* (chain/promotion.rs), which seeds a fresh ledger from a mirror's copy     *)
(* after the author's data is lost, and migrate_network (chain/migration.rs),*)
(* which starts a successor network from the outgoing one's last checkpoint. *)
(*                                                                           *)
(* The mirror's watcher and its operator go on working on the source         *)
(* database, and a server runs on the target before or after.  An entry's    *)
(* hash covers it and all before it, so the hash of an entry is the history  *)
(* that ends with it; a root at size n is that of the n-th entry.            *)
EXTENDS Integers, FiniteSets, FiniteSetsExt, Sequences, SequencesExt

CONSTANTS Heads,      \* histories the author signed a head of, two of a size if it forked
          Run,        \* runs of promote_mirror
          New,        \* entries the server on the target may append
          PromotePage,\* entries of a page of promote_mirror
          Attempt,    \* runs of migrate_network, one after the other
          Issuers,    \* registered issuers of the outgoing network
          Aim         \* which tool a behaviour is about

VARIABLES aim,
          copy,       \* mirrored_entries, in seq order
          seen,       \* observed_sths
          disputed,   \* an unresolved row in equivocation_findings
          target,     \* the target's ledger_entries: the hash at each seq
          heads,      \* the target's signed_tree_heads: the root at each size
          genesis,    \* the target's chain_genesis has its row
          run,        \* the runs of promote_mirror
          server,     \* a server runs on the target
          source,     \* the outgoing network: its tree size and its issuers
          moved,      \* the target: recorded checkpoints and issuers carried over
          attempt     \* the runs of migrate_network

promotionVars == <<copy, seen, disputed, target, heads, run, server>>
migrationVars == <<source, moved, attempt>>
handoverVars == <<aim, copy, seen, disputed, target, heads, genesis, run, server,
                  source, moved, attempt>>

LogPrefix(h, n) == SubSeq(h, 1, n)
RunIdle == [pc |-> "idle", root |-> <<>>, at |-> 0, plan |-> <<>>, dry |-> FALSE]
InTx == {"pages", "finish"}

-----------------------------------------------------------------------------
(* The source database.                                                       *)

Conflict(S) == \E g, h \in S : Len(g) = Len(h) /\ g # h

(* The watcher stores a head it verified, and a finding if it conflicts.      *)
Observe(h) ==
    /\ h \in Heads \ seen
    /\ seen' = seen \cup {h}
    /\ disputed' = (disputed \/ (Conflict(seen \cup {h}) /\ ~Conflict(seen)))
    /\ UNCHANGED <<copy, target, heads, run, server>>

(* It backfills the next entry of a head, unless a finding blocks the shard.  *)
BackfillOne ==
    /\ ~disputed
    /\ \E h \in seen : /\ Len(h) > Len(copy) /\ LogPrefix(h, Len(copy)) = copy
                       /\ copy' = LogPrefix(h, Len(copy) + 1)
    /\ UNCHANGED <<seen, disputed, target, heads, run, server>>

(* resolve-equivocation --discard-mirrored: entries verified against a tree   *)
(* of the disputed size or more go.                                           *)
discard_mirrored_entries_from ==
    /\ disputed
    /\ disputed' = FALSE
    /\ \E n \in 0 .. Len(copy) : copy' = LogPrefix(copy, n)
    /\ UNCHANGED <<seen, target, heads, run, server>>

-----------------------------------------------------------------------------
(* promote_mirror.                                                            *)

Step(r, new) == run' = [run EXCEPT ![r] = new]
Fail(r) == Step(r, [RunIdle EXCEPT !.pc = "failed"])

(* check_convergence: the entries first, then what they are judged by.        *)
check_convergence(r, dry) ==
    /\ run[r].pc = "idle" /\ ~server
    /\ Step(r, [RunIdle EXCEPT !.pc = "judge", !.root = copy, !.dry = dry])
    /\ UNCHANGED <<copy, seen, disputed, target, heads, genesis, server>>

evaluate_convergence(root) ==
    /\ ~disputed
    /\ root # <<>>
    /\ seen # {} /\ \A h \in seen : Len(h) <= Len(root)
    /\ root \in seen

Judge(r) ==
    /\ run[r].pc = "judge"
    /\ IF evaluate_convergence(run[r].root) THEN Step(r, [run[r] EXCEPT !.pc = "fresh"]) ELSE Fail(r)
    /\ UNCHANGED <<copy, seen, disputed, target, heads, genesis, server>>

(* In the target's transaction; chain_genesis is locked if its row is there.  *)
GenesisLocked(r) == \E q \in Run \ {r} : run[q].pc \in InTx /\ run[q].at = 1

check_target_fresh(r) ==
    /\ run[r].pc = "fresh"
    /\ ~GenesisLocked(r)
    /\ IF target = <<>> /\ heads = <<>>
       THEN Step(r, [run[r] EXCEPT !.pc = "pages", !.at = IF genesis THEN 1 ELSE 0])
       ELSE Fail(r)
    /\ UNCHANGED <<copy, seen, disputed, target, heads, genesis, server>>

(* The rows of the page extend what was pushed: one chain from genesis.       *)
push(plan, page) ==
    \A i \in DOMAIN page : LogPrefix(page[i], Len(plan)) = Last(<<<<>>>> \o plan)

(* Rows another transaction inserted and has not committed make an insert of  *)
(* the same seq wait; rows it committed make it fail.                         *)
Uncommitted(r) == UNION {DOMAIN run[q].plan : q \in {p \in Run \ {r} : run[p].pc \in InTx /\ ~run[p].dry}}

Insertable(seqs) == seqs \cap DOMAIN target = {}

insert_entry(r) ==
    /\ run[r].pc = "pages"
    /\ LET plan == run[r].plan
           n == Min({Len(copy), Len(plan) + PromotePage})
           rows == [i \in 1 .. n |-> LogPrefix(copy, i)]
           page == [i \in Len(plan) + 1 .. n |-> rows[i]]
       IN IF n <= Len(plan) THEN Step(r, [run[r] EXCEPT !.pc = "finish"])
          ELSE /\ run[r].dry \/ DOMAIN page \cap Uncommitted(r) = {}
               /\ IF /\ push(plan, page)
                     /\ run[r].dry \/ Insertable(DOMAIN page)
                  THEN Step(r, [run[r] EXCEPT !.plan = plan \o SubSeq(rows, Len(plan) + 1, n)])
                  ELSE Fail(r)
    /\ UNCHANGED <<copy, seen, disputed, target, heads, genesis, server>>

select_sths(plan) == {h \in seen : Len(h) \in DOMAIN plan /\ plan[Len(h)] = h}

(* Mutant: only the sizes are compared.                                       *)
PlanConvergedSize(q) == q.plan # <<>> /\ Len(q.plan) = Len(q.root)

PlanConverged(q) == q.plan # <<>> /\ Len(q.plan) = Len(q.root) /\ Last(q.plan) = q.root

promote_mirror(r) ==
    /\ run[r].pc = "finish"
    /\ LET q == run[r]
           sths == select_sths(q.plan)
       IN IF ~PlanConverged(q) \/ ~\E h \in sths : Len(h) = Len(q.plan)
          THEN Fail(r) /\ UNCHANGED <<target, heads, genesis>>
          ELSE IF q.dry
          THEN Step(r, [RunIdle EXCEPT !.pc = "tried"]) /\ UNCHANGED <<target, heads, genesis>>
          ELSE IF genesis /\ q.at = 0
          THEN Fail(r) /\ UNCHANGED <<target, heads, genesis>>
          ELSE /\ target' = [i \in DOMAIN target \cup DOMAIN q.plan |->
                               IF i \in DOMAIN target THEN target[i] ELSE q.plan[i]]
               /\ heads' = [n \in DOMAIN heads \cup {Len(h) : h \in sths} |->
                               IF n \in DOMAIN heads THEN heads[n] ELSE q.plan[n]]
               /\ genesis' = TRUE
               /\ Step(r, [q EXCEPT !.pc = "verify"])
    /\ UNCHANGED <<copy, seen, disputed, server>>

verify_target(r) ==
    /\ run[r].pc = "verify"
    /\ LET end == IF Cardinality(DOMAIN target) = Len(run[r].plan) THEN "promoted" ELSE "unverified"
       IN Step(r, [RunIdle EXCEPT !.pc = end, !.root = run[r].root])
    /\ UNCHANGED <<copy, seen, disputed, target, heads, genesis, server>>

(* The tool is stopped: an open transaction is rolled back.                   *)
Stop(r) ==
    /\ run[r].pc \in InTx \cup {"judge", "fresh", "verify"}
    /\ IF run[r].pc = "verify" THEN Step(r, [RunIdle EXCEPT !.pc = "unverified"]) ELSE Fail(r)
    /\ UNCHANGED <<copy, seen, disputed, target, heads, genesis, server>>

-----------------------------------------------------------------------------
(* The server on the target: as the runbook has it, it is down while the tool *)
(* runs, before and after that it commits as the Ledger module says.          *)

ToolRuns == \E r \in Run : run[r].pc \in InTx \cup {"judge", "fresh", "verify"}

connect_core_shard ==
    /\ ~server /\ ~ToolRuns
    /\ server' = TRUE
    /\ genesis' = TRUE
    /\ UNCHANGED <<copy, seen, disputed, target, heads, run>>

StopServer ==
    /\ server
    /\ server' = FALSE
    /\ UNCHANGED <<copy, seen, disputed, target, heads, genesis, run>>

tip_hash == IF target = <<>> THEN <<>> ELSE target[Max(DOMAIN target)]

max_seq == Max(DOMAIN target \cup {0})

insert_batch_and_compute_root(e) ==
    /\ server
    /\ \A i \in DOMAIN target : e \notin Range(target[i])
    /\ LET seq == max_seq + 1
           Put(f) == [i \in DOMAIN f \cup {seq} |-> IF i = seq THEN Append(tip_hash, e) ELSE f[i]]
       IN target' = Put(target) /\ heads' = Put(heads)
    /\ UNCHANGED <<copy, seen, disputed, genesis, run, server>>

-----------------------------------------------------------------------------
(* migrate_network.  The outgoing network goes on until the cutover.          *)

Outgoing ==
    /\ \/ source.size < 2 /\ source' = [source EXCEPT !.size = @ + 1]
       \/ \E i \in Issuers \ source.issuers : source' = [source EXCEPT !.issuers = @ \cup {i}]
    /\ UNCHANGED <<genesis, moved, attempt>>

Before(a, b) == a < b
Running(a) == attempt[a].pc \notin {"idle", "failed", "done"}

read_source_checkpoint(a) ==
    /\ attempt[a].pc = "idle"
    /\ \A b \in Attempt : Before(b, a) => attempt[b].pc \in {"failed", "done"}
    /\ attempt' = [attempt EXCEPT ![a] = [@ EXCEPT !.pc = "connect", !.size = source.size]]
    /\ UNCHANGED <<genesis, source, moved>>

ConnectTarget(a) ==
    /\ attempt[a].pc = "connect"
    /\ genesis' = TRUE
    /\ attempt' = [attempt EXCEPT ![a].pc = "record"]
    /\ UNCHANGED <<source, moved>>

AlreadyPresent(size) == \E i \in DOMAIN moved.checkpoints : moved.checkpoints[i] = size

migrate_network(a) ==
    /\ attempt[a].pc = "record"
    /\ moved' = IF AlreadyPresent(attempt[a].size) THEN moved
                ELSE [moved EXCEPT !.checkpoints = Append(@, attempt[a].size)]
    /\ attempt' = [attempt EXCEPT ![a].pc = "carry", ![a].found = source.issuers, ![a].left = source.issuers]
    /\ UNCHANGED <<genesis, source>>

(* One issuer after the other, each in a transaction of its own.              *)
carry_over_issuer_registrations(a) ==
    /\ attempt[a].pc = "carry"
    /\ IF attempt[a].left = {}
       THEN attempt' = [attempt EXCEPT ![a].pc = "done"] /\ UNCHANGED moved
       ELSE \E i \in attempt[a].left :
              /\ moved' = [moved EXCEPT !.issuers = @ \cup {i}]
              /\ attempt' = [attempt EXCEPT ![a].left = @ \ {i}]
    /\ UNCHANGED <<genesis, source>>

StopMigration(a) ==
    /\ Running(a)
    /\ attempt' = [attempt EXCEPT ![a].pc = "failed"]
    /\ UNCHANGED <<genesis, source, moved>>

-----------------------------------------------------------------------------
HandoverInit ==
    /\ aim \in Aim
    /\ copy = <<>> /\ seen = {} /\ disputed = FALSE
    /\ target = <<>> /\ heads = <<>> /\ genesis = FALSE
    /\ run = [r \in Run |-> RunIdle]
    /\ server = FALSE
    /\ source = [size |-> 0, issuers |-> {}]
    /\ moved = [checkpoints |-> <<>>, issuers |-> {}]
    /\ attempt = [a \in Attempt |-> [pc |-> "idle", size |-> 0, found |-> {}, left |-> {}]]

Promotion ==
    \/ /\ \/ \E h \in Heads : Observe(h)
          \/ BackfillOne
          \/ discard_mirrored_entries_from
       /\ UNCHANGED genesis
    \/ \E r \in Run : \/ \E dry \in BOOLEAN : check_convergence(r, dry)
                      \/ Judge(r)
                      \/ check_target_fresh(r)
                      \/ insert_entry(r)
                      \/ promote_mirror(r)
                      \/ verify_target(r)
                      \/ Stop(r)
    \/ connect_core_shard
    \/ StopServer
    \/ \E e \in New : insert_batch_and_compute_root(e)

Migration ==
    \/ Outgoing
    \/ \E a \in Attempt : \/ read_source_checkpoint(a)
                          \/ ConnectTarget(a)
                          \/ migrate_network(a)
                          \/ carry_over_issuer_registrations(a)
                          \/ StopMigration(a)

HandoverNext ==
    \/ aim = "promote" /\ Promotion /\ UNCHANGED <<aim, migrationVars>>
    \/ aim = "migrate" /\ Migration /\ UNCHANGED <<aim, promotionVars>>

HandoverSpec == HandoverInit /\ [][HandoverNext]_handoverVars

-----------------------------------------------------------------------------

(* What a promotion committed is the history its convergence check judged,    *)
(* which the author signed, with heads of that history only: entries that     *)
(* were discarded, replaced or added while it copied them make it fail.       *)
PromotedAsJudged ==
    \A r \in Run : run[r].pc \in {"verify", "promoted"} =>
        /\ run[r].root \in Heads
        /\ Len(run[r].root) \in DOMAIN target /\ target[Len(run[r].root)] = run[r].root
        /\ \A n \in DOMAIN heads : heads[n] = target[n]

=============================================================================
