------------------------------- MODULE Mirror -------------------------------
(***************************************************************************)
(* One shard as a node mirrors it: the two phases of the watcher's tick in *)
(* crates/server/src/mirror_watcher.rs, the tables observed_sths,          *)
(* equivocation_findings and mirrored_entries of                           *)
(* crates/chain/src/mirror.rs, and the command                             *)
(* `avalon resolve-equivocation` of crates/cli/src/main.rs.                *)
(*                                                                         *)
(* In phase 1 a watcher polls its sources one by one, stores each head it  *)
(* verified and compares it with the heads other sources reported.  In     *)
(* phase 2 it passes the equivocation gate, picks the head most sources    *)
(* agree on and stores the entries it lacks, one transaction per entry.    *)
(*                                                                         *)
(* A head is the sequence of the entries it covers, as in Witness; an      *)
(* entry_hash covers the entry and all before it, so the hash of the i-th  *)
(* entry of a head is the head's prefix of length i, and its prev_hash the *)
(* prefix of length i-1.  Projection of stored entries is module           *)
(* Projection.                                                             *)
(***************************************************************************)
EXTENDS Naturals, Sequences, FiniteSets, FiniteSetsExt

CONSTANTS
  Source,      \* configured mirror sources of the shard
  MirrorProc,        \* server processes on the node's database
  MirrorEntry,       \* ledger entries
  seq,         \* the seq each entry is labelled with
  SourceHead,  \* the heads the author has signed
  Fickle,      \* sources that may go from one branch to another
  Discards,    \* whether the operator passes --discard-mirrored
  MirrorFaults,      \* which failures may happen
  MaxResolves, \* bound on runs of resolve-equivocation
  NoHead         \* nothing served, no target

ASSUME MirrorAssumption ==
  /\ IsFiniteSet(Source)
  /\ seq \in [MirrorEntry -> Nat \ {0}]
  /\ SourceHead \subseteq Seq(MirrorEntry) \ {<<>>}
  /\ \A h \in SourceHead : \A i \in 1 .. Len(h) - 1 : seq[h[i]] < seq[h[i + 1]]
  /\ Fickle \subseteq Source
  /\ Discards \subseteq BOOLEAN
  /\ MirrorFaults \subseteq {"crash", "storage", "held"}
  /\ MaxResolves \in Nat
  /\ NoHead \notin SourceHead

VARIABLES
  serving,     \* the head each source serves
  observed,    \* observed_sths
  found,       \* tree sizes with a row in equivocation_findings
  unresolved,  \* those with resolved_at still NULL
  mirrored,    \* mirrored_entries
  mirror_pc,          \* where each watcher is in its tick
  pending,     \* sources it has not polled this tick
  observing,   \* the observation it is checking
  verified,    \* verified_by_shard: the heads it verified this tick
  target,      \* the head it backfills to
  progress,    \* BackfillState: verified_count, last_seq and prev_hash
  operator,    \* the run of resolve-equivocation in progress
  resolves     \* runs of resolve-equivocation so far

envVars == <<serving, operator, resolves>>
mirrorDb == <<observed, found, unresolved, mirrored>>
mirrorTick == <<mirror_pc, pending, observing, verified, target, progress>>
mirrorVars == <<serving, observed, found, unresolved, mirrored, mirror_pc, pending,
          observing, verified, target, progress, operator, resolves>>

Size == {Len(h) : h \in SourceHead}
Observation == [source : Source, head : SourceHead]
Prefix(h, n) == SubSeq(h, 1, n)

\* One history continues the other.
HeadExtends(g, h) == Len(g) <= Len(h) /\ Prefix(h, Len(g)) = g

\* The hashes stored in mirrored_entries; the seq of a row is covered by its hash.
Hashes == {m.hash : m \in mirrored}
RowSeq(hash) == seq[hash[Len(hash)]]
LastSeq == IF mirrored = {} THEN 0 ELSE Max({RowSeq(k) : k \in Hashes})

NoProgress == [count |-> 0, last |-> 0, prev |-> <<>>]

MirrorInit ==
  /\ serving = [s \in Source |-> NoHead]
  /\ observed = {}
  /\ found = {}
  /\ unresolved = {}
  /\ mirrored = {}
  /\ mirror_pc = [p \in MirrorProc |-> "poll"]
  /\ pending = [p \in MirrorProc |-> Source]
  /\ observing = [p \in MirrorProc |-> NoHead]
  /\ verified = [p \in MirrorProc |-> {}]
  /\ target = [p \in MirrorProc |-> NoHead]
  /\ progress = [p \in MirrorProc |-> NoProgress]
  /\ operator = [pc |-> "idle", root |-> NoHead, discard |-> FALSE]
  /\ resolves = 0

\* A source moves on to another head its shard's author signed.
ServeHead(s) ==
  /\ \E h \in SourceHead \ {serving[s]} :
       /\ serving[s] # NoHead /\ s \notin Fickle => HeadExtends(serving[s], h)
       /\ serving' = [serving EXCEPT ![s] = h]
  /\ UNCHANGED <<mirrorDb, mirrorTick, operator, resolves>>

\* The tick is over, or the process restarted: all it held is gone.
NewTick(p) ==
  /\ mirror_pc' = [mirror_pc EXCEPT ![p] = "poll"]
  /\ pending' = [pending EXCEPT ![p] = Source]
  /\ observing' = [observing EXCEPT ![p] = NoHead]
  /\ verified' = [verified EXCEPT ![p] = {}]
  /\ target' = [target EXCEPT ![p] = NoHead]
  /\ progress' = [progress EXCEPT ![p] = NoProgress]

-----------------------------------------------------------------------------
(* Phase 1 *)

\* The rest of record_verified_head: the head joins the tick's verified heads
\* unless its cosignatures fall short of a majority.
Accept(p, o) ==
  /\ \/ verified' = [verified EXCEPT ![p] = @ \cup {o}]
     \/ "held" \in MirrorFaults /\ UNCHANGED verified
  /\ UNCHANGED <<target, progress>>

\* Poll one source; a head new for that source and size is checked next.
insert_observation(p, s) ==
  /\ mirror_pc[p] = "poll"
  /\ s \in pending[p]
  /\ serving[s] # NoHead
  /\ pending' = [pending EXCEPT ![p] = @ \ {s}]
  /\ LET o == [source |-> s, head |-> serving[s]]
     IN  IF \E r \in observed : r.source = s /\ Len(r.head) = Len(o.head)
         THEN /\ Accept(p, o)
              /\ UNCHANGED <<observed, mirror_pc, observing>>
         ELSE /\ observed' = observed \cup {o}
              /\ mirror_pc' = [mirror_pc EXCEPT ![p] = "check"]
              /\ observing' = [observing EXCEPT ![p] = o]
              /\ UNCHANGED <<verified, target, progress>>
  /\ UNCHANGED <<envVars, found, unresolved, mirrored>>

\* The recorded heads that contradict o: same size, another source, another root.
detect_equivocation(o) ==
  {r \in observed : /\ r.source # o.source
                    /\ Len(r.head) = Len(o.head)
                    /\ r.head # o.head}

\* Mutant: o is compared with the heads of this tick only.
check_equivocationThisTick(p) ==
  /\ mirror_pc[p] = "check"
  /\ LET o == observing[p]
         conflict == detect_equivocation(o) \cap verified[p]
     IN  \/ /\ conflict = {}
            /\ mirror_pc' = [mirror_pc EXCEPT ![p] = "poll"]
            /\ observing' = [observing EXCEPT ![p] = NoHead]
            /\ Accept(p, o)
         \/ /\ conflict # {}
            /\ mirror_pc' = [mirror_pc EXCEPT ![p] = "record"]
            /\ UNCHANGED <<observing, verified, target, progress>>
  /\ UNCHANGED <<envVars, mirrorDb, pending>>

\* Compare the new observation with every one recorded.
check_equivocation(p) ==
  /\ mirror_pc[p] = "check"
  /\ LET o == observing[p]
     IN  \/ /\ detect_equivocation(o) = {}
            /\ mirror_pc' = [mirror_pc EXCEPT ![p] = "poll"]
            /\ observing' = [observing EXCEPT ![p] = NoHead]
            /\ Accept(p, o)
         \/ /\ detect_equivocation(o) # {}
            /\ mirror_pc' = [mirror_pc EXCEPT ![p] = "record"]
            /\ UNCHANGED <<observing, verified, target, progress>>
  /\ UNCHANGED <<envVars, mirrorDb, pending>>

\* Store what the comparison found; the tick goes on with the head either way.
record_equivocation(p) ==
  /\ mirror_pc[p] = "record"
  /\ found' = found \cup {Len(observing[p].head)}
  /\ unresolved' = unresolved \cup {Len(observing[p].head)}
  /\ mirror_pc' = [mirror_pc EXCEPT ![p] = "poll"]
  /\ observing' = [observing EXCEPT ![p] = NoHead]
  /\ Accept(p, observing[p])
  /\ UNCHANGED <<envVars, observed, mirrored, pending>>

\* A statement of the check fails: it is logged and the head still used.
CheckFails(p) ==
  /\ "storage" \in MirrorFaults
  /\ mirror_pc[p] \in {"check", "record"}
  /\ mirror_pc' = [mirror_pc EXCEPT ![p] = "poll"]
  /\ observing' = [observing EXCEPT ![p] = NoHead]
  /\ Accept(p, observing[p])
  /\ UNCHANGED <<envVars, mirrorDb, pending>>

-----------------------------------------------------------------------------
(* Phase 2 *)

\* How many sources reported h this tick.
Agreement(p, h) == Cardinality({o \in verified[p] : o.head = h})

\* The heads the largest number of sources agree on; a tie goes either way.
Corroborated(p) ==
  {h \in {o.head : o \in verified[p]} :
     \A o \in verified[p] : Agreement(p, o.head) <= Agreement(p, h)}

\* The equivocation gate, then the choice of the head to backfill to; sources
\* still pending did not answer.
backfill_network(p) ==
  /\ mirror_pc[p] = "poll"
  /\ \/ /\ unresolved # {} \/ verified[p] = {}
        /\ NewTick(p)
     \/ /\ unresolved = {}
        /\ \E h \in Corroborated(p) :
             /\ mirror_pc' = [mirror_pc EXCEPT ![p] = "progress"]
             /\ target' = [target EXCEPT ![p] = h]
        /\ UNCHANGED <<pending, observing, verified, progress>>
  /\ UNCHANGED <<envVars, mirrorDb>>

\* How many entries are stored and the highest seq of them.
mirrored_progress(p) ==
  /\ mirror_pc[p] = "progress"
  /\ LET n == Cardinality(mirrored)
     IN  \/ /\ n >= Len(target[p])
            /\ NewTick(p)
         \/ /\ n < Len(target[p])
            /\ progress' = [progress EXCEPT ![p] = [count |-> n, last |-> LastSeq, prev |-> <<>>]]
            /\ mirror_pc' = [mirror_pc EXCEPT ![p] = "prev"]
            /\ UNCHANGED <<pending, observing, verified, target>>
  /\ UNCHANGED <<envVars, mirrorDb>>

\* The hash the next entry must link to, read by a second statement: the row
\* may have gone in between, which ends the tick.
mirrored_entry_hash_at(p) ==
  /\ mirror_pc[p] = "prev"
  /\ LET at == {k \in Hashes : RowSeq(k) = progress[p].last}
     IN  \/ /\ progress[p].count > 0 /\ at = {}
            /\ NewTick(p)
         \/ /\ progress[p].count = 0 \/ at # {}
            /\ mirror_pc' = [mirror_pc EXCEPT ![p] = "fetch"]
            /\ progress' = [progress EXCEPT ![p].prev =
                              IF progress[p].count = 0 THEN <<>> ELSE CHOOSE k \in at : TRUE]
            /\ UNCHANGED <<pending, observing, verified, target>>
  /\ UNCHANGED <<envVars, mirrorDb>>

\* The next entry of the target, as its inclusion proof at leaf index
\* verified_count binds it.
NextHash(p) == Prefix(target[p], progress[p].count + 1)

\* It links to the last entry stored and its seq is past it.
Links(p) ==
  /\ Prefix(target[p], progress[p].count) = progress[p].prev
  /\ RowSeq(NextHash(p)) > progress[p].last

\* The row stored for the next entry.
MirroredRow(p) == [hash |-> NextHash(p), size |-> Len(target[p])]

\* Store the next entry; a row at its seq already is an error that ends the
\* tick, and so does reaching the target.
insert_mirrored_entry(p) ==
  /\ mirror_pc[p] = "fetch"
  /\ Links(p)
  /\ IF \E k \in Hashes : RowSeq(k) = RowSeq(NextHash(p))
     THEN NewTick(p) /\ UNCHANGED mirrored
     ELSE /\ mirrored' = mirrored \cup {MirroredRow(p)}
          /\ IF progress[p].count + 1 = Len(target[p])
             THEN NewTick(p)
             ELSE /\ progress' = [progress EXCEPT ![p] =
                                    [count |-> progress[p].count + 1,
                                     last |-> RowSeq(NextHash(p)),
                                     prev |-> NextHash(p)]]
                  /\ UNCHANGED <<mirror_pc, pending, observing, verified, target>>
  /\ UNCHANGED <<envVars, observed, found, unresolved>>

\* Every source refused, empty or down, or the budget spent: the tick ends.
EndMirrorTick(p) ==
  /\ mirror_pc[p] = "fetch"
  /\ NewTick(p)
  /\ UNCHANGED <<envVars, mirrorDb>>

\* The process dies and starts again.
MirrorCrash(p) ==
  /\ "crash" \in MirrorFaults
  /\ mirror_pc[p] # "poll"
  /\ NewTick(p)
  /\ UNCHANGED <<envVars, mirrorDb>>

-----------------------------------------------------------------------------
(* avalon resolve-equivocation <tree_size> <root> [--discard-mirrored] *)

\* Every open finding at the size is marked resolved; with none open the
\* command says so and returns, whatever its flags.
resolve_equivocation(root, discard) ==
  /\ operator.pc = "idle"
  /\ resolves < MaxResolves
  /\ Len(root) \in found
  /\ resolves' = resolves + 1
  /\ unresolved' = unresolved \ {Len(root)}
  /\ operator' = [pc |-> IF discard /\ Len(root) \in unresolved THEN "discard" ELSE "done",
                  root |-> root, discard |-> discard]
  /\ UNCHANGED <<serving, observed, found, mirrored, mirrorTick>>

\* A second statement drops what was verified at or beyond the size.
discard_mirrored_entries_from ==
  /\ operator.pc = "discard"
  /\ mirrored' = {m \in mirrored : m.size < Len(operator.root)}
  /\ operator' = [operator EXCEPT !.pc = "done"]
  /\ UNCHANGED <<serving, resolves, observed, found, unresolved, mirrorTick>>

Return ==
  /\ operator.pc = "done"
  /\ operator' = [pc |-> "idle", root |-> NoHead, discard |-> FALSE]
  /\ UNCHANGED <<serving, resolves, mirrorDb, mirrorTick>>

-----------------------------------------------------------------------------
Operator ==
  \/ \E root \in SourceHead, discard \in Discards : resolve_equivocation(root, discard)
  \/ discard_mirrored_entries_from
  \/ Return

Watcher(p) ==
  \/ \E s \in Source : insert_observation(p, s)
  \/ check_equivocation(p)
  \/ record_equivocation(p)
  \/ CheckFails(p)
  \/ backfill_network(p)
  \/ mirrored_progress(p)
  \/ mirrored_entry_hash_at(p)
  \/ insert_mirrored_entry(p)
  \/ EndMirrorTick(p)
  \/ MirrorCrash(p)

MirrorNext ==
  \/ \E s \in Source : ServeHead(s)
  \/ \E p \in MirrorProc : Watcher(p)
  \/ Operator

MirrorSpec == MirrorInit /\ [][MirrorNext]_mirrorVars

-----------------------------------------------------------------------------
(* What the mirror promises *)

Chains == UNION {{Prefix(h, n) : n \in 1 .. Len(h)} : h \in SourceHead}

\* Every variable has its type; a watcher past the choice of a target has one,
\* and its verified_count is short of it.
MirrorTypeOK ==
  /\ serving \in [Source -> SourceHead \cup {NoHead}]
  /\ observed \subseteq Observation
  /\ unresolved \subseteq found /\ found \subseteq Size
  /\ mirrored \subseteq [hash : Chains, size : Size]
  /\ mirror_pc \in [MirrorProc -> {"poll", "check", "record", "progress", "prev", "fetch"}]
  /\ pending \in [MirrorProc -> SUBSET Source]
  /\ \A p \in MirrorProc :
       /\ verified[p] \subseteq Observation
       /\ mirror_pc[p] \in {"check", "record"} => observing[p] \in observed
       /\ mirror_pc[p] \in {"progress", "prev", "fetch"} => target[p] \in SourceHead
       /\ mirror_pc[p] \in {"prev", "fetch"} => progress[p].count < Len(target[p])
  /\ operator.pc \in {"idle", "discard", "done"}
  /\ resolves \in 0 .. MaxResolves

\* mirrored_entries is one hash chain from genesis with no entry missing and
\* none twice: the rank of a row is its leaf index, as backfill_page assumes
\* when it takes verified_count for the index of the next entry.
MirrorChained ==
  mirrored # {} =>
    \E m \in mirrored :
      /\ Hashes = {Prefix(m.hash, n) : n \in 1 .. Len(m.hash)}
      /\ Cardinality(mirrored) = Len(m.hash)

\* Two sources' recorded heads of one size that differ leave a row in
\* equivocation_findings, once no watcher is still comparing
\* (record_verified_head, check_equivocation).
ConflictsAreFound ==
  (\A p \in MirrorProc : mirror_pc[p] \notin {"check", "record"}) =>
    \A o \in observed : detect_equivocation(o) # {} => Len(o.head) \in found

\* No entry is stored while a finding is open: backfill_network's gate.
GateHolds ==
  [][mirrored' \subseteq mirrored \/ unresolved = {}]_mirrorVars

\* A run of resolve-equivocation with --discard-mirrored returns with nothing
\* stored that was verified at or beyond its tree_size.
DiscardDiscards ==
  [][operator.pc # "done" /\ operator'.pc = "done" /\ operator'.discard =>
       \A m \in mirrored' : m.size < Len(operator'.root)]_mirrorVars
-----------------------------------------------------------------------------
(* Inductive invariants *)

\* What a watcher holds in its tick.
WatcherOK(p) ==
  /\ mirror_pc[p] \in {"poll", "check", "record", "progress", "prev", "fetch"}
  /\ pending[p] \subseteq Source
  /\ verified[p] \subseteq Observation
  /\ mirror_pc[p] \in {"check", "record"} => observing[p] \in observed
  /\ mirror_pc[p] \in {"progress", "prev", "fetch"} => target[p] \in SourceHead
  /\ mirror_pc[p] \in {"prev", "fetch"} =>
       progress[p].count \in Nat /\ progress[p].count < Len(target[p])

\* The tables, and the command's own state.
MirrorTables ==
  /\ serving \in [Source -> SourceHead \cup {NoHead}]
  /\ observed \subseteq Observation
  /\ unresolved \subseteq found /\ found \subseteq Size
  /\ mirrored \subseteq [hash : Chains, size : Size]
  /\ IsFiniteSet(mirrored)
  /\ operator \in [pc : {"idle", "discard", "done"}, root : SourceHead \cup {NoHead},
                   discard : BOOLEAN]
  /\ operator.pc = "discard" => operator.root \in SourceHead
  /\ resolves \in 0 .. MaxResolves

TickDomains ==
  /\ DOMAIN mirror_pc = MirrorProc /\ DOMAIN pending = MirrorProc
  /\ DOMAIN observing = MirrorProc /\ DOMAIN verified = MirrorProc
  /\ DOMAIN target = MirrorProc /\ DOMAIN progress = MirrorProc
  /\ mirror_pc = [p \in MirrorProc |-> mirror_pc[p]]
  /\ pending = [p \in MirrorProc |-> pending[p]]
  /\ \A p \in MirrorProc :
       progress[p] = [count |-> progress[p].count, last |-> progress[p].last,
                      prev |-> progress[p].prev]

MirrorInv == MirrorTables /\ TickDomains /\ \A p \in MirrorProc : WatcherOK(p)

\* A conflict that is not in the table yet is in the hands of the watcher that
\* stored its later side.
ConflictsInv ==
  \A o \in observed : detect_equivocation(o) # {} =>
    \/ Len(o.head) \in found
    \/ \E p \in MirrorProc : /\ mirror_pc[p] \in {"check", "record"}
                             /\ Len(observing[p].head) = Len(o.head)
                             /\ detect_equivocation(observing[p]) # {}

\* Past the gate no finding is open, if nobody else looks for them.
SoleWatcher == \A p, q \in MirrorProc : p = q
GateInv ==
  \A p \in MirrorProc : mirror_pc[p] \in {"progress", "prev", "fetch"} => unresolved = {}

\* The author signs one history and nothing is discarded: one row per length,
\* and no watcher counts rows that are not there.
OneHistory ==
  /\ \A g, h \in SourceHead : HeadExtends(g, h) \/ HeadExtends(h, g)
  /\ Discards \subseteq {FALSE}
ChainedInv ==
  /\ operator.pc # "discard"
  /\ \A m \in mirrored : Len(m.hash) \in 1 .. Cardinality(mirrored)
  /\ \A n \in 1 .. Cardinality(mirrored) : \E m \in mirrored : Len(m.hash) = n
  /\ \A p \in MirrorProc : mirror_pc[p] \in {"prev", "fetch"} =>
       progress[p].count <= Cardinality(mirrored)
=============================================================================
