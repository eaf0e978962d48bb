------------------------------ MODULE Serving ------------------------------
(* One shard's public reads and its retention: the endpoints of              *)
(* settlement.rs, answered by the node that authors the shard from           *)
(* ledger_entries and by its mirrors from mirrored_entries and               *)
(* observed_sths; the mirrors' backfill as the client of those endpoints;    *)
(* and the author's retention worker (retention.rs), which discards payloads *)
(* once enough archive peers say they hold them.                             *)
(*                                                                           *)
(* The author appends one history and signs it honestly (module Ledger), so  *)
(* the i-th entry stands for its hash and 1 .. n, in order, for the leaves   *)
(* under the signed root at size n.  Conflicting heads are module Mirror.    *)
EXTENDS Integers, FiniteSets, FiniteSetsExt, Sequences, SequencesExt

CONSTANTS Author,       \* the node that authors the shard
          Mirrors,      \* the nodes that mirror it
          Archives,     \* archive_peers of the author's RetentionConfig
          MinArchives,  \* min_archive_confirmations
          Window,       \* hot window, in ticks of the clock
          PageSize,     \* entries of a page
          Scenario,     \* the mirrors' sources at first, and after a change of them,
                        \* and the time at which the behaviour starts
          MaxEntries, MaxClock

Node == {Author} \cup Mirrors

ASSUME ServingAssumption ==
  /\ Author \notin Mirrors /\ Archives \subseteq Mirrors
  /\ MinArchives \in 0 .. Cardinality(Archives)
  /\ \A s \in Scenario : /\ {s.first, s.then} \subseteq [Mirrors -> SUBSET Node]
                         /\ s.start \in 0 .. MaxClock

VARIABLES clock,
          ledger,    \* ledger_entries: committed_at and whether the payload is there
          signed,    \* signed_tree_heads: the sizes a batch closed at
          rows,      \* mirrored_entries of each mirror: the source of each seq
          observed,  \* observed_sths of each mirror
          sources,   \* AVALON_MIRROR_PEERS of each mirror
          later,     \* what the operator will change it to
          tick,      \* where each watcher is in its tick
          prune      \* the retention worker's pass

authorVars == <<clock, ledger, signed>>
mirrorVars == <<rows, observed, tick>>
servingVars == <<clock, ledger, signed, rows, observed, sources, later, tick, prune>>

ServedLeaves(n) == [i \in 1 .. n |-> i]

-----------------------------------------------------------------------------
(* What a mirror answers from.  Reads are scoped to the one source configured *)
(* for the shard; with several configured they are not scoped.                *)

source_url_for(m) == IF Cardinality(sources[m]) = 1 THEN sources[m] ELSE Node

Held(m) == DOMAIN rows[m]
Scoped(m, scope) == {i \in Held(m) : rows[m][i] \in scope}

mirrored_progress(m, scope) == Scoped(m, scope)

mirrored_entry_hashes_up_to(m, n) ==
    LET inOrder == SetToSortSeq(Scoped(m, source_url_for(m)), <)
    IN SubSeq(inOrder, 1, n)

(* The entries before entry i: as many as its leaf index.                     *)
mirrored_leaf_index_for_seq(m, i) == {j \in Scoped(m, source_url_for(m)) : j < i}


observed_sth_matching_root(m, n, leaves) ==
    /\ leaves = ServedLeaves(n)
    /\ \E o \in observed[m] : o.size = n /\ o.by \in source_url_for(m)

-----------------------------------------------------------------------------
(* The endpoints.  0 stands for "not found".                                  *)

entry_count == Len(ledger)

mirror_sth_at(m, n) ==
    /\ n \in 1 .. Cardinality(Scoped(m, source_url_for(m)))
    /\ observed_sth_matching_root(m, n, mirrored_entry_hashes_up_to(m, n))

signed_tree_head_at(n) == n \in signed

sth_at_tree_size(node, n) ==
    IF node = Author THEN signed_tree_head_at(n) ELSE mirror_sth_at(node, n)

mirror_latest_sth(m) ==
    LET n == Cardinality(Scoped(m, source_url_for(m)))
    IN IF mirror_sth_at(m, n) THEN n ELSE 0

latest_signed_tree_head == Max(signed \cup {0})

latest_sth(node) ==
    IF node = Author THEN latest_signed_tree_head ELSE mirror_latest_sth(node)

(* Entries after seq `since`, oldest first, at most a page.                   *)
Page(S, since) == LET next == SetToSortSeq({i \in S : i > since}, <)
                  IN SubSeq(next, 1, Min({Len(next), PageSize}))

mirrored_entries_since(m, since) ==
    LET page == Page(Scoped(m, source_url_for(m)), since)
    IN [k \in DOMAIN page |-> [seq |-> page[k], payload |-> TRUE]]

list_entries_since(since) ==
    LET page == Page(DOMAIN ledger, since)
    IN [k \in DOMAIN page |-> [seq |-> page[k], payload |-> ledger[page[k]].payload]]

list_entries(node, since) ==
    IF node = Author THEN list_entries_since(since) ELSE mirrored_entries_since(node, since)

NoProof == [leaf |-> 0, index |-> 0, root |-> <<>>]

mirror_inclusion_proof(m, i, n) ==
    LET index == Cardinality(mirrored_leaf_index_for_seq(m, i))
        hashes == mirrored_entry_hashes_up_to(m, n)
    IN IF /\ n <= Cardinality(Scoped(m, source_url_for(m)))
          /\ i \in Scoped(m, source_url_for(m))
          /\ index < n
       THEN [leaf |-> hashes[index + 1], index |-> index, root |-> hashes]
       ELSE NoProof

leaf_index_for_seq(i) == Cardinality({j \in DOMAIN ledger : j <= i}) - 1

settlement_inclusion_proof(node, i, n) ==
    IF node # Author
    THEN mirror_inclusion_proof(node, i, n)
    ELSE IF n <= entry_count /\ i \in DOMAIN ledger /\ leaf_index_for_seq(i) < n
         THEN [leaf |-> leaf_index_for_seq(i) + 1, index |-> leaf_index_for_seq(i),
               root |-> ServedLeaves(n)]
         ELSE NoProof

(* The roots a consistency proof is about.                                    *)
mirror_consistency_proof(m, first, second) ==
    LET hashes == mirrored_entry_hashes_up_to(m, second)
    IN IF second <= Cardinality(Scoped(m, source_url_for(m)))
       THEN <<SubSeq(hashes, 1, first), hashes>> ELSE <<>>

settlement_consistency_proof(node, first, second) ==
    IF node # Author
    THEN mirror_consistency_proof(node, first, second)
    ELSE IF second <= entry_count THEN <<ServedLeaves(first), ServedLeaves(second)>> ELSE <<>>

(* How far `node` mirrored what it took from `by`.                            *)
mirror_progress(node, by) == Max(mirrored_progress(node, {by}) \cup {0})

-----------------------------------------------------------------------------
(* The author.                                                                *)

commit ==
    /\ \E n \in 1 .. 2 :
          /\ Len(ledger) + n <= MaxEntries
          /\ ledger' = ledger \o [i \in 1 .. n |-> [at |-> clock, payload |-> TRUE]]
          /\ signed' = signed \cup {Len(ledger) + n}
    /\ UNCHANGED <<clock, mirrorVars, sources, later, prune>>

Pass ==
    /\ clock < MaxClock
    /\ clock' = clock + 1
    /\ UNCHANGED <<ledger, signed, mirrorVars, sources, later, prune>>

PruneIdle == [pc |-> "idle", cutoff |-> 0, boundary |-> 0, asked |-> {}, sure |-> {}]

Prunable(cutoff) == {i \in DOMAIN ledger : ledger[i].at < cutoff /\ ledger[i].payload}

requires_archive_confirmation == Archives # {} /\ MinArchives > 0

(* prune_once up to the first request: the cutoff is fixed here.              *)
prune_once ==
    /\ prune.pc = "idle"
    /\ Prunable(clock - Window) # {}
    /\ prune' = [PruneIdle EXCEPT !.pc = "ask", !.cutoff = clock - Window,
                                  !.boundary = Max(Prunable(clock - Window))]
    /\ UNCHANGED <<authorVars, mirrorVars, sources, later>>

Confirmed == ~requires_archive_confirmation \/ Cardinality(prune.sure) >= MinArchives

(* One archive peer is asked; a request that fails counts as "no".            *)
peer_confirms_coverage(a) ==
    /\ prune.pc = "ask" /\ ~Confirmed /\ a \in Archives \ prune.asked
    /\ \E reached \in BOOLEAN :
         prune' = [prune EXCEPT !.asked = @ \cup {a},
                     !.sure = IF reached /\ mirror_progress(a, Author) >= prune.boundary
                              THEN @ \cup {a} ELSE @]
    /\ UNCHANGED <<authorVars, mirrorVars, sources, later>>

SkipPass ==
    /\ prune.pc = "ask" /\ ~Confirmed /\ prune.asked = Archives
    /\ prune' = PruneIdle
    /\ UNCHANGED <<authorVars, mirrorVars, sources, later>>

Discard(cutoff) ==
    ledger' = [i \in DOMAIN ledger |->
                 IF i \in Prunable(cutoff) THEN [ledger[i] EXCEPT !.payload = FALSE] ELSE ledger[i]]

(* Mutant: the window is measured again when the payloads are discarded.      *)
prune_payloads_older_thanNow ==
    /\ prune.pc = "ask" /\ Confirmed
    /\ Discard(clock - Window)
    /\ prune' = PruneIdle
    /\ UNCHANGED <<clock, signed, mirrorVars, sources, later>>

prune_payloads_older_than ==
    /\ prune.pc = "ask" /\ Confirmed
    /\ Discard(prune.cutoff)
    /\ prune' = PruneIdle
    /\ UNCHANGED <<clock, signed, mirrorVars, sources, later>>

-----------------------------------------------------------------------------
(* The mirrors, as clients of those endpoints.                                *)

NewTick(m) == [pc |-> "poll", left |-> sources[m], heads |-> {}, size |-> 0,
               peers |-> {}, from |-> Author, page |-> <<>>]

EndTick(m) == tick' = [tick EXCEPT ![m] = NewTick(m)]

(* A source answers with its latest head, if it has one and is reached.       *)
fetch_latest_sth(m, p, answer) ==
    /\ tick[m].pc = "poll" /\ p \in tick[m].left
    /\ LET head == IF answer = 0 THEN {} ELSE {[size |-> answer, by |-> p]} IN
         /\ tick' = [tick EXCEPT ![m].left = @ \ {p}, ![m].heads = @ \cup head]
         /\ observed' = [observed EXCEPT ![m] = @ \cup head]
    /\ UNCHANGED <<authorVars, rows, sources, later, prune>>

Poll(m, p) == fetch_latest_sth(m, p, latest_sth(p))
Unreached(m, p) == fetch_latest_sth(m, p, 0)

Agreeing(heads, n) == {h.by : h \in {g \in heads : g.size = n}}

(* The head most sources agree on, and those sources.                         *)
backfill_network(m) ==
    /\ tick[m].pc = "poll" /\ tick[m].left = {}
    /\ LET heads == tick[m].heads
           sizes == {h.size : h \in heads}
           most == {n \in sizes : \A k \in sizes : Cardinality(Agreeing(heads, k))
                                                     <= Cardinality(Agreeing(heads, n))}
       IN \/ \E n \in most :
                /\ n > Cardinality(Held(m))
                /\ tick' = [tick EXCEPT ![m].pc = "fill", ![m].size = n,
                                        ![m].heads = {}, ![m].peers = Agreeing(heads, n)]
          \/ /\ most = {} \/ \E n \in most : n <= Cardinality(Held(m))
             /\ EndTick(m)
    /\ UNCHANGED <<authorVars, rows, observed, sources, later, prune>>

LastSeq(m) == Max(Held(m) \cup {0})

(* The loop of backfill: on with what is left of the page, or, the head       *)
(* covered or no candidate left, the tick is over.                            *)
Loop(m, held, page, peers) ==
    tick' = [tick EXCEPT ![m] =
               IF held >= @.size \/ peers = {} THEN NewTick(m)
               ELSE [@ EXCEPT !.page = page, !.peers = peers,
                              !.from = IF page = <<>> THEN Author ELSE @]]

fetch_entries(m, p) ==
    /\ tick[m].pc = "fill" /\ tick[m].page = <<>>
    /\ p \in tick[m].peers
    /\ LET page == list_entries(p, LastSeq(m)) IN
         IF page = <<>> THEN Loop(m, Cardinality(Held(m)), page, tick[m].peers \ {p})
         ELSE tick' = [tick EXCEPT ![m].page = page, ![m].from = p]
    /\ UNCHANGED <<authorVars, rows, observed, sources, later, prune>>

(* The checks of backfill_page and verify_entry_binding: the entry is under   *)
(* the head's root at the next index, follows the last stored entry, and its  *)
(* payload is there.                                                          *)
Acceptable(m, e, proof) ==
    /\ proof.root = ServedLeaves(tick[m].size)
    /\ proof.leaf = e.seq
    /\ e.seq = Cardinality(Held(m)) + 1
    /\ e.seq - 1 = LastSeq(m)
    /\ e.payload

backfill_page(m) ==
    /\ tick[m].pc = "fill" /\ tick[m].page # <<>>
    /\ LET e == Head(tick[m].page)
           p == tick[m].from
       IN IF Acceptable(m, e, settlement_inclusion_proof(p, e.seq, tick[m].size))
          THEN /\ rows' = [rows EXCEPT ![m] = [i \in Held(m) \cup {e.seq} |->
                                 IF i = e.seq THEN p ELSE rows[m][i]]]
               /\ Loop(m, Cardinality(Held(m)) + 1, Tail(tick[m].page), tick[m].peers)
          ELSE /\ Loop(m, Cardinality(Held(m)), <<>>, tick[m].peers \ {p})
               /\ UNCHANGED rows
    /\ UNCHANGED <<authorVars, observed, sources, later, prune>>

(* A restart with another AVALON_MIRROR_PEERS.                                *)
Reconfigure(m) ==
    /\ sources[m] # later[m]
    /\ sources' = [sources EXCEPT ![m] = later[m]]
    /\ tick' = [tick EXCEPT ![m] = [NewTick(m) EXCEPT !.left = later[m]]]
    /\ UNCHANGED <<authorVars, rows, observed, later, prune>>

-----------------------------------------------------------------------------
ServingInit ==
    /\ \E s \in Scenario : clock = s.start /\ sources = s.first /\ later = s.then
    /\ ledger = <<>> /\ signed = {}
    /\ rows = [m \in Mirrors |-> <<>>]
    /\ observed = [m \in Mirrors |-> {}]
    /\ tick = [m \in Mirrors |-> NewTick(m)]
    /\ prune = PruneIdle

MirrorStep(m) ==
    \/ \E p \in Node : Poll(m, p) \/ Unreached(m, p) \/ fetch_entries(m, p)
    \/ backfill_network(m)
    \/ backfill_page(m)

ServingNext ==
    \/ commit
    \/ Pass
    \/ prune_once
    \/ \E a \in Archives : peer_confirms_coverage(a)
    \/ SkipPass
    \/ prune_payloads_older_than
    \/ \E m \in Mirrors : MirrorStep(m) \/ Reconfigure(m)

ServingSpec == ServingInit /\ [][ServingNext]_servingVars

-----------------------------------------------------------------------------

(* A payload the retention worker discarded is held by as many archive peers  *)
(* as the author's configuration asks for, whatever was committed and however *)
(* the clock moved while they were asked.                                     *)
PrunedIsArchived ==
    \A i \in DOMAIN ledger : ~ledger[i].payload =>
        Cardinality({a \in Archives : i \in Held(a)}) >= MinArchives

=============================================================================
