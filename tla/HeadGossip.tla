------------------------------ MODULE HeadGossip ------------------------------
(* Comparing the tree heads peers report: HeadGossipTracker in nodes.rs and    *)
(* the confirmation of a conflict in equivocation.rs.  Announces and responses *)
(* of several peers are merged while confirmations run; each confirmation      *)
(* fetches both heads again, verifies them and marks the shard.                *)
(*                                                                           *)
(* A place is a shard and a tree size.  A peer may gossip heads it does not    *)
(* hold.  Confirmations name the peers their two heads were reported by.       *)
EXTENDS Naturals, FiniteSets, Sequences, SequencesExt

CONSTANTS Reporter, OwnReporter,      \* peers, and this node itself
          Established,        \* peers with standing (PeerTable::established)
          Place, Shard, shardOf, Root,
          Says,               \* [Reporter \cup {Own} -> set of heads it reports]
          Holds,              \* [Reporter \cup {Own} -> heads it can serve]
          AuthorSigned,       \* heads with a valid signature of the author
          DoublyCosigned,     \* places at which a witness cosigned both heads
          MAX_TRACKED_HEAD_SUMMARIES, MAX_CONFIRMATIONS_IN_FLIGHT,
          MaxFetchFails       \* bound: fetches and inserts that fail

VARIABLES seen,               \* tracked summaries, oldest last_seen_at first
          equivocating_shards,
          running,            \* place -> the confirmation holding its slot
          evidence,           \* equivocation_evidence rows
          fetchFails,
          since               \* heads reported after a head's last report (all, if none)

gossipVars == <<seen, equivocating_shards, running, evidence, fetchFails, since>>

HeadSummary == [place : Place, root : Root]

GossipInit ==
    /\ seen = <<>>
    /\ equivocating_shards = {} /\ running = <<>> /\ evidence = {}
    /\ fetchFails = 0
    /\ since = [h \in HeadSummary |-> HeadSummary]

-----------------------------------------------------------------------------
Tracked == {seen[i].head : i \in 1 .. Len(seen)}

evict_if_full(s, h) ==
    IF h \in {s[i].head : i \in 1 .. Len(s)} \/ Len(s) < MAX_TRACKED_HEAD_SUMMARIES
    THEN s ELSE Tail(s)

InsertHead(s, h, p) == Append(SelectSeq(s, LAMBDA t : t.head # h), [head |-> h, by |-> p])

(* HeadGossipTracker::merge for one summary; the conflicts are the other roots *)
(* tracked for its place.                                                      *)
merge_heads(p, h) ==
    /\ seen' = InsertHead(evict_if_full(seen, h), h, p)
    /\ since' = [g \in HeadSummary |->
                    IF g = h THEN {} ELSE since[g] \cup {h}]

Conflicts(p, h) ==
    IF shardOf[h.place] \in equivocating_shards THEN {}
    ELSE {[a |-> h, source_a |-> p, b |-> t.head, source_b |-> t.by] :
             t \in {u \in Range(evict_if_full(seen, h)) :
                       u.head.place = h.place /\ u.head.root # h.root}}

(* Mutant: a task that ends keeps its slot.                                   *)
ReleaseNever(x) == running' = [running EXCEPT ![x].at = "over"]

Release(x) == running' = [y \in DOMAIN running \ {x} |-> running[y]]

(* ConfirmGate::try_enter: the last slot is for peers with standing, and a     *)
(* place and a reporter have one confirmation each.                            *)
try_enter(place, p) ==
    /\ Cardinality(DOMAIN running) < (IF p \in Established THEN MAX_CONFIRMATIONS_IN_FLIGHT
                                      ELSE MAX_CONFIRMATIONS_IN_FLIGHT - 1)
    /\ place \notin DOMAIN running
    /\ \A x \in DOMAIN running : running[x].reporter # p

Enter(p, c) ==
    running' = [x \in DOMAIN running \cup {c.a.place} |->
                  IF x = c.a.place THEN [at |-> "check", reporter |-> p, conflict |-> c]
                  ELSE running[x]]

(* An announce or a response of p with one summary.  spawn_confirmation takes   *)
(* the conflicts in no particular order; the first to get a slot shuts out the *)
(* rest, which have the same place and the same reporter.                      *)
Report(p, h) ==
    /\ h \in Says[p]
    /\ merge_heads(p, h)
    /\ IF try_enter(h.place, p) /\ Conflicts(p, h) # {}
       THEN \E c \in Conflicts(p, h) : Enter(p, c)
       ELSE UNCHANGED running
    /\ UNCHANGED <<equivocating_shards, evidence, fetchFails>>

(* The announce worker records this node's head; what it conflicts with is not *)
(* followed up.                                                                *)
record_own(h) ==
    /\ h \in Says[OwnReporter]
    /\ merge_heads(OwnReporter, h)
    /\ UNCHANGED <<equivocating_shards, running, evidence, fetchFails>>

-----------------------------------------------------------------------------
At(x, at) == x \in DOMAIN running /\ running[x].at = at
Move(x, at) == running' = [running EXCEPT ![x].at = at]

CheckMarked(x) ==
    /\ At(x, "check")
    /\ IF shardOf[x] \in equivocating_shards THEN Release(x) ELSE Move(x, "fetch")
    /\ UNCHANGED <<seen, equivocating_shards, evidence, fetchFails, since>>

(* fetch_cosigned_head from both sources: a source may hold another root by    *)
(* now, hold none, or not answer.                                              *)
Backed(c) == c.a \in Holds[c.source_a] /\ c.b \in Holds[c.source_b]

FetchBoth(x) ==
    /\ At(x, "fetch")
    /\ IF Backed(running[x].conflict) THEN Move(x, "decide") ELSE Release(x)
    /\ UNCHANGED <<seen, equivocating_shards, evidence, fetchFails, since>>

FetchFails(x) ==
    /\ At(x, "fetch") /\ fetchFails < MaxFetchFails
    /\ fetchFails' = fetchFails + 1
    /\ Release(x)
    /\ UNCHANGED <<seen, equivocating_shards, evidence, since>>

confirm_author_equivocation(c) ==
    /\ c.a.place = c.b.place /\ c.a.root # c.b.root
    /\ c.a \in AuthorSigned /\ c.b \in AuthorSigned

(* A witness that cosigned both is evidence of its own; without one the        *)
(* author's two signatures are.                                                *)
confirm_equivocation(c) == confirm_author_equivocation(c) /\ c.a.place \in DoublyCosigned

(* The cosignatures other witnesses hold have been gathered: decide and mark.  *)
Decide(x) ==
    /\ At(x, "decide")
    /\ IF confirm_equivocation(running[x].conflict) \/ confirm_author_equivocation(running[x].conflict)
       THEN /\ equivocating_shards' = equivocating_shards \cup {shardOf[x]}
            /\ Move(x, "record")
       ELSE Release(x) /\ UNCHANGED equivocating_shards
    /\ UNCHANGED <<seen, evidence, fetchFails, since>>

RecordEvidence(x) ==
    /\ At(x, "record")
    /\ \/ /\ evidence' = evidence \cup
                {[place |-> x, kind |-> IF confirm_equivocation(running[x].conflict)
                                        THEN "witness" ELSE "author"]}
          /\ UNCHANGED fetchFails
       \/ /\ fetchFails < MaxFetchFails
          /\ fetchFails' = fetchFails + 1
          /\ UNCHANGED evidence
    /\ Release(x)
    /\ UNCHANGED <<seen, equivocating_shards, since>>

Confirmation(x) ==
    CheckMarked(x) \/ FetchBoth(x) \/ FetchFails(x) \/ Decide(x) \/ RecordEvidence(x)

GossipNext ==
    \/ \E p \in Reporter, h \in HeadSummary : Report(p, h)
    \/ \E h \in HeadSummary : record_own(h)
    \/ \E x \in Place : Confirmation(x)

(* Peers announce every interval for as long as they run, and a spawned task    *)
(* runs to its end.                                                            *)
GossipSpec ==
    /\ GossipInit /\ [][GossipNext]_gossipVars
    /\ \A p \in Reporter : \A h \in Says[p] : WF_gossipVars(Report(p, h))
    /\ \A x \in Place : WF_gossipVars(Confirmation(x))

-----------------------------------------------------------------------------

(* A fork whose two heads are reported by peers that hold them is confirmed in *)
(* the end, with confirmations of other places and newcomers' reports going on *)
(* (spawn_confirmation drops what finds no slot; a later report repeats it).   *)
ForksAreConfirmed ==
    \A g, h \in AuthorSigned :
       (g.place = h.place /\ g.root # h.root
          /\ \E p, q \in Established : g \in Says[p] \cap Holds[p] /\ h \in Says[q] \cap Holds[q])
       => <>(shardOf[g.place] \in equivocating_shards)
=============================================================================
