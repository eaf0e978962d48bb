------------------------------- MODULE Gather -------------------------------
(* Keeping witness cosignatures over a node's newest head stored and fresh:   *)
(* author_cosign_gather.rs for the head the node signed itself,               *)
(* refresh_witness_cosignatures of mirror_watcher.rs for one it mirrors, with *)
(* the selection, caps and backoff of witness_refresh.rs and the fetches of   *)
(* cosign_gather.rs.                                                          *)
(*                                                                           *)
(* Time goes in rounds, one tick each.  A cosignature is its age in rounds;   *)
(* Stale is an age that does not count any more.  Left out: the older head a  *)
(* mirror serves while it catches up, and changes of the two lists.           *)
EXTENDS Integers, Sequences, FiniteSets, FiniteSetsExt, SequencesExt

CONSTANTS KnownWitness,     \* witnesses of the confirmed known list
          DirectoryWitness, \* witnesses known from the peer directory only
          Mute,             \* witnesses that have no cosignature for this head
          GatherKind,       \* "author" and "mirror"
          Stale,            \* COSIGNATURE_FRESHNESS_WINDOW
          refresh_after,    \* age from which a stored cosignature is refreshed
          Reattest,         \* age at which a witness signs anew
          MAX_ASKED_PER_TICK, max_per_tick, ROW_CAP_FACTOR,
          FlatWait, MaxWait,\* waits of the backoff: the flat one and the longest
          MaxFaults         \* bound: failed fetches

VARIABLES kind,
          own,              \* the age of each witness's cosignature at the witness
          rows,             \* witness_cosignatures: the age stored, or Stale + 1 for no row
          backoff,          \* rounds until a witness may be asked, and its failures
          last_asked,       \* witnesses asked, longest ago first
          previous,         \* witnesses that delivered
          held,             \* fetches of this tick not done yet, with the age held before it
          young,            \* the head is younger than YOUNG_HEAD
          phase, faults

gatherVars == <<kind, own, rows, backoff, last_asked, previous, held, young, phase, faults>>

AWitness == KnownWitness \cup DirectoryWitness
NoRow == Stale + 1
Stored == {w \in AWitness : rows[w] # NoRow}
OlderRow(age) == IF age >= Stale THEN age ELSE age + 1

ASSUME GatherAssumption ==
    /\ KnownWitness \cap DirectoryWitness = {}
    /\ Reattest + refresh_after < Stale

GatherInit ==
    /\ kind \in GatherKind
    /\ own = [w \in AWitness |-> 0]
    /\ rows = [w \in AWitness |-> NoRow]
    /\ backoff = [w \in AWitness |-> [wait |-> 0, failures |-> 0]]
    /\ last_asked = <<>> /\ previous = {} /\ held = <<>>
    /\ young = TRUE /\ phase = "select" /\ faults = 0

-----------------------------------------------------------------------------
ready(w) == backoff[w].wait = 0

(* The n least elements of S in one of the orders that Less allows.           *)
Least(S, n, Less(_, _)) ==
    {T \in SUBSET S : /\ Cardinality(T) = Min({n, Cardinality(S)})
                      /\ \A t \in T, s \in S \ T : ~Less(s, t)}

(* A row that needs refreshing; a mirror's latest head always does.           *)
AskDue(w) == kind = "mirror" \/ rows[w] >= refresh_after

AskedAt(w) == IF w \in Range(last_asked) THEN CHOOSE i \in DOMAIN last_asked : last_asked[i] = w
              ELSE 0

(* select_wanted: witnesses without a row first, then the stalest, then the   *)
(* one asked longest ago.                                                     *)
select_wanted ==
    LET Before(v, w) == rows[v] > rows[w] \/ (rows[v] = rows[w] /\ AskedAt(v) < AskedAt(w))
    IN Least({w \in KnownWitness : ready(w) /\ AskDue(w)}, MAX_ASKED_PER_TICK, Before)

RowRoom == Max({0, max_per_tick * ROW_CAP_FACTOR - Cardinality(Stored \ KnownWitness)})

(* Mutant: the stored cosignatures are topped up in any order.                *)
StalestAny(v, w) == FALSE

Stalest(v, w) == rows[v] > rows[w]

(* select: those with a row, stalest first, then new ones while there is      *)
(* room, ones that delivered before and then ones asked longest ago first.    *)
select ==
    LET candidates == {w \in DirectoryWitness : ready(w) /\ AskDue(w)}
        old == candidates \cap Stored
        fresh == candidates \ Stored
        Better(v, w) == \/ v \in previous /\ w \notin previous
                        \/ (v \in previous <=> w \in previous) /\ AskedAt(v) < AskedAt(w)
    IN UNION {{H \cup N : N \in Least(fresh, Min({RowRoom, max_per_tick - Cardinality(H)}), Better)}
                 : H \in Least(old, max_per_tick, Stalest)}

(* A mirror asks the whole known list for its latest head.                    *)
Wanted == UNION {{K \cup D : D \in select}
                   : K \in IF kind = "author" THEN select_wanted ELSE {KnownWitness}}

(* retain_live: the author's worker keeps what concerns the known list, the   *)
(* mirror's what concerns the directory.                                      *)
Live == IF kind = "author" THEN KnownWitness ELSE DirectoryWitness

retain_live ==
    /\ backoff' = [w \in AWitness |-> IF w \in Live THEN backoff[w] ELSE [wait |-> 0, failures |-> 0]]
    /\ last_asked' = SelectSeq(last_asked, LAMBDA w : w \in Live)
    /\ previous' = previous \cap Live

StartTick ==
    /\ phase = "live"
    /\ retain_live
    /\ phase' = "select"
    /\ UNCHANGED <<kind, own, rows, held, young, faults>>

gather_once ==
    /\ phase = "select"
    /\ \E W \in Wanted : held' = [w \in W |-> rows[w]]
    /\ phase' = "fetch"
    /\ UNCHANGED <<kind, own, rows, backoff, last_asked, previous, young, faults>>

-----------------------------------------------------------------------------
(* Backoff::record: failed contacts double the wait; a witness without a      *)
(* cosignature waits a flat time, a round when the head is young.             *)
record(w, attempt) ==
    LET failures == backoff[w].failures
        doubled == Min({FlatWait * 2 ^ failures, MaxWait})
    IN backoff' = [backoff EXCEPT ![w] =
           CASE attempt = "ok" -> [wait |-> 0, failures |-> 0]
             [] attempt = "transport" -> [wait |-> doubled, failures |-> Min({failures + 1, 2})]
             [] attempt = "unavailable" -> [wait |-> FlatWait, failures |-> failures]
             [] attempt = "lagging" -> [wait |-> 1, failures |-> failures]]

(* The known list of a mirror's latest head has neither backoff nor rotation. *)
Remember(w, attempt) ==
    IF kind = "mirror" /\ w \in KnownWitness
    THEN UNCHANGED <<backoff, last_asked, previous>>
    ELSE /\ record(w, attempt)
         /\ last_asked' = Append(SelectSeq(last_asked, LAMBDA v : v # w), w)
         /\ previous' = IF attempt = "ok" /\ Cardinality(previous) < max_per_tick * ROW_CAP_FACTOR
                        THEN previous \cup {w} ELSE previous

(* store_witness_cosignature: a new row, or one over the same head observed   *)
(* later.                                                                     *)
Freshens(w, age) == age < rows[w]

store_witness_cosignature(w, age) ==
    rows' = IF Freshens(w, age) THEN [rows EXCEPT ![w] = age] ELSE rows

(* What a fetched cosignature counts as: for the author only one that is      *)
(* newer than what it held and reads back from the table.                     *)
AttemptFor(w) ==
    IF kind = "mirror" \/ (own[w] < held[w] /\ own[w] <= rows[w]) THEN "ok" ELSE "unavailable"

(* One witness's answer: its cosignature, none for this head, or a failure.   *)
fetch_own_cosignature(w) ==
    /\ phase = "fetch" /\ w \in DOMAIN held
    /\ \/ /\ w \notin Mute
          /\ IF own[w] < held[w] THEN store_witness_cosignature(w, own[w]) ELSE UNCHANGED rows
          /\ Remember(w, AttemptFor(w))
          /\ UNCHANGED faults
       \/ /\ w \in Mute
          /\ Remember(w, IF kind = "author" /\ young THEN "lagging" ELSE "unavailable")
          /\ UNCHANGED <<rows, faults>>
       \/ /\ faults < MaxFaults /\ faults' = faults + 1
          /\ Remember(w, "transport") /\ UNCHANGED rows
    /\ held' = [v \in DOMAIN held \ {w} |-> held[v]]
    /\ UNCHANGED <<kind, own, young, phase>>

(* A cosignature of some earlier time reaches the table late: with a head     *)
(* that a source relays, or from another process of the node.                 *)
store_valid_cosignatures(w) ==
    /\ w \in KnownWitness \ Mute
    /\ faults < MaxFaults /\ faults' = faults + 1
    /\ \E age \in own[w] .. Stale : store_witness_cosignature(w, age)
    /\ UNCHANGED <<kind, own, backoff, last_asked, previous, held, young, phase>>

(* A round goes by; each witness signs anew when its own has grown old.       *)
Round ==
    /\ phase = "fetch" /\ held = <<>>
    /\ phase' = "live" /\ young' = FALSE
    /\ own' = [w \in AWitness |-> IF own[w] + 1 > Reattest THEN 0 ELSE own[w] + 1]
    /\ rows' = [w \in AWitness |-> OlderRow(rows[w])]
    /\ backoff' = [w \in AWitness |-> [backoff[w] EXCEPT !.wait = Max({0, @ - 1})]]
    /\ UNCHANGED <<kind, last_asked, previous, held, faults>>

GatherWorker == StartTick \/ gather_once \/ (\E w \in AWitness : fetch_own_cosignature(w)) \/ Round

GatherNext == GatherWorker \/ (\E w \in AWitness : store_valid_cosignatures(w))

GatherSpec == GatherInit /\ [][GatherNext]_gatherVars /\ WF_gatherVars(GatherWorker)

-----------------------------------------------------------------------------
majority_threshold == Cardinality(KnownWitness) \div 2 + 1

(* Once fetches stop failing the head has a fresh majority and keeps it, and  *)
(* so does every witness of the directory that has a row: waiting ones and    *)
(* ones without a cosignature do not hold the slots of the others.            *)
FreshnessReturns ==
    /\ <>[](Cardinality({w \in KnownWitness : rows[w] < Stale}) >= majority_threshold)
    /\ \A w \in DirectoryWitness \ Mute : <>[](rows[w] # Stale)

-----------------------------------------------------------------------------
(* The witnesses a node counts toward a majority: known_list.rs.  Its worker   *)
(* confirms, prunes and refills the slots every interval and writes the list   *)
(* to a file; the process may stop between any two of these.                   *)
(*                                                                           *)
(* Times are ages in intervals; they stop growing where the code no longer     *)
(* tells them apart.  Peers with a fresh direct advert differ from tick to     *)
(* tick; prefixes are fixed.                                                   *)
CONSTANTS WitnessCandidate, Anchors,     \* witness keys, and those of bundled seed nodes
          Offers,                 \* the sets of candidates a tick may find
          prefixOf,               \* [Candidate -> diversity prefix]
          capacity, anchor_capacity, max_per_prefix,
          freshness_window, probation_window,  \* intervals
          freshness_floor,        \* percent
          MaxStops                \* bound: restarts, failed and torn writes

ASSUME KnownListAssumption ==
    /\ capacity \in Nat \ {0} /\ anchor_capacity \in 0 .. capacity
    /\ max_per_prefix \in Nat \ {0}
    /\ freshness_window \in Nat /\ probation_window \in Nat /\ freshness_floor \in 1 .. 100
    /\ Anchors \subseteq WitnessCandidate /\ Offers \subseteq SUBSET WitnessCandidate
    /\ freshness_window * freshness_floor >= 100  \* the floor is an interval or more

VARIABLES slots,                  \* witness -> [admitted, observed, status]
          candidate_first_seen,   \* witness -> age
          file,                   \* known_list.json
          stops,
          offered                 \* candidates of the last tick

knownVars == <<slots, candidate_first_seen, file, stops, offered>>

NoSlots == <<>>
SlotCap(n, top) == IF n < top THEN n ELSE top
OlderSlot(n) == SlotCap(n + 1, freshness_window + 1)
AgedSlot(s) == [s EXCEPT !.admitted = SlotCap(@ + 1, probation_window), !.observed = OlderSlot(@)]
AgedSlots(f) == [w \in DOMAIN f |-> AgedSlot(f[w])]

KnownInit ==
    /\ slots = NoSlots /\ candidate_first_seen = NoSlots /\ file = NoSlots
    /\ stops = 0 /\ offered = {}

-----------------------------------------------------------------------------
(* Past probation and fresh: the slot counts from now on.                     *)
confirm_due(s) ==
    IF s.admitted >= probation_window /\ s.observed <= freshness_window
    THEN [s EXCEPT !.status = "confirmed"] ELSE s

(* A slot as prune_stale finds it.                                            *)
RefillDue(w) == confirm_due(AgedSlot(slots[w]))

Confirmed(s) == {w \in DOMAIN s : s[w].status = "confirmed"}

(* Failures n witnesses survive with a majority of n left.                    *)
tolerance(n) == n - (n \div 2 + 1)

effective_freshness_window(n) ==
    IF n <= 1 \/ tolerance(capacity) <= 0 THEN freshness_window
    ELSE (freshness_window
            * Min({100, Max({freshness_floor, (100 * tolerance(n)) \div tolerance(capacity)})})) \div 100


(* The slots that stay.  The window of confirmed ones is worked out once,      *)
(* before anything goes.                                                       *)
prune_stale ==
    LET n == Cardinality({w \in DOMAIN slots : RefillDue(w).status = "confirmed"})
    IN {w \in DOMAIN slots :
          RefillDue(w).observed <= (IF RefillDue(w).status = "confirmed" THEN effective_freshness_window(n)
                              ELSE freshness_window)}

try_admit(S, w) ==
    /\ w \notin S
    /\ w \in Anchors => Cardinality(S \cap Anchors) < anchor_capacity
    /\ Cardinality(S) < capacity
    /\ Cardinality({v \in S : prefixOf[v] = prefixOf[w]}) < max_per_prefix

Slot(w) == [admitted |-> 0, observed |-> 0,
            status |-> IF w \in Anchors THEN "confirmed" ELSE "probationary"]

(* Longest-tenured first; ties have a fixed order.                            *)
Ranked(order, tenure) ==
    \A i, j \in DOMAIN order : i < j => tenure[order[i]] >= tenure[order[j]]

(* Each candidate in turn, against the slots as those before it left them.     *)
Admitted(S, order) ==
    CHOOSE A \in SUBSET Range(order) :
       \A i \in DOMAIN order :
          order[i] \in A <=> try_admit(S \cup (A \cap {order[j] : j \in 1 .. i - 1}), order[i])

(* First-seen times after prune and refill: candidates that are not offered     *)
(* any more, and slots that went, start over.                                   *)
Tenure(kept, C) ==
    [w \in C \cup (DOMAIN candidate_first_seen \cap kept) |->
       IF w \in DOMAIN candidate_first_seen \ (DOMAIN slots \ kept)
       THEN OlderSlot(candidate_first_seen[w]) ELSE 0]

(* Fills open slots from the candidates C, which also observes those that are  *)
(* slots already.                                                              *)
refill(kept, C) ==
    \E order \in SetToSeqs(C \ kept) :
       /\ Ranked(order, Tenure(kept, C))
       /\ LET new == Admitted(kept, order)
          IN slots' = [w \in kept \cup new |->
                         IF w \in new THEN Slot(w)
                         ELSE IF w \in C THEN [RefillDue(w) EXCEPT !.observed = 0] ELSE RefillDue(w)]

(* Written after the lock is let go, when members or their standing changed;   *)
(* the write may fail, or the process stop before it.                          *)
save(kept) ==
    IF DOMAIN slots' # DOMAIN slots \/ kept # DOMAIN slots \/ Confirmed(slots') # Confirmed(slots)
    THEN \/ file' = slots' /\ UNCHANGED stops
         \/ file' = AgedSlots(file) /\ stops < MaxStops /\ stops' = stops + 1
    ELSE file' = AgedSlots(file) /\ UNCHANGED stops

(* KnownListHandle::tick with the candidates C: confirm, prune, refill, save.   *)
KnownTick(C) ==
    LET kept == prune_stale
    IN /\ refill(kept, C)
       /\ candidate_first_seen' = Tenure(kept, C)
       /\ save(kept)
       /\ offered' = C

(* The process starts with what the file holds.                               *)
load_or_new(found) ==
    /\ stops < MaxStops /\ stops' = stops + 1
    /\ slots' = found /\ file' = found
    /\ candidate_first_seen' = NoSlots
    /\ UNCHANGED offered

RestartKnown == load_or_new(file)

(* It stopped while save was writing: the file does not parse.                *)
TornWrite == load_or_new(NoSlots)

KnownNext ==
    \/ \E C \in Offers : KnownTick(C)
    \/ RestartKnown \/ TornWrite

KnownSpec == KnownInit /\ [][KnownNext]_knownVars

-----------------------------------------------------------------------------


=============================================================================
