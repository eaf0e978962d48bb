----------------------------- MODULE Admission -----------------------------
(* How a node comes to mirror shards that certify themselves: the first phase *)
(* of a tick of the mirror watcher (server/mirror_watcher.rs) and the pins of  *)
(* server/self_certifying_keys.rs.  A shard's id fixes its key, so anybody may *)
(* publish one; what a node takes on is bounded by the number of pins, by the  *)
(* pins that came from one source and by the new shards of a tick.  The pins   *)
(* are a table, and several processes of a node tick on it at once.            *)
EXTENDS Integers, Sequences, FiniteSets, Functions

CONSTANTS Watcher,        \* processes that run the mirror watcher
          AutoMirror,     \* those with auto_mirror_discovered
          Listed,         \* AVALON_MIRROR_PEERS: pairs of a shard and a source, in order
          Discovered,     \* other shards of the registry, in the order of their ids
          best_url,       \* the source the registry gives for each of them
          max_shards, max_shards_per_source, max_new_per_tick,
          MaxIdle         \* bound: how often a pin goes idle

VARIABLES pins,           \* self_certifying_shard_keys: the source of each pinned shard
          idle,           \* pins not refreshed for idle_secs
          idles,          \* how often that happened
          tick            \* each watcher's tick

admissionVars == <<pins, idle, idles, tick>>

Pair(s, u) == [shard |-> s, source |-> u]
pinned_key(s) == s \in DOMAIN pins
FromSource(u) == {s \in DOMAIN pins : pins[s] = u}

ASSUME AdmissionAssumption ==
    /\ max_shards \in Nat /\ max_shards_per_source \in Nat /\ max_new_per_tick \in Nat
    /\ \A i \in DOMAIN Listed : Listed[i].shard \notin Range(Discovered)
    /\ DOMAIN best_url = Range(Discovered)

TickIdle == [pc |-> "sleep", list |-> <<>>, new |-> {}, attempts |-> 0, found |-> <<>>,
             from |-> "listed", was |-> FALSE, by |-> 0, asked |-> {}]

AdmissionInit ==
    /\ pins = <<>> /\ idle = {} /\ idles = 0
    /\ tick = [w \in Watcher |-> TickIdle]

WatchTick(w, new) == tick' = [tick EXCEPT ![w] = new]
Quiet == UNCHANGED <<pins, idle, idles>>

-----------------------------------------------------------------------------
(* A tick asks every listed source, at once; some do not answer in time or    *)
(* not with a head that verifies.                                             *)
run_worker(w) ==
    /\ tick[w].pc = "sleep"
    /\ \E answer \in SUBSET Range(Listed) :
       WatchTick(w, [tick[w] EXCEPT !.pc = "next", !.from = "listed", !.new = {}, !.attempts = 0,
                    !.asked = {}, !.list = SelectSeq(Listed, LAMBDA p : p \in answer)])
    /\ Quiet

budget_spent(w, s) ==
    /\ s \notin tick[w].new
    /\ Cardinality(tick[w].new) >= max_new_per_tick
    /\ ~pinned_key(s)

can_admit(s, u) ==
    \/ pinned_key(s)
    \/ /\ Cardinality(FromSource(u)) < max_shards_per_source
       /\ Cardinality(DOMAIN pins) < max_shards \/ idle # {}

(* The head of a listed or a discovered shard is examined; whether the shard  *)
(* is pinned already is read here and used for the tick's budget after it.    *)
verify_fetched_self_certifying_head(w) ==
    /\ tick[w].pc = "next" /\ tick[w].list # <<>>
    /\ LET p == Head(tick[w].list)
           accepted == ~budget_spent(w, p.shard)
                       /\ (tick[w].from = "listed" => can_admit(p.shard, p.source))
       IN WatchTick(w, IF accepted
                  THEN [tick[w] EXCEPT !.pc = "pin", !.was = pinned_key(p.shard)]
                  ELSE [tick[w] EXCEPT !.list = Tail(@)])
    /\ Quiet

(* Mutant: the caps that can_admit read are not read again.                   *)
AdmitsUnchecked(s, u) == TRUE

Admits(s, u) ==
    /\ Cardinality(FromSource(u)) < max_shards_per_source
    /\ Cardinality(DOMAIN pins) < max_shards \/ idle # {}

Evictable == {{s} : s \in idle}

(* pin_key, under PIN_LOCK_ID: the pin is refreshed, refused or written, in   *)
(* the place of an idle one if the table is full.                             *)
pin_key(s, u) ==
    \/ pinned_key(s) /\ idle' = idle \ {s} /\ UNCHANGED pins
    \/ ~pinned_key(s) /\ ~Admits(s, u) /\ UNCHANGED <<pins, idle>>
    \/ /\ ~pinned_key(s) /\ Admits(s, u)
       /\ \E gone \in IF Cardinality(DOMAIN pins) < max_shards \/ Evictable = {}
                      THEN {{}} ELSE Evictable :
            /\ pins' = [t \in (DOMAIN pins \ gone) \cup {s} |-> IF t = s THEN u ELSE pins[t]]
            /\ idle' = idle \ gone

(* A shard that was not pinned before and is now counts for the tick.         *)
charge_admission(w, s) ==
    WatchTick(w, [tick[w] EXCEPT !.pc = "next", !.list = Tail(@),
               !.new = IF ~tick[w].was /\ s \in DOMAIN pins' THEN @ \cup {s} ELSE @])

pin_accepted_shard(w) ==
    /\ tick[w].pc = "pin"
    /\ LET p == Head(tick[w].list) IN pin_key(p.shard, p.source) /\ charge_admission(w, p.shard)
    /\ UNCHANGED idles

rotate_left(w) ==
    LET n == Len(Discovered) IN
    IF n = 0 THEN <<>> ELSE SubSeq(Discovered, tick[w].by + 1, n) \o SubSeq(Discovered, 1, tick[w].by)

StartDiscovery(w) ==
    /\ tick[w].pc = "next" /\ tick[w].list = <<>> /\ tick[w].from = "listed"
    /\ w \in AutoMirror
    /\ LET n == Len(Discovered) IN
       WatchTick(w, [tick[w] EXCEPT !.pc = "discover", !.by = IF n = 0 THEN 0 ELSE (@ + 1) % n,
                  !.list = [i \in 1 .. n |-> Pair(rotate_left(w)[i], best_url[rotate_left(w)[i]])]])
    /\ Quiet

(* A fetch for an unpinned shard counts whether or not it is answered.        *)
fetch_and_verify_self_certifying_sth(w, s) ==
    /\ ~budget_spent(w, s)
    /\ pinned_key(s) \/ tick[w].attempts < max_new_per_tick

discover_and_verify_shard_peers(w) ==
    /\ tick[w].pc = "discover"
    /\ LET t == tick[w]
           p == Head(t.list)
           fetches == fetch_and_verify_self_certifying_sth(w, p.shard)
       IN IF t.list = <<>>
          THEN WatchTick(w, [t EXCEPT !.pc = "next", !.from = "found", !.list = t.found, !.found = <<>>])
          ELSE \E verified \in {FALSE, fetches /\ can_admit(p.shard, p.source)} :
               WatchTick(w, [t EXCEPT !.list = Tail(@),
                          !.attempts = IF fetches /\ ~pinned_key(p.shard) THEN @ + 1 ELSE @,
                          !.asked = IF fetches THEN @ \cup {p.shard} ELSE @,
                          !.found = IF verified THEN Append(@, p) ELSE @])
    /\ Quiet

EndPhase(w) ==
    /\ tick[w].pc = "next" /\ tick[w].list = <<>>
    /\ tick[w].from = "found" \/ w \notin AutoMirror
    /\ WatchTick(w, [tick[w] EXCEPT !.pc = "sleep", !.new = {}, !.attempts = 0, !.asked = {},
                    !.was = FALSE])
    /\ Quiet

(* A shard whose sources have not been heard for idle_secs.                   *)
GoesIdle(s) ==
    /\ s \in DOMAIN pins \ idle /\ idles < MaxIdle
    /\ idle' = idle \cup {s} /\ idles' = idles + 1
    /\ UNCHANGED <<pins, tick>>

Watch(w) ==
    \/ run_worker(w)
    \/ verify_fetched_self_certifying_head(w)
    \/ pin_accepted_shard(w)
    \/ StartDiscovery(w)
    \/ discover_and_verify_shard_peers(w)
    \/ EndPhase(w)

AdmissionNext == (\E w \in Watcher : Watch(w)) \/ (\E s \in DOMAIN pins : GoesIdle(s))

AdmissionSpec == AdmissionInit /\ [][AdmissionNext]_admissionVars
                 /\ \A w \in Watcher : WF_admissionVars(Watch(w))

-----------------------------------------------------------------------------
(* However the ticks of several processes interleave, the table never holds   *)
(* more pins than max_shards, nor more of one source than its share.          *)
CapsHold ==
    /\ Cardinality(DOMAIN pins) <= max_shards
    /\ \A s \in DOMAIN pins : Cardinality(FromSource(pins[s])) <= max_shards_per_source

=============================================================================
