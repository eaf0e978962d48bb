---------------------------- MODULE ShardDirectory ----------------------------
(* Which shards a node knows of and whether its own may take new identities:   *)
(* ShardRegistry and validated_shards in nodes.rs, the replication worker and  *)
(* gate in replication.rs, the gate's use in handlers.rs.                      *)
(*                                                                           *)
(* Time is counted in announce rounds, as ages: last_seen_at, first_seen_at    *)
(* and confirmed_at are the rounds since, and stop growing where the code no   *)
(* longer tells them apart.  A shard URL is a pair; the lists that peers       *)
(* gossip, and the hosts that do not resolve, are fixed.                       *)
EXTENDS Naturals, FiniteSets, FiniteSetsExt, Sequences, SequencesExt

CONSTANTS Peer,                      \* peers this node exchanges announces with
          Mirrors,                   \* peers in its table the replication worker asks
          OwnShard, OwnUrl,
          P2pUrl,                    \* p2p:// URLs
          DeadUrl,                   \* URLs whose host does not resolve
          Lists,                     \* [Peer -> sequence of <<shard, url>>]
          RelayedAges,               \* ages peers put on their entries
          ShardPruneAfter, Grace, Window, \* rounds
          min_confirmations, MAX_P2P_SHARD_URLS_TOTAL, MAX_P2P_SHARD_URLS_PER_EXCHANGE,
          max_new_shard_urls_per_exchange, max_failed_lookups,
          CursorBound,               \* bound: the cursor counts modulo this
          MaxRestarts                \* bound: restarts of the process

VARIABLES shards,          \* <<shard, url>> -> age of last_seen_at
          first_seen,      \* shard -> age
          shard_cursor,
          exchange,        \* peer -> the exchange with it that is going on
          confirmations,   \* peers confirming OwnShard -> age
          asked,           \* peers the replication worker has yet to ask
          mirroring,       \* peers that mirror OwnShard
          mirrored,        \* rounds since each peer last did
          accepted,        \* whether the last registration let in was backed
          restarts,
          examined         \* URLs that were looked up at least once

shardVars == <<shards, first_seen, shard_cursor, exchange, confirmations, asked, mirroring,
               mirrored, accepted, restarts, examined>>

Entries == UNION {Range(Lists[p]) : p \in Peer}
Own == <<OwnShard, OwnUrl>>
Cap(n, top) == IF n < top THEN n ELSE top
Known(s) == {e[1] : e \in DOMAIN s}

Empty == <<>>
Put(f, k, v) == [x \in DOMAIN f \cup {k} |-> IF x = k THEN v ELSE f[x]]

ShardInit ==
    /\ shards = Empty /\ first_seen = Empty /\ shard_cursor = 0
    /\ exchange = Empty
    /\ confirmations = Empty /\ asked = {}
    /\ mirroring \in SUBSET Mirrors
    /\ mirrored = [p \in Mirrors |-> IF p \in mirroring THEN 0 ELSE Window + 1]
    /\ accepted = TRUE /\ restarts = 0 /\ examined = {}

-----------------------------------------------------------------------------

(* Past the cap, the oldest p2p:// URLs (ties broken by name).                *)
Surplus(s) ==
    LET p2p == {e \in DOMAIN s : e[2] \in P2pUrl}
    IN IF Cardinality(p2p) <= MAX_P2P_SHARD_URLS_TOTAL THEN {{}}
       ELSE {X \in SUBSET p2p :
               /\ Cardinality(X) = Cardinality(p2p) - MAX_P2P_SHARD_URLS_TOTAL
               /\ \A e \in X : \A d \in p2p \ X : s[e] >= s[d]}

(* first_seen only ever moves back.                                           *)
Earliest(old, new) ==
    [s \in DOMAIN old \cup DOMAIN new |->
       IF s \notin DOMAIN old THEN new[s]
       ELSE IF s \notin DOMAIN new THEN old[s] ELSE Max({old[s], new[s]})]

(* ShardRegistry::merge of entries with their ages.                           *)
merge(incoming) ==
    LET merged == [e \in DOMAIN shards \cup DOMAIN incoming |->
                     IF e \notin DOMAIN incoming THEN shards[e]
                     ELSE IF e \notin DOMAIN shards THEN incoming[e]
                     ELSE Min({shards[e], incoming[e]})]
        oldest == [s \in Known(incoming) |->
                     Cap(Max({incoming[e] : e \in {d \in DOMAIN incoming : d[1] = s}}), Grace)]
    IN /\ first_seen' = Earliest(first_seen, oldest)
       /\ \E gone \in Surplus(merged) : shards' = [e \in DOMAIN merged \ gone |-> merged[e]]

-----------------------------------------------------------------------------
(* validated_shards over the list of p, from where its exchange starts: known  *)
(* pairs are kept, unseen p2p URLs too, unseen hosts are looked up until       *)
(* enough were examined or enough lookups failed.  Positions in that order.    *)
Order(p) ==
    [i \in 1 .. Len(Lists[p]) |-> Lists[p][((exchange[p].start + i - 1) % Len(Lists[p])) + 1]]

Unseen(list) ==
    {i \in DOMAIN list :
        /\ list[i] \notin DOMAIN shards
        /\ Cardinality({j \in 1 .. i - 1 : list[j] \notin DOMAIN shards}) < max_new_shard_urls_per_exchange}

Dead(list) == {i \in Unseen(list) : list[i][2] \in DeadUrl}

LookedUp(list) ==
    {i \in Unseen(list) : /\ list[i][2] \notin P2pUrl
                          /\ Cardinality({j \in Dead(list) : j < i}) < max_failed_lookups}

Kept(list) ==
    {i \in DOMAIN list : \/ list[i] \in DOMAIN shards
                         \/ /\ i \in Unseen(list) /\ list[i][2] \in P2pUrl
                            /\ Cardinality({j \in Unseen(list) : j < i /\ list[j][2] \in P2pUrl})
                                 < MAX_P2P_SHARD_URLS_PER_EXCHANGE
                         \/ i \in LookedUp(list) \ Dead(list)}

StartExchange(p) ==
    /\ p \notin DOMAIN exchange
    /\ exchange' = Put(exchange, p, [at |-> "examine", start |-> shard_cursor % Len(Lists[p])])
    /\ UNCHANGED <<shards, first_seen, shard_cursor, confirmations, asked, mirroring, mirrored, accepted, restarts, examined>>

(* Mutant: every exchange starts over.                                        *)
AdvanceNot(n) == shard_cursor' = shard_cursor

Advance(n) == shard_cursor' = (shard_cursor + n) % CursorBound

validated_shards(p) ==
    /\ p \in DOMAIN exchange /\ exchange[p].at = "examine"
    /\ LET list == Order(p)
       IN /\ exchange' = [exchange EXCEPT ![p] = [at |-> "merge", kept |-> {list[i] : i \in Kept(list)}]]
          /\ Advance(Max({0} \cup LookedUp(list)))
          /\ examined' = examined \cup {list[i] : i \in LookedUp(list)}
    /\ UNCHANGED <<shards, first_seen, confirmations, asked, mirroring, mirrored, accepted, restarts>>

FinishExchange(p) ==
    /\ p \in DOMAIN exchange /\ exchange[p].at = "merge"
    /\ \E age \in RelayedAges : merge([e \in exchange[p].kept |-> age])
    /\ exchange' = [q \in DOMAIN exchange \ {p} |-> exchange[q]]
    /\ UNCHANGED <<shard_cursor, confirmations, asked, mirroring, mirrored, accepted, restarts, examined>>

Exchange(p) == StartExchange(p) \/ validated_shards(p) \/ FinishExchange(p)

-----------------------------------------------------------------------------
(* prune_older_than: a shard that loses its last URL loses its age as well.    *)
Pruned(s) == {e \in DOMAIN s : s[e] <= ShardPruneAfter}

(* A round of the announce worker: it records its own shard and prunes.        *)
AnnounceRound ==
    LET aged == [e \in DOMAIN shards \cup {Own} |-> IF e = Own THEN 0 ELSE shards[e] + 1]
        left == Pruned(aged)
        older == [s \in DOMAIN first_seen |-> Cap(first_seen[s] + 1, Grace)]
        seenNow == Earliest(older, [s \in {OwnShard} |-> 0])
    IN /\ shards' = [e \in left |-> aged[e]]
       /\ first_seen' = [s \in DOMAIN seenNow \ (Known(aged) \ {e[1] : e \in left}) |-> seenNow[s]]
       /\ confirmations' = [p \in DOMAIN confirmations |-> Cap(confirmations[p] + 1, Window + 1)]
       /\ mirrored' = [p \in Mirrors |-> IF p \in mirroring THEN 0 ELSE Cap(mirrored[p] + 1, Window + 1)]
       /\ UNCHANGED <<shard_cursor, exchange, asked, mirroring, accepted, restarts, examined>>

(* The process starts again: none of the tables is durable.                   *)
Restart ==
    /\ restarts < MaxRestarts /\ restarts' = restarts + 1
    /\ shards' = Empty /\ first_seen' = Empty /\ confirmations' = Empty /\ asked' = {}
    /\ shard_cursor' = 0 /\ exchange' = Empty
    /\ UNCHANGED <<mirroring, mirrored, accepted, examined>>

(* A peer starts or stops mirroring this node's shard.                        *)
PeerChanges(p) ==
    /\ mirroring' = (mirroring \cup {p}) \ (mirroring \cap {p})
    /\ mirrored' = [mirrored EXCEPT ![p] = 0]
    /\ UNCHANGED <<shards, first_seen, shard_cursor, exchange, confirmations, asked, accepted, restarts, examined>>

-----------------------------------------------------------------------------
(* The replication worker asks each peer it knew when the pass began.          *)
StartPass ==
    /\ asked = {}
    /\ asked' = Mirrors
    /\ UNCHANGED <<shards, first_seen, shard_cursor, exchange, confirmations, mirroring, mirrored, accepted, restarts, examined>>

record_confirmation(p) == Put(confirmations, p, 0)

(* GET /ledger/mirror-progress; a peer that does not answer does not confirm.  *)
(* The last answer of a pass is followed by the prune.                         *)
peer_confirms_mirroring(p) ==
    /\ p \in asked
    /\ asked' = asked \ {p}
    /\ LET now == IF p \in mirroring THEN record_confirmation(p) ELSE confirmations
           left == IF asked = {p} THEN {q \in DOMAIN now : now[q] <= Window} ELSE DOMAIN now
       IN confirmations' = [q \in left |-> now[q]]
    /\ UNCHANGED <<shards, first_seen, shard_cursor, exchange, mirroring, mirrored, accepted, restarts, examined>>

within_grace_period == OwnShard \in DOMAIN first_seen => first_seen[OwnShard] < Grace

confirmed_count == Cardinality({p \in DOMAIN confirmations : confirmations[p] <= Window})

registration_eligible == within_grace_period \/ confirmed_count >= min_confirmations

(* POST /identities/register/start on an authoring node.                      *)
register_start ==
    /\ registration_eligible
    /\ accepted' = (within_grace_period
                      \/ Cardinality({p \in Mirrors : mirrored[p] <= Window}) >= min_confirmations)
    /\ UNCHANGED <<shards, first_seen, shard_cursor, exchange, confirmations, asked, mirroring, mirrored, restarts, examined>>

ShardNext ==
    \/ \E p \in Peer : Exchange(p)
    \/ \E p \in Mirrors : PeerChanges(p) \/ peer_confirms_mirroring(p)
    \/ AnnounceRound \/ Restart \/ StartPass \/ register_start

(* Peers announce and are announced to every interval, and an exchange has a   *)
(* time budget.                                                                *)
ShardSpec == ShardInit /\ [][ShardNext]_shardVars /\ \A p \in Peer : WF_shardVars(Exchange(p))

-----------------------------------------------------------------------------

(* A URL that a peer keeps announcing is looked up in the end, whatever dead    *)
(* URLs come before it in the list ("so dead entries at the head of one list    *)
(* cannot keep the rest from ever being examined", peer_admission.rs:190).      *)
EveryUrlIsExamined ==
    \A e \in Entries : e[2] \notin P2pUrl => <>(e \in examined)
=============================================================================
