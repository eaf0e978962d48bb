----------------------------- MODULE CrossShard -----------------------------
(* Roots over many shards: chain/src/cross_shard.rs and server/src/            *)
(* cross_shard.rs.  A node asks every shard it knows of for its head, checks   *)
(* each under the owner's keys, and answers with a root over those that        *)
(* verified and the names of those that did not.  Keys come from the core      *)
(* ledger, which this node mirrors behind its author and partly without        *)
(* payloads; shards grow and keys change while a request is gathering.         *)
(*                                                                           *)
(* A hash is the value it is a hash of, so a root is the sequence of its       *)
(* leaves.  Witness cosignatures of a head are one bit: a majority or not.     *)
EXTENDS Naturals, Sequences, FiniteSets, SequencesExt

CONSTANTS Shard, OwnShard,        \* shards; the one this node authors
          Core,                   \* the shard whose key is pinned
          ownerOf,                \* [Shard \ {Core} -> Owner]: shard_authority
          Owner, Key,
          CoreKey,                \* the pinned key
          shardRank,              \* [Shard -> Nat]: byte order of the ids
          StaticKeys,             \* [Shard -> SUBSET Key]: AVALON_SHARD_VERIFY_KEYS
          Configured,             \* shards of AVALON_KNOWN_SHARDS
          MAX_FAMILY_MEMBERS,
          Request,                \* requests of one run
          Scene,                  \* where a behaviour starts: [log, requests, asks, events]
          MaxSize                 \* bound: entries of a shard

ASSUME CrossShardAssumption ==
    /\ OwnShard \in Shard /\ Core \in Shard /\ Configured \subseteq Shard
    /\ MAX_FAMILY_MEMBERS \in Nat \ {0}

VARIABLES registry,   \* shards with a gossiped URL
          tip,        \* [Shard -> [size, key, majority]]: the head a shard serves
          coreLog,    \* issuer events: [kind, owner, key, purpose]
          mirror,     \* what this node mirrors of it: [event, payload]
          gather,     \* [Request -> what it is about and has so far]
          scene       \* bounds: what is asked, and the key events there may be

crossVars == <<registry, tip, coreLog, mirror, gather, scene>>

NoHead == [size |-> 0, key |-> CoreKey, majority |-> FALSE]
Waiting == [phase |-> "waiting"]

CrossInit ==
    /\ registry \in SUBSET (Shard \ Configured)
    /\ tip = [s \in Shard |-> NoHead]
    /\ scene \in Scene
    /\ coreLog = scene.log
    /\ mirror = [i \in DOMAIN coreLog |-> [event |-> coreLog[i], payload |-> TRUE]]
    /\ gather = [r \in Request |-> IF r \in scene.requests THEN Waiting ELSE [phase |-> "unused"]]

-----------------------------------------------------------------------------
(* Around the node: gossip, the shards' authors, the core ledger, the mirror.  *)
Gossip(s) ==
    /\ s \notin Configured
    /\ registry' = registry \cup {s} \/ registry' = registry \ {s}
    /\ UNCHANGED <<tip, coreLog, mirror, gather, scene>>

(* A shard's author signs its next head; of its own shard this node never      *)
(* checks the key, nor the cosignatures.                                       *)
SignTip(s, k) ==
    /\ tip[s].size < MaxSize
    /\ s \in {Core, OwnShard} => k = CoreKey
    /\ tip' = [tip EXCEPT ![s] = [size |-> @.size + 1, key |-> k, majority |-> FALSE]]
    /\ UNCHANGED <<registry, coreLog, mirror, gather, scene>>

(* A majority of the witnesses this node knows has cosigned the head.          *)
Cosign(s) ==
    /\ s # OwnShard /\ tip[s].size > 0 /\ ~tip[s].majority
    /\ tip' = [tip EXCEPT ![s].majority = TRUE]
    /\ UNCHANGED <<registry, coreLog, mirror, gather, scene>>

Registered(o) == [kind |-> "game.registered", owner |-> o, key |-> CoreKey, purpose |-> "attestation"]
Added(o, k, p) == [kind |-> "issuer.key_added", owner |-> o, key |-> k, purpose |-> p]
Revoked(o, k) == [kind |-> "issuer.key_revoked", owner |-> o, key |-> k, purpose |-> "attestation"]

IssuerEvent(e) ==
    /\ Len(coreLog) < scene.events
    /\ e \notin Range(coreLog)
    /\ e.kind # "game.registered" => Registered(e.owner) \in Range(coreLog)
    /\ e.kind = "issuer.key_revoked" =>
         \E a \in Range(coreLog) : a.kind = "issuer.key_added" /\ a.owner = e.owner /\ a.key = e.key
    /\ coreLog' = Append(coreLog, e)
    /\ UNCHANGED <<registry, tip, mirror, gather, scene>>

(* The mirror stores the next entry, without its payload when the source has    *)
(* pruned it.                                                                   *)
Backfill(payload) ==
    /\ Len(mirror) < Len(coreLog)
    /\ mirror' = Append(mirror, [event |-> coreLog[Len(mirror) + 1], payload |-> payload])
    /\ UNCHANGED <<registry, tip, coreLog, gather, scene>>

-----------------------------------------------------------------------------
(* Keys.                                                                      *)
Readable == {m.event : m \in {n \in Range(mirror) : n.payload}}

(* Mutant: revocations are looked for ahead of the key only.                   *)
derive_shard_authorityLate(o) ==
    IF Registered(o) \notin Readable THEN {}
    ELSE {k \in Key :
            \E i \in DOMAIN mirror :
               /\ mirror[i].payload /\ mirror[i].event = Added(o, k, "shard_settlement")
               /\ ~\E j \in 1 .. i : mirror[j].payload /\ mirror[j].event = Revoked(o, k)}

derive_shard_authority(o) ==
    IF Registered(o) \notin Readable THEN {}
    ELSE {k \in Key : Added(o, k, "shard_settlement") \in Readable /\ Revoked(o, k) \notin Readable}

resolve_shard_verify_keys_from_db(s) ==
    IF s = Core THEN {} ELSE derive_shard_authority(ownerOf[s])

pinned_core_verify_key(s) == IF s = Core THEN {CoreKey} ELSE {}

Candidates(s) ==
    resolve_shard_verify_keys_from_db(s) \cup StaticKeys[s] \cup pinned_core_verify_key(s)

-----------------------------------------------------------------------------
(* Roots.                                                                     *)

canonical_order(heads) == SortSeq(heads, LAMBDA a, b : shardRank[a.shard] < shardRank[b.shard])

Leaves(heads) == [i \in DOMAIN canonical_order(heads) |-> canonical_order(heads)[i]]

Ids(heads) == {h.shard : h \in Range(heads)}

compute_cross_shard_root_checked(known, heads) ==
    [root |-> Leaves(heads), shards |-> heads, missing |-> known \ Ids(heads), proof |-> 0]

is_family_member(o, s) == s # Core /\ ownerOf[s] = o

family_members(o, heads) == SelectSeq(heads, LAMBDA h : is_family_member(o, h.shard))

compute_shard_family_head(o, known, heads) ==
    [root |-> Leaves(family_members(o, heads)),
     shards |-> canonical_order(family_members(o, heads)),
     missing |-> {s \in known : is_family_member(o, s)} \ Ids(heads), proof |-> 0]

(* Where the member's leaf is in the family's tree; 0 when it has none.        *)
family_inclusion_proof(o, heads, s) ==
    LET members == canonical_order(family_members(o, heads))
    IN IF s \in Ids(members) THEN CHOOSE i \in DOMAIN members : members[i].shard = s ELSE 0

-----------------------------------------------------------------------------
(* A request: about is Shard's whole network or one owner, member a shard whose *)
(* inclusion is to be proved.                                                   *)
Keep(about, s) == about = "network" \/ is_family_member(about, s)

combined_shard_urls == Configured \cup registry

scoped_shard_urls(about) == {s \in combined_shard_urls \ {OwnShard} : Keep(about, s)}

ensure_family_bound(n) == n + 1 <= MAX_FAMILY_MEMBERS

Ask(r, about, member) ==
    LET asked == scoped_shard_urls(about)
    IN /\ gather[r] = Waiting /\ <<about, member>> \in scene.asks
       /\ gather' = [gather EXCEPT ![r] =
            IF about # "network" /\ ~ensure_family_bound(Cardinality(asked))
            THEN [phase |-> "refused"]
            ELSE [phase |-> "gathering", about |-> about, member |-> member,
                  todo |-> asked, known |-> asked, heads |-> <<>>,
                  at |-> OwnShard, keys |-> {}, readable |-> Readable]]
       /\ UNCHANGED <<registry, tip, coreLog, mirror, scene>>

Gathering(r) == gather[r].phase = "gathering" /\ gather[r].at = OwnShard

(* The next shard, in no particular order: its keys are resolved first, and it  *)
(* is left out when there are none.                                             *)
ResolveKeys(r, s) ==
    /\ Gathering(r) /\ s \in gather[r].todo
    /\ gather' = [gather EXCEPT ![r].todo = @ \ {s},
                                ![r].keys = Candidates(s),
                                ![r].at = IF Candidates(s) = {} THEN OwnShard ELSE s]
    /\ UNCHANGED <<registry, tip, coreLog, mirror, scene>>

(* Its head is fetched and checked; any failure leaves it out.                  *)
Verified(r) ==
    LET h == tip[gather[r].at] IN h.size > 0 /\ h.key \in gather[r].keys /\ h.majority

FetchHead(r) ==
    /\ gather[r].phase = "gathering" /\ gather[r].at # OwnShard
    /\ \/ /\ Verified(r)
          /\ gather' = [gather EXCEPT
               ![r].heads = Append(@, [shard |-> gather[r].at, head |-> tip[gather[r].at]]),
               ![r].at = OwnShard]
       \/ gather' = [gather EXCEPT ![r].at = OwnShard]
    /\ UNCHANGED <<registry, tip, coreLog, mirror, scene>>

(* This node's own shard, from its own ledger, when it has any history.         *)
OwnHead(r) ==
    IF Keep(gather[r].about, OwnShard) /\ tip[OwnShard].size > 0
    THEN <<[shard |-> OwnShard, head |-> tip[OwnShard]]>> ELSE <<>>

build_family_response(g, heads, known) ==
    LET i == IF g.member \in Shard THEN family_inclusion_proof(g.about, heads, g.member) ELSE 0
    IN IF g.member \in Shard /\ i = 0 THEN [phase |-> "not found"]
       ELSE [phase |-> "answered", about |-> g.about, member |-> g.member, known |-> g.known,
             readable |-> g.readable, own |-> tip[OwnShard].size > 0,
             result |-> [compute_shard_family_head(g.about, known, heads) EXCEPT !.proof = i]]

(* GET /integrations/{slug}/shards: the same family, without a proof.           *)
build_shards_response(g, heads, known) == build_family_response([g EXCEPT !.member = "none"], heads, known)

Respond(r) ==
    LET g == gather[r]
        heads == g.heads \o OwnHead(r)
        known == g.known \cup Ids(OwnHead(r))
    IN /\ Gathering(r) /\ g.todo = {}
       /\ gather' = [gather EXCEPT ![r] =
            IF g.member = "list" THEN build_shards_response(g, heads, known)
            ELSE IF g.about # "network" THEN build_family_response(g, heads, known)
            ELSE [phase |-> "answered", about |-> g.about, member |-> g.member, known |-> g.known,
                  readable |-> g.readable, own |-> tip[OwnShard].size > 0,
                  result |-> compute_cross_shard_root_checked(known, heads)]]
       /\ UNCHANGED <<registry, tip, coreLog, mirror, scene>>

CrossNext ==
    \/ \E s \in Shard : Gossip(s) \/ Cosign(s) \/ \E k \in Key \cup {CoreKey} : SignTip(s, k)
    \/ \E o \in Owner :
          \/ IssuerEvent(Registered(o))
          \/ \E k \in Key : \/ IssuerEvent(Revoked(o, k))
                            \/ \E p \in {"attestation", "shard_settlement"} : IssuerEvent(Added(o, k, p))
    \/ \E payload \in BOOLEAN : Backfill(payload)
    \/ \E r \in Request :
          \/ Ask(r, "network", "none")
          \/ \E o \in Owner, m \in Shard \cup {"none", "list"} : Ask(r, o, m)
          \/ \E s \in Shard : ResolveKeys(r, s)
          \/ FetchHead(r) \/ Respond(r)

CrossSpec == CrossInit /\ [][CrossNext]_crossVars

-----------------------------------------------------------------------------
Answers == {gather[r] : r \in {q \in Request : gather[q].phase = "answered"}}

(* No head enters a root under a key whose revocation the node could read when  *)
(* it was asked, unless that key is configured or pinned; nor under a key of    *)
(* another owner or purpose (derive_shard_authority).                           *)
RootsTrustLiveKeys ==
    \A a \in Answers : \A h \in Range(a.result.root) :
       \/ h.shard = OwnShard
       \/ h.head.key \in StaticKeys[h.shard] \cup pinned_core_verify_key(h.shard)
       \/ /\ Added(ownerOf[h.shard], h.head.key, "shard_settlement") \in Readable
          /\ Revoked(ownerOf[h.shard], h.head.key) \notin a.readable

=============================================================================
