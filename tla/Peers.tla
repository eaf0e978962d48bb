-------------------------------- MODULE Peers --------------------------------
(* The peer table of a node: nodes.rs (PeerTable, POST /nodes/announce and    *)
(* the announce worker), neighbors.rs and peer_admission.rs.  Concurrent      *)
(* announces, the worker and libp2p connections work on one table and one     *)
(* pool of peers that were only gossiped.                                     *)
(*                                                                           *)
(* A peer is its base URL; an entry is the libp2p id it names, whether the    *)
(* URL's own server vouched for it (identity_bound), its witness advert, and  *)
(* the rounds since last_announced_at.  Versions, networks, roles, addresses, *)
(* coordinates and the limits per source are left out: they refuse requests.  *)
EXTENDS Naturals, FiniteSets, FiniteSetsExt, Functions

CONSTANTS Http, P2p,        \* base URLs of the two kinds
          PeerIds, NoId,    \* libp2p ids; a p2p:// URL is its own id
          FirstId,          \* the id HTTP servers run under at first
          Bootstrap,        \* AVALON_BOOTSTRAP_PEERS
          AnnounceCall, Announces, \* call slots, and the announces they may carry
          Relayed,          \* entries that peers gossip
          max_known_peers, MAX_P2P_ENTRIES, max_peers, MAX_UNVERIFIED_PEERS,
          PruneAfter,       \* rounds after which a peer that is not heard of goes
          MaxFails          \* bound: contacts that fail

VARIABLES peers, unverified,
          active, inbound,  \* the neighbor table
          serves,           \* the id the server of each URL runs under
          announces, worker, fails,
          reported          \* what this node has seen for itself

peerVars == <<peers, unverified, active, inbound, serves, announces, worker, fails,
              reported>>

Url == Http \cup P2p
AnyId == PeerIds \cup P2p \cup {NoId}
PeerEntry == [id : AnyId, bound : BOOLEAN, advert : {"none", "relayed", "direct"}, age : Nat]

(* What arrives is unbound: neither request carries identity_bound.           *)
ASSUME PeerAssumption ==
    /\ Http \cap P2p = {} /\ FirstId \in PeerIds
    /\ \A a \in Announces : a.url \in Url /\ a.info \in PeerEntry
    /\ \A r \in Relayed : r.url \in Url /\ r.info \in PeerEntry /\ ~r.info.bound

Keep(t, S) == [u \in DOMAIN t \cap S |-> t[u]]
Without(t, u) == Keep(t, DOMAIN t \ {u})
Insert(t, u, info) == [v \in DOMAIN t \cup {u} |-> IF v = u THEN info ELSE t[v]]

PeerInit ==
    /\ peers = <<>> /\ unverified = <<>>
    /\ active = Bootstrap /\ inbound = {}
    /\ serves = [u \in Url |-> IF u \in P2p THEN u ELSE FirstId]
    /\ announces \in [AnnounceCall -> {[at |-> "begin", info |-> a.info, url |-> a.url,
                                        authenticated |-> a.authenticated] : a \in Announces}]
    /\ worker = [at |-> "round", left |-> {}]
    /\ fails = 0
    /\ reported = [u \in Url |-> {}]

-----------------------------------------------------------------------------

contains(u) == u \in DOMAIN peers

(* The rules for writing an entry over one that is there.                     *)
carry_witness(t, u, info) ==
    IF u \in DOMAIN t /\ (info.advert = "none" \/ t[u].advert = "direct")
    THEN [info EXCEPT !.advert = t[u].advert] ELSE info

carry_identity(t, u, info) ==
    IF u \in DOMAIN t /\ t[u].bound /\ ~info.bound
    THEN [info EXCEPT !.id = t[u].id, !.bound = TRUE] ELSE info

upsert(t, u, info) == Insert(t, u, carry_identity(t, u, carry_witness(t, u, info)))

KeepTime(t, u, info) == IF u \in DOMAIN t THEN [info EXCEPT !.age = t[u].age] ELSE info

upsert_relayed(t, u, info) == upsert(t, u, KeepTime(t, u, info))

Attach(t, u, advert) ==
    IF u \in DOMAIN t /\ (advert = "direct" \/ (advert = "relayed" /\ t[u].advert # "direct"))
    THEN [t EXCEPT ![u].advert = advert] ELSE t

(* To the listed entry t holds or, when there is none, to the one in the pool.*)
attach_witness(t, u, advert) ==
    /\ peers' = Attach(t, u, advert)
    /\ unverified' = IF u \in DOMAIN t THEN unverified ELSE Attach(unverified, u, advert)

(* Who goes: p2p entries first, then the one not heard of for longest.        *)
oldest(t, kept, only_p2p) ==
    LET open == {u \in DOMAIN t \ kept : only_p2p => u \in P2p}
        first == IF open \cap P2p # {} THEN open \cap P2p ELSE open
    IN {u \in first : \A v \in first : t[v].age <= t[u].age}

(* The ways to make room; none when nothing may go.                           *)
Room(t, full, kept, only_p2p) ==
    IF full THEN {Without(t, v) : v \in oldest(t, kept, only_p2p)} ELSE {t}

insert_bounded(t, u, info) ==
    LET new == u \notin DOMAIN t
        kept == active \cup Bootstrap
        entry == carry_identity(t, u, carry_witness(t, u, info))
        crowded == new /\ u \in P2p /\ Cardinality(DOMAIN t \cap P2p) >= MAX_P2P_ENTRIES
    IN {Insert(s, u, entry) :
          s \in UNION {Room(r, new /\ Cardinality(DOMAIN r) >= max_known_peers, kept, u \in P2p)
                         : r \in Room(t, crowded, kept, TRUE)}}

insert_unverified(pool, u, info) ==
    LET new == u \notin DOMAIN pool
        entry == carry_witness(pool, u, info)
        rooms == Room(pool, new /\ Cardinality(DOMAIN pool) >= MAX_UNVERIFIED_PEERS, {}, u \in P2p)
    IN IF rooms = {} THEN {pool} ELSE {Insert(r, u, entry) : r \in rooms}

(* bind_if_p2p_url_names_peer: the handshake proved the id in the URL.        *)
BindP2p(u, info) ==
    IF u \in P2p /\ info.id = u THEN [info EXCEPT !.bound = TRUE, !.advert = "none"] ELSE info

-----------------------------------------------------------------------------
(* POST /nodes/announce.                                                      *)
Announce(c, at) ==
    announces' = [announces EXCEPT ![c] = [announces[c] EXCEPT !.at = at]]

note_inbound(u) == inbound' = inbound \cup {u}

(* The libp2p handshake proved the id that the p2p:// URL names.              *)
ProvenP2p(a) == a.url \in P2p /\ a.authenticated /\ a.info.id = a.url

(* A p2p:// announce that names another id is refused; one over plain HTTP    *)
(* stores nothing.                                                            *)
classify_p2p_announce(c) ==
    /\ announces[c].at = "begin"
    /\ announces[c].url \in P2p /\ ~ProvenP2p(announces[c])
    /\ Announce(c, "end")
    /\ UNCHANGED <<peers, unverified, active, inbound, serves, worker, fails, reported>>

(* store_authenticated_p2p_announcer: the table is asked first and written    *)
(* after.                                                                     *)
LookUpAnnouncer(c) ==
    LET a == announces[c]
    IN /\ a.at = "begin"
       /\ a.url \in Http \/ ProvenP2p(a)
       /\ Announce(c, IF contains(a.url) THEN "known" ELSE "new")
       /\ UNCHANGED <<peers, unverified, active, inbound, serves, worker, fails, reported>>

StoreP2p(c) ==
    LET a == announces[c]
        info == [a.info EXCEPT !.bound = TRUE]
        stored == IF a.at = "known" THEN {upsert(peers, a.url, info)}
                  ELSE insert_bounded(peers, a.url, info)
    IN /\ a.at \in {"known", "new"} /\ a.url \in P2p
       /\ Announce(c, "end")
       /\ IF stored = {} THEN UNCHANGED <<peers, unverified, inbound, reported>>
          ELSE /\ peers' \in stored
               /\ unverified' = IF a.at = "new" THEN Without(unverified, a.url) ELSE unverified
               /\ note_inbound(a.url)
               /\ reported' = [reported EXCEPT ![a.url] = @ \cup {a.url}]
       /\ UNCHANGED <<active, serves, worker, fails>>

(* rebind_existing: a known URL that names another id than the bound one is   *)
(* asked for its id; without an answer that agrees only its advert is kept.   *)
Differs(u, id) == u \in DOMAIN peers /\ peers[u].bound /\ id # NoId /\ id # peers[u].id

RebindStart(c) ==
    LET a == announces[c]
    IN /\ a.at = "known" /\ a.url \in Http
       /\ IF Differs(a.url, a.info.id)
          THEN Announce(c, "asking") /\ UNCHANGED <<peers, unverified>>
          ELSE Announce(c, "end") /\ attach_witness(peers, a.url, a.info.advert)
       /\ UNCHANGED <<active, inbound, serves, worker, fails, reported>>

rebind_existing(c) ==
    LET a == announces[c]
        u == a.url
        proven == serves[u] = a.info.id
    IN /\ a.at = "asking"
       /\ Announce(c, IF proven THEN "proven" ELSE "end")
       /\ reported' = [reported EXCEPT ![u] = @ \cup {serves[u]}]
       /\ IF proven THEN UNCHANGED <<peers, unverified>> ELSE attach_witness(peers, u, a.info.advert)
       /\ UNCHANGED <<active, inbound, serves, worker, fails>>

StoreProven(c) ==
    LET a == announces[c]
    IN /\ a.at = "proven"
       /\ Announce(c, "end")
       /\ peers' = upsert(peers, a.url, [a.info EXCEPT !.bound = TRUE])
       /\ note_inbound(a.url)
       /\ UNCHANGED <<unverified, active, serves, worker, fails, reported>>

(* Mutant: the announced id is taken without asking the URL's own server.     *)
bind_or_blankTrusting(info, id) == [info EXCEPT !.bound = TRUE]

bind_or_blank(info, id) ==
    IF info.id = id THEN [info EXCEPT !.bound = TRUE]
    ELSE [info EXCEPT !.id = NoId, !.bound = FALSE]

(* admit_new_announcer: the URL must answer /nodes/status before it is stored.*)
VerifyReachable(c) ==
    LET a == announces[c]
    IN /\ a.at = "new" /\ a.url \in Http
       /\ \/ /\ fails < MaxFails /\ fails' = fails + 1
             /\ Announce(c, "end") /\ UNCHANGED reported
          \/ /\ reported' = [reported EXCEPT ![a.url] = @ \cup {serves[a.url]}]
             /\ announces' = [announces EXCEPT
                    ![c] = [a EXCEPT !.at = "reached", !.info = bind_or_blank(@, serves[a.url])]]
             /\ UNCHANGED fails
       /\ UNCHANGED <<peers, unverified, active, inbound, serves, worker>>

admit_new_announcer(c) ==
    LET a == announces[c]
        stored == insert_bounded(peers, a.url, a.info)
    IN /\ a.at = "reached"
       /\ Announce(c, "end")
       /\ IF stored = {} THEN UNCHANGED <<peers, unverified, inbound>>
          ELSE /\ peers' \in stored
               /\ unverified' = Without(unverified, a.url)
               /\ note_inbound(a.url)
       /\ UNCHANGED <<active, serves, worker, fails, reported>>

-----------------------------------------------------------------------------
(* The announce worker.                                                       *)
promote_urls(urls) ==
    {A \in SUBSET (active \cup urls) :
       /\ active \subseteq A
       /\ Cardinality(A) = Max({Cardinality(active),
                                Min({max_peers, Cardinality(active \cup urls)})})}

StartRound ==
    /\ worker.at = "round"
    /\ active' \in promote_urls(inbound)
    /\ inbound' = {}
    /\ worker' = [at |-> "contact", left |-> active']
    /\ UNCHANGED <<peers, unverified, serves, announces, fails, reported>>

(* announce_to_peer fails.                                                    *)
ContactFails(u) ==
    /\ worker.at = "contact" /\ u \in worker.left
    /\ fails < MaxFails /\ fails' = fails + 1
    /\ worker' = [worker EXCEPT !.left = @ \ {u}]
    /\ UNCHANGED <<peers, unverified, active, inbound, serves, announces, reported>>

(* promote_on_contact: the entry leaves the pool, then enters the table.      *)
promote_on_contact(u) ==
    /\ worker.at = "contact" /\ u \in worker.left
    /\ worker' = [at |-> "answered", left |-> worker.left \ {u}, peer |-> u,
                  id |-> serves[u], info |-> IF u \in DOMAIN unverified THEN {BindP2p(u, unverified[u])} ELSE {}]
    /\ unverified' = Without(unverified, u)
    /\ reported' = [reported EXCEPT ![u] = @ \cup {serves[u]}]
    /\ UNCHANGED <<peers, active, inbound, serves, announces, fails>>

(* admit_responder_node: what the server called says of itself; then its      *)
(* witness advert.                                                            *)
Responder == [id |-> worker.id, bound |-> TRUE, advert |-> "none", age |-> 0]

admit_responder_node ==
    LET u == worker.peer
        promoted == IF worker.info = {} \/ (u \in P2p /\ u \in DOMAIN peers) THEN {peers}
                    ELSE UNION {insert_bounded(peers, u, i) : i \in worker.info}
        base == IF promoted = {} THEN {peers} ELSE promoted
        stored == UNION {IF insert_bounded(t, u, Responder) = {} THEN {t}
                         ELSE insert_bounded(t, u, Responder) : t \in base}
    IN /\ worker.at = "answered"
       /\ \E t \in stored : attach_witness(t, u, "direct")
       /\ worker' = [at |-> "gossip", left |-> worker.left]
       /\ UNCHANGED <<active, inbound, serves, announces, fails, reported>>

(* merge_gossip of at most one entry: known ones are refreshed, unknown ones  *)
(* go to the pool; either may become a neighbor.                              *)
GossipNothing ==
    /\ worker.at = "gossip"
    /\ worker' = [worker EXCEPT !.at = "contact"]
    /\ UNCHANGED <<peers, unverified, active, inbound, serves, announces, fails, reported>>

GossipLookUp ==
    /\ worker.at = "gossip"
    /\ \E r \in Relayed :
         /\ r.url \in P2p => r.info.id = r.url
         /\ worker' = [at |-> IF contains(r.url) THEN "refresh" ELSE "pool",
                       left |-> worker.left, peer |-> r.url, info |-> {r.info}]
    /\ UNCHANGED <<peers, unverified, active, inbound, serves, announces, fails, reported>>

merge_gossip ==
    LET u == worker.peer
    IN /\ worker.at \in {"refresh", "pool"}
       /\ \E info \in worker.info :
            IF worker.at = "refresh"
            THEN /\ peers' = IF u \in P2p THEN peers ELSE upsert_relayed(peers, u, info)
                 /\ UNCHANGED unverified
            ELSE unverified' \in insert_unverified(unverified, u, info) /\ UNCHANGED peers
       /\ active' \in promote_urls({u})
       /\ worker' = [at |-> "contact", left |-> worker.left]
       /\ UNCHANGED <<inbound, serves, announces, fails, reported>>

(* vouch_contact: one listed witness that is no neighbor is asked for its     *)
(* advert.                                                                    *)
VouchTargets == {u \in DOMAIN peers \ active : peers[u].advert = "relayed"}

vouch_contact ==
    /\ worker.at = "contact" /\ worker.left = {}
    /\ IF VouchTargets = {} THEN UNCHANGED <<peers, unverified>>
       ELSE \E u \in VouchTargets : attach_witness(peers, u, "direct")
    /\ worker' = [worker EXCEPT !.at = "prune"]
    /\ UNCHANGED <<active, inbound, serves, announces, fails, reported>>

Aged(t) ==
    LET fresh == {u \in DOMAIN t : t[u].age < PruneAfter}
    IN [u \in fresh |-> [t[u] EXCEPT !.age = @ + 1]]

(* prune_older_than for both tables, and retain_reachable_active_peers; an    *)
(* interval passes.                                                           *)
EndRound ==
    /\ worker.at = "prune"
    /\ peers' = Aged(peers) /\ unverified' = Aged(unverified)
    /\ active' = {u \in active : u \in Bootstrap \cup DOMAIN peers' \cup DOMAIN unverified'}
    /\ worker' = [worker EXCEPT !.at = "round"]
    /\ UNCHANGED <<inbound, serves, announces, fails, reported>>

(* promote_unverified_by_libp2p_peer: a libp2p connection to the id came up.  *)
promote_unverified_by_libp2p_peer(u) ==
    /\ u \in DOMAIN unverified
    /\ LET info == BindP2p(u, unverified[u])
           stored == IF u \in P2p /\ u \in DOMAIN peers THEN {peers}
                     ELSE insert_bounded(peers, u, info)
       IN /\ info.id # NoId
          /\ info.id \in Range(serves)
          /\ peers' \in (IF stored = {} THEN {peers} ELSE stored)
    /\ unverified' = Without(unverified, u)
    /\ reported' = IF u \in P2p THEN [reported EXCEPT ![u] = @ \cup {u}] ELSE reported
    /\ UNCHANGED <<active, inbound, serves, announces, worker, fails>>

(* The operator of a node gives it another key.                               *)
NewKey(u) ==
    /\ fails < MaxFails /\ fails' = fails + 1
    /\ \E id \in PeerIds \ {serves[u]} : serves' = [serves EXCEPT ![u] = id]
    /\ UNCHANGED <<peers, unverified, active, inbound, announces, worker, reported>>

PeerWorker ==
    \/ StartRound \/ (\E u \in Url : promote_on_contact(u))
    \/ admit_responder_node \/ GossipNothing \/ GossipLookUp \/ merge_gossip
    \/ vouch_contact \/ EndRound

PeerNext ==
    \/ PeerWorker \/ \E u \in Url : ContactFails(u)
    \/ \E c \in AnnounceCall : \/ classify_p2p_announce(c) \/ LookUpAnnouncer(c) \/ StoreP2p(c)
                               \/ RebindStart(c) \/ rebind_existing(c) \/ StoreProven(c)
                               \/ VerifyReachable(c) \/ admit_new_announcer(c)
    \/ \E u \in Url : promote_unverified_by_libp2p_peer(u)
    \/ \E u \in Http : NewKey(u)

PeerSpec == PeerInit /\ [][PeerNext]_peerVars

-----------------------------------------------------------------------------

(* An entry marked identity_bound names an id that the URL's own server gave  *)
(* this node, or that a connection to it proved, whatever is announced and    *)
(* gossiped meanwhile; in the pool no entry is bound.                         *)
BoundIsVouched ==
    /\ \A u \in DOMAIN peers : peers[u].bound => peers[u].id \in reported[u]
    /\ \A u \in DOMAIN unverified : ~unverified[u].bound

=============================================================================
