------------------------------ MODULE Realtime ------------------------------
(* Live delivery: the interest registry and the worker that advertises it in *)
(* the DHT (interest.rs), the chat sockets and their bus (chat.rs), the      *)
(* single-hop relay between nodes (realtime_relay.rs) and the presence store *)
(* with its sockets (presence.rs).                                           *)
(*                                                                           *)
(* Nothing here is persisted.  The registry is three maps under three locks, *)
(* so a subscribe is several steps that other connections' steps may come    *)
(* between.  The scope is one channel.                                       *)
EXTENDS Integers, Sequences, FiniteSets, FiniteSetsExt

CONSTANTS RealtimeNode,   \* nodes, each with its own registry and bus
          ChatSocket,     \* chat connections over a behaviour
          NodeOf,         \* the node a connection is made to
          ChatMessage,    \* messages published over a behaviour
          RecordTtl,      \* RECORD_TTL in refresh intervals
          MaxLate,        \* refresh ticks a worker may be late by
          MaxTicks,       \* refresh intervals in a behaviour
          Publisher,      \* presence updates over a behaviour
          PresenceSocket, \* presence connections
          Capacity,       \* UPDATE_CHANNEL_CAPACITY
          RealtimeParts   \* "interest", "relay" or "presence": the part explored

VARIABLES rpart,
          sock,           \* chat connection -> [pc, claim]
          counts,         \* InterestRegistry.counts
          claims,         \* InterestRegistry.claims: node -> connection whose claim is stored
          local,          \* InterestRegistry.local
          signal,         \* nodes with an unread newly_active signal
          record,         \* DHT: node -> [claim, ttl] it put last
          advertised,     \* the node has put a record since the scope last became active
          late,           \* refresh ticks the node's worker has not served
          ticks,
          member,         \* connections whose identity is a member of the channel
          publishedAt,    \* messages published, and where
          relays,         \* relay POSTs in flight
          got,            \* connection -> messages delivered to it, in order
          presence,        \* PresenceStore.entries for one identity
          bus,            \* updates broadcast so far
          pub,            \* presence update -> its progress
          psock           \* presence connection -> [pc, cursor, visible, shown, lagged]

chatPart == <<sock, counts, claims, local, signal, record, advertised, late, ticks, member,
              publishedAt, relays, got>>
presencePart == <<presence, bus, pub, psock>>
realtimeVars == <<rpart, chatPart, presencePart>>

NoValue == "none"

-----------------------------------------------------------------------------
(* Subscribing and leaving.                                                  *)

(* Membership is checked and the claim verified, then the claim is stored.  *)
register_with_claim(k) ==
    /\ sock[k].pc = "closed"
    /\ member[k]
    /\ claims' = [claims EXCEPT ![NodeOf[k]] = k]
    /\ sock' = [sock EXCEPT ![k].pc = "claimed"]
    /\ UNCHANGED <<counts, local, signal, record, advertised, late, ticks, member, publishedAt, relays, got>>

bump(k) ==
    /\ sock[k].pc = "claimed"
    /\ LET n == NodeOf[k] IN
          /\ counts' = [counts EXCEPT ![n] = @ + 1]
          /\ signal' = IF counts[n] = 0 THEN signal \cup {n} ELSE signal
    /\ sock' = [sock EXCEPT ![k].pc = "bumped", ![k].guard = TRUE]
    /\ UNCHANGED <<claims, local, record, advertised, late, ticks, member, publishedAt, relays, got>>

(* A connection whose claim does not verify subscribes without a guard.     *)
track_local(k) ==
    /\ sock[k].pc \in {"closed", "bumped"}
    /\ sock[k].pc = "closed" => member[k]
    /\ local' = [local EXCEPT ![NodeOf[k]] = @ + 1]
    /\ sock' = [sock EXCEPT ![k].pc = "open", ![k].local = TRUE]
    /\ UNCHANGED <<counts, claims, signal, record, advertised, late, ticks, member, publishedAt, relays, got>>

DropLocal(k) ==
    /\ sock[k].pc = "open"
    /\ local' = [local EXCEPT ![NodeOf[k]] = @ - 1]
    /\ sock' = [sock EXCEPT ![k].pc = "closing", ![k].local = FALSE]
    /\ UNCHANGED <<counts, claims, signal, record, advertised, late, ticks, member, publishedAt, relays, got>>

(* InterestGuard::drop removes the claim under the counts lock.             *)
DropGuard(k) ==
    /\ sock[k].pc = "closing"
    /\ sock' = [sock EXCEPT ![k].pc = "gone", ![k].guard = FALSE]
    /\ IF sock[k].guard
       THEN LET n == NodeOf[k] IN
              /\ counts' = [counts EXCEPT ![n] = @ - 1]
              /\ claims' = IF counts[n] = 1 THEN [claims EXCEPT ![n] = NoValue] ELSE claims
              /\ advertised' = IF counts[n] = 1 THEN advertised \ {n} ELSE advertised
       ELSE UNCHANGED <<counts, claims, advertised>>
    /\ UNCHANGED <<local, signal, record, late, ticks, member, publishedAt, relays, got>>

MembershipLost(k) ==
    /\ member[k]
    /\ member' = [member EXCEPT ![k] = FALSE]
    /\ UNCHANGED <<sock, counts, claims, local, signal, record, advertised, late, ticks, publishedAt, relays, got>>

-----------------------------------------------------------------------------
(* interest::run_worker: puts at once when signalled, and on every refresh.  *)

dht_value(n) == claims[n]

PutRecord(n) ==
    IF dht_value(n) = NoValue
    THEN UNCHANGED <<record, advertised>>
    ELSE /\ record' = [record EXCEPT ![n] = [claim |-> dht_value(n), ttl |-> RecordTtl]]
         /\ advertised' = IF counts[n] > 0 THEN advertised \cup {n} ELSE advertised

NewlyActive(n) ==
    /\ n \in signal
    /\ signal' = signal \ {n}
    /\ PutRecord(n)
    /\ UNCHANGED <<sock, counts, claims, local, late, ticks, member, publishedAt, relays, got>>

Refresh(n) ==
    /\ late[n] > 0
    /\ late' = [late EXCEPT ![n] = 0]
    /\ IF counts[n] > 0 THEN PutRecord(n) ELSE UNCHANGED <<record, advertised>>
    /\ UNCHANGED <<sock, counts, claims, local, signal, ticks, member, publishedAt, relays, got>>

(* One refresh interval passes; a worker is never more than MaxLate late.   *)
Interval ==
    /\ ticks < MaxTicks
    /\ \A n \in RealtimeNode : late[n] < MaxLate
    /\ ticks' = ticks + 1
    /\ late' = [n \in RealtimeNode |-> late[n] + 1]
    /\ record' = [n \in RealtimeNode |->
                     IF record[n].ttl = 0 THEN record[n] ELSE [record[n] EXCEPT !.ttl = @ - 1]]
    /\ UNCHANGED <<sock, counts, claims, local, signal, advertised, member, publishedAt, relays, got>>

-----------------------------------------------------------------------------
(* Publishing and relaying a message.                                        *)

Deliver(n, m) ==
    got' = [k \in ChatSocket |->
               IF NodeOf[k] = n /\ sock[k].local THEN Append(got[k], m) ELSE got[k]]

(* Records found by the lookup, of members, without this node's own.        *)
lookup_claimed(n, found) ==
    {x \in found : record[x].ttl > 0 /\ member[record[x].claim]} \ {n}

relay_targets(n, found) == lookup_claimed(n, found)

relay_to_peers(n, m) ==
    \E found \in SUBSET RealtimeNode :
        relays' = relays \cup {[msg |-> m, to |-> x] : x \in relay_targets(n, found)}

Publish(n, m) ==
    /\ publishedAt[m] = NoValue
    /\ publishedAt' = [publishedAt EXCEPT ![m] = n]
    /\ Deliver(n, m)
    /\ relay_to_peers(n, m)
    /\ UNCHANGED <<sock, counts, claims, local, signal, record, advertised, late, ticks, member>>

check_relay(n) == local[n] > 0

(* An accepted event reaches this node's own bus and is not relayed on.     *)
relay_handler(r) ==
    /\ relays' = relays \ {r}
    /\ IF check_relay(r.to) THEN Deliver(r.to, r.msg) ELSE UNCHANGED got
    /\ UNCHANGED <<sock, counts, claims, local, signal, record, advertised, late, ticks, member, publishedAt>>

RelayLost(r) ==
    /\ relays' = relays \ {r}
    /\ UNCHANGED <<sock, counts, claims, local, signal, record, advertised, late, ticks, member, publishedAt, got>>

-----------------------------------------------------------------------------
(* Presence of one identity on one node.                                     *)

(* Only Online is subject to the TTL; the other statuses stay as set.       *)
PresenceGet ==
    IF presence.status = "none" \/ (presence.status = "online" /\ ~ presence.fresh)
    THEN "offline" ELSE presence.status

(* PresenceStore::apply stores the entry under the lock, then broadcasts.   *)
ApplyStore(p) ==
    /\ pub[p].pc = "idle"
    /\ \E s \in {"online", "away"} :
          /\ presence' = [status |-> s, fresh |-> TRUE]
          /\ pub' = [pub EXCEPT ![p] = [pc |-> "stored", status |-> s]]
    /\ UNCHANGED <<bus, psock>>

ApplySend(p) ==
    /\ pub[p].pc = "stored"
    /\ bus' = Append(bus, pub[p].status)
    /\ pub' = [pub EXCEPT ![p].pc = "sent"]
    /\ UNCHANGED <<presence, psock>>

TtlPasses ==
    /\ presence.fresh
    /\ presence' = [presence EXCEPT !.fresh = FALSE]
    /\ UNCHANGED <<bus, pub, psock>>

(* The connection's friends, blocks and receiver are taken on opening.      *)
presence_ws(v) ==
    /\ psock[v].pc = "closed"
    /\ \E visible \in BOOLEAN :
          psock' = [psock EXCEPT ![v] = [pc |-> "open", cursor |-> Len(bus),
                                         visible |-> visible, shown |-> NoValue, lagged |-> FALSE]]
    /\ UNCHANGED <<presence, bus, pub>>

View(v, status) == IF psock[v].visible THEN status ELSE "offline"

(* Mutant: no snapshot; the connection waits for the next publish.          *)
PresenceSubscribeBlank(v) ==
    /\ psock[v].pc = "open"
    /\ psock' = [psock EXCEPT ![v].pc = "subscribed"]
    /\ UNCHANGED <<presence, bus, pub>>

(* A Subscribe answers with a snapshot of the store.                        *)
PresenceSubscribe(v) ==
    /\ psock[v].pc = "open"
    /\ psock' = [psock EXCEPT ![v].pc = "subscribed", ![v].shown = View(v, PresenceGet)]
    /\ UNCHANGED <<presence, bus, pub>>

Retained(v) == Len(bus) - psock[v].cursor <= Capacity

PresenceReceive(v) ==
    /\ psock[v].pc \in {"open", "subscribed"}
    /\ psock[v].cursor < Len(bus)
    /\ Retained(v)
    /\ psock' = [psock EXCEPT ![v].cursor = @ + 1,
                              ![v].shown = IF psock[v].pc = "subscribed"
                                           THEN View(v, bus[psock[v].cursor + 1]) ELSE @]
    /\ UNCHANGED <<presence, bus, pub>>

PresenceLagged(v) ==
    /\ psock[v].pc \in {"open", "subscribed"}
    /\ ~ Retained(v)
    /\ psock' = [psock EXCEPT ![v].cursor = Len(bus) - Capacity, ![v].lagged = TRUE]
    /\ UNCHANGED <<presence, bus, pub>>

-----------------------------------------------------------------------------

RealtimeInit ==
    /\ rpart \in RealtimeParts
    /\ sock = [k \in ChatSocket |-> [pc |-> "closed", guard |-> FALSE, local |-> FALSE]]
    /\ counts = [n \in RealtimeNode |-> 0]
    /\ claims = [n \in RealtimeNode |-> NoValue]
    /\ local = [n \in RealtimeNode |-> 0]
    /\ signal = {}
    /\ record = [n \in RealtimeNode |-> [claim |-> NoValue, ttl |-> 0]]
    /\ advertised = {}
    /\ late = [n \in RealtimeNode |-> 0]
    /\ ticks = 0
    /\ member = [k \in ChatSocket |-> TRUE]
    /\ publishedAt = [m \in ChatMessage |-> NoValue]
    /\ relays = {}
    /\ got = [k \in ChatSocket |-> <<>>]
    /\ presence = [status |-> "none", fresh |-> FALSE]
    /\ bus = <<>>
    /\ pub = [p \in Publisher |-> [pc |-> "idle", status |-> NoValue]]
    /\ psock = [v \in PresenceSocket |->
                  [pc |-> "closed", cursor |-> 0, visible |-> FALSE, shown |-> NoValue, lagged |-> FALSE]]

Subscribing ==
    \/ \E k \in ChatSocket :
          \/ register_with_claim(k) \/ bump(k) \/ track_local(k)
          \/ DropLocal(k) \/ DropGuard(k)
    \/ \E n \in RealtimeNode : NewlyActive(n)

Refreshing == Interval \/ \E n \in RealtimeNode : Refresh(n)

Relaying ==
    \/ \E n \in RealtimeNode, m \in ChatMessage : Publish(n, m)
    \/ \E r \in relays : relay_handler(r) \/ RelayLost(r)
    \/ \E k \in ChatSocket : MembershipLost(k)

PresenceDelivery ==
    \/ \E p \in Publisher : ApplyStore(p) \/ ApplySend(p)
    \/ TtlPasses
    \/ \E v \in PresenceSocket :
          \/ presence_ws(v) \/ PresenceSubscribe(v)
          \/ PresenceReceive(v) \/ PresenceLagged(v)

RealtimeNext ==
    \/ rpart = "interest" /\ (Subscribing \/ Refreshing) /\ UNCHANGED <<rpart, presencePart>>
    \/ rpart = "relay" /\ (Subscribing \/ Relaying) /\ UNCHANGED <<rpart, presencePart>>
    \/ rpart = "presence" /\ PresenceDelivery /\ UNCHANGED <<rpart, chatPart>>

RealtimeSpec == RealtimeInit /\ [][RealtimeNext]_realtimeVars

-----------------------------------------------------------------------------

(* A presence connection that has received everything broadcast to it shows *)
(* the last update broadcast or what the store holds, expired or not: no    *)
(* update falls between the snapshot and the subscription                   *)
(* (handle_presence_socket).                                                *)
PushedIsCurrent ==
    \A v \in PresenceSocket :
        /\ psock[v].pc = "subscribed"
        /\ psock[v].cursor = Len(bus)
        /\ ~ psock[v].lagged
        /\ \A p \in Publisher : pub[p].pc # "stored"
        => \/ psock[v].shown \in {View(v, PresenceGet), View(v, presence.status)}
           \/ Len(bus) > 0 /\ psock[v].shown = View(v, bus[Len(bus)])

=============================================================================
