------------------------------ MODULE NodeStream ------------------------------
(* A node's requests to one peer over its two transports: NodeRequestBuilder    *)
(* (node_http.rs) chooses between plain HTTP and a libp2p stream and fails over; *)
(* the libp2p worker (dht.rs) parks stream requests until it is connected; and   *)
(* InboundService (node_http/inbound.rs) limits what it serves in turn.          *)
(*                                                                             *)
(* The network is external: dials end either way, connections open and close at  *)
(* any time, and a request that was sent is executed by the peer at most once,    *)
(* possibly after its caller gave up.                                            *)
EXTENDS Integers, Sequences, FiniteSets, FiniteSetsExt

CONSTANTS Call, StreamRequests,         \* calls and what they may ask for: [Call -> request]
          MAX_PARKED_PER_PEER, COMMAND_CHANNEL_CAPACITY, connect_timeout,
          BACKOFF_BASE, BACKOFF_MAX,
          Guest, Task, max_inflight, max_inflight_per_peer,
          MaxRefusals             \* bound: connections from refused addresses, requests served

ASSUME StreamAssumption == connect_timeout \in Nat

VARIABLES calls,                  \* what each call asks for and where it stands
          commands,               \* the worker's command channel
          parked,                 \* ParkedPeer of the one peer
          pending,                \* requests whose response the worker awaits
          link, dial,             \* the swarm: connected, and the dial in flight
          wire,                   \* requests on their way, and answers on their way back
          runs,               \* how often the peer executed each call, per transport
          stats,                  \* TransportStats of the peer
          refusals,
          tasks, counts           \* requests of guests being served, and InboundService.counts

callVars == <<calls, commands, parked, pending, runs, stats>>
swarmVars == <<link, dial, wire, refusals>>
streamVars == <<calls, commands, parked, pending, link, dial, wire, runs, stats, refusals,
                tasks, counts>>

None == 0
Transport == {"http", "stream"}
other(t) == IF t = "http" THEN "stream" ELSE "http"

-----------------------------------------------------------------------------
(* Routes and the order of transports.                                        *)

(* A request names either the peer ("p2p") or a URL; bound says whether the peer table links
   the two. Only a read may leave the stream for a URL the table supplied. *)
route(q) ==
    [primary |-> IF q.names = "p2p" THEN "stream" ELSE "http",
     has |-> (IF q.names = "p2p" THEN {"stream"} ELSE {"http"})
             \cup (IF q.bound /\ ~q.pinned /\ (q.names = "p2p" => q.method = "GET")
                   THEN Transport ELSE {})]

is_demoted(t) == stats[t].backoff > 0
choose(t) == IF is_demoted(t) /\ ~is_demoted(other(t)) THEN other(t) ELSE t

(* A failure of a request that may have reached the peer moves only a read. *)
fails_overAlways(e, method) == e \in {"connect", "local", "timeout"}
fails_over(e, method) == e \in {"connect", "local"} \/ (e = "timeout" /\ method = "GET")

backoff_for(n) == IF n >= 2 THEN BACKOFF_MAX ELSE BACKOFF_BASE

(* Only a request that never connected demotes its transport; n calls report the result. *)
Recorded(s, t, result, n) ==
    LET f == Min({2, s[t].failures + n})
    IN  CASE n > 0 /\ result = "ok" -> [s EXCEPT ![t] = [failures |-> 0, backoff |-> 0]]
          [] n > 0 /\ result = "connect" ->
                 [s EXCEPT ![t] = [failures |-> f, backoff |-> backoff_for(f)]]
          [] OTHER -> s

(* What a call does next once its attempt over t ended with a result: it returns, or tries the
   other transport, where a URL the caller did not name has to pass the outbound policy. *)
EndedCall(k, t, result) ==
    LET q == k.request
        moves == /\ result # "ok" /\ k.first = t
                 /\ other(t) \in route(q).has /\ fails_over(result, q.method)
    IN  IF ~moves THEN [k EXCEPT !.at = "done", !.result = result]
        ELSE IF other(t) = "http" /\ route(q).primary = "stream"
        THEN [k EXCEPT !.at = "vet", !.result = result]
        ELSE [k EXCEPT !.at = IF t = "http" THEN "queue" ELSE "http"]

CallWaits(c) == calls[c].at \in {"queue", "stream"}
LiveCalls(S) == {c \in S : CallWaits(c)}

(* The worker answers the calls of S; one that gave up no longer listens. *)
Respond(cs, S, result) ==
    [c \in Call |-> IF c \in S /\ cs[c].at = "stream" THEN EndedCall(cs[c], "stream", result) ELSE cs[c]]
RespondStats(S, result) ==
    Recorded(stats, "stream", result, Cardinality({c \in S : calls[c].at = "stream"}))

-----------------------------------------------------------------------------
(* Callers.                                                                   *)

(* send: the transport to start with. Reordering never adds a transport. *)
send(c) ==
    LET k == calls[c]
        r == route(k.request)
        first == IF r.has = Transport THEN choose(r.primary) ELSE r.primary
    IN  /\ k.at = "idle"
        /\ calls' = [calls EXCEPT ![c] =
               IF first = "http" /\ r.primary = "stream" THEN [k EXCEPT !.at = "vet"]
               ELSE [k EXCEPT !.at = IF first = "http" THEN "http" ELSE "queue", !.first = first]]
        /\ UNCHANGED <<commands, parked, pending, link, dial, wire, runs, stats, refusals, tasks, counts>>

(* vet_http, before the first attempt or the second. *)
vet_http(c) ==
    LET k == calls[c]
        second == k.first = "stream"
    IN  /\ k.at = "vet"
        /\ \E ok \in BOOLEAN : calls' = [calls EXCEPT ![c] =
               CASE ok -> [k EXCEPT !.at = "http", !.first = IF second THEN @ ELSE "http"]
                 [] ~ok /\ second -> [k EXCEPT !.at = "done"]
                 [] ~ok /\ ~second -> [k EXCEPT !.at = "queue", !.first = "stream"]]
        /\ UNCHANGED <<commands, parked, pending, link, dial, wire, runs, stats, refusals, tasks, counts>>

(* An HTTP attempt: it never connects, or the request is on the wire. *)
HttpConnectFails(c) ==
    /\ calls[c].at = "http"
    /\ calls' = [calls EXCEPT ![c] = EndedCall(@, "http", "connect")]
    /\ stats' = Recorded(stats, "http", "connect", 1)
    /\ UNCHANGED <<commands, parked, pending, link, dial, wire, runs, refusals, tasks, counts>>

HttpSent(c) ==
    /\ calls[c].at = "http"
    /\ calls' = [calls EXCEPT ![c].at = "sent"]
    /\ wire' = wire \cup {[call |-> c, by |-> "http", dir |-> "there"]}
    /\ UNCHANGED <<commands, parked, pending, link, dial, runs, stats, refusals, tasks, counts>>

HttpAnswered(c) ==
    LET m == [call |-> c, by |-> "http", dir |-> "back"]
    IN  /\ calls[c].at = "sent" /\ m \in wire
        /\ calls' = [calls EXCEPT ![c] = EndedCall(@, "http", "ok")]
        /\ stats' = Recorded(stats, "http", "ok", 1) /\ wire' = wire \ {m}
        /\ UNCHANGED <<commands, parked, pending, link, dial, runs, refusals, tasks, counts>>

(* The attempt's time is up, or its connection broke. *)
HttpGivesUp(c) ==
    /\ calls[c].at = "sent"
    /\ \E e \in {"timeout", "dropped"} : calls' = [calls EXCEPT ![c] = EndedCall(@, "http", e)]
    /\ UNCHANGED <<commands, parked, pending, link, dial, wire, runs, stats, refusals, tasks, counts>>

(* StreamHandle::request: the command is queued when there is room, and the caller waits for
   the responder no longer than its timeout. *)
send_request(c) ==
    /\ calls[c].at = "queue" /\ Len(commands) < COMMAND_CHANNEL_CAPACITY
    /\ commands' = Append(commands, c)
    /\ calls' = [calls EXCEPT ![c].at = "stream"]
    /\ UNCHANGED <<parked, pending, link, dial, wire, runs, stats, refusals, tasks, counts>>

StreamGivesUp(c) ==
    /\ CallWaits(c)
    /\ calls' = [calls EXCEPT ![c] = EndedCall(@, "stream", "timeout")]
    /\ UNCHANGED <<commands, parked, pending, link, dial, wire, runs, stats, refusals, tasks, counts>>

-----------------------------------------------------------------------------
(* The worker.                                                                *)

(* The order in which requests were parked decides nothing: waiting is their set. *)
NoneParked == [waiting |-> {}, own |-> None]
Calls(waiting) == {w.call : w \in waiting}
FreshDial == CHOOSE i \in 1 .. 3 : i \notin {dial, parked.own}
AskStream(S) == {[call |-> c, by |-> "stream", dir |-> "there"] : c \in S}

(* expire_parked: those that gave up go, those past their deadline are told. *)
Expired(p) == Calls({w \in p.waiting : w.left = 0})
KeptParked(p) ==
    LET kept == {w \in p.waiting : CallWaits(w.call) /\ w.left > 0}
    IN  IF kept = {} THEN NoneParked ELSE [p EXCEPT !.waiting = kept]

expire_parked ==
    /\ parked # KeptParked(parked)
    /\ parked' = KeptParked(parked)
    /\ calls' = Respond(calls, Expired(parked), "connect")
    /\ stats' = RespondStats(Expired(parked), "connect")
    /\ UNCHANGED <<commands, pending, link, dial, wire, runs, refusals, tasks, counts>>

(* The next command: sent when connected, else parked behind a dial. Whether the peer has an
   address to dial is for the peer table to say. *)
start_http ==
    LET c == Head(commands)
        late == Expired(parked)
        p == KeptParked(parked)
        pushed == [p EXCEPT !.waiting = @ \cup {[call |-> c, left |-> connect_timeout]}]
        told == Respond(calls, late, "connect")
        open == LiveCalls(pending)
    IN  /\ commands # <<>> /\ commands' = Tail(commands)
        /\ stats' = RespondStats(late, "connect")
        /\ \/ /\ link
              /\ pending' = open \cup {c} /\ wire' = wire \cup AskStream({c})
              /\ parked' = p /\ calls' = told /\ UNCHANGED dial
           \/ /\ ~link /\ Cardinality(p.waiting) >= MAX_PARKED_PER_PEER
              /\ calls' = Respond(told, {c}, "local")
              /\ pending' = open /\ parked' = p /\ UNCHANGED <<dial, wire>>
           \/ /\ ~link /\ Cardinality(p.waiting) < MAX_PARKED_PER_PEER
              /\ p.own # None \/ dial # None
              /\ parked' = pushed /\ pending' = open /\ calls' = told /\ UNCHANGED <<dial, wire>>
           \/ /\ ~link /\ Cardinality(p.waiting) < MAX_PARKED_PER_PEER
              /\ p.own = None /\ dial = None
              /\ dial' = FreshDial /\ parked' = [pushed EXCEPT !.own = FreshDial]
              /\ pending' = open /\ calls' = told /\ UNCHANGED wire
           \/ /\ ~link /\ Cardinality(p.waiting) < MAX_PARKED_PER_PEER
              /\ p.own = None /\ dial = None
              /\ calls' = Respond(told, Calls(p.waiting) \cup {c}, "local")
              /\ parked' = NoneParked /\ pending' = open /\ UNCHANGED <<dial, wire>>
        /\ UNCHANGED <<link, runs, refusals, tasks, counts>>

(* A connection to the peer: the waiting requests of callers still there are sent. *)
flush_parked(was) ==
    LET live == LiveCalls(Calls(parked.waiting))
    IN  /\ link' = TRUE /\ dial' = was
        /\ pending' = pending \cup live /\ wire' = wire \cup AskStream(live)
        /\ parked' = NoneParked
        /\ UNCHANGED <<calls, commands, runs, stats, refusals, tasks, counts>>
DialSucceeds == dial # None /\ flush_parked(None)
PeerConnects == ~link /\ flush_parked(dial)

(* It is at an address the outbound policy refuses: disconnected without a flush. *)
ConnectionRefused ==
    /\ dial # None /\ ~link /\ refusals < MaxRefusals
    /\ refusals' = refusals + 1 /\ dial' = None
    /\ UNCHANGED <<calls, commands, parked, pending, link, wire, runs, stats, tasks, counts>>

(* A dial failed. Parked requests that only joined it get one of their own. *)
Redial ==
    /\ dial' = FreshDial /\ parked' = [parked EXCEPT !.own = FreshDial]
    /\ UNCHANGED <<calls, stats>>
FailAll ==
    /\ dial' = None /\ parked' = NoneParked
    /\ calls' = Respond(calls, Calls(parked.waiting), "connect")
    /\ stats' = RespondStats(Calls(parked.waiting), "connect")

parked_dial_failed ==
    /\ dial # None
    /\ IF parked.waiting = {} \/ link \/ parked.own \notin {None, dial}
       THEN dial' = None /\ UNCHANGED <<parked, calls, stats>>
       ELSE FailAll \/ (parked.own = None /\ Redial)
    /\ UNCHANGED <<commands, pending, link, wire, runs, refusals, tasks, counts>>

(* The bootstrap scan or the DHT dials the peer for reasons of its own. *)
scan_dial ==
    /\ ~link /\ dial = None /\ dial' = FreshDial
    /\ UNCHANGED <<calls, commands, parked, pending, link, wire, runs, stats, refusals, tasks, counts>>

(* handle_node_http_event: a response, or the failure of an outstanding request. *)
Fail(c, result) ==
    /\ calls' = Respond(calls, {c} \cap pending, result)
    /\ stats' = RespondStats({c} \cap pending, result)
    /\ pending' = pending \ {c}
    /\ UNCHANGED <<commands, parked, dial, runs, refusals, tasks, counts>>
Response(c) ==
    LET m == [call |-> c, by |-> "stream", dir |-> "back"]
    IN  m \in wire /\ wire' = wire \ {m} /\ Fail(c, "ok") /\ UNCHANGED link
OutboundTimeout(c) ==
    c \in pending /\ Fail(c, "timeout") /\ UNCHANGED <<wire, link>>
UnsupportedProtocols(c) ==
    LET m == [call |-> c, by |-> "stream", dir |-> "there"]
    IN  m \in wire /\ wire' = wire \ {m} /\ Fail(c, "connect") /\ UNCHANGED link

node_http_error(S) == Respond(calls, S, "dropped")

ConnectionCloses ==
    /\ link /\ link' = FALSE
    /\ wire' = {m \in wire : m.by = "http"}
    /\ calls' = node_http_error(pending) /\ pending' = {}
    /\ UNCHANGED <<commands, parked, dial, runs, stats, refusals, tasks, counts>>

(* The peer acts on a request that reached it. *)
Executes(m) ==
    /\ m \in wire /\ m.dir = "there"
    /\ wire' = (wire \ {m}) \cup {[m EXCEPT !.dir = "back"]}
    /\ runs' = [runs EXCEPT ![m.call][m.by] = @ + 1]
    /\ UNCHANGED <<calls, commands, parked, pending, link, dial, stats, refusals, tasks, counts>>

StreamTick ==
    /\ \/ parked.waiting # {} \/ \E t \in Transport : is_demoted(t)
    /\ parked' = [parked EXCEPT !.waiting =
                     {[w EXCEPT !.left = Max({@ - 1, 0})] : w \in @}]
    /\ stats' = [t \in Transport |-> [stats[t] EXCEPT !.backoff = Max({@ - 1, 0})]]
    /\ UNCHANGED <<calls, commands, pending, link, dial, wire, runs, refusals, tasks, counts>>

-----------------------------------------------------------------------------
(* Requests of other nodes.                                                   *)

(* A permit taken or dropped. *)
CountedInbound(g, n) == [total |-> counts.total + n, per_peer |-> [counts.per_peer EXCEPT ![g] = @ + n]]

(* admit counts the request under the lock; its task is answered with the router's answer. *)
admit(t, g) ==
    /\ tasks[t] = None
    /\ counts.total < max_inflight /\ counts.per_peer[g] < max_inflight_per_peer
    /\ tasks' = [tasks EXCEPT ![t] = g]
    /\ counts' = CountedInbound(g, 1)
    /\ UNCHANGED <<callVars, swarmVars>>

(* The permit drops with the task, after its answer was queued. *)
StreamAnswered(t) ==
    /\ tasks[t] # None
    /\ tasks' = [tasks EXCEPT ![t] = None]
    /\ counts' = CountedInbound(tasks[t], -1)
    /\ UNCHANGED <<callVars, swarmVars>>

-----------------------------------------------------------------------------
IdleCall(q) == [request |-> q, at |-> "idle", first |-> "none", result |-> "none"]

StreamInit ==
    /\ \/ /\ calls \in {[c \in Call |-> IdleCall(f[c])] : f \in StreamRequests}
          /\ tasks = <<>>
       \/ /\ LET f == CHOOSE g \in StreamRequests : TRUE
             IN  calls = [c \in Call |-> [IdleCall(f[c]) EXCEPT !.at = "done"]]
          /\ tasks = [t \in Task |-> None]
    /\ commands = <<>> /\ parked = NoneParked /\ pending = {}
    /\ link = FALSE /\ dial = None /\ wire = {} /\ refusals = 0
    /\ runs = [c \in Call |-> [t \in Transport |-> 0]]
    /\ stats = [t \in Transport |-> [failures |-> 0, backoff |-> 0]]
    /\ counts = [total |-> 0, per_peer |-> [g \in Guest |-> 0]]

StreamNext ==
    \/ \E c \in Call : \/ send(c) \/ vet_http(c) \/ HttpConnectFails(c) \/ HttpSent(c)
                       \/ HttpAnswered(c) \/ HttpGivesUp(c) \/ send_request(c) \/ StreamGivesUp(c)
                       \/ Response(c) \/ OutboundTimeout(c) \/ UnsupportedProtocols(c)
    \/ start_http \/ expire_parked \/ DialSucceeds \/ PeerConnects \/ ConnectionRefused
    \/ parked_dial_failed \/ scan_dial \/ ConnectionCloses
    \/ \E m \in wire : Executes(m)
    \/ StreamTick
    \/ \E t \in DOMAIN tasks : StreamAnswered(t) \/ \E g \in Guest : admit(t, g)

StreamSpec == StreamInit /\ [][StreamNext]_streamVars

-----------------------------------------------------------------------------
(* A write is executed by the peer at most once, whatever fails over, expires, is dropped or
   times out on the way: only a request that was certainly not sent is sent again. *)
WritesExecutedOnce ==
    \A c \in Call : calls[c].request.method = "POST" =>
        runs[c]["http"] + runs[c]["stream"] <= 1
=============================================================================
