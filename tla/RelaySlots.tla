------------------------------ MODULE RelaySlots ------------------------------
(* How a node behind a NAT stays reachable: relay.rs keeps reservations on     *)
(* relays while AutoNAT says "private", reachability.rs publishes them, the     *)
(* announce loop tells peers, and relay_resilience.rs decides whether this      *)
(* node's own relay server runs.  dht.rs drives all of it from swarm events.    *)
(*                                                                           *)
(* The swarm is external: a listener it was asked for is answered or closed    *)
(* later, and its events reach the worker in any order.  Durations are counts   *)
(* of Tick that stop where the code no longer tells them apart.                 *)
EXTENDS Integers, FiniteSets, FiniteSetsExt, SequencesExt

CONSTANTS Relay, Id,              \* relays, and the order of their peer ids
          relay_addrs,            \* configured relays, in order
          Addresses, AnswersAt,   \* dial addresses of each relay: how many, which work
          ListedRelays, SeenAt,         \* network of the listed and of the connected address
          Latencies,              \* the measurements a refresh may find
          CannotListen,           \* relays whose circuit address listen_on refuses
          MAX_CANDIDATES, max_reservations, retry_backoff, retry_backoff_max,
          pending_timeout, reselect_hold, reselect_interval, reselect_margin_ms,
          private_grace, has_external_addr,
          Prompt,                 \* the relays that answer within one unit of time if they do
          MaxCounted,             \* accepts, renewals and drops beyond this count no more
          FailuresCap,            \* bound: the backoff no longer grows here
          MaxSurprises            \* bound: verdicts, connections, losses and denials

ASSUME RelayAssumption ==
    /\ max_reservations \in Nat \ {0} /\ retry_backoff \in Nat \ {0}
    /\ retry_backoff_max \in Nat /\ pending_timeout \in Nat \ {0}
    /\ \A r \in Relay : Addresses[r] \in {1, 2}
    /\ retry_backoff * 2 ^ (FailuresCap - 1) >= retry_backoff_max

VARIABLES client,                 \* RelayClient, the listeners it holds and what it published
          events,                 \* swarm events on their way to the worker
          verdict,                \* AutoNAT's latest status
          gate,                   \* RelayGate
          connected,              \* relays with a direct connection
          announcer, announced,   \* the announce loop and what it last told a peer
          closes,                 \* listeners the network closed, per relay
          due,                    \* the reconcile timer has yet to run in this unit of time
          private,                \* how long the verdict has been private
          surprises

relayVars == <<client, events, verdict, gate, connected, announcer, announced, closes, due,
               private, surprises>>

None == -1
Pick(S, Less(_, _)) == CHOOSE r \in S : \A s \in S \ {r} : Less(r, s)
PutSlot(f, r, v) == [s \in DOMAIN f \cup {r} |-> IF s = r THEN v ELSE f[s]]
Drop(f, r) == [s \in DOMAIN f \ {r} |-> f[s]]

-----------------------------------------------------------------------------
(* Candidates.                                                                *)

Candidate(tier, index) ==
    [tier |-> tier, index |-> index, failures |-> 0, retry |-> 0, latency |-> None,
     accepts |-> 0, renewals |-> 0, drops |-> 0]

(* Known relays are left alone (a configured one keeps its rank), and the table is full
   at MAX_CANDIDATES. *)
add_candidate(c, r, tier, index) ==
    IF r \in DOMAIN c.candidates \/ Cardinality(DOMAIN c.candidates) >= MAX_CANDIDATES
    THEN c ELSE [c EXCEPT !.candidates = PutSlot(@, r, Candidate(tier, index))]

(* More failures than FailuresCap + 1 change neither the delay nor, with at most two
   addresses, which one is dialed. *)
Fail(n) == IF n + 1 < FailuresCap + 2 THEN n + 1 ELSE FailuresCap

dial_addr(c, r) == c.candidates[r].failures % Addresses[r]

history(k) == k.accepts + k.renewals - 2 * Min({k.drops, MaxCounted})

group_of(r) == IF r \in connected THEN SeenAt[r] ELSE ListedRelays[r]

rank_key(c, r) ==
    LET k == c.candidates[r]
    IN  <<k.tier, k.index, IF k.latency = None THEN 1 ELSE 0, k.latency \div 10, -history(k), Id[r]>>

Lex(a, b) == \E i \in DOMAIN a : a[i] < b[i] /\ \A j \in 1 .. i - 1 : a[j] = b[j]

available(c, r) == r \notin DOMAIN c.slots /\ c.candidates[r].retry = 0

Networks(c, S) == {c.slots[r].group : r \in S}

(* Configured relays first; within a tier, one in a network no slot is in. *)
next_candidate(c) ==
    LET held == Networks(c, DOMAIN c.slots)
        Eligible(tier) == {r \in DOMAIN c.candidates : c.candidates[r].tier = tier /\ available(c, r)}
        Diverse(tier) == {r \in Eligible(tier) : group_of(r) \notin held}
        Less(r, s) == Lex(rank_key(c, r), rank_key(c, s))
        choices == <<Diverse(0), Eligible(0), Diverse(1), Eligible(1)>>
        some == {i \in DOMAIN choices : choices[i] # {}}
    IN  IF some = {} THEN None ELSE Pick(choices[Min(some)], Less)

-----------------------------------------------------------------------------
(* Slots.                                                                     *)

Accepted(c) == {r \in DOMAIN c.slots : c.slots[r].accepted}

(* set_relay_reservations wakes the announce loop when the addresses changed. *)
publish(c) ==
    LET now == {<<r, c.slots[r].addr>> : r \in Accepted(c)}
    IN  [c EXCEPT !.published = now, !.notified = @ \/ now # c.published]

backoff_delay(n) ==
    LET d == retry_backoff * 2 ^ (n - 1) IN IF d < retry_backoff_max THEN d ELSE retry_backoff_max

mark_failed(c, r, wasHeld) ==
    LET k == c.candidates[r]
        n == Fail(k.failures)
    IN  IF r \notin DOMAIN c.candidates THEN c
        ELSE [c EXCEPT !.candidates[r] =
                  [k EXCEPT !.failures = n, !.retry = backoff_delay(n),
                            !.drops = IF wasHeld THEN @ + 1 ELSE @]]

forget_replacement(c, r) ==
    IF c.replacing # <<>> /\ r \in Range(c.replacing) THEN [c EXCEPT !.replacing = <<>>] ELSE c

(* Listener ids are fresh; one no slot, listener or event mentions is as good. *)
FreshListener(c) ==
    CHOOSE n \in 1 .. 2 * Cardinality(Relay) + 4 :
        /\ n \notin DOMAIN c.listeners
        /\ \A e \in events : e.listener # n
        /\ \A r \in DOMAIN c.slots : c.slots[r].listener # n

open_slot(c, r) ==
    LET n == FreshListener(c)
        slot == [listener |-> n, addr |-> dial_addr(c, r), group |-> group_of(r),
                 accepted |-> FALSE, started |-> 0, held |-> None]
    IN  IF r \in CannotListen THEN mark_failed(c, r, FALSE)
        ELSE [c EXCEPT !.slots = PutSlot(@, r, slot), 
                       !.listeners = PutSlot(@, n, [relay |-> r, addr |-> slot.addr, reserved |-> FALSE])]

remove_listener(c, n) == [c EXCEPT !.listeners = Drop(@, n)]

AbandonKept(c, r, failed) ==
    LET gone == [c EXCEPT !.slots = Drop(@, r)]
    IN  IF failed THEN mark_failed(forget_replacement(gone, r), r, FALSE) ELSE gone

(* One listener after another: release_all, and the timed-out slots of reconcile. *)
Abandon(c, r, failed) ==
    LET gone == remove_listener([c EXCEPT !.slots = Drop(@, r)], c.slots[r].listener)
    IN  IF failed THEN mark_failed(forget_replacement(gone, r), r, FALSE) ELSE gone

AbandonAll(c, S, failed) ==
    FoldLeft(LAMBDA d, r : Abandon(d, r, failed), c, SetToSeq(S))

release_all(c) ==
    IF DOMAIN c.slots = {} THEN c
    ELSE publish([AbandonAll(c, DOMAIN c.slots, FALSE) EXCEPT !.replacing = <<>>])

-----------------------------------------------------------------------------
(* Reselection: trade a reservation for a better relay, keeping the old one    *)
(* until the new one is accepted.                                              *)

past_hold(s) == s.held >= reselect_hold

reselect_due(c) ==
    /\ DOMAIN c.slots # {} /\ Accepted(c) = DOMAIN c.slots
    /\ c.sinceReplacement >= reselect_interval
    /\ \E r \in DOMAIN c.slots : past_hold(c.slots[r])
    /\ \E r \in DOMAIN c.candidates : available(c, r)

Others(c, old) == Networks(c, DOMAIN c.slots \ {old})

improves(c, new, old) ==
    LET n == c.candidates[new]
        o == c.candidates[old]
        diverse == group_of(new) \notin Others(c, old)
        oldShares == c.slots[old].group \in Others(c, old)
        saved == o.latency - n.latency
    IN  \/ n.tier < o.tier
        \/ /\ n.tier = o.tier
           /\ diverse \/ oldShares
           /\ \/ oldShares /\ diverse
              \/ n.tier = 0 /\ n.index < o.index
              \/ /\ n.tier # 0 /\ n.latency # None /\ o.latency # None
                 /\ saved >= reselect_margin_ms /\ 4 * saved >= o.latency
                 /\ history(n) >= Min({history(o), 0})

better_than(c, old) ==
    LET better == {r \in DOMAIN c.candidates : available(c, r) /\ improves(c, r, old)}
        Shares(r) == IF group_of(r) \in Others(c, old) THEN 1 ELSE 0
        Less(r, s) == Lex(<<c.candidates[r].tier, Shares(r)>> \o rank_key(c, r),
                          <<c.candidates[s].tier, Shares(s)>> \o rank_key(c, s))
    IN  IF better = {} THEN None ELSE Pick(better, Less)

(* The worst held relay that some candidate beats. *)
pick_replacement(c) ==
    LET held == {r \in DOMAIN c.slots : past_hold(c.slots[r]) /\ r \in DOMAIN c.candidates
                                        /\ better_than(c, r) # None}
        Worse(r, s) == Lex(rank_key(c, s), rank_key(c, r))
    IN  IF held = {} THEN <<>>
        ELSE LET old == Pick(held, Worse) IN <<old, better_than(c, old)>>

reselect(c) ==
    LET pair == pick_replacement(c)
        opened == open_slot([c EXCEPT !.sinceReplacement = 0], pair[2])
    IN  IF ~reselect_due(c) \/ pair = <<>> THEN c
        ELSE IF pair[2] \in CannotListen THEN opened ELSE [opened EXCEPT !.replacing = pair]

-----------------------------------------------------------------------------
(* reconcile, and what runs with it on every relevant event.                  *)

FillOne(c) ==
    IF Cardinality(DOMAIN c.slots) < max_reservations /\ next_candidate(c) # None
    THEN open_slot(c, next_candidate(c)) ELSE c

reconcile(c, v) ==
    LET late == {r \in DOMAIN c.slots : ~c.slots[r].accepted /\ c.slots[r].started >= pending_timeout}
        filled == FoldLeft(LAMBDA d, r : FillOne(d), AbandonAll(c, late, TRUE), SetToSeq(Relay))
    IN  CASE v = "public" -> release_all(c)
          [] v = "unknown" -> c
          [] v = "private" -> publish(reselect(filled))

wants_slots(c, v) ==
    v = "private" /\ Cardinality(DOMAIN c.slots) < max_reservations /\ DOMAIN c.candidates # {}

set_latencies(c, ms) ==
    [c EXCEPT !.candidates = [r \in DOMAIN @ |-> [@[r] EXCEPT !.latency = ms[r]]]]

(* What reconciling after a refresh may find; the neighbor table is read only when a
   slot is to be filled or a review is due. *)
Refreshed(c, v) ==
    LET fill == wants_slots(c, v) /\ next_candidate(c) # None
        review == v = "private" /\ reselect_due(c) /\ c.nextFetch = 0
        reviewed == IF review THEN [c EXCEPT !.nextFetch = reselect_interval] ELSE c
    IN  IF fill \/ review THEN {set_latencies(reviewed, ms) : ms \in Latencies} ELSE {reviewed}

(* The relay server keeps running through a private verdict shorter than the grace. *)
should_serve(g, v) ==
    LET since == IF g.privateFor = None THEN 0 ELSE g.privateFor
    IN  CASE v = "public" -> [serving |-> TRUE, privateFor |-> None]
          [] v = "unknown" -> [serving |-> has_external_addr, privateFor |-> None]
          [] v = "private" /\ g.serving -> [serving |-> since < private_grace, privateFor |-> since]
          [] v = "private" /\ ~g.serving -> g

(* remove_listener makes the swarm report the closed listener later. *)
Closing(old, new) == {[kind |-> "closed", listener |-> n, relay |-> old[n].relay] :
                          n \in DOMAIN old \ DOMAIN new}

refresh_and_reconcile(c, v) ==
    /\ client' \in {reconcile(d, v) : d \in Refreshed(c, v)}
    /\ gate' = should_serve(gate, v)

-----------------------------------------------------------------------------
RelayInit ==
    /\ client = [candidates |-> [r \in Range(relay_addrs) |->
                                    Candidate(0, CHOOSE i \in DOMAIN relay_addrs : relay_addrs[i] = r)],
                 slots |-> <<>>, replacing |-> <<>>, sinceReplacement |-> reselect_interval,
                 nextFetch |-> 0, listeners |-> <<>>, published |-> {}, notified |-> FALSE]
    /\ events = {} /\ verdict = "unknown" /\ connected = {}
    /\ gate = should_serve([serving |-> FALSE, privateFor |-> None], "unknown")
    /\ announcer = "waiting" /\ announced = {}
    /\ closes = [r \in Relay |-> 0] /\ due = FALSE /\ private = None /\ surprises = 0

Surprise == surprises < MaxSurprises /\ surprises' = surprises + 1
Swarm(keep) == events' = keep \cup Closing(client.listeners, client'.listeners)

(* AutoNAT reaches another conclusion; a probe takes longer than the worker needs for the
   events it has. *)
StatusChanged(v) ==
    /\ v # verdict /\ events = {} /\ Surprise
    /\ verdict' = v /\ private' = IF v = "private" THEN 0 ELSE None
    /\ refresh_and_reconcile(client, v) /\ Swarm(events)
    /\ UNCHANGED <<connected, announcer, announced, closes, due>>

(* The reconcile timer, at least once per unit of time. *)
ReconcileTick ==
    /\ refresh_and_reconcile(client, verdict) /\ Swarm(events)
    /\ due' = FALSE
    /\ UNCHANGED <<verdict, connected, announcer, announced, closes, private, surprises>>

(* A peer identifies as a relay. *)
note_hop_relay(r) ==
    /\ r \notin DOMAIN client.candidates
    /\ refresh_and_reconcile(add_candidate(client, r, 1, 0), verdict) /\ Swarm(events)
    /\ UNCHANGED <<verdict, connected, announcer, announced, closes, due, private, surprises>>

note_connection_addr(r) ==
    /\ SeenAt[r] # ListedRelays[r] /\ r \notin connected /\ Surprise
    /\ connected' = connected \cup {r}
    /\ UNCHANGED <<client, events, verdict, gate, announcer, announced, closes, due, private>>

forget_connection_addr(r) ==
    /\ r \in connected
    /\ connected' = connected \ {r}
    /\ UNCHANGED <<client, events, verdict, gate, announcer, announced, closes, due, private, surprises>>

(* The relay behind an open listener answers, the first time or to a renewal. *)
Answer(n) ==
    LET l == client.listeners[n]
    IN  /\ n \in DOMAIN client.listeners /\ l.addr \in AnswersAt[l.relay]
        /\ ~\E e \in events : e.listener = n
        /\ client' = [client EXCEPT !.listeners[n].reserved = TRUE]
        /\ events' = events \cup {[kind |-> IF l.reserved THEN "renewed" ELSE "accepted",
                                   listener |-> n, relay |-> l.relay]}
        /\ UNCHANGED <<verdict, gate, connected, announcer, announced, closes, due, private, surprises>>

(* It denies the reservation, or the connection to it breaks. *)
Break(n) ==
    /\ n \in DOMAIN client.listeners /\ Surprise
    /\ client' = remove_listener(client, n)
    /\ Swarm(events)
    /\ closes' = [closes EXCEPT ![client.listeners[n].relay] = @ + 1]
    /\ UNCHANGED <<verdict, gate, connected, announcer, announced, due, private>>

(* The client's record of an answer; an accepted replacement releases the old slot. *)
Accept(c, r, renewal) ==
    LET k == c.candidates[r]
        renewed == [k EXCEPT !.renewals = Min({@ + 1, MaxCounted}), !.drops = @ \div 2,
                             !.failures = 0, !.retry = 0]
        accepted == [k EXCEPT !.accepts = Min({@ + 1, MaxCounted})]
        slot == [c.slots[r] EXCEPT !.accepted = TRUE,
                                   !.held = IF renewal \/ @ # None THEN @ ELSE 0]
    IN  [c EXCEPT !.slots[r] = slot,
                  !.candidates = IF r \in DOMAIN @ THEN PutSlot(@, r, IF renewal THEN renewed ELSE accepted)
                                 ELSE @]

Supersede(c, r, renewal) ==
    LET old == c.replacing[1]
        done == [c EXCEPT !.replacing = <<>>]
    IN  IF c.replacing = <<>> \/ renewal THEN c
        ELSE IF c.replacing[2] # r THEN c
        ELSE IF old \in DOMAIN c.slots THEN Abandon(done, old, FALSE) ELSE done

on_accepted(e) ==
    /\ e \in events /\ e.kind \in {"accepted", "renewed"}
    /\ client' = IF e.relay \notin DOMAIN client.slots THEN client
                 ELSE LET renewal == e.kind = "renewed"
                      IN  publish(Supersede(Accept(client, e.relay, renewal), e.relay, renewal))
    /\ Swarm(events \ {e})
    /\ UNCHANGED <<verdict, gate, connected, announcer, announced, closes, due, private, surprises>>

(* Only the listener of a current slot counts; the others this node closed itself. *)
Held(c, e) == {r \in DOMAIN c.slots : c.slots[r].listener = e.listener}

Closed(c, e) ==
    IF Held(c, e) = {} THEN c
    ELSE LET r == CHOOSE x \in Held(c, e) : TRUE
             gone == forget_replacement([c EXCEPT !.slots = Drop(@, r)], r)
         IN  publish(mark_failed(gone, r, c.slots[r].accepted))

on_listener_closed(e) ==
    /\ e \in events /\ e.kind = "closed"
    /\ refresh_and_reconcile(Closed(client, e), verdict) /\ Swarm(events \ {e})
    /\ UNCHANGED <<verdict, connected, announcer, announced, closes, due, private, surprises>>

-----------------------------------------------------------------------------
(* The announce loop, and time.                                               *)

(* wait_for_announce_round: the interval passes, or the relayed addresses changed and the
   spacing since the last round has; changes until then belong to the coming round. *)
IntervalElapses ==
    /\ announcer = "waiting" /\ announcer' = "due"
    /\ UNCHANGED <<client, events, verdict, gate, connected, announced, closes, due, private, surprises>>

relayed_addrs_changed ==
    /\ announcer = "waiting" /\ client.notified
    /\ announcer' = "spacing" /\ client' = [client EXCEPT !.notified = FALSE]
    /\ UNCHANGED <<events, verdict, gate, connected, announced, closes, due, private, surprises>>

SpacingPassed ==
    /\ announcer = "spacing"
    /\ announcer' = "due" /\ client' = [client EXCEPT !.notified = FALSE]
    /\ UNCHANGED <<events, verdict, gate, connected, announced, closes, due, private, surprises>>

announce ==
    /\ announcer = "due" /\ announcer' = "waiting"
    /\ announced' = client.published
    /\ UNCHANGED <<client, events, verdict, gate, connected, closes, due, private, surprises>>

Later(n, top) == IF n = None \/ n >= top THEN n ELSE n + 1
Sooner(n) == IF n > 0 THEN n - 1 ELSE 0

Unanswered(n) == LET l == client.listeners[n]
                 IN  ~l.reserved /\ l.addr \in AnswersAt[l.relay]

(* Time passes. The worker takes its events up in far less than one unit. *)
RelayTick ==
    /\ ~due /\ due' = TRUE /\ events = {}
    /\ \A n \in DOMAIN client.listeners : client.listeners[n].relay \in Prompt => ~Unanswered(n)
    /\ client' = [client EXCEPT
           !.candidates = [r \in DOMAIN @ |-> [@[r] EXCEPT !.retry = Sooner(@)]],
           !.slots = [r \in DOMAIN @ |-> [@[r] EXCEPT !.started = Later(@, pending_timeout),
                                                     !.held = Later(@, reselect_hold)]],
           !.sinceReplacement = Later(@, reselect_interval),
           !.nextFetch = Sooner(@)]
    /\ gate' = [gate EXCEPT !.privateFor = Later(@, private_grace)]
    /\ private' = Later(private, private_grace)
    /\ UNCHANGED <<events, verdict, connected, announcer, announced, closes, surprises>>

-----------------------------------------------------------------------------
RelayWorker == \E e \in events : on_accepted(e) \/ on_listener_closed(e)

RelayNext ==
    \/ \E v \in {"unknown", "public", "private"} : StatusChanged(v)
    \/ ReconcileTick \/ RelayTick \/ RelayWorker
    \/ \E r \in Relay : note_hop_relay(r) \/ note_connection_addr(r) \/ forget_connection_addr(r)
    \/ \E n \in DOMAIN client.listeners : Answer(n) \/ Break(n)
    \/ IntervalElapses \/ relayed_addrs_changed \/ SpacingPassed \/ announce

RelaySpec == RelayInit /\ [][RelayNext]_relayVars

(* Time passes and the worker's loop goes round, so its timer runs in every unit. *)
FairRelaySpec == RelaySpec /\ []<>due /\ []<>~due

-----------------------------------------------------------------------------
Slots == DOMAIN client.slots

(* The advertised relayed addresses are those of the accepted reservations, whatever order
   acceptances, closings and replacements arrive in; and a listener is open exactly for the
   slots, or its closing is still to be handled: none leaks. *)
ListenersAccounted ==
    /\ client.published = {<<r, client.slots[r].addr>> : r \in Accepted(client)}
    /\ \A n \in DOMAIN client.listeners : \E r \in Slots : client.slots[r].listener = n
    /\ \A r \in Slots : LET n == client.slots[r].listener
                        IN  \/ n \in DOMAIN client.listeners
                            \/ \E e \in events : e.kind = "closed" /\ e.listener = n
=============================================================================
