---- MODULE NodeAuth ----
(* Who may write to a node (server/src/node_auth.rs, protocol/src/node_request.rs): the middleware in
   front of the node-to-node write routes.  Requests run at the same time; each lock the code takes is
   one step, and every step of a request uses the time it read when it arrived.
   A header is [signer, nonce, ts, valid]: who signed it, its nonce, its timestamp and whether its
   signature verifies for this recipient, network and route. *)
EXTENDS Integers, Sequences, SequencesExt, FiniteSets, FiniteSetsExt, Functions

CONSTANTS
    Signer,                 \* the keys of other nodes
    Traffic,                \* instances: [headers, streams, changes], what may be sent (a header may be
                            \* sent again) and, a bound, how often standing changes
    Requests,               \* requests the node receives
    MAX_SKEW_SECS,          \* how far a timestamp may be from the clock
    REPLAY_RETENTION_SECS,  \* how long a nonce is kept
    Minute,                 \* the length of a budget window
    MaxClock,               \* bound: the last second modelled
    MinuteRate,                   \* requests per key and minute
    FailedRate,             \* failure units per source, or signer, and minute
    TIMEOUT_FAILURE_UNITS,  \* what a body timeout costs its signer
    MaxReplay, PerSignerCap,\* the replay cache's bounds
    MAX_BUDGET_KEYS,        \* keys that may hold a request budget
    MaxInflight,            \* body reads per signer
    Stages, Reserve,        \* body reads at once, and the further ones for recently good signers
    RECENTLY_GOOD_SECS      \* how long a completed read is remembered

ASSUME NodeAuthAssumption ==
    /\ \A t \in Traffic : \A h \in t.headers : h.signer \in Signer /\ h.valid \in BOOLEAN
    /\ REPLAY_RETENTION_SECS = 2 * MAX_SKEW_SECS + 1
    /\ \A t \in Traffic : t.changes \in Nat
    /\ MaxClock \in Nat

VARIABLES
    traffic,        \* the instance
    authClock,
    standing,       \* signers with a bound entry in the peer table
    changes,        \* how often standing changed
    authRequest,        \* [phase, header, now, throttled, stage] per request
    seen,           \* ReplayCache: the nonces held
    order,          \*   <<expires, <<signer, nonce>>, slot>> in insertion order
    perSigner,      \*   signer -> <<slot, live nonces>>
    slots,          \*   slot -> the signer it stands for
    freeSlots,      \*   slots to use again, last freed first
    budget,         \* signer -> <<minute, count>>
    failures,       \* the same per source address, here one
    signerFailures, \* the same per signer
    inflight,       \* body reads in flight per signer
    reading, reserve,\* permits taken of the two semaphores
    recentGood,     \* signer -> until
    executed        \* request -> the key and time of its credential, for HTTP requests handled

replayVars == <<seen, order, perSigner, slots, freeSlots>>
guardVars == <<inflight, reading, reserve>>
authVars == <<traffic, authClock, standing, changes, authRequest, replayVars, budget, guardVars,
              failures, signerFailures, recentGood, executed>>

Ok == "ok"
NoHeader == [signer |-> "none", nonce |-> 0, ts |-> 0, valid |-> FALSE]
\* What sign_node_request makes, and whether a header verifies here.
sign_node_request(s, nonce, ts) == [signer |-> s, nonce |-> nonce, ts |-> ts, valid |-> TRUE]
verify_node_request_head(h) == h.valid

PutKey(f, k, v) == [x \in DOMAIN f \cup {k} |-> IF x = k THEN v ELSE f[x]]
DropKey(f, k) == Restrict(f, DOMAIN f \ {k})
Empty == [x \in {} |-> 0]
Key(h) == <<h.signer, h.nonce>>

\* What a refusal costs: units against the signer, and whether it counts against the source.
signer_failure_units(e) ==
    CASE e = "BodyReadTimeout" -> TIMEOUT_FAILURE_UNITS
      [] e \in {"BodyMismatch", "BodyTooLarge", "BodyReadFailed"} -> 1
      [] OTHER -> 0
is_expensive_failure(e) == e \in {"BadSignature", "BodyMismatch", "BodyTooLarge", "BodyReadTimeout"}

----
(* Budget: fixed windows of a minute. *)

MinuteOf(now) == now \div Minute

exhausted(windows, k, limit, now) ==
    k \in DOMAIN windows /\ windows[k][1] = MinuteOf(now) /\ windows[k][2] >= limit

\* A full table makes room by dropping the windows of other minutes.
Room(windows, k, maxKeys, now) ==
    IF Cardinality(DOMAIN windows) < maxKeys \/ k \in DOMAIN windows THEN windows
    ELSE Restrict(windows, {x \in DOMAIN windows : windows[x][1] = MinuteOf(now)})

\* Whether charge_units counts, and the table when it does.
charged(windows, k, limit, maxKeys, now) ==
    /\ k \in DOMAIN windows \/ Cardinality(DOMAIN windows) < maxKeys
    /\ ~exhausted(windows, k, limit, now)
charge_units(windows, k, units, limit, now) ==
    LET count == IF k \in DOMAIN windows /\ windows[k][1] = MinuteOf(now) THEN windows[k][2] ELSE 0
    IN  PutKey(windows, k, <<MinuteOf(now), Min({count + units, limit})>>)

----
(* ReplayCache. *)

\* The cache as one value, so that its methods compose.
Cache == [seen |-> seen, order |-> order, perSigner |-> perSigner, slots |-> slots,
          freeSlots |-> freeSlots]

\* forget_front: the oldest nonce leaves; the signer its slot stands for holds one less, and its slot
\* is free again when it holds none.
forget_front(c) ==
    LET front == Head(c.order)
        signer == c.slots[front[3]]
        n == c.perSigner[signer][2] - 1
    IN  [seen |-> c.seen \ {front[2]}, order |-> Tail(c.order),
         perSigner |-> IF n = 0 THEN DropKey(c.perSigner, signer)
                       ELSE [c.perSigner EXCEPT ![signer][2] = n],
         slots |-> c.slots,
         freeSlots |-> IF n = 0 THEN Append(c.freeSlots, front[3]) ELSE c.freeSlots]

\* expire: entries leave from the front while the front has expired.
RECURSIVE expire(_, _)
expire(c, now) ==
    IF c.order # <<>> /\ Head(c.order)[1] <= now THEN expire(forget_front(c), now) ELSE c

\* admit: a repeat, a signer at its share and a full cache are refused.
replay_admit(c, h) ==
    IF Key(h) \in c.seen THEN "Replay"
    ELSE IF h.signer \in DOMAIN c.perSigner /\ c.perSigner[h.signer][2] >= PerSignerCap
    THEN "RateLimited"
    ELSE IF Cardinality(c.seen) >= MaxReplay THEN "ReplayCacheFull" ELSE Ok

\* When a nonce recorded now may be forgotten: past the last second its header could still be fresh.
RetainedShort(now) == now + MAX_SKEW_SECS
Retained(now) == now + REPLAY_RETENTION_SECS

\* record: the signer's slot, a freed one or a new one, and the nonce at the end of the order.
record(c, h, now) ==
    LET known == h.signer \in DOMAIN c.perSigner
        slot == IF known THEN c.perSigner[h.signer][1]
                ELSE IF c.freeSlots # <<>> THEN Last(c.freeSlots) ELSE Len(c.slots) + 1
    IN  [seen |-> c.seen \cup {Key(h)},
         order |-> Append(c.order, <<Retained(now), Key(h), slot>>),
         perSigner |-> PutKey(c.perSigner, h.signer,
                           <<slot, IF known THEN c.perSigner[h.signer][2] + 1 ELSE 1>>),
         slots |-> IF slot > Len(c.slots) THEN Append(c.slots, h.signer)
                   ELSE [c.slots EXCEPT ![slot] = h.signer],
         freeSlots |-> IF known \/ c.freeSlots = <<>> THEN c.freeSlots ELSE Front(c.freeSlots)]

Becomes(c) ==
    /\ seen' = c.seen /\ order' = c.order /\ perSigner' = c.perSigner
    /\ slots' = c.slots /\ freeSlots' = c.freeSlots

----
(* One request through require_node_auth. *)

Idle == [phase |-> "idle", header |-> NoHeader, now |-> 0, throttled |-> FALSE, stage |-> "none"]
Done == [Idle EXCEPT !.phase = "done"]

\* The guards a request gives back when it returns: its in-flight slot and its permit.
ReleaseGuard(r) ==
    /\ inflight' = IF authRequest[r].phase \in {"slot", "stage", "body"}
                   THEN [inflight EXCEPT ![authRequest[r].header.signer] = @ - 1] ELSE inflight
    /\ reading' = IF authRequest[r].stage = "body" THEN reading - 1 ELSE reading
    /\ reserve' = IF authRequest[r].stage = "reserve" THEN reserve - 1 ELSE reserve

\* refuse: an expensive failure is noted against the source, a signer's own against the signer; a
\* throttled source is told only that.
refuse(r, e, known) ==
    LET now == authRequest[r].now
        signer == authRequest[r].header.signer
        units == signer_failure_units(e)
    IN  /\ IF is_expensive_failure(e) /\ ~authRequest[r].throttled
           THEN failures' = (IF charged(failures, "ip", FailedRate, 1, now)
                             THEN charge_units(failures, "ip", 1, FailedRate, now) ELSE failures)
           ELSE UNCHANGED failures
        /\ IF known /\ units > 0
           THEN signerFailures' = (IF charged(signerFailures, signer, FailedRate, Cardinality(Signer), now)
                                   THEN charge_units(signerFailures, signer, units, FailedRate, now)
                                   ELSE signerFailures)
           ELSE UNCHANGED signerFailures
        /\ authRequest' = [authRequest EXCEPT ![r] = Done]

Refused(r, e, known) == refuse(r, e, known) /\ ReleaseGuard(r)

Move(r, phase) == authRequest' = [authRequest EXCEPT ![r].phase = phase]

\* A request arrives over HTTP with a header; the time is read, and the source looked up, once.
Arrive(r, h) ==
    /\ authRequest[r].phase = "idle"
    /\ authRequest' = [authRequest EXCEPT ![r] = [Idle EXCEPT !.phase = "head", !.header = h, !.now = authClock,
                      !.throttled = exhausted(failures, "ip", FailedRate, authClock)]]
    /\ UNCHANGED <<authClock, standing, changes, replayVars, budget, guardVars,
                   failures, signerFailures, recentGood, executed>>

\* The checks of a header before the nonce: the window, the signer's standing, the signature.
Outside(h, now) == h.ts < now - MAX_SKEW_SECS \/ h.ts > now + MAX_SKEW_SECS
HeadError(h, now) ==
    IF Outside(h, now) THEN "Stale"
    ELSE IF h.signer \notin standing THEN "NoStanding"
    ELSE IF ~verify_node_request_head(h) THEN "BadSignature" ELSE Ok

\* verify_head: those checks, then the nonce.  Expired nonces leave the cache; nothing is recorded.
verify_head(r) ==
    LET h == authRequest[r].header
        now == authRequest[r].now
        early == HeadError(h, now)
        c == expire(Cache, now)
    IN  /\ authRequest[r].phase = "head"
        /\ IF early # Ok
           THEN Refused(r, early, FALSE) /\ UNCHANGED replayVars
           ELSE /\ Becomes(c)
                /\ IF Key(h) \in c.seen THEN Refused(r, "Replay", FALSE)
                   ELSE Move(r, "verified") /\ UNCHANGED <<guardVars, failures, signerFailures>>
        /\ UNCHANGED <<authClock, standing, changes, budget, recentGood, executed>>
\* begin_read, first part: a signer with exhausted failures is refused, then its in-flight slot taken.
TakeSlot(r) ==
    LET signer == authRequest[r].header.signer
    IN  /\ authRequest[r].phase = "verified"
        /\ IF exhausted(signerFailures, signer, FailedRate, authRequest[r].now)
           THEN Refused(r, "RateLimited", TRUE)
           ELSE IF inflight[signer] >= MaxInflight THEN Refused(r, "SignerBusy", TRUE)
           ELSE /\ inflight' = [inflight EXCEPT ![signer] = @ + 1]
                /\ Move(r, "slot")
                /\ UNCHANGED <<reading, reserve, failures, signerFailures>>
        /\ UNCHANGED <<authClock, standing, changes, replayVars, budget, recentGood,
                       executed>>

recently_good(signer, now) == signer \in DOMAIN recentGood /\ recentGood[signer] > now

\* Second part: a body permit, or for a recently good signer one of the reserve.
TakeStage(r) ==
    LET good == recently_good(authRequest[r].header.signer, authRequest[r].now)
    IN  /\ authRequest[r].phase = "slot"
        /\ IF reading >= Stages /\ (~good \/ reserve >= Reserve)
           THEN Refused(r, "Busy", TRUE)
           ELSE /\ authRequest' = [authRequest EXCEPT ![r].phase = "stage",
                                  ![r].stage = IF reading < Stages THEN "body" ELSE "reserve"]
                /\ reading' = IF reading < Stages THEN reading + 1 ELSE reading
                /\ reserve' = IF reading < Stages THEN reserve ELSE reserve + 1
                /\ UNCHANGED <<inflight, failures, signerFailures>>
        /\ UNCHANGED <<authClock, standing, changes, replayVars, budget, recentGood,
                       executed>>

\* Charging one request to a signer's budget.
Charge(signer, now) ==
    LET w == Room(budget, signer, MAX_BUDGET_KEYS, now)
    IN  budget' = IF charged(w, signer, MinuteRate, MAX_BUDGET_KEYS, now)
                     THEN charge_units(w, signer, 1, MinuteRate, now) ELSE w
Charges(signer, now) ==
    charged(Room(budget, signer, MAX_BUDGET_KEYS, now), signer, MinuteRate, MAX_BUDGET_KEYS, now)

\* Last part of begin_read, under the replay lock: the nonce is admitted, the budget charged, and
\* only then the nonce recorded.
Admit(r) ==
    LET h == authRequest[r].header
        now == authRequest[r].now
        c == expire(Cache, now)
        verdict == replay_admit(c, h)
    IN  /\ authRequest[r].phase = "stage"
        /\ IF verdict # Ok
           THEN Refused(r, verdict, TRUE) /\ Becomes(c) /\ UNCHANGED budget
           ELSE /\ Charge(h.signer, now)
                /\ IF Charges(h.signer, now)
                   THEN /\ Becomes(record(c, h, now)) /\ Move(r, "body")
                        /\ UNCHANGED <<guardVars, failures, signerFailures>>
                   ELSE Becomes(c) /\ Refused(r, "RateLimited", TRUE)
        /\ UNCHANGED <<authClock, standing, changes, recentGood, executed>>

\* read_body ends badly: too slow, cut off, too long; or finish finds another body than was signed.
BodyFails(r, e) ==
    /\ authRequest[r].phase = "body"
    /\ Refused(r, e, TRUE)
    /\ UNCHANGED <<authClock, standing, changes, replayVars, budget, recentGood, executed>>

\* The connection goes away and the handler with it: its guards are dropped, nothing is noted.
Dropped(r) ==
    /\ authRequest[r].phase = "body"
    /\ ReleaseGuard(r)
    /\ authRequest' = [authRequest EXCEPT ![r] = Done]
    /\ UNCHANGED <<authClock, standing, changes, replayVars, budget, failures,
                   signerFailures, recentGood, executed>>

\* finish: the body is the one signed; the signer counts as recently good and the route's handler runs.
finish(r) ==
    LET signer == authRequest[r].header.signer
    IN  /\ authRequest[r].phase = "body"
        /\ ReleaseGuard(r)
        /\ recentGood' = PutKey(recentGood, signer, authRequest[r].now + RECENTLY_GOOD_SECS)
        /\ executed' = PutKey(executed, r, [key |-> Key(authRequest[r].header), now |-> authRequest[r].now])
        /\ authRequest' = [authRequest EXCEPT ![r] = Done]
        /\ UNCHANGED <<authClock, standing, changes, replayVars, budget, failures,
                       signerFailures>>

\* A request over a libp2p stream: the time is read, then the whole body, then authenticate_stream
\* asks for standing and charges the same budget.
ArriveStream(r, s) ==
    /\ authRequest[r].phase = "idle"
    /\ authRequest' = [authRequest EXCEPT ![r] = [Idle EXCEPT !.phase = "stream", !.now = authClock,
                                                     !.header.signer = s]]
    /\ UNCHANGED <<authClock, standing, changes, replayVars, budget, guardVars,
                   failures, signerFailures, recentGood, executed>>
authenticate_stream(r) ==
    LET s == authRequest[r].header.signer
        now == authRequest[r].now
    IN  /\ authRequest[r].phase = "stream"
        /\ authRequest' = [authRequest EXCEPT ![r] = Done]
        /\ IF s \notin standing THEN UNCHANGED budget ELSE Charge(s, now)
        /\ UNCHANGED <<authClock, standing, changes, replayVars, guardVars, failures,
                       signerFailures, recentGood, executed>>

\* The peer table binds or drops a key (nodes.rs).
StandingChanges(s) ==
    /\ changes < traffic.changes
    /\ changes' = changes + 1
    /\ standing' = IF s \in standing THEN standing \ {s} ELSE standing \cup {s}
    /\ UNCHANGED <<authClock, authRequest, replayVars, budget, guardVars, failures, signerFailures,
                   recentGood, executed>>

\* A second passes.  From reading the time to begin_read a request runs without waiting, and the model
\* lets no second pass in between; bodies take as long as they like.
AuthTick ==
    /\ authClock < MaxClock
    /\ \A r \in Requests : authRequest[r].phase \notin {"head", "verified", "slot", "stage"}
    /\ authClock' = authClock + 1
    /\ UNCHANGED <<standing, changes, authRequest, replayVars, budget, guardVars, failures,
                   signerFailures, recentGood, executed>>

AuthInit ==
    /\ traffic \in Traffic
    /\ authClock = 0
    /\ standing \in SUBSET Signer /\ standing # {}
    /\ changes = 0
    /\ authRequest = [r \in Requests |-> Idle]
    /\ seen = {} /\ order = <<>> /\ perSigner = Empty /\ slots = <<>> /\ freeSlots = <<>>
    /\ budget = Empty /\ failures = Empty /\ signerFailures = Empty
    /\ inflight = [s \in Signer |-> 0] /\ reading = 0 /\ reserve = 0
    /\ recentGood = Empty /\ executed = Empty

AuthNext ==
    /\ UNCHANGED traffic
    /\ \/ \E r \in Requests :
          \/ \E h \in traffic.headers : Arrive(r, h)
          \/ \E s \in traffic.streams : ArriveStream(r, s)
          \/ verify_head(r) \/ TakeSlot(r) \/ TakeStage(r) \/ Admit(r) \/ finish(r) \/ Dropped(r)
          \/ \E e \in {"BodyReadTimeout", "BodyReadFailed", "BodyTooLarge", "BodyMismatch"} :
                BodyFails(r, e)
          \/ authenticate_stream(r)
       \/ \E s \in Signer : StandingChanges(s)
       \/ AuthTick

AuthSpec == AuthInit /\ [][AuthNext]_authVars

----
(* Properties *)

\* A credential is used up by the request that reads a body with it: however often and however late
\* the same header is delivered, and whatever runs at the same time, the route's handler runs for it
\* at most once (begin_read, ReplayCache).
HandledOnce == \A r, q \in DOMAIN executed : r # q => executed[r].key # executed[q].key

====
