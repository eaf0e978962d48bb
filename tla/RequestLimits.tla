---- MODULE RequestLimits ----
(* The ceilings a request passes before its handler runs: which client it counts against
   (crates/server/src/trusted_proxies.rs), the rate and concurrency ceilings one operator's processes
   share through Redis (redis_limits.rs) or each keep for themselves, the per-principal rate
   (principal_limits.rs) and the limits of a probe (topology_limits.rs, topology_probe.rs).
   One clock serves the operator's processes and their Redis. *)
EXTENDS Integers, Sequences, FiniteSets, Functions, TLC

CONSTANTS Proc,
          Profiles,      \* the requests, each [proc, from, via, sent, who, kind], and how
                         \* many faults there may be
          Proxies,       \* addresses of AVALON_TRUSTED_PROXIES
          Degraded,      \* processes that found Redis unreachable when they started
          RATE, WINDOW,  \* requests per window of a client or a principal
          MAX_CONCURRENT, STALE, WAIT_BUDGET, REQUEST_TIMEOUT,
          PROBES, MAX_PROBES, MAX_TRACKED_IPS,
          MaxTime

ASSUME LimitsAssumption ==
    /\ {RATE, WINDOW, MAX_CONCURRENT, PROBES, MAX_PROBES, MAX_TRACKED_IPS} \subseteq Nat \ {0}
    /\ {WAIT_BUDGET, MaxTime} \subseteq Nat
    /\ REQUEST_TIMEOUT < STALE      \* 30 s and 60 s where nothing is configured

VARIABLES now, profile, request, redis, tat, hits, faults
limitVars == <<now, profile, request, redis, tat, hits, faults>>

Request == DOMAIN profile
Keys == UNION {{profile[r].from, profile[r].who} \cup Range(profile[r].sent) : r \in Request}
Shared(r) == profile[r].proc \notin Degraded
At(r, stages) == request[r].at \in stages
Held == {"admitted", "working"}

-----------------------------------------------------------------------------
(* The address a request counts against: its peer, or behind trusted proxies the nearest address
   that is not one of them.  An entry that is no address ends the search. *)

client_ip(peer, forwarded) ==
    LET outer == {i \in DOMAIN forwarded : forwarded[i] \notin Proxies}
        last == CHOOSE i \in outer : \A j \in outer : j <= i
    IN  IF peer \notin Proxies \/ outer = {} \/ forwarded[last] = "garbled" THEN peer ELSE forwarded[last]

\* What arrives: the header the client sent, with the address each proxy saw behind it.
Arrives(r) ==
    LET p == profile[r]
    IN  IF p.via = <<>> THEN client_ip(p.from, p.sent)
        ELSE client_ip(p.via[Len(p.via)], p.sent \o <<p.from>> \o SubSeq(p.via, 1, Len(p.via) - 1))

-----------------------------------------------------------------------------
(* Redis, and the in-process limiter of a process that runs without it. *)

NoCount == [n |-> 0, until |-> 0]
Live(k) == redis.counts[k].until > now

\* INCR, and PEXPIRE by the call that made the key.
Counted(k) ==
    IF Live(k) THEN [redis EXCEPT !.counts[k].n = @ + 1]
    ELSE [redis EXCEPT !.counts[k] = [n |-> 1, until |-> now + WINDOW]]

WithinRate(k) == Counted(k).counts[k].n <= RATE

\* tower_governor's cell rate: a burst of RATE, refilled over a window.
Arrival(p, k) == IF tat[p][k] > now * RATE THEN tat[p][k] ELSE now * RATE
Conforms(p, k) == Arrival(p, k) + WINDOW <= now * RATE + RATE * WINDOW

\* The slots left once those started STALE ago are dropped.
Fresh(t) == [r \in {s \in DOMAIN redis.slots : redis.slots[s] > t - STALE} |-> redis.slots[r]]

HasRoomOneMore(t) == Cardinality(DOMAIN Fresh(t)) <= MAX_CONCURRENT

HasRoom(t) == Cardinality(DOMAIN Fresh(t)) < MAX_CONCURRENT

Unsent == [at |-> "new", ip |-> "", since |-> 0, read |-> 0, start |-> 0, open |-> FALSE,
           counted |-> -1, charged |-> -1, blocked |-> <<>>]
Ended(r) == [Unsent EXCEPT !.at = "done", !.ip = request[r].ip, !.counted = request[r].counted,
                           !.charged = request[r].charged]

Become(r, fields) == request' = [request EXCEPT ![r] = fields @@ @]

\* A request that holds a slot is followed by its release.
End(r) == request' = [request EXCEPT ![r] =
    IF At(r, {"new", "waiting"}) \/ request[r].open THEN Ended(r) ELSE [Ended(r) EXCEPT !.at = "releasing"]]

-----------------------------------------------------------------------------
(* A rate check against key k: the request goes on, marked with the time where Redis counted it, or
   ends.  An unreachable Redis lets it through. *)
Rate(r, k, next, mark) ==
    IF ~Shared(r)
    THEN LET p == profile[r].proc
         IN  /\ tat' = IF Conforms(p, k) THEN [tat EXCEPT ![p][k] = Arrival(p, k) + WINDOW] ELSE tat
             /\ IF Conforms(p, k) THEN Become(r, next) ELSE End(r)
             /\ UNCHANGED redis
    ELSE IF ~redis.up THEN Become(r, next) /\ UNCHANGED <<redis, tat>>
    ELSE /\ redis' = Counted(k)
         /\ IF WithinRate(k) THEN Become(r, (mark :> now) @@ next) ELSE End(r)
         /\ UNCHANGED tat

rate_limit_middleware(r) ==
    /\ At(r, {"new"})
    /\ Rate(r, Arrives(r), [at |-> "waiting", since |-> now, ip |-> Arrives(r)], "counted")
    /\ UNCHANGED <<now, profile, hits, faults>>

\* An attempt reads the clock, then runs the script.
Attempt(r) ==
    /\ At(r, {"waiting"}) /\ Shared(r)
    /\ Become(r, [at |-> "asking", read |-> now])
    /\ UNCHANGED <<now, profile, redis, tat, hits, faults>>

concurrency_middleware(r) ==
    LET t == request[r].read
    IN  /\ At(r, {"asking"})
        /\ IF ~redis.up
           THEN Become(r, [at |-> "admitted", open |-> TRUE, start |-> now]) /\ UNCHANGED redis
           ELSE IF HasRoom(t)
           THEN /\ redis' = [redis EXCEPT !.slots = (r :> t) @@ Fresh(t)]
                /\ Become(r, [at |-> "admitted", start |-> now])
           ELSE /\ redis' = [redis EXCEPT !.slots = Fresh(t)]
                /\ Become(r, IF now >= request[r].since + WAIT_BUDGET
                             THEN [at |-> "busy", blocked |-> Fresh(t), start |-> now] ELSE [at |-> "waiting"])
        /\ UNCHANGED <<now, profile, tat, hits, faults>>

\* A process without Redis queues on its own permits.
ConcurrencyLimit(r) ==
    /\ At(r, {"waiting"}) /\ ~Shared(r)
    /\ Cardinality({s \in Request : profile[s].proc = profile[r].proc /\ At(s, Held)}) < MAX_CONCURRENT
    /\ Become(r, [at |-> "admitted", open |-> TRUE, start |-> now])
    /\ UNCHANGED <<now, profile, redis, tat, hits, faults>>

-----------------------------------------------------------------------------
(* The handler. *)

\* An authenticated call counts against its principal.
check_principal(r) ==
    /\ At(r, {"admitted"}) /\ profile[r].kind = "call"
    /\ Rate(r, profile[r].who, [at |-> "working"], "charged")
    /\ UNCHANGED <<now, profile, hits, faults>>

Recent(q) == SelectSeq(q, LAMBDA t : now - t < WINDOW)

\* The queues of hits a full table keeps.
RetainedHits(table) == [ip \in {i \in DOMAIN table : Recent(table[i]) # <<>>} |-> Recent(table[ip])]

\* A probe counts against its address within a sliding window, and then needs a permit.
probe(r) ==
    LET p == profile[r].proc
        ip == request[r].ip
        table == IF Cardinality(DOMAIN hits[p]) >= MAX_TRACKED_IPS /\ ip \notin DOMAIN hits[p]
                 THEN RetainedHits(hits[p]) ELSE hits[p]
        q == IF ip \in DOMAIN table THEN Recent(table[ip]) ELSE <<>>
        full == Cardinality(DOMAIN table) >= MAX_TRACKED_IPS /\ ip \notin DOMAIN table
        probing == {s \in Request : profile[s].proc = p /\ profile[s].kind = "probe" /\ At(s, {"working"})}
    IN  /\ At(r, {"admitted"}) /\ profile[r].kind = "probe"
        /\ IF full THEN hits' = [hits EXCEPT ![p] = table] /\ End(r)
           ELSE IF Len(q) >= PROBES
           THEN hits' = [hits EXCEPT ![p] = (ip :> q) @@ table] /\ End(r)
           ELSE /\ hits' = [hits EXCEPT ![p] = (ip :> Append(q, now)) @@ table]
                /\ \E known \in BOOLEAN :      \* the target is in the peer table
                       IF known /\ Cardinality(probing) < MAX_PROBES
                       THEN Become(r, [at |-> "working", charged |-> now])
                       ELSE request' = [request EXCEPT ![r] = [Ended(r) EXCEPT
                                !.charged = now, !.at = IF request[r].open THEN "done" ELSE "releasing"]]
        /\ UNCHANGED <<now, profile, redis, tat, faults>>

\* The response is sent, the client goes away, or the time limit cuts the handler: the guard starts
\* the release of the slot.
Finish(r) ==
    /\ At(r, Held)
    /\ End(r)
    /\ UNCHANGED <<now, profile, redis, tat, hits, faults>>

\* ZREM; its failure is not noticed.
Release(r) ==
    /\ At(r, {"releasing"})
    /\ redis' = IF redis.up THEN [redis EXCEPT !.slots = Restrict(@, DOMAIN @ \ {r})] ELSE redis
    /\ request' = [request EXCEPT ![r] = Ended(r)]
    /\ UNCHANGED <<now, profile, tat, hits, faults>>

-----------------------------------------------------------------------------
\* A process ends with everything it was doing.
Crash(p) ==
    /\ faults > 0 /\ faults' = faults - 1
    /\ request' = [r \in Request |->
          IF profile[r].proc = p /\ request[r].at # "new"
          THEN [Ended(r) EXCEPT !.charged = IF profile[r].kind = "probe" THEN -1 ELSE @] ELSE request[r]]
    /\ tat' = [tat EXCEPT ![p] = [k \in Keys |-> 0]]
    /\ hits' = [hits EXCEPT ![p] = <<>>]
    /\ UNCHANGED <<now, profile, redis>>

Outage ==
    /\ faults > 0 /\ redis.up /\ faults' = faults - 1
    /\ redis' = [redis EXCEPT !.up = FALSE]
    /\ UNCHANGED <<now, profile, request, tat, hits>>

Recover ==
    /\ ~redis.up
    /\ redis' = [redis EXCEPT !.up = TRUE]
    /\ UNCHANGED <<now, profile, request, tat, hits, faults>>

Kept(t) == IF t >= 0 /\ now + 1 - t < WINDOW THEN t ELSE -1

\* The time limit of a request runs from its admission.  Redis drops a counter that expires; a
\* history of what was counted is kept for a window.
LimitsTick ==
    /\ now < MaxTime
    /\ \A r \in Request : At(r, Held) => now < request[r].start + REQUEST_TIMEOUT
    /\ now' = now + 1
    /\ redis' = [redis EXCEPT !.counts = [k \in Keys |-> IF Live(k) /\ @[k].until > now + 1 THEN @[k] ELSE NoCount]]
    /\ request' = [r \in Request |-> [request[r] EXCEPT !.counted = Kept(@), !.charged = Kept(@)]]
    /\ UNCHANGED <<profile, tat, hits, faults>>

-----------------------------------------------------------------------------
LimitsInit ==
    /\ now = 0
    /\ \E p \in Profiles : profile = p.requests /\ faults = p.faults
    /\ request = [r \in Request |-> Unsent]
    /\ redis = [up |-> TRUE, counts |-> [k \in Keys |-> NoCount], slots |-> <<>>]
    /\ tat = [p \in Proc |-> [k \in Keys |-> 0]]
    /\ hits = [p \in Proc |-> <<>>]

LimitsNext ==
    \/ \E r \in Request :
        \/ rate_limit_middleware(r) \/ Attempt(r) \/ concurrency_middleware(r)
        \/ ConcurrencyLimit(r) \/ check_principal(r) \/ probe(r) \/ Finish(r) \/ Release(r)
    \/ \E p \in Proc : Crash(p)
    \/ Outage \/ Recover \/ LimitsTick

LimitsSpec == LimitsInit /\ [][LimitsNext]_limitVars

-----------------------------------------------------------------------------
(* Properties. *)

\* The requests that Redis let in and that still run never pass the ceiling, over all processes:
\* not when a slot is released late or never, not when slots of a dead process are dropped as
\* stale.  (But for a script that took longer than the time limit leaves before STALE.)  A process
\* without Redis keeps the ceiling for itself.
CeilingHolds ==
    /\ Cardinality({r \in Request : Shared(r) /\ At(r, Held) /\ ~request[r].open
                        /\ request[r].start - request[r].read < STALE - REQUEST_TIMEOUT}) <= MAX_CONCURRENT
    /\ \A p \in Degraded : Cardinality({r \in Request : profile[r].proc = p /\ At(r, Held)}) <= MAX_CONCURRENT

====
