---- MODULE Outbound ----
(* How a node reaches a URL another node gave it (server/src/outbound_policy.rs): the address policy, the
   shared name resolver, and the target a request is pinned to.  An address is a sequence of octets, 4
   for IPv4 and 16 for IPv6. *)
EXTENDS Integers, Sequences, FiniteSets, Functions

CONSTANTS
    Caller,             \* requests that need a name
    nameOf, purposeOf,  \* what each asks for: a host, and "critical" or "untrusted"
    Scenes,             \* instances: [callers, answers], the requests made and what the name service
                        \* may answer, sequences of addresses
    Pool,               \* lookups at once for each purpose
    MAX_ABANDONED_LOOKUPS,
    NegativeTtl,        \* ticks a failed name is remembered
    MaxTurns,           \* bound: how often a name's addresses change
    allow_private       \* AVALON_ALLOW_PRIVATE_PEERS

Purpose == {"critical", "untrusted"}

ASSUME OutboundAssumption ==
    /\ IsFiniteSet(Caller)
    /\ \A c \in Caller : purposeOf[c] \in Purpose
    /\ \A s \in Scenes : s.callers \subseteq Caller /\ \A a \in s.answers : a \in Seq(Seq(0..255))
    /\ Pool \in [Purpose -> Nat] /\ MAX_ABANDONED_LOOKUPS \in Nat

VARIABLES
    scene,      \* the instance
    dns,        \* what the name service answers for each host at the moment
    turns,      \* how often that changed
    caller,     \* [phase, flight, target] per request; a flight is named by the request that began it
    flights,    \* host -> the flight a new request joins
    lookup,     \* [phase, answer, running] per flight
    permits,    \* lookup slots in use per purpose
    abandoned,  \* lookups given up on whose call has not returned
    failed,     \* host -> ticks until a failure is forgotten
    reached     \* the addresses connected to

outboundVars == <<scene, dns, turns, caller, flights, lookup, permits, abandoned, failed, reached>>

----
(* Which addresses may be contacted. *)

V4(a) == Len(a) = 4
Zeros(n) == [i \in 1..n |-> 0]

\* to_canonical: an IPv4-mapped address is the address it carries.
Mapped(a) == ~V4(a) /\ SubSeq(a, 1, 12) = Zeros(10) \o <<255, 255>>
unwrap_embedded_v4(a) ==
    IF SubSeq(a, 1, 12) = <<0, 100, 255, 155>> \o Zeros(8) THEN SubSeq(a, 13, 16)
    ELSE IF SubSeq(a, 1, 6) = <<0, 100, 255, 155, 0, 1>> THEN <<a[7], a[8], a[10], a[11]>>
    ELSE IF SubSeq(a, 1, 2) = <<32, 2>> THEN SubSeq(a, 3, 6)
    ELSE a
canonicalize(a) ==
    IF V4(a) THEN a ELSE IF Mapped(a) THEN SubSeq(a, 13, 16) ELSE unwrap_embedded_v4(a)

always_forbidden(address) ==
    LET a == canonicalize(address)
    IN  IF V4(a) THEN \/ a[1] \in {0} \cup 224..255
                      \/ a[1] = 169 /\ a[2] = 254
        ELSE \/ a = Zeros(16)
             \/ a[1] = 255
             \/ a[1] = 254 /\ a[2] \in 128..191
is_private_v4(a) ==
    \/ a[1] \in {10, 127}
    \/ a[1] = 172 /\ a[2] \in 16..31
    \/ a[1] = 192 /\ a[2] = 168
    \/ a[1] = 100 /\ a[2] \in 64..127
is_private_v6(a) ==
    \/ a = Zeros(15) \o <<1>>
    \/ a[1] \in {252, 253}
    \/ a[1] = 254 /\ a[2] \in 192..255
is_private(address) ==
    LET a == canonicalize(address) IN IF V4(a) THEN is_private_v4(a) ELSE is_private_v6(a)

check_ip(a) == ~always_forbidden(a) /\ (allow_private \/ ~is_private(a))

\* An answer is used only when every address in it passes.
check_answer(addrs) == addrs # <<>> /\ \A i \in DOMAIN addrs : check_ip(addrs[i])

----
(* The resolver: one lookup per name at a time, in the pool of whoever asked first. *)

Put(f, k, v) == [x \in DOMAIN f \cup {k} |-> IF x = k THEN v ELSE f[x]]
Drop(f, k) == Restrict(f, DOMAIN f \ {k})
Unused == [phase |-> "none", answer |-> <<>>, running |-> FALSE]

Refuse(c) == caller' = [caller EXCEPT ![c].phase = "refused"]

recently_failed(h) == h \in DOMAIN failed

\* resolve, first part: a name that failed a moment ago is not looked up.
Ask(c) ==
    /\ caller[c].phase = "idle"
    /\ IF recently_failed(nameOf[c]) THEN Refuse(c) ELSE caller' = [caller EXCEPT ![c].phase = "asked"]
    /\ UNCHANGED <<dns, turns, flights, lookup, permits, abandoned, failed, reached>>

\* Whether a new lookup may begin.
MayBegin(c) ==
    /\ purposeOf[c] = "untrusted" => abandoned < MAX_ABANDONED_LOOKUPS
    /\ permits[purposeOf[c]] < Pool[purposeOf[c]]

\* Second part, under the lock: the request joins the name's lookup, or begins one.
Join(c) == nameOf[c] \in DOMAIN flights

resolve_host(c) ==
    LET h == nameOf[c]
    IN  /\ caller[c].phase = "asked"
        /\ \/ /\ Join(c)
              /\ caller' = [caller EXCEPT ![c] = [phase |-> "waiting", flight |-> flights[h], target |-> <<>>]]
              /\ UNCHANGED <<flights, lookup, permits>>
           \/ /\ ~Join(c) /\ ~MayBegin(c)
              /\ Refuse(c)
              /\ UNCHANGED <<flights, lookup, permits>>
           \/ /\ ~Join(c) /\ MayBegin(c)
              /\ permits' = [permits EXCEPT ![purposeOf[c]] = @ + 1]
              /\ flights' = Put(flights, h, c)
              /\ lookup' = [lookup EXCEPT ![c] = [phase |-> "looking", answer |-> <<>>, running |-> TRUE]]
              /\ caller' = [caller EXCEPT ![c] = [phase |-> "waiting", flight |-> c, target |-> <<>>]]
        /\ UNCHANGED <<dns, turns, abandoned, failed, reached>>

\* What the flight's task keeps of a failure.
remember_failure(h, answer) == IF answer = <<>> THEN Put(failed, h, NegativeTtl) ELSE failed

\* The name service answers in time: with addresses, or with none.
Answered(f, answer) ==
    /\ lookup[f].phase = "looking"
    /\ answer \in {dns[nameOf[f]], <<>>}
    /\ lookup' = [lookup EXCEPT ![f] = [phase |-> "judged", answer |-> answer, running |-> FALSE]]
    /\ failed' = remember_failure(nameOf[f], answer)
    /\ UNCHANGED <<dns, turns, caller, flights, permits, abandoned, reached>>

\* It does not: the call cannot be cancelled, and is counted until it returns.
TimedOut(f) ==
    /\ lookup[f].phase = "looking"
    /\ lookup' = [lookup EXCEPT ![f].phase = "judged"]
    /\ abandoned' = abandoned + 1
    /\ failed' = remember_failure(nameOf[f], <<>>)
    /\ UNCHANGED <<dns, turns, caller, flights, permits, reached>>
Returned(f) ==
    /\ lookup[f].phase # "looking" /\ lookup[f].running
    /\ lookup' = [lookup EXCEPT ![f].running = FALSE]
    /\ abandoned' = abandoned - 1
    /\ UNCHANGED <<dns, turns, caller, flights, permits, failed, reached>>

\* FlightGuard, the permit and the answer go in this order, each a step of its own.
UnlistOnSuccess(f) ==
    /\ lookup[f].phase = "judged"
    /\ flights' = IF lookup[f].answer = <<>> THEN flights ELSE Drop(flights, nameOf[f])
    /\ lookup' = [lookup EXCEPT ![f].phase = "unlisted"]
    /\ UNCHANGED <<dns, turns, caller, permits, abandoned, failed, reached>>
Unlist(f) ==
    /\ lookup[f].phase = "judged"
    /\ flights' = Drop(flights, nameOf[f])
    /\ lookup' = [lookup EXCEPT ![f].phase = "unlisted"]
    /\ UNCHANGED <<dns, turns, caller, permits, abandoned, failed, reached>>
ReleasePermit(f) ==
    /\ lookup[f].phase = "unlisted"
    /\ permits' = [permits EXCEPT ![purposeOf[f]] = @ - 1]
    /\ lookup' = [lookup EXCEPT ![f].phase = "released"]
    /\ UNCHANGED <<dns, turns, caller, flights, abandoned, failed, reached>>
Send(f) ==
    /\ lookup[f].phase = "released"
    /\ lookup' = [lookup EXCEPT ![f].phase = "sent"]
    /\ UNCHANGED <<dns, turns, caller, flights, permits, abandoned, failed, reached>>

\* check_base_url_for: the answer is judged and the request pinned to its first address.
Resolved(c) ==
    LET answer == lookup[caller[c].flight].answer
    IN  /\ caller[c].phase = "waiting" /\ lookup[caller[c].flight].phase = "sent"
        /\ IF check_answer(answer)
           THEN caller' = [caller EXCEPT ![c] = [phase |-> "checked", flight |-> caller[c].flight,
                                                 target |-> answer[1]]]
           ELSE Refuse(c)
        /\ UNCHANGED <<dns, turns, flights, lookup, permits, abandoned, failed, reached>>

\* CheckedTarget.client: the connection goes to the pinned address, whatever the name means by now.
client(c) == caller[c].target
Connect(c) ==
    /\ caller[c].phase = "checked"
    /\ reached' = reached \cup {client(c)}
    /\ caller' = [caller EXCEPT ![c].phase = "connected"]
    /\ UNCHANGED <<dns, turns, flights, lookup, permits, abandoned, failed>>

\* A name gets other addresses.
DnsTurns(h, a) ==
    /\ turns < MaxTurns /\ dns[h] # a
    /\ turns' = turns + 1
    /\ dns' = [dns EXCEPT ![h] = a]
    /\ UNCHANGED <<caller, flights, lookup, permits, abandoned, failed, reached>>

LookupTick ==
    /\ DOMAIN failed # {}
    /\ failed' = [h \in {x \in DOMAIN failed : failed[x] > 1} |-> failed[h] - 1]
    /\ UNCHANGED <<dns, turns, caller, flights, lookup, permits, abandoned, reached>>

OutboundInit ==
    /\ scene \in Scenes
    /\ dns \in [{nameOf[c] : c \in scene.callers} -> scene.answers]
    /\ turns = 0
    /\ caller = [c \in Caller |-> [phase |-> "idle", flight |-> c, target |-> <<>>]]
    /\ flights = [h \in {} |-> 0] /\ failed = [h \in {} |-> 0]
    /\ lookup = [c \in Caller |-> Unused]
    /\ permits = [p \in Purpose |-> 0]
    /\ abandoned = 0 /\ reached = {}

OutboundNext ==
    /\ UNCHANGED scene
    /\ \/ \E c \in scene.callers :
             \/ Ask(c) \/ resolve_host(c) \/ Resolved(c) \/ Connect(c)
             \/ \E a \in scene.answers \cup {<<>>} : Answered(c, a)
             \/ TimedOut(c) \/ Returned(c) \/ Unlist(c) \/ ReleasePermit(c) \/ Send(c)
       \/ \E h \in DOMAIN dns, a \in scene.answers : DnsTurns(h, a)
       \/ LookupTick

OutboundSpec == OutboundInit /\ [][OutboundNext]_outboundVars

----
(* Properties *)

\* A request that waits has a lookup of its name that will answer it: a listed flight is at work, and a
\* flight that is not is on its way to its answer (FlightGuard).
WaitersAreServed ==
    /\ \A c \in Caller : caller[c].phase = "waiting" =>
          /\ lookup[caller[c].flight].phase # "none"
          /\ nameOf[caller[c].flight] = nameOf[c]
    /\ \A h \in DOMAIN flights : lookup[flights[h]].phase \in {"looking", "judged"}
    /\ \A p \in Purpose : permits[p] =
          Cardinality({f \in Caller : purposeOf[f] = p
                                      /\ lookup[f].phase \in {"looking", "judged", "unlisted"}})
====
