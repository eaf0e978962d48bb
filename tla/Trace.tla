----------------------------- MODULE Trace -----------------------------
(* POST /nodes/trace (topology_trace.rs, overlay_routing.rs): a traceroute   *)
(* over the overlay.  Every request a node handles is a frame; a node that   *)
(* is not the target tries its candidates one after the other, each with a   *)
(* share of the time it was given itself, and waits.  A node may be down     *)
(* (refuses at once), mute (never answers) or slow (acts when it likes); the *)
(* others act before time passes.                                            *)
EXTENDS Integers, SequencesExt
CONSTANTS Node, Target, Origin,
          Neighbors,         \* Node -> its active neighbours
          Distance,          \* Node -> its XOR distance to the target, all different
          Healths,           \* the possible [Node -> {"up", "down", "mute", "slow"}]
          Failings,          \* the possible [Node -> neighbours with failed contacts]
          TTL, BUDGET, PER_HOP_TIMEOUT, DOWNSTREAM_MARGIN, MIN_FORWARD_BUDGET,
          MAX_CANDIDATES
ASSUME TraceAssumption ==
    /\ {TTL, BUDGET, PER_HOP_TIMEOUT, MAX_CANDIDATES} \subseteq Nat
    /\ {DOWNSTREAM_MARGIN, MIN_FORWARD_BUDGET} \subseteq Nat \ {0}
VARIABLES health, failing, clock, frames
traceVars == <<health, failing, clock, frames>>

Least(a, b) == IF a < b THEN a ELSE b
Less(a, b) == IF a > b THEN a - b ELSE 0
NoFailure == [on |-> FALSE, reason |-> "none", hops |-> <<>>]
NoReply == [reached |-> FALSE, reason |-> "none", hops |-> <<>>]
Frame(n, ttl, visited, budget) ==
    [node |-> n, ttl |-> ttl, visited |-> visited, start |-> clock, budget |-> budget,
     cands |-> <<>>, at |-> "new", kid |-> 0, until |-> 0, failure |-> NoFailure,
     reply |-> NoReply]

TraceInit == /\ health \in Healths /\ failing \in Failings /\ clock = 0
             /\ frames = <<Frame(Origin, TTL, {}, BUDGET)>>

\* next_hop: closer neighbours first, failing ones after healthy ones, then by
\* distance; a neighbour that is the target goes first of all.
Rank(me, n) == <<IF Distance[n] < Distance[me] THEN 0 ELSE 1,
                 IF n \in failing[me] THEN 1 ELSE 0, Distance[n]>>
Before(me, x, y) == LET p == Rank(me, x)
                        q == Rank(me, y)
                    IN \/ p[1] < q[1]
                       \/ p[1] = q[1] /\ p[2] < q[2]
                       \/ p[1] = q[1] /\ p[2] = q[2] /\ p[3] < q[3]
next_hop(me, visited) ==
    LET open == (Neighbors[me] \ visited) \ {Target, me}
        ordered == SetToSortSeq(open, LAMBDA x, y : Before(me, x, y))
    IN IF Target \in Neighbors[me] THEN <<Target>> \o ordered ELSE ordered

FrameBecomes(f, frame) == frames' = [frames EXCEPT ![f] = frame]
TraceAnswered(f, reached, reason, hops) ==
    [frames[f] EXCEPT !.at = "answered",
                      !.reply = [reached |-> reached, reason |-> reason, hops |-> hops]]
Stay == UNCHANGED <<health, failing, clock>>

\* The checks on arrival, then the choice of candidates.
HopArrives(f) ==
    LET r == frames[f]
        visited == r.visited \cup {r.node}
        cands == next_hop(r.node, visited)
        alone == <<r.node>>
    IN /\ r.at = "new" /\ health[r.node] # "mute"
       /\ FrameBecomes(f, IF r.node \in r.visited THEN TraceAnswered(f, FALSE, "loop", alone)
                    ELSE IF r.node = Target THEN TraceAnswered(f, TRUE, "none", alone)
                    ELSE IF r.ttl = 0 THEN TraceAnswered(f, FALSE, "ttl", alone)
                    ELSE IF cands = <<>> THEN TraceAnswered(f, FALSE, "no_route", alone)
                    ELSE [r EXCEPT !.at = "choosing", !.visited = visited,
                            !.cands = SubSeq(cands, 1, Least(Len(cands), MAX_CANDIDATES))])
       /\ Stay

\* The time given to the next candidate, and what of it is passed on.
Allowed(r) == LET remaining == Less(r.budget, clock - r.start)
              IN IF Len(r.cands) > 1 THEN Least(remaining, PER_HOP_TIMEOUT) ELSE remaining
DownstreamAll(r) == Allowed(r)
Downstream(r) == Less(Allowed(r), DOWNSTREAM_MARGIN)
Failed(r, reason, hops) == [r EXCEPT !.at = "choosing", !.cands = Tail(@), !.kid = 0,
                              !.failure = [on |-> TRUE, reason |-> reason, hops |-> hops]]

Passed(r) == r.ttl - 1

\* A forward that fails at once: refused by the outbound policy, no connection
\* or an answer that is no success.
Unreachable(n) == health[n] = "down"

Forward(f) ==
    LET r == frames[f]
        next == Head(r.cands)
    IN /\ r.at = "choosing" /\ r.cands # <<>> /\ Downstream(r) >= MIN_FORWARD_BUDGET
       /\ IF Unreachable(next)
          THEN FrameBecomes(f, Failed(r, "target_unreachable", <<r.node>>))
          ELSE frames' = Append([frames EXCEPT ![f] = [r EXCEPT !.at = "waiting",
                                      !.kid = Len(frames) + 1, !.until = clock + Allowed(r)]],
                                Frame(next, Passed(r), r.visited, Downstream(r)))
       /\ Stay

\* Out of candidates or of time: the last failure is the answer.
FinishFrame(f) ==
    LET r == frames[f] IN
    /\ r.at = "choosing" /\ (r.cands # <<>> => Downstream(r) < MIN_FORWARD_BUDGET)
    /\ FrameBecomes(f, IF r.failure.on THEN TraceAnswered(f, FALSE, r.failure.reason, r.failure.hops)
                 ELSE TraceAnswered(f, FALSE, "timeout", <<r.node>>))
    /\ Stay

Retried == {"no_route", "timeout", "target_unreachable"}

sanitize(down, max_hops) == down.hops # <<>> /\ Len(down.hops) <= max_hops

\* The neighbour's answer: a longer path than asked for is refused; a dead
\* end is remembered and the next candidate tried; anything else is passed up.
Receive(f) ==
    LET r == frames[f]
        down == frames[r.kid].reply
        hops == <<r.node>> \o down.hops
    IN /\ r.at = "waiting" /\ frames[r.kid].at = "answered" /\ clock <= r.until
       /\ FrameBecomes(f, IF ~sanitize(down, Passed(r) + 1)
                    THEN Failed(r, "target_unreachable", <<r.node>>)
                    ELSE IF ~down.reached /\ down.reason \in Retried
                    THEN [Failed(r, down.reason, hops) EXCEPT
                            !.visited = @ \cup ToSet(down.hops)]
                    ELSE TraceAnswered(f, down.reached, down.reason, hops))
       /\ Stay

GiveUp(f) ==
    LET r == frames[f] IN
    /\ r.at = "waiting" /\ clock >= r.until
    /\ FrameBecomes(f, Failed(r, "timeout", <<r.node>>))
    /\ Stay

Step(f) == HopArrives(f) \/ Forward(f) \/ FinishFrame(f) \/ Receive(f) \/ GiveUp(f)

\* Time passes once the prompt nodes have done what they can.
Busy(f) == LET r == frames[f] IN
           \/ r.at = "new" /\ health[r.node] = "up"
           \/ r.at = "choosing" /\ health[r.node] = "up"
           \/ r.at = "waiting" /\ health[r.node] = "up"
              /\ (frames[r.kid].at = "answered" \/ clock >= r.until)
TraceTick == /\ \A f \in DOMAIN frames : ~Busy(f)
             /\ frames[1].at # "answered" /\ clock < 2 * BUDGET
             /\ clock' = clock + 1 /\ UNCHANGED <<health, failing, frames>>

TraceNext == (\E f \in DOMAIN frames : Step(f)) \/ TraceTick
TraceSpec == TraceInit /\ [][TraceNext]_traceVars

---------------------------------------------------------------------------
\* run_trace's DOWNSTREAM_MARGIN: a node that acts promptly always answers
\* before the node that asked it gives up, whatever the nodes behind it do;
\* so a trace has one branch under way unless a node itself is too slow.
PromptAreHeard ==
    [][\A f \in DOMAIN frames :
         (frames[f].at = "waiting" /\ frames'[f].at = "choosing"
            /\ frames'[f].failure.reason = "timeout" /\ frames[frames[f].kid].at # "answered")
         => health[frames[frames[f].kid].node] # "up"]_traceVars

============================================================================
