------------------------------ MODULE MCNode ------------------------------
(* A node's process on small instances: the requests it sends to peers and    *)
(* serves them, the credentials it checks, its outbound lookups, topology     *)
(* traces, request limits, start-up and shutdown, and its keys.  A behaviour  *)
(* moves the component in focus; the others stay as they begin.               *)
EXTENDS NodeStream, NodeAuth, Outbound, Trace, RequestLimits, Lifecycle

CONSTANTS c1, c2, k1, k2, h1, h2, o1, o2, o3

VARIABLE focus

-----------------------------------------------------------------------------
(* Requests to a peer, two at a time: reads and writes, over a stream or the  *)
(* peer's URL.                                                                *)

Get == [method |-> "GET", names |-> "p2p", bound |-> TRUE, pinned |-> FALSE]
Post == [Get EXCEPT !.method = "POST"]
PostUrl == [Post EXCEPT !.names = "url"]
Pinned == [Get EXCEPT !.pinned = TRUE]
PeerRequests == {c1 :> f @@ c2 :> Post : f \in {Get, Post, PostUrl, Pinned}}

-----------------------------------------------------------------------------
(* Credentials: one delivered again and again; several of two keys; streams   *)
(* beside one; and one whose signature fails.                                 *)

First == sign_node_request(k1, 1, 2)
Second == sign_node_request(k1, 2, 2)
Other == sign_node_request(k2, 1, 4)
Garbled == [sign_node_request(k2, 2, 3) EXCEPT !.valid = FALSE]
Delivered(headers, streams, changed) ==
    [headers |-> headers, streams |-> streams, changes |-> changed]
Deliveries == {Delivered({First}, {}, 1), Delivered({First, Second, Other}, {}, 0),
               Delivered({First}, {k1, k2}, 0), Delivered({Garbled, Other}, {}, 1)}
SameRequests == Permutations(Requests)

-----------------------------------------------------------------------------
(* Lookups: all answers for two requests of one name, and one answer for      *)
(* three requests of two names.  The answers are a public address; the same   *)
(* beside a private one; a link-local one, its 6to4 form and its NAT64 form.  *)

HostOf == o1 :> h1 @@ o2 :> h1 @@ o3 :> h2
PurposeOf == o1 :> "untrusted" @@ o2 :> "critical" @@ o3 :> "untrusted"
OneEach == [p \in Purpose |-> 1]
Public == <<198, 51, 100, 7>>
Metadata == <<169, 254, 169, 254>>
Private == <<10, 0, 0, 1>>
AnswerSet == {<<Public>>, <<Public, Private>>, <<Metadata>>, <<<<32, 2>> \o Metadata \o Zeros(10)>>,
              <<<<0, 100, 255, 155>> \o Zeros(8) \o Metadata>>}
TwoScenes == {[callers |-> {o1, o2}, answers |-> AnswerSet],
              [callers |-> {o1, o2, o3}, answers |-> {<<Public>>}]}

-----------------------------------------------------------------------------
(* Traces: six nodes, up to two of them poor, and failed contacts.            *)

Overlay == [n \in Node |-> CASE n = "o" -> {"a", "b", "c"}
                             [] n = "a" -> {"o", "b", "d"}
                             [] n = "b" -> {"o", "a", "t"}
                             [] n = "c" -> {"o", "d"}
                             [] n = "d" -> {"a", "c", "t"}
                             [] n = "t" -> {"b", "d"}]
Metric == [n \in Node |-> CASE n = "t" -> 0 [] n = "a" -> 1 [] n = "b" -> 2 [] n = "o" -> 3
                            [] n = "c" -> 4 [] n = "d" -> 5]
TwoPoor == {h \in [Node -> {"up", "down", "mute", "slow"}] :
              h["o"] = "up" /\ Cardinality({n \in Node : h[n] # "up"}) <= 2}
SomeFailing == {[n \in Node |-> {}], [n \in Node |-> IF n = "o" THEN {"a"} ELSE {}],
                [n \in Node |-> IF n = "a" THEN {"b", "d"} ELSE {}]}

-----------------------------------------------------------------------------
(* Limits: two clients on two processes that share Redis, one client three    *)
(* times, probes from two addresses on one process, and the call and the      *)
(* probe of a process that runs without Redis.                                *)

Is(proc, from, via, sent, who, sort) ==
    [proc |-> proc, from |-> from, via |-> via, sent |-> sent, who |-> who, kind |-> sort]
Mixes ==
    {[faults |-> 1, requests |->
        <<Is("p1", "a", <<>>, <<"b">>, "", "open"), Is("p2", "c", <<"x", "y">>, <<"x">>, "", "open")>>],
     [faults |-> 0, requests |->
        <<Is("p1", "a", <<>>, <<>>, "i", "call"), Is("p2", "a", <<"y">>, <<"b">>, "i", "call"),
          Is("p2", "a", <<"x", "y">>, <<"garbled">>, "i", "call")>>],
     [faults |-> 0, requests |->
        <<Is("p1", "a", <<>>, <<>>, "", "probe"), Is("p1", "b", <<>>, <<>>, "", "probe"),
          Is("p1", "a", <<"x">>, <<>>, "", "probe")>>],
     [faults |-> 1, requests |->
        <<Is("solo", "b", <<>>, <<>>, "i", "call"), Is("solo", "c", <<>>, <<>>, "", "probe")>>]}

-----------------------------------------------------------------------------
(* Start-ups: the default, and what changes one setting of it at a time.      *)

Base == [bundled |-> TRUE, replica |-> FALSE, roles |-> {"combined"}, backing |-> FALSE,
         shard |-> "core", remote |-> FALSE, anchor |-> "dev", pinned |-> FALSE,
         key |-> "env"]
Startups == {Base,
             [Base EXCEPT !.bundled = FALSE, !.remote = TRUE, !.shard = "unset", !.key = "file"],
             [Base EXCEPT !.anchor = "network"],
             [Base EXCEPT !.replica = TRUE, !.shard = "unset"],
             [Base EXCEPT !.replica = TRUE],
             [Base EXCEPT !.roles = {"settlement"}, !.backing = TRUE],
             [Base EXCEPT !.roles = {"settlement"}],
             [Base EXCEPT !.roles = {"gateway", "indexer"}, !.remote = TRUE]}

-----------------------------------------------------------------------------
(* Keys: an author, one with a key from the environment and a replica start   *)
(* on one directory.                                                          *)

ThreeSetups == [s \in Start |-> [env |-> IF s = "b" THEN {"witness"} ELSE {}, replica |-> s = "c",
                                 remote |-> FALSE]]

-----------------------------------------------------------------------------
NodeInit ==
    /\ focus \in {"stream", "auth", "outbound", "trace", "limits", "lifecycle", "keys"}
    /\ StreamInit /\ (focus # "stream" => \A c \in Call : calls[c].at = "done")
    /\ AuthInit /\ (focus # "auth" => traffic = Delivered({First}, {}, 1) /\ standing = Signer)
    /\ OutboundInit /\ (focus # "outbound" => scene.answers = {<<Public>>})
    /\ TraceInit /\ (focus # "trace" => /\ \A n \in Node : health[n] = "up"
                                        /\ \A n \in Node : failing[n] = {})
    /\ LimitsInit /\ (focus # "limits" => Len(profile) = 2 /\ profile[1].proc = "solo")
    /\ LifecycleInit /\ (focus # "lifecycle" => config = Base)
    /\ KeysInit

NodeNext ==
    \/ /\ focus = "stream" /\ StreamNext
       /\ UNCHANGED <<focus, authVars, outboundVars, traceVars, limitVars, lifecycleVars, keyVars>>
    \/ /\ focus = "auth" /\ AuthNext
       /\ UNCHANGED <<focus, streamVars, outboundVars, traceVars, limitVars, lifecycleVars, keyVars>>
    \/ /\ focus = "outbound" /\ OutboundNext
       /\ UNCHANGED <<focus, streamVars, authVars, traceVars, limitVars, lifecycleVars, keyVars>>
    \/ /\ focus = "trace" /\ TraceNext
       /\ UNCHANGED <<focus, streamVars, authVars, outboundVars, limitVars, lifecycleVars, keyVars>>
    \/ /\ focus = "limits" /\ LimitsNext
       /\ UNCHANGED <<focus, streamVars, authVars, outboundVars, traceVars, lifecycleVars, keyVars>>
    \/ /\ focus = "lifecycle" /\ LifecycleNext
       /\ UNCHANGED <<focus, streamVars, authVars, outboundVars, traceVars, limitVars, keyVars>>
    \/ /\ focus = "keys" /\ KeysNext
       /\ UNCHANGED <<focus, streamVars, authVars, outboundVars, traceVars, limitVars, lifecycleVars>>

nodeVars == <<focus, streamVars, authVars, outboundVars, traceVars, limitVars, lifecycleVars, keyVars>>

NodeSpec == NodeInit /\ [][NodeNext]_nodeVars
=============================================================================
