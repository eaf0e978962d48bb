------------------------------ MODULE MCPeers ------------------------------
(* The peer network on small instances: the peer table, the heads peers       *)
(* gossip, the shard directory, the known list, relays, the admission of      *)
(* shards to mirror and the gathering of cosignatures.  A behaviour moves the *)
(* component in focus; the others stay as they begin.                         *)
EXTENDS Peers, HeadGossip, ShardDirectory, RelaySlots, Admission, Gather, TLC

CONSTANTS Focused,  \* the components of a run, of which a behaviour moves one
          boot, web, str1, str2, i1, i2, rep1, rep2, rep3, self, x, y, sx, sy, ro1, ro2,
          sa, sb, s1, uo, u1, u2, q1, q2, a1, w1, w2, w3, net1, net2, r1, r2, r3

VARIABLE focus

-----------------------------------------------------------------------------
(* Peers: honest and mistaken announces, over streams and over plain HTTP;    *)
(* and old news of both peers, one with a wrong id.                           *)

Told(id, advert, age) == [id |-> id, bound |-> FALSE, advert |-> advert, age |-> age]
AnnounceRequests ==
    {[url |-> web, info |-> Told(id, "relayed", 0), authenticated |-> FALSE] : id \in {i1, i2}}
      \cup {[url |-> str1, info |-> Told(str1, "none", 0), authenticated |-> a] : a \in BOOLEAN}
      \cup {[url |-> str2, info |-> Told(str2, "none", 0), authenticated |-> TRUE]}
OldNews == {[url |-> web, info |-> Told(i2, "relayed", 1)],
            [url |-> str1, info |-> Told(str1, "none", 1)]}
SameCalls == Permutations(AnnounceCall)

-----------------------------------------------------------------------------
(* Gossiped heads: one fork at x between rep1 and rep2, and at y a made-up root of  *)
(* the newcomer rep3, who may also relay a head it does not hold.                *)

HeadAt(pl, r) == [place |-> pl, root |-> r]
ShardOfPlace == (x :> sx) @@ (y :> sy)
HoldsOwn == (rep1 :> {HeadAt(x, ro1)}) @@ (rep2 :> {HeadAt(x, ro2)}) @@ (rep3 :> {HeadAt(y, ro2)})
              @@ (self :> {HeadAt(y, ro1)})
SaysAndRelays == [r \in DOMAIN HoldsOwn |->
                    HoldsOwn[r] \cup CASE r = rep1 -> {HeadAt(y, ro1)} [] r = rep3 -> {HeadAt(x, ro2)}
                                       [] OTHER -> {}]
SaysHeld == [r \in DOMAIN HoldsOwn |-> HoldsOwn[r] \cup IF r = rep1 THEN {HeadAt(y, ro1)} ELSE {}]
AuthorsHeads == {HeadAt(x, ro1), HeadAt(x, ro2), HeadAt(y, ro1)}

-----------------------------------------------------------------------------
(* The shard directory: lists of one shard's URLs over streams and HTTP.      *)

MixedList == (sa :> << <<s1, q1>>, <<s1, u1>>, <<s1, q2>>, <<s1, u2>> >>) @@ (sb :> << <<s1, u2>> >>)

-----------------------------------------------------------------------------
(* The known list: an anchor and two witnesses on one network, a third on     *)
(* another.                                                                   *)

WitnessNetwork == (a1 :> net1) @@ (w1 :> net1) @@ (w2 :> net1) @@ (w3 :> net2)
TickOffers == {{}, {a1, w1, w2, w3}, {w1, w2, w3}, {a1, w3}, {a1, w1}, {a1, w2}}

-----------------------------------------------------------------------------
(* Relays: two on one network; or three, of which the best ranked never       *)
(* answers and the last only on its second address.                           *)

PeerIdOrder == (r1 :> 1) @@ (r2 :> 2) @@ (r3 :> 3)
NoneConfigured == <<>>
OneAddress == [r \in {r1, r2, r3} |-> 1]
TwoAddresses == [OneAddress EXCEPT ![r3] = 2]
AllAnswer == [r \in {r1, r2, r3} |-> {0}]
SecondOnly == (r1 :> {}) @@ (r2 :> {0}) @@ (r3 :> {1})
ListedNetwork == (r1 :> net1) @@ (r2 :> net1) @@ (r3 :> net2)
SeenNetwork == (r1 :> net2) @@ (r2 :> net1) @@ (r3 :> net2)
Measured == {(r1 :> 60) @@ (r2 :> 20) @@ (r3 :> -1)}

-----------------------------------------------------------------------------
(* Admission: one listed peer, whose URL also serves a shard of the registry. *)

OneListed == <<Pair("l", "u")>>
Registry == <<"d1", "d2", "d3">>
RegistryUrls == [s \in Range(Registry) |-> IF s = "d1" THEN "u" ELSE s]

-----------------------------------------------------------------------------
NetInit ==
    /\ focus \in Focused
    /\ PeerInit
    /\ focus # "peers" => \A c \in AnnounceCall : announces[c].url = str2
    /\ GossipInit
    /\ ShardInit /\ (focus # "shards" => mirroring = {})
    /\ KnownInit /\ RelayInit /\ AdmissionInit
    /\ GatherInit /\ (focus # "gather" => kind = "author")

NetNext ==
    \/ /\ focus = "peers" /\ PeerNext
       /\ UNCHANGED <<focus, gossipVars, shardVars, knownVars, relayVars, admissionVars, gatherVars>>
    \/ /\ focus = "gossip" /\ GossipNext
       /\ UNCHANGED <<focus, peerVars, shardVars, knownVars, relayVars, admissionVars, gatherVars>>
    \/ /\ focus = "shards" /\ ShardNext
       /\ UNCHANGED <<focus, peerVars, gossipVars, knownVars, relayVars, admissionVars, gatherVars>>
    \/ /\ focus = "known" /\ KnownNext
       /\ UNCHANGED <<focus, peerVars, gossipVars, shardVars, relayVars, admissionVars, gatherVars>>
    \/ /\ focus = "relay" /\ RelayNext
       /\ UNCHANGED <<focus, peerVars, gossipVars, shardVars, knownVars, admissionVars, gatherVars>>
    \/ /\ focus = "admission" /\ AdmissionNext
       /\ UNCHANGED <<focus, peerVars, gossipVars, shardVars, knownVars, relayVars, gatherVars>>
    \/ /\ focus = "gather" /\ GatherNext
       /\ UNCHANGED <<focus, peerVars, gossipVars, shardVars, knownVars, relayVars, admissionVars>>

netVars == <<focus, peerVars, gossipVars, shardVars, knownVars, relayVars, admissionVars, gatherVars>>

NetSpec == NetInit /\ [][NetNext]_netVars

(* The fairness that each component's own specification assumes.              *)
NetFairness ==
    /\ \A r \in Reporter : \A h \in Says[r] : WF_gossipVars(focus = "gossip" /\ Report(r, h))
    /\ \A pl \in Place : WF_gossipVars(focus = "gossip" /\ Confirmation(pl))
    /\ \A a \in Peer : WF_shardVars(focus = "shards" /\ Exchange(a))
    /\ []<>(focus = "relay" => due) /\ []<>(focus = "relay" => ~due)
    /\ \A w \in Watcher : WF_admissionVars(focus = "admission" /\ Watch(w))
    /\ WF_gatherVars(focus = "gather" /\ GatherWorker)

FairNetSpec == NetSpec /\ NetFairness

-----------------------------------------------------------------------------
(* A fork reported by peers that hold its two heads is confirmed in the end   *)
(* (equivocation.rs, spawn_confirmation).                                     *)
GossipConfirmsForks == focus = "gossip" => ForksAreConfirmed

(* A URL that a peer keeps announcing is looked up in the end (nodes.rs,      *)
(* verify_new_shards).                                                        *)
DirectoryExaminesUrls == focus = "shards" => EveryUrlIsExamined

(* The head gets back a fresh majority and keeps it (author_cosign_gather.rs, *)
(* witness_refresh.rs).                                                       *)
GatherKeepsFresh == focus = "gather" => FreshnessReturns
=============================================================================
