------------------------------- MODULE MCLog -------------------------------
(* What is computed from a log, on small instances: Merkle proofs, mirrors    *)
(* that serve and prune it, hand-over to a new author, roots over several     *)
(* shards and the read model; and what is in it: signing bytes, canonical     *)
(* payloads, identity chains and the lookup of an identity's keys.  A         *)
(* behaviour moves the component in focus; the others stay as they begin.     *)
EXTENDS Merkle, Serving, Handover, CrossShard, SigningBytes, ReadModel,
        IdentityChain, RemoteLookup, TLC

CONSTANTS Focused,  \* the components of a run, of which a behaviour moves one
          A, m1, m2, m3, g1, g2, co, og, k1, k2, q1, q2, nm, alt, pia, quo, xan, yul

VARIABLE focus

-----------------------------------------------------------------------------
(* Serving: two archives while payloads are discarded; and a mirror of a      *)
(* mirror whose sources change.                                               *)

PeersOf(a, b, c) == m1 :> a @@ m2 :> b @@ m3 :> c
TwoScenarios == {[first |-> PeersOf({A}, {A}, {}), then |-> PeersOf({A}, {A}, {}), start |-> 0],
                 [first |-> PeersOf({A}, {A, m1}, {m2}), then |-> PeersOf({A}, {m1}, {m2}),
                  start |-> MaxClock]}

-----------------------------------------------------------------------------
(* Hand-over: an author that signed two histories.                            *)

Signed == {<<"a">>, <<"a", "b">>, <<"c", "d">>}
Attempts == {1, 2}

-----------------------------------------------------------------------------
(* Roots over shards: two shards of one owner and the core shard.             *)

Owners == [s \in {g1, g2} |-> og]
ByteOrder == [s \in {g1, g2, co} |-> IF s = g2 THEN 1 ELSE IF s = co THEN 2 ELSE 3]
NoStaticKeys == [s \in {g1, g2, co} |-> {}]
NewKeyScene ==
    [log |-> <<Registered(og)>>, requests |-> {q1}, asks |-> {<<"network", "none">>}, events |-> 2]
CrossScenes ==
    {NewKeyScene,
     [log |-> <<Registered(og), Added(og, k1, "shard_settlement")>>, requests |-> {q1},
      asks |-> {<<"network", "none">>}, events |-> 3],
     [log |-> <<Registered(og), Added(og, k1, "shard_settlement")>>, requests |-> {q1, q2},
      asks |-> {<<"network", "none">>}, events |-> 2],
     [log |-> <<Registered(og), Added(og, k1, "shard_settlement")>>, requests |-> {q1},
      asks |-> {<<og, m>> : m \in {"list", "none", g1, g2, co}}, events |-> 2]}

-----------------------------------------------------------------------------
(* Signing bytes: an older and a newer build; every layout with its fields    *)
(* changed one at a time, or two, and every extensions region of at most two  *)
(* entries.                                                                   *)

KindNames == {"settlement.sth", "witness.cosign", "witness.announce", "ledger.entry",
              "identity.chain_event", "identity.key_event", "identity.created",
              "device_grant.approved", "identity.signing_key_revoked", "attestation.issue",
              "attestation.bulk_issue", "attestation.revoke", "conformance"}

OldAndNew ==
    LET layouts(n) == [k \in KindNames |-> IF k = "conformance" THEN n ELSE 1]
    IN  {[layouts |-> layouts(1), rules |-> 1, algos |-> {1}, understood |-> {},
          caps |-> <<<<1, 15>>>>],
         [layouts |-> layouts(2), rules |-> 2, algos |-> {1, 2}, understood |-> {2},
          caps |-> <<<<1, 15>>, <<2, 16>>>>]}

\* One byte per tag but for three tags of two bytes that share their first.
Tags == [k \in KindNames |->
    CASE k = "settlement.sth" -> <<1>> [] k = "witness.cosign" -> <<2, 1>>
      [] k = "witness.announce" -> <<2, 2>> [] k = "ledger.entry" -> <<2, 3>>
      [] k = "identity.chain_event" -> <<3>> [] k = "identity.key_event" -> <<4>>
      [] k = "identity.created" -> <<5>> [] k = "device_grant.approved" -> <<6>>
      [] k = "identity.signing_key_revoked" -> <<7>> [] k = "attestation.issue" -> <<8>>
      [] k = "attestation.bulk_issue" -> <<9>> [] k = "attestation.revoke" -> <<10>>
      [] k = "conformance" -> <<11>>]

Plain(kind) == [kind |-> kind, layout |-> 1, rules |-> 1, algo |-> 1, key |-> [algo |-> 1, value |-> 0],
                text |-> [i \in 1..5 |-> <<>>], num |-> [i \in 1..6 |-> 0], prev |-> <<>>,
                list |-> <<>>, grant |-> FALSE, entries |-> <<>>]

\* How many texts and numbers each layout writes.
Texts(kind) == CASE kind \in {"settlement.sth", "identity.created"} -> 2
                 [] kind \in {"witness.cosign", "identity.chain_event", "attestation.bulk_issue"} -> 3
                 [] kind \in {"witness.announce", "device_grant.approved",
                              "identity.signing_key_revoked"} -> 1
                 [] kind = "ledger.entry" -> 5 [] kind = "identity.key_event" -> 0
                 [] kind \in {"attestation.issue", "attestation.revoke"} -> 4
                 [] kind = "conformance" -> 2
Nums(kind) == CASE kind \in {"settlement.sth", "attestation.issue", "attestation.bulk_issue",
                             "attestation.revoke"} -> 3
                [] kind \in {"witness.cosign", "device_grant.approved",
                             "identity.signing_key_revoked", "identity.key_event"} -> 4
                [] kind = "witness.announce" -> 1 [] kind = "identity.created" -> 2
                [] kind \in {"ledger.entry", "identity.chain_event"} -> 6
                [] kind = "conformance" -> 0

Changed(d) ==
    {[d EXCEPT !.text[i] = s] : i \in 1..Texts(d.kind), s \in {<<1>>, <<0, 0>>}}
    \cup {[d EXCEPT !.num[i] = 1] : i \in 1..(IF d.grant THEN 5 ELSE Nums(d.kind))}
    \cup (IF d.kind \in {"identity.chain_event", "identity.key_event", "device_grant.approved",
                         "identity.signing_key_revoked"}
          THEN {[d EXCEPT !.prev = <<n>>] : n \in {0, 1}} ELSE {})
    \cup (IF d.kind = "attestation.bulk_issue"
          THEN {[d EXCEPT !.list = l] : l \in {<<<<>>>>, <<<<>>, <<>>>>, <<<<1>>, <<>>>>, <<<<>>, <<1>>>>}}
          ELSE {})
    \cup (IF d.kind = "identity.key_event" THEN {[d EXCEPT !.grant = TRUE]} ELSE {})

Lists == UNION {[1..n -> [type : {1, 2}, critical : BOOLEAN, value : {<<>>, <<1, 0>>}]] : n \in 0..2}

AllDrafts ==
    (UNION {{Plain(k)} \cup Changed(Plain(k)) : k \in KindNames \ {"conformance"}})
    \cup UNION {Changed(d) : d \in Changed(Plain("attestation.bulk_issue"))}
    \cup {[Plain("ledger.entry") EXCEPT !.entries = l] : l \in Lists}
    \cup {[Plain("conformance") EXCEPT !.entries = l] : l \in Lists}
    \cup {[Plain("conformance") EXCEPT !.entries = l, !.layout = n, !.rules = r] :
            l \in {e \in Lists : Len(e) < 2}, n \in {1, 2}, r \in {0, 1, 2}}
    \cup {[Plain("conformance") EXCEPT !.algo = a, !.key.algo = b, !.text[1] = s, !.text[2] = t] :
            a \in {1, 2}, b \in {1, 2}, s \in {<<>>, <<1>>}, t \in {<<>>, <<1>>}}

NoiseBytes == {0, 1, 2}

-----------------------------------------------------------------------------
(* Canonical payloads: every text of a few pieces of three kinds, a number, a *)
(* string, and an object of nested members.  Limits are scaled down: 30 for   *)
(* 2^53, 2 digits for 15, exponents from 10^-2 on for 10^-6.                  *)

Member(name, v) == <<"\"", name, "\"", ":", v>>

TextKinds == [sc \in {"number", "string", "object"} |->
    CASE sc = "number" ->
           [opening |-> <<>>, bound |-> 5,
            pieces |-> {<<"-">>, <<"0">>, <<"1">>, <<"5">>, <<".">>, <<"e", "-">>, <<"E">>}]
      [] sc = "string" ->
           [opening |-> <<"\"">>, bound |-> 3,
            pieces |-> {<<"\"">>, <<"\\">>, <<"b">>, <<"/">>, <<"BS">>, <<"US">>, <<"\\", "u", "x0000">>,
                        <<"\\", "u", "x001f">>, <<"\\", "u", "xd800">>, <<"\\", "u", "xdc00">>, <<"ASTRAL">>}]
      [] sc = "object" ->
           [opening |-> <<"{">>, bound |-> 4,
            pieces |-> {Member("PUA", "1"), Member("ASTRAL", "1"), Member("a", "["), Member("PUA", "{"),
                        <<",">>, <<"}">>, <<"]">>, <<"null">>, <<"\"", "\\", "u", "x0000", "\"", ":", "1">>}]]

-----------------------------------------------------------------------------
(* The read model: four stories, and the order their events depend on.        *)

Tagged == [who \in {pia, quo, xan, yul} |-> "tag"]

\* An event with every field a kind may carry.
StoryEvent(id, kind, carried) ==
  [f \in {"id", "kind", "seen", "awaited", "foreign", "issuer", "integrator", "key",
         "attestation", "binding", "who", "signer", "name"} |->
     IF f = "id" THEN id
     ELSE IF f = "kind" THEN kind
     ELSE IF f \in DOMAIN carried THEN carried[f]
     ELSE IF f \in {"seen", "awaited"} THEN {}
     ELSE IF f = "foreign" THEN FALSE ELSE nm]

KeyStory ==
    {StoryEvent("Registered", "game.registered", [issuer |-> "game", integrator |-> "org", key |-> "root"]),
     StoryEvent("NewKeyScene", "issuer.key_added", [key |-> "spare", seen |-> {"Registered"}]),
     StoryEvent("KeyRevoked", "issuer.key_revoked",
                [key |-> "spare", seen |-> {"Registered", "NewKeyScene"}]),
     StoryEvent("Granted", "achievement.issued", [attestation |-> "badge", seen |-> {"Registered"}]),
     StoryEvent("Revoked", "achievement.revoked",
                [attestation |-> "badge", issuer |-> "game", integrator |-> "org",
                 key |-> "spare", seen |-> {"Registered", "NewKeyScene", "Granted"}])}
BindingStory ==
    {StoryEvent("Bound1", "game.binding_established", [binding |-> "b1", who |-> pia]),
     StoryEvent("Ended1", "game.binding_ended", [binding |-> "b1", seen |-> {"Bound1"}]),
     StoryEvent("Bound2", "game.binding_established", [binding |-> "b2", who |-> quo])}
ForeignIdentity(w) ==
    StoryEvent(IF w = xan THEN "Xan" ELSE "Yul", "identity.created", [who |-> w, name |-> nm, signer |-> "inc", foreign |-> TRUE])
Created == StoryEvent("Created", "identity.created", [who |-> pia, name |-> nm, signer |-> "inc"])
ProfileStory ==
    {Created,
     StoryEvent("DeviceKey", "identity.signing_key_added",
                [who |-> pia, key |-> "dev", signer |-> "inc", seen |-> {"Created"}]),
     StoryEvent("Renamed", "profile.updated",
                [who |-> pia, name |-> alt, signer |-> "dev", seen |-> {"Created"},
                 awaited |-> {"DeviceKey"}]),
     StoryEvent("Touched", "profile.updated",
                [who |-> pia, name |-> Unchanged, signer |-> "inc", seen |-> {"Created"}])}
NameStory == {Created, ForeignIdentity(xan), ForeignIdentity(yul)}
StoriesTold == {KeyStory, BindingStory, ProfileStory, NameStory, {}}

-----------------------------------------------------------------------------
(* Identity chains: edits that compete, and events no edit may displace.      *)

KindsExplored == {{"bio", "reversed"}, {"bio", "configured", "recovered", "added", "revoked"}}

-----------------------------------------------------------------------------
(* A lookup: two keys are added, one is revoked; an unfaithful node makes up  *)
(* a third.                                                                   *)

KeyHistory == <<<<"created", "k1">>, <<"added", "k1">>, <<"added", "k2">>,
                <<"revoked", "k1">>>>
Invented == {<<"added", "k3">>, <<"revoked", "k3">>}

-----------------------------------------------------------------------------
LogInit ==
    /\ focus \in Focused
    /\ MerkleInit
    /\ ServingInit /\ (focus # "serving" => clock = 0)
    /\ HandoverInit /\ (focus # "handover" => aim = "promote")
    /\ CrossInit /\ (focus # "cross" => registry = {} /\ scene = NewKeyScene)
    /\ SigningInit /\ (focus # "signing" => /\ author.rules = 1 /\ verifier.rules = 1
                                            /\ draft = Plain("settlement.sth"))
    /\ PayloadInit /\ (focus # "payload" => kindOfText = "number")
    /\ ReadModelInit /\ (story = {}) = (focus # "readmodel")
    /\ focus # "readmodel" => indexerAt = "local"
    /\ ChainInit /\ (focus # "chain" => "reversed" \in chainMix)
    /\ LookupInit /\ (focus # "lookup" => lookupAim = "keys")

LogNext ==
    \/ focus = "merkle" /\ MerkleNext
       /\ UNCHANGED <<focus, servingVars, handoverVars, crossVars, signingVars, payloadVars,
                      readModelVars, chainVars, lookupVars>>
    \/ focus = "serving" /\ ServingNext
       /\ UNCHANGED <<focus, merkleVars, handoverVars, crossVars, signingVars, payloadVars,
                      readModelVars, chainVars, lookupVars>>
    \/ focus = "handover" /\ HandoverNext
       /\ UNCHANGED <<focus, merkleVars, servingVars, crossVars, signingVars, payloadVars,
                      readModelVars, chainVars, lookupVars>>
    \/ focus = "cross" /\ CrossNext
       /\ UNCHANGED <<focus, merkleVars, servingVars, handoverVars, signingVars, payloadVars,
                      readModelVars, chainVars, lookupVars>>
    \/ focus = "signing" /\ SigningNext
       /\ UNCHANGED <<focus, merkleVars, servingVars, handoverVars, crossVars, payloadVars,
                      readModelVars, chainVars, lookupVars>>
    \/ focus = "payload" /\ PayloadNext
       /\ UNCHANGED <<focus, merkleVars, servingVars, handoverVars, crossVars, signingVars,
                      readModelVars, chainVars, lookupVars>>
    \/ focus = "readmodel" /\ ReadModelNext
       /\ UNCHANGED <<focus, merkleVars, servingVars, handoverVars, crossVars, signingVars,
                      payloadVars, chainVars, lookupVars>>
    \/ focus = "chain" /\ ChainNext
       /\ UNCHANGED <<focus, merkleVars, servingVars, handoverVars, crossVars, signingVars,
                      payloadVars, readModelVars, lookupVars>>
    \/ focus = "lookup" /\ LookupNext
       /\ UNCHANGED <<focus, merkleVars, servingVars, handoverVars, crossVars, signingVars,
                      payloadVars, readModelVars, chainVars>>

logVars == <<focus, merkleVars, servingVars, handoverVars, crossVars, signingVars, payloadVars,
             readModelVars, chainVars, lookupVars>>

LogSpec == LogInit /\ [][LogNext]_logVars
=============================================================================
