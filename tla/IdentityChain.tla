--------------------------- MODULE IdentityChain ---------------------------
(***************************************************************************)
(* The chain of one identity on several nodes: the conflict rule of        *)
(* crates/protocol/src/identity_chain.rs and identity_chain_wire.rs, its   *)
(* storage in crates/indexer/src/identity_chain_store.rs, the proofs of    *)
(* identity_proof.rs, and what dispatch of crates/indexer/src/postgres.rs  *)
(* does with a chained event: the profile row and the signing key tables.  *)
(*                                                                         *)
(* The identity acts on several nodes.  Each gives its event the position  *)
(* after its own resolved head and publishes it in its shard; the others   *)
(* project the shard in order, except that an event waiting for a key is   *)
(* overtaken.  Hashes are numbers: an event's id, or, for a key event,     *)
(* whose hash covers only what its signature does, a number made from the  *)
(* key and the position.  The row of a profile holds, per field, the id of *)
(* the event that wrote it.  Names are not compared between identities.    *)
(***************************************************************************)
EXTENDS Integers, Sequences, FiniteSets, FiniteSetsExt

CONSTANTS
  ChainNode,     \* the nodes
  ActingNode,    \* the ones the identity acts on; the others only mirror
  CoreNode,      \* the one that authors the core shard
  KeyHome,       \* the one the identity registered on: its keys are local there
  SigningKey,    \* its signing keys, as numbers; key 1 is the inception key
  ChainEventId,  \* event ids
  Stamp,         \* timestamps
  SlowClock,     \* nodes whose clock may be behind by more than max_future_skew
  ChainMixes,    \* sets of kinds of events, one of which a behaviour is about
  MaxCopies      \* how many key events are published a second time

OrdinaryEdit == {"bio", "name", "friend"}  \* profile.updated of either field, friend.*
Monotonic == {"reversed"}
ChainCritical == {"added", "revoked", "configured", "recovered"}

ASSUME ChainAssumption ==
  /\ ActingNode \subseteq ChainNode
  /\ CoreNode \in ActingNode /\ KeyHome \in ActingNode
  /\ SigningKey \subseteq Nat /\ 1 \in SigningKey
  /\ ChainEventId \subseteq 1 .. 9
  /\ Stamp \subseteq Nat /\ Stamp # {}
  /\ SlowClock \subseteq ChainNode
  /\ \A mix \in ChainMixes : mix \subseteq OrdinaryEdit \cup Monotonic \cup ChainCritical
  /\ MaxCopies \in Nat

VARIABLES
  chainMix,    \* the kinds of events that happen
  published,   \* each node's shard: the identity's events in commit order
  handled,     \* indexer_applied_events and refusals: ids a node is done with
  recorded,    \* identity_chain_events
  chainState,  \* identity_chain_state: of the resolved chain the table keeps the
               \* length (seq) and the last hash (head_hash)
  keyRow,      \* indexer_identity_signing_keys
  revocations, \* indexer_identity_signing_key_revocations
  profile      \* the identity's row of profiles

chainVars == <<chainMix, published, handled, recorded, chainState, keyRow, revocations, profile>>

Empty == [accepted |-> <<>>, forked_at |-> 0]

ChainInit ==
  /\ chainMix \in ChainMixes
  /\ published = [n \in ChainNode |-> <<>>]
  /\ handled = [n \in ChainNode |-> {}]
  /\ recorded = [n \in ChainNode |-> {}]
  /\ chainState = [n \in ChainNode |-> Empty]
  /\ keyRow = [n \in ChainNode |-> [k \in SigningKey |-> IF k = 1 THEN "active" ELSE "unknown"]]
  /\ revocations = [n \in ChainNode |-> {}]
  /\ profile = [n \in ChainNode |-> [f \in {"bio", "name"} |-> 0]]

-----------------------------------------------------------------------------
(* The conflict rule *)

\* Later timestamp first, ties to the smaller hash.
Beats(a, b) ==
  \/ a.timestamp > b.timestamp
  \/ a.timestamp = b.timestamp /\ a.hash < b.hash

\* Two candidates of which one is chain critical cannot be ranked.
Forks(C) == Cardinality(C) > 1 /\ \E e \in C : e.kind \in ChainCritical

\* The winner among candidates that can be ranked.
resolve_conflict(C) ==
  LET reversals == {e \in C : e.kind \in Monotonic}
      inClass == IF reversals # {} THEN reversals ELSE C
  IN  CHOOSE e \in inClass : \A d \in inClass \ {e} : Beats(e, d)

HashAt(accepted) == IF accepted = <<>> THEN 0 ELSE accepted[Len(accepted)].hash

\* The events of S that extend the accepted prefix.
ChainCandidates(S, accepted) ==
  {e \in S : e.seq = Len(accepted) + 1 /\ e.prev = HashAt(accepted)}

\* Follow the winners from the start until nothing extends the chain, or a fork.
apply_chain(S) ==
  LET accepted[i \in 0 .. Cardinality(S)] ==
        IF i = 0 THEN <<>>
        ELSE LET before == accepted[i - 1]
                 C == ChainCandidates(S, before)
             IN  IF C = {} \/ Forks(C) THEN before ELSE Append(before, resolve_conflict(C))
      chain == accepted[Cardinality(S)]
  IN  [accepted |-> chain,
       forked_at |-> IF ChainCandidates(S, chain) = {} THEN 0 ELSE Len(chain) + 1]

\* The recoveries that extend the last head before a fork.
resolvers(S, outcome) == {e \in ChainCandidates(S, outcome.accepted) : e.kind = "recovered"}

\* apply_chain, with every fork one recovery resolves resolved by it.
resolve_identity_chain(S) ==
  LET Cut(T) ==
        LET outcome == apply_chain(T)
            winners == resolvers(T, outcome)
        IN  IF outcome.forked_at = 0 \/ Cardinality(winners) # 1 THEN T
            ELSE T \ (ChainCandidates(T, outcome.accepted) \ winners)
      cut[i \in 0 .. Cardinality(S)] == IF i = 0 THEN S ELSE Cut(cut[i - 1])
  IN  apply_chain(cut[Cardinality(S)])

\* The chain a node has resolved, as a set.
AcceptedEvents(state) == {state.accepted[i] : i \in DOMAIN state.accepted}

-----------------------------------------------------------------------------
(* Storage *)

persist_state(n, S) == chainState' = [chainState EXCEPT ![n] = resolve_identity_chain(S)]

\* Mutant: only the event id tells a republished event from a new one.
DuplicateById(n, e) == FALSE

\* The chain holds this hash under another event id.
Duplicate(n, e) == \E d \in recorded[n] : d.hash = e.hash /\ d.id # e.id

\* Insert the event and re-resolve the chain.
record_locked(n, e) ==
  LET after == recorded[n] \cup {e}
  IN  /\ recorded' = [recorded EXCEPT ![n] = after]
      /\ persist_state(n, after)

-----------------------------------------------------------------------------
(* Projection *)

ProfileKind == {"bio", "name"}

\* profiles::apply of one event, and of those accepted, in chain order.
ApplyProfile(row, e) == [row EXCEPT ![e.kind] = e.id]

ReplayProfile(row, chain) ==
  LET after[i \in 0 .. Len(chain)] ==
        IF i = 0 THEN row
        ELSE LET before == after[i - 1]
             IN  IF chain[i].kind \in ProfileKind THEN ApplyProfile(before, chain[i]) ELSE before
  IN  after[Len(chain)]

\* Clear the optional fields that displaced events set; the name stays.
RevertProfile(row, displaced) ==
  [row EXCEPT !["bio"] = IF \E e \in displaced : e.kind = "bio" THEN 0 ELSE @]

\* The profile row after a chained profile.updated was recorded.
apply_profile_chained(n, e) ==
  LET outcome == resolve_identity_chain(recorded[n] \cup {e})
      was == AcceptedEvents(resolve_identity_chain(recorded[n]))
      is == AcceptedEvents(outcome)
      displaced == was \ is
      gap_filled == is \ (was \cup {e}) # {}
  IN  profile' = [profile EXCEPT ![n] =
        IF displaced = {} /\ ~ gap_filled
        THEN IF e \in is THEN ApplyProfile(@, e) ELSE @
        ELSE ReplayProfile(RevertProfile(@, displaced), outcome.accepted)]

\* A revocation that arrived before the addition is applied to the new row.
KeyAdded(n, k) ==
  keyRow' = [keyRow EXCEPT ![n][k] =
    IF @ = "unknown" THEN (IF k \in revocations[n] THEN "revoked" ELSE "active") ELSE @]

\* identity_signing_keys::apply.
ApplyKeyEvent(n, e) ==
  \/ /\ e.kind = "added"
     /\ KeyAdded(n, e.key)
     /\ UNCHANGED revocations
  \/ /\ e.kind = "revoked"
     /\ keyRow' = [keyRow EXCEPT ![n][e.key] = IF @ = "active" THEN "revoked" ELSE @]
     /\ revocations' = [revocations EXCEPT ![n] = @ \cup {e.key}]
  \/ /\ e.kind \notin {"added", "revoked"}
     /\ UNCHANGED <<keyRow, revocations>>

IsKeyEvent(e) == e.kind \in {"added", "revoked"}

\* Kinds that carry no proof count only from the core shard or the node's own.
is_unproven_identity_state(e) == e.kind \in ProfileKind \cup {"configured", "recovered"}

\* identity_proof::verify: "wait" is AwaitingKey.
verify(n, origin, e) ==
  IF IsKeyEvent(e)
  THEN IF keyRow[n][e.by] = "active" THEN "ok"
       ELSE IF keyRow[n][e.by] = "unknown" THEN "wait" ELSE "refused"
  ELSE IF is_unproven_identity_state(e) /\ origin \notin {n, CoreNode} THEN "refused" ELSE "ok"

\* An event's own projection, recorded as chained or not.
Project(n, e) ==
  /\ ApplyKeyEvent(n, e)
  /\ IF e.kind \notin ProfileKind THEN UNCHANGED profile
     ELSE IF e.seq = 0 THEN profile' = [profile EXCEPT ![n] = ApplyProfile(@, e)]
     ELSE apply_profile_chained(n, e)

-----------------------------------------------------------------------------
(* Actions *)

Used == UNION {{published[n][i].id : i \in DOMAIN published[n]} : n \in ChainNode}

\* The hash of an event: of a key event only what its signature covers.
event_hash(id, kind, key, seq, prev) ==
  IF kind \in {"added", "revoked"}
  THEN 10 + 100 * prev + 10 * key + (IF kind = "added" THEN 0 ELSE 1)
  ELSE id

\* ensure_not_forked and require_signed_position, of the handlers that call them.
RefusedWhenForked == {"configured", "added", "revoked"}

\* The keys a handler of node n accepts for a key event: approver and target.
KeyGuard(n, kind, key, by) ==
  CASE kind = "added" -> n = KeyHome /\ keyRow[n][by] = "active" /\ keyRow[n][key] = "unknown"
    [] kind = "revoked" -> /\ n = KeyHome /\ keyRow[n][by] = "active" /\ keyRow[n][key] = "active"
                           /\ \E k \in SigningKey \ {key} : keyRow[n][k] = "active"
    [] OTHER -> key = 1 /\ by = 1

\* A handler of node n commits an event: assign_local, enqueue, apply_in_tx.
LocalEvent(n, id, kind, key, by, ts) ==
  LET forked == chainState[n].forked_at # 0
      seq == IF forked /\ kind # "recovered" THEN 0 ELSE Len(chainState[n].accepted) + 1
      prev == IF seq = 0 THEN 0 ELSE HashAt(chainState[n].accepted)
      e == [id |-> id, kind |-> kind, key |-> key, by |-> by, timestamp |-> ts,
            seq |-> seq, prev |-> prev, hash |-> event_hash(id, kind, key, seq, prev)]
  IN  /\ id = Min(ChainEventId \ Used)
      /\ forked => kind \notin RefusedWhenForked
      /\ KeyGuard(n, kind, key, by)
      /\ published' = [published EXCEPT ![n] = Append(@, e)]
      /\ handled' = [handled EXCEPT ![n] = @ \cup {id}]
      /\ IF seq = 0 THEN UNCHANGED <<recorded, chainState>> ELSE record_locked(n, e)
      /\ Project(n, e)

\* The events of origin's shard n may handle next: an event that waits for a
\* key is overtaken, nothing else is.
NextInShard(n, origin, i) ==
  /\ published[origin][i].id \notin handled[n]
  /\ \A j \in 1 .. i - 1 :
       published[origin][j].id \in handled[n] \/ verify(n, origin, published[origin][j]) = "wait"

\* Node n projects an event of another node's shard.
Mirrored(n, origin, i) ==
  LET e == published[origin][i]
  IN  /\ n # origin
      /\ NextInShard(n, origin, i)
      /\ verify(n, origin, e) # "wait"
      /\ handled' = [handled EXCEPT ![n] = @ \cup {e.id}]
      /\ UNCHANGED published
      /\ \/ /\ verify(n, origin, e) = "refused"
            /\ UNCHANGED <<recorded, chainState, keyRow, revocations, profile>>
         \/ /\ verify(n, origin, e) = "ok" /\ e.seq = 0
            /\ Project(n, e)
            /\ UNCHANGED <<recorded, chainState>>
         \* Recorded::Rejected: the event's time is too far ahead of the node's clock.
         \/ /\ verify(n, origin, e) = "ok" /\ e.seq # 0
            /\ n \in SlowClock /\ e.timestamp > Min(Stamp)
            /\ UNCHANGED <<recorded, chainState, keyRow, revocations, profile>>
         \/ /\ verify(n, origin, e) = "ok" /\ e.seq # 0 /\ Duplicate(n, e)
            /\ UNCHANGED <<recorded, chainState, keyRow, revocations, profile>>
         \/ /\ verify(n, origin, e) = "ok" /\ e.seq # 0 /\ ~ Duplicate(n, e)
            /\ record_locked(n, e)
            /\ Project(n, e)

\* A shard carries a signed key event of another one under an id of its own.
Republish(n, origin, i, id) ==
  LET e == published[origin][i]
  IN  /\ n # origin /\ IsKeyEvent(e)
      /\ id = Min(ChainEventId \ Used)
      /\ Cardinality({<<m, j>> \in {<<m, j>> \in ChainNode \X (1 .. 9) : j \in DOMAIN published[m]} :
           IsKeyEvent(published[m][j]) /\ m # KeyHome}) < MaxCopies
      /\ published' = [published EXCEPT ![n] = Append(@, [e EXCEPT !.id = id])]
      /\ UNCHANGED <<handled, recorded, chainState, keyRow, revocations, profile>>

\* No candidate is compared by time with a chain-critical one.
StampsOf(kind) == IF kind \in ChainCritical THEN {Min(Stamp)} ELSE Stamp

ChainStep ==
  \/ \E n \in ActingNode, id \in ChainEventId \ Used, kind \in chainMix, key, by \in SigningKey :
       \E ts \in StampsOf(kind) : LocalEvent(n, id, kind, key, by, ts)
  \/ \E n, origin \in ChainNode : \E i \in DOMAIN published[origin] : Mirrored(n, origin, i)
  \/ \E n, origin \in ActingNode : \E i \in DOMAIN published[origin] :
       \E id \in ChainEventId \ Used : Republish(n, origin, i, id)

ChainNext == ChainStep /\ UNCHANGED chainMix

ChainSpec == ChainInit /\ [][ChainNext]_chainVars
-----------------------------------------------------------------------------
(* Properties *)

HashesOf(n) == {e.hash : e \in recorded[n]}
HeadOf(n) == <<Len(chainState[n].accepted), HashAt(chainState[n].accepted),
               chainState[n].forked_at>>

\* Nodes that recorded the same signed events agree on the identity's head and
\* on whether it is forked, in whatever order the events came, whatever copies
\* of them a node met and whatever it did in between.
SameEventsSameChain ==
  \A n, m \in ChainNode : HashesOf(n) = HashesOf(m) => HeadOf(n) = HeadOf(m)

=============================================================================
