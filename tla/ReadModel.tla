----------------------------- MODULE ReadModel -----------------------------
(***************************************************************************)
(* The indexer's read model: how protocol events reach it, what each of    *)
(* them writes, and how it is rebuilt from the ledger.                     *)
(*                                                                         *)
(* A handler writes its tables and an outbox row in one transaction.  With *)
(* a local indexer the event is applied in that transaction; with a remote *)
(* one (the indexer role in a process of its own) it is sent after the     *)
(* commit, once: a send that fails, or whose handler is cancelled first,   *)
(* is only logged.  The outbox settles rows in the order their             *)
(* transactions STARTED, so what a handler waited for inside its           *)
(* transaction can settle after it.  Events of other streams arrive from   *)
(* the mirrors.  A rebuild reads the ledger, then truncates every          *)
(* projection and replays what it read in one transaction.                 *)
(*                                                                         *)
(* An event is a record: its id and kind, what it carries, "seen" (ids of  *)
(* events whose rows its handler reads before its transaction starts),     *)
(* "awaited" (ids of events it may wait for inside it) and "foreign".      *)
(***************************************************************************)
EXTENDS Naturals, FiniteSets, Sequences, SequencesExt

CONSTANTS Unchanged,      \* a profile update that carries no display name
          Stories,        \* sets of events, one of which a behaviour is about
          nameTag,        \* the id prefix that disambiguates a name
          MaxRebuilds,    \* bound on rebuilds
          DEFAULT_MIN_COHORT

VARIABLES story,      \* the events of this behaviour
          indexerAt,  \* "local" or "remote": the IndexerHandle
          tables,     \* events whose handler's transaction committed
          outbox,     \* of these, the ones not settled yet
          localLedger,    \* the local ledger
          sent,       \* remote applies on their way
          view,       \* the projection tables
          replay,     \* the running rebuild: whether one runs, what it read
          rebuilds,
          metrics     \* a registry request: its step and the counts it read

readModelVars == <<story, indexerAt, tables, outbox, localLedger, sent, view,
                   replay, rebuilds, metrics>>

NotRunning == [on |-> FALSE, read |-> <<>>]

EventIds(events) == {e.id : e \in events}

\* What PROJECTION_TABLES hold after TRUNCATE.
EmptyView == [claimed |-> {}, issuers |-> {}, keys |-> {}, revokedKeys |-> {},
              attestations |-> {}, revoked |-> {}, bindings |-> {},
              ended |-> {}, identityKeys |-> {}, names |-> {}]

----------------------------------------------------------------------------
\* What an event writes.

\* An issuer reference belongs to the first integrator that registered it.
HeldByOther(v, e) == \E i \in v.issuers : i[1] = e.issuer /\ i[2] # e.integrator

NameTaken(v, who, name) == \E n \in v.names : n[2] = name /\ n[1] # who

\* A foreign creation takes the first free spelling of its name; its own id
\* is the last candidate and never taken.  A local one has only its name.
display_names(e) ==
  IF e.foreign THEN <<e.name, <<e.name, nameTag[e.who]>>, e.who>>
               ELSE <<e.name>>

FreeNames(v, e) == SelectSeq(display_names(e), LAMBDA n : ~NameTaken(v, e.who, n))

\* A revocation is believed when its key is one of the issuer's, valid, and
\* never revoked; an unknown issuer, key or attestation may still arrive.
verify_revocation(v, e) ==
  CASE <<e.issuer, e.integrator>> \notin v.issuers -> "awaits"
    [] e.key \notin v.keys                         -> "awaits"
    [] e.key \in v.revokedKeys                     -> "refused"
    [] e.attestation \notin v.attestations         -> "awaits"
    [] OTHER                                       -> "ok"

\* The key that signed an identity's event has to be projected already.
signer_key(v, e) == IF <<e.who, e.signer>> \in v.identityKeys THEN "ok" ELSE "awaits"

\* May this event be applied now: "ok", "awaits" (Deferred, AwaitingKey) or
\* "refused" (Rejected, DisplayNameTaken).
Verdict(v, e) ==
  CASE e.kind = "game.registered" ->
         IF HeldByOther(v, e) THEN "refused" ELSE "ok"
    [] e.kind = "achievement.revoked" -> verify_revocation(v, e)
    [] e.kind = "identity.created" ->
         IF \/ FreeNames(v, e) = <<>>
            \/ \E n \in v.names : n[1] = e.who /\ n[2] # e.name
         THEN "refused" ELSE "ok"
    [] e.kind = "identity.signing_key_added" -> signer_key(v, e)
    [] e.kind = "profile.updated" ->
         IF signer_key(v, e) = "awaits" THEN "awaits"
         ELSE IF NameTaken(v, e.who, e.name) THEN "refused" ELSE "ok"
    [] OTHER -> "ok"

\* A profile update writes only the fields its payload carries.
decode_name(v, e) == IF e.name = Unchanged THEN {n[2] : n \in {m \in v.names : m[1] = e.who}}
                ELSE {e.name}

\* Key revocations have a table of their own: one may arrive before its key.
issuer_keys_apply(v, e) ==
  CASE e.kind = "game.registered" ->
         [v EXCEPT !.issuers = @ \cup {<<e.issuer, e.integrator>>},
                   !.keys = @ \cup {e.key}]
    [] e.kind = "issuer.key_added" -> [v EXCEPT !.keys = @ \cup {e.key}]
    [] e.kind = "issuer.key_revoked" -> [v EXCEPT !.revokedKeys = @ \cup {e.key}]

attestations_apply(v, e) ==
  IF e.kind = "achievement.issued"
  THEN [v EXCEPT !.attestations = @ \cup {e.attestation}]
  ELSE [v EXCEPT !.revoked = @ \cup ({e.attestation} \cap v.attestations)]

\* Ending a binding updates its row; without a row it changes nothing.
bindings_apply(v, e) ==
  IF e.kind = "game.binding_established"
  THEN [v EXCEPT !.bindings = @ \cup {<<e.binding, e.who>>}]
  ELSE [v EXCEPT !.ended = @ \cup {b \in v.bindings : b[1] = e.binding}]

apply_created(v, e) ==
  [v EXCEPT !.identityKeys = @ \cup {<<e.who, e.signer>>},
            !.names = IF \E n \in @ : n[1] = e.who THEN @
                      ELSE @ \cup {<<e.who, FreeNames(v, e)[1]>>}]

Projected(v, e) ==
  CASE e.kind \in {"game.registered", "issuer.key_added", "issuer.key_revoked"} ->
         issuer_keys_apply(v, e)
    [] e.kind \in {"achievement.issued", "achievement.revoked"} ->
         attestations_apply(v, e)
    [] e.kind \in {"game.binding_established", "game.binding_ended"} ->
         bindings_apply(v, e)
    [] e.kind = "identity.created" -> apply_created(v, e)
    [] e.kind = "identity.signing_key_added" ->
         [v EXCEPT !.identityKeys = @ \cup {<<e.who, e.key>>}]
    [] e.kind = "profile.updated" ->
         [v EXCEPT !.names = {n \in @ : n[1] # e.who} \cup
                             {<<e.who, name>> : name \in decode_name(v, e)}]

\* One event in its savepoint: the claim, then the proof, then the rows.  A
\* claimed event is done already; an error takes the claim back with it.
dispatch(v, e) ==
  IF e \in v.claimed THEN [is |-> "ok", view |-> v]
  ELSE IF Verdict(v, e) = "ok"
       THEN [is |-> "ok",
             view |-> Projected([v EXCEPT !.claimed = @ \cup {e}], e)]
       ELSE [is |-> Verdict(v, e), view |-> v]

\* One pass over the pending events: the view after it and what must wait.
RECURSIVE ProjectPass(_, _, _)
ProjectPass(v, pending, waiting) ==
  IF pending = <<>> THEN [view |-> v, waiting |-> waiting]
  ELSE LET d == dispatch(v, Head(pending))
       IN ProjectPass(d.view, Tail(pending),
               IF d.is = "awaits" THEN Append(waiting, Head(pending)) ELSE waiting)


\* Passes go on until nothing waits or a pass made no progress.
RECURSIVE rebuild_from_scratch(_, _)
rebuild_from_scratch(v, pending) ==
  LET p == ProjectPass(v, pending, <<>>)
  IN IF p.waiting = <<>> \/ Len(p.waiting) = Len(pending) THEN p.view
     ELSE rebuild_from_scratch(p.view, p.waiting)

----------------------------------------------------------------------------
ReadModelInit ==
  /\ story \in Stories
  /\ indexerAt \in {"local", "remote"}
  /\ tables = {} /\ outbox = {} /\ localLedger = <<>> /\ sent = {}
  /\ view = EmptyView
  /\ replay = NotRunning /\ rebuilds = 0
  /\ metrics = [at |-> "start", players |-> 0, total |-> 0, rebuilt |-> FALSE]

\* What the handler itself checks in its tables: what the event builds on is
\* there, a revocation's key is not revoked, a name is free.
HandlerAccepts(e) ==
  /\ ~e.foreign /\ e \notin tables
  /\ e.seen \cup e.awaited \subseteq EventIds(tables)
  /\ e.kind = "achievement.revoked" =>
       \A r \in tables : ~(r.kind = "issuer.key_revoked" /\ r.key = e.key)
  /\ e.kind = "identity.created" => ~NameTaken(view, e.who, e.name)

\* A handler with a local indexer: tables, outbox and projection together,
\* or (a refused event) none of them.
HandleLocally(e) ==
  /\ indexerAt = "local" /\ HandlerAccepts(e)
  /\ dispatch(view, e).is = "ok"
  /\ view' = dispatch(view, e).view
  /\ tables' = tables \cup {e} /\ outbox' = outbox \cup {e}
  /\ UNCHANGED <<story, indexerAt, localLedger, sent, replay, rebuilds, metrics>>

\* With a remote one: apply_after_commit sends the event, unless the handler
\* is cancelled between its commit and the send.
HandleRemotely(e) ==
  /\ indexerAt = "remote" /\ HandlerAccepts(e)
  /\ tables' = tables \cup {e} /\ outbox' = outbox \cup {e}
  /\ sent' \in {sent, sent \cup {e}}
  /\ UNCHANGED <<story, indexerAt, localLedger, view, replay, rebuilds, metrics>>

\* The indexer role applies what arrives, in whatever order; an error is
\* answered and logged, and the event is not sent again.
apply_indexer_event(e) ==
  /\ e \in sent
  /\ sent' = sent \ {e}
  /\ view' = dispatch(view, e).view
  /\ UNCHANGED <<story, indexerAt, tables, outbox, localLedger, replay, rebuilds,
                 metrics>>

\* A send that fails, or times out before it is received.
LoseSend(e) ==
  /\ e \in sent
  /\ sent' = sent \ {e}
  /\ UNCHANGED <<story, indexerAt, tables, outbox, localLedger, view, replay,
                 rebuilds, metrics>>

\* The outbox worker settles the row whose transaction started first: what a
\* handler saw before it started is settled, what it waited for may not be.
Settle(e) ==
  /\ e \in outbox
  /\ e.seen \cap EventIds(outbox) = {}
  /\ outbox' = outbox \ {e}
  /\ localLedger' = Append(localLedger, e)
  /\ UNCHANGED <<story, indexerAt, tables, sent, view, replay, rebuilds, metrics>>

\* A mirrored entry of another stream, offered again until it is applied.
ProjectMirrored(e) ==
  /\ e.foreign /\ e \notin view.claimed
  /\ dispatch(view, e).is = "ok"
  /\ view' = dispatch(view, e).view
  /\ UNCHANGED <<story, indexerAt, tables, outbox, localLedger, sent, replay,
                 rebuilds, metrics>>

load_ledger_events ==
  /\ ~replay.on /\ rebuilds < MaxRebuilds
  /\ replay' = [on |-> TRUE, read |-> localLedger]
  /\ UNCHANGED <<story, indexerAt, tables, outbox, localLedger, sent, view,
                 rebuilds, metrics>>

rebuild_index_from_events ==
  /\ replay.on
  /\ view' = rebuild_from_scratch(EmptyView, replay.read)
  /\ replay' = NotRunning /\ rebuilds' = rebuilds + 1
  /\ metrics' = [metrics EXCEPT !.rebuilt = (@ \/ metrics.at = "players")]
  /\ UNCHANGED <<story, indexerAt, tables, outbox, localLedger, sent>>

\* A count below the floor is reported as the floor, zero as zero.
coarsen(raw) == IF raw = 0 \/ raw >= DEFAULT_MIN_COHORT THEN raw ELSE DEFAULT_MIN_COHORT

active_player_count ==
  coarsen(Cardinality({b[2] : b \in view.bindings \ view.ended}))

total_players_ever == coarsen(Cardinality({b[2] : b \in view.bindings}))

\* The stories the registry is asked in; it reads nothing of the others.
TellsBindings == \E e \in story : e.kind = "game.binding_established"

\* The registry reads its counts one query after another.
compute_for_integrator ==
  /\ TellsBindings
  /\ \/ /\ metrics.at = "start"
        /\ metrics' = [metrics EXCEPT !.at = "players", !.players = active_player_count]
     \/ /\ metrics.at = "players"
        /\ metrics' = [metrics EXCEPT !.at = "told", !.total = total_players_ever]
  /\ UNCHANGED <<story, indexerAt, tables, outbox, localLedger, sent, view, replay,
                 rebuilds>>

ReadModelNext ==
  \/ \E e \in story : \/ HandleLocally(e) \/ HandleRemotely(e)
                      \/ apply_indexer_event(e) \/ LoseSend(e)
                      \/ Settle(e) \/ ProjectMirrored(e)
  \/ load_ledger_events
  \/ rebuild_index_from_events
  \/ compute_for_integrator

ReadModelSpec == ReadModelInit /\ [][ReadModelNext]_readModelVars
----------------------------------------------------------------------------

\* What the read events say by themselves, whatever order they settled in:
\* every row whose events are all there, a revocation unless its key's
\* revocation settled first, a name unless others asked for it too.
Kinds(events, kinds) == {e \in events : e.kind \in kinds}

Whole(events) == {e \in events : e.seen \cup e.awaited \subseteq EventIds(events)}

Outvoted(read, e) ==
  \E i, j \in DOMAIN read :
     i < j /\ read[j] = e /\ read[i].kind = "issuer.key_revoked" /\ read[i].key = e.key

Restores(v, read) ==
  LET E == ToSet(read)
      Of(kinds) == Kinds(Whole(E), kinds)
  IN /\ v.keys = {e.key : e \in Of({"game.registered", "issuer.key_added"})}
     /\ v.revokedKeys = {e.key : e \in Of({"issuer.key_revoked"})}
     /\ v.attestations = {e.attestation : e \in Of({"achievement.issued"})}
     /\ v.revoked = {e.attestation :
           e \in {r \in Of({"achievement.revoked"}) : ~Outvoted(read, r)}}
     /\ v.bindings = {<<e.binding, e.who>> : e \in Of({"game.binding_established"})}
     /\ {b[1] : b \in v.ended} = {e.binding : e \in Of({"game.binding_ended"})}
     /\ \A e \in Of({"identity.signing_key_added"}) : <<e.who, e.key>> \in v.identityKeys
     /\ \A e \in Of({"profile.updated"}) :
          e.name # Unchanged
          /\ (\A o \in Kinds(E, {"profile.updated", "identity.created"}) :
                o.who # e.who => o.name # e.name)
          => <<e.who, e.name>> \in v.names


============================================================================
