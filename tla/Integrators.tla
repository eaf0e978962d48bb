----------------------------- MODULE Integrators -----------------------------
(* Integrators (games, apps and services): registration, issuer keys and      *)
(* challenges (integrators.rs), admission to the network                      *)
(* (issuer_registration.rs), the user's consent (connections.rs, authz.rs),   *)
(* claim definitions, issuance and revocation (achievements.rs,               *)
(* attestations.rs) and the idempotency cache (idempotency.rs).               *)
(*                                                                            *)
(* One identity and one integrator.  A request is a single-use call slot: it  *)
(* authenticates and makes its unlocked reads, one step per table that other  *)
(* requests may change in between, then commits its transaction.  A handler   *)
(* that fails or is dropped is a call that takes no further step, except that *)
(* a row it has locked is released (Rollback).                                *)
EXTENDS Integers, FiniteSets, FiniteSetsExt, Bags, SequencesExt

CONSTANTS IntCall,      \* requests served over a behaviour
          IntMixes,     \* the sets of handlers explored together
          Binding,      \* binding ids, 1 .. n in the order they are drawn
          Cap,          \* capabilities declared at registration
          IssueCap,     \* the one the issuing routes require
          Claim,        \* keys of claim definitions
          IdemKey,      \* values of the idempotency-key header
          IssuerKey,    \* issuer key ids, 1 .. n in the order they are drawn
          Challenge,    \* challenge ids, 1 .. n in the order they are drawn
          WriteQuota,   \* AVALON_ACHIEVEMENT_WRITE_QUOTA
          Tier          \* the network tiers explored: "dev" and "mainnet"

VARIABLES imix, icall,
          tier,         \* NetworkTier of the network
          owner,        \* integrators: who registered the slug
          issuerKeys,   \* issuer_keys: id -> [st, role]
          challenges,   \* integrator_challenges: id -> its state
          spent,        \* challenge -> requests it has authenticated
          admitted,     \* issuer_network_registrations
          bindings,     \* bindings: id -> its state
          grants,       \* permission_grants: <<binding, capability>> -> its state
          definitions,  \* achievement_definitions: key -> [version, retired]
          attested,     \* achievement_attestations
          revocations,  \* attestation_revocations: attestations revoked
          cache,        \* idempotency_keys: <<endpoint, key>> -> response
          answered,     \* keys whose request has been answered
          ilog          \* events put in the outbox

consentTables == <<bindings, grants>>
claimTables == <<definitions, attested, revocations, cache, answered>>
keyTables == <<tier, owner, issuerKeys, challenges, spent, admitted>>
integratorVars == <<imix, icall, consentTables, claimTables, keyTables, ilog>>

IIdle == [h |-> "idle"]
IDone == [h |-> "done"]
NoOne == 0

IBegin(c, rec) ==
    /\ icall[c] = IIdle
    /\ rec.h \in imix
    /\ icall' = [icall EXCEPT ![c] = rec]

IAt(c, h, pc) == icall[c].h \in h /\ icall[c].pc = pc
IEnd(c) == icall' = [icall EXCEPT ![c] = IDone]
Emit(events) == ilog' = ilog (+) SetToBag(events)
Emitted(e) == CopiesIn(e, ilog)

-----------------------------------------------------------------------------
(* Integrators, their keys and their challenges.                              *)

Fresh(id, f) == f[id].st = "none" /\ \A j \in DOMAIN f : f[j].st = "none" => id <= j

ValidKey(k) == issuerKeys[k].st = "valid"
RootKey(k) == issuerKeys[k].role = "root"

(* The event of the registration carries the first key, a root key.           *)
register_integrator(c) ==
    /\ icall[c] = IIdle
    /\ "register_integrator" \in imix
    /\ owner = "none"
    /\ owner' = "registered"
    /\ \E k \in IssuerKey :
          /\ Fresh(k, issuerKeys)
          /\ issuerKeys' = [issuerKeys EXCEPT ![k] = [st |-> "valid", role |-> "root", until |-> FALSE]]
          /\ Emit({[e |-> "key_added", key |-> k]})
    /\ IEnd(c)
    /\ UNCHANGED <<consentTables, claimTables, tier, challenges, spent, admitted>>

(* valid_until passes.                                                        *)
KeyExpires(k) ==
    /\ ValidKey(k) /\ issuerKeys[k].until
    /\ issuerKeys' = [issuerKeys EXCEPT ![k].st = "expired"]
    /\ UNCHANGED <<icall, consentTables, claimTables, ilog, tier, owner, challenges, spent, admitted>>

(* The handlers an integrator authenticates to: challenges are only drawn      *)
(* where one of them can use them.                                            *)
Signed == {"add_issuer_key", "revoke_issuer_key", "create_definition", "update_definition",
           "issue_attestation", "bulk_issue_attestation", "revoke_attestation"}

create_integrator_challenge ==
    /\ owner # "none"
    /\ imix \cap Signed # {}
    /\ \E id \in Challenge :
          /\ Fresh(id, challenges)
          /\ challenges' = [challenges EXCEPT ![id] = [st |-> "open", key |-> NoOne]]
    /\ UNCHANGED <<icall, consentTables, claimTables, ilog, tier, owner, issuerKeys, spent, admitted>>

create_registration_challenge ==
    /\ "register_issuer" \in imix
    /\ \E id \in Challenge, k \in IssuerKey :
          /\ Fresh(id, challenges)
          /\ challenges' = [challenges EXCEPT ![id] = [st |-> "open", key |-> k]]
    /\ UNCHANGED <<icall, consentTables, claimTables, ilog, tier, owner, issuerKeys, spent, admitted>>

(* A challenge past its expires_at is deleted by the request that presents    *)
(* it, which then fails; it never authenticates anyone.                       *)
ChallengeExpires(id) ==
    /\ challenges[id].st = "open"
    /\ challenges' = [challenges EXCEPT ![id].st = "gone"]
    /\ UNCHANGED <<icall, consentTables, claimTables, ilog, tier, owner, issuerKeys, spent, admitted>>

(* DELETE ... RETURNING: a statement of its own, before the checks.           *)
Consume(id, k) ==
    /\ challenges[id].st = "open" /\ challenges[id].key = k
    /\ challenges' = [challenges EXCEPT ![id].st = "gone"]
    /\ spent' = [spent EXCEPT ![id] = @ + 1]

authenticate_integrator_key(k) ==
    \E id \in Challenge : Consume(id, NoOne) /\ issuerKeys[k].st # "none"

authenticate_integrator(k) == authenticate_integrator_key(k) /\ ValidKey(k)

authenticate_integrator_root(k) ==
    authenticate_integrator_key(k) /\ ValidKey(k) /\ RootKey(k)

add_issuer_keyBegin(c) ==
    /\ \E k \in IssuerKey :
          /\ authenticate_integrator_root(k)
          /\ IBegin(c, [h |-> "add_issuer_key", pc |-> "auth", key |-> k])
    /\ UNCHANGED <<consentTables, claimTables, ilog, tier, owner, issuerKeys, admitted>>

add_issuer_key(c) ==
    /\ IAt(c, {"add_issuer_key"}, "auth")
    /\ \E k \in IssuerKey, role \in {"root", "operational"}, until \in BOOLEAN :
          /\ Fresh(k, issuerKeys)
          /\ issuerKeys' = [issuerKeys EXCEPT ![k] = [st |-> "valid", role |-> role, until |-> until]]
          /\ Emit({[e |-> "key_added", key |-> k]})
    /\ IEnd(c)
    /\ UNCHANGED <<consentTables, claimTables, tier, owner, challenges, spent, admitted>>

revoke_issuer_keyBegin(c) ==
    /\ \E k, target \in IssuerKey :
          /\ authenticate_integrator_root(k)
          /\ IBegin(c, [h |-> "revoke_issuer_key", pc |-> "auth", key |-> k, target |-> target])
    /\ UNCHANGED <<consentTables, claimTables, ilog, tier, owner, issuerKeys, admitted>>

(* revoked_at IS NULL, so an expired key can still be revoked.                *)
revoke_issuer_key(c) ==
    /\ IAt(c, {"revoke_issuer_key"}, "auth")
    /\ LET k == icall[c].target IN
          /\ issuerKeys[k].st \in {"valid", "expired"}
          /\ issuerKeys' = [issuerKeys EXCEPT ![k].st = "revoked"]
          /\ Emit({[e |-> "key_revoked", key |-> k]})
    /\ IEnd(c)
    /\ UNCHANGED <<consentTables, claimTables, tier, owner, challenges, spent, admitted>>

-----------------------------------------------------------------------------
(* Admission of issuer keys to the network.                                   *)

register_issuerBegin(c) ==
    /\ \E id \in Challenge, k \in IssuerKey :
          /\ Consume(id, k)
          /\ IBegin(c, [h |-> "register_issuer", pc |-> "auth", key |-> k])
    /\ UNCHANGED <<consentTables, claimTables, ilog, tier, owner, issuerKeys, admitted>>

register_issuer(c) ==
    /\ IAt(c, {"register_issuer"}, "auth")
    /\ admitted' = admitted \cup {icall[c].key}
    /\ Emit({[e |-> "issuer_registered", key |-> icall[c].key]})
    /\ IEnd(c)
    /\ UNCHANGED <<consentTables, claimTables, tier, owner, issuerKeys, challenges, spent>>

auto_registers == tier = "dev"

(* Within the transaction of the write it admits; no event of its own.        *)
ensure_issuer_registered(k) ==
    /\ k \in admitted \/ auto_registers
    /\ admitted' = admitted \cup {k}

-----------------------------------------------------------------------------
(* The user's consent.  The handlers lock the active binding's row, if there  *)
(* is one, from active_binding to the end of their transaction.               *)

ConsentCalls == {"connect", "revoke_grant", "disconnect"}

IsActive(b) == bindings[b] = "active"

BindingNow == IF \E b \in Binding : IsActive(b)
              THEN CHOOSE b \in Binding : IsActive(b) ELSE NoOne

ConsentBegin(c) ==
    /\ \E h \in ConsentCalls, caps \in SUBSET Cap :
          /\ h = "disconnect" => caps = {}
          /\ h = "revoke_grant" => Cardinality(caps) = 1
          /\ IBegin(c, [h |-> h, pc |-> "looked", b |-> BindingNow, caps |-> caps])
    /\ UNCHANGED <<consentTables, claimTables, keyTables, ilog>>

(* Mutant: the row is read without FOR UPDATE.                                *)
active_bindingUnlocked(c) ==
    /\ IAt(c, ConsentCalls, "looked")
    /\ icall' = [icall EXCEPT ![c].pc = "held"]
    /\ UNCHANGED <<consentTables, claimTables, keyTables, ilog>>

(* FOR UPDATE waits for the holder of the row found, and drops the row if it  *)
(* no longer qualifies; it does not look for another one.                     *)
active_binding(c) ==
    /\ IAt(c, ConsentCalls, "looked")
    /\ LET b == icall[c].b IN
          /\ b # NoOne => \A d \in IntCall : ~ (IAt(d, ConsentCalls, "held") /\ icall[d].b = b)
          /\ icall' = [icall EXCEPT ![c].pc = "held",
                                    ![c].b = IF b # NoOne /\ IsActive(b) THEN b ELSE NoOne]
    /\ UNCHANGED <<consentTables, claimTables, keyTables, ilog>>

Granted(b) == {cap \in Cap : grants[<<b, cap>>] = "active"}

SetGrants(b, caps, st) ==
    grants' = [x \in DOMAIN grants |-> IF x[1] = b /\ x[2] \in caps THEN st ELSE grants[x]]

GrantEvents(kind, b, caps) == {[e |-> kind, b |-> b, cap |-> cap] : cap \in caps}

(* bindings_one_active_per_identity_game refuses a second active binding.     *)
connect(c) ==
    /\ IAt(c, {"connect"}, "held")
    /\ LET caps == icall[c].caps IN
          IF icall[c].b # NoOne
          THEN LET b == icall[c].b IN
                 /\ SetGrants(b, caps, "active")
                 /\ Emit(GrantEvents("granted", b, caps \ Granted(b)))
                 /\ UNCHANGED bindings
          ELSE /\ BindingNow = NoOne
               /\ \E b \in Binding :
                    /\ bindings[b] = "none"
                    /\ \A j \in Binding : bindings[j] = "none" => b <= j
                    /\ bindings' = [bindings EXCEPT ![b] = "active"]
                    /\ SetGrants(b, caps, "active")
                    /\ Emit(GrantEvents("granted", b, caps) \cup {[e |-> "established", b |-> b]})
    /\ IEnd(c)
    /\ UNCHANGED <<claimTables, keyTables>>

revoke_grant(c) ==
    /\ IAt(c, {"revoke_grant"}, "held")
    /\ icall[c].b # NoOne
    /\ icall[c].caps \subseteq Granted(icall[c].b)
    /\ SetGrants(icall[c].b, icall[c].caps, "revoked")
    /\ Emit(GrantEvents("revoked", icall[c].b, icall[c].caps))
    /\ IEnd(c)
    /\ UNCHANGED <<bindings, claimTables, keyTables>>

disconnect(c) ==
    /\ IAt(c, {"disconnect"}, "held")
    /\ icall[c].b # NoOne
    /\ LET b == icall[c].b IN
          /\ bindings' = [bindings EXCEPT ![b] = "ended"]
          /\ SetGrants(b, Granted(b), "revoked")
          /\ Emit(GrantEvents("revoked", b, Granted(b)) \cup {[e |-> "ended", b |-> b]})
    /\ IEnd(c)
    /\ UNCHANGED <<claimTables, keyTables>>

(* The handler fails or is dropped: its transaction and its lock go.          *)
Rollback(c) ==
    /\ IAt(c, ConsentCalls, "held")
    /\ IEnd(c)
    /\ UNCHANGED <<consentTables, claimTables, keyTables, ilog>>
-----------------------------------------------------------------------------
(* Claim definitions.                                                         *)

NoClaim == [version |-> 0, retired |-> FALSE]
Known(d) == definitions[d].version > 0

create_definition(c) ==
    /\ icall[c] = IIdle
    /\ "create_definition" \in imix
    /\ \E k \in IssuerKey : authenticate_integrator(k)
    /\ \E d \in Claim :
          /\ ~ Known(d)
          /\ definitions' = [definitions EXCEPT ![d] = [version |-> 1, retired |-> FALSE]]
          /\ Emit({[e |-> "defined", claim |-> d, version |-> 1]})
    /\ IEnd(c)
    /\ UNCHANGED <<consentTables, attested, revocations, cache, answered, tier, owner, issuerKeys, admitted>>

(* The row is read outside the transaction that writes it back.               *)
update_definitionBegin(c) ==
    /\ \E k \in IssuerKey : authenticate_integrator(k)
    /\ \E d \in Claim, edits, retires \in BOOLEAN :
          /\ Known(d)
          /\ IBegin(c, [h |-> "update_definition", pc |-> "read", claim |-> d, edits |-> edits,
                        retires |-> retires, row |-> definitions[d]])
    /\ UNCHANGED <<consentTables, claimTables, ilog, tier, owner, issuerKeys, admitted>>

(* An event for the new version, if anything but retired was sent, and one    *)
(* for the retirement, if this request is the one that retires.               *)
update_definition(c) ==
    /\ IAt(c, {"update_definition"}, "read")
    /\ LET q == icall[c]
           v == q.row.version + (IF q.edits THEN 1 ELSE 0)
           retiring == q.retires /\ ~ q.row.retired
       IN /\ definitions' = [definitions EXCEPT ![q.claim] =
                                [version |-> v, retired |-> q.row.retired \/ retiring]]
          /\ Emit((IF q.edits THEN {[e |-> "updated", claim |-> q.claim, version |-> v]} ELSE {})
                  \cup (IF retiring THEN {[e |-> "retired", claim |-> q.claim]} ELSE {}))
    /\ IEnd(c)
    /\ UNCHANGED <<consentTables, attested, revocations, cache, answered, keyTables>>

-----------------------------------------------------------------------------
(* Issuing: the issuer's key, the cached answer, the user's consent, the      *)
(* definitions, the quota, the transaction, the cached answer.                *)

IssueCalls == {"issue_attestation", "bulk_issue_attestation"}

(* fields past pc: who signs, the claims, the key sent, and what the model    *)
(* remembers: was a request of that key answered before this one began?       *)
IssueBegin(c) ==
    /\ \E h \in IssueCalls, k \in IssuerKey, claims \in SUBSET Claim \ {{}}, i \in IdemKey \cup {NoOne} :
          /\ h = "issue_attestation" => Cardinality(claims) = 1
          /\ authenticate_integrator(k)
          /\ IBegin(c, [h |-> h, pc |-> "auth", key |-> k, claims |-> claims, idem |-> i,
                        retry |-> <<h, i>> \in answered, b |-> NoOne, consent |-> FALSE])
    /\ UNCHANGED <<consentTables, claimTables, ilog, tier, owner, issuerKeys, admitted>>

find_cached(h, i) == {a \in cache : a.endpoint = h /\ a.idem = i}

IssueReplay(c) ==
    /\ IAt(c, IssueCalls, "auth")
    /\ find_cached(icall[c].h, icall[c].idem) # {}
    /\ IEnd(c)
    /\ UNCHANGED <<consentTables, claimTables, keyTables, ilog>>

Consenting(b) == IsActive(b) /\ IssueCap \in Granted(b)

fetch_binding(c) ==
    /\ IAt(c, IssueCalls, "auth")
    /\ find_cached(icall[c].h, icall[c].idem) = {}
    /\ BindingNow # NoOne
    /\ icall' = [icall EXCEPT ![c].pc = "bound", ![c].b = BindingNow]
    /\ UNCHANGED <<consentTables, claimTables, keyTables, ilog>>

fetch_grant(c) ==
    /\ IAt(c, IssueCalls, "bound")
    /\ grants[<<icall[c].b, IssueCap>>] = "active"
    /\ icall' = [icall EXCEPT ![c].pc = "allowed", ![c].consent = Consenting(icall[c].b)]
    /\ UNCHANGED <<consentTables, claimTables, keyTables, ilog>>

(* recent_issuer_subject_write_count and guard_write_quota, on rows already   *)
(* committed.                                                                 *)
guard_write_quota(requested) == Cardinality(attested) + requested <= WriteQuota

Open(claims) == {d \in claims : Known(d) /\ ~ definitions[d].retired}

(* The definitions, the quota and the issuer's keys.  A single issuance fails *)
(* without an open definition; a bulk one drops the claims that lack one.     *)
IssueCheck(c) ==
    /\ IAt(c, IssueCalls, "allowed")
    /\ LET q == icall[c] IN
          /\ q.h = "issue_attestation" => Open(q.claims) = q.claims
          /\ guard_write_quota(Cardinality(q.claims))
          /\ ValidKey(q.key)
          /\ icall' = [icall EXCEPT ![c].pc = "checked", ![c].claims = Open(q.claims)]
    /\ UNCHANGED <<consentTables, claimTables, keyTables, ilog>>

Issued(c) == {[by |-> c, claim |-> d, retry |-> icall[c].retry, consent |-> icall[c].consent] :
                 d \in icall[c].claims}

issue_attestation(c) ==
    /\ IAt(c, IssueCalls, "checked")
    /\ ensure_issuer_registered(icall[c].key)
    /\ attested' = attested \cup Issued(c)
    /\ Emit({[e |-> "issued", att |-> <<a.by, a.claim>>] : a \in Issued(c)})
    /\ icall' = [icall EXCEPT ![c].pc = "issued"]
    /\ UNCHANGED <<consentTables, definitions, revocations, cache, answered, tier, owner, issuerKeys,
                   challenges, spent>>

(* INSERT ... ON CONFLICT DO NOTHING, after the commit; then the answer.      *)
IssueStore(c) ==
    /\ IAt(c, IssueCalls, "issued")
    /\ LET q == icall[c] IN
          /\ cache' = IF q.idem = NoOne \/ find_cached(q.h, q.idem) # {} THEN cache
                      ELSE cache \cup {[endpoint |-> q.h, idem |-> q.idem, by |-> c]}
          /\ answered' = IF q.idem = NoOne THEN answered ELSE answered \cup {<<q.h, q.idem>>}
    /\ IEnd(c)
    /\ UNCHANGED <<consentTables, definitions, attested, revocations, keyTables, ilog>>

revoke_attestationBegin(c) ==
    /\ \E k \in IssuerKey, a \in attested :
          /\ authenticate_integrator(k)
          /\ <<a.by, a.claim>> \notin revocations
          /\ IBegin(c, [h |-> "revoke_attestation", pc |-> "auth", att |-> <<a.by, a.claim>>])
    /\ UNCHANGED <<consentTables, claimTables, ilog, tier, owner, issuerKeys, admitted>>

(* attestation_id is unique in attestation_revocations.                       *)
revoke_attestation(c) ==
    /\ IAt(c, {"revoke_attestation"}, "auth")
    /\ icall[c].att \notin revocations
    /\ revocations' = revocations \cup {icall[c].att}
    /\ Emit({[e |-> "claim_revoked", att |-> icall[c].att]})
    /\ IEnd(c)
    /\ UNCHANGED <<consentTables, definitions, attested, cache, answered, keyTables>>

-----------------------------------------------------------------------------
(* A new integrator for the key handlers; for the others one with a root key, *)
(* connected with every capability, and one definition unless one of the      *)
(* handlers creates it.                                                       *)
IntegratorInit ==
    /\ imix \in IntMixes
    /\ tier \in IF "register_issuer" \in imix THEN Tier ELSE {"dev"}
    /\ icall = [c \in IntCall |-> IIdle]
    /\ LET fresh == "register_integrator" \in imix IN
          /\ owner = IF fresh THEN "none" ELSE "registered"
          /\ issuerKeys = [k \in IssuerKey |->
                IF ~ fresh /\ k = 1 THEN [st |-> "valid", role |-> "root", until |-> FALSE]
                ELSE [st |-> "none", role |-> "root", until |-> FALSE]]
          /\ bindings = [b \in Binding |-> IF ~ fresh /\ b = 1 THEN "active" ELSE "none"]
          /\ grants = [x \in Binding \X Cap |-> IF ~ fresh /\ x[1] = 1 THEN "active" ELSE "none"]
          /\ \E d \in Claim :
                definitions = [x \in Claim |-> IF ~ fresh /\ "create_definition" \notin imix /\ x = d
                                 THEN [version |-> 1, retired |-> FALSE] ELSE NoClaim]
          /\ ilog = IF fresh THEN EmptyBag
                    ELSE SetToBag(GrantEvents("granted", 1, Cap)
                                  \cup {[e |-> "established", b |-> 1], [e |-> "key_added", key |-> 1]})
    /\ challenges = [id \in Challenge |-> [st |-> "none", key |-> NoOne]]
    /\ spent = [id \in Challenge |-> 0]
    /\ admitted = {}
    /\ attested = {} /\ revocations = {} /\ cache = {} /\ answered = {}

IntegratorNext ==
    /\ UNCHANGED <<imix>>
    /\ \/ \E c \in IntCall :
            \/ register_integrator(c)
            \/ add_issuer_keyBegin(c) \/ add_issuer_key(c)
            \/ revoke_issuer_keyBegin(c) \/ revoke_issuer_key(c)
            \/ register_issuerBegin(c) \/ register_issuer(c)
            \/ ConsentBegin(c) \/ active_binding(c) \/ Rollback(c)
            \/ connect(c) \/ revoke_grant(c) \/ disconnect(c)
            \/ create_definition(c) \/ update_definitionBegin(c) \/ update_definition(c)
            \/ IssueBegin(c) \/ IssueReplay(c) \/ fetch_binding(c) \/ fetch_grant(c)
            \/ IssueCheck(c) \/ issue_attestation(c) \/ IssueStore(c)
            \/ revoke_attestationBegin(c) \/ revoke_attestation(c)
       \/ create_integrator_challenge
       \/ create_registration_challenge
       \/ \E id \in Challenge : ChallengeExpires(id)
       \/ \E k \in IssuerKey : KeyExpires(k)

IntegratorSpec == IntegratorInit /\ [][IntegratorNext]_integratorVars

-----------------------------------------------------------------------------

(* The events tell what the tables hold: a grant is live iff it was granted   *)
(* once more than it was revoked; bindings, keys, attestations and            *)
(* revocations have their one event each, even when two requests race.        *)
EventsMatchTables ==
    /\ \A b \in Binding :
          /\ Emitted([e |-> "established", b |-> b]) = (IF bindings[b] = "none" THEN 0 ELSE 1)
          /\ Emitted([e |-> "ended", b |-> b]) = (IF bindings[b] = "ended" THEN 1 ELSE 0)
          /\ \A cap \in Cap :
                Emitted([e |-> "granted", b |-> b, cap |-> cap])
                  = Emitted([e |-> "revoked", b |-> b, cap |-> cap]) + (IF cap \in Granted(b) THEN 1 ELSE 0)
    /\ \A k \in IssuerKey :
          /\ Emitted([e |-> "key_added", key |-> k]) = (IF issuerKeys[k].st = "none" THEN 0 ELSE 1)
          /\ Emitted([e |-> "key_revoked", key |-> k]) = (IF issuerKeys[k].st = "revoked" THEN 1 ELSE 0)
    /\ \A a \in attested :
          /\ Emitted([e |-> "issued", att |-> <<a.by, a.claim>>]) = 1
          /\ Emitted([e |-> "claim_revoked", att |-> <<a.by, a.claim>>])
               = (IF <<a.by, a.claim>> \in revocations THEN 1 ELSE 0)

-----------------------------------------------------------------------------
(* An integrator's space: schema versions (integrator_schemas.rs), data       *)
(* instances about users (integrator_data.rs), schema mappings                *)
(* (integrator_schema_mappings.rs) and recognitions of other integrators      *)
(* (recognitions.rs), with the projections their events feed, the outbox      *)
(* order in which the events reach the ledger, and the rebuild of the         *)
(* projections from the ledger.                                               *)
(*                                                                            *)
(* One integrator, authenticated (module Integrators), and subjects bound to  *)
(* it.  A request opens its transaction, takes the row lock its handler takes *)
(* and makes the reads it makes under it, then commits.                       *)
CONSTANTS DataCall,     \* requests served over a behaviour
          DataMixes,    \* the sets of handlers explored together
          Subject,      \* users bound to the integrator
          Instance,     \* instance ids, 1 .. n in the order they are drawn
          Scope         \* scopes of a recognition of one other integrator

VARIABLES dmix, dcall,
          begun,        \* transactions begun: the clock behind enqueued_at
          schemas,      \* integrator_schemas: the version's successor, or 0
          instances,    \* integrator_data_instances
          mappings,     \* integrator_schema_mappings: <<from, to>> in order
          recognition,  \* integrator_recognitions: the scope in force
          data_view,         \* the indexer's projections of the four tables
          pending,      \* outbox rows not yet committed to the ledger
          settled       \* events of the ledger

dataTables == <<schemas, instances, mappings, recognition>>
dataVars == <<dmix, dcall, begun, dataTables, data_view, pending, settled>>

DIdle == [h |-> "idle"]
DDone == [h |-> "done"]
NoVersion == 0
NoScope == "revoked"
Absent == [schema |-> NoVersion, subject |-> NoVersion, by |-> NoVersion, gone |-> FALSE]

DAt(c, hs, pc) == dcall[c].h \in hs /\ dcall[c].pc = pc
DEnd(c) == dcall' = [dcall EXCEPT ![c] = DDone]

(* Authentication and validation, then BEGIN.                                 *)
DBegin(c, rec) ==
    /\ dcall[c] = DIdle
    /\ rec.h \in dmix
    /\ dcall' = [dcall EXCEPT ![c] = rec]
    /\ begun' = begun + 1
    /\ UNCHANGED <<dataTables, data_view, pending, settled>>

-----------------------------------------------------------------------------
(* The projections.                                                           *)

EmptyDataView == [schemas |-> <<>>, instances |-> [i \in Instance |-> Absent],
              mappings |-> <<>>, recognition |-> NoScope]

At(f, key, default) == IF key \in DOMAIN f THEN f[key] ELSE default

(* Upsert of the row the event publishes, and an UPDATE, which may find no    *)
(* row, of the one it supersedes.                                             *)
apply_schema(v, e) ==
    [v EXCEPT !.schemas = [s \in DOMAIN v.schemas \cup {e.version} |->
        IF s = e.sup THEN e.version ELSE At(v.schemas, s, NoVersion)]]

apply_data(v, e) ==
    [v EXCEPT !.instances = [i \in Instance |->
        CASE i = e.id -> [v.instances[i] EXCEPT !.schema = e.schema, !.subject = e.subject]
          [] i = e.sup /\ v.instances[i] # Absent -> [v.instances[i] EXCEPT !.by = e.id]
          [] OTHER -> v.instances[i]]]

apply_deletion(v, e) ==
    IF v.instances[e.id] = Absent THEN v ELSE [v EXCEPT !.instances[e.id].gone = TRUE]

apply_mapping(v, e) ==
    [v EXCEPT !.mappings = [m \in DOMAIN v.mappings \cup {e.seq} |-> At(v.mappings, m, e.pair)]]

apply_recognition(v, e) == [v EXCEPT !.recognition = e.scope]

Apply(v, e) ==
    CASE e.k = "schema" -> apply_schema(v, e)
      [] e.k = "data" -> apply_data(v, e)
      [] e.k = "deleted" -> apply_deletion(v, e)
      [] e.k = "mapping" -> apply_mapping(v, e)
      [] e.k = "recognized" -> apply_recognition(v, e)

(* enqueue and apply_in_tx, in the handler's transaction.                     *)
PublishData(c, e) ==
    /\ data_view' = Apply(data_view, e)
    /\ pending' = Append(pending, [at |-> dcall[c].at, event |-> e])

(* The drain: oldest transaction first, rows of one in their order.           *)
SettleData ==
    /\ pending # <<>>
    /\ settled' = settled \o
         LET byAge == SortSeq(pending, LAMBDA a, b : a.at < b.at)
         IN [i \in DOMAIN byAge |-> byAge[i].event]
    /\ pending' = <<>>
    /\ UNCHANGED <<dcall, begun, dataTables, data_view>>

-----------------------------------------------------------------------------
(* Row locks: the integrator's row for a new version or mapping, the schema's *)
(* for a new instance.  The reads of the previous row come after the lock.    *)

Locking == {"publish_schema_version", "publish_instance", "publish_mapping"}

LockKey(q) == IF q.h = "publish_instance" THEN <<"schema", q.schema>> ELSE <<"integrator", NoVersion>>

Current(s, u) == {i \in Instance : /\ instances[i].schema = s /\ instances[i].subject = u
                                   /\ instances[i].by = NoVersion}

TheOne(S) == IF S = {} THEN NoVersion ELSE CHOOSE x \in S : TRUE

Previous(q) ==
    CASE q.h = "publish_schema_version" -> Len(schemas)
      [] q.h = "publish_mapping" -> Len(mappings)
      [] q.h = "publish_instance" -> TheOne(Current(q.schema, q.subject))

(* Mutant: the row is read without FOR UPDATE.                                *)
LockRowUnlocked(c) ==
    /\ DAt(c, Locking, "begun")
    /\ dcall' = [dcall EXCEPT ![c].pc = "held", ![c].prev = Previous(dcall[c])]
    /\ UNCHANGED <<begun, dataTables, data_view, pending, settled>>

LockRow(c) ==
    /\ DAt(c, Locking, "begun")
    /\ \A d \in DataCall : DAt(d, Locking, "held") => LockKey(dcall[d]) # LockKey(dcall[c])
    /\ dcall' = [dcall EXCEPT ![c].pc = "held", ![c].prev = Previous(dcall[c])]
    /\ UNCHANGED <<begun, dataTables, data_view, pending, settled>>

publish_schema_versionBegin(c) ==
    DBegin(c, [h |-> "publish_schema_version", pc |-> "begun", at |-> begun, prev |-> NoVersion])

(* The version is part of the key: a number taken already is refused.         *)
publish_schema_version(c) ==
    /\ DAt(c, {"publish_schema_version"}, "held")
    /\ LET prev == dcall[c].prev IN
          /\ Len(schemas) = prev
          /\ schemas' = Append([s \in DOMAIN schemas |-> IF s = prev THEN prev + 1 ELSE schemas[s]], NoVersion)
          /\ PublishData(c, [k |-> "schema", version |-> prev + 1, sup |-> prev])
    /\ DEnd(c)
    /\ UNCHANGED <<begun, instances, mappings, recognition, settled>>

require_owned_schema(s) == s \in DOMAIN schemas

publish_mappingBegin(c) ==
    \E from, to \in 1 .. 2 :
      /\ from # to
      /\ require_owned_schema(from) /\ require_owned_schema(to)
      /\ DBegin(c, [h |-> "publish_mapping", pc |-> "begun", at |-> begun, prev |-> NoVersion, pair |-> <<from, to>>])

publish_mapping(c) ==
    /\ DAt(c, {"publish_mapping"}, "held")
    /\ Len(mappings) = dcall[c].prev
    /\ mappings' = Append(mappings, dcall[c].pair)
    /\ PublishData(c, [k |-> "mapping", seq |-> dcall[c].prev + 1, pair |-> dcall[c].pair])
    /\ DEnd(c)
    /\ UNCHANGED <<begun, schemas, instances, recognition, settled>>

publish_instanceBegin(c) ==
    \E s \in DOMAIN schemas, u \in Subject :
      DBegin(c, [h |-> "publish_instance", pc |-> "begun", at |-> begun, prev |-> NoVersion,
                 schema |-> s, subject |-> u])

(* The UPDATE of the previous row waits for a deletion that holds it.         *)
publish_instance(c) ==
    /\ DAt(c, {"publish_instance"}, "held")
    /\ LET q == dcall[c] IN
          /\ \A d \in DataCall : ~ (DAt(d, {"delete_instance"}, "held") /\ dcall[d].id = q.prev)
          /\ \E i \in Instance :
               /\ instances[i] = Absent
               /\ \A j \in Instance : instances[j] = Absent => i <= j
               /\ instances' = [j \in Instance |->
                     IF j = i THEN [Absent EXCEPT !.schema = q.schema, !.subject = q.subject]
                     ELSE IF j = q.prev THEN [instances[j] EXCEPT !.by = i] ELSE instances[j]]
               /\ PublishData(c, [k |-> "data", id |-> i, schema |-> q.schema, subject |-> q.subject, sup |-> q.prev])
    /\ DEnd(c)
    /\ UNCHANGED <<begun, schemas, mappings, recognition, settled>>

Deletable(i) == instances[i].by = NoVersion /\ ~ instances[i].gone

delete_instanceBegin(c) ==
    \E s \in DOMAIN schemas, u \in Subject : \E i \in Current(s, u) :
      /\ Deletable(i)
      /\ DBegin(c, [h |-> "delete_instance", pc |-> "begun", at |-> begun, id |-> i])

(* FOR UPDATE: waits for a deletion that holds the row, then looks again.     *)
LockInstance(c) ==
    /\ DAt(c, {"delete_instance"}, "begun")
    /\ \A d \in DataCall : ~ (DAt(d, {"delete_instance"}, "held") /\ dcall[d].id = dcall[c].id)
    /\ dcall' = [dcall EXCEPT ![c] = IF Deletable(@.id) THEN [@ EXCEPT !.pc = "held"] ELSE DDone]
    /\ UNCHANGED <<begun, dataTables, data_view, pending, settled>>

delete_instance(c) ==
    /\ DAt(c, {"delete_instance"}, "held")
    /\ instances' = [instances EXCEPT ![dcall[c].id].gone = TRUE]
    /\ PublishData(c, [k |-> "deleted", id |-> dcall[c].id])
    /\ DEnd(c)
    /\ UNCHANGED <<begun, schemas, mappings, recognition, settled>>

RecognitionBegin(c) ==
    \/ \E s \in Scope : DBegin(c, [h |-> "publish_recognition", pc |-> "begun", at |-> begun, scope |-> s])
    \/ DBegin(c, [h |-> "revoke_recognition", pc |-> "begun", at |-> begun])

publish_recognition(c) ==
    /\ DAt(c, {"publish_recognition"}, "begun")
    /\ recognition' = dcall[c].scope
    /\ PublishData(c, [k |-> "recognized", scope |-> dcall[c].scope])
    /\ DEnd(c)
    /\ UNCHANGED <<begun, schemas, instances, mappings, settled>>

(* No row in force: answered false, no event.                                 *)
revoke_recognition(c) ==
    /\ DAt(c, {"revoke_recognition"}, "begun")
    /\ recognition' = NoScope
    /\ IF recognition = NoScope THEN UNCHANGED <<data_view, pending>>
       ELSE PublishData(c, [k |-> "recognized", scope |-> NoScope])
    /\ DEnd(c)
    /\ UNCHANGED <<begun, schemas, instances, mappings, settled>>

(* The handler fails or is dropped with its lock held.                        *)
DataRollback(c) ==
    /\ DAt(c, Locking \cup {"delete_instance"}, "held")
    /\ DEnd(c)
    /\ UNCHANGED <<begun, dataTables, data_view, pending, settled>>

-----------------------------------------------------------------------------
(* A schema to publish under, where no schema is published.                   *)
DataInit ==
    /\ dmix \in DataMixes
    /\ dcall = [c \in DataCall |-> DIdle]
    /\ begun = 0
    /\ schemas = IF "publish_schema_version" \in dmix THEN <<>> ELSE <<NoVersion>>
    /\ instances = EmptyDataView.instances
    /\ mappings = <<>>
    /\ recognition = NoScope
    /\ data_view = [EmptyDataView EXCEPT !.schemas = schemas]
    /\ pending = <<>>
    /\ settled = IF schemas = <<>> THEN <<>> ELSE <<[k |-> "schema", version |-> 1, sup |-> NoVersion]>>

DataNext ==
    /\ UNCHANGED dmix
    /\ \/ \E c \in DataCall :
            \/ publish_schema_versionBegin(c) \/ publish_schema_version(c)
            \/ publish_mappingBegin(c) \/ publish_mapping(c)
            \/ publish_instanceBegin(c) \/ publish_instance(c)
            \/ delete_instanceBegin(c) \/ LockInstance(c) \/ delete_instance(c)
            \/ RecognitionBegin(c) \/ publish_recognition(c) \/ revoke_recognition(c)
            \/ LockRow(c) \/ DataRollback(c)
       \/ SettleData

DataSpec == DataInit /\ [][DataNext]_dataVars

-----------------------------------------------------------------------------

(* integrator_data.rs publish_instance, integrator_schemas.rs                 *)
(* publish_schema_version: however publishes and deletions interleave, the    *)
(* versions of a schema, and the instances of a schema and a subject, are one *)
(* chain in the order they were published, and only its end is current.       *)
HistoryIsAChain ==
    /\ \A s \in DOMAIN schemas : schemas[s] = IF s = Len(schemas) THEN NoVersion ELSE s + 1
    /\ \A i \in Instance : instances[i] # Absent =>
         LET later == {j \in Instance : /\ j > i /\ instances[j].schema = instances[i].schema
                                        /\ instances[j].subject = instances[i].subject}
         IN instances[i].by = IF later = {} THEN NoVersion ELSE Min(later)

=============================================================================
