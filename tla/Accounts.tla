------------------------------ MODULE Accounts ------------------------------
(***************************************************************************)
(* One identity's credentials on one node: its passkeys, its signing keys, *)
(* the sessions they back, the pairing and cross-node login requests that  *)
(* turn into sessions, and recovery by guardians                           *)
(* (crates/server/src/{recovery,passkeys,sessions,device_pairing,devices,  *)
(* cross_node_login,signature_gate,handlers}.rs).                          *)
(*                                                                         *)
(* Handlers run concurrently.  A handler that reads before it opens its    *)
(* transaction takes two steps: its first step authenticates and reads,    *)
(* and its second is the transaction, which sees whatever committed in     *)
(* between.  A handler that returns an error or is cancelled leaves its    *)
(* call where it is; its transaction has no effect.  Every call is used    *)
(* once, so Call bounds how many two-step handlers a behaviour runs; mix   *)
(* is the set of handlers the behaviour exercises.                         *)
(***************************************************************************)
EXTENDS Naturals, FiniteSets, FiniteSetsExt

CONSTANTS Call,        \* the two-step handler invocations of a behaviour
          Guardian,    \* friends the owner may name as guardians
          Passkey,     \* passkey ids (numbers), handed out in order
          DeviceKey,   \* signing keys registered or granted on this node
          FirstKey,    \* the ones already registered at the start
          ForeignKey,  \* signing keys of the identity without a row here
          Request,     \* recovery request ids (numbers), handed out in order
          Grant,       \* cross-node login grants (their nonces)
          Mixes,       \* the sets of handlers explored together
          AttemptsPerWindow  \* MAX_RECOVERY_ATTEMPTS_PER_WINDOW

VARIABLES mix,         \* the handlers this behaviour exercises
          call,        \* [Call -> the call's local state]
          passkeys,    \* ids of the identity_keys rows
          signingKeys, \* [DeviceKey -> identity_signing_keys row]
          revoked,     \* credentials in the mirrored revocation tables
          chainHead,   \* seq of the head of the identity's own event chain
          sessions,    \* the sessions rows
          minted,      \* [source -> sessions it has produced]
          ceremony,    \* [kind -> state of the webauthn_ceremonies row]
          deviceGrants,      \* signing keys with a pending device_grants row
          pairing,     \* the device_pairings row
          login,       \* the cross_node_login_requests row
          nonces,      \* consumed_cross_node_login_nonces
          lapsed,      \* grants past their expires_at
          guardianRow, \* recovery_guardians rows, <<guardian, writer>>
          threshold,   \* recovery_guardian_settings.threshold
          request,     \* [Request -> the recovery_requests row]
          approvals    \* [Request -> recovery_approvals of the request]

credentialVars == <<passkeys, signingKeys, revoked, chainHead>>
sessionVars == <<sessions, minted>>
handoverVars == <<ceremony, deviceGrants, pairing, login, nonces, lapsed>>
recoveryVars == <<guardianRow, threshold, request, approvals>>
accountVars == <<mix, call, credentialVars, sessionVars, handoverVars,
                 recoveryVars>>

Idle == [h |-> "idle"]
Done == [h |-> "done"]
SigningKeyId == DeviceKey \union ForeignKey

\* Where a session can come from: one login ceremony, the pairing row, the
\* cross-node login row, or a grant submitted directly.
Source == {"ceremony", "pairing", "login"} \union Grant

ASSUME AccountAssumption ==
  /\ IsFiniteSet(Guardian) /\ IsFiniteSet(Passkey)
  /\ Passkey \subseteq Nat /\ Request \subseteq Nat
  /\ Min(Passkey) \in Passkey \ {Max(Passkey)}
  /\ FirstKey \subseteq DeviceKey /\ FirstKey # {}
  /\ DeviceKey \intersect ForeignKey = {}
  /\ Passkey \intersect SigningKeyId = {}
  /\ "register" \notin Call
  /\ {"ceremony", "pairing", "login"} \intersect Grant = {}

Begin(c, local) ==
  /\ local.h \in mix
  /\ call[c] = Idle
  /\ call' = [call EXCEPT ![c] = local]

Commit(c, h) ==
  /\ call[c].h = h
  /\ call' = [call EXCEPT ![c] = Done]

\* identity_chain::assign: the transaction's chained events extend the chain.
assign(events) == chainHead' = chainHead + events

-----------------------------------------------------------------------------
(* Sessions *)

ActiveKeys == {k \in DeviceKey : signingKeys[k] = "active"}

\* resolve: the row is there and neither revocation table names its origin.
resolve(s) == s \in sessions /\ s.origin \notin revoked

\* The identity id is a primary key: a second registration of it is refused.
Unregistered == \A k \in DeviceKey : signingKeys[k] = "none"

\* A continuation token, signed by a key the projection of the identity's
\* signing keys holds as active; its nonce is fresh.
continuation_verify ==
  ~Unregistered /\ (ActiveKeys \union ForeignKey) \ revoked # {}

authenticate == continuation_verify \/ \E s \in sessions : resolve(s)

\* Inserts a session backed by a credential, from a source.
mint(source, credential) ==
  /\ minted' = [minted EXCEPT ![source] = @ + 1]
  /\ sessions' = sessions \union
       {[source |-> source, nth |-> minted[source] + 1, origin |-> credential]}

\* The sessions left when a credential's are deleted.
end_for(credential) == {s \in sessions : s.origin # credential}

\* Whether a signing key may still back a new session; a key without a row
\* here is accepted only where the caller does not require one.
signing_key_usable(k, require_local) ==
  /\ k \in DeviceKey => signingKeys[k] # "revoked"
  /\ require_local => k \in ActiveKeys
  /\ k \notin revoked

\* require_fresh_signature: the key is a row here and is not revoked.
require_fresh_signature(k) == k \in ActiveKeys

\* DELETE /sessions/current and POST /me/sessions/{id}/revoke, and
\* prune_expired once the session's thirty days are over.
EndSession ==
  /\ "logout" \in mix
  /\ \E s \in sessions : sessions' = sessions \ {s}
  /\ UNCHANGED <<mix, call, credentialVars, minted, handoverVars, recoveryVars>>

\* A revocation of one of the identity's credentials made on another node
\* arrives with the mirrored log.
MirroredRevocation ==
  /\ "mirror" \in mix
  /\ \E k \in ForeignKey \ revoked : revoked' = revoked \union {k}
  /\ UNCHANGED <<mix, call, passkeys, signingKeys, chainHead, sessionVars,
                 handoverVars, recoveryVars>>

-----------------------------------------------------------------------------
(* Passkey login and passkey management *)

\* handlers::register_start and the part of register_finish before its
\* transaction: the ceremony, the credential and the self-signature check out.
RegisterIdentityBegin(c) ==
  /\ passkeys = {}
  /\ \E k \in FirstKey : Begin(c, [h |-> "register_identity", key |-> k])
  /\ UNCHANGED <<mix, credentialVars, sessionVars, handoverVars, recoveryVars>>

\* The ids an INSERT into identity_keys may return.
FreshPasskeys == Passkey \ (passkeys \union revoked)

\* Identity, first passkey and inception key commit together; their events
\* carry no chain position.
register_identity(c) ==
  /\ Commit(c, "register_identity")
  /\ Unregistered
  /\ FreshPasskeys # {}
  /\ passkeys' = passkeys \union {Min(FreshPasskeys)}
  /\ signingKeys' = [signingKeys EXCEPT ![call[c].key] = "active"]
  /\ UNCHANGED <<mix, revoked, chainHead, sessionVars, handoverVars,
                 recoveryVars>>

session_start ==
  /\ "session_finish" \in mix
  /\ passkeys # {}
  /\ ceremony["login"] = "none"
  /\ ceremony' = [ceremony EXCEPT !["login"] = "open"]
  /\ UNCHANGED <<mix, call, credentialVars, sessionVars, deviceGrants, pairing,
                 login, nonces, lapsed, recoveryVars>>

\* Takes the ceremony row (DELETE .. RETURNING) and reads the passkeys.
SessionFinishBegin(c) ==
  /\ ceremony["login"] = "open"
  /\ \E k \in passkeys : Begin(c, [h |-> "session_finish", passkey |-> k])
  /\ ceremony' = [ceremony EXCEPT !["login"] = "taken"]
  /\ UNCHANGED <<mix, credentialVars, sessionVars, deviceGrants, pairing, login,
                 nonces, lapsed, recoveryVars>>

\* The minting transaction reads the passkey's row again, FOR SHARE.
PasskeyRowWasThere(k) == k \in Passkey
PasskeyRowIsThere(k) == k \in passkeys

session_finish(c) ==
  /\ Commit(c, "session_finish")
  /\ PasskeyRowIsThere(call[c].passkey)
  /\ mint("ceremony", call[c].passkey)
  /\ UNCHANGED <<mix, credentialVars, handoverVars, recoveryVars>>

register_start ==
  /\ "register_finish" \in mix
  /\ authenticate
  /\ ceremony' = [ceremony EXCEPT !["passkey"] = "open"]
  /\ UNCHANGED <<mix, call, credentialVars, sessionVars, deviceGrants, pairing,
                 login, nonces, lapsed, recoveryVars>>

RegisterFinishBegin(c) ==
  /\ authenticate
  /\ ceremony["passkey"] = "open"
  /\ Begin(c, [h |-> "register_finish"])
  /\ ceremony' = [ceremony EXCEPT !["passkey"] = "taken"]
  /\ UNCHANGED <<mix, credentialVars, sessionVars, deviceGrants, pairing, login,
                 nonces, lapsed, recoveryVars>>

register_finish(c) ==
  /\ Commit(c, "register_finish")
  /\ FreshPasskeys # {}
  /\ passkeys' = passkeys \union {Min(FreshPasskeys)}
  /\ assign(1)
  /\ UNCHANGED <<mix, signingKeys, revoked, sessionVars, handoverVars, recoveryVars>>

\* The call remembers the rows it could see and whether it carries a fresh
\* signature.
RevokePasskeyBegin(c) ==
  /\ authenticate
  /\ \E k \in passkeys, signer \in ActiveKeys \union {"unsigned"} :
       Begin(c,
             [h |-> "revoke_passkey", passkey |-> k, signer |-> signer, seen |-> passkeys])
  /\ UNCHANGED <<mix, credentialVars, sessionVars, handoverVars, recoveryVars>>

needs_fresh_signature(remaining) == remaining <= 1

\* SELECT .. FOR UPDATE: the rows as they are once every earlier writer of
\* them has committed.
LockedPasskeys(c) == passkeys

revoke_passkey(c) ==
  LET k == call[c].passkey
  IN  /\ Commit(c, "revoke_passkey")
      /\ needs_fresh_signature(Cardinality(LockedPasskeys(c)))
           => require_fresh_signature(call[c].signer)
      /\ k \in passkeys
      /\ passkeys' = passkeys \ {k}
      /\ sessions' = end_for(k)
      /\ revoked' = revoked \union {k}
      /\ assign(1)
      /\ UNCHANGED <<mix, signingKeys, minted, handoverVars, recoveryVars>>

-----------------------------------------------------------------------------
(* Signing keys *)

request_device_grant ==
  /\ "approve_device_grant" \in mix
  /\ authenticate
  /\ \E k \in DeviceKey : /\ signingKeys[k] = "none" /\ k \notin deviceGrants
                          /\ deviceGrants' = deviceGrants \union {k}
  /\ UNCHANGED <<mix, call, credentialVars, sessionVars, ceremony, pairing,
                 login, nonces, lapsed, recoveryVars>>

\* The client signs over the chain position after the head it knows.
ApproveDeviceGrantBegin(c) ==
  /\ authenticate
  /\ \E k \in deviceGrants, approver \in ActiveKeys :
       Begin(c,
             [h |-> "approve_device_grant", key |-> k, by |-> approver, head |-> chainHead])
  /\ UNCHANGED <<mix, credentialVars, sessionVars, handoverVars, recoveryVars>>

\* The active rows, locked for the transaction.
lock_active_signing_keys == ActiveKeys

\* The signed chain position is still the head of the identity's chain.
require_signed_position(c) == call[c].head = chainHead

approve_device_grant(c) ==
  LET k == call[c].key
  IN  /\ Commit(c, "approve_device_grant")
      /\ call[c].by \in lock_active_signing_keys
      /\ require_signed_position(c)
      /\ k \in deviceGrants
      /\ signingKeys' = [signingKeys EXCEPT ![k] = "active"]
      /\ deviceGrants' = deviceGrants \ {k}
      /\ assign(1)
      /\ UNCHANGED <<mix, passkeys, revoked, sessionVars, ceremony, pairing,
                     login, nonces, lapsed, recoveryVars>>

RevokeDeviceBegin(c) ==
  /\ authenticate
  /\ \E k, revoker \in ActiveKeys :
       Begin(c, [h |-> "revoke_device", key |-> k, by |-> revoker, head |-> chainHead])
  /\ UNCHANGED <<mix, credentialVars, sessionVars, handoverVars, recoveryVars>>

\* LastSigningKey: the only active key cannot be revoked.
NotLastKey(active) == Cardinality(active) # 1

revoke_device(c) ==
  LET k == call[c].key
      active == lock_active_signing_keys
  IN  /\ Commit(c, "revoke_device")
      /\ call[c].by \in active /\ k \in active
      /\ NotLastKey(active)
      /\ require_signed_position(c)
      /\ signingKeys' = [signingKeys EXCEPT ![k] = "revoked"]
      /\ sessions' = end_for(k)
      /\ revoked' = revoked \union {k}
      /\ assign(1)
      /\ UNCHANGED <<mix, passkeys, minted, handoverVars, recoveryVars>>

-----------------------------------------------------------------------------
(* Device pairing and cross-node login.  Both are a row that is pending,   *)
(* then approved by a signing key, then traded for one session by a poll.  *)

NoHandover == [status |-> "none", key |-> "none"]
Pending == [status |-> "pending", key |-> "none"]

start_pairing ==
  /\ "poll_pairing" \in mix
  /\ pairing = NoHandover /\ pairing' = Pending
  /\ UNCHANGED <<mix, call, credentialVars, sessionVars, ceremony, deviceGrants,
                 login, nonces, lapsed, recoveryVars>>

ApprovePairingBegin(c) ==
  /\ authenticate
  /\ pairing = Pending
  /\ \E k \in SigningKeyId : /\ require_fresh_signature(k)
                             /\ Begin(c, [h |-> "approve_pairing", key |-> k])
  /\ UNCHANGED <<mix, credentialVars, sessionVars, handoverVars, recoveryVars>>

approve_pairing(c) ==
  /\ Commit(c, "approve_pairing")
  /\ pairing = Pending
  /\ pairing' = [status |-> "approved", key |-> call[c].key]
  /\ UNCHANGED <<mix, credentialVars, sessionVars, ceremony, deviceGrants, login,
                 nonces, lapsed, recoveryVars>>

deny_pairing ==
  /\ "poll_pairing" \in mix
  /\ authenticate
  /\ pairing = Pending
  /\ pairing' = [status |-> "denied", key |-> "none"]
  /\ UNCHANGED <<mix, call, credentialVars, sessionVars, ceremony, deviceGrants,
                 login, nonces, lapsed, recoveryVars>>

\* A poll after the row's expires_at.
ExpirePairing ==
  /\ "poll_pairing" \in mix
  /\ pairing.status \in {"pending", "approved"}
  /\ pairing' = [pairing EXCEPT !.status = "expired"]
  /\ UNCHANGED <<mix, call, credentialVars, sessionVars, ceremony, deviceGrants,
                 login, nonces, lapsed, recoveryVars>>

\* The poll's first read; only an approved, unexpired row leads further.
PollPairingBegin(c) ==
  /\ pairing.status = "approved"
  /\ Begin(c, [h |-> "poll_pairing", key |-> pairing.key])
  /\ UNCHANGED <<mix, credentialVars, sessionVars, handoverVars, recoveryVars>>

\* UPDATE .. WHERE status = 'approved' RETURNING: the row's status must still
\* be approved when the update reaches it.
Consumable(row) == row.status = "approved"

poll_pairing(c) ==
  /\ Commit(c, "poll_pairing")
  /\ Consumable(pairing)
  /\ pairing' = [pairing EXCEPT !.status = "expired"]
  /\ IF signing_key_usable(pairing.key, TRUE)
     THEN mint("pairing", pairing.key)
     ELSE UNCHANGED sessionVars
  /\ UNCHANGED <<mix, credentialVars, ceremony, deviceGrants, login, nonces, lapsed,
                 recoveryVars>>

start_login ==
  /\ "poll_login" \in mix
  /\ login = NoHandover /\ login' = Pending
  /\ UNCHANGED <<mix, call, credentialVars, sessionVars, ceremony, deviceGrants,
                 pairing, nonces, lapsed, recoveryVars>>

\* verify_grant's checks: unexpired, and signed by a key that is active here
\* or, without a row here, found on another shard.
VerifyGrant(c) ==
  /\ \E g \in Grant \ lapsed, k \in SigningKeyId, code \in BOOLEAN :
       /\ k \in DeviceKey => k \in ActiveKeys
       /\ k \notin revoked
       /\ Begin(c, [h |-> "submit", grant |-> g, key |-> k, user_code |-> code,
                             spent |-> FALSE])
  /\ UNCHANGED <<mix, credentialVars, sessionVars, handoverVars, recoveryVars>>

\* A grant's expires_at passes.
GrantLapses ==
  /\ "submit" \in mix
  /\ \E g \in Grant \ lapsed : lapsed' = lapsed \union {g}
  /\ UNCHANGED <<mix, call, credentialVars, sessionVars, ceremony, deviceGrants,
                 pairing, login, nonces, recoveryVars>>

\* Expired nonces are deleted, then the grant's own is inserted; a nonce that
\* is already there ends the call.
SpendNonce(c) ==
  /\ call[c].h = "submit" /\ ~call[c].spent
  /\ call[c].grant \notin nonces \/ call[c].grant \in lapsed
  /\ nonces' = (nonces \ lapsed) \union {call[c].grant}
  /\ call' = [call EXCEPT ![c].spent = TRUE]
  /\ UNCHANGED <<mix, credentialVars, sessionVars, ceremony, deviceGrants, pairing,
                 login, lapsed, recoveryVars>>

submit(c) ==
  /\ Commit(c, "submit")
  /\ call[c].spent
  /\ \/ /\ ~call[c].user_code
        /\ signing_key_usable(call[c].key, FALSE)
        /\ mint(call[c].grant, call[c].key)
        /\ UNCHANGED login
     \/ /\ call[c].user_code
        /\ login = Pending
        /\ login' = [status |-> "approved", key |-> call[c].key]
        /\ UNCHANGED sessionVars
  /\ UNCHANGED <<mix, credentialVars, ceremony, deviceGrants, pairing, nonces, lapsed,
                 recoveryVars>>

\* deny, and a poll after the row's expires_at.
CloseLogin ==
  /\ "poll_login" \in mix
  /\ \/ /\ login = Pending
        /\ login' = [login EXCEPT !.status = "denied"]
     \/ /\ login.status \in {"pending", "approved"}
        /\ login' = [login EXCEPT !.status = "expired"]
  /\ UNCHANGED <<mix, call, credentialVars, sessionVars, ceremony, deviceGrants,
                 pairing, nonces, lapsed, recoveryVars>>

PollLoginBegin(c) ==
  /\ login.status = "approved"
  /\ Begin(c, [h |-> "poll_login", key |-> login.key])
  /\ UNCHANGED <<mix, credentialVars, sessionVars, handoverVars, recoveryVars>>

poll_login(c) ==
  /\ Commit(c, "poll_login")
  /\ Consumable(login)
  /\ login' = [login EXCEPT !.status = "expired"]
  /\ IF signing_key_usable(login.key, FALSE)
     THEN mint("login", login.key)
     ELSE UNCHANGED sessionVars
  /\ UNCHANGED <<mix, credentialVars, ceremony, deviceGrants, pairing, nonces, lapsed,
                 recoveryVars>>

-----------------------------------------------------------------------------
(* Recovery *)

Guardians == {row[1] : row \in guardianRow}
Active == {"pending_approvals", "delay"}
NoRequest == [status |-> "none", needed |-> 0, delay_over |-> FALSE]

validate_guardian_settings(count, n) == 1 <= n /\ n <= count

\* Removing a guardian or raising the threshold takes a fresh signature, and
\* the settings it is compared with are read before the transaction opens.
SetGuardiansBegin(c) ==
  /\ authenticate
  /\ \E G \in SUBSET Guardian, n \in 1..Cardinality(Guardian) :
       /\ validate_guardian_settings(Cardinality(G), n)
       /\ ~(Guardians \subseteq G) \/ n > threshold
            => \E k \in DeviceKey : require_fresh_signature(k)
       /\ Begin(c, [h |-> "set_guardians", guardians |-> G, n |-> n])
  /\ UNCHANGED <<mix, credentialVars, sessionVars, handoverVars, recoveryVars>>

\* DELETE FROM recovery_guardians: the rows this statement can see.
SetGuardiansDelete(c) ==
  /\ call[c].h = "set_guardians"
  /\ call' = [call EXCEPT ![c] =
               [h |-> "set_guardians_insert", guardians |-> call[c].guardians,
                n |-> call[c].n, deleted |-> guardianRow]]
  /\ UNCHANGED <<mix, credentialVars, sessionVars, handoverVars, recoveryVars>>

\* The inserts and the commit.  Rows another writer committed after the
\* delete stay, and the primary key refuses a guardian they already name.
set_guardians(c) ==
  LET kept == guardianRow \ call[c].deleted
  IN  /\ Commit(c, "set_guardians_insert")
      /\ call[c].guardians \intersect {row[1] : row \in kept} = {}
      /\ guardianRow' = kept \union (call[c].guardians \X {c})
      /\ threshold' = call[c].n
      /\ assign(1)
      /\ UNCHANGED <<mix, passkeys, signingKeys, revoked, sessionVars, handoverVars,
                     request, approvals>>

RemainingAfterMine == Cardinality(guardianRow) - 1

\* A guardian deletes its own row and counts the rows it can still see.
ResignGuardianBegin(c) ==
  /\ \E row \in guardianRow :
       Begin(c,
             [h |-> "resign_guardian", row |-> row, remaining |-> RemainingAfterMine])
  /\ UNCHANGED <<mix, credentialVars, sessionVars, handoverVars, recoveryVars>>

resign_guardian(c) ==
  /\ Commit(c, "resign_guardian")
  /\ call[c].row \in guardianRow
  /\ guardianRow' = guardianRow \ {call[c].row}
  /\ threshold' = Min({threshold, call[c].remaining})
  /\ UNCHANGED <<mix, credentialVars, sessionVars, handoverVars, request,
                 approvals>>

recent_request_count == Cardinality({r \in Request : request[r] # NoRequest})
guard_rate_limit == recent_request_count < AttemptsPerWindow

start_request ==
  /\ "finish_request" \in mix
  /\ threshold >= 1 /\ guard_rate_limit
  /\ ceremony' = [ceremony EXCEPT !["recovery"] = "open"]
  /\ UNCHANGED <<mix, call, credentialVars, sessionVars, deviceGrants, pairing,
                 login, nonces, lapsed, recoveryVars>>

\* Takes the ceremony and reads the threshold the request will carry.
FinishRequestBegin(c) ==
  /\ ceremony["recovery"] = "open"
  /\ threshold >= 1 /\ guard_rate_limit
  /\ Begin(c, [h |-> "finish_request", n |-> threshold])
  /\ ceremony' = [ceremony EXCEPT !["recovery"] = "taken"]
  /\ UNCHANGED <<mix, credentialVars, sessionVars, deviceGrants, pairing, login,
                 nonces, lapsed, recoveryVars>>

\* recovery_requests_one_active_per_identity_idx.
NoneActive == \A r \in Request : request[r].status \notin Active

finish_request(c) ==
  /\ Commit(c, "finish_request")
  /\ NoneActive
  /\ \E r \in Request :
       /\ request[r] = NoRequest
       /\ \A q \in Request : request[q] = NoRequest => r <= q
       /\ request' = [request EXCEPT ![r] =
            [status |-> "pending_approvals", needed |-> call[c].n,
             delay_over |-> FALSE]]
  /\ assign(1)
  /\ UNCHANGED <<mix, passkeys, signingKeys, revoked, sessionVars, handoverVars,
                 guardianRow, threshold, approvals>>

\* An approving guardian is one of the current guardians when its call starts.
ApproveRequestBegin(c) ==
  /\ \E r \in Request, g \in Guardians :
       /\ request[r].status \in Active
       /\ Begin(c, [h |-> "approve_request", req |-> r, guardian |-> g])
  /\ UNCHANGED <<mix, credentialVars, sessionVars, handoverVars, recoveryVars>>

meets_threshold(count, needed) == count >= needed

\* What the transaction goes by: the row's status under its lock.
LockedStatus(r) == request[r].status

approve_request(c) ==
  LET r == call[c].req
      approved == approvals[r] \union {call[c].guardian}
  IN  /\ Commit(c, "approve_request")
      /\ LockedStatus(r) \in Active
      /\ call[c].guardian \notin approvals[r]
      /\ approvals' = [approvals EXCEPT ![r] = approved]
      /\ request' = IF /\ LockedStatus(r) = "pending_approvals"
                       /\ meets_threshold(Cardinality(approved),
                                          request[r].needed)
                    THEN [request EXCEPT ![r].status = "delay"]
                    ELSE request
      /\ assign(1)
      /\ UNCHANGED <<mix, passkeys, signingKeys, revoked, sessionVars, handoverVars,
                     guardianRow, threshold>>

\* delay_ends_at passes.
DelayEnds ==
  /\ \E r \in Request :
       /\ request[r].status = "delay" /\ ~request[r].delay_over
       /\ request' = [request EXCEPT ![r].delay_over = TRUE]
  /\ UNCHANGED <<mix, call, credentialVars, sessionVars, handoverVars,
                 guardianRow, threshold, approvals>>

\* The owner, in any live session, or a current guardian.
guard_cancel_authority(who) == who \in Guardians \/ (who = "owner" /\ authenticate)

CancelRequestBegin(c) ==
  /\ \E r \in Request, who \in Guardian \union {"owner"} :
       /\ request[r].status \in Active
       /\ guard_cancel_authority(who)
       /\ Begin(c, [h |-> "cancel_request", req |-> r])
  /\ UNCHANGED <<mix, credentialVars, sessionVars, handoverVars, recoveryVars>>

cancel_request(c) ==
  /\ Commit(c, "cancel_request")
  /\ request[call[c].req].status \in Active
  /\ request' = [request EXCEPT ![call[c].req].status = "cancelled"]
  /\ assign(1)
  /\ UNCHANGED <<mix, passkeys, signingKeys, revoked, sessionVars, handoverVars,
                 guardianRow, threshold, approvals>>

guard_can_finalize(r) == request[r].status = "delay" /\ request[r].delay_over

FinalizeRequestBegin(c) ==
  /\ \E r \in Request : /\ guard_can_finalize(r)
                        /\ Begin(c, [h |-> "finalize_request", req |-> r])
  /\ UNCHANGED <<mix, credentialVars, sessionVars, handoverVars, recoveryVars>>

\* end_all_for_identity: the rows that name the identity go, sessions last.
Dropped(row) == IF row.key # "none" THEN [status |-> "deleted", key |-> "none"]
                ELSE row

end_all_for_identity ==
  /\ pairing' = IF pairing.status = "denied"
                THEN [status |-> "deleted", key |-> "none"]
                ELSE Dropped(pairing)
  /\ login' = Dropped(login)
  /\ sessions' = {}
  /\ UNCHANGED minted

\* Every passkey is revoked and replaced by the requested one, every session
\* and every handover that could become one ends, and the request completes.
finalize_request(c) ==
  LET r == call[c].req
  IN  /\ Commit(c, "finalize_request")
      /\ guard_can_finalize(r)
      /\ FreshPasskeys # {}
      /\ passkeys' = {Min(FreshPasskeys)}
      /\ revoked' = revoked \union passkeys
      /\ end_all_for_identity
      /\ request' = [request EXCEPT ![r].status = "completed"]
      /\ assign(Cardinality(passkeys) + 2)
      /\ UNCHANGED <<mix, signingKeys, ceremony, deviceGrants, nonces, lapsed, guardianRow,
                     threshold, approvals>>

-----------------------------------------------------------------------------
\* Either a registered identity that has logged in with its first passkey
\* and named its guardians, with or without a recovery under way, or an
\* identity that is yet to register.
AccountInit ==
  /\ mix \in Mixes
  /\ call = [c \in Call |-> Idle]
  /\ revoked = {}
  /\ chainHead = 0
  /\ minted = [s \in Source |-> 0]
  /\ ceremony = [k \in {"login", "passkey", "recovery"} |-> "none"]
  /\ deviceGrants = {} /\ pairing = NoHandover /\ login = NoHandover
  /\ nonces = {} /\ lapsed = {}
  /\ approvals = [r \in Request |-> {}]
  /\ IF "register_identity" \in mix
     THEN /\ passkeys = {} /\ sessions = {} /\ guardianRow = {}
          /\ threshold = 0
          /\ signingKeys = [d \in DeviceKey |-> "none"]
          /\ request = [r \in Request |-> NoRequest]
     ELSE /\ passkeys = Passkey \ {Max(Passkey)}
          /\ signingKeys = [d \in DeviceKey |->
                        IF d \in FirstKey THEN "active" ELSE "none"]
          /\ sessions = {[source |-> "ceremony", nth |-> 0,
                          origin |-> Min(Passkey)]}
          /\ guardianRow = Guardian \X {"register"}
          /\ threshold \in 1..Cardinality(Guardian)
          /\ request \in {[r \in Request |-> NoRequest],
               [r \in Request |-> IF r # Min(Request) THEN NoRequest
                 ELSE [status |-> "pending_approvals", needed |-> threshold,
                       delay_over |-> FALSE]]}

OneStep ==
  \/ EndSession \/ MirroredRevocation
  \/ session_start \/ register_start \/ request_device_grant
  \/ start_pairing \/ deny_pairing \/ ExpirePairing
  \/ start_login \/ CloseLogin \/ GrantLapses
  \/ start_request \/ DelayEnds

TwoStep(c) ==
  \/ RegisterIdentityBegin(c) \/ register_identity(c)
  \/ SessionFinishBegin(c) \/ session_finish(c)
  \/ RegisterFinishBegin(c) \/ register_finish(c)
  \/ RevokePasskeyBegin(c) \/ revoke_passkey(c)
  \/ ApproveDeviceGrantBegin(c) \/ approve_device_grant(c)
  \/ RevokeDeviceBegin(c) \/ revoke_device(c)
  \/ ApprovePairingBegin(c) \/ approve_pairing(c)
  \/ PollPairingBegin(c) \/ poll_pairing(c)
  \/ VerifyGrant(c) \/ SpendNonce(c) \/ submit(c)
  \/ PollLoginBegin(c) \/ poll_login(c)
  \/ SetGuardiansBegin(c) \/ SetGuardiansDelete(c) \/ set_guardians(c)
  \/ ResignGuardianBegin(c) \/ resign_guardian(c)
  \/ FinishRequestBegin(c) \/ finish_request(c)
  \/ ApproveRequestBegin(c) \/ approve_request(c)
  \/ CancelRequestBegin(c) \/ cancel_request(c)
  \/ FinalizeRequestBegin(c) \/ finalize_request(c)

AccountNext == OneStep \/ \E c \in Call : TwoStep(c)

AccountSpec == AccountInit /\ [][AccountNext]_accountVars

-----------------------------------------------------------------------------
\* Every session row is backed by a credential that is still good: no login,
\* poll or submit that raced a revocation or a recovery left one behind (the
\* FOR SHARE reads of session_finish and signing_key_usable, end_for_*,
\* end_all_for_identity).  For a key without a row here the mirrored
\* revocation ends what the session can do, and its row stays.
NoSessionOutlivesItsCredential ==
  \A s \in sessions :
    s.origin \in passkeys \union ActiveKeys \union ForeignKey

\* One login ceremony, one approved pairing or login request yields at most
\* one session however many requests race for it, and so does one grant as
\* long as it has not expired (DELETE .. RETURNING, the conditional UPDATE of
\* the polls, the nonce table).
OneSessionPerApproval ==
  \A s \in Source \ lapsed : minted[s] <= 1

\* A request that was cancelled or completed stays so, and never loses an
\* approval: an approval or a finalization that read the row before a veto
\* committed does not undo it.
VetoIsFinal ==
  [][\A r \in Request :
       /\ approvals[r] \subseteq approvals'[r]
       /\ request[r].status \in {"cancelled", "completed"}
            => request'[r] = request[r]]_accountVars

\* Recovery completes only after as many distinct guardians as the threshold
\* frozen in the request approved it, at least one, and after its delay.
RecoveryIsEarned ==
  \A r \in Request : request[r].status \in {"delay", "completed"} =>
    /\ request[r].needed >= 1
    /\ Cardinality(approvals[r]) >= request[r].needed
    /\ request[r].status = "completed" => request[r].delay_over

\* A registered identity always keeps an active signing key, also when two
\* keys are revoked at once (lock_active_signing_keys, LastSigningKey).
SigningKeyRemains == ~Unregistered => ActiveKeys # {}

=============================================================================
