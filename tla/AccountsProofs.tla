--------------------------- MODULE AccountsProofs ---------------------------
(***************************************************************************)
(* Proofs about an identity's credentials on one node, for any number of   *)
(* concurrent handlers, passkeys, keys, grants and guardians, and any mix  *)
(* of handlers.                                                            *)
(***************************************************************************)
EXTENDS Accounts, TLAPS

\* What the row of a call holds while a grant is being submitted.
SubmitCall == [h : {"submit"}, grant : Grant, key : SigningKeyId,
               user_code : BOOLEAN, spent : BOOLEAN]

\* The tables and the calls have the shape their columns give them.
AccountShape ==
  /\ call = [c \in Call |-> call[c]]
  /\ signingKeys \in [DeviceKey -> {"none", "active", "revoked"}]
  /\ pairing = [status |-> pairing.status, key |-> pairing.key]
  /\ login = [status |-> login.status, key |-> login.key]
  /\ \A c \in Call : call[c].h = "submit" => call[c] \in SubmitCall

\* A key that is no row here, or whose row has been active.
KeyKnown(k) ==
  k \in SigningKeyId /\ (k \in DeviceKey => signingKeys[k] # "none")

\* Where a key waits to become a session's origin.
KeysWaiting ==
  /\ \A c \in Call : call[c].h = "submit" => KeyKnown(call[c].key)
  /\ login.status = "approved" => KeyKnown(login.key)

CredentialInv ==
  /\ AccountShape
  /\ KeysWaiting
  /\ NoSessionOutlivesItsCredential
  /\ SigningKeyRemains

-----------------------------------------------------------------------------
(* The initial states and the steps that touch no credential.              *)

LEMMA CredentialInit == AccountInit => CredentialInv
<1> SUFFICES ASSUME AccountInit PROVE CredentialInv
  OBVIOUS
<1>1. AccountShape
  BY DEF AccountInit, AccountShape, NoHandover, Idle
<1>2. KeysWaiting
  BY DEF AccountInit, KeysWaiting, NoHandover, Idle
<1>3. NoSessionOutlivesItsCredential
  <2>1. CASE "register_identity" \in mix
    BY <2>1 DEF AccountInit, NoSessionOutlivesItsCredential
  <2>2. CASE "register_identity" \notin mix
    <3>1. Min(Passkey) \in passkeys
      BY <2>2, AccountAssumption DEF AccountInit
    <3>2. \A s \in sessions : s.origin = Min(Passkey)
      BY <2>2 DEF AccountInit
    <3> QED
      BY <3>1, <3>2 DEF NoSessionOutlivesItsCredential
  <2> QED
    BY <2>1, <2>2
<1>4. SigningKeyRemains
  <2>1. CASE "register_identity" \in mix
    BY <2>1 DEF AccountInit, SigningKeyRemains, Unregistered
  <2>2. CASE "register_identity" \notin mix
    BY <2>2, AccountAssumption
       DEF AccountInit, SigningKeyRemains, Unregistered, ActiveKeys
  <2> QED
    BY <2>1, <2>2
<1> QED
  BY <1>1, <1>2, <1>3, <1>4 DEF CredentialInv

\* What a step that moves one call keeps: the call it leaves behind and the
\* rows it writes have their shape, and no key loses its row.
LEMMA CallMoves ==
  ASSUME AccountShape, KeysWaiting, NEW c \in Call, NEW v,
         call' = [call EXCEPT ![c] = v],
         v.h = "submit" => v \in SubmitCall /\ KeyKnown(v.key),
         signingKeys' \in [DeviceKey -> {"none", "active", "revoked"}],
         \A k \in DeviceKey : signingKeys[k] # "none" => signingKeys'[k] # "none",
         pairing' = [status |-> pairing'.status, key |-> pairing'.key],
         login' = [status |-> login'.status, key |-> login'.key],
         login'.status = "approved" => KeyKnown(login'.key)
  PROVE  AccountShape' /\ KeysWaiting'
<1>1. call' = [d \in Call |-> call'[d]]
  BY DEF AccountShape
<1>2. \A d \in Call : call'[d] = IF d = c THEN v ELSE call[d]
  BY DEF AccountShape
<1>3. \A d \in Call : call'[d].h = "submit" =>
        call'[d] \in SubmitCall /\ KeyKnown(call'[d].key)
  BY <1>2 DEF AccountShape, KeysWaiting
<1>4. \A k : KeyKnown(k) => KeyKnown(k)'
  BY DEF KeyKnown
<1>5. AccountShape'
  BY <1>1, <1>3 DEF AccountShape, SubmitCall
<1>6. KeysWaiting'
  BY <1>3, <1>4 DEF KeysWaiting
<1> QED
  BY <1>5, <1>6

\* The same for a step that moves no call.
LEMMA NoCallMoves ==
  ASSUME AccountShape, KeysWaiting, UNCHANGED <<call, signingKeys>>,
         pairing' = [status |-> pairing'.status, key |-> pairing'.key],
         login' = [status |-> login'.status, key |-> login'.key],
         login'.status = "approved" => KeyKnown(login'.key)
  PROVE  AccountShape' /\ KeysWaiting'
<1>1. \A k : KeyKnown(k) => KeyKnown(k)'
  BY DEF KeyKnown
<1>2. AccountShape'
  BY DEF AccountShape, SubmitCall
<1>3. KeysWaiting'
  BY <1>1 DEF KeysWaiting
<1> QED
  BY <1>2, <1>3

\* Sessions that were there, or whose origin is good, on credentials that grew.
LEMMA SessionsKept ==
  ASSUME NoSessionOutlivesItsCredential,
         passkeys \subseteq passkeys', ActiveKeys \subseteq ActiveKeys',
         \A s \in sessions' : s \in sessions \/
            s.origin \in passkeys' \union ActiveKeys' \union ForeignKey
  PROVE  NoSessionOutlivesItsCredential'
BY Zenon DEF NoSessionOutlivesItsCredential

\* An unchanged table of keys keeps its active rows.
LEMMA KeysKept ==
  ASSUME UNCHANGED signingKeys
  PROVE  /\ ActiveKeys' = ActiveKeys
         /\ SigningKeyRemains => SigningKeyRemains'
BY DEF ActiveKeys, SigningKeyRemains, Unregistered

-----------------------------------------------------------------------------
(* One lemma for the steps of no call, one for the first steps of calls.   *)

LEMMA CredentialOneStep ==
  ASSUME CredentialInv, OneStep
  PROVE  CredentialInv'
<1> USE DEF CredentialInv
<1>1. UNCHANGED <<call, passkeys, signingKeys>> /\ sessions' \subseteq sessions
  BY DEF OneStep, EndSession, MirroredRevocation, session_start, register_start,
     request_device_grant, start_pairing, deny_pairing, ExpirePairing,
     start_login, CloseLogin, GrantLapses, start_request, DelayEnds,
     credentialVars, sessionVars
<1>2. pairing' = [status |-> pairing'.status, key |-> pairing'.key]
  BY DEF OneStep, EndSession, MirroredRevocation, session_start, register_start,
     request_device_grant, start_pairing, deny_pairing, ExpirePairing,
     start_login, CloseLogin, GrantLapses, start_request, DelayEnds,
     handoverVars, AccountShape, Pending
<1>3. /\ login' = [status |-> login'.status, key |-> login'.key]
      /\ login'.status = "approved" => login' = login
  BY DEF OneStep, EndSession, MirroredRevocation, session_start, register_start,
     request_device_grant, start_pairing, deny_pairing, ExpirePairing,
     start_login, CloseLogin, GrantLapses, start_request, DelayEnds,
     handoverVars, AccountShape, Pending
<1>4. AccountShape' /\ KeysWaiting'
  BY <1>1, <1>2, <1>3, NoCallMoves DEF KeysWaiting
<1>5. NoSessionOutlivesItsCredential' /\ SigningKeyRemains'
  BY <1>1, KeysKept, SessionsKept
<1> QED
  BY <1>4, <1>5

\* The first step of a call reads and changes nothing the invariant is about.
BeginStep(c) ==
  \/ RegisterIdentityBegin(c) \/ SessionFinishBegin(c) \/ RegisterFinishBegin(c)
  \/ RevokePasskeyBegin(c) \/ ApproveDeviceGrantBegin(c) \/ RevokeDeviceBegin(c)
  \/ ApprovePairingBegin(c) \/ PollPairingBegin(c) \/ PollLoginBegin(c)
  \/ SetGuardiansBegin(c) \/ ResignGuardianBegin(c) \/ FinishRequestBegin(c)
  \/ ApproveRequestBegin(c) \/ CancelRequestBegin(c) \/ FinalizeRequestBegin(c)

\* A step moves this call and no other.
Moved(c) == call' = [call EXCEPT ![c] = call'[c]]

LEMMA BeginMoves ==
  ASSUME AccountShape, NEW c \in Call, BeginStep(c)
  PROVE  /\ call[c] = Idle /\ Moved(c) /\ call'[c].h # "submit"
         /\ call'[c].h = "session_finish" => SessionFinishBegin(c)
<1> USE DEF AccountShape, Moved
<1>1. CASE RegisterIdentityBegin(c)
  BY <1>1 DEF RegisterIdentityBegin, Begin
<1>2. CASE SessionFinishBegin(c)
  BY <1>2 DEF SessionFinishBegin, Begin
<1>3. CASE RegisterFinishBegin(c)
  BY <1>3 DEF RegisterFinishBegin, Begin
<1>4. CASE RevokePasskeyBegin(c)
  BY <1>4 DEF RevokePasskeyBegin, Begin
<1>5. CASE ApproveDeviceGrantBegin(c)
  BY <1>5 DEF ApproveDeviceGrantBegin, Begin
<1>6. CASE RevokeDeviceBegin(c)
  BY <1>6 DEF RevokeDeviceBegin, Begin
<1>7. CASE ApprovePairingBegin(c)
  BY <1>7 DEF ApprovePairingBegin, Begin
<1>8. CASE PollPairingBegin(c)
  BY <1>8 DEF PollPairingBegin, Begin
<1>9. CASE PollLoginBegin(c)
  BY <1>9 DEF PollLoginBegin, Begin
<1>10. CASE SetGuardiansBegin(c)
  BY <1>10 DEF SetGuardiansBegin, Begin
<1>11. CASE ResignGuardianBegin(c)
  BY <1>11 DEF ResignGuardianBegin, Begin
<1>12. CASE FinishRequestBegin(c)
  BY <1>12 DEF FinishRequestBegin, Begin
<1>13. CASE ApproveRequestBegin(c)
  BY <1>13 DEF ApproveRequestBegin, Begin
<1>14. CASE CancelRequestBegin(c)
  BY <1>14 DEF CancelRequestBegin, Begin
<1>15. CASE FinalizeRequestBegin(c)
  BY <1>15 DEF FinalizeRequestBegin, Begin
<1> QED
  BY <1>1, <1>2, <1>3, <1>4, <1>5, <1>6, <1>7, <1>8, <1>9, <1>10, <1>11,
     <1>12, <1>13, <1>14, <1>15 DEF BeginStep

LEMMA BeginKeeps ==
  ASSUME NEW c \in Call, BeginStep(c)
  PROVE  UNCHANGED <<passkeys, signingKeys, revoked, sessions, minted, deviceGrants,
                     pairing, login, nonces, lapsed, guardianRow, threshold,
                     request, approvals>>
BY DEF BeginStep, RegisterIdentityBegin, SessionFinishBegin, RegisterFinishBegin,
   RevokePasskeyBegin, ApproveDeviceGrantBegin, RevokeDeviceBegin,
   ApprovePairingBegin, PollPairingBegin, PollLoginBegin, SetGuardiansBegin,
   ResignGuardianBegin, FinishRequestBegin, ApproveRequestBegin,
   CancelRequestBegin, FinalizeRequestBegin, credentialVars, sessionVars,
   handoverVars, recoveryVars

\* The transactions that leave credentials, sessions and handovers alone.
OtherCommit(c) ==
  \/ set_guardians(c) \/ resign_guardian(c) \/ SetGuardiansDelete(c)
  \/ finish_request(c) \/ approve_request(c) \/ cancel_request(c)

LEMMA OtherCommitMoves ==
  ASSUME AccountShape, NEW c \in Call, OtherCommit(c)
  PROVE  /\ Moved(c) /\ call'[c].h \in {"done", "set_guardians_insert"}
         /\ UNCHANGED <<passkeys, signingKeys, revoked, sessions, minted, ceremony,
                        deviceGrants, pairing, login, nonces, lapsed>>
BY DEF OtherCommit, SetGuardiansDelete, set_guardians, resign_guardian,
   finish_request, approve_request, cancel_request, Commit, Done, AccountShape,
   Moved, credentialVars, sessionVars, handoverVars

LEMMA CommitMoves ==
  ASSUME AccountShape, NEW c \in Call, NEW h, Commit(c, h)
  PROVE  Moved(c) /\ call'[c] = Done /\ call'[c].h = "done"
BY DEF Commit, Done, AccountShape, Moved

\* A step of a call that touches neither credentials nor sessions.
LEMMA CredentialQuiet ==
  ASSUME CredentialInv, NEW c \in Call, Moved(c), call'[c].h # "submit",
         UNCHANGED <<passkeys, signingKeys, sessions, pairing, login>>
  PROVE  CredentialInv'
<1>1. AccountShape' /\ KeysWaiting'
  BY CallMoves DEF CredentialInv, Moved, AccountShape, KeysWaiting
<1>2. NoSessionOutlivesItsCredential' /\ SigningKeyRemains'
  BY KeysKept, SessionsKept DEF CredentialInv
<1> QED
  BY <1>1, <1>2 DEF CredentialInv

LEMMA CredentialBegin ==
  ASSUME CredentialInv, NEW c \in Call, BeginStep(c)
  PROVE  CredentialInv'
BY BeginMoves, BeginKeeps, CredentialQuiet DEF CredentialInv

LEMMA CredentialOther ==
  ASSUME CredentialInv, NEW c \in Call, OtherCommit(c)
  PROVE  CredentialInv'
BY OtherCommitMoves, CredentialQuiet DEF CredentialInv

\* Minting a session with a good origin.
LEMMA MintKeeps ==
  ASSUME NoSessionOutlivesItsCredential, NEW source, NEW k, mint(source, k),
         UNCHANGED <<passkeys, signingKeys>>,
         k \in passkeys \union ActiveKeys \union ForeignKey
  PROVE  NoSessionOutlivesItsCredential'
<1>1. ActiveKeys' = ActiveKeys
  BY KeysKept
<1>2. \A s \in sessions' : s \in sessions \/ s.origin = k
  BY DEF mint
<1> QED
  BY <1>1, <1>2, SessionsKept

LEMMA CredentialLogin ==
  ASSUME CredentialInv, NEW c \in Call, session_finish(c)
  PROVE  CredentialInv'
<1>1. Moved(c) /\ call'[c].h = "done"
  BY CommitMoves DEF CredentialInv, session_finish
<1>2. UNCHANGED <<passkeys, signingKeys, pairing, login>>
  BY DEF session_finish, credentialVars, handoverVars
<1>3. NoSessionOutlivesItsCredential'
  BY <1>2, MintKeeps DEF session_finish, PasskeyRowIsThere, CredentialInv
<1>4. AccountShape' /\ KeysWaiting'
  BY <1>1, <1>2, CallMoves DEF CredentialInv, Moved, AccountShape, KeysWaiting
<1> QED
  BY <1>2, <1>3, <1>4, KeysKept DEF CredentialInv

\* A new passkey: registering the identity also writes its inception key.
LEMMA CredentialRegister ==
  ASSUME CredentialInv, NEW c \in Call, register_identity(c) \/ register_finish(c)
  PROVE  CredentialInv'
<1>1. Moved(c) /\ call'[c].h = "done"
  BY CommitMoves DEF CredentialInv, register_identity, register_finish
<1>2. UNCHANGED <<sessions, pairing, login>> /\ passkeys \subseteq passkeys'
  BY DEF register_identity, register_finish, sessionVars, handoverVars
<1>3. /\ signingKeys' \in [DeviceKey -> {"none", "active", "revoked"}]
      /\ \A k \in DeviceKey : signingKeys'[k] \in {signingKeys[k], "active"}
  BY DEF CredentialInv, AccountShape, register_identity, register_finish
<1>4. ActiveKeys \subseteq ActiveKeys'
  BY <1>3 DEF ActiveKeys
<1>5. AccountShape' /\ KeysWaiting'
  BY <1>1, <1>2, <1>3, CallMoves DEF CredentialInv, Moved, AccountShape, KeysWaiting
<1>6. SigningKeyRemains'
  BY <1>3, <1>4 DEF CredentialInv, SigningKeyRemains, Unregistered, ActiveKeys
<1> QED
  BY <1>2, <1>4, <1>5, <1>6, SessionsKept DEF CredentialInv

LEMMA CredentialRevokePasskey ==
  ASSUME CredentialInv, NEW c \in Call, revoke_passkey(c)
  PROVE  CredentialInv'
<1>1. Moved(c) /\ call'[c].h = "done"
  BY CommitMoves DEF CredentialInv, revoke_passkey
<1>2. UNCHANGED <<signingKeys, pairing, login>>
  BY DEF revoke_passkey, handoverVars
<1>3. NoSessionOutlivesItsCredential'
  BY <1>2, KeysKept
     DEF CredentialInv, NoSessionOutlivesItsCredential, revoke_passkey, end_for
<1>4. AccountShape' /\ KeysWaiting'
  BY <1>1, <1>2, CallMoves DEF CredentialInv, Moved, AccountShape, KeysWaiting
<1> QED
  BY <1>2, <1>3, <1>4, KeysKept DEF CredentialInv

LEMMA CredentialApproveDevice ==
  ASSUME CredentialInv, NEW c \in Call, approve_device_grant(c)
  PROVE  CredentialInv'
<1>1. Moved(c) /\ call'[c].h = "done"
  BY CommitMoves DEF CredentialInv, approve_device_grant
<1>2. UNCHANGED <<passkeys, sessions, pairing, login>>
  BY DEF approve_device_grant, sessionVars
<1>3. /\ signingKeys' \in [DeviceKey -> {"none", "active", "revoked"}]
      /\ \A k \in DeviceKey : signingKeys'[k] \in {signingKeys[k], "active"}
  BY DEF CredentialInv, AccountShape, approve_device_grant
<1>4. ActiveKeys \subseteq ActiveKeys'
  BY <1>3 DEF ActiveKeys
<1>5. AccountShape' /\ KeysWaiting'
  BY <1>1, <1>2, <1>3, CallMoves DEF CredentialInv, Moved, AccountShape, KeysWaiting
<1>6. SigningKeyRemains'
  BY <1>3, <1>4 DEF CredentialInv, SigningKeyRemains, Unregistered, ActiveKeys
<1> QED
  BY <1>2, <1>4, <1>5, <1>6, SessionsKept DEF CredentialInv

LEMMA CredentialApprovePairing ==
  ASSUME CredentialInv, NEW c \in Call, approve_pairing(c)
  PROVE  CredentialInv'
<1>1. Moved(c) /\ call'[c].h = "done"
  BY CommitMoves DEF CredentialInv, approve_pairing
<1>2. /\ UNCHANGED <<passkeys, signingKeys, sessions, login>>
      /\ pairing' = [status |-> pairing'.status, key |-> pairing'.key]
  BY DEF approve_pairing, credentialVars, sessionVars
<1>3. AccountShape' /\ KeysWaiting'
  BY <1>1, <1>2, CallMoves DEF CredentialInv, Moved, AccountShape, KeysWaiting
<1> QED
  BY <1>2, <1>3, KeysKept, SessionsKept DEF CredentialInv

\* A paired session's key is an active row when the session is minted.
LEMMA CredentialPollPairing ==
  ASSUME CredentialInv, NEW c \in Call, poll_pairing(c)
  PROVE  CredentialInv'
<1>1. Moved(c) /\ call'[c].h = "done"
  BY CommitMoves DEF CredentialInv, poll_pairing
<1>2. /\ UNCHANGED <<passkeys, signingKeys, login>>
      /\ pairing' = [status |-> pairing'.status, key |-> pairing'.key]
  BY DEF poll_pairing, credentialVars, CredentialInv, AccountShape
<1>3. AccountShape' /\ KeysWaiting'
  BY <1>1, <1>2, CallMoves DEF CredentialInv, Moved, AccountShape, KeysWaiting
<1>4. NoSessionOutlivesItsCredential'
  <2>1. CASE signing_key_usable(pairing.key, TRUE)
    BY <1>2, <2>1, MintKeeps DEF poll_pairing, signing_key_usable, CredentialInv
  <2>2. CASE ~signing_key_usable(pairing.key, TRUE)
    BY <1>2, <2>2, KeysKept, SessionsKept
       DEF poll_pairing, CredentialInv, sessionVars
  <2> QED
    BY <2>1, <2>2
<1> QED
  BY <1>2, <1>3, <1>4, KeysKept DEF CredentialInv

\* A key that was verified once may back a session unless it has a row here
\* that is revoked by now.
LEMMA UsableIsGood ==
  ASSUME AccountShape, NEW k, KeyKnown(k), signing_key_usable(k, FALSE)
  PROVE  k \in passkeys \union ActiveKeys \union ForeignKey
BY DEF AccountShape, KeyKnown, signing_key_usable, ActiveKeys, SigningKeyId

LEMMA CredentialPollLogin ==
  ASSUME CredentialInv, NEW c \in Call, poll_login(c)
  PROVE  CredentialInv'
<1>1. Moved(c) /\ call'[c].h = "done"
  BY CommitMoves DEF CredentialInv, poll_login
<1>2. /\ UNCHANGED <<passkeys, signingKeys, pairing>>
      /\ login' = [status |-> login'.status, key |-> login'.key]
      /\ login'.status # "approved"
  BY DEF poll_login, credentialVars, CredentialInv, AccountShape
<1>3. AccountShape' /\ KeysWaiting'
  BY <1>1, <1>2, CallMoves DEF CredentialInv, Moved, AccountShape, KeysWaiting
<1>4. NoSessionOutlivesItsCredential'
  <2>1. CASE signing_key_usable(login.key, FALSE)
    <3>1. KeyKnown(login.key)
      BY DEF poll_login, Consumable, CredentialInv, KeysWaiting
    <3> QED
      BY <1>2, <2>1, <3>1, UsableIsGood, MintKeeps DEF poll_login, CredentialInv
  <2>2. CASE ~signing_key_usable(login.key, FALSE)
    BY <1>2, <2>2, KeysKept, SessionsKept DEF poll_login, CredentialInv, sessionVars
  <2> QED
    BY <2>1, <2>2
<1> QED
  BY <1>2, <1>3, <1>4, KeysKept DEF CredentialInv

\* The grant's key checks out, then its nonce is spent, then it is used.
LEMMA CredentialVerifyGrant ==
  ASSUME CredentialInv, NEW c \in Call, VerifyGrant(c) \/ SpendNonce(c)
  PROVE  CredentialInv'
<1>1. UNCHANGED <<passkeys, signingKeys, sessions, pairing, login>>
  BY DEF VerifyGrant, SpendNonce, credentialVars, sessionVars, handoverVars
<1>2. Moved(c) /\ call'[c] \in SubmitCall /\ KeyKnown(call'[c].key)
  <2>1. CASE VerifyGrant(c)
    BY <2>1 DEF VerifyGrant, Begin, CredentialInv, AccountShape, Moved, SubmitCall,
       KeyKnown, ActiveKeys
  <2>2. CASE SpendNonce(c)
    BY <2>2 DEF SpendNonce, CredentialInv, AccountShape, KeysWaiting, Moved,
       SubmitCall, KeyKnown
  <2> QED
    BY <2>1, <2>2
<1>3. AccountShape' /\ KeysWaiting'
  BY <1>1, <1>2, CallMoves DEF CredentialInv, Moved, AccountShape, KeysWaiting
<1> QED
  BY <1>1, <1>3, KeysKept, SessionsKept DEF CredentialInv

LEMMA CredentialSubmit ==
  ASSUME CredentialInv, NEW c \in Call, submit(c)
  PROVE  CredentialInv'
<1>1. Moved(c) /\ call'[c].h = "done"
  BY CommitMoves DEF CredentialInv, submit
<1>2. KeyKnown(call[c].key)
  BY DEF submit, Commit, CredentialInv, KeysWaiting
<1>3. /\ UNCHANGED <<passkeys, signingKeys, pairing>>
      /\ login' = [status |-> login'.status, key |-> login'.key]
      /\ login'.status = "approved" => KeyKnown(login'.key)
  <2>1. UNCHANGED <<passkeys, signingKeys, pairing>>
    BY DEF submit, credentialVars
  <2>2. login' = login \/ login' = [status |-> "approved", key |-> call[c].key]
    BY DEF submit
  <2> QED
    BY <1>2, <2>1, <2>2 DEF CredentialInv, AccountShape, KeysWaiting
<1>4. AccountShape' /\ KeysWaiting'
  BY <1>1, <1>3, CallMoves DEF CredentialInv, Moved, AccountShape
<1>5. NoSessionOutlivesItsCredential'
  <2>1. CASE sessions' = sessions
    BY <1>3, <2>1, KeysKept, SessionsKept DEF CredentialInv
  <2>2. CASE /\ signing_key_usable(call[c].key, FALSE)
             /\ mint(call[c].grant, call[c].key)
    BY <1>2, <1>3, <2>2, UsableIsGood, MintKeeps DEF CredentialInv
  <2> QED
    BY <2>1, <2>2 DEF submit, sessionVars
<1> QED
  BY <1>3, <1>4, <1>5, KeysKept DEF CredentialInv

\* Recovery replaces the passkeys and leaves no session behind.
LEMMA CredentialFinalize ==
  ASSUME CredentialInv, NEW c \in Call, finalize_request(c)
  PROVE  CredentialInv'
<1>1. Moved(c) /\ call'[c].h = "done"
  BY CommitMoves DEF CredentialInv, finalize_request
<1>2. UNCHANGED signingKeys /\ sessions' = {}
  BY DEF finalize_request, end_all_for_identity
<1>3. /\ pairing' = [status |-> pairing'.status, key |-> pairing'.key]
      /\ login' = [status |-> login'.status, key |-> login'.key]
      /\ login'.status = "approved" => login' = login
  BY DEF finalize_request, end_all_for_identity, Dropped, CredentialInv, AccountShape
<1>4. AccountShape' /\ KeysWaiting'
  BY <1>1, <1>2, <1>3, CallMoves DEF CredentialInv, Moved, AccountShape, KeysWaiting
<1>5. NoSessionOutlivesItsCredential'
  BY <1>2 DEF NoSessionOutlivesItsCredential
<1> QED
  BY <1>2, <1>4, <1>5, KeysKept DEF CredentialInv

-----------------------------------------------------------------------------
(* One approval, one session.  A handover row is used up by the poll that  *)
(* mints from it, the login ceremony by the call that takes it, and a      *)
(* grant by its nonce for as long as the grant is good.                    *)

Finishing(c) == call[c].h = "session_finish"
Spent(c, g) == call[c].h = "submit" /\ call[c].grant = g /\ call[c].spent

CeremonyUsed ==
  /\ minted["ceremony"] <= 1
  /\ minted["ceremony"] = 1 => ceremony["login"] = "taken"
  /\ \A c \in Call : Finishing(c) =>
       /\ ceremony["login"] = "taken" /\ minted["ceremony"] = 0
       /\ \A d \in Call : Finishing(d) => d = c

RowsUsed ==
  /\ minted["pairing"] = 0 \/ (minted["pairing"] = 1 /\
                               pairing.status \in {"expired", "deleted"})
  /\ minted["login"] = 0 \/ (minted["login"] = 1 /\
                             login.status \in {"expired", "deleted"})

GrantUsed(g) ==
  /\ minted[g] <= 1
  /\ minted[g] = 1 => g \in nonces
  /\ \A c \in Call : Spent(c, g) =>
       /\ g \in nonces /\ minted[g] = 0
       /\ \A d \in Call : Spent(d, g) => d = c

HandoverInv ==
  /\ AccountShape
  /\ minted \in [Source -> Nat]
  /\ ceremony = [k \in {"login", "passkey", "recovery"} |-> ceremony[k]]
  /\ CeremonyUsed
  /\ RowsUsed
  /\ \A g \in Grant \ lapsed : GrantUsed(g)

LEMMA GrantStepMoves ==
  ASSUME AccountShape, NEW c \in Call, VerifyGrant(c) \/ SpendNonce(c)
  PROVE  Moved(c) /\ call'[c].h = "submit" /\ UNCHANGED recoveryVars
<1>1. CASE VerifyGrant(c)
  BY <1>1 DEF VerifyGrant, Begin, AccountShape, Moved
<1>2. CASE SpendNonce(c)
  BY <1>2 DEF SpendNonce, AccountShape, Moved, SubmitCall
<1> QED
  BY <1>1, <1>2

LEMMA SourcesDiffer ==
  /\ \A g \in Grant : g \notin {"ceremony", "pairing", "login"}
  /\ Grant \subseteq Source /\ {"ceremony", "pairing", "login"} \subseteq Source
BY AccountAssumption DEF Source

LEMMA HandoverInit == AccountInit => HandoverInv
<1> SUFFICES ASSUME AccountInit PROVE HandoverInv
  OBVIOUS
<1>1. AccountShape
  BY CredentialInit DEF CredentialInv
<1>2. /\ minted = [s \in Source |-> 0]
      /\ ceremony = [k \in {"login", "passkey", "recovery"} |-> "none"]
      /\ \A c \in Call : call[c].h = "idle"
  BY DEF AccountInit, Idle
<1>3. CeremonyUsed /\ RowsUsed
  BY <1>2, SourcesDiffer DEF CeremonyUsed, RowsUsed, Finishing
<1>4. \A g \in Grant \ lapsed : GrantUsed(g)
  BY <1>2, SourcesDiffer DEF GrantUsed, Spent
<1> QED
  BY <1>1, <1>2, <1>3, <1>4 DEF HandoverInv

\* What a step of a call keeps when it neither takes the login ceremony, nor
\* spends a nonce, nor mints.
LEMMA HandoverQuiet ==
  ASSUME HandoverInv, AccountShape', NEW c \in Call, Moved(c), ~Finishing(c)',
         \A g : ~Spent(c, g)',
         UNCHANGED <<minted, nonces, lapsed>>,
         ceremony' = [k \in {"login", "passkey", "recovery"} |-> ceremony'[k]],
         ceremony'["login"] = ceremony["login"], RowsUsed'
  PROVE  HandoverInv'
<1>1. \A d \in Call : d # c => call'[d] = call[d]
  BY DEF Moved, HandoverInv, AccountShape
<1>2. \A d \in Call : Finishing(d)' => Finishing(d)
  BY <1>1 DEF Finishing
<1>3. \A d \in Call, g \in Grant : Spent(d, g)' => Spent(d, g)
  BY <1>1 DEF Spent
<1>4. CeremonyUsed'
  BY <1>2 DEF HandoverInv, CeremonyUsed
<1>5. \A g \in Grant \ lapsed : GrantUsed(g)'
  BY <1>3 DEF HandoverInv, GrantUsed
<1> QED
  BY <1>4, <1>5 DEF HandoverInv

\* The same for a step of no call.
LEMMA HandoverStill ==
  ASSUME HandoverInv, AccountShape', UNCHANGED <<call, minted, nonces>>,
         lapsed \subseteq lapsed',
         ceremony' = [k \in {"login", "passkey", "recovery"} |-> ceremony'[k]],
         \/ ceremony'["login"] = ceremony["login"]
         \/ ceremony["login"] # "taken", RowsUsed'
  PROVE  HandoverInv'
<1>1. \A d \in Call : Finishing(d)' <=> Finishing(d)
  BY DEF Finishing
<1>2. \A d \in Call, g \in Grant : Spent(d, g)' <=> Spent(d, g)
  BY DEF Spent
<1>3. CeremonyUsed'
  BY <1>1 DEF HandoverInv, CeremonyUsed
<1>4. \A g \in Grant \ lapsed' : GrantUsed(g)'
  BY <1>2 DEF HandoverInv, GrantUsed
<1> QED
  BY <1>3, <1>4 DEF HandoverInv

LEMMA HandoverOneStep ==
  ASSUME HandoverInv, AccountShape', OneStep
  PROVE  HandoverInv'
<1>1. /\ UNCHANGED <<call, minted, nonces>>
      /\ lapsed \subseteq lapsed'
  BY DEF OneStep, EndSession, MirroredRevocation, session_start, register_start,
     request_device_grant, start_pairing, deny_pairing, ExpirePairing,
     start_login, CloseLogin, GrantLapses, start_request, DelayEnds,
     sessionVars, handoverVars
<1>2. /\ ceremony' = [k \in {"login", "passkey", "recovery"} |-> ceremony'[k]]
      /\ \/ ceremony'["login"] = ceremony["login"]
         \/ ceremony["login"] # "taken"
  <2>1. \/ ceremony' = ceremony
        \/ ceremony["login"] = "none" /\ ceremony' = [ceremony EXCEPT !["login"] = "open"]
        \/ ceremony' = [ceremony EXCEPT !["passkey"] = "open"]
        \/ ceremony' = [ceremony EXCEPT !["recovery"] = "open"]
    BY DEF OneStep, EndSession, MirroredRevocation, session_start, register_start,
       request_device_grant, start_pairing, deny_pairing, ExpirePairing,
       start_login, CloseLogin, GrantLapses, start_request, DelayEnds, handoverVars
  <2> QED
    BY <2>1 DEF HandoverInv
<1>3. pairing' = pairing \/ pairing.status \notin {"expired", "deleted"}
  BY DEF OneStep, EndSession, MirroredRevocation, session_start, register_start,
     request_device_grant, start_pairing, deny_pairing, ExpirePairing,
     start_login, CloseLogin, GrantLapses, start_request, DelayEnds,
     handoverVars, NoHandover, Pending
<1>4. login' = login \/ login.status \notin {"expired", "deleted"}
  BY DEF OneStep, EndSession, MirroredRevocation, session_start, register_start,
     request_device_grant, start_pairing, deny_pairing, ExpirePairing,
     start_login, CloseLogin, GrantLapses, start_request, DelayEnds,
     handoverVars, NoHandover, Pending
<1>5. RowsUsed'
  BY <1>1, <1>3, <1>4 DEF HandoverInv, RowsUsed
<1> QED
  BY <1>1, <1>2, <1>5, HandoverStill

\* A first step other than the login's leaves the login ceremony alone.
LEMMA HandoverBegin ==
  ASSUME HandoverInv, AccountShape', NEW c \in Call, BeginStep(c),
         ~SessionFinishBegin(c)
  PROVE  HandoverInv'
<1> USE DEF BeginStep
<1>1. Moved(c) /\ call'[c].h # "submit"
  BY BeginMoves DEF HandoverInv
<1>2. \A g : ~Spent(c, g)'
  BY <1>1 DEF Spent
<1>3. ~Finishing(c)'
  BY BeginMoves DEF HandoverInv, Finishing
<1>4. /\ ceremony' = [k \in {"login", "passkey", "recovery"} |-> ceremony'[k]]
      /\ ceremony'["login"] = ceremony["login"]
  <2>1. \/ ceremony' = ceremony
        \/ ceremony' = [ceremony EXCEPT !["passkey"] = "taken"]
        \/ ceremony' = [ceremony EXCEPT !["recovery"] = "taken"]
    BY DEF RegisterIdentityBegin, RegisterFinishBegin, RevokePasskeyBegin,
       ApproveDeviceGrantBegin, RevokeDeviceBegin, ApprovePairingBegin,
       PollPairingBegin, PollLoginBegin, SetGuardiansBegin, ResignGuardianBegin,
       FinishRequestBegin, ApproveRequestBegin, CancelRequestBegin,
       FinalizeRequestBegin, handoverVars
  <2> QED
    BY <2>1 DEF HandoverInv
<1>5. UNCHANGED <<minted, nonces, lapsed>> /\ RowsUsed'
  BY BeginKeeps DEF HandoverInv, RowsUsed
<1> QED
  BY <1>1, <1>2, <1>3, <1>4, <1>5, HandoverQuiet

\* The login ceremony is taken by one call, and its session is minted once.
LEMMA HandoverLoginBegin ==
  ASSUME HandoverInv, AccountShape', NEW c \in Call, SessionFinishBegin(c)
  PROVE  HandoverInv'
<1>1. Moved(c) /\ call'[c].h = "session_finish"
  BY DEF SessionFinishBegin, Begin, HandoverInv, AccountShape, Moved
<1>2. /\ ceremony["login"] = "open"
      /\ ceremony' = [k \in {"login", "passkey", "recovery"} |-> ceremony'[k]]
      /\ ceremony'["login"] = "taken"
      /\ UNCHANGED <<minted, nonces, lapsed, pairing, login>>
  BY DEF SessionFinishBegin, HandoverInv, sessionVars
<1>3. \A d \in Call : ~Finishing(d) /\ minted["ceremony"] = 0
  BY <1>2, SourcesDiffer DEF HandoverInv, CeremonyUsed
<1>4. \A d \in Call : d # c => call'[d] = call[d]
  BY <1>1 DEF Moved, HandoverInv, AccountShape
<1>5. \A d \in Call : Finishing(d)' => d = c
  BY <1>3, <1>4 DEF Finishing
<1>6. CeremonyUsed'
  BY <1>2, <1>3, <1>5 DEF CeremonyUsed
<1>7. \A d \in Call, g \in Grant : Spent(d, g)' => Spent(d, g)
  BY <1>1, <1>4 DEF Spent
<1>8. \A g \in Grant \ lapsed : GrantUsed(g)'
  BY <1>2, <1>7 DEF HandoverInv, GrantUsed
<1>9. RowsUsed'
  BY <1>2 DEF HandoverInv, RowsUsed
<1> QED
  BY <1>2, <1>6, <1>8, <1>9 DEF HandoverInv

\* Minting counts one session for its source.
LEMMA MintCounts ==
  ASSUME minted \in [Source -> Nat], NEW source \in Source,
         minted' = [minted EXCEPT ![source] = @ + 1]
  PROVE  /\ minted' \in [Source -> Nat]
         /\ \A s \in Source : minted'[s] = IF s = source THEN minted[s] + 1
                                          ELSE minted[s]
OBVIOUS

LEMMA HandoverLogin ==
  ASSUME HandoverInv, AccountShape', NEW c \in Call, session_finish(c)
  PROVE  HandoverInv'
<1>1. Moved(c) /\ call'[c].h = "done"
  BY CommitMoves DEF session_finish, HandoverInv
<1>2. /\ UNCHANGED <<ceremony, nonces, lapsed, pairing, login>>
      /\ minted' = [minted EXCEPT !["ceremony"] = @ + 1]
  BY DEF session_finish, handoverVars, mint
<1>3. \A s \in Source : minted'[s] = IF s = "ceremony" THEN minted[s] + 1 ELSE minted[s]
  BY <1>2, MintCounts, SourcesDiffer DEF HandoverInv
<1>4. minted' \in [Source -> Nat]
  BY <1>2, MintCounts, SourcesDiffer DEF HandoverInv
<1>5. Finishing(c)
  BY DEF session_finish, Commit, Finishing
<1>6. \A d \in Call : d # c => call'[d] = call[d]
  BY <1>1 DEF Moved, HandoverInv, AccountShape
<1>7. \A d \in Call : ~Finishing(d)'
  BY <1>1, <1>5, <1>6 DEF HandoverInv, CeremonyUsed, Finishing
<1>8. CeremonyUsed'
  BY <1>2, <1>3, <1>5, <1>7, SourcesDiffer DEF HandoverInv, CeremonyUsed
<1>9. \A d \in Call, g \in Grant : Spent(d, g)' => Spent(d, g)
  BY <1>1, <1>6 DEF Spent
<1>10. \A g \in Grant \ lapsed : GrantUsed(g)'
  BY <1>2, <1>3, <1>9, SourcesDiffer DEF HandoverInv, GrantUsed
<1>11. RowsUsed'
  BY <1>2, <1>3, SourcesDiffer DEF HandoverInv, RowsUsed
<1> QED
  BY <1>2, <1>4, <1>8, <1>10, <1>11 DEF HandoverInv

\* The polls: the row is used up in the step that mints from it.
LEMMA HandoverPoll ==
  ASSUME HandoverInv, AccountShape', NEW c \in Call, poll_pairing(c) \/ poll_login(c)
  PROVE  HandoverInv'
<1>1. Moved(c) /\ call'[c].h = "done"
  BY CommitMoves DEF poll_pairing, poll_login, HandoverInv
<1>2. PICK source \in {"pairing", "login"} :
        /\ minted' = minted \/ minted' = [minted EXCEPT ![source] = @ + 1]
        /\ source = "pairing" => /\ login' = login /\ pairing.status = "approved"
                                 /\ pairing' = [pairing EXCEPT !.status = "expired"]
        /\ source = "login" => /\ pairing' = pairing /\ login.status = "approved"
                               /\ login' = [login EXCEPT !.status = "expired"]
  <2>1. CASE poll_pairing(c)
    BY <2>1 DEF poll_pairing, Consumable, mint, sessionVars
  <2>2. CASE poll_login(c)
    BY <2>2 DEF poll_login, Consumable, mint, sessionVars
  <2> QED
    BY <2>1, <2>2
<1>3. UNCHANGED <<ceremony, nonces, lapsed>>
  BY DEF poll_pairing, poll_login
<1>4. /\ source \in Source /\ source \notin Grant \union {"ceremony"}
      /\ minted' \in [Source -> Nat]
      /\ \A s \in Source : s # source => minted'[s] = minted[s]
      /\ minted'[source] \in {minted[source], minted[source] + 1}
  BY <1>2, MintCounts, SourcesDiffer DEF HandoverInv
<1>5. \A d \in Call : d # c => call'[d] = call[d]
  BY <1>1 DEF Moved, HandoverInv, AccountShape
<1>6. \A d \in Call : Finishing(d)' => Finishing(d)
  BY <1>1, <1>5 DEF Finishing
<1>7. \A d \in Call, g \in Grant : Spent(d, g)' => Spent(d, g)
  BY <1>1, <1>5 DEF Spent
<1>8. CeremonyUsed'
  BY <1>3, <1>4, <1>6, SourcesDiffer DEF HandoverInv, CeremonyUsed
<1>9. \A g \in Grant \ lapsed : GrantUsed(g)'
  BY <1>3, <1>4, <1>7, SourcesDiffer DEF HandoverInv, GrantUsed
<1>10. RowsUsed'
  <2>1. minted[source] = 0
    BY <1>2 DEF HandoverInv, RowsUsed
  <2>2. /\ source = "pairing" => pairing'.status = "expired"
        /\ source = "login" => login'.status = "expired"
    BY <1>2 DEF HandoverInv, AccountShape
  <2> QED
    BY <1>2, <1>4, <2>1, <2>2, SourcesDiffer DEF HandoverInv, RowsUsed
<1> QED
  BY <1>3, <1>4, <1>8, <1>9, <1>10 DEF HandoverInv

\* A nonce is spent by one call as long as its grant is good.
LEMMA HandoverSpend ==
  ASSUME HandoverInv, AccountShape', NEW c \in Call, SpendNonce(c)
  PROVE  HandoverInv'
<1>1. Moved(c) /\ call'[c].h = "submit"
  BY GrantStepMoves DEF HandoverInv
<1>2. PICK x : x = call[c].grant
  OBVIOUS
<1>3. call'[c].grant = x
  BY <1>2 DEF SpendNonce, HandoverInv, AccountShape, SubmitCall
<1>4. /\ x \notin nonces \/ x \in lapsed
      /\ nonces' = (nonces \ lapsed) \union {x}
      /\ UNCHANGED <<minted, ceremony, lapsed, pairing, login>>
  BY <1>2 DEF SpendNonce, sessionVars
<1>5. \A d \in Call : d # c => call'[d] = call[d]
  BY <1>1 DEF Moved, HandoverInv, AccountShape
<1>6. \A d \in Call : Finishing(d)' => Finishing(d)
  BY <1>1, <1>5 DEF Finishing
<1>7. \A d \in Call, g \in Grant : Spent(d, g)' => Spent(d, g) \/ (d = c /\ g = x)
  BY <1>1, <1>3, <1>5 DEF Spent
<1>8. ASSUME NEW g \in Grant \ lapsed PROVE GrantUsed(g)'
  <2>1. GrantUsed(g)
    BY DEF HandoverInv
  <2>2. CASE g = x
    <3>1. g \notin nonces
      BY <1>4, <2>2
    <3>2. minted[g] # 1 /\ \A d \in Call : ~Spent(d, g)
      BY <2>1, <3>1 DEF GrantUsed
    <3>3. minted[g] = 0
      BY <2>1, <3>2, SourcesDiffer DEF GrantUsed, HandoverInv
    <3> QED
      BY <1>4, <1>7, <2>2, <3>2, <3>3 DEF GrantUsed
  <2>3. CASE g # x
    BY <1>4, <1>7, <2>1, <2>3 DEF GrantUsed
  <2> QED
    BY <2>2, <2>3
<1>9. CeremonyUsed' /\ RowsUsed'
  BY <1>4, <1>6 DEF HandoverInv, CeremonyUsed, RowsUsed
<1> QED
  BY <1>4, <1>8, <1>9 DEF HandoverInv

\* A submitted grant mints once, or approves the login row it names.
LEMMA HandoverSubmit ==
  ASSUME HandoverInv, AccountShape', NEW c \in Call, submit(c)
  PROVE  HandoverInv'
<1>1. Moved(c) /\ call'[c].h = "done"
  BY CommitMoves DEF submit, HandoverInv
<1>2. PICK x : x = call[c].grant
  OBVIOUS
<1>3. x \in Grant /\ Spent(c, x)
  BY <1>2 DEF submit, Commit, HandoverInv, AccountShape, SubmitCall, Spent
<1>4. /\ UNCHANGED <<ceremony, nonces, lapsed, pairing>>
      /\ minted' = minted \/ minted' = [minted EXCEPT ![x] = @ + 1]
      /\ login' = login \/ (login = Pending /\ minted' = minted)
  BY <1>2 DEF submit, mint, sessionVars
<1>5. /\ minted' \in [Source -> Nat]
      /\ \A s \in Source : s # x => minted'[s] = minted[s]
      /\ minted'[x] \in {minted[x], minted[x] + 1}
  BY <1>3, <1>4, MintCounts, SourcesDiffer DEF HandoverInv
<1>6. \A d \in Call : d # c => call'[d] = call[d]
  BY <1>1 DEF Moved, HandoverInv, AccountShape
<1>7. \A d \in Call : Finishing(d)' => Finishing(d)
  BY <1>1, <1>6 DEF Finishing
<1>8. \A d \in Call, g \in Grant : Spent(d, g)' => Spent(d, g) /\ d # c
  BY <1>1, <1>6 DEF Spent
<1>9. ASSUME NEW g \in Grant \ lapsed PROVE GrantUsed(g)'
  <2>1. GrantUsed(g)
    BY DEF HandoverInv
  <2>2. CASE g = x
    <3>1. \A d \in Call : ~Spent(d, g)'
      BY <1>3, <1>8, <2>1, <2>2 DEF GrantUsed
    <3> QED
      BY <1>3, <1>4, <1>5, <2>1, <2>2, <3>1 DEF GrantUsed
  <2>3. CASE g # x
    BY <1>4, <1>5, <1>8, <2>1, <2>3, SourcesDiffer DEF GrantUsed
  <2> QED
    BY <2>2, <2>3
<1>10. CeremonyUsed'
  BY <1>3, <1>4, <1>5, <1>7, SourcesDiffer DEF HandoverInv, CeremonyUsed
<1>11. RowsUsed'
  <2>1. minted'["pairing"] = minted["pairing"] /\ minted'["login"] = minted["login"]
    BY <1>3, <1>5, SourcesDiffer
  <2> QED
    BY <1>4, <2>1 DEF HandoverInv, RowsUsed, Pending
<1> QED
  BY <1>4, <1>5, <1>9, <1>10, <1>11 DEF HandoverInv

\* The transactions that mint nothing; recovery ends the handovers it finds.
LEMMA HandoverOther ==
  ASSUME HandoverInv, AccountShape', NEW c \in Call,
         \/ register_identity(c) \/ register_finish(c) \/ revoke_passkey(c)
         \/ approve_device_grant(c) \/ revoke_device(c) \/ approve_pairing(c)
         \/ OtherCommit(c) \/ finalize_request(c)
  PROVE  HandoverInv'
<1>1. Moved(c) /\ call'[c].h \in {"done", "set_guardians_insert"}
  BY CommitMoves, OtherCommitMoves
     DEF HandoverInv, register_identity, register_finish, revoke_passkey,
         approve_device_grant, revoke_device, approve_pairing, finalize_request
<1>2. ~Finishing(c)' /\ \A g : ~Spent(c, g)'
  BY <1>1 DEF Finishing, Spent
<1>3. UNCHANGED <<minted, nonces, lapsed, ceremony>>
  BY OtherCommitMoves
     DEF HandoverInv, register_identity, register_finish, revoke_passkey,
         approve_device_grant, revoke_device, approve_pairing, finalize_request,
         end_all_for_identity, sessionVars, handoverVars
<1>4. /\ pairing.status \in {"expired", "deleted"} =>
           pairing'.status \in {"expired", "deleted"}
      /\ login.status \in {"expired", "deleted"} =>
           login'.status \in {"expired", "deleted"}
  <2>1. CASE OtherCommit(c)
    BY <2>1, OtherCommitMoves DEF HandoverInv
  <2>2. CASE \/ register_identity(c) \/ register_finish(c) \/ revoke_passkey(c)
             \/ approve_device_grant(c) \/ revoke_device(c)
    BY <2>2 DEF register_identity, register_finish, revoke_passkey,
                approve_device_grant, revoke_device, handoverVars
  <2>3. CASE approve_pairing(c)
    BY <2>3 DEF approve_pairing, Pending
  <2>4. CASE finalize_request(c)
    BY <2>4 DEF finalize_request, end_all_for_identity, Dropped
  <2> QED
    BY <2>1, <2>2, <2>3, <2>4
<1>5. RowsUsed'
  BY <1>3, <1>4 DEF HandoverInv, RowsUsed
<1> QED
  BY <1>1, <1>2, <1>3, <1>5, HandoverQuiet DEF HandoverInv

LEMMA HandoverVerify ==
  ASSUME HandoverInv, AccountShape', NEW c \in Call, VerifyGrant(c)
  PROVE  HandoverInv'
<1>1. Moved(c) /\ call'[c].h = "submit"
  BY GrantStepMoves DEF HandoverInv
<1>2. ~call'[c].spent
  BY DEF VerifyGrant, Begin, HandoverInv, AccountShape
<1>3. UNCHANGED <<minted, nonces, lapsed, ceremony, pairing, login>>
  BY DEF VerifyGrant, sessionVars, handoverVars
<1> QED
  BY <1>1, <1>2, <1>3, HandoverQuiet DEF HandoverInv, Finishing, Spent, RowsUsed

LEMMA HandoverStep ==
  HandoverInv /\ AccountShape' /\ [AccountNext]_accountVars => HandoverInv'
<1> SUFFICES ASSUME HandoverInv, AccountShape', [AccountNext]_accountVars
             PROVE  HandoverInv'
  OBVIOUS
<1>1. CASE OneStep
  BY <1>1, HandoverOneStep
<1>2. CASE \E c \in Call : TwoStep(c)
  <2>1. PICK c \in Call : TwoStep(c)
    BY <1>2
  <2> QED
    BY <2>1, HandoverBegin, HandoverLoginBegin, HandoverLogin, HandoverPoll,
       HandoverSpend, HandoverSubmit, HandoverOther, HandoverVerify
       DEF TwoStep, BeginStep, OtherCommit
<1>3. CASE UNCHANGED accountVars
  <2>1. UNCHANGED <<call, minted, nonces, lapsed, ceremony, pairing, login>>
    BY <1>3 DEF accountVars, sessionVars, handoverVars
  <2> QED
    BY <2>1, HandoverStill DEF HandoverInv, RowsUsed
<1> QED
  BY <1>1, <1>2, <1>3 DEF AccountNext

-----------------------------------------------------------------------------
(* Every handler.  The last signing key, and the approvals of a recovery      *)
(* request, are counted.                                                      *)
INSTANCE FiniteSetTheorems

\* The key goes with its sessions, and another active key stays.
LEMMA CredentialRevokeDevice ==
  ASSUME CredentialInv, NEW c \in Call, revoke_device(c)
  PROVE  CredentialInv'
<1> DEFINE k == call[c].key
<1>1. Moved(c) /\ call'[c].h = "done"
  BY CommitMoves DEF CredentialInv, revoke_device
<1>2. UNCHANGED <<passkeys, pairing, login>>
  BY DEF revoke_device, handoverVars
<1>3. k \in ActiveKeys /\ NotLastKey(ActiveKeys)
  BY DEF revoke_device, lock_active_signing_keys
<1>4. /\ signingKeys' \in [DeviceKey -> {"none", "active", "revoked"}]
      /\ \A d \in DeviceKey : signingKeys'[d] = IF d = k THEN "revoked"
                                                ELSE signingKeys[d]
  BY DEF CredentialInv, AccountShape, revoke_device
<1>5. ActiveKeys' = ActiveKeys \ {k}
  BY <1>4 DEF ActiveKeys
<1>6. ActiveKeys # {k}
  BY <1>3, FS_Singleton DEF NotLastKey
<1>7. SigningKeyRemains'
  BY <1>3, <1>5, <1>6 DEF SigningKeyRemains
<1>8. NoSessionOutlivesItsCredential'
  BY <1>2, <1>5
     DEF CredentialInv, NoSessionOutlivesItsCredential, revoke_device, end_for
<1>9. AccountShape' /\ KeysWaiting'
  BY <1>1, <1>2, <1>4, CallMoves DEF CredentialInv, Moved, AccountShape, KeysWaiting
<1> QED
  BY <1>7, <1>8, <1>9 DEF CredentialInv

LEMMA CredentialStep == CredentialInv /\ [AccountNext]_accountVars => CredentialInv'
<1> SUFFICES ASSUME CredentialInv, [AccountNext]_accountVars PROVE CredentialInv'
  OBVIOUS
<1>1. CASE OneStep
  BY <1>1, CredentialOneStep
<1>2. CASE \E c \in Call : TwoStep(c)
  <2>1. PICK c \in Call : TwoStep(c)
    BY <1>2
  <2> QED
    BY <2>1, CredentialBegin, CredentialOther, CredentialLogin, CredentialRegister,
       CredentialRevokePasskey, CredentialApproveDevice, CredentialRevokeDevice,
       CredentialApprovePairing, CredentialPollPairing, CredentialPollLogin,
       CredentialVerifyGrant, CredentialSubmit, CredentialFinalize
       DEF TwoStep, BeginStep, OtherCommit
<1>3. CASE UNCHANGED accountVars
  <2>1. UNCHANGED <<call, passkeys, signingKeys, sessions, pairing, login>>
    BY <1>3 DEF accountVars, credentialVars, sessionVars, handoverVars
  <2>2. AccountShape' /\ KeysWaiting'
    BY <2>1, NoCallMoves DEF CredentialInv, AccountShape, KeysWaiting
  <2> QED
    BY <2>1, <2>2, KeysKept, SessionsKept DEF CredentialInv
<1> QED
  BY <1>1, <1>2, <1>3 DEF AccountNext

\* Along every interleaving of the handlers the tables keep their columns, the
\* keys on their way into a session have been active, no session outlives the
\* credential it came from, and an active signing key remains.
THEOREM CredentialInvariant == AccountSpec => []CredentialInv
BY CredentialInit, CredentialStep, PTL DEF AccountSpec

\* No session outlives its credential, whatever logins, polls, submissions,
\* revocations and recoveries race (session_finish, signing_key_usable, end_for_*).
THEOREM SessionsEndWithCredentials == AccountSpec => []NoSessionOutlivesItsCredential
BY CredentialInvariant, PTL DEF CredentialInv

\* A registered identity keeps an active signing key, however many of its keys
\* are revoked at once (lock_active_signing_keys, LastSigningKey).
THEOREM IdentityKeepsAKey == AccountSpec => []SigningKeyRemains
BY CredentialInvariant, PTL DEF CredentialInv

\* However many requests race for it, one login ceremony, approved pairing or
\* login request yields one session, and so does a grant that has not expired.
THEOREM ApprovalsAreUsedOnce == AccountSpec => []OneSessionPerApproval
<1>1. CredentialInv => AccountShape
  BY DEF CredentialInv
<1>2. HandoverInv => OneSessionPerApproval
  BY DEF HandoverInv, OneSessionPerApproval, CeremonyUsed, RowsUsed, GrantUsed, Source
<1> QED
  BY <1>1, <1>2, CredentialInvariant, HandoverInit, HandoverStep, PTL DEF AccountSpec

-----------------------------------------------------------------------------
(* Recovery.  What a call carries into its transaction: the settings it    *)
(* was given or read before the transaction opened.                        *)

RequestRow ==
  [status : {"none", "pending_approvals", "delay", "cancelled", "completed"},
   needed : Nat, delay_over : BOOLEAN]

RecoveryCall(c) ==
  /\ call[c].h \in {"set_guardians", "set_guardians_insert"} =>
       /\ call[c].guardians \in SUBSET Guardian
       /\ call[c].n \in 0..Cardinality(Guardian)
  /\ call[c].h = "resign_guardian" => call[c].remaining \in Nat
  /\ call[c].h = "finish_request" => call[c].n \in Nat /\ call[c].n >= 1
  /\ call[c].h = "approve_request" => call[c].guardian \in Guardian
  /\ call[c].h \in {"approve_request", "cancel_request", "finalize_request"} =>
       call[c].req \in Request

GuardianInv ==
  /\ guardianRow \subseteq Guardian \X (Call \union {"register"})
  /\ IsFiniteSet(guardianRow)
  /\ threshold \in 0..Cardinality(Guardian)
  /\ \A c \in Call : RecoveryCall(c)

RequestInv ==
  /\ request \in [Request -> RequestRow]
  /\ approvals \in [Request -> SUBSET Guardian]
  /\ \A r \in Request : request[r].status # "none" => request[r].needed >= 1
  /\ RecoveryIsEarned

RecoveryInv == AccountShape /\ GuardianInv /\ RequestInv

LEMMA GuardianNumber == Cardinality(Guardian) \in Nat
BY AccountAssumption, FS_CardinalityType

LEMMA RecoveryInit == AccountInit => RecoveryInv
<1> SUFFICES ASSUME AccountInit PROVE RecoveryInv
  OBVIOUS
<1>0. NoRequest \in RequestRow /\ NoRequest.status = "none"
  BY DEF NoRequest, RequestRow
<1>1. AccountShape
  BY CredentialInit DEF CredentialInv
<1>2. \A c \in Call : RecoveryCall(c)
  BY DEF AccountInit, RecoveryCall, Idle
<1>3. IsFiniteSet(Guardian \X {"register"}) /\ IsFiniteSet({})
  BY AccountAssumption, FS_Product, FS_Singleton, FS_EmptySet
<1>4. GuardianInv
  <2>1. CASE "register_identity" \in mix
    <3>1. guardianRow = {} /\ threshold = 0
      BY <2>1 DEF AccountInit
    <3>2. IsFiniteSet(guardianRow)
      BY <1>3, <3>1, Zenon
    <3> QED
      BY <1>2, <3>1, <3>2, GuardianNumber DEF GuardianInv
  <2>2. CASE "register_identity" \notin mix
    <3>1. /\ guardianRow = Guardian \X {"register"}
          /\ threshold \in 1..Cardinality(Guardian)
      BY <2>2 DEF AccountInit
    <3> QED
      BY <1>2, <1>3, <3>1, GuardianNumber DEF GuardianInv
  <2> QED
    BY <2>1, <2>2
<1>5. /\ request \in [Request -> RequestRow]
      /\ \A r \in Request : /\ request[r].status \in {"none", "pending_approvals"}
                            /\ request[r].status # "none" => request[r].needed >= 1
  <2>1. CASE request = [r \in Request |-> NoRequest]
    BY <1>0, <2>1
  <2>2. CASE /\ threshold \in 1..Cardinality(Guardian)
             /\ request = [r \in Request |-> IF r # Min(Request) THEN NoRequest
                  ELSE [status |-> "pending_approvals", needed |-> threshold,
                        delay_over |-> FALSE]]
    <3> HIDE DEF Min
    <3>1. threshold \in Nat /\ threshold >= 1
      BY <2>2, GuardianNumber
    <3> QED
      BY <1>0, <2>2, <3>1 DEF RequestRow
  <2> QED
    BY <2>1, <2>2, Zenon DEF AccountInit
<1>6. approvals \in [Request -> SUBSET Guardian]
  BY DEF AccountInit
<1>7. RequestInv
  BY <1>5, <1>6 DEF RequestInv, RecoveryIsEarned
<1> QED
  BY <1>1, <1>4, <1>7 DEF RecoveryInv

\* A call that moves leaves the others as they are.
LEMMA RecoveryCallsMove ==
  ASSUME AccountShape, \A d \in Call : RecoveryCall(d), NEW c \in Call, Moved(c),
         RecoveryCall(c)'
  PROVE  \A d \in Call : RecoveryCall(d)'
<1> TAKE d \in Call
<1>1. CASE d = c
  BY <1>1
<1>2. CASE d # c
  <2>1. call'[d] = call[d]
    BY <1>2 DEF Moved, AccountShape
  <2> QED
    BY <2>1 DEF RecoveryCall
<1> QED
  BY <1>1, <1>2

LEMMA DoneIsQuiet ==
  ASSUME NEW c \in Call, call'[c].h = "done"
  PROVE  RecoveryCall(c)'
BY DEF RecoveryCall

\* The first steps, each with what it reads.
LEMMA RecoveryBeginCall ==
  ASSUME AccountShape, GuardianInv, NEW c \in Call, BeginStep(c)
  PROVE  RecoveryCall(c)'
<1> USE DEF AccountShape, Begin, RecoveryCall
<1>1. CASE RegisterIdentityBegin(c)
  BY <1>1 DEF RegisterIdentityBegin
<1>2. CASE SessionFinishBegin(c)
  BY <1>2 DEF SessionFinishBegin
<1>3. CASE RegisterFinishBegin(c)
  BY <1>3 DEF RegisterFinishBegin
<1>4. CASE RevokePasskeyBegin(c)
  BY <1>4 DEF RevokePasskeyBegin
<1>5. CASE ApproveDeviceGrantBegin(c)
  BY <1>5 DEF ApproveDeviceGrantBegin
<1>6. CASE RevokeDeviceBegin(c)
  BY <1>6 DEF RevokeDeviceBegin
<1>7. CASE ApprovePairingBegin(c)
  BY <1>7 DEF ApprovePairingBegin
<1>8. CASE PollPairingBegin(c)
  BY <1>8 DEF PollPairingBegin
<1>9. CASE PollLoginBegin(c)
  BY <1>9 DEF PollLoginBegin
<1>10. CASE SetGuardiansBegin(c)
  BY <1>10, GuardianNumber DEF SetGuardiansBegin
<1>11. CASE ResignGuardianBegin(c)
  <2>1. Cardinality(guardianRow) \in Nat /\ Cardinality(guardianRow) # 0
    BY <1>11, FS_CardinalityType, FS_EmptySet DEF ResignGuardianBegin, GuardianInv
  <2>2. RemainingAfterMine \in Nat
    BY <2>1 DEF RemainingAfterMine
  <2> QED
    BY <1>11, <2>2 DEF ResignGuardianBegin
<1>12. CASE FinishRequestBegin(c)
  BY <1>12, GuardianNumber DEF FinishRequestBegin, GuardianInv
<1>13. CASE ApproveRequestBegin(c)
  <2>1. Guardians \subseteq Guardian
    BY DEF Guardians, GuardianInv
  <2> QED
    BY <1>13, <2>1 DEF ApproveRequestBegin
<1>14. CASE CancelRequestBegin(c)
  BY <1>14 DEF CancelRequestBegin
<1>15. CASE FinalizeRequestBegin(c)
  BY <1>15 DEF FinalizeRequestBegin
<1> QED
  BY <1>1, <1>2, <1>3, <1>4, <1>5, <1>6, <1>7, <1>8, <1>9, <1>10, <1>11,
     <1>12, <1>13, <1>14, <1>15 DEF BeginStep

\* A step of a call that leaves guardians and requests alone.
LEMMA RecoveryQuiet ==
  ASSUME RecoveryInv, AccountShape', NEW c \in Call, Moved(c), RecoveryCall(c)',
         UNCHANGED recoveryVars
  PROVE  RecoveryInv'
<1>1. \A d \in Call : RecoveryCall(d)'
  BY RecoveryCallsMove DEF RecoveryInv, GuardianInv
<1>2. GuardianInv'
  BY <1>1 DEF RecoveryInv, GuardianInv, recoveryVars
<1>3. RequestInv'
  BY DEF RecoveryInv, RequestInv, RecoveryIsEarned, recoveryVars
<1> QED
  BY <1>2, <1>3 DEF RecoveryInv

\* The transactions about credentials, sessions and handovers.
CredentialCommit(c) ==
  \/ register_identity(c) \/ session_finish(c) \/ register_finish(c)
  \/ revoke_passkey(c) \/ approve_device_grant(c) \/ revoke_device(c)
  \/ approve_pairing(c) \/ poll_pairing(c) \/ submit(c) \/ poll_login(c)

LEMMA CredentialCommitMoves ==
  ASSUME AccountShape, NEW c \in Call, CredentialCommit(c)
  PROVE  Moved(c) /\ call'[c].h = "done" /\ UNCHANGED recoveryVars
<1>1. Moved(c) /\ call'[c].h = "done"
  BY CommitMoves DEF CredentialCommit, register_identity, session_finish,
     register_finish, revoke_passkey, approve_device_grant, revoke_device,
     approve_pairing, poll_pairing, submit, poll_login
<1>2. UNCHANGED recoveryVars
  BY DEF CredentialCommit, register_identity, session_finish,
     register_finish, revoke_passkey, approve_device_grant, revoke_device,
     approve_pairing, poll_pairing, submit, poll_login, recoveryVars
<1> QED
  BY <1>1, <1>2

\* Saving the guardians: the rows of the delete's snapshot go, the new ones come.
LEMMA RecoverySetGuardians ==
  ASSUME RecoveryInv, AccountShape', NEW c \in Call,
         SetGuardiansDelete(c) \/ set_guardians(c)
  PROVE  RecoveryInv'
<1>1. CASE SetGuardiansDelete(c)
  <2>1. Moved(c) /\ RecoveryCall(c)'
    BY <1>1 DEF SetGuardiansDelete, RecoveryInv, GuardianInv, AccountShape, Moved,
       RecoveryCall
  <2> QED
    BY <1>1, <2>1, RecoveryQuiet DEF SetGuardiansDelete
<1>2. CASE set_guardians(c)
  <2> DEFINE kept == guardianRow \ call[c].deleted
             G == call[c].guardians
  <2>1. Moved(c) /\ RecoveryCall(c)'
    BY <1>2, CommitMoves, DoneIsQuiet DEF set_guardians, RecoveryInv
  <2>2. \A d \in Call : RecoveryCall(d)'
    BY <2>1, RecoveryCallsMove DEF RecoveryInv, GuardianInv
  <2>3. G \in SUBSET Guardian /\ call[c].n \in 0..Cardinality(Guardian)
    BY <1>2 DEF set_guardians, Commit, RecoveryInv, GuardianInv, RecoveryCall
  <2>4. IsFiniteSet(kept) /\ IsFiniteSet(G) /\ IsFiniteSet({c})
    BY <2>3, AccountAssumption, FS_Difference, FS_Subset, FS_Singleton
       DEF RecoveryInv, GuardianInv
  <2>5. IsFiniteSet(kept \union (G \X {c}))
    BY <2>4, FS_Product, FS_Union
  <2>6. /\ guardianRow' = kept \union (G \X {c})
        /\ threshold' = call[c].n
        /\ UNCHANGED <<request, approvals>>
    BY <1>2 DEF set_guardians
  <2>7. kept \union (G \X {c}) \subseteq Guardian \X (Call \union {"register"})
    BY <2>3 DEF RecoveryInv, GuardianInv
  <2>8. GuardianInv'
    BY <2>2, <2>3, <2>5, <2>6, <2>7 DEF GuardianInv
  <2>9. RequestInv'
    BY <2>6 DEF RecoveryInv, RequestInv, RecoveryIsEarned
  <2> QED
    BY <2>8, <2>9 DEF RecoveryInv
<1> QED
  BY <1>1, <1>2

LEMMA RecoveryResign ==
  ASSUME RecoveryInv, AccountShape', NEW c \in Call, resign_guardian(c)
  PROVE  RecoveryInv'
<1>1. \A d \in Call : RecoveryCall(d)'
  BY CommitMoves, DoneIsQuiet, RecoveryCallsMove
     DEF resign_guardian, RecoveryInv, GuardianInv
<1>2. PICK m : m = call[c].remaining
  OBVIOUS
<1>3. m \in Nat
  BY <1>2 DEF resign_guardian, Commit, RecoveryInv, GuardianInv, RecoveryCall
<1>4. Min({threshold, m}) \in {threshold, m} /\ Min({threshold, m}) <= threshold
  <2>1. threshold \in Int
    BY GuardianNumber DEF RecoveryInv, GuardianInv
  <2>2. \E x \in {threshold, m} : \A y \in {threshold, m} : x =< y
    BY <1>3, <2>1
  <2> QED
    BY <2>2, Zenon DEF Min
<1>5. threshold' \in 0..Cardinality(Guardian)
  BY <1>2, <1>3, <1>4, GuardianNumber DEF resign_guardian, RecoveryInv, GuardianInv
<1>6. IsFiniteSet(guardianRow') /\ guardianRow' \subseteq guardianRow
  BY FS_RemoveElement DEF resign_guardian, RecoveryInv, GuardianInv
<1>7. GuardianInv'
  BY <1>1, <1>5, <1>6 DEF RecoveryInv, GuardianInv
<1>8. RequestInv'
  BY DEF resign_guardian, RecoveryInv, RequestInv, RecoveryIsEarned
<1> QED
  BY <1>7, <1>8 DEF RecoveryInv

\* A request row that one step changes, and what the invariant asks of it.
EarnedRow(row, given) ==
  /\ row \in RequestRow
  /\ row.status # "none" => row.needed >= 1
  /\ row.status \in {"delay", "completed"} =>
       /\ row.needed >= 1
       /\ Cardinality(given) >= row.needed
       /\ row.status = "completed" => row.delay_over

LEMMA RequestMoves ==
  ASSUME RequestInv, NEW r \in Request,
         request' = [request EXCEPT ![r] = request'[r]],
         approvals' = [approvals EXCEPT ![r] = approvals'[r]],
         approvals'[r] \in SUBSET Guardian,
         EarnedRow(request'[r], approvals'[r])
  PROVE  RequestInv'
<1>1. \A q \in Request : EarnedRow(request[q], approvals[q])
  BY DEF RequestInv, EarnedRow, RecoveryIsEarned
<1>2. \A q \in Request : EarnedRow(request'[q], approvals'[q])
  <2> TAKE q \in Request
  <2>1. CASE q = r
    BY <2>1
  <2>2. CASE q # r
    <3>1. request'[q] = request[q] /\ approvals'[q] = approvals[q]
      BY <2>2 DEF RequestInv
    <3> QED
      BY <1>1, <3>1
  <2> QED
    BY <2>1, <2>2
<1>3. /\ request' \in [Request -> RequestRow]
      /\ approvals' \in [Request -> SUBSET Guardian]
  BY <1>2 DEF RequestInv, EarnedRow
<1> QED
  BY <1>2, <1>3 DEF RequestInv, EarnedRow, RecoveryIsEarned

\* One request is touched, and only while it may still be.
Touched(r) ==
  /\ request' = [request EXCEPT ![r] = request'[r]]
  /\ approvals' = [approvals EXCEPT ![r] = approvals'[r]]
  /\ approvals[r] \subseteq approvals'[r] /\ approvals'[r] \in SUBSET Guardian
  /\ request[r].status \notin {"cancelled", "completed"}
  /\ EarnedRow(request'[r], approvals'[r])

\* A new request is yet to be earned.
LEMMA EarnedAtFirst ==
  ASSUME NEW n \in Nat, n >= 1, NEW given
  PROVE  EarnedRow([status |-> "pending_approvals", needed |-> n, delay_over |-> FALSE], given)
BY DEF EarnedRow, RequestRow

LEMMA FinishTouches ==
  ASSUME RecoveryInv, NEW c \in Call, finish_request(c)
  PROVE  \E r \in Request : Touched(r)
<1>1. PICK r \in Request :
        /\ request[r] = NoRequest
        /\ request' = [request EXCEPT ![r] =
             [status |-> "pending_approvals", needed |-> call[c].n,
              delay_over |-> FALSE]]
  BY DEF finish_request
<1>2. call[c].n \in Nat /\ call[c].n >= 1
  BY DEF finish_request, Commit, RecoveryInv, GuardianInv, RecoveryCall
<1>3. request'[r] = [status |-> "pending_approvals", needed |-> call[c].n,
                     delay_over |-> FALSE]
  BY <1>1 DEF RecoveryInv, RequestInv
<1>4. EarnedRow(request'[r], approvals'[r])
  BY <1>2, <1>3, EarnedAtFirst
<1>5. approvals' = approvals
  BY DEF finish_request
<1>6. request' = [request EXCEPT ![r] = request'[r]]
  BY <1>1, <1>3
<1>7. request[r].status = "none"
  BY <1>1 DEF NoRequest
<1> QED
  BY <1>4, <1>5, <1>6, <1>7 DEF Touched, RecoveryInv, RequestInv

\* An active request stays earned when approvals are added to it.
LEMMA EarnedStays ==
  ASSUME NEW row \in RequestRow, row.status \in Active, row.needed >= 1,
         NEW given, NEW more, Cardinality(given) \in Nat, Cardinality(more) \in Nat,
         Cardinality(more) >= Cardinality(given),
         row.status = "delay" => Cardinality(given) >= row.needed
  PROVE  EarnedRow(row, more)
BY DEF EarnedRow, Active, RequestRow

\* An approval more, or one that was there already.
LEMMA ApprovalAdded ==
  ASSUME NEW A, IsFiniteSet(A), NEW g
  PROVE  /\ Cardinality(A) \in Nat /\ Cardinality(A \union {g}) \in Nat
         /\ Cardinality(A \union {g}) >= Cardinality(A)
<1>1. Cardinality(A) \in Nat
  BY FS_CardinalityType
<1>2. Cardinality(A \union {g}) = IF g \in A THEN Cardinality(A) ELSE Cardinality(A) + 1
  BY FS_AddElement
<1> QED
  BY <1>1, <1>2

LEMMA ApproveTouches ==
  ASSUME RecoveryInv, NEW c \in Call, approve_request(c)
  PROVE  \E r \in Request : Touched(r)
<1> DEFINE r == call[c].req
           approved == approvals[r] \union {call[c].guardian}
<1>1. r \in Request /\ call[c].guardian \in Guardian
  BY DEF approve_request, Commit, RecoveryInv, GuardianInv, RecoveryCall
<1>2. approvals' = [approvals EXCEPT ![r] = approved] /\ approvals'[r] = approved
  BY <1>1 DEF approve_request, RecoveryInv, RequestInv
<1>3. /\ IsFiniteSet(approvals[r]) /\ Cardinality(approvals[r]) \in Nat
      /\ Cardinality(approved) >= Cardinality(approvals[r])
      /\ Cardinality(approved) \in Nat
  <2>1. IsFiniteSet(approvals[r])
    BY <1>1, AccountAssumption, FS_Subset DEF RecoveryInv, RequestInv
  <2> QED
    BY <2>1, ApprovalAdded
<1>4. request[r].status \in Active /\ request[r] \in RequestRow
  BY <1>1 DEF approve_request, LockedStatus, RecoveryInv, RequestInv
<1>5. request' = [request EXCEPT ![r] = request'[r]]
  BY <1>1 DEF approve_request, RecoveryInv, RequestInv
<1>6. \/ request'[r] = request[r]
      \/ /\ request'[r] = [request[r] EXCEPT !.status = "delay"]
         /\ Cardinality(approved) >= request[r].needed
  BY <1>1 DEF approve_request, meets_threshold, RecoveryInv, RequestInv
<1>7. /\ request[r].needed >= 1
      /\ request[r].status = "delay" => Cardinality(approvals[r]) >= request[r].needed
  BY <1>1, <1>4 DEF Active, RecoveryInv, RequestInv, RecoveryIsEarned
<1>8. EarnedRow(request'[r], approved)
  <2> HIDE DEF r, approved
  <2>1. CASE request'[r] = request[r]
    <3>1. EarnedRow(request[r], approved)
      BY <1>3, <1>4, <1>7, EarnedStays
    <3> QED
      BY <2>1, <3>1
  <2>2. CASE /\ request'[r] = [request[r] EXCEPT !.status = "delay"]
             /\ Cardinality(approved) >= request[r].needed
    BY <1>4, <1>7, <2>2 DEF EarnedRow, RequestRow
  <2> QED
    BY <1>6, <2>1, <2>2
<1>9. approved \in SUBSET Guardian /\ approvals[r] \subseteq approved
  BY <1>1 DEF RecoveryInv, RequestInv
<1> HIDE DEF r, approved
<1> QED
  BY <1>1, <1>2, <1>4, <1>5, <1>8, <1>9 DEF Touched, Active

LEMMA DelayTouches ==
  ASSUME RecoveryInv, DelayEnds
  PROVE  \E r \in Request : Touched(r)
<1>1. PICK r \in Request : /\ request[r].status = "delay"
                           /\ request' = [request EXCEPT ![r].delay_over = TRUE]
  BY DEF DelayEnds
<1>2. request[r] \in RequestRow /\ EarnedRow(request[r], approvals[r])
  BY DEF RecoveryInv, RequestInv, EarnedRow, RecoveryIsEarned
<1>3. request'[r] = [request[r] EXCEPT !.delay_over = TRUE]
  BY <1>1 DEF RecoveryInv, RequestInv
<1>4. EarnedRow(request'[r], approvals[r])
  <2>1. /\ request'[r] \in RequestRow /\ request'[r].status = "delay"
        /\ request'[r].needed = request[r].needed
    <3>1. PICK t \in BOOLEAN : t = TRUE
      BY Zenon
    <3>2. request'[r] = [request[r] EXCEPT !.delay_over = t]
      BY <1>3, <3>1, Zenon
    <3> QED
      BY <1>1, <1>2, <3>2 DEF RequestRow
  <2> QED
    BY <1>1, <1>2, <2>1 DEF EarnedRow
<1>5. approvals' = approvals /\ request' = [request EXCEPT ![r] = request'[r]]
  BY <1>1, <1>3 DEF DelayEnds
<1> QED
  BY <1>1, <1>4, <1>5 DEF Touched, RecoveryInv, RequestInv

LEMMA CloseTouches ==
  ASSUME RecoveryInv, NEW c \in Call, cancel_request(c) \/ finalize_request(c)
  PROVE  \E r \in Request : Touched(r)
<1>1. PICK r : r = call[c].req
  OBVIOUS
<1>2. r \in Request
  BY <1>1 DEF cancel_request, finalize_request, Commit, RecoveryInv, GuardianInv,
     RecoveryCall
<1>3. request[r] \in RequestRow /\ EarnedRow(request[r], approvals[r])
  BY <1>2 DEF RecoveryInv, RequestInv, EarnedRow, RecoveryIsEarned
<1>4. approvals' = approvals
  BY DEF cancel_request, finalize_request
<1>5. /\ request[r].status \in Active
      /\ \/ request' = [request EXCEPT ![r].status = "cancelled"]
         \/ /\ request[r].status = "delay" /\ request[r].delay_over
            /\ request' = [request EXCEPT ![r].status = "completed"]
  BY <1>1 DEF cancel_request, finalize_request, guard_can_finalize, Active
<1>6. \/ request'[r] = [request[r] EXCEPT !.status = "cancelled"]
      \/ /\ request[r].status = "delay" /\ request[r].delay_over
         /\ request'[r] = [request[r] EXCEPT !.status = "completed"]
  BY <1>2, <1>5 DEF RecoveryInv, RequestInv
<1>7. request' = [request EXCEPT ![r] = request'[r]]
  BY <1>2, <1>5 DEF RecoveryInv, RequestInv
<1>8. EarnedRow(request'[r], approvals[r])
  <2>1. CASE request'[r] = [request[r] EXCEPT !.status = "cancelled"]
    BY <1>3, <1>5, <2>1 DEF EarnedRow, RequestRow, Active
  <2>2. CASE /\ request[r].status = "delay" /\ request[r].delay_over
             /\ request'[r] = [request[r] EXCEPT !.status = "completed"]
    BY <1>3, <2>2 DEF EarnedRow, RequestRow
  <2> QED
    BY <1>6, <2>1, <2>2
<1> QED
  BY <1>2, <1>4, <1>5, <1>7, <1>8 DEF Touched, RecoveryInv, RequestInv, Active

\* A step that touches one request keeps the recovery tables in order.
LEMMA TouchedKeeps ==
  ASSUME RecoveryInv, NEW r \in Request, Touched(r)
  PROVE  RequestInv'
BY RequestMoves DEF Touched, RecoveryInv

LEMMA RecoveryRequest ==
  ASSUME RecoveryInv, AccountShape', NEW c \in Call,
         \/ finish_request(c) \/ approve_request(c) \/ cancel_request(c)
         \/ finalize_request(c)
  PROVE  RecoveryInv'
<1>1. RequestInv'
  BY FinishTouches, ApproveTouches, CloseTouches, TouchedKeeps
<1>2. UNCHANGED <<guardianRow, threshold>>
  BY DEF finish_request, approve_request, cancel_request, finalize_request
<1>3. Moved(c) /\ call'[c].h = "done"
  BY CommitMoves
     DEF finish_request, approve_request, cancel_request, finalize_request, RecoveryInv
<1>4. \A d \in Call : RecoveryCall(d)'
  BY <1>3, DoneIsQuiet, RecoveryCallsMove DEF RecoveryInv, GuardianInv
<1>5. GuardianInv'
  BY <1>2, <1>4 DEF RecoveryInv, GuardianInv
<1> QED
  BY <1>1, <1>5 DEF RecoveryInv

LEMMA RecoveryStep ==
  RecoveryInv /\ AccountShape' /\ [AccountNext]_accountVars => RecoveryInv'
<1> SUFFICES ASSUME RecoveryInv, AccountShape', [AccountNext]_accountVars
             PROVE  RecoveryInv'
  OBVIOUS
<1>0. ASSUME UNCHANGED <<call, guardianRow, threshold>>
      PROVE  GuardianInv'
  BY <1>0 DEF RecoveryInv, GuardianInv, RecoveryCall
<1>1. CASE OneStep
  <2>1. UNCHANGED <<call, guardianRow, threshold>>
    BY <1>1 DEF OneStep, EndSession, MirroredRevocation, session_start,
       register_start, request_device_grant, start_pairing, deny_pairing,
       ExpirePairing, start_login, CloseLogin, GrantLapses, start_request,
       DelayEnds, recoveryVars
  <2>2. DelayEnds \/ UNCHANGED <<request, approvals>>
    BY <1>1 DEF OneStep, EndSession, MirroredRevocation, session_start,
       register_start, request_device_grant, start_pairing, deny_pairing,
       ExpirePairing, start_login, CloseLogin, GrantLapses, start_request,
       recoveryVars
  <2>3. RequestInv'
    <3>1. CASE DelayEnds
      BY <3>1, DelayTouches, TouchedKeeps
    <3>2. CASE UNCHANGED <<request, approvals>>
      BY <3>2 DEF RecoveryInv, RequestInv, RecoveryIsEarned
    <3> QED
      BY <2>2, <3>1, <3>2
  <2> QED
    BY <1>0, <2>1, <2>3 DEF RecoveryInv
<1>2. CASE \E c \in Call : TwoStep(c)
  <2>1. PICK c \in Call : TwoStep(c)
    BY <1>2
  <2>2. CASE BeginStep(c)
    BY <2>2, BeginMoves, BeginKeeps, RecoveryBeginCall, RecoveryQuiet
       DEF RecoveryInv, recoveryVars
  <2>3. CASE CredentialCommit(c)
    BY <2>3, CredentialCommitMoves, DoneIsQuiet, RecoveryQuiet DEF RecoveryInv
  <2>4. CASE VerifyGrant(c) \/ SpendNonce(c)
    <3>1. RecoveryCall(c)'
      BY <2>4, GrantStepMoves DEF RecoveryInv, RecoveryCall
    <3> QED
      BY <2>4, <3>1, GrantStepMoves, RecoveryQuiet DEF RecoveryInv
  <2> QED
    BY <2>1, <2>2, <2>3, <2>4, RecoverySetGuardians, RecoveryResign, RecoveryRequest
       DEF TwoStep, BeginStep, CredentialCommit
<1>3. CASE UNCHANGED accountVars
  <2>1. UNCHANGED <<call, guardianRow, threshold, request, approvals>>
    BY <1>3 DEF accountVars, recoveryVars
  <2> QED
    BY <1>0, <2>1 DEF RecoveryInv, RequestInv, RecoveryIsEarned
<1> QED
  BY <1>1, <1>2, <1>3 DEF AccountNext

\* Along every interleaving of the handlers the guardians, the requests and the
\* calls that carry them keep their columns, an open request needs at least one
\* approval, and no request is through without the approvals it needs.
THEOREM RecoveryInvariant == AccountSpec => []RecoveryInv
<1>1. CredentialInv => AccountShape
  BY DEF CredentialInv
<1> QED
  BY <1>1, CredentialInvariant, RecoveryInit, RecoveryStep, PTL DEF AccountSpec

\* A recovery that runs its delay or completed was approved by as many distinct
\* guardians as its frozen threshold asks, however guardians come and go meanwhile.
THEOREM RecoveryIsApproved == AccountSpec => []RecoveryIsEarned
BY RecoveryInvariant, PTL DEF RecoveryInv, RequestInv

\* Every step leaves requests and approvals alone or touches one request that
\* is not closed yet.
LEMMA RequestsStep ==
  ASSUME RecoveryInv, [AccountNext]_accountVars
  PROVE  UNCHANGED <<request, approvals>> \/ \E r \in Request : Touched(r)
<1>1. CASE OneStep
  <2>1. DelayEnds \/ UNCHANGED <<request, approvals>>
    BY <1>1 DEF OneStep, EndSession, MirroredRevocation, session_start,
       register_start, request_device_grant, start_pairing, deny_pairing,
       ExpirePairing, start_login, CloseLogin, GrantLapses, start_request,
       recoveryVars
  <2> QED
    BY <2>1, DelayTouches
<1>2. CASE \E c \in Call : TwoStep(c)
  <2>1. PICK c \in Call : TwoStep(c)
    BY <1>2
  <2>2. CASE BeginStep(c)
    BY <2>2, BeginKeeps
  <2>3. CASE CredentialCommit(c) \/ VerifyGrant(c) \/ SpendNonce(c)
    BY <2>3, CredentialCommitMoves, GrantStepMoves DEF RecoveryInv, recoveryVars
  <2>4. CASE SetGuardiansDelete(c) \/ set_guardians(c) \/ resign_guardian(c)
    BY <2>4 DEF SetGuardiansDelete, set_guardians, resign_guardian, recoveryVars
  <2> QED
    BY <2>1, <2>2, <2>3, <2>4, FinishTouches, ApproveTouches, CloseTouches
       DEF TwoStep, BeginStep, CredentialCommit
<1>3. CASE UNCHANGED accountVars
  BY <1>3 DEF accountVars, recoveryVars
<1> QED
  BY <1>1, <1>2, <1>3 DEF AccountNext

\* A vetoed or completed recovery stays closed and no approval is ever lost,
\* whatever read the row before the veto committed.
THEOREM VetoesAreFinal == AccountSpec => VetoIsFinal
<1> DEFINE Final ==
      \A r \in Request :
        /\ approvals[r] \subseteq approvals'[r]
        /\ request[r].status \in {"cancelled", "completed"} => request'[r] = request[r]
<1>1. ASSUME RecoveryInv, [AccountNext]_accountVars PROVE Final
  <2>1. CASE UNCHANGED <<request, approvals>>
    BY <2>1
  <2>2. ASSUME NEW q \in Request, Touched(q) PROVE Final
    <3> TAKE r \in Request
    <3>1. CASE r = q
      BY <2>2, <3>1 DEF Touched
    <3>2. CASE r # q
      <4>1. request'[r] = request[r]
        BY <1>1, <2>2, <3>2 DEF Touched, RecoveryInv, RequestInv
      <4>2. approvals'[r] = approvals[r]
        BY <1>1, <2>2, <3>2 DEF Touched, RecoveryInv, RequestInv
      <4> QED
        BY <4>1, <4>2
    <3> QED
      BY <3>1, <3>2
  <2> QED
    BY <1>1, <2>1, <2>2, RequestsStep
<1> QED
  BY <1>1, RecoveryInvariant, PTL DEF AccountSpec, VetoIsFinal
=============================================================================
