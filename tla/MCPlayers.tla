----------------------------- MODULE MCPlayers -----------------------------
(* What the node's users do, on small instances: an identity's credentials,   *)
(* sessions and recovery, an integrator's bindings and attestations and the   *)
(* data it publishes, guilds, chat, friends and live delivery.  A behaviour   *)
(* moves the component in focus; the others stay as they begin.               *)
EXTENDS Accounts, Integrators, Guilds, Messaging, Social, Realtime, TLC

CONSTANTS Focused,  \* the components of a run, of which a behaviour moves one
          founder, officer, outsider

VARIABLE focus

-----------------------------------------------------------------------------
\* Handlers that meet over the same rows, explored together.
MixRecovery == {"finish_request", "approve_request", "cancel_request",
                "finalize_request", "session_finish", "poll_pairing",
                "approve_pairing"}
MixGuardians == {"set_guardians", "resign_guardian", "finish_request",
                 "approve_request"}
MixPasskeys == {"session_finish", "register_finish", "revoke_passkey",
                "logout"}
MixDevices == {"approve_device_grant", "revoke_device", "approve_pairing",
               "poll_pairing"}
MixLogins == {"submit", "poll_login", "revoke_device", "mirror"}
MixStart == {"register_identity", "session_finish", "set_guardians",
             "approve_device_grant", "poll_login", "submit"}
ExploredMixes == {MixStart, MixRecovery, MixGuardians, MixPasskeys, MixDevices,
                  MixLogins, {}}

-----------------------------------------------------------------------------
(* Integrators: one integrator and one user.                                  *)

IntegratorsExplored ==
    {{"connect", "revoke_grant", "disconnect"},
     {"connect", "disconnect", "issue_attestation"},
     {"issue_attestation", "bulk_issue_attestation", "revoke_attestation"},
     {"create_definition", "update_definition", "issue_attestation"},
     {"register_integrator", "add_issuer_key", "revoke_issuer_key"},
     {"register_issuer", "revoke_issuer_key", "issue_attestation"}, {}}

DataExplored ==
    {{"publish_schema_version", "publish_mapping"},
     {"publish_instance", "delete_instance"},
     {"publish_recognition", "revoke_recognition"}, {}}

-----------------------------------------------------------------------------
(* Guilds: the founder, one officer and one outsider.                         *)

GuildsExplored ==
  {{"create_invite", "accept_invite", "decline_invite", "remove_member"},
   {"join_guild", "leave_guild", "remove_member", "update_member_role"},
   {"create_join_request", "approve_join_request", "reject_join_request",
    "withdraw_join_request"},
   {"join_guild", "create_join_request", "approve_join_request"},
   {"create_role", "update_role", "delete_role", "update_member_role"},
   {"delete_role", "create_role", "set_permission_override"},
   {"update_guild", "transfer_ownership", "create_guild"},
   {"associate_integrator"}, {"set_favorite_games"},
   {"leave_guild", "reverse_event"},
   {"remove_member", "reverse_event"}, {}}
Permissions == {{}, {"manage_roles"}}
Officers == {officer}

-----------------------------------------------------------------------------
(* Messaging: a manager and a member of the guild.                            *)

ChatExplored ==
  {{"send_message", "delete_message", "expire_archive"},
   {"send_message", "delete_message", "replicate"},
   {"delete_message", "rotate"},
   {"send_message", "list_messages"}, {"list_messages", "delete_message"},
   {"send_message", "list_archive"},
   {"update_channel", "archive_channel", "send_message"},
   {"create_event", "update_event", "delete_event", "upsert_rsvp"},
   {"create_event", "list_events", "membership"},
   {"create_conversation", "conversation_send"}, {"conversation_send"}, {}}

-----------------------------------------------------------------------------
(* Social: three identities, two of them friends or not.                      *)

Edits == {[discoverable |-> FALSE, visibility |-> "private",   name |-> "n1"],
          [discoverable |-> TRUE,  visibility |-> "malformed", name |-> "unset"]}
SocialExplored ==
    {{"create_friend_request", "accept_friend_request", "remove_friend", "decline_or_withdraw"},
     {"create_friend_request", "accept_friend_request", "create_block", "decline_or_withdraw"},
     {"discover_people", "remove_friend", "create_block", "remove_block"},
     {"search_identities", "get_presence", "update_profile", "create_block"}, {}}

Mates == {{"a1", "a3"}}

-----------------------------------------------------------------------------
(* Realtime: two nodes, both connections on the first.                        *)

Connections == [k \in {"k1", "k2"} |-> "rn1"]

-----------------------------------------------------------------------------
PlayersInit ==
    /\ focus \in Focused
    /\ AccountInit /\ (mix = {}) = (focus # "accounts")
    /\ mix = {} => threshold = 1 /\ \A r \in Request : request[r] = NoRequest
    /\ IntegratorInit /\ (imix = {}) = (focus # "integrators")
    /\ DataInit /\ (dmix = {}) = (focus # "data")
    /\ GuildInit /\ (gmix = {}) = (focus # "guilds")
    /\ ChatInit /\ (cmix = {}) = (focus # "chat")
    /\ SocialInit /\ (smix = {}) = (focus # "social") /\ (smix = {} => friends = {})
    /\ RealtimeInit /\ (focus # "realtime" => rpart = "relay")

PlayersNext ==
    \/ focus = "accounts" /\ AccountNext
       /\ UNCHANGED <<focus, integratorVars, dataVars, guildVars, chatVars,
                        socialVars, realtimeVars>>
    \/ focus = "integrators" /\ IntegratorNext
       /\ UNCHANGED <<focus, accountVars, dataVars, guildVars, chatVars,
                        socialVars, realtimeVars>>
    \/ focus = "data" /\ DataNext
       /\ UNCHANGED <<focus, accountVars, integratorVars, guildVars, chatVars,
                        socialVars, realtimeVars>>
    \/ focus = "guilds" /\ GuildNext
       /\ UNCHANGED <<focus, accountVars, integratorVars, dataVars, chatVars,
                        socialVars, realtimeVars>>
    \/ focus = "chat" /\ ChatNext
       /\ UNCHANGED <<focus, accountVars, integratorVars, dataVars, guildVars,
                        socialVars, realtimeVars>>
    \/ focus = "social" /\ SocialNext
       /\ UNCHANGED <<focus, accountVars, integratorVars, dataVars, guildVars,
                        chatVars, realtimeVars>>
    \/ focus = "realtime" /\ RealtimeNext
       /\ UNCHANGED <<focus, accountVars, integratorVars, dataVars, guildVars,
                        chatVars, socialVars>>

playersVars == <<focus, accountVars, integratorVars, dataVars, guildVars, chatVars, socialVars,
                 realtimeVars>>

PlayersSpec == PlayersInit /\ [][PlayersNext]_playersVars

\* The calls are the same set in every component, and interchangeable.
SameCalls == Permutations(Call)
=============================================================================
