------------------------------- MODULE Guilds -------------------------------
(***************************************************************************)
(* One guild on one node: its settings, its roles and permission           *)
(* overrides, its roster, the invites and join requests that lead into it, *)
(* and the reversal of membership events after a recovery                  *)
(* (crates/server/src/{guilds,rollback}.rs and the roster projection       *)
(* crates/indexer/src/projections/guild_rosters.rs).                       *)
(*                                                                         *)
(* A handler first reads (Begin), then runs its transaction.  Where the    *)
(* transaction itself reads or locks before it writes, that is a step of   *)
(* its own ("checked"): the database runs at READ COMMITTED and the reads  *)
(* take no lock.  A handler that fails leaves its call where it is.  Every *)
(* call is used once; gmix is the set of handlers a behaviour exercises.   *)
(***************************************************************************)
EXTENDS Naturals, Sequences, FiniteSets, FiniteSetsExt, SequencesExt

CONSTANTS GuildCall,       \* the handler invocations of a behaviour
          Player,          \* the identities
          Founder,         \* the one that creates the guild
          FirstOfficer,    \* members holding the officer role at the start
          Ticket,          \* ids (numbers) of guild_invites and join requests
          MaxRoleIndex,    \* bound on guild_roles.name_index
          GivenPermissions,\* the permission sets role edits may write
          Game,            \* integrators the members are bound to
          GuildMixes,      \* the sets of handlers explored together
          FavoriteCap,     \* MAX_GUILD_FAVORITE_GAMES
          Recovering,      \* the identities that complete a recovery
          LogBound         \* bound on the number of logged guild events

VARIABLES gmix, gcall,
          guild,      \* the guilds row: owner, join policy, recruiting, motd
          roles,      \* guild_roles: index -> permissions
          overrides,  \* guild_permission_overrides of one resource, <<role, allow>>
          roster,     \* indexer_guild_members: player -> role index
          invites,    \* guild_invites: id -> row
          joinRequests, \* guild_join_requests: id -> row
          mainGuild,  \* players whose profile names this guild as main guild
          games,      \* guild_integrator_associations
          favorites,  \* guild_favorite_games, <<game, position, writing call>>
          log,        \* the guild events, in the order they were enqueued
          appended,   \* those of them (positions) that are in the ledger
          marked,     \* those the outbox has marked committed
          recoveredAt \* player -> events enqueued before its last recovery

tableVars == <<guild, roles, overrides, roster, invites, joinRequests,
               mainGuild, games, favorites>>
settleVars == <<appended, marked, recoveredAt>>
guildVars == <<gmix, gcall, tableVars, log, settleVars>>

OWNER_ROLE_INDEX == 0
OFFICER_ROLE_INDEX == 1
MEMBER_ROLE_INDEX == 2
RoleIndex == 0..MaxRoleIndex
Permission == {"manage_guild", "manage_roles", "manage_members",
               "manage_channels", "event_manage", "channel_post", "view",
               "view_details"}
NoGuild == [owner |-> "none"]
GIdle == [h |-> "idle", at |-> "idle"]
GDone == [h |-> "done", at |-> "done"]

ASSUME GuildAssumption ==
  /\ Founder \in Player /\ FirstOfficer \subseteq Player \ {Founder}
  /\ "none" \notin Player
  /\ Ticket \subseteq Nat
  /\ MaxRoleIndex \in Nat /\ MaxRoleIndex >= MEMBER_ROLE_INDEX
  /\ GivenPermissions \subseteq SUBSET Permission
  /\ Recovering \subseteq Player
  /\ FavoriteCap \in Nat /\ LogBound \in Nat

GBegin(c, local) ==
  /\ local.h \in gmix
  /\ gcall[c] = GIdle
  /\ gcall' = [gcall EXCEPT ![c] = local]

\* The transaction's own reads succeed; its writes are still to come.
Checked(c, h) ==
  /\ gcall[c].h = h /\ gcall[c].at = "begun"
  /\ gcall' = [gcall EXCEPT ![c].at = "checked"]

GCommit(c, h, at) ==
  /\ gcall[c].h = h /\ gcall[c].at = at
  /\ gcall' = [gcall EXCEPT ![c] = GDone]

\* outbox::enqueue of the transaction's event.
enqueue(event) ==
  /\ Len(log) < LogBound
  /\ log' = Append(log, event)

\* A table row written or deleted, as a function update.
Put(f, key, value) == [x \in DOMAIN f \union {key} |-> IF x = key THEN value ELSE f[x]]
Drop(f, key) == [x \in DOMAIN f \ {key} |-> f[x]]

-----------------------------------------------------------------------------
(* The roster projection *)

\* What an event writes: a created guild, an added member and a changed role
\* upsert the row, a removal deletes it, a reversal does either.
decode(e) ==
  CASE e.k = "created" -> [row |-> TRUE, who |-> e.who, role |-> OWNER_ROLE_INDEX]
    [] e.k \in {"member_added", "role_changed", "membership_restored"} ->
         [row |-> TRUE, who |-> e.who, role |-> e.role]
    [] e.k \in {"member_removed", "membership_removed"} ->
         [row |-> FALSE, who |-> e.who]
    [] OTHER -> [row |-> FALSE, who |-> "none"]

apply(rows, write) ==
  IF write.row THEN Put(rows, write.who, write.role) ELSE Drop(rows, write.who)

\* The roster the logged events leave, applied in this order.
rebuild(events) == FoldLeft(LAMBDA rows, e : apply(rows, decode(e)), <<>>, events)

is_member(p) == p \in DOMAIN roster
any_member_with_role(i) == \E p \in DOMAIN roster : roster[p] = i

-----------------------------------------------------------------------------
(* Permissions *)

\* actor_role: a member whose role has no row holds no permissions.
actor_role_permissions(p) ==
  IF is_member(p) /\ roster[p] \in DOMAIN roles THEN roles[roster[p]] ELSE {}

has_guild_permission(p, permission) ==
  p = guild.owner \/ permission \in actor_role_permissions(p)

can_remove_member(p, targetRole) ==
  /\ has_guild_permission(p, "manage_members")
  /\ targetRole # MEMBER_ROLE_INDEX => has_guild_permission(p, "manage_roles")

can_leave(p) == p # guild.owner
can_be_removed(p) == p # guild.owner
can_join_directly == guild.policy = "open"
is_base_role(i) == i \in {OWNER_ROLE_INDEX, MEMBER_ROLE_INDEX}

starter_roles ==
  [i \in {OWNER_ROLE_INDEX, OFFICER_ROLE_INDEX, MEMBER_ROLE_INDEX} |->
     CASE i = OWNER_ROLE_INDEX -> Permission
       [] i = OFFICER_ROLE_INDEX ->
            {"manage_members", "manage_channels", "event_manage"}
       [] OTHER -> {}]

-----------------------------------------------------------------------------
(* The guild, its settings and its roles *)

\* Guild row, starter roles and the owner's roster row commit together.
create_guild ==
  /\ "create_guild" \in gmix
  /\ guild = NoGuild
  /\ LET event == [k |-> "created", who |-> Founder]
     IN /\ roster' = apply(roster, decode(event))
        /\ enqueue(event)
  /\ guild' = [owner |-> Founder, policy |-> "invite_only",
               recruiting |-> FALSE, motd |-> 0]
  /\ roles' = starter_roles
  /\ UNCHANGED <<gmix, gcall, overrides, invites, joinRequests, mainGuild,
                 games, favorites, settleVars>>

GuildRow == [owner : Player, policy : {"open", "invite_only"},
             recruiting : BOOLEAN, motd : {0, 1}]

\* fetch_guild finds the row.
Exists == guild \in GuildRow

\* What a valid request asks for: one setting changes and the others stay as
\* the handler read them.
GuildUpdates ==
  {[guild EXCEPT !.policy = "open"], [guild EXCEPT !.policy = "invite_only"],
   [guild EXCEPT !.recruiting = ~@], [guild EXCEPT !.motd = 1 - @]}

UpdateGuildBegin(c) ==
  /\ Exists
  /\ \E p \in Player :
       /\ has_guild_permission(p, "manage_guild")
       /\ \E new \in GuildUpdates :
            GBegin(c, [h |-> "update_guild", at |-> "begun", new |-> new])
  /\ UNCHANGED <<gmix, tableVars, log, settleVars>>

\* Writes every setting of the row back, the owner excepted.
update_guild(c) ==
  /\ GCommit(c, "update_guild", "begun")
  /\ guild' = [gcall[c].new EXCEPT !.owner = guild.owner]
  /\ enqueue([k |-> "updated"])
  /\ UNCHANGED <<gmix, roles, overrides, roster, invites, joinRequests,
                 mainGuild, games, favorites, settleVars>>

TransferOwnershipBegin(c) ==
  /\ Exists
  /\ \E to \in Player \ {guild.owner} :
       GBegin(c, [h |-> "transfer_ownership", at |-> "begun", to |-> to])
  /\ UNCHANGED <<gmix, tableVars, log, settleVars>>

\* Neither owner's roster row changes.
transfer_ownership(c) ==
  /\ GCommit(c, "transfer_ownership", "begun")
  /\ guild' = [guild EXCEPT !.owner = gcall[c].to]
  /\ enqueue([k |-> "transferred", who |-> gcall[c].to])
  /\ UNCHANGED <<gmix, roles, overrides, roster, invites, joinRequests,
                 mainGuild, games, favorites, settleVars>>

associate_integrator ==
  /\ "associate_integrator" \in gmix
  /\ Exists
  /\ \E p \in Player : has_guild_permission(p, "manage_guild")
  /\ \E g \in Game : games' = games \union {g}
  /\ enqueue([k |-> "associated"])
  /\ UNCHANGED <<gmix, gcall, guild, roles, overrides, roster, invites,
                 joinRequests, mainGuild, favorites, settleVars>>

\* The DELETE sees the rows committed when it runs; the list that was asked
\* for is checked against the members' bindings before that.
SetFavoriteGamesBegin(c) ==
  /\ Exists
  /\ \E p \in Player : has_guild_permission(p, "manage_guild")
  /\ \E list \in {s \in SeqOf(Game, FavoriteCap) : IsInjective(s)} :
       GBegin(c, [h |-> "set_favorite_games", at |-> "begun", list |-> list,
                  cleared |-> favorites])
  /\ UNCHANGED <<gmix, tableVars, log, settleVars>>

\* (guild, game) is the primary key: inserting a game that is pinned fails.
set_favorite_games(c) ==
  /\ GCommit(c, "set_favorite_games", "begun")
  /\ LET list == gcall[c].list
         kept == favorites \ gcall[c].cleared
     IN /\ \A f \in kept : f[1] \notin Range(list)
        /\ favorites' = kept \union {<<list[i], i, c>> : i \in DOMAIN list}
  /\ enqueue([k |-> "favorites"])
  /\ UNCHANGED <<gmix, guild, roles, overrides, roster, invites, joinRequests,
                 mainGuild, games, settleVars>>

NextRoleIndex == Max(DOMAIN roles) + 1

\* The transaction reads the highest index first; (guild, index) is the key.
CreateRoleBegin(c) ==
  /\ Exists
  /\ \E p \in Player : has_guild_permission(p, "manage_roles")
  /\ \E new \in GivenPermissions :
       GBegin(c, [h |-> "create_role", at |-> "begun", new |-> new,
                  index |-> NextRoleIndex])
  /\ UNCHANGED <<gmix, tableVars, log, settleVars>>

create_role(c) ==
  /\ GCommit(c, "create_role", "begun")
  /\ gcall[c].index \in RoleIndex \ DOMAIN roles
  /\ roles' = Put(roles, gcall[c].index, gcall[c].new)
  /\ enqueue([k |-> "role_defined"])
  /\ UNCHANGED <<gmix, guild, overrides, roster, invites, joinRequests,
                 mainGuild, games, favorites, settleVars>>

\* Without new permissions the request writes the ones it read; the owner
\* role's cannot be changed.
UpdateRoleBegin(c) ==
  /\ Exists
  /\ \E p \in Player : has_guild_permission(p, "manage_roles")
  /\ \E i \in DOMAIN roles :
       \E new \in {roles[i]} \union
                  (IF i = OWNER_ROLE_INDEX THEN {} ELSE GivenPermissions) :
         GBegin(c, [h |-> "update_role", at |-> "begun", role |-> i, new |-> new])
  /\ UNCHANGED <<gmix, tableVars, log, settleVars>>

update_role(c) ==
  /\ GCommit(c, "update_role", "begun")
  /\ gcall[c].role \in DOMAIN roles
  /\ roles' = Put(roles, gcall[c].role, gcall[c].new)
  /\ enqueue([k |-> "role_defined"])
  /\ UNCHANGED <<gmix, guild, overrides, roster, invites, joinRequests,
                 mainGuild, games, favorites, settleVars>>

DeleteRoleBegin(c) ==
  /\ Exists
  /\ \E p \in Player : has_guild_permission(p, "manage_roles")
  /\ \E i \in DOMAIN roles :
       /\ ~is_base_role(i) /\ ~any_member_with_role(i)
       /\ GBegin(c, [h |-> "delete_role", at |-> "begun", role |-> i])
  /\ UNCHANGED <<gmix, tableVars, log, settleVars>>

\* The role's overrides go with it (ON DELETE CASCADE).
delete_role(c) ==
  /\ GCommit(c, "delete_role", "begun")
  /\ gcall[c].role \in DOMAIN roles
  /\ roles' = Drop(roles, gcall[c].role)
  /\ overrides' = {o \in overrides : o[1] # gcall[c].role}
  /\ enqueue([k |-> "role_deleted"])
  /\ UNCHANGED <<gmix, guild, roster, invites, joinRequests, mainGuild, games,
                 favorites, settleVars>>

SetPermissionOverrideBegin(c) ==
  /\ Exists
  /\ \E p \in Player : has_guild_permission(p, "manage_roles")
  /\ \E i \in DOMAIN roles, allow \in BOOLEAN :
       GBegin(c, [h |-> "set_permission_override", at |-> "begun", role |-> i,
                  allow |-> allow])
  /\ UNCHANGED <<gmix, tableVars, log, settleVars>>

\* An upsert; the foreign key refuses a role that is gone.
set_permission_override(c) ==
  /\ GCommit(c, "set_permission_override", "begun")
  /\ gcall[c].role \in DOMAIN roles
  /\ overrides' = {o \in overrides : o[1] # gcall[c].role}
                    \union {<<gcall[c].role, gcall[c].allow>>}
  /\ UNCHANGED <<gmix, guild, roles, roster, invites, joinRequests, mainGuild,
                 games, favorites, log, settleVars>>

delete_permission_override ==
  /\ "set_permission_override" \in gmix
  /\ \E p \in Player : has_guild_permission(p, "manage_roles")
  /\ \E o \in overrides : overrides' = overrides \ {o}
  /\ UNCHANGED <<gmix, gcall, guild, roles, roster, invites, joinRequests,
                 mainGuild, games, favorites, log, settleVars>>

-----------------------------------------------------------------------------
(* The roster: invites, join requests, joining, leaving, removal, roles *)

\* apply_in_tx and outbox::enqueue; a removal that finds no row logs its event
\* all the same.
WriteRoster(event) ==
  /\ roster' = apply(roster, decode(event))
  /\ enqueue(event)

MemberAdded(p, by, via) ==
  [k |-> "member_added", who |-> p, role |-> MEMBER_ROLE_INDEX, by |-> by, via |-> via]

NextId(rows) == Min(Ticket \ DOMAIN rows)
FreeId(rows) == Ticket \ DOMAIN rows # {}

CreateInviteBegin(c) ==
  /\ Exists
  /\ \E p \in Player : has_guild_permission(p, "manage_members")
  /\ \E to \in Player :
       /\ ~is_member(to)
       /\ GBegin(c, [h |-> "create_invite", at |-> "begun", to |-> to])
  /\ UNCHANGED <<gmix, tableVars, log, settleVars>>

\* A pending invite to the same identity is returned instead (unique index).
create_invite(c) ==
  /\ GCommit(c, "create_invite", "begun")
  /\ IF \E i \in DOMAIN invites : /\ invites[i].to = gcall[c].to
                                  /\ invites[i].outcome = "pending"
     THEN UNCHANGED invites
     ELSE /\ FreeId(invites)
          /\ invites' = Put(invites, NextId(invites),
                            [to |-> gcall[c].to, outcome |-> "pending"])
  /\ UNCHANGED <<gmix, guild, roles, overrides, roster, joinRequests, mainGuild,
                 games, favorites, log, settleVars>>

AnswerInviteBegin(c) ==
  /\ \E i \in DOMAIN invites, h \in {"accept_invite", "decline_invite"} :
       /\ invites[i].outcome = "pending"
       /\ GBegin(c, [h |-> h, at |-> "begun", id |-> i, who |-> invites[i].to])
  /\ UNCHANGED <<gmix, tableVars, log, settleVars>>

\* The UPDATE of a transaction still open locks the row.
RowFree(h, id) ==
  \A d \in GuildCall : gcall[d].h = h /\ gcall[d].at = "checked" => gcall[d].id # id

\* UPDATE guild_invites (whatever its outcome is), then add_member's read.
AcceptInviteChecked(c) ==
  /\ Checked(c, "accept_invite")
  /\ RowFree("accept_invite", gcall[c].id)
  /\ ~is_member(gcall[c].who)
  /\ UNCHANGED <<gmix, tableVars, log, settleVars>>

accept_invite(c) ==
  /\ GCommit(c, "accept_invite", "checked")
  /\ invites' = [invites EXCEPT ![gcall[c].id].outcome = "accepted"]
  /\ WriteRoster(MemberAdded(gcall[c].who, gcall[c].who, 0))
  /\ UNCHANGED <<gmix, guild, roles, overrides, joinRequests, mainGuild, games,
                 favorites, settleVars>>

decline_invite(c) ==
  /\ GCommit(c, "decline_invite", "begun")
  /\ RowFree("accept_invite", gcall[c].id)
  /\ invites' = [invites EXCEPT ![gcall[c].id].outcome = "declined"]
  /\ UNCHANGED <<gmix, guild, roles, overrides, roster, joinRequests, mainGuild,
                 games, favorites, log, settleVars>>

\* The policy, then add_member's read.
JoinGuildBegin(c) ==
  /\ Exists
  /\ can_join_directly
  /\ \E p \in Player :
       /\ ~is_member(p)
       /\ GBegin(c, [h |-> "join_guild", at |-> "begun", who |-> p])
  /\ UNCHANGED <<gmix, tableVars, log, settleVars>>

join_guild(c) ==
  /\ GCommit(c, "join_guild", "begun")
  /\ WriteRoster(MemberAdded(gcall[c].who, gcall[c].who, 0))
  /\ UNCHANGED <<gmix, guild, roles, overrides, invites, joinRequests, mainGuild,
                 games, favorites, settleVars>>

LeaveGuildBegin(c) ==
  /\ Exists
  /\ \E p \in DOMAIN roster :
       /\ can_leave(p)
       /\ GBegin(c, [h |-> "leave_guild", at |-> "begun", who |-> p,
                     clear |-> p \in mainGuild])
  /\ UNCHANGED <<gmix, tableVars, log, settleVars>>

MemberRemoved(p, by) == [k |-> "member_removed", who |-> p, by |-> by]

leave_guild(c) ==
  /\ GCommit(c, "leave_guild", "begun")
  /\ WriteRoster(MemberRemoved(gcall[c].who, gcall[c].who))
  /\ mainGuild' = IF gcall[c].clear THEN mainGuild \ {gcall[c].who} ELSE mainGuild
  /\ UNCHANGED <<gmix, guild, roles, overrides, invites, joinRequests, games,
                 favorites, settleVars>>

RemoveMemberBegin(c) ==
  /\ Exists
  /\ \E target \in DOMAIN roster, p \in Player :
       /\ can_be_removed(target)
       /\ can_remove_member(p, roster[target])
       /\ GBegin(c, [h |-> "remove_member", at |-> "begun", who |-> target,
                     by |-> p])
  /\ UNCHANGED <<gmix, tableVars, log, settleVars>>

remove_member(c) ==
  /\ GCommit(c, "remove_member", "begun")
  /\ WriteRoster(MemberRemoved(gcall[c].who, gcall[c].by))
  /\ UNCHANGED <<gmix, guild, roles, overrides, invites, joinRequests, mainGuild,
                 games, favorites, settleVars>>

CreateJoinRequestBegin(c) ==
  /\ Exists
  /\ guild.recruiting
  /\ \E p \in Player :
       /\ ~is_member(p)
       /\ GBegin(c, [h |-> "create_join_request", at |-> "begun", who |-> p])
  /\ UNCHANGED <<gmix, tableVars, log, settleVars>>

create_join_request(c) ==
  /\ GCommit(c, "create_join_request", "begun")
  /\ IF \E i \in DOMAIN joinRequests : /\ joinRequests[i].applicant = gcall[c].who
                                       /\ joinRequests[i].status = "pending"
     THEN UNCHANGED joinRequests
     ELSE /\ FreeId(joinRequests)
          /\ joinRequests' = Put(joinRequests, NextId(joinRequests),
                                 [applicant |-> gcall[c].who, status |-> "pending"])
  /\ UNCHANGED <<gmix, guild, roles, overrides, roster, invites, mainGuild, games,
                 favorites, log, settleVars>>

\* approve and reject need manage_members; withdraw is the applicant's.
DecideJoinRequestBegin(c) ==
  /\ \E i \in DOMAIN joinRequests, p \in Player,
        h \in {"approve_join_request", "reject_join_request", "withdraw_join_request"} :
       /\ joinRequests[i].status = "pending"
       /\ IF h = "withdraw_join_request" THEN p = joinRequests[i].applicant
          ELSE has_guild_permission(p, "manage_members")
       /\ GBegin(c, [h |-> h, at |-> "begun", id |-> i, by |-> p,
                     who |-> joinRequests[i].applicant])
  /\ UNCHANGED <<gmix, tableVars, log, settleVars>>

\* UPDATE ... AND status = 'pending' matches the row.
StillPending(id) ==
  /\ joinRequests[id].status = "pending"
  /\ RowFree("approve_join_request", id)

ApproveJoinRequestChecked(c) ==
  /\ Checked(c, "approve_join_request")
  /\ StillPending(gcall[c].id)
  /\ ~is_member(gcall[c].who)
  /\ UNCHANGED <<gmix, tableVars, log, settleVars>>

approve_join_request(c) ==
  /\ GCommit(c, "approve_join_request", "checked")
  /\ joinRequests' = [joinRequests EXCEPT ![gcall[c].id].status = "approved"]
  /\ WriteRoster(MemberAdded(gcall[c].who, gcall[c].by, gcall[c].id))
  /\ UNCHANGED <<gmix, guild, roles, overrides, invites, mainGuild, games,
                 favorites, settleVars>>

reject_join_request(c) ==
  /\ GCommit(c, "reject_join_request", "begun")
  /\ StillPending(gcall[c].id)
  /\ joinRequests' = [joinRequests EXCEPT ![gcall[c].id].status = "rejected"]
  /\ UNCHANGED <<gmix, guild, roles, overrides, roster, invites, mainGuild, games,
                 favorites, log, settleVars>>

withdraw_join_request(c) ==
  /\ GCommit(c, "withdraw_join_request", "begun")
  /\ StillPending(gcall[c].id)
  /\ joinRequests' = [joinRequests EXCEPT ![gcall[c].id].status = "withdrawn"]
  /\ UNCHANGED <<gmix, guild, roles, overrides, roster, invites, mainGuild, games,
                 favorites, log, settleVars>>

\* A role that grants manage_roles or manage_members needs a fresh signature;
\* the model's requests carry one.
UpdateMemberRoleBegin(c) ==
  /\ Exists
  /\ \E p \in Player : has_guild_permission(p, "manage_roles")
  /\ \E target \in DOMAIN roster \ {guild.owner},
        i \in DOMAIN roles \ {OWNER_ROLE_INDEX} :
       GBegin(c, [h |-> "update_member_role", at |-> "begun", who |-> target,
                  role |-> i])
  /\ UNCHANGED <<gmix, tableVars, log, settleVars>>

\* The event is not one of the chained kinds; its write is an upsert.
update_member_role(c) ==
  /\ GCommit(c, "update_member_role", "begun")
  /\ WriteRoster([k |-> "role_changed", who |-> gcall[c].who, role |-> gcall[c].role])
  /\ UNCHANGED <<gmix, guild, roles, overrides, invites, joinRequests, mainGuild,
                 games, favorites, settleVars>>

-----------------------------------------------------------------------------
(* Reversing an event after a recovery *)

\* extract_target: a membership event of p's own, settled, from before the
\* recovery completed.
extract_target(p, e) ==
  /\ log[e].k \in {"member_added", "member_removed"}
  /\ log[e].who = p /\ log[e].by = p
  /\ e <= recoveredAt[p]

Reverses(i, e) ==
  /\ log[i].k \in {"membership_restored", "membership_removed"}
  /\ log[i].reverses = e

\* One statement reads the ledger and the rows the outbox has not marked.
already_reversed(e) ==
  \E i \in DOMAIN log : Reverses(i, e) /\ (i \in appended \/ i \notin marked)

\* A membership can be taken back while it stands and p does not own the guild,
\* and restored while it is gone and the guild is open.
assess_inner(p, restored) ==
  IF restored THEN ~is_member(p) /\ can_join_directly
  ELSE is_member(p) /\ guild.owner # p

\* Mutant of ReverseEventChecked: without the event's advisory lock.
ReverseEventCheckedUnlocked(c) ==
  /\ \E p \in DOMAIN recoveredAt, e \in appended :
       LET restored == log[e].k = "member_removed"
       IN /\ extract_target(p, e)
          /\ ~already_reversed(e)
          /\ assess_inner(p, restored)
          /\ GBegin(c, [h |-> "reverse_event", at |-> "checked", who |-> p,
                        event |-> e, restored |-> restored,
                        clear |-> ~restored /\ p \in mainGuild])
  /\ UNCHANGED <<gmix, tableVars, log, settleVars>>

\* Under the event's advisory lock: the window, the ledger row, the context.
ReverseEventChecked(c) ==
  /\ \E p \in DOMAIN recoveredAt, e \in appended :
       LET restored == log[e].k = "member_removed"
       IN /\ extract_target(p, e)
          /\ \A d \in GuildCall :
               gcall[d].h = "reverse_event" => gcall[d].event # e
          /\ ~already_reversed(e)
          /\ assess_inner(p, restored)
          /\ GBegin(c, [h |-> "reverse_event", at |-> "checked", who |-> p,
                        event |-> e, restored |-> restored,
                        clear |-> ~restored /\ p \in mainGuild])
  /\ UNCHANGED <<gmix, tableVars, log, settleVars>>

reverse_event(c) ==
  LET local == gcall[c]
  IN /\ GCommit(c, "reverse_event", "checked")
     /\ WriteRoster([k |-> IF local.restored THEN "membership_restored"
                                             ELSE "membership_removed",
                     who |-> local.who, role |-> MEMBER_ROLE_INDEX,
                     reverses |-> local.event])
     /\ mainGuild' = IF local.clear THEN mainGuild \ {local.who} ELSE mainGuild
     /\ UNCHANGED <<gmix, guild, roles, overrides, invites, joinRequests, games,
                    favorites, settleVars>>

\* recovery.rs completes a recovery of p.
RecoveryCompleted(p) ==
  /\ "reverse_event" \in gmix
  /\ p \notin DOMAIN recoveredAt
  /\ recoveredAt' = Put(recoveredAt, p, Len(log))
  /\ UNCHANGED <<gmix, gcall, tableVars, log, appended, marked>>

\* The outbox worker appends an event to the ledger, then marks its row.  The
\* oldest transaction's goes first, and any may turn out to be that.
SettleAppend ==
  /\ "reverse_event" \in gmix
  /\ \E i \in DOMAIN log \ appended : appended' = appended \union {i}
  /\ UNCHANGED <<gmix, gcall, tableVars, log, marked, recoveredAt>>

SettleMark ==
  /\ marked # appended
  /\ marked' = appended
  /\ UNCHANGED <<gmix, gcall, tableVars, log, appended, recoveredAt>>

-----------------------------------------------------------------------------
(* The specification *)

\* A guild that its founder created and set up, and that its first officers
\* joined before they were given their role.
Founded ==
  <<[k |-> "created", who |-> Founder], [k |-> "updated"]>> \o
  FlattenSeq([i \in 1..Cardinality(FirstOfficer) |->
                LET p == SetToSeq(FirstOfficer)[i]
                IN <<MemberAdded(p, p, 0),
                     [k |-> "role_changed", who |-> p, role |-> OFFICER_ROLE_INDEX]>>])

GuildInit ==
  /\ gmix \in GuildMixes
  /\ gcall = [c \in GuildCall |-> GIdle]
  /\ IF "create_guild" \in gmix
     THEN guild = NoGuild /\ roles = <<>> /\ log = <<>>
     ELSE /\ guild = [owner |-> Founder,
                      policy |-> IF gmix \intersect {"join_guild", "leave_guild"} # {}
                                THEN "open" ELSE "invite_only",
                      recruiting |-> "create_join_request" \in gmix,
                      motd |-> 0]
          /\ roles = starter_roles
          /\ log = Founded
  /\ roster = rebuild(log)
  /\ overrides = {}
  /\ invites = <<>> /\ joinRequests = <<>>
  /\ mainGuild = FirstOfficer \intersect DOMAIN roster
  /\ games = {} /\ favorites = {}
  /\ appended = DOMAIN log /\ marked = DOMAIN log
  /\ recoveredAt = <<>>

GuildSettingStep(c) ==
  \/ UpdateGuildBegin(c) \/ update_guild(c)
  \/ TransferOwnershipBegin(c) \/ transfer_ownership(c)
  \/ SetFavoriteGamesBegin(c) \/ set_favorite_games(c)
  \/ CreateRoleBegin(c) \/ create_role(c)
  \/ UpdateRoleBegin(c) \/ update_role(c)
  \/ DeleteRoleBegin(c) \/ delete_role(c)
  \/ SetPermissionOverrideBegin(c) \/ set_permission_override(c)

RosterStep(c) ==
  \/ CreateInviteBegin(c) \/ create_invite(c)
  \/ AnswerInviteBegin(c) \/ AcceptInviteChecked(c)
  \/ accept_invite(c) \/ decline_invite(c)
  \/ JoinGuildBegin(c) \/ join_guild(c)
  \/ LeaveGuildBegin(c) \/ leave_guild(c)
  \/ RemoveMemberBegin(c) \/ remove_member(c)
  \/ CreateJoinRequestBegin(c) \/ create_join_request(c)
  \/ DecideJoinRequestBegin(c) \/ ApproveJoinRequestChecked(c)
  \/ approve_join_request(c) \/ reject_join_request(c) \/ withdraw_join_request(c)
  \/ UpdateMemberRoleBegin(c) \/ update_member_role(c)

GuildNext ==
  \/ create_guild \/ associate_integrator \/ delete_permission_override
  \/ \E c \in GuildCall :
       \/ GuildSettingStep(c) \/ RosterStep(c)
       \/ ReverseEventChecked(c) \/ reverse_event(c)
  \/ \E p \in Recovering : RecoveryCompleted(p)
  \/ SettleAppend \/ SettleMark

GuildSpec == GuildInit /\ [][GuildNext]_guildVars

-----------------------------------------------------------------------------
(* Properties *)

\* No event is reversed twice, wherever the outbox worker is with the first
\* reversal: neither logged, in the ledger but not marked, nor marked.
ReversedOnce ==
  \A i, j \in DOMAIN log :
    \A e \in DOMAIN log : Reverses(i, e) /\ Reverses(j, e) => i = j

=============================================================================
