------------------------------- MODULE Social -------------------------------
(* Friend requests and friendships, blocks, discovery, presence visibility   *)
(* and profile settings: friends.rs, blocks.rs, discovery.rs, visibility.rs, *)
(* the reads of presence.rs and update_profile of handlers.rs, with the      *)
(* friendship projection they write through the indexer.                     *)
(*                                                                           *)
(* A request is a single-use call slot.  It first authenticates and makes    *)
(* its unlocked reads, one read per step where a handler makes several; a    *)
(* writing handler then opens its transaction, whose start time orders its   *)
(* event in the ledger, and applies it.  A handler that fails or is dropped  *)
(* is a call that takes no further step.                                     *)
EXTENDS Integers, FiniteSets, Functions

CONSTANTS SocialCall,    \* requests served over a behaviour
          Individual,    \* identities
          SocialMixes,   \* the sets of handlers explored together
          RequestId,     \* friend request ids, in the order they are drawn
          FirstFriends,  \* a pair that may be friends at the start
          FirstRequester,\* the one of them who asked
          GuildMates,    \* pairs of identities sharing a guild
          DisplayName,   \* display names
          ProfileEdits   \* the bodies of PATCH /me explored

VARIABLES smix,          \* the handlers of this behaviour
          scall,         \* call slot -> local state of its handler
          srequests,     \* friend_requests: id -> row
          friends,       \* indexer_friendships: unordered pairs
          blocks,        \* blocks: <<blocker, blocked>>
          sclock,        \* the database clock: transaction start times
          slog,          \* friendship events, each with its place in the ledger order
          discoverable,  \* discovery_preferences
          visibility,    \* profiles.presence_visibility
          names,         \* profiles.display_name
          answers,       \* answers given by the read handlers
          stay           \* what stood unchanged throughout each open call

socialVars == <<smix, scall, srequests, friends, blocks, sclock, slog,
                discoverable, visibility, names, answers, stay>>

SIdle == [h |-> "idle"]
SDone == [h |-> "done"]

SBegin(c, local) ==
    /\ scall[c] = SIdle
    /\ local.h \in smix
    /\ scall' = [scall EXCEPT ![c] = local]

SAt(c, h, pc) == scall[c].h = h /\ scall[c].pc = pc
SMove(c, pc) == scall' = [scall EXCEPT ![c].pc = pc]
SEnd(c) == scall' = [scall EXCEPT ![c] = SDone]

-----------------------------------------------------------------------------
(* Relations read by the handlers.                                           *)

has_block_between(a, b) == <<a, b>> \in blocks \/ <<b, a>> \in blocks

block_partners(a) == {b \in Individual : has_block_between(a, b)}

are_friends(a, b) == {a, b} \in friends

partners_of(a) == {b \in Individual \ {a} : are_friends(a, b)}

friends_of_any(set) == UNION {partners_of(a) : a \in set}

mutual_members(a) == {b \in Individual : {a, b} \in GuildMates}

is_display_name_taken(name, except) ==
    \E p \in Individual \ {except} : names[p] = name

fetch_pending_request(id) ==
    id \in DOMAIN srequests /\ srequests[id].outcome = "pending"

RequestRow(from, to) == [from |-> from, to |-> to, outcome |-> "pending"]

-----------------------------------------------------------------------------
(* Friend requests.                                                          *)

FriendCalls == {"create_friend_request", "accept_friend_request", "remove_friend"}

Event(c, kind, pair) ==
    slog' = slog \cup {[kind |-> kind, pair |-> pair, by |-> scall[c].by, at |-> scall[c].at]}

create_friend_requestBegin(c) ==
    /\ \E a, b \in Individual :
          /\ a # b
          /\ ~ has_block_between(a, b)
          /\ ~ are_friends(a, b)
          /\ SBegin(c, [h |-> "create_friend_request", pc |-> "read", by |-> a, to |-> b, at |-> 0])
    /\ UNCHANGED <<srequests, friends, blocks, sclock, slog, discoverable, visibility, names, answers>>

(* Mutant: the request is accepted by whoever is named in it.               *)
accept_friend_requestBeginEither(c) ==
    /\ \E id \in DOMAIN srequests : \E who \in {srequests[id].to, srequests[id].from} :
          /\ fetch_pending_request(id)
          /\ SBegin(c, [h |-> "accept_friend_request", pc |-> "read",
                        by |-> who, id |-> id, at |-> 0])
    /\ UNCHANGED <<srequests, friends, blocks, sclock, slog, discoverable, visibility, names, answers>>

accept_friend_requestBegin(c) ==
    /\ \E id \in DOMAIN srequests :
          /\ fetch_pending_request(id)
          /\ SBegin(c, [h |-> "accept_friend_request", pc |-> "read",
                        by |-> srequests[id].to, id |-> id, at |-> 0])
    /\ UNCHANGED <<srequests, friends, blocks, sclock, slog, discoverable, visibility, names, answers>>

remove_friendBegin(c) ==
    /\ \E a \in Individual : \E b \in partners_of(a) :
          SBegin(c, [h |-> "remove_friend", pc |-> "read", by |-> a, to |-> b, at |-> 0])
    /\ UNCHANGED <<srequests, friends, blocks, sclock, slog, discoverable, visibility, names, answers>>

(* pool.begin(): protocol_outbox.enqueued_at defaults to the start time of  *)
(* the transaction, and the outbox is drained in that order.                *)
OpenTx(c) ==
    /\ scall[c].h \in FriendCalls
    /\ scall[c].pc = "read"
    /\ sclock' = sclock + 1
    /\ scall' = [scall EXCEPT ![c].pc = "tx", ![c].at = sclock + 1]
    /\ UNCHANGED <<srequests, friends, blocks, slog, discoverable, visibility, names, answers>>

(* friend_requests_pending_pair_idx refuses a second pending row of the     *)
(* same direction.                                                          *)
create_friend_request(c) ==
    /\ SAt(c, "create_friend_request", "tx")
    /\ \A id \in DOMAIN srequests :
          ~ (/\ fetch_pending_request(id)
             /\ srequests[id].from = scall[c].by
             /\ srequests[id].to = scall[c].to)
    /\ \E id \in RequestId \ DOMAIN srequests :
          /\ \A j \in RequestId \ DOMAIN srequests : id <= j
          /\ srequests' = [i \in DOMAIN srequests \cup {id} |->
                              IF i = id THEN RequestRow(scall[c].by, scall[c].to) ELSE srequests[i]]
    /\ Event(c, "requested", {scall[c].by, scall[c].to})
    /\ SEnd(c)
    /\ UNCHANGED <<friends, blocks, sclock, discoverable, visibility, names, answers>>

accept_friend_request(c) ==
    /\ SAt(c, "accept_friend_request", "tx")
    /\ LET row == srequests[scall[c].id] IN
          /\ srequests' = [srequests EXCEPT ![scall[c].id].outcome = "accepted"]
          /\ friends' = friends \cup {{row.from, row.to}}
          /\ Event(c, "accepted", {row.from, row.to})
    /\ SEnd(c)
    /\ UNCHANGED <<blocks, sclock, discoverable, visibility, names, answers>>

remove_friend(c) ==
    /\ SAt(c, "remove_friend", "tx")
    /\ friends' = friends \ {{scall[c].by, scall[c].to}}
    /\ Event(c, "removed", {scall[c].by, scall[c].to})
    /\ SEnd(c)
    /\ UNCHANGED <<srequests, blocks, sclock, discoverable, visibility, names, answers>>

decline_or_withdraw_friend_requestBegin(c) ==
    /\ \E id \in DOMAIN srequests : \E who \in {srequests[id].from, srequests[id].to} :
          /\ fetch_pending_request(id)
          /\ SBegin(c, [h |-> "decline_or_withdraw", pc |-> "read", by |-> who, id |-> id,
                        outcome |-> IF who = srequests[id].to THEN "declined" ELSE "withdrawn"])
    /\ UNCHANGED <<srequests, friends, blocks, sclock, slog, discoverable, visibility, names, answers>>

decline_or_withdraw_friend_request(c) ==
    /\ SAt(c, "decline_or_withdraw", "read")
    /\ srequests' = [srequests EXCEPT ![scall[c].id].outcome = scall[c].outcome]
    /\ SEnd(c)
    /\ UNCHANGED <<friends, blocks, sclock, slog, discoverable, visibility, names, answers>>

-----------------------------------------------------------------------------
(* Blocks.                                                                   *)

create_block(c) ==
    /\ \E a \in Individual : \E b \in Individual \ {a} :
          /\ <<a, b>> \notin blocks
          /\ SBegin(c, [h |-> "create_block"]) \* authenticates; nothing is read before its transaction
          /\ blocks' = blocks \cup {<<a, b>>}
          /\ srequests' = [id \in DOMAIN srequests |->
                IF fetch_pending_request(id) /\ {srequests[id].from, srequests[id].to} = {a, b}
                THEN [srequests[id] EXCEPT !.outcome = "withdrawn"]
                ELSE srequests[id]]
    /\ UNCHANGED <<friends, sclock, slog, discoverable, visibility, names, answers>>

remove_block(c) ==
    /\ \E pair \in blocks :
          /\ SBegin(c, [h |-> "remove_block"])
          /\ blocks' = blocks \ {pair}
    /\ UNCHANGED <<srequests, friends, sclock, slog, discoverable, visibility, names, answers>>

-----------------------------------------------------------------------------
(* Reads that show one identity to another.                                  *)

Answer(c, shown) ==
    answers' = answers \cup {[h |-> scall[c].h, by |-> scall[c].by, shown |-> shown,
                              stood |-> stay[c]]}

ReadCalls == {"discover_people", "search_identities", "get_presence"}

(* discover_people and get_presence read the caller's friends first,        *)
(* search_identities starts with the blocks.                                *)
ReadBegin(c) ==
    /\ \E a \in Individual, h \in ReadCalls :
          SBegin(c, [h |-> h, pc |-> "blocks", by |-> a,
                     friends |-> IF h = "search_identities" THEN {} ELSE partners_of(a),
                     blocked |-> {}])
    /\ UNCHANGED <<srequests, friends, blocks, sclock, slog, discoverable, visibility, names, answers>>

ReadBlocks(c) ==
    /\ scall[c].h \in ReadCalls
    /\ scall[c].pc = "blocks"
    /\ scall' = [scall EXCEPT ![c].pc = "answer", ![c].blocked = block_partners(scall[c].by)]
    /\ UNCHANGED <<srequests, friends, blocks, sclock, slog, discoverable, visibility, names, answers>>

compute_candidates(a, fof, mates, existing, blocked) ==
    ((fof \cup mates) \ {a}) \ (existing \cup blocked)

discover_people(c) ==
    /\ SAt(c, "discover_people", "answer")
    /\ Answer(c, compute_candidates(scall[c].by, friends_of_any(scall[c].friends),
                                    mutual_members(scall[c].by),
                                    scall[c].friends, scall[c].blocked))
    /\ SEnd(c)
    /\ UNCHANGED <<srequests, friends, blocks, sclock, slog, discoverable, visibility, names>>

search_identities(c) ==
    /\ SAt(c, "search_identities", "answer")
    /\ Answer(c, {p \in Individual \ {scall[c].by} : discoverable[p] /\ p \notin scall[c].blocked})
    /\ SEnd(c)
    /\ UNCHANGED <<srequests, friends, blocks, sclock, slog, discoverable, visibility, names>>

presence_visible(a, subject, vis, friend_ids, blocked) ==
    \/ subject = a
    \/ /\ subject \notin blocked
       /\ \/ vis = "public"
          \/ vis = "friends" /\ subject \in friend_ids

get_presence(c) ==
    /\ SAt(c, "get_presence", "answer")
    /\ Answer(c, {p \in Individual : presence_visible(scall[c].by, p, visibility[p],
                                                      scall[c].friends, scall[c].blocked)})
    /\ SEnd(c)
    /\ UNCHANGED <<srequests, friends, blocks, sclock, slog, discoverable, visibility, names>>

-----------------------------------------------------------------------------
(* PATCH /me: the settings it changes besides the profile's own fields.      *)
(* discoverable and presence_visibility are written before, and outside, the *)
(* transaction that renames; presence_visibility is parsed between the two.  *)

update_profileBegin(c) ==
    /\ \E p \in Individual, body \in ProfileEdits :
          /\ body.name # "unset" => ~ is_display_name_taken(body.name, p)
          /\ SBegin(c, [h |-> "update_profile", pc |-> "preferences", by |-> p,
                        discoverable |-> body.discoverable, visibility |-> body.visibility,
                        name |-> body.name, was |-> discoverable[p]])
    /\ UNCHANGED <<srequests, friends, blocks, sclock, slog, discoverable, visibility, names, answers>>

set_discoverable(c) ==
    /\ SAt(c, "update_profile", "preferences")
    /\ discoverable' = [discoverable EXCEPT ![scall[c].by] = scall[c].discoverable]
    /\ SMove(c, "visibility")
    /\ UNCHANGED <<srequests, friends, blocks, sclock, slog, visibility, names, answers>>

(* An unknown visibility is refused after discoverable has been written.   *)
update_profileRejected(c) ==
    /\ SAt(c, "update_profile", "visibility")
    /\ scall[c].visibility = "malformed"
    /\ scall' = [scall EXCEPT ![c] = [h |-> "rejected", by |-> @.by, was |-> @.was]]
    /\ UNCHANGED <<srequests, friends, blocks, sclock, slog, discoverable, visibility, names, answers>>

set_presence_visibility(c) ==
    /\ SAt(c, "update_profile", "visibility")
    /\ scall[c].visibility # "malformed"
    /\ visibility' = IF scall[c].visibility = "unset" THEN visibility
                     ELSE [visibility EXCEPT ![scall[c].by] = scall[c].visibility]
    /\ SMove(c, "rename")
    /\ UNCHANGED <<srequests, friends, blocks, sclock, slog, discoverable, names, answers>>

(* The unique index on display_name decides; the check above is advisory.   *)
update_profile(c) ==
    /\ SAt(c, "update_profile", "rename")
    /\ IF scall[c].name = "unset" THEN names' = names
       ELSE /\ ~ is_display_name_taken(scall[c].name, scall[c].by)
            /\ names' = [names EXCEPT ![scall[c].by] = scall[c].name]
    /\ SEnd(c)
    /\ UNCHANGED <<srequests, friends, blocks, sclock, slog, discoverable, visibility, answers>>

-----------------------------------------------------------------------------

SocialInit ==
    /\ smix \in SocialMixes
    /\ scall = [c \in SocialCall |-> SIdle]
    /\ srequests = <<>>
    /\ friends \in {{}, {FirstFriends}}
    /\ blocks = {}
    /\ sclock = 2
    /\ slog = IF friends = {} THEN {}
              ELSE {[kind |-> "requested", pair |-> FirstFriends, by |-> FirstRequester, at |-> 1],
                    [kind |-> "accepted", pair |-> FirstFriends,
                     by |-> CHOOSE p \in FirstFriends \ {FirstRequester} : TRUE, at |-> 2]}
    /\ discoverable = [p \in Individual |-> FALSE]
    /\ visibility = [p \in Individual |-> "friends"]
    /\ names = [p \in Individual |-> "unset"]
    /\ answers = {}
    /\ stay = [c \in SocialCall |-> [blocked |-> {}, friends |-> {}, undiscoverable |-> {}, private |-> {}]]

SocialStep ==
    \E c \in SocialCall :
        \/ create_friend_requestBegin(c) \/ create_friend_request(c)
        \/ accept_friend_requestBegin(c) \/ accept_friend_request(c)
        \/ remove_friendBegin(c) \/ remove_friend(c) \/ OpenTx(c)
        \/ decline_or_withdraw_friend_requestBegin(c) \/ decline_or_withdraw_friend_request(c)
        \/ create_block(c) \/ remove_block(c)
        \/ ReadBegin(c) \/ ReadBlocks(c)
        \/ discover_people(c) \/ search_identities(c) \/ get_presence(c)
        \/ update_profileBegin(c) \/ set_discoverable(c) \/ set_presence_visibility(c)
        \/ update_profileRejected(c)
        \/ update_profile(c)

(* What holds of the caller in a state, kept over an open read as the part  *)
(* that has held in every state since it began.                             *)
Standing ==
    [a \in Individual |->
        [blocked |-> block_partners(a), friends |-> partners_of(a),
         undiscoverable |-> {p \in Individual : ~ discoverable[p]},
         private |-> {p \in Individual \ {a} : visibility[p] = "private"}]]

Meet(r, s) == [k \in DOMAIN r |-> r[k] \cap s[k]]

RecordStanding ==
    stay' = [c \in SocialCall |->
                IF scall'[c].h \notin ReadCalls THEN stay[c]
                ELSE IF scall[c] = SIdle THEN Standing'[scall'[c].by]
                ELSE Meet(stay[c], Standing'[scall'[c].by])]

SocialNext == SocialStep /\ RecordStanding /\ UNCHANGED smix

SocialSpec == SocialInit /\ [][SocialNext]_socialVars

-----------------------------------------------------------------------------

(* The friendship events, read in the order the ledger stores them, tell a  *)
(* coherent story whatever requests overlapped: an acceptance comes after a *)
(* request by the other party, a removal after an acceptance, and every     *)
(* current friendship has an acceptance (friends.rs, outbox.rs).            *)
LedgerTellsFriendships ==
    /\ \A e \in slog : e.kind = "accepted" =>
          \E r \in slog : r.kind = "requested" /\ r.pair = e.pair /\ r.by # e.by /\ r.at < e.at
    /\ \A e \in slog : e.kind = "removed" =>
          \E a \in slog : a.kind = "accepted" /\ a.pair = e.pair /\ a.at < e.at
    /\ \A pair \in friends : \E a \in slog : a.kind = "accepted" /\ a.pair = pair

=============================================================================
