------------------------------ MODULE Messaging ------------------------------
(***************************************************************************)
(* Chat kept by one node: a guild channel with its live and archived       *)
(* messages, the guild's events and RSVPs, one direct conversation, and    *)
(* the copies of messages held by peers (crates/server/src/{channels,      *)
(* guild_messages,guild_events,conversations,chat_replication}.rs).        *)
(*                                                                         *)
(* Messages are numbered by their sent_at stamp, which a handler takes     *)
(* before it inserts, so they may be inserted in another order.  A send    *)
(* runs several statements: the checks and the stamp (begun), the INSERT   *)
(* (inserted), then the pruning transaction, whose INSERT .. SELECT reads  *)
(* (selected), writes the archive rows (moved) and whose DELETE reads the  *)
(* table again.  A cancelled handler stops where it is and its open        *)
(* transaction is rolled back.                                             *)
(***************************************************************************)
EXTENDS Naturals, Sequences, FiniteSets, FiniteSetsExt, SequencesExt

CONSTANTS ChatCall,       \* handler invocations
          Person,         \* identities
          Manager,        \* those holding manage_channels and event_manage
          Poster,         \* those holding channel_post
          ChatMixes,      \* the sets of handlers explored together
          MessageCap,     \* message_cap()
          PageSize,       \* the page limit a reader asks for
          MaxStamp,       \* bound on the messages of a channel
          PageReader,     \* clients paging through a history
          ReplicaPeer,    \* peers with a storage role, ordered by base_url
          EntryId,        \* client journal entries of a conversation
          ChatEventId,    \* ids of guild events
          MaxSignerKey    \* bound on this node's key rotations

VARIABLES cmix, ccall,
          stamp,      \* the last sent_at given out
          channel,    \* the guild_channels row
          members,    \* the guild's roster
          views,      \* overrides of the members' role on the channel
          live, archive,   \* guild_messages; guild_messages_archive with archived_at
          inserted, taken, \* messages ever inserted, taken down by a moderator (history)
          page,       \* reader -> what it has read so far
          eligible,   \* the peers currently known with a storage role
          signerKey,  \* this node's signing key
          posts,      \* replication requests on their way
          replica,    \* peer -> message -> row of guild_messages_replica
          events, rsvps,   \* guild_events, guild_event_rsvps
          listed,     \* events served to a caller: <<who, public, member>>
          conversation, opened, \* the conversations row; ids given to its creators
          blocked, related,     \* a block among the participants; friends or guild-mates
          cmsgs,      \* conversation_messages, <<stamp, entry>>
          pushed      \* conversation messages published, with their entry

chanVars == <<channel, members, views>>
histVars == <<live, archive, inserted, taken>>
replVars == <<eligible, signerKey, posts, replica>>
eventVars == <<events, rsvps, listed>>
convVars == <<conversation, opened, blocked, related, cmsgs, pushed>>
chatVars == <<cmix, ccall, stamp, chanVars, histVars, page, replVars,
              eventVars, convVars>>

CIdle == [h |-> "idle", at |-> "idle"]
CDone == [h |-> "done", at |-> "done"]
Override == {"none", "allow", "deny"}
NoEntry == "online"
NoConversation == "none"
NoPage == [tier |-> "none", seen |-> <<>>, base |-> {}, whole |-> TRUE]

ASSUME ChatAssumption ==
  /\ Manager \subseteq Person /\ Poster \subseteq Person
  /\ MessageCap \in Nat \ {0} /\ PageSize \in Nat \ {0}
  /\ MaxSignerKey \in Nat
  /\ ReplicaPeer \subseteq Nat /\ NoEntry \notin EntryId
  /\ NoConversation \notin ChatCall

CBegin(c, local) ==
  /\ local.h \in cmix
  /\ ccall[c] = CIdle
  /\ ccall' = [ccall EXCEPT ![c] = local]

CCommit(c, h) ==
  /\ ccall[c].h = h /\ ccall[c].at = "begun"
  /\ ccall' = [ccall EXCEPT ![c] = CDone]

CStep(c, h, from, to) ==
  /\ ccall[c].h = h /\ ccall[c].at = from
  /\ ccall' = [ccall EXCEPT ![c] = to]

\* The rows the newest-first LIMIT keeps, and the ones it cuts.
Newest(rows, n) == {m \in rows : Cardinality({k \in rows : k > m}) < n}
Pruned(rows) == rows \ Newest(rows, MessageCap)

-----------------------------------------------------------------------------
(* Who may read and write *)

is_guild_member(p) == p \in members
require_manage_channel_resource(p) == p \in Manager

\* A member sees by default, an outsider what is public; an explicit grant of
\* the details implies the view.
resolve_view_permission(member, override, public, details) ==
  IF ~member THEN public
  ELSE IF details THEN override.details # "deny"
  ELSE override.details = "allow" \/ override.view # "deny"

has_view_permission(p, public, details) ==
  resolve_view_permission(is_guild_member(p), views, public, details)

-----------------------------------------------------------------------------
(* The channel *)

\* What a valid request may ask for; the other fields stay as the handler
\* read them.
ChannelUpdates == {[channel EXCEPT !.announce = ~@], [channel EXCEPT !.public = ~@],
                   [channel EXCEPT !.topic = 1 - @]}

UpdateChannelBegin(c) ==
  /\ \E p \in Person : require_manage_channel_resource(p)
  /\ \E new \in ChannelUpdates :
       CBegin(c, [h |-> "update_channel", at |-> "begun", new |-> new])
  /\ UNCHANGED <<cmix, stamp, chanVars, histVars, page, replVars, eventVars, convVars>>

\* Every column is written back as read, archived_at excepted.
update_channel(c) ==
  /\ CCommit(c, "update_channel")
  /\ channel' = [ccall[c].new EXCEPT !.archived = channel.archived]
  /\ UNCHANGED <<cmix, stamp, members, views, histVars, page, replVars, eventVars, convVars>>

ArchiveChannelBegin(c) ==
  /\ \E p \in Person : require_manage_channel_resource(p)
  /\ CBegin(c, [h |-> "archive_channel", at |-> "begun"])
  /\ UNCHANGED <<cmix, stamp, chanVars, histVars, page, replVars, eventVars, convVars>>

archive_channel(c) ==
  /\ CCommit(c, "archive_channel")
  /\ channel' = [channel EXCEPT !.archived = TRUE]
  /\ UNCHANGED <<cmix, stamp, members, views, histVars, page, replVars, eventVars, convVars>>

\* A member joins or leaves; a role override on the channel is set.
MembershipChanges ==
  /\ "membership" \in cmix
  /\ \E p \in Person :
       members' = IF p \in members THEN members \ {p} ELSE members \union {p}
  /\ UNCHANGED <<cmix, ccall, stamp, channel, views, histVars, page, replVars,
                 eventVars, convVars>>

ViewOverrideChanges ==
  /\ "membership" \in cmix
  /\ \E o \in [view : Override, details : Override] : views' = o
  /\ UNCHANGED <<cmix, ccall, stamp, channel, members, histVars, page, replVars,
                 eventVars, convVars>>

-----------------------------------------------------------------------------
(* Channel messages *)

\* Membership, the archive flag and the announcement rule are read, then the
\* message is stamped.
SendMessageBegin(c) ==
  /\ \E p \in Person :
       /\ is_guild_member(p)
       /\ channel.announce => p \in Poster
  /\ ~channel.archived
  /\ stamp < MaxStamp
  /\ stamp' = stamp + 1
  /\ CBegin(c, [h |-> "send_message", at |-> "begun", m |-> stamp + 1])
  /\ UNCHANGED <<cmix, chanVars, histVars, page, replVars, eventVars, convVars>>

InsertMessage(c) ==
  /\ CStep(c, "send_message", "begun", [ccall[c] EXCEPT !.at = "inserted"])
  /\ live' = live \union {ccall[c].m}
  /\ inserted' = inserted \union {ccall[c].m}
  /\ UNCHANGED <<cmix, stamp, chanVars, archive, taken, page, replVars,
                 eventVars, convVars>>

\* prune_channel's INSERT .. SELECT: its snapshot, with the transaction's now().
PruneSelect(c) ==
  /\ CStep(c, "send_message", "inserted",
           [h |-> "send_message", at |-> "selected", m |-> ccall[c].m,
            moving |-> Pruned(live), now |-> stamp])
  /\ UNCHANGED <<cmix, stamp, chanVars, histVars, page, replVars, eventVars, convVars>>

\* The rows another open transaction is inserting are waited for; the ones
\* already archived are skipped (ON CONFLICT DO NOTHING).
PruneMove(c) ==
  /\ CStep(c, "send_message", "selected",
           [ccall[c] EXCEPT !.at = "moved", !.moving = @ \ DOMAIN archive])
  /\ \A d \in ChatCall :
       ccall[d].at = "moved" => ccall[d].moving \intersect ccall[c].moving = {}
  /\ UNCHANGED <<cmix, stamp, chanVars, histVars, page, replVars, eventVars, convVars>>

replication_target == IF eligible = {} THEN {} ELSE {Min(eligible)}
replicate_to_peers(event) ==
  posts' = posts \union
             {[to |-> p, by |-> signerKey, event |-> event] : p \in replication_target}

\* The DELETE recomputes the rows to keep, the transaction commits, and the
\* message is pushed and replicated.
prune_channel(c) ==
  /\ CStep(c, "send_message", "moved", CDone)
  /\ live' = Newest(live, MessageCap)
  /\ archive' = [m \in DOMAIN archive \union ccall[c].moving |->
                   IF m \in DOMAIN archive THEN archive[m] ELSE ccall[c].now]
  /\ replicate_to_peers([k |-> "message", m |-> ccall[c].m])
  /\ UNCHANGED <<cmix, stamp, chanVars, inserted, taken, page, eligible, signerKey,
                 replica, eventVars, convVars>>

\* The request is dropped: an open transaction leaves nothing behind, an
\* inserted message stays.
HandlerDropped(c) ==
  /\ ccall[c].h = "send_message" /\ ccall[c].at \in {"inserted", "selected", "moved"}
  /\ ccall' = [ccall EXCEPT ![c] = [h |-> "send_message", at |-> "dropped", m |-> ccall[c].m]]
  /\ UNCHANGED <<cmix, stamp, chanVars, histVars, page, replVars, eventVars, convVars>>

\* A takedown tries the live row; only when there is none, the archived one.
DeleteMessageBegin(c) ==
  /\ \E p \in Person : require_manage_channel_resource(p)
  /\ \E m \in inserted : CBegin(c, [h |-> "delete_message", at |-> "begun", m |-> m])
  /\ UNCHANGED <<cmix, stamp, chanVars, histVars, page, replVars, eventVars, convVars>>

DeleteLive(c) ==
  LET m == ccall[c].m IN
  /\ CStep(c, "delete_message", "begun", CDone)
  /\ m \in live
  /\ live' = live \ {m}
  /\ taken' = taken \union {m}
  /\ replicate_to_peers([k |-> "deleted", m |-> m])
  /\ UNCHANGED <<cmix, stamp, chanVars, archive, inserted, page, eligible, signerKey,
                 replica, eventVars, convVars>>

NothingLive(c) ==
  /\ ccall[c].h = "delete_message" /\ ccall[c].m \notin live
  /\ CStep(c, "delete_message", "begun", [ccall[c] EXCEPT !.at = "archive"])
  /\ UNCHANGED <<cmix, stamp, chanVars, histVars, page, replVars, eventVars, convVars>>

\* The archived row is deleted; with none there either, the request is a 404.
delete_message(c) ==
  LET m == ccall[c].m IN
  /\ CStep(c, "delete_message", "archive", CDone)
  /\ IF m \in DOMAIN archive
       THEN /\ archive' = [k \in DOMAIN archive \ {m} |-> archive[k]]
            /\ taken' = taken \union {m}
            /\ replicate_to_peers([k |-> "deleted", m |-> m])
       ELSE UNCHANGED <<archive, taken, posts>>
  /\ UNCHANGED <<cmix, stamp, chanVars, live, inserted, page, eligible, signerKey,
                 replica, eventVars, convVars>>

\* The expiry worker deletes the rows archived before the cutoff.
retention_cutoff == 1..stamp
expire_archive ==
  /\ "expire_archive" \in cmix
  /\ \E cutoff \in retention_cutoff :
       LET old == {m \in DOMAIN archive : archive[m] < cutoff} IN
       /\ old # {}
       /\ archive' = [m \in DOMAIN archive \ old |-> archive[m]]
  /\ UNCHANGED <<cmix, ccall, stamp, chanVars, live, inserted, taken, page, replVars, eventVars,
                 convVars>>

-----------------------------------------------------------------------------
(* Paging through a history *)

\* Mutant of NextPage: the cursor's own row is read again.
NextPageInclusive(rows, cursor) ==
  IF cursor \in rows THEN Newest({m \in rows : m <= cursor}, PageSize) ELSE {}

\* Rows strictly older than the cursor; none when the cursor's row is gone.
NextPage(rows, cursor) ==
  IF cursor \in rows THEN Newest({m \in rows : m < cursor}, PageSize) ELSE {}

Descending(S) == SetToSortSeq(S, LAMBDA a, b : a > b)

\* The first page, or the page after the last row read.
ReadPage(r, tier, rows) ==
  LET first == page[r].tier = "none"
      got == IF first THEN Newest(rows, PageSize) ELSE NextPage(rows, Last(page[r].seen))
      whole == first \/ Last(page[r].seen) \in rows
  IN /\ page[r].tier \in {"none", tier}
     /\ first \/ page[r].seen # <<>>
     /\ page' = [page EXCEPT ![r] =
          [tier |-> tier, seen |-> page[r].seen \o Descending(got),
           base |-> IF first THEN rows ELSE page[r].base \intersect rows,
           whole |-> page[r].whole /\ whole]]

list_messages(r) ==
  /\ "list_messages" \in cmix
  /\ \E p \in Person : has_view_permission(p, channel.public, TRUE)
  /\ ReadPage(r, "live", live)
  /\ UNCHANGED <<cmix, ccall, stamp, chanVars, histVars, replVars, eventVars, convVars>>

list_archive(r) ==
  /\ "list_archive" \in cmix
  /\ \E p \in Person : has_view_permission(p, channel.public, TRUE)
  /\ ReadPage(r, "archive", DOMAIN archive)
  /\ UNCHANGED <<cmix, ccall, stamp, chanVars, histVars, replVars, eventVars, convVars>>

-----------------------------------------------------------------------------
(* Copies on peers *)

\* A repeated insert changes nothing; a delete marks only a row of its signer.
store_event(rows, by, event) ==
  CASE event.k = "message" /\ event.m \notin DOMAIN rows ->
         [m \in DOMAIN rows \union {event.m} |->
            IF m = event.m THEN [by |-> by, deleted |-> FALSE] ELSE rows[m]]
    [] event.k = "deleted" /\ event.m \in DOMAIN rows /\ rows[event.m].by = by ->
         [rows EXCEPT ![event.m].deleted = TRUE]
    [] OTHER -> rows

\* Requests arrive in any order, once, or never.
replicate_chat_handler ==
  /\ \E q \in posts :
       /\ posts' = posts \ {q}
       /\ replica' = [replica EXCEPT ![q.to] = store_event(@, q.by, q.event)]
  /\ UNCHANGED <<cmix, ccall, stamp, chanVars, histVars, page, eligible, signerKey,
                 eventVars, convVars>>

PeersChange ==
  /\ "replicate" \in cmix
  /\ \E S \in SUBSET ReplicaPeer : eligible' = S
  /\ UNCHANGED <<cmix, ccall, stamp, chanVars, histVars, page, signerKey, posts,
                 replica, eventVars, convVars>>

SignerKeyRotates ==
  /\ "rotate" \in cmix
  /\ signerKey < MaxSignerKey
  /\ signerKey' = signerKey + 1
  /\ UNCHANGED <<cmix, ccall, stamp, chanVars, histVars, page, eligible, posts,
                 replica, eventVars, convVars>>

-----------------------------------------------------------------------------
(* Guild events and RSVPs *)

CreateEventBegin(c) ==
  /\ \E p \in Person : p \in Manager
  /\ \E e \in ChatEventId, public \in BOOLEAN :
       /\ e \notin DOMAIN events
       /\ \A d \in ChatCall : ccall[d].h = "create_event" => ccall[d].e # e
       /\ CBegin(c, [h |-> "create_event", at |-> "begun", e |-> e, public |-> public])
  /\ UNCHANGED <<cmix, stamp, chanVars, histVars, page, replVars, eventVars, convVars>>

create_event(c) ==
  /\ CCommit(c, "create_event")
  /\ events' = [e \in DOMAIN events \union {ccall[c].e} |->
                  IF e = ccall[c].e THEN ccall[c].public ELSE events[e]]
  /\ UNCHANGED <<cmix, stamp, chanVars, histVars, page, replVars, rsvps, listed, convVars>>

\* fetch_event and the permission check.
EditEventBegin(c) ==
  /\ \E p \in Person : p \in Manager
  /\ \E e \in DOMAIN events, public \in BOOLEAN, h \in {"update_event", "delete_event"} :
       CBegin(c, [h |-> h, at |-> "begun", e |-> e, public |-> public])
  /\ UNCHANGED <<cmix, stamp, chanVars, histVars, page, replVars, eventVars, convVars>>

\* The UPDATE of an event deleted meanwhile changes no row and still succeeds.
update_event(c) ==
  /\ CCommit(c, "update_event")
  /\ events' = [e \in DOMAIN events |->
                  IF e = ccall[c].e THEN ccall[c].public ELSE events[e]]
  /\ UNCHANGED <<cmix, stamp, chanVars, histVars, page, replVars, rsvps, listed, convVars>>

\* The RSVPs go with the event (ON DELETE CASCADE).
delete_event(c) ==
  /\ ccall[c].h = "delete_event" /\ ccall[c].e \in DOMAIN events
  /\ CCommit(c, "delete_event")
  /\ events' = [e \in DOMAIN events \ {ccall[c].e} |-> events[e]]
  /\ rsvps' = {r \in rsvps : r.e # ccall[c].e}
  /\ UNCHANGED <<cmix, stamp, chanVars, histVars, page, replVars, listed, convVars>>

UpsertRsvpBegin(c) ==
  /\ \E p \in Person, e \in DOMAIN events, status \in {"going", "not_going"} :
       /\ is_guild_member(p)
       /\ CBegin(c, [h |-> "upsert_rsvp", at |-> "begun", who |-> p, e |-> e,
                     status |-> status])
  /\ UNCHANGED <<cmix, stamp, chanVars, histVars, page, replVars, eventVars, convVars>>

\* One row for each event and identity; the foreign key refuses a deleted event.
upsert_rsvp(c) ==
  /\ ccall[c].h = "upsert_rsvp" /\ ccall[c].e \in DOMAIN events
  /\ CCommit(c, "upsert_rsvp")
  /\ rsvps' = {r \in rsvps : r.e # ccall[c].e \/ r.who # ccall[c].who}
                \union {[e |-> ccall[c].e, who |-> ccall[c].who, status |-> ccall[c].status]}
  /\ UNCHANGED <<cmix, stamp, chanVars, histVars, page, replVars, events, listed, convVars>>

\* The membership is read first, then the rows it lets through.
ListEventsBegin(c) ==
  /\ \E p \in Person, e \in DOMAIN events :
       /\ is_guild_member(p) \/ events[e]
       /\ CBegin(c, [h |-> "list_events", at |-> "begun", who |-> p, e |-> e,
                     public |-> events[e], member |-> is_guild_member(p)])
  /\ UNCHANGED <<cmix, stamp, chanVars, histVars, page, replVars, eventVars, convVars>>

\* Every fetched row is checked again, for its existence and for its details.
list_events(c) ==
  /\ CCommit(c, "list_events")
  /\ LET public == ccall[c].public
         served == [public |-> public, member |-> is_guild_member(ccall[c].who),
                    view |-> views,
                    details |-> has_view_permission(ccall[c].who, public, TRUE)]
     IN listed' = IF has_view_permission(ccall[c].who, public, FALSE)
                    THEN listed \union {served} ELSE listed
  /\ UNCHANGED <<cmix, stamp, chanVars, histVars, page, replVars, events, rsvps, convVars>>

-----------------------------------------------------------------------------
(* The direct conversation *)

\* The relationship gate, before the transaction.
CreateConversationBegin(c) ==
  /\ related
  /\ CBegin(c, [h |-> "create_conversation", at |-> "begun"])
  /\ UNCHANGED <<cmix, stamp, chanVars, histVars, page, replVars, eventVars, convVars>>

\* The unique participants_key: the second creator finds the first one's row.
create_conversation(c) ==
  /\ CCommit(c, "create_conversation")
  /\ conversation' = IF conversation = NoConversation THEN c ELSE conversation
  /\ opened' = opened \union {conversation'}
  /\ UNCHANGED <<cmix, stamp, chanVars, histVars, page, replVars, eventVars, blocked,
                 related, cmsgs, pushed>>

require_unblocked_participant == conversation # NoConversation /\ ~blocked

ConversationSendBegin(c) ==
  /\ require_unblocked_participant
  /\ stamp' = stamp + 1
  /\ \E entry \in EntryId \union {NoEntry} :
       CBegin(c, [h |-> "conversation_send", at |-> "begun", m |-> stamp + 1,
                  entry |-> entry])
  /\ UNCHANGED <<cmix, chanVars, histVars, page, replVars, eventVars, convVars>>

\* The partial unique index: an entry with a row is answered with that row.
ConversationInsert(c) ==
  /\ ccall[c].h = "conversation_send"
  /\ IF \E row \in cmsgs : row[2] # NoEntry /\ row[2] = ccall[c].entry
       THEN CStep(c, "conversation_send", "begun", CDone) /\ UNCHANGED cmsgs
       ELSE /\ CStep(c, "conversation_send", "begun", [ccall[c] EXCEPT !.at = "inserted"])
            /\ cmsgs' = cmsgs \union {<<ccall[c].m, ccall[c].entry>>}
  /\ UNCHANGED <<cmix, stamp, chanVars, histVars, page, replVars, eventVars,
                 conversation, opened, blocked, related, pushed>>

\* prune_conversation deletes what the cap cuts; the message is published.
prune_conversation(c) ==
  /\ CStep(c, "conversation_send", "inserted", CDone)
  /\ LET kept == Newest({row[1] : row \in cmsgs}, MessageCap)
     IN cmsgs' = {row \in cmsgs : row[1] \in kept}
  /\ pushed' = pushed \union {<<ccall[c].m, ccall[c].entry>>}
  /\ UNCHANGED <<cmix, stamp, chanVars, histVars, page, replVars, eventVars,
                 conversation, opened, blocked, related>>

\* A block is created or lifted; a friendship or a shared guild comes or goes.
RelationsChange ==
  /\ {"create_conversation", "conversation_send"} \intersect cmix # {}
  /\ \/ blocked' = ~blocked /\ UNCHANGED related
     \/ related' = ~related /\ UNCHANGED blocked
  /\ UNCHANGED <<cmix, ccall, stamp, chanVars, histVars, page, replVars, eventVars,
                 conversation, opened, cmsgs, pushed>>

-----------------------------------------------------------------------------
ChatInit ==
  /\ cmix \in ChatMixes
  /\ ccall = [c \in ChatCall |-> CIdle]
  /\ stamp = MessageCap
  /\ channel = [archived |-> FALSE, announce |-> FALSE, public |-> FALSE, topic |-> 0]
  /\ members = Person
  /\ views = [view |-> "none", details |-> "none"]
  /\ live = 1..MessageCap
  /\ archive = <<>> /\ inserted = live /\ taken = {}
  /\ page = [r \in PageReader |-> NoPage]
  /\ eligible = IF "delete_message" \in cmix THEN ReplicaPeer ELSE {}
  /\ signerKey = 0
  /\ posts = {}
  /\ replica = [p \in ReplicaPeer |->
                  [m \in IF p \in replication_target THEN live ELSE {} |->
                     [by |-> signerKey, deleted |-> FALSE]]]
  /\ events = <<>> /\ rsvps = {} /\ listed = {}
  /\ conversation = IF "create_conversation" \in cmix THEN NoConversation ELSE "first"
  /\ opened = IF "create_conversation" \in cmix THEN {} ELSE {"first"}
  /\ blocked = FALSE /\ related = TRUE
  /\ cmsgs = {} /\ pushed = {}

HandlerStep(c) ==
  \/ UpdateChannelBegin(c) \/ update_channel(c)
  \/ ArchiveChannelBegin(c) \/ archive_channel(c)
  \/ SendMessageBegin(c) \/ InsertMessage(c) \/ PruneSelect(c) \/ PruneMove(c)
  \/ prune_channel(c) \/ HandlerDropped(c)
  \/ DeleteMessageBegin(c) \/ DeleteLive(c) \/ NothingLive(c) \/ delete_message(c)
  \/ CreateEventBegin(c) \/ create_event(c) \/ EditEventBegin(c)
  \/ update_event(c) \/ delete_event(c)
  \/ UpsertRsvpBegin(c) \/ upsert_rsvp(c)
  \/ ListEventsBegin(c) \/ list_events(c)
  \/ CreateConversationBegin(c) \/ create_conversation(c)
  \/ ConversationSendBegin(c) \/ ConversationInsert(c) \/ prune_conversation(c)

ChatNext ==
  \/ \E c \in ChatCall : HandlerStep(c)
  \/ \E r \in PageReader : list_messages(r) \/ list_archive(r)
  \/ expire_archive \/ replicate_chat_handler
  \/ MembershipChanges \/ ViewOverrideChanges
  \/ PeersChange \/ SignerKeyRotates \/ RelationsChange

ChatSpec == ChatInit /\ [][ChatNext]_chatVars

-----------------------------------------------------------------------------
(* Properties *)

\* A client that pages with list_messages or list_archive reads each message at
\* most once, newest first, and as long as its cursor's row was there it has
\* read every row that stayed in the table since the first page.
PagesMissNothing ==
  \A r \in PageReader :
    LET seen == page[r].seen
        rows == IF page[r].tier = "archive" THEN DOMAIN archive ELSE live
    IN /\ \A i, j \in 1..Len(seen) : i < j => seen[i] > seen[j]
       /\ page[r].whole /\ seen # <<>> =>
            \A m \in page[r].base \intersect rows : m >= Last(seen) => m \in ToSet(seen)

=============================================================================
