---------------------------- MODULE RemoteLookup ----------------------------
(***************************************************************************)
(* Looking up an identity that is not stored here (server/src/             *)
(* cross_node_login.rs, cross_shard_fetch.rs, identity_locator.rs): the    *)
(* locator names nodes that hold the identity's history, and each is asked *)
(* for a signed tree head, for the entries of one subject and for an       *)
(* inclusion proof of every entry, while the core ledger grows, its        *)
(* mirrors follow and requests fail.                                       *)
(*                                                                         *)
(* History is what the core shard settles about the identity, in order; an *)
(* entry is visible before a head covers it.  CoreShard serves the ledger *)
(* itself, mirrors serve prefixes of it, and a node of Unfaithful answers  *)
(* with entries of its own making, which only the checks of                *)
(* verify_one_entry keep out.  A hash is the entry it is the hash of.      *)
(***************************************************************************)
EXTENDS Naturals, FiniteSets, Sequences, SequencesExt

CONSTANTS History,      \* the identity's entries: <<kind, key>>
          CoreShard, MirrorLocation, Unfaithful,   \* the locations
          Wanted,       \* keys a login may name
          Forged,       \* entries an unfaithful node may offer
          MAX_ENTRIES,
          MaxFaults,    \* bound on failing requests
          MaxPrunes,
          Stubs,        \* calls that provision a local row
          LookupAims          \* what a behaviour is about: "keys", "stubs"

ASSUME RemoteLookupAssumption ==
  /\ CoreShard \notin MirrorLocation \cup Unfaithful /\ MirrorLocation \cap Unfaithful = {}
  /\ \A f \in Forged : f \notin ToSet(History)

Location == {CoreShard} \cup MirrorLocation \cup Unfaithful
NoKey == "none"

VARIABLES lookupAim,
          held,       \* [location -> entries it holds]
          head,       \* [location -> tree size of its latest signed head]
          pruned,     \* [location -> positions whose payload is dropped]
          advertised, \* locations with a standing locator registration
          lookup,     \* resolve_signing_key_cross_shard
          faults,
          stub,       \* [Stubs -> "start" | "absent" | "fetched" | "done"]
          stubRows        \* the local tables: identity row, profile row, name

lookupVars == <<lookupAim, held, head, pruned, advertised, lookup, faults, stub, stubRows>>

Positions(kind, n) == {i \in 1..held[n] : History[i][1] = kind}

----------------------------------------------------------------------------
\* The nodes that hold the history.

\* The core shard settles the next entry, then signs a head over what it
\* holds; a mirror copies entries and then the head that covers them.
Append1(n) ==
  /\ n = CoreShard \/ n \in MirrorLocation
  /\ held[n] < IF n = CoreShard THEN Len(History) ELSE held[CoreShard]
  /\ held' = [held EXCEPT ![n] = @ + 1]
  /\ UNCHANGED <<lookupAim, head, pruned, advertised, lookup, faults, stub, stubRows>>

SignHead(n) ==
  /\ n = CoreShard \/ n \in MirrorLocation
  /\ \E size \in head[n] + 1 .. held[n] :
       /\ n # CoreShard => size <= head[CoreShard]
       /\ head' = [head EXCEPT ![n] = size]
  /\ UNCHANGED <<lookupAim, held, pruned, advertised, lookup, faults, stub, stubRows>>

PrunePayload(n, i) ==
  /\ i \in 1..held[n] \ pruned[n]
  /\ Cardinality(UNION {pruned[m] : m \in Location}) < MaxPrunes
  /\ pruned' = [pruned EXCEPT ![n] = @ \cup {i}]
  /\ UNCHANGED <<lookupAim, held, head, advertised, lookup, faults, stub, stubRows>>

\* The locator's scan registers every identity it holds a key of, once, and
\* never takes the registration back.
register_new(n) ==
  /\ n \notin advertised
  /\ n \in Unfaithful \/ Positions("added", n) # {}
  /\ advertised' = advertised \cup {n}
  /\ UNCHANGED <<lookupAim, held, head, pruned, lookup, faults, stub, stubRows>>

----------------------------------------------------------------------------
\* One fetch.

\* The head a node serves: one the core shard signed, or none that verifies.
fetch_verified_sth(n) ==
  IF n \in Unfaithful THEN {head[CoreShard], 0} ELSE {head[n]}

\* What a node lists for a subject, as <<position it claims, content>>;
\* entries without a payload are skipped by the caller.
Listed(kind, n) ==
  IF n \in Unfaithful
  THEN {<<i, f>> : i \in 1..held[CoreShard], f \in {g \in Forged : g[1] = kind}}
  ELSE {<<i, History[i]>> : i \in {j \in Positions(kind, n) \ pruned[n] :
          Cardinality({h \in Positions(kind, n) : h < j}) < MAX_ENTRIES}}

\* An entry is taken when a leaf at its position is proven under the trusted
\* head and the entry's own content hashes to that leaf.
verify_one_entry(size, entry) ==
  /\ entry[1] <= size
  /\ entry[2] = History[entry[1]]

\* A fetch fails as a whole when one of its entries does not verify: an
\* entry newer than the head has no proof under it.
fetch_verified_entries(size, kind, n) ==
  IF size > 0 /\ \A e \in Listed(kind, n) : verify_one_entry(size, e)
  THEN [ok |-> TRUE, found |-> {e[2] : e \in Listed(kind, n)}]
  ELSE [ok |-> FALSE, found |-> {}]

----------------------------------------------------------------------------
\* resolve_signing_key_cross_shard: location by location, the additions and
\* then the revocations of the identity's keys.

LookupIdle == [at |-> "idle", key |-> NoKey, todo |-> <<>>, size |-> 0,
         found |-> {}, result |-> NoKey, shown |-> FALSE, failed |-> FALSE,
         settled |-> {}]

\* "settled" remembers the locations whose latest head covered the key's
\* revocation when the lookup began.
resolve_signing_key(key) ==
  /\ lookupAim = "keys" /\ lookup.at = "idle"
  /\ \E todo \in SetToSeqs(advertised) :
       lookup' = [LookupIdle EXCEPT !.at = "sth", !.key = key, !.todo = todo,
                    !.settled = {n \in Location \ Unfaithful :
                                   \E i \in 1..head[n] \ pruned[n] :
                                      History[i] = <<"revoked", key>>}]
  /\ UNCHANGED <<lookupAim, held, head, pruned, advertised, faults, stub, stubRows>>

Here == Head(lookup.todo)
NextLocation == [lookup EXCEPT !.at = "sth", !.todo = Tail(@), !.size = 0, !.found = {}]

\* The head of the fetch that is under way.
FetchLocationHead ==
  /\ lookup.at \in {"sth", "sthRevoked"} /\ lookup.todo # <<>>
  /\ \E size \in fetch_verified_sth(Here) :
       lookup' = [lookup EXCEPT !.at = IF @ = "sth" THEN "added" ELSE "revoked",
                                !.size = size]
  /\ UNCHANGED <<lookupAim, held, head, pruned, advertised, faults, stub, stubRows>>

\* Its additions: a failed fetch, or one without the key, moves on.
FetchAdded ==
  /\ lookup.at = "added"
  /\ LET f == fetch_verified_entries(lookup.size, "added", Here)
     IN lookup' = IF f.ok /\ <<"added", lookup.key>> \in f.found
                  THEN [lookup EXCEPT !.at = "sthRevoked"]
                  ELSE NextLocation
  /\ UNCHANGED <<lookupAim, held, head, pruned, advertised, faults, stub, stubRows>>


Answer(found, ok) ==
  IF <<"revoked", lookup.key>> \in found
  THEN [lookup EXCEPT !.at = "done", !.shown = TRUE]
  ELSE [lookup EXCEPT !.at = "done", !.result = lookup.key, !.failed = ~ok]

FetchRevoked ==
  /\ lookup.at = "revoked"
  /\ LET f == fetch_verified_entries(lookup.size, "revoked", Here)
     IN lookup' = Answer(f.found, f.ok)
  /\ UNCHANGED <<lookupAim, held, head, pruned, advertised, faults, stub, stubRows>>

\* A request that is refused, times out or does not parse.
FailRequest ==
  /\ faults < MaxFaults /\ faults' = faults + 1
  /\ \/ /\ lookup.at \in {"sth", "added"} /\ lookup.todo # <<>>
        /\ lookup' = NextLocation
     \/ /\ lookup.at \in {"sthRevoked", "revoked"}
        /\ lookup' = Answer({}, FALSE)
  /\ UNCHANGED <<lookupAim, held, head, pruned, advertised, stub, stubRows>>

\* Every location was tried.
NoneLeft ==
  /\ lookup.at = "sth" /\ lookup.todo = <<>>
  /\ lookup' = [lookup EXCEPT !.at = "done"]
  /\ UNCHANGED <<lookupAim, held, head, pruned, advertised, faults, stub, stubRows>>

----------------------------------------------------------------------------
\* provision_local_identity_stub.

NoRows == [identity |-> FALSE, profile |-> FALSE, name |-> "free"]

\* Another local user may take the display name at any time.
TakeName ==
  /\ lookupAim = "stubs" /\ stubRows.name = "free"
  /\ stubRows' = [stubRows EXCEPT !.name = "other"]
  /\ UNCHANGED <<lookupAim, held, head, pruned, advertised, lookup, faults, stub>>

CheckLocal(c) ==
  /\ lookupAim = "stubs" /\ stub[c] = "start"
  /\ stub' = [stub EXCEPT ![c] = IF stubRows.identity THEN "done" ELSE "absent"]
  /\ UNCHANGED <<lookupAim, held, head, pruned, advertised, lookup, faults, stubRows>>

\* Some location shows a valid creation, or none does.
valid_creation(c) ==
  /\ stub[c] = "absent"
  /\ \E n \in advertised, size \in 0..Len(History) :
       /\ size \in fetch_verified_sth(n)
       /\ stub' = [stub EXCEPT ![c] =
            IF \E e \in fetch_verified_entries(size, "created", n).found : TRUE
            THEN "fetched" ELSE "done"]
  /\ UNCHANGED <<lookupAim, held, head, pruned, advertised, lookup, faults, stubRows>>

\* Both rows in one transaction: a taken name leaves neither.
InsertStub(c) ==
  /\ stub[c] = "fetched"
  /\ stubRows' = IF stubRows.name = "other" /\ ~stubRows.profile THEN stubRows
             ELSE [identity |-> TRUE, profile |-> TRUE, name |-> "mine"]
  /\ stub' = [stub EXCEPT ![c] = "done"]
  /\ UNCHANGED <<lookupAim, held, head, pruned, advertised, lookup, faults>>

----------------------------------------------------------------------------
LookupInit ==
  /\ lookupAim \in LookupAims
  /\ held = [n \in Location |-> 0] /\ head = [n \in Location |-> 0]
  /\ pruned = [n \in Location |-> {}]
  /\ advertised = {} /\ lookup = LookupIdle /\ faults = 0
  /\ stub = [c \in Stubs |-> "start"] /\ stubRows = NoRows

LookupNext ==
  \/ \E n \in Location :
       \/ Append1(n) \/ SignHead(n) \/ register_new(n)
       \/ \E i \in 1..Len(History) : PrunePayload(n, i)
  \/ \E key \in Wanted : resolve_signing_key(key)
  \/ FetchLocationHead \/ FetchAdded \/ FetchRevoked \/ FailRequest \/ NoneLeft
  \/ TakeName
  \/ \E c \in Stubs : CheckLocal(c) \/ valid_creation(c) \/ InsertStub(c)

LookupSpec == LookupInit /\ [][LookupNext]_lookupVars

----------------------------------------------------------------------------


============================================================================
