----------------------------- MODULE PeersProofs -----------------------------
(* Proofs about the tables a node keeps of other nodes, for any number of     *)
(* peers, shards, sources, watchers and concurrent announces.                 *)
EXTENDS Admission, Peers, TLAPS

-----------------------------------------------------------------------------
(* The peer table.  A table is good for what was reported when each bound     *)
(* entry names an id reported for its URL; the pool is good for no report at  *)
(* all.  What waits between two steps of an announce or of the worker is good *)
(* already.                                                                   *)

GoodEntry(u, e, rep) == e \in PeerEntry /\ (e.bound => e.id \in rep[u])

GoodTable(t, rep) ==
    /\ DOMAIN t \subseteq Url
    /\ t = [u \in DOMAIN t |-> t[u]]
    /\ \A u \in DOMAIN t : GoodEntry(u, t[u], rep)

NoReports == [u \in Url |-> {}]

Grown(rep, more) == \A u \in Url : rep[u] \subseteq more[u]

GoodAnnounce(a, rep) ==
    /\ a \in [at : {"begin", "known", "new", "asking", "proven", "reached", "end"},
              info : PeerEntry, url : Url, authenticated : {a.authenticated}]
    /\ a.at \in {"known", "new"} /\ a.url \in P2p => a.info.id = a.url
    /\ a.at = "proven" => a.info.id \in rep[a.url]
    /\ a.at = "reached" => GoodEntry(a.url, a.info, rep)

GoodWorker(w, rep) ==
    \/ /\ w.at \in {"round", "contact", "gossip", "prune"}
       /\ w = [at |-> w.at, left |-> w.left]
    \/ /\ w.at = "answered"
       /\ w = [at |-> "answered", left |-> w.left, peer |-> w.peer, id |-> w.id, info |-> w.info]
       /\ w.peer \in Url /\ w.id \in AnyId /\ w.id \in rep[w.peer]
       /\ \A i \in w.info : GoodEntry(w.peer, i, rep)
    \/ /\ w.at \in {"refresh", "pool"}
       /\ w = [at |-> w.at, left |-> w.left, peer |-> w.peer, info |-> w.info]
       /\ w.peer \in Url
       /\ \A i \in w.info : GoodEntry(w.peer, i, NoReports)

PeersInv ==
    /\ GoodTable(peers, reported) /\ GoodTable(unverified, NoReports)
    /\ serves \in [Url -> AnyId] /\ \A u \in P2p : serves[u] = u
    /\ reported \in [Url -> SUBSET AnyId]
    /\ announces = [c \in AnnounceCall |-> announces[c]]
    /\ \A c \in AnnounceCall : GoodAnnounce(announces[c], reported)
    /\ GoodWorker(worker, reported)

\* Writing single fields keeps an entry good.
LEMMA EntryBound ==
    ASSUME NEW rep, NEW u, NEW e \in PeerEntry, e.id \in rep[u]
    PROVE  /\ GoodEntry(u, [e EXCEPT !.bound = TRUE], rep)
           /\ GoodEntry(u, [e EXCEPT !.bound = TRUE, !.advert = "none"], rep)
<1>1. PICK t \in BOOLEAN : t = TRUE
  BY Zenon
<1>2. PICK w \in {"none", "relayed", "direct"} : w = "none"
  BY Zenon
<1>4. e.id \in AnyId
  BY DEF PeerEntry
<1>5. /\ [e EXCEPT !.bound = t] \in PeerEntry
      /\ [e EXCEPT !.bound = t].id = e.id
      /\ [e EXCEPT !.bound = t, !.advert = w] \in PeerEntry
      /\ [e EXCEPT !.bound = t, !.advert = w].id = e.id
  BY <1>4 DEF PeerEntry
<1> QED
  BY <1>1, <1>2, <1>5, Zenon DEF GoodEntry

LEMMA EntryKept ==
    ASSUME NEW rep, NEW u, NEW e, GoodEntry(u, e, rep),
           NEW w \in {"none", "relayed", "direct"}, NEW n \in Nat
    PROVE  /\ GoodEntry(u, [e EXCEPT !.advert = w], rep)
           /\ GoodEntry(u, [e EXCEPT !.age = n], rep)
<1>1. e \in PeerEntry /\ e.id \in AnyId /\ e.bound \in BOOLEAN
  BY DEF GoodEntry, PeerEntry
<1>2. /\ [e EXCEPT !.advert = w] \in PeerEntry
      /\ [e EXCEPT !.advert = w].id = e.id
      /\ [e EXCEPT !.advert = w].bound = e.bound
      /\ [e EXCEPT !.age = n] \in PeerEntry
      /\ [e EXCEPT !.age = n].id = e.id
      /\ [e EXCEPT !.age = n].bound = e.bound
  BY <1>1 DEF PeerEntry
<1> QED
  BY <1>1, <1>2, Zenon DEF GoodEntry

LEMMA CarryWitness ==
    ASSUME NEW rep, NEW t, NEW u, NEW e, GoodTable(t, rep), GoodEntry(u, e, rep)
    PROVE  GoodEntry(u, carry_witness(t, u, e), rep)
<1>1. u \in DOMAIN t => t[u].advert \in {"none", "relayed", "direct"}
  BY DEF GoodTable, GoodEntry, PeerEntry
<1>2. ASSUME u \in DOMAIN t PROVE GoodEntry(u, [e EXCEPT !.advert = t[u].advert], rep)
  BY <1>1, <1>2, EntryKept
<1> QED
  BY <1>2, Zenon DEF carry_witness

LEMMA CarryIdentity ==
    ASSUME NEW rep, NEW t, NEW u, NEW e, GoodTable(t, rep), GoodEntry(u, e, rep)
    PROVE  GoodEntry(u, carry_identity(t, u, e), rep)
<1>1. ASSUME u \in DOMAIN t, t[u].bound
      PROVE  GoodEntry(u, [e EXCEPT !.id = t[u].id, !.bound = TRUE], rep)
  <2>1. t[u] \in PeerEntry /\ t[u].id \in rep[u] /\ e \in PeerEntry
    BY <1>1, Zenon DEF GoodTable, GoodEntry
  <2>2. t[u].id \in AnyId
    BY <2>1 DEF PeerEntry
  <2>3. PICK b \in BOOLEAN : b = TRUE
    BY Zenon
  <2>5. /\ [e EXCEPT !.id = t[u].id, !.bound = b] \in PeerEntry
        /\ [e EXCEPT !.id = t[u].id, !.bound = b].id = t[u].id
    BY <2>1, <2>2 DEF PeerEntry
  <2> QED
    BY <2>1, <2>3, <2>5, Zenon DEF GoodEntry
<1> QED
  BY <1>1, Zenon DEF carry_identity

LEMMA InsertGood ==
    ASSUME NEW rep, NEW t, NEW u \in Url, NEW e, GoodTable(t, rep), GoodEntry(u, e, rep)
    PROVE  GoodTable(Insert(t, u, e), rep)
<1> DEFINE s == Insert(t, u, e)
<1>1. s = [v \in DOMAIN t \cup {u} |-> IF v = u THEN e ELSE t[v]]
  BY DEF Insert
<1>2. DOMAIN s = DOMAIN t \cup {u} /\ s = [v \in DOMAIN s |-> s[v]]
  BY <1>1
<1>3. \A v \in DOMAIN s : GoodEntry(v, s[v], rep)
  BY <1>1, <1>2 DEF GoodTable
<1> QED
  BY <1>2, <1>3, Zenon DEF GoodTable

LEMMA KeepGood ==
    ASSUME NEW rep, NEW t, NEW S, GoodTable(t, rep)
    PROVE  GoodTable(Keep(t, S), rep)
<1> DEFINE s == Keep(t, S)
<1>1. s = [v \in DOMAIN t \cap S |-> t[v]]
  BY DEF Keep
<1>2. DOMAIN s = DOMAIN t \cap S /\ s = [v \in DOMAIN s |-> s[v]]
  BY <1>1
<1>3. \A v \in DOMAIN s : GoodEntry(v, s[v], rep)
  BY <1>1, <1>2 DEF GoodTable
<1> QED
  BY <1>2, <1>3, Zenon DEF GoodTable

LEMMA RoomGood ==
    ASSUME NEW rep, NEW t, NEW full, NEW kept, NEW p, GoodTable(t, rep),
           NEW s \in Room(t, full, kept, p)
    PROVE  GoodTable(s, rep)
<1>1. \A v : GoodTable(Without(t, v), rep)
  BY KeepGood, Zenon DEF Without
<1>2. s = t \/ \E v : s = Without(t, v)
  BY DEF Room
<1> QED
  BY <1>1, <1>2, Zenon

LEMMA InsertBoundedGood ==
    ASSUME NEW rep, NEW t, NEW u \in Url, NEW e, GoodTable(t, rep), GoodEntry(u, e, rep),
           NEW s \in insert_bounded(t, u, e)
    PROVE  GoodTable(s, rep)
<1> DEFINE entry == carry_identity(t, u, carry_witness(t, u, e))
<1>1. GoodEntry(u, entry, rep)
  BY CarryWitness, CarryIdentity, Zenon
<1> DEFINE new == u \notin DOMAIN t
           kept == active \cup Bootstrap
           crowded == new /\ u \in P2p /\ Cardinality(DOMAIN t \cap P2p) >= MAX_P2P_ENTRIES
           first == Room(t, crowded, kept, TRUE)
           second(r) == Room(r, new /\ Cardinality(DOMAIN r) >= max_known_peers, kept, u \in P2p)
<1>2. s \in {Insert(q, u, entry) : q \in UNION {second(r) : r \in first}}
  BY Zenon DEF insert_bounded
<1>3. \A r \in first : GoodTable(r, rep)
  BY RoomGood, Zenon
<1>4. \A r \in first : \A q \in second(r) : GoodTable(q, rep)
  BY <1>3, RoomGood, Zenon
<1> HIDE DEF entry, first, second
<1>5. PICK r \in first : \E q \in second(r) : s = Insert(q, u, entry)
  BY <1>2
<1> QED
  BY <1>1, <1>4, <1>5, InsertGood, Zenon

LEMMA InsertUnverifiedGood ==
    ASSUME NEW rep, NEW t, NEW u \in Url, NEW e, GoodTable(t, rep), GoodEntry(u, e, rep),
           NEW s \in insert_unverified(t, u, e)
    PROVE  GoodTable(s, rep)
<1> DEFINE entry == carry_witness(t, u, e)
<1>1. GoodEntry(u, entry, rep)
  BY CarryWitness, Zenon
<1>2. s = t \/ \E f, k, p : \E r \in Room(t, f, k, p) : s = Insert(r, u, entry)
  BY Zenon DEF insert_unverified
<1>3. CASE s = t
  BY <1>3
<1>4. ASSUME NEW f, NEW k, NEW p, NEW r \in Room(t, f, k, p), s = Insert(r, u, entry)
      PROVE  GoodTable(s, rep)
  <2>1. GoodTable(r, rep)
    BY <1>4, RoomGood, Zenon
  <2> QED
    BY <1>1, <1>4, <2>1, InsertGood, Zenon
<1> QED
  BY <1>2, <1>3, <1>4, Zenon

LEMMA UpsertGood ==
    ASSUME NEW rep, NEW t, NEW u \in Url, NEW e, GoodTable(t, rep), GoodEntry(u, e, rep)
    PROVE  GoodTable(upsert(t, u, e), rep) /\ GoodTable(upsert_relayed(t, u, e), rep)
<1>1. ASSUME NEW f, GoodEntry(u, f, rep) PROVE GoodTable(upsert(t, u, f), rep)
  BY <1>1, CarryWitness, CarryIdentity, InsertGood, Zenon DEF upsert
<1>2. u \in DOMAIN t => t[u].age \in Nat
  BY DEF GoodTable, GoodEntry, PeerEntry
<1>3. PICK w \in {"none", "relayed", "direct"} : w = "none"
  BY Zenon
<1>4. GoodEntry(u, KeepTime(t, u, e), rep)
  BY <1>2, <1>3, EntryKept, Zenon DEF KeepTime
<1> QED
  BY <1>1, <1>4, Zenon DEF upsert_relayed

LEMMA AttachGood ==
    ASSUME NEW rep, NEW t, NEW u, NEW w \in {"none", "relayed", "direct"}, GoodTable(t, rep)
    PROVE  GoodTable(Attach(t, u, w), rep)
<1>1. ASSUME u \in DOMAIN t PROVE GoodTable([t EXCEPT ![u].advert = w], rep)
  <2> DEFINE e == [t[u] EXCEPT !.advert = w]
             s == [t EXCEPT ![u] = e]
  <2>1. GoodEntry(u, t[u], rep)
    BY <1>1 DEF GoodTable
  <2>2. PICK n \in Nat : n = 0
    OBVIOUS
  <2>3. GoodEntry(u, e, rep)
    BY <2>1, <2>2, EntryKept, Zenon
  <2> HIDE DEF e
  <2>4. /\ DOMAIN s = DOMAIN t /\ s = [v \in DOMAIN s |-> s[v]]
        /\ \A v \in DOMAIN s : s[v] = IF v = u THEN e ELSE t[v]
    BY <1>1 DEF GoodTable
  <2>5. GoodTable(s, rep)
    BY <2>3, <2>4, Zenon DEF GoodTable
  <2> QED
    BY <2>5 DEF e
<1> QED
  BY <1>1, Zenon DEF Attach

LEMMA AgedGood ==
    ASSUME NEW rep, NEW t, GoodTable(t, rep)
    PROVE  GoodTable(Aged(t), rep)
<1> DEFINE s == Aged(t)
<1>1. DOMAIN s \subseteq DOMAIN t /\ s = [v \in DOMAIN s |-> [t[v] EXCEPT !.age = t[v].age + 1]]
  BY DEF Aged
<1>2. ASSUME NEW v \in DOMAIN s PROVE GoodEntry(v, s[v], rep)
  <2>1. v \in DOMAIN t /\ s[v] = [t[v] EXCEPT !.age = t[v].age + 1]
    BY <1>1
  <2>2. GoodEntry(v, t[v], rep) /\ t[v].age + 1 \in Nat
    BY <2>1 DEF GoodTable, GoodEntry, PeerEntry
  <2>3. PICK w \in {"none", "relayed", "direct"} : w = "none"
    BY Zenon
  <2>4. PICK n \in Nat : n = t[v].age + 1
    BY <2>2
  <2>5. GoodEntry(v, [t[v] EXCEPT !.age = n], rep)
    BY <2>2, <2>3, EntryKept, Zenon
  <2> QED
    BY <2>1, <2>4, <2>5
<1> HIDE DEF s
<1>3. s = [v \in DOMAIN s |-> s[v]]
  BY <1>1
<1>4. DOMAIN s \subseteq Url
  BY <1>1 DEF GoodTable
<1>5. GoodTable(s, rep)
  BY <1>2, <1>3, <1>4, Zenon DEF GoodTable
<1> QED
  BY <1>5 DEF s

\* An id once reported stays so, and what was good with fewer reports is good
\* with more.
LEMMA GrownGood ==
    ASSUME NEW rep, NEW more, Grown(rep, more)
    PROVE  /\ \A u \in Url : \A e : GoodEntry(u, e, rep) => GoodEntry(u, e, more)
           /\ \A t : GoodTable(t, rep) => GoodTable(t, more)
           /\ \A a : GoodAnnounce(a, rep) => GoodAnnounce(a, more)
           /\ \A w : GoodWorker(w, rep) => GoodWorker(w, more)
<1>1. ASSUME NEW u \in Url, NEW e, GoodEntry(u, e, rep) PROVE GoodEntry(u, e, more)
  <2>1. \A i \in rep[u] : i \in more[u]
    BY Zenon DEF Grown
  <2> QED
    BY <1>1, <2>1, Zenon DEF GoodEntry
<1>2. ASSUME NEW t, GoodTable(t, rep) PROVE GoodTable(t, more)
  <2>1. \A u \in DOMAIN t : u \in Url /\ GoodEntry(u, t[u], more)
    BY <1>1, <1>2, Zenon DEF GoodTable
  <2> QED
    BY <1>2, <2>1, Zenon DEF GoodTable
<1>3. ASSUME NEW a, GoodAnnounce(a, rep) PROVE GoodAnnounce(a, more)
  <2>1. a.url \in Url
    BY <1>3 DEF GoodAnnounce
  <2>2. rep[a.url] \subseteq more[a.url]
    BY <2>1 DEF Grown
  <2> QED
    BY <1>1, <1>3, <2>1, <2>2, Zenon DEF GoodAnnounce
<1>4. ASSUME NEW w, GoodWorker(w, rep) PROVE GoodWorker(w, more)
  <2>1. w.peer \in Url => rep[w.peer] \subseteq more[w.peer]
    BY DEF Grown
  <2>2. w.peer \in Url => \A i : GoodEntry(w.peer, i, rep) => GoodEntry(w.peer, i, more)
    BY <1>1, Zenon
  <2> QED
    BY <1>4, <2>1, <2>2, Zenon DEF GoodWorker
<1> QED
  BY <1>1, <1>2, <1>3, <1>4, Zenon

LEMMA ReportsGrow ==
    ASSUME PeersInv, NEW u \in Url, NEW id \in AnyId,
           reported' = [reported EXCEPT ![u] = @ \cup {id}]
    PROVE  /\ reported' \in [Url -> SUBSET AnyId]
           /\ Grown(reported, reported')
           /\ id \in reported'[u]
<1>1. reported \in [Url -> SUBSET AnyId]
  BY DEF PeersInv
<1> QED
  BY <1>1 DEF Grown

LEMMA AnnounceMoved ==
    ASSUME PeersInv, NEW c \in AnnounceCall, NEW b, Grown(reported, reported'),
           announces' = [announces EXCEPT ![c] = b], GoodAnnounce(b, reported')
    PROVE  /\ announces' = [d \in AnnounceCall |-> announces'[d]]
           /\ \A d \in AnnounceCall : GoodAnnounce(announces'[d], reported')
<1>1. announces = [d \in AnnounceCall |-> announces[d]]
  BY DEF PeersInv
<1>2. /\ announces' = [d \in AnnounceCall |-> announces'[d]]
      /\ \A d \in AnnounceCall : announces'[d] = IF d = c THEN b ELSE announces[d]
  BY <1>1
<1>3. \A d \in AnnounceCall : GoodAnnounce(announces[d], reported')
  BY GrownGood, Zenon DEF PeersInv
<1> QED
  BY <1>2, <1>3, Zenon

\* The next place of an announce needs no new proof, but where an id is held
\* as proven.
LEMMA AnnounceTo ==
    ASSUME NEW rep, NEW a, GoodAnnounce(a, rep),
           NEW at \in {"begin", "known", "new", "asking", "proven", "end"},
           at \in {"known", "new"} /\ a.url \in P2p => a.info.id = a.url,
           at = "proven" => a.info.id \in rep[a.url]
    PROVE  GoodAnnounce([a EXCEPT !.at = at], rep)
<1> DEFINE b == [a EXCEPT !.at = at]
<1>1. a \in [at : {"begin", "known", "new", "asking", "proven", "reached", "end"},
             info : PeerEntry, url : Url, authenticated : {a.authenticated}]
  BY DEF GoodAnnounce
<1>2. /\ b.at = at /\ b.info = a.info /\ b.url = a.url /\ b.authenticated = a.authenticated
      /\ b \in [at : {"begin", "known", "new", "asking", "proven", "reached", "end"},
                info : PeerEntry, url : Url, authenticated : {b.authenticated}]
  BY <1>1
<1>3. at # "reached"
  OBVIOUS
<1> HIDE DEF b
<1>4. GoodAnnounce(b, rep)
  BY <1>2, <1>3, Zenon DEF GoodAnnounce
<1> QED
  BY <1>4 DEF b

LEMMA AttachStep ==
    ASSUME NEW rep, NEW t, GoodTable(t, rep), GoodTable(unverified, NoReports),
           NEW u, NEW w \in {"none", "relayed", "direct"}, attach_witness(t, u, w)
    PROVE  GoodTable(peers', rep) /\ GoodTable(unverified', NoReports)
<1>1. peers' = Attach(t, u, w)
  BY DEF attach_witness
<1>2. unverified' = unverified \/ unverified' = Attach(unverified, u, w)
  BY Zenon DEF attach_witness
<1> QED
  BY <1>1, <1>2, AttachGood, Zenon

LEMMA SameReports == ASSUME reported' = reported PROVE Grown(reported, reported')
  BY DEF Grown

LEMMA AnnounceFields ==
    ASSUME PeersInv, NEW c \in AnnounceCall
    PROVE  /\ GoodAnnounce(announces[c], reported)
           /\ announces[c].url \in Url /\ announces[c].info \in PeerEntry
           /\ announces[c].info.advert \in {"none", "relayed", "direct"}
           /\ announces[c].info.id \in AnyId
<1>1. GoodAnnounce(announces[c], reported)
  BY DEF PeersInv
<1>2. announces[c].url \in Url /\ announces[c].info \in PeerEntry
  BY <1>1 DEF GoodAnnounce
<1> QED
  BY <1>1, <1>2 DEF PeerEntry

\* A step of one announce leaves the servers and the worker alone.
LEMMA AnnounceStep ==
    ASSUME PeersInv, NEW c \in AnnounceCall, NEW b, UNCHANGED <<serves, worker>>,
           reported' \in [Url -> SUBSET AnyId], Grown(reported, reported'),
           announces' = [announces EXCEPT ![c] = b], GoodAnnounce(b, reported'),
           GoodTable(peers', reported'), GoodTable(unverified', NoReports)
    PROVE  PeersInv'
<1>1. /\ announces' = [d \in AnnounceCall |-> announces'[d]]
      /\ \A d \in AnnounceCall : GoodAnnounce(announces'[d], reported')
  BY AnnounceMoved, Zenon
<1>2. GoodWorker(worker', reported')
  BY GrownGood, Zenon DEF PeersInv
<1> QED
  BY <1>1, <1>2 DEF PeersInv

LEMMA AnnouncesKeep ==
    ASSUME PeersInv, NEW c \in AnnounceCall,
           \/ classify_p2p_announce(c) \/ LookUpAnnouncer(c) \/ StoreP2p(c)
           \/ RebindStart(c) \/ rebind_existing(c) \/ StoreProven(c)
           \/ VerifyReachable(c) \/ admit_new_announcer(c)
    PROVE  PeersInv'
<1> DEFINE a == announces[c]
           to(at) == [a EXCEPT !.at = at]
<1>a. /\ GoodAnnounce(a, reported) /\ a.url \in Url /\ a.info \in PeerEntry
      /\ a.info.advert \in {"none", "relayed", "direct"} /\ a.info.id \in AnyId
  BY AnnounceFields
<1>b. /\ GoodTable(peers, reported) /\ GoodTable(unverified, NoReports)
      /\ reported \in [Url -> SUBSET AnyId]
      /\ serves \in [Url -> AnyId] /\ \A u \in P2p : serves[u] = u
  BY DEF PeersInv
<1>c. reported' = reported => /\ reported' \in [Url -> SUBSET AnyId]
                              /\ Grown(reported, reported')
  BY <1>b, SameReports
<1>d. \A rep : Grown(reported, rep) => GoodAnnounce(to("end"), rep)
  BY <1>a, GrownGood, AnnounceTo
<1>1. CASE classify_p2p_announce(c)
  <2>1. UNCHANGED <<peers, unverified, serves, worker, reported>>
        /\ announces' = [announces EXCEPT ![c] = to("end")]
    BY <1>1 DEF classify_p2p_announce, Announce
  <2> HIDE DEF to
  <2> QED
    BY <1>b, <1>c, <1>d, <2>1, AnnounceStep
<1>2. CASE LookUpAnnouncer(c)
  <2> DEFINE at == IF contains(a.url) THEN "known" ELSE "new"
  <2>1. /\ UNCHANGED <<peers, unverified, serves, worker, reported>>
        /\ announces' = [announces EXCEPT ![c] = to(at)]
        /\ a.url \in Http \/ ProvenP2p(a)
    BY <1>2 DEF LookUpAnnouncer, Announce
  <2>2. a.url \in P2p => a.info.id = a.url
    BY <2>1, PeerAssumption DEF ProvenP2p
  <2>3. at \in {"begin", "known", "new", "asking", "proven", "end"} /\ at # "proven"
    OBVIOUS
  <2> HIDE DEF at
  <2>4. GoodAnnounce(to(at), reported)
    BY <1>a, <2>2, <2>3, AnnounceTo
  <2> HIDE DEF to
  <2> QED
    BY <1>b, <1>c, <2>1, <2>4, AnnounceStep
<1>3. CASE StoreP2p(c)
  <2> DEFINE info == [a.info EXCEPT !.bound = TRUE]
             stored == IF a.at = "known" THEN {upsert(peers, a.url, info)}
                       ELSE insert_bounded(peers, a.url, info)
  <2>1. /\ UNCHANGED <<serves, worker>> /\ announces' = [announces EXCEPT ![c] = to("end")]
        /\ a.at \in {"known", "new"} /\ a.url \in P2p
        /\ \/ UNCHANGED <<peers, unverified, reported>>
           \/ /\ peers' \in stored
              /\ unverified' = IF a.at = "new" THEN Without(unverified, a.url) ELSE unverified
              /\ reported' = [reported EXCEPT ![a.url] = @ \cup {a.url}]
    BY <1>3, Zenon DEF StoreP2p, Announce
  <2>2. a.info.id = a.url /\ a.url \in AnyId
    BY <1>a, <2>1 DEF GoodAnnounce
  <2>3. CASE UNCHANGED <<peers, unverified, reported>>
    <3> HIDE DEF to
    <3> QED
      BY <1>b, <1>c, <1>d, <2>1, <2>3, AnnounceStep
  <2>4. CASE /\ peers' \in stored
             /\ unverified' = IF a.at = "new" THEN Without(unverified, a.url) ELSE unverified
             /\ reported' = [reported EXCEPT ![a.url] = @ \cup {a.url}]
    <3>1. /\ reported' \in [Url -> SUBSET AnyId] /\ Grown(reported, reported')
          /\ a.url \in reported'[a.url]
      BY <1>a, <2>2, <2>4, ReportsGrow
    <3>2. GoodEntry(a.url, info, reported')
      BY <1>a, <2>2, <3>1, EntryBound
    <3>3. GoodTable(peers, reported')
      BY <1>b, <3>1, GrownGood
    <3> HIDE DEF info
    <3>4. GoodTable(peers', reported')
      BY <1>a, <2>4, <3>2, <3>3, UpsertGood, InsertBoundedGood
    <3>5. GoodTable(unverified', NoReports)
      BY <1>b, <2>4, KeepGood DEF Without
    <3> HIDE DEF to
    <3> QED
      BY <1>d, <2>1, <3>1, <3>4, <3>5, AnnounceStep
  <2> QED
    BY <2>1, <2>3, <2>4
<1>4. CASE RebindStart(c)
  <2>1. /\ UNCHANGED <<serves, worker, reported>>
        /\ \/ announces' = [announces EXCEPT ![c] = to("asking")] /\ UNCHANGED <<peers, unverified>>
           \/ /\ announces' = [announces EXCEPT ![c] = to("end")]
              /\ attach_witness(peers, a.url, a.info.advert)
    BY <1>4, Zenon DEF RebindStart, Announce
  <2>2. GoodAnnounce(to("asking"), reported)
    BY <1>a, AnnounceTo
  <2>3. GoodTable(peers', reported) /\ GoodTable(unverified', NoReports)
    BY <1>a, <1>b, <2>1, AttachStep
  <2> HIDE DEF to
  <2> QED
    BY <1>b, <1>c, <1>d, <2>1, <2>2, <2>3, AnnounceStep
<1>5. CASE rebind_existing(c)
  <2>1. /\ UNCHANGED <<serves, worker>>
        /\ reported' = [reported EXCEPT ![a.url] = @ \cup {serves[a.url]}]
        /\ \/ /\ serves[a.url] = a.info.id
              /\ announces' = [announces EXCEPT ![c] = to("proven")] /\ UNCHANGED <<peers, unverified>>
           \/ /\ announces' = [announces EXCEPT ![c] = to("end")]
              /\ attach_witness(peers, a.url, a.info.advert)
    BY <1>5, Zenon DEF rebind_existing, Announce
  <2>2. serves[a.url] \in AnyId
    BY <1>a, <1>b
  <2>3. /\ reported' \in [Url -> SUBSET AnyId] /\ Grown(reported, reported')
        /\ serves[a.url] \in reported'[a.url]
    BY <1>a, <2>1, <2>2, ReportsGrow
  <2>4. serves[a.url] = a.info.id => GoodAnnounce(to("proven"), reported')
    BY <1>a, <2>3, GrownGood, AnnounceTo
  <2>5. GoodTable(peers, reported')
    BY <1>b, <2>3, GrownGood
  <2>6. GoodTable(peers', reported') /\ GoodTable(unverified', NoReports)
    BY <1>a, <1>b, <2>1, <2>5, AttachStep
  <2> HIDE DEF to
  <2> QED
    BY <1>d, <2>1, <2>3, <2>4, <2>6, AnnounceStep
<1>6. CASE StoreProven(c)
  <2> DEFINE info == [a.info EXCEPT !.bound = TRUE]
  <2>1. /\ UNCHANGED <<serves, worker, reported, unverified>> /\ a.at = "proven"
        /\ announces' = [announces EXCEPT ![c] = to("end")]
        /\ peers' = upsert(peers, a.url, info)
    BY <1>6 DEF StoreProven, Announce
  <2>2. a.info.id \in reported[a.url]
    BY <1>a, <2>1 DEF GoodAnnounce
  <2>3. GoodEntry(a.url, info, reported)
    BY <1>a, <2>2, EntryBound
  <2> HIDE DEF info
  <2>4. GoodTable(peers', reported)
    BY <1>a, <1>b, <2>1, <2>3, UpsertGood
  <2> HIDE DEF to
  <2> QED
    BY <1>b, <1>c, <1>d, <2>1, <2>4, AnnounceStep
<1>7. CASE VerifyReachable(c)
  <2> DEFINE info == bind_or_blank(a.info, serves[a.url])
             b == [a EXCEPT !.at = "reached", !.info = info]
  <2>1. /\ UNCHANGED <<peers, unverified, serves, worker>>
        /\ \/ announces' = [announces EXCEPT ![c] = to("end")] /\ reported' = reported
           \/ /\ announces' = [announces EXCEPT ![c] = b]
              /\ reported' = [reported EXCEPT ![a.url] = @ \cup {serves[a.url]}]
    BY <1>7 DEF VerifyReachable, Announce
  <2>2. CASE announces' = [announces EXCEPT ![c] = to("end")] /\ reported' = reported
    <3> HIDE DEF to
    <3> QED
      BY <1>b, <1>c, <1>d, <2>1, <2>2, AnnounceStep
  <2>3. CASE /\ announces' = [announces EXCEPT ![c] = b]
             /\ reported' = [reported EXCEPT ![a.url] = @ \cup {serves[a.url]}]
    <3>1. serves[a.url] \in AnyId
      BY <1>a, <1>b
    <3>2. /\ reported' \in [Url -> SUBSET AnyId] /\ Grown(reported, reported')
          /\ serves[a.url] \in reported'[a.url]
      BY <1>a, <2>3, <3>1, ReportsGrow
    <3>3. GoodEntry(a.url, info, reported')
      <4>1. CASE a.info.id = serves[a.url]
        BY <1>a, <3>2, <4>1, EntryBound DEF bind_or_blank
      <4>2. CASE a.info.id # serves[a.url]
        <5>1. info = [a.info EXCEPT !.id = NoId, !.bound = FALSE]
          BY <4>2 DEF bind_or_blank
        <5>2. PICK f \in BOOLEAN : f = FALSE
          BY Zenon
        <5>3. /\ [a.info EXCEPT !.id = NoId, !.bound = f] \in PeerEntry
              /\ [a.info EXCEPT !.id = NoId, !.bound = f].bound = f
          BY <1>a DEF PeerEntry, AnyId
        <5> QED
          BY <5>1, <5>2, <5>3, Zenon DEF GoodEntry
      <4> QED
        BY <4>1, <4>2
    <3> HIDE DEF info
    <3>4. a \in [at : {"begin", "known", "new", "asking", "proven", "reached", "end"},
                 info : PeerEntry, url : Url, authenticated : {a.authenticated}]
      BY <1>a DEF GoodAnnounce
    <3>5. info \in PeerEntry
      BY <3>3 DEF GoodEntry
    <3>6. /\ b.at = "reached" /\ b.info = info /\ b.url = a.url
          /\ b \in [at : {"begin", "known", "new", "asking", "proven", "reached", "end"},
                    info : PeerEntry, url : Url, authenticated : {b.authenticated}]
      BY <3>4, <3>5
    <3> HIDE DEF b
    <3>7. GoodAnnounce(b, reported')
      BY <3>3, <3>6, Zenon DEF GoodAnnounce
    <3>8. GoodTable(peers', reported')
      BY <1>b, <2>1, <3>2, GrownGood
    <3> QED
      BY <1>b, <2>1, <2>3, <3>2, <3>7, <3>8, AnnounceStep
  <2> QED
    BY <2>1, <2>2, <2>3
<1>8. CASE admit_new_announcer(c)
  <2>1. /\ UNCHANGED <<serves, worker, reported>> /\ a.at = "reached"
        /\ announces' = [announces EXCEPT ![c] = to("end")]
        /\ \/ UNCHANGED <<peers, unverified>>
           \/ /\ peers' \in insert_bounded(peers, a.url, a.info)
              /\ unverified' = Without(unverified, a.url)
    BY <1>8, Zenon DEF admit_new_announcer, Announce
  <2>2. GoodEntry(a.url, a.info, reported)
    BY <1>a, <2>1 DEF GoodAnnounce
  <2>3. GoodTable(peers', reported)
    BY <1>a, <1>b, <2>1, <2>2, InsertBoundedGood
  <2>4. GoodTable(unverified', NoReports)
    BY <1>b, <2>1, KeepGood DEF Without
  <2> HIDE DEF to
  <2> QED
    BY <1>c, <1>d, <2>1, <2>3, <2>4, AnnounceStep
<1> QED
  BY <1>1, <1>2, <1>3, <1>4, <1>5, <1>6, <1>7, <1>8

\* A step of the worker leaves the servers and the announces alone.
LEMMA WorkerStep ==
    ASSUME PeersInv, UNCHANGED <<serves, announces>>,
           reported' \in [Url -> SUBSET AnyId], Grown(reported, reported'),
           GoodWorker(worker', reported'),
           GoodTable(peers', reported'), GoodTable(unverified', NoReports)
    PROVE  PeersInv'
<1>1. \A c \in AnnounceCall : GoodAnnounce(announces'[c], reported')
  BY GrownGood, Zenon DEF PeersInv
<1> QED
  BY <1>1 DEF PeersInv

\* A place of the worker that holds nothing but the peers left to contact.
LEMMA AtRest ==
    ASSUME NEW rep, NEW at \in {"round", "contact", "gossip", "prune"}, NEW left
    PROVE  GoodWorker([at |-> at, left |-> left], rep)
<1> DEFINE w == [at |-> at, left |-> left]
<1>1. w.at = at /\ w = [at |-> w.at, left |-> w.left]
  OBVIOUS
<1> HIDE DEF w
<1>2. GoodWorker(w, rep)
  BY <1>1, Zenon DEF GoodWorker
<1> QED
  BY <1>2 DEF w

\* Such a worker still holds nothing else after a write of one field.
LEMMA StaysAtRest ==
    ASSUME NEW rep, NEW w, GoodWorker(w, rep), w.at \in {"round", "contact", "gossip", "prune"},
           NEW at \in {"round", "contact", "gossip", "prune"}, NEW left
    PROVE  /\ GoodWorker([w EXCEPT !.at = at], rep)
           /\ GoodWorker([w EXCEPT !.left = left], rep)
<1>1. w = [at |-> w.at, left |-> w.left]
  BY DEF GoodWorker
<1>2. /\ [w EXCEPT !.at = at] = [at |-> at, left |-> w.left]
      /\ [w EXCEPT !.left = left] = [at |-> w.at, left |-> left]
  BY <1>1
<1> QED
  BY <1>2, AtRest

LEMMA WorkerKeeps ==
    ASSUME PeersInv, PeerWorker \/ \E u \in Url : ContactFails(u)
    PROVE  PeersInv'
<1>b. /\ GoodTable(peers, reported) /\ GoodTable(unverified, NoReports)
      /\ reported \in [Url -> SUBSET AnyId]
      /\ serves \in [Url -> AnyId] /\ \A u \in P2p : serves[u] = u
      /\ GoodWorker(worker, reported)
  BY DEF PeersInv
<1>c. reported' = reported => /\ reported' \in [Url -> SUBSET AnyId]
                              /\ Grown(reported, reported')
  BY <1>b, SameReports
<1>1. CASE StartRound
  <2>1. /\ UNCHANGED <<peers, unverified, serves, announces, reported>>
        /\ worker' = [at |-> "contact", left |-> active']
    BY <1>1 DEF StartRound
  <2>2. GoodWorker(worker', reported')
    BY <2>1, AtRest
  <2> QED
    BY <1>b, <1>c, <2>1, <2>2, WorkerStep
<1>2. ASSUME NEW u \in Url, ContactFails(u) PROVE PeersInv'
  <2>1. /\ UNCHANGED <<peers, unverified, serves, announces, reported>>
        /\ worker.at = "contact" /\ worker' = [worker EXCEPT !.left = worker.left \ {u}]
    BY <1>2 DEF ContactFails
  <2>2. GoodWorker(worker', reported')
    BY <1>b, <2>1, StaysAtRest
  <2> QED
    BY <1>b, <1>c, <2>1, <2>2, WorkerStep
<1>3. ASSUME NEW u \in Url, promote_on_contact(u) PROVE PeersInv'
  <2> DEFINE infos == IF u \in DOMAIN unverified THEN {BindP2p(u, unverified[u])} ELSE {}
             w == [at |-> "answered", left |-> worker.left \ {u}, peer |-> u,
                   id |-> serves[u], info |-> infos]
  <2>1. /\ UNCHANGED <<peers, serves, announces>>
        /\ worker' = w /\ unverified' = Without(unverified, u)
        /\ reported' = [reported EXCEPT ![u] = @ \cup {serves[u]}]
    BY <1>3 DEF promote_on_contact
  <2>2. serves[u] \in AnyId
    BY <1>b
  <2>3. /\ reported' \in [Url -> SUBSET AnyId] /\ Grown(reported, reported')
        /\ serves[u] \in reported'[u]
    BY <2>1, <2>2, ReportsGrow
  <2>4. \A i \in infos : GoodEntry(u, i, reported')
    <3>1. ASSUME u \in DOMAIN unverified PROVE GoodEntry(u, BindP2p(u, unverified[u]), reported')
      <4>1. unverified[u] \in PeerEntry /\ ~unverified[u].bound
        BY <1>b, <3>1 DEF GoodTable, GoodEntry, NoReports
      <4>2. CASE u \in P2p /\ unverified[u].id = u
        BY <1>b, <2>3, <4>1, <4>2, EntryBound DEF BindP2p
      <4>3. CASE ~(u \in P2p /\ unverified[u].id = u)
        BY <4>1, <4>3, Zenon DEF BindP2p, GoodEntry
      <4> QED
        BY <4>2, <4>3
    <3> QED
      BY <3>1, Zenon
  <2> HIDE DEF infos
  <2>5. /\ w.at = "answered" /\ w.peer = u /\ w.id = serves[u] /\ w.info = infos
        /\ w = [at |-> "answered", left |-> w.left, peer |-> w.peer, id |-> w.id, info |-> w.info]
    OBVIOUS
  <2> HIDE DEF w
  <2>6. GoodWorker(w, reported')
    BY <2>2, <2>3, <2>4, <2>5, Zenon DEF GoodWorker
  <2>7. GoodTable(peers', reported') /\ GoodTable(unverified', NoReports)
    BY <1>b, <2>1, <2>3, GrownGood, KeepGood DEF Without
  <2> QED
    BY <2>1, <2>3, <2>6, <2>7, WorkerStep
<1>4. CASE admit_responder_node
  <2> DEFINE u == worker.peer
             promoted == IF worker.info = {} \/ (u \in P2p /\ u \in DOMAIN peers) THEN {peers}
                         ELSE UNION {insert_bounded(peers, u, i) : i \in worker.info}
             base == IF promoted = {} THEN {peers} ELSE promoted
             stored == UNION {IF insert_bounded(t, u, Responder) = {} THEN {t}
                              ELSE insert_bounded(t, u, Responder) : t \in base}
  <2>1. /\ UNCHANGED <<serves, announces, reported>> /\ worker.at = "answered"
        /\ worker' = [at |-> "gossip", left |-> worker.left]
        /\ \E t \in stored : attach_witness(t, u, "direct")
    BY <1>4, Zenon DEF admit_responder_node
  <2>2. /\ u \in Url /\ worker.id \in AnyId /\ worker.id \in reported[u]
        /\ \A i \in worker.info : GoodEntry(u, i, reported)
    BY <1>b, <2>1 DEF GoodWorker
  <2>3. GoodEntry(u, Responder, reported)
    <3>1. PICK b \in BOOLEAN : b = TRUE
      BY Zenon
    <3> DEFINE e == [id |-> worker.id, bound |-> b, advert |-> "none", age |-> 0]
    <3>2. e \in PeerEntry /\ e.id = worker.id
      BY <2>2 DEF PeerEntry
    <3>3. Responder = e
      BY <3>1, Zenon DEF Responder
    <3> QED
      BY <2>2, <3>2, <3>3, Zenon DEF GoodEntry
  <2>4. \A t \in base : GoodTable(t, reported)
    <3>1. ASSUME NEW t \in UNION {insert_bounded(peers, u, i) : i \in worker.info}
          PROVE  GoodTable(t, reported)
      <4>1. PICK i \in worker.info : t \in insert_bounded(peers, u, i)
        BY <3>1
      <4> QED
        BY <1>b, <2>2, <4>1, InsertBoundedGood
    <3> QED
      BY <1>b, <3>1, Zenon
  <2>5. \A t \in stored : GoodTable(t, reported)
    <3> HIDE DEF base
    <3>1. ASSUME NEW t \in stored PROVE GoodTable(t, reported)
      <4>1. PICK s \in base : t = s \/ t \in insert_bounded(s, u, Responder)
        BY <3>1
      <4> QED
        BY <2>2, <2>3, <2>4, <4>1, InsertBoundedGood
    <3> QED
      BY <3>1
  <2> HIDE DEF stored
  <2>6. PICK t \in stored : attach_witness(t, u, "direct")
    BY <2>1
  <2>7. GoodTable(peers', reported) /\ GoodTable(unverified', NoReports)
    BY <1>b, <2>5, <2>6, AttachStep
  <2>8. GoodWorker(worker', reported')
    BY <2>1, AtRest
  <2> QED
    BY <1>c, <2>1, <2>7, <2>8, WorkerStep
<1>5. CASE GossipNothing
  <2>1. /\ UNCHANGED <<peers, unverified, serves, announces, reported>>
        /\ worker.at = "gossip" /\ worker' = [worker EXCEPT !.at = "contact"]
    BY <1>5 DEF GossipNothing
  <2>2. GoodWorker(worker', reported')
    BY <1>b, <2>1, StaysAtRest
  <2> QED
    BY <1>b, <1>c, <2>1, <2>2, WorkerStep
<1>6. CASE GossipLookUp
  <2>1. PICK r \in Relayed :
          worker' = [at |-> IF contains(r.url) THEN "refresh" ELSE "pool",
                     left |-> worker.left, peer |-> r.url, info |-> {r.info}]
    BY <1>6 DEF GossipLookUp
  <2>2. UNCHANGED <<peers, unverified, serves, announces, reported>>
    BY <1>6 DEF GossipLookUp
  <2>3. r.url \in Url /\ \A i \in {r.info} : GoodEntry(r.url, i, NoReports)
    BY PeerAssumption, Zenon DEF GoodEntry
  <2>4. /\ worker'.at \in {"refresh", "pool"} /\ worker'.peer = r.url /\ worker'.info = {r.info}
        /\ worker' = [at |-> worker'.at, left |-> worker'.left, peer |-> worker'.peer,
                      info |-> worker'.info]
    BY <2>1
  <2>5. GoodWorker(worker', reported')
    BY <2>3, <2>4, Zenon DEF GoodWorker
  <2> QED
    BY <1>b, <1>c, <2>2, <2>5, WorkerStep
<1>7. CASE merge_gossip
  <2> DEFINE u == worker.peer
  <2>1. /\ UNCHANGED <<serves, announces, reported>> /\ worker.at \in {"refresh", "pool"}
        /\ worker' = [at |-> "contact", left |-> worker.left]
    BY <1>7 DEF merge_gossip
  <2>2. u \in Url /\ \A i \in worker.info : GoodEntry(u, i, NoReports)
    BY <1>b, <2>1 DEF GoodWorker
  <2>3. PICK i \in worker.info :
          \/ UNCHANGED <<peers, unverified>>
          \/ peers' = upsert_relayed(peers, u, i) /\ UNCHANGED unverified
          \/ unverified' \in insert_unverified(unverified, u, i) /\ UNCHANGED peers
    BY <1>7 DEF merge_gossip
  <2>4. GoodEntry(u, i, reported)
    BY <2>2, <2>3 DEF GoodEntry, NoReports
  <2>5. GoodTable(peers', reported) /\ GoodTable(unverified', NoReports)
    BY <1>b, <2>2, <2>3, <2>4, UpsertGood, InsertUnverifiedGood
  <2>6. GoodWorker(worker', reported')
    BY <2>1, AtRest
  <2> QED
    BY <1>c, <2>1, <2>5, <2>6, WorkerStep
<1>8. CASE vouch_contact
  <2>1. /\ UNCHANGED <<serves, announces, reported>>
        /\ worker.at = "contact" /\ worker' = [worker EXCEPT !.at = "prune"]
        /\ UNCHANGED <<peers, unverified>> \/ \E u : attach_witness(peers, u, "direct")
    BY <1>8 DEF vouch_contact
  <2>2. GoodTable(peers', reported) /\ GoodTable(unverified', NoReports)
    BY <1>b, <2>1, AttachStep
  <2>3. GoodWorker(worker', reported')
    BY <1>b, <2>1, StaysAtRest
  <2> QED
    BY <1>c, <2>1, <2>2, <2>3, WorkerStep
<1>9. CASE EndRound
  <2>1. /\ UNCHANGED <<serves, announces, reported>>
        /\ worker.at = "prune" /\ worker' = [worker EXCEPT !.at = "round"]
        /\ peers' = Aged(peers) /\ unverified' = Aged(unverified)
    BY <1>9 DEF EndRound
  <2>2. GoodTable(peers', reported) /\ GoodTable(unverified', NoReports)
    BY <1>b, <2>1, AgedGood
  <2>3. GoodWorker(worker', reported')
    BY <1>b, <2>1, StaysAtRest
  <2> QED
    BY <1>c, <2>1, <2>2, <2>3, WorkerStep
<1> QED
  BY <1>1, <1>2, <1>3, <1>4, <1>5, <1>6, <1>7, <1>8, <1>9 DEF PeerWorker

\* A connection proves only the id that a p2p:// URL names; another entry
\* leaves the pool as unbound as it was.
LEMMA ConnectionKeeps ==
    ASSUME PeersInv, NEW u \in Url, promote_unverified_by_libp2p_peer(u)
    PROVE  PeersInv'
<1> DEFINE info == BindP2p(u, unverified[u])
<1>1. /\ GoodTable(peers, reported) /\ GoodTable(unverified, NoReports)
      /\ reported \in [Url -> SUBSET AnyId]
  BY DEF PeersInv
<1>2. /\ UNCHANGED <<serves, announces, worker>> /\ u \in DOMAIN unverified
      /\ unverified' = Without(unverified, u)
      /\ peers' = peers \/ peers' \in insert_bounded(peers, u, info)
      /\ reported' = IF u \in P2p THEN [reported EXCEPT ![u] = @ \cup {u}] ELSE reported
  BY DEF promote_unverified_by_libp2p_peer
<1>3. /\ reported' \in [Url -> SUBSET AnyId] /\ Grown(reported, reported')
      /\ u \in P2p => u \in reported'[u]
  <2>1. CASE u \in P2p
    <3>1. u \in AnyId
      BY <2>1 DEF AnyId
    <3> QED
      BY <1>2, <2>1, <3>1, ReportsGrow
  <2>2. CASE u \notin P2p
    BY <1>1, <1>2, <2>2, SameReports
  <2> QED
    BY <2>1, <2>2
<1>4. GoodEntry(u, info, reported')
  <2>1. unverified[u] \in PeerEntry /\ ~unverified[u].bound
    BY <1>1, <1>2 DEF GoodTable, GoodEntry, NoReports
  <2>2. CASE u \in P2p /\ unverified[u].id = u
    BY <1>3, <2>1, <2>2, EntryBound DEF BindP2p
  <2>3. CASE ~(u \in P2p /\ unverified[u].id = u)
    BY <2>1, <2>3, Zenon DEF BindP2p, GoodEntry
  <2> QED
    BY <2>2, <2>3
<1> HIDE DEF info
<1>5. GoodTable(peers', reported') /\ GoodTable(unverified', NoReports)
  <2>1. GoodTable(peers, reported')
    BY <1>1, <1>3, GrownGood
  <2> QED
    BY <1>1, <1>2, <1>4, <2>1, InsertBoundedGood, KeepGood DEF Without
<1>6. GoodWorker(worker', reported')
  BY <1>2, <1>3, GrownGood DEF PeersInv
<1> QED
  BY <1>2, <1>3, <1>5, <1>6, WorkerStep

LEMMA NewKeyKeeps ==
    ASSUME PeersInv, NEW u \in Http, NewKey(u)
    PROVE  PeersInv'
<1>1. u \notin P2p /\ u \in Url
  BY PeerAssumption DEF Url
<1>2. PICK id \in PeerIds : serves' = [serves EXCEPT ![u] = id]
  BY DEF NewKey
<1>3. serves' \in [Url -> AnyId] /\ \A v \in P2p : serves'[v] = v
  BY <1>1, <1>2 DEF PeersInv, AnyId, Url
<1>4. UNCHANGED <<peers, unverified, announces, worker, reported>>
  BY DEF NewKey
<1> QED
  BY <1>3, <1>4 DEF PeersInv

LEMMA PeersInit == PeerInit => PeersInv
<1> SUFFICES ASSUME PeerInit PROVE PeersInv
  OBVIOUS
<1>1. \A rep : GoodTable(peers, rep) /\ GoodTable(unverified, rep)
  BY DEF PeerInit, GoodTable
<1>2. serves \in [Url -> AnyId] /\ \A u \in P2p : serves[u] = u
  BY PeerAssumption DEF PeerInit, AnyId, Url
<1>3. reported \in [Url -> SUBSET AnyId]
  BY DEF PeerInit
<1>4. announces = [c \in AnnounceCall |-> announces[c]]
  BY DEF PeerInit
<1>5. ASSUME NEW c \in AnnounceCall PROVE GoodAnnounce(announces[c], reported)
  <2>1. PICK a \in Announces : announces[c] = [at |-> "begin", info |-> a.info, url |-> a.url,
                                               authenticated |-> a.authenticated]
    BY DEF PeerInit
  <2>2. a.url \in Url /\ a.info \in PeerEntry
    BY PeerAssumption
  <2> HIDE DEF PeerInit
  <2> QED
    BY <2>1, <2>2 DEF GoodAnnounce
<1>6. GoodWorker(worker, reported)
  BY AtRest DEF PeerInit
<1> QED
  BY <1>1, <1>2, <1>3, <1>4, <1>5, <1>6 DEF PeersInv

\* The invariant of the peer table holds through announces, rounds of the
\* worker, connections and changes of keys, in any order.
THEOREM PeersInvariant == PeerSpec => []PeersInv
<1>1. PeersInv /\ [PeerNext]_peerVars => PeersInv'
  <2> SUFFICES ASSUME PeersInv, [PeerNext]_peerVars PROVE PeersInv'
    OBVIOUS
  <2>1. CASE PeerNext
    BY <2>1, AnnouncesKeep, WorkerKeeps, ConnectionKeeps, NewKeyKeeps DEF PeerNext
  <2>2. CASE UNCHANGED peerVars
    BY <2>2 DEF peerVars, PeersInv
  <2> QED
    BY <2>1, <2>2
<1> QED
  BY <1>1, PeersInit, PTL DEF PeerSpec

\* An entry marked identity_bound names an id that the URL's own server gave
\* this node or that a connection proved, and the pool holds no bound entry,
\* for any number of peers, concurrent announces and table sizes.
THEOREM BindingsAreVouched == PeerSpec => []BoundIsVouched
<1>1. PeersInv => BoundIsVouched
  <2> SUFFICES ASSUME PeersInv PROVE BoundIsVouched
    OBVIOUS
  <2>1. \A u \in DOMAIN peers : peers[u].bound => peers[u].id \in reported[u]
    BY Zenon DEF PeersInv, GoodTable, GoodEntry
  <2>2. ASSUME NEW u \in DOMAIN unverified PROVE ~unverified[u].bound
    <3>1. u \in Url /\ (unverified[u].bound => unverified[u].id \in NoReports[u])
      BY Zenon DEF PeersInv, GoodTable, GoodEntry
    <3> QED
      BY <3>1 DEF NoReports
  <2> QED
    BY <2>1, <2>2, Zenon DEF BoundIsVouched
<1> QED
  BY <1>1, PeersInvariant, PTL

-----------------------------------------------------------------------------
(* Admission.  A source's share is counted over all sources, the ones without *)
(* a pin included, so that the count of the pinned source is known when its   *)
(* next pin is written.                                                       *)
INSTANCE FiniteSetTheorems

Share == \A u : Cardinality(FromSource(u)) <= max_shards_per_source

PinsInv ==
    /\ pins = [s \in DOMAIN pins |-> pins[s]]
    /\ IsFiniteSet(DOMAIN pins)
    /\ idle \subseteq DOMAIN pins
    /\ Cardinality(DOMAIN pins) <= max_shards
    /\ Share

LEMMA FromSourceFinite ==
    ASSUME PinsInv, NEW u
    PROVE  IsFiniteSet(FromSource(u)) /\ Cardinality(FromSource(u)) \in Nat
<1>1. FromSource(u) \in SUBSET DOMAIN pins
  BY DEF FromSource
<1>2. IsFiniteSet(FromSource(u))
  BY <1>1, FS_Subset DEF PinsInv
<1> QED
  BY <1>2, FS_CardinalityType

LEMMA PinsInit == AdmissionInit => PinsInv
<1> SUFFICES ASSUME AdmissionInit PROVE PinsInv
  OBVIOUS
<1>1. DOMAIN pins = {} /\ idle = {} /\ pins = <<>>
  BY DEF AdmissionInit
<1>2. IsFiniteSet(DOMAIN pins) /\ Cardinality(DOMAIN pins) = 0
  BY <1>1, FS_EmptySet, Zenon
<1>3. \A u : FromSource(u) = {}
  BY <1>1 DEF FromSource
<1>4. \A u : Cardinality(FromSource(u)) = 0
  BY <1>3, FS_EmptySet, Zenon
<1>5. pins = [s \in DOMAIN pins |-> pins[s]]
  BY <1>1
<1> QED
  BY <1>1, <1>2, <1>4, <1>5, AdmissionAssumption DEF PinsInv, Share

\* The pin is written under the lock, with the caps read again: the table
\* grows by the shard, after an idle pin has gone where there was no room.
LEMMA PinWritten ==
    ASSUME PinsInv, NEW s, NEW u, ~pinned_key(s), Admits(s, u),
           NEW gone \in IF Cardinality(DOMAIN pins) < max_shards \/ Evictable = {}
                        THEN {{}} ELSE Evictable,
           pins' = [t \in (DOMAIN pins \ gone) \cup {s} |-> IF t = s THEN u ELSE pins[t]],
           idle' = idle \ gone
    PROVE  PinsInv'
<1> DEFINE D == DOMAIN pins
           E == DOMAIN pins \ gone
<1>1. DOMAIN pins' = E \cup {s} /\ pins' = [t \in DOMAIN pins' |-> pins'[t]]
  OBVIOUS
<1>2. IsFiniteSet(E) /\ IsFiniteSet(E \cup {s})
  BY FS_Difference, FS_AddElement DEF PinsInv
<1>3. idle' \subseteq DOMAIN pins'
  BY <1>1 DEF PinsInv
<1>4. s \notin E /\ Cardinality(E \cup {s}) = Cardinality(E) + 1
  BY <1>2, FS_Difference, FS_AddElement DEF pinned_key, PinsInv
<1>5. Cardinality(D) \in Nat /\ Cardinality(E) \in Nat
  BY <1>2, FS_CardinalityType DEF PinsInv
<1>6. Cardinality(E) < max_shards
  <2>1. CASE Cardinality(D) < max_shards
    <3>1. gone = {}
      BY <2>1
    <3>2. E = D
      BY <3>1
    <3> QED
      BY <2>1, <3>2
  <2>2. CASE ~(Cardinality(D) < max_shards)
    <3>1. idle # {} /\ Evictable # {}
      BY <2>2 DEF Admits, Evictable
    <3>2. PICK x \in idle : gone = {x}
      BY <2>2, <3>1 DEF Evictable
    <3>3. Cardinality(E) = Cardinality(D) - 1
      <4>1. PICK S : S = DOMAIN pins
        OBVIOUS
      <4>2. IsFiniteSet(S) /\ x \in S
        BY <4>1 DEF PinsInv
      <4>3. Cardinality(S \ {x}) = Cardinality(S) - 1
        BY <4>2, FS_RemoveElement
      <4> QED
        BY <3>2, <4>1, <4>3
    <3> QED
      BY <1>5, <3>3, AdmissionAssumption DEF PinsInv
  <2> QED
    BY <2>1, <2>2
<1>7. Cardinality(DOMAIN pins') <= max_shards
  BY <1>1, <1>4, <1>5, <1>6, AdmissionAssumption
<1>8. ASSUME NEW v PROVE Cardinality(FromSource(v)') <= max_shards_per_source
  <2>1. CASE v = u
    <3>1. FromSource(v)' \in SUBSET (FromSource(u) \cup {s})
      BY <1>1, <2>1 DEF FromSource
    <3>2. /\ IsFiniteSet(FromSource(u) \cup {s})
          /\ Cardinality(FromSource(u) \cup {s}) <= Cardinality(FromSource(u)) + 1
          /\ Cardinality(FromSource(u) \cup {s}) \in Nat
      <4>1. PICK S : S = FromSource(u)
        OBVIOUS
      <4>2. IsFiniteSet(S) /\ Cardinality(S) \in Nat
        BY <4>1, FromSourceFinite
      <4>3. /\ IsFiniteSet(S \cup {s})
            /\ Cardinality(S \cup {s}) \in {Cardinality(S), Cardinality(S) + 1}
        BY <4>2, FS_AddElement
      <4> QED
        BY <4>1, <4>2, <4>3
    <3>3. Cardinality(FromSource(v)') <= Cardinality(FromSource(u) \cup {s})
      BY <3>1, <3>2, FS_Subset
    <3>4. Cardinality(FromSource(v)') \in Nat
      BY <3>1, <3>2, FS_Subset, FS_CardinalityType
    <3> QED
      BY <3>2, <3>3, <3>4, FromSourceFinite, AdmissionAssumption DEF Admits
  <2>2. CASE v # u
    <3>1. FromSource(v)' \in SUBSET FromSource(v)
      BY <1>1, <2>2 DEF FromSource
    <3>2. Cardinality(FromSource(v)') <= Cardinality(FromSource(v))
      BY <3>1, FromSourceFinite, FS_Subset
    <3>3. Cardinality(FromSource(v)') \in Nat
      BY <3>1, FromSourceFinite, FS_Subset, FS_CardinalityType
    <3> QED
      BY <3>2, <3>3, FromSourceFinite, AdmissionAssumption DEF PinsInv, Share
  <2> QED
    BY <2>1, <2>2
<1> QED
  BY <1>1, <1>2, <1>3, <1>7, <1>8 DEF PinsInv, Share

LEMMA PinsStep == PinsInv /\ [AdmissionNext]_admissionVars => PinsInv'
<1> SUFFICES ASSUME PinsInv, [AdmissionNext]_admissionVars PROVE PinsInv'
  OBVIOUS
<1>1. ASSUME UNCHANGED pins, idle' \subseteq DOMAIN pins PROVE PinsInv'
  BY <1>1 DEF PinsInv, Share, FromSource
<1>2. ASSUME NEW w \in Watcher, pin_accepted_shard(w) PROVE PinsInv'
  <2>1. PICK p : pin_key(p.shard, p.source)
    BY <1>2 DEF pin_accepted_shard
  <2>2. CASE UNCHANGED pins /\ idle' \subseteq idle
    BY <1>1, <2>2 DEF PinsInv
  <2>3. CASE /\ ~pinned_key(p.shard) /\ Admits(p.shard, p.source)
             /\ \E gone \in IF Cardinality(DOMAIN pins) < max_shards \/ Evictable = {}
                             THEN {{}} ELSE Evictable :
                  /\ pins' = [t \in (DOMAIN pins \ gone) \cup {p.shard} |->
                                IF t = p.shard THEN p.source ELSE pins[t]]
                  /\ idle' = idle \ gone
    <3>1. PICK s, u : s = p.shard /\ u = p.source
      OBVIOUS
    <3>2. ~pinned_key(s) /\ Admits(s, u)
      BY <2>3, <3>1
    <3>3. PICK gone \in IF Cardinality(DOMAIN pins) < max_shards \/ Evictable = {}
                       THEN {{}} ELSE Evictable :
            /\ pins' = [t \in (DOMAIN pins \ gone) \cup {s} |->
                          IF t = s THEN u ELSE pins[t]]
            /\ idle' = idle \ gone
      BY <2>3, <3>1
    <3> QED
      BY <3>2, <3>3, PinWritten
  <2> QED
    BY <2>1, <2>2, <2>3 DEF pin_key
<1>3. ASSUME NEW w \in Watcher, Watch(w) PROVE PinsInv'
  <2>1. CASE pin_accepted_shard(w)
    BY <1>2, <2>1
  <2>2. CASE Quiet
    BY <1>1, <2>2 DEF Quiet, PinsInv
  <2> QED
    BY <1>3, <2>1, <2>2 DEF Watch, run_worker, verify_fetched_self_certifying_head,
       StartDiscovery, discover_and_verify_shard_peers, EndPhase
<1>4. ASSUME NEW s \in DOMAIN pins, GoesIdle(s) PROVE PinsInv'
  BY <1>1, <1>4 DEF GoesIdle, PinsInv
<1>5. CASE UNCHANGED admissionVars
  BY <1>1, <1>5 DEF admissionVars, PinsInv
<1> QED
  BY <1>3, <1>4, <1>5 DEF AdmissionNext

(* However the ticks of several watchers interleave, the pins of             *)
(* self-certifying shards stay within the caps: pin_key reads them again      *)
(* under its lock.                                                            *)
THEOREM PinsStayWithinCaps == AdmissionSpec => []CapsHold
<1>1. PinsInv => CapsHold
  BY DEF PinsInv, Share, CapsHold
<1> QED
  BY <1>1, PinsInit, PinsStep, PTL DEF AdmissionSpec
=============================================================================
