---------------------------- MODULE MirrorProofs ----------------------------
(***************************************************************************)
(* Proofs about Mirror, for every set of sources, watchers and heads.      *)
(***************************************************************************)
EXTENDS Mirror, TLAPS

(* A sequence is a function on its positions.                                 *)
LEMMA SeqLen ==
    ASSUME NEW S, NEW q \in Seq(S)
    PROVE  Len(q) \in Nat /\ DOMAIN q = 1..Len(q) /\ q \in [1..Len(q) -> S]
  OBVIOUS

(* Sequences with the same elements are the same.                             *)
LEMMA SeqSame ==
    ASSUME NEW S, NEW q \in Seq(S), NEW r \in Seq(S), Len(q) = Len(r), \A i \in 1..Len(q) : q[i] = r[i]
    PROVE  q = r
  OBVIOUS

(* The elements of a slice.                                                   *)
LEMMA SeqSlice ==
    ASSUME NEW S, NEW q, NEW a \in Nat \ {0}, NEW b \in Nat, \A i \in a..b : q[i] \in S
    PROVE  /\ SubSeq(q, a, b) \in Seq(S) /\ Len(SubSeq(q, a, b)) = IF a <= b THEN b - a + 1 ELSE 0
           /\ \A i \in 1..(b - a + 1) : SubSeq(q, a, b)[i] = q[a + i - 1]
  OBVIOUS

-----------------------------------------------------------------------------
(* Types *)

\* What watcher q holds is untouched.
SameTick(q) ==
  /\ mirror_pc'[q] = mirror_pc[q] /\ pending'[q] = pending[q]
  /\ observing'[q] = observing[q] /\ verified'[q] = verified[q]
  /\ target'[q] = target[q] /\ progress'[q] = progress[q]

\* A new tick starts from the beginning, and the other watchers go on.
LEMMA NewTickFrame ==
  ASSUME TickDomains, NEW p \in MirrorProc, NewTick(p)
  PROVE  /\ TickDomains'
         /\ mirror_pc'[p] = "poll" /\ pending'[p] = Source
         /\ verified'[p] = {}
         /\ \A q \in MirrorProc \ {p} : SameTick(q)
BY Zenon DEF TickDomains, NewTick, SameTick, NoProgress

\* A watcher that starts over is in order.
LEMMA NewTickOK ==
  ASSUME TickDomains, NEW p \in MirrorProc, NewTick(p)
  PROVE  WatcherOK(p)'
<1>1. mirror_pc'[p] = "poll" /\ pending'[p] = Source /\ verified'[p] = {}
  BY NewTickFrame
<1> QED
  BY <1>1 DEF WatcherOK

\* A step of one watcher leaves what the others hold.
LEMMA WatcherFrame ==
  ASSUME TickDomains, NEW p \in MirrorProc, Watcher(p)
  PROVE  TickDomains' /\ \A q \in MirrorProc \ {p} : SameTick(q)
<1> USE DEF mirrorDb, mirrorTick, envVars
<1>1. ASSUME NEW s \in Source, insert_observation(p, s)
      PROVE  TickDomains' /\ \A q \in MirrorProc \ {p} : SameTick(q)
  <2>1. /\ DOMAIN mirror_pc' = MirrorProc /\ mirror_pc' = [q \in MirrorProc |-> mirror_pc'[q]]
        /\ \A q \in MirrorProc \ {p} : mirror_pc'[q] = mirror_pc[q]
    BY <1>1 DEF insert_observation, TickDomains
  <2>2. /\ DOMAIN pending' = MirrorProc /\ pending' = [q \in MirrorProc |-> pending'[q]]
        /\ \A q \in MirrorProc \ {p} : pending'[q] = pending[q]
    BY <1>1, Zenon DEF insert_observation, TickDomains
  <2>3. DOMAIN observing' = MirrorProc /\ \A q \in MirrorProc \ {p} : observing'[q] = observing[q]
    BY <1>1 DEF insert_observation, TickDomains
  <2>4. DOMAIN verified' = MirrorProc /\ \A q \in MirrorProc \ {p} : verified'[q] = verified[q]
    BY <1>1 DEF insert_observation, Accept, TickDomains
  <2>5. target' = target /\ progress' = progress
    BY <1>1 DEF insert_observation, Accept
  <2> QED
    BY <2>1, <2>2, <2>3, <2>4, <2>5 DEF TickDomains, SameTick
<1>2. CASE check_equivocation(p)
  BY <1>2 DEF check_equivocation, Accept, TickDomains, SameTick
<1>3. CASE record_equivocation(p)
  BY <1>3, Zenon DEF record_equivocation, Accept, TickDomains, SameTick
<1>4. CASE CheckFails(p)
  BY <1>4, Zenon DEF CheckFails, Accept, TickDomains, SameTick
<1>5. CASE backfill_network(p)
  BY <1>5, NewTickFrame DEF backfill_network, TickDomains, SameTick
<1>6. CASE mirrored_progress(p)
  BY <1>6, NewTickFrame, SMTT(30) DEF mirrored_progress, TickDomains, SameTick
<1>7. CASE mirrored_entry_hash_at(p)
  BY <1>7, NewTickFrame DEF mirrored_entry_hash_at, TickDomains, SameTick
<1>8. CASE insert_mirrored_entry(p)
  BY <1>8, NewTickFrame DEF insert_mirrored_entry, TickDomains, SameTick
<1>9. CASE EndMirrorTick(p) \/ MirrorCrash(p)
  BY <1>9, NewTickFrame DEF EndMirrorTick, MirrorCrash
<1> QED
  BY <1>1, <1>2, <1>3, <1>4, <1>5, <1>6, <1>7, <1>8, <1>9 DEF Watcher

LEMMA PrefixInChains ==
  ASSUME NEW h \in SourceHead, NEW n \in 1 .. Len(h)
  PROVE  Prefix(h, n) \in Chains
<1>1. Prefix(h, n) \in {Prefix(h, k) : k \in 1 .. Len(h)}
  OBVIOUS
<1> QED
  BY <1>1 DEF Chains

LEMMA HeadIsSeq ==
  ASSUME NEW h \in SourceHead
  PROVE  /\ h \in Seq(MirrorEntry) /\ h # <<>>
         /\ Len(h) \in Nat /\ Len(h) > 0 /\ Len(h) \in Size
<1>1. h \in Seq(MirrorEntry) /\ h # <<>>
  BY MirrorAssumption
<1> QED
  BY <1>1 DEF Size

\* A watcher that did not move is as much in order as it was.
LEMMA OthersOK ==
  ASSUME NEW q \in MirrorProc, SameTick(q), WatcherOK(q), observed \subseteq observed'
  PROVE  WatcherOK(q)'
BY DEF SameTick, WatcherOK

INSTANCE FiniteSetTheorems

\* A watcher's step keeps the tables and its own tick in order.
LEMMA WatcherStep ==
  ASSUME MirrorInv, NEW p \in MirrorProc, Watcher(p)
  PROVE  MirrorTables' /\ WatcherOK(p)' /\ observed \subseteq observed'
<1> USE DEF mirrorDb, mirrorTick, envVars
<1>a. MirrorTables /\ TickDomains /\ WatcherOK(p)
  BY DEF MirrorInv
<1>d. \A o \in Observation : o.source \in Source /\ o.head \in SourceHead /\ Len(o.head) \in Size
  BY HeadIsSeq DEF Observation
<1>1. ASSUME NEW s \in Source, insert_observation(p, s)
      PROVE  MirrorTables' /\ WatcherOK(p)' /\ observed \subseteq observed'
  <2> DEFINE o == [source |-> s, head |-> serving[s]]
  <2>1. o \in Observation
    BY <1>1, <1>a DEF insert_observation, MirrorTables, Observation
  <2>2. mirror_pc[p] = "poll" /\ pending' = [pending EXCEPT ![p] = @ \ {s}]
    BY <1>1 DEF insert_observation
  <2>3. \/ /\ Accept(p, o) /\ UNCHANGED <<observed, mirror_pc, observing>>
        \/ /\ observed' = observed \cup {o}
           /\ mirror_pc' = [mirror_pc EXCEPT ![p] = "check"]
           /\ observing' = [observing EXCEPT ![p] = o]
           /\ UNCHANGED <<verified, target, progress>>
    BY <1>1 DEF insert_observation
  <2>4. UNCHANGED <<serving, operator, resolves, found, unresolved, mirrored>>
    BY <1>1 DEF insert_observation
  <2> HIDE DEF o
  <2>5. observed \subseteq observed' /\ observed' \subseteq Observation
    BY <2>1, <2>3, <1>a DEF MirrorTables
  <2>6. MirrorTables'
    BY <2>4, <2>5, <1>a DEF MirrorTables
  <2>7. WatcherOK(p)'
    <3>1. pending'[p] \subseteq Source
      BY <2>2, <1>a DEF WatcherOK, TickDomains
    <3>2. verified'[p] \subseteq Observation
      BY <2>1, <2>3, <1>a DEF WatcherOK, TickDomains, Accept
    <3>3. mirror_pc'[p] = "poll" \/ (mirror_pc'[p] = "check" /\ observing'[p] \in observed')
      BY <2>2, <2>3, <1>a DEF TickDomains
    <3> QED
      BY <3>1, <3>2, <3>3 DEF WatcherOK
  <2> QED
    BY <2>5, <2>6, <2>7
<1>2. CASE check_equivocation(p)
  <2>1. UNCHANGED <<serving, operator, resolves, observed, found, unresolved, mirrored, pending>>
    BY <1>2 DEF check_equivocation
  <2>2. MirrorTables'
    BY <2>1, <1>a DEF MirrorTables
  <2>3. mirror_pc[p] = "check" /\ observing[p] \in Observation
    BY <1>2, <1>a DEF check_equivocation, WatcherOK, MirrorTables
  <2>4. \/ mirror_pc'[p] = "poll" /\ Accept(p, observing[p])
        \/ mirror_pc'[p] = "record" /\ UNCHANGED <<observing, verified>>
    BY <1>2, <1>a DEF check_equivocation, TickDomains
  <2>5. verified'[p] \subseteq Observation
    BY <2>3, <2>4, <1>a DEF WatcherOK, TickDomains, Accept
  <2>6. WatcherOK(p)'
    BY <2>1, <2>3, <2>4, <2>5, <1>a DEF WatcherOK
  <2> QED
    BY <2>1, <2>2, <2>6
<1>3. CASE record_equivocation(p) \/ CheckFails(p)
  <2>1. UNCHANGED <<serving, operator, resolves, observed, mirrored, pending>>
    BY <1>3 DEF record_equivocation, CheckFails
  <2>2. mirror_pc[p] \in {"check", "record"} /\ observing[p] \in Observation
    BY <1>3, <1>a DEF record_equivocation, CheckFails, WatcherOK, MirrorTables
  <2>3. mirror_pc'[p] = "poll" /\ Accept(p, observing[p])
    BY <1>3, <1>a DEF record_equivocation, CheckFails, TickDomains
  <2>4. unresolved' \subseteq found' /\ found' \subseteq Size
    BY <1>3, <2>2, <1>a, <1>d DEF record_equivocation, CheckFails, MirrorTables
  <2>5. MirrorTables'
    BY <2>1, <2>4, <1>a DEF MirrorTables
  <2>6. verified'[p] \subseteq Observation
    BY <2>2, <2>3, <1>a DEF WatcherOK, TickDomains, Accept
  <2>7. WatcherOK(p)'
    BY <2>1, <2>3, <2>6, <1>a DEF WatcherOK
  <2> QED
    BY <2>1, <2>5, <2>7
<1>4. CASE backfill_network(p)
  <2>1. UNCHANGED <<serving, operator, resolves, observed, found, unresolved, mirrored>>
    BY <1>4 DEF backfill_network
  <2>2. MirrorTables'
    BY <2>1, <1>a DEF MirrorTables
  <2>3. CASE NewTick(p)
    BY <2>1, <2>2, <2>3, <1>a, NewTickOK
  <2>4. CASE ~ NewTick(p)
    <3>1. PICK h \in Corroborated(p) :
            /\ mirror_pc' = [mirror_pc EXCEPT ![p] = "progress"]
            /\ target' = [target EXCEPT ![p] = h]
            /\ UNCHANGED <<pending, observing, verified, progress>>
      BY <1>4, <2>4 DEF backfill_network
    <3>2. h \in SourceHead
      BY <1>a, <1>d DEF Corroborated, WatcherOK
    <3>3. mirror_pc'[p] = "progress" /\ target'[p] \in SourceHead
      BY <3>1, <3>2, <1>a DEF TickDomains
    <3>4. WatcherOK(p)'
      BY <3>1, <3>3, <1>a DEF WatcherOK
    <3> QED
      BY <2>1, <2>2, <3>4
  <2> QED
    BY <2>3, <2>4
<1>5. CASE mirrored_progress(p)
  <2>1. UNCHANGED <<serving, operator, resolves, observed, found, unresolved, mirrored>>
    BY <1>5 DEF mirrored_progress
  <2>2. MirrorTables'
    BY <2>1, <1>a DEF MirrorTables
  <2>3. CASE NewTick(p)
    BY <2>1, <2>2, <2>3, <1>a, NewTickOK
  <2>4. CASE ~ NewTick(p)
    <3> DEFINE n == Cardinality(mirrored)
    <3>1. /\ n < Len(target[p])
          /\ progress' = [progress EXCEPT ![p] = [count |-> n, last |-> LastSeq, prev |-> <<>>]]
          /\ mirror_pc' = [mirror_pc EXCEPT ![p] = "prev"]
          /\ UNCHANGED <<pending, observing, verified, target>>
      BY <1>5, <2>4 DEF mirrored_progress
    <3>2. n \in Nat
      BY <1>a, FS_CardinalityType DEF MirrorTables
    <3> HIDE DEF n
    <3>3. mirror_pc'[p] = "prev" /\ progress'[p].count = n
      BY <3>1, <1>a DEF TickDomains
    <3>4. target[p] \in SourceHead
      BY <1>5, <1>a DEF mirrored_progress, WatcherOK
    <3>5. WatcherOK(p)'
      BY <3>1, <3>2, <3>3, <3>4, <1>a DEF WatcherOK
    <3> QED
      BY <2>1, <2>2, <3>5
  <2> QED
    BY <2>3, <2>4
<1>6. CASE mirrored_entry_hash_at(p)
  <2>1. UNCHANGED <<serving, operator, resolves, observed, found, unresolved, mirrored>>
    BY <1>6 DEF mirrored_entry_hash_at
  <2>2. MirrorTables'
    BY <2>1, <1>a DEF MirrorTables
  <2>3. CASE NewTick(p)
    BY <2>1, <2>2, <2>3, <1>a, NewTickOK
  <2>4. CASE ~ NewTick(p)
    <3>1. /\ mirror_pc[p] = "prev" /\ mirror_pc'[p] = "fetch"
          /\ progress'[p].count = progress[p].count
          /\ UNCHANGED <<pending, observing, verified, target>>
      BY <1>6, <2>4, <1>a DEF mirrored_entry_hash_at, TickDomains
    <3>2. WatcherOK(p)'
      BY <3>1, <1>a DEF WatcherOK
    <3> QED
      BY <2>1, <2>2, <3>2
  <2> QED
    BY <2>3, <2>4
<1>7. CASE insert_mirrored_entry(p)
  <2>1. UNCHANGED <<serving, operator, resolves, observed, found, unresolved>>
    BY <1>7 DEF insert_mirrored_entry
  <2>2. /\ mirror_pc[p] = "fetch" /\ target[p] \in SourceHead
        /\ progress[p].count \in Nat /\ progress[p].count < Len(target[p])
    BY <1>7, <1>a DEF insert_mirrored_entry, WatcherOK
  <2>3. Len(target[p]) \in Nat /\ Len(target[p]) \in Size
    BY <2>2, HeadIsSeq
  <2>4. NextHash(p) \in Chains
    <3>1. progress[p].count + 1 \in 1 .. Len(target[p])
      BY <2>2, <2>3
    <3> QED
      BY <3>1, <2>2, PrefixInChains DEF NextHash
  <2>5. MirroredRow(p) \in [hash : Chains, size : Size]
    BY <2>3, <2>4 DEF MirroredRow
  <2>6. mirrored' = mirrored \/ mirrored' = mirrored \cup {MirroredRow(p)}
    BY <1>7 DEF insert_mirrored_entry
  <2>7. mirrored' \subseteq [hash : Chains, size : Size] /\ IsFiniteSet(mirrored')
    <3>1. IsFiniteSet(mirrored) /\ mirrored \subseteq [hash : Chains, size : Size]
      BY <1>a DEF MirrorTables
    <3>2. IsFiniteSet(mirrored \cup {MirroredRow(p)})
      BY <3>1, FS_AddElement
    <3> QED
      BY <3>1, <3>2, <2>5, <2>6
  <2>8. MirrorTables'
    BY <2>1, <2>7, <1>a DEF MirrorTables
  <2>9. CASE NewTick(p)
    BY <2>1, <2>8, <2>9, <1>a, NewTickOK
  <2>10. CASE ~ NewTick(p)
    <3>1. /\ progress[p].count + 1 # Len(target[p])
          /\ progress'[p].count = progress[p].count + 1
          /\ UNCHANGED <<mirror_pc, pending, observing, verified, target>>
      BY <1>7, <2>10, <1>a DEF insert_mirrored_entry, TickDomains
    <3>2. progress'[p].count \in Nat /\ progress'[p].count < Len(target[p])
      BY <3>1, <2>2, <2>3
    <3>3. WatcherOK(p)'
      BY <3>1, <3>2, <2>1, <1>a DEF WatcherOK
    <3> QED
      BY <2>1, <2>8, <3>3
  <2> QED
    BY <2>9, <2>10
<1>8. CASE EndMirrorTick(p) \/ MirrorCrash(p)
  <2>1. UNCHANGED <<serving, operator, resolves, observed, found, unresolved, mirrored>>
    BY <1>8 DEF EndMirrorTick, MirrorCrash
  <2>2. MirrorTables'
    BY <2>1, <1>a DEF MirrorTables
  <2> QED
    BY <1>8, <2>1, <2>2, <1>a, NewTickOK DEF EndMirrorTick, MirrorCrash
<1> QED
  BY <1>1, <1>2, <1>3, <1>4, <1>5, <1>6, <1>7, <1>8 DEF Watcher

LEMMA SameTickOK ==
  ASSUME TickDomains, \A q \in MirrorProc : WatcherOK(q), UNCHANGED mirrorTick,
         observed \subseteq observed'
  PROVE  TickDomains' /\ \A q \in MirrorProc : WatcherOK(q)'
<1>1. TickDomains'
  BY DEF TickDomains, mirrorTick
<1>2. \A q \in MirrorProc : SameTick(q)
  BY DEF SameTick, mirrorTick
<1> QED
  BY <1>1, <1>2, OthersOK

LEMMA MirrorInvInit == MirrorInit => MirrorInv
<1> SUFFICES ASSUME MirrorInit PROVE MirrorInv
  OBVIOUS
<1>1. TickDomains
  BY DEF MirrorInit, TickDomains, NoProgress
<1>2. \A p \in MirrorProc : WatcherOK(p)
  BY DEF MirrorInit, WatcherOK
<1>3. MirrorTables
  BY FS_EmptySet, MirrorAssumption DEF MirrorInit, MirrorTables
<1> QED
  BY <1>1, <1>2, <1>3 DEF MirrorInv

LEMMA MirrorInvStep == MirrorInv /\ [MirrorNext]_mirrorVars => MirrorInv'
<1> SUFFICES ASSUME MirrorInv, [MirrorNext]_mirrorVars PROVE MirrorInv'
  OBVIOUS
<1>a. MirrorTables /\ TickDomains /\ \A p \in MirrorProc : WatcherOK(p)
  BY DEF MirrorInv
<1>1. ASSUME NEW p \in MirrorProc, Watcher(p) PROVE MirrorInv'
  <2>1. MirrorTables' /\ WatcherOK(p)' /\ observed \subseteq observed'
    BY <1>1, WatcherStep
  <2>2. TickDomains' /\ \A q \in MirrorProc \ {p} : SameTick(q)
    BY <1>1, <1>a, WatcherFrame
  <2>3. \A q \in MirrorProc : WatcherOK(q)'
    BY <2>1, <2>2, <1>a, OthersOK
  <2> QED
    BY <2>1, <2>2, <2>3 DEF MirrorInv
<1>2. ASSUME NEW s \in Source, ServeHead(s) PROVE MirrorInv'
  <2>1. UNCHANGED <<observed, found, unresolved, mirrored, operator, resolves>> /\ UNCHANGED mirrorTick
    BY <1>2 DEF ServeHead, mirrorDb
  <2>2. serving' \in [Source -> SourceHead \cup {NoHead}]
    BY <1>2, <1>a DEF ServeHead, MirrorTables
  <2>3. MirrorTables'
    BY <2>1, <2>2, <1>a DEF MirrorTables
  <2> QED
    BY <2>1, <2>3, <1>a, SameTickOK DEF MirrorInv
<1>3. ASSUME NEW root \in SourceHead, NEW discard \in Discards, resolve_equivocation(root, discard)
      PROVE  MirrorInv'
  <2>1. UNCHANGED <<serving, observed, found, mirrored>> /\ UNCHANGED mirrorTick
    BY <1>3 DEF resolve_equivocation
  <2>2. unresolved' \subseteq found' /\ resolves' \in 0 .. MaxResolves
    BY <1>3, <1>a, MirrorAssumption DEF resolve_equivocation, MirrorTables
  <2>3. /\ operator' \in [pc : {"idle", "discard", "done"}, root : SourceHead \cup {NoHead},
                          discard : BOOLEAN]
        /\ operator'.root \in SourceHead
    BY <1>3, MirrorAssumption DEF resolve_equivocation
  <2>4. MirrorTables'
    BY <2>1, <2>2, <2>3, <1>a DEF MirrorTables
  <2> QED
    BY <2>1, <2>4, <1>a, SameTickOK DEF MirrorInv
<1>4. CASE discard_mirrored_entries_from
  <2>1. UNCHANGED <<serving, observed, found, unresolved, resolves>> /\ UNCHANGED mirrorTick
    BY <1>4 DEF discard_mirrored_entries_from
  <2>2. mirrored' \subseteq mirrored
    BY <1>4 DEF discard_mirrored_entries_from
  <2>3. IsFiniteSet(mirrored')
    BY <2>2, <1>a, FS_Subset DEF MirrorTables
  <2>4. /\ operator' \in [pc : {"idle", "discard", "done"}, root : SourceHead \cup {NoHead},
                          discard : BOOLEAN]
        /\ operator'.pc = "done"
    BY <1>4, <1>a DEF discard_mirrored_entries_from, MirrorTables
  <2>5. MirrorTables'
    BY <2>1, <2>2, <2>3, <2>4, <1>a DEF MirrorTables
  <2> QED
    BY <2>1, <2>5, <1>a, SameTickOK DEF MirrorInv
<1>5. CASE Return
  <2>1. UNCHANGED <<serving, observed, found, unresolved, mirrored, resolves>> /\ UNCHANGED mirrorTick
    BY <1>5 DEF Return, mirrorDb
  <2>2. /\ operator' \in [pc : {"idle", "discard", "done"}, root : SourceHead \cup {NoHead},
                          discard : BOOLEAN]
        /\ operator'.pc = "idle"
    BY <1>5 DEF Return
  <2>3. MirrorTables'
    BY <2>1, <2>2, <1>a DEF MirrorTables
  <2> QED
    BY <2>1, <2>3, <1>a, SameTickOK DEF MirrorInv
<1>6. CASE UNCHANGED mirrorVars
  <2>1. UNCHANGED <<serving, observed, found, unresolved, mirrored, operator, resolves>>
        /\ UNCHANGED mirrorTick
    BY <1>6 DEF mirrorVars, mirrorTick
  <2>2. MirrorTables'
    BY <2>1, <1>a DEF MirrorTables
  <2> QED
    BY <2>1, <2>2, <1>a, SameTickOK DEF MirrorInv
<1> QED
  BY <1>1, <1>2, <1>3, <1>4, <1>5, <1>6 DEF MirrorNext, Operator

LEMMA MirrorInvAlways == MirrorSpec => []MirrorInv
BY MirrorInvInit, MirrorInvStep, PTL DEF MirrorSpec

LEMMA MirrorInvTypes == MirrorInv => MirrorTypeOK
<1> SUFFICES ASSUME MirrorInv PROVE MirrorTypeOK
  OBVIOUS
<1>a. MirrorTables /\ TickDomains /\ \A p \in MirrorProc : WatcherOK(p)
  BY DEF MirrorInv
<1>1. \A p \in MirrorProc : progress[p].count \in Nat \/ mirror_pc[p] \notin {"prev", "fetch"}
  BY <1>a DEF WatcherOK
<1>2. /\ DOMAIN mirror_pc = MirrorProc /\ DOMAIN pending = MirrorProc
      /\ mirror_pc = [p \in MirrorProc |-> mirror_pc[p]] /\ pending = [p \in MirrorProc |-> pending[p]]
  BY <1>a DEF TickDomains
<1> QED
  BY <1>a, <1>2 DEF MirrorTypeOK, MirrorTables, WatcherOK

\* In every behaviour the tables and the ticks have their types, a watcher
\* past the choice of a target has one its sources reported, and its
\* verified_count stays short of it (mirror_watcher.rs, chain/src/mirror.rs).
THEOREM MirrorTypes == MirrorSpec => []MirrorTypeOK
BY MirrorInvAlways, MirrorInvTypes, PTL

-----------------------------------------------------------------------------
(* Conflicting heads *)

\* What a step of a watcher may do to the heads on record: a new one is in the
\* hands of the watcher that stored it, and a watcher lets go of the head it
\* compares only when the head has no conflict or the conflict is recorded.
LEMMA ObservedStep ==
  ASSUME MirrorInv, "crash" \notin MirrorFaults, "storage" \notin MirrorFaults,
         NEW p \in MirrorProc, Watcher(p)
  PROVE  /\ found \subseteq found'
         /\ \/ observed' = observed
            \/ /\ mirror_pc[p] = "poll" /\ mirror_pc'[p] = "check"
               /\ observed' = observed \cup {observing'[p]}
         /\ mirror_pc[p] \in {"check", "record"} =>
              \/ mirror_pc'[p] \in {"check", "record"} /\ observing'[p] = observing[p]
              \/ detect_equivocation(observing[p]) = {}
              \/ Len(observing[p].head) \in found'
<1> USE DEF mirrorDb, mirrorTick, envVars
<1>a. TickDomains
  BY DEF MirrorInv
<1>1. ASSUME NEW s \in Source, insert_observation(p, s)
      PROVE  /\ mirror_pc[p] = "poll" /\ found' = found
             /\ \/ observed' = observed
                \/ mirror_pc'[p] = "check" /\ observed' = observed \cup {observing'[p]}
  BY <1>1, <1>a DEF insert_observation, TickDomains
<1>2. CASE check_equivocation(p)
  <2>1. observed' = observed /\ found' = found
    BY <1>2 DEF check_equivocation
  <2>2. \/ detect_equivocation(observing[p]) = {}
        \/ mirror_pc'[p] = "record" /\ observing'[p] = observing[p]
    BY <1>2, <1>a DEF check_equivocation, TickDomains
  <2> QED
    BY <2>1, <2>2
<1>3. CASE record_equivocation(p)
  BY <1>3 DEF record_equivocation
<1>4. CASE backfill_network(p) \/ mirrored_progress(p) \/ mirrored_entry_hash_at(p)
           \/ insert_mirrored_entry(p) \/ EndMirrorTick(p)
  BY <1>4 DEF backfill_network, mirrored_progress, mirrored_entry_hash_at,
              insert_mirrored_entry, EndMirrorTick
<1>5. ~ CheckFails(p) /\ ~ MirrorCrash(p)
  BY DEF CheckFails, MirrorCrash
<1> QED
  BY <1>1, <1>2, <1>3, <1>4, <1>5 DEF Watcher

\* Conflict is symmetric and outlives new heads.
LEMMA ConflictGrows ==
  ASSUME observed \subseteq observed', NEW o
  PROVE  detect_equivocation(o) \subseteq detect_equivocation(o)'
BY DEF detect_equivocation

LEMMA ConflictsWatcher ==
  ASSUME MirrorInv, ConflictsInv, "crash" \notin MirrorFaults, "storage" \notin MirrorFaults,
         NEW p \in MirrorProc, Watcher(p)
  PROVE  ConflictsInv'
<1>a. TickDomains /\ observed \subseteq observed'
  BY WatcherStep DEF MirrorInv
<1>b. \A q \in MirrorProc \ {p} : SameTick(q)
  BY <1>a, WatcherFrame
<1>c. found \subseteq found'
  BY ObservedStep
<1> SUFFICES ASSUME NEW o \in observed', NEW r \in detect_equivocation(o)'
             PROVE  \/ Len(o.head) \in found'
                    \/ \E q \in MirrorProc : /\ mirror_pc'[q] \in {"check", "record"}
                                             /\ Len(observing'[q].head) = Len(o.head)
                                             /\ detect_equivocation(observing[q])' # {}
  BY DEF ConflictsInv
<1>d. /\ r \in observed' /\ r.source # o.source
      /\ Len(r.head) = Len(o.head) /\ r.head # o.head
  BY DEF detect_equivocation
<1>1. CASE o \in observed /\ r \in observed
  <2>1. detect_equivocation(o) # {}
    BY <1>1, <1>d DEF detect_equivocation
  <2>2. CASE Len(o.head) \in found
    BY <2>2, <1>c
  <2>3. CASE Len(o.head) \notin found
    <3>1. PICK q \in MirrorProc : /\ mirror_pc[q] \in {"check", "record"}
                                  /\ Len(observing[q].head) = Len(o.head)
                                  /\ detect_equivocation(observing[q]) # {}
      BY <1>1, <2>1, <2>3, Zenon DEF ConflictsInv
    <3>2. CASE q # p
      <4>1. mirror_pc'[q] = mirror_pc[q] /\ observing'[q] = observing[q]
        BY <3>2, <1>b DEF SameTick
      <4>2. detect_equivocation(observing[q])' # {}
        BY <4>1, <3>1, <1>a DEF detect_equivocation
      <4> QED
        BY <3>1, <4>1, <4>2
    <3>3. CASE q = p
      <4>1. CASE mirror_pc'[p] \in {"check", "record"} /\ observing'[p] = observing[p]
        <5>1. detect_equivocation(observing[p])' # {}
          BY <4>1, <3>1, <3>3, <1>a DEF detect_equivocation
        <5> QED
          BY <3>1, <3>3, <4>1, <5>1
      <4>2. CASE Len(observing[p].head) \in found'
        BY <4>2, <3>1, <3>3
      <4> QED
        BY <3>1, <3>3, <4>1, <4>2, ObservedStep, Zenon
    <3> QED
      BY <3>2, <3>3
  <2> QED
    BY <2>2, <2>3, Zenon
<1>2. CASE ~ (o \in observed /\ r \in observed)
  <2>1. mirror_pc'[p] = "check" /\ observed' = observed \cup {observing'[p]}
    BY <1>2, <1>d, ObservedStep
  <2>2. observing'[p] = o \/ observing'[p] = r
    BY <1>2, <1>d, <2>1
  <2>3. Len(observing'[p].head) = Len(o.head)
    BY <2>2, <1>d
  <2>4. detect_equivocation(observing[p])' # {}
    BY <2>2, <1>d DEF detect_equivocation
  <2> QED
    BY <2>1, <2>3, <2>4, Zenon
<1> QED
  BY <1>1, <1>2, Zenon

\* Heads on record that contradict each other are found, for any number of
\* watchers and resolutions, as long as no statement fails and no process dies
\* between storing a head and comparing it (record_verified_head and
\* check_equivocation of mirror_watcher.rs).
THEOREM EquivocationIsFound ==
  ASSUME "crash" \notin MirrorFaults, "storage" \notin MirrorFaults
  PROVE  MirrorSpec => []ConflictsAreFound
<1> DEFINE IInv == MirrorInv /\ ConflictsInv
<1>1. MirrorInit => IInv
  BY MirrorInvInit DEF MirrorInit, ConflictsInv
<1>2. IInv /\ [MirrorNext]_mirrorVars => IInv'
  <2> SUFFICES ASSUME IInv, [MirrorNext]_mirrorVars PROVE ConflictsInv'
    BY MirrorInvStep
  <2>1. ASSUME NEW p \in MirrorProc, Watcher(p) PROVE ConflictsInv'
    BY <2>1, ConflictsWatcher
  <2>2. CASE UNCHANGED <<observed, found, mirror_pc, observing>>
    BY <2>2 DEF ConflictsInv, detect_equivocation
  <2>3. CASE Operator \/ UNCHANGED mirrorVars \/ \E s \in Source : ServeHead(s)
    <3>1. UNCHANGED <<observed, found, mirror_pc, observing>>
      BY <2>3 DEF Operator, resolve_equivocation, discard_mirrored_entries_from, Return,
                  ServeHead, mirrorVars, mirrorDb, mirrorTick
    <3> QED
      BY <2>2, <3>1
  <2> QED
    BY <2>1, <2>3 DEF MirrorNext
<1>3. IInv => ConflictsAreFound
  BY DEF ConflictsInv, ConflictsAreFound
<1> QED
  BY <1>1, <1>2, <1>3, PTL DEF MirrorSpec

-----------------------------------------------------------------------------
(* The gate, and the operator's discard *)

\* Nothing is stored while a finding is open, if the node runs one server: the
\* gate and the inserts behind it are statements of their own, and only another
\* process's phase 1 could open a finding between them (backfill_network).
THEOREM GateIsHeld ==
  ASSUME SoleWatcher
  PROVE  MirrorSpec => GateHolds
<1> DEFINE IInv == MirrorInv /\ GateInv
<1> USE DEF mirrorDb, mirrorTick, envVars
<1>1. MirrorInit => IInv
  BY MirrorInvInit DEF MirrorInit, GateInv
<1>2. IInv /\ [MirrorNext]_mirrorVars => IInv' /\ (mirrored' \subseteq mirrored \/ unresolved = {})
  <2> SUFFICES ASSUME IInv, [MirrorNext]_mirrorVars
               PROVE  GateInv' /\ (mirrored' \subseteq mirrored \/ unresolved = {})
    BY MirrorInvStep
  <2>a. TickDomains
    BY DEF MirrorInv
  <2>1. ASSUME NEW p \in MirrorProc, Watcher(p)
        PROVE  GateInv' /\ (mirrored' \subseteq mirrored \/ unresolved = {})
    <3>1. SUFFICES /\ mirror_pc'[p] \in {"progress", "prev", "fetch"} => unresolved' = {}
                   /\ mirrored' \subseteq mirrored \/ unresolved = {}
      BY DEF SoleWatcher, GateInv
    <3>2. mirror_pc[p] \in {"progress", "prev", "fetch"} => unresolved = {}
      BY DEF GateInv
    <3>3. CASE NewTick(p) /\ UNCHANGED unresolved
      <4>1. mirror_pc'[p] = "poll"
        BY <3>3, <2>a, NewTickFrame
      <4>2. mirrored' \subseteq mirrored \/ mirror_pc[p] = "fetch"
        BY <2>1, Zenon DEF Watcher, insert_observation, check_equivocation, record_equivocation,
                    CheckFails, backfill_network, mirrored_progress, mirrored_entry_hash_at,
                    insert_mirrored_entry, EndMirrorTick, MirrorCrash
      <4> QED
        BY <4>1, <4>2, <3>2
    <3>4. CASE \E s \in Source : insert_observation(p, s)
      BY <3>4, <2>a DEF insert_observation, TickDomains
    <3>5. CASE check_equivocation(p)
      BY <3>5, <2>a DEF check_equivocation, TickDomains
    <3>6. CASE record_equivocation(p) \/ CheckFails(p)
      BY <3>6, <2>a DEF record_equivocation, CheckFails, TickDomains
    <3>7. CASE backfill_network(p)
      BY <3>3, <3>7 DEF backfill_network
    <3>8. CASE mirrored_progress(p) \/ mirrored_entry_hash_at(p) \/ insert_mirrored_entry(p)
      BY <3>8, <3>2 DEF mirrored_progress, mirrored_entry_hash_at, insert_mirrored_entry
    <3>9. CASE EndMirrorTick(p) \/ MirrorCrash(p)
      BY <3>3, <3>9 DEF EndMirrorTick, MirrorCrash
    <3> QED
      BY <2>1, <3>4, <3>5, <3>6, <3>7, <3>8, <3>9 DEF Watcher
  <2>2. CASE Operator \/ UNCHANGED mirrorVars \/ \E s \in Source : ServeHead(s)
    <3>1. mirror_pc' = mirror_pc /\ unresolved' \subseteq unresolved /\ mirrored' \subseteq mirrored
      BY <2>2 DEF Operator, resolve_equivocation, discard_mirrored_entries_from, Return,
                  ServeHead, mirrorVars
    <3> QED
      BY <3>1 DEF GateInv
  <2> QED
    BY <2>1, <2>2 DEF MirrorNext
<1>3. IInv /\ [MirrorNext]_mirrorVars => [mirrored' \subseteq mirrored \/ unresolved = {}]_mirrorVars
  BY <1>2
<1> QED
  BY <1>1, <1>2, <1>3, PTL DEF MirrorSpec, GateHolds

-----------------------------------------------------------------------------
(* The mirrored chain *)

LEMMA PrefixElements ==
  ASSUME NEW h \in Seq(MirrorEntry), NEW n \in 0 .. Len(h)
  PROVE  /\ Prefix(h, n) \in Seq(MirrorEntry) /\ Len(Prefix(h, n)) = n
         /\ \A i \in 1 .. n : Prefix(h, n)[i] = h[i]
<1>1. n \in Int /\ 1 \in Int /\ \A i \in 1 .. n : h[i] \in MirrorEntry
  BY SeqLen
<1>2. /\ SubSeq(h, 1, n) \in Seq(MirrorEntry)
      /\ Len(SubSeq(h, 1, n)) = IF 1 <= n THEN n - 1 + 1 ELSE 0
      /\ \A i \in 1 .. n - 1 + 1 : SubSeq(h, 1, n)[i] = h[1 + i - 1]
  BY <1>1, SeqSlice
<1> QED
  BY <1>1, <1>2 DEF Prefix

\* The elements of a chain are those of the head it is a prefix of.
LEMMA ChainElements ==
  ASSUME NEW k \in Chains
  PROVE  /\ k \in Seq(MirrorEntry) /\ Len(k) \in Nat /\ Len(k) > 0
         /\ \E h \in SourceHead : Len(k) <= Len(h) /\ \A i \in 1 .. Len(k) : k[i] = h[i]
<1>1. PICK h \in SourceHead : \E n \in 1 .. Len(h) : k = Prefix(h, n)
  BY DEF Chains
<1>2. PICK n \in 1 .. Len(h) : k = Prefix(h, n)
  BY <1>1
<1>3. h \in Seq(MirrorEntry) /\ Len(h) \in Nat
  BY HeadIsSeq
<1>4. n \in 0 .. Len(h) /\ n \in Nat /\ n > 0 /\ n <= Len(h)
  BY <1>3
<1>5. k \in Seq(MirrorEntry) /\ Len(k) = n /\ \A i \in 1 .. n : k[i] = h[i]
  BY <1>2, <1>3, <1>4, PrefixElements
<1> QED
  BY <1>4, <1>5

\* Two heads of one history agree where both have an entry.
LEMMA HeadsAgree ==
  ASSUME NEW g \in SourceHead, NEW h \in SourceHead, HeadExtends(g, h),
         NEW i \in Nat, 1 <= i, i <= Len(g)
  PROVE  g[i] = h[i]
<1>1. h \in Seq(MirrorEntry) /\ Len(h) \in Nat /\ Len(g) \in Nat
  BY HeadIsSeq
<1>2. Len(g) \in 0 .. Len(h) /\ Prefix(h, Len(g)) = g
  BY <1>1 DEF HeadExtends
<1>3. \A j \in 1 .. Len(g) : Prefix(h, Len(g))[j] = h[j]
  BY <1>1, <1>2, PrefixElements, Zenon
<1> QED
  BY <1>1, <1>2, <1>3

\* In one history a chain is determined by its length.
LEMMA OneChainPerLength ==
  ASSUME OneHistory, NEW k \in Chains, NEW l \in Chains, Len(k) = Len(l)
  PROVE  k = l
<1>1. PICK g \in SourceHead : Len(k) <= Len(g) /\ \A i \in 1 .. Len(k) : k[i] = g[i]
  BY ChainElements
<1>2. PICK h \in SourceHead : Len(l) <= Len(h) /\ \A i \in 1 .. Len(l) : l[i] = h[i]
  BY ChainElements
<1>3. k \in Seq(MirrorEntry) /\ l \in Seq(MirrorEntry) /\ Len(k) \in Nat
  BY ChainElements
<1>4. Len(g) \in Nat /\ Len(h) \in Nat
  BY HeadIsSeq
<1>5. \A i \in 1 .. Len(k) : g[i] = h[i]
  <2> SUFFICES ASSUME NEW i \in 1 .. Len(k) PROVE g[i] = h[i]
    OBVIOUS
  <2>1. i \in Nat /\ 1 <= i /\ i <= Len(g) /\ i <= Len(h)
    BY <1>1, <1>2, <1>3, <1>4
  <2>2. HeadExtends(g, h) \/ HeadExtends(h, g)
    BY DEF OneHistory
  <2> QED
    BY <2>1, <2>2, HeadsAgree
<1>6. \A i \in 1 .. Len(k) : k[i] = l[i]
  BY <1>1, <1>2, <1>5
<1> QED
  BY <1>3, <1>6, SeqSame

\* What a step does to the rows, with nothing discarded.
LEMMA ChainedWatcher ==
  ASSUME OneHistory, MirrorInv, ChainedInv, NEW p \in MirrorProc, Watcher(p)
  PROVE  ChainedInv'
<1> USE DEF mirrorDb, mirrorTick, envVars
<1> DEFINE N == Cardinality(mirrored)
<1>a. MirrorTables /\ TickDomains /\ WatcherOK(p)
  BY DEF MirrorInv
<1>b. N \in Nat /\ IsFiniteSet(mirrored)
  BY <1>a, FS_CardinalityType DEF MirrorTables
<1>c. TickDomains' /\ \A q \in MirrorProc \ {p} : SameTick(q)
  BY <1>a, WatcherFrame
<1>d. operator' = operator
  BY Zenon DEF Watcher, insert_observation, check_equivocation, record_equivocation,
         CheckFails, backfill_network, mirrored_progress, mirrored_entry_hash_at,
         insert_mirrored_entry, EndMirrorTick, MirrorCrash
<1>1. CASE mirrored' = mirrored
  <2>1. mirror_pc'[p] \in {"prev", "fetch"} => progress'[p].count <= N
    <3>1. CASE NewTick(p)
      BY <3>1, <1>a, NewTickFrame
    <3>2. CASE \E s \in Source : insert_observation(p, s)
      BY <3>2, <1>a DEF insert_observation, TickDomains
    <3>3. CASE check_equivocation(p) \/ record_equivocation(p) \/ CheckFails(p)
      BY <3>3, <1>a DEF check_equivocation, record_equivocation, CheckFails, TickDomains
    <3>4. CASE backfill_network(p)
      BY <3>1, <3>4, <1>a DEF backfill_network, TickDomains
    <3>5. CASE mirrored_progress(p)
      <4>1. CASE ~ NewTick(p)
        <5>1. progress'[p].count = N
          BY <3>5, <4>1, <1>a DEF mirrored_progress, TickDomains
        <5> QED
          BY <5>1, <1>b
      <4> QED
        BY <3>1, <4>1
    <3>6. CASE mirrored_entry_hash_at(p)
      <4>1. CASE ~ NewTick(p)
        <5>1. mirror_pc[p] = "prev" /\ progress'[p].count = progress[p].count
          BY <3>6, <4>1, <1>a DEF mirrored_entry_hash_at, TickDomains
        <5> QED
          BY <5>1 DEF ChainedInv
      <4> QED
        BY <3>1, <4>1
    <3>7. CASE insert_mirrored_entry(p)
      <4>1. CASE ~ NewTick(p)
        <5>1. MirroredRow(p) \in mirrored /\ ~ \E k \in Hashes : RowSeq(k) = RowSeq(NextHash(p))
          BY <3>7, <4>1, <1>1 DEF insert_mirrored_entry
        <5>2. MirroredRow(p).hash = NextHash(p)
          BY DEF MirroredRow
        <5>3. NextHash(p) \in Hashes
          BY <5>1, <5>2 DEF Hashes
        <5> QED
          BY <5>1, <5>3
      <4> QED
        BY <3>1, <4>1
    <3>8. CASE EndMirrorTick(p) \/ MirrorCrash(p)
      BY <3>1, <3>8 DEF EndMirrorTick, MirrorCrash
    <3> QED
      BY <3>2, <3>3, <3>4, <3>5, <3>6, <3>7, <3>8 DEF Watcher
  <2>2. \A q \in MirrorProc : mirror_pc'[q] \in {"prev", "fetch"} => progress'[q].count <= N
    BY <2>1, <1>c DEF ChainedInv, SameTick
  <2> HIDE DEF N
  <2>3. Cardinality(mirrored') = N /\ Cardinality(mirrored) = N
    BY <1>1 DEF N
  <2> QED
    BY <1>1, <1>d, <2>2, <2>3 DEF ChainedInv
<1>2. CASE mirrored' # mirrored
  <2>1. insert_mirrored_entry(p)
    BY <1>2, Zenon DEF Watcher, insert_observation, check_equivocation, record_equivocation,
                CheckFails, backfill_network, mirrored_progress, mirrored_entry_hash_at,
                EndMirrorTick, MirrorCrash
  <2> DEFINE n == progress[p].count
             x == MirroredRow(p)
  <2>2. /\ mirror_pc[p] = "fetch" /\ target[p] \in SourceHead
        /\ n \in Nat /\ n < Len(target[p]) /\ n <= N
    BY <2>1, <1>a DEF insert_mirrored_entry, WatcherOK, ChainedInv
  <2>3. target[p] \in Seq(MirrorEntry) /\ Len(target[p]) \in Nat
    BY <2>2, HeadIsSeq
  <2>4. n + 1 \in 1 .. Len(target[p]) /\ n + 1 \in 0 .. Len(target[p])
    BY <2>2, <2>3
  <2>5. NextHash(p) \in Chains /\ Len(NextHash(p)) = n + 1
    BY <2>2, <2>3, <2>4, PrefixInChains, PrefixElements DEF NextHash
  <2>6. mirrored' = mirrored \cup {x} /\ ~ \E k \in Hashes : RowSeq(k) = RowSeq(NextHash(p))
    BY <2>1, <1>2 DEF insert_mirrored_entry
  <2>7. x.hash = NextHash(p)
    BY DEF MirroredRow
  <2>8. n = N
    <3> SUFFICES ASSUME n < N PROVE FALSE
      BY <2>2, <1>b
    <3>1. n + 1 \in 1 .. N
      BY <2>2, <1>b
    <3>2. PICK m \in mirrored : Len(m.hash) = n + 1
      BY <3>1 DEF ChainedInv
    <3>3. m.hash \in Chains /\ m.hash \in Hashes
      BY <1>a DEF MirrorTables, Hashes
    <3>4. m.hash = NextHash(p)
      BY <3>2, <3>3, <2>5, OneChainPerLength
    <3> QED
      BY <3>3, <3>4, <2>6
  <2>9. \A m \in mirrored : Len(m.hash) \in 1 .. N
    BY DEF ChainedInv
  <2>10. x \notin mirrored
    BY <2>5, <2>7, <2>8, <2>9, <1>b
  <2>11. Cardinality(mirrored') = N + 1
    BY <2>6, <2>10, <1>b, FS_AddElement
  <2>12. mirror_pc'[p] \in {"prev", "fetch"} => progress'[p].count <= N + 1
    <3>1. CASE NewTick(p)
      BY <3>1, <1>a, NewTickFrame
    <3>2. CASE ~ NewTick(p)
      <4>1. progress'[p].count = n + 1
        BY <2>1, <3>2, <1>a DEF insert_mirrored_entry, TickDomains
      <4> QED
        BY <4>1, <2>8, <1>b
    <3> QED
      BY <3>1, <3>2
  <2>13. \A q \in MirrorProc : mirror_pc[q] \in {"prev", "fetch"} => progress[q].count \in Nat
    BY DEF MirrorInv, WatcherOK
  <2>14. \A q \in MirrorProc : mirror_pc[q] \in {"prev", "fetch"} => progress[q].count <= N
    BY DEF ChainedInv
  <2>15. \A i \in 1 .. N : \E m \in mirrored : Len(m.hash) = i
    BY DEF ChainedInv
  <2> HIDE DEF N, n, x
  <2>16. \A q \in MirrorProc : mirror_pc'[q] \in {"prev", "fetch"} => progress'[q].count <= N + 1
    <3> SUFFICES ASSUME NEW q \in MirrorProc, q # p, mirror_pc'[q] \in {"prev", "fetch"}
                 PROVE  progress'[q].count <= N + 1
      BY <2>12
    <3>1. mirror_pc'[q] = mirror_pc[q] /\ progress'[q] = progress[q]
      BY <1>c DEF SameTick
    <3> QED
      BY <3>1, <2>13, <2>14, <1>b
  <2>17. \A m \in mirrored' : Len(m.hash) \in 1 .. N + 1
    BY <2>5, <2>6, <2>7, <2>8, <2>9, <1>b
  <2>18. \A i \in 1 .. N + 1 : \E m \in mirrored' : Len(m.hash) = i
    BY <2>5, <2>6, <2>7, <2>8, <2>15, <1>b
  <2> QED
    BY <1>d, <2>11, <2>16, <2>17, <2>18 DEF ChainedInv
<1> QED
  BY <1>1, <1>2

\* While the author signs one history and nothing is discarded, the mirror
\* stores one hash chain from genesis, none missing and none twice, whatever
\* the number of watchers that interleave their statements and under every
\* fault: the count of rows is the leaf index of the next entry, which is what
\* backfill_page of mirror_watcher.rs takes it for.
THEOREM MirrorStoresOneChain ==
  ASSUME OneHistory
  PROVE  MirrorSpec => []MirrorChained
<1> DEFINE IInv == MirrorInv /\ ChainedInv
<1>1. MirrorInit => IInv
  <2> SUFFICES ASSUME MirrorInit PROVE ChainedInv
    BY MirrorInvInit
  <2>1. Cardinality(mirrored) = 0 /\ mirrored = {}
    BY FS_EmptySet DEF MirrorInit
  <2> QED
    BY <2>1 DEF MirrorInit, ChainedInv
<1>2. IInv /\ [MirrorNext]_mirrorVars => IInv'
  <2> SUFFICES ASSUME IInv, [MirrorNext]_mirrorVars PROVE ChainedInv'
    BY MirrorInvStep
  <2>1. ASSUME NEW p \in MirrorProc, Watcher(p) PROVE ChainedInv'
    BY <2>1, ChainedWatcher
  <2>2. CASE Operator \/ UNCHANGED mirrorVars \/ \E s \in Source : ServeHead(s)
    <3>1. UNCHANGED <<mirrored, mirror_pc, progress>> /\ operator'.pc # "discard"
      <4>1. ~ discard_mirrored_entries_from
        BY DEF ChainedInv, discard_mirrored_entries_from
      <4>2. ASSUME NEW root \in SourceHead, NEW discard \in Discards,
                   resolve_equivocation(root, discard)
            PROVE  UNCHANGED <<mirrored, mirror_pc, progress>> /\ operator'.pc # "discard"
        <5>1. discard = FALSE
          BY Zenon DEF OneHistory
        <5> QED
          BY <4>2, <5>1 DEF resolve_equivocation, mirrorTick
      <4>3. CASE Return
        BY <4>3 DEF Return, mirrorDb, mirrorTick
      <4>4. CASE UNCHANGED mirrorVars \/ \E s \in Source : ServeHead(s)
        BY <4>4 DEF ServeHead, mirrorVars, mirrorDb, mirrorTick, ChainedInv
      <4> QED
        BY <2>2, <4>1, <4>2, <4>3, <4>4 DEF Operator
    <3> QED
      BY <3>1 DEF ChainedInv
  <2> QED
    BY <2>1, <2>2 DEF MirrorNext
<1>3. IInv => MirrorChained
  <2> SUFFICES ASSUME IInv, mirrored # {}
               PROVE  \E m \in mirrored :
                        /\ Hashes = {Prefix(m.hash, n) : n \in 1 .. Len(m.hash)}
                        /\ Cardinality(mirrored) = Len(m.hash)
    BY DEF MirrorChained
  <2> DEFINE N == Cardinality(mirrored)
  <2>1. IsFiniteSet(mirrored) /\ \A m \in mirrored : m.hash \in Chains
    BY DEF MirrorInv, MirrorTables
  <2>2. N \in Nat /\ N # 0
    BY <2>1, FS_CardinalityType, FS_EmptySet
  <2>3. PICK m \in mirrored : Len(m.hash) = N
    BY <2>2 DEF ChainedInv
  <2>4. \A k \in Hashes : k \in Chains /\ Len(k) \in 1 .. N
    BY <2>1 DEF Hashes, ChainedInv
  <2>5. \A n \in 1 .. N : \E k \in Hashes : Len(k) = n
    BY DEF Hashes, ChainedInv
  <2> HIDE DEF N
  <2>6. PICK h \in SourceHead : N <= Len(h) /\ \A i \in 1 .. N : m.hash[i] = h[i]
    BY <2>1, <2>3, ChainElements
  <2>7. h \in Seq(MirrorEntry) /\ Len(h) \in Nat /\ m.hash \in Seq(MirrorEntry)
    BY <2>1, HeadIsSeq, ChainElements
  <2>8. ASSUME NEW n \in 1 .. N
        PROVE  Prefix(m.hash, n) \in Chains /\ Len(Prefix(m.hash, n)) = n
    <3>1. n \in 0 .. N /\ n \in 0 .. Len(h) /\ n \in 1 .. Len(h)
      BY <2>2, <2>6, <2>7
    <3>2. /\ Prefix(m.hash, n) \in Seq(MirrorEntry) /\ Len(Prefix(m.hash, n)) = n
          /\ \A i \in 1 .. n : Prefix(m.hash, n)[i] = m.hash[i]
      BY <3>1, <2>3, <2>7, PrefixElements, Zenon
    <3>3. /\ Prefix(h, n) \in Seq(MirrorEntry) /\ Len(Prefix(h, n)) = n
          /\ \A i \in 1 .. n : Prefix(h, n)[i] = h[i]
      BY <3>1, <2>7, PrefixElements
    <3>4. \A i \in 1 .. n : i \in 1 .. N
      BY <2>2
    <3>5. \A i \in 1 .. n : Prefix(m.hash, n)[i] = Prefix(h, n)[i]
      BY <3>2, <3>3, <3>4, <2>6
    <3>6. Prefix(m.hash, n) = Prefix(h, n)
      BY <3>2, <3>3, <3>5, SeqSame
    <3> QED
      BY <3>1, <3>2, <3>6, PrefixInChains
  <2>9. \A k \in Hashes : k = Prefix(m.hash, Len(k))
    <3> SUFFICES ASSUME NEW k \in Hashes PROVE k = Prefix(m.hash, Len(k))
      OBVIOUS
    <3>1. k \in Chains /\ Len(k) \in 1 .. N
      BY <2>4
    <3>2. Prefix(m.hash, Len(k)) \in Chains /\ Len(Prefix(m.hash, Len(k))) = Len(k)
      BY <3>1, <2>8
    <3> QED
      BY <3>1, <3>2, OneChainPerLength
  <2>10. Hashes = {Prefix(m.hash, n) : n \in 1 .. N}
    BY <2>4, <2>5, <2>9
  <2> QED
    BY <2>3, <2>10 DEF N
<1> QED
  BY <1>1, <1>2, <1>3, PTL DEF MirrorSpec
=============================================================================
