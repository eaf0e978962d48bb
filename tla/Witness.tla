------------------------------ MODULE Witness ------------------------------
(***************************************************************************)
(* Witness cosigning of one shard: crates/server/src/witness_cosign.rs,    *)
(* the checkpoint table of crates/chain/src/mirror.rs, the cosignature     *)
(* table of crates/chain/src/postgres.rs and the majority rule of          *)
(* crates/protocol/src/{witness,cosigned_sth}.rs.                          *)
(*                                                                         *)
(* Every process of a node takes heads the author has signed, from a peer  *)
(* or from its own ledger, through decide.  The checkpoint and the         *)
(* cosignatures are rows of the node's database; the equivocating mark is  *)
(* memory of the process.  A verifier trusts a head once a majority of its *)
(* known list has a fresh cosignature over it.                             *)
(*                                                                         *)
(* A head is the sequence of the entries it covers: tree_size is its       *)
(* length and, hashes being collision-free, root_hash is the sequence      *)
(* itself.  A consistency proof exists exactly when one head is a prefix   *)
(* of the other.                                                           *)
(***************************************************************************)
EXTENDS Naturals, Sequences, FiniteSets

CONSTANTS
  Node,        \* nodes with a witness key: the verifier's known list
  WitnessProc,        \* server processes
  node,        \* the node each process belongs to
  WitnessedEntry,       \* ledger entries
  SignedHead,  \* the heads the author has signed
  Colluding,   \* nodes whose witness key the author's operator holds
  WitnessFaults,      \* which failures may happen
  MaxCrashes,  \* bound on crashes
  None         \* no checkpoint, no head

ASSUME WitnessAssumption ==
  /\ IsFiniteSet(Node)
  /\ node \in [WitnessProc -> Node]
  /\ SignedHead \subseteq Seq(WitnessedEntry) \ {<<>>}
  /\ Colluding \subseteq Node
  /\ \A p \in WitnessProc : node[p] \notin Colluding
  /\ MaxCrashes \in Nat
  /\ WitnessFaults \subseteq {"storage", "expiry", "conflict"}
  /\ None \notin SignedHead

VARIABLES
  checkpoint,    \* witness_checkpoints: the last head each node cosigned
  cosignatures,  \* witness_cosignatures: the heads each node's key cosigned
  fresh,         \* those whose observed_at is inside the freshness window
  evidence,      \* nodes with a row in equivocation_evidence
  equivocating,  \* HeadGossipTracker.equivocating_shards of each process
  confirmed,     \* processes about to record the evidence they confirmed
  witness_pc,            \* where each process is in decide
  head,          \* the head it decides on
  seen,          \* the checkpoint it read
  attest,        \* the checkpoint its reattest worker read
  trusted,       \* the heads verifiers have trusted
  crashes        \* crashes so far

decideVars == <<witness_pc, head, seen>>
witnessDb == <<checkpoint, cosignatures, fresh, evidence>>
witnessVars == <<checkpoint, cosignatures, fresh, evidence, equivocating, confirmed,
          witness_pc, head, seen, attest, trusted, crashes>>

Honest == Node \ Colluding

\* b extends a: the entries of a are the first ones of b.
Extends(a, b) == Len(a) <= Len(b) /\ \A i \in 1 .. Len(a) : a[i] = b[i]

Consistent(a, b) == Extends(a, b) \/ Extends(b, a)

\* The author signed two different roots for one size.
Conflict(a, b) == Len(a) = Len(b) /\ a # b

-----------------------------------------------------------------------------
\* A key its owner uses for every fork has cosigned every signed head.
WitnessInit ==
  /\ checkpoint = [n \in Node |-> None]
  /\ cosignatures = [n \in Node |-> IF n \in Colluding THEN SignedHead ELSE {}]
  /\ fresh = cosignatures
  /\ evidence = {}
  /\ equivocating = {}
  /\ confirmed = {}
  /\ witness_pc = [p \in WitnessProc |-> "idle"]
  /\ head = [p \in WitnessProc |-> None]
  /\ seen = [p \in WitnessProc |-> None]
  /\ attest = [p \in WitnessProc |-> None]
  /\ trusted = {}
  /\ crashes = 0

\* The decision is over, whatever it was.
Finish(p) ==
  /\ witness_pc' = [witness_pc EXCEPT ![p] = "idle"]
  /\ head' = [head EXCEPT ![p] = None]
  /\ seen' = [seen EXCEPT ![p] = None]

Goto(p, label) ==
  /\ witness_pc' = [witness_pc EXCEPT ![p] = label]
  /\ UNCHANGED <<head, seen>>

\* decide_and_cosign, cosign_own_latest_head: a head whose author signature
\* was verified.  A shard marked equivocating is refused.
decide(p, h) ==
  /\ witness_pc[p] = "idle"
  /\ p \notin equivocating
  /\ witness_pc' = [witness_pc EXCEPT ![p] = "read"]
  /\ head' = [head EXCEPT ![p] = h]
  /\ UNCHANGED <<witnessDb, seen, equivocating, confirmed, attest, trusted,
                 crashes>>

\* A marked shard's head is refused before anything is read.
RefuseEquivocating(p) ==
  /\ witness_pc[p] = "idle"
  /\ p \in equivocating
  /\ UNCHANGED witnessVars

\* Where the checkpoint sends the decision: Bootstrap, AlreadyCosigned,
\* ConflictingRootAtSameSize, NotForward and NeedsConsistencyProof.
classify_against_checkpoint(c, h) ==
  CASE c = None -> "record"
    [] c # None /\ h = c -> "list"
    [] c # None /\ h # c /\ Len(h) = Len(c) -> "refuse"
    [] c # None /\ Len(h) < Len(c) -> "refuse"
    [] c # None /\ Len(h) > Len(c) -> "prove"

\* witness_checkpoint_for, and the branch decide takes on what it returns.
witness_checkpoint_for(p) ==
  /\ witness_pc[p] = "read"
  /\ LET c == checkpoint[node[p]]
         next == classify_against_checkpoint(c, head[p])
     IN  IF next = "refuse" THEN Finish(p)
         ELSE /\ witness_pc' = [witness_pc EXCEPT ![p] = next]
              /\ seen' = [seen EXCEPT ![p] = c]
              /\ UNCHANGED head
  /\ UNCHANGED <<witnessDb, equivocating, confirmed, attest, trusted, crashes>>

\* verify_consistency_extends_checkpoint, own_ledger_extends_checkpoint: the
\* proof between the checkpoint read and the head verifies.
ProofVerifies(p) ==
  /\ witness_pc[p] = "prove"
  /\ Extends(seen[p], head[p])
  /\ Goto(p, "record")
  /\ UNCHANGED <<witnessDb, equivocating, confirmed, attest, trusted, crashes>>

\* There is no such proof, or it could not be had.
ProofFails(p) ==
  /\ witness_pc[p] = "prove"
  /\ ~Extends(seen[p], head[p]) \/ "storage" \in WitnessFaults
  /\ Finish(p)
  /\ UNCHANGED <<witnessDb, equivocating, confirmed, attest, trusted, crashes>>

\* The upsert of cosign_and_record: the row moves only to a larger tree_size,
\* and the call succeeds whether it moved or not.
record_witness_checkpoint(p) ==
  /\ witness_pc[p] = "record"
  /\ checkpoint' = [checkpoint EXCEPT ![node[p]] =
       IF @ # None /\ Len(@) >= Len(head[p]) THEN @ ELSE head[p]]
  /\ Goto(p, "list")
  /\ UNCHANGED <<cosignatures, fresh, evidence, equivocating, confirmed,
                 attest, trusted, crashes>>

\* The node's cosignatures at the size of head h.
OwnAt(n, h) == {c \in cosignatures[n] : Len(c) = Len(h)}

\* ensure_own_cosignature_stored reads the cosignatures stored for this size:
\* any of this key ends the decision.
list_witness_cosignatures(p) ==
  /\ witness_pc[p] = "list"
  /\ IF OwnAt(node[p], head[p]) # {} THEN Finish(p) ELSE Goto(p, "store")
  /\ UNCHANGED <<witnessDb, equivocating, confirmed, attest, trusted, crashes>>

\* Mutant of StoreCosignature: no primary key on (tree_size, witness_key_id).
StoreCosignatureTwice(n, h) ==
  /\ cosignatures' = [cosignatures EXCEPT ![n] = @ \cup {h}]
  /\ fresh' = [fresh EXCEPT ![n] = @ \cup {h}]

\* INSERT ... ON CONFLICT DO NOTHING: a stored cosignature over the same head
\* is refreshed, one over another root makes the call fail.
StoreCosignature(n, h) ==
  IF OwnAt(n, h) \subseteq {h}
  THEN /\ cosignatures' = [cosignatures EXCEPT ![n] = @ \cup {h}]
       /\ fresh' = [fresh EXCEPT ![n] = @ \cup {h}]
  ELSE UNCHANGED <<cosignatures, fresh>>

\* sign_witness_cosignature and store_witness_cosignature.
store_witness_cosignature(p) ==
  /\ witness_pc[p] = "store"
  /\ StoreCosignature(node[p], head[p])
  /\ Finish(p)
  /\ UNCHANGED <<checkpoint, evidence, equivocating, confirmed, attest,
                 trusted, crashes>>

\* A statement of the decision fails: the head is retried at a later tick.
StorageError(p) ==
  /\ "storage" \in WitnessFaults
  /\ witness_pc[p] \in {"read", "record", "list", "store"}
  /\ Finish(p)
  /\ UNCHANGED <<witnessDb, equivocating, confirmed, attest, trusted, crashes>>

\* reattest_once reads the checkpoints.
reattest_once(p) ==
  /\ "expiry" \in WitnessFaults
  /\ attest[p] = None
  /\ attest' = [attest EXCEPT ![p] = checkpoint[node[p]]]
  /\ UNCHANGED <<witnessDb, decideVars, equivocating, confirmed, trusted, crashes>>

\* Then it refreshes the cosignature over the checkpointed head, if one is
\* stored and the shard is not marked.
refresh_witness_cosignature(p) ==
  /\ attest[p] # None
  /\ attest' = [attest EXCEPT ![p] = None]
  /\ fresh' = [fresh EXCEPT ![node[p]] =
       IF p \in equivocating THEN @
       ELSE @ \cup ({attest[p]} \cap cosignatures[node[p]])]
  /\ UNCHANGED <<checkpoint, cosignatures, evidence, decideVars, equivocating,
                 confirmed, trusted, crashes>>

\* COSIGNATURE_FRESHNESS_WINDOW passes since a cosignature's observed_at.
Expire(n, h) ==
  /\ "expiry" \in WitnessFaults
  /\ n \in Honest
  /\ h \in fresh[n]
  /\ fresh' = [fresh EXCEPT ![n] = @ \ {h}]
  /\ UNCHANGED <<checkpoint, cosignatures, evidence, decideVars, equivocating,
                 confirmed, attest, trusted, crashes>>

\* confirm_and_record: two heads of one size both carry the author's
\* signature.  The mark comes before the durable record.
mark_equivocating(p) ==
  /\ "conflict" \in WitnessFaults
  /\ p \notin equivocating
  /\ \E a, b \in SignedHead : Conflict(a, b)
  /\ equivocating' = equivocating \cup {p}
  /\ confirmed' = confirmed \cup {p}
  /\ UNCHANGED <<witnessDb, decideVars, attest, trusted, crashes>>

\* A failure to store the evidence is logged and nothing more.
record_witness_equivocation_evidence(p) ==
  /\ p \in confirmed
  /\ confirmed' = confirmed \ {p}
  /\ \/ evidence' = evidence \cup {node[p]}
     \/ "storage" \in WitnessFaults /\ UNCHANGED evidence
  /\ UNCHANGED <<checkpoint, cosignatures, fresh, decideVars, equivocating,
                 attest, trusted, crashes>>

\* The process dies and starts again with an empty HeadGossipTracker.
WitnessCrash(p) ==
  /\ crashes < MaxCrashes
  /\ crashes' = crashes + 1
  /\ Finish(p)
  /\ attest' = [attest EXCEPT ![p] = None]
  /\ equivocating' = equivocating \ {p}
  /\ confirmed' = confirmed \ {p}
  /\ UNCHANGED <<witnessDb, trusted>>

\* Mutant of majority_threshold: half of the list.
majority_thresholdHalf(list_size) == list_size \div 2

majority_threshold(list_size) ==
  IF list_size = 0 THEN 0 ELSE list_size \div 2 + 1

\* valid_fresh_witness_ids
FreshWitnesses(h) == {n \in Node : h \in fresh[n]}

\* verify_cosigned_tree_head: a known list of at most one skips the majority.
verify_cosigned_tree_head(h) ==
  \/ Cardinality(Node) <= 1
  \/ Cardinality(FreshWitnesses(h)) >= majority_threshold(Cardinality(Node))

\* A verifier trusts an author-verified head, cosignatures gathered.
resolve_majority(h) ==
  /\ h \notin trusted
  /\ verify_cosigned_tree_head(h)
  /\ trusted' = trusted \cup {h}
  /\ UNCHANGED <<witnessDb, decideVars, equivocating, confirmed, attest, crashes>>

-----------------------------------------------------------------------------
DecideStep(p) ==
  \/ witness_checkpoint_for(p)
  \/ ProofVerifies(p)
  \/ ProofFails(p)
  \/ record_witness_checkpoint(p)
  \/ list_witness_cosignatures(p)
  \/ store_witness_cosignature(p)

WitnessNext ==
  \/ \E p \in WitnessProc :
       \/ \E h \in SignedHead : decide(p, h)
       \/ RefuseEquivocating(p)
       \/ DecideStep(p)
       \/ StorageError(p)
       \/ reattest_once(p)
       \/ refresh_witness_cosignature(p)
       \/ mark_equivocating(p)
       \/ record_witness_equivocation_evidence(p)
       \/ WitnessCrash(p)
  \/ \E n \in Node, h \in SignedHead : Expire(n, h)
  \/ \E h \in SignedHead : resolve_majority(h)

WitnessSpec == WitnessInit /\ [][WitnessNext]_witnessVars

\* A decision that has begun goes on to its end, every tick looks at every
\* served head, and the reattest worker runs on its interval.
WitnessFairness ==
  \A p \in WitnessProc :
    /\ \A h \in SignedHead : SF_witnessVars(decide(p, h))
    /\ WF_witnessVars(DecideStep(p))
    /\ WF_witnessVars(reattest_once(p))
    /\ WF_witnessVars(refresh_witness_cosignature(p))

WitnessFairSpec == WitnessSpec /\ WitnessFairness

-----------------------------------------------------------------------------
HeadOrNone == SignedHead \cup {None}

\* Type invariant: the database holds heads the author signed, and a decision
\* past its first read has one in hand.
WitnessTypeOK ==
  /\ checkpoint \in [Node -> HeadOrNone]
  /\ cosignatures \in [Node -> SUBSET SignedHead]
  /\ fresh \in [Node -> SUBSET SignedHead]
  /\ evidence \subseteq Node
  /\ equivocating \subseteq WitnessProc
  /\ confirmed \subseteq WitnessProc
  /\ witness_pc \in [WitnessProc -> {"idle", "read", "prove", "record", "list", "store"}]
  /\ head \in [WitnessProc -> HeadOrNone]
  /\ seen \in [WitnessProc -> HeadOrNone]
  /\ attest \in [WitnessProc -> HeadOrNone]
  /\ trusted \subseteq SignedHead
  /\ crashes \in 0 .. MaxCrashes

\* An honest key never cosigns two roots of one tree_size, however many
\* processes of its node decide at once (check 3 of witness_cosign.rs and the
\* primary key of witness_cosignatures).
OneRootPerSize ==
  \A n \in Honest : \A a, b \in cosignatures[n] : ~Conflict(a, b)

\* A cosignature is stored only after the checkpoint has reached its size
\* (the order of the two writes of cosign_and_record), so that a later head of
\* that size or less is refused.
NoCosignatureAheadOfCheckpoint ==
  \A n \in Honest : \A h \in cosignatures[n] :
    checkpoint[n] # None /\ Len(h) <= Len(checkpoint[n])

\* The checkpoint of a log never goes back (record_witness_checkpoint's WHERE).
CheckpointForward ==
  [][\A n \in Node : checkpoint[n] # None =>
       /\ checkpoint'[n] # None
       /\ checkpoint'[n] # checkpoint[n] =>
            Len(checkpoint'[n]) > Len(checkpoint[n])]_witnessVars

\* All the heads one node has cosigned are heads of one history: each larger
\* one extends the smaller (check 2 of witness_cosign.rs).
CosignedConsistent ==
  \A n \in Honest : \A a, b \in cosignatures[n] : Consistent(a, b)

\* Verifiers with one known list never trust two heads of different histories
\* (majority_threshold's intersection argument, witness.rs).
TrustedConsistent ==
  \A a, b \in trusted : Consistent(a, b)

-----------------------------------------------------------------------------
\* A decision under way has a head in hand.
HeadInHand == \A p \in WitnessProc : witness_pc[p] # "idle" => head[p] \in SignedHead

\* Past the upsert the checkpoint is at least as large as the head in hand.
AheadInv ==
  \A p \in WitnessProc : witness_pc[p] \in {"list", "store"} =>
    checkpoint[node[p]] # None /\ Len(head[p]) <= Len(checkpoint[node[p]])

\* A node whose processes are one: what a decision read still holds when it
\* writes, and past the upsert the checkpoint is its head.
DecisionInv ==
  \A p \in WitnessProc :
    /\ witness_pc[p] = "prove" =>
         /\ seen[p] = checkpoint[node[p]]
         /\ seen[p] # None
         /\ Len(seen[p]) < Len(head[p])
    /\ witness_pc[p] = "record" =>
         /\ seen[p] = checkpoint[node[p]]
         /\ seen[p] # None => Len(seen[p]) < Len(head[p]) /\ Extends(seen[p], head[p])
    /\ witness_pc[p] \in {"list", "store"} => head[p] = checkpoint[node[p]]

\* Everything an honest node cosigned is a prefix of its checkpoint.
CoveredInv ==
  \A n \in Honest : \A h \in cosignatures[n] :
    checkpoint[n] # None /\ Extends(h, checkpoint[n])

\* A trusted head keeps the cosignatures that made it trusted.
FreshIsStored == \A n \in Node : fresh[n] \subseteq cosignatures[n]
Cosigners(h) == {n \in Node : h \in cosignatures[n]}
TrustInv ==
  \A h \in trusted :
    Cardinality(Cosigners(h)) >= majority_threshold(Cardinality(Node))
=============================================================================
