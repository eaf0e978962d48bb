--------------------------- MODULE WitnessProofs ---------------------------
(***************************************************************************)
(* Proofs about Witness: what holds for any number of nodes, processes and *)
(* signed heads.  The first part holds however many processes a node has;  *)
(* the second assumes one process per node; the third adds the majority.   *)
(***************************************************************************)
EXTENDS Witness, TLAPS

\* Signed heads are sequences of entries.
LEMMA HeadsAreSequences == \A h \in SignedHead : h \in Seq(WitnessedEntry) /\ Len(h) \in Nat
BY WitnessAssumption DEF WitnessAssumption

\* A head that extends an extension extends the first head.
LEMMA ExtendsTransitive ==
  ASSUME NEW a \in Seq(WitnessedEntry), NEW b \in Seq(WitnessedEntry), NEW c \in Seq(WitnessedEntry),
         Extends(a, b), Extends(b, c)
  PROVE  Extends(a, c)
<1>1. Len(a) \in Nat /\ Len(b) \in Nat /\ Len(c) \in Nat
  OBVIOUS
<1>2. \A i \in 1 .. Len(a) : i \in 1 .. Len(b)
  BY <1>1 DEF Extends
<1>3. QED
  BY <1>1, <1>2 DEF Extends

\* A head extends itself.
LEMMA ExtendsReflexive ==
  ASSUME NEW a \in Seq(WitnessedEntry)
  PROVE  Extends(a, a)
<1>1. Len(a) \in Nat
  OBVIOUS
<1>2. QED
  BY <1>1 DEF Extends

\* Two prefixes of one head are heads of one history.
LEMMA PrefixesConsistent ==
  ASSUME NEW a \in Seq(WitnessedEntry), NEW b \in Seq(WitnessedEntry), NEW c \in Seq(WitnessedEntry),
         Extends(a, c), Extends(b, c)
  PROVE  Consistent(a, b)
<1>1. Len(a) \in Nat /\ Len(b) \in Nat /\ Len(c) \in Nat
  OBVIOUS
<1>2. CASE Len(a) <= Len(b)
  <2>1. \A i \in 1 .. Len(a) : i \in 1 .. Len(b)
    BY <1>1, <1>2
  <2>2. QED
    BY <1>1, <1>2, <2>1 DEF Extends, Consistent
<1>3. CASE Len(b) <= Len(a)
  <2>1. \A i \in 1 .. Len(b) : i \in 1 .. Len(a)
    BY <1>1, <1>3
  <2>2. QED
    BY <1>1, <1>3, <2>1 DEF Extends, Consistent
<1>4. QED
  BY <1>1, <1>2, <1>3

-----------------------------------------------------------------------------
\* What classify_against_checkpoint says about the two heads it compares.
LEMMA ClassifyCases ==
  ASSUME NEW c \in HeadOrNone, NEW h \in SignedHead
  PROVE  LET d == classify_against_checkpoint(c, h) IN
         /\ d \in {"record", "list", "refuse", "prove"}
         /\ d = "record" => c = None
         /\ d = "list" => c = h /\ c # None
         /\ d = "prove" => c # None /\ Len(c) < Len(h)
<1>1. None \notin SignedHead
  BY WitnessAssumption DEF WitnessAssumption
<1>2. CASE c = None
  BY <1>2, <1>1 DEF classify_against_checkpoint
<1>3. CASE c # None
  <2>1. Len(c) \in Nat /\ Len(h) \in Nat
    BY <1>3, HeadsAreSequences DEF HeadOrNone
  <2>2. CASE h = c
    BY <1>3, <2>1, <2>2 DEF classify_against_checkpoint
  <2>3. CASE h # c /\ Len(h) = Len(c)
    BY <1>3, <2>1, <2>3 DEF classify_against_checkpoint
  <2>4. CASE Len(h) < Len(c)
    BY <1>3, <2>1, <2>4 DEF classify_against_checkpoint
  <2>5. CASE Len(h) > Len(c)
    BY <1>3, <2>1, <2>5 DEF classify_against_checkpoint
  <2>6. QED
    BY <2>1, <2>2, <2>3, <2>4, <2>5
<1>4. QED
  BY <1>2, <1>3

-----------------------------------------------------------------------------
TypeInv == WitnessTypeOK /\ HeadInHand

\* Initially every variable has its type.
LEMMA TypeInit == WitnessInit => TypeInv
<1>1. None \in HeadOrNone /\ MaxCrashes \in Nat
  BY WitnessAssumption DEF HeadOrNone, WitnessAssumption
<1>2. QED
  BY <1>1 DEF WitnessInit, TypeInv, WitnessTypeOK, HeadInHand

\* Each step of a decision keeps the types.
LEMMA TypeDecide ==
  ASSUME TypeInv, NEW p \in WitnessProc, DecideStep(p)
  PROVE  TypeInv'
<1>1. node[p] \in Node /\ None \in HeadOrNone /\ SignedHead \subseteq HeadOrNone
  BY WitnessAssumption DEF WitnessAssumption, HeadOrNone
<1>2. CASE witness_checkpoint_for(p)
  <2>1. PICK c \in HeadOrNone : c = checkpoint[node[p]]
    BY <1>1 DEF TypeInv, WitnessTypeOK
  <2>2. head[p] \in SignedHead
    BY <1>2 DEF witness_checkpoint_for, TypeInv, HeadInHand
  <2>3. PICK d : d = classify_against_checkpoint(c, head[p])
    OBVIOUS
  <2>4. d \in {"record", "list", "refuse", "prove"}
    BY <2>2, <2>3, ClassifyCases
  <2>5. CASE d = "refuse"
    <3>1. Finish(p)
      BY <1>2, <2>1, <2>3, <2>5 DEF witness_checkpoint_for
    <3>2. QED
      BY <1>1, <1>2, <3>1
         DEF witness_checkpoint_for, Finish, TypeInv, WitnessTypeOK, HeadInHand,
             witnessDb
  <2>6. CASE d # "refuse"
    <3>1. /\ witness_pc' = [witness_pc EXCEPT ![p] = d]
          /\ seen' = [seen EXCEPT ![p] = c]
          /\ UNCHANGED head
      BY <1>2, <2>1, <2>3, <2>6 DEF witness_checkpoint_for
    <3>2. QED
      BY <1>1, <1>2, <2>2, <2>4, <2>6, <3>1
         DEF witness_checkpoint_for, TypeInv, WitnessTypeOK, HeadInHand, witnessDb
  <2>7. QED
    BY <2>5, <2>6
<1>3. CASE ProofVerifies(p)
  BY <1>1, <1>3 DEF ProofVerifies, Goto, TypeInv, WitnessTypeOK, HeadInHand, witnessDb
<1>4. CASE ProofFails(p)
  BY <1>1, <1>4 DEF ProofFails, Finish, TypeInv, WitnessTypeOK, HeadInHand, witnessDb
<1>5. CASE record_witness_checkpoint(p)
  <2>1. head[p] \in SignedHead
    BY <1>5 DEF record_witness_checkpoint, TypeInv, HeadInHand
  <2>2. checkpoint' \in [Node -> HeadOrNone]
    BY <1>1, <1>5, <2>1 DEF record_witness_checkpoint, TypeInv, WitnessTypeOK
  <2>3. QED
    BY <1>1, <1>5, <2>1, <2>2
       DEF record_witness_checkpoint, Goto, TypeInv, WitnessTypeOK, HeadInHand
<1>6. CASE list_witness_cosignatures(p)
  <2>1. Finish(p) \/ Goto(p, "store")
    BY <1>6 DEF list_witness_cosignatures
  <2>2. QED
    BY <1>1, <1>6, <2>1
       DEF list_witness_cosignatures, Finish, Goto, TypeInv, WitnessTypeOK,
           HeadInHand, witnessDb
<1>7. CASE store_witness_cosignature(p)
  <2>1. head[p] \in SignedHead
    BY <1>7 DEF store_witness_cosignature, TypeInv, HeadInHand
  <2>2. /\ cosignatures' \in [Node -> SUBSET SignedHead]
        /\ fresh' \in [Node -> SUBSET SignedHead]
    BY <1>1, <1>7, <2>1
       DEF store_witness_cosignature, StoreCosignature, TypeInv, WitnessTypeOK
  <2>3. QED
    BY <1>1, <1>7, <2>2
       DEF store_witness_cosignature, Finish, TypeInv, WitnessTypeOK, HeadInHand
<1>8. QED
  BY <1>2, <1>3, <1>4, <1>5, <1>6, <1>7 DEF DecideStep

\* Every step keeps the types.
LEMMA TypeStep == TypeInv /\ [WitnessNext]_witnessVars => TypeInv'
<1> SUFFICES ASSUME TypeInv, [WitnessNext]_witnessVars PROVE TypeInv'
  OBVIOUS
<1>0. /\ None \in HeadOrNone
      /\ SignedHead \subseteq HeadOrNone
      /\ MaxCrashes \in Nat
      /\ node \in [WitnessProc -> Node]
  BY WitnessAssumption DEF WitnessAssumption, HeadOrNone
<1>1. ASSUME NEW p \in WitnessProc, NEW h \in SignedHead, decide(p, h) PROVE TypeInv'
  BY <1>0, <1>1 DEF decide, TypeInv, WitnessTypeOK, HeadInHand, witnessDb
<1>2. ASSUME NEW p \in WitnessProc, DecideStep(p) PROVE TypeInv'
  BY <1>2, TypeDecide
<1>3. ASSUME NEW p \in WitnessProc, StorageError(p) PROVE TypeInv'
  BY <1>0, <1>3 DEF StorageError, Finish, TypeInv, WitnessTypeOK, HeadInHand, witnessDb
<1>4. ASSUME NEW p \in WitnessProc, reattest_once(p) PROVE TypeInv'
  BY <1>0, <1>4
     DEF reattest_once, TypeInv, WitnessTypeOK, HeadInHand, witnessDb, decideVars
<1>5. ASSUME NEW p \in WitnessProc, refresh_witness_cosignature(p) PROVE TypeInv'
  <2>1. attest' \in [WitnessProc -> HeadOrNone]
    BY <1>0, <1>5 DEF refresh_witness_cosignature, TypeInv, WitnessTypeOK
  <2>2. node[p] \in Node /\ cosignatures[node[p]] \subseteq SignedHead
    BY <1>0, <1>5 DEF TypeInv, WitnessTypeOK
  <2>3. fresh' \in [Node -> SUBSET SignedHead]
    BY <1>5, <2>2 DEF refresh_witness_cosignature, TypeInv, WitnessTypeOK
  <2>4. QED
    BY <1>5, <2>1, <2>3
       DEF refresh_witness_cosignature, TypeInv, WitnessTypeOK, HeadInHand,
           decideVars
<1>6. ASSUME NEW p \in WitnessProc, mark_equivocating(p) PROVE TypeInv'
  BY <1>0, <1>6
     DEF mark_equivocating, TypeInv, WitnessTypeOK, HeadInHand, witnessDb, decideVars
<1>7. ASSUME NEW p \in WitnessProc, record_witness_equivocation_evidence(p) PROVE TypeInv'
  BY <1>0, <1>7
     DEF record_witness_equivocation_evidence, TypeInv, WitnessTypeOK, HeadInHand,
         decideVars
<1>8. ASSUME NEW p \in WitnessProc, WitnessCrash(p) PROVE TypeInv'
  <2>1. crashes' \in 0 .. MaxCrashes
    BY <1>0, <1>8 DEF WitnessCrash, TypeInv, WitnessTypeOK
  <2>2. QED
    BY <1>0, <1>8, <2>1
       DEF WitnessCrash, Finish, TypeInv, WitnessTypeOK, HeadInHand, witnessDb
<1>9. ASSUME NEW n \in Node, NEW h \in SignedHead, Expire(n, h) PROVE TypeInv'
  BY <1>9 DEF Expire, TypeInv, WitnessTypeOK, HeadInHand, decideVars
<1>10. ASSUME NEW h \in SignedHead, resolve_majority(h) PROVE TypeInv'
  BY <1>10 DEF resolve_majority, TypeInv, WitnessTypeOK, HeadInHand, witnessDb, decideVars
<1>11. CASE UNCHANGED witnessVars
  BY <1>11 DEF witnessVars, TypeInv, WitnessTypeOK, HeadInHand
<1>12. QED
  BY <1>1, <1>2, <1>3, <1>4, <1>5, <1>6, <1>7, <1>8, <1>9, <1>10, <1>11
     DEF WitnessNext, RefuseEquivocating

\* Type correctness: the tables only ever hold heads the author signed, and a
\* decision under way has one in hand.
THEOREM WitnessTypes == WitnessSpec => []WitnessTypeOK
<1>1. TypeInv => WitnessTypeOK
  BY DEF TypeInv
<1>2. QED
  BY <1>1, TypeInit, TypeStep, PTL DEF WitnessSpec

-----------------------------------------------------------------------------
\* A step that writes neither table and takes no decision past its first read.
Quiet ==
  /\ UNCHANGED <<checkpoint, cosignatures>>
  /\ \A q \in WitnessProc :
       \/ witness_pc'[q] \in {"idle", "read"}
       \/ witness_pc'[q] = witness_pc[q] /\ head'[q] = head[q] /\ seen'[q] = seen[q]

\* The steps that are not quiet.
Advances(p) ==
  \/ witness_checkpoint_for(p)
  \/ ProofVerifies(p)
  \/ record_witness_checkpoint(p)
  \/ list_witness_cosignatures(p)
  \/ store_witness_cosignature(p)

\* Every step is quiet or one of the five that move a decision on.
LEMMA StepKinds ==
  ASSUME TypeInv, [WitnessNext]_witnessVars
  PROVE  Quiet \/ \E p \in WitnessProc : Advances(p)
<1>1. ASSUME NEW p \in WitnessProc, NEW h \in SignedHead, decide(p, h) PROVE Quiet
  BY <1>1 DEF decide, Quiet, witnessDb, TypeInv, WitnessTypeOK
<1>2. ASSUME NEW p \in WitnessProc, DecideStep(p) PROVE Quiet \/ Advances(p)
  <2>1. CASE ProofFails(p)
    BY <2>1 DEF ProofFails, Finish, Quiet, witnessDb, TypeInv, WitnessTypeOK
  <2>2. QED
    BY <1>2, <2>1 DEF DecideStep, Advances
<1>3. ASSUME NEW p \in WitnessProc, StorageError(p) PROVE Quiet
  BY <1>3 DEF StorageError, Finish, Quiet, witnessDb, TypeInv, WitnessTypeOK
<1>4. ASSUME NEW p \in WitnessProc, reattest_once(p) PROVE Quiet
  BY <1>4 DEF reattest_once, Quiet, witnessDb, decideVars
<1>5. ASSUME NEW p \in WitnessProc, refresh_witness_cosignature(p) PROVE Quiet
  BY <1>5 DEF refresh_witness_cosignature, Quiet, decideVars
<1>6. ASSUME NEW p \in WitnessProc, mark_equivocating(p) PROVE Quiet
  BY <1>6 DEF mark_equivocating, Quiet, witnessDb, decideVars
<1>7. ASSUME NEW p \in WitnessProc, record_witness_equivocation_evidence(p) PROVE Quiet
  BY <1>7 DEF record_witness_equivocation_evidence, Quiet, decideVars
<1>8. ASSUME NEW p \in WitnessProc, WitnessCrash(p) PROVE Quiet
  BY <1>8 DEF WitnessCrash, Finish, Quiet, witnessDb, TypeInv, WitnessTypeOK
<1>9. ASSUME NEW n \in Node, NEW h \in SignedHead, Expire(n, h) PROVE Quiet
  BY <1>9 DEF Expire, Quiet, decideVars
<1>10. ASSUME NEW h \in SignedHead, resolve_majority(h) PROVE Quiet
  BY <1>10 DEF resolve_majority, Quiet, witnessDb, decideVars
<1>11. CASE UNCHANGED witnessVars
  BY <1>11 DEF witnessVars, Quiet
<1>12. QED
  BY <1>1, <1>2, <1>3, <1>4, <1>5, <1>6, <1>7, <1>8, <1>9, <1>10, <1>11
     DEF WitnessNext, RefuseEquivocating

\* A decision's step leaves the other processes' decisions alone.
LEMMA OthersStay ==
  ASSUME TypeInv, NEW p \in WitnessProc, Advances(p), NEW q \in WitnessProc, q # p
  PROVE  witness_pc'[q] = witness_pc[q] /\ head'[q] = head[q] /\ seen'[q] = seen[q]
<1>1. CASE witness_checkpoint_for(p)
  <2>1. CASE Finish(p)
    BY <2>1 DEF Finish, TypeInv, WitnessTypeOK
  <2>2. CASE ~Finish(p)
    <3>1. PICK d : /\ witness_pc' = [witness_pc EXCEPT ![p] = d]
                   /\ seen' = [seen EXCEPT ![p] = checkpoint[node[p]]]
                   /\ UNCHANGED head
      BY <1>1, <2>2 DEF witness_checkpoint_for
    <3>2. QED
      BY <3>1 DEF TypeInv, WitnessTypeOK
  <2>3. QED
    BY <2>1, <2>2
<1>2. CASE ProofVerifies(p)
  BY <1>2 DEF ProofVerifies, Goto, TypeInv, WitnessTypeOK
<1>3. CASE record_witness_checkpoint(p)
  BY <1>3 DEF record_witness_checkpoint, Goto, TypeInv, WitnessTypeOK
<1>4. CASE list_witness_cosignatures(p)
  <2>1. Finish(p) \/ Goto(p, "store")
    BY <1>4 DEF list_witness_cosignatures
  <2>2. QED
    BY <2>1 DEF Finish, Goto, TypeInv, WitnessTypeOK
<1>5. CASE store_witness_cosignature(p)
  BY <1>5 DEF store_witness_cosignature, Finish, TypeInv, WitnessTypeOK
<1>6. QED
  BY <1>1, <1>2, <1>3, <1>4, <1>5 DEF Advances

\* The first read: what it leaves in a decision that goes on.
LEMMA ReadStep ==
  ASSUME TypeInv, NEW p \in WitnessProc, witness_checkpoint_for(p)
  PROVE  /\ UNCHANGED <<checkpoint, cosignatures>>
         /\ \/ witness_pc'[p] = "idle"
            \/ /\ witness_pc'[p] = classify_against_checkpoint(checkpoint[node[p]], head[p])
               /\ head'[p] = head[p]
               /\ seen'[p] = checkpoint[node[p]]
         /\ checkpoint[node[p]] \in HeadOrNone
         /\ head[p] \in SignedHead
<1>1. checkpoint[node[p]] \in HeadOrNone
  BY WitnessAssumption DEF WitnessAssumption, TypeInv, WitnessTypeOK
<1>2. CASE Finish(p)
  BY <1>1, <1>2 DEF witness_checkpoint_for, Finish, TypeInv, WitnessTypeOK, HeadInHand, witnessDb
<1>3. CASE ~Finish(p)
  <2>1. /\ witness_pc' = [witness_pc EXCEPT ![p] =
                   classify_against_checkpoint(checkpoint[node[p]], head[p])]
        /\ seen' = [seen EXCEPT ![p] = checkpoint[node[p]]]
        /\ UNCHANGED head
    BY <1>3 DEF witness_checkpoint_for
  <2>2. QED
    BY <1>1, <2>1 DEF witness_checkpoint_for, TypeInv, WitnessTypeOK, HeadInHand, witnessDb
<1>4. QED
  BY <1>2, <1>3

\* The upsert: the node's checkpoint ends at least as large as the head, and
\* moves only to it and only forward.
LEMMA RecordStep ==
  ASSUME TypeInv, NEW p \in WitnessProc, record_witness_checkpoint(p)
  PROVE  /\ UNCHANGED cosignatures
         /\ witness_pc'[p] = "list" /\ head'[p] = head[p] /\ head[p] \in SignedHead
         /\ \A n \in Node \ {node[p]} : checkpoint'[n] = checkpoint[n]
         /\ \/ /\ checkpoint'[node[p]] = checkpoint[node[p]]
               /\ checkpoint[node[p]] \in SignedHead
               /\ Len(head[p]) <= Len(checkpoint[node[p]])
            \/ /\ checkpoint'[node[p]] = head[p]
               /\ checkpoint[node[p]] = None \/ Len(checkpoint[node[p]]) < Len(head[p])
<1>1. node[p] \in Node /\ checkpoint[node[p]] \in HeadOrNone
  BY WitnessAssumption DEF WitnessAssumption, TypeInv, WitnessTypeOK
<1>2. head[p] \in SignedHead
  BY DEF record_witness_checkpoint, TypeInv, HeadInHand
<1>3. /\ UNCHANGED cosignatures
      /\ witness_pc'[p] = "list"
      /\ head'[p] = head[p]
  BY DEF record_witness_checkpoint, Goto, TypeInv, WitnessTypeOK
<1>4. \A n \in Node \ {node[p]} : checkpoint'[n] = checkpoint[n]
  BY DEF record_witness_checkpoint, TypeInv, WitnessTypeOK
<1>5. checkpoint'[node[p]] =
        IF checkpoint[node[p]] # None /\ Len(checkpoint[node[p]]) >= Len(head[p])
        THEN checkpoint[node[p]] ELSE head[p]
  BY <1>1 DEF record_witness_checkpoint, TypeInv, WitnessTypeOK
<1>6. Len(head[p]) \in Nat
      /\ (checkpoint[node[p]] # None => Len(checkpoint[node[p]]) \in Nat)
  BY <1>1, <1>2, HeadsAreSequences DEF HeadOrNone
<1>7. checkpoint[node[p]] # None => checkpoint[node[p]] \in SignedHead
  BY <1>1 DEF HeadOrNone
<1>8. QED
  BY <1>2, <1>3, <1>4, <1>5, <1>6, <1>7

\* The cosignature written: at most one head, and only where none of its size
\* is stored.
LEMMA StoreStep ==
  ASSUME TypeInv, NEW p \in WitnessProc, store_witness_cosignature(p)
  PROVE  /\ UNCHANGED checkpoint
         /\ witness_pc'[p] = "idle" /\ head[p] \in SignedHead
         /\ \A n \in Node \ {node[p]} : cosignatures'[n] = cosignatures[n]
         /\ \/ cosignatures'[node[p]] = cosignatures[node[p]]
            \/ /\ cosignatures'[node[p]] = cosignatures[node[p]] \cup {head[p]}
               /\ \A c \in cosignatures[node[p]] : Len(c) = Len(head[p]) => c = head[p]
<1>1. node[p] \in Node
  BY WitnessAssumption DEF WitnessAssumption
<1>2. head[p] \in SignedHead
  BY DEF store_witness_cosignature, TypeInv, HeadInHand
<1>3. UNCHANGED checkpoint /\ witness_pc'[p] = "idle"
  BY DEF store_witness_cosignature, Finish, TypeInv, WitnessTypeOK
<1>4. CASE OwnAt(node[p], head[p]) \subseteq {head[p]}
  <2>1. cosignatures' = [cosignatures EXCEPT ![node[p]] = @ \cup {head[p]}]
    BY <1>4 DEF store_witness_cosignature, StoreCosignature
  <2>2. \A c \in cosignatures[node[p]] : Len(c) = Len(head[p]) => c = head[p]
    BY <1>4 DEF OwnAt
  <2>3. QED
    BY <1>1, <1>2, <1>3, <2>1, <2>2 DEF TypeInv, WitnessTypeOK
<1>5. CASE ~(OwnAt(node[p], head[p]) \subseteq {head[p]})
  <2>1. UNCHANGED cosignatures
    BY <1>5 DEF store_witness_cosignature, StoreCosignature
  <2>2. QED
    BY <1>2, <1>3, <2>1
<1>6. QED
  BY <1>4, <1>5

\* The remaining two steps of a decision write nothing.
LEMMA ProofStep ==
  ASSUME TypeInv, NEW p \in WitnessProc, ProofVerifies(p)
  PROVE  /\ UNCHANGED <<checkpoint, cosignatures>>
         /\ witness_pc[p] = "prove" /\ Extends(seen[p], head[p])
         /\ witness_pc'[p] = "record" /\ head'[p] = head[p] /\ seen'[p] = seen[p]
BY DEF ProofVerifies, Goto, witnessDb, TypeInv, WitnessTypeOK

\* Reading the stored cosignatures writes nothing.
LEMMA ListStep ==
  ASSUME TypeInv, NEW p \in WitnessProc, list_witness_cosignatures(p)
  PROVE  /\ UNCHANGED <<checkpoint, cosignatures>>
         /\ witness_pc[p] = "list"
         /\ \/ witness_pc'[p] = "idle"
            \/ witness_pc'[p] = "store" /\ head'[p] = head[p] /\ seen'[p] = seen[p]
<1>1. Finish(p) \/ Goto(p, "store")
  BY DEF list_witness_cosignatures
<1>2. QED
  BY <1>1 DEF list_witness_cosignatures, Finish, Goto, witnessDb, TypeInv, WitnessTypeOK

-----------------------------------------------------------------------------
\* However many processes a node has: the checkpoint moves forward only.
LEMMA CheckpointMoves ==
  ASSUME TypeInv, [WitnessNext]_witnessVars, NEW n \in Node, checkpoint[n] # None
  PROVE  /\ checkpoint'[n] \in SignedHead
         /\ checkpoint'[n] # checkpoint[n] => Len(checkpoint'[n]) > Len(checkpoint[n])
         /\ Len(checkpoint'[n]) >= Len(checkpoint[n])
<1>0. checkpoint[n] \in SignedHead /\ Len(checkpoint[n]) \in Nat
  BY HeadsAreSequences DEF TypeInv, WitnessTypeOK, HeadOrNone
<1>1. CASE checkpoint'[n] = checkpoint[n]
  BY <1>0, <1>1
<1>2. CASE checkpoint'[n] # checkpoint[n]
  <2>1. PICK p \in WitnessProc : Advances(p)
    BY <1>2, StepKinds DEF Quiet
  <2>2. record_witness_checkpoint(p)
    BY <1>2, <2>1, ReadStep, ProofStep, ListStep, StoreStep DEF Advances
  <2>3. checkpoint'[n] = head[p] /\ head[p] \in SignedHead
        /\ Len(checkpoint[n]) < Len(head[p])
    BY <1>2, <2>2, RecordStep
  <2>4. QED
    BY <1>0, <2>3, HeadsAreSequences
<1>3. QED
  BY <1>1, <1>2

FirstInv == OneRootPerSize /\ NoCosignatureAheadOfCheckpoint /\ AheadInv

\* The invariant of the two tables holds initially.
LEMMA FirstInit == WitnessInit => FirstInv
BY DEF WitnessInit, FirstInv, OneRootPerSize, NoCosignatureAheadOfCheckpoint, AheadInv, Honest

\* The invariant of the two tables is kept by every step.
LEMMA FirstStep ==
  ASSUME TypeInv, FirstInv, [WitnessNext]_witnessVars
  PROVE  FirstInv'
<1>0. node \in [WitnessProc -> Node] /\ None \notin SignedHead
  BY WitnessAssumption DEF WitnessAssumption
<1>1. OneRootPerSize'
  <2>1. CASE UNCHANGED cosignatures
    BY <2>1 DEF FirstInv, OneRootPerSize
  <2>2. CASE cosignatures' # cosignatures
    <3>1. PICK p \in WitnessProc : store_witness_cosignature(p)
      BY <2>2, StepKinds, ReadStep, ProofStep, ListStep, RecordStep
         DEF Quiet, Advances
    <3>2. /\ \A n \in Node \ {node[p]} : cosignatures'[n] = cosignatures[n]
          /\ \/ cosignatures'[node[p]] = cosignatures[node[p]]
             \/ /\ cosignatures'[node[p]] = cosignatures[node[p]] \cup {head[p]}
                /\ \A c \in cosignatures[node[p]] :
                     Len(c) = Len(head[p]) => c = head[p]
      BY <3>1, StoreStep
    <3>3. SUFFICES ASSUME NEW n \in Honest,
                          NEW a \in cosignatures'[n], NEW b \in cosignatures'[n],
                          Len(a) = Len(b)
                   PROVE  a = b
      BY DEF OneRootPerSize, Conflict
    <3>4. \A x, y \in cosignatures[n] : Len(x) = Len(y) => x = y
      BY DEF FirstInv, OneRootPerSize, Conflict
    <3>5. CASE cosignatures'[n] = cosignatures[n]
      BY <3>3, <3>4, <3>5
    <3>6. CASE /\ n = node[p]
               /\ cosignatures'[node[p]] = cosignatures[node[p]] \cup {head[p]}
               /\ \A c \in cosignatures[node[p]] :
                    Len(c) = Len(head[p]) => c = head[p]
      <4>1. a \in cosignatures[n] \cup {head[p]} /\ b \in cosignatures[n] \cup {head[p]}
        BY <3>6
      <4>2. QED
        BY <3>3, <3>4, <3>6, <4>1
    <3>7. QED
      BY <3>2, <3>5, <3>6 DEF Honest
  <2>3. QED
    BY <2>1, <2>2
<1>2. \A n \in Node : checkpoint[n] # None =>
        /\ checkpoint'[n] # None
        /\ Len(checkpoint'[n]) >= Len(checkpoint[n])
        /\ Len(checkpoint'[n]) \in Nat /\ Len(checkpoint[n]) \in Nat
  <2>1. \A n \in Node : checkpoint[n] \in HeadOrNone
    BY DEF TypeInv, WitnessTypeOK
  <2>2. QED
    BY <1>0, <2>1, CheckpointMoves, HeadsAreSequences DEF HeadOrNone
<1>3. NoCosignatureAheadOfCheckpoint'
  <2>1. SUFFICES ASSUME NEW n \in Honest, NEW h \in cosignatures'[n]
                 PROVE  checkpoint'[n] # None /\ Len(h) <= Len(checkpoint'[n])
    BY DEF NoCosignatureAheadOfCheckpoint
  <2>2. n \in Node
    BY DEF Honest
  <2>3. CASE h \in cosignatures[n]
    <3>1. checkpoint[n] # None /\ Len(h) <= Len(checkpoint[n]) /\ h \in SignedHead
      BY <2>2, <2>3 DEF FirstInv, NoCosignatureAheadOfCheckpoint, TypeInv, WitnessTypeOK
    <3>2. Len(h) \in Nat
      BY <3>1, HeadsAreSequences
    <3>3. QED
      BY <1>2, <2>2, <3>1, <3>2
  <2>4. CASE h \notin cosignatures[n]
    <3>1. PICK p \in WitnessProc : store_witness_cosignature(p)
      BY <2>4, StepKinds, ReadStep, ProofStep, ListStep, RecordStep
         DEF Quiet, Advances
    <3>a. /\ UNCHANGED checkpoint
          /\ \A m \in Node \ {node[p]} : cosignatures'[m] = cosignatures[m]
          /\ \/ cosignatures'[node[p]] = cosignatures[node[p]]
             \/ cosignatures'[node[p]] = cosignatures[node[p]] \cup {head[p]}
      BY <3>1, StoreStep
    <3>2. n = node[p] /\ h = head[p] /\ UNCHANGED checkpoint
      BY <2>2, <2>4, <3>a, Zenon
    <3>3. checkpoint[n] # None /\ Len(h) <= Len(checkpoint[n])
      BY <3>1, <3>2 DEF store_witness_cosignature, FirstInv, AheadInv
    <3>4. QED
      BY <3>2, <3>3
  <2>5. QED
    BY <2>3, <2>4
<1>4. AheadInv'
  <2>1. SUFFICES ASSUME NEW q \in WitnessProc, witness_pc'[q] \in {"list", "store"}
                 PROVE  /\ checkpoint'[node[q]] # None
                        /\ Len(head'[q]) <= Len(checkpoint'[node[q]])
    BY DEF AheadInv
  <2>2. node[q] \in Node
    BY <1>0
  <2>3. CASE /\ witness_pc[q] \in {"list", "store"}
             /\ head'[q] = head[q]
    <3>1. checkpoint[node[q]] # None /\ Len(head[q]) <= Len(checkpoint[node[q]])
      BY <2>3 DEF FirstInv, AheadInv
    <3>2. Len(head[q]) \in Nat
      BY <2>3, HeadsAreSequences DEF TypeInv, HeadInHand
    <3>3. QED
      BY <1>2, <2>2, <2>3, <3>1, <3>2
  <2>4. CASE ~(witness_pc[q] \in {"list", "store"} /\ head'[q] = head[q])
    <3>1. PICK p \in WitnessProc : Advances(p)
      BY <2>1, <2>4, StepKinds DEF Quiet
    <3>2. q = p
      BY <2>1, <2>4, <3>1, OthersStay
    <3>3. CASE witness_checkpoint_for(p)
      <4>1. PICK d, c : d = classify_against_checkpoint(c, head[p])
                        /\ c = checkpoint[node[p]]
        OBVIOUS
      <4>2. witness_pc'[p] = d /\ head'[p] = head[p] /\ UNCHANGED checkpoint
            /\ c \in HeadOrNone /\ head[p] \in SignedHead
        BY <2>1, <3>2, <3>3, <4>1, ReadStep
      <4>3. /\ d \in {"record", "list", "refuse", "prove"}
            /\ d = "list" => c = head[p] /\ c # None
        BY <4>1, <4>2, ClassifyCases
      <4>4. c = head[p] /\ c # None /\ Len(c) \in Nat
        BY <2>1, <3>2, <4>2, <4>3, HeadsAreSequences
      <4>5. QED
        BY <3>2, <4>1, <4>2, <4>4
    <3>4. CASE ProofVerifies(p)
      BY <2>1, <3>2, <3>4, ProofStep
    <3>5. CASE record_witness_checkpoint(p)
      <4>1. head[p] \in SignedHead /\ head'[p] = head[p] /\ Len(head[p]) \in Nat
        BY <3>5, RecordStep, HeadsAreSequences
      <4>2. \/ checkpoint'[node[p]] = head[p]
            \/ /\ checkpoint'[node[p]] \in SignedHead
               /\ Len(head[p]) <= Len(checkpoint'[node[p]])
        BY <3>5, RecordStep
      <4>3. QED
        BY <1>0, <3>2, <4>1, <4>2
    <3>6. CASE list_witness_cosignatures(p)
      BY <2>1, <2>4, <3>2, <3>6, ListStep
    <3>7. CASE store_witness_cosignature(p)
      BY <2>1, <3>2, <3>7, StoreStep
    <3>8. QED
      BY <3>1, <3>3, <3>4, <3>5, <3>6, <3>7 DEF Advances
  <2>5. QED
    BY <2>3, <2>4
<1>5. QED
  BY <1>1, <1>3, <1>4 DEF FirstInv

\* The invariant of the two tables always holds.
LEMMA FirstAlways == WitnessSpec => [](TypeInv /\ FirstInv)
BY TypeInit, TypeStep, FirstInit, FirstStep, PTL DEF WitnessSpec

\* However many processes of a node decide at once, its key never has two
\* roots of one tree_size cosigned.
THEOREM NeverDoubleCosigns == WitnessSpec => []OneRootPerSize
<1>1. TypeInv /\ FirstInv => OneRootPerSize
  BY DEF FirstInv
<1>2. QED
  BY <1>1, FirstAlways, PTL

\* No cosignature is stored ahead of the node's checkpoint, crashes included.
THEOREM CheckpointFirst == WitnessSpec => []NoCosignatureAheadOfCheckpoint
<1>1. TypeInv /\ FirstInv => NoCosignatureAheadOfCheckpoint
  BY DEF FirstInv
<1>2. QED
  BY <1>1, FirstAlways, PTL

\* The checkpoint of a log never goes back, whoever writes it.
THEOREM CheckpointNeverBack == WitnessSpec => CheckpointForward
<1>1. TypeInv /\ [WitnessNext]_witnessVars =>
        [\A n \in Node : checkpoint[n] # None =>
           /\ checkpoint'[n] # None
           /\ checkpoint'[n] # checkpoint[n] =>
                Len(checkpoint'[n]) > Len(checkpoint[n])]_witnessVars
  <2>1. None \notin SignedHead
    BY WitnessAssumption DEF WitnessAssumption
  <2>2. QED
    BY <2>1, CheckpointMoves
<1>2. QED
  BY <1>1, FirstAlways, PTL DEF WitnessSpec, CheckpointForward

-----------------------------------------------------------------------------
\* Every node runs one process.
SoleProcess == \A p, q \in WitnessProc : node[p] = node[q] => p = q

SecondInv == DecisionInv /\ CoveredInv

\* The invariant of a sole process holds initially.
LEMMA SecondInit == WitnessInit => SecondInv
BY DEF WitnessInit, SecondInv, DecisionInv, CoveredInv, Honest

\* What a quiet step, or a step of another node's process, leaves alone.
LEMMA DecisionKept ==
  ASSUME DecisionInv, NEW q \in WitnessProc,
         checkpoint'[node[q]] = checkpoint[node[q]],
         \/ witness_pc'[q] \in {"idle", "read"}
         \/ witness_pc'[q] = witness_pc[q] /\ head'[q] = head[q] /\ seen'[q] = seen[q]
  PROVE  /\ witness_pc'[q] = "prove" =>
              /\ seen'[q] = checkpoint'[node[q]]
              /\ seen'[q] # None
              /\ Len(seen'[q]) < Len(head'[q])
         /\ witness_pc'[q] = "record" =>
              /\ seen'[q] = checkpoint'[node[q]]
              /\ seen'[q] # None =>
                   Len(seen'[q]) < Len(head'[q]) /\ Extends(seen'[q], head'[q])
         /\ witness_pc'[q] \in {"list", "store"} => head'[q] = checkpoint'[node[q]]
<1>1. CASE witness_pc'[q] \in {"idle", "read"}
  BY <1>1
<1>2. CASE witness_pc'[q] = witness_pc[q] /\ head'[q] = head[q] /\ seen'[q] = seen[q]
  BY <1>2 DEF DecisionInv
<1>3. QED
  BY <1>1, <1>2

\* What a sole process's decision has read stays true.
LEMMA DecisionStep ==
  ASSUME TypeInv, DecisionInv, [WitnessNext]_witnessVars, SoleProcess
  PROVE  DecisionInv'
<1>0. node \in [WitnessProc -> Node] /\ None \notin SignedHead
  BY WitnessAssumption DEF WitnessAssumption
<1>1. SUFFICES ASSUME NEW q \in WitnessProc
      PROVE  /\ witness_pc'[q] = "prove" =>
                  /\ seen'[q] = checkpoint'[node[q]]
                  /\ seen'[q] # None
                  /\ Len(seen'[q]) < Len(head'[q])
             /\ witness_pc'[q] = "record" =>
                  /\ seen'[q] = checkpoint'[node[q]]
                  /\ seen'[q] # None =>
                       Len(seen'[q]) < Len(head'[q]) /\ Extends(seen'[q], head'[q])
             /\ witness_pc'[q] \in {"list", "store"} => head'[q] = checkpoint'[node[q]]
  BY DEF DecisionInv
<1>2. CASE Quiet
  BY <1>2, DecisionKept DEF Quiet
<1>3. CASE \E p \in WitnessProc : Advances(p)
  <2>1. PICK p \in WitnessProc : Advances(p)
    BY <1>3
  <2>2. CASE p # q
    <3>1. witness_pc'[q] = witness_pc[q] /\ head'[q] = head[q] /\ seen'[q] = seen[q]
      BY <2>1, <2>2, OthersStay
    <3>2. node[q] \in Node \ {node[p]}
      BY <1>0, <2>2 DEF SoleProcess
    <3>3. checkpoint'[node[q]] = checkpoint[node[q]]
      BY <2>1, <3>2, ReadStep, ProofStep, RecordStep, ListStep, StoreStep DEF Advances
    <3>4. QED
      BY <3>1, <3>3, DecisionKept
  <2>3. CASE p = q
    <3>1. CASE witness_checkpoint_for(p)
      <4>1. PICK d, c : d = classify_against_checkpoint(c, head[p])
                        /\ c = checkpoint[node[p]]
        OBVIOUS
      <4>2. /\ UNCHANGED checkpoint
            /\ c \in HeadOrNone /\ head[p] \in SignedHead
            /\ \/ witness_pc'[p] = "idle"
               \/ witness_pc'[p] = d /\ head'[p] = head[p] /\ seen'[p] = c
        BY <3>1, <4>1, ReadStep
      <4>3. /\ d = "record" => c = None
            /\ d = "list" => c = head[p] /\ c # None
            /\ d = "prove" => c # None /\ Len(c) < Len(head[p])
            /\ d # "store"
        BY <4>1, <4>2, ClassifyCases
      <4>4. QED
        BY <2>3, <4>1, <4>2, <4>3
    <3>2. CASE ProofVerifies(p)
      <4>1. /\ UNCHANGED checkpoint /\ witness_pc[p] = "prove" /\ Extends(seen[p], head[p])
            /\ witness_pc'[p] = "record" /\ head'[p] = head[p] /\ seen'[p] = seen[p]
        BY <3>2, ProofStep
      <4>2. seen[p] = checkpoint[node[p]] /\ Len(seen[p]) < Len(head[p])
        BY <4>1 DEF DecisionInv
      <4>3. QED
        BY <2>3, <4>1, <4>2
    <3>3. CASE record_witness_checkpoint(p)
      <4>1. witness_pc[p] = "record"
        BY <3>3 DEF record_witness_checkpoint
      <4>2. checkpoint[node[p]] # None =>
              /\ Len(checkpoint[node[p]]) < Len(head[p])
              /\ checkpoint[node[p]] \in SignedHead
        BY <1>0, <4>1 DEF DecisionInv, TypeInv, WitnessTypeOK, HeadOrNone
      <4>3. head[p] \in SignedHead /\ head'[p] = head[p] /\ witness_pc'[p] = "list"
        BY <3>3, RecordStep
      <4>4. checkpoint'[node[p]] = head[p]
        BY <1>0, <3>3, <4>2, <4>3, RecordStep, HeadsAreSequences
      <4>5. QED
        BY <2>3, <4>3, <4>4
    <3>4. CASE list_witness_cosignatures(p)
      <4>1. /\ UNCHANGED checkpoint
            /\ witness_pc[p] = "list"
            /\ \/ witness_pc'[p] = "idle"
               \/ witness_pc'[p] = "store" /\ head'[p] = head[p]
        BY <3>4, ListStep
      <4>2. head[p] = checkpoint[node[p]]
        BY <4>1 DEF DecisionInv
      <4>3. QED
        BY <2>3, <4>1, <4>2
    <3>5. CASE store_witness_cosignature(p)
      BY <2>3, <3>5, StoreStep
    <3>6. QED
      BY <2>1, <3>1, <3>2, <3>3, <3>4, <3>5 DEF Advances
  <2>4. QED
    BY <2>2, <2>3
<1>4. QED
  BY <1>2, <1>3, StepKinds

\* Every cosigned head stays a prefix of the checkpoint.
LEMMA CoveredStep ==
  ASSUME TypeInv, DecisionInv, CoveredInv, [WitnessNext]_witnessVars
  PROVE  CoveredInv'
<1>0. node \in [WitnessProc -> Node] /\ None \notin SignedHead
  BY WitnessAssumption DEF WitnessAssumption
<1>1. SUFFICES ASSUME NEW n \in Honest, NEW h \in cosignatures'[n]
               PROVE  checkpoint'[n] # None /\ Extends(h, checkpoint'[n])
  BY DEF CoveredInv
<1>2. n \in Node
  BY DEF Honest
<1>3. CASE h \in cosignatures[n]
  <2>1. checkpoint[n] \in SignedHead /\ Extends(h, checkpoint[n]) /\ h \in SignedHead
    BY <1>2, <1>3 DEF CoveredInv, TypeInv, WitnessTypeOK, HeadOrNone
  <2>2. CASE checkpoint'[n] = checkpoint[n]
    BY <1>0, <2>1, <2>2
  <2>3. CASE checkpoint'[n] # checkpoint[n]
    <3>1. PICK p \in WitnessProc : Advances(p)
      BY <2>3, StepKinds DEF Quiet
    <3>2. record_witness_checkpoint(p)
      BY <2>3, <3>1, ReadStep, ProofStep, ListStep, StoreStep DEF Advances
    <3>3. n = node[p] /\ checkpoint'[n] = head[p] /\ head[p] \in SignedHead
      BY <1>2, <2>3, <3>2, RecordStep
    <3>4. Extends(checkpoint[n], head[p])
      BY <1>0, <2>1, <3>2, <3>3 DEF DecisionInv, record_witness_checkpoint
    <3>5. Extends(h, head[p])
      BY <2>1, <3>3, <3>4, ExtendsTransitive, HeadsAreSequences
    <3>6. QED
      BY <1>0, <3>3, <3>5
  <2>4. QED
    BY <2>2, <2>3
<1>4. CASE h \notin cosignatures[n]
  <2>1. PICK p \in WitnessProc : store_witness_cosignature(p)
    BY <1>4, StepKinds, ReadStep, ProofStep, ListStep, RecordStep DEF Quiet, Advances
  <2>2. n = node[p] /\ h = head[p] /\ UNCHANGED checkpoint /\ head[p] \in SignedHead
    BY <1>2, <1>4, <2>1, StoreStep
  <2>3. head[p] = checkpoint[node[p]]
    BY <2>1 DEF DecisionInv, store_witness_cosignature
  <2>4. QED
    BY <1>0, <2>2, <2>3, ExtendsReflexive, HeadsAreSequences
<1>5. QED
  BY <1>3, <1>4

\* The invariant of a sole process always holds.
LEMMA SecondAlways ==
  ASSUME SoleProcess
  PROVE  WitnessSpec => [](TypeInv /\ SecondInv)
<1>1. TypeInv /\ SecondInv /\ [WitnessNext]_witnessVars => TypeInv' /\ SecondInv'
  BY TypeStep, DecisionStep, CoveredStep DEF SecondInv
<1>2. QED
  BY <1>1, TypeInit, SecondInit, PTL DEF WitnessSpec

\* What an honest node has cosigned is one history.
LEMMA CoveredConsistent == TypeInv /\ CoveredInv => CosignedConsistent
<1>1. SUFFICES ASSUME TypeInv, CoveredInv, NEW n \in Honest,
                      NEW a \in cosignatures[n], NEW b \in cosignatures[n]
               PROVE  Consistent(a, b)
  BY DEF CosignedConsistent
<1>2. n \in Node
  BY <1>1 DEF Honest
<1>3. cosignatures[n] \subseteq SignedHead /\ checkpoint[n] \in HeadOrNone
  BY <1>1, <1>2 DEF TypeInv, WitnessTypeOK
<1>4. checkpoint[n] # None /\ Extends(a, checkpoint[n]) /\ Extends(b, checkpoint[n])
  BY <1>1 DEF CoveredInv
<1>5. QED
  BY <1>1, <1>3, <1>4, PrefixesConsistent, HeadsAreSequences DEF HeadOrNone

\* With one process per node, all the heads a node cosigns extend one another,
\* whatever the author signs and wherever the process crashes.
THEOREM NodesCosignOneHistory ==
  ASSUME SoleProcess
  PROVE  WitnessSpec => []CosignedConsistent
<1>1. TypeInv /\ SecondInv => CosignedConsistent
  BY CoveredConsistent DEF SecondInv
<1>2. QED
  BY <1>1, SecondAlways, PTL

-----------------------------------------------------------------------------
\* The known list is large enough that two majorities share more witnesses
\* than the author's operator holds.
MajoritiesShareHonest ==
  /\ Cardinality(Node) > 1
  /\ 2 * majority_threshold(Cardinality(Node)) > Cardinality(Node) + Cardinality(Colluding)

ThirdInv == FreshIsStored /\ TrustInv

\* Cosignatures are never taken back.
LEMMA CosignaturesGrow ==
  ASSUME TypeInv, [WitnessNext]_witnessVars, NEW n \in Node
  PROVE  cosignatures[n] \subseteq cosignatures'[n]
<1>1. CASE UNCHANGED cosignatures
  BY <1>1
<1>2. CASE cosignatures' # cosignatures
  <2>1. PICK p \in WitnessProc : store_witness_cosignature(p)
    BY <1>2, StepKinds, ReadStep, ProofStep, ListStep, RecordStep DEF Quiet, Advances
  <2>2. QED
    BY <2>1, StoreStep
<1>3. QED
  BY <1>1, <1>2

\* Every fresh cosignature stays a stored one.
LEMMA FreshStep ==
  ASSUME TypeInv, FreshIsStored, [WitnessNext]_witnessVars
  PROVE  FreshIsStored'
<1>0. node \in [WitnessProc -> Node]
  BY WitnessAssumption DEF WitnessAssumption
<1>1. CASE UNCHANGED fresh
  BY <1>1, CosignaturesGrow DEF FreshIsStored
<1>2. ASSUME NEW p \in WitnessProc, store_witness_cosignature(p) PROVE FreshIsStored'
  <2>1. \/ UNCHANGED <<cosignatures, fresh>>
        \/ /\ cosignatures' = [cosignatures EXCEPT ![node[p]] = @ \cup {head[p]}]
           /\ fresh' = [fresh EXCEPT ![node[p]] = @ \cup {head[p]}]
    BY <1>2 DEF store_witness_cosignature, StoreCosignature
  <2>2. QED
    BY <2>1 DEF FreshIsStored, TypeInv, WitnessTypeOK
<1>3. ASSUME NEW p \in WitnessProc, refresh_witness_cosignature(p) PROVE FreshIsStored'
  <2>1. /\ UNCHANGED cosignatures
        /\ \A n \in Node : fresh'[n] \subseteq fresh[n] \cup cosignatures[n]
    BY <1>0, <1>3 DEF refresh_witness_cosignature, TypeInv, WitnessTypeOK
  <2>2. QED
    BY <2>1 DEF FreshIsStored
<1>4. ASSUME NEW n \in Node, NEW h \in SignedHead, Expire(n, h) PROVE FreshIsStored'
  BY <1>4 DEF Expire, FreshIsStored, TypeInv, WitnessTypeOK
<1>5. ASSUME NEW p \in WitnessProc, DecideStep(p), ~store_witness_cosignature(p)
      PROVE  UNCHANGED fresh
  BY <1>5 DEF DecideStep, witness_checkpoint_for, ProofVerifies, ProofFails,
              record_witness_checkpoint, list_witness_cosignatures, witnessDb
<1>6. ASSUME NEW p \in WitnessProc,
             \/ \E h \in SignedHead : decide(p, h)
             \/ RefuseEquivocating(p)
             \/ StorageError(p)
             \/ reattest_once(p)
             \/ mark_equivocating(p)
             \/ record_witness_equivocation_evidence(p)
             \/ WitnessCrash(p)
      PROVE  UNCHANGED fresh
  BY <1>6 DEF decide, RefuseEquivocating, StorageError, reattest_once,
              mark_equivocating, record_witness_equivocation_evidence, WitnessCrash,
              witnessDb, witnessVars
<1>7. ASSUME NEW h \in SignedHead, resolve_majority(h) PROVE UNCHANGED fresh
  BY <1>7 DEF resolve_majority, witnessDb
<1>8. CASE UNCHANGED witnessVars
  BY <1>1, <1>8 DEF witnessVars
<1>9. QED
  BY <1>1, <1>2, <1>3, <1>4, <1>5, <1>6, <1>7, <1>8 DEF WitnessNext

\* A head becomes trusted only by a verifier's majority.
LEMMA TrustedGrows ==
  ASSUME [WitnessNext]_witnessVars, NEW h \in trusted', h \notin trusted
  PROVE  verify_cosigned_tree_head(h)
<1>1. ASSUME NEW g \in SignedHead, resolve_majority(g)
      PROVE  verify_cosigned_tree_head(h)
  BY <1>1 DEF resolve_majority
<1>2. ASSUME NEW p \in WitnessProc, DecideStep(p) PROVE UNCHANGED trusted
  BY <1>2 DEF DecideStep, witness_checkpoint_for, ProofVerifies, ProofFails,
              record_witness_checkpoint, list_witness_cosignatures,
              store_witness_cosignature
<1>3. ASSUME NEW p \in WitnessProc,
             \/ \E g \in SignedHead : decide(p, g)
             \/ RefuseEquivocating(p)
             \/ StorageError(p)
             \/ reattest_once(p)
             \/ refresh_witness_cosignature(p)
             \/ mark_equivocating(p)
             \/ record_witness_equivocation_evidence(p)
             \/ WitnessCrash(p)
      PROVE  UNCHANGED trusted
  BY <1>3 DEF decide, RefuseEquivocating, StorageError, reattest_once,
              refresh_witness_cosignature, mark_equivocating,
              record_witness_equivocation_evidence, WitnessCrash, witnessVars
<1>4. ASSUME NEW n \in Node, NEW g \in SignedHead, Expire(n, g) PROVE UNCHANGED trusted
  BY <1>4 DEF Expire
<1>5. UNCHANGED witnessVars => UNCHANGED trusted
  BY DEF witnessVars
<1>6. QED
  BY <1>1, <1>2, <1>3, <1>4, <1>5 DEF WitnessNext

INSTANCE FiniteSetTheorems

\* Every trusted head keeps the majority that made it trusted.
LEMMA TrustStep ==
  ASSUME TypeInv, FreshIsStored, TrustInv, [WitnessNext]_witnessVars, Cardinality(Node) > 1
  PROVE  TrustInv'
<1>0. /\ IsFiniteSet(Node)
      /\ Cardinality(Node) \in Nat
      /\ majority_threshold(Cardinality(Node)) \in Int
  <2>1. IsFiniteSet(Node)
    BY WitnessAssumption DEF WitnessAssumption
  <2>2. Cardinality(Node) \in Nat
    BY <2>1, FS_CardinalityType
  <2>3. QED
    BY <2>1, <2>2 DEF majority_threshold
<1>1. SUFFICES ASSUME NEW h \in trusted'
               PROVE  Cardinality(Cosigners(h)') >= majority_threshold(Cardinality(Node))
  BY DEF TrustInv
<1>3. Cosigners(h) \subseteq Cosigners(h)' /\ Cosigners(h)' \subseteq Node
  BY CosignaturesGrow DEF Cosigners
<1>4. /\ Cardinality(Cosigners(h)) \in Nat
      /\ Cardinality(Cosigners(h)') \in Nat
      /\ Cardinality(Cosigners(h)) <= Cardinality(Cosigners(h)')
  <2>1. IsFiniteSet(Cosigners(h)')
    BY <1>0, <1>3, FS_Subset
  <2>2. IsFiniteSet(Cosigners(h))
    BY <1>3, <2>1, FS_Subset
  <2>3. QED
    BY <1>3, <2>1, <2>2, FS_Subset, FS_CardinalityType
<1>5. Cardinality(Cosigners(h)) >= majority_threshold(Cardinality(Node))
  <2>1. CASE h \in trusted
    BY <2>1 DEF TrustInv
  <2>2. CASE h \notin trusted
    <3>1. verify_cosigned_tree_head(h)
      BY <2>2, TrustedGrows
    <3>2. Cardinality(FreshWitnesses(h)) >= majority_threshold(Cardinality(Node))
      BY <1>0, <3>1 DEF verify_cosigned_tree_head
    <3>3. FreshWitnesses(h) \subseteq Cosigners(h) /\ Cosigners(h) \subseteq Node
      BY DEF FreshWitnesses, Cosigners, FreshIsStored
    <3>4. /\ Cardinality(FreshWitnesses(h)) \in Nat
          /\ Cardinality(FreshWitnesses(h)) <= Cardinality(Cosigners(h))
      <4>1. IsFiniteSet(Cosigners(h))
        BY <1>0, <3>3, FS_Subset
      <4>2. IsFiniteSet(FreshWitnesses(h))
        BY <3>3, <4>1, FS_Subset
      <4>3. QED
        BY <3>3, <4>1, <4>2, FS_Subset, FS_CardinalityType
    <3>5. QED
      BY <1>0, <1>4, <3>2, <3>4
  <2>3. QED
    BY <2>1, <2>2
<1>6. QED
  BY <1>0, <1>4, <1>5

\* Two majorities of the known list share an honest witness.
LEMMA SharedHonestWitness ==
  ASSUME MajoritiesShareHonest,
         NEW A \in SUBSET Node, NEW B \in SUBSET Node,
         Cardinality(A) >= majority_threshold(Cardinality(Node)),
         Cardinality(B) >= majority_threshold(Cardinality(Node))
  PROVE  \E n \in A \cap B : n \in Honest
<1>1. IsFiniteSet(Node) /\ Colluding \subseteq Node
  BY WitnessAssumption DEF WitnessAssumption
<1>2. IsFiniteSet(A) /\ IsFiniteSet(B) /\ IsFiniteSet(Colluding)
  BY <1>1, FS_Subset
<1>3. /\ IsFiniteSet(A \cup B)
      /\ Cardinality(A \cup B) = Cardinality(A) + Cardinality(B) - Cardinality(A \cap B)
  BY <1>2, FS_Union
<1>4. Cardinality(A \cup B) <= Cardinality(Node)
  <2>1. A \cup B \in SUBSET Node
    OBVIOUS
  <2>2. QED
    BY <1>1, <2>1, FS_Subset
<1>5. IsFiniteSet(A \cap B)
  BY <1>2, FS_Intersection, Zenon
<1>6. /\ Cardinality(A) \in Nat /\ Cardinality(B) \in Nat
      /\ Cardinality(A \cap B) \in Nat /\ Cardinality(A \cup B) \in Nat
      /\ Cardinality(Node) \in Nat /\ Cardinality(Colluding) \in Nat
  BY <1>1, <1>2, <1>3, <1>5, FS_CardinalityType
<1>7. majority_threshold(Cardinality(Node)) \in Nat
  BY <1>6 DEF majority_threshold
<1>8. Cardinality(A \cap B) > Cardinality(Colluding)
  BY <1>3, <1>4, <1>6, <1>7 DEF MajoritiesShareHonest
<1>9. ~(A \cap B \subseteq Colluding)
  <2>1. SUFFICES ASSUME A \cap B \in SUBSET Colluding PROVE FALSE
    OBVIOUS
  <2>2. Cardinality(A \cap B) <= Cardinality(Colluding)
    BY <1>2, <2>1, FS_Subset
  <2>3. QED
    BY <1>6, <1>8, <2>2
<1>10. QED
  BY <1>9 DEF Honest

\* The invariant of the verifiers holds initially.
LEMMA ThirdInit == WitnessInit => ThirdInv
BY DEF WitnessInit, ThirdInv, FreshIsStored, TrustInv

\* Verifiers never trust heads of two histories, for every known list in which
\* two majorities share more witnesses than the author's operator holds, with
\* one process per node.
THEOREM VerifiersTrustOneHistory ==
  ASSUME SoleProcess, MajoritiesShareHonest
  PROVE  WitnessSpec => []TrustedConsistent
<1>1. Cardinality(Node) > 1
  BY DEF MajoritiesShareHonest
<1>2. WitnessSpec => [](TypeInv /\ ThirdInv)
  <2>1. TypeInv /\ ThirdInv /\ [WitnessNext]_witnessVars => TypeInv' /\ ThirdInv'
    BY <1>1, TypeStep, FreshStep, TrustStep DEF ThirdInv
  <2>2. QED
    BY <2>1, TypeInit, ThirdInit, PTL DEF WitnessSpec
<1>3. CosignedConsistent /\ ThirdInv => TrustedConsistent
  <2>1. SUFFICES ASSUME CosignedConsistent, TrustInv,
                        NEW a \in trusted, NEW b \in trusted
                 PROVE  Consistent(a, b)
    BY DEF TrustedConsistent, ThirdInv
  <2>2. /\ Cardinality(Cosigners(a)) >= majority_threshold(Cardinality(Node))
        /\ Cardinality(Cosigners(b)) >= majority_threshold(Cardinality(Node))
    BY <2>1 DEF TrustInv
  <2>3. Cosigners(a) \in SUBSET Node /\ Cosigners(b) \in SUBSET Node
    BY DEF Cosigners
  <2>4. PICK n \in Cosigners(a) \cap Cosigners(b) : n \in Honest
    BY <2>2, <2>3, SharedHonestWitness
  <2>5. a \in cosignatures[n] /\ b \in cosignatures[n]
    BY <2>4 DEF Cosigners
  <2>6. QED
    BY <2>1, <2>4, <2>5 DEF CosignedConsistent
<1>4. QED
  BY <1>2, <1>3, NodesCosignOneHistory, PTL
=============================================================================
