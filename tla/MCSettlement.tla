---------------------------- MODULE MCSettlement ----------------------------
(* From a request's events to every reader's view, on small instances: the    *)
(* outbox, the witnesses of the author's heads, the watcher that mirrors a    *)
(* shard and the projection of mirrored entries.  A behaviour moves the       *)
(* component in focus; the others stay as they begin.                         *)
EXTENDS Outbox, Witness, Mirror, Projection, TLC

CONSTANTS Focused,  \* the components of a run, of which a behaviour moves one
          Home, Remote, Dead, ea, eb, n1, n2, p1, p2, a1, a2, a3, b2, b3, s1, s2,
          core, game, grantKey, grant, child, other, mine, blob

VARIABLE focus

-----------------------------------------------------------------------------
(* The outbox: shard 1 is settled at home, shard 2 by a remote authority and  *)
(* shard 3 is configured for an authority that never answers.                 *)

Authorities == {Home, Remote}
AuthoritiesAndDead == {Home, Remote, Dead}
TwoTargets == <<Home, Remote>>
ThreeTargets == <<Home, Remote, Dead>>

\* Two events of the remote shard and one of the home shard in one
\* transaction, more than one tick takes.
TwoRemote == <<2, 1, 2>>
OneTransaction == <<1, 1, 1>>

\* One event for each shard, that of the dead authority first.
DeadFirst == <<3, 1, 2>>
OwnTransactions == <<1, 2, 3>>

-----------------------------------------------------------------------------
(* Witnesses: a fork at the first entry, with heads of two sizes on either    *)
(* side; and two conflicting heads with one that extends the first of them.   *)

EarlyFork == {<<ea>>, <<eb>>, <<ea, ea>>, <<eb, eb>>}
SmallFork == {<<ea>>, <<eb>>, <<ea, ea>>}
OneWitnessProcess == p1 :> n1
TwoWitnessProcesses == p1 :> n1 @@ p2 :> n1

-----------------------------------------------------------------------------
(* Mirrors: entries are named for their branch and position; branch a has no  *)
(* seq 3, as a log promoted from one with gaps keeps them.  The author        *)
(* appends, or it forks at its second entry with a longer head on one side.   *)

Labels == a1 :> 1 @@ a2 :> 2 @@ a3 :> 4 @@ b2 :> 2 @@ b3 :> 3
AppendsOnly == {<<a1>>, <<a1, a2>>, <<a1, a2, a3>>}
LateFork == {<<a1, a2>>, <<a1, b2>>, <<a1, b2, b3>>}

-----------------------------------------------------------------------------
(* Projection: grant and child are about the identity of grantKey, the others *)
(* about another one.                                                         *)

OwnIds == [e \in ProjectedEntry |-> e]
Identities == [e \in ProjectedEntry |-> IF e \in {grantKey, grant, child} THEN core ELSE game]
NoNeeds == [e \in ProjectedEntry |-> {}]

\* The core shard's key verifies with an event this node projects itself, the
\* game shard's entry with what that key gives; one entry of the core shard is
\* no protocol event.
OwnNeeds == [e \in ProjectedEntry |-> CASE e = grant -> {grantKey}
                                        [] e = grantKey -> {mine}
                                        [] OTHER -> {}]
BlobLogs == core :> <<blob, grantKey>> @@ game :> <<grant>>

\* grant refers to the identity the core shard creates, the rest waits for its
\* key.
GrantNeeds == [e \in ProjectedEntry |-> IF e = grant THEN {grantKey} ELSE {}]
RestNeeds == [e \in ProjectedEntry |-> IF e \in {other, child} THEN {grantKey} ELSE {}]
ThreeLogs == core :> <<grantKey>> @@ game :> <<grant, other, child>>

-----------------------------------------------------------------------------
SettlementInit ==
    focus \in Focused /\ OutboxInit /\ WitnessInit /\ MirrorInit /\ ProjectionInit

SettlementNext ==
    \/ focus = "outbox" /\ OutboxNext /\ UNCHANGED <<focus, witnessVars, mirrorVars, projectionVars>>
    \/ focus = "witness" /\ WitnessNext /\ UNCHANGED <<focus, outboxVars, mirrorVars, projectionVars>>
    \/ focus = "mirror" /\ MirrorNext /\ UNCHANGED <<focus, outboxVars, witnessVars, projectionVars>>
    \/ focus = "projection" /\ ProjectionNext /\ UNCHANGED <<focus, outboxVars, witnessVars, mirrorVars>>

settlementVars == <<focus, outboxVars, witnessVars, mirrorVars, projectionVars>>

SettlementSpec == SettlementInit /\ [][SettlementNext]_settlementVars

(* The fairness that the specification of the component in focus assumes.     *)
SettlementFairness ==
    \/ focus = "outbox" /\ OutboxFairness
    \/ focus = "witness" /\ WitnessFairness

FairSettlementSpec == SettlementSpec /\ SettlementFairness
FairProjectionSpec == SettlementSpec /\ ProjectionFairness

-----------------------------------------------------------------------------
(* The rows of every other shard are settled though one shard's authority     *)
(* never answers (outbox.rs, drain_once).                                     *)
OutboxProgresses == focus = "outbox" => OtherShardsProgress

=============================================================================
