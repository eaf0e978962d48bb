------------------------------ MODULE MCLedger ------------------------------
(***************************************************************************)
(* Instances of Ledger for TLC.  In a behaviour either proofs are read or  *)
(* a batch is prepared for its owner's signature: the two share only the   *)
(* rows they read.                                                         *)
(***************************************************************************)
EXTENDS Ledger, TLC

CONSTANTS Focused, p1, p2, c1, c2, r1, b1, b2, b3, o1, o2, e1, e2, e3

VARIABLE focus

\* Two one-event batches and one of two events, so that two different batches
\* can reach the same tree size.
ThreeBatches == b1 :> <<e1>> @@ b2 :> <<e2>> @@ b3 :> <<e3, e1>>

\* One committer in each of two processes.
TwoProcesses == c1 :> p1 @@ c2 :> p2 @@ r1 :> p1

EmptyLedger == [rows |-> <<>>, batches |-> {}, heads |-> {}]

\* A promoted ledger: two batches of one event, with a gap between their seqs.
PromotedLedger ==
  LET h1 == hash_entry(1, Genesis, e1)
      h2 == hash_entry(3, h1, e2)
  IN [rows    |-> <<[seq |-> 1, event |-> e1, prev |-> Genesis, hash |-> h1, batch |-> o1],
                    [seq |-> 3, event |-> e2, prev |-> h1, hash |-> h2, batch |-> o2]>>,
      batches |-> {[id |-> o1, last |-> 1, root |-> <<h1>>],
                   [id |-> o2, last |-> 3, root |-> <<h1, h2>>]},
      heads   |-> {[size |-> 2, root |-> <<h1, h2>>]}]

LedgerInit == focus \in Focused /\ Init

LedgerNext ==
  /\ UNCHANGED focus
  /\ \/ \E c \in Committer : CommitterNext(c)
     \/ focus = "prepare" /\ \E b \in Batch : PrepareNext(b)
     \/ focus = "read" /\ \E r \in Reader : ReaderNext(r)
     \/ \E p \in Proc : Crash(p)

LedgerSpec == LedgerInit /\ [][LedgerNext]_<<focus, vars>>
FairLedgerSpec == LedgerSpec /\ Fairness
=============================================================================
