--------------------------- MODULE WitnessLineage ----------------------------
(***************************************************************************)
(* TwoPhaseSidecar with the heads of the live audit log remembered, so     *)
(* that one can say whether the log behind an accepted checkpoint extends  *)
(* the log behind the checkpoint the witness held before (docs/57,         *)
(* "Rollback protection").                                                 *)
(***************************************************************************)
EXTENDS TwoPhaseSidecar, Sequences

VARIABLE log   \* history: the event hashes of the live audit log, in order

lineageVars == <<vars, log>>

LineageInit == Init /\ log = <<>>

\* An operation appends its event; the restored log ends where the snapshot did.
Remember == log' = IF count' > count THEN Append(log, head') ELSE SubSeq(log, 1, count')

LineageNext ==
  \/ \E p \in Workers : (WorkerStep(p) \/ WorkerFault(p)) /\ Remember
  \/ ChainStep /\ Remember
  \/ Snapshot /\ Remember
  \/ RestoreDisk /\ Remember

LineageSpec == LineageInit /\ [][LineageNext]_lineageVars

(***************************************************************************)
(* The audit log a witness follows never forks: the head it held is on the *)
(* log of the checkpoint it accepts.  The witness cannot see the log; the  *)
(* comparison of event counts and the bootstrap anchor of every new        *)
(* process (a restored ledger serves nothing before the witnesses have     *)
(* accepted it) are together what makes it so.                             *)
(***************************************************************************)
AcceptsOnlyExtensions ==
  [][\A w \in Reliable :
       (store[w] # NoRecord /\ store'[w] # store[w] /\ store[w].count > 0) =>
         store[w].count \in DOMAIN log /\ log[store[w].count] = store[w].head]_lineageVars
=============================================================================
