-------------------------- MODULE TwoPhaseProgress ---------------------------
(***************************************************************************)
(* TwoPhaseSidecar under an operator who keeps asking: after a bounded     *)
(* number of faults (crashes, lost requests or answers, unreadable Core,   *)
(* reorganisations) everything a signed preauthorization is entitled to    *)
(* comes out.                                                              *)
(*                                                                         *)
(* The sidecar is a command the operator runs once per request             *)
(* (scripts/ranklock_two_phase_sidecar.py); nothing in it retries by       *)
(* itself.  What makes the operator's retries sound is that every call is  *)
(* idempotent, and that is what is examined here.  The disk is not put     *)
(* back: after that, docs/57 gives up liveness on purpose.                 *)
(***************************************************************************)
EXTENDS TwoPhaseSidecar

CONSTANT MaxFaults   \* how often something goes wrong

ASSUME MaxFaultsAssumption == MaxFaults \in Nat

VARIABLE faults   \* how often something went wrong

progressVars == <<vars, faults>>

ProgressInit == Init /\ faults = 0

\* The operator runs the command for a response file that is missing; for a
\* seed only while the chain confirms the witness transaction.
Confirmed(s, b) == \E k \in Blocks : chain[s] = <<b, k>>

OperatorAsks(p) ==
  /\ \E s \in SlotIds, b \in Bindings :
       \/ <<s, b>> \notin labels /\ RequestLabels(p, s, b)
       \/ <<s, b>> \notin seeds /\ Confirmed(s, b) /\ RequestSeed(p, s, b)
  /\ UNCHANGED faults

\* A call that has begun, or a process that starts.
Working(p) ==
  /\ worker[p].pc # "ready"
  /\ WorkerStep(p)
  /\ UNCHANGED faults

\* The witness transaction is mined, also again after a reorganisation.
Mining ==
  /\ \E s \in SlotIds, b \in Bindings, k \in Blocks : Mine(s, b, k)
  /\ UNCHANGED faults

\* Building the labels from intact stored material does not fail, so
\* LabelsMalformed is not among the transient faults.
Fault ==
  /\ faults < MaxFaults
  /\ faults' = faults + 1
  /\ \/ \E p \in Workers : PhaseTwoRaises(p) \/ WitnessTrouble(p) \/ Crash(p)
     \/ \E s \in SlotIds : Reorganise(s)

ProgressNext ==
  \/ \E p \in Workers : OperatorAsks(p) \/ Working(p)
  \/ Mining
  \/ Fault

(***************************************************************************)
(* Fairness: a running process takes its next step (straight-line code,    *)
(* every external call has a timeout), the operator runs the command again *)
(* while a file is missing, and miners include the transaction.            *)
(***************************************************************************)
Fairness ==
  /\ \A p \in Workers : WF_progressVars(Working(p)) /\ WF_progressVars(OperatorAsks(p))
  /\ WF_progressVars(Mining)

ProgressSpec == ProgressInit /\ [][ProgressNext]_progressVars /\ Fairness

-----------------------------------------------------------------------------
(***************************************************************************)
(* Phase one is served: a crash or a lost message at any point between the *)
(* burn and the response file never leaves a slot whose labels cannot be   *)
(* had any more.  The retry is an exact replay and the witnesses accept    *)
(* what the restarted process shows them.                                  *)
(***************************************************************************)
LabelsServed == \A s \in SlotIds, b \in Bindings : <>(<<s, b>> \in labels)

(***************************************************************************)
(* Phase two is served or ends: once labels are out, the seed comes out or *)
(* the slot is aborted, even when the process dies between the terminal    *)
(* success and the response file.                                          *)
(***************************************************************************)
SeedServedOrAborted ==
  \A s \in SlotIds, b \in Bindings :
    <<s, b>> \in labels ~> (<<s, b>> \in seeds \/ slots[s].state = "abort")
=============================================================================
