----------------------------- MODULE JobMachine -----------------------------
(***************************************************************************)
(* The job lifecycle the worker promises (worker/src/lib/job-machine.ts):  *)
(* which state moves are legal, and that no other is ever persisted.       *)
(***************************************************************************)
CONSTANT Jobs

VARIABLE state

Terminal == {"SETTLED", "ABSTAINED", "EXPIRED", "RESOLVED"}
JobStates == Terminal \cup {"FUNDED", "DISPATCHED", "AWAITING_DELIVERY", "DELIVERED",
                            "VERIFYING", "PROPOSED", "DISPUTED", "ESCALATED"}

Forward ==
  [FUNDED            |-> {"DISPATCHED", "DELIVERED"},
   DISPATCHED        |-> {"AWAITING_DELIVERY", "DELIVERED"},
   AWAITING_DELIVERY |-> {"DELIVERED"},
   DELIVERED         |-> {"VERIFYING"},
   VERIFYING         |-> {"SETTLED", "ABSTAINED", "PROPOSED"},
   PROPOSED          |-> {"SETTLED", "ABSTAINED", "DISPUTED"},
   DISPUTED          |-> {"ESCALATED"},
   ESCALATED         |-> {"RESOLVED"}]

(* Every live state may also expire; nothing leaves a terminal one.        *)
CanTransition(from, to) ==
  /\ from \notin Terminal
  /\ to \in Forward[from] \cup {"EXPIRED"}

OutcomeToState(outcome) == IF outcome = "abstain" THEN "ABSTAINED" ELSE "SETTLED"
------------------------------------------------------------------------------
MachineInit == state = [j \in Jobs |-> "ABSENT"]

Create(j) == state[j] = "ABSENT" /\ state' = [state EXCEPT ![j] = "FUNDED"]

Move(j) ==
  /\ state[j] # "ABSENT"
  /\ \E to \in JobStates : /\ CanTransition(state[j], to)
                           /\ state' = [state EXCEPT ![j] = to]

MachineNext == \E j \in Jobs : Create(j) \/ Move(j)

Lifecycle == MachineInit /\ [][MachineNext]_state
=============================================================================
