------------------------------ MODULE MCClients ------------------------------
(* The exchange of offers through the SDK, the page of a job, the page a   *)
(* person hires from, the ACP evaluator and the corridor script, on small  *)
(* instances.  They share no variable, and a behaviour is one of a single  *)
(* part, while the others stay as they were at first.                      *)
EXTENDS MCOfferExchange, JobPage, HumanHire, AcpEvaluator, CorridorMatrix

CONSTANTS a1, c1, c2

(* Two corridors end on the same chain, as in the script.                  *)
CorridorDests == <<"base", "op", "base">>

VARIABLE part \* which of them this is a behaviour of

(* Neither criteria nor requests to the faucet differ in more than their   *)
(* names: the payer asks for the first, and the requests come in in order. *)
FirstClickFirst == click'[c1].at = "new" => click'[c2].at = "new"

ClientsInit ==
  /\ part \in {"exchange", "job page", "hire", "evaluator", "corridors"}
  /\ JobPageInit /\ HireInit /\ AcpInit /\ MCOfferInit /\ CorridorInit
  /\ terms.criteria = CHOOSE c \in Criteria : TRUE
  /\ part # "exchange" => client[l1] = "new" /\ terms.routes = OnArc

ClientsNext ==
  /\ \/ part = "exchange" /\ OfferNext /\ UNCHANGED <<jobVars, hireVars, acpVars, corridorVars>>
     \/ part = "job page" /\ JobPageNext /\ UNCHANGED <<exchangeVars, hireVars, acpVars, corridorVars>>
     \/ part = "hire" /\ HireNext /\ FirstClickFirst /\ UNCHANGED <<exchangeVars, jobVars, acpVars, corridorVars>>
     \/ part = "evaluator" /\ AcpNext /\ UNCHANGED <<exchangeVars, jobVars, hireVars, corridorVars>>
     \/ part = "corridors" /\ CorridorNext /\ UNCHANGED <<exchangeVars, jobVars, hireVars, acpVars>>
  /\ UNCHANGED part

ClientsSpec == ClientsInit /\
  [][ClientsNext]_<<part, exchangeVars, jobVars, hireVars, acpVars, corridorVars>>

(* Every part keeps its variables in their types.                          *)
ClientsTypeOK == OfferTypeOK /\ JobPageTypeOK /\ HireTypeOK /\ AcpTypeOK /\ CorridorTypeOK
=============================================================================
