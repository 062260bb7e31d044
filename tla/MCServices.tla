----------------------------- MODULE MCServices -----------------------------
(* The escrow, the verdict pipeline, the attestations, the page of a run,  *)
(* the exchange with a seller, the fees and the list of jobs on small      *)
(* instances.  They share no variable, and a behaviour is one of a single  *)
(* part, while the others stay as they were at first.                      *)
EXTENDS MCVerdiktEscrow, VerdictPipeline, Attestation, RunPage, SellerExchange, VerdictFee, JobsList

CONSTANTS s1, s2, s3, v1, v2

VARIABLE part \* which of them this is a behaviour of

servicesVars ==
  <<part, vars, pipelineVars, attestVars, pageVars, sellerVars, feeVars, listVars>>

(* One settlement paid, the other abstained.                               *)
SettledAlternately == [s \in Settlements |-> IF s = 1 THEN "release" ELSE "abstain"]

(* What a stream can tell of a run: a test that fails, only progress, an   *)
(* abstention, nothing at all.                                             *)
RunStories == {<<"static_fail", "fail", "settled">>, <<"progress", "pass", "settled">>,
               <<"abstain", "error">>, <<>>}

(* A work that the seller submits twice, and another one.                  *)
TwoOfOneWork == [c \in Submissions |-> IF c = s3 THEN v2 ELSE v1]

ServicesInit ==
  /\ part \in {"escrow", "pipeline", "attestation", "run page", "seller", "fees", "jobs list"}
  /\ Init /\ PipelineInit /\ AttestInit
  /\ PageInit /\ (part # "run page" => page = CHOOSE p \in Pages : TRUE)
  /\ SellerInit /\ (part # "seller" => protocol = "x402")
  /\ FeeInit /\ (part # "fees" => metered)
  /\ ListInit

ServicesNext ==
  /\ \/ part = "escrow" /\ Next
     \/ part # "escrow" /\ UNCHANGED vars
  /\ \/ part = "pipeline" /\ PipelineNext
     \/ part # "pipeline" /\ UNCHANGED pipelineVars
  /\ \/ part = "attestation" /\ AttestNext
     \/ part # "attestation" /\ UNCHANGED attestVars
  /\ \/ part = "run page" /\ PageNext
     \/ part # "run page" /\ UNCHANGED pageVars
  /\ \/ part = "seller" /\ SellerNext
     \/ part # "seller" /\ UNCHANGED sellerVars
  /\ \/ part = "fees" /\ FeeNext
     \/ part # "fees" /\ UNCHANGED feeVars
  /\ \/ part = "jobs list" /\ ListNext
     \/ part # "jobs list" /\ UNCHANGED listVars
  /\ UNCHANGED part

(* The fairness of each part.  Of the fair actions only the clock is       *)
(* enabled at first, where a part that is left alone stays.                *)
ServicesFairness ==
  WF_vars(part = "escrow" /\ Tick) /\ Levers /\ PageFairness /\ SellerFairness

ServicesSpec == ServicesInit /\ [][ServicesNext]_servicesVars /\ ServicesFairness

(* Every part keeps its variables in their types.                          *)
ServicesTypeOK ==
  /\ TypeOK /\ PipelineTypeOK /\ AttestTypeOK /\ PageTypeOK /\ SellerTypeOK /\ FeeTypeOK
  /\ ListTypeOK
=============================================================================
