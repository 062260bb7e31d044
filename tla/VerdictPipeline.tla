--------------------------- MODULE VerdictPipeline ---------------------------
(***************************************************************************)
(* How one delivered artifact becomes one settlement call: a verification  *)
(* route turns it into evidence (worker/src/engine/*-route.ts), the        *)
(* reasoner into a verdict (engine/reasoner.ts), the tiers into a call on  *)
(* the escrow (settlement/tiers.ts).  A disputable job first holds the     *)
(* verdict in the database (lib/engine-instance.ts), where a party may     *)
(* have it reviewed by the arbiter (lib/arbiter.ts).                       *)
(*                                                                         *)
(* An evidence item is an id with a status.  A confidence is counted in    *)
(* ten-thousandths and a score in basis points, so the roundings are       *)
(* integer ones; PipelineAssumption leaves out the confidences on which    *)
(* the double arithmetic of the code rounds a tie differently.             *)
(***************************************************************************)
EXTENDS Integers, FiniteSets

CONSTANTS
  Items,       \* ids an evidence item can have
  Confidences, \* what the model may answer, in ten-thousandths, unvalidated
  NoItem       \* a cited id that is in no bundle

VARIABLES
  phase,       \* "delivered", "routed", "judged", "held", "settled", "thrown"
  bundle,      \* the evidence
  emitted,     \* what the reasoner emitted
  row,         \* what vk_verdicts keeps of it
  disputedBy,
  settled      \* the verdict that was settled

pipelineVars == <<phase, bundle, emitted, row, disputedBy, settled>>

VerdictLabels == {"pass", "fail", "partial", "abstain"}
None == [label |-> "none", confidence |-> 0, score |-> 0]

ASSUME PipelineAssumption ==
  /\ IsFiniteSet(Items) /\ NoItem \notin Items
  /\ Confidences \subseteq Nat /\ \A c \in Confidences :
       c % 100 # 50 /\ ((c + 5) \div 10) \notin {145, 285, 565, 575}
------------------------------------------------------------------------------
(* The routes: the bundles each can return.                                *)
NoItems == [i \in {} |-> "pass"]
Bundle(items, routeError) == [items |-> items, routeError |-> routeError]
Statuses(S) == UNION {[ids -> S] : ids \in SUBSET Items}
Some(items, status) == \E i \in DOMAIN items : items[i] = status
Only(items, S) == \A i \in DOMAIN items : items[i] \in S

(* Missing inputs, or a tool that failed: no evidence.                     *)
Nothing == {Bundle(NoItems, TRUE)}

(* Tests and static findings.  When all is well the payer's own tests may  *)
(* be scored by mutation, and a weak suite is an info item and an error.   *)
CodeRoute ==
  Nothing
  \cup {Bundle(f, FALSE) : f \in {g \in Statuses({"pass", "fail"}) : DOMAIN g # {}}}
  \cup {Bundle(f, TRUE) : f \in {g \in Statuses({"pass", "info"}) :
          Some(g, "pass") /\ Cardinality({i \in DOMAIN g : g[i] = "info"}) = 1}}

(* callTool, for either provider: it throws, the model calls no tool (or   *)
(* with arguments that are not JSON), or it answers, unvalidated.          *)
CallTool(answers) ==
  {[is |-> "thrown"], [is |-> "nothing"]} \cup {[is |-> "input", input |-> a] : a \in answers}

(* The lexical gate: the model names a claim and a span, which spans when  *)
(* it is verbatim in the sources, long enough, and covers the claim.       *)
Verified(said) == said.label = "supported" /\ said.spans

LexicalGate(item, said) ==
  Bundle([i \in {item} |-> IF Verified(said) THEN "pass" ELSE "info"], ~Verified(said))

GroundingRoute ==
  UNION {IF answer.is = "input" THEN {LexicalGate(item, answer.input) : item \in Items} ELSE Nothing :
           answer \in CallTool([label : {"supported", "unsupported"}, spans : BOOLEAN])}

(* The claims of the answer: none when the model has no answer.            *)
Decompose == SUBSET Items

(* Not entailed, with no span, is a claim that the model does not mention, *)
(* or every claim when it has no answer.  The span it copied is looked up  *)
(* in the sources, whoever gave the label.                                 *)
EntailLabels == {"entailed", "not_entailed", "contradicted"}
EntailLLM(claims) == [claims -> [label : EntailLabels, located : BOOLEAN]]

(* The optional scorer: a label per claim, or nothing at all.              *)
EntailNLI(claims) == CallTool([claims -> EntailLabels]) \ {[is |-> "thrown"]}

Scored(llm, nli) ==
  [c \in DOMAIN llm |-> IF nli.is = "nothing" THEN llm[c] ELSE [llm[c] EXCEPT !.label = nli.input[c]]]

ClaimStatus(claim) ==
  CASE claim.label = "contradicted" -> "fail"
    [] claim.label = "entailed" /\ claim.located -> "pass"
    [] OTHER -> "info"

Grounded(claims) ==
  {LET items == [c \in claims |-> ClaimStatus(Scored(llm, nli)[c])]
   IN Bundle(items, Some(items, "info") /\ ~Some(items, "fail")) :
     llm \in EntailLLM(claims), nli \in EntailNLI(claims)}

GroundingV2 == UNION {IF claims = {} THEN Nothing ELSE Grounded(claims) : claims \in Decompose}

(* Checks of the body; a payer schema that does not compile is found after *)
(* two of them.                                                            *)
SchemaRoute ==
  Nothing
  \cup {Bundle(f, FALSE) : f \in {g \in Statuses({"pass", "fail"}) : DOMAIN g # {}}}
  \cup {Bundle(f, TRUE) : f \in {g \in Statuses({"pass", "fail"}) :
          Cardinality(DOMAIN g) = 2 /\ Some(g, "pass")}}

ExecutionRoute ==
  Nothing \cup {Bundle(f, FALSE) : f \in {g \in Statuses({"pass", "fail"}) : DOMAIN g # {}}}

(* The scope disclosure is always there, as an info item.                  *)
ToolTraceRoute ==
  Nothing
  \cup {Bundle(f, FALSE) : f \in {g \in Statuses({"pass", "fail", "info"}) :
          /\ Cardinality({i \in DOMAIN g : g[i] = "info"}) = 1
          /\ ~Only(g, {"info"})}}

RouteArtifact ==
  CodeRoute \cup GroundingRoute \cup GroundingV2 \cup SchemaRoute \cup ExecutionRoute
  \cup ToolTraceRoute
------------------------------------------------------------------------------
(* Confidence, score and split.                                            *)
Clamp(lo, n, hi) == IF n < lo THEN lo ELSE IF n > hi THEN hi ELSE n
RoundedScore(confidence) == ((confidence + 50) \div 100) * 100
ConfidenceToScore(confidence) == RoundedScore(Clamp(0, confidence, 10000))
ScoreToBps(score) == Clamp(0, score, 10000)

(* Mutant: the split is not kept off its ends.                             *)
PlanUnclamped(v) ==
  CASE v.label = "pass"    -> [kind |-> "settle", code |-> 0, bps |-> 0]
    [] v.label = "fail"    -> [kind |-> "settle", code |-> 1, bps |-> 0]
    [] v.label = "abstain" -> [kind |-> "settle", code |-> 3, bps |-> 0]
    [] v.label = "partial" -> [kind |-> "settlePartial", code |-> 2, bps |-> ScoreToBps(v.score)]

(* planSettlement: the label decides, the score only sizes a split.        *)
PlanSettlement(v) ==
  CASE v.label = "pass"    -> [kind |-> "settle", code |-> 0, bps |-> 0]
    [] v.label = "fail"    -> [kind |-> "settle", code |-> 1, bps |-> 0]
    [] v.label = "abstain" -> [kind |-> "settle", code |-> 3, bps |-> 0]
    [] v.label = "partial" -> [kind |-> "settlePartial", code |-> 2,
                               bps |-> Clamp(1, ScoreToBps(v.score), 9999)]

OutcomeForAction(a) ==
  CASE a.kind = "settlePartial" -> "partial"
    [] a.kind = "settle" /\ a.code = 0 -> "release"
    [] a.kind = "settle" /\ a.code = 3 -> "abstain"
    [] OTHER -> "refund"

OutcomeFor(v) == OutcomeForAction(PlanSettlement(v))

(* The seller's part of the bounty, in basis points.                       *)
Share(v) ==
  CASE OutcomeFor(v) = "release" -> 10000
    [] OutcomeFor(v) = "partial" -> PlanSettlement(v).bps
    [] OTHER -> 0

(* The score of the seller's work that goes into the public attestation,   *)
(* a whole number of a hundred.                                            *)
ResponseScore(v) ==
  CASE OutcomeFor(v) = "release" -> ConfidenceToScore(v.confidence)
    [] OutcomeFor(v) = "partial" -> RoundedScore(PlanSettlement(v).bps)
    [] OTHER -> 0

(* What is attested of a settlement: no clock and no input of the parties, *)
(* so whoever builds it again finds the same hash (see Attestation).       *)
BuildAttestation(v) ==
  [outcome |-> OutcomeFor(v), verdict |-> v.label, response |-> ResponseScore(v),
   confidence |-> v.confidence, bps |-> PlanSettlement(v).bps]
------------------------------------------------------------------------------
(* The reasoner.                                                           *)
Verdict(label, confidence) ==
  [label |-> label, confidence |-> confidence, score |-> ConfidenceToScore(confidence)]

(* Mutant: the floor leaves failing items to the model.                    *)
FloorWithoutFail(b) ==
  IF b.routeError \/ DOMAIN b.items = {} THEN "abstain" ELSE "silent"

DeterministicFloor(b) ==
  CASE b.routeError -> "abstain"
    [] ~b.routeError /\ DOMAIN b.items = {} -> "abstain"
    [] ~b.routeError /\ Some(b.items, "fail") -> "fail"
    [] OTHER -> "silent"

(* What the model may answer over a silent floor: nothing, or any label,   *)
(* confidence and citations; a citation of no item of the bundle abstains. *)
Answers == [label : VerdictLabels, confidence : Confidences, cited : {{}, {NoItem}}]

ModelAnswers(b) ==
  {IF answer.is = "input" /\ answer.input.cited \subseteq DOMAIN b.items
   THEN Verdict(answer.input.label, answer.input.confidence)
   ELSE Verdict("abstain", 1000) : answer \in CallTool(Answers)}

ReasonOverEvidence(b) ==
  CASE DeterministicFloor(b) = "abstain" -> {Verdict("abstain", 2000)}
    [] DeterministicFloor(b) = "fail"    -> {Verdict("fail", 9500)}
    [] DeterministicFloor(b) = "silent"  -> ModelAnswers(b)
------------------------------------------------------------------------------
(* The held verdict: vk_verdicts.confidence is NUMERIC(4,3), and the score *)
(* is rounded again from what was stored, without the clamp.               *)
Stored(v) == [label |-> v.label, confidence |-> ((v.confidence + 5) \div 10) * 10]
GetProposedVerdict(r) ==
  [label |-> r.label, confidence |-> r.confidence, score |-> RoundedScore(r.confidence)]

(* The arbiter re-reads the evidence and overturns only in favour of the   *)
(* party that disputes.                                                    *)
DecisiveFail == {"fail", "error"}
Passes(b) == Cardinality({i \in DOMAIN b.items : b.items[i] = "pass"})
Fails(b) == Cardinality({i \in DOMAIN b.items : b.items[i] \in DecisiveFail})
ProportionalBps(b) ==
  LET decisive == Passes(b) + Fails(b)
  IN Clamp(1, (20000 * Passes(b) + decisive) \div (2 * decisive), 9999)

ToVerdict(outcome, bps) ==
  LET score == CASE outcome = "partial" -> bps [] outcome = "release" -> 10000 [] OTHER -> 0
  IN [label |-> CASE outcome = "release" -> "pass" [] outcome = "refund" -> "fail"
                  [] outcome = "abstain" -> "abstain" [] outcome = "partial" -> "partial",
      confidence |-> score, score |-> score]

BuyerGrievance(by, outcome) == by = "payer" /\ outcome \in {"release", "partial"}

(* Mutant: the grievance is anyone's.                                      *)
AnyGrievance(by, outcome) == outcome \in {"refund", "partial", "abstain"}

SellerGrievance(by, outcome) == by = "worker" /\ outcome \in {"refund", "partial", "abstain"}

Arbitrate(proposed, b, by) ==
  LET outcome == OutcomeFor(proposed)
  IN CASE BuyerGrievance(by, outcome) /\ Fails(b) > 0 /\ Passes(b) = 0 -> ToVerdict("refund", 0)
       [] BuyerGrievance(by, outcome) /\ Fails(b) > 0 /\ Passes(b) > 0 ->
            ToVerdict("partial", ProportionalBps(b))
       [] SellerGrievance(by, outcome) /\ Fails(b) = 0 /\ Passes(b) > 0 -> ToVerdict("release", 0)
       [] OTHER -> ToVerdict(outcome, ScoreToBps(proposed.score))
------------------------------------------------------------------------------
PipelineInit ==
  /\ phase = "delivered"
  /\ bundle = Bundle(NoItems, FALSE)
  /\ emitted = None /\ settled = None
  /\ row = [label |-> "none", confidence |-> 0]
  /\ disputedBy = "nobody"

GatherEvidence ==
  /\ phase = "delivered"
  /\ bundle' \in RouteArtifact
  /\ phase' = "routed"
  /\ UNCHANGED <<emitted, row, disputedBy, settled>>

(* GroundingV2's call of the scorer is in no try, and an answer without    *)
(* citations fails the reasoner after its own: nothing is recorded, and    *)
(* the caller is left with the exception.                                  *)
EvaluationThrows ==
  /\ \/ phase = "delivered"
     \/ phase = "routed" /\ DeterministicFloor(bundle) = "silent"
  /\ phase' = "thrown"
  /\ UNCHANGED <<bundle, emitted, row, disputedBy, settled>>

(* evaluateArtifact, then recordVerdict.                                   *)
ComputeVerdict ==
  /\ phase = "routed"
  /\ emitted' \in ReasonOverEvidence(bundle)
  /\ row' = Stored(emitted')
  /\ phase' = "judged"
  /\ UNCHANGED <<bundle, disputedBy, settled>>

SettleWith(v) == settled' = v /\ phase' = "settled" /\ UNCHANGED <<bundle, emitted, row>>

(* Not disputable: what was computed is what is settled.                   *)
SettleNow == phase = "judged" /\ SettleWith(emitted) /\ UNCHANGED disputedBy

(* Disputable: later, from the row, with nobody or a party disputing.      *)
HoldProposed ==
  /\ phase = "judged"
  /\ phase' = "held"
  /\ UNCHANGED <<bundle, emitted, row, disputedBy, settled>>

Finalize ==
  phase = "held" /\ SettleWith(GetProposedVerdict(row)) /\ UNCHANGED disputedBy

Dispute(by) ==
  /\ phase = "held"
  /\ disputedBy' = by
  /\ SettleWith(Arbitrate(GetProposedVerdict(row), bundle, by))

PipelineNext ==
  \/ GatherEvidence \/ ComputeVerdict \/ EvaluationThrows \/ SettleNow \/ HoldProposed \/ Finalize
  \/ Dispute("payer") \/ Dispute("worker")

PipelineSpec == PipelineInit /\ [][PipelineNext]_pipelineVars
------------------------------------------------------------------------------
PipelineTypeOK ==
  /\ phase \in {"delivered", "routed", "judged", "held", "settled", "thrown"}
  /\ bundle \in RouteArtifact \cup {Bundle(NoItems, FALSE)}
  /\ {emitted.label, settled.label, row.label} \subseteq VerdictLabels \cup {"none"}
  /\ {emitted.confidence, emitted.score, settled.score, row.confidence} \subseteq Nat
  /\ disputedBy \in {"nobody", "payer", "worker"}

(* A failing item is final: whatever the model answers and whoever         *)
(* disputes, a delivery with one earns the seller nothing                  *)
(* (reasoner.ts:42-51 against arbiter.ts:104-125), neither money nor, by a *)
(* confident verdict against it, reputation (erc8004-evidence.ts:12-14).   *)
FailedEvidenceEarnsNothing ==
  phase = "settled" /\ Some(bundle.items, "fail") =>
    Share(settled) = 0 /\ BuildAttestation(settled).response = 0

(* The settlement call is one the escrow takes (settlePartial wants a      *)
(* split strictly between nothing and everything, VerdiktEscrow.sol:379)   *)
(* and the outcome shown off-chain is the one the escrow will derive from  *)
(* it (tiers.ts:50-51), on the direct path and from a ruling alike.        *)
SettlementIsAccepted ==
  phase = "settled" =>
    LET a == PlanSettlement(settled)
    IN IF a.kind = "settlePartial"
       THEN a.bps \in 1 .. 9999 /\ OutcomeForAction(a) = "partial"
       ELSE <<a.code, OutcomeForAction(a)>> \in {<<0, "release">>, <<1, "refund">>, <<3, "abstain">>}

(* Disputing never costs the party that disputes: the seller's share after *)
(* a buyer's dispute is no more than was held, and after a seller's        *)
(* dispute no less.  The arbiter alone does not ensure this (a split sized *)
(* from the evidence can exceed the one held); the reasoner's floor does.  *)
OwnDisputeNeverHurts ==
  phase = "settled" =>
    LET proposed == Share(GetProposedVerdict(row))
    IN /\ disputedBy = "payer"  => Share(settled) <= proposed
       /\ disputedBy = "worker" => Share(settled) >= proposed

(* What engine-instance.ts:18-19 says of a held verdict: it is             *)
(* "Lossless for settlement: the score is re-derived from confidence       *)
(* exactly as the engine emitted it".                                      *)
HoldingIsLossless ==
  phase = "settled" /\ disputedBy = "nobody" =>
    PlanSettlement(settled) = PlanSettlement(emitted)

(* What code-route.ts:141-143 says of a suite too weak to certify: "so we  *)
(* ABSTAIN (set routeError -> refund-to-payer) rather than certify on      *)
(* tests that test nothing".                                               *)
RouteErrorRefundsThePayer ==
  phase = "settled" /\ bundle.routeError => Share(settled) = 0
=============================================================================
