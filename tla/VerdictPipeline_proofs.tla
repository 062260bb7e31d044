----------------------- MODULE VerdictPipeline_proofs -----------------------
(***************************************************************************)
(* What VerdictPipeline guarantees for any evidence items and any answers  *)
(* of the model, checked by TLAPS.                                         *)
(***************************************************************************)
EXTENDS VerdictPipeline, FiniteSetTheorems, TLAPS

(* What every route keeps to: its items are known, and none is in error.   *)
WellFormed(b) ==
  /\ DOMAIN b.items \subseteq Items
  /\ \A i \in DOMAIN b.items : b.items[i] \in {"pass", "fail", "info"}

(* What settlePartial takes, in basis points.                              *)
Splits == 1 .. 9999

(* The plan of a verdict is a call the escrow takes.                       *)
Accepted(v) ==
  LET a == PlanSettlement(v)
  IN IF a.kind = "settlePartial"
     THEN a.bps \in Splits /\ OutcomeForAction(a) = "partial"
     ELSE <<a.code, OutcomeForAction(a)>> \in {<<0, "release">>, <<1, "refund">>, <<3, "abstain">>}

VerdictRecord == [label : VerdictLabels, confidence : Nat, score : Nat]

(* Once judged, the row is what was emitted, cut to its digits, and over a *)
(* failing item the reasoner never proposed a payout.                      *)
Judged ==
  phase \in {"judged", "held", "settled"} =>
    /\ emitted \in VerdictRecord
    /\ row = Stored(emitted)
    /\ Some(bundle.items, "fail") => emitted.label \in {"fail", "abstain"}

(* The inductive invariant.  The properties speak of a settlement only;    *)
(* what they rest on is known before, when the verdict is emitted.         *)
PipelineInv ==
  /\ WellFormed(bundle)
  /\ phase # "settled" => disputedBy = "nobody"
  /\ Judged
  /\ FailedEvidenceEarnsNothing
  /\ phase = "settled" => Accepted(settled)
  /\ OwnDisputeNeverHurts
------------------------------------------------------------------------------
(* A choice of statuses gives known items statuses of the set it is from.  *)
LEMMA StatusesLemma ==
  ASSUME NEW S, NEW f \in Statuses(S)
  PROVE  DOMAIN f \subseteq Items /\ \A i \in DOMAIN f : f[i] \in S
  <1>1. PICK ids \in SUBSET Items : f \in [ids -> S]  BY DEF Statuses
  <1> QED  BY <1>1

(* A route that has no evidence returns a well-formed bundle.              *)
LEMMA NothingLemma ==
  ASSUME NEW b \in Nothing
  PROVE  WellFormed(b)
  BY DEF Nothing, Bundle, NoItems, WellFormed

(* A bundle of statuses a route may give.                                  *)
LEMMA BundleLemma ==
  ASSUME NEW S \in SUBSET {"pass", "fail", "info"}, NEW f \in Statuses(S), NEW e
  PROVE  WellFormed(Bundle(f, e))
  BY StatusesLemma DEF Bundle, WellFormed

(* The lexical grounding gate returns well-formed bundles (grounding-      *)
(* route.ts).                                                              *)
LEMMA LexicalLemma ==
  ASSUME NEW b \in GroundingRoute
  PROVE  WellFormed(b)
  <1>1. PICK answer \in CallTool([label : {"supported", "unsupported"}, spans : BOOLEAN]) :
          b \in IF answer.is = "input" THEN {LexicalGate(item, answer.input) : item \in Items}
                ELSE Nothing
    BY DEF GroundingRoute
  <1>2. CASE answer.is = "input"
    <2>1. PICK item \in Items : b = LexicalGate(item, answer.input)  BY <1>1, <1>2
    <2> QED  BY <2>1 DEF LexicalGate, Bundle, WellFormed
  <1>3. CASE answer.is # "input"  BY <1>1, <1>3, NothingLemma
  <1> QED  BY <1>2, <1>3

(* So does the claim-by-claim route, whoever labelled the claims           *)
(* (grounding-v2.ts).                                                      *)
LEMMA EntailmentLemma ==
  ASSUME NEW b \in GroundingV2
  PROVE  WellFormed(b)
  <1>1. PICK claims \in SUBSET Items : b \in IF claims = {} THEN Nothing ELSE Grounded(claims)
    BY DEF GroundingV2, Decompose
  <1>2. CASE claims = {}  BY <1>1, <1>2, NothingLemma
  <1>3. CASE claims # {}
    <2>1. PICK llm \in EntailLLM(claims), nli \in EntailNLI(claims) :
            b = LET items == [c \in claims |-> ClaimStatus(Scored(llm, nli)[c])]
                IN Bundle(items, Some(items, "info") /\ ~Some(items, "fail"))
      BY <1>1, <1>3 DEF Grounded
    <2> DEFINE items == [c \in claims |-> ClaimStatus(Scored(llm, nli)[c])]
    <2>2. b.items = items  BY <2>1 DEF Bundle
    <2>3. \A claim : ClaimStatus(claim) \in {"pass", "fail", "info"}  BY DEF ClaimStatus
    <2> QED  BY <2>2, <2>3 DEF WellFormed
  <1> QED  BY <1>2, <1>3

(* Every route returns items that are known, and none in error.            *)
LEMMA RouteLemma ==
  ASSUME NEW b \in RouteArtifact
  PROVE  WellFormed(b)
  <1>1. CASE b \in CodeRoute  BY <1>1, NothingLemma, BundleLemma DEF CodeRoute
  <1>2. CASE b \in SchemaRoute  BY <1>2, NothingLemma, BundleLemma DEF SchemaRoute
  <1>3. CASE b \in ExecutionRoute  BY <1>3, NothingLemma, BundleLemma DEF ExecutionRoute
  <1>4. CASE b \in ToolTraceRoute  BY <1>4, NothingLemma, BundleLemma DEF ToolTraceRoute
  <1> QED  BY <1>1, <1>2, <1>3, <1>4, LexicalLemma, EntailmentLemma DEF RouteArtifact
------------------------------------------------------------------------------
(* Scores and splits.                                                      *)
Shares == 0 .. 10000
SplitOf(score) == Clamp(1, ScoreToBps(score), 9999)

(* The roundings of a confidence stay naturals.                            *)
LEMMA ScoreLemma ==
  ASSUME NEW confidence \in Nat
  PROVE  /\ RoundedScore(confidence) \in Nat /\ ConfidenceToScore(confidence) \in Nat
         /\ ((confidence + 5) \div 10) * 10 \in Nat
  BY DEF RoundedScore, ConfidenceToScore, Clamp

(* A split is off its ends, and sizing it twice changes nothing            *)
(* (tiers.ts).                                                             *)
LEMMA SplitLemma ==
  ASSUME NEW score \in Nat
  PROVE  /\ ScoreToBps(score) \in Nat
         /\ SplitOf(score) \in Splits
         /\ SplitOf(ScoreToBps(score)) = SplitOf(score)
  <1>1. ScoreToBps(score) \in Nat  BY DEF Clamp, ScoreToBps
  <1>2. SplitOf(score) \in Splits  BY DEF Clamp, ScoreToBps, SplitOf, Splits
  <1>3. ScoreToBps(ScoreToBps(score)) = ScoreToBps(score)  BY DEF Clamp, ScoreToBps
  <1> QED  BY <1>1, <1>2, <1>3 DEF SplitOf

(* A split, nothing and everything are shares, and everything is the most. *)
LEMMA SharesLemma ==
  /\ \A n \in Splits : n \in Shares
  /\ 0 \in Shares /\ 10000 \in Shares
  /\ \A n \in Shares : n \in Int /\ n <= 10000
  <1>1. \A n \in Splits : n \in Shares  BY DEF Splits, Shares
  <1>2. 0 \in Shares  BY DEF Shares
  <1>3. 10000 \in Shares  BY DEF Shares
  <1>4. \A n \in Shares : n \in Int /\ n <= 10000  BY DEF Shares
  <1> QED  BY <1>1, <1>2, <1>3, <1>4

(* The plan of each label: a call the escrow takes, its outcome, and the   *)
(* seller's share (tiers.ts).                                              *)
LEMMA PlanLemma ==
  ASSUME NEW v \in VerdictRecord
  PROVE  /\ Accepted(v)
         /\ v.label = "pass" => OutcomeFor(v) = "release" /\ Share(v) = 10000
         /\ v.label = "fail" => OutcomeFor(v) = "refund" /\ Share(v) = 0
         /\ v.label = "abstain" => OutcomeFor(v) = "abstain" /\ Share(v) = 0
         /\ v.label = "partial" => OutcomeFor(v) = "partial" /\ Share(v) = SplitOf(v.score)
         /\ Share(v) \in Shares
  <1>0. v.label \in VerdictLabels /\ v.score \in Nat  BY DEF VerdictRecord
  <1>1. SplitOf(v.score) \in Splits  BY <1>0, SplitLemma
  <1>2. CASE v.label = "pass"
    <2>1. PlanSettlement(v) = [kind |-> "settle", code |-> 0, bps |-> 0]  BY <1>2 DEF PlanSettlement
    <2>2. OutcomeFor(v) = "release"  BY <2>1 DEF OutcomeFor, OutcomeForAction
    <2>3. Accepted(v)  BY <2>1, <2>2 DEF Accepted, OutcomeFor
    <2>4. Share(v) = 10000  BY <2>2 DEF Share
    <2> QED  BY <1>2, <2>2, <2>3, <2>4, SharesLemma
  <1>3. CASE v.label = "fail"
    <2>1. PlanSettlement(v) = [kind |-> "settle", code |-> 1, bps |-> 0]  BY <1>3 DEF PlanSettlement
    <2>2. OutcomeFor(v) = "refund"  BY <2>1 DEF OutcomeFor, OutcomeForAction
    <2>3. Accepted(v)  BY <2>1, <2>2 DEF Accepted, OutcomeFor
    <2>4. Share(v) = 0  BY <2>2 DEF Share
    <2> QED  BY <1>3, <2>2, <2>3, <2>4, SharesLemma
  <1>4. CASE v.label = "abstain"
    <2>1. PlanSettlement(v) = [kind |-> "settle", code |-> 3, bps |-> 0]  BY <1>4 DEF PlanSettlement
    <2>2. OutcomeFor(v) = "abstain"  BY <2>1 DEF OutcomeFor, OutcomeForAction
    <2>3. Accepted(v)  BY <2>1, <2>2 DEF Accepted, OutcomeFor
    <2>4. Share(v) = 0  BY <2>2 DEF Share
    <2> QED  BY <1>4, <2>2, <2>3, <2>4, SharesLemma
  <1>5. CASE v.label = "partial"
    <2>1. PlanSettlement(v) = [kind |-> "settlePartial", code |-> 2, bps |-> SplitOf(v.score)]
      BY <1>5 DEF PlanSettlement, SplitOf
    <2>2. OutcomeFor(v) = "partial"  BY <2>1 DEF OutcomeFor, OutcomeForAction
    <2>3. Accepted(v)  BY <1>1, <2>1, <2>2 DEF Accepted, OutcomeFor
    <2>4. Share(v) = SplitOf(v.score)  BY <2>1, <2>2 DEF Share
    <2> QED  BY <1>1, <1>5, <2>2, <2>3, <2>4, SharesLemma
  <1> QED  BY <1>0, <1>2, <1>3, <1>4, <1>5 DEF VerdictLabels

(* A settlement that pays the seller nothing publishes no score of its     *)
(* work (erc8004-evidence.ts:12-23).                                       *)
LEMMA UnpaidLemma ==
  ASSUME NEW v \in VerdictRecord, Share(v) = 0
  PROVE  ResponseScore(v) = 0
  <1>1. v.label \in VerdictLabels /\ v.score \in Nat  BY DEF VerdictRecord
  <1>2. CASE v.label = "pass"  BY <1>2, PlanLemma
  <1>3. CASE v.label = "partial"
    <2>1. Share(v) \in Splits  BY <1>1, <1>3, PlanLemma, SplitLemma
    <2>2. \A n \in Splits : n # 0  BY DEF Splits
    <2> QED  BY <2>1, <2>2
  <1>4. CASE v.label \in {"fail", "abstain"}
    <2>1. OutcomeFor(v) \notin {"release", "partial"}  BY <1>4, PlanLemma
    <2> QED  BY <2>1 DEF ResponseScore
  <1> QED  BY <1>1, <1>2, <1>3, <1>4 DEF VerdictLabels
------------------------------------------------------------------------------
(* The reasoner's verdicts are records with the label they were given.     *)
LEMMA VerdictLemma ==
  ASSUME NEW label \in VerdictLabels, NEW confidence \in Nat
  PROVE  Verdict(label, confidence) \in VerdictRecord /\ Verdict(label, confidence).label = label
  BY ScoreLemma DEF Verdict, VerdictRecord

(* Over a failing item the model is not asked.                             *)
LEMMA ReasonLemma ==
  ASSUME NEW b, NEW v \in ReasonOverEvidence(b)
  PROVE  v \in VerdictRecord /\ (Some(b.items, "fail") => v.label \in {"fail", "abstain"})
  <1>1. CASE DeterministicFloor(b) = "abstain"
    <2>1. v = Verdict("abstain", 2000)  BY <1>1 DEF ReasonOverEvidence
    <2>2. "abstain" \in VerdictLabels /\ 2000 \in Nat  BY DEF VerdictLabels
    <2> QED  BY <2>1, <2>2, VerdictLemma
  <1>2. CASE DeterministicFloor(b) = "fail"
    <2>1. v = Verdict("fail", 9500)  BY <1>2 DEF ReasonOverEvidence
    <2>2. "fail" \in VerdictLabels /\ 9500 \in Nat  BY DEF VerdictLabels
    <2> QED  BY <2>1, <2>2, VerdictLemma
  <1>3. CASE DeterministicFloor(b) = "silent"
    <2>1. ~Some(b.items, "fail")  BY <1>3 DEF DeterministicFloor
    <2>2. v \in ModelAnswers(b)  BY <1>3 DEF ReasonOverEvidence
    <2>3. PICK answer \in CallTool(Answers) :
            v = IF answer.is = "input" /\ answer.input.cited \subseteq DOMAIN b.items
                THEN Verdict(answer.input.label, answer.input.confidence)
                ELSE Verdict("abstain", 1000)
      BY <2>2 DEF ModelAnswers
    <2>4. CASE answer.is = "input"
      <3>1. answer.input \in Answers  BY <2>3, <2>4 DEF CallTool
      <3>2. answer.input.label \in VerdictLabels /\ answer.input.confidence \in Nat
        BY <3>1, PipelineAssumption DEF Answers
      <3>3. "abstain" \in VerdictLabels /\ 1000 \in Nat  BY DEF VerdictLabels
      <3> QED  BY <2>1, <2>3, <3>2, <3>3, VerdictLemma
    <2>5. CASE answer.is # "input"
      <3>1. "abstain" \in VerdictLabels /\ 1000 \in Nat  BY DEF VerdictLabels
      <3> QED  BY <2>1, <2>3, <2>5, <3>1, VerdictLemma
    <2> QED  BY <2>4, <2>5
  <1> QED  BY <1>1, <1>2, <1>3 DEF DeterministicFloor

(* What is read back from the row has the label that was emitted.          *)
LEMMA StoredLemma ==
  ASSUME NEW v \in VerdictRecord
  PROVE  /\ GetProposedVerdict(Stored(v)) \in VerdictRecord
         /\ GetProposedVerdict(Stored(v)).label = v.label
  <1>1. v.label \in VerdictLabels /\ v.confidence \in Nat  BY DEF VerdictRecord
  <1> DEFINE kept == ((v.confidence + 5) \div 10) * 10
  <1>2. kept \in Nat  BY <1>1, ScoreLemma
  <1>3. RoundedScore(kept) \in Nat  BY <1>2, ScoreLemma
  <1> HIDE DEF kept
  <1>4. GetProposedVerdict(Stored(v)) =
          [label |-> v.label, confidence |-> kept, score |-> RoundedScore(kept)]
    BY DEF GetProposedVerdict, Stored, kept
  <1> QED  BY <1>1, <1>2, <1>3, <1>4 DEF VerdictRecord
------------------------------------------------------------------------------
(* The verdict the arbiter writes for each outcome (arbiter.ts).           *)
LEMMA ToVerdictLemma ==
  ASSUME NEW bps \in Nat
  PROVE  /\ ToVerdict("release", bps) \in VerdictRecord /\ ToVerdict("release", bps).label = "pass"
         /\ ToVerdict("refund", bps) \in VerdictRecord /\ ToVerdict("refund", bps).label = "fail"
         /\ ToVerdict("abstain", bps) \in VerdictRecord
         /\ ToVerdict("abstain", bps).label = "abstain"
         /\ ToVerdict("partial", bps) \in VerdictRecord
         /\ ToVerdict("partial", bps).label = "partial" /\ ToVerdict("partial", bps).score = bps
  <1>1. ToVerdict("release", bps) = [label |-> "pass", confidence |-> 10000, score |-> 10000]
    BY DEF ToVerdict
  <1>2. ToVerdict("refund", bps) = [label |-> "fail", confidence |-> 0, score |-> 0]
    BY DEF ToVerdict
  <1>3. ToVerdict("abstain", bps) = [label |-> "abstain", confidence |-> 0, score |-> 0]
    BY DEF ToVerdict
  <1>4. ToVerdict("partial", bps) = [label |-> "partial", confidence |-> bps, score |-> bps]
    BY DEF ToVerdict
  <1>5. 10000 \in Nat /\ 0 \in Nat  OBVIOUS
  <1> QED  BY <1>1, <1>2, <1>3, <1>4, <1>5 DEF VerdictRecord, VerdictLabels

(* The arbiter's count of failures agrees with the reasoner's look at them.*)
LEMMA FailsLemma ==
  ASSUME NEW b, WellFormed(b)
  PROVE  Fails(b) \in Nat /\ (Fails(b) > 0 <=> Some(b.items, "fail"))
  <1> DEFINE failing == {i \in DOMAIN b.items : b.items[i] \in DecisiveFail}
  <1>1. failing \subseteq Items  BY DEF WellFormed
  <1>2. IsFiniteSet(failing)  BY <1>1, PipelineAssumption, FS_Subset
  <1>3. Cardinality(failing) \in Nat  BY <1>2, FS_CardinalityType
  <1>4. Cardinality(failing) = 0 <=> failing = {}  BY <1>2, FS_EmptySet
  <1>5. failing # {} <=> Some(b.items, "fail")  BY DEF WellFormed, Some, DecisiveFail
  <1> HIDE DEF failing
  <1>6. Fails(b) = Cardinality(failing)  BY DEF Fails, failing
  <1> QED  BY <1>3, <1>4, <1>5, <1>6

(* A ruling leaves the seller's share, or is a release to a seller who     *)
(* disputes a delivery in which nothing fails.                             *)
LEMMA ArbitrateLemma ==
  ASSUME NEW v \in VerdictRecord, NEW b, NEW by, WellFormed(b),
         Some(b.items, "fail") => v.label \in {"fail", "abstain"}
  PROVE  /\ Arbitrate(v, b, by) \in VerdictRecord
         /\ \/ Share(Arbitrate(v, b, by)) = Share(v)
            \/ by = "worker" /\ ~Some(b.items, "fail") /\ Share(Arbitrate(v, b, by)) = 10000
  <1> DEFINE outcome == OutcomeFor(v)
             upheld == ToVerdict(outcome, ScoreToBps(v.score))
  <1>1. v.label \in VerdictLabels /\ v.score \in Nat  BY DEF VerdictRecord
  <1>2. ScoreToBps(v.score) \in Nat  BY <1>1, SplitLemma
  <1>3. Fails(b) > 0 => ~BuyerGrievance(by, outcome)
    <2> SUFFICES ASSUME Fails(b) > 0 PROVE outcome \in {"refund", "abstain"}
      BY DEF BuyerGrievance
    <2> QED  BY FailsLemma, PlanLemma
  <1>4. upheld \in VerdictRecord /\ Share(upheld) = Share(v)
    <2>1. CASE v.label = "pass"
      <3>1. upheld \in VerdictRecord /\ upheld.label = "pass"
        BY <2>1, <1>2, PlanLemma, ToVerdictLemma
      <3> HIDE DEF upheld
      <3> QED  BY <2>1, <3>1, PlanLemma
    <2>2. CASE v.label = "fail"
      <3>1. upheld \in VerdictRecord /\ upheld.label = "fail"
        BY <2>2, <1>2, PlanLemma, ToVerdictLemma
      <3> HIDE DEF upheld
      <3> QED  BY <2>2, <3>1, PlanLemma
    <2>3. CASE v.label = "abstain"
      <3>1. upheld \in VerdictRecord /\ upheld.label = "abstain"
        BY <2>3, <1>2, PlanLemma, ToVerdictLemma
      <3> HIDE DEF upheld
      <3> QED  BY <2>3, <3>1, PlanLemma
    <2>4. CASE v.label = "partial"
      <3>1. /\ upheld \in VerdictRecord /\ upheld.label = "partial"
            /\ upheld.score = ScoreToBps(v.score)
        BY <2>4, <1>2, PlanLemma, ToVerdictLemma
      <3> HIDE DEF upheld
      <3>2. Share(upheld) = SplitOf(ScoreToBps(v.score))  BY <3>1, PlanLemma
      <3>3. Share(v) = SplitOf(v.score)  BY <2>4, PlanLemma
      <3> QED  BY <1>1, <3>1, <3>2, <3>3, SplitLemma
    <2> QED  BY <1>1, <2>1, <2>2, <2>3, <2>4 DEF VerdictLabels
  <1>5. CASE SellerGrievance(by, outcome) /\ Fails(b) = 0 /\ Passes(b) > 0
    <2>1. by = "worker" /\ ~BuyerGrievance(by, outcome)
      BY <1>5 DEF SellerGrievance, BuyerGrievance
    <2>2. Arbitrate(v, b, by) = ToVerdict("release", 0)  BY <1>5, <2>1 DEF Arbitrate
    <2>3. Arbitrate(v, b, by) \in VerdictRecord /\ Arbitrate(v, b, by).label = "pass"
      BY <2>2, ToVerdictLemma
    <2>4. Share(Arbitrate(v, b, by)) = 10000  BY <2>3, PlanLemma
    <2>5. ~Some(b.items, "fail")  BY <1>5, FailsLemma
    <2> QED  BY <2>1, <2>3, <2>4, <2>5
  <1>6. CASE ~(SellerGrievance(by, outcome) /\ Fails(b) = 0 /\ Passes(b) > 0)
    <2>1. Arbitrate(v, b, by) = upheld  BY <1>3, <1>6 DEF Arbitrate
    <2> HIDE DEF upheld
    <2> QED  BY <1>4, <2>1
  <1> QED  BY <1>5, <1>6
------------------------------------------------------------------------------
(* The inductive invariant holds before the artifact is delivered.         *)
LEMMA PipelineInitLemma == PipelineInit => PipelineInv
  BY DEF PipelineInit, PipelineInv, WellFormed, Bundle, NoItems, Judged,
         FailedEvidenceEarnsNothing, OwnDisputeNeverHurts

(* A step that neither settles nor judges.                                 *)
LEMMA UnsettledLemma ==
  ASSUME PipelineInv, WellFormed(bundle)', UNCHANGED disputedBy, phase # "settled",
         phase' \in {"routed", "thrown"}
  PROVE  PipelineInv'
  <1>1. Judged'  BY DEF Judged
  <1>2. FailedEvidenceEarnsNothing'  BY DEF FailedEvidenceEarnsNothing
  <1>3. OwnDisputeNeverHurts'  BY DEF OwnDisputeNeverHurts
  <1>4. disputedBy' = "nobody" /\ phase' # "settled"  BY DEF PipelineInv
  <1> QED  BY <1>1, <1>2, <1>3, <1>4 DEF PipelineInv

(* What a settlement needs: a verdict, and over a failing item no share.   *)
LEMMA SettleLemma ==
  ASSUME NEW v \in VerdictRecord, PipelineInv, phase \in {"judged", "held"}, SettleWith(v),
         Some(bundle.items, "fail") => Share(v) = 0,
         disputedBy' = "payer" => Share(v) <= Share(GetProposedVerdict(row)),
         disputedBy' = "worker" => Share(v) >= Share(GetProposedVerdict(row))
  PROVE  PipelineInv'
  <1>1. phase' = "settled" /\ settled' = v /\ UNCHANGED <<bundle, emitted, row>>
    BY DEF SettleWith
  <1>2. WellFormed(bundle)' /\ Judged'  BY <1>1 DEF PipelineInv, Judged, WellFormed
  <1>3. FailedEvidenceEarnsNothing'
    <2>1. BuildAttestation(v).response = ResponseScore(v)  BY DEF BuildAttestation
    <2> QED  BY <1>1, <2>1, UnpaidLemma DEF FailedEvidenceEarnsNothing
  <1>4. Accepted(settled')  BY <1>1, PlanLemma
  <1>5. OwnDisputeNeverHurts'  BY <1>1 DEF OwnDisputeNeverHurts
  <1> QED  BY <1>1, <1>2, <1>3, <1>4, <1>5 DEF PipelineInv

(* What is held has the label, so over a failing item no share.            *)
LEMMA HeldLemma ==
  ASSUME PipelineInv, phase = "held"
  PROVE  LET held == GetProposedVerdict(row)
         IN /\ held \in VerdictRecord
            /\ Some(bundle.items, "fail") => held.label \in {"fail", "abstain"}
  BY StoredLemma DEF PipelineInv, Judged

(* Every step of the pipeline keeps the inductive invariant.               *)
LEMMA PipelineStepLemma == PipelineInv /\ [PipelineNext]_pipelineVars => PipelineInv'
  <1> SUFFICES ASSUME PipelineInv, [PipelineNext]_pipelineVars PROVE PipelineInv'
    OBVIOUS
  <1>1. CASE GatherEvidence
    <2>1. WellFormed(bundle)'  BY <1>1, RouteLemma DEF GatherEvidence
    <2> QED  BY <1>1, <2>1, UnsettledLemma DEF GatherEvidence
  <1>2. CASE EvaluationThrows
    <2>1. WellFormed(bundle)'  BY <1>2 DEF EvaluationThrows, PipelineInv, WellFormed
    <2> QED  BY <1>2, <2>1, UnsettledLemma DEF EvaluationThrows
  <1>3. CASE ComputeVerdict
    <2>1. /\ phase' = "judged" /\ emitted' \in ReasonOverEvidence(bundle)
          /\ row' = Stored(emitted') /\ UNCHANGED <<bundle, disputedBy>> /\ phase = "routed"
      BY <1>3 DEF ComputeVerdict
    <2>2. /\ emitted' \in VerdictRecord
          /\ Some(bundle.items, "fail") => emitted'.label \in {"fail", "abstain"}
      BY <2>1, ReasonLemma
    <2>3. Judged'  BY <2>1, <2>2 DEF Judged
    <2>4. WellFormed(bundle)' /\ disputedBy' = "nobody"  BY <2>1 DEF PipelineInv, WellFormed
    <2> QED  BY <2>1, <2>3, <2>4
         DEF PipelineInv, FailedEvidenceEarnsNothing, OwnDisputeNeverHurts
  <1>4. CASE HoldProposed
    <2>1. phase = "judged" /\ phase' = "held" /\ UNCHANGED <<bundle, emitted, row, disputedBy>>
      BY <1>4 DEF HoldProposed
    <2>2. Judged' /\ WellFormed(bundle)' /\ disputedBy' = "nobody"
      BY <2>1 DEF PipelineInv, Judged, WellFormed
    <2> QED  BY <2>1, <2>2
         DEF PipelineInv, FailedEvidenceEarnsNothing, OwnDisputeNeverHurts
  <1>5. CASE SettleNow
    <2>1. phase = "judged" /\ SettleWith(emitted) /\ disputedBy' = "nobody"
      BY <1>5 DEF SettleNow, PipelineInv
    <2>2. emitted \in VerdictRecord /\ (Some(bundle.items, "fail") => Share(emitted) = 0)
      BY <2>1, PlanLemma DEF PipelineInv, Judged
    <2> QED  BY <2>1, <2>2, SettleLemma
  <1>6. CASE Finalize
    <2> DEFINE held == GetProposedVerdict(row)
    <2>1. phase = "held" /\ SettleWith(held) /\ disputedBy' = "nobody"
      BY <1>6 DEF Finalize, PipelineInv
    <2>2. /\ held \in VerdictRecord
          /\ Some(bundle.items, "fail") => held.label \in {"fail", "abstain"}
      BY <2>1, HeldLemma
    <2> HIDE DEF held
    <2>3. Some(bundle.items, "fail") => Share(held) = 0  BY <2>2, PlanLemma
    <2> QED  BY <2>1, <2>2, <2>3, SettleLemma
  <1>7. ASSUME NEW by \in {"payer", "worker"}, Dispute(by)  PROVE PipelineInv'
    <2> DEFINE held == GetProposedVerdict(row)
               ruling == Arbitrate(held, bundle, by)
    <2>1. phase = "held" /\ SettleWith(ruling) /\ disputedBy' = by  BY <1>7 DEF Dispute
    <2>2. /\ held \in VerdictRecord
          /\ Some(bundle.items, "fail") => held.label \in {"fail", "abstain"}
      BY <2>1, HeldLemma
    <2>3. /\ ruling \in VerdictRecord
          /\ \/ Share(ruling) = Share(held)
             \/ by = "worker" /\ ~Some(bundle.items, "fail") /\ Share(ruling) = 10000
      BY <2>2, ArbitrateLemma DEF PipelineInv
    <2>4. Share(held) \in Int /\ Share(held) <= 10000  BY <2>2, PlanLemma, SharesLemma
    <2>5. held = GetProposedVerdict(row)  OBVIOUS
    <2> HIDE DEF held, ruling
    <2>6. Some(bundle.items, "fail") => Share(ruling) = 0  BY <2>2, <2>3, PlanLemma
    <2>7. by = "payer" => Share(ruling) <= Share(held)  BY <2>3, <2>4
    <2>8. by = "worker" => Share(ruling) >= Share(held)  BY <2>3, <2>4
    <2> QED  BY <2>1, <2>3, <2>5, <2>6, <2>7, <2>8, SettleLemma
  <1>8. CASE UNCHANGED pipelineVars
    <2>1. UNCHANGED <<phase, bundle, emitted, row, disputedBy, settled>>
      BY <1>8 DEF pipelineVars
    <2>2. WellFormed(bundle)' /\ Judged'  BY <2>1 DEF PipelineInv, WellFormed, Judged
    <2>3. FailedEvidenceEarnsNothing'
      BY <2>1 DEF PipelineInv, FailedEvidenceEarnsNothing
    <2>4. OwnDisputeNeverHurts'  BY <2>1 DEF PipelineInv, OwnDisputeNeverHurts
    <2> QED  BY <2>1, <2>2, <2>3, <2>4 DEF PipelineInv
  <1> QED  BY <1>1, <1>2, <1>3, <1>4, <1>5, <1>6, <1>7, <1>8 DEF PipelineNext

(* The inductive invariant holds throughout: what the properties rest on   *)
(* is settled when the verdict is emitted (reasoner.ts:42-51).             *)
THEOREM PipelineInvariance == PipelineSpec => []PipelineInv
  BY PipelineInitLemma, PipelineStepLemma, PTL DEF PipelineSpec

(* What is emitted and settled are whole verdicts.                         *)
Phases == {"delivered", "routed", "judged", "held", "settled", "thrown"}
VerdictsTyped ==
  /\ phase \in Phases /\ disputedBy \in {"nobody", "payer", "worker"}
  /\ bundle \in RouteArtifact \cup {Bundle(NoItems, FALSE)}
  /\ emitted \in VerdictRecord \cup {None} /\ settled \in VerdictRecord \cup {None}
  /\ row.label \in VerdictLabels \cup {"none"} /\ row.confidence \in Nat

(* A row keeps the label, and a confidence.                                *)
LEMMA RowLemma ==
  ASSUME NEW v \in VerdictRecord
  PROVE  Stored(v).label \in VerdictLabels /\ Stored(v).confidence \in Nat
  BY ScoreLemma DEF Stored, VerdictRecord

(* Every step keeps the types, given what is known of a verdict.           *)
LEMMA TypedStep ==
  PipelineInv /\ VerdictsTyped /\ [PipelineNext]_pipelineVars => VerdictsTyped'
  <1> SUFFICES ASSUME PipelineInv, VerdictsTyped, [PipelineNext]_pipelineVars
               PROVE  VerdictsTyped'
    OBVIOUS
  <1>1. CASE GatherEvidence  BY <1>1 DEF GatherEvidence, VerdictsTyped, Phases
  <1>2. CASE EvaluationThrows  BY <1>2 DEF EvaluationThrows, VerdictsTyped, Phases
  <1>3. CASE HoldProposed  BY <1>3 DEF HoldProposed, VerdictsTyped, Phases
  <1>4. CASE ComputeVerdict
    <2>1. /\ phase' = "judged" /\ emitted' \in ReasonOverEvidence(bundle)
          /\ row' = Stored(emitted') /\ UNCHANGED <<bundle, disputedBy, settled>>
      BY <1>4 DEF ComputeVerdict
    <2>2. emitted' \in VerdictRecord  BY <2>1, ReasonLemma
    <2>3. row'.label \in VerdictLabels /\ row'.confidence \in Nat  BY <2>1, <2>2, RowLemma
    <2> QED  BY <2>1, <2>2, <2>3 DEF VerdictsTyped, Phases
  <1>5. CASE SettleNow
    <2>1. emitted \in VerdictRecord  BY <1>5 DEF SettleNow, PipelineInv, Judged
    <2> QED  BY <1>5, <2>1 DEF SettleNow, SettleWith, VerdictsTyped, Phases
  <1>6. CASE Finalize
    <2>1. GetProposedVerdict(row) \in VerdictRecord  BY <1>6, HeldLemma DEF Finalize
    <2> QED  BY <1>6, <2>1 DEF Finalize, SettleWith, VerdictsTyped, Phases
  <1>7. ASSUME NEW by \in {"payer", "worker"}, Dispute(by)  PROVE VerdictsTyped'
    <2>1. phase = "held"  BY <1>7 DEF Dispute
    <2>2. Arbitrate(GetProposedVerdict(row), bundle, by) \in VerdictRecord
      BY <2>1, HeldLemma, ArbitrateLemma DEF PipelineInv
    <2> QED  BY <1>7, <2>2 DEF Dispute, SettleWith, VerdictsTyped, Phases
  <1>8. CASE UNCHANGED pipelineVars  BY <1>8 DEF pipelineVars, VerdictsTyped
  <1> QED  BY <1>1, <1>2, <1>3, <1>4, <1>5, <1>6, <1>7, <1>8 DEF PipelineNext

(* Every variable keeps its type; in particular what an unvalidated answer *)
(* of the model leads to is a whole verdict (reasoner.ts:57-60).           *)
THEOREM PipelineTyped == PipelineSpec => []PipelineTypeOK
  <1>1. PipelineInit => VerdictsTyped
    BY DEF PipelineInit, VerdictsTyped, Phases
  <1>2. VerdictsTyped => PipelineTypeOK
    <2>1. \A v \in VerdictRecord \cup {None} :
            v.label \in VerdictLabels \cup {"none"} /\ v.confidence \in Nat /\ v.score \in Nat
      BY DEF VerdictRecord, None
    <2> QED  BY <2>1 DEF VerdictsTyped, PipelineTypeOK, Phases
  <1> QED  BY <1>1, <1>2, TypedStep, PipelineInvariance, PTL DEF PipelineSpec

(* A failing item is final, whatever the model answers and whoever         *)
(* disputes (reasoner.ts:42-51, arbiter.ts:104-125).                       *)
THEOREM NothingForFailedEvidence == PipelineSpec => []FailedEvidenceEarnsNothing
  <1>1. PipelineInv => FailedEvidenceEarnsNothing  BY DEF PipelineInv
  <1> QED  BY <1>1, PipelineInvariance, PTL

(* Every settlement, direct or ruled, is a call that the escrow takes, and *)
(* has there the outcome shown off-chain (tiers.ts:50-51).                 *)
THEOREM AcceptedSettlements == PipelineSpec => []SettlementIsAccepted
  <1>1. PipelineInv => SettlementIsAccepted
    BY DEF PipelineInv, SettlementIsAccepted, Accepted, Splits
  <1> QED  BY <1>1, PipelineInvariance, PTL

(* A dispute never leaves the one who raised it with less than was held    *)
(* (arbiter.ts:104-125).                                                   *)
THEOREM FairDispute == PipelineSpec => []OwnDisputeNeverHurts
  <1>1. PipelineInv => OwnDisputeNeverHurts  BY DEF PipelineInv
  <1> QED  BY <1>1, PipelineInvariance, PTL
=============================================================================
