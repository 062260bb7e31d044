--------------------------- MODULE Clients_proofs -----------------------------
EXTENDS MCClients, Pages_proofs, FiniteSetTheorems, TLAPS

(***************************************************************************)
(* The evaluator of another protocol's jobs (AcpEvaluator).                *)
(***************************************************************************)
AcpJobType == [status : AcpStatus, evaluator : Evaluators, spec : Descriptions, work : AcpWorks]

(* The job is past its submission, so its terms and its work are final.    *)
Submitted(j) == acp[j].status \in {"submitted", "completed", "rejected", "expired"}

Approved(j) ==
  /\ acp[j].evaluator = "verdikt" /\ judged[j] \cap {"pass", "partial"} # {}
  /\ extractSpec(acp[j].spec) \cap SERVICE_SPECS # {}
  /\ acp[j].work \in {"good", "bad"}

(* A completion is on its way only for a job that was approved.            *)
JobInv(j) ==
  /\ j \in entries => Submitted(j)
  /\ handler[j] # "idle" => Submitted(j) /\ acp[j].evaluator = "verdikt"
  /\ handler[j] = "completing" => Approved(j)
  /\ acp[j].status = "completed" => Approved(j)

AcpInv ==
  /\ acp \in [AcpJobs -> AcpJobType] /\ entries \subseteq AcpJobs
  /\ handler \in [AcpJobs -> Handling] /\ judged \in [AcpJobs -> SUBSET AcpVerdicts]
  /\ \A j \in AcpJobs : JobInv(j)
------------------------------------------------------------------------------
(* What the evaluation takes is judged under a service Verdikt offers.     *)
LEMMA JudgeableLemma ==
  ASSUME NEW j \in AcpJobs, acp[j] \in AcpJobType, Judgeable(j)
  PROVE  /\ extractSpec(acp[j].spec) \cap SERVICE_SPECS # {}
         /\ acp[j].work \in {"good", "bad"}
  <1> DEFINE d == acp[j].spec
  <1>1. d \in Descriptions /\ acp[j].work \in AcpWorks  BY DEF AcpJobType
  <1>2. PICK s \in extractSpec(d) : BuildTask(s, acp[j].work)  BY DEF Judgeable
  <1>3. acp[j].work \in {"good", "bad"}  BY <1>1, <1>2 DEF BuildTask, AcpWorks
  <1>4. s \in SERVICE_SPECS
    <2>1. CASE d.route = "none"  BY <1>2, <2>1 DEF extractSpec
    <2>2. CASE d.route # "none"
      <3>1. s = d  BY <1>2, <2>2 DEF extractSpec
      <3>2. s = [route |-> d.route, truth |-> d.truth] /\ d.route \in AcpRoutes
        BY <1>1, <2>2, <3>1 DEF Descriptions
      <3>3. d.route \in VerdictRoutes  BY <3>2, AcpAssumption
      <3>4. CASE d.route = "code"        BY <1>2, <3>1, <3>2, <3>4 DEF BuildTask, SERVICE_SPECS
      <3>5. CASE d.route = "tool_output" BY <1>2, <3>1, <3>2, <3>5 DEF BuildTask, SERVICE_SPECS
      <3>6. CASE d.route = "answer"      BY <1>2, <3>1, <3>2, <3>6 DEF BuildTask, SERVICE_SPECS
      <3>7. CASE d.route = "execution"   BY <1>2, <3>1, <3>2, <3>7 DEF BuildTask, SERVICE_SPECS
      <3>8. CASE d.route = "tool_trace"  BY <1>2, <3>1, <3>2, <3>8 DEF BuildTask, SERVICE_SPECS
      <3> QED  BY <3>3, <3>4, <3>5, <3>6, <3>7, <3>8 DEF VerdictRoutes
    <2> QED  BY <2>1, <2>2
  <1> QED  BY <1>2, <1>3, <1>4

(* A job that no step touches is as it was.                                *)
LEMMA JobUntouchedLemma ==
  ASSUME NEW j \in AcpJobs, JobInv(j), acp'[j] = acp[j], judged'[j] = judged[j],
         handler'[j] \in {handler[j], "idle"}, j \in entries' => j \in entries
  PROVE  JobInv(j)'
  BY DEF JobInv, Submitted, Approved

(* A job moves along its statuses, with its terms and its work.            *)
LEMMA AcpMovesLemma ==
  ASSUME AcpInv, NEW j \in AcpJobs, NEW from \in AcpStatus, NEW to \in AcpStatus, Moves(j, from, to)
  PROVE  /\ acp' \in [AcpJobs -> AcpJobType] /\ acp[j].status = from
         /\ acp'[j].status = to /\ acp'[j].evaluator = acp[j].evaluator
         /\ acp'[j].spec = acp[j].spec /\ acp'[j].work = acp[j].work
         /\ \A i \in AcpJobs \ {j} : acp'[i] = acp[i]
  <1>1. acp \in [AcpJobs -> AcpJobType]  BY DEF AcpInv
  <1>2. acp' = [acp EXCEPT ![j].status = to] /\ acp[j].status = from  BY DEF Moves
  <1> QED  BY <1>1, <1>2 DEF AcpJobType
------------------------------------------------------------------------------
(* The market's steps.                                                     *)
LEMMA MarketLemma ==
  ASSUME AcpInv, NEW j \in AcpJobs,
         CreateAcpJob(j) \/ SetBudget(j) \/ FundJob(j) \/ SubmitWork(j) \/ AcpExpire(j)
  PROVE  AcpInv'
  <1>1. /\ acp \in [AcpJobs -> AcpJobType] /\ JobInv(j) /\ UNCHANGED <<handler, listening, judged>>
        /\ {"none", "open", "budgeted", "funded", "submitted", "expired"} \subseteq AcpStatus
    BY DEF AcpInv, CreateAcpJob, SetBudget, FundJob, SubmitWork, AcpExpire, agent, AcpStatus
  <1>2. /\ acp' \in [AcpJobs -> AcpJobType] /\ entries' \subseteq AcpJobs
        /\ \A i \in AcpJobs \ {j} : acp'[i] = acp[i] /\ (i \in entries' => i \in entries)
        /\ JobInv(j)'
    <2>1. CASE CreateAcpJob(j)
      <3>1. PICK e \in Evaluators, d \in Descriptions :
              acp' = [acp EXCEPT ![j] = [status |-> "open", evaluator |-> e, spec |-> d, work |-> "none"]]
        BY <2>1 DEF CreateAcpJob
      <3>2. acp[j].status = "none" /\ UNCHANGED entries  BY <2>1 DEF CreateAcpJob
      <3>3. handler[j] = "idle" /\ j \notin entries  BY <1>1, <3>2 DEF JobInv, Submitted
      <3>4. acp' \in [AcpJobs -> AcpJobType] /\ acp'[j].status = "open"
            /\ \A i \in AcpJobs \ {j} : acp'[i] = acp[i]
        BY <1>1, <3>1 DEF AcpJobType, AcpWorks
      <3>5. JobInv(j)'  BY <1>1, <3>2, <3>3, <3>4 DEF JobInv
      <3> QED  BY <3>2, <3>4, <3>5 DEF AcpInv
    <2>2. CASE SetBudget(j)
      <3>1. Moves(j, "open", "budgeted") /\ UNCHANGED entries  BY <2>2 DEF SetBudget
      <3>2. /\ acp' \in [AcpJobs -> AcpJobType] /\ acp[j].status = "open"
            /\ acp'[j].status = "budgeted" /\ \A i \in AcpJobs \ {j} : acp'[i] = acp[i]
        BY <1>1, <3>1, AcpMovesLemma
      <3> QED  BY <1>1, <3>1, <3>2 DEF JobInv, Submitted, AcpInv
    <2>3. CASE FundJob(j)
      <3>1. UNCHANGED entries  BY <2>3 DEF FundJob
      <3>2. CASE UNCHANGED acp  BY <1>1, <3>1, <3>2, JobUntouchedLemma DEF AcpInv
      <3>3. CASE Moves(j, "budgeted", "funded")
        <4>1. /\ acp' \in [AcpJobs -> AcpJobType] /\ acp[j].status = "budgeted"
              /\ acp'[j].status = "funded" /\ \A i \in AcpJobs \ {j} : acp'[i] = acp[i]
          BY <1>1, <3>3, AcpMovesLemma
        <4> QED  BY <1>1, <3>1, <4>1 DEF JobInv, Submitted, AcpInv
      <3> QED  BY <2>3, <3>2, <3>3 DEF FundJob
    <2>4. CASE SubmitWork(j)
      <3>1. PICK w \in AcpWorks \ {"none"} :
              acp' = [acp EXCEPT ![j].status = "submitted", ![j].work = w]
        BY <2>4 DEF SubmitWork
      <3>2. acp[j].status = "funded" /\ entries' = entries \cup {j}  BY <2>4 DEF SubmitWork
      <3>3. /\ acp' \in [AcpJobs -> AcpJobType] /\ acp'[j].status = "submitted"
            /\ \A i \in AcpJobs \ {j} : acp'[i] = acp[i]
        BY <1>1, <3>1 DEF AcpJobType
      <3>4. handler[j] = "idle"  BY <1>1, <3>2 DEF JobInv, Submitted
      <3>5. JobInv(j)'  BY <1>1, <3>3, <3>4 DEF JobInv, Submitted
      <3> QED  BY <3>2, <3>3, <3>5 DEF AcpInv
    <2>5. CASE AcpExpire(j)
      <3>1. /\ acp[j].status \in {"open", "budgeted", "funded", "submitted"} /\ UNCHANGED entries
            /\ acp' = [acp EXCEPT ![j].status = "expired"]
        BY <2>5 DEF AcpExpire
      <3>2. /\ acp' \in [AcpJobs -> AcpJobType] /\ acp'[j].status = "expired"
            /\ acp'[j].evaluator = acp[j].evaluator /\ acp'[j].spec = acp[j].spec
            /\ acp'[j].work = acp[j].work /\ \A i \in AcpJobs \ {j} : acp'[i] = acp[i]
        BY <1>1, <3>1 DEF AcpJobType
      <3>3. JobInv(j)'  BY <1>1, <3>1, <3>2 DEF JobInv, Submitted, Approved
      <3> QED  BY <3>1, <3>2, <3>3 DEF AcpInv
    <2> QED  BY <2>1, <2>2, <2>3, <2>4, <2>5
  <1>3. \A i \in AcpJobs \ {j} : JobInv(i)'
    BY <1>1, <1>2, JobUntouchedLemma DEF AcpInv
  <1> QED  BY <1>1, <1>2, <1>3 DEF AcpInv

(* The evaluator hears of a submission and asks for a verdict.             *)
LEMMA JudgementLemma ==
  ASSUME AcpInv, NEW j \in AcpJobs, HearSubmission(j) \/ AskForVerdict(j)
  PROVE  AcpInv'
  <1>1. /\ handler \in [AcpJobs -> Handling] /\ judged \in [AcpJobs -> SUBSET AcpVerdicts]
        /\ acp \in [AcpJobs -> AcpJobType] /\ JobInv(j) /\ UNCHANGED acp
    BY DEF AcpInv, HearSubmission, AskForVerdict, market
  <1>2. CASE HearSubmission(j)
    <2>1. PICK next \in Handling \ {"completing"} :
            /\ handler' = [handler EXCEPT ![j] = next]
            /\ next # "idle" => acp[j].evaluator = "verdikt"
      <3>1. handler' = [handler EXCEPT ![j] =
                 IF acp[j].evaluator # "verdikt" THEN "idle"
                 ELSE IF extractSpec(acp[j].spec) = {} THEN "rejectingToBeSafe"
                 ELSE IF acp[j].work = "blank" THEN "rejecting" ELSE "judging"]
        BY <1>2 DEF HearSubmission
      <3>2. acp[j].evaluator # "verdikt" => handler'[j] = "idle"
        BY <1>1, <3>1
      <3>3. acp[j].evaluator = "verdikt" =>
              handler'[j] \in {"rejectingToBeSafe", "rejecting", "judging"}
        BY <1>1, <3>1
      <3>4. handler' = [handler EXCEPT ![j] = handler'[j]]  BY <1>1, <3>1
      <3> QED  BY <3>2, <3>3, <3>4 DEF Handling
    <2>2. j \in entries /\ handler[j] = "idle" /\ entries' \subseteq entries /\ UNCHANGED judged
      BY <1>2 DEF HearSubmission
    <2>3. /\ handler' \in [AcpJobs -> Handling] /\ handler'[j] = next
          /\ \A i \in AcpJobs \ {j} : handler'[i] = handler[i]
      BY <1>1, <2>1
    <2>4. JobInv(j)'  BY <1>1, <2>1, <2>2, <2>3 DEF JobInv, Submitted, Approved
    <2>5. \A i \in AcpJobs \ {j} : JobInv(i)'
      BY <1>1, <2>2, <2>3, JobUntouchedLemma DEF AcpInv
    <2> QED  BY <1>1, <2>2, <2>3, <2>4, <2>5 DEF AcpInv
  <1>3. CASE AskForVerdict(j)
    <2>1. handler[j] = "judging" /\ UNCHANGED entries  BY <1>3 DEF AskForVerdict, market
    <2>2. CASE handler' = [handler EXCEPT ![j] = "rejectingToBeSafe"] /\ UNCHANGED judged
      <3>1. /\ handler' \in [AcpJobs -> Handling] /\ handler'[j] = "rejectingToBeSafe"
            /\ \A i \in AcpJobs \ {j} : handler'[i] = handler[i]
        BY <1>1, <2>2 DEF Handling
      <3>2. JobInv(j)'  BY <1>1, <2>1, <2>2, <3>1 DEF JobInv, Submitted, Approved
      <3>3. \A i \in AcpJobs \ {j} : JobInv(i)'
        BY <1>1, <2>1, <2>2, <3>1, JobUntouchedLemma DEF AcpInv
      <3> QED  BY <1>1, <2>1, <2>2, <3>1, <3>2, <3>3 DEF AcpInv
    <2>3. ASSUME Judgeable(j), NEW v \in EngineFinds(acp[j].work),
                 judged' = [judged EXCEPT ![j] = @ \cup {v}],
                 handler' = [handler EXCEPT ![j] = IF approveFor(v) THEN "completing" ELSE "rejecting"]
          PROVE  AcpInv'
      <3>1. v \in AcpVerdicts  BY DEF EngineFinds, AcpVerdicts
      <3>2. /\ judged' \in [AcpJobs -> SUBSET AcpVerdicts] /\ judged'[j] = judged[j] \cup {v}
            /\ \A i \in AcpJobs \ {j} : judged'[i] = judged[i]
        BY <1>1, <2>3, <3>1
      <3>3. /\ handler' \in [AcpJobs -> Handling]
            /\ handler'[j] = (IF approveFor(v) THEN "completing" ELSE "rejecting")
            /\ \A i \in AcpJobs \ {j} : handler'[i] = handler[i]
        BY <1>1, <2>3 DEF Handling
      <3>4. /\ extractSpec(acp[j].spec) \cap SERVICE_SPECS # {}
            /\ acp[j].work \in {"good", "bad"}
        BY <1>1, <2>3, JudgeableLemma
      <3>5. Submitted(j) /\ acp[j].evaluator = "verdikt"  BY <1>1, <2>1 DEF JobInv
      <3>6. approveFor(v) => judged'[j] \cap {"pass", "partial"} # {}
        BY <3>2 DEF approveFor
      <3>7. approveFor(v) => Approved(j)'  BY <1>1, <3>4, <3>5, <3>6 DEF Approved
      <3>8. acp[j].status = "completed" => Approved(j)'
        BY <1>1, <3>2 DEF JobInv, Approved
      <3>9. JobInv(j)'  BY <1>1, <2>1, <3>3, <3>5, <3>7, <3>8 DEF JobInv, Submitted
      <3>10. \A i \in AcpJobs \ {j} : JobInv(i)'
        BY <1>1, <2>1, <3>2, <3>3, JobUntouchedLemma DEF AcpInv
      <3> QED  BY <1>1, <2>1, <3>2, <3>3, <3>9, <3>10 DEF AcpInv
    <2> QED  BY <1>3, <2>2, <2>3 DEF AskForVerdict
  <1> QED  BY <1>2, <1>3

(* An operation on the contract, mined or not, heard or not.               *)
LEMMA OperateLemma ==
  ASSUME AcpInv, NEW j \in AcpJobs, NEW to \in {"completed", "rejected"},
         NEW heard \in {"idle", "rejectingToBeSafe"}, NEW thrown \in {"idle", "rejectingToBeSafe"},
         Operate(j, to, heard, thrown), handler[j] # "idle",
         to = "completed" => handler[j] = "completing", UNCHANGED <<entries, judged>>
  PROVE  AcpInv'
  <1>1. /\ handler \in [AcpJobs -> Handling] /\ acp \in [AcpJobs -> AcpJobType] /\ JobInv(j)
        /\ to \in AcpStatus /\ "submitted" \in AcpStatus
    BY DEF AcpInv, AcpStatus
  <1>2. PICK next \in {"idle", "rejectingToBeSafe"} : handler' = [handler EXCEPT ![j] = next]
    BY DEF Operate
  <1>3. Moves(j, "submitted", to) \/ UNCHANGED acp  BY DEF Operate
  <1>4. /\ handler' \in [AcpJobs -> Handling] /\ handler'[j] = next
        /\ \A i \in AcpJobs \ {j} : handler'[i] = handler[i]
    BY <1>1, <1>2 DEF Handling
  <1>5. /\ acp' \in [AcpJobs -> AcpJobType] /\ JobInv(j)'
        /\ \A i \in AcpJobs \ {j} : acp'[i] = acp[i]
    <2>1. CASE Moves(j, "submitted", to)
      <3>1. /\ acp' \in [AcpJobs -> AcpJobType] /\ acp'[j].status = to
            /\ acp'[j].evaluator = acp[j].evaluator /\ acp'[j].spec = acp[j].spec
            /\ acp'[j].work = acp[j].work /\ \A i \in AcpJobs \ {j} : acp'[i] = acp[i]
        BY <1>1, <2>1, AcpMovesLemma
      <3>2. to = "completed" => Approved(j)'  BY <1>1, <3>1 DEF JobInv, Approved
      <3> QED  BY <1>1, <1>4, <3>1, <3>2 DEF JobInv, Submitted
    <2>2. CASE UNCHANGED acp
      BY <1>1, <1>4, <2>2 DEF JobInv, Submitted, Approved
    <2> QED  BY <1>3, <2>1, <2>2
  <1>6. \A i \in AcpJobs \ {j} : JobInv(i)'
    BY <1>4, <1>5, JobUntouchedLemma DEF AcpInv
  <1> QED  BY <1>4, <1>5, <1>6 DEF AcpInv

LEMMA DecisionLemma ==
  ASSUME AcpInv, NEW j \in AcpJobs, CompleteJob(j) \/ RejectJob(j) \/ RejectToBeSafe(j)
  PROVE  AcpInv'
  <1>1. CASE CompleteJob(j)  BY <1>1, OperateLemma DEF CompleteJob
  <1>2. CASE RejectJob(j)  BY <1>2, OperateLemma DEF RejectJob
  <1>3. CASE RejectToBeSafe(j)
    <2>1. CASE Operate(j, "rejected", "idle", "idle")
      BY <1>3, <2>1, OperateLemma DEF RejectToBeSafe
    <2>2. CASE handler' = [i \in AcpJobs |-> "idle"] /\ UNCHANGED acp
      <3>1. UNCHANGED <<entries, judged>>  BY <1>3 DEF RejectToBeSafe
      <3>2. \A i \in AcpJobs : handler'[i] = "idle"  BY <2>2
      <3>3. \A i \in AcpJobs : JobInv(i)'  BY <2>2, <3>1, <3>2, JobUntouchedLemma DEF AcpInv
      <3> QED  BY <2>2, <3>1, <3>3 DEF AcpInv, Handling
    <2> QED  BY <1>3, <2>1, <2>2 DEF RejectToBeSafe
  <1> QED  BY <1>1, <1>2, <1>3

(* Other callers, stops, restarts and the clock touch no job.              *)
LEMMA AroundLemma ==
  ASSUME AcpInv, \/ WalkIn \/ AgentStops \/ AgentStarts \/ LimiterRestarts \/ EvalTick
                 \/ UNCHANGED acpVars
  PROVE  AcpInv'
  <1>1. UNCHANGED <<acp, entries, judged>>
    BY DEF WalkIn, AgentStops, AgentStarts, LimiterRestarts, EvalTick, acpVars, market
  <1>2. \/ UNCHANGED handler
        \/ handler' = [j \in AcpJobs |-> "idle"]
    BY DEF WalkIn, AgentStops, AgentStarts, LimiterRestarts, EvalTick, acpVars, agent
  <1>3. handler' \in [AcpJobs -> Handling] /\ \A j \in AcpJobs : handler'[j] \in {handler[j], "idle"}
    BY <1>2 DEF AcpInv, Handling
  <1>4. \A j \in AcpJobs : JobInv(j)'  BY <1>1, <1>3, JobUntouchedLemma DEF AcpInv
  <1> QED  BY <1>1, <1>3, <1>4 DEF AcpInv
------------------------------------------------------------------------------
(* What is known of a job holds whatever is lost, repeated or restarted.   *)
THEOREM EvaluatorInvariance == AcpSpec => []AcpInv
  <1>1. AcpInit => AcpInv
    <2> SUFFICES ASSUME AcpInit PROVE AcpInv  OBVIOUS
    <2>1. Undescribed \in Descriptions  BY DEF Undescribed, Descriptions
    <2>2. acp \in [AcpJobs -> AcpJobType]
      BY <2>1 DEF AcpInit, AcpJobType, AcpStatus, Evaluators, AcpWorks
    <2>3. \A j \in AcpJobs : acp[j].status = "none" /\ handler[j] = "idle" /\ j \notin entries
      BY DEF AcpInit
    <2>4. \A j \in AcpJobs : JobInv(j)  BY <2>3 DEF JobInv
    <2> QED  BY <2>2, <2>4 DEF AcpInit, AcpInv, Handling
  <1>2. AcpInv /\ [AcpNext]_acpVars => AcpInv'
    BY MarketLemma, JudgementLemma, DecisionLemma, AroundLemma DEF AcpNext
  <1> QED  BY <1>1, <1>2, PTL DEF AcpSpec

(* "Rejecting rather than releasing on unverified work" (acp-client.ts:91):*)
(* a completed job was passed by the engine under criteria of a service    *)
(* Verdikt offers, whatever events, limits, errors and receipts did.       *)
THEOREM CompletionsAreApproved == AcpSpec => []CompletedIsApproved
  <1>1. AcpInv => CompletedIsApproved
    BY DEF AcpInv, JobInv, Approved, CompletedIsApproved
  <1> QED  BY <1>1, EvaluatorInvariance, PTL
------------------------------------------------------------------------------
(* The limiter keeps no more hits of a caller than it lets through in a    *)
(* window, and counts no more than the day's.  A hit is let through only   *)
(* while fewer are kept, and those that have left the window are dropped.  *)
Kept(c) == recent[c] \in SUBSET (Nat \X Nat) /\ IsFiniteSet(recent[c]) /\ Cardinality(recent[c]) <= PerIp

LimiterInv ==
  /\ recent \in [Callers -> SUBSET (Nat \X Nat)] /\ \A c \in Callers : Kept(c)
  /\ dayStart \in Nat /\ dayCount \in 0 .. PerDay
  /\ evalNow \in EvalDay + 1 .. MaxEvalTime /\ troubles \in 0 .. MaxTroubles
  /\ approved \subseteq AcpJobs /\ listening \in BOOLEAN

LEMMA HitLemma ==
  ASSUME LimiterInv, NEW caller \in Callers, CountHit(caller)
  PROVE  /\ recent' \in [Callers -> SUBSET (Nat \X Nat)] /\ (\A c \in Callers : Kept(c)')
         /\ dayStart' \in Nat /\ dayCount' \in 0 .. PerDay
  <1> DEFINE hits == Hits(caller)
             hit == <<evalNow, Cardinality(hits)>>
  <1>1. evalNow \in Nat /\ PerIp \in Nat /\ PerDay \in Nat /\ PerDay # 0
    BY AcpAssumption DEF LimiterInv
  <1>2. /\ recent[caller] \subseteq Nat \X Nat /\ IsFiniteSet(recent[caller])
        /\ hits \subseteq recent[caller]
    BY DEF LimiterInv, Kept, Hits
  <1>3. IsFiniteSet(hits) /\ Cardinality(hits) \in Nat
    BY <1>2, FS_Subset, FS_CardinalityType
  <1>4. hit \in Nat \X Nat  BY <1>1, <1>3
  <1>5. CASE Limited(caller)
    <2>1. recent' = recent  BY <1>5 DEF CountHit
    <2>2. \A c \in Callers : Kept(c)'  BY <2>1 DEF LimiterInv, Kept
    <2>3. dayStart' \in Nat /\ dayCount' \in 0 .. PerDay
      BY <1>1, <1>5 DEF CountHit, LimiterInv
    <2> QED  BY <2>1, <2>2, <2>3 DEF LimiterInv
  <1>6. CASE ~Limited(caller)
    <2>1. recent' = [recent EXCEPT ![caller] = hits \cup {hit}]  BY <1>6 DEF CountHit
    <2>2. Cardinality(hits) < PerIp  BY <1>1, <1>3, <1>6 DEF Limited
    <2>3. IsFiniteSet(hits \cup {hit}) /\ Cardinality(hits \cup {hit}) <= PerIp
      <3>1. /\ IsFiniteSet(hits \cup {hit})
            /\ Cardinality(hits \cup {hit}) =
                 IF hit \in hits THEN Cardinality(hits) ELSE Cardinality(hits) + 1
        BY <1>3, FS_AddElement
      <3> QED  BY <1>1, <1>3, <2>2, <3>1
    <2>4. hits \cup {hit} \in SUBSET (Nat \X Nat)  BY <1>2, <1>4
    <2>5. /\ recent' \in [Callers -> SUBSET (Nat \X Nat)] /\ recent'[caller] = hits \cup {hit}
          /\ \A c \in Callers : c # caller => recent'[c] = recent[c]
      BY <2>1, <2>4 DEF LimiterInv
    <2>6. \A c \in Callers : Kept(c)'  BY <2>3, <2>4, <2>5 DEF LimiterInv, Kept
    <2>7. DayOver \/ dayCount < PerDay  BY <1>6 DEF Limited
    <2>8. dayStart' \in Nat /\ dayCount' \in 0 .. PerDay
      BY <1>1, <1>6, <2>7 DEF CountHit, LimiterInv
    <2> QED  BY <2>5, <2>6, <2>8
  <1> QED  BY <1>5, <1>6

LEMMA LimiterStepLemma == AcpInv /\ LimiterInv /\ [AcpNext]_acpVars => LimiterInv'
  <1> SUFFICES ASSUME LimiterInv, [AcpNext]_acpVars PROVE LimiterInv'  OBVIOUS
  <1>1. /\ MaxTroubles \in Nat /\ MaxEvalTime \in Nat /\ EvalDay \in Nat /\ EvalDay < MaxEvalTime
        /\ PerIp \in Nat /\ PerDay \in Nat
    BY AcpAssumption
  <1>2. Trouble => troubles' \in 0 .. MaxTroubles  BY <1>1 DEF Trouble, LimiterInv
  <1>3. ASSUME UNCHANGED <<recent, dayStart, dayCount>>
        PROVE  /\ recent' \in [Callers -> SUBSET (Nat \X Nat)] /\ (\A c \in Callers : Kept(c)')
               /\ dayStart' \in Nat /\ dayCount' \in 0 .. PerDay
    BY <1>3 DEF LimiterInv, Kept
  <1>4. ASSUME NEW j \in AcpJobs,
               CreateAcpJob(j) \/ SetBudget(j) \/ FundJob(j) \/ SubmitWork(j) \/ AcpExpire(j)
        PROVE  LimiterInv'
    <2>1. /\ UNCHANGED <<recent, dayStart, dayCount, listening, evalNow, troubles>>
          /\ approved' \subseteq AcpJobs
      BY <1>4 DEF CreateAcpJob, SetBudget, FundJob, SubmitWork, AcpExpire, limiter, agent, LimiterInv
    <2> QED  BY <1>3, <2>1 DEF LimiterInv
  <1>5. ASSUME NEW j \in AcpJobs, HearSubmission(j) \/ CompleteJob(j) \/ RejectJob(j)
        PROVE  LimiterInv'
    <2>1. UNCHANGED <<recent, dayStart, dayCount, approved, listening, evalNow>>
      BY <1>5 DEF HearSubmission, CompleteJob, RejectJob, limiter
    <2>2. Trouble \/ UNCHANGED troubles
      BY <1>5 DEF HearSubmission, CompleteJob, RejectJob, Operate
    <2> QED  BY <1>2, <1>3, <2>1, <2>2 DEF LimiterInv
  <1>6. ASSUME NEW j \in AcpJobs, RejectToBeSafe(j) PROVE LimiterInv'
    <2>1. UNCHANGED <<recent, dayStart, dayCount, approved, evalNow>>
      BY <1>6 DEF RejectToBeSafe, limiter
    <2>2. /\ Trouble \/ UNCHANGED troubles
          /\ listening' = FALSE \/ UNCHANGED listening
      BY <1>6 DEF RejectToBeSafe, Operate
    <2> QED  BY <1>2, <1>3, <2>1, <2>2 DEF LimiterInv
  <1>7. ASSUME NEW j \in AcpJobs, AskForVerdict(j) PROVE LimiterInv'
    <2>1. CountHit("evaluator") /\ "evaluator" \in Callers
      BY <1>7 DEF AskForVerdict, Callers
    <2>2. UNCHANGED <<approved, listening, evalNow>> /\ (Trouble \/ UNCHANGED troubles)
      BY <1>7 DEF AskForVerdict, market
    <2> QED  BY <1>2, <2>1, <2>2, HitLemma DEF LimiterInv
  <1>8. ASSUME WalkIn PROVE LimiterInv'
    <2>1. CountHit("walk-in") /\ "walk-in" \in Callers  BY <1>8 DEF WalkIn, Callers
    <2>2. UNCHANGED <<approved, listening, evalNow, troubles>>
      BY <1>8 DEF WalkIn, market, agent
    <2> QED  BY <2>1, <2>2, HitLemma DEF LimiterInv
  <1>9. ASSUME AgentStops \/ AgentStarts PROVE LimiterInv'
    <2>1. UNCHANGED <<recent, dayStart, dayCount, approved, evalNow>>
      BY <1>9 DEF AgentStops, AgentStarts, limiter, market
    <2>2. /\ Trouble \/ UNCHANGED troubles
          /\ listening' = FALSE \/ listening' = TRUE
      BY <1>9 DEF AgentStops, AgentStarts
    <2> QED  BY <1>2, <1>3, <2>1, <2>2 DEF LimiterInv
  <1>10. ASSUME LimiterRestarts PROVE LimiterInv'
    <2>1. /\ Trouble /\ recent' = [c \in Callers |-> {}] /\ dayStart' = 0 /\ dayCount' = 0
          /\ UNCHANGED <<approved, listening, evalNow>>
      BY <1>10 DEF LimiterRestarts, market, agent
    <2>2. IsFiniteSet({}) /\ Cardinality({}) = 0  BY FS_EmptySet
    <2>3. \A c \in Callers : Kept(c)'  BY <1>1, <2>1, <2>2 DEF Kept
    <2> QED  BY <1>1, <1>2, <2>1, <2>3 DEF LimiterInv
  <1>11. ASSUME EvalTick PROVE LimiterInv'
    <2>1. /\ UNCHANGED <<recent, dayStart, dayCount, approved, listening, troubles>>
          /\ evalNow < MaxEvalTime /\ evalNow' = evalNow + 1
      BY <1>11 DEF EvalTick, market, agent, limiter
    <2> QED  BY <1>1, <1>3, <2>1 DEF LimiterInv
  <1>12. ASSUME UNCHANGED acpVars PROVE LimiterInv'
    <2>1. UNCHANGED <<recent, dayStart, dayCount, approved, listening, evalNow, troubles>>
      BY <1>12 DEF acpVars
    <2> QED  BY <1>3, <2>1 DEF LimiterInv
  <1> QED
    BY <1>4, <1>5, <1>6, <1>7, <1>8, <1>9, <1>10, <1>11, <1>12 DEF AcpNext

(* The evaluator and its limiter keep their types: no caller is let in     *)
(* more often in a window than it may be, nor all of them in a day, with   *)
(* restarts that forget both counts (rate-limit.ts).                       *)
THEOREM EvaluatorTyped == AcpSpec => []AcpTypeOK
  <1>1. AcpInit => LimiterInv
    <2> SUFFICES ASSUME AcpInit PROVE LimiterInv  OBVIOUS
    <2>1. IsFiniteSet({}) /\ Cardinality({}) = 0  BY FS_EmptySet
    <2>2. \A c \in Callers : Kept(c)  BY <2>1, AcpAssumption DEF AcpInit, Kept
    <2> QED  BY <2>2, AcpAssumption DEF AcpInit, LimiterInv
  <1>2. AcpInv /\ LimiterInv => AcpTypeOK
    BY DEF AcpInv, AcpJobType, LimiterInv, Kept, AcpTypeOK
  <1> QED  BY <1>1, <1>2, LimiterStepLemma, EvaluatorInvariance, PTL DEF AcpSpec
-------------------------------------------------------------------------------

(***************************************************************************)
(* The matrix of corridors (CorridorMatrix).                               *)
(***************************************************************************)
Leg == {"funded", "burned", "paid"}
WorkType == [corridor : Corridors, bounty : Bounties, leg : Leg]
Phases == {"off", "between", "starting", "paying", "submitting", "relaying", "verifying",
           "proved", "saving", "finished"}
Proofs == [Corridors -> 0 .. MaxWorks]
ScriptType == [at : Phases, corridor : Corridors \cup {0}, work : 0 .. MaxWorks, before : Nat,
               proved : Proofs]

Types ==
  /\ checkpoint \in Proofs /\ script \in ScriptType
  /\ work \in Seq(WorkType) /\ Len(work) <= MaxWorks
  /\ usdc \in [Dests -> Nat] /\ lagging \in [Dests -> Nat]

(* A record of proof names works of their corridors that were paid out.    *)
HoldsLegs(proofs) ==
  \A c \in Corridors : proofs[c] # 0 =>
    proofs[c] \in DOMAIN work /\ work[proofs[c]].corridor = c /\ work[proofs[c]].leg = "paid"

(* The work under way is one of the corridor being proved, and verified    *)
(* only once it was paid out.                                              *)
UnderWay ==
  /\ script.at \in {"starting", "paying", "submitting", "relaying", "verifying", "proved", "saving"} =>
       script.corridor \in Corridors
  /\ script.at \in {"submitting", "relaying", "verifying", "proved"} =>
       script.work \in DOMAIN work /\ work[script.work].corridor = script.corridor
  /\ script.at = "submitting" => work[script.work].leg = "funded"
  /\ script.at \in {"verifying", "proved"} => work[script.work].leg = "paid"

CorridorInv == Types /\ HoldsLegs(checkpoint) /\ HoldsLegs(script.proved) /\ UnderWay
------------------------------------------------------------------------------
(* Works are added and go forward; one that was paid out stays so.         *)
WorksGrow ==
  /\ DOMAIN work \subseteq DOMAIN work'
  /\ \A w \in DOMAIN work : /\ work'[w].corridor = work[w].corridor
                            /\ work[w].leg = "paid" => work'[w].leg = "paid"

(* What was proved stays proved while works grow.                          *)
LEMMA HoldsLemma ==
  ASSUME CorridorInv, WorksGrow
  PROVE  /\ checkpoint' = checkpoint => HoldsLegs(checkpoint)'
         /\ script'.proved = script.proved => HoldsLegs(script.proved)'
  BY DEF CorridorInv, HoldsLegs, WorksGrow

LEMMA ReachesLemma ==
  ASSUME CorridorInv, NEW w \in DOMAIN work, NEW leg \in Leg, Reaches(w, leg),
         work[w].leg = "paid" => leg = "paid"
  PROVE  /\ work' \in Seq(WorkType) /\ Len(work') <= MaxWorks /\ WorksGrow
         /\ work'[w].leg = leg /\ work'[w].corridor = work[w].corridor
         /\ \A x \in DOMAIN work \ {w} : work'[x] = work[x]
  <1>1. work' = [work EXCEPT ![w].leg = leg]  BY DEF Reaches
  <1>2. work \in Seq(WorkType) /\ Len(work) <= MaxWorks  BY DEF CorridorInv, Types
  <1>3. work[w] \in WorkType  BY <1>2
  <1>4. [work[w] EXCEPT !.leg = leg] \in WorkType  BY <1>3 DEF WorkType
  <1>5. work' \in Seq(WorkType) /\ DOMAIN work' = DOMAIN work /\ Len(work') = Len(work)
    BY <1>1, <1>2, <1>4
  <1>6. work'[w].leg = leg /\ work'[w].corridor = work[w].corridor
    BY <1>1, <1>3 DEF WorkType
  <1>7. \A x \in DOMAIN work \ {w} : work'[x] = work[x]  BY <1>1
  <1> QED  BY <1>2, <1>5, <1>6, <1>7 DEF WorksGrow

(* A script that ends leaves the checkpoint and the works to the next.     *)
LEMMA OffLemma == MaxWorks \in Nat /\ Off \in ScriptType /\ NothingProved \in Proofs
  BY CorridorAssumption DEF Off, NothingProved, ScriptType, Proofs, Phases

LEMMA ExitLemma ==
  ASSUME CorridorInv, Exits, WorksGrow, checkpoint' = checkpoint, work' \in Seq(WorkType),
         Len(work') <= MaxWorks, usdc' \in [Dests -> Nat], lagging' \in [Dests -> Nat]
  PROVE  CorridorInv'
  <1>1. Types'  BY OffLemma DEF CorridorInv, Types, Exits
  <1>2. HoldsLegs(checkpoint)'  BY HoldsLemma
  <1>3. HoldsLegs(script.proved)'  BY DEF Exits, Off, NothingProved, HoldsLegs
  <1>4. UnderWay'  BY DEF Exits, Off, UnderWay
  <1> QED  BY <1>1, <1>2, <1>3, <1>4 DEF CorridorInv

LEMMA ScriptIdleLemma ==
  ASSUME CorridorInv, UNCHANGED work
  PROVE  WorksGrow
  BY DEF WorksGrow
------------------------------------------------------------------------------
LEMMA LoadCheckpointLemma ==
  ASSUME CorridorInv, LoadCheckpoint
  PROVE  CorridorInv'
  <1>1. script' = [Off EXCEPT !.at = "between", !.proved = checkpoint]
    BY DEF LoadCheckpoint
  <1>2. script' \in ScriptType /\ script'.at = "between" /\ script'.proved = checkpoint
    BY <1>1, OffLemma DEF Off, ScriptType, Phases, CorridorInv, Types
  <1>3. Types'  BY <1>2 DEF LoadCheckpoint, CorridorInv, Types
  <1>4. HoldsLegs(checkpoint)' /\ HoldsLegs(script.proved)'
    BY <1>2 DEF LoadCheckpoint, CorridorInv, HoldsLegs
  <1>5. UnderWay'  BY <1>2 DEF UnderWay
  <1> QED  BY <1>3, <1>4, <1>5 DEF CorridorInv

(* Steps of the script alone that keep what it has proved.                 *)
LEMMA ScriptStepLemma ==
  ASSUME CorridorInv, script' \in ScriptType, script'.proved = script.proved,
         UNCHANGED <<checkpoint, work, usdc, lagging>>, UnderWay'
  PROVE  CorridorInv'
  <1>1. Types'  BY DEF CorridorInv, Types
  <1>2. WorksGrow  BY ScriptIdleLemma
  <1>3. HoldsLegs(checkpoint)' /\ HoldsLegs(script.proved)'  BY <1>2, HoldsLemma
  <1> QED  BY <1>1, <1>3 DEF CorridorInv

LEMMA NextCorridorLemma ==
  ASSUME CorridorInv, NextCorridor
  PROVE  CorridorInv'
  <1>1. script \in ScriptType  BY DEF CorridorInv, Types
  <1>2. CASE ToProve = {}
    <2>1. script' = [script EXCEPT !.at = "finished"]
      BY <1>2 DEF NextCorridor, ScriptGoesTo
    <2>2. script' \in ScriptType /\ script'.proved = script.proved /\ script'.at = "finished"
      BY <1>1, <2>1 DEF ScriptType, Phases
    <2>3. UnderWay'  BY <2>2 DEF UnderWay
    <2> QED  BY <2>2, <2>3, ScriptStepLemma DEF NextCorridor
  <1>3. CASE ToProve # {}
    <2>1. PICK c \in ToProve : script' = [script EXCEPT !.at = "starting", !.corridor = c]
      BY <1>3 DEF NextCorridor
    <2>2. c \in Corridors  BY DEF ToProve
    <2>3. /\ script' \in ScriptType /\ script'.proved = script.proved /\ script'.at = "starting"
          /\ script'.corridor \in Corridors
      BY <1>1, <2>1, <2>2 DEF ScriptType, Phases
    <2>4. UnderWay'  BY <2>3 DEF UnderWay
    <2> QED  BY <2>3, <2>4, ScriptStepLemma DEF NextCorridor
  <1> QED  BY <1>2, <1>3

LEMMA ReadBalanceBeforeLemma ==
  ASSUME CorridorInv, ReadBalanceBefore
  PROVE  CorridorInv'
  <1>1. script \in ScriptType /\ script.corridor \in Corridors
    BY DEF CorridorInv, Types, UnderWay, ReadBalanceBefore
  <1>2. PICK seen \in UsdcBalance(CORRIDORS[script.corridor]) :
          script' = [script EXCEPT !.at = "paying", !.before = seen]
    BY DEF ReadBalanceBefore
  <1>3. seen \in Nat  BY <1>1, <1>2 DEF UsdcBalance, Dests, CorridorInv, Types
  <1>4. /\ script' \in ScriptType /\ script'.proved = script.proved /\ script'.at = "paying"
        /\ script'.corridor = script.corridor
    BY <1>1, <1>2, <1>3 DEF ScriptType, Phases
  <1>5. UnderWay'  BY <1>1, <1>4 DEF UnderWay
  <1> QED  BY <1>4, <1>5, ScriptStepLemma DEF ReadBalanceBefore

LEMMA FundCorridorLemma ==
  ASSUME CorridorInv, FundCorridor
  PROVE  CorridorInv'
  <1>1. script \in ScriptType /\ script.corridor \in Corridors /\ work \in Seq(WorkType)
    BY DEF CorridorInv, Types, UnderWay, FundCorridor
  <1>2. UNCHANGED <<checkpoint, usdc, lagging>>  BY DEF FundCorridor
  <1>3. CASE Exits /\ UNCHANGED work
    BY <1>2, <1>3, ScriptIdleLemma, ExitLemma DEF CorridorInv, Types
  <1>4. ASSUME NEW b \in Bounties,
               work' = Append(work, [corridor |-> script.corridor, bounty |-> b, leg |-> "funded"]),
               script' = [script EXCEPT !.at = "submitting", !.work = Len(work')]
        PROVE  CorridorInv'
    <2>1. [corridor |-> script.corridor, bounty |-> b, leg |-> "funded"] \in WorkType
      BY <1>1 DEF WorkType, Leg
    <2>2. /\ work' \in Seq(WorkType) /\ Len(work') = Len(work) + 1
          /\ \A w \in DOMAIN work : w \in DOMAIN work' /\ work'[w] = work[w]
          /\ work'[Len(work')] = [corridor |-> script.corridor, bounty |-> b, leg |-> "funded"]
      BY <1>1, <1>4, <2>1
    <2>3. Len(work') \in 0 .. MaxWorks /\ Len(work') \in DOMAIN work'
      BY <1>1, <2>2, OffLemma DEF FundCorridor
    <2>4. /\ script' \in ScriptType /\ script'.proved = script.proved /\ script'.at = "submitting"
          /\ script'.corridor = script.corridor /\ script'.work = Len(work')
      BY <1>1, <1>4, <2>3 DEF ScriptType, Phases
    <2>5. Types'  BY <1>2, <2>2, <2>3, <2>4 DEF CorridorInv, Types
    <2>6. WorksGrow  BY <2>2 DEF WorksGrow
    <2>7. HoldsLegs(checkpoint)' /\ HoldsLegs(script.proved)'  BY <1>2, <2>4, <2>6, HoldsLemma
    <2>8. UnderWay'  BY <1>1, <2>2, <2>3, <2>4 DEF UnderWay
    <2> QED  BY <2>5, <2>7, <2>8 DEF CorridorInv
  <1> QED  BY <1>3, <1>4 DEF FundCorridor

LEMMA SettleCorridorLemma ==
  ASSUME CorridorInv, SettleCorridor
  PROVE  CorridorInv'
  <1>1. /\ script \in ScriptType /\ script.corridor \in Corridors /\ script.work \in DOMAIN work
        /\ work[script.work].corridor = script.corridor /\ work[script.work].leg = "funded"
    BY DEF CorridorInv, Types, UnderWay, SettleCorridor
  <1>2. UNCHANGED <<checkpoint, usdc, lagging>>  BY DEF SettleCorridor
  <1>3. CASE Exits /\ UNCHANGED work
    BY <1>2, <1>3, ScriptIdleLemma, ExitLemma DEF CorridorInv, Types
  <1>4. ASSUME Reaches(script.work, "burned"), ScriptGoesTo("relaying") \/ Exits
        PROVE  CorridorInv'
    <2>1. /\ work' \in Seq(WorkType) /\ Len(work') <= MaxWorks /\ WorksGrow
          /\ work'[script.work].corridor = work[script.work].corridor
      BY <1>1, <1>4, ReachesLemma DEF Leg
    <2>2. CASE Exits  BY <1>2, <2>1, <2>2, ExitLemma DEF CorridorInv, Types
    <2>3. CASE ScriptGoesTo("relaying")
      <3>1. /\ script' \in ScriptType /\ script'.proved = script.proved /\ script'.at = "relaying"
            /\ script'.corridor = script.corridor /\ script'.work = script.work
        BY <1>1, <2>3 DEF ScriptGoesTo, ScriptType, Phases
      <3>2. Types'  BY <1>2, <2>1, <3>1 DEF CorridorInv, Types
      <3>3. HoldsLegs(checkpoint)' /\ HoldsLegs(script.proved)'  BY <1>2, <2>1, <3>1, HoldsLemma
      <3>4. script.work \in DOMAIN work'  BY <1>1, <2>1 DEF WorksGrow
      <3>5. UnderWay'  BY <1>1, <2>1, <3>1, <3>4 DEF UnderWay
      <3> QED  BY <3>2, <3>3, <3>5 DEF CorridorInv
    <2> QED  BY <1>4, <2>2, <2>3
  <1> QED  BY <1>3, <1>4 DEF SettleCorridor

LEMMA PaysOutLemma ==
  ASSUME CorridorInv, NEW w \in DOMAIN work, PaysOut(w)
  PROVE  /\ work' \in Seq(WorkType) /\ Len(work') <= MaxWorks /\ WorksGrow
         /\ usdc' \in [Dests -> Nat] /\ lagging' \in [Dests -> Nat]
         /\ work'[w].leg = "paid" /\ work'[w].corridor = work[w].corridor
         /\ \A x \in DOMAIN work \ {w} : work'[x] = work[x]
  <1>1. /\ work' \in Seq(WorkType) /\ Len(work') <= MaxWorks /\ WorksGrow
        /\ work'[w].leg = "paid" /\ work'[w].corridor = work[w].corridor
        /\ \A x \in DOMAIN work \ {w} : work'[x] = work[x]
    BY ReachesLemma DEF PaysOut, Leg
  <1>2. work[w] \in WorkType  BY DEF CorridorInv, Types
  <1>3. Dest(w) \in Dests /\ work[w].bounty \in Nat
    BY <1>2, CorridorAssumption DEF Dest, Dests, WorkType
  <1>4. usdc[Dest(w)] + work[w].bounty \in Nat  BY <1>3 DEF CorridorInv, Types
  <1>5. usdc' \in [Dests -> Nat]  BY <1>4 DEF PaysOut, CorridorInv, Types
  <1>6. lagging' \in [Dests -> Nat]  BY <1>3 DEF PaysOut, CorridorInv, Types
  <1> QED  BY <1>1, <1>5, <1>6

LEMMA RelayCorridorLemma ==
  ASSUME CorridorInv, RelayCorridor
  PROVE  CorridorInv'
  <1>1. /\ script \in ScriptType /\ script.corridor \in Corridors /\ script.work \in DOMAIN work
        /\ work[script.work].corridor = script.corridor /\ checkpoint' = checkpoint
    BY DEF CorridorInv, Types, UnderWay, RelayCorridor
  <1>2. CASE Exits /\ UNCHANGED <<work, usdc, lagging>>
    BY <1>1, <1>2, ScriptIdleLemma, ExitLemma DEF CorridorInv, Types
  <1>3. CASE PaysOut(script.work) /\ ScriptGoesTo("verifying")
    <2>1. /\ work' \in Seq(WorkType) /\ Len(work') <= MaxWorks /\ WorksGrow
          /\ usdc' \in [Dests -> Nat] /\ lagging' \in [Dests -> Nat]
          /\ work'[script.work].leg = "paid"
          /\ work'[script.work].corridor = work[script.work].corridor
      BY <1>1, <1>3, PaysOutLemma
    <2>2. /\ script' \in ScriptType /\ script'.proved = script.proved /\ script'.at = "verifying"
          /\ script'.corridor = script.corridor /\ script'.work = script.work
      BY <1>1, <1>3 DEF ScriptGoesTo, ScriptType, Phases
    <2>3. Types'  BY <1>1, <2>1, <2>2 DEF CorridorInv, Types
    <2>4. HoldsLegs(checkpoint)' /\ HoldsLegs(script.proved)'  BY <1>1, <2>1, <2>2, HoldsLemma
    <2>5. script.work \in DOMAIN work'  BY <1>1, <2>1 DEF WorksGrow
    <2>6. UnderWay'  BY <1>1, <2>1, <2>2, <2>5 DEF UnderWay
    <2> QED  BY <2>3, <2>4, <2>6 DEF CorridorInv
  <1> QED  BY <1>2, <1>3 DEF RelayCorridor, RelayPayout

(* Somebody else delivers the payout of a work that was burned for: it is  *)
(* not the one whose funding was just confirmed, and it only helps the     *)
(* others.                                                                 *)
LEMMA AnyonePaysOutLemma ==
  ASSUME CorridorInv, NEW w \in DOMAIN work, AnyonePaysOut(w)
  PROVE  CorridorInv'
  <1>1. UNCHANGED <<checkpoint, script>> /\ PaysOut(w) /\ work[w].leg = "burned"
    BY DEF AnyonePaysOut, PaysOut
  <1>2. /\ work' \in Seq(WorkType) /\ Len(work') <= MaxWorks /\ WorksGrow
        /\ usdc' \in [Dests -> Nat] /\ lagging' \in [Dests -> Nat]
        /\ \A x \in DOMAIN work \ {w} : work'[x] = work[x]
    BY <1>1, PaysOutLemma
  <1>3. Types'  BY <1>1, <1>2 DEF CorridorInv, Types
  <1>4. HoldsLegs(checkpoint)' /\ HoldsLegs(script.proved)'  BY <1>1, <1>2, HoldsLemma
  <1>5. script.at = "submitting" => script.work # w
    BY <1>1 DEF CorridorInv, UnderWay
  <1>6. UnderWay'  BY <1>1, <1>2, <1>5 DEF CorridorInv, UnderWay, WorksGrow
  <1> QED  BY <1>3, <1>4, <1>6 DEF CorridorInv

LEMMA VerifyPayoutLemma ==
  ASSUME CorridorInv, VerifyPayout
  PROVE  CorridorInv'
  <1>1. script \in ScriptType /\ UNCHANGED <<checkpoint, work, usdc, lagging>>
    BY DEF CorridorInv, Types, VerifyPayout
  <1>2. CASE Exits  BY <1>1, <1>2, ScriptIdleLemma, ExitLemma DEF CorridorInv, Types
  <1>3. CASE ScriptGoesTo("proved")
    <2>1. /\ script' \in ScriptType /\ script'.proved = script.proved /\ script'.at = "proved"
          /\ script'.corridor = script.corridor /\ script'.work = script.work
      BY <1>1, <1>3 DEF ScriptGoesTo, ScriptType, Phases
    <2>2. UnderWay'  BY <1>1, <2>1 DEF CorridorInv, UnderWay, VerifyPayout
    <2> QED  BY <1>1, <2>1, <2>2, ScriptStepLemma
  <1> QED  BY <1>2, <1>3 DEF VerifyPayout

LEMMA RecordCorridorLemma ==
  ASSUME CorridorInv, RecordCorridor
  PROVE  CorridorInv'
  <1>1. /\ script \in ScriptType /\ script.corridor \in Corridors /\ script.work \in DOMAIN work
        /\ work[script.work].corridor = script.corridor /\ work[script.work].leg = "paid"
    BY DEF CorridorInv, Types, UnderWay, RecordCorridor
  <1>2. UNCHANGED <<checkpoint, work, usdc, lagging>>  BY DEF RecordCorridor
  <1>3. /\ script'.proved = [script.proved EXCEPT ![script.corridor] = script.work]
        /\ script'.at = "saving" /\ script'.corridor = script.corridor
        /\ script' = [script EXCEPT !.at = "saving", !.proved = script'.proved]
    BY <1>1 DEF RecordCorridor, ScriptType
  <1>4. script'.proved \in Proofs  BY <1>1, <1>3 DEF ScriptType, Proofs
  <1>5. script' \in ScriptType  BY <1>1, <1>3, <1>4 DEF ScriptType, Phases
  <1>6. Types'  BY <1>2, <1>5 DEF CorridorInv, Types
  <1>7. HoldsLegs(checkpoint)'  BY <1>2, ScriptIdleLemma, HoldsLemma
  <1>8. HoldsLegs(script.proved)'
    BY <1>1, <1>2, <1>3 DEF CorridorInv, HoldsLegs, ScriptType, Proofs
  <1>9. UnderWay'  BY <1>1, <1>3 DEF UnderWay
  <1> QED  BY <1>6, <1>7, <1>8, <1>9 DEF CorridorInv

LEMMA SaveCheckpointLemma ==
  ASSUME CorridorInv, SaveCheckpoint
  PROVE  CorridorInv'
  <1>1. script \in ScriptType /\ UNCHANGED <<work, usdc, lagging>>
    BY DEF CorridorInv, Types, SaveCheckpoint
  <1>2. CASE checkpoint' = script.proved /\ ScriptGoesTo("between")
    <2>1. script' \in ScriptType /\ script'.proved = script.proved /\ script'.at = "between"
      BY <1>1, <1>2 DEF ScriptGoesTo, ScriptType, Phases
    <2>2. checkpoint' \in Proofs  BY <1>1, <1>2 DEF ScriptType
    <2>3. Types'  BY <1>1, <2>1, <2>2 DEF CorridorInv, Types
    <2>4. HoldsLegs(checkpoint)' /\ HoldsLegs(script.proved)'
      BY <1>1, <1>2, <2>1 DEF CorridorInv, HoldsLegs
    <2>5. UnderWay'  BY <2>1 DEF UnderWay
    <2> QED  BY <2>3, <2>4, <2>5 DEF CorridorInv
  <1>3. CASE checkpoint' = NothingProved /\ Exits
    <2>1. Types'  BY <1>1, <1>3, OffLemma DEF Exits, CorridorInv, Types
    <2>2. HoldsLegs(checkpoint)' /\ HoldsLegs(script.proved)'
      BY <1>3 DEF Exits, Off, NothingProved, HoldsLegs
    <2>3. UnderWay'  BY <1>3 DEF Exits, Off, UnderWay
    <2> QED  BY <2>1, <2>2, <2>3 DEF CorridorInv
  <1> QED  BY <1>2, <1>3 DEF SaveCheckpoint

LEMMA KilledLemma ==
  ASSUME CorridorInv, ScriptIsKilled
  PROVE  CorridorInv'
  BY ScriptIdleLemma, ExitLemma DEF ScriptIsKilled, CorridorInv, Types

LEMMA NodesCatchUpLemma ==
  ASSUME CorridorInv, NodesCatchUp
  PROVE  CorridorInv'
  BY DEF NodesCatchUp, CorridorInv, Types, HoldsLegs, UnderWay

LEMMA CorridorInitLemma ==
  ASSUME CorridorInit
  PROVE  CorridorInv
  <1>1. Types
    BY OffLemma DEF CorridorInit, Types
  <1>2. HoldsLegs(checkpoint) /\ HoldsLegs(script.proved)
    BY DEF CorridorInit, Off, NothingProved, HoldsLegs
  <1>3. UnderWay  BY DEF CorridorInit, Off, UnderWay
  <1> QED  BY <1>1, <1>2, <1>3 DEF CorridorInv

LEMMA CorridorStutterLemma ==
  ASSUME CorridorInv, UNCHANGED corridorVars
  PROVE  CorridorInv'
  BY DEF corridorVars, CorridorInv, Types, HoldsLegs, UnderWay
------------------------------------------------------------------------------
(* The invariant is kept by every step of the script, of whoever delivers  *)
(* payouts and of the nodes.                                               *)
THEOREM CorridorInvariance == CorridorSpec => []CorridorInv
  <1>1. CorridorInit => CorridorInv  BY CorridorInitLemma
  <1>2. CorridorInv /\ [CorridorNext]_corridorVars => CorridorInv'
    <2> SUFFICES ASSUME CorridorInv, [CorridorNext]_corridorVars PROVE CorridorInv'
      OBVIOUS
    <2>1. CASE LoadCheckpoint  BY <2>1, LoadCheckpointLemma
    <2>2. CASE NextCorridor  BY <2>2, NextCorridorLemma
    <2>3. CASE ReadBalanceBefore  BY <2>3, ReadBalanceBeforeLemma
    <2>4. CASE FundCorridor  BY <2>4, FundCorridorLemma
    <2>5. CASE SettleCorridor  BY <2>5, SettleCorridorLemma
    <2>6. CASE RelayCorridor  BY <2>6, RelayCorridorLemma
    <2>7. CASE VerifyPayout  BY <2>7, VerifyPayoutLemma
    <2>8. CASE RecordCorridor  BY <2>8, RecordCorridorLemma
    <2>9. CASE SaveCheckpoint  BY <2>9, SaveCheckpointLemma
    <2>10. CASE \E w \in DOMAIN work : AnyonePaysOut(w)  BY <2>10, AnyonePaysOutLemma
    <2>11. CASE ScriptIsKilled  BY <2>11, KilledLemma
    <2>12. CASE NodesCatchUp  BY <2>12, NodesCatchUpLemma
    <2>13. CASE UNCHANGED corridorVars  BY <2>13, CorridorStutterLemma
    <2> QED
      BY <2>1, <2>2, <2>3, <2>4, <2>5, <2>6, <2>7, <2>8, <2>9, <2>10, <2>11, <2>12, <2>13
      DEF CorridorNext
  <1> QED  BY <1>1, <1>2, PTL DEF CorridorSpec

(* The script's state, its file and the balances keep their types.         *)
THEOREM CorridorTypes == CorridorSpec => []CorridorTypeOK
  <1>1. CorridorInv => CorridorTypeOK
    <2> SUFFICES ASSUME CorridorInv PROVE CorridorTypeOK
      OBVIOUS
    <2>1. checkpoint \in [Corridors -> 0 .. MaxWorks] /\ script.proved \in [Corridors -> 0 .. MaxWorks]
      BY DEF CorridorInv, Types, ScriptType, Proofs
    <2>2. script.at \in {"off", "between", "starting", "paying", "submitting", "relaying",
                         "verifying", "proved", "saving", "finished"}
      BY DEF CorridorInv, Types, ScriptType, Phases
    <2>3. \A w \in DOMAIN work : work[w] \in [corridor : Corridors, bounty : Bounties,
                                              leg : {"funded", "burned", "paid"}]
      <3>1. work \in Seq(WorkType)  BY DEF CorridorInv, Types
      <3>2. \A w \in DOMAIN work : work[w] \in WorkType  BY <3>1
      <3> QED  BY <3>2 DEF WorkType, Leg
    <2>4. usdc \in [Dests -> Nat] /\ lagging \in [Dests -> Nat]  BY DEF CorridorInv, Types
    <2> QED  BY <2>1, <2>2, <2>3, <2>4 DEF CorridorTypeOK
  <1> QED  BY <1>1, CorridorInvariance, PTL

(* A corridor that the checkpoint, or a running script, calls proved was   *)
(* proved by a work of its own whose seller has been paid on its chain,    *)
(* whatever runs were killed, payouts overtaken and balances read too      *)
(* early (prove-corridor-matrix.ts: relayOutbound, the checkpoint).        *)
THEOREM CorridorsAreProved == CorridorSpec => []ProvedCorridorsArePaid
  <1>1. CorridorInv => ProvedCorridorsArePaid
    BY DEF CorridorInv, HoldsLegs, ProvedCorridorsArePaid
  <1> QED  BY <1>1, CorridorInvariance, PTL
-------------------------------------------------------------------------------

(***************************************************************************)
(* Agents trading with each other (OfferExchange).                         *)
(***************************************************************************)
ClientSteps == {"absent", "new", "ready", "approved", "visible", "burned", "attested", "minted",
                "funded", "offered", "swapped", "failed"}
MessageStates == {"none", "sent", "attested", "delivered"}
RelayStates == {"idle", "polling", "attested", "done", "reverted", "gave up"}
EscrowRecords ==
  [status : {"EMPTY", "FUNDED", "SETTLED"}, amount : Nat, worker : {"nobody", "seller", "other"},
   routes : [Parties -> Homes], deadline : Nat, outcome : PaidOutcomes \cup {"none"}]
UsdcAmounts == [units : Nat, half : BOOLEAN]
OfferRecords == [criteria : Criteria, amount : UsdcAmounts, expiresAt : Nat]
SellerRecords ==
  [at : {"idle", "accepted", "sent", "judged", "refused"}, offer : OfferRecords \cup {NoOffer},
   payout : Homes \cup {Anywhere}]

ChainTypes ==
  /\ client \in [ClientWorks -> ClientSteps] /\ allowance \in Nat /\ shown \in Nat
  /\ message \in [ClientWorks \X (0 .. 2) -> MessageStates]
  /\ relay \in [ClientWorks \X Homes -> RelayStates]

ExchangeTypes ==
  /\ escrow \in [ClientWorks -> EscrowRecords]
  /\ task \in [ClientWorks -> Criteria \cup {NoCriteria}]
  /\ verdict \in [ClientWorks -> Criteria \cup {NoCriteria}]
  /\ terms \in [criteria : Criteria, routes : [Parties -> Homes]]
  /\ offers \in [ClientWorks -> SUBSET OfferRecords]
  /\ seller \in [ClientWorks -> SellerRecords]
  /\ now \in 0 .. MaxTime

(* An escrow is funded once: a payment of each kind leaves a trace that    *)
(* keeps it from being made again.                                         *)
FundedOnce(w) ==
  /\ message[<<w, 0>>] # "none" =>
       client[w] \in {"burned", "attested", "minted", "funded", "offered", "failed"}
  /\ escrow[w].status # "EMPTY" =>
       /\ Kind[w] \in {"local", "mcp"} => client[w] \in {"funded", "offered", "failed"}
       /\ Kind[w] = "cross" => message[<<w, 0>>] = "delivered"
  /\ escrow[w].outcome # "none" <=> escrow[w].status = "SETTLED"

(* Between an SDK payer's funding and its signature nothing happens.       *)
Unsigned(w) ==
  /\ client[w] \in {"funded", "offered"} =>
       Kind[w] \in {"local", "mcp", "cross"} /\ escrow[w].status # "EMPTY"
  /\ client[w] = "funded" =>
       /\ offers[w] = {} /\ escrow[w].worker = "seller" /\ escrow[w].amount # 0
       /\ Kind[w] # "cross" => escrow[w].amount = Amount[w]

(* An offer signed by the SDK is about the escrow as it is, or for nothing.*)
Signed(w) ==
  /\ offers[w] # {} => client[w] = "offered" \/ Kind[w] = "hand"
  /\ \A o \in offers[w] : Kind[w] # "hand" =>
       /\ escrow[w].status # "EMPTY" /\ escrow[w].worker = "seller"
       /\ escrow[w].amount # 0 /\ (o.amount = Usdc(0, FALSE) \/ o.amount.units = escrow[w].amount)

(* What the seller holds was signed, and an escrow leaves FUNDED because   *)
(* of the seller's delivery or because its time is up.                     *)
SellerHolds(w) ==
  /\ seller[w].at # "idle" => seller[w].offer \in offers[w]
  /\ seller[w].at = "accepted" =>
       /\ escrow[w].status # "EMPTY" /\ escrow[w].worker = "seller"
       /\ escrow[w].amount = MathRound(seller[w].offer.amount)
       /\ seller[w].payout # Anywhere => escrow[w].routes["worker"] = seller[w].payout
  /\ escrow[w].status = "SETTLED" =>
       \/ seller[w].at = "judged"
       \/ escrow[w].outcome = "expired" /\ now > escrow[w].deadline

Judged(w) ==
  verdict[w] # NoCriteria => seller[w].at = "judged" /\ verdict[w] = seller[w].offer.criteria

(* A relay call is about a burn for its chain, and knows how far it is.    *)
Relayed(w) ==
  \A home \in Homes :
    /\ relay[<<w, home>>] # "idle" =>
         /\ escrow[w].status = "SETTLED"
         /\ \E i \in DOMAIN PaidLegs(w) : escrow[w].routes[PaidLegs(w)[i]] = home
    /\ relay[<<w, home>>] \in {"attested", "done", "reverted"} =>
         message[<<w, 1>>] \in {"attested", "delivered"}
    /\ Len(PaidLegs(w)) = 1 /\ relay[<<w, home>>] \in {"done", "reverted"} =>
         message[<<w, 1>>] = "delivered"

WorkInv(w) ==
  FundedOnce(w) /\ Unsigned(w) /\ Signed(w) /\ SellerHolds(w) /\ Judged(w) /\ Relayed(w)

OfferInv == ChainTypes /\ ExchangeTypes /\ \A w \in ClientWorks : WorkInv(w)

(* The exchange about a work is as it was.                                 *)
Untouched(w) ==
  /\ client'[w] = client[w] /\ escrow'[w] = escrow[w] /\ offers'[w] = offers[w]
  /\ seller'[w] = seller[w] /\ verdict'[w] = verdict[w]
  /\ \A i \in 0 .. 2 : message'[<<w, i>>] = message[<<w, i>>]
  /\ \A home \in Homes : relay'[<<w, home>>] = relay[<<w, home>>]
------------------------------------------------------------------------------
LEMMA NowLemma == OfferInv => now \in Nat /\ Ttl \in Nat /\ OfferLives \subseteq Nat
  BY OfferAssumption DEF OfferInv, ExchangeTypes

(* The shares that were burned are a sequence of parties that depends on   *)
(* the escrow alone.                                                       *)
LEMMA BurnsLemma ==
  ASSUME NEW w \in ClientWorks, NEW outcome
  PROVE  Burns(w, outcome) \in Seq(Parties)
  <1>1. ASSUME NEW p \in Parties PROVE Routed(w, p) \in Seq(Parties)
    <2>1. <<>> \in Seq(Parties) /\ <<p>> \in Seq(Parties)
      OBVIOUS
    <2> QED  BY <2>1 DEF Routed
  <1>2. /\ Routed(w, "worker") \in Seq(Parties) /\ Routed(w, "payer") \in Seq(Parties)
        /\ <<>> \in Seq(Parties)
    BY <1>1 DEF Parties
  <1>3. \A s, t \in Seq(Parties) : s \o t \in Seq(Parties)
    OBVIOUS
  <1> QED  BY <1>2, <1>3 DEF Burns

LEMMA LegsLemma ==
  ASSUME NEW w \in ClientWorks
  PROVE  /\ PaidLegs(w) \in Seq(Parties) /\ DOMAIN PaidLegs(w) = 1 .. Len(PaidLegs(w))
         /\ Len(PaidLegs(w)) \in Nat
         /\ DOMAIN PaidLegs(w) # {} => escrow[w].outcome # "none"
  <1>1. PaidLegs(w) \in Seq(Parties)  BY BurnsLemma DEF PaidLegs
  <1>2. DOMAIN PaidLegs(w) = 1 .. Len(PaidLegs(w)) /\ Len(PaidLegs(w)) \in Nat  BY <1>1
  <1>3. Len(<<>>) = 0 /\ 1 .. 0 = {}
    OBVIOUS
  <1>4. escrow[w].outcome = "none" => Len(PaidLegs(w)) = 0  BY <1>3 DEF PaidLegs
  <1> QED  BY <1>1, <1>2, <1>3, <1>4

LEMMA SameLegsLemma ==
  ASSUME NEW w \in ClientWorks, escrow'[w] = escrow[w]
  PROVE  PaidLegs(w)' = PaidLegs(w)
  BY DEF PaidLegs, Burns, Routed

LEMMA UntouchedLemma ==
  ASSUME OfferInv, NEW w \in ClientWorks, Untouched(w), now' = now
  PROVE  WorkInv(w)'
  <1>1. PaidLegs(w)' = PaidLegs(w)  BY SameLegsLemma DEF Untouched
  <1>2. FundedOnce(w)' /\ Unsigned(w)' /\ Signed(w)' /\ SellerHolds(w)' /\ Judged(w)'
    <2>1. WorkInv(w)  BY DEF OfferInv
    <2>2. FundedOnce(w)' /\ Unsigned(w)' /\ Signed(w)'
      BY <2>1 DEF WorkInv, Untouched, FundedOnce, Unsigned, Signed, Usdc
    <2>3. SellerHolds(w)'  BY <2>1 DEF WorkInv, Untouched, SellerHolds, MathRound
    <2>4. Judged(w)'  BY <2>1 DEF WorkInv, Untouched, Judged
    <2> QED  BY <2>2, <2>3, <2>4
  <1>3. Relayed(w)'  BY <1>1 DEF OfferInv, WorkInv, Untouched, Relayed
  <1> QED  BY <1>2, <1>3 DEF WorkInv
(* A step about one work leaves what holds of the others.                  *)
LEMMA OthersLemma ==
  ASSUME OfferInv, NEW w \in ClientWorks, now' = now,
         \A x \in ClientWorks : x # w => Untouched(x),
         ChainTypes', ExchangeTypes', WorkInv(w)'
  PROVE  OfferInv'
  BY UntouchedLemma DEF OfferInv
------------------------------------------------------------------------------
(* A step of a payer before its escrow is funded: it may register, burn,   *)
(* or give up.                                                             *)
LEMMA PayerStepLemma ==
  ASSUME OfferInv, NEW w \in ClientWorks, NEW step \in ClientSteps, NEW st \in MessageStates,
         client[w] \notin {"funded", "offered", "failed"}, step \notin {"funded", "offered"},
         client' = [client EXCEPT ![w] = step], message' = [message EXCEPT ![<<w, 0>>] = st],
         message[<<w, 0>>] = "delivered" => st = "delivered",
         st # "none" => step \in {"burned", "attested", "minted", "failed"},
         allowance' \in Nat, shown' \in Nat,
         task' \in [ClientWorks -> Criteria \cup {NoCriteria}],
         UNCHANGED <<escrow, relay, terms, offers, seller, verdict, now>>
  PROVE  OfferInv'
  <1>1. /\ client \in [ClientWorks -> ClientSteps]
        /\ message \in [ClientWorks \X (0 .. 2) -> MessageStates]
    BY DEF OfferInv, ChainTypes
  <1>2. \A x \in ClientWorks, i \in 0 .. 2 : <<x, i>> \in ClientWorks \X (0 .. 2)
    OBVIOUS
  <1>3. ChainTypes'  BY <1>1 DEF OfferInv, ChainTypes
  <1>4. ExchangeTypes'  BY DEF OfferInv, ExchangeTypes
  <1>5. \A x \in ClientWorks : x # w => Untouched(x)  BY <1>1, <1>2 DEF Untouched
  <1>6. /\ client'[w] = step /\ message'[<<w, 0>>] = st /\ message'[<<w, 1>>] = message[<<w, 1>>]
    BY <1>1, <1>2
  <1>7. WorkInv(w)  BY DEF OfferInv
  <1>8. FundedOnce(w)'  BY <1>6, <1>7 DEF WorkInv, FundedOnce
  <1>9. Unsigned(w)' /\ Signed(w)'  BY <1>6, <1>7 DEF WorkInv, Unsigned, Signed
  <1>10. SellerHolds(w)' /\ Judged(w)'  BY <1>7 DEF WorkInv, SellerHolds, Judged
  <1>11. Relayed(w)'
    <2>1. PaidLegs(w)' = PaidLegs(w)  BY SameLegsLemma
    <2> QED  BY <1>6, <1>7, <2>1 DEF WorkInv, Relayed
  <1> QED
    BY <1>3, <1>4, <1>5, <1>8, <1>9, <1>10, <1>11, OthersLemma DEF WorkInv

(* The same, when no message goes out.                                     *)
LEMMA PayerWaitsLemma ==
  ASSUME OfferInv, NEW w \in ClientWorks, NEW step \in ClientSteps,
         client[w] \notin {"funded", "offered", "failed"}, step \notin {"funded", "offered"},
         client' = [client EXCEPT ![w] = step], message' = message,
         message[<<w, 0>>] # "none" => step \in {"burned", "attested", "minted", "failed"},
         allowance' \in Nat, shown' \in Nat,
         task' \in [ClientWorks -> Criteria \cup {NoCriteria}],
         UNCHANGED <<escrow, relay, terms, offers, seller, verdict, now>>
  PROVE  OfferInv'
  <1> DEFINE st == message[<<w, 0>>]
  <1>1. message \in [ClientWorks \X (0 .. 2) -> MessageStates] /\ <<w, 0>> \in ClientWorks \X (0 .. 2)
    BY DEF OfferInv, ChainTypes
  <1>2. st \in MessageStates /\ message' = [message EXCEPT ![<<w, 0>>] = st]  BY <1>1
  <1> QED  BY <1>2, PayerStepLemma

LEMMA SourceChainLemma ==
  ASSUME OfferInv, NEW w \in ClientWorks, UNCHANGED offerVars,
         Approve(w) \/ PollAllowance(w) \/ DepositForBurnWithHook(w) \/ PollInbound(w)
  PROVE  OfferInv'
  <1>1. /\ UNCHANGED <<terms, offers, seller, verdict, now, escrow, relay>>
        /\ task' \in [ClientWorks -> Criteria \cup {NoCriteria}]
    BY DEF offerVars, Approve, PollAllowance, DepositForBurnWithHook, PollInbound, OfferInv,
           ExchangeTypes
  <1>2. allowance \in Nat /\ shown \in Nat /\ Amount[w] \in Nat /\ message[<<w, 0>>] \in MessageStates
    BY ClientAssumption DEF OfferInv, ChainTypes
  <1>3. FundedOnce(w)  BY DEF OfferInv, WorkInv
  <1>4. {"approved", "visible", "burned", "attested", "failed"} \subseteq ClientSteps
    BY DEF ClientSteps
  <1>5. CASE Approve(w)
    <2>1. \E step \in {"approved", "failed"} : client' = [client EXCEPT ![w] = step]
      BY <1>5 DEF Approve, ClientGoesTo, ClientFails
    <2>2. /\ client[w] = "ready" /\ message' = message /\ allowance' \in Nat /\ shown' \in Nat
          /\ message[<<w, 0>>] = "none"
      BY <1>2, <1>3, <1>5 DEF Approve, FundedOnce
    <2> QED  BY <1>1, <1>4, <2>1, <2>2, PayerWaitsLemma
  <1>6. CASE PollAllowance(w)
    <2>1. \E step \in {"visible", "failed"} : client' = [client EXCEPT ![w] = step]
      BY <1>6 DEF PollAllowance, ClientGoesTo, ClientFails
    <2>2. /\ client[w] = "approved" /\ message' = message /\ allowance' \in Nat /\ shown' \in Nat
          /\ message[<<w, 0>>] = "none"
      BY <1>2, <1>3, <1>6 DEF PollAllowance, FundedOnce
    <2> QED  BY <1>1, <1>4, <2>1, <2>2, PayerWaitsLemma
  <1>7. CASE DepositForBurnWithHook(w)
    <2>1. client[w] = "visible" /\ message[<<w, 0>>] = "none" /\ allowance' \in Nat /\ shown' \in Nat
      BY <1>2, <1>3, <1>7 DEF DepositForBurnWithHook, FundedOnce
    <2>2. CASE message' = message
      <3>1. client' = [client EXCEPT ![w] = "failed"] \/ client' = [client EXCEPT ![w] = "burned"]
        BY <1>7 DEF DepositForBurnWithHook, ClientGoesTo, ClientFails
      <3> QED  BY <1>1, <1>4, <2>1, <2>2, <3>1, PayerWaitsLemma
    <2>3. CASE message' = [message EXCEPT ![<<w, 0>>] = "sent"]
      <3>1. client' = [client EXCEPT ![w] = "failed"] \/ client' = [client EXCEPT ![w] = "burned"]
        BY <1>7 DEF DepositForBurnWithHook, ClientGoesTo, ClientFails
      <3>2. "sent" \in MessageStates  BY DEF MessageStates
      <3> QED  BY <1>1, <1>4, <2>1, <2>3, <3>1, <3>2, PayerStepLemma
    <2> QED  BY <1>7, <2>2, <2>3 DEF DepositForBurnWithHook, Becomes
  <1>8. CASE PollInbound(w)
    <2>1. \E step \in {"attested", "failed"} : client' = [client EXCEPT ![w] = step]
      BY <1>8 DEF PollInbound, ClientGoesTo, ClientFails
    <2>2. client[w] = "burned" /\ message' = message /\ allowance' \in Nat /\ shown' \in Nat
      BY <1>2, <1>8 DEF PollInbound
    <2> QED  BY <1>1, <1>4, <2>1, <2>2, PayerWaitsLemma
  <1> QED  BY <1>5, <1>6, <1>7, <1>8

LEMMA BridgeLemma ==
  ASSUME OfferInv, NEW w \in ClientWorks, UNCHANGED offerVars, ProvisionTarget(w) \/ ReceiveBridged(w)
  PROVE  OfferInv'
  <1>1. /\ UNCHANGED <<terms, offers, seller, verdict, now, escrow, relay, allowance, shown>>
        /\ task' \in [ClientWorks -> Criteria \cup {NoCriteria}]
        /\ allowance' \in Nat /\ shown' \in Nat
    BY DEF offerVars, ProvisionTarget, ReceiveBridged, OfferInv, ExchangeTypes, ChainTypes
  <1>2. FundedOnce(w)  BY DEF OfferInv, WorkInv
  <1>3. {"ready", "minted", "failed"} \subseteq ClientSteps /\ "delivered" \in MessageStates
    BY DEF ClientSteps, MessageStates
  <1>4. CASE ProvisionTarget(w)
    <2>1. \E step \in {"ready", "minted"} : client' = [client EXCEPT ![w] = step]
      BY <1>4 DEF ProvisionTarget, ClientGoesTo
    <2>2. client[w] = "new" /\ message' = message /\ message[<<w, 0>>] = "none"
      BY <1>2, <1>4 DEF ProvisionTarget, FundedOnce
    <2> QED  BY <1>1, <1>3, <2>1, <2>2, PayerWaitsLemma
  <1>5. CASE ReceiveBridged(w)
    <2>1. client[w] = "attested"  BY <1>5 DEF ReceiveBridged
    <2>2. \/ /\ client' = [client EXCEPT ![w] = "minted"]
             /\ message' = [message EXCEPT ![<<w, 0>>] = "delivered"]
          \/ client' = [client EXCEPT ![w] = "failed"] /\ message' = message
      BY <1>5 DEF ReceiveBridged, ClientGoesTo, ClientFails, Becomes
    <2> QED  BY <1>1, <1>3, <2>1, <2>2, PayerStepLemma, PayerWaitsLemma
  <1> QED  BY <1>4, <1>5

LEMMA RegisterLemma ==
  ASSUME OfferInv, NEW w \in ClientWorks, Register(w)
  PROVE  OfferInv'
  <1>1. UNCHANGED <<terms, offers, seller, verdict, now, escrow, relay, message, allowance, shown>>
    BY DEF Register
  <1>2. allowance' \in Nat /\ shown' \in Nat  BY <1>1 DEF OfferInv, ChainTypes
  <1>3. \/ task' = task
        \/ task' = [task EXCEPT ![w] = IF task[w] = NoCriteria THEN terms.criteria ELSE task[w]]
    BY DEF Register, InsertTask, OnTheWire, Acceptance
  <1>4. task' \in [ClientWorks -> Criteria \cup {NoCriteria}]
    BY <1>3 DEF OfferInv, ExchangeTypes
  <1>5. client[w] = "new" /\ message[<<w, 0>>] = "none"
    BY DEF Register, OfferInv, WorkInv, FundedOnce
  <1>6. {"ready", "swapped", "failed"} \subseteq ClientSteps  BY DEF ClientSteps
  <1>7. \E step \in {"ready", "swapped", "failed"} : client' = [client EXCEPT ![w] = step]
    BY DEF Register, ClientGoesTo, ClientFails
  <1> QED  BY <1>1, <1>2, <1>4, <1>5, <1>6, <1>7, PayerWaitsLemma
------------------------------------------------------------------------------
(* A step that carries messages on: those of the work are attested or      *)
(* delivered, and none is taken back.                                      *)
LEMMA CarryLemma ==
  ASSUME OfferInv, NEW w \in ClientWorks, UNCHANGED <<client, allowance, shown, escrow, offerVars>>,
         message' \in [ClientWorks \X (0 .. 2) -> MessageStates],
         relay' \in [ClientWorks \X Homes -> RelayStates],
         \A x \in ClientWorks, i \in 0 .. 2 :
           \/ message'[<<x, i>>] = message[<<x, i>>]
           \/ x = w /\ message[<<x, i>>] \in {"sent", "attested"},
         \A x \in ClientWorks, home \in Homes : x # w => relay'[<<x, home>>] = relay[<<x, home>>],
         Relayed(w)'
  PROVE  OfferInv'
  <1>1. ChainTypes' /\ ExchangeTypes'
    BY DEF OfferInv, ChainTypes, ExchangeTypes, offerVars
  <1>2. \A x \in ClientWorks : x # w => Untouched(x)  BY DEF Untouched, offerVars
  <1>3. WorkInv(w)  BY DEF OfferInv
  <1>4. FundedOnce(w)'
    <2>1. 0 \in 0 .. 2
      OBVIOUS
    <2>2. /\ message'[<<w, 0>>] # "none" => message[<<w, 0>>] # "none"
          /\ message[<<w, 0>>] = "delivered" => message'[<<w, 0>>] = "delivered"
      BY <2>1
    <2> QED  BY <1>3, <2>2 DEF WorkInv, FundedOnce
  <1>5. Unsigned(w)' /\ Signed(w)' /\ SellerHolds(w)' /\ Judged(w)'
    BY <1>3 DEF WorkInv, Unsigned, Signed, SellerHolds, Judged, offerVars
  <1>6. now' = now  BY DEF offerVars
  <1> QED  BY <1>1, <1>2, <1>4, <1>5, <1>6, OthersLemma DEF WorkInv

LEMMA CarriedLemma ==
  ASSUME OfferInv, NEW w \in ClientWorks, NEW i \in 0 .. 2, UNCHANGED offerVars,
         Attest(<<w, i>>) \/ AnyoneDelivers(w, i)
  PROVE  OfferInv'
  <1>1. UNCHANGED <<client, allowance, shown, escrow, relay>>  BY DEF Attest, AnyoneDelivers
  <1>2. PICK st \in {"attested", "delivered"} :
          /\ message' = [message EXCEPT ![<<w, i>>] = st]
          /\ message[<<w, i>>] \in {"sent", "attested"}
          /\ st = "attested" => message[<<w, i>>] = "sent"
    BY DEF Attest, AnyoneDelivers, Becomes
  <1>3. st \in MessageStates /\ message \in [ClientWorks \X (0 .. 2) -> MessageStates]
    BY DEF MessageStates, OfferInv, ChainTypes
  <1>4. \A x \in ClientWorks, j \in 0 .. 2 : <<x, j>> \in ClientWorks \X (0 .. 2)
    OBVIOUS
  <1>5. /\ message' \in [ClientWorks \X (0 .. 2) -> MessageStates]
        /\ relay' \in [ClientWorks \X Homes -> RelayStates]
    BY <1>1, <1>2, <1>3 DEF OfferInv, ChainTypes
  <1>6. \A x \in ClientWorks, j \in 0 .. 2 :
          \/ message'[<<x, j>>] = message[<<x, j>>]
          \/ x = w /\ message[<<x, j>>] \in {"sent", "attested"}
    BY <1>2, <1>3, <1>4
  <1>7. /\ message[<<w, 1>>] \in {"attested", "delivered"} =>
             message'[<<w, 1>>] \in {"attested", "delivered"}
        /\ message[<<w, 1>>] = "delivered" => message'[<<w, 1>>] = "delivered"
    BY <1>2, <1>3, <1>4
  <1>8. PaidLegs(w)' = PaidLegs(w)  BY <1>1, SameLegsLemma
  <1>9. Relayed(w)'  BY <1>1, <1>7, <1>8 DEF OfferInv, WorkInv, Relayed
  <1> QED  BY <1>1, <1>5, <1>6, <1>9, CarryLemma

LEMMA RelayLemma ==
  ASSUME OfferInv, NEW w \in ClientWorks, NEW home \in Homes, UNCHANGED offerVars,
         RelayOutbound(w, home) \/ PollPayout(w, home) \/ ReceiveMessage(w, home)
  PROVE  OfferInv'
  <1>1. UNCHANGED <<client, allowance, shown, escrow>>
    BY DEF RelayOutbound, PollPayout, ReceiveMessage
  <1>2. PaidLegs(w)' = PaidLegs(w)  BY <1>1, SameLegsLemma
  <1>3. /\ relay \in [ClientWorks \X Homes -> RelayStates]
        /\ message \in [ClientWorks \X (0 .. 2) -> MessageStates]
        /\ \A x \in ClientWorks, h \in Homes : <<x, h>> \in ClientWorks \X Homes
        /\ \A x \in ClientWorks, j \in 0 .. 2 : <<x, j>> \in ClientWorks \X (0 .. 2)
        /\ <<w, 1>> \in ClientWorks \X (0 .. 2) /\ \A i \in 1 .. 1 : i = 1
    BY DEF OfferInv, ChainTypes
  <1>4. Relayed(w) /\ FundedOnce(w)  BY DEF OfferInv, WorkInv
  <1>5. PICK rs \in {"polling", "attested", "gave up", "done", "reverted"} :
          relay' = [relay EXCEPT ![<<w, home>>] = rs]
    BY DEF RelayOutbound, PollPayout, ReceiveMessage
  <1>6. /\ relay' \in [ClientWorks \X Homes -> RelayStates]
        /\ \A x \in ClientWorks, h \in Homes : x # w => relay'[<<x, h>>] = relay[<<x, h>>]
        /\ \A h \in Homes : h # home => relay'[<<w, h>>] = relay[<<w, h>>]
        /\ relay'[<<w, home>>] = rs
    <2>1. rs \in RelayStates  BY DEF RelayStates
    <2> QED  BY <1>3, <1>5, <2>1
  <1>7. /\ escrow[w].status = "SETTLED"
        /\ \E i \in DOMAIN PaidLegs(w) : escrow[w].routes[PaidLegs(w)[i]] = home
    <2>1. CASE RelayOutbound(w, home)
      <3>1. DOMAIN PaidLegs(w) # {}  BY <2>1 DEF RelayOutbound
      <3> QED  BY <1>4, <2>1, <3>1, LegsLemma DEF RelayOutbound, FundedOnce
    <2>2. CASE PollPayout(w, home) \/ ReceiveMessage(w, home)
      BY <1>4, <2>2 DEF PollPayout, ReceiveMessage, Relayed
    <2> QED  BY <2>1, <2>2
  <1>8. /\ message' \in [ClientWorks \X (0 .. 2) -> MessageStates]
        /\ \A x \in ClientWorks, j \in 0 .. 2 :
             \/ message'[<<x, j>>] = message[<<x, j>>]
             \/ x = w /\ message[<<x, j>>] \in {"sent", "attested"}
        /\ message[<<w, 1>>] \in {"attested", "delivered"} =>
             message'[<<w, 1>>] \in {"attested", "delivered"}
        /\ message[<<w, 1>>] = "delivered" => message'[<<w, 1>>] = "delivered"
    <2>1. \/ message' = message
          \/ /\ message[<<w, 1>>] = "attested"
             /\ message' = [message EXCEPT ![<<w, 1>>] = "delivered"]
      BY DEF RelayOutbound, PollPayout, ReceiveMessage, Becomes
    <2>2. "delivered" \in MessageStates  BY DEF MessageStates
    <2>3. CASE message' = message  BY <1>3, <2>3
    <2>4. CASE message[<<w, 1>>] = "attested" /\ message' = [message EXCEPT ![<<w, 1>>] = "delivered"]
      <3>1. message'[<<w, 1>>] = "delivered"  BY <1>3, <2>4 DEF MessageStates
      <3>2. \A x \in ClientWorks, j \in 0 .. 2 : \/ x = w /\ j = 1
                                                 \/ message'[<<x, j>>] = message[<<x, j>>]
        BY <1>3, <2>4
      <3>3. message' \in [ClientWorks \X (0 .. 2) -> MessageStates]  BY <1>3, <2>2, <2>4
      <3> QED  BY <2>4, <3>1, <3>2, <3>3
    <2> QED  BY <2>1, <2>3, <2>4
  <1>9. rs \in {"attested", "done", "reverted"} => message'[<<w, 1>>] \in {"attested", "delivered"}
    <2>1. CASE RelayOutbound(w, home)  BY <1>3, <1>6, <2>1 DEF RelayOutbound
    <2>2. CASE PollPayout(w, home)  BY <1>3, <1>6, <2>2 DEF PollPayout, Attested
    <2>3. CASE ReceiveMessage(w, home)  BY <1>4, <1>8, <2>3 DEF ReceiveMessage, Relayed
    <2> QED  BY <2>1, <2>2, <2>3
  <1>10. Len(PaidLegs(w)) = 1 /\ rs \in {"done", "reverted"} => message'[<<w, 1>>] = "delivered"
    <2> SUFFICES ASSUME Len(PaidLegs(w)) = 1, rs \in {"done", "reverted"}
                 PROVE  message'[<<w, 1>>] = "delivered"
      OBVIOUS
    <2>1. ReceiveMessage(w, home)
      BY <1>3, <1>6 DEF RelayOutbound, PollPayout
    <2>2. escrow[w].routes[PaidLegs(w)[1]] = home
      <3>1. DOMAIN PaidLegs(w) = 1 .. 1  BY LegsLemma
      <3>2. PICK i \in 1 .. 1 : escrow[w].routes[PaidLegs(w)[i]] = home  BY <1>7, <3>1
      <3>3. i = 1  BY <1>3
      <3> QED  BY <3>2, <3>3
    <2>3. message[<<w, 1>>] \in {"attested", "delivered"}
      BY <1>4, <2>1 DEF ReceiveMessage, Relayed
    <2>4. CASE message[<<w, 1>>] = "attested"
      <3>1. message' = [message EXCEPT ![<<w, 1>>] = "delivered"]
        BY <2>1, <2>2, <2>4 DEF ReceiveMessage, Becomes
      <3> QED  BY <1>3, <3>1
    <2>5. CASE message[<<w, 1>>] = "delivered"  BY <1>8, <2>5
    <2> QED  BY <2>3, <2>4, <2>5
  <1>11. Relayed(w)'
    <2> SUFFICES ASSUME NEW h \in Homes
                 PROVE  /\ relay'[<<w, h>>] # "idle" =>
                             /\ escrow'[w].status = "SETTLED"
                             /\ \E i \in DOMAIN PaidLegs(w) : escrow'[w].routes[PaidLegs(w)[i]] = h
                        /\ relay'[<<w, h>>] \in {"attested", "done", "reverted"} =>
                             message'[<<w, 1>>] \in {"attested", "delivered"}
                        /\ Len(PaidLegs(w)) = 1 /\ relay'[<<w, h>>] \in {"done", "reverted"} =>
                             message'[<<w, 1>>] = "delivered"
      BY <1>2 DEF Relayed
    <2>1. CASE h = home  BY <1>1, <1>6, <1>7, <1>9, <1>10, <2>1
    <2>2. CASE h # home  BY <1>1, <1>4, <1>6, <1>8, <2>2 DEF Relayed
    <2> QED  BY <2>1, <2>2
  <1> QED  BY <1>1, <1>6, <1>8, <1>11, CarryLemma
------------------------------------------------------------------------------
(* A work without an escrow: nobody relays its shares, the seller holds    *)
(* nothing of an SDK payer, and its escrow was not concluded.              *)
LEMMA EmptyLemma ==
  ASSUME OfferInv, NEW w \in ClientWorks, escrow[w].status = "EMPTY"
  PROVE  /\ \A home \in Homes : relay[<<w, home>>] = "idle"
         /\ seller[w].at # "accepted"
         /\ Kind[w] # "hand" => offers[w] = {}
         /\ client[w] \notin {"funded", "offered"}
  BY DEF OfferInv, WorkInv, Relayed, SellerHolds, Signed, Unsigned, ExchangeTypes, OfferRecords

LEMMA FundedLemma ==
  ASSUME OfferInv, NEW w \in ClientWorks, NEW amount \in Nat, NEW payee \in {"seller", "other"},
         NEW routes \in [Parties -> Homes], Funded(w, amount, payee, routes, now + Ttl)
  PROVE  /\ escrow' \in [ClientWorks -> EscrowRecords]
         /\ \A x \in ClientWorks : x # w => escrow'[x] = escrow[x]
         /\ escrow'[w].status = "FUNDED" /\ escrow'[w].amount = amount
         /\ escrow'[w].worker = payee /\ escrow'[w].deadline = now + Ttl
         /\ escrow'[w].outcome = "none"
  <1> DEFINE e == [status |-> "FUNDED", amount |-> amount, worker |-> payee, routes |-> routes,
                   deadline |-> now + Ttl, outcome |-> "none"]
  <1>1. now + Ttl \in Nat  BY NowLemma
  <1>2. e \in EscrowRecords  BY <1>1 DEF EscrowRecords
  <1>3. escrow' = [escrow EXCEPT ![w] = e]  BY DEF Funded
  <1>4. escrow' \in [ClientWorks -> EscrowRecords] /\ escrow'[w] = e
        /\ \A x \in ClientWorks : x # w => escrow'[x] = escrow[x]
    BY <1>2, <1>3 DEF OfferInv, ExchangeTypes
  <1> QED  BY <1>4

(* Funding an empty escrow, by the payer's call, which goes on to sign or  *)
(* fails, or by somebody else.                                             *)
LEMMA FundingLemma ==
  ASSUME OfferInv, NEW w \in ClientWorks, escrow[w].status = "EMPTY", NEW amount \in Nat \ {0},
         NEW payee \in {"seller", "other"}, NEW routes \in [Parties -> Homes],
         Funded(w, amount, payee, routes, now + Ttl),
         NEW step \in ClientSteps, client' = [client EXCEPT ![w] = step],
         message' \in [ClientWorks \X (0 .. 2) -> MessageStates],
         \A x \in ClientWorks, i \in 0 .. 2 : x # w => message'[<<x, i>>] = message[<<x, i>>],
         task' \in [ClientWorks -> Criteria \cup {NoCriteria}],
         UNCHANGED <<allowance, shown, relay, terms, offers, seller, verdict, now>>,
         Kind[w] = "hand" => step = client[w],
         Kind[w] # "hand" => step \notin {"offered"},
         step = "funded" => /\ Kind[w] \in {"local", "mcp", "cross"} /\ payee = "seller"
                            /\ Kind[w] # "cross" => amount = Amount[w],
         Kind[w] \in {"local", "mcp"} => step \in {"funded", "failed"},
         Kind[w] = "cross" => message'[<<w, 0>>] = "delivered",
         message'[<<w, 0>>] # "none" =>
           step \in {"burned", "attested", "minted", "funded", "offered", "failed"}
  PROVE  OfferInv'
  <1>1. client \in [ClientWorks -> ClientSteps]  BY DEF OfferInv, ChainTypes
  <1>2. client'[w] = step /\ \A x \in ClientWorks : x # w => client'[x] = client[x]  BY <1>1
  <1>3. ChainTypes'  BY <1>1 DEF OfferInv, ChainTypes
  <1>4. ExchangeTypes'  BY FundedLemma DEF OfferInv, ExchangeTypes
  <1>5. ASSUME NEW x \in ClientWorks, x # w PROVE Untouched(x)
    <2>1. client'[x] = client[x] /\ \A i \in 0 .. 2 : message'[<<x, i>>] = message[<<x, i>>]
      BY <1>2, <1>5
    <2>2. escrow'[x] = escrow[x]  BY <1>5, FundedLemma
    <2> QED  BY <2>1, <2>2 DEF Untouched
  <1>6. WorkInv(w)  BY DEF OfferInv
  <1>7. FundedOnce(w)'  BY <1>2, FundedLemma DEF FundedOnce
  <1>8. Unsigned(w)'
    <2>1. step = "funded" => offers[w] = {}  BY EmptyLemma
    <2>2. step \in {"funded", "offered"} => Kind[w] \in {"local", "mcp", "cross"}
      BY <1>6 DEF WorkInv, Unsigned
    <2> QED  BY <1>2, <2>1, <2>2, FundedLemma DEF Unsigned
  <1>9. Signed(w)'  BY <1>2, EmptyLemma, FundedLemma DEF Signed
  <1>10. SellerHolds(w)'  BY <1>6, EmptyLemma, FundedLemma DEF WorkInv, SellerHolds
  <1>11. Judged(w)'  BY <1>6 DEF WorkInv, Judged
  <1>12. Relayed(w)'  BY EmptyLemma DEF Relayed
  <1> QED
    BY <1>3, <1>4, <1>5, <1>7, <1>8, <1>9, <1>10, <1>11, <1>12, OthersLemma DEF WorkInv

(* What the escrow is asked to hold, and what an offer of it says.         *)
LEMMA AskedLemma ==
  ASSUME NEW w \in ClientWorks
  PROVE  /\ toFixed(Asked(w)) = Amount[w] /\ Asked(w).units = Amount[w]
         /\ Amount[w] \in Nat \ {0} /\ Asked(w) \in UsdcAmounts
  BY ClientAssumption DEF toFixed, Asked, Usdc, UsdcAmounts

LEMMA RoutesLemma ==
  ASSUME OfferInv
  PROVE  terms.routes \in [Parties -> Homes] /\ LocalRoutes \in [Parties -> Homes]
  <1>1. terms.routes \in [Parties -> Homes]  BY DEF OfferInv, ExchangeTypes
  <1>2. Arc \in Homes  BY DEF Homes
  <1> QED  BY <1>1, <1>2 DEF LocalRoutes

LEMMA FundOnArcLemma ==
  ASSUME OfferInv, NEW w \in ClientWorks, FundOnArc(w)
  PROVE  OfferInv'
  <1>1. /\ client[w] = "ready" /\ Kind[w] \in {"local", "mcp"}
        /\ UNCHANGED <<allowance, shown, message, relay, task, terms, offers, seller, verdict, now>>
    BY DEF FundOnArc, offerVars
  <1>2. escrow[w].status = "EMPTY" /\ message[<<w, 0>>] = "none"
    BY <1>1 DEF OfferInv, WorkInv, FundedOnce
  <1>3. {"funded", "failed"} \subseteq ClientSteps  BY DEF ClientSteps
  <1>4. /\ message' \in [ClientWorks \X (0 .. 2) -> MessageStates]
        /\ task' \in [ClientWorks -> Criteria \cup {NoCriteria}]
        /\ allowance' \in Nat /\ shown' \in Nat
    BY <1>1 DEF OfferInv, ChainTypes, ExchangeTypes
  <1>5. CASE /\ Funded(w, toFixed(Asked(w)), "seller", LocalRoutes, now + Ttl)
             /\ \E step \in {"funded", "failed"} : client' = [client EXCEPT ![w] = step]
    <2>1. Amount[w] \in Nat \ {0} /\ LocalRoutes \in [Parties -> Homes]
      BY ClientAssumption, RoutesLemma
    <2> QED  BY <1>1, <1>2, <1>3, <1>4, <1>5, <2>1, AskedLemma, FundingLemma
  <1>6. CASE client' = [client EXCEPT ![w] = "failed"] /\ UNCHANGED escrow
    BY <1>1, <1>2, <1>3, <1>4, <1>6, PayerWaitsLemma
  <1> QED  BY <1>5, <1>6 DEF FundOnArc, ClientGoesTo, ClientFails

LEMMA FundCrossLemma ==
  ASSUME OfferInv, NEW w \in ClientWorks, FundCrossChainEscrow(w)
  PROVE  OfferInv'
  <1> DEFINE t == Terms("seller", terms.routes, now + Ttl)
  <1>1. /\ Kind[w] = "cross"
        /\ UNCHANGED <<allowance, shown, relay, task, terms, offers, seller, verdict, now>>
    BY DEF FundCrossChainEscrow, MintAndFund, AnyoneFunds, offerVars
  <1>2. FundedOnce(w) /\ Unsigned(w)  BY DEF OfferInv, WorkInv
  <1>3. /\ client \in [ClientWorks -> ClientSteps]
        /\ message \in [ClientWorks \X (0 .. 2) -> MessageStates]
        /\ escrow[w] \in EscrowRecords
        /\ task' \in [ClientWorks -> Criteria \cup {NoCriteria}]
        /\ allowance' \in Nat /\ shown' \in Nat
    BY <1>1 DEF OfferInv, ChainTypes, ExchangeTypes
  <1>4. CASE HookFunds(w, t) /\ \E step \in {client[w], "funded"} :
                                  /\ client' = [client EXCEPT ![w] = step]
                                  /\ step = "funded" => client[w] = "attested"
    <2>1. message[<<w, 0>>] = "attested" /\ message' = [message EXCEPT ![<<w, 0>>] = "delivered"]
      BY <1>4 DEF HookFunds, Becomes
    <2>2. escrow[w].status = "EMPTY"  BY <1>1, <1>2, <2>1 DEF FundedOnce
    <2>3. PICK took \in 0 .. TransferFee :
            Funded(w, Amount[w] - took, "seller", terms.routes, now + Ttl)
      BY <1>4 DEF HookFunds, Terms
    <2>4. Amount[w] - took \in Nat \ {0}  BY ClientAssumption
    <2>5. PICK step \in {client[w], "funded"} :
            /\ client' = [client EXCEPT ![w] = step]
            /\ step = "funded" => client[w] = "attested"
      BY <1>4
    <2>6. /\ step \in ClientSteps /\ client[w] \notin {"funded", "offered"}
          /\ client[w] \in {"burned", "attested", "minted", "failed"}
      <3>1. client[w] \in {"burned", "attested", "minted", "funded", "offered", "failed"}
        BY <1>2, <2>1 DEF FundedOnce
      <3>2. client[w] # "funded"  BY <2>2, EmptyLemma
      <3>3. client[w] # "offered"  BY <2>2, EmptyLemma
      <3> QED  BY <1>3, <3>1, <3>2, <3>3 DEF ClientSteps
    <2>7. "delivered" \in MessageStates /\ <<w, 0>> \in ClientWorks \X (0 .. 2)
          /\ \A x \in ClientWorks, i \in 0 .. 2 : <<x, i>> \in ClientWorks \X (0 .. 2)
      BY DEF MessageStates
    <2>8. /\ message' \in [ClientWorks \X (0 .. 2) -> MessageStates]
          /\ message'[<<w, 0>>] = "delivered"
          /\ \A x \in ClientWorks, i \in 0 .. 2 : x # w => message'[<<x, i>>] = message[<<x, i>>]
      BY <1>3, <2>1, <2>7
    <2>9. terms.routes \in [Parties -> Homes]  BY RoutesLemma
    <2> QED  BY <1>1, <1>3, <2>2, <2>3, <2>4, <2>5, <2>6, <2>8, <2>9, FundingLemma
  <1>5. CASE client[w] = "attested" /\ client' = [client EXCEPT ![w] = "failed"]
             /\ UNCHANGED <<message, escrow>>
    <2>1. "failed" \in ClientSteps  BY DEF ClientSteps
    <2> QED  BY <1>1, <1>3, <1>5, <2>1, PayerWaitsLemma
  <1>6. CASE AnyoneFunds(w, t)
    <2>1. client' = [client EXCEPT ![w] = client[w]]  BY <1>3, <1>6 DEF AnyoneFunds
    <2>2. client[w] # "funded"
      <3>1. message[<<w, 0>>] = "attested"  BY <1>6 DEF AnyoneFunds, HookFunds
      <3>2. escrow[w].status = "EMPTY"  BY <1>1, <1>2, <3>1 DEF FundedOnce
      <3> QED  BY <3>2, EmptyLemma
    <2> QED  BY <1>4, <1>6, <2>1, <2>2 DEF AnyoneFunds
  <1> QED
    BY <1>4, <1>5, <1>6 DEF FundCrossChainEscrow, MintAndFund, ClientGoesTo, ClientFails
------------------------------------------------------------------------------
LEMMA SignsLemma ==
  ASSUME OfferInv, NEW w \in ClientWorks, NEW c \in Criteria, NEW amounts \in SUBSET UsdcAmounts,
         Signs(w, c, amounts)
  PROVE  /\ offers' \in [ClientWorks -> SUBSET OfferRecords] /\ offers[w] \subseteq offers'[w]
         /\ \A x \in ClientWorks : x # w => offers'[x] = offers[x]
         /\ \A o \in offers'[w] : o \in offers[w] \/ o.amount \in amounts
  <1>1. offers \in [ClientWorks -> SUBSET OfferRecords]  BY DEF OfferInv, ExchangeTypes
  <1>2. PICK amount \in amounts, life \in OfferLives :
          offers' = [offers EXCEPT ![w] = offers[w] \cup {Offer(c, amount, now + life)}]
    BY DEF Signs
  <1> DEFINE offer == Offer(c, amount, now + life)
  <1>3. now + life \in Nat  BY NowLemma
  <1>4. offer \in OfferRecords /\ offer.amount = amount  BY <1>3 DEF Offer, OfferRecords
  <1> HIDE DEF offer
  <1>5. offers' = [offers EXCEPT ![w] = offers[w] \cup {offer}]  BY <1>2 DEF offer
  <1> QED  BY <1>1, <1>4, <1>5

LEMMA SignOfferLemma ==
  ASSUME OfferInv, NEW w \in ClientWorks, SignOffer(w)
  PROVE  OfferInv'
  <1> DEFINE amounts == IF Kind[w] = "cross" THEN Readings(w) ELSE {Asked(w)}
  <1>1. /\ client[w] = "funded" /\ client' = [client EXCEPT ![w] = "offered"]
        /\ Signs(w, terms.criteria, amounts)
        /\ UNCHANGED <<allowance, shown, message, escrow, relay, task, terms, seller, verdict, now>>
    BY DEF SignOffer, ClientGoesTo
  <1>2. WorkInv(w)  BY DEF OfferInv
  <1>3. /\ offers[w] = {} /\ escrow[w].status # "EMPTY" /\ escrow[w].worker = "seller"
        /\ escrow[w].amount # 0
        /\ Kind[w] # "cross" => escrow[w].amount = Amount[w]
        /\ Kind[w] \in {"local", "mcp", "cross"}
    BY <1>1, <1>2 DEF WorkInv, Unsigned
  <1>4. escrow[w].amount \in Nat /\ terms.criteria \in Criteria
    BY DEF OfferInv, ExchangeTypes, EscrowRecords
  <1>5. /\ amounts \in SUBSET UsdcAmounts
        /\ \A a \in amounts : a = Usdc(0, FALSE) \/ a.units = escrow[w].amount
    BY <1>3, <1>4, AskedLemma DEF Readings, Usdc, UsdcAmounts
  <1> HIDE DEF amounts
  <1>6. /\ offers' \in [ClientWorks -> SUBSET OfferRecords]
        /\ \A o \in offers'[w] : o.amount \in amounts
        /\ \A x \in ClientWorks : x # w => offers'[x] = offers[x]
    BY <1>1, <1>3, <1>4, <1>5, SignsLemma
  <1>7. client \in [ClientWorks -> ClientSteps] /\ "offered" \in ClientSteps
    BY DEF OfferInv, ChainTypes, ClientSteps
  <1>8. client'[w] = "offered" /\ \A x \in ClientWorks : x # w => client'[x] = client[x]
    BY <1>1, <1>7
  <1>9. ChainTypes' /\ ExchangeTypes'
    BY <1>1, <1>6, <1>7 DEF OfferInv, ChainTypes, ExchangeTypes
  <1>10. \A x \in ClientWorks : x # w => Untouched(x)  BY <1>1, <1>6, <1>8 DEF Untouched
  <1>11. FundedOnce(w)' /\ Unsigned(w)'
    BY <1>1, <1>2, <1>3, <1>8 DEF WorkInv, FundedOnce, Unsigned
  <1>12. Signed(w)'
    <2>1. \A o \in offers'[w] : o.amount = Usdc(0, FALSE) \/ o.amount.units = escrow[w].amount
      BY <1>5, <1>6
    <2> QED  BY <1>1, <1>3, <1>8, <2>1 DEF Signed
  <1>13. SellerHolds(w)'
    <2>1. seller[w].at = "idle"  BY <1>2, <1>3 DEF WorkInv, SellerHolds
    <2> QED  BY <1>1, <1>2, <2>1 DEF WorkInv, SellerHolds
  <1>14. Judged(w)'  BY <1>1, <1>2 DEF WorkInv, Judged
  <1>15. Relayed(w)'
    <2>1. PaidLegs(w)' = PaidLegs(w)  BY <1>1, SameLegsLemma
    <2> QED  BY <1>1, <1>2, <2>1 DEF WorkInv, Relayed
  <1> QED
    BY <1>1, <1>9, <1>10, <1>11, <1>12, <1>13, <1>14, <1>15, OthersLemma DEF WorkInv

(* A step that adds at most an offer of a payer without the SDK, or        *)
(* registers something, and leaves the escrow and the chain alone.         *)
LEMMA HandLemma ==
  ASSUME OfferInv, NEW w \in ClientWorks, Kind[w] = "hand",
         UNCHANGED <<client, allowance, shown, message, escrow, relay, terms, seller, verdict, now>>,
         task' \in [ClientWorks -> Criteria \cup {NoCriteria}],
         offers' \in [ClientWorks -> SUBSET OfferRecords],
         \A x \in ClientWorks : x # w => offers'[x] = offers[x],
         offers[w] \subseteq offers'[w]
  PROVE  OfferInv'
  <1>1. ChainTypes' /\ ExchangeTypes'  BY DEF OfferInv, ChainTypes, ExchangeTypes
  <1>2. \A x \in ClientWorks : x # w => Untouched(x)  BY DEF Untouched
  <1>3. WorkInv(w)  BY DEF OfferInv
  <1>4. PaidLegs(w)' = PaidLegs(w)  BY SameLegsLemma
  <1>5. FundedOnce(w)' /\ Unsigned(w)' /\ Signed(w)' /\ SellerHolds(w)' /\ Judged(w)'
    BY <1>3 DEF WorkInv, FundedOnce, Unsigned, Signed, SellerHolds, Judged
  <1>6. Relayed(w)'  BY <1>3, <1>4 DEF WorkInv, Relayed
  <1> QED  BY <1>1, <1>2, <1>5, <1>6, OthersLemma DEF WorkInv

LEMMA ByHandLemma ==
  ASSUME OfferInv, NEW w \in ClientWorks, ByHand(w)
  PROVE  OfferInv'
  <1>1. /\ Kind[w] = "hand" /\ client[w] = "new"
        /\ UNCHANGED <<client, allowance, shown, message, relay, terms, seller, verdict, now>>
    BY DEF ByHand
  <1>2. /\ client \in [ClientWorks -> ClientSteps] /\ task \in [ClientWorks -> Criteria \cup {NoCriteria}]
        /\ offers \in [ClientWorks -> SUBSET OfferRecords]
        /\ message \in [ClientWorks \X (0 .. 2) -> MessageStates] /\ escrow[w] \in EscrowRecords
    BY DEF OfferInv, ChainTypes, ExchangeTypes
  <1>3. Amount[w] \in Nat \ {0}  BY ClientAssumption
  <1>4. CASE (\E c \in Criteria : InsertTask(w, c)) /\ UNCHANGED <<escrow, offers>>
    <2>1. PICK c \in Criteria : task' = [task EXCEPT ![w] = IF task[w] = NoCriteria THEN c ELSE task[w]]
      BY <1>4 DEF InsertTask
    <2>2. task' \in [ClientWorks -> Criteria \cup {NoCriteria}]  BY <1>2, <2>1
    <2> QED  BY <1>1, <1>2, <1>4, <2>2, HandLemma
  <1>5. CASE /\ escrow[w] = NoEscrow
             /\ \E payee \in {"seller", "other"} :
                  Funded(w, toFixed(Asked(w)), payee, terms.routes, now + Ttl)
             /\ UNCHANGED <<task, offers>>
    <2>1. escrow[w].status = "EMPTY"  BY <1>5 DEF NoEscrow
    <2>2. client' = [client EXCEPT ![w] = client[w]] /\ client[w] \in ClientSteps  BY <1>1, <1>2
    <2>3. terms.routes \in [Parties -> Homes]  BY RoutesLemma
    <2>4. message[<<w, 0>>] = "none"  BY <1>1 DEF OfferInv, WorkInv, FundedOnce
    <2>5. task' \in [ClientWorks -> Criteria \cup {NoCriteria}]
          /\ message' \in [ClientWorks \X (0 .. 2) -> MessageStates]
      BY <1>1, <1>2, <1>5
    <2>6. PICK payee \in {"seller", "other"} :
            Funded(w, Amount[w], payee, terms.routes, now + Ttl)
      BY <1>5, AskedLemma
    <2>7. \A x \in ClientWorks, i \in 0 .. 2 : message'[<<x, i>>] = message[<<x, i>>]  BY <1>1
    <2>8. message'[<<w, 0>>] = "none" /\ client[w] # "funded"  BY <1>1, <2>4
    <2>9. /\ UNCHANGED <<allowance, shown, relay, terms, offers, seller, verdict, now>>
          /\ Kind[w] = "hand"
      BY <1>1, <1>5
    <2> QED  BY <1>3, <2>1, <2>2, <2>3, <2>5, <2>6, <2>7, <2>8, <2>9, FundingLemma
  <1>6. CASE /\ \E c \in Criteria : Signs(w, c, {Asked(w), Usdc(Amount[w] + 1, FALSE)})
             /\ UNCHANGED <<task, escrow>>
    <2>1. {Asked(w), Usdc(Amount[w] + 1, FALSE)} \in SUBSET UsdcAmounts
      BY <1>3, AskedLemma DEF Usdc, UsdcAmounts
    <2>2. /\ offers' \in [ClientWorks -> SUBSET OfferRecords] /\ offers[w] \subseteq offers'[w]
          /\ \A x \in ClientWorks : x # w => offers'[x] = offers[x]
      BY <1>6, <2>1, SignsLemma
    <2> QED  BY <1>1, <1>2, <1>6, <2>2, HandLemma
  <1> QED  BY <1>4, <1>5, <1>6 DEF ByHand
------------------------------------------------------------------------------
(* A step of the seller before it has delivered.                           *)
LEMMA SellerStepLemma ==
  ASSUME OfferInv, NEW w \in ClientWorks,
         UNCHANGED <<chainVars, task, terms, offers, verdict, now>>,
         NEW held \in SellerRecords, seller' = [seller EXCEPT ![w] = held],
         seller[w].at \in {"idle", "accepted"}, held.at \in {"accepted", "sent"},
         held.offer \in offers[w],
         held.at = "accepted" => Acceptable(w, held.offer, held.payout)
  PROVE  OfferInv'
  <1>1. seller \in [ClientWorks -> SellerRecords]  BY DEF OfferInv, ExchangeTypes
  <1>2. /\ seller'[w] = held /\ \A x \in ClientWorks : x # w => seller'[x] = seller[x]
        /\ seller' \in [ClientWorks -> SellerRecords]
    BY <1>1
  <1>3. UNCHANGED <<client, allowance, shown, message, escrow, relay, now>>  BY DEF chainVars
  <1>4. ChainTypes' /\ ExchangeTypes'
    BY <1>2, <1>3 DEF OfferInv, ChainTypes, ExchangeTypes
  <1>5. \A x \in ClientWorks : x # w => Untouched(x)  BY <1>2, <1>3 DEF Untouched
  <1>6. WorkInv(w)  BY DEF OfferInv
  <1>7. FundedOnce(w)' /\ Unsigned(w)' /\ Signed(w)'
    BY <1>3, <1>6 DEF WorkInv, FundedOnce, Unsigned, Signed
  <1>8. SellerHolds(w)'  BY <1>2, <1>3, <1>6 DEF WorkInv, SellerHolds, Acceptable
  <1>9. Judged(w)'  BY <1>6 DEF WorkInv, Judged
  <1>10. Relayed(w)'
    <2>1. PaidLegs(w)' = PaidLegs(w)  BY <1>3, SameLegsLemma
    <2> QED  BY <1>3, <1>6, <2>1 DEF WorkInv, Relayed
  <1> QED
    BY <1>3, <1>4, <1>5, <1>7, <1>8, <1>9, <1>10, OthersLemma DEF WorkInv

LEMMA AcceptSubmitLemma ==
  ASSUME OfferInv, NEW w \in ClientWorks, AcceptOffer(w) \/ Submit(w)
  PROVE  OfferInv'
  <1>1. UNCHANGED <<chainVars, task, terms, offers, verdict, now>>
    BY DEF AcceptOffer, Submit
  <1>2. /\ offers[w] \subseteq OfferRecords /\ seller \in [ClientWorks -> SellerRecords]
        /\ seller[w] \in SellerRecords
    BY DEF OfferInv, ExchangeTypes
  <1>3. CASE AcceptOffer(w)
    <2>1. PICK offer \in offers[w], payout \in Homes \cup {Anywhere} :
            /\ Acceptable(w, offer, payout)
            /\ seller' = [seller EXCEPT ![w] = [at |-> "accepted", offer |-> offer, payout |-> payout]]
      BY <1>3 DEF AcceptOffer, Holds
    <2> DEFINE held == [at |-> "accepted", offer |-> offer, payout |-> payout]
    <2>2. held \in SellerRecords  BY <1>2 DEF SellerRecords
    <2>3. seller[w].at = "idle"  BY <1>3 DEF AcceptOffer
    <2> QED  BY <1>1, <2>1, <2>2, <2>3, SellerStepLemma
  <1>4. CASE seller[w].at = "idle" /\ \E offer \in offers[w] : Holds(w, "sent", offer, Anywhere)
    <2>1. PICK offer \in offers[w] :
            seller' = [seller EXCEPT ![w] = [at |-> "sent", offer |-> offer, payout |-> Anywhere]]
      BY <1>4 DEF Holds
    <2> DEFINE held == [at |-> "sent", offer |-> offer, payout |-> Anywhere]
    <2>2. held \in SellerRecords  BY <1>2 DEF SellerRecords
    <2> QED  BY <1>1, <1>4, <2>1, <2>2, SellerStepLemma
  <1>5. CASE seller[w].at = "accepted" /\ seller' = [seller EXCEPT ![w].at = "sent"]
    <2> DEFINE held == [seller[w] EXCEPT !.at = "sent"]
    <2>1. held \in SellerRecords /\ held.at = "sent" /\ held.offer = seller[w].offer
      BY <1>2 DEF SellerRecords
    <2>2. seller[w].offer \in offers[w]  BY <1>5 DEF OfferInv, WorkInv, SellerHolds
    <2>3. seller' = [seller EXCEPT ![w] = held]  BY <1>5
    <2> HIDE DEF held
    <2> QED  BY <1>1, <1>5, <2>1, <2>2, <2>3, SellerStepLemma
  <1> QED  BY <1>3, <1>4, <1>5 DEF Submit
------------------------------------------------------------------------------
(* Settling a funded escrow keeps its terms, and what it puts on the way   *)
(* is for shares only.                                                     *)
LEMMA SettleLemma ==
  ASSUME OfferInv, NEW w \in ClientWorks, NEW outcome \in PaidOutcomes, Settle(w, outcome)
  PROVE  /\ escrow[w].status = "FUNDED"
         /\ escrow' \in [ClientWorks -> EscrowRecords]
         /\ \A x \in ClientWorks : x # w => escrow'[x] = escrow[x]
         /\ escrow'[w].status = "SETTLED" /\ escrow'[w].outcome = outcome
         /\ escrow'[w].amount = escrow[w].amount /\ escrow'[w].worker = escrow[w].worker
         /\ escrow'[w].routes = escrow[w].routes /\ escrow'[w].deadline = escrow[w].deadline
         /\ message' \in [ClientWorks \X (0 .. 2) -> MessageStates]
         /\ \A x \in ClientWorks, i \in 0 .. 2 : x # w => message'[<<x, i>>] = message[<<x, i>>]
         /\ message'[<<w, 0>>] = message[<<w, 0>>]
  <1>1. /\ escrow \in [ClientWorks -> EscrowRecords] /\ escrow[w] \in EscrowRecords
        /\ message \in [ClientWorks \X (0 .. 2) -> MessageStates]
    BY DEF OfferInv, ExchangeTypes, ChainTypes
  <1> DEFINE e == [escrow[w] EXCEPT !.status = "SETTLED", !.outcome = outcome]
  <1>2. /\ e \in EscrowRecords /\ e.status = "SETTLED" /\ e.outcome = outcome
        /\ e.amount = escrow[w].amount /\ e.worker = escrow[w].worker
        /\ e.routes = escrow[w].routes /\ e.deadline = escrow[w].deadline
    BY <1>1 DEF EscrowRecords
  <1>3. escrow' = [escrow EXCEPT ![w] = e]  BY <1>1 DEF Settle
  <1>4. /\ escrow' \in [ClientWorks -> EscrowRecords] /\ escrow'[w] = e
        /\ \A x \in ClientWorks : x # w => escrow'[x] = escrow[x]
    <2> HIDE DEF e
    <2> QED  BY <1>1, <1>2, <1>3
  <1>5. message' = [m \in ClientWorks \X (0 .. 2) |->
                      IF m[1] = w /\ m[2] \in DOMAIN Burns(w, outcome) THEN "sent" ELSE message[m]]
    BY <1>1 DEF Settle
  <1>6. message' \in [ClientWorks \X (0 .. 2) -> MessageStates]
    BY <1>1, <1>5 DEF MessageStates
  <1>7. \A x \in ClientWorks, i \in 0 .. 2 :
          /\ <<x, i>> \in ClientWorks \X (0 .. 2)
          /\ <<x, i>>[1] = x /\ <<x, i>>[2] = i
    OBVIOUS
  <1>8. \A x \in ClientWorks, i \in 0 .. 2 : x # w => message'[<<x, i>>] = message[<<x, i>>]
    BY <1>5, <1>7
  <1>9. 0 \notin DOMAIN Burns(w, outcome)
    <2>1. Burns(w, outcome) \in Seq(Parties)  BY BurnsLemma
    <2>2. DOMAIN Burns(w, outcome) = 1 .. Len(Burns(w, outcome)) /\ Len(Burns(w, outcome)) \in Nat
      BY <2>1
    <2> QED  BY <2>2
  <1>10. message'[<<w, 0>>] = message[<<w, 0>>]
    <2>1. 0 \in 0 .. 2
      OBVIOUS
    <2> QED  BY <1>5, <1>7, <1>9, <2>1
  <1>11. escrow[w].status = "FUNDED"  BY DEF Settle
  <1> QED  BY <1>2, <1>4, <1>6, <1>8, <1>10, <1>11

(* A conclusion of a work, with or without a settlement.                   *)
LEMMA OfferConcludeLemma ==
  ASSUME OfferInv, NEW w \in ClientWorks,
         UNCHANGED <<client, allowance, shown, relay, task, terms, offers, now>>,
         \/ UNCHANGED <<message, escrow>>
         \/ \E outcome \in PaidOutcomes :
              /\ Settle(w, outcome)
              /\ \/ seller'[w].at = "judged"
                 \/ outcome = "expired" /\ now > escrow[w].deadline,
         NEW held \in SellerRecords, seller' = [seller EXCEPT ![w] = held],
         held.at = seller[w].at \/ (seller[w].at = "sent" /\ held.at \in {"judged", "refused"}),
         held.offer = seller[w].offer /\ held.payout = seller[w].payout,
         verdict' \in [ClientWorks -> Criteria \cup {NoCriteria}],
         \A x \in ClientWorks : x # w => verdict'[x] = verdict[x],
         Judged(w)'
  PROVE  OfferInv'
  <1>1. seller \in [ClientWorks -> SellerRecords]  BY DEF OfferInv, ExchangeTypes
  <1>2. /\ seller'[w] = held /\ \A x \in ClientWorks : x # w => seller'[x] = seller[x]
        /\ seller' \in [ClientWorks -> SellerRecords]
    BY <1>1
  <1>3. WorkInv(w)  BY DEF OfferInv
  <1>4. CASE UNCHANGED <<message, escrow>>
    <2>1. ChainTypes' /\ ExchangeTypes'
      BY <1>2, <1>4 DEF OfferInv, ChainTypes, ExchangeTypes
    <2>2. \A x \in ClientWorks : x # w => Untouched(x)  BY <1>2, <1>4 DEF Untouched
    <2>3. FundedOnce(w)' /\ Unsigned(w)' /\ Signed(w)'
      BY <1>3, <1>4 DEF WorkInv, FundedOnce, Unsigned, Signed
    <2>4. SellerHolds(w)'  BY <1>2, <1>3, <1>4 DEF WorkInv, SellerHolds
    <2>5. PaidLegs(w)' = PaidLegs(w)  BY <1>4, SameLegsLemma
    <2>6. Relayed(w)'  BY <1>3, <1>4, <2>5 DEF WorkInv, Relayed
    <2> QED  BY <2>1, <2>2, <2>3, <2>4, <2>6, OthersLemma DEF WorkInv
  <1>5. ASSUME NEW outcome \in PaidOutcomes, Settle(w, outcome),
               \/ seller'[w].at = "judged"
               \/ outcome = "expired" /\ now > escrow[w].deadline
        PROVE  OfferInv'
    <2>1. /\ escrow[w].status = "FUNDED"
          /\ escrow' \in [ClientWorks -> EscrowRecords]
          /\ \A x \in ClientWorks : x # w => escrow'[x] = escrow[x]
          /\ escrow'[w].status = "SETTLED" /\ escrow'[w].outcome = outcome
          /\ escrow'[w].amount = escrow[w].amount /\ escrow'[w].worker = escrow[w].worker
          /\ escrow'[w].routes = escrow[w].routes /\ escrow'[w].deadline = escrow[w].deadline
          /\ message' \in [ClientWorks \X (0 .. 2) -> MessageStates]
          /\ \A x \in ClientWorks, i \in 0 .. 2 : x # w => message'[<<x, i>>] = message[<<x, i>>]
          /\ message'[<<w, 0>>] = message[<<w, 0>>]
      BY <1>5, SettleLemma
    <2>2. ChainTypes' /\ ExchangeTypes'
      BY <1>2, <2>1 DEF OfferInv, ChainTypes, ExchangeTypes
    <2>3. \A x \in ClientWorks : x # w => Untouched(x)  BY <1>2, <2>1 DEF Untouched
    <2>4. outcome # "none"  BY DEF PaidOutcomes
    <2>5. FundedOnce(w)'  BY <1>3, <2>1, <2>4 DEF WorkInv, FundedOnce
    <2>6. Unsigned(w)' /\ Signed(w)'  BY <1>3, <2>1 DEF WorkInv, Unsigned, Signed
    <2>7. SellerHolds(w)'  BY <1>2, <1>3, <1>5, <2>1 DEF WorkInv, SellerHolds
    <2>8. Relayed(w)'
      <3>1. \A home \in Homes : relay[<<w, home>>] = "idle"  BY <1>3, <2>1 DEF WorkInv, Relayed
      <3> QED  BY <3>1 DEF Relayed
    <2> QED  BY <2>2, <2>3, <2>5, <2>6, <2>7, <2>8, OthersLemma DEF WorkInv
  <1> QED  BY <1>4, <1>5

LEMMA JudgeLemma ==
  ASSUME OfferInv, NEW w \in ClientWorks, Judge(w)
  PROVE  OfferInv'
  <1>1. /\ seller[w].at = "sent"
        /\ UNCHANGED <<client, allowance, shown, relay, task, terms, offers, now>>
    BY DEF Judge
  <1>2. /\ seller \in [ClientWorks -> SellerRecords] /\ seller[w] \in SellerRecords
        /\ verdict \in [ClientWorks -> Criteria \cup {NoCriteria}]
        /\ task[w] \in Criteria \cup {NoCriteria}
    BY DEF OfferInv, ExchangeTypes
  <1>3. PICK to \in {"judged", "refused"} :
          /\ seller' = [seller EXCEPT ![w].at = to]
          /\ to = "judged" => task[w] = seller[w].offer.criteria /\ verdict' = [verdict EXCEPT ![w] = task[w]]
          /\ to = "refused" => UNCHANGED <<verdict, message, escrow>>
          /\ \/ UNCHANGED <<message, escrow>>
             \/ \E outcome \in PaidOutcomes : Settle(w, outcome)
    BY DEF Judge, SameCriteria
  <1> DEFINE held == [seller[w] EXCEPT !.at = to]
  <1>4. /\ held \in SellerRecords /\ held.at = to
        /\ held.offer = seller[w].offer /\ held.payout = seller[w].payout
    BY <1>2 DEF SellerRecords
  <1>5. seller' = [seller EXCEPT ![w] = held]  BY <1>3
  <1> HIDE DEF held
  <1>6. seller'[w] = held  BY <1>2, <1>5
  <1>7. /\ verdict' \in [ClientWorks -> Criteria \cup {NoCriteria}]
        /\ \A x \in ClientWorks : x # w => verdict'[x] = verdict[x]
    BY <1>2, <1>3
  <1>8. Judged(w)'
    <2>1. CASE to = "judged"
      <3>1. verdict'[w] = task[w]  BY <1>2, <1>3, <2>1
      <3> QED  BY <1>3, <1>4, <1>6, <2>1, <3>1 DEF Judged
    <2>2. CASE to = "refused"
      <3>1. verdict'[w] = NoCriteria  BY <1>1, <1>3, <2>2 DEF OfferInv, WorkInv, Judged
      <3> QED  BY <3>1 DEF Judged
    <2> QED  BY <2>1, <2>2
  <1>9. CASE UNCHANGED <<message, escrow>>
    BY <1>1, <1>4, <1>5, <1>7, <1>8, <1>9, OfferConcludeLemma
  <1>10. CASE to = "judged" /\ \E outcome \in PaidOutcomes : Settle(w, outcome)
    <2>1. seller'[w].at = "judged"  BY <1>4, <1>6, <1>10
    <2> QED  BY <1>1, <1>4, <1>5, <1>7, <1>8, <1>10, <2>1, OfferConcludeLemma
  <1> QED  BY <1>3, <1>9, <1>10

LEMMA RefundOfferedLemma ==
  ASSUME OfferInv, NEW w \in ClientWorks, RefundOffered(w)
  PROVE  OfferInv'
  <1>1. /\ now > escrow[w].deadline /\ Settle(w, "expired")
        /\ UNCHANGED <<client, allowance, shown, relay, task, terms, offers, seller, verdict, now>>
    BY DEF RefundOffered, offerVars
  <1>2. seller \in [ClientWorks -> SellerRecords] /\ verdict' \in [ClientWorks -> Criteria \cup {NoCriteria}]
    BY <1>1 DEF OfferInv, ExchangeTypes
  <1> DEFINE held == seller[w]
  <1>3. held \in SellerRecords /\ seller' = [seller EXCEPT ![w] = held]  BY <1>1, <1>2
  <1>4. Judged(w)'  BY <1>1 DEF OfferInv, WorkInv, Judged
  <1>5. "expired" \in PaidOutcomes  BY DEF PaidOutcomes
  <1> QED  BY <1>1, <1>2, <1>3, <1>4, <1>5, OfferConcludeLemma

LEMMA OfferTickLemma ==
  ASSUME OfferInv, Tick
  PROVE  OfferInv'
  <1>1. /\ UNCHANGED <<client, allowance, shown, message, escrow, relay, task, terms, offers, seller,
                       verdict>>
        /\ now < MaxTime /\ now' = now + 1
    BY DEF Tick, chainVars
  <1>2. now \in Nat /\ MaxTime \in Nat  BY NowLemma, OfferAssumption
  <1>3. now' \in 0 .. MaxTime  BY <1>1, <1>2
  <1>4. ChainTypes' /\ ExchangeTypes'  BY <1>1, <1>3 DEF OfferInv, ChainTypes, ExchangeTypes
  <1>5. ASSUME NEW w \in ClientWorks PROVE WorkInv(w)'
    <2>1. WorkInv(w) /\ PaidLegs(w)' = PaidLegs(w)  BY <1>1, SameLegsLemma DEF OfferInv
    <2>2. FundedOnce(w)' /\ Unsigned(w)' /\ Signed(w)' /\ Judged(w)'
      BY <1>1, <2>1 DEF WorkInv, FundedOnce, Unsigned, Signed, Judged
    <2>3. now > escrow[w].deadline => now' > escrow[w].deadline
      <3>1. escrow[w].deadline \in Nat  BY DEF OfferInv, ExchangeTypes, EscrowRecords
      <3> QED  BY <1>1, <1>2, <3>1
    <2>4. SellerHolds(w)'  BY <1>1, <2>1, <2>3 DEF WorkInv, SellerHolds
    <2>5. Relayed(w)'  BY <1>1, <2>1 DEF WorkInv, Relayed
    <2> QED  BY <2>2, <2>4, <2>5 DEF WorkInv
  <1> QED  BY <1>4, <1>5 DEF OfferInv

LEMMA OfferStutterLemma ==
  ASSUME OfferInv, UNCHANGED exchangeVars
  PROVE  OfferInv'
  <1>1. UNCHANGED <<client, allowance, shown, message, escrow, relay, task, terms, offers, seller,
                    verdict, now>>
    BY DEF exchangeVars, chainVars
  <1>2. ChainTypes' /\ ExchangeTypes'  BY <1>1 DEF OfferInv, ChainTypes, ExchangeTypes
  <1>3. \A w \in ClientWorks : Untouched(w)  BY <1>1 DEF Untouched
  <1> QED  BY <1>1, <1>2, <1>3, UntouchedLemma DEF OfferInv

LEMMA OfferInitLemma ==
  ASSUME OfferInit
  PROVE  OfferInv
  <1>1. \A r \in Routes : r \in [Parties -> Homes]  BY ClientAssumption
  <1>2. Arc \in Homes  BY DEF Homes
  <1>3. ChainTypes
    BY DEF OfferInit, ClientInit, ChainTypes, ClientSteps, MessageStates, RelayStates
  <1>4. NoEscrow \in EscrowRecords  BY <1>2 DEF NoEscrow, EscrowRecords
  <1>5. [at |-> "idle", offer |-> NoOffer, payout |-> Anywhere] \in SellerRecords
    BY DEF SellerRecords
  <1>6. terms \in [criteria : Criteria, routes : [Parties -> Homes]]  BY <1>1 DEF OfferInit
  <1>7. escrow = [w \in ClientWorks |-> NoEscrow]  BY DEF OfferInit, ClientInit
  <1>8. ExchangeTypes
    <2>1. 0 \in 0 .. MaxTime  BY OfferAssumption
    <2> QED  BY <1>4, <1>5, <1>6, <1>7, <2>1 DEF OfferInit, ExchangeTypes
  <1>9. ASSUME NEW w \in ClientWorks PROVE WorkInv(w)
    <2>1. /\ client[w] \in {"new", "absent"} /\ message[<<w, 0>>] = "none"
          /\ \A home \in Homes : relay[<<w, home>>] = "idle"
      <3>1. <<w, 0>> \in ClientWorks \X (0 .. 2)
            /\ \A home \in Homes : <<w, home>> \in ClientWorks \X Homes
        OBVIOUS
      <3> QED  BY <3>1 DEF OfferInit, ClientInit
    <2>2. escrow[w].status = "EMPTY" /\ escrow[w].outcome = "none"  BY <1>7 DEF NoEscrow
    <2>3. offers[w] = {} /\ seller[w].at = "idle" /\ verdict[w] = NoCriteria  BY DEF OfferInit
    <2> QED
      BY <2>1, <2>2, <2>3
      DEF WorkInv, FundedOnce, Unsigned, Signed, SellerHolds, Judged, Relayed
  <1> QED  BY <1>3, <1>8, <1>9 DEF OfferInv
------------------------------------------------------------------------------
(* The invariant is kept by every step of the payers, the sellers, the     *)
(* worker, the chains and whoever relays between them.                     *)
THEOREM OfferInvariance == OfferSpec => []OfferInv
  <1>1. OfferInit => OfferInv  BY OfferInitLemma
  <1>2. OfferInv /\ [OfferNext]_exchangeVars => OfferInv'
    <2> SUFFICES ASSUME OfferInv, [OfferNext]_exchangeVars PROVE OfferInv'
      OBVIOUS
    <2>1. ASSUME NEW w \in ClientWorks,
                 Register(w) \/ FundOnArc(w) \/ FundCrossChainEscrow(w) \/ SignOffer(w) \/ ByHand(w)
          PROVE  OfferInv'
      BY <2>1, RegisterLemma, FundOnArcLemma, FundCrossLemma, SignOfferLemma, ByHandLemma
    <2>2. ASSUME NEW w \in ClientWorks, AcceptOffer(w) \/ Submit(w) \/ Judge(w) \/ RefundOffered(w)
          PROVE  OfferInv'
      BY <2>2, AcceptSubmitLemma, JudgeLemma, RefundOfferedLemma
    <2>3. ASSUME NEW w \in ClientWorks, TransferStep(w), UNCHANGED offerVars
          PROVE  OfferInv'
      <3>1. CASE FundCrossChain(w)  BY <2>3, <3>1, SourceChainLemma DEF FundCrossChain
      <3>2. CASE BridgeOne(w)  BY <2>3, <3>2, SourceChainLemma, BridgeLemma DEF BridgeOne
      <3>3. ASSUME NEW i \in 0 .. 2, Attest(<<w, i>>) \/ AnyoneDelivers(w, i)
            PROVE  OfferInv'
        BY <2>3, <3>3, CarriedLemma
      <3>4. ASSUME NEW home \in Homes,
                   RelayOutbound(w, home) \/ PollPayout(w, home) \/ ReceiveMessage(w, home)
            PROVE  OfferInv'
        BY <2>3, <3>4, RelayLemma
      <3> QED  BY <2>3, <3>1, <3>2, <3>3, <3>4 DEF TransferStep
    <2>4. CASE Tick  BY <2>4, OfferTickLemma
    <2>5. CASE UNCHANGED exchangeVars  BY <2>5, OfferStutterLemma
    <2> QED  BY <2>1, <2>2, <2>3, <2>4, <2>5 DEF OfferNext
  <1> QED  BY <1>1, <1>2, PTL DEF OfferSpec

(* Payers, messages, escrows, offers and sellers keep their types.         *)
THEOREM OfferTyped == OfferSpec => []OfferTypeOK
  <1>1. OfferInv => OfferTypeOK
    <2> SUFFICES ASSUME OfferInv PROVE OfferTypeOK
      OBVIOUS
    <2>1. ClientTypeOK
      BY DEF OfferInv, ChainTypes, ExchangeTypes, ClientTypeOK, ClientSteps, MessageStates,
             RelayStates, EscrowRecords
    <2>2. ASSUME NEW w \in ClientWorks
          PROVE  /\ seller[w].at \in {"idle", "accepted", "sent", "judged", "refused"}
                 /\ seller[w].payout \in Homes \cup {Anywhere}
                 /\ \A o \in offers[w] :
                      /\ o.criteria \in Criteria /\ o.expiresAt \in Nat
                      /\ o.amount \in [units : Nat, half : BOOLEAN]
      <3>1. seller[w] \in SellerRecords /\ offers[w] \subseteq OfferRecords
        BY DEF OfferInv, ExchangeTypes
      <3> QED  BY <3>1 DEF SellerRecords, OfferRecords, UsdcAmounts
    <2> QED  BY <2>1, <2>2 DEF OfferInv, ExchangeTypes, OfferTypeOK
  <1> QED  BY <1>1, OfferInvariance, PTL

(* A seller that accepted an offer and has not delivered yet can rely on   *)
(* the escrow's amount, payee and payout, and on its money until the       *)
(* escrow's deadline, for every number of works, payers with and without   *)
(* the SDK, everything they sign and offers that live however long         *)
(* (client.ts acceptOffer).                                                *)
THEOREM AcceptedOffersAreBacked == OfferSpec => []AcceptedOfferIsBacked
  <1>1. OfferInv => AcceptedOfferIsBacked
    <2> SUFFICES ASSUME OfferInv, NEW w \in ClientWorks, seller[w].at = "accepted"
                 PROVE  /\ escrow[w].worker = "seller"
                        /\ escrow[w].amount = MathRound(seller[w].offer.amount)
                        /\ seller[w].payout # Anywhere => escrow[w].routes["worker"] = seller[w].payout
                        /\ escrow[w].status # "FUNDED" =>
                             escrow[w].outcome = "expired" /\ now > escrow[w].deadline
      BY DEF AcceptedOfferIsBacked
    <2>1. SellerHolds(w)  BY DEF OfferInv, WorkInv
    <2>2. escrow[w].status \in {"EMPTY", "FUNDED", "SETTLED"}
      BY DEF OfferInv, ExchangeTypes, EscrowRecords
    <2> QED  BY <2>1, <2>2 DEF SellerHolds
  <1> QED  BY <1>1, OfferInvariance, PTL

(* An offer an SDK payer signed is accepted while it is open, the escrow's *)
(* deadline has not passed and nothing was delivered, however the funding  *)
(* came about, if and only if it is for something and its price is of      *)
(* whole atomic units (client.ts createTask, createTaskCrossChain,         *)
(* acceptOffer).                                                           *)
THEOREM OwnOffersAreAccepted == OfferSpec => []OwnOffersAreAcceptable
  <1>1. OfferInv => OwnOffersAreAcceptable
    <2> SUFFICES ASSUME OfferInv, NEW w \in ClientWorks, NEW offer \in offers[w],
                        Kind[w] # "hand", seller[w].at = "idle", VerifyOffer(offer),
                        now <= escrow[w].deadline
                 PROVE  Acceptable(w, offer, Anywhere) <=>
                          offer.amount.units # 0 /\ ~offer.amount.half
      BY DEF OwnOffersAreAcceptable
    <2>1. SellerHolds(w) /\ Signed(w)  BY DEF OfferInv, WorkInv
    <2>2. /\ escrow[w].status \in {"EMPTY", "FUNDED", "SETTLED"} /\ escrow[w].deadline \in Nat
          /\ now \in Nat /\ offer.amount \in UsdcAmounts /\ escrow[w].amount \in Nat
      BY NowLemma DEF OfferInv, ExchangeTypes, EscrowRecords, OfferRecords
    <2>3. /\ escrow[w].status # "EMPTY" /\ escrow[w].worker = "seller" /\ escrow[w].amount # 0
          /\ offer.amount = Usdc(0, FALSE) \/ offer.amount.units = escrow[w].amount
      BY <2>1 DEF Signed
    <2>4. escrow[w].status = "FUNDED"  BY <2>1, <2>2, <2>3 DEF SellerHolds
    <2>5. Acceptable(w, offer, Anywhere) <=> escrow[w].amount = MathRound(offer.amount)
      BY <2>3, <2>4 DEF Acceptable
    <2>6. CASE offer.amount = Usdc(0, FALSE)
      BY <2>2, <2>3, <2>5, <2>6 DEF MathRound, Usdc
    <2>7. CASE offer.amount.units = escrow[w].amount
      BY <2>2, <2>3, <2>5, <2>7 DEF MathRound, UsdcAmounts
    <2> QED  BY <2>3, <2>6, <2>7
  <1> QED  BY <1>1, OfferInvariance, PTL

(* A verdict is given under the criteria of the offer the seller answered, *)
(* however often the payer registered the work (routes/verdict.ts).        *)
THEOREM VerdictsAreAsOffered == OfferSpec => []JudgedAsOffered
  <1>1. OfferInv => JudgedAsOffered  BY DEF OfferInv, WorkInv, Judged, JudgedAsOffered
  <1> QED  BY <1>1, OfferInvariance, PTL

(* A relay call that ended with a receipt, good or reverted, leaves the    *)
(* only share the settlement burned delivered (crosschain.ts relayOutbound)*)
THEOREM RelaysEndDelivered == OfferSpec => []RelayEndsDelivered
  <1>1. OfferInv => RelayEndsDelivered
    <2> SUFFICES ASSUME OfferInv, NEW w \in ClientWorks, NEW home \in Homes,
                        Len(PaidLegs(w)) = 1, relay[<<w, home>>] \in {"done", "reverted"},
                        NEW i \in DOMAIN PaidLegs(w)
                 PROVE  message[<<w, i>>] = "delivered"
      BY DEF RelayEndsDelivered, Delivered
    <2>1. i = 1  BY LegsLemma
    <2> QED  BY <2>1 DEF OfferInv, WorkInv, Relayed
  <1> QED  BY <1>1, OfferInvariance, PTL
------------------------------------------------------------------------------

(***************************************************************************)
(* The components side by side (MCClients).                                *)
(***************************************************************************)
(* A behaviour of the run is, for each component, a behaviour of it; the   *)
(* exchange begins with a part of what it may begin with.                  *)
LEMMA ClientsParts ==
  ClientsSpec => OfferSpec /\ JobPageSpec /\ HireSpec /\ AcpSpec /\ CorridorSpec
  <1>1. ClientsInit => OfferInit /\ JobPageInit /\ HireInit /\ AcpInit /\ CorridorInit
    BY DEF ClientsInit, MCOfferInit
  <1>2. ASSUME [ClientsNext]_<<part, exchangeVars, jobVars, hireVars, acpVars, corridorVars>>
        PROVE  /\ [OfferNext]_exchangeVars /\ [JobPageNext]_jobVars /\ [HireNext]_hireVars
               /\ [AcpNext]_acpVars /\ [CorridorNext]_corridorVars
    BY <1>2 DEF ClientsNext
  <1> QED
    BY <1>1, <1>2, PTL DEF ClientsSpec, OfferSpec, JobPageSpec, HireSpec, AcpSpec, CorridorSpec

(* In the run, too, every component keeps its types, and what the theorems *)
(* of the components say holds.                                            *)
THEOREM ClientsTyped == ClientsSpec => []ClientsTypeOK
  BY ClientsParts, OfferTyped, JobPageTyped, HiresTyped, EvaluatorTyped, CorridorTypes, PTL
     DEF ClientsTypeOK
===============================================================================
