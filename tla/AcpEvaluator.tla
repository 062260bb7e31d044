----------------------------- MODULE AcpEvaluator ----------------------------
(***************************************************************************)
(* Verdikt as the evaluator of a job on Virtuals' Agent Commerce Protocol. *)
(* A buyer and a seller (agents/acp-evaluator/src/live-job.ts) take a job  *)
(* through create, budget, fund and submit on the ACP contract; the        *)
(* evaluator (acp-client.ts, judge.ts) hears of the submission, asks the   *)
(* worker's POST /api/evaluate for a verdict and completes or rejects the  *)
(* job on chain.  Every error on the way is answered with a rejection.     *)
(*                                                                         *)
(* The ACP contract and its event feed are external: a job moves along its *)
(* statuses, an operation in the wrong status reverts, an event may be     *)
(* lost or come twice, and a transaction may be mined unheard.             *)
(***************************************************************************)
EXTENDS Naturals, FiniteSets

CONSTANTS
  AcpJobs,
  AcpRoutes,           \* of the verdict routes, those a job's description may name
  PerIp, EvalWindow,   \* evaluations of one caller in a sliding window
  PerDay, EvalDay,     \* evaluations of everyone in a day
  MaxEvalTime,         \* bound: time
  MaxTroubles          \* bound: failed calls, unheard receipts, agent stops

VARIABLES
  acp,       \* external: the jobs on the ACP contract
  approved,  \* jobs whose buyer's USDC approval was mined
  entries,   \* external: events the evaluator's feed may still deliver
  handler,   \* what the evaluator's handler of a submission is doing
  listening, \* the evaluator's process is up
  judged,    \* history: the engine's verdicts of a job's submission
  recent,    \* rate limiter: the hits kept for each caller
  dayStart, dayCount,
  evalNow, troubles

acpVars == <<acp, approved, entries, handler, listening, judged, recent, dayStart,
             dayCount, evalNow, troubles>>

Evaluators == {"verdikt", "other"}
VerdictRoutes == {"code", "tool_output", "answer", "execution", "tool_trace"}
AcpWorks == {"good", "bad", "blank", "oversized", "none"}
AcpStatus == {"none", "open", "budgeted", "funded", "submitted", "completed", "rejected", "expired"}
AcpVerdicts == {"pass", "partial", "fail", "abstain"}
Handling == {"idle", "judging", "completing", "rejecting", "rejectingToBeSafe"}
Callers == {"evaluator", "walk-in"}

ASSUME AcpAssumption ==
  /\ "tool_output" \in AcpRoutes /\ AcpRoutes \subseteq VerdictRoutes
  /\ PerIp \in Nat \ {0} /\ PerDay \in Nat \ {0} /\ EvalWindow \in Nat /\ EvalDay \in Nat
  /\ MaxEvalTime \in Nat /\ EvalDay < MaxEvalTime /\ MaxTroubles \in Nat

(* The services Verdikt's own buyer and seller trade: a route, and the      *)
(* ground truth its acceptance carries.                                    *)
SERVICE_SPECS == {s \in
  {[route |-> "tool_output", truth |-> "jsonSchema"], [route |-> "code", truth |-> "tests"],
   [route |-> "answer", truth |-> "sources"], [route |-> "execution", truth |-> "execution"],
   [route |-> "tool_trace", truth |-> "toolTrace"]} : s.route \in AcpRoutes}

(* What a job's description may carry: a route or none, and an acceptance  *)
(* that holds the ground truth of this or another route, or of none.       *)
Descriptions == [route : AcpRoutes \cup {"none"},
                 truth : {s.truth : s \in SERVICE_SPECS} \cup {"none"}]

(* extractSpec: a declared route, or the schema of a legacy description.   *)
extractSpec(description) ==
  IF description.route # "none" THEN {description}
  ELSE {s \in SERVICE_SPECS : s.route = "tool_output" /\ s.truth = description.truth}

(* buildTask: the deliverable is there and of bounded size, and the        *)
(* acceptance carries the ground truth the route needs.                    *)
BuildTask(spec, work) ==
  /\ work \notin {"none", "blank", "oversized"}
  /\ CASE spec.route = "code"        -> spec.truth = "tests"
       [] spec.route = "tool_output" -> spec.truth = "jsonSchema"
       [] spec.route = "execution"   -> spec.truth = "execution"
       [] spec.route = "tool_trace"  -> spec.truth = "toolTrace"
       [] spec.route = "answer"      -> spec.truth = "sources"

Undescribed == [route |-> "none", truth |-> "none"]

AcpInit ==
  /\ acp = [j \in AcpJobs |-> [status |-> "none", evaluator |-> "other",
                            spec |-> Undescribed, work |-> "none"]]
  /\ approved = {} /\ entries = {}
  /\ handler = [j \in AcpJobs |-> "idle"] /\ listening = TRUE
  /\ judged = [j \in AcpJobs |-> {}]
  /\ recent = [c \in Callers |-> {}] /\ dayStart = 0 /\ dayCount = 0
  /\ evalNow = EvalDay + 1 /\ troubles = 0

Trouble == troubles < MaxTroubles /\ troubles' = troubles + 1
limiter == <<recent, dayStart, dayCount>>
market == <<acp, approved, entries>>
agent == <<handler, listening>>
Moves(j, from, to) == acp[j].status = from /\ acp' = [acp EXCEPT ![j].status = to]
------------------------------------------------------------------------------
(* Verdikt's buyer names it the evaluator and writes the route and the     *)
(* acceptance of a service into the description; others write anything.    *)
CreateAcpJob(j) ==
  /\ acp[j].status = "none"
  /\ \E e \in Evaluators, d \in Descriptions :
       acp' = [acp EXCEPT ![j] = [status |-> "open", evaluator |-> e, spec |-> d, work |-> "none"]]
  /\ UNCHANGED <<approved, entries, agent, judged, limiter, evalNow, troubles>>

SetBudget(j) ==
  /\ Moves(j, "open", "budgeted")
  /\ UNCHANGED <<approved, entries, agent, judged, limiter, evalNow, troubles>>

(* sendCalls: an EOA cannot batch, so the approval is mined before the     *)
(* funding is sent, and stays when the funding never is.                   *)
FundJob(j) ==
  /\ IF j \notin approved
     THEN /\ acp[j].status = "budgeted" /\ approved' = approved \cup {j} /\ UNCHANGED acp
     ELSE /\ Moves(j, "budgeted", "funded") /\ UNCHANGED approved
  /\ UNCHANGED <<entries, agent, judged, limiter, evalNow, troubles>>

SubmitWork(j) ==
  /\ acp[j].status = "funded"
  /\ \E w \in AcpWorks \ {"none"} :
       acp' = [acp EXCEPT ![j].status = "submitted", ![j].work = w]
  /\ entries' = entries \cup {j}
  /\ UNCHANGED <<approved, agent, judged, limiter, evalNow, troubles>>

(* External: after its expiry a job that was not decided is refunded.      *)
AcpExpire(j) ==
  /\ evalNow = MaxEvalTime
  /\ acp[j].status \in {"open", "budgeted", "funded", "submitted"}
  /\ acp' = [acp EXCEPT ![j].status = "expired"]
  /\ UNCHANGED <<approved, entries, agent, judged, limiter, evalNow, troubles>>
------------------------------------------------------------------------------
(* The evaluator's entry handler: other evaluators' jobs are left alone,   *)
(* one without criteria is rejected, and so is an empty deliverable.  The  *)
(* entry stays in the feed when it is delivered twice.                     *)
HearSubmission(j) ==
  /\ listening /\ j \in entries /\ handler[j] = "idle"
  /\ \/ entries' = entries \ {j} /\ UNCHANGED troubles
     \/ Trouble /\ UNCHANGED entries
  /\ handler' = [handler EXCEPT ![j] =
       IF acp[j].evaluator # "verdikt" THEN "idle"
       ELSE IF extractSpec(acp[j].spec) = {} THEN "rejectingToBeSafe"
       ELSE IF acp[j].work = "blank" THEN "rejecting" ELSE "judging"]
  /\ UNCHANGED <<acp, approved, listening, judged, limiter, evalNow>>

(* createRateLimiter: the day's count, then the caller's window; a hit is  *)
(* kept only when it is let through.                                       *)
DayOver == evalNow - dayStart > EvalDay
Hits(caller) == {h \in recent[caller] : evalNow - h[1] < EvalWindow}
Limited(caller) ==
  ~(DayOver \/ dayCount < PerDay) \/ Cardinality(Hits(caller)) >= PerIp
CountHit(caller) ==
  /\ dayStart' = IF DayOver THEN evalNow ELSE dayStart
  /\ dayCount' = (IF DayOver THEN 0 ELSE dayCount) + (IF Limited(caller) THEN 0 ELSE 1)
  /\ recent' = IF Limited(caller) THEN recent
               ELSE [recent EXCEPT ![caller] = Hits(caller) \cup {<<evalNow, Cardinality(Hits(caller))>>}]

(* What the engine may find of work that meets its criteria and of work    *)
(* that does not (VerdictPipeline).                                        *)
EngineFinds(work) ==
  IF work = "good" THEN {"pass", "partial", "abstain"} ELSE {"fail", "partial", "abstain"}

(* Mutant: whatever did not fail is approved.                              *)
ApproveUnlessFailed(verdict) == verdict # "fail"

approveFor(verdict) == verdict \in {"pass", "partial"}

(* A task the evaluation takes.                                            *)
Judgeable(j) == \E s \in extractSpec(acp[j].spec) : BuildTask(s, acp[j].work)

(* judge: 429 from the limiter, 400 for a task that is not taken, 502 when *)
(* the engine throws, and no answer at all are all errors.                 *)
AskForVerdict(j) ==
  /\ handler[j] = "judging"
  /\ CountHit("evaluator")
  /\ \/ /\ Limited("evaluator") \/ ~Judgeable(j)
        /\ handler' = [handler EXCEPT ![j] = "rejectingToBeSafe"] /\ UNCHANGED <<judged, troubles>>
     \/ /\ Trouble
        /\ handler' = [handler EXCEPT ![j] = "rejectingToBeSafe"] /\ UNCHANGED judged
     \/ /\ ~Limited("evaluator") /\ Judgeable(j)
        /\ \E v \in EngineFinds(acp[j].work) :
             /\ judged' = [judged EXCEPT ![j] = @ \cup {v}]
             /\ handler' = [handler EXCEPT ![j] = IF approveFor(v) THEN "completing" ELSE "rejecting"]
        /\ UNCHANGED troubles
  /\ UNCHANGED <<market, listening, evalNow>>

(* Other callers of the public route use up the same day.                  *)
WalkIn ==
  /\ CountHit("walk-in")
  /\ UNCHANGED <<market, agent, judged, evalNow, troubles>>

(* An operation on the contract: mined and heard, mined and unheard, not   *)
(* sent, or reverted; all but the first throw.                             *)
Operate(j, to, heard, thrown) ==
  \/ Moves(j, "submitted", to) /\ handler' = [handler EXCEPT ![j] = heard] /\ UNCHANGED troubles
  \/ /\ Trouble /\ handler' = [handler EXCEPT ![j] = thrown]
     /\ Moves(j, "submitted", to) \/ UNCHANGED acp
  \/ /\ acp[j].status # "submitted" /\ handler' = [handler EXCEPT ![j] = thrown]
     /\ UNCHANGED <<acp, troubles>>

CompleteJob(j) ==
  /\ handler[j] = "completing"
  /\ Operate(j, "completed", "idle", "rejectingToBeSafe")
  /\ UNCHANGED <<approved, entries, listening, judged, limiter, evalNow>>

(* A rejection that throws inside the try is tried once more.              *)
RejectJob(j) ==
  /\ handler[j] = "rejecting"
  /\ Operate(j, "rejected", "idle", "rejectingToBeSafe")
  /\ UNCHANGED <<approved, entries, listening, judged, limiter, evalNow>>

(* One that throws in the catch is nobody's: it may take the process down, *)
(* with what its other handlers were doing.                                *)
RejectToBeSafe(j) ==
  /\ handler[j] = "rejectingToBeSafe"
  /\ \/ Operate(j, "rejected", "idle", "idle") /\ UNCHANGED listening
     \/ /\ acp[j].status # "submitted"
        /\ listening' = FALSE /\ handler' = [i \in AcpJobs |-> "idle"]
        /\ UNCHANGED <<acp, troubles>>
  /\ UNCHANGED <<approved, entries, judged, limiter, evalNow>>

(* The process ends: what its handlers were doing is lost.                 *)
AgentStops ==
  /\ listening /\ Trouble
  /\ listening' = FALSE /\ handler' = [j \in AcpJobs |-> "idle"]
  /\ UNCHANGED <<market, judged, limiter, evalNow>>

AgentStarts ==
  /\ ~listening /\ listening' = TRUE
  /\ UNCHANGED <<market, handler, judged, limiter, evalNow, troubles>>

(* The worker that serves /api/evaluate starts with an empty limiter.      *)
LimiterRestarts ==
  /\ Trouble
  /\ recent' = [c \in Callers |-> {}] /\ dayStart' = 0 /\ dayCount' = 0
  /\ UNCHANGED <<market, agent, judged, evalNow>>

EvalTick ==
  /\ evalNow < MaxEvalTime /\ evalNow' = evalNow + 1
  /\ UNCHANGED <<market, agent, judged, limiter, troubles>>

AcpNext ==
  \/ \E j \in AcpJobs :
       \/ CreateAcpJob(j) \/ SetBudget(j) \/ FundJob(j) \/ SubmitWork(j) \/ AcpExpire(j)
       \/ HearSubmission(j) \/ AskForVerdict(j) \/ CompleteJob(j) \/ RejectJob(j)
       \/ RejectToBeSafe(j)
  \/ WalkIn \/ AgentStops \/ AgentStarts \/ LimiterRestarts \/ EvalTick

AcpSpec == AcpInit /\ [][AcpNext]_acpVars
------------------------------------------------------------------------------
AcpTypeOK ==
  /\ acp \in [AcpJobs -> [status : AcpStatus, evaluator : Evaluators,
                       spec : Descriptions, work : AcpWorks]]
  /\ approved \subseteq AcpJobs /\ entries \subseteq AcpJobs
  /\ handler \in [AcpJobs -> Handling] /\ listening \in BOOLEAN
  /\ judged \in [AcpJobs -> SUBSET AcpVerdicts]
  /\ \A c \in Callers : recent[c] \subseteq Nat \X Nat /\ Cardinality(recent[c]) <= PerIp
  /\ dayStart \in Nat /\ dayCount \in 0 .. PerDay
  /\ evalNow \in EvalDay + 1 .. MaxEvalTime /\ troubles \in 0 .. MaxTroubles

(* "Rejecting rather than releasing on unverified work" (acp-client.ts:91):*)
(* a job Verdikt completes is one whose submission the engine passed, in   *)
(* full or in part, under the ground truth of a route the job declared;    *)
(* neither a redelivered event, a limit, an error nor an unheard receipt   *)
(* ever completes a job.                                                   *)
CompletedIsApproved ==
  \A j \in AcpJobs :
    acp[j].status = "completed" =>
      /\ acp[j].evaluator = "verdikt" /\ judged[j] \cap {"pass", "partial"} # {}
      /\ extractSpec(acp[j].spec) \cap SERVICE_SPECS # {}
      /\ acp[j].work \in {"good", "bad"}
=============================================================================
