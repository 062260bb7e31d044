----------------------------- MODULE JobEngine -----------------------------
(***************************************************************************)
(* The asynchronous job lifecycle of the worker: the engine                *)
(* (lib/job-engine.ts) with its store (lib/job-store.ts), its keeper       *)
(* (lib/keeper.ts), the seller callback (routes/callback.ts), the jobs     *)
(* routes, and the settlement calls that go through a Circle wallet to the *)
(* escrow on Arc.                                                          *)
(*                                                                         *)
(* Node runs one callback at a time but every await lets others in, so     *)
(* each call of an engine method is a `run' and one action is what happens *)
(* between two awaits.  A run remembers what it read (that may be stale)   *)
(* and acts on rows only through the store's conditional UPDATEs.  A       *)
(* submitted transaction outlives the run that waits for it.               *)
(***************************************************************************)
EXTENDS Integers, FiniteSets

CONSTANTS
  Jobs,           \* rows of vk_jobs
  Works,          \* work ids
  WorkOf,         \* the work a job was started for
  Labels,         \* outcomes the verdict engine can come to
  Runs,           \* run slots: at most this many calls and transactions in flight
  MaxAttempts,    \* DISPATCH_MAX_ATTEMPTS
  Ttl,            \* from funding to the escrow's deadline
  Window,         \* challengeWindowMs
  Margin,         \* CHALLENGE_DEADLINE_MARGIN_MS
  MaxTime,        \* bound on the clock
  MaxCrashes,     \* bound on worker restarts
  BuyerActs       \* the buyer may call refundExpired on the escrow itself

VARIABLES
  job,            \* vk_jobs, "ABSENT" before the INSERT
  held,           \* vk_verdicts: the last recorded verdict of a work
  run,            \* engine calls in flight
  tx,             \* the transaction a run slot submitted
  chain,          \* the escrow of each work
  now, crashes

vars == <<job, held, run, tx, chain, now, crashes>>

Outcomes == {"release", "refund", "partial", "abstain"}
Machine == INSTANCE JobMachine WITH state <- [j \in Jobs |-> job[j].state]
Terminal == Machine!Terminal
NoJob == [state |-> "ABSENT", outcome |-> "none", challengeDeadline |-> 0, disputable |-> FALSE]

Kinds == {"start", "deliver", "expire", "dispute", "finalize"}
Steps == {"create", "dispatch", "dispatched", "awaiting", "claim", "verify", "judge",
          "hold", "open", "escalate", "gather", "submit", "confirm", "record"}
Idle == [kind |-> "none", at |-> "idle", job |-> "none", label |-> "none", attempt |-> 0]

ASSUME EngineAssumption ==
  /\ WorkOf \in [Jobs -> Works] /\ Labels \subseteq Outcomes
  /\ {MaxAttempts, Ttl, Window, Margin, MaxTime, MaxCrashes} \subseteq Nat
  /\ BuyerActs \in BOOLEAN

Init ==
  /\ job = [j \in Jobs |-> NoJob]
  /\ held = [w \in Works |-> "none"]
  /\ run = [r \in Runs |-> Idle]
  /\ tx = [r \in Runs |-> "none"]
  /\ chain = [w \in Works |-> [status |-> "EMPTY", outcome |-> "none", deadline |-> 0]]
  /\ now = 0
  /\ crashes = 0

Work(r) == WorkOf[run[r].job]
Deadline(j) == chain[WorkOf[j]].deadline
------------------------------------------------------------------------------
(* Runs.  A slot is free once its run is over and its transaction final.   *)
Free(r) == run[r].at = "idle" /\ tx[r] # "pending"
Begin(r, kind, at, j) ==
  /\ Free(r)
  /\ run' = [run EXCEPT ![r] = [Idle EXCEPT !.kind = kind, !.at = at, !.job = j]]
  /\ tx' = [tx EXCEPT ![r] = "none"]

GoTo(r, at) == run' = [run EXCEPT ![r].at = at] /\ UNCHANGED tx

(* A run that ends while its transaction is pending leaves it in flight.   *)
End(r) ==
  IF tx[r] = "pending" THEN GoTo(r, "idle")
  ELSE run' = [run EXCEPT ![r] = Idle] /\ tx' = [tx EXCEPT ![r] = "none"]

(* The store: one UPDATE ... WHERE state IN (from), true if a row matched. *)
Update(j, from, row) ==
  job' = IF job[j].state \in from THEN [job EXCEPT ![j] = row] ELSE job
Set(j, from, to) == Update(j, from, [job[j] EXCEPT !.state = to])
Won(j, from) == job[j].state \in from

(* Mutant: a delivery can be claimed again until it is being verified.     *)
PreVerification == {"FUNDED", "DISPATCHED", "AWAITING_DELIVERY", "DELIVERED"}
PreDelivery == {"FUNDED", "DISPATCHED", "AWAITING_DELIVERY"}
(* markExpired's own list of the states it refuses.                        *)
RefusesExpiry == {"SETTLED", "ABSTAINED", "EXPIRED"}
------------------------------------------------------------------------------
(* POST /api/jobs checks the chain, then inserts; startJob then dispatches *)
(* with retries.  Whether the seller got the task does not show in the     *)
(* row: an attempt can reach it and still throw.                           *)
PostJob(r, j) ==
  /\ job[j].state = "ABSENT"
  /\ \A s \in Runs : run[s].job # j
  /\ chain[WorkOf[j]].status = "FUNDED"
  /\ Begin(r, "start", "create", j)
  /\ UNCHANGED <<job, held, chain, now, crashes>>

CreateJob(r) ==
  /\ run[r].at = "create"
  /\ \E disputable \in BOOLEAN :
       Update(run[r].job, {"ABSENT"},
              [NoJob EXCEPT !.state = "FUNDED", !.disputable = disputable])
  /\ GoTo(r, "dispatch")
  /\ UNCHANGED <<held, chain, now, crashes>>

(* Mutant: the attempts are counted but never used up.                     *)
DispatchForEver(r) ==
  /\ run[r].at = "dispatch"
  /\ \/ GoTo(r, "dispatched")
     \/ run' = [run EXCEPT ![r].attempt = @ + 1] /\ UNCHANGED tx
  /\ UNCHANGED <<job, held, chain, now, crashes>>

Dispatch(r) ==
  /\ run[r].at = "dispatch"
  /\ \/ GoTo(r, "dispatched")
     \/ /\ run[r].attempt + 1 < MaxAttempts
        /\ run' = [run EXCEPT ![r].attempt = @ + 1] /\ UNCHANGED tx
     \/ run[r].attempt + 1 >= MaxAttempts /\ End(r)
  /\ UNCHANGED <<job, held, chain, now, crashes>>

MarkDispatched(r) ==
  /\ run[r].at = "dispatched"
  /\ Set(run[r].job, {"FUNDED"}, "DISPATCHED")
  /\ GoTo(r, "awaiting")
  /\ UNCHANGED <<held, chain, now, crashes>>

MarkAwaiting(r) ==
  /\ run[r].at = "awaiting"
  /\ Set(run[r].job, {"DISPATCHED"}, "AWAITING_DELIVERY")
  /\ End(r)
  /\ UNCHANGED <<held, chain, now, crashes>>
------------------------------------------------------------------------------
(* onDelivery, from a callback or from the keeper's poll.  The token of a  *)
(* callback is out as soon as the row exists, so one can arrive in any     *)
(* state; it is refused when the row it read was terminal.  From the       *)
(* deadline on both are declined, and nothing checks the time again.       *)
Deliver(r, j) ==
  /\ job[j].state \notin Terminal \cup {"ABSENT"}
  /\ now < Deadline(j)
  /\ Begin(r, "deliver", "claim", j)
  /\ UNCHANGED <<job, held, chain, now, crashes>>

ClaimDelivery(r) ==
  /\ run[r].at = "claim"
  /\ Set(run[r].job, PreDelivery, "DELIVERED")
  /\ IF Won(run[r].job, PreDelivery) THEN GoTo(r, "verify") ELSE End(r)
  /\ UNCHANGED <<held, chain, now, crashes>>

MarkVerifying(r) ==
  /\ run[r].at = "verify"
  /\ Set(run[r].job, {"DELIVERED"}, "VERIFYING")
  /\ GoTo(r, "judge")
  /\ UNCHANGED <<held, chain, now, crashes>>

(* computeVerdict records the verdict under the work id; a disputable job  *)
(* is then held, any other goes on to settle what it computed.             *)
Judge(r) ==
  /\ run[r].at = "judge"
  /\ \E label \in Labels :
       /\ held' = [held EXCEPT ![Work(r)] = label]
       /\ run' = [run EXCEPT ![r].label = label,
                             ![r].at = IF job[run[r].job].disputable THEN "hold" ELSE "submit"]
  /\ UNCHANGED <<job, tx, chain, now, crashes>>

MinOf(a, b) == IF a < b THEN a ELSE b
ChallengeDeadline(j) == MinOf(now + Window, Deadline(j) - Margin)

(* Mutant: an UPDATE without its condition on the state.                   *)
MarkProposedAlways(r) ==
  /\ run[r].at = "hold"
  /\ job' = [job EXCEPT ![run[r].job].state = "PROPOSED",
                        ![run[r].job].challengeDeadline = ChallengeDeadline(run[r].job)]
  /\ End(r)
  /\ UNCHANGED <<held, chain, now, crashes>>

MarkProposed(r) ==
  /\ run[r].at = "hold"
  /\ LET j == run[r].job
     IN Update(j, {"VERIFYING"}, [job[j] EXCEPT !.state = "PROPOSED",
                                    !.challengeDeadline = ChallengeDeadline(j)])
  /\ End(r)
  /\ UNCHANGED <<held, chain, now, crashes>>
------------------------------------------------------------------------------
(* Mutant: only a no-show expires.                                         *)
ExpireNoShow(r, j) ==
  /\ job[j].state \in PreDelivery
  /\ now >= Deadline(j)
  /\ Begin(r, "expire", "submit", j)
  /\ UNCHANGED <<job, held, chain, now, crashes>>

(* expireJob, from the keeper's sweep or POST /api/jobs/:id/expire.        *)
ExpireJob(r, j) ==
  /\ job[j].state \notin Terminal \cup {"ABSENT"}
  /\ now >= Deadline(j)
  /\ Begin(r, "expire", "submit", j)
  /\ UNCHANGED <<job, held, chain, now, crashes>>

(* disputeJob: the window is checked on the row it read, then the dispute  *)
(* is opened by an UPDATE that looks at the state alone.                   *)
DisputeJob(r, j) ==
  /\ job[j].state = "PROPOSED"
  /\ now < job[j].challengeDeadline
  /\ Begin(r, "dispute", "open", j)
  /\ UNCHANGED <<job, held, chain, now, crashes>>

OpenDispute(r) ==
  /\ run[r].at = "open"
  /\ Set(run[r].job, {"PROPOSED"}, "DISPUTED")
  /\ IF Won(run[r].job, {"PROPOSED"}) THEN GoTo(r, "escalate") ELSE End(r)
  /\ UNCHANGED <<held, chain, now, crashes>>

MarkEscalated(r) ==
  /\ run[r].at = "escalate"
  /\ Set(run[r].job, {"DISPUTED"}, "ESCALATED")
  /\ IF Won(run[r].job, {"DISPUTED"}) THEN GoTo(r, "gather") ELSE End(r)
  /\ UNCHANGED <<held, chain, now, crashes>>

(* What the arbiter can make of a held verdict: uphold it, take a payout   *)
(* down, or turn a refusal into a release.                                 *)
Rulings(proposed) ==
  {proposed} \cup (IF proposed \in {"release", "partial"} THEN {"refund", "partial"} ELSE {})
             \cup (IF proposed \in {"refund", "partial", "abstain"} THEN {"release"} ELSE {})

(* Both paths settle from the verdict recorded under the work id.          *)
Gather(r) ==
  /\ run[r].at = "gather"
  /\ LET proposed == held[Work(r)]
     IN /\ proposed # "none"
        /\ \E label \in IF run[r].kind = "dispute" THEN Rulings(proposed) ELSE {proposed} :
             run' = [run EXCEPT ![r].label = label, ![r].at = "submit"]
  /\ UNCHANGED <<job, held, tx, chain, now, crashes>>

(* A sweep skips its tick while the last one is still at work.             *)
GuardedInterval(kind) == \A s \in Runs : run[s].at # "idle" => run[s].kind # kind

(* Mutant: the sweep takes every proposed job, its window closed or not.   *)
FinalizeAtOnce(r, j) ==
  /\ GuardedInterval("finalize")
  /\ job[j].state = "PROPOSED"
  /\ Begin(r, "finalize", "gather", j)
  /\ UNCHANGED <<job, held, chain, now, crashes>>

(* finalizeProposedJob, job after job, by the keeper's sweep.              *)
FinalizeJob(r, j) ==
  /\ GuardedInterval("finalize")
  /\ job[j].state = "PROPOSED"
  /\ now >= job[j].challengeDeadline
  /\ Begin(r, "finalize", "gather", j)
  /\ UNCHANGED <<job, held, chain, now, crashes>>
------------------------------------------------------------------------------
(* executeContractCall, then waitForTxHash.                                *)
Submit(r) ==
  /\ run[r].at = "submit"
  /\ run' = [run EXCEPT ![r].at = "confirm"]
  /\ tx' = [tx EXCEPT ![r] = "pending"]
  /\ UNCHANGED <<job, held, chain, now, crashes>>

(* Mutant: polls used up count as a confirmation.                          *)
ConfirmUnfinished(r) ==
  /\ run[r].at = "confirm"
  /\ tx[r] \in {"ok", "pending"}
  /\ GoTo(r, "record")
  /\ UNCHANGED <<job, held, chain, now, crashes>>

(* Circle reports COMPLETE.  A refund also reads the receipt; a settlement *)
(* takes Circle's word, which is taken to mean success here as it is there.*)
Confirm(r) ==
  /\ run[r].at = "confirm"
  /\ tx[r] = "ok"
  /\ GoTo(r, "record")
  /\ UNCHANGED <<job, held, chain, now, crashes>>

(* FAILED, CANCELLED, a reverted receipt, or the twelve polls used up on a *)
(* transaction that is still on its way.                                   *)
GiveUp(r) ==
  /\ run[r].at = "confirm"
  /\ tx[r] \in {"pending", "failed", "reverted"}
  /\ End(r)
  /\ UNCHANGED <<job, held, chain, now, crashes>>

(* markSettled, finalizeProposed, markResolved or markExpired.             *)
Record(r) ==
  /\ run[r].at = "record"
  /\ LET j == run[r].job
         settled == [job[j] EXCEPT !.state = Machine!OutcomeToState(run[r].label),
                                   !.outcome = run[r].label]
     IN \/ run[r].kind = "deliver"  /\ Update(j, {"VERIFYING"}, settled)
        \/ run[r].kind = "finalize" /\ Update(j, {"PROPOSED"}, settled)
        \/ run[r].kind = "dispute"  /\ Update(j, {"ESCALATED"},
             [job[j] EXCEPT !.state = "RESOLVED", !.outcome = run[r].label])
        \/ run[r].kind = "expire"   /\ Update(j, Machine!JobStates \ RefusesExpiry,
             [job[j] EXCEPT !.state = "EXPIRED", !.outcome = "refund"])
  /\ End(r)
  /\ UNCHANGED <<held, chain, now, crashes>>

(* Any await can throw (database, seller, model, RPC): the run is over and *)
(* what it had done stays done.  A worker restart ends them all.           *)
Throw(r) ==
  /\ run[r].at # "idle"
  /\ End(r)
  /\ UNCHANGED <<job, held, chain, now, crashes>>

Crash ==
  /\ crashes < MaxCrashes
  /\ crashes' = crashes + 1
  /\ run' = [r \in Runs |-> IF tx[r] = "pending" THEN [run[r] EXCEPT !.at = "idle"] ELSE Idle]
  /\ tx' = [r \in Runs |-> IF tx[r] = "pending" THEN "pending" ELSE "none"]
  /\ UNCHANGED <<job, held, chain, now>>
------------------------------------------------------------------------------
(* The escrow (see VerdiktEscrow): FUNDED once, settled once, and refunded *)
(* only strictly after the deadline.  now + Ttl < MaxTime is a bound.      *)
FundEscrow(w) ==
  /\ chain[w].status = "EMPTY"
  /\ now + Ttl < MaxTime
  /\ chain' = [chain EXCEPT ![w].status = "FUNDED", ![w].deadline = now + Ttl]
  /\ UNCHANGED <<job, held, run, tx, now, crashes>>

Allowed(r) ==
  /\ chain[Work(r)].status = "FUNDED"
  /\ run[r].kind = "expire" => now > chain[Work(r)].deadline

(* A transaction whose run is gone frees its slot as it becomes final.     *)
Finish(r, result) ==
  IF run[r].at = "idle"
  THEN run' = [run EXCEPT ![r] = Idle] /\ tx' = [tx EXCEPT ![r] = "none"]
  ELSE tx' = [tx EXCEPT ![r] = result] /\ UNCHANGED run

Pay(w, outcome) == [chain EXCEPT ![w].status = "SETTLED", ![w].outcome = outcome]

(* A pending transaction is executed, at any time after its submission.    *)
Land(r) ==
  /\ tx[r] = "pending" /\ Allowed(r)
  /\ chain' = Pay(Work(r), IF run[r].kind = "expire" THEN "expired" ELSE run[r].label)
  /\ Finish(r, "ok")
  /\ UNCHANGED <<job, held, now, crashes>>

(* It reverts when the escrow refuses it, or a payout's bridge does; or    *)
(* Circle never gets it onto the chain.                                    *)
Fail(r) ==
  /\ tx[r] = "pending"
  /\ Finish(r, "reverted") \/ Finish(r, "failed")
  /\ UNCHANGED <<job, held, chain, now, crashes>>

BuyerRefund(w) ==
  /\ BuyerActs
  /\ chain[w].status = "FUNDED" /\ now > chain[w].deadline
  /\ chain' = Pay(w, "expired")
  /\ UNCHANGED <<job, held, run, tx, now, crashes>>

Tick ==
  /\ now < MaxTime
  /\ now' = now + 1
  /\ UNCHANGED <<job, held, run, tx, chain, crashes>>

Begins(r, j) ==
  PostJob(r, j) \/ Deliver(r, j) \/ ExpireJob(r, j) \/ DisputeJob(r, j) \/ FinalizeJob(r, j)

Continues(r) ==
  \/ CreateJob(r) \/ Dispatch(r) \/ MarkDispatched(r) \/ MarkAwaiting(r)
  \/ ClaimDelivery(r) \/ MarkVerifying(r) \/ Judge(r) \/ MarkProposed(r)
  \/ OpenDispute(r) \/ MarkEscalated(r) \/ Gather(r)
  \/ Submit(r) \/ Confirm(r) \/ GiveUp(r) \/ Record(r) \/ Throw(r)

Next ==
  \/ \E r \in Runs : (\E j \in Jobs : Begins(r, j)) \/ Continues(r) \/ Land(r) \/ Fail(r)
  \/ \E w \in Works : FundEscrow(w) \/ BuyerRefund(w)
  \/ Tick
  \/ Crash

Spec == Init /\ [][Next]_vars
------------------------------------------------------------------------------
TypeOK ==
  /\ job \in [Jobs -> [state : Machine!JobStates \cup {"ABSENT"},
                       outcome : Outcomes \cup {"none"}, challengeDeadline : Int,
                       disputable : BOOLEAN]]
  /\ held \in [Works -> Labels \cup {"none"}]
  /\ run \in [Runs -> [kind : Kinds \cup {"none"}, at : Steps \cup {"idle"},
                       job : Jobs \cup {"none"}, label : Outcomes \cup {"none"},
                       attempt : 0 .. MaxAttempts]]
  /\ tx \in [Runs -> {"none", "pending", "ok", "reverted", "failed"}]
  /\ chain \in [Works -> [status : {"EMPTY", "FUNDED", "SETTLED"},
                          outcome : Outcomes \cup {"none", "expired"}, deadline : Nat]]
  /\ now \in 0 .. MaxTime /\ crashes \in 0 .. MaxCrashes

(* No interleaving of callbacks, polls, sweeps, disputes and restarts ever *)
(* persists a transition job-machine.ts:37-60 does not list; terminal      *)
(* states are final.                                                       *)
KeepsLifecycle == Machine!Lifecycle

(* One delivery: of all the callbacks and polls that race for a job, only  *)
(* one run is ever past claimDelivery, so it is judged and settled once.   *)
SingleDelivery ==
  \A r, s \in Runs :
    /\ {run[r].kind, run[s].kind} = {"deliver"} /\ run[r].job = run[s].job
    /\ {run[r].at, run[s].at} \cap {"claim", "idle"} = {}
    => r = s

(* What the dashboard shows is what the chain did: "every terminal state   *)
(* is set from a confirmed on-chain tx" (routes/jobs.ts:115-116).          *)
TerminalTellsTheChain ==
  \A j \in Jobs : job[j].state \in Terminal =>
    LET escrow == chain[WorkOf[j]]
    IN /\ escrow.status = "SETTLED"
       /\ escrow.outcome = IF job[j].state = "EXPIRED" THEN "expired" ELSE job[j].outcome

(* "So a party can contest before any money moves" (job-engine.ts:184-187):*)
(* no verdict is paid while its challenge window is open.                  *)
NothingPaidInTheWindow ==
  [][\A j \in Jobs :
       /\ job[j].disputable
       /\ chain[WorkOf[j]].status = "FUNDED" /\ chain'[WorkOf[j]].status = "SETTLED"
       /\ chain'[WorkOf[j]].outcome # "expired"
       => job[j].state \in {"DISPUTED", "ESCALATED"} \/ now >= job[j].challengeDeadline]_vars
------------------------------------------------------------------------------
(* Time passes; the keeper's intervals fire for ever (a restart starts     *)
(* them again) and its sweep comes to every overdue job in the end; a run  *)
(* ends or moves on; Circle decides every transaction and does not fail    *)
(* the same refund for ever.                                               *)
KeeperFairness ==
  /\ WF_vars(Tick)
  /\ \A r \in Runs : WF_vars(Continues(r)) /\ WF_vars(Land(r) \/ Fail(r))
  /\ \A j \in Jobs : SF_vars(\E r \in Runs : ExpireJob(r, j))
  /\ \A r \in Runs : SF_vars(run[r].kind = "expire" /\ Submit(r))
  /\ \A r \in Runs : SF_vars(run[r].kind = "expire" /\ Land(r))
FairSpec == Spec /\ KeeperFairness

(* "Funds are never stranded" (job-engine.ts:147-148): whatever failed on  *)
(* the way, the escrow of a job that was started is settled in the end.    *)
FundsNeverStranded ==
  \A j \in Jobs :
    job[j].state # "ABSENT" /\ chain[WorkOf[j]].status = "FUNDED"
      ~> chain[WorkOf[j]].status = "SETTLED"

(* The comment on the money path (job-engine.ts:200-201): "a settle that   *)
(* never confirms leaves the job non-terminal for the keeper to expire at  *)
(* the deadline".                                                          *)
UnconfirmedJobExpires ==
  \A j \in Jobs : job[j].state # "ABSENT" ~> job[j].state \in Terminal
=============================================================================
