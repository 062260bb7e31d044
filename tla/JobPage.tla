------------------------------- MODULE JobPage -------------------------------
(***************************************************************************)
(* The page of one job (JobDetail.tsx), which a buyer leaves open or comes *)
(* back to.  It fetches the job's detail, then follows the stream of its   *)
(* work; a state it hears of overrides the one it fetched, and some events *)
(* make it fetch again.  Fetches overlap, and each is answered from reads  *)
(* the worker makes one after the other (routes/jobs.ts).                  *)
(*                                                                         *)
(* The job moves as its engine moves it (JobEngine has the whole of that): *)
(* the row first, then the event that tells of it; a settlement is on the  *)
(* chain and on the stream before the row says so.  The stream's history   *)
(* (lib/sse-bus.ts) is in the worker's memory: a restart forgets it, and   *)
(* the event of a row that was just written is never sent.                 *)
(***************************************************************************)
EXTENDS Naturals, Sequences, FiniteSets

CONSTANTS
  Money,       \* outcomes of a verdict
  MaxFetches,  \* bound: fetches under way at once
  MaxDrops     \* bound: failed fetches and reads, dropped streams, restarts

VARIABLES
  job,     \* the row: state, outcome, whether there is an artifact and a verdict
  onchain, \* the escrow: "FUNDED", or the outcome it was settled with
  engine,  \* what the engine has still to do for its last step, or that it was left
  bus,     \* events published about the work since the worker started
  detail,  \* the last detail the page was answered
  live,    \* liveState
  failing, \* the page shows an error in place of the job
  reader,  \* the page's EventSource: its state, and events read
  fetch,   \* fetches: where each is, and what its answer will say
  missed,  \* a restart took states the page had not heard, and it heard none since
  contest, \* the buyer's dispute
  drops

jobVars == <<job, onchain, engine, bus, detail, live, failing, reader, fetch, missed, contest,
             drops>>
workerVars == <<job, onchain, engine, bus>>
viewVars == <<detail, live, failing, reader, fetch, missed>>

ASSUME JobPageAssumption ==
  /\ Money \subseteq {"release", "refund", "partial", "abstain"}
  /\ MaxFetches \in Nat \ {0} /\ MaxDrops \in Nat

None == "none"
Unfetched == "unfetched"
JobStates == {"AWAITING_DELIVERY", "DELIVERED", "VERIFYING", "PROPOSED", "DISPUTED", "ESCALATED",
              "SETTLED", "ABSTAINED", "EXPIRED", "RESOLVED"}
Fetches == 1 .. MaxFetches
NoRow == [state |-> Unfetched, outcome |-> None, artifact |-> FALSE, verdict |-> FALSE,
          chain |-> None]
Idle == [at |-> "free", says |-> NoRow]

IsTerminal(state) == state \in {"SETTLED", "ABSTAINED", "EXPIRED", "RESOLVED"}

(* lifecycleIndex.                                                         *)
LifecycleIndex(state) ==
  CASE IsTerminal(state) -> 4
    [] state \in {"VERIFYING", "PROPOSED", "DISPUTED", "ESCALATED"} -> 3
    [] state = "DELIVERED" -> 2
    [] state = "AWAITING_DELIVERY" -> 1
    [] OTHER -> 0

(* reachedStep: an expired job got as far as what is left of it shows.     *)
ReachedStep(state, hasArtifact, hasVerdict) ==
  IF state # "EXPIRED" THEN LifecycleIndex(state)
  ELSE IF hasVerdict THEN 3 ELSE IF hasArtifact THEN 2 ELSE 1

JobPageInit ==
  /\ job = [state |-> "AWAITING_DELIVERY", outcome |-> None, artifact |-> FALSE,
            verdict |-> FALSE]
  /\ onchain = "FUNDED" /\ engine = "idle" /\ bus = <<"AWAITING_DELIVERY">>
  /\ detail = NoRow /\ live = None /\ failing = FALSE
  /\ reader = [at |-> "closed", read |-> 0]
  /\ fetch = [f \in Fetches |-> [Idle EXCEPT !.at = IF f = 1 THEN "asked" ELSE "free"]]
  /\ missed = FALSE /\ contest = None /\ drops = 0
------------------------------------------------------------------------------
(* The worker.                                                             *)
JobMoves(state) ==
  job' = [job EXCEPT !.state = state] /\ engine' = "unsaid" /\ UNCHANGED <<onchain, bus>>

Deliver ==
  /\ engine = "idle" /\ job.state = "AWAITING_DELIVERY"
  /\ job' = [job EXCEPT !.state = "DELIVERED", !.artifact = TRUE] /\ engine' = "unsaid"
  /\ UNCHANGED <<onchain, bus>>

Verify == engine = "idle" /\ job.state = "DELIVERED" /\ JobMoves("VERIFYING")

RecordVerdict ==
  /\ engine = "idle" /\ job.state = "VERIFYING" /\ ~job.verdict
  /\ job' = [job EXCEPT !.verdict = TRUE] /\ bus' = Append(bus, "verdict")
  /\ UNCHANGED <<onchain, engine>>

Hold == engine = "idle" /\ job.state = "VERIFYING" /\ job.verdict /\ JobMoves("PROPOSED")

Contest ==
  /\ engine = "idle"
  /\ \/ job.state = "PROPOSED" /\ contest \in {"posted", "unheard"} /\ JobMoves("DISPUTED")
     \/ job.state = "DISPUTED" /\ JobMoves("ESCALATED")

(* emit                                                                    *)
Emit ==
  /\ engine = "unsaid" /\ engine' = "idle"
  /\ bus' = Append(bus, job.state)
  /\ UNCHANGED <<job, onchain>>

SettleShown ==
  /\ engine = "idle" /\ onchain = "FUNDED" /\ job.verdict
  /\ job.state \in {"VERIFYING", "PROPOSED", "ESCALATED"}
  /\ \E outcome \in Money : onchain' = outcome
  /\ bus' = Append(bus, "settled") /\ engine' = "settled"
  /\ UNCHANGED job

(* A settlement that the engine gave up on lands: nothing tells of it.     *)
SettlesUnheard ==
  /\ engine \in {"idle", "left"} /\ onchain = "FUNDED" /\ job.verdict
  /\ job.state \in {"VERIFYING", "PROPOSED", "ESCALATED"}
  /\ \E outcome \in Money : onchain' = outcome
  /\ engine' = "left"
  /\ UNCHANGED <<job, bus>>

RefundExpiredOnChain ==
  /\ engine \in {"idle", "left"} /\ onchain = "FUNDED"
  /\ onchain' = "expired" /\ engine' = "settled"
  /\ UNCHANGED <<job, bus>>

(* Mutant: the event of the terminal state goes out with the settlement.   *)
MarkAndEmitFirst ==
  /\ engine = "settled" /\ engine' = "idle"
  /\ bus' = Append(bus, "SETTLED")
  /\ UNCHANGED <<job, onchain>>

(* Mutant: an expired job is recorded under the name the contract uses.    *)
ChainOutcome == onchain

RowOutcome == IF onchain = "expired" THEN "refund" ELSE onchain

(* markSettled, finalizeProposed, markResolved or markExpired.             *)
MarkTerminal ==
  /\ engine = "settled" /\ engine' = "unsaid"
  /\ job' = [job EXCEPT
       !.state = IF onchain = "expired" THEN "EXPIRED" ELSE IF job.state = "ESCALATED" THEN "RESOLVED"
                 ELSE IF onchain = "abstain" THEN "ABSTAINED" ELSE "SETTLED",
       !.outcome = RowOutcome]
  /\ UNCHANGED <<onchain, bus>>

WorkerStep ==
  /\ Deliver \/ Verify \/ RecordVerdict \/ Hold \/ Contest \/ Emit \/ SettleShown
     \/ SettlesUnheard \/ RefundExpiredOnChain \/ MarkTerminal
  /\ UNCHANGED <<viewVars, contest, drops>>
------------------------------------------------------------------------------
(* The page's stream, if it has one, was told of every state published.    *)
Heard == reader.at = "open" /\ \A i \in reader.read + 1 .. Len(bus) : bus[i] \notin JobStates

(* A restart empties the bus; the browser connects again.  A held job and  *)
(* one that awaits its delivery go on; any other is left to the deadline,  *)
(* and one that was settled already as its row says.  What it was reading  *)
(* for the page fails.                                                     *)
WorkerRestarts ==
  /\ drops < MaxDrops /\ drops' = drops + 1
  /\ engine' = IF job.state \in {"AWAITING_DELIVERY", "PROPOSED"} /\ onchain = "FUNDED"
               THEN "idle" ELSE "left"
  /\ bus' = <<>> /\ reader' = [reader EXCEPT !.read = 0]
  /\ missed' = (missed \/ engine = "unsaid" \/ ~Heard)
  /\ failing' = (failing \/ \E f \in Fetches : fetch[f].at = "row")
  /\ fetch' = [f \in Fetches |-> IF fetch[f].at = "row" THEN Idle ELSE fetch[f]]
  /\ contest' = IF contest = "posted" THEN "unheard" ELSE contest
  /\ UNCHANGED <<job, onchain, detail, live>>
------------------------------------------------------------------------------
(* GET /api/jobs/:id reads the row, then the escrow, which may fail, and   *)
(* then the verdict.                                                       *)
ReadRow(f) ==
  /\ fetch[f].at = "asked"
  /\ fetch' = [fetch EXCEPT ![f] = [at |-> "row", says |->
       [NoRow EXCEPT !.state = job.state, !.outcome = job.outcome, !.artifact = job.artifact]]]
  /\ UNCHANGED <<workerVars, detail, live, failing, reader, missed, contest, drops>>

ReadRest(f) ==
  /\ fetch[f].at = "row"
  /\ \E seen \in {onchain, None} :
       /\ IF seen = None THEN drops < MaxDrops /\ drops' = drops + 1 ELSE UNCHANGED drops
       /\ fetch' = [fetch EXCEPT ![f] = [at |-> "read", says |->
            [@.says EXCEPT !.verdict = job.verdict,
                           !.chain = IF seen = "FUNDED" THEN None ELSE seen]]]
  /\ UNCHANGED <<workerVars, detail, live, failing, reader, missed, contest>>

(* A fetch is over, and the later ones take the places before theirs.      *)
Over(f) ==
  fetch' = [g \in Fetches |-> IF g < f THEN fetch[g]
                              ELSE IF g + 1 \in Fetches THEN fetch[g + 1] ELSE Idle]

(* fetchDetail is answered; the first time, the page opens its stream.     *)
Answered(f) ==
  /\ fetch[f].at = "read"
  /\ detail' = fetch[f].says /\ failing' = FALSE /\ Over(f)
  /\ reader' = IF reader.at = "closed" THEN [at |-> "open", read |-> 0] ELSE reader
  /\ UNCHANGED <<workerVars, live, missed, contest, drops>>

(* The web server's proxy did not reach the worker, or not in time.        *)
Unreachable == drops < MaxDrops /\ drops' = drops + 1

FetchFails(f) ==
  /\ fetch[f].at # "free" /\ Unreachable
  /\ failing' = TRUE /\ Over(f)
  /\ UNCHANGED <<workerVars, detail, live, reader, missed, contest>>

FetchAgain ==
  \E f \in Fetches :
    /\ fetch[f].at = "free" /\ \A g \in 1 .. f - 1 : fetch[g].at # "free"
    /\ fetch' = [fetch EXCEPT ![f].at = "asked"]

(* onmessage.                                                              *)
JobMessage ==
  /\ reader.at = "open" /\ reader.read < Len(bus)
  /\ LET e == bus[reader.read + 1] IN
       /\ reader' = [reader EXCEPT !.read = @ + 1]
       /\ live' = IF e \in JobStates THEN e ELSE live
       /\ missed' = (missed /\ e \notin JobStates)
       /\ IF IsTerminal(e) \/ e \in {"PROPOSED", "DISPUTED", "ESCALATED", "settled", "verdict"}
          THEN FetchAgain ELSE UNCHANGED fetch
  /\ UNCHANGED <<workerVars, detail, failing, contest, drops>>

(* Mutant: the fetched state comes first.                                  *)
FetchedState == detail.state

ShownState == IF IsTerminal(detail.state) \/ live = None THEN detail.state ELSE live

ShownOutcome == IF detail.outcome # None THEN detail.outcome ELSE detail.chain

SubmitDispute ==
  /\ ShownState = "PROPOSED" /\ contest \in {None, "unheard"}
  /\ contest' = "posted"
  /\ UNCHANGED <<workerVars, viewVars, drops>>

(* The proxy of a dispute failed: the human may try again, and the worker  *)
(* may have taken it, or take it yet.                                      *)
DisputeUnheard == Unreachable /\ contest' = "unheard" /\ UNCHANGED fetch

(* The job was no longer open to it, or it ended RESOLVED.                 *)
DisputeAnswered ==
  /\ contest = "posted"
  /\ \/ job.state = "RESOLVED" /\ contest' = "resolved" /\ FetchAgain /\ UNCHANGED drops
     \/ /\ job.state \notin {"PROPOSED", "DISPUTED", "ESCALATED"}
        /\ contest' = "refused" /\ UNCHANGED <<fetch, drops>>
     \/ DisputeUnheard
  /\ UNCHANGED <<workerVars, detail, live, failing, reader, missed>>

(* The browser reconnects and is told from the beginning what the worker   *)
(* has of the history.                                                     *)
Reconnect ==
  /\ reader.at = "open" /\ drops < MaxDrops /\ drops' = drops + 1
  /\ reader' = [reader EXCEPT !.read = 0]
  /\ UNCHANGED <<workerVars, detail, live, failing, fetch, missed, contest>>

JobPageNext ==
  \/ WorkerStep \/ WorkerRestarts
  \/ \E f \in Fetches : ReadRow(f) \/ ReadRest(f) \/ Answered(f) \/ FetchFails(f)
  \/ JobMessage \/ SubmitDispute \/ DisputeAnswered \/ Reconnect

JobPageSpec == JobPageInit /\ [][JobPageNext]_jobVars
------------------------------------------------------------------------------
JobPageTypeOK ==
  /\ job.state \in JobStates /\ job.outcome \in Money \cup {None, "refund"}
  /\ onchain \in Money \cup {"FUNDED", "expired"} /\ engine \in {"idle", "unsaid", "settled", "left"}
  /\ \A i \in DOMAIN bus : bus[i] \in JobStates \cup {"verdict", "settled"}
  /\ live \in JobStates \cup {None} /\ {failing, missed} \subseteq BOOLEAN
  /\ reader.at \in {"closed", "open"} /\ reader.read \in 0 .. Len(bus)
  /\ \A f \in Fetches : fetch[f].at \in {"free", "asked", "row", "read"}
  /\ contest \in {None, "posted", "resolved", "refused", "unheard"} /\ drops \in 0 .. MaxDrops

Visible == detail # NoRow /\ ~failing

(* "the page can never render an optimistic lie": a terminal state, an     *)
(* outcome or a step of the timeline that the page shows has happened, on  *)
(* the chain and in the row, whatever order its fetches and events came in.*)
NoOptimisticLie ==
  Visible =>
    /\ IsTerminal(ShownState) => job.state = ShownState /\ onchain # "FUNDED"
    /\ ShownOutcome \in {None, onchain} \/ (onchain = "expired" /\ ShownOutcome = "refund")
    /\ LET step == ReachedStep(ShownState, detail.artifact, detail.verdict)
       IN (step >= 2 => job.artifact) /\ (step = 4 => job.verdict)

Quiet ==
  /\ Visible /\ engine \in {"idle", "left"} /\ reader.read = Len(bus)
  /\ \A f \in Fetches : fetch[f].at = "free"

(* An open tab updates in real time (JobDetail.tsx:34): when all is read   *)
(* and answered it shows the state the job is in, through replays and      *)
(* restarts of the worker, unless a restart took a state from it that it   *)
(* had not heard; then from the next state it hears on.                    *)
OpenTabIsCurrent == Quiet /\ ~missed => ShownState = job.state
=============================================================================
