----------------------------- MODULE VerdictRoute -----------------------------
(***************************************************************************)
(* The synchronous paths of the worker that meet on one row of vk_escrows: *)
(* POST /api/verdict (routes/verdict.ts), the gasless relayer              *)
(* (routes/relayer.ts) and the demo runs (routes/demo.ts, routes/try.ts),  *)
(* with the row's statements (lib/db.ts), the settlement of a given        *)
(* verdict (engine/orchestrator.ts) and the capture of the x402 fee        *)
(* (lib/x402-meter.ts).                                                    *)
(*                                                                         *)
(* Each request runs on its own; an action is what one request does from   *)
(* one await to the next.                                                  *)
(***************************************************************************)
EXTENDS Integers

CONSTANTS
  Requests,  \* HTTP requests, each made at most once
  KindOf,    \* "verdict", "relay", "demo" or "try"
  Works,
  WorkOf,    \* the work a request is about
  Labels,    \* outcomes the verdict engine can come to, for each request
  Nobody     \* no request

VARIABLES
  request,   \* where each request is, and the outcome it computed
  row,       \* vk_escrows, status "none" before the INSERT
  inFlight,  \* the two inFlight sets, as (route, work) pairs
  tx,        \* the settlement a request submitted
  chain,     \* the escrow of each work, and whose transaction settled it
  charged    \* requests whose x402 authorization was captured

vars == <<request, row, inFlight, tx, chain, charged>>

Outcomes == {"release", "refund", "partial", "abstain"}
Billable == {"release", "refund", "partial"}
Kinds == {"verdict", "relay", "demo", "try"}
Steps == {"new", "exists", "reconcile", "write", "claim", "check", "send", "load", "fund", "record",
          "judge", "submit", "confirm", "settled", "receipt", "failed", "capture", "done"}

ASSUME RouteAssumption ==
  /\ KindOf \in [Requests -> Kinds] /\ WorkOf \in [Requests -> Works]
  /\ Labels \in [Requests -> SUBSET Outcomes] /\ Nobody \notin Requests

Init ==
  /\ request = [r \in Requests |-> [at |-> "new", label |-> "none"]]
  /\ row = [w \in Works |-> [status |-> "none", outcome |-> "none", settledBy |-> Nobody]]
  /\ inFlight = {}
  /\ tx = [r \in Requests |-> "none"]
  /\ chain = [w \in Works |-> [status |-> "EMPTY", outcome |-> "none", settledBy |-> Nobody]]
  /\ charged = {}

At(r, step) == request[r].at = step
GoTo(r, step) == request' = [request EXCEPT ![r].at = step]

(* The finally of a demo run takes the work off the in-flight set, its own *)
(* entry or not; a request refused before that leaves the set alone.       *)
Tag(r) == <<KindOf[r], WorkOf[r]>>
Admitted == {"fund", "record", "judge", "submit", "confirm", "settled", "receipt", "failed"}
End(r) ==
  /\ GoTo(r, "done")
  /\ inFlight' = IF request[r].at \in Admitted THEN inFlight \ {Tag(r)} ELSE inFlight

(* recordFunded is an upsert: whatever the row said, it says funded now.   *)
RecordFunded(w) == row' = [row EXCEPT ![w].status = "funded"]
------------------------------------------------------------------------------
(* POST /api/verdict: reconcile with the chain if there is no row, then    *)
(* take the single-shot lock.                                              *)
Arrive(r) ==
  /\ At(r, "new")
  /\ CASE KindOf[r] = "verdict"       -> GoTo(r, "exists")
       [] KindOf[r] = "relay"         -> GoTo(r, "check")
       [] KindOf[r] \in {"demo", "try"} -> GoTo(r, IF Tag(r) \in inFlight THEN "done" ELSE "load")
  /\ UNCHANGED <<row, inFlight, tx, chain, charged>>

EscrowRowExists(r) ==
  /\ At(r, "exists")
  /\ GoTo(r, IF row[WorkOf[r]].status = "none" THEN "reconcile" ELSE "claim")
  /\ UNCHANGED <<row, inFlight, tx, chain, charged>>

(* Mutant: the status that was read is not looked at.                      *)
ReadUnchecked(r) ==
  /\ At(r, "reconcile")
  /\ GoTo(r, "write")
  /\ UNCHANGED <<row, inFlight, tx, chain, charged>>

ReadEscrowOnChain(r) ==
  /\ At(r, "reconcile")
  /\ \/ chain[WorkOf[r]].status = "FUNDED" /\ GoTo(r, "write")
     \/ GoTo(r, "claim")  \* not funded, or the read failed
  /\ UNCHANGED <<row, inFlight, tx, chain, charged>>

Reconcile(r) ==
  /\ At(r, "write")
  /\ RecordFunded(WorkOf[r]) \/ UNCHANGED row  \* a failed write is caught too
  /\ GoTo(r, "claim")
  /\ UNCHANGED <<inFlight, tx, chain, charged>>

ClaimForJudging(r) ==
  /\ At(r, "claim")
  /\ \/ /\ row[WorkOf[r]].status = "funded"
        /\ row' = [row EXCEPT ![WorkOf[r]].status = "judging"]
        /\ GoTo(r, "judge")
     \/ /\ row[WorkOf[r]].status # "funded"  \* 409
        /\ GoTo(r, "done") /\ UNCHANGED row
  /\ UNCHANGED <<inFlight, tx, chain, charged>>
------------------------------------------------------------------------------
(* The relayer and the demo runs fund the escrow themselves; the receipt   *)
(* must say success before the row is written.  A funding that lands after *)
(* its request gave up is a PayerFunds.                                    *)
CheckEscrow(r) ==
  /\ At(r, "check")
  /\ \/ chain[WorkOf[r]].status = "EMPTY" /\ GoTo(r, "send")
     \/ GoTo(r, "send")  \* the read failed
     \/ chain[WorkOf[r]].status # "EMPTY" /\ GoTo(r, "done")
  /\ UNCHANGED <<row, inFlight, tx, chain, charged>>

LoadTask(r) ==
  /\ At(r, "load")
  /\ inFlight' = inFlight \cup {Tag(r)}
  /\ GoTo(r, "fund")
  /\ UNCHANGED <<row, tx, chain, charged>>

Funds(w) == chain[w].status = "EMPTY" /\ chain' = [chain EXCEPT ![w].status = "FUNDED"]

FundEscrow(r) ==
  /\ At(r, "send") \/ At(r, "fund")
  /\ Funds(WorkOf[r])
  /\ GoTo(r, "record")
  /\ UNCHANGED <<row, inFlight, tx, charged>>

RecordFunding(r) ==
  /\ At(r, "record")
  /\ RecordFunded(WorkOf[r])
  /\ IF KindOf[r] = "relay" THEN End(r) ELSE GoTo(r, "judge") /\ UNCHANGED inFlight
  /\ UNCHANGED <<tx, chain, charged>>
------------------------------------------------------------------------------
(* runVerdict: compute and record the verdict, then settle it.             *)
ComputeVerdict(r) ==
  /\ At(r, "judge")
  /\ \E label \in Labels[r] : request' = [request EXCEPT ![r] = [at |-> "submit", label |-> label]]
  /\ UNCHANGED <<row, inFlight, tx, chain, charged>>

SettleVerdict(r) ==
  /\ At(r, "submit")
  /\ tx' = [tx EXCEPT ![r] = "pending"]
  /\ GoTo(r, "confirm")
  /\ UNCHANGED <<row, inFlight, chain, charged>>

(* waitForTxHash: a hash once Circle calls the transaction complete, none  *)
(* when it failed or the polls are used up.                                *)
Confirmed(r) ==
  /\ At(r, "confirm")
  /\ \/ tx[r] = "ok" /\ GoTo(r, "settled")
     \/ tx[r] \in {"pending", "failed"} /\ GoTo(r, "failed")
  /\ UNCHANGED <<row, inFlight, tx, chain, charged>>

(* recordSettled updates the row if there is one.                          *)
RecordSettled(r) ==
  /\ At(r, "settled")
  /\ row' = IF row[WorkOf[r]].status = "none" THEN row
            ELSE [row EXCEPT ![WorkOf[r]] =
                    [status |-> "settled", outcome |-> request[r].label, settledBy |-> r]]
  /\ GoTo(r, "receipt")
  /\ UNCHANGED <<inFlight, tx, chain, charged>>

(* Only the verdict route looks at the txHash it gets back, and captures   *)
(* the fee of a definitive verdict.                                        *)
Receipt(r) ==
  /\ At(r, "receipt")
  /\ IF KindOf[r] = "verdict" /\ request[r].label \in Billable
     THEN GoTo(r, "capture") /\ UNCHANGED inFlight
     ELSE End(r)
  /\ UNCHANGED <<row, tx, chain, charged>>

(* The catch of settleGivenVerdict: anything from the submission to the    *)
(* receipt may have thrown.  txHash is then null, so no fee is captured.   *)
SettleThrows(r) ==
  /\ request[r].at \in {"submit", "settled", "receipt"}
  /\ GoTo(r, "failed")
  /\ UNCHANGED <<row, inFlight, tx, chain, charged>>

(* Mutant: a verdict that was rendered is billed, settled or not.          *)
BillRendered(r) ==
  /\ At(r, "failed")
  /\ UNCHANGED row
  /\ IF KindOf[r] = "verdict" /\ request[r].label \in Billable
     THEN GoTo(r, "capture") /\ UNCHANGED inFlight
     ELSE End(r)
  /\ UNCHANGED <<tx, chain, charged>>

RecordSettleFailed(r) ==
  /\ At(r, "failed")
  /\ LET w == WorkOf[r]
     IN \/ row' = IF row[w].status \in {"none", "settled"} THEN row
                  ELSE [row EXCEPT ![w].status = "settle_failed"]
        \/ UNCHANGED row  \* the write failed and was caught
  /\ End(r)
  /\ UNCHANGED <<tx, chain, charged>>

CaptureVerdictFee(r) ==
  /\ At(r, "capture")
  /\ charged' \in {charged, charged \cup {r}}  \* the gateway may refuse
  /\ End(r)
  /\ UNCHANGED <<row, tx, chain>>

(* Outside settleGivenVerdict an exception ends the request where it is,   *)
(* and a restart ends all of them and forgets what was in flight.          *)
Throw(r) ==
  /\ request[r].at \in {"exists", "claim", "check", "send", "load", "fund", "record", "judge"}
  /\ End(r)
  /\ UNCHANGED <<row, tx, chain, charged>>

Restart ==
  /\ \E r \in Requests : request[r].at \notin {"new", "done"}
  /\ request' = [r \in Requests |->
       IF At(r, "new") THEN request[r] ELSE [request[r] EXCEPT !.at = "done"]]
  /\ inFlight' = {}
  /\ UNCHANGED <<row, tx, chain, charged>>
------------------------------------------------------------------------------
(* The escrow (see VerdiktEscrow): others may fund it and the payer may    *)
(* take an overdue one back; a settlement lands while it is FUNDED.        *)
PayerFunds(w) ==
  /\ Funds(w)
  /\ UNCHANGED <<request, row, inFlight, tx, charged>>

RefundExpired(w) ==
  /\ chain[w].status = "FUNDED"
  /\ chain' = [chain EXCEPT ![w].status = "SETTLED", ![w].outcome = "expired"]
  /\ UNCHANGED <<request, row, inFlight, tx, charged>>

Land(r) ==
  /\ tx[r] = "pending" /\ chain[WorkOf[r]].status = "FUNDED"
  /\ chain' = [chain EXCEPT ![WorkOf[r]] =
       [status |-> "SETTLED", outcome |-> request[r].label, settledBy |-> r]]
  /\ tx' = [tx EXCEPT ![r] = "ok"]
  /\ UNCHANGED <<request, row, inFlight, charged>>

Fail(r) ==
  /\ tx[r] = "pending"
  /\ tx' = [tx EXCEPT ![r] = "failed"]
  /\ UNCHANGED <<request, row, inFlight, chain, charged>>

Step(r) ==
  \/ Arrive(r) \/ EscrowRowExists(r) \/ ReadEscrowOnChain(r) \/ Reconcile(r) \/ ClaimForJudging(r)
  \/ CheckEscrow(r) \/ LoadTask(r) \/ FundEscrow(r) \/ RecordFunding(r)
  \/ ComputeVerdict(r) \/ SettleVerdict(r) \/ Confirmed(r) \/ RecordSettled(r) \/ Receipt(r)
  \/ SettleThrows(r) \/ RecordSettleFailed(r) \/ CaptureVerdictFee(r) \/ Throw(r)

Next ==
  \/ \E r \in Requests : Step(r) \/ Land(r) \/ Fail(r)
  \/ \E w \in Works : PayerFunds(w) \/ RefundExpired(w)
  \/ Restart

Spec == Init /\ [][Next]_vars
------------------------------------------------------------------------------
TypeOK ==
  /\ request \in [Requests -> [at : Steps, label : Outcomes \cup {"none"}]]
  /\ row \in [Works -> [status : {"none", "funded", "judging", "settled", "settle_failed"},
                        outcome : Outcomes \cup {"none"}, settledBy : Requests \cup {Nobody}]]
  /\ inFlight \subseteq {"demo", "try"} \X Works
  /\ tx \in [Requests -> {"none", "pending", "ok", "failed"}]
  /\ chain \in [Works -> [status : {"EMPTY", "FUNDED", "SETTLED"},
                          outcome : Outcomes \cup {"none", "expired"},
                          settledBy : Requests \cup {Nobody}]]
  /\ charged \subseteq Requests

(* "The only money Verdikt earns is the per-verdict fee, and only on a     *)
(* rendered verdict" (README.md:84): whoever was charged for a verdict has *)
(* it settled on chain, by the transaction of that very call and with the  *)
(* outcome it computed; so no work is ever charged for twice, and no call  *)
(* that lost the race to another, a refund or an abstain pays.             *)
ChargedForASettledVerdict ==
  \A r \in charged :
    LET escrow == chain[WorkOf[r]]
    IN /\ escrow.status = "SETTLED" /\ escrow.settledBy = r
       /\ escrow.outcome = request[r].label /\ escrow.outcome \in Billable

(* The row follows the chain: there is none before the escrow is funded,   *)
(* and one that says settled names the transaction and the outcome that    *)
(* closed the escrow, whichever of the racing paths wrote it and whatever  *)
(* was written late (db.ts:142-154).                                       *)
RowFollowsTheChain ==
  \A w \in Works :
    /\ row[w].status # "none" => chain[w].status # "EMPTY"
    /\ row[w].status = "settled" =>
         /\ chain[w].status = "SETTLED"
         /\ <<row[w].outcome, row[w].settledBy>> = <<chain[w].outcome, chain[w].settledBy>>

(* The comment on the lock (routes/verdict.ts:66-67): "only a FUNDED       *)
(* escrow can transition to 'judging', exactly once".                      *)
JudgedExactlyOnce ==
  [][\A r, s \in Requests :
       /\ r # s /\ KindOf[r] = "verdict" /\ KindOf[s] = "verdict" /\ WorkOf[r] = WorkOf[s]
       /\ At(r, "claim") /\ request'[r].at = "judge"
       => request[s].label = "none"]_vars
=============================================================================
