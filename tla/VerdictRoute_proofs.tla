------------------------- MODULE VerdictRoute_proofs -------------------------
(***************************************************************************)
(* What the synchronous routes guarantee for any number of requests and    *)
(* works, in every interleaving, checked by TLAPS.                         *)
(***************************************************************************)
EXTENDS VerdictRoute, TLAPS

(* Before a request submits, and after its settlement is confirmed.        *)
Early == {"new", "exists", "reconcile", "write", "claim", "check", "send", "load", "fund",
          "record", "judge", "submit"}
Late == {"settled", "receipt", "capture"}

SettledBy(r) ==
  LET escrow == chain[WorkOf[r]]
  IN escrow.status = "SETTLED" /\ escrow.settledBy = r /\ escrow.outcome = request[r].label

(* What is known of a request, wherever the others are.                    *)
RequestInv(r) ==
  /\ request[r].at \in Early => tx[r] = "none"
  /\ request[r].at \in Late => tx[r] = "ok"
  /\ request[r].at = "load" => KindOf[r] \in {"demo", "try"}
  /\ request[r].at = "capture" => request[r].label \in Billable
  /\ request[r].at \in {"write", "record"} => chain[WorkOf[r]].status # "EMPTY"
  /\ tx[r] = "ok" => SettledBy(r)
  /\ r \in charged => tx[r] = "ok" /\ request[r].label \in Billable /\ request[r].at = "done"

(* The inductive invariant.  A charge is for a settlement because only a   *)
(* confirmed transaction leads there, and a transaction that was executed  *)
(* is the one that closed the escrow.                                      *)
RouteInv ==
  /\ TypeOK
  /\ \A r \in Requests : RequestInv(r)
  /\ RowFollowsTheChain
------------------------------------------------------------------------------
(* An escrow is closed once, and not emptied.                              *)
ChainGrows ==
  \A w \in Works : \/ chain'[w] = chain[w]
                   \/ chain[w].status # "SETTLED" /\ chain'[w].status # "EMPTY"

(* What is known of a request outlives the steps of the others.            *)
LEMMA OthersLemma ==
  ASSUME RouteInv, ChainGrows, NEW s \in Requests,
         request'[s] = request[s], tx'[s] = tx[s], s \in charged' <=> s \in charged
  PROVE  RequestInv(s)'
  <1>1. RequestInv(s) /\ WorkOf[s] \in Works  BY RouteAssumption DEF RouteInv
  <1>2. \/ chain'[WorkOf[s]] = chain[WorkOf[s]]
        \/ chain[WorkOf[s]].status # "SETTLED" /\ chain'[WorkOf[s]].status # "EMPTY"
    BY <1>1 DEF ChainGrows
  <1>3. tx[s] = "ok" => chain'[WorkOf[s]] = chain[WorkOf[s]] /\ SettledBy(s)
    BY <1>1, <1>2 DEF RequestInv, SettledBy
  <1>4. tx'[s] = "ok" => SettledBy(s)'  BY <1>3 DEF SettledBy
  <1>5. request'[s].at \in {"write", "record"} => chain'[WorkOf[s]].status # "EMPTY"
    BY <1>1, <1>2 DEF RequestInv
  <1> QED  BY <1>1, <1>4, <1>5 DEF RequestInv

(* The row outlives the steps of the chain.                                *)
LEMMA RowLemma ==
  ASSUME RouteInv, ChainGrows, UNCHANGED row
  PROVE  RowFollowsTheChain'
  BY DEF RouteInv, ChainGrows, RowFollowsTheChain

(* A request that goes from one await to the next, and may write the row.  *)
LEMMA MovedLemma ==
  ASSUME RouteInv, NEW r \in Requests, NEW step \in Steps, UNCHANGED <<tx, chain, charged>>,
         ~At(r, "done"), GoTo(r, step),
         inFlight' \subseteq {"demo", "try"} \X Works,
         row' \in [Works -> [status : {"none", "funded", "judging", "settled", "settle_failed"},
                             outcome : Outcomes \cup {"none"}, settledBy : Requests \cup {Nobody}]],
         RowFollowsTheChain',
         step \in Early => tx[r] = "none",
         step \in Late => tx[r] = "ok",
         step = "load" => KindOf[r] \in {"demo", "try"},
         step = "capture" => request[r].label \in Billable,
         step \in {"write", "record"} => chain[WorkOf[r]].status # "EMPTY"
  PROVE  RouteInv'
  <1>1. request' = [request EXCEPT ![r].at = step]  BY DEF GoTo
  <1>2. request \in [Requests -> [at : Steps, label : Outcomes \cup {"none"}]]
    BY DEF RouteInv, TypeOK
  <1>3. request'[r].at = step /\ request'[r].label = request[r].label  BY <1>1, <1>2
  <1>4. TypeOK'  BY <1>1, <1>2 DEF RouteInv, TypeOK
  <1>5. ChainGrows  BY DEF ChainGrows
  <1>6. RequestInv(r) /\ r \notin charged  BY DEF RouteInv, RequestInv, At
  <1>7. RequestInv(r)'
    <2>1. tx'[r] = "ok" => SettledBy(r)'  BY <1>3, <1>6 DEF RequestInv, SettledBy
    <2> QED  BY <1>3, <1>6, <2>1 DEF RequestInv
  <1>8. \A s \in Requests \ {r} : RequestInv(s)'
    <2> SUFFICES ASSUME NEW s \in Requests \ {r} PROVE RequestInv(s)'  OBVIOUS
    <2>1. request'[s] = request[s]  BY <1>1, <1>2
    <2> QED  BY <1>5, <2>1, OthersLemma
  <1> QED  BY <1>4, <1>7, <1>8 DEF RouteInv

(* The same when the row is left alone.                                    *)
LEMMA WalkedLemma ==
  ASSUME RouteInv, NEW r \in Requests, NEW step \in Steps, UNCHANGED <<row, tx, chain, charged>>,
         ~At(r, "done"), GoTo(r, step),
         inFlight' \subseteq {"demo", "try"} \X Works,
         step \in Early => tx[r] = "none",
         step \in Late => tx[r] = "ok",
         step = "load" => KindOf[r] \in {"demo", "try"},
         step = "capture" => request[r].label \in Billable,
         step \in {"write", "record"} => chain[WorkOf[r]].status # "EMPTY"
  PROVE  RouteInv'
  <1>1. RowFollowsTheChain'  BY RowLemma DEF ChainGrows
  <1> QED  BY <1>1, MovedLemma DEF RouteInv, TypeOK

(* The end of a request.                                                   *)
LEMMA EndLemma ==
  ASSUME RouteInv, NEW r \in Requests, End(r)
  PROVE  GoTo(r, "done") /\ inFlight' \subseteq {"demo", "try"} \X Works
  BY DEF RouteInv, TypeOK, End
------------------------------------------------------------------------------
(* The steps that only go on, or end.                                      *)
LEMMA WalkingLemma ==
  ASSUME RouteInv, NEW r \in Requests,
         \/ Arrive(r) \/ EscrowRowExists(r) \/ ReadEscrowOnChain(r) \/ CheckEscrow(r)
         \/ LoadTask(r) \/ Confirmed(r) \/ Receipt(r) \/ SettleThrows(r) \/ Throw(r)
  PROVE  RouteInv'
  <1>1. RequestInv(r) /\ inFlight \subseteq {"demo", "try"} \X Works /\ WorkOf[r] \in Works
    BY RouteAssumption DEF RouteInv, TypeOK
  <1>2. KindOf[r] \in Kinds  BY RouteAssumption
  <1>3. "done" \in Steps /\ "done" \notin Early /\ "done" \notin Late  BY DEF Steps, Early, Late
  <1>4. CASE Arrive(r)
    <2>1. PICK step \in {"exists", "check", "done", "load"} :
            GoTo(r, step) /\ (step = "load" => KindOf[r] \in {"demo", "try"})
      BY <1>2, <1>4 DEF Arrive, Kinds
    <2>2. At(r, "new") /\ UNCHANGED <<row, inFlight, tx, chain, charged>>  BY <1>4 DEF Arrive
    <2>3. tx[r] = "none"  BY <1>1, <2>2 DEF At, RequestInv, Early
    <2> QED  BY <1>1, <2>1, <2>2, <2>3, WalkedLemma DEF At, Steps, Early, Late
  <1>5. CASE EscrowRowExists(r)
    <2>1. PICK step \in {"reconcile", "claim"} : GoTo(r, step)  BY <1>5 DEF EscrowRowExists
    <2>2. At(r, "exists") /\ UNCHANGED <<row, inFlight, tx, chain, charged>>
      BY <1>5 DEF EscrowRowExists
    <2>3. tx[r] = "none"  BY <1>1, <2>2 DEF At, RequestInv, Early
    <2> QED  BY <1>1, <2>1, <2>2, <2>3, WalkedLemma DEF At, Steps, Early, Late
  <1>6. CASE ReadEscrowOnChain(r)
    <2>1. PICK step \in {"write", "claim"} :
            GoTo(r, step) /\ (step = "write" => chain[WorkOf[r]].status = "FUNDED")
      BY <1>6 DEF ReadEscrowOnChain
    <2>2. At(r, "reconcile") /\ UNCHANGED <<row, inFlight, tx, chain, charged>>
      BY <1>6 DEF ReadEscrowOnChain
    <2>3. tx[r] = "none"  BY <1>1, <2>2 DEF At, RequestInv, Early
    <2> QED  BY <1>1, <2>1, <2>2, <2>3, WalkedLemma DEF At, Steps, Early, Late
  <1>7. CASE CheckEscrow(r)
    <2>1. PICK step \in {"send", "done"} : GoTo(r, step)  BY <1>7 DEF CheckEscrow
    <2>2. At(r, "check") /\ UNCHANGED <<row, inFlight, tx, chain, charged>>
      BY <1>7 DEF CheckEscrow
    <2>3. tx[r] = "none"  BY <1>1, <2>2 DEF At, RequestInv, Early
    <2> QED  BY <1>1, <2>1, <2>2, <2>3, WalkedLemma DEF At, Steps, Early, Late
  <1>8. CASE LoadTask(r)
    <2>1. At(r, "load") /\ GoTo(r, "fund") /\ UNCHANGED <<row, tx, chain, charged>>
      BY <1>8 DEF LoadTask
    <2>2. tx[r] = "none" /\ KindOf[r] \in {"demo", "try"}
      BY <1>1, <2>1 DEF At, RequestInv, Early
    <2>3. inFlight' \subseteq {"demo", "try"} \X Works  BY <1>1, <1>8, <2>2 DEF LoadTask, Tag
    <2>4. "fund" \in Steps /\ "fund" \notin Late  BY DEF Steps, Late
    <2> QED  BY <2>1, <2>2, <2>3, <2>4, WalkedLemma DEF At
  <1>9. CASE Confirmed(r)
    <2>1. PICK step \in {"settled", "failed"} : GoTo(r, step) /\ (step = "settled" => tx[r] = "ok")
      BY <1>9 DEF Confirmed
    <2>2. At(r, "confirm") /\ UNCHANGED <<row, inFlight, tx, chain, charged>>
      BY <1>9 DEF Confirmed
    <2> QED  BY <1>1, <2>1, <2>2, WalkedLemma DEF At, Steps, Early, Late
  <1>10. CASE Receipt(r)
    <2>1. At(r, "receipt") /\ UNCHANGED <<row, tx, chain, charged>>  BY <1>10 DEF Receipt
    <2>2. tx[r] = "ok"  BY <1>1, <2>1 DEF At, RequestInv, Late
    <2>3. CASE End(r)  BY <1>3, <2>1, <2>3, EndLemma, WalkedLemma DEF At
    <2>4. CASE GoTo(r, "capture") /\ UNCHANGED inFlight /\ request[r].label \in Billable
      BY <1>1, <2>1, <2>2, <2>4, WalkedLemma DEF At, Steps, Early, Late
    <2> QED  BY <1>10, <2>3, <2>4 DEF Receipt
  <1>11. CASE SettleThrows(r)
    <2>1. /\ request[r].at \in {"submit", "settled", "receipt"} /\ GoTo(r, "failed")
          /\ UNCHANGED <<row, inFlight, tx, chain, charged>>
      BY <1>11 DEF SettleThrows
    <2> QED  BY <1>1, <2>1, WalkedLemma DEF At, Steps, Early, Late
  <1>12. CASE Throw(r)
    <2>1. ~At(r, "done") /\ End(r) /\ UNCHANGED <<row, tx, chain, charged>>
      BY <1>12 DEF Throw, At
    <2> QED  BY <1>3, <2>1, EndLemma, WalkedLemma
  <1> QED  BY <1>4, <1>5, <1>6, <1>7, <1>8, <1>9, <1>10, <1>11, <1>12

(* A row that is written as funded over an escrow that is not empty.       *)
LEMMA RecordFundedLemma ==
  ASSUME RouteInv, NEW w \in Works, RecordFunded(w), UNCHANGED chain, chain[w].status # "EMPTY"
  PROVE  /\ RowFollowsTheChain'
         /\ row' \in [Works -> [status : {"none", "funded", "judging", "settled", "settle_failed"},
                                outcome : Outcomes \cup {"none"},
                                settledBy : Requests \cup {Nobody}]]
  <1>1. row' = [row EXCEPT ![w].status = "funded"]  BY DEF RecordFunded
  <1>2. row \in [Works -> [status : {"none", "funded", "judging", "settled", "settle_failed"},
                           outcome : Outcomes \cup {"none"},
                           settledBy : Requests \cup {Nobody}]]
    BY DEF RouteInv, TypeOK
  <1>3. row'[w].status = "funded" /\ \A x \in Works \ {w} : row'[x] = row[x]  BY <1>1, <1>2
  <1>4. RowFollowsTheChain'  BY <1>3 DEF RouteInv, RowFollowsTheChain
  <1> QED  BY <1>1, <1>2, <1>4

(* The steps that write the row.                                           *)
LEMMA WritingLemma ==
  ASSUME RouteInv, NEW r \in Requests,
         \/ Reconcile(r) \/ ClaimForJudging(r) \/ RecordFunding(r) \/ RecordSettled(r)
         \/ RecordSettleFailed(r)
  PROVE  RouteInv'
  <1> DEFINE Rows == [Works -> [status : {"none", "funded", "judging", "settled", "settle_failed"},
                                outcome : Outcomes \cup {"none"},
                                settledBy : Requests \cup {Nobody}]]
             w == WorkOf[r]
  <1>1. /\ RequestInv(r) /\ inFlight \subseteq {"demo", "try"} \X Works /\ w \in Works
        /\ row \in Rows /\ request[r].label \in Outcomes \cup {"none"} /\ RowFollowsTheChain
    BY RouteAssumption DEF RouteInv, TypeOK
  <1>2. "done" \in Steps /\ "done" \notin Early /\ "done" \notin Late  BY DEF Steps, Early, Late
  <1>3. UNCHANGED <<row, chain>> => row' \in Rows /\ RowFollowsTheChain'
    BY <1>1 DEF RowFollowsTheChain
  <1>4. CASE Reconcile(r)
    <2>1. /\ At(r, "write") /\ GoTo(r, "claim") /\ UNCHANGED <<inFlight, tx, chain, charged>>
          /\ RecordFunded(w) \/ UNCHANGED row
      BY <1>4 DEF Reconcile
    <2>2. tx[r] = "none" /\ chain[w].status # "EMPTY"  BY <1>1, <2>1 DEF At, RequestInv, Early
    <2>3. row' \in Rows /\ RowFollowsTheChain'  BY <1>1, <1>3, <2>1, <2>2, RecordFundedLemma
    <2> HIDE DEF Rows
    <2>4. row' \in [Works -> [status : {"none", "funded", "judging", "settled", "settle_failed"},
                              outcome : Outcomes \cup {"none"},
                              settledBy : Requests \cup {Nobody}]]
      BY <2>3 DEF Rows
    <2> QED  BY <1>1, <2>1, <2>2, <2>3, <2>4, MovedLemma DEF At, Steps, Late
  <1>5. CASE ClaimForJudging(r)
    <2>1. At(r, "claim") /\ UNCHANGED <<inFlight, tx, chain, charged>>
      BY <1>5 DEF ClaimForJudging
    <2>2. tx[r] = "none"  BY <1>1, <2>1 DEF At, RequestInv, Early
    <2>3. CASE row[w].status # "funded"
      <3>1. GoTo(r, "done") /\ UNCHANGED row  BY <1>5, <2>3 DEF ClaimForJudging
      <3> QED  BY <1>1, <1>2, <2>1, <3>1, WalkedLemma DEF At
    <2>4. CASE row[w].status = "funded"
      <3>1. GoTo(r, "judge") /\ row' = [row EXCEPT ![w].status = "judging"]
        BY <1>5, <2>4 DEF ClaimForJudging
      <3>2. row' \in Rows  BY <1>1, <3>1
      <3>3. row'[w].status = "judging" /\ \A x \in Works \ {w} : row'[x] = row[x]
        BY <1>1, <3>1
      <3>4. RowFollowsTheChain'  BY <1>1, <2>1, <2>4, <3>3 DEF RowFollowsTheChain
      <3> QED  BY <1>1, <2>1, <2>2, <3>1, <3>2, <3>4, MovedLemma DEF At, Steps, Late
    <2> QED  BY <2>3, <2>4
  <1>6. CASE RecordFunding(r)
    <2>1. At(r, "record") /\ RecordFunded(w) /\ UNCHANGED <<tx, chain, charged>>
      BY <1>6 DEF RecordFunding
    <2>2. tx[r] = "none" /\ chain[w].status # "EMPTY"  BY <1>1, <2>1 DEF At, RequestInv, Early
    <2>3. row' \in Rows /\ RowFollowsTheChain'  BY <1>1, <2>1, <2>2, RecordFundedLemma
    <2>4. CASE End(r)  BY <1>2, <2>1, <2>3, <2>4, EndLemma, MovedLemma DEF At
    <2>5. CASE GoTo(r, "judge") /\ UNCHANGED inFlight
      BY <1>1, <2>1, <2>2, <2>3, <2>5, MovedLemma DEF At, Steps, Late
    <2> QED  BY <1>6, <2>4, <2>5 DEF RecordFunding
  <1>7. CASE RecordSettled(r)
    <2>1. /\ At(r, "settled") /\ GoTo(r, "receipt") /\ UNCHANGED <<inFlight, tx, chain, charged>>
          /\ row' = IF row[w].status = "none" THEN row
                    ELSE [row EXCEPT ![w] = [status |-> "settled", outcome |-> request[r].label,
                                             settledBy |-> r]]
      BY <1>7 DEF RecordSettled
    <2>2. tx[r] = "ok"  BY <1>1, <2>1 DEF At, RequestInv, Late
    <2>3. SettledBy(r)  BY <1>1, <2>2 DEF RequestInv
    <2>4. row' \in Rows /\ RowFollowsTheChain'
      <3>1. CASE row[w].status = "none"  BY <1>3, <2>1, <3>1
      <3>2. CASE row[w].status # "none"
        <4>1. /\ row'[w] = [status |-> "settled", outcome |-> request[r].label, settledBy |-> r]
              /\ \A x \in Works \ {w} : row'[x] = row[x]
          BY <1>1, <2>1, <3>2
        <4>2. row' \in Rows  BY <1>1, <2>1, <3>2
        <4> QED  BY <1>1, <2>1, <2>3, <4>1, <4>2 DEF RowFollowsTheChain, SettledBy
      <3> QED  BY <3>1, <3>2
    <2> QED  BY <1>1, <2>1, <2>2, <2>4, MovedLemma DEF At, Steps, Early
  <1>8. CASE RecordSettleFailed(r)
    <2>1. At(r, "failed") /\ End(r) /\ UNCHANGED <<tx, chain, charged>>
      BY <1>8 DEF RecordSettleFailed
    <2>2. row' \in Rows /\ RowFollowsTheChain'
      <3>1. CASE UNCHANGED row  BY <1>3, <2>1, <3>1
      <3>2. CASE row[w].status \notin {"none", "settled"}
                 /\ row' = [row EXCEPT ![w].status = "settle_failed"]
        <4>1. row'[w].status = "settle_failed" /\ \A x \in Works \ {w} : row'[x] = row[x]
          BY <1>1, <3>2
        <4>2. row' \in Rows  BY <1>1, <3>2
        <4> QED  BY <1>1, <2>1, <3>2, <4>1, <4>2 DEF RowFollowsTheChain
      <3> QED  BY <1>8, <3>1, <3>2 DEF RecordSettleFailed
    <2> QED  BY <1>2, <2>1, <2>2, EndLemma, MovedLemma DEF At
  <1> QED  BY <1>4, <1>5, <1>6, <1>7, <1>8
------------------------------------------------------------------------------
(* The steps of the judgement, and the capture of its fee.                 *)
LEMMA JudgingLemma ==
  ASSUME RouteInv, NEW r \in Requests, ComputeVerdict(r) \/ SettleVerdict(r) \/ CaptureVerdictFee(r)
  PROVE  RouteInv'
  <1>1. /\ RequestInv(r) /\ UNCHANGED <<row, chain>> /\ tx[r] \in {"none", "pending", "ok", "failed"}
        /\ request \in [Requests -> [at : Steps, label : Outcomes \cup {"none"}]]
        /\ tx \in [Requests -> {"none", "pending", "ok", "failed"}] /\ charged \subseteq Requests
    BY DEF RouteInv, TypeOK, ComputeVerdict, SettleVerdict, CaptureVerdictFee
  <1>2. ChainGrows /\ RowFollowsTheChain'  BY <1>1, RowLemma DEF ChainGrows
  <1>3. CASE ComputeVerdict(r)
    <2>1. PICK label \in Labels[r] : request' = [request EXCEPT ![r] = [at |-> "submit", label |-> label]]
      BY <1>3 DEF ComputeVerdict
    <2>2. label \in Outcomes /\ "submit" \in Steps  BY RouteAssumption DEF Steps
    <2>3. At(r, "judge") /\ UNCHANGED <<row, inFlight, tx, chain, charged>>
      BY <1>3 DEF ComputeVerdict
    <2>4. tx[r] = "none" /\ r \notin charged  BY <1>1, <2>3 DEF At, RequestInv, Early
    <2>5. TypeOK'  BY <1>1, <2>1, <2>2, <2>3 DEF RouteInv, TypeOK
    <2>6. request'[r].at = "submit"  BY <1>1, <2>1
    <2>7. RequestInv(r)'  BY <2>3, <2>4, <2>6 DEF RequestInv, Late
    <2>8. \A s \in Requests \ {r} : RequestInv(s)'
      <3> SUFFICES ASSUME NEW s \in Requests \ {r} PROVE RequestInv(s)'  OBVIOUS
      <3>1. request'[s] = request[s]  BY <1>1, <2>1
      <3> QED  BY <1>2, <2>3, <3>1, OthersLemma
    <2> QED  BY <1>2, <2>5, <2>7, <2>8 DEF RouteInv
  <1>4. CASE SettleVerdict(r)
    <2>1. /\ At(r, "submit") /\ request' = [request EXCEPT ![r].at = "confirm"]
          /\ tx' = [tx EXCEPT ![r] = "pending"] /\ UNCHANGED <<row, inFlight, chain, charged>>
      BY <1>4 DEF SettleVerdict, GoTo
    <2>2. "confirm" \in Steps /\ r \notin charged  BY <1>1, <2>1 DEF At, RequestInv, Steps
    <2>3. TypeOK'  BY <1>1, <2>1, <2>2 DEF RouteInv, TypeOK
    <2>4. request'[r].at = "confirm" /\ tx'[r] = "pending"  BY <1>1, <2>1
    <2>5. RequestInv(r)'  BY <2>1, <2>2, <2>4 DEF RequestInv, Early, Late
    <2>6. \A s \in Requests \ {r} : RequestInv(s)'
      <3> SUFFICES ASSUME NEW s \in Requests \ {r} PROVE RequestInv(s)'  OBVIOUS
      <3>1. request'[s] = request[s] /\ tx'[s] = tx[s]  BY <1>1, <2>1
      <3> QED  BY <1>2, <2>1, <3>1, OthersLemma
    <2> QED  BY <1>2, <2>3, <2>5, <2>6 DEF RouteInv
  <1>5. CASE CaptureVerdictFee(r)
    <2>1. /\ At(r, "capture") /\ request' = [request EXCEPT ![r].at = "done"]
          /\ charged' \in {charged, charged \cup {r}} /\ UNCHANGED <<row, tx, chain>>
      BY <1>5 DEF CaptureVerdictFee, End, GoTo
    <2>2. inFlight' \subseteq {"demo", "try"} \X Works
      BY <1>5, EndLemma DEF CaptureVerdictFee
    <2>3. "done" \in Steps /\ "done" \notin Early /\ "done" \notin Late
      BY DEF Steps, Early, Late
    <2>4. tx[r] = "ok" /\ request[r].label \in Billable  BY <1>1, <2>1 DEF At, RequestInv, Late
    <2>5. TypeOK'  BY <1>1, <2>1, <2>2, <2>3 DEF RouteInv, TypeOK
    <2>6. request'[r].at = "done" /\ request'[r].label = request[r].label  BY <1>1, <2>1
    <2>7. SettledBy(r)'  BY <1>1, <2>1, <2>4, <2>6 DEF RequestInv, SettledBy
    <2>8. RequestInv(r)'  BY <2>1, <2>3, <2>4, <2>6, <2>7 DEF RequestInv
    <2>9. \A s \in Requests \ {r} : RequestInv(s)'
      <3> SUFFICES ASSUME NEW s \in Requests \ {r} PROVE RequestInv(s)'  OBVIOUS
      <3>1. request'[s] = request[s] /\ (s \in charged' <=> s \in charged)  BY <1>1, <2>1
      <3> QED  BY <1>2, <2>1, <3>1, OthersLemma
    <2> QED  BY <1>2, <2>5, <2>8, <2>9 DEF RouteInv
  <1> QED  BY <1>3, <1>4, <1>5

(* The steps of the chain.                                                 *)
LEMMA FundsLemma ==
  ASSUME RouteInv, NEW w \in Works, Funds(w)
  PROVE  /\ ChainGrows /\ chain'[w].status = "FUNDED"
         /\ chain' \in [Works -> [status : {"EMPTY", "FUNDED", "SETTLED"},
                                  outcome : Outcomes \cup {"none", "expired"},
                                  settledBy : Requests \cup {Nobody}]]
  <1>1. chain \in [Works -> [status : {"EMPTY", "FUNDED", "SETTLED"},
                             outcome : Outcomes \cup {"none", "expired"},
                             settledBy : Requests \cup {Nobody}]]
    BY DEF RouteInv, TypeOK
  <1>2. chain[w].status = "EMPTY" /\ chain' = [chain EXCEPT ![w].status = "FUNDED"]  BY DEF Funds
  <1>3. chain'[w].status = "FUNDED" /\ \A x \in Works \ {w} : chain'[x] = chain[x]  BY <1>1, <1>2
  <1>4. ChainGrows  BY <1>2, <1>3 DEF ChainGrows
  <1> QED  BY <1>1, <1>2, <1>3, <1>4

LEMMA ChainLemma ==
  ASSUME RouteInv,
         \/ \E r \in Requests : FundEscrow(r) \/ Land(r) \/ Fail(r)
         \/ \E w \in Works : PayerFunds(w) \/ RefundExpired(w)
  PROVE  RouteInv'
  <1> DEFINE Chains == [Works -> [status : {"EMPTY", "FUNDED", "SETTLED"},
                                  outcome : Outcomes \cup {"none", "expired"},
                                  settledBy : Requests \cup {Nobody}]]
  <1>1. /\ request \in [Requests -> [at : Steps, label : Outcomes \cup {"none"}]]
        /\ tx \in [Requests -> {"none", "pending", "ok", "failed"}] /\ chain \in Chains
    BY DEF RouteInv, TypeOK
  <1>2. ASSUME NEW r \in Requests, FundEscrow(r)  PROVE RouteInv'
    <2>1. /\ request[r].at \in Early /\ Funds(WorkOf[r]) /\ request' = [request EXCEPT ![r].at = "record"]
          /\ UNCHANGED <<row, inFlight, tx, charged>>
      BY <1>2 DEF FundEscrow, At, GoTo, Early
    <2>2. tx[r] = "none" /\ r \notin charged  BY <2>1 DEF RouteInv, RequestInv, Early
    <2>3. WorkOf[r] \in Works  BY RouteAssumption
    <2>4. ChainGrows /\ chain'[WorkOf[r]].status = "FUNDED" /\ chain' \in Chains
      BY <2>1, <2>3, FundsLemma
    <2>5. TypeOK'
      <3>1. "record" \in Steps  BY DEF Steps
      <3> QED  BY <1>1, <2>1, <2>4, <3>1 DEF RouteInv, TypeOK
    <2>6. request'[r].at = "record"  BY <1>1, <2>1
    <2>7. RequestInv(r)'  BY <2>1, <2>2, <2>4, <2>6 DEF RequestInv, Late
    <2>8. \A s \in Requests \ {r} : RequestInv(s)'
      <3> SUFFICES ASSUME NEW s \in Requests \ {r} PROVE RequestInv(s)'  OBVIOUS
      <3>1. request'[s] = request[s]  BY <1>1, <2>1
      <3> QED  BY <2>1, <2>4, <3>1, OthersLemma
    <2>9. RowFollowsTheChain'  BY <2>1, <2>4, RowLemma
    <2> QED  BY <2>5, <2>7, <2>8, <2>9 DEF RouteInv
  <1>3. ASSUME NEW r \in Requests, Land(r)  PROVE RouteInv'
    <2> DEFINE w == WorkOf[r]
    <2>1. /\ tx[r] = "pending" /\ chain[w].status = "FUNDED" /\ tx' = [tx EXCEPT ![r] = "ok"]
          /\ chain' = [chain EXCEPT ![w] = [status |-> "SETTLED", outcome |-> request[r].label,
                                            settledBy |-> r]]
          /\ UNCHANGED <<request, row, inFlight, charged>>
      BY <1>3 DEF Land
    <2>2. w \in Works  BY RouteAssumption
    <2>3. request[r].label \in Outcomes \cup {"none"}  BY <1>1
    <2>4. /\ chain'[w] = [status |-> "SETTLED", outcome |-> request[r].label, settledBy |-> r]
          /\ \A x \in Works \ {w} : chain'[x] = chain[x]
      BY <1>1, <2>1, <2>2
    <2>5. chain' \in Chains  BY <1>1, <2>1, <2>2, <2>3
    <2>6. tx' \in [Requests -> {"none", "pending", "ok", "failed"}] /\ tx'[r] = "ok"
      BY <1>1, <2>1
    <2>7. TypeOK'  BY <2>1, <2>5, <2>6 DEF RouteInv, TypeOK
    <2>8. ChainGrows  BY <2>1, <2>4 DEF ChainGrows
    <2>9. RowFollowsTheChain'  BY <2>1, <2>8, RowLemma
    <2>10. RequestInv(r)'
      <3>1. RequestInv(r)  BY DEF RouteInv
      <3>2. request[r].at \notin Early /\ request[r].at \notin Late /\ r \notin charged
        BY <2>1, <3>1 DEF RequestInv
      <3>3. request[r].at \notin {"load", "capture", "write", "record"}
        BY <3>2 DEF Early, Late
      <3>4. SettledBy(r)'  BY <2>1, <2>4 DEF SettledBy
      <3> QED  BY <2>1, <3>2, <3>3, <3>4 DEF RequestInv
    <2>11. \A s \in Requests \ {r} : RequestInv(s)'
      <3> SUFFICES ASSUME NEW s \in Requests \ {r} PROVE RequestInv(s)'  OBVIOUS
      <3>1. tx'[s] = tx[s]  BY <1>1, <2>1
      <3> QED  BY <2>1, <2>8, <3>1, OthersLemma
    <2> QED  BY <2>7, <2>9, <2>10, <2>11 DEF RouteInv
  <1>4. ASSUME NEW r \in Requests, Fail(r)  PROVE RouteInv'
    <2>1. /\ tx[r] = "pending" /\ tx' = [tx EXCEPT ![r] = "failed"]
          /\ UNCHANGED <<request, row, inFlight, chain, charged>>
      BY <1>4 DEF Fail
    <2>2. tx' \in [Requests -> {"none", "pending", "ok", "failed"}] /\ tx'[r] = "failed"
      BY <1>1, <2>1
    <2>3. TypeOK'  BY <2>1, <2>2 DEF RouteInv, TypeOK
    <2>4. ChainGrows  BY <2>1 DEF ChainGrows
    <2>5. RequestInv(r)'
      <3>1. RequestInv(r)  BY DEF RouteInv
      <3>2. request[r].at \notin Early /\ request[r].at \notin Late /\ r \notin charged
        BY <2>1, <3>1 DEF RequestInv
      <3>3. request[r].at \notin {"load", "capture", "write", "record"}
        BY <3>2 DEF Early, Late
      <3> QED  BY <2>1, <2>2, <3>2, <3>3 DEF RequestInv
    <2>6. \A s \in Requests \ {r} : RequestInv(s)'
      <3> SUFFICES ASSUME NEW s \in Requests \ {r} PROVE RequestInv(s)'  OBVIOUS
      <3>1. tx'[s] = tx[s]  BY <1>1, <2>1
      <3> QED  BY <2>1, <2>4, <3>1, OthersLemma
    <2> QED  BY <2>1, <2>3, <2>4, <2>5, <2>6, RowLemma DEF RouteInv
  <1>5. ASSUME NEW w \in Works, PayerFunds(w) \/ RefundExpired(w)  PROVE RouteInv'
    <2>1. UNCHANGED <<request, row, inFlight, tx, charged>>
      BY <1>5 DEF PayerFunds, RefundExpired
    <2>2. ChainGrows /\ chain' \in Chains
      <3>1. CASE PayerFunds(w)  BY <3>1, FundsLemma DEF PayerFunds
      <3>2. CASE RefundExpired(w)
        <4>1. /\ chain[w].status = "FUNDED"
              /\ chain' = [chain EXCEPT ![w].status = "SETTLED", ![w].outcome = "expired"]
          BY <3>2 DEF RefundExpired
        <4>2. chain'[w].status = "SETTLED" /\ \A x \in Works \ {w} : chain'[x] = chain[x]
          BY <1>1, <4>1
        <4>3. chain' \in Chains  BY <1>1, <4>1
        <4> QED  BY <4>1, <4>2, <4>3 DEF ChainGrows
      <3> QED  BY <1>5, <3>1, <3>2
    <2>3. TypeOK'  BY <2>1, <2>2 DEF RouteInv, TypeOK
    <2>4. \A s \in Requests : RequestInv(s)'  BY <2>1, <2>2, OthersLemma
    <2> QED  BY <2>1, <2>2, <2>3, <2>4, RowLemma DEF RouteInv
  <1> QED  BY <1>2, <1>3, <1>4, <1>5

(* A restart ends the requests, and a step elsewhere changes nothing.      *)
LEMMA RestartLemma ==
  ASSUME RouteInv, Restart
  PROVE  RouteInv'
  <1>1. /\ request' = [r \in Requests |->
             IF At(r, "new") THEN request[r] ELSE [request[r] EXCEPT !.at = "done"]]
        /\ inFlight' = {} /\ UNCHANGED <<row, tx, chain, charged>>
    BY DEF Restart
  <1>2. request \in [Requests -> [at : Steps, label : Outcomes \cup {"none"}]]
    BY DEF RouteInv, TypeOK
  <1>3. "done" \in Steps /\ "done" \notin Early /\ "done" \notin Late  BY DEF Steps, Early, Late
  <1>4. TypeOK'  BY <1>1, <1>2, <1>3 DEF RouteInv, TypeOK
  <1>5. ChainGrows  BY <1>1 DEF ChainGrows
  <1>6. ASSUME NEW r \in Requests  PROVE RequestInv(r)'
    <2>1. CASE At(r, "new")
      <3>1. request'[r] = request[r]  BY <1>1, <2>1
      <3> QED  BY <1>1, <1>5, <3>1, OthersLemma
    <2>2. CASE ~At(r, "new")
      <3>1. request'[r].at = "done" /\ request'[r].label = request[r].label
        BY <1>1, <1>2, <2>2
      <3>2. RequestInv(r)  BY DEF RouteInv
      <3>3. tx'[r] = "ok" => SettledBy(r)'  BY <1>1, <3>1, <3>2 DEF RequestInv, SettledBy
      <3> QED  BY <1>1, <1>3, <3>1, <3>2, <3>3 DEF RequestInv
    <2> QED  BY <2>1, <2>2
  <1> QED  BY <1>1, <1>4, <1>5, <1>6, RowLemma DEF RouteInv

LEMMA RouteInitLemma ==
  ASSUME Init
  PROVE  RouteInv
  <1>1. "new" \in Steps /\ "new" \notin Late  BY DEF Steps, Late
  <1>2. TypeOK  BY <1>1 DEF Init, TypeOK
  <1>3. \A r \in Requests : RequestInv(r)  BY <1>1 DEF Init, RequestInv
  <1>4. RowFollowsTheChain  BY DEF Init, RowFollowsTheChain
  <1> QED  BY <1>2, <1>3, <1>4 DEF RouteInv

LEMMA RouteStepLemma ==
  ASSUME RouteInv, [Next]_vars
  PROVE  RouteInv'
  <1>1. CASE UNCHANGED vars
    BY <1>1 DEF vars, RouteInv, TypeOK, RequestInv, SettledBy, RowFollowsTheChain
  <1>2. ASSUME NEW r \in Requests, Step(r)  PROVE RouteInv'
    BY <1>2, WalkingLemma, WritingLemma, JudgingLemma, ChainLemma DEF Step
  <1>3. CASE Next
    BY <1>2, <1>3, ChainLemma, RestartLemma DEF Next
  <1> QED  BY <1>1, <1>3
------------------------------------------------------------------------------
(* The invariant holds of the requests in every interleaving, restarts     *)
(* included, whatever the number of requests and of works.                 *)
THEOREM RouteInvariance == Spec => []RouteInv
  <1>1. Init => RouteInv  BY RouteInitLemma
  <1>2. RouteInv /\ [Next]_vars => RouteInv'  BY RouteStepLemma
  <1> QED  BY <1>1, <1>2, PTL DEF Spec

(* Every request, row and escrow stays well typed.                         *)
THEOREM RouteTypes == Spec => []TypeOK
  <1>1. RouteInv => TypeOK  BY DEF RouteInv
  <1> QED  BY <1>1, RouteInvariance, PTL

(* Whoever was charged for a verdict has it settled on chain, by the       *)
(* transaction of that very call and with the outcome it computed          *)
(* (routes/verdict.ts:126-131, lib/x402-meter.ts).                         *)
THEOREM FeesFollowSettlements == Spec => []ChargedForASettledVerdict
  <1>1. RouteInv => ChargedForASettledVerdict
    BY DEF RouteInv, TypeOK, RequestInv, SettledBy, ChargedForASettledVerdict
  <1> QED  BY <1>1, RouteInvariance, PTL

(* A row that says settled names the transaction and the outcome that      *)
(* closed the escrow, and no row precedes the funding, whichever of the    *)
(* routes wrote it (db.ts:142-154).                                        *)
THEOREM RowsFollowTheChain == Spec => []RowFollowsTheChain
  <1>1. RouteInv => RowFollowsTheChain  BY DEF RouteInv
  <1> QED  BY <1>1, RouteInvariance, PTL
=============================================================================
