---------------------------- MODULE Pages_proofs ------------------------------
EXTENDS JobPage, HumanHire, TLAPS

(***************************************************************************)
(* The page of one job (JobPage).                                          *)
(***************************************************************************)
Outcomes == Money \cup {None, "refund"}
BusEvents == JobStates \cup {"verdict", "settled"}
JobRecords == [state : JobStates, outcome : Outcomes, artifact : BOOLEAN, verdict : BOOLEAN]
Answers == [state : JobStates \cup {Unfetched}, outcome : Outcomes, artifact : BOOLEAN,
            verdict : BOOLEAN, chain : Money \cup {None, "expired"}]
FetchRecords == [at : {"free", "asked", "row", "read"}, says : Answers]

WorkerTypes ==
  /\ job \in JobRecords
  /\ onchain \in Money \cup {"FUNDED", "expired"} /\ engine \in {"idle", "unsaid", "settled", "left"}
  /\ bus \in Seq(BusEvents)

ViewTypes ==
  /\ detail \in Answers /\ live \in JobStates \cup {None} /\ failing \in BOOLEAN
  /\ reader \in [at : {"closed", "open"}, read : Nat] /\ reader.read <= Len(bus)
  /\ fetch \in [Fetches -> FetchRecords]
  /\ contest \in {None, "posted", "resolved", "refused", "unheard"} /\ drops \in 0 .. MaxDrops
  /\ missed \in BOOLEAN

(* What a state that was once the job's says of the job as it is.          *)
Happened(state) ==
  /\ IsTerminal(state) => job.state = state
  /\ state \notin {"AWAITING_DELIVERY", "EXPIRED", Unfetched, None} => job.artifact
  /\ state \in {"SETTLED", "ABSTAINED", "RESOLVED"} => job.verdict

(* The row and the chain: what is on the chain is final, and the row says  *)
(* what is on the chain once the engine has recorded it.                   *)
RowFollowsChain ==
  /\ Happened(job.state) /\ (job.verdict => job.artifact)
  /\ engine = "settled" => onchain # "FUNDED"
  /\ job.outcome # None => onchain # "FUNDED" /\ job.outcome = RowOutcome
  /\ IsTerminal(job.state) => onchain # "FUNDED" /\ engine # "settled"
  /\ onchain \notin {"FUNDED", "expired"} => job.verdict

(* The last of the first n events that is a state.                         *)
LastSaid(n, state) ==
  \E i \in 1 .. n : bus[i] = state /\ \A j \in i + 1 .. n : bus[j] \notin JobStates

(* The bus tells only of states the job was in, and the last state on it,  *)
(* if there is one, is the present one, unless the event of that is still  *)
(* to come.  With none on it since a restart, the page was told before.    *)
BusFollowsRow ==
  /\ \A i \in 1 .. Len(bus) : bus[i] \in JobStates => Happened(bus[i])
  /\ engine # "unsaid" =>
       \/ LastSaid(Len(bus), job.state)
       \/ /\ \A i \in 1 .. Len(bus) : bus[i] \notin JobStates
          /\ missed \/ live = job.state

(* The live state is the last one that was read.                           *)
LiveFollowsBus ==
  /\ live # None => Happened(live)
  /\ \/ live \in JobStates /\ LastSaid(reader.read, live)
     \/ \A i \in 1 .. reader.read : bus[i] \notin JobStates

(* An answer is true of the job, then and later.                           *)
Says(a) ==
  /\ Happened(a.state)
  /\ a.outcome # None => a.outcome = job.outcome
  /\ a.artifact => job.artifact
  /\ a.verdict => job.verdict
  /\ a.chain # None => a.chain = onchain

JobPageInv ==
  /\ WorkerTypes /\ ViewTypes /\ RowFollowsChain /\ BusFollowsRow /\ LiveFollowsBus
  /\ Says(detail) /\ \A f \in Fetches : Says(fetch[f].says)
------------------------------------------------------------------------------
LEMMA MoneyLemma ==
  /\ None \notin Money /\ "FUNDED" \notin Money /\ "expired" \notin Money
  /\ "verdict" \notin JobStates /\ "settled" \notin JobStates
  BY JobPageAssumption DEF None, JobStates

(* The job goes on: what was true of it when a page was told stays so.     *)
GoesOn ==
  /\ IsTerminal(job.state) => job'.state = job.state
  /\ job.artifact => job'.artifact
  /\ job.verdict => job'.verdict
  /\ job.outcome # None => job'.outcome = job.outcome
  /\ onchain # "FUNDED" => onchain' = onchain

LEMMA HappenedLemma ==
  ASSUME GoesOn
  PROVE  \A s : Happened(s) => Happened(s)'
  BY DEF GoesOn, Happened, IsTerminal

LEMMA SaysLemma ==
  ASSUME GoesOn
  PROVE  \A a \in Answers : Says(a) => Says(a)'
  <1> TAKE a \in Answers
  <1>1. a.chain # "FUNDED"  BY MoneyLemma DEF Answers, None
  <1>2. Happened(a.state) => Happened(a.state)'  BY HappenedLemma
  <1> QED  BY <1>1, <1>2 DEF GoesOn, Says

(* A step of the worker, by what it does to the row, the chain and the bus.*)
LEMMA WorkerGoesOnLemma ==
  ASSUME JobPageInv, UNCHANGED <<viewVars, contest, drops>>, GoesOn,
         WorkerTypes', RowFollowsChain', BusFollowsRow',
         Len(bus) <= Len(bus'), \A i \in 1 .. Len(bus) : bus'[i] = bus[i]
  PROVE  JobPageInv'
  <1>1. UNCHANGED <<detail, live, failing, reader, fetch, missed>>  BY DEF viewVars
  <1>2. Len(bus) \in Nat /\ Len(bus') \in Nat  BY DEF JobPageInv, WorkerTypes
  <1>3. reader \in [at : {"closed", "open"}, read : Nat] /\ reader.read <= Len(bus)
    BY DEF JobPageInv, ViewTypes
  <1>4. reader.read \in Nat /\ reader'.read = reader.read  BY <1>1, <1>3
  <1>5. ViewTypes'
    <2>1. reader'.read <= Len(bus')  BY <1>1, <1>2, <1>3, <1>4
    <2> QED  BY <1>1, <2>1 DEF JobPageInv, ViewTypes
  <1>6. LiveFollowsBus'
    <2>1. live # None => Happened(live)'
      BY <1>1, HappenedLemma DEF JobPageInv, LiveFollowsBus, Happened, IsTerminal
    <2>2. \A j \in 1 .. reader.read : bus'[j] = bus[j]  BY <1>2, <1>3, <1>4
    <2>3. \A i \in 1 .. reader.read : \A j \in i + 1 .. reader.read : j \in 1 .. reader.read
      BY <1>4
    <2>4. LastSaid(reader.read, live) => LastSaid(reader.read, live)'
      BY <1>1, <2>2, <2>3 DEF LastSaid
    <2>5. (\A i \in 1 .. reader.read : bus[i] \notin JobStates)
            => \A i \in 1 .. reader'.read : bus'[i] \notin JobStates
      BY <1>4, <2>2
    <2> QED  BY <1>1, <2>1, <2>4, <2>5 DEF JobPageInv, LiveFollowsBus
  <1>7. Says(detail)' /\ \A f \in Fetches : Says(fetch[f].says)'
    <2>1. detail \in Answers /\ \A f \in Fetches : fetch[f].says \in Answers
      BY DEF JobPageInv, ViewTypes, FetchRecords
    <2>2. Says(detail) /\ \A f \in Fetches : Says(fetch[f].says)  BY DEF JobPageInv
    <2>3. Says(detail)'
      BY <1>1, <2>1, <2>2, SaysLemma DEF Says, Happened, IsTerminal
    <2>4. \A f \in Fetches : Says(fetch[f].says)'
      BY <1>1, <2>1, <2>2, SaysLemma DEF Says, Happened, IsTerminal
    <2> QED  BY <2>3, <2>4
  <1> QED  BY <1>5, <1>6, <1>7 DEF JobPageInv

(* The engine moves the row, and will tell of it.                          *)
LEMMA MovesLemma ==
  ASSUME JobPageInv, UNCHANGED <<viewVars, contest, drops>>, GoesOn, UNCHANGED bus,
         job' \in JobRecords, onchain' \in Money \cup {"FUNDED", "expired"},
         \/ engine' = "unsaid"
         \/ engine \in {"idle", "left"} /\ engine' \in {"settled", "left"} /\ job' = job,
         RowFollowsChain'
  PROVE  JobPageInv'
  <1>1. WorkerTypes'  BY DEF JobPageInv, WorkerTypes
  <1>2. \A i \in 1 .. Len(bus) : bus[i] \in JobStates => Happened(bus[i])'
    BY HappenedLemma DEF JobPageInv, BusFollowsRow, Happened, IsTerminal
  <1>3. BusFollowsRow'
    <2>1. UNCHANGED <<bus, missed, live>>  BY DEF viewVars
    <2> QED  BY <1>2, <2>1 DEF JobPageInv, BusFollowsRow, LastSaid
  <1>4. Len(bus) \in Nat  BY DEF JobPageInv, WorkerTypes
  <1> QED  BY <1>1, <1>3, <1>4, WorkerGoesOnLemma

(* The engine publishes: the state it has recorded, or something else.     *)
LEMMA PublishesLemma ==
  ASSUME JobPageInv, UNCHANGED <<viewVars, contest, drops>>, GoesOn,
         NEW e \in BusEvents, bus' = Append(bus, e),
         \/ e = job.state /\ engine' = "idle" /\ engine = "unsaid"
         \/ e \notin JobStates /\ engine = "idle" /\ engine' \in {"idle", "settled"},
         job' \in JobRecords, job'.state = job.state,
         onchain' \in Money \cup {"FUNDED", "expired"}, RowFollowsChain'
  PROVE  JobPageInv'
  <1> DEFINE n == Len(bus)
  <1>1. bus \in Seq(BusEvents) /\ n \in Nat /\ job.state \in JobStates
    BY DEF JobPageInv, WorkerTypes, JobRecords
  <1>2. /\ bus' \in Seq(BusEvents) /\ Len(bus') = n + 1 /\ bus'[n + 1] = e
        /\ \A i \in 1 .. n : bus'[i] = bus[i]
    BY <1>1
  <1>3. WorkerTypes'  BY <1>2 DEF JobPageInv, WorkerTypes
  <1>4. /\ \A i \in 1 .. n : bus[i] \in JobStates => Happened(bus[i])
        /\ Happened(job.state)
    BY DEF JobPageInv, BusFollowsRow, RowFollowsChain
  <1>5. \A i \in 1 .. n + 1 : i \in 1 .. n \/ i = n + 1  BY <1>1
  <1>6. ASSUME NEW i \in 1 .. Len(bus'), bus'[i] \in JobStates PROVE Happened(bus[i])'
    <2>1. CASE i \in 1 .. n
      BY <1>2, <1>4, <1>6, <2>1, HappenedLemma DEF Happened, IsTerminal
    <2>2. CASE i = n + 1
      BY <1>2, <1>4, <1>6, <2>2, HappenedLemma DEF Happened, IsTerminal
    <2> QED  BY <1>2, <1>5, <2>1, <2>2
  <1>7. \/ LastSaid(Len(bus), job.state)'
        \/ /\ \A i \in 1 .. Len(bus') : bus'[i] \notin JobStates
           /\ missed' \/ live' = job'.state
    <2>1. CASE e = job.state
      <3>1. n + 1 \in 1 .. n + 1 /\ (n + 1) + 1 .. n + 1 = {}  BY <1>1
      <3> QED  BY <1>2, <2>1, <3>1 DEF LastSaid
    <2>2. CASE e \notin JobStates /\ engine = "idle" /\ LastSaid(n, job.state)
      <3>1. PICK i \in 1 .. n : /\ bus[i] = job.state
                                /\ \A j \in i + 1 .. n : bus[j] \notin JobStates
        BY <2>2 DEF LastSaid
      <3>2. \A j \in i + 1 .. n + 1 : (j \in i + 1 .. n /\ j \in 1 .. n) \/ j = n + 1  BY <1>1
      <3>3. i \in 1 .. n + 1  BY <1>1
      <3> QED  BY <1>2, <2>2, <3>1, <3>2, <3>3 DEF LastSaid
    <2>3. CASE /\ e \notin JobStates
               /\ \A i \in 1 .. n : bus[i] \notin JobStates
               /\ missed \/ live = job.state
      <3>1. UNCHANGED <<missed, live>>  BY DEF viewVars
      <3> QED  BY <1>2, <1>5, <2>3, <3>1
    <2>4. e \notin JobStates =>
            \/ LastSaid(n, job.state)
            \/ /\ \A i \in 1 .. n : bus[i] \notin JobStates
               /\ missed \/ live = job.state
      BY <1>1 DEF JobPageInv, BusFollowsRow
    <2> QED  BY <1>1, <2>1, <2>2, <2>3, <2>4
  <1>8. BusFollowsRow'  BY <1>6, <1>7 DEF BusFollowsRow
  <1>9. Len(bus) <= Len(bus')  BY <1>1, <1>2
  <1> QED  BY <1>2, <1>3, <1>8, <1>9, WorkerGoesOnLemma

(* The facts that every step of the engine starts from.                    *)
LEMMA RowLemma ==
  ASSUME JobPageInv
  PROVE  /\ job \in JobRecords /\ onchain \in Money \cup {"FUNDED", "expired"}
         /\ job.state \in JobStates /\ job.outcome \in Outcomes
         /\ job.artifact \in BOOLEAN /\ job.verdict \in BOOLEAN
         /\ engine \in {"idle", "unsaid", "settled", "left"} /\ RowFollowsChain
  BY DEF JobPageInv, WorkerTypes, JobRecords

LEMMA DeliverLemma ==
  ASSUME JobPageInv, Deliver, UNCHANGED <<viewVars, contest, drops>>
  PROVE  JobPageInv'
  <1>1. job' \in JobRecords  BY RowLemma DEF Deliver, JobRecords, JobStates
  <1>2. job' = [job EXCEPT !.state = "DELIVERED", !.artifact = TRUE]  BY DEF Deliver
  <1>3. GoesOn  BY <1>2, RowLemma DEF GoesOn, Deliver, IsTerminal, JobRecords
  <1>4. RowFollowsChain'
    BY <1>2, RowLemma
    DEF RowFollowsChain, Happened, IsTerminal, Deliver, RowOutcome, JobRecords, None, Unfetched
  <1>5. onchain' \in Money \cup {"FUNDED", "expired"}  BY RowLemma DEF Deliver
  <1> QED  BY <1>1, <1>3, <1>4, <1>5, MovesLemma DEF Deliver

LEMMA JobMovesLemma ==
  ASSUME JobPageInv, UNCHANGED <<viewVars, contest, drops>>, engine = "idle",
         NEW s \in {"VERIFYING", "PROPOSED", "DISPUTED", "ESCALATED"}, JobMoves(s),
         job.state \in {"DELIVERED", "VERIFYING", "PROPOSED", "DISPUTED"}
  PROVE  JobPageInv'
  <1>1. job' \in JobRecords  BY RowLemma DEF JobMoves, JobRecords, JobStates
  <1>2. job' = [job EXCEPT !.state = s]  BY DEF JobMoves
  <1>3. GoesOn  BY <1>2, RowLemma DEF GoesOn, JobMoves, IsTerminal, JobRecords
  <1>4. RowFollowsChain'
    BY <1>2, RowLemma
    DEF RowFollowsChain, Happened, IsTerminal, JobMoves, RowOutcome, JobRecords, None, Unfetched
  <1>5. onchain' \in Money \cup {"FUNDED", "expired"}  BY RowLemma DEF JobMoves
  <1> QED  BY <1>1, <1>3, <1>4, <1>5, MovesLemma DEF JobMoves

LEMMA RecordVerdictLemma ==
  ASSUME JobPageInv, RecordVerdict, UNCHANGED <<viewVars, contest, drops>>
  PROVE  JobPageInv'
  <1>1. job' \in JobRecords  BY RowLemma DEF RecordVerdict, JobRecords
  <1>2. job' = [job EXCEPT !.verdict = TRUE]  BY DEF RecordVerdict
  <1>3. GoesOn  BY <1>2, RowLemma DEF GoesOn, RecordVerdict, JobRecords
  <1>4. RowFollowsChain'
    BY <1>2, RowLemma
    DEF RowFollowsChain, Happened, IsTerminal, RecordVerdict, RowOutcome, JobRecords, None,
        Unfetched
  <1>5. onchain' \in Money \cup {"FUNDED", "expired"}  BY RowLemma DEF RecordVerdict
  <1>6. job'.state = job.state  BY <1>2, RowLemma DEF JobRecords
  <1>7. "verdict" \in BusEvents /\ "verdict" \notin JobStates  BY MoneyLemma DEF BusEvents
  <1> QED  BY <1>1, <1>3, <1>4, <1>5, <1>6, <1>7, PublishesLemma DEF RecordVerdict

LEMMA ContestLemma ==
  ASSUME JobPageInv, Contest, UNCHANGED <<viewVars, contest, drops>>
  PROVE  JobPageInv'
  BY JobMovesLemma DEF Contest

LEMMA EmitLemma ==
  ASSUME JobPageInv, Emit, UNCHANGED <<viewVars, contest, drops>>
  PROVE  JobPageInv'
  <1>1. GoesOn  BY DEF GoesOn, Emit
  <1>2. RowFollowsChain'
    BY RowLemma DEF RowFollowsChain, Happened, IsTerminal, Emit, RowOutcome
  <1>3. job.state \in BusEvents  BY RowLemma DEF BusEvents
  <1>4. job' = job /\ onchain' = onchain  BY DEF Emit
  <1> QED  BY <1>1, <1>2, <1>3, <1>4, RowLemma, PublishesLemma DEF Emit

LEMMA SettleShownLemma ==
  ASSUME JobPageInv, SettleShown, UNCHANGED <<viewVars, contest, drops>>
  PROVE  JobPageInv'
  <1>1. GoesOn  BY DEF GoesOn, SettleShown
  <1>2. onchain' \in Money /\ onchain' # "FUNDED" /\ job' = job  BY MoneyLemma DEF SettleShown
  <1>3. job.outcome = None  BY RowLemma DEF RowFollowsChain, SettleShown
  <1>4. RowFollowsChain'
    BY <1>2, <1>3, RowLemma DEF RowFollowsChain, Happened, IsTerminal, SettleShown, RowOutcome
  <1>5. "settled" \in BusEvents /\ "settled" \notin JobStates  BY MoneyLemma DEF BusEvents
  <1> QED  BY <1>1, <1>2, <1>4, <1>5, RowLemma, PublishesLemma DEF SettleShown

LEMMA SettlesUnheardLemma ==
  ASSUME JobPageInv, SettlesUnheard, UNCHANGED <<viewVars, contest, drops>>
  PROVE  JobPageInv'
  <1>1. GoesOn  BY DEF GoesOn, SettlesUnheard
  <1>2. onchain' \in Money /\ onchain' # "FUNDED" /\ job' = job
    BY MoneyLemma DEF SettlesUnheard
  <1>3. job.outcome = None  BY RowLemma DEF RowFollowsChain, SettlesUnheard
  <1>4. RowFollowsChain'
    BY <1>2, <1>3, RowLemma DEF RowFollowsChain, Happened, IsTerminal, SettlesUnheard, RowOutcome
  <1> QED  BY <1>1, <1>2, <1>4, RowLemma, MovesLemma DEF SettlesUnheard

LEMMA RefundExpiredOnChainLemma ==
  ASSUME JobPageInv, RefundExpiredOnChain, UNCHANGED <<viewVars, contest, drops>>
  PROVE  JobPageInv'
  <1>1. GoesOn  BY DEF GoesOn, RefundExpiredOnChain
  <1>2. onchain' = "expired" /\ job' = job  BY DEF RefundExpiredOnChain
  <1>3. job.outcome = None  BY RowLemma DEF RowFollowsChain, RefundExpiredOnChain
  <1>4. ~IsTerminal(job.state)  BY RowLemma DEF RowFollowsChain, RefundExpiredOnChain
  <1>5. RowFollowsChain'
    BY <1>2, <1>3, <1>4, RowLemma
    DEF RowFollowsChain, Happened, IsTerminal, RefundExpiredOnChain, RowOutcome
  <1> QED  BY <1>1, <1>2, <1>5, RowLemma, MovesLemma DEF RefundExpiredOnChain

LEMMA MarkTerminalLemma ==
  ASSUME JobPageInv, MarkTerminal, UNCHANGED <<viewVars, contest, drops>>
  PROVE  JobPageInv'
  <1> DEFINE s == IF onchain = "expired" THEN "EXPIRED" ELSE IF job.state = "ESCALATED" THEN "RESOLVED"
                  ELSE IF onchain = "abstain" THEN "ABSTAINED" ELSE "SETTLED"
  <1>1. job' = [job EXCEPT !.state = s, !.outcome = RowOutcome]  BY DEF MarkTerminal
  <1>2. engine = "settled" /\ engine' = "unsaid" /\ onchain' = onchain /\ bus' = bus
    BY DEF MarkTerminal
  <1>3. s \in {"EXPIRED", "RESOLVED", "ABSTAINED", "SETTLED"} /\ (s = "EXPIRED" <=> onchain = "expired")
    OBVIOUS
  <1>4. onchain # "FUNDED" /\ ~IsTerminal(job.state)  BY <1>2, RowLemma DEF RowFollowsChain
  <1>5. RowOutcome \in Outcomes /\ RowOutcome' = RowOutcome /\ RowOutcome # None
    BY <1>2, <1>4, RowLemma, MoneyLemma DEF RowOutcome, Outcomes, None
  <1> HIDE DEF s
  <1>6. job' \in JobRecords /\ job'.state = s /\ job'.outcome = RowOutcome
        /\ job'.artifact = job.artifact /\ job'.verdict = job.verdict
    BY <1>1, <1>3, <1>5, RowLemma DEF JobRecords, JobStates
  <1>7. GoesOn
    BY <1>2, <1>4, <1>6, RowLemma DEF GoesOn, RowFollowsChain
  <1>8. RowFollowsChain'
    <2>1. IsTerminal(s) /\ s \notin {"AWAITING_DELIVERY", Unfetched, None}
      BY <1>3 DEF IsTerminal, None, Unfetched
    <2>2. s # "EXPIRED" => job.verdict /\ job.artifact
      BY <1>3, <1>4, RowLemma DEF RowFollowsChain
    <2>3. Happened(job.state)'  BY <1>6, <2>1, <2>2 DEF Happened
    <2>4. IsTerminal(job.state)' => onchain' # "FUNDED" /\ engine' # "settled"  BY <1>2, <1>4
    <2> QED  BY <1>2, <1>4, <1>5, <1>6, <2>3, <2>4, RowLemma DEF RowFollowsChain
  <1> QED  BY <1>2, <1>6, <1>7, <1>8, RowLemma, MovesLemma

LEMMA WorkerStepLemma ==
  ASSUME JobPageInv, WorkerStep
  PROVE  JobPageInv'
  <1> USE DEF WorkerStep
  <1>1. CASE Deliver  BY <1>1, DeliverLemma
  <1>2. CASE Verify  BY <1>2, JobMovesLemma DEF Verify
  <1>3. CASE RecordVerdict  BY <1>3, RecordVerdictLemma
  <1>4. CASE Hold  BY <1>4, JobMovesLemma DEF Hold
  <1>5. CASE Contest  BY <1>5, ContestLemma
  <1>6. CASE Emit  BY <1>6, EmitLemma
  <1>7. CASE SettleShown  BY <1>7, SettleShownLemma
  <1>8. CASE RefundExpiredOnChain  BY <1>8, RefundExpiredOnChainLemma
  <1>9. CASE MarkTerminal  BY <1>9, MarkTerminalLemma
  <1>10. CASE SettlesUnheard  BY <1>10, SettlesUnheardLemma
  <1> QED  BY <1>1, <1>2, <1>3, <1>4, <1>5, <1>6, <1>7, <1>8, <1>9, <1>10
------------------------------------------------------------------------------
(* A step of the page: the job stays, and so does what was said of it.     *)
LEMMA PageStepLemma ==
  ASSUME JobPageInv, UNCHANGED workerVars, ViewTypes', LiveFollowsBus',
         \/ UNCHANGED <<live, missed>>
         \/ \E i \in 1 .. Len(bus) : bus[i] \in JobStates,
         Says(detail'), \A f \in Fetches : Says(fetch'[f].says)
  PROVE  JobPageInv'
  <1>1. UNCHANGED <<job, onchain, engine, bus>>  BY DEF workerVars
  <1>2. WorkerTypes' /\ RowFollowsChain' /\ BusFollowsRow'
    <2>1. WorkerTypes' /\ RowFollowsChain'
      BY <1>1 DEF JobPageInv, WorkerTypes, RowFollowsChain, Happened, RowOutcome
    <2>2. BusFollowsRow'
      BY <1>1 DEF JobPageInv, BusFollowsRow, Happened, LastSaid
    <2> QED  BY <2>1, <2>2
  <1>3. Says(detail)' /\ \A f \in Fetches : Says(fetch[f].says)'
    BY <1>1 DEF Says, Happened
  <1> QED  BY <1>2, <1>3 DEF JobPageInv

LEMMA ViewLemma ==
  ASSUME JobPageInv
  PROVE  /\ detail \in Answers /\ live \in JobStates \cup {None} /\ failing \in BOOLEAN
         /\ reader \in [at : {"closed", "open"}, read : Nat] /\ reader.read <= Len(bus)
         /\ fetch \in [Fetches -> FetchRecords]
         /\ contest \in {None, "posted", "resolved", "refused", "unheard"}
         /\ drops \in 0 .. MaxDrops /\ Len(bus) \in Nat /\ missed \in BOOLEAN
         /\ Says(detail) /\ \A f \in Fetches : Says(fetch[f].says)
  BY DEF JobPageInv, ViewTypes, WorkerTypes

LEMMA NoRowLemma == NoRow \in Answers /\ (JobPageInv => Says(NoRow))
  BY DEF NoRow, Answers, Says, Happened, IsTerminal, Unfetched, None, Outcomes

(* One fetch goes on; what its answer will say is true of the job.         *)
LEMMA FetchLemma ==
  ASSUME JobPageInv, UNCHANGED workerVars, NEW f \in Fetches, NEW r \in FetchRecords,
         fetch' = [fetch EXCEPT ![f] = r], Says(r.says), ViewTypes', LiveFollowsBus',
         UNCHANGED <<live, missed>>,
         Says(detail')
  PROVE  JobPageInv'
  <1>1. \A g \in Fetches : fetch'[g] = IF g = f THEN r ELSE fetch[g]  BY ViewLemma
  <1> QED  BY <1>1, ViewLemma, PageStepLemma

LEMMA LiveStaysLemma ==
  ASSUME JobPageInv, UNCHANGED workerVars, UNCHANGED live, reader'.read = reader.read
  PROVE  LiveFollowsBus'
  BY DEF JobPageInv, LiveFollowsBus, LastSaid, Happened, workerVars

LEMMA ReadRowLemma ==
  ASSUME JobPageInv, NEW f \in Fetches, ReadRow(f)
  PROVE  JobPageInv'
  <1> DEFINE a == [NoRow EXCEPT !.state = job.state, !.outcome = job.outcome,
                                !.artifact = job.artifact]
             r == [at |-> "row", says |-> a]
  <1>1. a \in Answers  BY RowLemma, NoRowLemma DEF Answers, NoRow
  <1>2. r \in FetchRecords  BY <1>1 DEF FetchRecords
  <1>3. Says(a)  BY RowLemma DEF Says, NoRow, RowFollowsChain, None
  <1>4. fetch' = [fetch EXCEPT ![f] = r] /\ UNCHANGED workerVars
        /\ UNCHANGED <<detail, live, failing, reader, missed, contest, drops, bus>>
    BY DEF ReadRow, workerVars
  <1>5. Says(r.says)  BY <1>3
  <1> HIDE DEF a, r
  <1>6. ViewTypes'  BY <1>2, <1>4, ViewLemma DEF ViewTypes
  <1>7. LiveFollowsBus'  BY <1>4, LiveStaysLemma
  <1> QED  BY <1>2, <1>4, <1>5, <1>6, <1>7, ViewLemma, FetchLemma

LEMMA ReadRestLemma ==
  ASSUME JobPageInv, NEW f \in Fetches, ReadRest(f)
  PROVE  JobPageInv'
  <1>1. PICK seen \in {onchain, None} :
          /\ IF seen = None THEN drops < MaxDrops /\ drops' = drops + 1 ELSE UNCHANGED drops
          /\ fetch' = [fetch EXCEPT ![f] = [at |-> "read", says |->
               [@.says EXCEPT !.verdict = job.verdict,
                              !.chain = IF seen = "FUNDED" THEN None ELSE seen]]]
    BY DEF ReadRest
  <1> DEFINE c == IF seen = "FUNDED" THEN None ELSE seen
             a == [fetch[f].says EXCEPT !.verdict = job.verdict, !.chain = c]
             r == [at |-> "read", says |-> a]
  <1>2. fetch[f] \in FetchRecords /\ fetch[f].says \in Answers /\ Says(fetch[f].says)
    BY ViewLemma DEF FetchRecords
  <1>3. c \in Money \cup {None, "expired"} /\ (c # None => c = onchain)
    BY <1>1, RowLemma
  <1> HIDE DEF c
  <1>4. a \in Answers  BY <1>2, <1>3, RowLemma DEF Answers
  <1>5. Says(a)
    <2>1. /\ a.state = fetch[f].says.state /\ a.outcome = fetch[f].says.outcome
          /\ a.artifact = fetch[f].says.artifact /\ a.verdict = job.verdict /\ a.chain = c
      BY <1>2 DEF Answers
    <2> QED  BY <1>2, <1>3, <2>1 DEF Says
  <1>6. r \in FetchRecords /\ Says(r.says)  BY <1>4, <1>5 DEF FetchRecords
  <1>7. fetch' = [fetch EXCEPT ![f] = r]
    BY <1>1, ViewLemma DEF c
  <1>8. UNCHANGED workerVars /\ UNCHANGED <<detail, live, failing, reader, missed, contest, bus>>
    BY DEF ReadRest, workerVars
  <1>9. drops' \in 0 .. MaxDrops  BY <1>1, ViewLemma, JobPageAssumption
  <1> HIDE DEF a, r
  <1>10. ViewTypes'  BY <1>6, <1>7, <1>8, <1>9, ViewLemma DEF ViewTypes
  <1>11. LiveFollowsBus'  BY <1>8, LiveStaysLemma
  <1> QED  BY <1>6, <1>7, <1>8, <1>10, <1>11, ViewLemma, FetchLemma

LEMMA IdleLemma == Idle \in FetchRecords /\ (JobPageInv => Says(Idle.says))
  BY NoRowLemma DEF Idle, FetchRecords

LEMMA OverLemma ==
  ASSUME JobPageInv, NEW f \in Fetches, Over(f)
  PROVE  /\ fetch' \in [Fetches -> FetchRecords]
         /\ \A g \in Fetches : Says(fetch'[g].says)
  BY ViewLemma, IdleLemma DEF Over

LEMMA AnsweredLemma ==
  ASSUME JobPageInv, NEW f \in Fetches, Answered(f)
  PROVE  JobPageInv'
  <1>1. Over(f) /\ UNCHANGED workerVars
        /\ UNCHANGED <<live, missed, contest, drops, bus>>
        /\ detail' = fetch[f].says /\ failing' = FALSE
    BY DEF Answered, workerVars
  <1>2. detail' \in Answers /\ Says(detail')  BY <1>1, ViewLemma DEF FetchRecords
  <1>3. reader' \in [at : {"closed", "open"}, read : Nat] /\ reader'.read <= Len(bus)
    BY ViewLemma DEF Answered
  <1>4. ViewTypes'  BY <1>1, <1>2, <1>3, ViewLemma, OverLemma DEF ViewTypes
  <1>5. LiveFollowsBus'
    <2>1. CASE reader' = reader  BY <1>1, <2>1, LiveStaysLemma
    <2>2. CASE reader'.read = 0
      BY <1>1, <2>2 DEF JobPageInv, LiveFollowsBus, Happened, workerVars
    <2> QED  BY <2>1, <2>2 DEF Answered
  <1> QED  BY <1>1, <1>2, <1>4, <1>5, OverLemma, PageStepLemma

LEMMA FetchFailsLemma ==
  ASSUME JobPageInv, NEW f \in Fetches, FetchFails(f)
  PROVE  JobPageInv'
  <1>1. Over(f) /\ UNCHANGED workerVars
        /\ UNCHANGED <<detail, live, reader, missed, contest, bus>> /\ failing' = TRUE
        /\ drops' = drops + 1 /\ drops < MaxDrops
    BY DEF FetchFails, workerVars, Unreachable
  <1>2. ViewTypes'  BY <1>1, ViewLemma, OverLemma, JobPageAssumption DEF ViewTypes
  <1>3. LiveFollowsBus'  BY <1>1, LiveStaysLemma
  <1> QED  BY <1>1, <1>2, <1>3, ViewLemma, OverLemma, PageStepLemma

(* Asking again leaves what the fetches will say.                          *)
LEMMA FetchAgainLemma ==
  ASSUME JobPageInv, FetchAgain \/ UNCHANGED fetch
  PROVE  /\ fetch' \in [Fetches -> FetchRecords]
         /\ \A f \in Fetches : Says(fetch'[f].says)
  <1>1. CASE UNCHANGED fetch  BY <1>1, ViewLemma
  <1>2. CASE FetchAgain
    <2>1. PICK f \in Fetches : fetch' = [fetch EXCEPT ![f].at = "asked"]  BY <1>2 DEF FetchAgain
    <2>2. fetch[f] \in FetchRecords  BY ViewLemma
    <2>3. fetch' = [fetch EXCEPT ![f] = [fetch[f] EXCEPT !.at = "asked"]]  BY <2>1
    <2>4. [fetch[f] EXCEPT !.at = "asked"] \in FetchRecords
          /\ [fetch[f] EXCEPT !.at = "asked"].says = fetch[f].says
      BY <2>2 DEF FetchRecords
    <2> QED  BY <2>3, <2>4, ViewLemma
  <1> QED  BY <1>1, <1>2

LEMMA JobMessageLemma ==
  ASSUME JobPageInv, JobMessage
  PROVE  JobPageInv'
  <1> DEFINE n == reader.read
             e == bus[n + 1]
  <1>1. /\ n \in Nat /\ Len(bus) \in Nat /\ n < Len(bus) /\ reader'.read = n + 1
        /\ reader' \in [at : {"closed", "open"}, read : Nat]
    BY ViewLemma DEF JobMessage
  <1>2. live' = IF e \in JobStates THEN e ELSE live  BY DEF JobMessage
  <1>3. UNCHANGED workerVars /\ UNCHANGED <<job, bus, detail, failing, contest, drops>>
        /\ missed' \in BOOLEAN
    BY DEF JobMessage, workerVars
  <1>4. FetchAgain \/ UNCHANGED fetch  BY DEF JobMessage
  <1>5. ViewTypes'  BY <1>1, <1>2, <1>3, <1>4, ViewLemma, FetchAgainLemma DEF ViewTypes
  <1>6. LiveFollowsBus'
    <2>1. n + 1 \in 1 .. Len(bus)  BY <1>1
    <2>2. e \in JobStates => Happened(e)  BY <2>1 DEF JobPageInv, BusFollowsRow
    <2>3. live' # None => Happened(live)'
      BY <1>2, <1>3, <2>2 DEF JobPageInv, LiveFollowsBus, Happened
    <2>4. \/ live' \in JobStates /\ LastSaid(n + 1, live')
          \/ \A i \in 1 .. n + 1 : bus[i] \notin JobStates
      <3>1. CASE e \in JobStates
        <4>1. n + 1 \in 1 .. n + 1 /\ (n + 1) + 1 .. n + 1 = {}  BY <1>1
        <4> QED  BY <1>2, <3>1, <4>1 DEF LastSaid
      <3>2. CASE e \notin JobStates /\ live \in JobStates /\ LastSaid(n, live)
        <4>1. PICK i \in 1 .. n : /\ bus[i] = live
                                  /\ \A j \in i + 1 .. n : bus[j] \notin JobStates
          BY <3>2 DEF LastSaid
        <4>2. i \in 1 .. n + 1 /\ \A j \in i + 1 .. n + 1 : j \in i + 1 .. n \/ j = n + 1
          BY <1>1
        <4> QED  BY <1>2, <3>2, <4>1, <4>2 DEF LastSaid
      <3>3. CASE e \notin JobStates /\ \A i \in 1 .. n : bus[i] \notin JobStates
        <4>1. \A i \in 1 .. n + 1 : i \in 1 .. n \/ i = n + 1  BY <1>1
        <4> QED  BY <3>3, <4>1
      <3> QED  BY <3>1, <3>2, <3>3 DEF JobPageInv, LiveFollowsBus
    <2> QED  BY <1>1, <1>3, <2>3, <2>4 DEF LiveFollowsBus, LastSaid
  <1>7. \/ UNCHANGED <<live, missed>>
        \/ \E i \in 1 .. Len(bus) : bus[i] \in JobStates
    <2>1. CASE e \in JobStates
      <3>1. n + 1 \in 1 .. Len(bus)  BY <1>1
      <3> QED  BY <2>1, <3>1
    <2>2. CASE e \notin JobStates
      <3>1. live' = live /\ missed' = missed  BY <1>2, <2>2, ViewLemma DEF JobMessage
      <3> QED  BY <3>1
    <2> QED  BY <2>1, <2>2
  <1> QED  BY <1>3, <1>4, <1>5, <1>6, <1>7, ViewLemma, FetchAgainLemma, PageStepLemma

LEMMA BuyerLemma ==
  ASSUME JobPageInv, SubmitDispute \/ DisputeAnswered
  PROVE  JobPageInv'
  <1>1. UNCHANGED workerVars /\ UNCHANGED <<bus, detail, live, failing, reader, missed>>
    BY DEF SubmitDispute, DisputeAnswered, workerVars, viewVars
  <1>2. FetchAgain \/ UNCHANGED fetch
    BY DEF SubmitDispute, DisputeAnswered, DisputeUnheard, viewVars
  <1>3. contest' \in {None, "posted", "resolved", "refused", "unheard"}
    BY DEF SubmitDispute, DisputeAnswered, DisputeUnheard
  <1>4. drops' \in 0 .. MaxDrops
    BY ViewLemma, JobPageAssumption
    DEF SubmitDispute, DisputeAnswered, DisputeUnheard, Unreachable
  <1>5. ViewTypes'  BY <1>1, <1>2, <1>3, <1>4, ViewLemma, FetchAgainLemma DEF ViewTypes
  <1>6. LiveFollowsBus'  BY <1>1, LiveStaysLemma
  <1> QED  BY <1>1, <1>2, <1>5, <1>6, ViewLemma, FetchAgainLemma, PageStepLemma

LEMMA ReconnectLemma ==
  ASSUME JobPageInv, Reconnect
  PROVE  JobPageInv'
  <1>1. UNCHANGED workerVars /\ UNCHANGED <<job, bus, detail, live, failing, fetch, missed, contest>>
        /\ drops' = drops + 1 /\ drops < MaxDrops
    BY DEF Reconnect, workerVars
  <1>2. reader' \in [at : {"closed", "open"}, read : Nat] /\ reader'.read = 0
    BY ViewLemma DEF Reconnect
  <1>3. ViewTypes'  BY <1>1, <1>2, ViewLemma, JobPageAssumption DEF ViewTypes
  <1>4. LiveFollowsBus'  BY <1>1, <1>2 DEF JobPageInv, LiveFollowsBus, Happened
  <1> QED  BY <1>1, <1>3, <1>4, ViewLemma, PageStepLemma

(* A restart: with nothing unheard, the live state is the present one.     *)
LEMMA WorkerRestartsLemma ==
  ASSUME JobPageInv, WorkerRestarts
  PROVE  JobPageInv'
  <1>1. /\ UNCHANGED <<job, onchain, detail, live>> /\ bus' = <<>>
        /\ engine' \in {"idle", "left"}
        /\ drops' = drops + 1 /\ drops < MaxDrops
        /\ fetch' = [f \in Fetches |-> IF fetch[f].at = "row" THEN Idle ELSE fetch[f]]
    BY DEF WorkerRestarts
  <1>2. Len(bus') = 0 /\ bus' \in Seq(BusEvents) /\ Len(bus) \in Nat  BY <1>1, ViewLemma
  <1>3. WorkerTypes'  BY <1>1, <1>2, RowLemma DEF WorkerTypes
  <1>4. reader' \in [at : {"closed", "open"}, read : Nat] /\ reader'.read = 0
        /\ reader'.at = reader.at
    BY ViewLemma DEF WorkerRestarts
  <1>5. failing' \in BOOLEAN /\ missed' \in BOOLEAN
        /\ contest' \in {None, "posted", "resolved", "refused", "unheard"}
    BY ViewLemma DEF WorkerRestarts
  <1>6. fetch' \in [Fetches -> FetchRecords] /\ \A f \in Fetches : Says(fetch'[f].says)
    BY <1>1, ViewLemma, IdleLemma
  <1>7. ViewTypes'
    BY <1>1, <1>2, <1>4, <1>5, <1>6, ViewLemma, JobPageAssumption DEF ViewTypes
  <1>8. RowFollowsChain'
    BY <1>1, RowLemma DEF RowFollowsChain, Happened, RowOutcome
  <1>9. missed' \/ live = job.state
    <2> SUFFICES ASSUME ~missed, engine # "unsaid", Heard PROVE live = job.state
      BY DEF WorkerRestarts
    <2> DEFINE n == Len(bus)
               r == reader.read
    <2>1. r \in Nat /\ n \in Nat /\ r <= n /\ \A j \in r + 1 .. n : bus[j] \notin JobStates
      BY ViewLemma DEF Heard
    <2>2. CASE LastSaid(n, job.state)
      <3>1. PICK i \in 1 .. n : bus[i] = job.state /\ \A k \in i + 1 .. n : bus[k] \notin JobStates
        BY <2>2 DEF LastSaid
      <3>2. i \in 1 .. r
        <4>1. i > r => i \in r + 1 .. n  BY <2>1
        <4> QED  BY <2>1, <3>1, <4>1, RowLemma
      <3>3. PICK j \in 1 .. r : /\ bus[j] = live /\ live \in JobStates
                                /\ \A k \in j + 1 .. r : bus[k] \notin JobStates
        BY <3>1, <3>2, RowLemma DEF JobPageInv, LiveFollowsBus, LastSaid
      <3>4. (i < j => j \in i + 1 .. n) /\ (j < i => i \in j + 1 .. r)  BY <2>1, <3>2
      <3>5. i = j  BY <2>1, <3>1, <3>2, <3>3, <3>4, RowLemma
      <3> QED  BY <3>1, <3>3, <3>5
    <2>3. CASE live = job.state  BY <2>3
    <2> QED  BY <2>2, <2>3 DEF JobPageInv, BusFollowsRow
  <1>10. BusFollowsRow'  BY <1>1, <1>2, <1>9 DEF BusFollowsRow
  <1>11. LiveFollowsBus'
    BY <1>1, <1>2, <1>4 DEF JobPageInv, LiveFollowsBus, Happened
  <1>12. Says(detail)' /\ \A f \in Fetches : Says(fetch[f].says)'
    BY <1>1, <1>6, ViewLemma DEF Says, Happened
  <1> QED  BY <1>3, <1>7, <1>8, <1>10, <1>11, <1>12 DEF JobPageInv
------------------------------------------------------------------------------
LEMMA JobPageInitLemma ==
  ASSUME JobPageInit
  PROVE  JobPageInv
  <1>1. job \in JobRecords /\ job.state = "AWAITING_DELIVERY" /\ job.outcome = None
        /\ ~job.artifact /\ ~job.verdict
    BY DEF JobPageInit, JobRecords, JobStates, Outcomes, None
  <1>2. bus \in Seq(BusEvents) /\ Len(bus) = 1 /\ bus[1] = "AWAITING_DELIVERY"
    BY DEF JobPageInit, BusEvents, JobStates
  <1>3. WorkerTypes  BY <1>1, <1>2 DEF WorkerTypes, JobPageInit
  <1>4. \A f \in Fetches : fetch[f] \in FetchRecords /\ fetch[f].says = NoRow
    BY NoRowLemma DEF JobPageInit, Idle, FetchRecords
  <1>5. fetch \in [Fetches -> FetchRecords]  BY <1>4 DEF JobPageInit
  <1>6. ViewTypes
    <2>1. reader \in [at : {"closed", "open"}, read : Nat] /\ reader.read <= Len(bus)
      BY <1>2 DEF JobPageInit
    <2>2. detail \in Answers /\ live = None /\ failing \in BOOLEAN /\ contest = None /\ drops = 0
         /\ missed \in BOOLEAN
      BY NoRowLemma DEF JobPageInit
    <2> QED  BY <1>5, <2>1, <2>2, JobPageAssumption DEF ViewTypes
  <1>7. RowFollowsChain
    BY <1>1 DEF RowFollowsChain, Happened, IsTerminal, JobPageInit
  <1>8. BusFollowsRow
    <2>1. 1 \in 1 .. Len(bus) /\ \A i \in 1 .. Len(bus) : i = 1  BY <1>2
    <2>2. 1 + 1 .. Len(bus) = {}  BY <1>2
    <2> QED  BY <1>1, <1>2, <2>1, <2>2 DEF BusFollowsRow, LastSaid, Happened, IsTerminal
  <1>9. LiveFollowsBus  BY DEF JobPageInit, LiveFollowsBus
  <1>10. Says(NoRow)
    BY DEF NoRow, Says, Happened, IsTerminal, Unfetched, None
  <1>11. detail = NoRow  BY DEF JobPageInit
  <1> QED  BY <1>3, <1>4, <1>6, <1>7, <1>8, <1>9, <1>10, <1>11 DEF JobPageInv

THEOREM JobPageInvariance == JobPageSpec => []JobPageInv
  <1>1. JobPageInit => JobPageInv  BY JobPageInitLemma
  <1>2. JobPageInv /\ [JobPageNext]_jobVars => JobPageInv'
    <2> SUFFICES ASSUME JobPageInv, [JobPageNext]_jobVars PROVE JobPageInv'  OBVIOUS
    <2>1. CASE WorkerStep  BY <2>1, WorkerStepLemma
    <2>2. CASE \E f \in Fetches : ReadRow(f) \/ ReadRest(f) \/ Answered(f) \/ FetchFails(f)
      BY <2>2, ReadRowLemma, ReadRestLemma, AnsweredLemma, FetchFailsLemma
    <2>3. CASE JobMessage  BY <2>3, JobMessageLemma
    <2>4. CASE SubmitDispute \/ DisputeAnswered  BY <2>4, BuyerLemma
    <2>5. CASE Reconnect  BY <2>5, ReconnectLemma
    <2>7. CASE WorkerRestarts  BY <2>7, WorkerRestartsLemma
    <2>6. CASE UNCHANGED jobVars
      <3>1. UNCHANGED workerVars /\ UNCHANGED viewVars /\ UNCHANGED <<contest, drops>>
        BY <2>6 DEF jobVars, workerVars, viewVars
      <3>2. UNCHANGED <<bus, detail, live, failing, reader, fetch, missed>>
        BY <2>6 DEF jobVars
      <3>3. ViewTypes' /\ LiveFollowsBus'
        BY <3>1, <3>2, ViewLemma, LiveStaysLemma DEF ViewTypes
      <3> QED  BY <3>1, <3>2, <3>3, ViewLemma, PageStepLemma
    <2> QED  BY <2>1, <2>2, <2>3, <2>4, <2>5, <2>6, <2>7 DEF JobPageNext
  <1> QED  BY <1>1, <1>2, PTL DEF JobPageSpec
------------------------------------------------------------------------------
(* The page's state and the job's keep the types JobPage gives them.       *)
THEOREM JobPageTyped == JobPageSpec => []JobPageTypeOK
  <1>1. JobPageInv => JobPageTypeOK
    <2> SUFFICES ASSUME JobPageInv PROVE JobPageTypeOK  OBVIOUS
    <2>1. \A i \in DOMAIN bus : bus[i] \in BusEvents  BY DEF JobPageInv, WorkerTypes
    <2>2. \A f \in Fetches : fetch[f].at \in {"free", "asked", "row", "read"}
      BY ViewLemma DEF FetchRecords
    <2>3. reader.at \in {"closed", "open"} /\ reader.read \in 0 .. Len(bus)  BY ViewLemma
    <2> QED  BY <2>1, <2>2, <2>3, RowLemma, ViewLemma DEF JobPageTypeOK, BusEvents, Outcomes
  <1> QED  BY <1>1, JobPageInvariance, PTL

(* The state the page shows is one the job was in, or none yet.            *)
LEMMA ShownStateLemma ==
  ASSUME JobPageInv
  PROVE  Happened(ShownState)
  BY ViewLemma DEF JobPageInv, LiveFollowsBus, Says, ShownState

(* JobDetail.tsx "can never render an optimistic lie": every terminal      *)
(* state, outcome and reached step it shows has happened, whatever the     *)
(* order in which overlapping fetches and the stream's events came.        *)
THEOREM PagesTellNoLie == JobPageSpec => []NoOptimisticLie
  <1>1. JobPageInv => NoOptimisticLie
    <2> SUFFICES ASSUME JobPageInv PROVE NoOptimisticLie  OBVIOUS
    <2> DEFINE s == ShownState
               step == ReachedStep(s, detail.artifact, detail.verdict)
    <2>1. Happened(s) /\ RowFollowsChain /\ Says(detail)
      BY ShownStateLemma DEF JobPageInv
    <2>2. IsTerminal(s) => job.state = s /\ onchain # "FUNDED"
      BY <2>1 DEF Happened, RowFollowsChain
    <2>3. ShownOutcome \in {None, onchain} \/ (onchain = "expired" /\ ShownOutcome = "refund")
      BY <2>1 DEF Says, ShownOutcome, RowFollowsChain, RowOutcome
    <2>4. (step >= 2 => job.artifact) /\ (step = 4 => job.verdict)
      <3>1. CASE s = "EXPIRED"
        <4>1. step = IF detail.verdict THEN 3 ELSE IF detail.artifact THEN 2 ELSE 1
          BY <3>1 DEF ReachedStep
        <4> HIDE DEF step
        <4> QED  BY <2>1, <4>1 DEF Says, RowFollowsChain
      <3>2. CASE s # "EXPIRED"
        <4>1. step = LifecycleIndex(s)  BY <3>2 DEF ReachedStep
        <4>2. s \in {"SETTLED", "ABSTAINED", "RESOLVED"} => job.verdict  BY <2>1 DEF Happened
        <4>3. s \notin {"AWAITING_DELIVERY", "EXPIRED", Unfetched, None} => job.artifact
          BY <2>1 DEF Happened
        <4> HIDE DEF s
        <4>4. LifecycleIndex(s) >= 2
                => s \notin {"AWAITING_DELIVERY", "EXPIRED", Unfetched, None}
          BY <3>2 DEF LifecycleIndex, IsTerminal, Unfetched, None
        <4>5. LifecycleIndex(s) = 4 => s \in {"SETTLED", "ABSTAINED", "RESOLVED"}
          BY <3>2 DEF LifecycleIndex, IsTerminal
        <4> HIDE DEF step
        <4> QED  BY <4>1, <4>2, <4>3, <4>4, <4>5
      <3> QED  BY <3>1, <3>2
    <2> QED  BY <2>2, <2>3, <2>4 DEF NoOptimisticLie
  <1> QED  BY <1>1, JobPageInvariance, PTL

(* An open tab updates in real time: once every event is read and every    *)
(* fetch is answered, the page shows the state of the job's row, unless a  *)
(* restart of the worker took a state it had not heard and it has heard    *)
(* none since.                                                             *)
THEOREM OpenTabsCatchUp == JobPageSpec => []OpenTabIsCurrent
  <1>1. JobPageInv => OpenTabIsCurrent
    <2> SUFFICES ASSUME JobPageInv, Quiet, ~missed PROVE ShownState = job.state
      BY DEF OpenTabIsCurrent
    <2> DEFINE n == Len(bus)
    <2>1. n \in Nat /\ reader.read = n /\ engine # "unsaid" /\ job.state \in JobStates
      BY ViewLemma, RowLemma DEF Quiet
    <2>2. live = job.state
      <3>1. CASE LastSaid(n, job.state)
        <4>1. PICK i \in 1 .. n :
                bus[i] = job.state /\ \A k \in i + 1 .. n : bus[k] \notin JobStates
          BY <3>1 DEF LastSaid
        <4>2. PICK j \in 1 .. n : /\ bus[j] = live /\ live \in JobStates
                                  /\ \A k \in j + 1 .. n : bus[k] \notin JobStates
          BY <2>1, <4>1 DEF JobPageInv, LiveFollowsBus, LastSaid
        <4>3. (i < j => j \in i + 1 .. n) /\ (j < i => i \in j + 1 .. n)  BY <2>1
        <4>4. i = j  BY <2>1, <4>1, <4>2, <4>3
        <4> QED  BY <4>1, <4>2, <4>4
      <3>2. CASE live = job.state  BY <3>2
      <3> QED  BY <2>1, <3>1, <3>2 DEF JobPageInv, BusFollowsRow
    <2>3. live # None  BY <2>1, <2>2 DEF JobStates, None
    <2>4. IsTerminal(detail.state) => job.state = detail.state
      BY DEF JobPageInv, Says, Happened
    <2> QED  BY <2>2, <2>3, <2>4 DEF ShownState
  <1> QED  BY <1>1, JobPageInvariance, PTL
-------------------------------------------------------------------------------

(***************************************************************************)
(* The human's way to a funded job (HumanHire).                            *)
(***************************************************************************)
Sayings == {"nothing", "uncharged", "error", "working"}
Signatures == {NotSigned} \cup {BuildAuthorization(h, v) : h \in Hires, v \in Vendors}
RelayRecords == [at : RelaySteps, to : Vendors \cup {"none"}]
ClickRecords == [at : {"new", "sending", "sent", "done", "failed"}, since : 0 .. MaxHireTime,
                 fate : {"known", "unheard", "forgotten"},
                 told : {"nothing", "received", "error"}]

CatalogTypes ==
  /\ sellers \subseteq Vendors \X {"healthy", "unhealthy"} \X {"none", "filled"}
  /\ reachable \subseteq Vendors

HirePageTypes ==
  /\ hirePage \in [at : PageSteps, hire : 0 .. MaxHires, seller : Vendors \cup {"none"}]
  /\ hirePage.at # "idle" => hirePage.hire \in Hires /\ hirePage.seller \in Vendors
  /\ said \in [Hires -> Sayings]

WorkTypes ==
  /\ hireTask \in [Hires -> Vendors \cup {"none"}] /\ signed \in [Hires -> Signatures]
  /\ relayed \in [Hires -> RelayRecords] /\ jobs \subseteq Hires
  /\ mempool \subseteq Hires /\ hireEscrow \in [Hires -> {"EMPTY", "FUNDED", "CLOSED"}]

PurseTypes == wallet \in Nat /\ mishaps \in 0 .. MaxMishaps

FaucetTypes ==
  /\ click \in [Clicks -> ClickRecords] /\ lastDrip \in 0 .. MaxHireTime
  /\ dripped \subseteq sentDrips /\ sentDrips \subseteq Clicks
  /\ hireNow \in 1 .. MaxHireTime /\ lastDrip <= hireNow

(* One hire, by the work id it got: nothing is signed before the page asks *)
(* for it, nothing moves without a signature over the registered terms, no *)
(* job comes before the money, and the page has said nothing of a hire     *)
(* that it is still at.                                                    *)
Work(h) ==
  /\ hirePage.hire < h =>
       signed[h] = NotSigned /\ relayed[h].at = "none" /\ said[h] = "nothing"
  /\ hirePage.hire = h /\ hirePage.at \in {"registering", "signing"} =>
       signed[h] = NotSigned /\ relayed[h].at = "none"
  /\ hirePage.hire = h /\ hirePage.at # "idle" => said[h] = "nothing"
  /\ relayed[h].at = "checking" => signed[h] = BuildAuthorization(h, relayed[h].to)
  /\ h \in mempool \/ hireEscrow[h] # "EMPTY" => signed[h] = BuildAuthorization(h, hireTask[h])
  /\ h \in jobs => hireEscrow[h] # "EMPTY"
  /\ said[h] = "working" => h \in jobs

(* The faucet: a click that is told of its drip has it; while every fate   *)
(* is heard, the reservation is that of the latest drip since the restart  *)
(* and the drips that hold one are a cooldown apart.                       *)
AllHeard == \A c \in Clicks : click[c].fate # "unheard"
Reserved(c) == click[c].at \in {"sending", "sent", "done"} /\ click[c].fate # "forgotten"
Apart(c, d) == click[c].since >= click[d].since + Cooldown
               \/ click[d].since >= click[c].since + Cooldown

DripsHeard ==
  /\ \A c \in Clicks : click[c].at = "done" \/ click[c].told = "received" => c \in dripped
  /\ \A c \in sentDrips : click[c].at \in {"sent", "done"} \/ click[c].fate # "known"
  /\ AllHeard => \A c \in Clicks : Reserved(c) => 1 <= click[c].since /\ click[c].since <= lastDrip
  /\ AllHeard => \A c, d \in Clicks : Reserved(c) /\ Reserved(d) /\ c # d => Apart(c, d)

HireInv ==
  /\ CatalogTypes /\ HirePageTypes /\ WorkTypes /\ PurseTypes /\ FaucetTypes
  /\ (\A h \in Hires : Work(h)) /\ DripsHeard
------------------------------------------------------------------------------
(* A signature over the terms of a hire is not the absence of one.         *)
LEMMA SignatureLemma ==
  /\ NotSigned \in Signatures
  /\ \A h, v : BuildAuthorization(h, v) # NotSigned
  /\ \A h \in Hires, v \in Vendors : BuildAuthorization(h, v) \in Signatures
  <1>1. \A h, v : BuildAuthorization(h, v).value = Price  BY DEF BuildAuthorization
  <1>2. NotSigned.value = 0 /\ Price # 0  BY HireAssumption DEF NotSigned
  <1>3. \A h, v : BuildAuthorization(h, v) # NotSigned  BY <1>1, <1>2
  <1> QED  BY <1>3 DEF Signatures

LEMMA HireTypesLemma ==
  ASSUME HireInv
  PROVE  /\ CatalogTypes /\ HirePageTypes /\ WorkTypes /\ PurseTypes /\ FaucetTypes /\ DripsHeard
         /\ hirePage.at \in PageSteps /\ hirePage.hire \in 0 .. MaxHires
         /\ hirePage.seller \in Vendors \cup {"none"}
         /\ \A h \in Hires : relayed[h].at \in RelaySteps /\ relayed[h].to \in Vendors \cup {"none"}
         /\ \A h \in Hires : h \in Nat /\ Work(h)
  BY HireAssumption DEF HireInv, HirePageTypes, WorkTypes, RelayRecords, Hires

LEMMA MishapLemma ==
  ASSUME HireInv, Mishap \/ UNCHANGED mishaps
  PROVE  mishaps' \in 0 .. MaxMishaps
  BY HireAssumption DEF HireInv, PurseTypes, Mishap

(* A step of the hire leaves the faucet as it is.                          *)
LEMMA HireSideLemma ==
  ASSUME HireInv, UNCHANGED faucet, UNCHANGED hireNow, Mishap \/ UNCHANGED mishaps,
         CatalogTypes', HirePageTypes', WorkTypes', wallet' \in Nat, \A h \in Hires : Work(h)'
  PROVE  HireInv'
  <1>1. UNCHANGED <<click, lastDrip, sentDrips, dripped, hireNow>>  BY DEF faucet
  <1>2. FaucetTypes' /\ DripsHeard'
    BY <1>1 DEF HireInv, FaucetTypes, DripsHeard, AllHeard, Reserved, Apart
  <1> QED  BY <1>2, MishapLemma DEF HireInv, PurseTypes

(* A step of the faucet leaves the hire as it is.                          *)
LEMMA FaucetSideLemma ==
  ASSUME HireInv, UNCHANGED <<catalog, hirePage, said, worker, mempool, hireEscrow>>,
         Mishap \/ UNCHANGED mishaps, wallet' \in Nat, FaucetTypes', DripsHeard'
  PROVE  HireInv'
  <1>1. UNCHANGED <<sellers, reachable, hirePage, said, hireTask, signed, relayed, jobs, mempool,
                    hireEscrow>>
    BY DEF catalog, worker
  <1>2. CatalogTypes' /\ HirePageTypes' /\ WorkTypes'
    BY <1>1 DEF HireInv, CatalogTypes, HirePageTypes, WorkTypes
  <1>3. \A h \in Hires : Work(h)'  BY <1>1 DEF HireInv, Work
  <1> QED  BY <1>2, <1>3, MishapLemma DEF HireInv, PurseTypes

LEMMA CatalogLemma ==
  ASSUME HireInv, (\E r \in Registrations : RegisterSeller(r)) \/ (\E v \in Vendors : GoesDown(v))
  PROVE  HireInv'
  <1>1. UNCHANGED <<hirePage, said, hireTask, signed, relayed, jobs, mempool, hireEscrow, wallet>>
        /\ UNCHANGED faucet /\ UNCHANGED hireNow /\ (Mishap \/ UNCHANGED mishaps)
    BY DEF RegisterSeller, GoesDown, worker, money
  <1>2. CatalogTypes'
    <2>1. ASSUME NEW r \in Registrations, RegisterSeller(r)  PROVE CatalogTypes'
      <3>1. r.vendor \in Vendors /\ r.template \in {"none", "filled"}
        BY <2>1 DEF RegisterSeller, ValidateRegistration, Registrations
      <3>2. Probe(r.vendor) \in {"healthy", "unhealthy"}  BY DEF Probe
      <3> QED  BY <2>1, <3>1, <3>2 DEF RegisterSeller, SaveSeller, HireInv, CatalogTypes
    <2> QED  BY <2>1 DEF GoesDown, HireInv, CatalogTypes
  <1>3. HirePageTypes' /\ WorkTypes' /\ wallet' \in Nat
    BY <1>1 DEF HireInv, HirePageTypes, WorkTypes, PurseTypes
  <1>4. \A h \in Hires : Work(h)'  BY <1>1 DEF HireInv, Work
  <1> QED  BY <1>1, <1>2, <1>3, <1>4, HireSideLemma

LEMMA PickAndHireLemma ==
  ASSUME HireInv, NEW v \in Vendors, PickAndHire(v)
  PROVE  HireInv'
  <1>1. UNCHANGED <<sellers, reachable, said, hireTask, signed, relayed, jobs, mempool, hireEscrow,
                    wallet>>
        /\ UNCHANGED faucet /\ UNCHANGED hireNow /\ UNCHANGED mishaps
    BY DEF PickAndHire, catalog, worker, money
  <1>2. hirePage' = [at |-> "registering", hire |-> hirePage.hire + 1, seller |-> v]
        /\ hirePage.at = "idle" /\ hirePage.hire < MaxHires
    BY DEF PickAndHire
  <1>3. hirePage.hire + 1 \in Hires /\ hirePage.hire + 1 \in 0 .. MaxHires
    BY <1>2, HireTypesLemma, HireAssumption DEF Hires
  <1>4. HirePageTypes'  BY <1>1, <1>2, <1>3, HireTypesLemma DEF HirePageTypes, PageSteps
  <1>5. CatalogTypes' /\ WorkTypes' /\ wallet' \in Nat
    BY <1>1 DEF HireInv, CatalogTypes, WorkTypes, PurseTypes
  <1>6. ASSUME NEW h \in Hires PROVE Work(h)'
    <2>1. Work(h) /\ h \in Nat /\ hirePage.hire \in Nat  BY HireTypesLemma
    <2>2. hirePage'.hire = hirePage.hire + 1 /\ hirePage'.at = "registering"  BY <1>2
    <2>3. hirePage.hire + 1 < h \/ hirePage.hire + 1 = h => hirePage.hire < h  BY <2>1
    <2>4. CASE hirePage.hire < h  BY <1>1, <2>1, <2>4, SignatureLemma DEF Work
    <2>5. CASE ~(hirePage.hire < h)
      <3>1. ~(hirePage'.hire < h) /\ hirePage'.hire # h  BY <2>2, <2>3, <2>5
      <3> QED  BY <1>1, <2>1, <3>1 DEF Work
    <2> QED  BY <2>4, <2>5
  <1> QED  BY <1>1, <1>4, <1>5, <1>6, HireSideLemma

(* The page's own move: it goes to another step, and tells of its hire.    *)
LEMMA MoveLemma ==
  ASSUME HireInv, hirePage.at # "idle", NEW to \in PageSteps, Step(to),
         UNCHANGED said \/ (\E what \in Sayings : Tell(Here, what))
  PROVE  /\ HirePageTypes' /\ Here \in Hires
         /\ hirePage'.at = to /\ hirePage'.hire = Here /\ hirePage'.seller = hirePage.seller
         /\ \A h \in Hires : h # Here => said'[h] = said[h]
         /\ \A what : Tell(Here, what) => said'[Here] = what
  <1>1. hirePage \in [at : PageSteps, hire : 0 .. MaxHires, seller : Vendors \cup {"none"}]
        /\ Here \in Hires /\ hirePage.seller \in Vendors /\ said \in [Hires -> Sayings]
    BY DEF HireInv, HirePageTypes, Here
  <1>2. hirePage' = [hirePage EXCEPT !.at = to]  BY DEF Step
  <1>3. hirePage'.at = to /\ hirePage'.hire = Here /\ hirePage'.seller = hirePage.seller
    BY <1>1, <1>2 DEF Here
  <1>4. said' \in [Hires -> Sayings] /\ (\A h \in Hires : h # Here => said'[h] = said[h])
        /\ \A what : Tell(Here, what) => said'[Here] = what
    BY <1>1 DEF Tell
  <1> QED  BY <1>1, <1>2, <1>3, <1>4 DEF HirePageTypes, Here

LEMMA RegisterTaskLemma ==
  ASSUME HireInv, RegisterTask
  PROVE  HireInv'
  <1>1. UNCHANGED <<sellers, reachable, signed, relayed, jobs, mempool, hireEscrow, wallet>>
        /\ UNCHANGED faucet /\ UNCHANGED hireNow /\ (Mishap \/ UNCHANGED mishaps)
        /\ hirePage.at = "registering"
    BY DEF RegisterTask, catalog, money
  <1>2. PICK to \in {"signing", "idle"} :
          Step(to) /\ IF to = "signing" THEN UNCHANGED said
                     ELSE \E what \in {"error", "uncharged"} : Tell(Here, what)
    BY DEF RegisterTask, FlowFails
  <1>3. to \in PageSteps /\ {"error", "uncharged"} \subseteq Sayings  BY DEF PageSteps, Sayings
  <1>4. /\ HirePageTypes' /\ Here \in Hires /\ hirePage'.at = to /\ hirePage'.hire = Here
        /\ \A h \in Hires : h # Here => said'[h] = said[h]
        /\ to = "idle" => said'[Here] \in {"error", "uncharged"}
    BY <1>1, <1>2, <1>3, MoveLemma
  <1>5. hireTask' \in {hireTask, [hireTask EXCEPT ![Here] = hirePage.seller]}
    BY DEF RegisterTask
  <1>6. hireTask' \in [Hires -> Vendors \cup {"none"}]
        /\ \A h \in Hires : h # Here => hireTask'[h] = hireTask[h]
    BY <1>4, <1>5, HireTypesLemma DEF WorkTypes
  <1>7. CatalogTypes' /\ WorkTypes' /\ wallet' \in Nat
    BY <1>1, <1>6 DEF HireInv, CatalogTypes, WorkTypes, PurseTypes
  <1>8. ASSUME NEW h \in Hires PROVE Work(h)'
    <2>1. Work(h)  BY HireTypesLemma
    <2>2. CASE h = Here
      <3>1. signed[h] = NotSigned /\ relayed[h].at = "none" /\ said[h] = "nothing"
        BY <1>1, <2>1, <2>2 DEF Work, Here
      <3>2. h \notin mempool /\ hireEscrow[h] = "EMPTY" /\ h \notin jobs
        BY <2>1, <3>1, SignatureLemma DEF Work
      <3>3. said'[h] \in {"nothing", "error", "uncharged"} /\ (to # "idle" => said'[h] = "nothing")
        BY <1>2, <1>4, <2>2, <3>1
      <3>4. ~(Here < Here)  BY HireTypesLemma DEF Here
      <3> QED  BY <1>1, <1>2, <1>4, <2>2, <3>1, <3>2, <3>3, <3>4 DEF Work, Here
    <2>3. CASE h # Here  BY <1>1, <1>4, <1>6, <2>1, <2>3 DEF Work, Here
    <2> QED  BY <2>2, <2>3
  <1> QED  BY <1>1, <1>4, <1>7, <1>8, HireSideLemma

LEMMA SignAuthorizationLemma ==
  ASSUME HireInv, SignAuthorization
  PROVE  HireInv'
  <1>1. UNCHANGED <<sellers, reachable, hireTask, jobs, mempool, hireEscrow, wallet>>
        /\ UNCHANGED faucet /\ UNCHANGED hireNow /\ UNCHANGED mishaps /\ hirePage.at = "signing"
    BY DEF SignAuthorization, catalog, money
  <1>2. PICK to \in {"funding", "idle"} :
          /\ Step(to)
          /\ IF to = "funding"
             THEN /\ UNCHANGED said
                  /\ signed' = [signed EXCEPT ![Here] = BuildAuthorization(Here, hirePage.seller)]
                  /\ relayed' = [relayed EXCEPT ![Here] = FundBody(hirePage.seller)]
             ELSE /\ \E what \in {"error", "uncharged"} : Tell(Here, what)
                  /\ UNCHANGED <<signed, relayed>>
    BY DEF SignAuthorization, FlowFails
  <1>3. to \in PageSteps /\ {"error", "uncharged"} \subseteq Sayings  BY DEF PageSteps, Sayings
  <1>4. /\ HirePageTypes' /\ Here \in Hires /\ hirePage'.at = to /\ hirePage'.hire = Here
        /\ \A h \in Hires : h # Here => said'[h] = said[h]
        /\ to = "idle" => said'[Here] \in {"error", "uncharged"}
    BY <1>1, <1>2, <1>3, MoveLemma
  <1>5. hirePage.seller \in Vendors  BY <1>1, HireTypesLemma DEF HirePageTypes
  <1>6. FundBody(hirePage.seller) \in RelayRecords
        /\ FundBody(hirePage.seller).at = "asked"
    BY <1>5 DEF FundBody, RelayRecords, RelaySteps
  <1>7. BuildAuthorization(Here, hirePage.seller) \in Signatures
    BY <1>4, <1>5, SignatureLemma
  <1>8. /\ signed' \in [Hires -> Signatures] /\ relayed' \in [Hires -> RelayRecords]
        /\ \A h \in Hires : h # Here => signed'[h] = signed[h] /\ relayed'[h] = relayed[h]
        /\ to = "funding" => relayed'[Here].at = "asked"
    BY <1>2, <1>4, <1>6, <1>7, HireTypesLemma DEF WorkTypes
  <1>9. CatalogTypes' /\ WorkTypes' /\ wallet' \in Nat
    BY <1>1, <1>8 DEF HireInv, CatalogTypes, WorkTypes, PurseTypes
  <1>10. ASSUME NEW h \in Hires PROVE Work(h)'
    <2>1. Work(h)  BY HireTypesLemma
    <2>2. CASE h = Here
      <3>1. signed[h] = NotSigned /\ relayed[h].at = "none" /\ said[h] = "nothing"
        BY <1>1, <2>1, <2>2 DEF Work, Here
      <3>2. h \notin mempool /\ hireEscrow[h] = "EMPTY" /\ h \notin jobs
        BY <2>1, <3>1, SignatureLemma DEF Work
      <3>3. ~(Here < Here)  BY HireTypesLemma DEF Here
      <3>4. CASE to = "funding"
        BY <1>1, <1>2, <1>4, <1>8, <2>2, <3>1, <3>2, <3>3, <3>4 DEF Work, Here
      <3>5. CASE to = "idle"
        BY <1>1, <1>2, <1>4, <2>2, <3>1, <3>2, <3>3, <3>5 DEF Work, Here
      <3> QED  BY <3>4, <3>5
    <2>3. CASE h # Here  BY <1>1, <1>4, <1>8, <2>1, <2>3 DEF Work, Here
    <2> QED  BY <2>2, <2>3
  <1> QED  BY <1>1, <1>4, <1>9, <1>10, HireSideLemma
LEMMA AskLemma ==
  ASSUME HireInv, NEW h \in Hires, NEW step \in RelaySteps, Ask(h, step)
  PROVE  /\ relayed' \in [Hires -> RelayRecords]
         /\ relayed'[h].at = step /\ relayed'[h].to = relayed[h].to
         /\ \A g \in Hires : g # h => relayed'[g] = relayed[g]
  BY DEF HireInv, WorkTypes, Ask, RelayRecords

(* The relayer's steps: what it was asked, over a signature it checked.    *)
LEMMA RelayerLemma ==
  ASSUME HireInv, NEW h \in Hires, VerifyRelayerAuth(h) \/ SubmitGaslessly(h) \/ FundReceipt(h)
  PROVE  HireInv'
  <1>1. UNCHANGED <<sellers, reachable, hirePage, said, hireTask, signed, jobs, hireEscrow, wallet>>
        /\ UNCHANGED faucet /\ UNCHANGED hireNow /\ (Mishap \/ UNCHANGED mishaps)
        /\ relayed[h].at # "none"
    BY DEF VerifyRelayerAuth, SubmitGaslessly, FundReceipt, catalog, money
  <1>2. PICK step \in {"checking", "sent", "funded", "refused"} : Ask(h, step)
    BY DEF VerifyRelayerAuth, SubmitGaslessly, FundReceipt
  <1>3. step \in RelaySteps  BY DEF RelaySteps
  <1>4. /\ relayed' \in [Hires -> RelayRecords]
        /\ relayed'[h].at = step /\ relayed'[h].to = relayed[h].to
        /\ \A g \in Hires : g # h => relayed'[g] = relayed[g]
    BY <1>2, <1>3, AskLemma
  <1>5. /\ mempool' = mempool \/ (mempool' = mempool \cup {h}
                                  /\ relayed[h].at = "checking" /\ hireTask[h] = relayed[h].to)
        /\ step = "checking" => signed[h] = BuildAuthorization(h, relayed[h].to)
    <2>1. CASE VerifyRelayerAuth(h)
      BY <1>2, <1>4, <2>1, AskLemma DEF VerifyRelayerAuth, RelaySteps, money
    <2>2. CASE SubmitGaslessly(h)
      <3>1. step # "checking"
        BY <1>4, <2>2, AskLemma DEF SubmitGaslessly, RelaySteps
      <3> QED  BY <2>2, <3>1 DEF SubmitGaslessly, Payable
    <2>3. CASE FundReceipt(h)
      <3>1. step # "checking"  BY <1>4, <2>3, AskLemma DEF FundReceipt, RelaySteps
      <3> QED  BY <2>3, <3>1 DEF FundReceipt, money
    <2> QED  BY <2>1, <2>2, <2>3
  <1>6. CatalogTypes' /\ HirePageTypes' /\ WorkTypes' /\ wallet' \in Nat
    <2>1. mempool' \subseteq Hires  BY <1>5 DEF HireInv, WorkTypes
    <2> QED  BY <1>1, <1>4, <2>1 DEF HireInv, CatalogTypes, HirePageTypes, WorkTypes, PurseTypes
  <1>7. ASSUME NEW g \in Hires PROVE Work(g)'
    <2>1. Work(g)  BY HireTypesLemma
    <2>2. CASE g = h
      <3>1. ~(hirePage.hire < h)
            /\ ~(hirePage.hire = h /\ hirePage.at \in {"registering", "signing"})
        BY <1>1, <2>1, <2>2 DEF Work
      <3>2. h \in mempool' => signed[h] = BuildAuthorization(h, hireTask[h])
        BY <1>5, <2>1, <2>2 DEF Work
      <3> QED  BY <1>1, <1>4, <1>5, <2>1, <2>2, <3>1, <3>2 DEF Work
    <2>3. CASE g # h
      <3>1. g \in mempool' <=> g \in mempool  BY <1>5, <2>3
      <3> QED  BY <1>1, <1>4, <2>1, <2>3, <3>1 DEF Work
    <2> QED  BY <2>2, <2>3
  <1> QED  BY <1>1, <1>6, <1>7, HireSideLemma

(* External: the price moves, or the transaction reverts.                  *)
LEMMA MineFundLemma ==
  ASSUME HireInv, MineFund
  PROVE  HireInv'
  <1>1. UNCHANGED <<sellers, reachable, hirePage, said, hireTask, signed, relayed, jobs>>
        /\ UNCHANGED faucet /\ UNCHANGED hireNow /\ UNCHANGED mishaps
    BY DEF MineFund, catalog, worker
  <1>2. PICK h \in mempool :
          /\ mempool' = mempool \ {h}
          /\ IF wallet >= Price
             THEN hireEscrow' = [hireEscrow EXCEPT ![h] = "FUNDED"] /\ wallet' = wallet - Price
             ELSE UNCHANGED <<hireEscrow, wallet>>
    BY DEF MineFund
  <1>3. h \in Hires /\ wallet \in Nat /\ Price \in Nat
    BY HireAssumption DEF HireInv, WorkTypes, PurseTypes
  <1>4. wallet' \in Nat  BY <1>2, <1>3
  <1>5. /\ hireEscrow' \in [Hires -> {"EMPTY", "FUNDED", "CLOSED"}]
        /\ \A g \in Hires : g # h => hireEscrow'[g] = hireEscrow[g]
        /\ hireEscrow[h] # "EMPTY" => hireEscrow'[h] # "EMPTY"
    BY <1>2, <1>3 DEF HireInv, WorkTypes
  <1>6. CatalogTypes' /\ HirePageTypes' /\ WorkTypes'
    BY <1>1, <1>2, <1>5 DEF HireInv, CatalogTypes, HirePageTypes, WorkTypes
  <1>7. ASSUME NEW g \in Hires PROVE Work(g)'
    <2>1. Work(g)  BY HireTypesLemma
    <2>2. CASE g = h  BY <1>1, <1>2, <1>5, <2>1, <2>2 DEF Work
    <2>3. CASE g # h  BY <1>1, <1>2, <1>5, <2>1, <2>3 DEF Work
    <2> QED  BY <2>2, <2>3
  <1> QED  BY <1>1, <1>4, <1>6, <1>7, HireSideLemma

(* The relayer's answer, and the dispatch: the page goes on or fails.      *)
LEMMA FundAnsweredLemma ==
  ASSUME HireInv, FundAnswered
  PROVE  HireInv'
  <1>1. UNCHANGED <<sellers, reachable, hireTask, signed, relayed, jobs, mempool, hireEscrow, wallet>>
        /\ UNCHANGED faucet /\ UNCHANGED hireNow /\ (Mishap \/ UNCHANGED mishaps)
        /\ hirePage.at = "funding"
    BY DEF FundAnswered, catalog, worker, money
  <1>2. PICK to \in {"dispatching", "idle"} :
          Step(to) /\ IF to = "dispatching" THEN UNCHANGED said
                     ELSE \E what \in {"error", "uncharged"} : Tell(Here, what)
    BY DEF FundAnswered, FlowFails
  <1>3. to \in PageSteps /\ {"error", "uncharged"} \subseteq Sayings  BY DEF PageSteps, Sayings
  <1>4. /\ HirePageTypes' /\ Here \in Hires /\ hirePage'.at = to /\ hirePage'.hire = Here
        /\ \A h \in Hires : h # Here => said'[h] = said[h]
        /\ to = "idle" => said'[Here] \in {"error", "uncharged"}
    BY <1>1, <1>2, <1>3, MoveLemma
  <1>5. CatalogTypes' /\ WorkTypes' /\ wallet' \in Nat
    BY <1>1 DEF HireInv, CatalogTypes, WorkTypes, PurseTypes
  <1>6. ASSUME NEW h \in Hires PROVE Work(h)'
    <2>1. Work(h) /\ ~(Here < Here)  BY HireTypesLemma DEF Here
    <2>2. CASE h = Here  BY <1>1, <1>2, <1>4, <2>1, <2>2 DEF Work, Here
    <2>3. CASE h # Here  BY <1>1, <1>4, <2>1, <2>3 DEF Work, Here
    <2> QED  BY <2>2, <2>3
  <1> QED  BY <1>1, <1>4, <1>5, <1>6, HireSideLemma

LEMMA DispatchJobLemma ==
  ASSUME HireInv, DispatchJob
  PROVE  HireInv'
  <1>1. UNCHANGED <<sellers, reachable, hireTask, signed, relayed, mempool, hireEscrow, wallet>>
        /\ UNCHANGED faucet /\ UNCHANGED hireNow /\ (Mishap \/ UNCHANGED mishaps)
        /\ hirePage.at = "dispatching" /\ Step("idle")
    BY DEF DispatchJob, CreateAndAck, FlowFails, catalog, money
  <1>2. PICK what \in {"working", "error", "uncharged"} : Tell(Here, what)
    BY DEF DispatchJob, CreateAndAck, FlowFails
  <1>3. "idle" \in PageSteps /\ what \in Sayings  BY DEF PageSteps, Sayings
  <1>4. /\ HirePageTypes' /\ Here \in Hires /\ hirePage'.at = "idle" /\ hirePage'.hire = Here
        /\ \A h \in Hires : h # Here => said'[h] = said[h]
        /\ \A w : Tell(Here, w) => said'[Here] = w
    BY <1>1, <1>2, <1>3, MoveLemma
  <1>5. /\ jobs' = jobs \/ (jobs' = jobs \cup {Here} /\ hireEscrow[Here] = "FUNDED")
        /\ said'[Here] = "working" => Here \in jobs'
    <2>1. CASE hireTask[Here] # "none" /\ hireEscrow[Here] = "FUNDED"
      <3>1. CASE jobs' = jobs \cup {Here} /\ Tell(Here, "working")  BY <2>1, <3>1
      <3>2. CASE FlowFails /\ jobs' \in {jobs, jobs \cup {Here}}
        <4>1. said'[Here] \in {"error", "uncharged"}  BY <1>4, <3>2 DEF FlowFails
        <4> QED  BY <2>1, <3>2, <4>1
      <3> QED  BY <2>1, <3>1, <3>2 DEF DispatchJob, CreateAndAck
    <2>2. CASE ~(hireTask[Here] # "none" /\ hireEscrow[Here] = "FUNDED")
      <3>1. jobs' = jobs /\ FlowFails  BY <2>2 DEF DispatchJob
      <3>2. said'[Here] \in {"error", "uncharged"}  BY <1>4, <3>1 DEF FlowFails
      <3> QED  BY <3>1, <3>2
    <2> QED  BY <2>1, <2>2
  <1>6. said'[Here] \in {"working", "error", "uncharged"}  BY <1>2, <1>4
  <1>7. CatalogTypes' /\ WorkTypes' /\ wallet' \in Nat
    BY <1>1, <1>4, <1>5 DEF HireInv, CatalogTypes, WorkTypes, PurseTypes
  <1>8. ASSUME NEW h \in Hires PROVE Work(h)'
    <2>1. Work(h)  BY HireTypesLemma
    <2>2. CASE h = Here
      <3>1. hirePage.hire \in 0 .. MaxHires  BY HireTypesLemma
      <3>2. ~(hirePage.hire < hirePage.hire)  BY <3>1, HireAssumption
      <3> QED  BY <1>1, <1>4, <1>5, <1>6, <2>1, <2>2, <3>2 DEF Work, Here
    <2>3. CASE h # Here
      <3>1. h \in jobs' <=> h \in jobs  BY <1>5, <2>3
      <3> QED  BY <1>1, <1>4, <2>1, <2>3, <3>1 DEF Work, Here
    <2> QED  BY <2>2, <2>3
  <1> QED  BY <1>1, <1>4, <1>7, <1>8, HireSideLemma

LEMMA ConcludeLemma ==
  ASSUME HireInv, NEW h \in Hires, Conclude(h)
  PROVE  HireInv'
  <1>1. UNCHANGED <<sellers, reachable, hirePage, said, hireTask, signed, relayed, jobs, mempool>>
        /\ UNCHANGED faucet /\ UNCHANGED hireNow /\ UNCHANGED mishaps
    BY DEF Conclude, catalog, worker
  <1>2. hireEscrow[h] # "EMPTY" /\ hireEscrow' = [hireEscrow EXCEPT ![h] = "CLOSED"]
    BY DEF Conclude
  <1>3. wallet' \in Nat  BY HireAssumption DEF Conclude, HireInv, PurseTypes
  <1>4. /\ hireEscrow' \in [Hires -> {"EMPTY", "FUNDED", "CLOSED"}]
        /\ \A g \in Hires : hireEscrow'[g] # "EMPTY" <=> hireEscrow[g] # "EMPTY"
    BY <1>2 DEF HireInv, WorkTypes
  <1>5. CatalogTypes' /\ HirePageTypes' /\ WorkTypes'
    BY <1>1, <1>4 DEF HireInv, CatalogTypes, HirePageTypes, WorkTypes
  <1>6. \A g \in Hires : Work(g)'  BY <1>1, <1>4 DEF HireInv, Work
  <1> QED  BY <1>1, <1>3, <1>5, <1>6, HireSideLemma
------------------------------------------------------------------------------
(* A click's next step, field by field.                                    *)
LEMMA ClickFieldsLemma ==
  ASSUME NEW x \in ClickRecords
  PROVE  /\ x.at \in {"new", "sending", "sent", "done", "failed"} /\ x.since \in 0 .. MaxHireTime
         /\ x.fate \in {"known", "unheard", "forgotten"} /\ x.told \in {"nothing", "received", "error"}
  BY DEF ClickRecords

LEMMA MovedLemma ==
  ASSUME NEW x \in ClickRecords, NEW at \in {"new", "sending", "sent", "done", "failed"}
  PROVE  /\ [x EXCEPT !.at = at] \in ClickRecords
         /\ [x EXCEPT !.at = at].at = at /\ [x EXCEPT !.at = at].since = x.since
         /\ [x EXCEPT !.at = at].fate = x.fate /\ [x EXCEPT !.at = at].told = x.told
  BY DEF ClickRecords

LEMMA ReservedLemma ==
  ASSUME NEW x \in ClickRecords, NEW t \in 0 .. MaxHireTime
  PROVE  LET y == [x EXCEPT !.at = "sending", !.since = t]
         IN  y \in ClickRecords /\ y.at = "sending" /\ y.since = t /\ y.fate = x.fate
             /\ y.told = x.told
  BY DEF ClickRecords

LEMMA FailedLemma ==
  ASSUME NEW x \in ClickRecords
  PROVE  LET y == [x EXCEPT !.at = "failed", !.fate = "unheard"]
         IN  y \in ClickRecords /\ y.at = "failed" /\ y.fate = "unheard" /\ y.told = x.told
  BY DEF ClickRecords

LEMMA ToldLemma ==
  ASSUME NEW x \in ClickRecords, NEW told \in {"nothing", "received", "error"}
  PROVE  LET y == [x EXCEPT !.told = told]
         IN  y \in ClickRecords /\ y.at = x.at /\ y.since = x.since /\ y.fate = x.fate
             /\ y.told = told
  BY DEF ClickRecords

LEMMA FaucetTypesLemma ==
  ASSUME HireInv
  PROVE  /\ click \in [Clicks -> ClickRecords] /\ lastDrip \in 0 .. MaxHireTime
         /\ dripped \subseteq sentDrips /\ sentDrips \subseteq Clicks
         /\ hireNow \in 1 .. MaxHireTime /\ lastDrip <= hireNow /\ DripsHeard
         /\ lastDrip \in Nat /\ hireNow \in Nat /\ wallet \in Nat
         /\ \A d \in Clicks : click[d] \in ClickRecords /\ click[d].since \in Nat
  <1>1. /\ click \in [Clicks -> ClickRecords] /\ lastDrip \in 0 .. MaxHireTime
        /\ dripped \subseteq sentDrips /\ sentDrips \subseteq Clicks
        /\ hireNow \in 1 .. MaxHireTime /\ lastDrip <= hireNow /\ DripsHeard /\ wallet \in Nat
    BY DEF HireInv, FaucetTypes, PurseTypes
  <1>2. \A d \in Clicks : click[d] \in ClickRecords /\ click[d].since \in 0 .. MaxHireTime
    BY <1>1, ClickFieldsLemma
  <1> QED  BY <1>1, <1>2, HireAssumption

(* A request that failed keeps the faucet from hearing of all the fates.   *)
LEMMA DripFailsLemma ==
  ASSUME HireInv, NEW c \in Clicks, click[c].at \in {"sending", "sent"}, DripFails(c),
         sentDrips' \in {sentDrips, sentDrips \cup {c}}, UNCHANGED <<dripped, hireNow>>
  PROVE  FaucetTypes' /\ DripsHeard'
  <1> DEFINE x == [click[c] EXCEPT !.at = "failed", !.fate = "unheard"]
  <1>1. click' = [click EXCEPT ![c] = x] /\ lastDrip' = 0  BY DEF DripFails
  <1>2. x \in ClickRecords /\ x.at = "failed" /\ x.fate = "unheard" /\ x.told = click[c].told
    BY FaucetTypesLemma, FailedLemma
  <1> HIDE DEF x
  <1>3. \A d \in Clicks : click'[d] = IF d = c THEN x ELSE click[d]
    BY <1>1, FaucetTypesLemma
  <1>4. click' \in [Clicks -> ClickRecords]  BY <1>1, <1>2, FaucetTypesLemma
  <1>5. FaucetTypes'  BY <1>1, <1>4, FaucetTypesLemma, HireAssumption DEF FaucetTypes
  <1>6. ~AllHeard'  BY <1>2, <1>3 DEF AllHeard
  <1>7. \A d \in Clicks : click'[d].at = "done" \/ click'[d].told = "received" => d \in dripped'
    BY <1>2, <1>3, FaucetTypesLemma DEF DripsHeard
  <1>8. \A d \in sentDrips' : click'[d].at \in {"sent", "done"} \/ click'[d].fate # "known"
    BY <1>2, <1>3, FaucetTypesLemma DEF DripsHeard
  <1> QED  BY <1>5, <1>6, <1>7, <1>8 DEF DripsHeard

(* A click that was not refused moves on, its reservation as it was.       *)
LEMMA ClickGoesOnLemma ==
  ASSUME HireInv, NEW c \in Clicks, NEW x \in ClickRecords, click' = [click EXCEPT ![c] = x],
         x.since = click[c].since, x.fate = click[c].fate,
         x.at \in {"sending", "sent", "done"} /\ x.fate # "forgotten" => Reserved(c),
         x.at = "done" \/ x.told = "received" => c \in dripped,
         c \in sentDrips' => x.at \in {"sent", "done"} \/ x.fate # "known",
         sentDrips' \in {sentDrips, sentDrips \cup {c}}, UNCHANGED <<lastDrip, dripped, hireNow>>
  PROVE  FaucetTypes' /\ DripsHeard'
  <1>1. \A d \in Clicks : click'[d] = IF d = c THEN x ELSE click[d]  BY FaucetTypesLemma
  <1>2. click' \in [Clicks -> ClickRecords]  BY FaucetTypesLemma
  <1>3. FaucetTypes'  BY <1>2, FaucetTypesLemma DEF FaucetTypes
  <1>4. \A d \in Clicks : /\ click'[d].since = click[d].since
                          /\ click'[d].fate = click[d].fate
                          /\ Reserved(d)' => Reserved(d)
    BY <1>1 DEF Reserved
  <1>5. AllHeard' => AllHeard  BY <1>4 DEF AllHeard
  <1>6. \A d \in Clicks : click'[d].at = "done" \/ click'[d].told = "received" => d \in dripped'
    BY <1>1, FaucetTypesLemma DEF DripsHeard
  <1>7. \A d \in sentDrips' : click'[d].at \in {"sent", "done"} \/ click'[d].fate # "known"
    BY <1>1, FaucetTypesLemma DEF DripsHeard
  <1>8. \A d, e \in Clicks : Apart(d, e)' <=> Apart(d, e)  BY <1>4 DEF Apart
  <1>9. AllHeard' => \A d \in Clicks : Reserved(d)' => 1 <= click'[d].since /\ click'[d].since <= lastDrip'
    BY <1>4, <1>5, FaucetTypesLemma DEF DripsHeard
  <1>10. AllHeard' => \A d, e \in Clicks : Reserved(d)' /\ Reserved(e)' /\ d # e => Apart(d, e)'
    BY <1>4, <1>5, <1>8, FaucetTypesLemma DEF DripsHeard
  <1> QED  BY <1>3, <1>6, <1>7, <1>9, <1>10 DEF DripsHeard

(* The cooldown has run out since the latest reservation that counts.      *)
LEMMA ReserveLemma ==
  ASSUME HireInv, NEW c \in Clicks, click[c].at = "new", ~CoolingDown, Reserve(c),
         UNCHANGED <<sentDrips, dripped, hireNow>>
  PROVE  FaucetTypes' /\ DripsHeard'
  <1> DEFINE x == [click[c] EXCEPT !.at = "sending", !.since = hireNow]
  <1>1. click' = [click EXCEPT ![c] = x] /\ lastDrip' = hireNow  BY DEF Reserve
  <1>2. hireNow \in 0 .. MaxHireTime /\ 1 <= hireNow  BY FaucetTypesLemma, HireAssumption
  <1>3. x \in ClickRecords /\ x.at = "sending" /\ x.since = hireNow /\ x.told = click[c].told
        /\ x.fate = click[c].fate
    BY <1>2, FaucetTypesLemma, ReservedLemma
  <1> HIDE DEF x
  <1>4. \A d \in Clicks : click'[d] = IF d = c THEN x ELSE click[d]
    BY <1>1, FaucetTypesLemma
  <1>5. click' \in [Clicks -> ClickRecords]  BY <1>1, <1>3, FaucetTypesLemma
  <1>6. FaucetTypes'  BY <1>1, <1>2, <1>5, FaucetTypesLemma DEF FaucetTypes
  <1>7. AllHeard' => AllHeard  BY <1>3, <1>4 DEF AllHeard
  <1>8. \A d \in Clicks : click'[d].at = "done" \/ click'[d].told = "received" => d \in dripped'
    BY <1>3, <1>4, FaucetTypesLemma DEF DripsHeard
  <1>9. \A d \in sentDrips' : click'[d].at \in {"sent", "done"} \/ click'[d].fate # "known"
    <2>1. click[c].fate = "known" => c \notin sentDrips  BY FaucetTypesLemma DEF DripsHeard
    <2> QED  BY <1>3, <1>4, <2>1, FaucetTypesLemma DEF DripsHeard
  <1>10. ASSUME AllHeard', NEW d \in Clicks, Reserved(d)
         PROVE  1 <= click[d].since /\ click[d].since + Cooldown <= hireNow
                /\ click[d].since <= hireNow
    <2>1. 1 <= click[d].since /\ click[d].since <= lastDrip
      BY <1>7, <1>10, FaucetTypesLemma DEF DripsHeard
    <2>2. lastDrip = 0 \/ lastDrip + Cooldown <= hireNow
      BY FaucetTypesLemma, HireAssumption DEF CoolingDown
    <2> QED  BY <2>1, <2>2, FaucetTypesLemma, HireAssumption
  <1>11. \A d \in Clicks : d # c => /\ click'[d].since = click[d].since
                                    /\ Reserved(d)' <=> Reserved(d)
    BY <1>4 DEF Reserved
  <1>12. click'[c].since = hireNow  BY <1>3, <1>4
  <1>13. AllHeard' => \A d \in Clicks : Reserved(d)' => 1 <= click'[d].since /\ click'[d].since <= lastDrip'
    <2> SUFFICES ASSUME AllHeard', NEW d \in Clicks, Reserved(d)'
                 PROVE  1 <= click'[d].since /\ click'[d].since <= hireNow
      BY <1>1
    <2>1. CASE d = c  BY <1>2, <1>12, <2>1, FaucetTypesLemma
    <2>2. CASE d # c  BY <1>10, <1>11, <2>2
    <2> QED  BY <2>1, <2>2
  <1>14. AllHeard' => \A d, e \in Clicks : Reserved(d)' /\ Reserved(e)' /\ d # e => Apart(d, e)'
    <2> SUFFICES ASSUME AllHeard', NEW d \in Clicks, NEW e \in Clicks, Reserved(d)', Reserved(e)',
                        d # e
                 PROVE  \/ click'[d].since >= click'[e].since + Cooldown
                        \/ click'[e].since >= click'[d].since + Cooldown
      BY DEF Apart
    <2>1. CASE d = c
      <3>1. click[e].since + Cooldown <= hireNow  BY <1>10, <1>11, <2>1
      <3> QED  BY <1>11, <1>12, <2>1, <3>1, FaucetTypesLemma, HireAssumption
    <2>2. CASE e = c
      <3>1. click[d].since + Cooldown <= hireNow  BY <1>10, <1>11, <2>2
      <3> QED  BY <1>11, <1>12, <2>2, <3>1, FaucetTypesLemma, HireAssumption
    <2>3. CASE d # c /\ e # c
      <3>1. Apart(d, e)  BY <1>7, <1>11, <2>3, FaucetTypesLemma DEF DripsHeard
      <3> QED  BY <1>11, <2>3, <3>1 DEF Apart
    <2> QED  BY <2>1, <2>2, <2>3
  <1> QED  BY <1>6, <1>8, <1>9, <1>13, <1>14 DEF DripsHeard
LEMMA FaucetAskedLemma ==
  ASSUME HireInv, NEW c \in Clicks, FaucetAsked(c)
  PROVE  HireInv'
  <1>1. UNCHANGED <<catalog, hirePage, said, worker, mempool, hireEscrow, wallet>>
        /\ UNCHANGED mishaps /\ UNCHANGED <<sentDrips, dripped, hireNow>> /\ click[c].at = "new"
    BY DEF FaucetAsked, money
  <1>2. FaucetTypes' /\ DripsHeard'
    <2>1. CASE ~CoolingDown  BY <1>1, <2>1, ReserveLemma DEF FaucetAsked
    <2>2. CASE CoolingDown
      <3> DEFINE x == [click[c] EXCEPT !.at = "failed"]
      <3>1. click' = [click EXCEPT ![c] = x] /\ UNCHANGED lastDrip
        BY <2>2 DEF FaucetAsked, ClickAt
      <3>2. x \in ClickRecords /\ x.at = "failed" /\ x.since = click[c].since
            /\ x.fate = click[c].fate /\ x.told = click[c].told
        BY FaucetTypesLemma, MovedLemma
      <3>3. c \in sentDrips => click[c].fate # "known"  BY <1>1, FaucetTypesLemma DEF DripsHeard
      <3>4. x.told = "received" => c \in dripped  BY <3>2, FaucetTypesLemma DEF DripsHeard
      <3> HIDE DEF x
      <3> QED  BY <1>1, <3>1, <3>2, <3>3, <3>4, ClickGoesOnLemma
    <2> QED  BY <2>1, <2>2
  <1>3. wallet' \in Nat  BY <1>1, FaucetTypesLemma
  <1> QED  BY <1>1, <1>2, <1>3, FaucetSideLemma

LEMMA SendDripLemma ==
  ASSUME HireInv, NEW c \in Clicks, SendDrip(c)
  PROVE  HireInv'
  <1>1. UNCHANGED <<catalog, hirePage, said, worker, mempool, hireEscrow, wallet>>
        /\ (Mishap \/ UNCHANGED mishaps) /\ UNCHANGED <<dripped, hireNow>>
        /\ click[c].at = "sending"
    BY DEF SendDrip, DripFails, money
  <1>2. FaucetTypes' /\ DripsHeard'
    <2>1. CASE DripFails(c) /\ sentDrips' \in {sentDrips, sentDrips \cup {c}}
      BY <1>1, <2>1, DripFailsLemma
    <2>2. CASE ClickAt(c, "sent") /\ sentDrips' = sentDrips \cup {c} /\ UNCHANGED lastDrip
      <3> DEFINE x == [click[c] EXCEPT !.at = "sent"]
      <3>1. click' = [click EXCEPT ![c] = x]  BY <2>2 DEF ClickAt
      <3>2. x \in ClickRecords /\ x.at = "sent" /\ x.since = click[c].since
            /\ x.fate = click[c].fate /\ x.told = click[c].told
        BY FaucetTypesLemma, MovedLemma
      <3>3. x.at \in {"sending", "sent", "done"} /\ x.fate # "forgotten" => Reserved(c)
        BY <1>1, <3>2 DEF Reserved
      <3>4. x.told = "received" => c \in dripped  BY <3>2, FaucetTypesLemma DEF DripsHeard
      <3> HIDE DEF x
      <3> QED  BY <1>1, <2>2, <3>1, <3>2, <3>3, <3>4, ClickGoesOnLemma
    <2> QED  BY <2>1, <2>2 DEF SendDrip
  <1>3. wallet' \in Nat  BY <1>1, FaucetTypesLemma
  <1> QED  BY <1>1, <1>2, <1>3, FaucetSideLemma

LEMMA MineDripLemma ==
  ASSUME HireInv, NEW c \in Clicks, MineDrip(c)
  PROVE  HireInv'
  <1>1. UNCHANGED <<catalog, hirePage, said, worker, mempool, hireEscrow>>
        /\ UNCHANGED mishaps /\ UNCHANGED <<click, lastDrip, sentDrips, hireNow>>
        /\ c \in sentDrips /\ dripped' = dripped \cup {c} /\ wallet' = wallet + Drip
    BY DEF MineDrip
  <1>2. FaucetTypes'  BY <1>1 DEF HireInv, FaucetTypes
  <1>3. DripsHeard'
    BY <1>1 DEF HireInv, DripsHeard, AllHeard, Reserved, Apart
  <1>4. wallet' \in Nat  BY <1>1, FaucetTypesLemma, HireAssumption
  <1> QED  BY <1>1, <1>2, <1>3, <1>4, FaucetSideLemma

LEMMA DripReceiptLemma ==
  ASSUME HireInv, NEW c \in Clicks, DripReceipt(c)
  PROVE  HireInv'
  <1>1. UNCHANGED <<catalog, hirePage, said, worker, mempool, hireEscrow, wallet>>
        /\ (Mishap \/ UNCHANGED mishaps) /\ UNCHANGED <<sentDrips, dripped, hireNow>>
        /\ click[c].at = "sent"
    BY DEF DripReceipt, DripFails, money
  <1>2. FaucetTypes' /\ DripsHeard'
    <2>1. CASE DripFails(c)  BY <1>1, <2>1, DripFailsLemma
    <2>2. CASE c \in dripped /\ ClickAt(c, "done") /\ UNCHANGED lastDrip
      <3> DEFINE x == [click[c] EXCEPT !.at = "done"]
      <3>1. click' = [click EXCEPT ![c] = x]  BY <2>2 DEF ClickAt
      <3>2. x \in ClickRecords /\ x.at = "done" /\ x.since = click[c].since
            /\ x.fate = click[c].fate
        BY FaucetTypesLemma, MovedLemma
      <3>3. x.at \in {"sending", "sent", "done"} /\ x.fate # "forgotten" => Reserved(c)
        BY <1>1, <3>2 DEF Reserved
      <3> HIDE DEF x
      <3> QED  BY <1>1, <2>2, <3>1, <3>2, <3>3, ClickGoesOnLemma
    <2> QED  BY <2>1, <2>2 DEF DripReceipt
  <1>3. wallet' \in Nat  BY <1>1, FaucetTypesLemma
  <1> QED  BY <1>1, <1>2, <1>3, FaucetSideLemma

LEMMA FaucetToldLemma ==
  ASSUME HireInv, NEW c \in Clicks, FaucetTold(c)
  PROVE  HireInv'
  <1>1. UNCHANGED <<catalog, hirePage, said, worker, mempool, hireEscrow, wallet>>
        /\ (Mishap \/ UNCHANGED mishaps) /\ UNCHANGED <<lastDrip, sentDrips, dripped, hireNow>>
    BY DEF FaucetTold, FaucetProxy, money
  <1>2. PICK told \in {"received", "error"} :
          /\ click' = [click EXCEPT ![c].told = told] /\ (told = "received" => click[c].at = "done")
    BY DEF FaucetTold, FaucetProxy
  <1> DEFINE x == [click[c] EXCEPT !.told = told]
  <1>3. x \in ClickRecords /\ x.at = click[c].at /\ x.since = click[c].since
        /\ x.fate = click[c].fate /\ x.told = told
    <2>1. click[c] \in ClickRecords /\ told \in {"nothing", "received", "error"}
      BY FaucetTypesLemma
    <2> QED  BY <2>1, ToldLemma
  <1>4. click' = [click EXCEPT ![c] = x]  BY <1>2
  <1> HIDE DEF x
  <1>5. x.at = "done" \/ x.told = "received" => c \in dripped
    BY <1>2, <1>3, FaucetTypesLemma DEF DripsHeard
  <1>6. c \in sentDrips => x.at \in {"sent", "done"} \/ x.fate # "known"
    BY <1>3, FaucetTypesLemma DEF DripsHeard
  <1>7. FaucetTypes' /\ DripsHeard'
    <2>1. x.at \in {"sending", "sent", "done"} /\ x.fate # "forgotten" => Reserved(c)
      BY <1>3 DEF Reserved
    <2> QED  BY <1>1, <1>3, <1>4, <1>5, <1>6, <2>1, ClickGoesOnLemma
  <1>8. wallet' \in Nat  BY <1>1, FaucetTypesLemma
  <1> QED  BY <1>1, <1>7, <1>8, FaucetSideLemma

(* A restart: nothing that was reserved before counts any more.            *)
LEMMA HireWorkerRestartsLemma ==
  ASSUME HireInv, HireWorkerRestarts
  PROVE  HireInv'
  <1>1. /\ UNCHANGED <<sellers, reachable, hirePage, said, hireTask, signed, jobs, hireEscrow>>
        /\ UNCHANGED <<wallet, dripped, hireNow>> /\ Mishap /\ lastDrip' = 0
    BY DEF HireWorkerRestarts, catalog
  <1>2. /\ relayed' \in [Hires -> RelayRecords]
        /\ \A h \in Hires : relayed'[h] = relayed[h]
                           \/ (relayed[h].at # "none" /\ relayed'[h].at = "refused")
    <2>1. relayed' = [h \in Hires |-> IF relayed[h].at \in {"asked", "checking", "sent"}
                                     THEN [relayed[h] EXCEPT !.at = "refused"] ELSE relayed[h]]
      BY DEF HireWorkerRestarts
    <2>2. \A h \in Hires : relayed[h] \in RelayRecords  BY HireTypesLemma DEF WorkTypes
    <2>3. \A r \in RelayRecords : [r EXCEPT !.at = "refused"] \in RelayRecords
                                  /\ [r EXCEPT !.at = "refused"].at = "refused"
      BY DEF RelayRecords, RelaySteps
    <2> QED  BY <2>1, <2>2, <2>3
  <1>3. PICK H \in SUBSET {h \in Hires : Payable(h)} : mempool' = mempool \cup H
    BY DEF HireWorkerRestarts
  <1>4. CatalogTypes' /\ HirePageTypes' /\ WorkTypes' /\ PurseTypes'
    BY <1>1, <1>2, <1>3, MishapLemma
    DEF HireInv, CatalogTypes, HirePageTypes, WorkTypes, PurseTypes
  <1>5. ASSUME NEW h \in Hires PROVE Work(h)'
    <2>1. Work(h)  BY HireTypesLemma
    <2>2. h \in mempool' => signed[h] = BuildAuthorization(h, hireTask[h])
      BY <1>3, <2>1 DEF Work, Payable
    <2>3. relayed'[h].at = "none" <=> relayed[h].at = "none"  BY <1>2
    <2>4. relayed'[h].at = "checking" => signed[h] = BuildAuthorization(h, relayed'[h].to)
      BY <1>2, <2>1 DEF Work
    <2> QED  BY <1>1, <2>1, <2>2, <2>3, <2>4 DEF Work
  <1>6. PICK C \in SUBSET {c \in Clicks : click[c].at = "sending"} :
          sentDrips' = sentDrips \cup C
    BY DEF HireWorkerRestarts
  <1>7. \A c \in Clicks : /\ click'[c] \in ClickRecords
                          /\ click'[c].told = click[c].told
                          /\ click[c].at = "new" => click'[c] = click[c]
                          /\ click[c].at # "new" => click'[c].fate = "forgotten"
                          /\ click'[c].at = "done" => click[c].at = "done"
                          /\ ~Reserved(c)'
    <2> TAKE c \in Clicks
    <2>1. click'[c] = Forgotten(click[c])  BY DEF HireWorkerRestarts
    <2>2. click[c] \in ClickRecords  BY FaucetTypesLemma
    <2>3. CASE click[c].at = "new"  BY <2>1, <2>2, <2>3 DEF Forgotten, Reserved
    <2>4. CASE click[c].at # "new"
      <3> DEFINE at == IF click[c].at = "done" THEN "done" ELSE "failed"
                 x == [click[c] EXCEPT !.at = at, !.fate = "forgotten"]
      <3>1. click'[c] = x  BY <2>1, <2>4 DEF Forgotten
      <3>2. x \in ClickRecords /\ x.at = at /\ x.fate = "forgotten" /\ x.told = click[c].told
        BY <2>2 DEF ClickRecords
      <3> HIDE DEF x
      <3> QED  BY <2>4, <3>1, <3>2 DEF Reserved
    <2> QED  BY <2>3, <2>4
  <1>8. click' \in [Clicks -> ClickRecords]
    <2>1. click' = [c \in Clicks |-> Forgotten(click[c])]  BY DEF HireWorkerRestarts
    <2> QED  BY <1>7, <2>1
  <1>9. FaucetTypes'
    BY <1>1, <1>6, <1>8, FaucetTypesLemma, HireAssumption DEF FaucetTypes
  <1>10. DripsHeard'
    <2>1. \A c \in Clicks : click'[c].at = "done" \/ click'[c].told = "received" => c \in dripped'
      BY <1>1, <1>7, FaucetTypesLemma DEF DripsHeard
    <2>2. \A c \in sentDrips' : click'[c].at \in {"sent", "done"} \/ click'[c].fate # "known"
      BY <1>6, <1>7, FaucetTypesLemma DEF DripsHeard
    <2> QED  BY <1>7, <2>1, <2>2 DEF DripsHeard
  <1> QED  BY <1>4, <1>5, <1>9, <1>10 DEF HireInv

LEMMA HireTickLemma ==
  ASSUME HireInv, HireTick
  PROVE  HireInv'
  <1>1. UNCHANGED <<catalog, hirePage, said, worker, mempool, hireEscrow, wallet>>
        /\ UNCHANGED mishaps /\ UNCHANGED <<click, lastDrip, sentDrips, dripped>>
        /\ hireNow < MaxHireTime /\ hireNow' = hireNow + 1
    BY DEF HireTick, money, faucet
  <1>2. FaucetTypes'  BY <1>1, FaucetTypesLemma, HireAssumption DEF FaucetTypes
  <1>3. DripsHeard'  BY <1>1 DEF HireInv, DripsHeard, AllHeard, Reserved, Apart
  <1>4. wallet' \in Nat  BY <1>1, FaucetTypesLemma
  <1> QED  BY <1>1, <1>2, <1>3, <1>4, FaucetSideLemma
------------------------------------------------------------------------------
LEMMA HireInitLemma ==
  ASSUME HireInit
  PROVE  HireInv
  <1>1. CatalogTypes  BY DEF HireInit, CatalogTypes
  <1>2. HirePageTypes  BY HireAssumption DEF HireInit, HirePageTypes, PageSteps, Sayings
  <1>3. WorkTypes
    BY SignatureLemma DEF HireInit, WorkTypes, RelayRecords, RelaySteps
  <1>4. PurseTypes  BY HireAssumption DEF HireInit, PurseTypes
  <1>5. /\ click = [c \in Clicks |-> [at |-> "new", since |-> 0, fate |-> "known", told |-> "nothing"]]
        /\ lastDrip = 0 /\ sentDrips = {} /\ dripped = {} /\ hireNow = 1
    BY DEF HireInit
  <1>6. [at |-> "new", since |-> 0, fate |-> "known", told |-> "nothing"] \in ClickRecords
    BY HireAssumption DEF ClickRecords
  <1>7. FaucetTypes  BY <1>5, <1>6, HireAssumption DEF FaucetTypes
  <1>8. DripsHeard  BY <1>5 DEF DripsHeard, Reserved
  <1>9. \A h \in Hires : Work(h)
    BY SignatureLemma DEF HireInit, Work
  <1> QED  BY <1>1, <1>2, <1>3, <1>4, <1>7, <1>8, <1>9 DEF HireInv

THEOREM HireInvariance == HireSpec => []HireInv
  <1>1. HireInit => HireInv  BY HireInitLemma
  <1>2. HireInv /\ [HireNext]_hireVars => HireInv'
    <2> SUFFICES ASSUME HireInv, [HireNext]_hireVars PROVE HireInv'  OBVIOUS
    <2>1. CASE (\E r \in Registrations : RegisterSeller(r)) \/ (\E v \in Vendors : GoesDown(v))
      BY <2>1, CatalogLemma
    <2>2. CASE \E v \in Vendors : PickAndHire(v)  BY <2>2, PickAndHireLemma
    <2>3. CASE RegisterTask  BY <2>3, RegisterTaskLemma
    <2>4. CASE SignAuthorization  BY <2>4, SignAuthorizationLemma
    <2>5. CASE FundAnswered  BY <2>5, FundAnsweredLemma
    <2>6. CASE DispatchJob  BY <2>6, DispatchJobLemma
    <2>7. CASE MineFund  BY <2>7, MineFundLemma
    <2>8. CASE \E h \in Hires : VerifyRelayerAuth(h) \/ SubmitGaslessly(h) \/ FundReceipt(h)
      BY <2>8, RelayerLemma
    <2>9. CASE \E h \in Hires : Conclude(h)  BY <2>9, ConcludeLemma
    <2>10. CASE \E c \in Clicks : FaucetAsked(c) \/ SendDrip(c) \/ MineDrip(c) \/ DripReceipt(c)
                                  \/ FaucetTold(c)
      BY <2>10, FaucetAskedLemma, SendDripLemma, MineDripLemma, DripReceiptLemma, FaucetToldLemma
    <2>11. CASE HireTick  BY <2>11, HireTickLemma
    <2>13. CASE HireWorkerRestarts  BY <2>13, HireWorkerRestartsLemma
    <2>12. CASE UNCHANGED hireVars
      <3>1. UNCHANGED <<sellers, reachable, hirePage, said, hireTask, signed, relayed, mempool,
                        hireEscrow, jobs, wallet, click, lastDrip, sentDrips, dripped, hireNow,
                        mishaps>>
        BY <2>12 DEF hireVars
      <3>2. UNCHANGED <<catalog, hirePage, said, worker, mempool, hireEscrow>>
        BY <3>1 DEF catalog, worker
      <3>3. FaucetTypes' /\ DripsHeard'
        BY <3>1 DEF HireInv, FaucetTypes, DripsHeard, AllHeard, Reserved, Apart
      <3>4. wallet' \in Nat  BY <3>1, FaucetTypesLemma
      <3> QED  BY <3>1, <3>2, <3>3, <3>4, FaucetSideLemma
    <2> QED  BY <2>1, <2>2, <2>3, <2>4, <2>5, <2>6, <2>7, <2>8, <2>9, <2>10, <2>11, <2>12,
                <2>13
             DEF HireNext
  <1> QED  BY <1>1, <1>2, PTL DEF HireSpec
------------------------------------------------------------------------------
THEOREM HiresTyped == HireSpec => []HireTypeOK
  <1>1. HireInv => HireTypeOK
    BY DEF HireInv, HireTypeOK, CatalogTypes, HirePageTypes, WorkTypes, PurseTypes, FaucetTypes,
           Sayings, Signatures, RelayRecords, ClickRecords
  <1> QED  BY <1>1, HireInvariance, PTL

(* What HireFlow.tsx tells of the money is true, however the relayer, the  *)
(* proxies and the chain race: "agent working" only when a job will see to *)
(* the escrow, no job before its escrow held the price, an escrow only     *)
(* over a signature for the terms of the registered task, and a drip only  *)
(* when it was mined.                                                      *)
THEOREM PagesTellTheMoney == HireSpec => []PageTellsTheMoney
  <1>1. HireInv => PageTellsTheMoney
    <2> SUFFICES ASSUME HireInv PROVE PageTellsTheMoney  OBVIOUS
    <2>1. \A c \in Clicks : click[c].told = "received" => c \in dripped
      BY DEF HireInv, DripsHeard
    <2>2. ASSUME NEW h \in Hires
          PROVE  /\ said[h] = "working" => h \in jobs
                 /\ h \in jobs => hireEscrow[h] # "EMPTY"
                 /\ hireEscrow[h] # "EMPTY" => signed[h] = BuildAuthorization(h, hireTask[h])
      BY HireTypesLemma, SignatureLemma DEF Work
    <2> QED  BY <2>1, <2>2 DEF PageTellsTheMoney
  <1> QED  BY <1>1, HireInvariance, PTL

(* "Reserve the slot BEFORE the tx so a retry can't double-drip"           *)
(* (faucet.ts): while the faucet has heard of the fate of every drip it    *)
(* sent since the worker started, no two of those were reserved within one *)
(* cooldown.                                                               *)
THEOREM DripsKeepTheCooldown == HireSpec => []OneDripWhenHeard
  <1>1. HireInv => OneDripWhenHeard
    <2> SUFFICES ASSUME HireInv, AllHeard, NEW c \in sentDrips, NEW d \in sentDrips, c # d,
                        click[c].fate = "known", click[d].fate = "known"
                 PROVE  Apart(c, d)
      BY DEF OneDripWhenHeard, AllHeard, Apart
    <2>1. c \in Clicks /\ d \in Clicks  BY FaucetTypesLemma
    <2>2. Reserved(c) /\ Reserved(d)  BY <2>1, FaucetTypesLemma DEF DripsHeard, AllHeard, Reserved
    <2> QED  BY <2>1, <2>2, FaucetTypesLemma DEF DripsHeard
  <1> QED  BY <1>1, HireInvariance, PTL
===============================================================================
