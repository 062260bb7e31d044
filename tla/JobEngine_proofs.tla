--------------------------- MODULE JobEngine_proofs ---------------------------
(***************************************************************************)
(* What the job engine guarantees for any number of jobs, works, run slots *)
(* and restarts and any windows and deadlines, checked by TLAPS.           *)
(***************************************************************************)
EXTENDS JobEngine, TLAPS

JobStates == Machine!JobStates

RowType == [state : JobStates \cup {"ABSENT"}, outcome : Outcomes \cup {"none"},
            challengeDeadline : Int, disputable : BOOLEAN]
RunType == [kind : Kinds \cup {"none"}, at : Steps \cup {"idle"}, job : Jobs \cup {"none"},
            label : Outcomes \cup {"none"}, attempt : 0 .. MaxAttempts]
TxType == {"none", "pending", "ok", "reverted", "failed"}
EscrowType == [status : {"EMPTY", "FUNDED", "SETTLED"},
               outcome : Outcomes \cup {"none", "expired"}, deadline : Nat]

(* States a row does not come back from: those after a delivery was        *)
(* claimed, after its verdict was proposed, after a dispute was escalated. *)
Claimed == {"DELIVERED", "VERIFYING", "PROPOSED", "DISPUTED", "ESCALATED"} \cup Terminal
Proposed == {"PROPOSED", "DISPUTED", "ESCALATED"} \cup Terminal
Ruled == {"ESCALATED"} \cup Terminal

(* A terminal row tells what closed the escrow.                            *)
Told(w, row) ==
  /\ chain[w].status = "SETTLED"
  /\ chain[w].outcome = IF row.state = "EXPIRED" THEN "expired" ELSE row.outcome

(* The writes of the store that are legal moves.                           *)
RowStep(j, row) ==
  \/ job[j].state = "ABSENT" /\ row.state = "FUNDED"
  \/ /\ job[j].state # "ABSENT" /\ row.state \in JobStates
     /\ Machine!CanTransition(job[j].state, row.state)
     /\ row.disputable = job[j].disputable
     /\ (row.challengeDeadline = job[j].challengeDeadline \/ job[j].state = "VERIFYING")
     /\ row.state \in Terminal => Told(WorkOf[j], row)

RowsMove ==
  \/ UNCHANGED job
  \/ \E j \in Jobs, row \in RowType : job' = [job EXCEPT ![j] = row] /\ RowStep(j, row)

(* An escrow that is settled stays as it is.                               *)
ChainGrows == \A w \in Works : chain[w].status = "SETTLED" => chain'[w] = chain[w]
------------------------------------------------------------------------------
Running(r) == run[r].at # "idle" \/ tx[r] = "pending"
Paying(r) == run[r].at \in {"submit", "confirm", "record"} \/ tx[r] = "pending"

StepsOf(kind) ==
  CASE kind = "start"    -> {"create", "dispatch", "dispatched", "awaiting"}
    [] kind = "deliver"  -> {"claim", "verify", "judge", "hold", "submit", "confirm", "record"}
    [] kind = "expire"   -> {"submit", "confirm", "record"}
    [] kind = "dispute"  -> {"open", "escalate", "gather", "submit", "confirm", "record"}
    [] kind = "finalize" -> {"gather", "submit", "confirm", "record"}

PaidBy(r) ==
  /\ chain[Work(r)].status = "SETTLED"
  /\ chain[Work(r)].outcome = IF run[r].kind = "expire" THEN "expired" ELSE run[r].label

(* Where a run is and how far its transaction got.                         *)
TxInv(r) ==
  /\ tx[r] = "pending" => run[r].at \in {"confirm", "idle"} /\ run[r].kind # "start"
  /\ tx[r] = "ok" => run[r].at \in {"confirm", "record"} /\ PaidBy(r)
  /\ tx[r] \in {"reverted", "failed"} => run[r].at = "confirm"
  /\ run[r].at = "record" => tx[r] = "ok"

(* Where a run is and what its row can be.                                 *)
RowInv(r) ==
  LET row == job[run[r].job]
  IN /\ Running(r) => run[r].job \in Jobs /\ run[r].kind \in Kinds
     /\ run[r].at # "idle" => run[r].at \in StepsOf(run[r].kind)
     /\ run[r].kind = "deliver" /\ Running(r) /\ run[r].at # "claim" => row.state \in Claimed
     /\ run[r].kind = "deliver" /\ Paying(r) => ~row.disputable
     /\ run[r].kind = "finalize" /\ Running(r) =>
          row.state \in Proposed /\ now >= row.challengeDeadline
     /\ run[r].kind = "dispute" /\ (Paying(r) \/ run[r].at = "gather") => row.state \in Ruled

(* A run past the claim of a delivery.                                     *)
Delivering(r) == run[r].kind = "deliver" /\ run[r].at \notin {"claim", "idle"}

(* The inductive invariant.                                                *)
EngineInv ==
  /\ TypeOK
  /\ \A r \in Runs : TxInv(r) /\ RowInv(r)
  /\ \A r, s \in Runs : Delivering(r) /\ Delivering(s) /\ run[r].job = run[s].job => r = s
  /\ TerminalTellsTheChain
------------------------------------------------------------------------------
(* The legal moves, one by one.                                            *)
LEMMA MovesLemma ==
  /\ Machine!CanTransition("FUNDED", "DISPATCHED")
  /\ Machine!CanTransition("FUNDED", "DELIVERED")
  /\ Machine!CanTransition("DISPATCHED", "AWAITING_DELIVERY")
  /\ Machine!CanTransition("DISPATCHED", "DELIVERED")
  /\ Machine!CanTransition("AWAITING_DELIVERY", "DELIVERED")
  /\ Machine!CanTransition("DELIVERED", "VERIFYING")
  /\ Machine!CanTransition("VERIFYING", "SETTLED")
  /\ Machine!CanTransition("VERIFYING", "ABSTAINED")
  /\ Machine!CanTransition("VERIFYING", "PROPOSED")
  /\ Machine!CanTransition("PROPOSED", "SETTLED")
  /\ Machine!CanTransition("PROPOSED", "ABSTAINED")
  /\ Machine!CanTransition("PROPOSED", "DISPUTED")
  /\ Machine!CanTransition("DISPUTED", "ESCALATED")
  /\ Machine!CanTransition("ESCALATED", "RESOLVED")
  /\ \A from \in JobStates \ Terminal : Machine!CanTransition(from, "EXPIRED")
  BY DEF Machine!CanTransition, Machine!Forward, Machine!Terminal, Terminal

(* Legal moves lead away from where a row has been.                        *)
LEMMA ForwardLemma ==
  ASSUME NEW from \in JobStates, NEW to, Machine!CanTransition(from, to)
  PROVE  /\ from \notin Terminal /\ (from \in Claimed => to \in Claimed)
         /\ (from \in Proposed => to \in Proposed) /\ (from \in Ruled => to \in Ruled)
  <1>1. from \notin Terminal /\ to \in Machine!Forward[from] \cup {"EXPIRED"}
    BY DEF Machine!CanTransition, Terminal
  <1>2. from \in {"FUNDED", "DISPATCHED", "AWAITING_DELIVERY", "DELIVERED", "VERIFYING", "PROPOSED",
                  "DISPUTED", "ESCALATED"}
    BY <1>1 DEF JobStates, Machine!JobStates, Terminal
  <1>3. CASE from \in {"FUNDED", "DISPATCHED", "AWAITING_DELIVERY"}
    BY <1>1, <1>3 DEF Claimed, Proposed, Ruled, Terminal, Machine!Terminal
  <1>4. CASE from = "DELIVERED"
    BY <1>1, <1>4 DEF Claimed, Proposed, Ruled, Machine!Forward, Terminal, Machine!Terminal
  <1>5. CASE from = "VERIFYING"
    BY <1>1, <1>5 DEF Claimed, Proposed, Ruled, Machine!Forward, Terminal, Machine!Terminal
  <1>6. CASE from = "PROPOSED"
    BY <1>1, <1>6 DEF Claimed, Proposed, Ruled, Machine!Forward, Terminal, Machine!Terminal
  <1>7. CASE from = "DISPUTED"
    BY <1>1, <1>7 DEF Claimed, Proposed, Ruled, Machine!Forward, Terminal, Machine!Terminal
  <1>8. CASE from = "ESCALATED"
    BY <1>1, <1>8 DEF Claimed, Proposed, Ruled, Machine!Forward, Terminal, Machine!Terminal
  <1> QED  BY <1>2, <1>3, <1>4, <1>5, <1>6, <1>7, <1>8

(* What is known of a row outlives legal moves.                            *)
LEMMA RowsLemma ==
  ASSUME TypeOK, RowsMove, NEW j \in Jobs
  PROVE  /\ job' \in [Jobs -> RowType]
         /\ job[j].state \in Claimed =>
              job'[j].state \in Claimed /\ job'[j].disputable = job[j].disputable
         /\ job[j].state \in Proposed =>
              job'[j].state \in Proposed /\ job'[j].challengeDeadline = job[j].challengeDeadline
         /\ job[j].state \in Ruled => job'[j].state \in Ruled
  <1>1. job \in [Jobs -> RowType]  BY DEF TypeOK, RowType, JobStates
  <1>2. CASE job'[j] = job[j] /\ job' \in [Jobs -> RowType]  BY <1>2
  <1>3. ASSUME NEW row \in RowType, job' = [job EXCEPT ![j] = row], RowStep(j, row)
        PROVE  /\ job' \in [Jobs -> RowType]
               /\ job[j].state \in Claimed =>
                    job'[j].state \in Claimed /\ job'[j].disputable = job[j].disputable
               /\ job[j].state \in Proposed =>
                    /\ job'[j].state \in Proposed
                    /\ job'[j].challengeDeadline = job[j].challengeDeadline
               /\ job[j].state \in Ruled => job'[j].state \in Ruled
    <2>1. job' \in [Jobs -> RowType] /\ job'[j] = row  BY <1>1, <1>3
    <2>2. CASE job[j].state = "ABSENT"
      BY <2>1, <2>2 DEF Claimed, Proposed, Ruled, Terminal, Machine!Terminal
    <2>3. CASE job[j].state # "ABSENT"
      <3>1. /\ job[j].state \in JobStates /\ Machine!CanTransition(job[j].state, row.state)
            /\ row.disputable = job[j].disputable
            /\ (row.challengeDeadline = job[j].challengeDeadline \/ job[j].state = "VERIFYING")
        BY <1>1, <1>3, <2>3 DEF RowStep, RowType
      <3>2. "VERIFYING" \notin Proposed  BY DEF Proposed, Terminal, Machine!Terminal
      <3> QED  BY <2>1, <3>1, <3>2, ForwardLemma
    <2> QED  BY <2>2, <2>3
  <1>4. CASE UNCHANGED job  BY <1>1, <1>2, <1>4
  <1>5. ASSUME NEW i \in Jobs \ {j}, NEW row \in RowType, job' = [job EXCEPT ![i] = row]
        PROVE  job'[j] = job[j] /\ job' \in [Jobs -> RowType]
    BY <1>1, <1>5
  <1> QED  BY <1>2, <1>3, <1>4, <1>5 DEF RowsMove
(* Terminal rows go on telling what closed their escrow.                   *)
LEMMA TerminalLemma ==
  ASSUME EngineInv, RowsMove, ChainGrows
  PROVE  TerminalTellsTheChain'
  <1> SUFFICES ASSUME NEW j \in Jobs, job'[j].state \in Terminal PROVE Told(WorkOf[j], job[j])'
    BY DEF TerminalTellsTheChain, Told
  <1>1. job \in [Jobs -> RowType] /\ WorkOf[j] \in Works
    BY EngineAssumption DEF EngineInv, TypeOK, RowType, JobStates
  <1>2. Told(WorkOf[j], job'[j]) => Told(WorkOf[j], job[j])'  BY <1>1 DEF Told, ChainGrows
  <1>3. CASE job'[j] = job[j]  BY <1>2, <1>3 DEF EngineInv, TerminalTellsTheChain, Told
  <1>4. ASSUME NEW row \in RowType, job' = [job EXCEPT ![j] = row], RowStep(j, row)
        PROVE  Told(WorkOf[j], job[j])'
    <2>1. job'[j] = row  BY <1>1, <1>4
    <2>2. "FUNDED" \notin Terminal  BY DEF Terminal, Machine!Terminal
    <2> QED  BY <1>2, <1>4, <2>1, <2>2 DEF RowStep
  <1>5. ASSUME NEW i \in Jobs \ {j}, NEW row \in RowType, job' = [job EXCEPT ![i] = row]
        PROVE  job'[j] = job[j]
    BY <1>1, <1>5
  <1> QED  BY <1>3, <1>4, <1>5 DEF RowsMove
(* What is known of a run's row outlives every step, and what it must be   *)
(* by then was known before.                                               *)
LEMMA RowKeptLemma ==
  ASSUME EngineInv, RowsMove, now' \in {now, now + 1}, NEW s \in Runs,
         Running(s)' => Running(s),
         run'[s].kind = run[s].kind, run'[s].job = run[s].job,
         run'[s].at # "idle" => run'[s].at \in StepsOf(run[s].kind),
         run[s].kind = "deliver" /\ Running(s)' /\ run'[s].at # "claim" => run[s].at # "claim",
         run[s].kind = "deliver" /\ Paying(s)' => Paying(s),
         run[s].kind = "dispute" /\ (Paying(s)' \/ run'[s].at = "gather") =>
           Paying(s) \/ run[s].at = "gather"
  PROVE  RowInv(s)'
  <1>1. RowInv(s) /\ now \in Int /\ now' \in Int /\ TypeOK
    BY EngineAssumption DEF EngineInv, TypeOK
  <1>2. Paying(s)' => Running(s)'  BY DEF Paying, Running
  <1>3. CASE ~Running(s)'
    BY <1>2, <1>3 DEF RowInv, Running
  <1>4. CASE Running(s)'
    <2>1. run[s].job \in Jobs /\ run[s].kind \in Kinds /\ Running(s)  BY <1>1, <1>4 DEF RowInv
    <2> DEFINE j == run[s].job
    <2>2. /\ job[j].state \in Claimed =>
               job'[j].state \in Claimed /\ job'[j].disputable = job[j].disputable
          /\ job[j].state \in Proposed =>
               job'[j].state \in Proposed /\ job'[j].challengeDeadline = job[j].challengeDeadline
          /\ job[j].state \in Ruled => job'[j].state \in Ruled
      BY <1>1, <2>1, RowsLemma
    <2>3. job[j].challengeDeadline \in Int  BY <1>1, <2>1 DEF TypeOK
    <2>4. run[s].kind = "deliver" /\ Running(s)' /\ run'[s].at # "claim" => job'[j].state \in Claimed
      BY <1>1, <2>1, <2>2 DEF RowInv
    <2>5. run[s].kind = "deliver" /\ Paying(s)' => ~job'[j].disputable
      <3> SUFFICES ASSUME run[s].kind = "deliver", Paying(s)' PROVE ~job'[j].disputable  OBVIOUS
      <3>1. Paying(s)  OBVIOUS
      <3>2. run[s].at # "claim"  BY <1>1, <3>1 DEF Paying, EngineInv, TxInv
      <3>3. job[j].state \in Claimed /\ ~job[j].disputable  BY <1>1, <2>1, <3>1, <3>2 DEF RowInv
      <3> QED  BY <2>2, <3>3
    <2>6. run[s].kind = "finalize" /\ Running(s)' =>
            job'[j].state \in Proposed /\ now' >= job'[j].challengeDeadline
      BY <1>1, <2>1, <2>2, <2>3 DEF RowInv
    <2>7. run[s].kind = "dispute" /\ (Paying(s)' \/ run'[s].at = "gather") => job'[j].state \in Ruled
      BY <1>1, <2>1, <2>2 DEF RowInv
    <2> QED  BY <2>1, <2>4, <2>5, <2>6, <2>7 DEF RowInv
  <1> QED  BY <1>3, <1>4

(* A confirmed payment stays the one that closed the escrow.               *)
LEMMA PaidLemma ==
  ASSUME EngineInv, ChainGrows, NEW s \in Runs, tx[s] = "ok", run'[s].kind = run[s].kind,
         run'[s].job = run[s].job, run'[s].label = run[s].label
  PROVE  PaidBy(s) /\ PaidBy(s)'
  <1>1. PaidBy(s) /\ run[s].job \in Jobs  BY DEF EngineInv, TxInv, RowInv, Running
  <1>2. Work(s) \in Works  BY <1>1, EngineAssumption DEF Work
  <1> QED  BY <1>1, <1>2 DEF ChainGrows, PaidBy, Work

(* What is known of a run outlives the steps of the others.                *)
LEMMA OthersLemma ==
  ASSUME EngineInv, RowsMove, ChainGrows, now' \in {now, now + 1}, NEW s \in Runs,
         run'[s] = run[s], tx'[s] = tx[s]
  PROVE  TxInv(s)' /\ RowInv(s)'
  <1>1. TxInv(s) /\ RowInv(s)  BY DEF EngineInv
  <1>2. (Running(s)' <=> Running(s)) /\ (Paying(s)' <=> Paying(s))  BY DEF Running, Paying
  <1>3. RowInv(s)'  BY <1>1, <1>2, RowKeptLemma DEF RowInv
  <1>4. tx[s] = "ok" => PaidBy(s)'  BY PaidLemma
  <1> QED  BY <1>1, <1>3, <1>4 DEF TxInv

(* A step of one run keeps the invariant if its row moves legally, what is *)
(* known of itself is known again, and it does not pass the claim of a     *)
(* delivery that another has passed.                                       *)
LEMMA StepKeeps ==
  ASSUME EngineInv, TypeOK', RowsMove, ChainGrows, now' \in {now, now + 1}, NEW r \in Runs,
         \A s \in Runs \ {r} : run'[s] = run[s] /\ tx'[s] = tx[s],
         TxInv(r)', RowInv(r)',
         Delivering(r)' => \/ Delivering(r) /\ run'[r].job = run[r].job
                           \/ \A s \in Runs \ {r} : ~(Delivering(s) /\ run[s].job = run'[r].job)
  PROVE  EngineInv' /\ RowsMove
  <1>1. \A s \in Runs : TxInv(s)' /\ RowInv(s)'  BY OthersLemma
  <1>2. TerminalTellsTheChain'  BY TerminalLemma
  <1>3. \A s \in Runs \ {r} : (Delivering(s)' <=> Delivering(s)) /\ run'[s].job = run[s].job
    BY DEF Delivering
  <1>4. \A s, t \in Runs \ {r} :
          Delivering(s)' /\ Delivering(t)' /\ run'[s].job = run'[t].job => s = t
    BY <1>3 DEF EngineInv
  <1>5. \A s \in Runs \ {r} : ~(Delivering(r)' /\ Delivering(s)' /\ run'[s].job = run'[r].job)
    BY <1>3 DEF EngineInv
  <1>6. \A s, t \in Runs : Delivering(s)' /\ Delivering(t)' /\ run'[s].job = run'[t].job => s = t
    BY <1>4, <1>5
  <1> QED  BY <1>1, <1>2, <1>6 DEF EngineInv

(* The steps that leave the rows, the escrows and the clock alone.         *)
LEMMA StillLemma ==
  ASSUME UNCHANGED <<job, chain, now>>
  PROVE  RowsMove /\ ChainGrows /\ now' \in {now, now + 1}
  BY DEF RowsMove, ChainGrows
------------------------------------------------------------------------------
(* Types of what the helpers assign.                                       *)
LEMMA Typed ==
  ASSUME TypeOK
  PROVE  /\ job \in [Jobs -> RowType] /\ run \in [Runs -> RunType] /\ tx \in [Runs -> TxType]
         /\ chain \in [Works -> EscrowType] /\ held \in [Works -> Labels \cup {"none"}]
         /\ now \in 0 .. MaxTime /\ crashes \in 0 .. MaxCrashes /\ Idle \in RunType
  <1>1. Idle \in RunType  BY EngineAssumption DEF RunType, Idle
  <1> QED  BY <1>1 DEF TypeOK, RowType, RunType, TxType, EscrowType, JobStates

LEMMA Untyped ==
  ASSUME job' \in [Jobs -> RowType], run' \in [Runs -> RunType], tx' \in [Runs -> TxType],
         chain' \in [Works -> EscrowType], held' \in [Works -> Labels \cup {"none"}],
         now' \in 0 .. MaxTime, crashes' \in 0 .. MaxCrashes
  PROVE  TypeOK'
  BY DEF TypeOK, RowType, RunType, TxType, EscrowType, JobStates
(* Where the runs of each kind can be, and what that says of a run.        *)
LEMMA StepsLemma ==
  /\ StepsOf("start") = {"create", "dispatch", "dispatched", "awaiting"}
  /\ StepsOf("deliver") = {"claim", "verify", "judge", "hold", "submit", "confirm", "record"}
  /\ StepsOf("expire") = {"submit", "confirm", "record"}
  /\ StepsOf("dispute") = {"open", "escalate", "gather", "submit", "confirm", "record"}
  /\ StepsOf("finalize") = {"gather", "submit", "confirm", "record"}
  /\ \A kind \in Kinds : StepsOf(kind) \subseteq Steps
  <1>1. /\ StepsOf("start") = {"create", "dispatch", "dispatched", "awaiting"}
        /\ StepsOf("deliver") = {"claim", "verify", "judge", "hold", "submit", "confirm", "record"}
        /\ StepsOf("expire") = {"submit", "confirm", "record"}
        /\ StepsOf("dispute") = {"open", "escalate", "gather", "submit", "confirm", "record"}
        /\ StepsOf("finalize") = {"gather", "submit", "confirm", "record"}
    BY DEF StepsOf
  <1> QED  BY <1>1 DEF Kinds, Steps

LEMMA WhereLemma ==
  ASSUME EngineInv, NEW r \in Runs, run[r].at # "idle"
  PROVE  /\ run[r].job \in Jobs /\ run[r].kind \in Kinds /\ Work(r) \in Works
         /\ run[r].at \in StepsOf(run[r].kind)
         /\ run[r].at \in {"create", "dispatch", "dispatched", "awaiting"} => run[r].kind = "start"
         /\ run[r].at \in {"claim", "verify", "judge", "hold"} => run[r].kind = "deliver"
         /\ run[r].at \in {"open", "escalate"} => run[r].kind = "dispute"
         /\ run[r].at = "gather" => run[r].kind \in {"dispute", "finalize"}
         /\ run[r].at \in {"submit", "confirm", "record"} => run[r].kind # "start"
         /\ run[r].at \notin {"confirm", "record"} => tx[r] = "none"
  <1>1. RowInv(r) /\ TxInv(r) /\ tx[r] \in TxType  BY Typed DEF EngineInv
  <1>2. run[r].job \in Jobs /\ run[r].kind \in Kinds /\ run[r].at \in StepsOf(run[r].kind)
    BY <1>1 DEF RowInv, Running
  <1>3. Work(r) \in Works  BY <1>2, EngineAssumption DEF Work
  <1>4. run[r].at \notin {"confirm", "record"} => tx[r] = "none"  BY <1>1 DEF TxInv, TxType
  <1> QED  BY <1>2, <1>3, <1>4, StepsLemma DEF Kinds
------------------------------------------------------------------------------
(* The writes of the store.                                                *)
LEMMA UpdateLemma ==
  ASSUME EngineInv, NEW j \in Jobs, NEW from, NEW row \in RowType, Update(j, from, row),
         job[j].state \in from => RowStep(j, row)
  PROVE  RowsMove /\ (Won(j, from) => job'[j] = row)
  <1>1. job \in [Jobs -> RowType]  BY Typed DEF EngineInv
  <1>2. CASE job[j].state \in from
    <2>1. job' = [job EXCEPT ![j] = row] /\ RowStep(j, row)  BY <1>2 DEF Update
    <2>2. job'[j] = row  BY <1>1, <2>1
    <2> QED  BY <2>1, <2>2 DEF RowsMove
  <1>3. CASE job[j].state \notin from  BY <1>3 DEF Update, RowsMove, Won
  <1> QED  BY <1>2, <1>3

LEMMA SetLemma ==
  ASSUME EngineInv, NEW j \in Jobs, NEW from, NEW to \in JobStates \ Terminal, Set(j, from, to),
         \A state \in from : state # "ABSENT" /\ Machine!CanTransition(state, to)
  PROVE  RowsMove /\ (Won(j, from) => job'[j].state = to)
  <1> DEFINE row == [job[j] EXCEPT !.state = to]
  <1>1. job[j] \in RowType  BY Typed DEF EngineInv
  <1>2. /\ row \in RowType /\ row.state = to /\ row.disputable = job[j].disputable
        /\ row.challengeDeadline = job[j].challengeDeadline
    BY <1>1 DEF RowType
  <1>3. job[j].state \in from => RowStep(j, row)  BY <1>2 DEF RowStep
  <1>4. Update(j, from, row)  BY DEF Set
  <1> HIDE DEF row
  <1> QED  BY <1>2, <1>3, <1>4, UpdateLemma
------------------------------------------------------------------------------
(* A call begins.                                                          *)
LEMMA BeginLemma ==
  ASSUME EngineInv, NEW r \in Runs, NEW j \in Jobs, NEW kind \in Kinds, NEW at \in StepsOf(kind),
         Begin(r, kind, at, j), UNCHANGED <<job, held, chain, now, crashes>>,
         at \in {"create", "claim", "open"} \/ kind \in {"expire", "finalize"}, at # "record",
         at # "confirm",
         kind = "finalize" => job[j].state \in Proposed /\ now >= job[j].challengeDeadline
  PROVE  EngineInv' /\ RowsMove
  <1> DEFINE new == [Idle EXCEPT !.kind = kind, !.at = at, !.job = j]
  <1>1. /\ run' = [run EXCEPT ![r] = new] /\ tx' = [tx EXCEPT ![r] = "none"]
    BY DEF Begin
  <1>2. /\ run \in [Runs -> RunType] /\ tx \in [Runs -> TxType] /\ Idle \in RunType
    BY Typed DEF EngineInv
  <1>3. at \in Steps /\ at # "idle"  BY StepsLemma DEF Steps
  <1>4. new \in RunType /\ new.kind = kind /\ new.at = at /\ new.job = j
    BY <1>2, <1>3 DEF RunType, Idle
  <1> HIDE DEF new
  <1>5. run' \in [Runs -> RunType] /\ run'[r] = new /\ \A s \in Runs \ {r} : run'[s] = run[s]
    BY <1>1, <1>2, <1>4
  <1>6. tx' \in [Runs -> TxType] /\ tx'[r] = "none" /\ \A s \in Runs \ {r} : tx'[s] = tx[s]
    BY <1>1, <1>2 DEF TxType
  <1>7. TypeOK'  BY <1>5, <1>6, Typed, Untyped DEF EngineInv
  <1>8. TxInv(r)'  BY <1>4, <1>5, <1>6 DEF TxInv
  <1>9. kind = "deliver" => at = "claim"  BY StepsLemma
  <1>10. kind = "dispute" => at = "open"  BY StepsLemma
  <1>11. RowInv(r)'  BY <1>3, <1>4, <1>5, <1>6, <1>9, <1>10 DEF RowInv, Running, Paying
  <1>12. ~Delivering(r)'  BY <1>4, <1>5, <1>9 DEF Delivering
  <1> QED  BY <1>5, <1>6, <1>7, <1>8, <1>11, <1>12, StillLemma, StepKeeps

(* A call goes on to an await before the payment.                          *)
LEMMA GoLemma ==
  ASSUME EngineInv, NEW r \in Runs, NEW at \in StepsOf(run[r].kind), GoTo(r, at), RowsMove,
         UNCHANGED <<held, chain, now, crashes>>,
         run[r].at \notin {"idle", "confirm", "record"},
         at \notin {"claim", "submit", "confirm", "record"},
         at = "gather" => run[r].at = "gather" \/ job'[run[r].job].state \in Ruled,
         run[r].at = "claim" => /\ job'[run[r].job].state \in Claimed
                                /\ job[run[r].job].state \notin Claimed
  PROVE  EngineInv' /\ RowsMove
  <1>1. run' = [run EXCEPT ![r].at = at] /\ UNCHANGED tx  BY DEF GoTo
  <1>2. /\ run[r].job \in Jobs /\ run[r].kind \in Kinds /\ run[r].at \in StepsOf(run[r].kind)
        /\ tx[r] = "none" /\ at \in Steps /\ at # "idle"
    BY WhereLemma, StepsLemma DEF Steps
  <1>3. run \in [Runs -> RunType]  BY Typed DEF EngineInv
  <1>4. /\ run' \in [Runs -> RunType] /\ run'[r].at = at /\ run'[r].kind = run[r].kind
        /\ run'[r].job = run[r].job /\ \A s \in Runs \ {r} : run'[s] = run[s]
    BY <1>1, <1>2, <1>3 DEF RunType
  <1>5. job' \in [Jobs -> RowType]  BY <1>2, RowsLemma DEF EngineInv
  <1>6. TypeOK'  BY <1>1, <1>4, <1>5, Typed, Untyped DEF EngineInv
  <1>7. ChainGrows /\ now' \in {now, now + 1}  BY DEF ChainGrows
  <1>8. TxInv(r)'  BY <1>1, <1>2, <1>4 DEF TxInv
  <1>9. Running(r) /\ ~Paying(r)'  BY <1>1, <1>2, <1>4 DEF Running, Paying
  <1>10. RowInv(r)'
    <2>1. CASE run[r].at # "claim" /\ (at = "gather" => run[r].at = "gather")
      BY <1>4, <1>7, <1>9, <2>1, RowKeptLemma
    <2>2. CASE run[r].at = "claim"
      <3>1. run[r].kind = "deliver"  BY <2>2, WhereLemma
      <3> QED  BY <1>2, <1>4, <1>9, <2>2, <3>1 DEF RowInv
    <2>3. CASE at = "gather" /\ run[r].at # "gather"
      <3>1. run[r].kind \in {"dispute", "finalize"}  BY <1>2, <2>3, StepsLemma DEF Kinds
      <3>2. CASE run[r].kind = "dispute"  BY <1>2, <1>4, <1>9, <2>3, <3>2 DEF RowInv
      <3>3. CASE run[r].kind = "finalize"
        <4>1. run[r].at # "claim"  BY <1>2, <3>3, StepsLemma
        <4> QED  BY <1>4, <1>7, <1>9, <3>3, <4>1, RowKeptLemma
      <3> QED  BY <3>1, <3>2, <3>3
    <2> QED  BY <2>1, <2>2, <2>3
  <1>11. Delivering(r)' => \/ Delivering(r) /\ run'[r].job = run[r].job
                           \/ \A s \in Runs \ {r} : ~(Delivering(s) /\ run[s].job = run'[r].job)
    <2> SUFFICES ASSUME run[r].at = "claim", NEW s \in Runs \ {r}, Delivering(s)
                 PROVE  run[s].job # run[r].job
      BY <1>2, <1>4 DEF Delivering
    <2>1. job[run[s].job].state \in Claimed  BY DEF EngineInv, RowInv, Delivering, Running
    <2> QED  BY <2>1
  <1> QED  BY <1>1, <1>4, <1>6, <1>7, <1>8, <1>10, <1>11, StepKeeps
(* A call ends, and may leave its transaction in flight.                   *)
LEMMA EndLemma ==
  ASSUME EngineInv, NEW r \in Runs, End(r), RowsMove, job' \in [Jobs -> RowType],
         UNCHANGED <<held, chain, now, crashes>>
  PROVE  EngineInv' /\ RowsMove
  <1>1. run \in [Runs -> RunType] /\ tx \in [Runs -> TxType] /\ Idle \in RunType
    BY Typed DEF EngineInv
  <1>2. ChainGrows /\ now' \in {now, now + 1}  BY DEF ChainGrows
  <1>3. CASE tx[r] = "pending"
    <2>1. run' = [run EXCEPT ![r].at = "idle"] /\ UNCHANGED tx  BY <1>3 DEF End, GoTo
    <2>2. /\ run' \in [Runs -> RunType] /\ run'[r].at = "idle" /\ run'[r].kind = run[r].kind
          /\ run'[r].job = run[r].job /\ \A s \in Runs \ {r} : run'[s] = run[s]
      BY <1>1, <2>1 DEF RunType
    <2>3. TypeOK'  BY <2>1, <2>2, Typed, Untyped DEF EngineInv
    <2>4. TxInv(r) /\ RowInv(r)  BY DEF EngineInv
    <2>5. TxInv(r)'  BY <1>3, <2>1, <2>2, <2>4 DEF TxInv
    <2>6. run[r].at # "claim" /\ Paying(r) /\ Running(r)
      BY <1>3, <2>4 DEF TxInv, Paying, Running
    <2>7. RowInv(r)'  BY <1>2, <2>2, <2>6, RowKeptLemma
    <2>8. ~Delivering(r)'  BY <2>2 DEF Delivering
    <2> QED  BY <1>2, <2>1, <2>2, <2>3, <2>5, <2>7, <2>8, StepKeeps
  <1>4. CASE tx[r] # "pending"
    <2>1. run' = [run EXCEPT ![r] = Idle] /\ tx' = [tx EXCEPT ![r] = "none"]  BY <1>4 DEF End
    <2>2. Idle.at = "idle" /\ Idle.kind = "none"  BY DEF Idle
    <2>3. /\ run' \in [Runs -> RunType] /\ run'[r].at = "idle"
          /\ \A s \in Runs \ {r} : run'[s] = run[s]
      BY <1>1, <2>1, <2>2
    <2>4. tx' \in [Runs -> TxType] /\ tx'[r] = "none" /\ \A s \in Runs \ {r} : tx'[s] = tx[s]
      BY <1>1, <2>1 DEF TxType
    <2>5. TypeOK'  BY <2>3, <2>4, Typed, Untyped DEF EngineInv
    <2>6. TxInv(r)' /\ RowInv(r)' /\ ~Delivering(r)'
      BY <2>3, <2>4 DEF TxInv, RowInv, Running, Paying, Delivering
    <2> QED  BY <1>2, <2>3, <2>4, <2>5, <2>6, StepKeeps
  <1> QED  BY <1>3, <1>4

LEMMA StillEndLemma ==
  ASSUME EngineInv, NEW r \in Runs, End(r), UNCHANGED <<job, held, chain, now, crashes>>
  PROVE  EngineInv' /\ RowsMove
  BY StillLemma, EndLemma, Typed DEF EngineInv
------------------------------------------------------------------------------
(* The calls that begin.                                                   *)
LEMMA BeginsLemma ==
  ASSUME EngineInv, NEW r \in Runs, NEW j \in Jobs, Begins(r, j)
  PROVE  EngineInv' /\ RowsMove
  <1>1. CASE PostJob(r, j)
    BY <1>1, BeginLemma, StepsLemma DEF PostJob, Kinds
  <1>2. CASE Deliver(r, j)
    BY <1>2, BeginLemma, StepsLemma DEF Deliver, Kinds
  <1>3. CASE ExpireJob(r, j)
    BY <1>3, BeginLemma, StepsLemma DEF ExpireJob, Kinds
  <1>4. CASE DisputeJob(r, j)
    BY <1>4, BeginLemma, StepsLemma DEF DisputeJob, Kinds
  <1>5. CASE FinalizeJob(r, j)
    <2>1. job[j].state \in Proposed /\ now >= job[j].challengeDeadline
      BY <1>5 DEF FinalizeJob, Proposed
    <2> QED  BY <1>5, <2>1, BeginLemma, StepsLemma DEF FinalizeJob, Kinds
  <1> QED  BY <1>1, <1>2, <1>3, <1>4, <1>5 DEF Begins

(* The steps of a start.                                                   *)
LEMMA StartLemma ==
  ASSUME EngineInv, NEW r \in Runs,
         CreateJob(r) \/ Dispatch(r) \/ MarkDispatched(r) \/ MarkAwaiting(r)
  PROVE  EngineInv' /\ RowsMove
  <1> DEFINE j == run[r].job
  <1>1. /\ run[r].at \in {"create", "dispatch", "dispatched", "awaiting"}
        /\ UNCHANGED <<held, chain, now, crashes>>
    BY DEF CreateJob, Dispatch, MarkDispatched, MarkAwaiting
  <1>2. run[r].kind = "start" /\ j \in Jobs  BY <1>1, WhereLemma
  <1>3. RowsMove => job' \in [Jobs -> RowType]  BY <1>2, RowsLemma DEF EngineInv
  <1>4. {"DISPATCHED", "AWAITING_DELIVERY"} \subseteq JobStates \ Terminal
    BY DEF JobStates, Machine!JobStates, Terminal, Machine!Terminal
  <1>5. CASE CreateJob(r)
    <2>1. PICK disputable \in BOOLEAN :
            Update(j, {"ABSENT"}, [NoJob EXCEPT !.state = "FUNDED", !.disputable = disputable])
      BY <1>5 DEF CreateJob
    <2> DEFINE row == [NoJob EXCEPT !.state = "FUNDED", !.disputable = disputable]
    <2>2. row \in RowType /\ row.state = "FUNDED"
      <3>1. {"ABSENT", "FUNDED"} \subseteq JobStates \cup {"ABSENT"}
        BY DEF JobStates, Machine!JobStates
      <3>2. NoJob \in RowType  BY DEF RowType, NoJob
      <3> QED  BY <3>1, <3>2 DEF RowType
    <2>3. job[j].state \in {"ABSENT"} => RowStep(j, row)  BY <2>2 DEF RowStep
    <2>4. Update(j, {"ABSENT"}, row)  BY <2>1
    <2> HIDE DEF row
    <2>5. RowsMove  BY <1>2, <2>2, <2>3, <2>4, UpdateLemma
    <2> QED  BY <1>1, <1>2, <1>5, <2>5, GoLemma, StepsLemma DEF CreateJob
  <1>6. CASE Dispatch(r)
    <2>1. UNCHANGED <<job, held, chain, now, crashes>> /\ run[r].at = "dispatch"
      BY <1>6 DEF Dispatch
    <2>2. CASE GoTo(r, "dispatched")
      BY <1>2, <2>1, <2>2, GoLemma, StillLemma, StepsLemma
    <2>3. CASE run[r].attempt + 1 < MaxAttempts
               /\ run' = [run EXCEPT ![r].attempt = @ + 1] /\ UNCHANGED tx
      <3>1. run \in [Runs -> RunType]  BY Typed DEF EngineInv
      <3>2. run[r].attempt \in 0 .. MaxAttempts /\ MaxAttempts \in Nat
        BY <3>1, EngineAssumption DEF RunType
      <3>3. run[r].attempt + 1 \in 0 .. MaxAttempts  BY <2>3, <3>2
      <3>4. /\ run' \in [Runs -> RunType] /\ run'[r].at = run[r].at /\ run'[r].kind = run[r].kind
            /\ run'[r].job = run[r].job /\ \A s \in Runs \ {r} : run'[s] = run[s]
        BY <2>3, <3>1, <3>3 DEF RunType
      <3>5. TypeOK'  BY <2>1, <2>3, <3>4, Typed, Untyped DEF EngineInv
      <3>6. TxInv(r) /\ RowInv(r) /\ tx[r] = "none" /\ run[r].at \in StepsOf(run[r].kind)
        BY <2>1, WhereLemma DEF EngineInv
      <3>7. TxInv(r)'  BY <2>1, <2>3, <3>4, <3>6 DEF TxInv
      <3>8. RowInv(r)'
        BY <1>2, <2>1, <2>3, <3>4, <3>6 DEF RowInv, Running, Paying
      <3>9. ~Delivering(r)'  BY <1>2, <3>4 DEF Delivering
      <3> QED  BY <2>1, <2>3, <3>4, <3>5, <3>7, <3>8, <3>9, StepKeeps, StillLemma
    <2>4. CASE End(r)  BY <2>1, <2>4, StillEndLemma
    <2> QED  BY <1>6, <2>2, <2>3, <2>4 DEF Dispatch
  <1>7. CASE MarkDispatched(r)
    <2>1. RowsMove  BY <1>2, <1>4, <1>7, SetLemma, MovesLemma DEF MarkDispatched
    <2> QED  BY <1>1, <1>2, <1>7, <2>1, GoLemma, StepsLemma DEF MarkDispatched
  <1>8. CASE MarkAwaiting(r)
    <2>1. RowsMove  BY <1>2, <1>4, <1>8, SetLemma, MovesLemma DEF MarkAwaiting
    <2> QED  BY <1>1, <1>3, <1>8, <2>1, EndLemma DEF MarkAwaiting
  <1> QED  BY <1>5, <1>6, <1>7, <1>8
(* A call that has its outcome goes on to hold it or to pay it.            *)
LEMMA DecideLemma ==
  ASSUME EngineInv, NEW r \in Runs, NEW at \in {"hold", "submit"}, NEW label \in Outcomes,
         run' = [run EXCEPT ![r].label = label, ![r].at = at],
         run[r].at \in {"judge", "gather"}, at \in StepsOf(run[r].kind),
         held' \in [Works -> Labels \cup {"none"}], UNCHANGED <<job, tx, chain, now, crashes>>,
         run[r].kind = "deliver" /\ at = "submit" => ~job[run[r].job].disputable
  PROVE  EngineInv' /\ RowsMove
  <1>1. /\ run[r].job \in Jobs /\ run[r].kind \in Kinds /\ tx[r] = "none"
        /\ run[r].at = "judge" => run[r].kind = "deliver"
        /\ run[r].at = "gather" => run[r].kind \in {"dispute", "finalize"}
    BY WhereLemma
  <1>2. run \in [Runs -> RunType] /\ at \in Steps  BY Typed DEF EngineInv, Steps
  <1>3. /\ run' \in [Runs -> RunType] /\ run'[r].at = at /\ run'[r].kind = run[r].kind
        /\ run'[r].job = run[r].job /\ \A s \in Runs \ {r} : run'[s] = run[s]
    BY <1>2 DEF RunType
  <1>4. TypeOK'  BY <1>3, Typed, Untyped DEF EngineInv
  <1>5. TxInv(r)'  BY <1>1, <1>3 DEF TxInv
  <1>6. RowInv(r) /\ Running(r)  BY DEF EngineInv, Running
  <1>7. RowInv(r)'
    <2>1. CASE run[r].at = "judge"
      BY <1>1, <1>3, <1>6, <2>1 DEF RowInv, Running, Paying
    <2>2. CASE run[r].at = "gather"
      BY <1>1, <1>3, <1>6, <2>2 DEF RowInv, Running, Paying
    <2> QED  BY <2>1, <2>2
  <1>8. Delivering(r)' => Delivering(r) /\ run'[r].job = run[r].job
    BY <1>3 DEF Delivering
  <1> QED  BY <1>3, <1>4, <1>5, <1>7, <1>8, StillLemma, StepKeeps

(* The steps of a delivery.                                                *)
LEMMA DeliveryLemma ==
  ASSUME EngineInv, NEW r \in Runs,
         ClaimDelivery(r) \/ MarkVerifying(r) \/ Judge(r) \/ MarkProposed(r)
  PROVE  EngineInv' /\ RowsMove
  <1> DEFINE j == run[r].job
  <1>1. /\ run[r].at \in {"claim", "verify", "judge", "hold"} /\ UNCHANGED <<chain, now, crashes>>
    BY DEF ClaimDelivery, MarkVerifying, Judge, MarkProposed
  <1>2. run[r].kind = "deliver" /\ j \in Jobs /\ Work(r) \in Works  BY <1>1, WhereLemma
  <1>3. RowsMove => job' \in [Jobs -> RowType]  BY <1>2, RowsLemma DEF EngineInv
  <1>4. {"DELIVERED", "VERIFYING"} \subseteq JobStates \ Terminal
    BY DEF JobStates, Machine!JobStates, Terminal, Machine!Terminal
  <1>5. CASE ClaimDelivery(r)
    <2>1. RowsMove /\ (Won(j, PreDelivery) => job'[j].state = "DELIVERED")
      BY <1>2, <1>4, <1>5, SetLemma, MovesLemma DEF ClaimDelivery, PreDelivery
    <2>2. CASE Won(j, PreDelivery)
      <3>1. job'[j].state \in Claimed /\ job[j].state \notin Claimed
        BY <2>1, <2>2 DEF Won, PreDelivery, Claimed, Terminal, Machine!Terminal
      <3> QED  BY <1>1, <1>2, <1>5, <2>1, <2>2, <3>1, GoLemma, StepsLemma DEF ClaimDelivery
    <2>3. CASE ~Won(j, PreDelivery)
      BY <1>1, <1>3, <1>5, <2>1, <2>3, EndLemma DEF ClaimDelivery
    <2> QED  BY <2>2, <2>3
  <1>6. CASE MarkVerifying(r)
    <2>1. RowsMove  BY <1>2, <1>4, <1>6, SetLemma, MovesLemma DEF MarkVerifying
    <2> QED  BY <1>1, <1>2, <1>6, <2>1, GoLemma, StepsLemma DEF MarkVerifying
  <1>7. CASE Judge(r)
    <2>1. PICK label \in Labels :
            /\ held' = [held EXCEPT ![Work(r)] = label]
            /\ run' = [run EXCEPT ![r].label = label,
                                  ![r].at = IF job[j].disputable THEN "hold" ELSE "submit"]
      BY <1>7 DEF Judge
    <2> DEFINE at == IF job[j].disputable THEN "hold" ELSE "submit"
    <2>2. label \in Outcomes /\ at \in {"hold", "submit"} /\ at \in StepsOf(run[r].kind)
      BY <1>2, EngineAssumption, StepsLemma
    <2>3. held' \in [Works -> Labels \cup {"none"}]  BY <1>2, <2>1, Typed DEF EngineInv
    <2>4. at = "submit" => ~job[j].disputable  OBVIOUS
    <2>5. run' = [run EXCEPT ![r].label = label, ![r].at = at]  BY <2>1
    <2> HIDE DEF at
    <2> QED  BY <1>7, <2>2, <2>3, <2>4, <2>5, DecideLemma DEF Judge
  <1>8. CASE MarkProposed(r)
    <2> DEFINE row == [job[j] EXCEPT !.state = "PROPOSED", !.challengeDeadline = ChallengeDeadline(j)]
    <2>1. Update(j, {"VERIFYING"}, row) /\ End(r) /\ UNCHANGED <<held, chain, now, crashes>>
      BY <1>8 DEF MarkProposed
    <2>2. ChallengeDeadline(j) \in Int
      <3>1. Deadline(j) \in Int
        BY <1>2, Typed, EngineAssumption DEF EngineInv, Deadline, Work, EscrowType
      <3>2. now \in Int /\ Window \in Int /\ Margin \in Int
        BY Typed, EngineAssumption DEF EngineInv
      <3> QED  BY <3>1, <3>2 DEF ChallengeDeadline, MinOf
    <2>3. job[j] \in RowType  BY <1>2, Typed DEF EngineInv
    <2>4. "PROPOSED" \in JobStates \ Terminal
      BY DEF JobStates, Machine!JobStates, Terminal, Machine!Terminal
    <2>5. row \in RowType /\ row.state = "PROPOSED" /\ row.disputable = job[j].disputable
      BY <2>2, <2>3, <2>4 DEF RowType
    <2>6. job[j].state \in {"VERIFYING"} => RowStep(j, row)
      BY <2>4, <2>5, MovesLemma DEF RowStep
    <2> HIDE DEF row
    <2>7. RowsMove  BY <1>2, <2>1, <2>5, <2>6, UpdateLemma
    <2> QED  BY <1>3, <2>1, <2>7, EndLemma
  <1> QED  BY <1>5, <1>6, <1>7, <1>8

(* The steps of a dispute and of a finalization.                           *)
LEMMA DisputeLemma ==
  ASSUME EngineInv, NEW r \in Runs, OpenDispute(r) \/ MarkEscalated(r) \/ Gather(r)
  PROVE  EngineInv' /\ RowsMove
  <1> DEFINE j == run[r].job
  <1>1. run[r].at \in {"open", "escalate", "gather"} /\ UNCHANGED <<held, chain, now, crashes>>
    BY DEF OpenDispute, MarkEscalated, Gather
  <1>2. /\ j \in Jobs /\ Work(r) \in Works /\ run[r].kind \in {"dispute", "finalize"}
        /\ run[r].at \in {"open", "escalate"} => run[r].kind = "dispute"
    BY <1>1, WhereLemma
  <1>3. RowsMove => job' \in [Jobs -> RowType]  BY <1>2, RowsLemma DEF EngineInv
  <1>4. {"DISPUTED", "ESCALATED"} \subseteq JobStates \ Terminal
    BY DEF JobStates, Machine!JobStates, Terminal, Machine!Terminal
  <1>5. CASE OpenDispute(r)
    <2>1. RowsMove  BY <1>2, <1>4, <1>5, SetLemma, MovesLemma DEF OpenDispute
    <2>2. CASE Won(j, {"PROPOSED"})
      BY <1>1, <1>2, <1>5, <2>1, <2>2, GoLemma, StepsLemma DEF OpenDispute
    <2>3. CASE ~Won(j, {"PROPOSED"})
      BY <1>1, <1>3, <1>5, <2>1, <2>3, EndLemma DEF OpenDispute
    <2> QED  BY <2>2, <2>3
  <1>6. CASE MarkEscalated(r)
    <2>1. RowsMove /\ (Won(j, {"DISPUTED"}) => job'[j].state = "ESCALATED")
      BY <1>2, <1>4, <1>6, SetLemma, MovesLemma DEF MarkEscalated
    <2>2. CASE Won(j, {"DISPUTED"})
      <3>1. job'[j].state \in Ruled  BY <2>1, <2>2 DEF Ruled
      <3> QED  BY <1>1, <1>2, <1>6, <2>1, <2>2, <3>1, GoLemma, StepsLemma DEF MarkEscalated
    <2>3. CASE ~Won(j, {"DISPUTED"})
      BY <1>1, <1>3, <1>6, <2>1, <2>3, EndLemma DEF MarkEscalated
    <2> QED  BY <2>2, <2>3
  <1>7. CASE Gather(r)
    <2> DEFINE proposed == held[Work(r)]
    <2>1. proposed # "none" /\ proposed \in Labels \cup {"none"}
      BY <1>2, <1>7, Typed DEF EngineInv, Gather
    <2>2. proposed \in Outcomes  BY <2>1, EngineAssumption
    <2>3. PICK label \in IF run[r].kind = "dispute" THEN Rulings(proposed) ELSE {proposed} :
            run' = [run EXCEPT ![r].label = label, ![r].at = "submit"]
      BY <1>7 DEF Gather
    <2>4. label \in Outcomes  BY <2>2, <2>3 DEF Rulings, Outcomes
    <2>5. held' \in [Works -> Labels \cup {"none"}]  BY <1>1, Typed DEF EngineInv
    <2>6. "submit" \in StepsOf(run[r].kind)  BY <1>2, StepsLemma
    <2> QED  BY <1>2, <1>7, <2>3, <2>4, <2>5, <2>6, DecideLemma DEF Gather
  <1> QED  BY <1>5, <1>6, <1>7
(* The steps of a payment.                                                 *)
LEMMA PaymentLemma ==
  ASSUME EngineInv, NEW r \in Runs, Submit(r) \/ Confirm(r) \/ GiveUp(r) \/ Throw(r)
  PROVE  EngineInv' /\ RowsMove
  <1>1. run[r].at # "idle" /\ UNCHANGED <<job, held, chain, now, crashes>>
    BY DEF Submit, Confirm, GiveUp, Throw
  <1>2. /\ run[r].job \in Jobs /\ run[r].kind \in Kinds /\ run[r].at \in StepsOf(run[r].kind)
        /\ run[r].at \in {"submit", "confirm"} => run[r].kind # "start"
    BY <1>1, WhereLemma
  <1>3. run \in [Runs -> RunType] /\ tx \in [Runs -> TxType]  BY Typed DEF EngineInv
  <1>4. TxInv(r) /\ RowInv(r)  BY DEF EngineInv
  <1>5. run[r].at \in {"submit", "confirm"} => {"confirm", "record"} \subseteq StepsOf(run[r].kind)
    BY <1>2, StepsLemma DEF Kinds
  <1>6. RowsMove /\ ChainGrows /\ now' \in {now, now + 1}  BY <1>1, StillLemma
  <1>7. CASE Submit(r)
    <2>1. /\ run[r].at = "submit" /\ run' = [run EXCEPT ![r].at = "confirm"]
          /\ tx' = [tx EXCEPT ![r] = "pending"]
      BY <1>7 DEF Submit
    <2>2. /\ run' \in [Runs -> RunType] /\ run'[r].at = "confirm" /\ run'[r].kind = run[r].kind
          /\ run'[r].job = run[r].job /\ \A s \in Runs \ {r} : run'[s] = run[s]
      BY <1>3, <2>1 DEF RunType, Steps
    <2>3. tx' \in [Runs -> TxType] /\ tx'[r] = "pending" /\ \A s \in Runs \ {r} : tx'[s] = tx[s]
      BY <1>3, <2>1 DEF TxType
    <2>4. TypeOK'  BY <1>1, <2>2, <2>3, Typed, Untyped DEF EngineInv
    <2>5. TxInv(r)'  BY <1>2, <2>1, <2>2, <2>3 DEF TxInv
    <2>6. Running(r) /\ Paying(r)  BY <2>1 DEF Running, Paying
    <2>7. RowInv(r)'  BY <1>5, <1>6, <2>1, <2>2, <2>6, RowKeptLemma
    <2>8. Delivering(r)' => Delivering(r) /\ run'[r].job = run[r].job
      BY <2>1, <2>2 DEF Delivering
    <2> QED  BY <1>6, <2>2, <2>3, <2>4, <2>5, <2>7, <2>8, StepKeeps
  <1>8. CASE Confirm(r)
    <2>1. /\ run[r].at = "confirm" /\ tx[r] = "ok" /\ run' = [run EXCEPT ![r].at = "record"]
          /\ UNCHANGED tx
      BY <1>8 DEF Confirm, GoTo
    <2>2. /\ run' \in [Runs -> RunType] /\ run'[r].at = "record" /\ run'[r].kind = run[r].kind
          /\ run'[r].job = run[r].job /\ run'[r].label = run[r].label
          /\ \A s \in Runs \ {r} : run'[s] = run[s]
      BY <1>3, <2>1 DEF RunType, Steps
    <2>3. TypeOK'  BY <1>1, <2>1, <2>2, Typed, Untyped DEF EngineInv
    <2>4. PaidBy(r)'  BY <1>6, <2>1, <2>2, PaidLemma
    <2>5. TxInv(r)'  BY <2>1, <2>2, <2>4 DEF TxInv
    <2>6. Running(r) /\ Paying(r)  BY <2>1 DEF Running, Paying
    <2>7. RowInv(r)'  BY <1>5, <1>6, <2>1, <2>2, <2>6, RowKeptLemma
    <2>8. Delivering(r)' => Delivering(r) /\ run'[r].job = run[r].job
      BY <2>1, <2>2 DEF Delivering
    <2> QED  BY <1>6, <2>1, <2>2, <2>3, <2>5, <2>7, <2>8, StepKeeps
  <1>9. CASE GiveUp(r) \/ Throw(r)  BY <1>1, <1>9, StillEndLemma DEF GiveUp, Throw
  <1> QED  BY <1>7, <1>8, <1>9

(* The row is written from a confirmed transaction.  A resolved one was    *)
(* paid by its dispute, so no refund can have been confirmed beside it.    *)
LEMMA RecordLemma ==
  ASSUME EngineInv, NEW r \in Runs, Record(r)
  PROVE  EngineInv' /\ RowsMove
  <1> DEFINE j == run[r].job
             settled == [job[j] EXCEPT !.state = Machine!OutcomeToState(run[r].label),
                                       !.outcome = run[r].label]
             resolved == [job[j] EXCEPT !.state = "RESOLVED", !.outcome = run[r].label]
             expired == [job[j] EXCEPT !.state = "EXPIRED", !.outcome = "refund"]
  <1>1. run[r].at = "record" /\ End(r) /\ UNCHANGED <<held, chain, now, crashes>>
    BY DEF Record
  <1>2. j \in Jobs  BY <1>1, WhereLemma
  <1>3. tx[r] = "ok" /\ PaidBy(r)  BY <1>1 DEF EngineInv, TxInv
  <1>4. job[j] \in RowType /\ run[r].label \in Outcomes \cup {"none"}
    BY <1>2, Typed DEF EngineInv, RunType
  <1>5. Machine!OutcomeToState(run[r].label) \in {"SETTLED", "ABSTAINED"}
    BY DEF Machine!OutcomeToState
  <1>6. {"SETTLED", "ABSTAINED", "RESOLVED", "EXPIRED"} \subseteq JobStates /\ "ABSENT" \notin JobStates
    BY DEF JobStates, Machine!JobStates, Machine!Terminal
  <1>7. /\ settled \in RowType /\ settled.state \in {"SETTLED", "ABSTAINED"}
        /\ settled.outcome = run[r].label /\ settled.disputable = job[j].disputable
        /\ settled.challengeDeadline = job[j].challengeDeadline
    BY <1>4, <1>5, <1>6 DEF RowType
  <1>8. /\ resolved \in RowType /\ resolved.state = "RESOLVED"
        /\ resolved.outcome = run[r].label /\ resolved.disputable = job[j].disputable
        /\ resolved.challengeDeadline = job[j].challengeDeadline
    BY <1>4, <1>6 DEF RowType
  <1>9. /\ expired \in RowType /\ expired.state = "EXPIRED"
        /\ expired.disputable = job[j].disputable
        /\ expired.challengeDeadline = job[j].challengeDeadline
    BY <1>4, <1>6 DEF RowType, Outcomes
  <1>10. \/ run[r].kind = "deliver"  /\ Update(j, {"VERIFYING"}, settled)
         \/ run[r].kind = "finalize" /\ Update(j, {"PROPOSED"}, settled)
         \/ run[r].kind = "dispute"  /\ Update(j, {"ESCALATED"}, resolved)
         \/ run[r].kind = "expire"   /\ Update(j, JobStates \ RefusesExpiry, expired)
    BY DEF Record, JobStates
  <1> HIDE DEF settled, resolved, expired
  <1>11. RowsMove
    <2>1. CASE run[r].kind \in {"deliver", "finalize"}
      <3>1. Told(WorkOf[j], settled)  BY <1>3, <1>7, <2>1 DEF PaidBy, Told, Work
      <3>2. job[j].state \in {"VERIFYING", "PROPOSED"} => RowStep(j, settled)
        BY <1>6, <1>7, <3>1, MovesLemma DEF RowStep
      <3> QED  BY <1>2, <1>7, <1>10, <2>1, <3>2, UpdateLemma
    <2>2. CASE run[r].kind = "dispute"
      <3>1. Told(WorkOf[j], resolved)  BY <1>3, <1>8, <2>2 DEF PaidBy, Told, Work
      <3>2. job[j].state \in {"ESCALATED"} => RowStep(j, resolved)
        BY <1>6, <1>8, <3>1, MovesLemma DEF RowStep
      <3> QED  BY <1>2, <1>8, <1>10, <2>2, <3>2, UpdateLemma
    <2>3. CASE run[r].kind = "expire"
      <3>1. Told(WorkOf[j], expired)  BY <1>3, <1>9, <2>3 DEF PaidBy, Told, Work
      <3>2. job[j].state # "RESOLVED"
        <4> SUFFICES ASSUME job[j].state = "RESOLVED" PROVE FALSE  OBVIOUS
        <4>1. chain[WorkOf[j]].outcome = job[j].outcome
          BY <1>2 DEF EngineInv, TerminalTellsTheChain, Terminal, Machine!Terminal
        <4>2. chain[WorkOf[j]].outcome = "expired"  BY <1>3, <2>3 DEF PaidBy, Work
        <4> QED  BY <1>4, <4>1, <4>2 DEF RowType, Outcomes
      <3>3. job[j].state \in JobStates \ RefusesExpiry => job[j].state \in JobStates \ Terminal
        BY <3>2 DEF RefusesExpiry, Terminal, Machine!Terminal
      <3>4. job[j].state \in JobStates \ RefusesExpiry => RowStep(j, expired)
        BY <1>6, <1>9, <3>1, <3>3, MovesLemma DEF RowStep
      <3> QED  BY <1>2, <1>9, <1>10, <2>3, <3>4, UpdateLemma
    <2> QED  BY <1>10, <2>1, <2>2, <2>3
  <1>12. job' \in [Jobs -> RowType]  BY <1>2, <1>11, RowsLemma DEF EngineInv
  <1> QED  BY <1>1, <1>11, <1>12, EndLemma
------------------------------------------------------------------------------
(* The end of a transaction.                                               *)
LEMMA FinishLemma ==
  ASSUME EngineInv, NEW r \in Runs, NEW result \in {"ok", "reverted", "failed"}, tx[r] = "pending",
         Finish(r, result), ChainGrows, chain' \in [Works -> EscrowType],
         result = "ok" => /\ chain'[Work(r)].status = "SETTLED"
                          /\ chain'[Work(r)].outcome =
                               IF run[r].kind = "expire" THEN "expired" ELSE run[r].label,
         UNCHANGED <<job, held, now, crashes>>
  PROVE  EngineInv' /\ RowsMove
  <1>1. run \in [Runs -> RunType] /\ tx \in [Runs -> TxType] /\ Idle \in RunType
    BY Typed DEF EngineInv
  <1>2. RowsMove /\ now' \in {now, now + 1}  BY DEF RowsMove
  <1>3. TxInv(r) /\ RowInv(r)  BY DEF EngineInv
  <1>4. CASE run[r].at = "idle"
    <2>1. run' = [run EXCEPT ![r] = Idle] /\ tx' = [tx EXCEPT ![r] = "none"]  BY <1>4 DEF Finish
    <2>2. Idle.at = "idle"  BY DEF Idle
    <2>3. /\ run' \in [Runs -> RunType] /\ run'[r].at = "idle"
          /\ \A s \in Runs \ {r} : run'[s] = run[s]
      BY <1>1, <2>1, <2>2
    <2>4. tx' \in [Runs -> TxType] /\ tx'[r] = "none" /\ \A s \in Runs \ {r} : tx'[s] = tx[s]
      BY <1>1, <2>1 DEF TxType
    <2>5. TypeOK'  BY <2>3, <2>4, Typed, Untyped DEF EngineInv
    <2>6. TxInv(r)' /\ ~Delivering(r)' /\ ~Running(r)' /\ ~Paying(r)' /\ run'[r].at # "gather"
      BY <2>3, <2>4 DEF TxInv, Running, Paying, Delivering
    <2>7. RowInv(r)'  BY <2>3, <2>6 DEF RowInv
    <2> QED  BY <1>2, <2>3, <2>4, <2>5, <2>6, <2>7, StepKeeps
  <1>5. CASE run[r].at # "idle"
    <2>1. tx' = [tx EXCEPT ![r] = result] /\ UNCHANGED run  BY <1>5 DEF Finish
    <2>2. tx' \in [Runs -> TxType] /\ tx'[r] = result /\ \A s \in Runs \ {r} : tx'[s] = tx[s]
      BY <1>1, <2>1 DEF TxType
    <2>3. TypeOK'  BY <2>1, <2>2, Typed, Untyped DEF EngineInv
    <2>4. run[r].at = "confirm"  BY <1>3, <1>5 DEF TxInv
    <2>5. result = "ok" => PaidBy(r)'  BY <2>1 DEF PaidBy, Work
    <2>6. TxInv(r)'  BY <2>1, <2>2, <2>4, <2>5 DEF TxInv
    <2>7. Running(r) /\ Paying(r) /\ run[r].at \in StepsOf(run[r].kind)
      BY <1>3, <2>4 DEF Running, Paying, RowInv
    <2>8. RowInv(r)'  BY <1>2, <2>1, <2>4, <2>7, RowKeptLemma
    <2>9. Delivering(r)' => Delivering(r) /\ run'[r].job = run[r].job  BY <2>1 DEF Delivering
    <2> QED  BY <1>2, <2>1, <2>2, <2>3, <2>6, <2>8, <2>9, StepKeeps
  <1> QED  BY <1>4, <1>5

LEMMA PayLemma ==
  ASSUME EngineInv, NEW w \in Works, NEW outcome \in Outcomes \cup {"none", "expired"},
         chain[w].status = "FUNDED", chain' = Pay(w, outcome)
  PROVE  /\ ChainGrows /\ chain' \in [Works -> EscrowType]
         /\ chain'[w].status = "SETTLED" /\ chain'[w].outcome = outcome
         /\ \A x \in Works \ {w} : chain'[x] = chain[x]
  <1>1. chain \in [Works -> EscrowType]  BY Typed DEF EngineInv
  <1>2. chain' = [chain EXCEPT ![w].status = "SETTLED", ![w].outcome = outcome]  BY DEF Pay
  <1>3. /\ chain'[w].status = "SETTLED" /\ chain'[w].outcome = outcome
        /\ \A x \in Works \ {w} : chain'[x] = chain[x]
    BY <1>1, <1>2 DEF EscrowType
  <1>4. chain' \in [Works -> EscrowType]  BY <1>1, <1>2 DEF EscrowType
  <1> QED  BY <1>3, <1>4 DEF ChainGrows

LEMMA LandLemma ==
  ASSUME EngineInv, NEW r \in Runs, Land(r) \/ Fail(r)
  PROVE  EngineInv' /\ RowsMove
  <1>1. CASE Land(r)
    <2> DEFINE outcome == IF run[r].kind = "expire" THEN "expired" ELSE run[r].label
    <2>1. /\ tx[r] = "pending" /\ chain[Work(r)].status = "FUNDED" /\ chain' = Pay(Work(r), outcome)
          /\ Finish(r, "ok") /\ UNCHANGED <<job, held, now, crashes>>
      BY <1>1 DEF Land, Allowed
    <2>2. run[r].job \in Jobs  BY <2>1 DEF EngineInv, RowInv, Running
    <2>3. Work(r) \in Works  BY <2>2, EngineAssumption DEF Work
    <2>4. outcome \in Outcomes \cup {"none", "expired"}  BY Typed DEF EngineInv, RunType
    <2>5. /\ ChainGrows /\ chain' \in [Works -> EscrowType]
          /\ chain'[Work(r)].status = "SETTLED" /\ chain'[Work(r)].outcome = outcome
      BY <2>1, <2>3, <2>4, PayLemma
    <2> QED  BY <2>1, <2>5, FinishLemma
  <1>2. CASE Fail(r)
    <2>1. ChainGrows /\ chain' \in [Works -> EscrowType]
      BY <1>2, Typed DEF EngineInv, Fail, ChainGrows
    <2> QED  BY <1>2, <2>1, FinishLemma DEF Fail
  <1> QED  BY <1>1, <1>2

(* The steps of the chain and of the clock.                                *)
LEMMA WorldLemma ==
  ASSUME EngineInv, (\E w \in Works : FundEscrow(w) \/ BuyerRefund(w)) \/ Tick
  PROVE  EngineInv' /\ RowsMove
  <1>1. UNCHANGED <<job, held, run, tx, crashes>>  BY DEF FundEscrow, BuyerRefund, Tick
  <1>2. RowsMove  BY <1>1 DEF RowsMove
  <1>3. /\ ChainGrows /\ chain' \in [Works -> EscrowType]
        /\ now' \in {now, now + 1} /\ now' \in 0 .. MaxTime
    <2>1. /\ chain \in [Works -> EscrowType] /\ now \in 0 .. MaxTime
          /\ MaxTime \in Nat /\ Ttl \in Nat
      BY Typed, EngineAssumption DEF EngineInv
    <2>2. ASSUME NEW w \in Works, FundEscrow(w)
          PROVE  ChainGrows /\ chain' \in [Works -> EscrowType] /\ now' = now
      <3>1. /\ chain[w].status = "EMPTY" /\ now' = now
            /\ chain' = [chain EXCEPT ![w].status = "FUNDED", ![w].deadline = now + Ttl]
        BY <2>2 DEF FundEscrow
      <3>2. now + Ttl \in Nat  BY <2>1
      <3>3. chain' \in [Works -> EscrowType]  BY <2>1, <3>1, <3>2 DEF EscrowType
      <3>4. \A x \in Works \ {w} : chain'[x] = chain[x]  BY <2>1, <3>1
      <3> QED  BY <3>1, <3>3, <3>4 DEF ChainGrows
    <2>3. ASSUME NEW w \in Works, BuyerRefund(w)
          PROVE  ChainGrows /\ chain' \in [Works -> EscrowType] /\ now' = now
      BY <2>3, PayLemma DEF BuyerRefund
    <2>4. ASSUME Tick
          PROVE  ChainGrows /\ chain' \in [Works -> EscrowType] /\ now' = now + 1 /\ now' \in 0 .. MaxTime
      BY <2>1, <2>4 DEF Tick, ChainGrows
    <2> QED  BY <2>1, <2>2, <2>3, <2>4
  <1>4. TypeOK'  BY <1>1, <1>3, Typed, Untyped DEF EngineInv
  <1>5. \A r \in Runs : TxInv(r)' /\ RowInv(r)'  BY <1>1, <1>2, <1>3, OthersLemma
  <1>6. TerminalTellsTheChain'  BY <1>2, <1>3, TerminalLemma
  <1>7. \A r, s \in Runs : Delivering(r)' /\ Delivering(s)' /\ run'[r].job = run'[s].job => r = s
    BY <1>1 DEF EngineInv, Delivering
  <1> QED  BY <1>2, <1>4, <1>5, <1>6, <1>7 DEF EngineInv

(* A restart ends the calls and leaves the transactions in flight.         *)
LEMMA CrashLemma ==
  ASSUME EngineInv, Crash
  PROVE  EngineInv' /\ RowsMove
  <1>1. /\ crashes < MaxCrashes /\ crashes' = crashes + 1 /\ UNCHANGED <<job, held, chain, now>>
        /\ run' = [r \in Runs |-> IF tx[r] = "pending" THEN [run[r] EXCEPT !.at = "idle"] ELSE Idle]
        /\ tx' = [r \in Runs |-> IF tx[r] = "pending" THEN "pending" ELSE "none"]
    BY DEF Crash
  <1>2. /\ run \in [Runs -> RunType] /\ tx \in [Runs -> TxType] /\ Idle \in RunType
        /\ crashes \in 0 .. MaxCrashes /\ MaxCrashes \in Nat
    BY Typed, EngineAssumption DEF EngineInv
  <1>3. crashes' \in 0 .. MaxCrashes  BY <1>1, <1>2
  <1>4. RowsMove /\ ChainGrows /\ now' \in {now, now + 1}  BY <1>1, StillLemma
  <1>5. ASSUME NEW r \in Runs
        PROVE  TxInv(r)' /\ RowInv(r)' /\ ~Delivering(r)' /\ run'[r] \in RunType /\ tx'[r] \in TxType
    <2>1. TxInv(r) /\ RowInv(r)  BY DEF EngineInv
    <2>2. CASE tx[r] = "pending"
      <3>1. run'[r] = [run[r] EXCEPT !.at = "idle"] /\ tx'[r] = "pending"  BY <1>1, <2>2
      <3>2. /\ run'[r] \in RunType /\ run'[r].at = "idle" /\ run'[r].kind = run[r].kind
            /\ run'[r].job = run[r].job
        BY <1>2, <3>1 DEF RunType
      <3>3. TxInv(r)' /\ ~Delivering(r)'  BY <2>1, <2>2, <3>1, <3>2 DEF TxInv, Delivering
      <3>4. run[r].at # "claim" /\ Paying(r) /\ Running(r)
        BY <2>1, <2>2 DEF TxInv, Paying, Running
      <3>5. RowInv(r)'  BY <1>4, <3>2, <3>4, RowKeptLemma
      <3> QED  BY <3>1, <3>2, <3>3, <3>5 DEF TxType
    <2>3. CASE tx[r] # "pending"
      <3>1. run'[r] = Idle /\ tx'[r] = "none"  BY <1>1, <2>3
      <3>2. run'[r].at = "idle"  BY <3>1 DEF Idle
      <3>3. ~Running(r)' /\ ~Paying(r)' /\ ~Delivering(r)' /\ TxInv(r)'
        BY <3>1, <3>2 DEF Running, Paying, Delivering, TxInv
      <3>4. RowInv(r)'  BY <3>2, <3>3 DEF RowInv
      <3> QED  BY <1>2, <3>1, <3>3, <3>4 DEF TxType
    <2> QED  BY <2>2, <2>3
  <1>6. run' \in [Runs -> RunType] /\ tx' \in [Runs -> TxType]
    BY <1>1, <1>5
  <1>7. TypeOK'  BY <1>1, <1>3, <1>6, Typed, Untyped DEF EngineInv
  <1>8. TerminalTellsTheChain'  BY <1>4, TerminalLemma
  <1> QED  BY <1>4, <1>5, <1>7, <1>8 DEF EngineInv
------------------------------------------------------------------------------
LEMMA EngineInitLemma ==
  ASSUME Init
  PROVE  EngineInv
  <1>1. job \in [Jobs -> RowType] /\ \A j \in Jobs : job[j].state = "ABSENT"
    <2>1. NoJob \in RowType /\ NoJob.state = "ABSENT"  BY DEF NoJob, RowType
    <2> QED  BY <2>1 DEF Init
  <1>2. /\ run \in [Runs -> RunType] /\ tx \in [Runs -> TxType]
        /\ \A r \in Runs : run[r].at = "idle" /\ tx[r] = "none"
    <2>1. Idle \in RunType /\ Idle.at = "idle"  BY EngineAssumption DEF RunType, Idle
    <2> QED  BY <2>1 DEF Init, TxType
  <1>3. TypeOK
    BY <1>1, <1>2, EngineAssumption DEF Init, TypeOK, RowType, RunType, TxType, JobStates
  <1>4. \A r \in Runs : TxInv(r) /\ RowInv(r) /\ ~Delivering(r)
    BY <1>2 DEF TxInv, RowInv, Running, Paying, Delivering
  <1>5. TerminalTellsTheChain  BY <1>1 DEF TerminalTellsTheChain, Terminal, Machine!Terminal
  <1> QED  BY <1>3, <1>4, <1>5 DEF EngineInv

LEMMA EngineStepLemma ==
  ASSUME EngineInv, [Next]_vars
  PROVE  EngineInv' /\ RowsMove
  <1>1. CASE UNCHANGED vars
    <2>1. UNCHANGED <<job, held, run, tx, chain, now, crashes>>  BY <1>1 DEF vars
    <2>2. TypeOK'  BY <2>1, Typed, Untyped DEF EngineInv
    <2>3. \A r \in Runs : TxInv(r)' /\ RowInv(r)'  BY <2>1, StillLemma, OthersLemma
    <2>4. TerminalTellsTheChain'  BY <2>1, StillLemma, TerminalLemma
    <2>5. \A r, s \in Runs : Delivering(r)' /\ Delivering(s)' /\ run'[r].job = run'[s].job => r = s
      BY <2>1 DEF EngineInv, Delivering
    <2> QED  BY <2>1, <2>2, <2>3, <2>4, <2>5, StillLemma DEF EngineInv
  <1>2. ASSUME NEW r \in Runs, Continues(r)  PROVE EngineInv' /\ RowsMove
    BY <1>2, StartLemma, DeliveryLemma, DisputeLemma, PaymentLemma, RecordLemma DEF Continues
  <1>3. CASE Next
    BY <1>2, <1>3, BeginsLemma, LandLemma, WorldLemma, CrashLemma DEF Next
  <1> QED  BY <1>1, <1>3
------------------------------------------------------------------------------
(* The invariant holds in every interleaving of calls, transactions and    *)
(* restarts, also of several jobs on one work.                             *)
THEOREM EngineInvariance == Spec => []EngineInv
  <1>1. Init => EngineInv  BY EngineInitLemma
  <1>2. EngineInv /\ [Next]_vars => EngineInv'  BY EngineStepLemma
  <1> QED  BY <1>1, <1>2, PTL DEF Spec

(* Every row, run, transaction and escrow stays well typed.                *)
THEOREM EngineTypes == Spec => []TypeOK
  <1>1. EngineInv => TypeOK  BY DEF EngineInv
  <1> QED  BY <1>1, EngineInvariance, PTL

(* Of all the callbacks and polls that race for a job, one run is ever     *)
(* past claimDelivery (job-store.ts, claimDelivery).                       *)
THEOREM OneDelivery == Spec => []SingleDelivery
  <1>1. EngineInv => SingleDelivery
    <2> SUFFICES ASSUME EngineInv, NEW r \in Runs, NEW s \in Runs,
                        {run[r].kind, run[s].kind} = {"deliver"}, run[r].job = run[s].job,
                        {run[r].at, run[s].at} \cap {"claim", "idle"} = {}
                 PROVE  r = s
      BY DEF SingleDelivery
    <2>1. Delivering(r) /\ Delivering(s)  BY DEF Delivering
    <2> QED  BY <2>1 DEF EngineInv
  <1> QED  BY <1>1, EngineInvariance, PTL

(* "Every terminal state is set from a confirmed on-chain tx"              *)
(* (routes/jobs.ts:115-116): a terminal row names the outcome that closed  *)
(* its escrow, whatever calls and refunds raced for it.                    *)
THEOREM TerminalStatesAreTrue == Spec => []TerminalTellsTheChain
  <1>1. EngineInv => TerminalTellsTheChain  BY DEF EngineInv
  <1> QED  BY <1>1, EngineInvariance, PTL

(* No interleaving persists a transition job-machine.ts does not list: the *)
(* rows implement JobMachine.                                              *)
THEOREM RowsKeepLifecycle == Spec => KeepsLifecycle
  <1> DEFINE state == [j \in Jobs |-> job[j].state]
  <1>1. Init => Machine!MachineInit
    BY DEF Init, NoJob, Machine!MachineInit
  <1>2. EngineInv /\ [Next]_vars => [Machine!MachineNext]_state
    <2> SUFFICES ASSUME EngineInv, RowsMove PROVE [Machine!MachineNext]_state
      BY EngineStepLemma
    <2>1. CASE UNCHANGED job  BY <2>1
    <2>2. ASSUME NEW j \in Jobs, NEW row \in RowType, job' = [job EXCEPT ![j] = row], RowStep(j, row)
          PROVE  Machine!MachineNext
      <3>1. job \in [Jobs -> RowType]  BY Typed DEF EngineInv
      <3>2. state' = [state EXCEPT ![j] = row.state] /\ state[j] = job[j].state  BY <2>2, <3>1
      <3>3. CASE job[j].state = "ABSENT" /\ row.state = "FUNDED"
        BY <3>2, <3>3 DEF Machine!MachineNext, Machine!Create
      <3>4. CASE /\ job[j].state # "ABSENT" /\ row.state \in JobStates
                 /\ Machine!CanTransition(job[j].state, row.state)
        BY <3>2, <3>4 DEF Machine!MachineNext, Machine!Move, JobStates
      <3> QED  BY <2>2, <3>3, <3>4 DEF RowStep
    <2> QED  BY <2>1, <2>2 DEF RowsMove
  <1> QED  BY <1>1, <1>2, EngineInvariance, PTL DEF Spec, KeepsLifecycle, Machine!Lifecycle
------------------------------------------------------------------------------
(* No other job was started on a job's work.                               *)
OneJobPerWork == \A i, j \in Jobs : WorkOf[i] = WorkOf[j] => i = j

(* An escrow is closed by a transaction of a run, or given back.           *)
LEMMA ClosedByLemma ==
  ASSUME EngineInv, [Next]_vars, NEW w \in Works,
         chain[w].status = "FUNDED", chain'[w].status = "SETTLED", chain'[w].outcome # "expired"
  PROVE  \E r \in Runs : tx[r] = "pending" /\ Work(r) = w /\ run[r].kind # "expire"
  <1>1. chain \in [Works -> EscrowType]  BY Typed DEF EngineInv
  <1>2. UNCHANGED chain => FALSE  OBVIOUS
  <1>3. ASSUME NEW r \in Runs, Land(r)
        PROVE  tx[r] = "pending" /\ Work(r) = w /\ run[r].kind # "expire"
    <2> DEFINE outcome == IF run[r].kind = "expire" THEN "expired" ELSE run[r].label
    <2>1. tx[r] = "pending" /\ chain[Work(r)].status = "FUNDED" /\ chain' = Pay(Work(r), outcome)
      BY <1>3 DEF Land, Allowed
    <2>2. run[r].job \in Jobs  BY <2>1 DEF EngineInv, RowInv, Running
    <2>3. Work(r) \in Works  BY <2>2, EngineAssumption DEF Work
    <2>4. outcome \in Outcomes \cup {"none", "expired"}  BY Typed DEF EngineInv, RunType
    <2>5. chain'[Work(r)].outcome = outcome /\ \A x \in Works \ {Work(r)} : chain'[x] = chain[x]
      BY <2>1, <2>3, <2>4, PayLemma
    <2>6. Work(r) = w  BY <2>5
    <2> QED  BY <2>1, <2>5, <2>6
  <1>4. ASSUME NEW x \in Works, FundEscrow(x)  PROVE FALSE
    <2>1. chain[x].status = "EMPTY" /\ x # w  BY <1>4 DEF FundEscrow
    <2>2. chain'[w] = chain[w]  BY <1>1, <1>4, <2>1 DEF FundEscrow
    <2> QED  BY <2>2
  <1>5. ASSUME NEW x \in Works, BuyerRefund(x)  PROVE FALSE
    <2>1. chain'[x].outcome = "expired" /\ \A y \in Works \ {x} : chain'[y] = chain[y]
      BY <1>5, PayLemma DEF BuyerRefund
    <2> QED  BY <2>1
  <1>6. ASSUME NEW r \in Runs, Continues(r) \/ Fail(r) \/ (\E j \in Jobs : Begins(r, j))
        PROVE  UNCHANGED chain
    BY <1>6 DEF Continues, Begins, Fail, PostJob, Deliver, ExpireJob, DisputeJob, FinalizeJob,
                CreateJob, Dispatch, MarkDispatched, MarkAwaiting, ClaimDelivery, MarkVerifying,
                Judge, MarkProposed, OpenDispute, MarkEscalated, Gather, Submit, Confirm, GiveUp,
                Record, Throw
  <1>7. Tick \/ Crash \/ UNCHANGED vars => UNCHANGED chain  BY DEF Tick, Crash, vars
  <1> QED  BY <1>2, <1>3, <1>4, <1>5, <1>6, <1>7 DEF Next

(* "So a party can contest before any money moves" (job-engine.ts:184-187):*)
(* where nobody starts a second job on a work, no verdict on a job that    *)
(* can be disputed is paid while its window is open.                       *)
THEOREM WindowIsKept ==
  ASSUME OneJobPerWork
  PROVE  Spec => NothingPaidInTheWindow
  <1>1. EngineInv /\ [Next]_vars =>
          [\A j \in Jobs :
             /\ job[j].disputable
             /\ chain[WorkOf[j]].status = "FUNDED" /\ chain'[WorkOf[j]].status = "SETTLED"
             /\ chain'[WorkOf[j]].outcome # "expired"
             => job[j].state \in {"DISPUTED", "ESCALATED"} \/ now >= job[j].challengeDeadline]_vars
    <2> SUFFICES ASSUME EngineInv, [Next]_vars, NEW j \in Jobs, job[j].disputable,
                        chain[WorkOf[j]].status = "FUNDED", chain'[WorkOf[j]].status = "SETTLED",
                        chain'[WorkOf[j]].outcome # "expired"
                 PROVE  job[j].state \in {"DISPUTED", "ESCALATED"} \/ now >= job[j].challengeDeadline
      OBVIOUS
    <2>1. WorkOf[j] \in Works  BY EngineAssumption
    <2>2. PICK r \in Runs : tx[r] = "pending" /\ Work(r) = WorkOf[j] /\ run[r].kind # "expire"
      BY <2>1, ClosedByLemma
    <2>3. TxInv(r) /\ RowInv(r) /\ Running(r) /\ Paying(r)
      BY <2>2 DEF EngineInv, Running, Paying
    <2>4. run[r].job = j  BY <2>2, <2>3 DEF RowInv, Work, OneJobPerWork
    <2>5. run[r].kind \in {"deliver", "dispute", "finalize"}
      BY <2>2, <2>3 DEF TxInv, RowInv, Kinds
    <2>6. run[r].kind # "deliver"  BY <2>3, <2>4 DEF RowInv
    <2>7. CASE run[r].kind = "finalize"  BY <2>3, <2>4, <2>7 DEF RowInv
    <2>8. CASE run[r].kind = "dispute"
      <3>1. job[j].state \in Ruled  BY <2>3, <2>4, <2>8 DEF RowInv
      <3>2. job[j].state \notin Terminal  BY DEF EngineInv, TerminalTellsTheChain
      <3> QED  BY <3>1, <3>2 DEF Ruled
    <2> QED  BY <2>5, <2>6, <2>7, <2>8
  <1> QED  BY <1>1, EngineInvariance, PTL DEF Spec, NothingPaidInTheWindow
=============================================================================
