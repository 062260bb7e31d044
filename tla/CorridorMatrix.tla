---------------------------- MODULE CorridorMatrix ----------------------------
(***************************************************************************)
(* The script that proves the cross-chain corridors                        *)
(* (agents/src/prove-corridor-matrix.ts): one work per corridor is burned  *)
(* for on its source chain, funded and settled on Arc and paid out on its  *)
(* destination, and the seller's balance there must have risen by exactly  *)
(* the bounty.  What is proved goes to a checkpoint file, which the next   *)
(* run resumes from; every run pays for works of its own.                  *)
(*                                                                         *)
(* Any failure ends the script.  What it has started goes on without it:   *)
(* the payout of a settled work may be delivered by anybody at any time    *)
(* (CrossChainClient), and corridors share destinations.  A public node    *)
(* may still answer with the balance before the last payment.              *)
(***************************************************************************)
EXTENDS Integers, Sequences

CONSTANTS
  CORRIDORS,  \* the destination of each corridor, in order
  Bounties,   \* what the transfer may leave of the amount
  MaxWorks    \* bound: works paid for, over all runs

VARIABLES
  checkpoint, \* the file: the work that proved a corridor, 0 for none
  script,     \* what the script is doing, and with which corridor
  work,       \* the works: their corridor, bounty and how far they are
  usdc,       \* external: the seller's balance on each chain
  lagging     \* external: what a lagging node shows of it

corridorVars == <<checkpoint, script, work, usdc, lagging>>

Corridors == DOMAIN CORRIDORS
Dests == {CORRIDORS[c] : c \in Corridors}

ASSUME CorridorAssumption == Bounties \subseteq Nat \ {0} /\ MaxWorks \in Nat

NothingProved == [c \in Corridors |-> 0]
Off == [at |-> "off", corridor |-> 0, work |-> 0, before |-> 0, proved |-> NothingProved]

CorridorInit ==
  /\ checkpoint = NothingProved /\ script = Off /\ work = <<>>
  /\ usdc = [d \in Dests |-> 0] /\ lagging = usdc

Dest(w) == CORRIDORS[work[w].corridor]
Reaches(w, leg) == work' = [work EXCEPT ![w].leg = leg]
ScriptGoesTo(step) == script' = [script EXCEPT !.at = step]

(* A throw that nothing catches before main's: the process exits.          *)
Exits == script' = Off
------------------------------------------------------------------------------
(* loadCheckpoint.                                                         *)
LoadCheckpoint ==
  /\ script.at = "off"
  /\ script' = [Off EXCEPT !.at = "between", !.proved = checkpoint]
  /\ UNCHANGED <<checkpoint, work, usdc, lagging>>

(* The first corridor that is not proved yet, or the end.                  *)
ToProve == {c \in Corridors : script.proved[c] = 0 /\ \A b \in 1 .. c - 1 : script.proved[b] # 0}

NextCorridor ==
  /\ script.at = "between"
  /\ IF ToProve = {} THEN ScriptGoesTo("finished")
     ELSE \E c \in ToProve : script' = [script EXCEPT !.at = "starting", !.corridor = c]
  /\ UNCHANGED <<checkpoint, work, usdc, lagging>>

UsdcBalance(dest) == {usdc[dest], lagging[dest]}

ReadBalanceBefore ==
  /\ script.at = "starting"
  /\ \E seen \in UsdcBalance(CORRIDORS[script.corridor]) :
       script' = [script EXCEPT !.at = "paying", !.before = seen]
  /\ UNCHANGED <<checkpoint, work, usdc, lagging>>

(* createTaskCrossChain, and the bounty read back from the escrow.         *)
FundCorridor ==
  /\ script.at = "paying" /\ Len(work) < MaxWorks
  /\ \/ /\ \E b \in Bounties :
             work' = Append(work, [corridor |-> script.corridor, bounty |-> b, leg |-> "funded"])
        /\ script' = [script EXCEPT !.at = "submitting", !.work = Len(work')]
     \/ Exits /\ UNCHANGED work
  /\ UNCHANGED <<checkpoint, usdc, lagging>>

(* acceptOffer with the expected payout, and submit.  The settlement may   *)
(* have landed although the script never hears of it.                      *)
SettleCorridor ==
  /\ script.at = "submitting"
  /\ \/ Reaches(script.work, "burned") /\ (ScriptGoesTo("relaying") \/ Exits)
     \/ Exits /\ UNCHANGED work
  /\ UNCHANGED <<checkpoint, usdc, lagging>>

PaysOut(w) ==
  /\ work[w].leg = "burned" /\ Reaches(w, "paid")
  /\ lagging' = [lagging EXCEPT ![Dest(w)] = usdc[Dest(w)]]
  /\ usdc' = [usdc EXCEPT ![Dest(w)] = @ + work[w].bounty]

(* Mutant: a relay that gave up is left to somebody else.                  *)
RelayOrGoOn ==
  /\ ScriptGoesTo("verifying")
  /\ PaysOut(script.work) \/ UNCHANGED <<work, usdc, lagging>>

(* relayOutbound throws unless its own receiveMessage went through.        *)
RelayPayout ==
  \/ PaysOut(script.work) /\ ScriptGoesTo("verifying")
  \/ Exits /\ UNCHANGED <<work, usdc, lagging>>

RelayCorridor == script.at = "relaying" /\ RelayPayout /\ UNCHANGED checkpoint

AnyonePaysOut(w) == PaysOut(w) /\ UNCHANGED <<checkpoint, script>>

(* pollDelta returns when the balance has risen far enough, or after five  *)
(* minutes whatever it has risen by.                                       *)
PollDelta == {seen - script.before : seen \in UsdcBalance(CORRIDORS[script.corridor])}

(* By exactly the bounty, and the escrow is SETTLED, or the script throws. *)
VerifyPayout ==
  /\ script.at = "verifying"
  /\ \E delta \in PollDelta :
       IF delta = work[script.work].bounty /\ work[script.work].leg # "funded"
       THEN ScriptGoesTo("proved") ELSE Exits
  /\ UNCHANGED <<checkpoint, work, usdc, lagging>>

RecordCorridor ==
  /\ script.at = "proved"
  /\ script' = [script EXCEPT !.at = "saving", !.proved[script.corridor] = script.work]
  /\ UNCHANGED <<checkpoint, work, usdc, lagging>>

(* saveCheckpoint; a file cut short by a crash is none.                    *)
SaveCheckpoint ==
  /\ script.at = "saving"
  /\ \/ checkpoint' = script.proved /\ ScriptGoesTo("between")
     \/ checkpoint' = NothingProved /\ Exits
  /\ UNCHANGED <<work, usdc, lagging>>

ScriptIsKilled ==
  /\ script.at # "off" /\ Exits
  /\ UNCHANGED <<checkpoint, work, usdc, lagging>>

NodesCatchUp ==
  /\ lagging # usdc /\ lagging' = usdc
  /\ UNCHANGED <<checkpoint, script, work, usdc>>

CorridorNext ==
  \/ LoadCheckpoint \/ NextCorridor \/ ReadBalanceBefore \/ FundCorridor \/ SettleCorridor
  \/ RelayCorridor \/ VerifyPayout \/ RecordCorridor \/ SaveCheckpoint
  \/ \E w \in DOMAIN work : AnyonePaysOut(w)
  \/ ScriptIsKilled \/ NodesCatchUp

CorridorSpec == CorridorInit /\ [][CorridorNext]_corridorVars
------------------------------------------------------------------------------
CorridorTypeOK ==
  /\ checkpoint \in [Corridors -> 0 .. MaxWorks] /\ script.proved \in [Corridors -> 0 .. MaxWorks]
  /\ script.at \in {"off", "between", "starting", "paying", "submitting", "relaying", "verifying",
                    "proved", "saving", "finished"}
  /\ \A w \in DOMAIN work : work[w] \in [corridor : Corridors, bounty : Bounties,
                                         leg : {"funded", "burned", "paid"}]
  /\ usdc \in [Dests -> Nat] /\ lagging \in [Dests -> Nat]

(* "each as the FULL 4-leg round-trip", checked without trust in the       *)
(* worker: a corridor that the checkpoint or a running script calls proved *)
(* was proved by a work of its own whose seller has been paid on its chain,*)
(* although the payments of works that earlier runs gave up on arrive on   *)
(* the same chains at any time and are as large.                           *)
ProvedCorridorsArePaid ==
  \A c \in Corridors : \A w \in {checkpoint[c], script.proved[c]} \ {0} :
    work[w].corridor = c /\ work[w].leg = "paid"
=============================================================================
