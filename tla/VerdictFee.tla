----------------------------- MODULE VerdictFee -----------------------------
(***************************************************************************)
(* The fee of a verdict, from the seller's wallet to the worker's count of *)
(* what it earned: onboarding and submit() of the SDK (sdk/src/client.ts), *)
(* Circle's Gateway as the two sides use it, the x402 meter that           *)
(* authorizes first and captures later (lib/x402-meter.ts) and the rows of *)
(* vk_external_calls that the proof page adds up (web/src/lib/db.ts).      *)
(*                                                                         *)
(* One seller makes several calls, at the same time or one after another,  *)
(* for different works or for the same one again.  The races for the row   *)
(* of a work are in VerdictRoute; here its lock is taken in one step.      *)
(***************************************************************************)
EXTENDS Integers

CONSTANTS
  Submissions,  \* calls of submit(), each with ensureOnboarded() before it or not
  Works,
  WorkOf,       \* the work a call is about
  Nobody,       \* no call
  Stake,        \* the seller's USDC on Arc at first
  DepositUsdc, MinUsdc,
  VERDICT_FEE_USDC,
  MaxTroubles   \* bound: failed reads, requests that die, lost answers

VARIABLES
  metered,    \* ENFORCE_X402
  submission, \* where each call is, what was authorized and rendered, what it returned
  judgedBy,   \* the call that took the lock of each work
  counted,    \* calls in vk_external_calls
  purse,      \* external: the seller's USDC on Arc
  inTransit,  \* external: deposits mined and not yet in the balance
  available,  \* external: the Gateway's balance
  captured,   \* external: calls whose authorization was settled
  troubles

feeVars == <<metered, submission, judgedBy, counted, purse, inTransit, available, captured, troubles>>
gateway == <<purse, inTransit, available, captured>>

Steps == {"new", "short", "deposit", "ready", "claim", "judging", "capture", "count", "done"}
FeeAnswers == {"none", "charged", "free", "judged", "unpaid", "unfunded", "error"}
InWorker == {"claim", "judging", "capture", "count"}

ASSUME FeeAssumption ==
  /\ WorkOf \in [Submissions -> Works] /\ Nobody \notin Submissions
  /\ Stake \in Nat /\ MinUsdc \in Nat /\ MaxTroubles \in Nat
  /\ DepositUsdc \in Nat \ {0} /\ VERDICT_FEE_USDC \in Nat \ {0}

FeeInit ==
  /\ metered \in BOOLEAN
  /\ submission = [c \in Submissions |-> [at |-> "new", auth |-> FALSE, rendered |-> FALSE, told |-> "none"]]
  /\ judgedBy = [w \in Works |-> Nobody] /\ counted = {}
  /\ purse = Stake /\ inTransit = 0 /\ available = 0 /\ captured = {}
  /\ troubles = 0

At(c, step) == submission[c].at = step
GoTo(c, step) == submission' = [submission EXCEPT ![c].at = step]
Returns(c, what) == submission' = [submission EXCEPT ![c].at = "done", ![c].told = what]
Trouble == troubles < MaxTroubles /\ troubles' = troubles + 1
------------------------------------------------------------------------------
(* ensureOnboarded() is optional.  It reads a balance that may lag behind. *)
EnsureOnboarded(c) ==
  /\ At(c, "new")
  /\ GoTo(c, IF available >= MinUsdc THEN "ready" ELSE "short") \/ GoTo(c, "ready")
  /\ UNCHANGED <<metered, judgedBy, counted, gateway, troubles>>

CheckWallet(c) ==
  /\ At(c, "short")
  /\ IF purse >= DepositUsdc THEN GoTo(c, "deposit") ELSE Returns(c, "unfunded")
  /\ UNCHANGED <<metered, judgedBy, counted, gateway, troubles>>

Deposits == purse' = purse - DepositUsdc /\ inTransit' = inTransit + 1

(* approve and deposit; another call may have emptied the wallet, and the  *)
(* receipt, or the balance read after it, may fail once it is mined.       *)
DepositFee(c) ==
  /\ At(c, "deposit")
  /\ \/ purse >= DepositUsdc /\ Deposits /\ GoTo(c, "ready") /\ UNCHANGED troubles
     \/ purse >= DepositUsdc /\ Deposits /\ Trouble /\ Returns(c, "error")
     \/ purse < DepositUsdc /\ Returns(c, "error") /\ UNCHANGED <<purse, inTransit, troubles>>
  /\ UNCHANGED <<metered, judgedBy, counted, available, captured>>

(* External: the Gateway sees a deposit.                                   *)
Credit ==
  /\ inTransit > 0 /\ inTransit' = inTransit - 1
  /\ available' = available + DepositUsdc
  /\ UNCHANGED <<metered, submission, judgedBy, counted, purse, captured, troubles>>
------------------------------------------------------------------------------
(* requireVerdictFee: the first request is answered 402, the second brings *)
(* a signature, and the Gateway is asked whether it would pay; nothing     *)
(* moves, so one balance answers for several calls.                        *)
RequireVerdictFee(c) ==
  /\ At(c, "ready")
  /\ \/ ~metered /\ GoTo(c, "claim") /\ UNCHANGED troubles
     \/ /\ metered /\ available >= VERDICT_FEE_USDC
        /\ submission' = [submission EXCEPT ![c].at = "claim", ![c].auth = TRUE]
        /\ UNCHANGED troubles
     \/ metered /\ available < VERDICT_FEE_USDC /\ Returns(c, "unpaid") /\ UNCHANGED troubles
     \/ metered /\ Trouble /\ Returns(c, "unpaid")
  /\ UNCHANGED <<metered, judgedBy, counted, gateway>>

(* The lock is taken once; a funding the worker has no row of and could    *)
(* not read from the chain is refused with the same 409.                   *)
ClaimForJudging(c) ==
  /\ At(c, "claim")
  /\ \/ /\ judgedBy[WorkOf[c]] = Nobody
        /\ judgedBy' = [judgedBy EXCEPT ![WorkOf[c]] = c] /\ GoTo(c, "judging")
        /\ UNCHANGED troubles
     \/ /\ judgedBy[WorkOf[c]] # Nobody
        /\ Returns(c, "judged") /\ UNCHANGED <<judgedBy, troubles>>
     \/ Trouble /\ Returns(c, "judged") /\ UNCHANGED judgedBy
  /\ UNCHANGED <<metered, counted, gateway>>

(* rendered: a definitive outcome that has settled on chain.               *)
RunVerdict(c) ==
  /\ At(c, "judging")
  /\ \/ submission' = [submission EXCEPT ![c].at = "capture", ![c].rendered = TRUE]
     \/ Returns(c, "free")
  /\ UNCHANGED <<metered, judgedBy, counted, gateway, troubles>>

Captures(c) == captured' = captured \cup {c} /\ available' = available - VERDICT_FEE_USDC

(* Mutant: what could not be captured is billed all the same.              *)
BillUncaptured(c) ==
  /\ At(c, "capture")
  /\ \/ ~submission[c].auth /\ Returns(c, "free") /\ UNCHANGED <<captured, available>>
     \/ /\ submission[c].auth /\ GoTo(c, "count")
        /\ IF available >= VERDICT_FEE_USDC THEN Captures(c) ELSE UNCHANGED <<captured, available>>
  /\ UNCHANGED <<metered, judgedBy, counted, purse, inTransit, troubles>>

(* captureVerdictFee: what the Gateway does not confirm is served free,    *)
(* also when it did settle and its answer was an error.                    *)
CaptureVerdictFee(c) ==
  /\ At(c, "capture")
  /\ \/ ~submission[c].auth /\ Returns(c, "free") /\ UNCHANGED <<captured, available, troubles>>
     \/ /\ submission[c].auth /\ available >= VERDICT_FEE_USDC /\ Captures(c)
        /\ \/ GoTo(c, "count") /\ UNCHANGED troubles
           \/ Trouble /\ Returns(c, "free")
     \/ /\ submission[c].auth /\ available < VERDICT_FEE_USDC
        /\ Returns(c, "free") /\ UNCHANGED <<captured, available, troubles>>
     \/ /\ submission[c].auth /\ Trouble
        /\ Returns(c, "free") /\ UNCHANGED <<captured, available>>
  /\ UNCHANGED <<metered, judgedBy, counted, purse, inTransit>>

(* The row, then the answer, which may be lost.                            *)
RecordExternalCall(c) ==
  /\ At(c, "count")
  /\ counted' = counted \cup {c}
  /\ \/ Returns(c, "charged") /\ UNCHANGED troubles
     \/ Trouble /\ Returns(c, "error")
  /\ UNCHANGED <<metered, judgedBy, gateway>>

(* An exception or a restart of the worker ends a request where it is; the *)
(* Gateway may have settled what it was asked to.                          *)
Dies(c) ==
  /\ submission[c].at \in InWorker /\ Trouble /\ Returns(c, "error")
  /\ \/ UNCHANGED <<captured, available>>
     \/ At(c, "capture") /\ submission[c].auth /\ available >= VERDICT_FEE_USDC /\ Captures(c)
  /\ UNCHANGED <<metered, judgedBy, counted, purse, inTransit>>

FeeNext ==
  \/ \E c \in Submissions : \/ EnsureOnboarded(c) \/ CheckWallet(c) \/ DepositFee(c)
                      \/ RequireVerdictFee(c) \/ ClaimForJudging(c) \/ RunVerdict(c)
                      \/ CaptureVerdictFee(c) \/ RecordExternalCall(c) \/ Dies(c)
  \/ Credit

FeeSpec == FeeInit /\ [][FeeNext]_feeVars
------------------------------------------------------------------------------
FeeTypeOK ==
  /\ metered \in BOOLEAN
  /\ submission \in [Submissions -> [at : Steps, auth : BOOLEAN, rendered : BOOLEAN, told : FeeAnswers]]
  /\ judgedBy \in [Works -> Submissions \cup {Nobody}]
  /\ counted \subseteq Submissions /\ captured \subseteq Submissions
  /\ purse \in Nat /\ inTransit \in Nat /\ available \in Nat /\ troubles \in 0 .. MaxTroubles

(* "captured only when we actually render a verdict" (README.md:94): a fee *)
(* that left the seller's balance was for a definitive verdict that the    *)
(* very call rendered, so however often a seller tries again after errors, *)
(* and however calls overlap, a work costs it one fee at most.  And "every *)
(* row here is a genuine third-party paid call" (web/src/lib/db.ts:38):    *)
(* nothing is counted that was not captured, no seller is told of a fee    *)
(* that was not counted, and while nothing goes wrong all three agree.     *)
FeesAreEarned ==
  /\ \A c \in captured : submission[c].rendered /\ judgedBy[WorkOf[c]] = c
  /\ counted \subseteq captured
  /\ \A c \in Submissions :
       /\ submission[c].told = "charged" => c \in counted
       /\ c \in captured /\ At(c, "done") /\ troubles = 0 => submission[c].told = "charged"
=============================================================================
