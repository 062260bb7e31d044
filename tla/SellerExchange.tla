---------------------------- MODULE SellerExchange ----------------------------
(***************************************************************************)
(* How one job reaches its seller and the work comes back: the dispatcher's*)
(* retries (lib/dispatcher.ts) over the three drivers of lib/adapter, the  *)
(* sellers (agents/reference, and agents/x402-facilitator, whose seller is *)
(* paid a toll on Arc before it works), the callback of a seller that      *)
(* pushes (routes/callback.ts) and the keeper's poll.                      *)
(*                                                                         *)
(* Every attempt is a request of its own that the seller may serve although*)
(* the worker has given up on it, so several works may be under way for    *)
(* one job; they are numbered by the attempt.  A work carries one jti.     *)
(* What follows a claimed delivery is in JobEngine.                        *)
(***************************************************************************)
EXTENDS Naturals, FiniteSets, FiniteSetsExt

CONSTANTS
  Protocols,   \* of "webhook", "a2a", "x402"
  MaxAttempts, \* DISPATCH_MAX_ATTEMPTS
  Prices,      \* tolls a seller may ask, in atomic USDC
  TollCap,     \* X402_TOLL_CAP_ATOMIC
  MaxLosses    \* bound: lost answers, failed writes and restarts

VARIABLES
  protocol,
  nudge,      \* what a callback of the job's seller brings
  dispatcher, \* of the job: calling, dispatched or exhausted; and the attempt
  call,       \* the request of each attempt
  toll,       \* what each attempt's request signed away on Arc
  taken,      \* the attempts whose signed toll was moved
  work,       \* the seller's work for each attempt
  ref,        \* the job's resultRef: an attempt's task or job URL, 0 for none
  push,       \* the callback of each work
  seenJti,
  pending,    \* deliveries handed to onDelivery
  jobState,
  claimed,    \* the work whose artifact the job took, 0 for none
  late,       \* the deadline has passed
  losses,
  dropped     \* a delivery was forgotten, by a restart or a failed re-fetch

sellerVars == <<protocol, nudge, dispatcher, call, toll, taken, work, ref, push, seenJti,
                pending, jobState, claimed, late, losses, dropped>>

Attempts == 1 .. MaxAttempts

ASSUME SellerAssumption ==
  /\ Protocols \subseteq {"webhook", "a2a", "x402"}
  /\ MaxAttempts \in Nat \ {0} /\ TollCap \in Nat /\ MaxLosses \in Nat
  /\ Prices \subseteq Nat \ {0}

(* A callback brings the artifact, except that of an A2A seller, which is a*)
(* nudge: it names its own task, or none, so that the job's reference      *)
(* counts, or a URL that is no task; the ids of a seller may also be bare  *)
(* ones, which are no URLs of its origin.                                  *)
NudgesOf(p) == IF p = "a2a" THEN {"own", "registered", "other", "bare"} ELSE {"inline"}

SellerInit ==
  /\ protocol \in Protocols /\ nudge \in NudgesOf(protocol)
  /\ dispatcher = [at |-> "calling", attempt |-> 1]
  /\ call = [a \in Attempts |-> IF a = 1 THEN "sent" ELSE "none"]
  /\ toll = [a \in Attempts |-> 0] /\ taken = {} /\ work = [a \in Attempts |-> "none"] /\ ref = 0
  /\ push = [a \in Attempts |-> "none"] /\ seenJti = {} /\ pending = {}
  /\ jobState = "FUNDED" /\ claimed = 0 /\ late = FALSE /\ losses = 0 /\ dropped = FALSE

Lose == losses < MaxLosses /\ losses' = losses + 1
Calls(a, state) == call' = [call EXCEPT ![a] = state]
jobKind == <<protocol, nudge>>
requestVars == <<jobKind, dispatcher, call, toll, taken, work, ref>>
deliveryVars == <<push, seenJti, pending, jobState, claimed, late, dropped>>
------------------------------------------------------------------------------
(* Mutant: the first of the offers is taken.                               *)
SelectAny(offers) == offers

(* selectTollOnly: the cheapest of the offers, if it is within the cap.    *)
SelectTollOnly(offers) == {p \in offers : p = Min(offers) /\ p <= TollCap}

(* The offers of a 402: one from Verdikt's own seller, or several.         *)
PaymentRequired == SUBSET Prices \ {{}}

(* payFetch: a refused ask signs nothing.                                  *)
PayFetch(a, offers) ==
  \/ \E p \in SelectTollOnly(offers) : toll' = [toll EXCEPT ![a] = p] /\ Calls(a, "signed")
  \/ SelectTollOnly(offers) = {} /\ Calls(a, "unpaid") /\ UNCHANGED toll

(* A request without a payment is answered 402; the client pays and asks   *)
(* again.                                                                  *)
Challenge(a) ==
  /\ protocol = "x402" /\ call[a] = "sent"
  /\ \E offers \in PaymentRequired : PayFetch(a, offers)
  /\ UNCHANGED <<jobKind, dispatcher, taken, work, ref, losses, deliveryVars>>

(* The facilitator, which answers to the sellers that have its key: it     *)
(* checks the signed toll, then moves it on Arc.  A seller whose call fails*)
(* answers 402 again.                                                      *)
VerifyToll(a) ==
  /\ call[a] = "signed"
  /\ Calls(a, "verified") \/ Calls(a, "unpaid")
  /\ UNCHANGED <<jobKind, dispatcher, toll, taken, work, ref, losses, deliveryVars>>

SettleToll(a) ==
  /\ call[a] = "verified"
  /\ \/ a \notin taken /\ taken' = taken \cup {a} /\ Calls(a, "settled")
     \/ Calls(a, "unpaid") /\ UNCHANGED taken
  /\ UNCHANGED <<jobKind, dispatcher, toll, work, ref, losses, deliveryVars>>

(* Whoever has a signed toll can move it on Arc, once, and whatever is     *)
(* answered: through the facilitator, whose answer the seller did not hear,*)
(* or without it.                                                          *)
TakeToll(a) ==
  /\ toll[a] # 0 /\ a \notin taken /\ taken' = taken \cup {a}
  /\ UNCHANGED <<jobKind, dispatcher, call, toll, work, ref, losses, deliveryVars>>

(* Verdikt's x402 seller takes the task on once the toll has moved; another*)
(* one may keep the toll and refuse, or never ask for one.                 *)
TakeOn(a) ==
  /\ protocol = "x402" /\ call[a] \in {"sent", "settled"}
  /\ \/ Calls(a, "accepted") /\ work' = [work EXCEPT ![a] = "working"]
     \/ Calls(a, "rejected") /\ UNCHANGED work
  /\ UNCHANGED <<jobKind, dispatcher, toll, taken, ref, losses, deliveryVars>>

(* The webhook seller and the A2A seller take the request on at once.      *)
AcceptDispatch(a) ==
  /\ protocol # "x402" /\ call[a] = "sent"
  /\ \/ Calls(a, "accepted") /\ work' = [work EXCEPT ![a] = "working"]
     \/ Calls(a, "refused") /\ UNCHANGED work
  /\ UNCHANGED <<jobKind, dispatcher, toll, taken, ref, losses, deliveryVars>>

(* dispatchWithRetry.                                                      *)
Retry ==
  LET next == dispatcher.attempt + 1 IN
    IF next \in Attempts
    THEN dispatcher' = [at |-> "calling", attempt |-> next] /\ Calls(next, "sent")
    ELSE dispatcher' = [dispatcher EXCEPT !.at = "exhausted"] /\ UNCHANGED call

Dispatched == dispatcher' = [dispatcher EXCEPT !.at = "dispatched"] /\ UNCHANGED call

HttpDispatch(a) ==
  /\ protocol = "webhook"
  /\ IF call[a] = "accepted" THEN Dispatched ELSE call[a] = "refused" /\ Retry
  /\ UNCHANGED <<ref, losses>>

(* setResultRef: the first reference stays.                                *)
SetResultRef(a) == ref' = IF ref = 0 THEN a ELSE ref

(* The task id is persisted; when that fails, or its answer is lost, the   *)
(* attempt fails.                                                          *)
A2ADispatch(a) ==
  /\ protocol = "a2a"
  /\ \/ call[a] = "accepted" /\ SetResultRef(a) /\ Dispatched /\ UNCHANGED losses
     \/ call[a] = "accepted" /\ Lose /\ Retry /\ (SetResultRef(a) \/ UNCHANGED ref)
     \/ call[a] = "refused" /\ Retry /\ UNCHANGED <<ref, losses>>

(* Mutant: a rejection by a seller that has the toll is an error.          *)
RejectionThrows(a) ==
  /\ protocol = "x402"
  /\ \/ call[a] = "accepted" /\ SetResultRef(a) /\ Dispatched /\ UNCHANGED losses
     \/ call[a] \in {"rejected", "unpaid"} /\ Retry /\ UNCHANGED <<ref, losses>>

(* After the payment nothing throws, not even a failed write of the URL.   *)
X402Dispatch(a) ==
  /\ protocol = "x402"
  /\ \/ call[a] = "accepted" /\ SetResultRef(a) /\ Dispatched /\ UNCHANGED losses
     \/ call[a] = "accepted" /\ Lose /\ Dispatched /\ UNCHANGED ref
     \/ call[a] = "rejected" /\ Dispatched /\ UNCHANGED <<ref, losses>>
     \/ call[a] = "unpaid" /\ Retry /\ UNCHANGED <<ref, losses>>

(* No answer within ten seconds.                                           *)
TimedOut == Lose /\ Retry /\ UNCHANGED ref

DispatchAttempt ==
  /\ dispatcher.at = "calling"
  /\ LET a == dispatcher.attempt IN HttpDispatch(a) \/ A2ADispatch(a) \/ X402Dispatch(a) \/ TimedOut
  /\ UNCHANGED <<jobKind, toll, taken, work, deliveryVars>>

MarkAwaiting ==
  /\ dispatcher.at = "dispatched" /\ jobState = "FUNDED"
  /\ jobState' = "AWAITING_DELIVERY"
  /\ UNCHANGED <<requestVars, push, seenJti, pending, claimed, late, losses, dropped>>
------------------------------------------------------------------------------
(* doWork: the deliverable may be none that parseArtifact takes.           *)
DoWork(a) ==
  /\ work[a] = "working"
  /\ \E result \in {"good", "malformed", "failed"} : work' = [work EXCEPT ![a] = result]
  /\ UNCHANGED <<jobKind, dispatcher, call, toll, taken, ref, losses, deliveryVars>>

(* deliverArtifact, or an A2A seller's nudge; posted again after a timeout.*)
DeliverArtifact(a) ==
  /\ work[a] \in {"good", "malformed"} /\ push[a] \in {"none", "unanswered"}
  /\ push' = [push EXCEPT ![a] = "posted"]
  /\ UNCHANGED <<requestVars, seenJti, pending, jobState, claimed, late, losses, dropped>>

(* handleCallback: the jti is recorded, then the artifact or the reference *)
(* looked at.                                                              *)
Refusal(a) ==
  IF jobState = "EXPIRED" THEN "terminal"
  ELSE IF a \in seenJti THEN "duplicate"
  ELSE IF nudge = "inline" /\ work[a] = "malformed" THEN "malformed"
  ELSE IF nudge = "bare" \/ (nudge = "registered" /\ ref = 0) THEN "noref" ELSE "none"

HandleCallback(a) ==
  /\ push[a] = "posted"
  /\ seenJti' = IF Refusal(a) = "terminal" THEN seenJti ELSE seenJti \cup {a}
  /\ pending' = IF Refusal(a) = "none" THEN pending \cup {a} ELSE pending
  /\ \/ /\ push' = [push EXCEPT ![a] = IF Refusal(a) = "none" THEN "accepted" ELSE Refusal(a)]
        /\ UNCHANGED losses
     \/ push' = [push EXCEPT ![a] = "unanswered"] /\ Lose
  /\ UNCHANGED <<requestVars, jobState, claimed, late, dropped>>

(* Mutant: only a job that awaits its delivery takes one.                  *)
ClaimWhenAwaiting(a) == a # 0 /\ jobState = "AWAITING_DELIVERY"

(* claimDelivery: a fast callback may beat the write of DISPATCHED.        *)
ClaimDelivery(a) == a # 0 /\ jobState \in {"FUNDED", "AWAITING_DELIVERY"}

Claim(a) ==
  IF ClaimDelivery(a) THEN jobState' = "DELIVERED" /\ claimed' = a
  ELSE UNCHANGED <<jobState, claimed>>

(* What parseArtifact takes of finished work.                              *)
Deliverable(a) == a # 0 /\ work[a] = "good"

(* The work that a callback for work a brings, or is fetched for it.       *)
Delivers(a) ==
  IF nudge \in {"inline", "own"} THEN a ELSE IF nudge = "registered" THEN ref ELSE 0

(* onDelivery declines late work, and fetches what an A2A push only names. *)
OnDelivery(a) ==
  /\ a \in pending /\ pending' = pending \ {a}
  /\ \/ late /\ UNCHANGED <<jobState, claimed, losses, dropped>>
     \/ ~late /\ Deliverable(Delivers(a)) /\ Claim(Delivers(a)) /\ UNCHANGED <<losses, dropped>>
     \/ ~late /\ ~Deliverable(Delivers(a)) /\ UNCHANGED <<jobState, claimed, losses, dropped>>
     \/ ~late /\ protocol = "a2a" /\ Lose /\ dropped' = TRUE /\ UNCHANGED <<jobState, claimed>>
  /\ UNCHANGED <<requestVars, push, seenJti, late>>

(* Mutant: the poll goes by the reference the job was created with.        *)
CreatedRef == 0

ResultRef == ref

(* Finished work is found at the reference the job has of it.              *)
FetchResult == Deliverable(ResultRef)

PollOnce ==
  /\ jobState = "AWAITING_DELIVERY" /\ ~late
  /\ FetchResult /\ Claim(ResultRef)
  /\ UNCHANGED <<requestVars, push, seenJti, pending, late, losses, dropped>>

DeadlinePasses ==
  /\ ~late /\ late' = TRUE
  /\ UNCHANGED <<requestVars, push, seenJti, pending, jobState, claimed, losses, dropped>>

ExpireJob ==
  /\ late /\ jobState \in {"FUNDED", "AWAITING_DELIVERY"}
  /\ jobState' = "EXPIRED"
  /\ UNCHANGED <<requestVars, push, seenJti, pending, claimed, late, losses, dropped>>

(* A restarted worker does not dispatch again, and has forgotten what it   *)
(* was delivering.                                                         *)
WorkerRestarts ==
  /\ Lose
  /\ dispatcher' = IF dispatcher.at = "calling" THEN [dispatcher EXCEPT !.at = "exhausted"]
                   ELSE dispatcher
  /\ pending' = {} /\ dropped' = TRUE
  /\ UNCHANGED <<jobKind, call, toll, taken, work, ref, push, seenJti, jobState, claimed, late>>

SellerNext ==
  \/ \E a \in Attempts :
       \/ Challenge(a) \/ VerifyToll(a) \/ SettleToll(a) \/ TakeToll(a) \/ TakeOn(a)
       \/ AcceptDispatch(a) \/ DoWork(a) \/ DeliverArtifact(a) \/ HandleCallback(a) \/ OnDelivery(a)
  \/ DispatchAttempt \/ MarkAwaiting \/ PollOnce \/ DeadlinePasses \/ ExpireJob \/ WorkerRestarts

(* The keeper polls on a timer.                                            *)
SellerFairness == WF_sellerVars(PollOnce)

SellerSpec == SellerInit /\ [][SellerNext]_sellerVars /\ SellerFairness
------------------------------------------------------------------------------
SellerTypeOK ==
  /\ protocol \in Protocols /\ nudge \in NudgesOf(protocol)
  /\ ref \in 0 .. MaxAttempts /\ claimed \in 0 .. MaxAttempts
  /\ dispatcher.at \in {"calling", "dispatched", "exhausted"} /\ dispatcher.attempt \in Attempts
  /\ call \in [Attempts -> {"none", "sent", "signed", "verified", "settled", "accepted", "rejected",
                            "unpaid", "refused"}]
  /\ toll \in [Attempts -> {0} \cup {p \in Prices : p <= TollCap}] /\ taken \subseteq Attempts
  /\ work \in [Attempts -> {"none", "working", "good", "malformed", "failed"}]
  /\ push \in [Attempts -> {"none", "posted", "unanswered", "accepted", "terminal", "duplicate",
                            "malformed", "noref"}]
  /\ seenJti \subseteq Attempts /\ pending \subseteq Attempts
  /\ jobState \in {"FUNDED", "AWAITING_DELIVERY", "DELIVERED", "EXPIRED"}
  /\ {late, dropped} \subseteq BOOLEAN /\ losses \in 0 .. MaxLosses

(* The tolls that were taken, but for those taken while answering 402,     *)
(* which tells the worker that its toll was not.                           *)
Spent == {a \in taken : call[a] # "unpaid"}

(* "NEVER RE-PAY": when every answer arrived, a job spends one toll at     *)
(* most, beyond those a seller took and still answered 402 for, whatever   *)
(* else the seller does with it.                                           *)
TollOnceWhenHeard == losses = 0 => Cardinality(Spent) <= 1

(* A seller that was told its delivery is accepted, or was there before,   *)
(* may stop: good work is then taken, or being taken, unless the deadline  *)
(* has passed or the worker forgot it.  Of the nudges, this is so for those*)
(* that name their own task: after one without a usable reference, refused *)
(* unheard, nothing is being taken, and it is "there before".              *)
HeardDeliveryCounts ==
  \A a \in Attempts :
    nudge \in {"inline", "own"} /\ work[a] = "good" /\ push[a] \in {"accepted", "duplicate"} =>
      a \in pending \/ claimed # 0 \/ late \/ dropped

(* Work that lies finished at the reference the job has of it is taken, or *)
(* the deadline passes.                                                    *)
WorkIsCollected ==
  (jobState = "AWAITING_DELIVERY" /\ ref # 0 /\ work[ref] = "good") ~> (claimed # 0 \/ late)
=============================================================================
