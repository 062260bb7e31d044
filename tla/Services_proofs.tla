--------------------------- MODULE Services_proofs ----------------------------
EXTENDS MCServices, VerdiktEscrow_proofs, VerdictPipeline_proofs, FiniteSetTheorems, TLAPS

(***************************************************************************)
(* Sellers: paid calls and deliveries (SellerExchange).                    *)
(***************************************************************************)
CallStates == {"none", "sent", "signed", "verified", "settled", "accepted", "rejected", "unpaid",
               "refused"}
Tolls == {0} \cup {p \in Prices : p <= TollCap}
WorkStates == {"none", "working", "good", "malformed", "failed"}
PushStates == {"none", "posted", "unanswered", "accepted", "terminal", "duplicate", "malformed",
               "noref"}
JobStates == {"FUNDED", "AWAITING_DELIVERY", "DELIVERED", "EXPIRED"}

JobKind == protocol \in Protocols /\ nudge \in NudgesOf(protocol)

RequestTypes ==
  /\ dispatcher \in [at : {"calling", "dispatched", "exhausted"}, attempt : Attempts]
  /\ call \in [Attempts -> CallStates] /\ toll \in [Attempts -> Tolls] /\ taken \subseteq Attempts
  /\ work \in [Attempts -> WorkStates] /\ ref \in 0 .. MaxAttempts /\ losses \in 0 .. MaxLosses

DeliveryTypes ==
  /\ push \in [Attempts -> PushStates] /\ seenJti \subseteq Attempts /\ pending \subseteq Attempts
  /\ jobState \in JobStates /\ claimed \in 0 .. MaxAttempts
  /\ late \in BOOLEAN /\ dropped \in BOOLEAN

(* Attempts are made one after the other, and work is done for those that  *)
(* were accepted.                                                          *)
Requests ==
  \A a \in Attempts : /\ a > dispatcher.attempt => call[a] = "none"
                      /\ work[a] # "none" => call[a] = "accepted"

(* Only a signed toll is taken; and without a loss, every attempt before   *)
(* the present one was refused or answered 402.                            *)
TollsHeard ==
  /\ \A a \in Attempts : /\ call[a] \in {"none", "sent", "refused"} => toll[a] = 0
                         /\ call[a] \in {"signed", "verified"} => toll[a] # 0
  /\ \A a \in taken : toll[a] # 0
  /\ losses = 0 =>
       \A a \in Attempts : a < dispatcher.attempt => call[a] \in {"unpaid", "refused"}

(* A callback is for finished work; once its jti is known, good work that  *)
(* it brings or names is being taken, or was, or nothing can be done about *)
(* it any more.                                                            *)
Deliveries ==
  \A a \in Attempts :
    /\ push[a] # "none" => work[a] \in {"good", "malformed"}
    /\ a \in seenJti => push[a] # "none"
    /\ push[a] \in {"accepted", "duplicate"} => a \in seenJti
    /\ nudge \in {"inline", "own"} /\ a \in seenJti /\ work[a] = "good" =>
         a \in pending \/ claimed # 0 \/ late \/ dropped

JobAgrees ==
  /\ jobState = "DELIVERED" => claimed # 0
  /\ jobState = "EXPIRED" => late

SellerInv ==
  /\ JobKind /\ RequestTypes /\ DeliveryTypes
  /\ Requests /\ TollsHeard /\ Deliveries /\ JobAgrees

deliveries == <<jobKind, deliveryVars>>
------------------------------------------------------------------------------
(* A step that leaves the finished works as they are leaves the deliveries.*)
LEMMA DeliveriesLemma ==
  ASSUME SellerInv, UNCHANGED deliveries,
         \A a \in Attempts : work[a] \in {"good", "malformed"} => work'[a] = work[a],
         \A a \in Attempts : work'[a] = "good" => work[a] = "good" \/ push[a] = "none"
  PROVE  JobKind' /\ DeliveryTypes' /\ Deliveries' /\ JobAgrees'
  <1>1. JobKind' /\ DeliveryTypes'
    BY DEF SellerInv, JobKind, DeliveryTypes, deliveries, deliveryVars, jobKind
  <1>2. Deliveries'
    BY DEF SellerInv, Deliveries, deliveries, deliveryVars, jobKind
  <1>3. JobAgrees'  BY DEF SellerInv, JobAgrees, deliveries, deliveryVars
  <1> QED  BY <1>1, <1>2, <1>3

(* A step that leaves the requests as they are, and may lose something.    *)
LEMMA RequestsLemma ==
  ASSUME SellerInv, UNCHANGED <<dispatcher, call, toll, taken, ref>>,
         work' \in [Attempts -> WorkStates],
         \A a \in Attempts : work'[a] # "none" => work[a] # "none",
         losses' = losses \/ Lose
  PROVE  RequestTypes' /\ Requests' /\ TollsHeard'
  <1>1. losses' \in 0 .. MaxLosses /\ (losses' = 0 => losses = 0)
    BY SellerAssumption DEF SellerInv, RequestTypes, Lose
  <1>2. RequestTypes'  BY <1>1 DEF SellerInv, RequestTypes
  <1>3. Requests'  BY DEF SellerInv, Requests
  <1>4. TollsHeard'  BY <1>1 DEF SellerInv, TollsHeard
  <1> QED  BY <1>2, <1>3, <1>4

(* One request under way goes on, and what it signed away may be taken.    *)
LEMMA RequestStepLemma ==
  ASSUME SellerInv, NEW a \in Attempts, call[a] \in {"sent", "signed", "verified", "settled"},
         NEW state \in CallStates \ {"none"}, Calls(a, state),
         UNCHANGED <<dispatcher, ref, deliveries>>, losses' = losses \/ Lose,
         toll' \in [Attempts -> Tolls], \A x \in Attempts \ {a} : toll'[x] = toll[x],
         taken' = taken \/ taken' = taken \cup {a}, a \in taken' => toll'[a] # 0,
         \/ UNCHANGED work
         \/ state = "accepted" /\ work' = [work EXCEPT ![a] = "working"],
         state \in {"sent", "refused"} => toll'[a] = 0,
         state \in {"signed", "verified"} => toll'[a] # 0
  PROVE  SellerInv'
  <1>1. losses' \in 0 .. MaxLosses /\ (losses' = 0 => losses = 0)
    BY SellerAssumption DEF SellerInv, RequestTypes, Lose
  <1>2. call' \in [Attempts -> CallStates] /\ call'[a] = state
        /\ \A x \in Attempts \ {a} : call'[x] = call[x]
    BY DEF Calls, SellerInv, RequestTypes
  <1>3. work[a] = "none"  BY DEF SellerInv, Requests
  <1>4. /\ work' \in [Attempts -> WorkStates]
        /\ work'[a] # "none" => state = "accepted" /\ work'[a] = "working"
        /\ \A x \in Attempts \ {a} : work'[x] = work[x]
    BY <1>3 DEF SellerInv, RequestTypes, WorkStates
  <1>5. RequestTypes'  BY <1>1, <1>2, <1>4 DEF SellerInv, RequestTypes
  <1>6. Requests'  BY <1>2, <1>4 DEF SellerInv, Requests
  <1>7. TollsHeard'  BY <1>1, <1>2 DEF SellerInv, RequestTypes, Requests, TollsHeard
  <1>8. JobKind' /\ DeliveryTypes' /\ Deliveries' /\ JobAgrees'
    BY <1>3, <1>4, DeliveriesLemma
  <1> QED  BY <1>5, <1>6, <1>7, <1>8 DEF SellerInv
------------------------------------------------------------------------------
LEMMA ChallengeLemma ==
  ASSUME SellerInv, NEW a \in Attempts, Challenge(a)
  PROVE  SellerInv'
  <1>1. /\ call[a] = "sent" /\ UNCHANGED <<dispatcher, taken, work, ref, losses, deliveries>>
    BY DEF Challenge, deliveries
  <1>2. PICK offers \in PaymentRequired : PayFetch(a, offers)  BY DEF Challenge
  <1>3. toll[a] = 0 /\ a \notin taken  BY <1>1 DEF SellerInv, TollsHeard
  <1>4. ASSUME NEW p \in SelectTollOnly(offers), toll' = [toll EXCEPT ![a] = p], Calls(a, "signed")
        PROVE  SellerInv'
    <2>1. p \in Tolls /\ p # 0
      BY <1>2, SellerAssumption DEF SelectTollOnly, PaymentRequired, Tolls
    <2>2. toll' \in [Attempts -> Tolls] /\ toll'[a] # 0 /\ \A x \in Attempts \ {a} : toll'[x] = toll[x]
      BY <1>4, <2>1 DEF SellerInv, RequestTypes
    <2> QED  BY <1>1, <1>3, <1>4, <2>2, RequestStepLemma DEF CallStates
  <1>5. CASE Calls(a, "unpaid") /\ UNCHANGED toll
    <2>1. toll' \in [Attempts -> Tolls]  BY <1>5 DEF SellerInv, RequestTypes
    <2> QED  BY <1>1, <1>3, <1>5, <2>1, RequestStepLemma DEF CallStates
  <1> QED  BY <1>2, <1>4, <1>5 DEF PayFetch

LEMMA VerifyTollLemma ==
  ASSUME SellerInv, NEW a \in Attempts, VerifyToll(a)
  PROVE  SellerInv'
  <1>1. /\ call[a] = "signed"
        /\ UNCHANGED <<dispatcher, toll, taken, work, ref, losses, deliveries>>
    BY DEF VerifyToll, deliveries
  <1>2. toll' \in [Attempts -> Tolls] /\ toll'[a] # 0
    BY <1>1 DEF SellerInv, RequestTypes, TollsHeard
  <1>3. CASE Calls(a, "verified")  BY <1>1, <1>2, <1>3, RequestStepLemma DEF CallStates
  <1>4. CASE Calls(a, "unpaid")  BY <1>1, <1>2, <1>4, RequestStepLemma DEF CallStates
  <1> QED  BY <1>3, <1>4 DEF VerifyToll

(* A request that was checked carries a signed toll.                       *)
LEMMA SettleTollLemma ==
  ASSUME SellerInv, NEW a \in Attempts, SettleToll(a)
  PROVE  SellerInv'
  <1>1. /\ call[a] = "verified" /\ UNCHANGED <<dispatcher, toll, work, ref, losses, deliveries>>
    BY DEF SettleToll, deliveries
  <1>2. toll' \in [Attempts -> Tolls] /\ toll[a] # 0 /\ \A x \in taken : toll[x] # 0
    BY <1>1 DEF SellerInv, RequestTypes, TollsHeard
  <1>3. CASE taken' = taken \cup {a} /\ Calls(a, "settled")
    <2>1. a \in taken' => toll'[a] # 0  BY <1>1, <1>2
    <2> QED  BY <1>1, <1>2, <1>3, <2>1, RequestStepLemma DEF CallStates
  <1>4. CASE Calls(a, "unpaid") /\ UNCHANGED taken
    <2>1. a \in taken' => toll'[a] # 0  BY <1>1, <1>2, <1>4
    <2> QED  BY <1>1, <1>2, <1>4, <2>1, RequestStepLemma DEF CallStates
  <1> QED  BY <1>3, <1>4 DEF SettleToll

(* Taking a signed toll is no answer.                                      *)
LEMMA TakeTollLemma ==
  ASSUME SellerInv, NEW a \in Attempts, TakeToll(a)
  PROVE  SellerInv'
  <1>1. /\ toll[a] # 0 /\ taken' = taken \cup {a}
        /\ UNCHANGED <<dispatcher, call, toll, work, ref, losses, deliveries>>
    BY DEF TakeToll, deliveries
  <1>2. RequestTypes' /\ Requests'  BY <1>1 DEF SellerInv, RequestTypes, Requests
  <1>3. TollsHeard'  BY <1>1 DEF SellerInv, TollsHeard
  <1>4. JobKind' /\ DeliveryTypes' /\ Deliveries' /\ JobAgrees'  BY <1>1, DeliveriesLemma
  <1> QED  BY <1>2, <1>3, <1>4 DEF SellerInv

LEMMA TakeOnLemma ==
  ASSUME SellerInv, NEW a \in Attempts, TakeOn(a)
  PROVE  SellerInv'
  <1>1. /\ call[a] \in {"sent", "settled"}
        /\ UNCHANGED <<dispatcher, toll, taken, ref, losses, deliveries>>
    BY DEF TakeOn, deliveries
  <1>2. toll' \in [Attempts -> Tolls] /\ (a \in taken' => toll'[a] # 0)
    BY <1>1 DEF SellerInv, RequestTypes, TollsHeard
  <1>3. CASE Calls(a, "accepted") /\ work' = [work EXCEPT ![a] = "working"]
    BY <1>1, <1>2, <1>3, RequestStepLemma DEF CallStates
  <1>4. CASE Calls(a, "rejected") /\ UNCHANGED work
    BY <1>1, <1>2, <1>4, RequestStepLemma DEF CallStates
  <1> QED  BY <1>3, <1>4 DEF TakeOn

LEMMA AcceptDispatchLemma ==
  ASSUME SellerInv, NEW a \in Attempts, AcceptDispatch(a)
  PROVE  SellerInv'
  <1>1. /\ call[a] = "sent" /\ UNCHANGED <<dispatcher, toll, taken, ref, losses, deliveries>>
    BY DEF AcceptDispatch, deliveries
  <1>2. toll' \in [Attempts -> Tolls]  BY <1>1 DEF SellerInv, RequestTypes
  <1>3. toll[a] = 0 /\ a \notin taken'  BY <1>1 DEF SellerInv, TollsHeard
  <1>4. CASE Calls(a, "accepted") /\ work' = [work EXCEPT ![a] = "working"]
    BY <1>1, <1>2, <1>3, <1>4, RequestStepLemma DEF CallStates
  <1>5. CASE Calls(a, "refused") /\ UNCHANGED work
    BY <1>1, <1>2, <1>3, <1>5, RequestStepLemma DEF CallStates
  <1> QED  BY <1>4, <1>5 DEF AcceptDispatch
------------------------------------------------------------------------------
(* The dispatcher tries again, or gives up, after an attempt that was      *)
(* refused or answered 402, or whose fate was lost.                        *)
LEMMA RetryLemma ==
  ASSUME SellerInv, Retry, dispatcher.at = "calling", UNCHANGED <<toll, taken, work, deliveries>>,
         ref' \in 0 .. MaxAttempts,
         \/ call[dispatcher.attempt] \in {"unpaid", "refused"} /\ UNCHANGED losses
         \/ Lose
  PROVE  SellerInv'
  <1> DEFINE latest == dispatcher.attempt
             next == latest + 1
  <1>1. /\ dispatcher \in [at : {"calling", "dispatched", "exhausted"}, attempt : Attempts]
        /\ latest \in Attempts /\ latest \in Nat
    BY SellerAssumption DEF SellerInv, RequestTypes, Attempts
  <1>2. /\ losses' \in 0 .. MaxLosses
        /\ losses' = 0 => losses = 0 /\ call[latest] \in {"unpaid", "refused"}
    BY SellerAssumption DEF SellerInv, RequestTypes, Lose
  <1>3. JobKind' /\ DeliveryTypes' /\ Deliveries' /\ JobAgrees'
    BY DeliveriesLemma
  <1>4. CASE next \in Attempts
    <2>1. dispatcher' = [at |-> "calling", attempt |-> next] /\ Calls(next, "sent")
      BY <1>4 DEF Retry
    <2>2. dispatcher'.attempt = next  BY <2>1
    <2>3. call[next] = "none"  BY <1>1, <1>4 DEF SellerInv, Requests
    <2>4. /\ call' \in [Attempts -> CallStates] /\ call'[next] = "sent"
          /\ \A x \in Attempts \ {next} : call'[x] = call[x]
      BY <1>4, <2>1 DEF Calls, SellerInv, RequestTypes, CallStates
    <2>5. RequestTypes'  BY <1>2, <1>4, <2>1, <2>4 DEF SellerInv, RequestTypes
    <2>6. Requests'
      BY <1>1, <2>2, <2>3, <2>4 DEF SellerInv, Requests, Attempts
    <2>7. ASSUME losses' = 0, NEW a \in Attempts
          PROVE  a < dispatcher'.attempt => call'[a] \in {"unpaid", "refused"}
      <3>1. losses = 0 /\ call[latest] \in {"unpaid", "refused"}  BY <1>2, <2>7
      <3>2. a < next => a < latest \/ a = latest  BY <1>1 DEF Attempts
      <3>3. a # next => call'[a] = call[a]  BY <2>4
      <3>4. a < next => a # next  BY <1>1 DEF Attempts
      <3> QED  BY <2>2, <3>1, <3>2, <3>3, <3>4 DEF SellerInv, TollsHeard
    <2>8. toll[next] = 0  BY <1>4, <2>3 DEF SellerInv, TollsHeard
    <2>9. TollsHeard'  BY <2>4, <2>7, <2>8 DEF SellerInv, TollsHeard
    <2> QED  BY <1>3, <2>5, <2>6, <2>9 DEF SellerInv
  <1>5. CASE next \notin Attempts
    <2>1. dispatcher' = [dispatcher EXCEPT !.at = "exhausted"] /\ UNCHANGED call
      BY <1>5 DEF Retry
    <2>2. /\ dispatcher' \in [at : {"calling", "dispatched", "exhausted"}, attempt : Attempts]
          /\ dispatcher'.attempt = latest
      BY <1>1, <2>1
    <2>3. RequestTypes'  BY <1>2, <2>1, <2>2 DEF SellerInv, RequestTypes
    <2>4. Requests'  BY <2>1, <2>2 DEF SellerInv, Requests
    <2>5. TollsHeard'  BY <1>2, <2>1, <2>2 DEF SellerInv, TollsHeard
    <2> QED  BY <1>3, <2>3, <2>4, <2>5 DEF SellerInv
  <1> QED  BY <1>4, <1>5

LEMMA DispatchedLemma ==
  ASSUME SellerInv, Dispatched, UNCHANGED <<toll, taken, work, deliveries>>,
         ref' \in 0 .. MaxAttempts, losses' = losses \/ Lose
  PROVE  SellerInv'
  <1>1. losses' \in 0 .. MaxLosses /\ (losses' = 0 => losses = 0)
    BY SellerAssumption DEF SellerInv, RequestTypes, Lose
  <1>2. /\ dispatcher' \in [at : {"calling", "dispatched", "exhausted"}, attempt : Attempts]
        /\ dispatcher'.attempt = dispatcher.attempt /\ UNCHANGED call
    BY DEF Dispatched, SellerInv, RequestTypes
  <1>3. RequestTypes'  BY <1>1, <1>2 DEF SellerInv, RequestTypes
  <1>4. Requests'  BY <1>2 DEF SellerInv, Requests
  <1>5. TollsHeard'  BY <1>1, <1>2 DEF SellerInv, TollsHeard
  <1>6. JobKind' /\ DeliveryTypes' /\ Deliveries' /\ JobAgrees'
    BY DeliveriesLemma
  <1> QED  BY <1>3, <1>4, <1>5, <1>6 DEF SellerInv

(* The three drivers: what leads to another attempt was refused.           *)
LEMMA DispatchAttemptLemma ==
  ASSUME SellerInv, DispatchAttempt
  PROVE  SellerInv'
  <1> DEFINE a == dispatcher.attempt
  <1>1. /\ a \in Attempts /\ a \in 0 .. MaxAttempts /\ ref \in 0 .. MaxAttempts
        /\ dispatcher.at = "calling" /\ UNCHANGED <<toll, taken, work, deliveries>>
    BY SellerAssumption
    DEF SellerInv, RequestTypes, Attempts, DispatchAttempt, deliveries
  <1>2. CASE HttpDispatch(a)
    <2>1. UNCHANGED <<ref, losses>>  BY <1>2 DEF HttpDispatch
    <2>2. Dispatched \/ (call[a] = "refused" /\ Retry)  BY <1>2 DEF HttpDispatch
    <2> QED  BY <1>1, <2>1, <2>2, RetryLemma, DispatchedLemma
  <1>3. CASE A2ADispatch(a)
    <2>0. SetResultRef(a) => ref' \in 0 .. MaxAttempts  BY <1>1 DEF SetResultRef
    <2>1. CASE call[a] = "accepted" /\ SetResultRef(a) /\ Dispatched /\ UNCHANGED losses
      BY <1>1, <2>0, <2>1, DispatchedLemma
    <2>2. CASE call[a] = "accepted" /\ Lose /\ Retry /\ (SetResultRef(a) \/ UNCHANGED ref)
      BY <1>1, <2>0, <2>2, RetryLemma
    <2>3. CASE call[a] = "refused" /\ Retry /\ UNCHANGED <<ref, losses>>
      BY <1>1, <2>3, RetryLemma
    <2> QED  BY <1>3, <2>1, <2>2, <2>3 DEF A2ADispatch
  <1>4. CASE X402Dispatch(a)
    <2>1. CASE call[a] = "unpaid" /\ Retry /\ UNCHANGED <<ref, losses>>
      BY <1>1, <2>1, RetryLemma
    <2>2. CASE Dispatched
      <3>1. ref' \in 0 .. MaxAttempts /\ (losses' = losses \/ Lose)
        BY <1>1, <1>4 DEF X402Dispatch, SetResultRef
      <3> QED  BY <1>1, <2>2, <3>1, DispatchedLemma
    <2> QED  BY <1>4, <2>1, <2>2 DEF X402Dispatch
  <1>5. CASE TimedOut  BY <1>1, <1>5, RetryLemma DEF TimedOut
  <1> QED  BY <1>2, <1>3, <1>4, <1>5 DEF DispatchAttempt
------------------------------------------------------------------------------
(* Steps that leave the requests alone.                                    *)
LEMMA DoWorkLemma ==
  ASSUME SellerInv, NEW a \in Attempts, DoWork(a)
  PROVE  SellerInv'
  <1>1. /\ work[a] = "working"
        /\ UNCHANGED <<dispatcher, call, toll, taken, ref, losses, deliveries>>
    BY DEF DoWork, deliveries
  <1>2. PICK result \in {"good", "malformed", "failed"} : work' = [work EXCEPT ![a] = result]
    BY DEF DoWork
  <1>3. /\ work' \in [Attempts -> WorkStates] /\ \A x \in Attempts \ {a} : work'[x] = work[x]
    BY <1>2 DEF SellerInv, RequestTypes, WorkStates
  <1>4. push[a] = "none"  BY <1>1 DEF SellerInv, Deliveries
  <1>5. \A x \in Attempts : work'[x] # "none" => work[x] # "none"  BY <1>1, <1>3
  <1>6. RequestTypes' /\ Requests' /\ TollsHeard'  BY <1>1, <1>3, <1>5, RequestsLemma
  <1>7. JobKind' /\ DeliveryTypes' /\ Deliveries' /\ JobAgrees'
    BY <1>1, <1>3, <1>4, DeliveriesLemma
  <1> QED  BY <1>6, <1>7 DEF SellerInv

LEMMA IdleRequestsLemma ==
  ASSUME SellerInv, UNCHANGED requestVars, losses' = losses \/ Lose
  PROVE  JobKind' /\ RequestTypes' /\ Requests' /\ TollsHeard'
  <1>1. UNCHANGED <<protocol, nudge, dispatcher, call, toll, taken, work, ref>>
    BY DEF requestVars, jobKind
  <1>2. work' \in [Attempts -> WorkStates]  BY <1>1 DEF SellerInv, RequestTypes
  <1>3. RequestTypes' /\ Requests' /\ TollsHeard'  BY <1>1, <1>2, RequestsLemma
  <1> QED  BY <1>1, <1>3 DEF SellerInv, JobKind

LEMMA MarkAwaitingLemma ==
  ASSUME SellerInv, MarkAwaiting
  PROVE  SellerInv'
  <1>1. JobKind' /\ RequestTypes' /\ Requests' /\ TollsHeard'
    BY IdleRequestsLemma DEF MarkAwaiting
  <1>2. DeliveryTypes'  BY DEF MarkAwaiting, SellerInv, DeliveryTypes, JobStates
  <1>3. Deliveries' /\ JobAgrees'
    BY DEF MarkAwaiting, SellerInv, Deliveries, JobAgrees, requestVars, jobKind
  <1> QED  BY <1>1, <1>2, <1>3 DEF SellerInv

LEMMA DeliverArtifactLemma ==
  ASSUME SellerInv, NEW a \in Attempts, DeliverArtifact(a)
  PROVE  SellerInv'
  <1>1. JobKind' /\ RequestTypes' /\ Requests' /\ TollsHeard'
    BY IdleRequestsLemma DEF DeliverArtifact
  <1>2. /\ push' \in [Attempts -> PushStates] /\ push'[a] = "posted"
        /\ \A x \in Attempts \ {a} : push'[x] = push[x]
    BY DEF DeliverArtifact, SellerInv, DeliveryTypes, PushStates
  <1>3. DeliveryTypes'  BY <1>2 DEF DeliverArtifact, SellerInv, DeliveryTypes
  <1>4. Deliveries'  BY <1>2 DEF DeliverArtifact, SellerInv, Deliveries, requestVars, jobKind
  <1>5. JobAgrees'  BY DEF DeliverArtifact, SellerInv, JobAgrees
  <1> QED  BY <1>1, <1>3, <1>4, <1>5 DEF SellerInv

(* An accepted delivery is pending; a duplicate was seen before.           *)
LEMMA HandleCallbackLemma ==
  ASSUME SellerInv, NEW a \in Attempts, HandleCallback(a)
  PROVE  SellerInv'
  <1>1. JobKind' /\ RequestTypes' /\ Requests' /\ TollsHeard'
    BY IdleRequestsLemma DEF HandleCallback
  <1>2. /\ push[a] = "posted" /\ UNCHANGED <<nudge, work, jobState, claimed, late, dropped>>
        /\ seenJti' = IF Refusal(a) = "terminal" THEN seenJti ELSE seenJti \cup {a}
        /\ pending' = IF Refusal(a) = "none" THEN pending \cup {a} ELSE pending
    BY DEF HandleCallback, requestVars, jobKind
  <1>3. Refusal(a) \in {"terminal", "duplicate", "malformed", "noref", "none"}  BY DEF Refusal
  <1>4. \/ push' = [push EXCEPT ![a] = IF Refusal(a) = "none" THEN "accepted" ELSE Refusal(a)]
        \/ push' = [push EXCEPT ![a] = "unanswered"]
    BY DEF HandleCallback
  <1>5. /\ push' \in [Attempts -> PushStates] /\ push'[a] # "none"
        /\ \A x \in Attempts \ {a} : push'[x] = push[x]
        /\ push'[a] \in {"accepted", "duplicate"} => Refusal(a) \in {"none", "duplicate"}
    BY <1>3, <1>4 DEF SellerInv, DeliveryTypes, PushStates
  <1>6. DeliveryTypes'  BY <1>2, <1>5 DEF SellerInv, DeliveryTypes
  <1>7. work[a] \in {"good", "malformed"}  BY <1>2 DEF SellerInv, Deliveries
  <1>8. nudge \in {"inline", "own"} /\ a \in seenJti' /\ work[a] = "good" =>
          a \in pending' \/ claimed # 0 \/ late \/ dropped
    <2>1. CASE Refusal(a) = "terminal"  BY <1>2, <2>1 DEF SellerInv, Deliveries
    <2>2. CASE Refusal(a) = "none"  BY <1>2, <2>2
    <2>3. CASE Refusal(a) = "duplicate"
      <3>1. a \in seenJti  BY <2>3 DEF Refusal
      <3> QED  BY <1>2, <3>1 DEF SellerInv, Deliveries
    <2>4. CASE Refusal(a) \in {"malformed", "noref"}
      BY <2>4 DEF Refusal
    <2> QED  BY <1>3, <2>1, <2>2, <2>3, <2>4
  <1>9. Deliveries'
    <2> SUFFICES ASSUME NEW x \in Attempts
                 PROVE  /\ push'[x] # "none" => work'[x] \in {"good", "malformed"}
                        /\ x \in seenJti' => push'[x] # "none"
                        /\ push'[x] \in {"accepted", "duplicate"} => x \in seenJti'
                        /\ nudge' \in {"inline", "own"} /\ x \in seenJti' /\ work'[x] = "good" =>
                             x \in pending' \/ claimed' # 0 \/ late' \/ dropped'
      BY DEF Deliveries
    <2>1. CASE x = a  BY <1>2, <1>3, <1>5, <1>7, <1>8, <2>1
    <2>2. CASE x # a
      <3>1. (x \in seenJti' <=> x \in seenJti) /\ (x \in pending => x \in pending')
        BY <1>2, <2>2
      <3> QED  BY <1>2, <1>5, <2>2, <3>1 DEF SellerInv, Deliveries
    <2> QED  BY <2>1, <2>2
  <1>10. JobAgrees'  BY <1>2 DEF SellerInv, JobAgrees
  <1> QED  BY <1>1, <1>6, <1>9, <1>10 DEF SellerInv

(* A claim that finds the job taken, or too late, finds it so.             *)
LEMMA ClaimLemma ==
  ASSUME SellerInv, NEW a \in Attempts, Claim(a)
  PROVE  /\ jobState' \in JobStates /\ claimed' \in 0 .. MaxAttempts
         /\ claimed' # 0 \/ late
         /\ claimed # 0 => claimed' # 0
         /\ jobState' = "DELIVERED" => claimed' # 0
         /\ jobState' = "EXPIRED" => late
  <1>1. a \in 0 .. MaxAttempts /\ a # 0  BY SellerAssumption DEF Attempts
  <1>2. CASE ClaimDelivery(a)  BY <1>1, <1>2 DEF Claim, JobStates
  <1>3. CASE ~ClaimDelivery(a)
    <2>1. jobState \in {"DELIVERED", "EXPIRED"}
      BY <1>1, <1>3 DEF ClaimDelivery, SellerInv, DeliveryTypes, JobStates
    <2> QED  BY <1>3, <2>1 DEF Claim, SellerInv, DeliveryTypes, JobAgrees
  <1> QED  BY <1>2, <1>3

LEMMA OnDeliveryLemma ==
  ASSUME SellerInv, NEW a \in Attempts, OnDelivery(a)
  PROVE  SellerInv'
  <1>1. JobKind' /\ RequestTypes' /\ Requests' /\ TollsHeard'
    BY IdleRequestsLemma DEF OnDelivery
  <1>2. pending' = pending \ {a} /\ UNCHANGED <<nudge, work, push, seenJti, late>>
    BY DEF OnDelivery, requestVars, jobKind
  <1>3. /\ jobState' \in JobStates /\ claimed' \in 0 .. MaxAttempts /\ dropped' \in BOOLEAN
        /\ dropped => dropped'
        /\ claimed # 0 => claimed' # 0
        /\ (jobState' = "DELIVERED" => claimed' # 0) /\ (jobState' = "EXPIRED" => late)
        /\ nudge \in {"inline", "own"} => late \/ claimed' # 0 \/ dropped' \/ work[a] # "good"
    <2>1. CASE late /\ UNCHANGED <<jobState, claimed, losses, dropped>>
      BY <2>1 DEF SellerInv, DeliveryTypes, JobAgrees
    <2>2. CASE /\ Deliverable(Delivers(a)) /\ Claim(Delivers(a))
               /\ UNCHANGED <<losses, dropped>>
      <3>1. Delivers(a) \in Attempts
        BY <2>2, SellerAssumption
        DEF Deliverable, Delivers, SellerInv, RequestTypes, Attempts
      <3> QED  BY <2>2, <3>1, ClaimLemma DEF SellerInv, DeliveryTypes
    <2>3. CASE ~Deliverable(Delivers(a)) /\ UNCHANGED <<jobState, claimed, losses, dropped>>
      <3>1. a # 0  BY SellerAssumption DEF Attempts
      <3> QED  BY <2>3, <3>1 DEF Delivers, Deliverable, SellerInv, DeliveryTypes, JobAgrees
    <2>4. CASE dropped' = TRUE /\ UNCHANGED <<jobState, claimed>>
      BY <2>4 DEF SellerInv, DeliveryTypes, JobAgrees
    <2> QED  BY <2>1, <2>2, <2>3, <2>4 DEF OnDelivery
  <1>4. DeliveryTypes'  BY <1>2, <1>3 DEF SellerInv, DeliveryTypes
  <1>5. Deliveries'  BY <1>2, <1>3 DEF SellerInv, Deliveries
  <1>6. JobAgrees'  BY <1>2, <1>3 DEF JobAgrees
  <1> QED  BY <1>1, <1>4, <1>5, <1>6 DEF SellerInv

LEMMA PollOnceLemma ==
  ASSUME SellerInv, PollOnce
  PROVE  SellerInv'
  <1>1. JobKind' /\ RequestTypes' /\ Requests' /\ TollsHeard'
    BY IdleRequestsLemma DEF PollOnce
  <1>2. ResultRef \in Attempts
    BY SellerAssumption
    DEF PollOnce, FetchResult, Deliverable, ResultRef, SellerInv, RequestTypes, Attempts
  <1>3. /\ Claim(ResultRef) /\ UNCHANGED <<nudge, work, push, seenJti, pending, late, dropped>>
    BY DEF PollOnce, requestVars, jobKind
  <1>4. /\ jobState' \in JobStates /\ claimed' \in 0 .. MaxAttempts
        /\ claimed # 0 => claimed' # 0
        /\ (jobState' = "DELIVERED" => claimed' # 0) /\ (jobState' = "EXPIRED" => late)
    BY <1>2, <1>3, ClaimLemma
  <1>5. DeliveryTypes'  BY <1>3, <1>4 DEF SellerInv, DeliveryTypes
  <1>6. Deliveries'  BY <1>3, <1>4 DEF SellerInv, Deliveries
  <1>7. JobAgrees'  BY <1>3, <1>4 DEF JobAgrees
  <1> QED  BY <1>1, <1>5, <1>6, <1>7 DEF SellerInv

LEMMA ClockLemma ==
  ASSUME SellerInv, DeadlinePasses \/ ExpireJob
  PROVE  SellerInv'
  <1>1. UNCHANGED requestVars /\ UNCHANGED <<losses, push, seenJti, pending, claimed, dropped>>
    BY DEF DeadlinePasses, ExpireJob
  <1>2. JobKind' /\ RequestTypes' /\ Requests' /\ TollsHeard'
    BY <1>1, IdleRequestsLemma
  <1>3. /\ late' \in BOOLEAN /\ (late => late') /\ jobState' \in JobStates
        /\ (jobState' = "DELIVERED" => jobState = "DELIVERED")
        /\ (jobState' = "EXPIRED" => late')
    BY DEF DeadlinePasses, ExpireJob, JobStates, SellerInv, DeliveryTypes, JobAgrees
  <1>4. DeliveryTypes'  BY <1>1, <1>3 DEF SellerInv, DeliveryTypes
  <1>5. UNCHANGED <<nudge, work>>  BY <1>1 DEF requestVars, jobKind
  <1>6. Deliveries'  BY <1>1, <1>3, <1>5 DEF SellerInv, Deliveries
  <1>7. JobAgrees'  BY <1>1, <1>3 DEF SellerInv, JobAgrees
  <1> QED  BY <1>2, <1>4, <1>6, <1>7 DEF SellerInv

LEMMA WorkerRestartsLemma ==
  ASSUME SellerInv, WorkerRestarts
  PROVE  SellerInv'
  <1>1. /\ dispatcher' \in [at : {"calling", "dispatched", "exhausted"}, attempt : Attempts]
        /\ dispatcher'.attempt = dispatcher.attempt
    BY DEF WorkerRestarts, SellerInv, RequestTypes
  <1>2. losses' \in 0 .. MaxLosses /\ losses' # 0
    BY SellerAssumption DEF WorkerRestarts, Lose, SellerInv, RequestTypes
  <1>3. RequestTypes'  BY <1>1, <1>2 DEF WorkerRestarts, SellerInv, RequestTypes
  <1>4. Requests'  BY <1>1 DEF WorkerRestarts, SellerInv, Requests
  <1>5. TollsHeard'  BY <1>2 DEF WorkerRestarts, SellerInv, TollsHeard
  <1>6. JobKind' /\ DeliveryTypes'
    BY DEF WorkerRestarts, SellerInv, JobKind, DeliveryTypes, jobKind
  <1>7. Deliveries'  BY DEF WorkerRestarts, SellerInv, Deliveries
  <1>8. JobAgrees'  BY DEF WorkerRestarts, SellerInv, JobAgrees
  <1> QED  BY <1>3, <1>4, <1>5, <1>6, <1>7, <1>8 DEF SellerInv

LEMMA SellerStutterLemma ==
  ASSUME SellerInv, UNCHANGED sellerVars
  PROVE  SellerInv'
  BY DEF sellerVars, SellerInv, JobKind, RequestTypes, DeliveryTypes, Requests, TollsHeard,
         Deliveries, JobAgrees

LEMMA SellerInitLemma ==
  ASSUME SellerInit
  PROVE  SellerInv
  <1>1. 1 \in Attempts /\ 0 \in 0 .. MaxAttempts /\ 0 \in 0 .. MaxLosses
    BY SellerAssumption DEF Attempts
  <1>2. JobKind /\ RequestTypes
    BY <1>1 DEF SellerInit, JobKind, RequestTypes, CallStates, Tolls, WorkStates
  <1>3. DeliveryTypes  BY <1>1 DEF SellerInit, DeliveryTypes, PushStates, JobStates
  <1>4. Requests  BY DEF SellerInit, Requests, Attempts
  <1>5. TollsHeard  BY DEF SellerInit, TollsHeard, Attempts
  <1>6. Deliveries /\ JobAgrees  BY DEF SellerInit, Deliveries, JobAgrees
  <1> QED  BY <1>2, <1>3, <1>4, <1>5, <1>6 DEF SellerInv
------------------------------------------------------------------------------
(* The invariant is kept by every step of the worker, its sellers, the     *)
(* facilitator and the clock.                                              *)
THEOREM SellerInvariance == SellerSpec => []SellerInv
  <1>1. SellerInit => SellerInv  BY SellerInitLemma
  <1>2. SellerInv /\ [SellerNext]_sellerVars => SellerInv'
    <2> SUFFICES ASSUME SellerInv, [SellerNext]_sellerVars PROVE SellerInv'
      OBVIOUS
    <2>1. ASSUME NEW a \in Attempts, \/ Challenge(a) \/ VerifyToll(a) \/ SettleToll(a)
                                     \/ TakeToll(a) \/ TakeOn(a)
          PROVE  SellerInv'
      BY <2>1, ChallengeLemma, VerifyTollLemma, SettleTollLemma, TakeTollLemma, TakeOnLemma
    <2>2. ASSUME NEW a \in Attempts, AcceptDispatch(a) \/ DoWork(a)
          PROVE  SellerInv'
      BY <2>2, AcceptDispatchLemma, DoWorkLemma
    <2>3. ASSUME NEW a \in Attempts, DeliverArtifact(a) \/ HandleCallback(a) \/ OnDelivery(a)
          PROVE  SellerInv'
      BY <2>3, DeliverArtifactLemma, HandleCallbackLemma, OnDeliveryLemma
    <2>4. CASE DispatchAttempt  BY <2>4, DispatchAttemptLemma
    <2>5. CASE MarkAwaiting  BY <2>5, MarkAwaitingLemma
    <2>6. CASE PollOnce  BY <2>6, PollOnceLemma
    <2>7. CASE DeadlinePasses \/ ExpireJob  BY <2>7, ClockLemma
    <2>8. CASE WorkerRestarts  BY <2>8, WorkerRestartsLemma
    <2>9. CASE UNCHANGED sellerVars  BY <2>9, SellerStutterLemma
    <2> QED  BY <2>1, <2>2, <2>3, <2>4, <2>5, <2>6, <2>7, <2>8, <2>9 DEF SellerNext
  <1> QED  BY <1>1, <1>2, PTL DEF SellerSpec

(* Requests, deliveries and the job keep their types.                      *)
THEOREM SellerTypes == SellerSpec => []SellerTypeOK
  <1>1. SellerInv => SellerTypeOK
    BY DEF SellerInv, JobKind, RequestTypes, DeliveryTypes, SellerTypeOK, CallStates, Tolls,
           WorkStates, PushStates, JobStates
  <1> QED  BY <1>1, SellerInvariance, PTL

(* When every answer arrived, a job spends one toll at most over all the   *)
(* attempts of its dispatch, beyond those that a seller took and still     *)
(* answered 402 for, and whatever else the seller asks and does            *)
(* (dispatcher.ts, adapter/x402.ts: "NEVER RE-PAY").                       *)
THEOREM OneTollWhenHeard == SellerSpec => []TollOnceWhenHeard
  <1>1. SellerInv => TollOnceWhenHeard
    <2> SUFFICES ASSUME SellerInv, losses = 0 PROVE Cardinality(Spent) <= 1
      BY DEF TollOnceWhenHeard
    <2>1. dispatcher.attempt \in Attempts /\ dispatcher.attempt \in Nat
      BY SellerAssumption DEF SellerInv, RequestTypes, Attempts
    <2>2. Spent \subseteq {dispatcher.attempt}
      <3> SUFFICES ASSUME NEW a \in Spent PROVE a = dispatcher.attempt
        OBVIOUS
      <3>1. a \in Attempts /\ a \in Nat /\ toll[a] # 0 /\ call[a] # "unpaid"
        BY DEF Spent, Attempts, SellerInv, RequestTypes, TollsHeard
      <3>2. ~(a > dispatcher.attempt)
        BY <3>1 DEF SellerInv, Requests, TollsHeard
      <3>3. ~(a < dispatcher.attempt)  BY <3>1 DEF SellerInv, TollsHeard
      <3> QED  BY <2>1, <3>1, <3>2, <3>3
    <2>3. IsFiniteSet({dispatcher.attempt}) /\ Cardinality({dispatcher.attempt}) = 1
      BY FS_Singleton
    <2> QED  BY <2>2, <2>3, FS_Subset
  <1> QED  BY <1>1, SellerInvariance, PTL

(* A seller that was told its delivery is accepted, or was there before,   *)
(* may stop, if it brings the work or names it as a task of its own: good  *)
(* work is then taken or being taken, unless the deadline has passed or the*)
(* worker forgot it (routes/callback.ts).                                  *)
THEOREM HeardDeliveries == SellerSpec => []HeardDeliveryCounts
  <1>1. SellerInv => HeardDeliveryCounts
    BY DEF SellerInv, Deliveries, HeardDeliveryCounts
  <1> QED  BY <1>1, SellerInvariance, PTL
-------------------------------------------------------------------------------

(***************************************************************************)
(* The attestation of a job (Attestation).                                 *)
(***************************************************************************)
AttestTypes ==
  /\ registry \in [Settlements -> {"unknown", "open", "answered"}]
  /\ lagging \subseteq Settlements
  /\ flight \subseteq Settlements \X SendKinds \X (0 .. MaxSends - 1)
  /\ attestor \in [Settlements -> [at : AttestSteps, sends : 0 .. MaxSends - 1]]
  /\ cache \subseteq Settlements /\ rows \subseteq Settlements /\ unsaved \subseteq Settlements

ReaderTypes ==
  /\ checked \in [Settlements -> {"nothing", "unanswered", "verified", "dangling", "unread"}]
  /\ misses \in 0 .. MaxMisses

(* The bundle is kept where a restart does not reach it, or is known not   *)
(* to be; and it is the bundle of work that was validated.                 *)
Kept(s) == SettledAs[s] # "abstain" /\ (s \in rows \/ s \in unsaved)

(* Nothing points at a bundle before the bundle is kept: neither the       *)
(* attestation under way, nor what it has sent, nor the registry.          *)
EvidenceFirst ==
  \A s \in Settlements :
    /\ attestor[s].at \notin {"idle", "skipped", "error"} => Kept(s)
    /\ (\E t \in flight : t[1] = s) => Kept(s)
    /\ registry[s] # "unknown" => Kept(s)

DanglesKnowingly == \A s \in Settlements : checked[s] = "dangling" => s \in unsaved

AttestInv == AttestTypes /\ ReaderTypes /\ EvidenceFirst /\ DanglesKnowingly
------------------------------------------------------------------------------
(* What is kept stays kept: rows are never deleted.                        *)
LEMMA KeptLemma ==
  ASSUME rows \subseteq rows', unsaved \subseteq unsaved', NEW s \in Settlements, Kept(s)
  PROVE  Kept(s)'
  BY DEF Kept

LEMMA GoesLemma ==
  ASSUME AttestInv, NEW s \in Settlements, NEW step \in AttestSteps, Goes(s, step)
  PROVE  /\ attestor' \in [Settlements -> [at : AttestSteps, sends : 0 .. MaxSends - 1]]
         /\ attestor'[s].at = step
         /\ \A x \in Settlements : x # s => attestor'[x] = attestor[x]
  <1>1. 0 \in 0 .. MaxSends - 1  BY AttestationAssumption
  <1>2. [at |-> step, sends |-> 0] \in [at : AttestSteps, sends : 0 .. MaxSends - 1]
    BY <1>1
  <1> QED  BY <1>2 DEF Goes, AttestInv, AttestTypes

LEMMA TryAgainLemma ==
  ASSUME AttestInv, NEW s \in Settlements, NEW step \in AttestSteps, TryAgain(s, step)
  PROVE  /\ attestor' \in [Settlements -> [at : AttestSteps, sends : 0 .. MaxSends - 1]]
         /\ attestor'[s].at \in {step, "error"}
         /\ \A x \in Settlements : x # s => attestor'[x] = attestor[x]
  <1>1. "error" \in AttestSteps  BY DEF AttestSteps
  <1>2. CASE Goes(s, "error")  BY <1>1, <1>2, GoesLemma
  <1>3. CASE /\ attestor[s].sends + 1 < MaxSends
             /\ attestor' = [attestor EXCEPT ![s] = [at |-> step, sends |-> attestor[s].sends + 1]]
    <2>1. attestor[s].sends + 1 \in 0 .. MaxSends - 1
      BY <1>3, AttestationAssumption DEF AttestInv, AttestTypes
    <2>2. [at |-> step, sends |-> attestor[s].sends + 1]
            \in [at : AttestSteps, sends : 0 .. MaxSends - 1]
      BY <2>1
    <2> QED  BY <1>3, <2>2 DEF AttestInv, AttestTypes
  <1> QED  BY <1>2, <1>3 DEF TryAgain

LEMMA MissLemma ==
  ASSUME AttestInv, Miss \/ UNCHANGED misses
  PROVE  misses' \in 0 .. MaxMisses
  BY AttestationAssumption DEF Miss, AttestInv, ReaderTypes

(* A step of one attestation that touches neither the chain nor the store, *)
(* and goes on only with what is kept.                                     *)
LEMMA AttestStepLemma ==
  ASSUME AttestInv, NEW s \in Settlements,
         attestor' \in [Settlements -> [at : AttestSteps, sends : 0 .. MaxSends - 1]],
         \A x \in Settlements : x # s => attestor'[x] = attestor[x],
         attestor'[s].at \notin {"idle", "skipped", "error"} => Kept(s),
         misses' \in 0 .. MaxMisses, UNCHANGED <<registry, lagging, store, checked>>,
         \/ flight' = flight
         \/ \E k \in SendKinds, n \in 0 .. MaxSends - 1 : flight' = flight \cup {<<s, k, n>>} /\ Kept(s)
  PROVE  AttestInv'
  <1>1. flight' \subseteq Settlements \X SendKinds \X (0 .. MaxSends - 1)
    BY DEF AttestInv, AttestTypes
  <1>2. AttestTypes' /\ ReaderTypes'
    BY <1>1 DEF AttestInv, AttestTypes, ReaderTypes, store
  <1>3. \A x \in Settlements : Kept(x) => Kept(x)'  BY DEF Kept, store
  <1>4. \A x \in Settlements : (\E t \in flight' : t[1] = x) => Kept(x)
    BY DEF AttestInv, EvidenceFirst
  <1>5. EvidenceFirst'
    BY <1>3, <1>4 DEF AttestInv, EvidenceFirst
  <1>6. DanglesKnowingly'  BY DEF AttestInv, DanglesKnowingly, store
  <1> QED  BY <1>2, <1>5, <1>6 DEF AttestInv
------------------------------------------------------------------------------
LEMMA AttestSettlementLemma ==
  ASSUME AttestInv, NEW s \in Settlements, AttestSettlement(s)
  PROVE  AttestInv'
  <1>1. CASE SettledAs[s] = "abstain"
    <2>1. Goes(s, "skipped") /\ UNCHANGED <<registry, lagging, flight, store, checked, misses>>
      BY <1>1 DEF AttestSettlement, chainState
    <2>2. misses' \in 0 .. MaxMisses  BY <2>1, MissLemma
    <2>3. "skipped" \in AttestSteps  BY DEF AttestSteps
    <2> QED  BY <2>1, <2>2, <2>3, GoesLemma, AttestStepLemma
  <1>2. CASE SettledAs[s] # "abstain"
    <2>1. Goes(s, "kept") /\ PutEvidence(s) /\ UNCHANGED <<registry, lagging, flight, checked>>
      BY <1>2 DEF AttestSettlement, chainState
    <2>2. "kept" \in AttestSteps  BY DEF AttestSteps
    <2>3. misses' \in 0 .. MaxMisses  BY <2>1, MissLemma DEF PutEvidence
    <2>4. /\ rows \subseteq rows' /\ unsaved \subseteq unsaved' /\ (s \in rows' \/ s \in unsaved')
          /\ cache' \subseteq Settlements /\ rows' \subseteq Settlements
          /\ unsaved' \subseteq Settlements
      BY <2>1 DEF PutEvidence, AttestInv, AttestTypes
    <2>5. AttestTypes' /\ ReaderTypes'
      BY <2>1, <2>2, <2>3, <2>4, GoesLemma DEF AttestInv, AttestTypes, ReaderTypes
    <2>6. \A x \in Settlements : Kept(x) => Kept(x)'  BY <2>4 DEF Kept
    <2>7. Kept(s)'  BY <1>2, <2>4 DEF Kept
    <2>8. EvidenceFirst'
      BY <2>1, <2>2, <2>6, <2>7, GoesLemma DEF AttestInv, EvidenceFirst
    <2>9. DanglesKnowingly'  BY <2>1, <2>4 DEF AttestInv, DanglesKnowingly
    <2> QED  BY <2>5, <2>8, <2>9 DEF AttestInv
  <1> QED  BY <1>1, <1>2

LEMMA ReadStatusLemma ==
  ASSUME AttestInv, NEW s \in Settlements, ReadStatus(s)
  PROVE  AttestInv'
  <1>1. attestor[s].at \in {"kept", "opened"} /\ Kept(s)
    BY DEF ReadStatus, AtStep, AttestInv, EvidenceFirst
  <1>2. PICK step \in {"skipped", "opening", "answering", "error"} : Goes(s, step)
    BY DEF ReadStatus
  <1>3. step \in AttestSteps  BY DEF AttestSteps
  <1>4. misses' \in 0 .. MaxMisses /\ UNCHANGED <<registry, lagging, flight, store, checked>>
    BY MissLemma DEF ReadStatus, chainState
  <1> QED  BY <1>1, <1>2, <1>3, <1>4, GoesLemma, AttestStepLemma

LEMMA SimulateAndSendLemma ==
  ASSUME AttestInv, NEW s \in Settlements, SimulateAndSend(s)
  PROVE  AttestInv'
  <1>1. attestor[s].at \in {"opening", "answering"} /\ Kept(s)
    BY DEF SimulateAndSend, AtStep, AttestInv, EvidenceFirst
  <1>2. misses' \in 0 .. MaxMisses /\ UNCHANGED <<registry, lagging, store, checked>>
    BY MissLemma DEF SimulateAndSend
  <1>3. attestor[s] \in [at : AttestSteps, sends : 0 .. MaxSends - 1] /\ Kind(s) \in SendKinds
    BY DEF AttestInv, AttestTypes, Kind, SendKinds
  <1>4. {"openSent", "answerSent", "opened", "opening", "answering", "error"} \subseteq AttestSteps
    BY DEF AttestSteps
  <1>5. CASE \E step \in {"openSent", "answerSent"} : attestor' = [attestor EXCEPT ![s].at = step]
    <2>1. PICK step \in {"openSent", "answerSent"} : attestor' = [attestor EXCEPT ![s].at = step]
      BY <1>5
    <2>2. /\ attestor' \in [Settlements -> [at : AttestSteps, sends : 0 .. MaxSends - 1]]
          /\ \A x \in Settlements : x # s => attestor'[x] = attestor[x]
      BY <1>4, <2>1 DEF AttestInv, AttestTypes
    <2>3. \/ flight' = flight
          \/ flight' = flight \cup {<<s, Kind(s), attestor[s].sends>>}
      BY DEF SimulateAndSend
    <2> QED  BY <1>1, <1>2, <1>3, <2>2, <2>3, AttestStepLemma
  <1>6. CASE UNCHANGED flight /\ \E step \in {"opened"} : Goes(s, step)
    BY <1>1, <1>2, <1>4, <1>6, GoesLemma, AttestStepLemma
  <1>7. CASE UNCHANGED flight /\ \E step \in {"opening", "answering"} : TryAgain(s, step)
    BY <1>1, <1>2, <1>4, <1>7, TryAgainLemma, AttestStepLemma
  <1> QED  BY <1>1, <1>5, <1>6, <1>7 DEF SimulateAndSend

LEMMA ConfirmSendLemma ==
  ASSUME AttestInv, NEW s \in Settlements, ConfirmSend(s)
  PROVE  AttestInv'
  <1>1. attestor[s].at \in {"openSent", "answerSent"} /\ Kept(s)
    BY DEF ConfirmSend, AtStep, AttestInv, EvidenceFirst
  <1>2. misses' \in 0 .. MaxMisses /\ UNCHANGED <<registry, lagging, flight, store, checked>>
    BY MissLemma DEF ConfirmSend, chainState
  <1>3. {"opened", "attested", "opening", "answering"} \subseteq AttestSteps  BY DEF AttestSteps
  <1>4. CASE \E step \in {"opened", "attested"} : Goes(s, step)
    BY <1>1, <1>2, <1>3, <1>4, GoesLemma, AttestStepLemma
  <1>5. CASE \E step \in {"opening", "answering"} : TryAgain(s, step)
    BY <1>1, <1>2, <1>3, <1>5, TryAgainLemma, AttestStepLemma
  <1> QED  BY <1>4, <1>5 DEF ConfirmSend

LEMMA ChainLemma ==
  ASSUME AttestInv, Mine \/ CatchUp
  PROVE  AttestInv'
  <1>1. UNCHANGED <<attestor, cache, rows, unsaved, checked, misses>>
    BY DEF Mine, CatchUp, store
  <1>2. \A x \in Settlements : Kept(x)' <=> Kept(x)  BY <1>1 DEF Kept
  <1>3. CASE CatchUp
    <2>1. UNCHANGED <<registry, flight>> /\ lagging' \subseteq lagging  BY <1>3 DEF CatchUp
    <2> QED
      BY <1>1, <1>2, <2>1
      DEF AttestInv, AttestTypes, ReaderTypes, EvidenceFirst, DanglesKnowingly
  <1>4. CASE Mine
    <2>1. PICK t \in flight :
            /\ flight' = flight \ {t} /\ lagging' \subseteq lagging \cup {t[1]}
            /\ \/ registry' = registry
               \/ \E how \in {"open", "answered"} : registry' = [registry EXCEPT ![t[1]] = how]
      BY <1>4 DEF Mine
    <2>2. t[1] \in Settlements /\ Kept(t[1])  BY DEF AttestInv, AttestTypes, EvidenceFirst
    <2>3. AttestTypes' /\ ReaderTypes'
      BY <1>1, <2>1, <2>2 DEF AttestInv, AttestTypes, ReaderTypes
    <2>4. EvidenceFirst'
      BY <1>1, <1>2, <2>1, <2>2 DEF AttestInv, AttestTypes, EvidenceFirst
    <2> QED  BY <1>1, <2>3, <2>4 DEF AttestInv, DanglesKnowingly
  <1> QED  BY <1>3, <1>4

LEMMA ServerRestartsLemma ==
  ASSUME AttestInv, ServerRestarts
  PROVE  AttestInv'
  <1>1. UNCHANGED <<registry, lagging, flight, rows, unsaved, checked>> /\ cache' = {}
    BY DEF ServerRestarts, chainState
  <1>2. 0 \in 0 .. MaxSends - 1 /\ "error" \in AttestSteps
    BY AttestationAssumption DEF AttestSteps
  <1>3. misses' \in 0 .. MaxMisses  BY MissLemma DEF ServerRestarts
  <1>4. [at |-> "error", sends |-> 0] \in [at : AttestSteps, sends : 0 .. MaxSends - 1]
    BY <1>2
  <1>5. /\ attestor' \in [Settlements -> [at : AttestSteps, sends : 0 .. MaxSends - 1]]
        /\ \A s \in Settlements : attestor'[s] = attestor[s] \/ attestor'[s].at = "error"
    BY <1>4 DEF ServerRestarts, AttestInv, AttestTypes
  <1>6. \A x \in Settlements : Kept(x)' <=> Kept(x)  BY <1>1 DEF Kept
  <1> QED
    BY <1>1, <1>3, <1>5, <1>6
    DEF AttestInv, AttestTypes, ReaderTypes, EvidenceFirst, DanglesKnowingly

LEMMA ReadValidationLemma ==
  ASSUME AttestInv, NEW s \in Settlements, ReadValidation(s)
  PROVE  AttestInv'
  <1>1. UNCHANGED <<registry, lagging, flight, attestor, rows, unsaved>>
    BY DEF ReadValidation, chainState
  <1>2. PICK what \in {"unanswered", "verified", "dangling", "unread"} :
          /\ checked' = [checked EXCEPT ![s] = what]
          /\ what = "dangling" => "answered" \in View(s) /\ ~GetEvidence(s)
    BY DEF ReadValidation, HandleGetEvidence, Finds
  <1>3. cache' \subseteq Settlements /\ (Miss \/ UNCHANGED misses)
    BY DEF ReadValidation, HandleGetEvidence, AttestInv, AttestTypes
  <1>4. what = "dangling" => s \in unsaved
    <2> SUFFICES ASSUME what = "dangling" PROVE s \in unsaved
      OBVIOUS
    <2>1. registry[s] = "answered"  BY <1>2 DEF View, AttestInv, AttestTypes
    <2>2. Kept(s)  BY <2>1 DEF AttestInv, EvidenceFirst
    <2> QED  BY <1>2, <2>2 DEF Kept, GetEvidence
  <1>5. AttestTypes' /\ ReaderTypes'
    BY <1>1, <1>2, <1>3, MissLemma DEF AttestInv, AttestTypes, ReaderTypes
  <1>6. EvidenceFirst'  BY <1>1 DEF AttestInv, EvidenceFirst, Kept
  <1>7. DanglesKnowingly'
    BY <1>1, <1>2, <1>4 DEF AttestInv, ReaderTypes, DanglesKnowingly
  <1> QED  BY <1>5, <1>6, <1>7 DEF AttestInv

(* The evidence comes first in every state of the attestor, its store, the *)
(* registry and its readers.                                               *)
THEOREM AttestInvariance == AttestSpec => []AttestInv
  <1>1. AttestInit => AttestInv
    <2> SUFFICES ASSUME AttestInit PROVE AttestInv
      OBVIOUS
    <2>1. 0 \in 0 .. MaxSends - 1 /\ 0 \in 0 .. MaxMisses /\ "idle" \in AttestSteps
      BY AttestationAssumption DEF AttestSteps
    <2>2. [at |-> "idle", sends |-> 0] \in [at : AttestSteps, sends : 0 .. MaxSends - 1]
      BY <2>1
    <2>3. AttestTypes /\ ReaderTypes  BY <2>1, <2>2 DEF AttestInit, AttestTypes, ReaderTypes
    <2>4. EvidenceFirst /\ DanglesKnowingly  BY DEF AttestInit, EvidenceFirst, DanglesKnowingly
    <2> QED  BY <2>3, <2>4 DEF AttestInv
  <1>2. AttestInv /\ [AttestNext]_attestVars => AttestInv'
    <2> SUFFICES ASSUME AttestInv, [AttestNext]_attestVars PROVE AttestInv'
      OBVIOUS
    <2>1. ASSUME NEW s \in Settlements,
                 \/ AttestSettlement(s) \/ ReadStatus(s) \/ SimulateAndSend(s) \/ ConfirmSend(s)
                 \/ ReadValidation(s)
          PROVE  AttestInv'
      BY <2>1, AttestSettlementLemma, ReadStatusLemma, SimulateAndSendLemma, ConfirmSendLemma,
         ReadValidationLemma
    <2>2. CASE Mine \/ CatchUp  BY <2>2, ChainLemma
    <2>3. CASE ServerRestarts  BY <2>3, ServerRestartsLemma
    <2>4. CASE UNCHANGED attestVars
      BY <2>4
      DEF attestVars, AttestInv, AttestTypes, ReaderTypes, EvidenceFirst, DanglesKnowingly, Kept
    <2> QED  BY <2>1, <2>2, <2>3, <2>4 DEF AttestNext
  <1> QED  BY <1>1, <1>2, PTL DEF AttestSpec

(* The registry, the transactions in flight, the store and the readers'    *)
(* findings keep their types.                                              *)
THEOREM AttestTyped == AttestSpec => []AttestTypeOK
  <1>1. AttestInv => AttestTypeOK  BY DEF AttestInv, AttestTypes, ReaderTypes, AttestTypeOK
  <1> QED  BY <1>1, AttestInvariance, PTL

(* Whoever reads an answer on chain finds the bundle it points at, over    *)
(* every restart and lagging node, unless its row was never written; and   *)
(* an abstain is never attested (attestor.ts, evidence-store.ts).          *)
THEOREM AnswersAlwaysResolve == AttestSpec => []AnswersResolve
  <1>1. AttestInv => AnswersResolve
    BY DEF AttestInv, EvidenceFirst, DanglesKnowingly, Kept, GetEvidence, AnswersResolve
  <1> QED  BY <1>1, AttestInvariance, PTL

-----------------------------------------------------------------------------
(***************************************************************************)
(* The pages that tell the story of a run (RunPage).                       *)
(***************************************************************************)
HireFlows == {"register", "sign", "fund", "dispatch"}
Flows == Awaiting \cup {"none", "connect", "watch", "refused", "unanswered", "failed", "done"}
Panels == [steps : Seq(Runs \X Events), verdict : Verdicts \cup {"none"}, floor : BOOLEAN,
           sawStaticFail : BOOLEAN, outcome : 0 .. MaxRuns]
Streams == [of : 0 .. MaxRuns, at : {"closed", "connecting", "open"}, read : Nat]

PageTypes == page \in Pages /\ run \in 0 .. MaxRuns /\ panel \in Panels
RefTypes == running \in BOOLEAN /\ stream \in Streams
RestTypes ==
  /\ watchdog \in BOOLEAN /\ faults \in 0 .. MaxFaults /\ flow \in [Runs -> Flows]
  /\ history \in [Runs -> Seq(Events)] /\ story \in [Runs -> Seq(Events) \cup {NoStory}]

(* An open stream has read no more than was published.                     *)
StreamReads ==
  stream.at # "closed" => stream.of \in Runs /\ stream.read <= Len(history[stream.of])

(* On the courtroom and the rail nothing registers, signs or funds, and    *)
(* the stream is there as long as the run is shown going, and is its own.  *)
OneStream ==
  page # "hire" =>
    /\ \A r \in Runs : flow[r] \notin HireFlows
    /\ running <=> stream.at # "closed"
    /\ running => stream.of = run

(* What is shown is what the stream has read.                              *)
StepsFollowStream ==
  page # "hire" /\ running =>
    /\ Len(panel.steps) = stream.read
    /\ \A i \in 1 .. stream.read : panel.steps[i][2] = history[run][i]

Found(i) == panel.steps[i][2] = "static_fail"
Blocked(i) == panel.steps[i][2] \in {"fail", "abstain"}

PanelOfRun ==
  page # "hire" =>
    /\ \A i \in 1 .. Len(panel.steps) : panel.steps[i][1] = run
    /\ panel.sawStaticFail <=> \E i \in 1 .. Len(panel.steps) : Found(i)
    /\ panel.floor <=> \E i, j \in 1 .. Len(panel.steps) : i < j /\ Found(i) /\ Blocked(j)

PageInv ==
  /\ PageTypes /\ RefTypes /\ RestTypes /\ StreamReads /\ OneStream /\ StepsFollowStream
  /\ PanelOfRun
------------------------------------------------------------------------------
LEMMA PageTypesLemma ==
  ASSUME PageInv
  PROVE  /\ page \in Pages /\ run \in 0 .. MaxRuns /\ panel \in Panels
         /\ panel.steps \in Seq(Runs \X Events) /\ Len(panel.steps) \in Nat
         /\ running \in BOOLEAN /\ stream \in Streams /\ stream.read \in Nat
         /\ watchdog \in BOOLEAN /\ faults \in 0 .. MaxFaults /\ flow \in [Runs -> Flows]
         /\ history \in [Runs -> Seq(Events)] /\ \A r \in Runs : Len(history[r]) \in Nat
         /\ story \in [Runs -> Seq(Events) \cup {NoStory}]
  BY DEF PageInv, PageTypes, RefTypes, RestTypes, Panels, Streams

(* What a step does to the refs of the page when it begins no run.         *)
RefsStep ==
  \/ UNCHANGED running /\ UNCHANGED stream
  \/ UNCHANGED running /\ stream.at # "closed" /\ stream' = [stream EXCEPT !.at = "open"]
  \/ running' = FALSE /\ stream' = NoStream
  \/ page = "hire" /\ UNCHANGED running /\ \E r \in Runs : Open(r)

HistoryGrows ==
  \A r \in Runs : /\ Len(history[r]) <= Len(history'[r])
                  /\ \A i \in 1 .. Len(history[r]) : history'[r][i] = history[r][i]

LEMMA NoStreamLemma == NoStream \in Streams /\ NoStream.at = "closed"
  BY PageAssumption DEF NoStream, Streams

LEMMA OpenLemma ==
  ASSUME NEW r \in Runs, Open(r)
  PROVE  /\ stream' \in Streams /\ stream'.of = r /\ stream'.at = "connecting"
         /\ stream'.read = 0
  BY PageAssumption DEF Open, Streams, Runs

LEMMA RefsStepLemma ==
  ASSUME PageInv, RefsStep
  PROVE  /\ RefTypes'
         /\ stream'.at # "closed" =>
              \/ stream.at # "closed" /\ stream'.of = stream.of /\ stream'.read = stream.read
              \/ page = "hire" /\ stream'.of \in Runs /\ stream'.read = 0
         /\ page # "hire" =>
              \/ running' = FALSE /\ stream'.at = "closed"
              \/ running' = running /\ stream'.of = stream.of /\ stream'.read = stream.read
                 /\ (stream'.at = "closed" <=> stream.at = "closed")
  <1>1. CASE UNCHANGED running /\ UNCHANGED stream
    BY <1>1, PageTypesLemma DEF RefTypes
  <1>2. CASE UNCHANGED running /\ stream.at # "closed" /\ stream' = [stream EXCEPT !.at = "open"]
    BY <1>2, PageTypesLemma DEF RefTypes, Streams
  <1>3. CASE running' = FALSE /\ stream' = NoStream
    BY <1>3, NoStreamLemma DEF RefTypes
  <1>4. CASE page = "hire" /\ UNCHANGED running /\ \E r \in Runs : Open(r)
    BY <1>4, OpenLemma, PageTypesLemma DEF RefTypes
  <1> QED  BY <1>1, <1>2, <1>3, <1>4 DEF RefsStep

(* A step that begins no run and shows nothing.                            *)
LEMMA NothingShownLemma ==
  ASSUME PageInv, RefsStep, UNCHANGED <<page, run, panel>>, RestTypes', HistoryGrows,
         page # "hire" => \A r \in Runs : flow'[r] \notin HireFlows
  PROVE  PageInv'
  <1>1. PageTypes' /\ RefTypes'  BY PageTypesLemma, RefsStepLemma DEF PageTypes
  <1>2. \A r \in Runs : Len(history[r]) \in Nat /\ Len(history'[r]) \in Nat
                        /\ Len(history[r]) <= Len(history'[r])
    BY PageTypesLemma DEF HistoryGrows, RestTypes
  <1>3. StreamReads'
    <2> DEFINE s == stream'.of
    <2>1. CASE stream.at # "closed" /\ s = stream.of /\ stream'.read = stream.read
      <3>1. s \in Runs /\ stream.read <= Len(history[s])  BY <2>1 DEF PageInv, StreamReads
      <3>2. stream.read <= Len(history'[s])
        <4> DEFINE n == Len(history[s])
                   m == Len(history'[s])
        <4>1. n \in Nat /\ m \in Nat /\ n <= m /\ stream.read <= n /\ stream.read \in Nat
          BY <1>2, <3>1, PageTypesLemma
        <4> HIDE DEF n, m
        <4>2. stream.read <= m  BY <4>1
        <4> QED  BY <4>2 DEF m
      <3> QED  BY <2>1, <3>1, <3>2 DEF StreamReads
    <2>2. CASE page = "hire" /\ s \in Runs /\ stream'.read = 0
      BY <1>2, <2>2 DEF StreamReads
    <2>3. CASE stream'.at = "closed"  BY <2>3 DEF StreamReads
    <2> QED  BY <2>1, <2>2, <2>3, RefsStepLemma
  <1>4. OneStream'
    <2> SUFFICES ASSUME page # "hire"
                 PROVE  (running' <=> stream'.at # "closed") /\ (running' => stream'.of = run)
      BY DEF OneStream
    <2>1. (running <=> stream.at # "closed") /\ (running => stream.of = run)
      BY DEF PageInv, OneStream
    <2>2. CASE running' = FALSE /\ stream'.at = "closed"  BY <2>2
    <2>3. CASE running' = running /\ stream'.of = stream.of
               /\ (stream'.at = "closed" <=> stream.at = "closed")
      BY <2>1, <2>3
    <2> QED  BY <2>2, <2>3, RefsStepLemma
  <1>5. StepsFollowStream'
    <2> SUFFICES ASSUME page # "hire", running'
                 PROVE  /\ Len(panel.steps) = stream'.read
                        /\ \A i \in 1 .. stream'.read : panel.steps[i][2] = history'[run][i]
      BY DEF StepsFollowStream
    <2>1. running /\ stream'.read = stream.read  BY RefsStepLemma
    <2>2. stream.of = run /\ run \in Runs /\ stream.read <= Len(history[run])
      BY <2>1 DEF PageInv, OneStream, StreamReads
    <2>3. \A i \in 1 .. stream.read : i \in 1 .. Len(history[run])
      BY <1>2, <2>2, PageTypesLemma
    <2> QED  BY <2>1, <2>2, <2>3 DEF PageInv, StepsFollowStream, HistoryGrows
  <1>6. PanelOfRun'  BY DEF PageInv, PanelOfRun, Found, Blocked
  <1> QED  BY <1>1, <1>3, <1>4, <1>5, <1>6 DEF PageInv

(* A step that begins a run.                                               *)
LEMMA BegunLemma ==
  ASSUME PageInv, NEW r \in Runs, BeginRun(r), RefTypes', RestTypes',
         page # "hire" => \A s \in Runs : flow'[s] \notin HireFlows,
         \/ running' = TRUE /\ Open(r)
         \/ running' = FALSE /\ stream' = NoStream
         \/ page = "hire" /\ UNCHANGED stream
  PROVE  PageInv'
  <1>1. /\ run' = r /\ page' = page /\ history' = history /\ panel' = NoPanel
    BY DEF BeginRun, Blank
  <1>2. NoPanel.steps = <<>> /\ NoPanel.floor = FALSE /\ NoPanel.sawStaticFail = FALSE
        /\ NoPanel \in Panels
    BY PageAssumption DEF NoPanel, Panels
  <1>3. r \in 0 .. MaxRuns  BY PageAssumption DEF Runs
  <1>4. PageTypes'  BY <1>1, <1>2, <1>3, PageTypesLemma DEF PageTypes
  <1>5. StreamReads'
    BY <1>1, OpenLemma, NoStreamLemma, PageTypesLemma DEF PageInv, StreamReads
  <1>6. OneStream'  BY <1>1, OpenLemma, NoStreamLemma DEF OneStream
  <1>7. StepsFollowStream'
    BY <1>1, <1>2, OpenLemma DEF StepsFollowStream
  <1>8. PanelOfRun'
    <2>1. 1 .. Len(NoPanel.steps) = {}  BY <1>2
    <2> QED  BY <1>1, <1>2, <2>1 DEF PanelOfRun
  <1> QED  BY <1>4, <1>5, <1>6, <1>7, <1>8 DEF PageInv

LEMMA ContinueLemma ==
  ASSUME PageInv, NEW r \in Runs, NEW at \in Flows, Continue(r, at)
  PROVE  /\ flow' \in [Runs -> Flows]
         /\ page # "hire" /\ at \notin HireFlows => \A s \in Runs : flow'[s] \notin HireFlows
  BY PageTypesLemma DEF Continue, PageInv, OneStream
------------------------------------------------------------------------------
LEMMA GrowsLemma ==
  ASSUME PageInv, UNCHANGED history
  PROVE  HistoryGrows
  BY PageTypesLemma DEF HistoryGrows

LEMMA CourtroomLemma ==
  ASSUME PageInv, NEW r \in Runs, CourtroomRun(r) \/ Watch(r)
  PROVE  PageInv'
  <1>1. PICK at \in {"connect", "watch"} : Continue(r, at) /\ BeginRun(r) /\ OpenStream(r)
    BY DEF CourtroomRun, Watch
  <1>2. at \in Flows /\ at \notin HireFlows  BY DEF Flows, HireFlows, Awaiting
  <1>3. RestTypes'
    BY <1>1, <1>2, ContinueLemma, PageTypesLemma DEF RestTypes, BeginRun, OpenStream
  <1>4. RefTypes'  BY <1>1, OpenLemma DEF RefTypes, OpenStream
  <1> QED  BY <1>1, <1>2, <1>3, <1>4, ContinueLemma, BegunLemma DEF OpenStream

LEMMA TryRunLemma ==
  ASSUME PageInv, NEW r \in Runs, TryRun(r)
  PROVE  PageInv'
  <1>1. PICK at \in {"connect", "refused"} : Continue(r, at) /\ BeginRun(r) /\ (OpenStream(r) \/ Stop)
    BY DEF TryRun
  <1>2. at \in Flows /\ at \notin HireFlows  BY DEF Flows, HireFlows, Awaiting
  <1>3. RestTypes'
    BY <1>1, <1>2, ContinueLemma, PageTypesLemma DEF RestTypes, BeginRun, OpenStream, Stop
  <1>4. RefTypes'  BY <1>1, OpenLemma, NoStreamLemma DEF RefTypes, OpenStream, Stop
  <1> QED  BY <1>1, <1>2, <1>3, <1>4, ContinueLemma, BegunLemma DEF OpenStream, Stop

LEMMA HireLemma ==
  ASSUME PageInv, NEW r \in Runs, Hire(r)
  PROVE  PageInv'
  <1>1. page = "hire" /\ BeginRun(r) /\ running' = TRUE /\ Continue(r, "register")
        /\ UNCHANGED <<stream, watchdog>>
    BY DEF Hire
  <1>2. "register" \in Flows  BY DEF Flows, Awaiting
  <1>3. RestTypes'
    BY <1>1, <1>2, ContinueLemma, PageTypesLemma DEF RestTypes, BeginRun
  <1>4. RefTypes'  BY <1>1, PageTypesLemma DEF RefTypes
  <1> QED  BY <1>1, <1>3, <1>4, BegunLemma

(* The worker takes up a story, or publishes the next event of one.        *)
LEMMA StoryLemma ==
  ASSUME PageInv, NEW r \in Runs, AgentRun(r) \/ Serve(r)
  PROVE  PageInv'
  <1>1. /\ UNCHANGED <<page, run, running, stream, watchdog, flow, panel, history, faults>>
        /\ \E s \in Stories : story' = [story EXCEPT ![r] = s]
    BY DEF AgentRun, Serve
  <1>2. story' \in [Runs -> Seq(Events) \cup {NoStory}]
    BY <1>1, PageTypesLemma, PageAssumption
  <1>3. RestTypes' /\ RefsStep  BY <1>1, <1>2, PageTypesLemma DEF RestTypes, RefsStep
  <1> QED  BY <1>1, <1>3, GrowsLemma, NothingShownLemma DEF PageInv, OneStream

LEMMA PublishLemma ==
  ASSUME PageInv, NEW r \in Runs, Publish(r)
  PROVE  PageInv'
  <1>1. /\ UNCHANGED <<page, run, running, stream, watchdog, flow, panel, faults>>
        /\ story[r] \notin {NoStory, <<>>}
        /\ history' = [history EXCEPT ![r] = Append(history[r], Head(story[r]))]
        /\ story' = [story EXCEPT ![r] = Tail(story[r])]
    BY DEF Publish
  <1>2. story[r] \in Seq(Events) /\ history[r] \in Seq(Events)  BY <1>1, PageTypesLemma
  <1>3. Head(story[r]) \in Events /\ Tail(story[r]) \in Seq(Events)  BY <1>1, <1>2
  <1> DEFINE h == Append(history[r], Head(story[r]))
  <1>4. h \in Seq(Events) /\ Len(h) = Len(history[r]) + 1
        /\ \A i \in 1 .. Len(history[r]) : h[i] = history[r][i]
    BY <1>2, <1>3
  <1> HIDE DEF h
  <1>5. \A s \in Runs : history'[s] = IF s = r THEN h ELSE history[s]
    BY <1>1, PageTypesLemma DEF h
  <1>6. RestTypes'
    <2>1. history' \in [Runs -> Seq(Events)]  BY <1>1, <1>4, PageTypesLemma DEF h
    <2>2. story' \in [Runs -> Seq(Events) \cup {NoStory}]  BY <1>1, <1>3, PageTypesLemma
    <2> QED  BY <1>1, <2>1, <2>2, PageTypesLemma DEF RestTypes
  <1>7. HistoryGrows
    <2> SUFFICES ASSUME NEW s \in Runs
                 PROVE  /\ Len(history[s]) <= Len(history'[s])
                        /\ \A i \in 1 .. Len(history[s]) : history'[s][i] = history[s][i]
      BY DEF HistoryGrows
    <2>1. CASE s = r  BY <1>2, <1>4, <1>5, <2>1, PageTypesLemma
    <2>2. CASE s # r  BY <1>5, <2>2, PageTypesLemma
    <2> QED  BY <2>1, <2>2
  <1>8. RefsStep  BY <1>1 DEF RefsStep
  <1> QED  BY <1>1, <1>6, <1>7, <1>8, NothingShownLemma DEF PageInv, OneStream

LEMMA ConnectedLemma ==
  ASSUME PageInv, Connected
  PROVE  PageInv'
  <1> DEFINE r == stream.of
             at == CASE flow[r] = "connect" -> "post" [] flow[r] = "watch" -> "done"
                     [] OTHER -> flow[r]
  <1>1. /\ UNCHANGED <<page, run, running, watchdog, panel, history, story, faults>>
        /\ stream.at # "closed" /\ stream' = [stream EXCEPT !.at = "open"]
        /\ Continue(r, at)
    BY DEF Connected, Subscribe, Continue
  <1>2. r \in Runs  BY <1>1 DEF PageInv, StreamReads
  <1>3. flow[r] \in Flows /\ (page # "hire" => flow[r] \notin HireFlows)
    BY <1>2, PageTypesLemma DEF PageInv, OneStream
  <1>4. at \in Flows /\ (page # "hire" => at \notin HireFlows)
    BY <1>3 DEF Flows, HireFlows, Awaiting
  <1> HIDE DEF at, r
  <1>5. RestTypes'  BY <1>1, <1>2, <1>4, ContinueLemma, PageTypesLemma DEF RestTypes
  <1>6. RefsStep  BY <1>1 DEF RefsStep
  <1>7. page # "hire" => \A s \in Runs : flow'[s] \notin HireFlows
    BY <1>1, <1>2, <1>4, ContinueLemma
  <1> QED  BY <1>1, <1>5, <1>6, <1>7, GrowsLemma, NothingShownLemma

LEMMA PostAnsweredLemma ==
  ASSUME PageInv, NEW r \in Runs, PostAnswered(r)
  PROVE  PageInv'
  <1>1. PICK answer \in ProxyAnswers(r) :
          /\ Continue(r, answer)
          /\ IF answer = "done" THEN UNCHANGED <<running, stream, watchdog>> ELSE Stop
    BY DEF PostAnswered
  <1>2. UNCHANGED <<page, run, panel, history, story, faults>>  BY DEF PostAnswered
  <1>3. answer \in Flows /\ answer \notin HireFlows
    BY DEF ProxyAnswers, Flows, HireFlows, Awaiting
  <1>4. RestTypes'  BY <1>1, <1>2, <1>3, ContinueLemma, PageTypesLemma DEF RestTypes, Stop
  <1>5. RefsStep  BY <1>1 DEF RefsStep, Stop
  <1> QED  BY <1>1, <1>2, <1>3, <1>4, <1>5, ContinueLemma, GrowsLemma, NothingShownLemma

LEMMA HireStepLemma ==
  ASSUME PageInv, NEW r \in Runs, HireGoesOn(r) \/ HireFails(r)
  PROVE  PageInv'
  <1>1. page = "hire" /\ UNCHANGED <<page, run, panel, history, story, faults>>
    BY DEF HireGoesOn, HireFails, PageInv, OneStream, HireFlows
  <1>2. PICK at \in {"sign", "fund", "dispatch", "done", "unanswered", "failed"} : Continue(r, at)
    BY DEF HireGoesOn, HireFails
  <1>3. at \in Flows  BY DEF Flows, Awaiting
  <1>4. watchdog' \in BOOLEAN
    BY PageTypesLemma DEF HireGoesOn, HireFails, ArmWatchdog, Stop
  <1>5. RestTypes'  BY <1>1, <1>2, <1>3, <1>4, ContinueLemma, PageTypesLemma DEF RestTypes
  <1>6. RefsStep  BY <1>1 DEF RefsStep, HireGoesOn, HireFails, Stop
  <1> QED  BY <1>1, <1>5, <1>6, GrowsLemma, NothingShownLemma

(* The stream breaks, or the page gives up.                                *)
LEMMA DropLemma ==
  ASSUME PageInv, StreamError \/ Watchdog
  PROVE  PageInv'
  <1>1. UNCHANGED <<page, run, flow, panel, history, story>>  BY DEF StreamError, Watchdog
  <1>2. watchdog' \in BOOLEAN  BY PageTypesLemma DEF StreamError, Watchdog, Drop, Stop
  <1>3. faults' \in 0 .. MaxFaults  BY PageTypesLemma, PageAssumption DEF StreamError, Watchdog
  <1>4. RefsStep
    <2>1. stream.at # "closed" => stream.of \in Runs  BY DEF PageInv, StreamReads
    <2> QED  BY <2>1 DEF RefsStep, StreamError, Watchdog, Drop, Stop
  <1>5. RestTypes'  BY <1>1, <1>2, <1>3, PageTypesLemma DEF RestTypes
  <1> QED  BY <1>1, <1>4, <1>5, GrowsLemma, NothingShownLemma DEF PageInv, OneStream

LEMMA RestartLemma ==
  ASSUME PageInv, Restart
  PROVE  PageInv'
  <1>1. /\ UNCHANGED <<page, run, flow, panel>> /\ faults' = faults + 1 /\ faults < MaxFaults
        /\ history' = [r \in Runs |-> <<>>]
        /\ story' = [r \in Runs |-> IF page = "hire" \/ story[r] = NoStory THEN story[r] ELSE <<>>]
    BY DEF Restart
  <1>2. \/ stream.at = "closed" /\ UNCHANGED <<running, watchdog, stream>>
        \/ Stop
        \/ page = "hire" /\ stream.of \in Runs /\ Open(stream.of) /\ UNCHANGED <<running, watchdog>>
    BY DEF Restart, Drop, PageInv, StreamReads
  <1>3. RestTypes'
    <2>1. faults' \in 0 .. MaxFaults  BY <1>1, PageTypesLemma, PageAssumption
    <2>2. <<>> \in Seq(Events)  OBVIOUS
    <2>3. history' \in [Runs -> Seq(Events)]  BY <1>1, <2>2
    <2>4. story' \in [Runs -> Seq(Events) \cup {NoStory}]  BY <1>1, <2>2, PageTypesLemma
    <2>5. watchdog' \in BOOLEAN  BY <1>2, PageTypesLemma DEF Stop
    <2> QED  BY <1>1, <2>1, <2>3, <2>4, <2>5, PageTypesLemma DEF RestTypes
  <1>4. RefsStep  BY <1>2 DEF RefsStep, Stop
  <1>5. PageTypes' /\ RefTypes'  BY <1>1, <1>4, PageTypesLemma, RefsStepLemma DEF PageTypes
  <1>6. \/ stream'.at = "closed"
        \/ page = "hire" /\ stream'.of \in Runs /\ stream'.read = 0
    BY <1>2, OpenLemma, NoStreamLemma DEF Stop
  <1>7. \A r \in Runs : Len(history'[r]) = 0  BY <1>1
  <1>8. StreamReads'  BY <1>6, <1>7 DEF StreamReads
  <1>9. page # "hire" => running' = FALSE
    <2>1. CASE Stop  BY <2>1 DEF Stop
    <2>2. CASE stream.at = "closed" /\ UNCHANGED running
      BY <2>2, PageTypesLemma DEF PageInv, OneStream
    <2> QED  BY <1>2, <2>1, <2>2
  <1>10. OneStream' /\ StepsFollowStream'
    BY <1>1, <1>6, <1>9 DEF PageInv, OneStream, StepsFollowStream
  <1>11. PanelOfRun'  BY <1>1 DEF PageInv, PanelOfRun, Found, Blocked
  <1> QED  BY <1>3, <1>5, <1>8, <1>10, <1>11 DEF PageInv
(* What the page makes of one event.                                       *)
LEMMA ShownLemma ==
  ASSUME PageInv, NEW r \in Runs, NEW e \in Events
  PROVE  /\ Shown(r, e) \in Panels /\ Shown(r, e).steps = panel.steps
         /\ Shown(r, e).sawStaticFail <=> (panel.sawStaticFail \/ e = "static_fail")
         /\ Shown(r, e).floor <=>
              (panel.floor \/ (panel.sawStaticFail /\ e \in {"fail", "abstain"}))
  <1>1. panel \in Panels /\ r \in 0 .. MaxRuns  BY PageTypesLemma, PageAssumption DEF Runs
  <1>2. panel.floor \in BOOLEAN /\ panel.sawStaticFail \in BOOLEAN  BY <1>1 DEF Panels
  <1>3. CASE e = "static_fail"
    <2>1. Shown(r, e) = [panel EXCEPT !.sawStaticFail = TRUE]  BY <1>3 DEF Shown, Verdicts
    <2> QED  BY <1>1, <1>3, <2>1 DEF Panels
  <1>4. CASE e \in Verdicts
    <2> DEFINE f == panel.floor \/ (panel.sawStaticFail /\ e # "pass")
    <2>1. e # "static_fail"  BY <1>4 DEF Verdicts
    <2>2. Shown(r, e) = [panel EXCEPT !.verdict = e, !.floor = f]  BY <1>4, <2>1 DEF Shown, Verdicts
    <2>3. f \in BOOLEAN  OBVIOUS
    <2>4. f <=> (panel.floor \/ (panel.sawStaticFail /\ e \in {"fail", "abstain"}))
      BY <1>4 DEF Verdicts
    <2> HIDE DEF f
    <2>5. Shown(r, e) \in Panels /\ Shown(r, e).steps = panel.steps
          /\ Shown(r, e).sawStaticFail = panel.sawStaticFail /\ Shown(r, e).floor = f
      BY <1>1, <1>4, <2>2, <2>3 DEF Panels
    <2> QED  BY <2>1, <2>4, <2>5
  <1>5. CASE e = "settled"
    <2>1. Shown(r, e) = [panel EXCEPT !.outcome = r]  BY <1>5 DEF Shown, Verdicts
    <2> QED  BY <1>1, <1>5, <2>1 DEF Panels
  <1>6. CASE e \notin Verdicts \cup {"static_fail", "settled"}
    <2>1. Shown(r, e) = panel  BY <1>6 DEF Shown
    <2>2. e \notin {"static_fail", "fail", "abstain"}  BY <1>6 DEF Verdicts
    <2> QED  BY <1>1, <2>1, <2>2
  <1> QED  BY <1>3, <1>4, <1>5, <1>6

LEMMA HireShownLemma ==
  ASSUME PageInv, NEW r \in Runs, NEW e \in Events
  PROVE  HireShown(r, e) \in Panels /\ HireShown(r, e).steps = panel.steps
  <1>1. panel \in Panels /\ r \in 0 .. MaxRuns  BY PageTypesLemma, PageAssumption DEF Runs
  <1>2. CASE e \in Verdicts
    <2>1. HireShown(r, e) = [panel EXCEPT !.verdict = e]  BY <1>2 DEF HireShown, Verdicts
    <2> QED  BY <1>1, <1>2, <2>1 DEF Panels
  <1>3. CASE e = "settled"
    <2>1. HireShown(r, e) = [panel EXCEPT !.outcome = r]  BY <1>3 DEF HireShown, Verdicts
    <2> QED  BY <1>1, <2>1 DEF Panels
  <1>4. CASE e \notin Verdicts \cup {"settled"}
    <2>1. HireShown(r, e) = panel  BY <1>4 DEF HireShown
    <2> QED  BY <1>1, <2>1
  <1> QED  BY <1>2, <1>3, <1>4

LEMMA MessageLemma ==
  ASSUME PageInv, Message
  PROVE  PageInv'
  <1> DEFINE r == stream.of
             n == stream.read
             e == history[r][n + 1]
             told == IF page = "hire" THEN HireShown(r, e) ELSE Shown(r, e)
             steps == Append(panel.steps, <<r, e>>)
             ended == e \in {"settled", "error"}
  <1>1. /\ stream.at = "open" /\ r \in Runs /\ n \in Nat /\ Len(history[r]) \in Nat
        /\ n < Len(history[r])
    BY PageTypesLemma DEF Message, PageInv, StreamReads
  <1>2. e \in Events
    <2>1. n + 1 \in 1 .. Len(history[r]) /\ history[r] \in Seq(Events)  BY <1>1, PageTypesLemma
    <2> QED  BY <2>1
  <1>3. told \in Panels /\ told.steps = panel.steps  BY <1>1, <1>2, ShownLemma, HireShownLemma
  <1>4. panel' = [told EXCEPT !.steps = steps]  BY <1>3 DEF Message
  <1>5. UNCHANGED <<page, run, flow, history, story, faults>>  BY DEF Message
  <1>6. IF ended THEN Stop
        ELSE stream' = [stream EXCEPT !.read = n + 1] /\ UNCHANGED <<running, watchdog>>
    BY DEF Message
  <1>7. page # "hire" =>
          /\ told.sawStaticFail <=> (panel.sawStaticFail \/ e = "static_fail")
          /\ told.floor <=> (panel.floor \/ (panel.sawStaticFail /\ e \in {"fail", "abstain"}))
    BY <1>1, <1>2, ShownLemma
  <1> DEFINE m == Len(panel.steps)
  <1>8. <<r, e>> \in Runs \X Events /\ panel.steps \in Seq(Runs \X Events) /\ m \in Nat
    BY <1>1, <1>2, PageTypesLemma
  <1>9. /\ steps \in Seq(Runs \X Events) /\ Len(steps) = m + 1 /\ steps[m + 1] = <<r, e>>
        /\ \A i \in 1 .. m : steps[i] = panel.steps[i]
    BY <1>8
  <1> HIDE DEF told, steps
  <1>10. /\ panel' \in Panels /\ panel'.steps = steps
         /\ panel'.sawStaticFail = told.sawStaticFail /\ panel'.floor = told.floor
    BY <1>3, <1>4, <1>9 DEF Panels
  <1>11. stream' \in Streams /\ running' \in BOOLEAN /\ watchdog' \in BOOLEAN
    <2>1. CASE ended  BY <1>6, <2>1, NoStreamLemma DEF Stop
    <2>2. CASE ~ended  BY <1>1, <1>6, <2>2, PageTypesLemma DEF Streams
    <2> QED  BY <2>1, <2>2
  <1>12. PageTypes' /\ RefTypes' /\ RestTypes'
    BY <1>5, <1>10, <1>11, PageTypesLemma DEF PageTypes, RefTypes, RestTypes
  <1>13. /\ ended => running' = FALSE /\ stream'.at = "closed"
         /\ ~ended => /\ running' = running /\ stream'.of = r /\ stream'.read = n + 1
                      /\ stream'.at = "open"
    BY <1>1, <1>6, NoStreamLemma, PageTypesLemma DEF Stop, Streams
  <1>14. StreamReads'  BY <1>1, <1>5, <1>13 DEF StreamReads
  <1>15. page # "hire" => running /\ r = run  BY <1>1 DEF PageInv, OneStream
  <1>16. OneStream'
    <2> HIDE DEF ended, e
    <2>1. CASE ended  BY <1>5, <1>13, <2>1 DEF PageInv, OneStream
    <2>2. CASE ~ended  BY <1>5, <1>13, <1>15, <2>2 DEF PageInv, OneStream
    <2> QED  BY <2>1, <2>2
  <1>17. \A i \in 1 .. m + 1 : i \in 1 .. m \/ i = m + 1  BY <1>8
  <1>18. m + 1 \in 1 .. m + 1 /\ \A i \in 1 .. m : i \in 1 .. m + 1 /\ i < m + 1  BY <1>8
  <1>19. page # "hire" => m = n /\ \A i \in 1 .. n : panel.steps[i][2] = history[run][i]
    BY <1>15 DEF PageInv, StepsFollowStream
  <1>20. StepsFollowStream'
    <2> SUFFICES ASSUME page # "hire", ~ended
                 PROVE  /\ Len(steps) = n + 1
                        /\ \A i \in 1 .. n + 1 : steps[i][2] = history[run][i]
      BY <1>5, <1>10, <1>13 DEF StepsFollowStream
    <2>1. steps[n + 1][2] = e /\ e = history[run][n + 1] /\ Len(steps) = n + 1
      BY <1>9, <1>15, <1>19
    <2>2. \A i \in 1 .. n : steps[i][2] = history[run][i]  BY <1>9, <1>15, <1>19
    <2> HIDE DEF e, n
    <2> QED  BY <1>15, <1>17, <1>19, <2>1, <2>2
  <1>21. PanelOfRun'
    <2> SUFFICES ASSUME page # "hire" PROVE PanelOfRun'  BY <1>5 DEF PanelOfRun
    <2> DEFINE F(i) == steps[i][2] = "static_fail"
               B(i) == steps[i][2] \in {"fail", "abstain"}
    <2>1. /\ \A i \in 1 .. m : panel.steps[i][1] = run
          /\ panel.sawStaticFail <=> \E i \in 1 .. m : Found(i)
          /\ panel.floor <=> \E i, j \in 1 .. m : i < j /\ Found(i) /\ Blocked(j)
      BY DEF PageInv, PanelOfRun
    <2>2. \A i \in 1 .. m : (F(i) <=> Found(i)) /\ (B(i) <=> Blocked(i))
      BY <1>9 DEF Found, Blocked
    <2>3. (F(m + 1) <=> e = "static_fail") /\ (B(m + 1) <=> e \in {"fail", "abstain"})
      BY <1>9
    <2>4. \A i \in 1 .. m + 1 : steps[i][1] = run  BY <1>9, <1>15, <1>17, <2>1
    <2> HIDE DEF e, m, F, B
    <2>5. (\E i \in 1 .. m + 1 : F(i)) <=> (\E i \in 1 .. m : Found(i)) \/ e = "static_fail"
      BY <1>17, <1>18, <2>2, <2>3
    <2>6. (\E i, j \in 1 .. m + 1 : i < j /\ F(i) /\ B(j))
            <=> \/ \E i, j \in 1 .. m : i < j /\ Found(i) /\ Blocked(j)
                \/ (\E i \in 1 .. m : Found(i)) /\ e \in {"fail", "abstain"}
      <3>1. ASSUME NEW i \in 1 .. m + 1, NEW j \in 1 .. m + 1, i < j
            PROVE  i \in 1 .. m
        BY <1>8, <3>1
      <3> QED  BY <1>17, <1>18, <2>2, <2>3, <3>1
    <2>7. panel'.sawStaticFail <=> \E i \in 1 .. m + 1 : F(i)  BY <1>7, <1>10, <2>1, <2>5
    <2>8. panel'.floor <=> \E i, j \in 1 .. m + 1 : i < j /\ F(i) /\ B(j)
      BY <1>7, <1>10, <2>1, <2>6
    <2> QED  BY <1>5, <1>9, <1>10, <2>4, <2>7, <2>8 DEF PanelOfRun, Found, Blocked, F, B
  <1> QED  BY <1>12, <1>14, <1>16, <1>20, <1>21 DEF PageInv
------------------------------------------------------------------------------
LEMMA PageInitLemma ==
  ASSUME PageInit
  PROVE  PageInv
  <1>1. NoPanel \in Panels /\ NoPanel.steps = <<>> /\ NoPanel.floor = FALSE
        /\ NoPanel.sawStaticFail = FALSE
    BY PageAssumption DEF NoPanel, Panels
  <1>2. PageTypes  BY <1>1, PageAssumption DEF PageTypes, PageInit
  <1>3. RefTypes  BY NoStreamLemma DEF RefTypes, PageInit
  <1>4. RestTypes
    <2>1. <<>> \in Seq(Events) /\ "none" \in Flows  BY DEF Flows
    <2>2. history \in [Runs -> Seq(Events)]  BY <2>1 DEF PageInit
    <2>3. flow \in [Runs -> Flows]  BY <2>1 DEF PageInit
    <2>4. story \in [Runs -> Seq(Events) \cup {NoStory}]
      <3> DEFINE S == Seq(Events) \cup {NoStory}
      <3>1. NoStory \in S  OBVIOUS
      <3> HIDE DEF S
      <3>2. [r \in Runs |-> NoStory] \in [Runs -> S]  BY <3>1
      <3> QED  BY <3>2 DEF S, PageInit
    <2>5. watchdog = FALSE /\ faults = 0 /\ 0 \in 0 .. MaxFaults  BY PageAssumption DEF PageInit
    <2> QED  BY <2>2, <2>3, <2>4, <2>5 DEF RestTypes
  <1>5. StreamReads /\ OneStream /\ StepsFollowStream
    BY NoStreamLemma DEF StreamReads, OneStream, StepsFollowStream, PageInit, HireFlows
  <1>6. PanelOfRun
    <2>1. 1 .. Len(panel.steps) = {}  BY <1>1 DEF PageInit
    <2> QED  BY <1>1, <2>1 DEF PanelOfRun, PageInit
  <1> QED  BY <1>2, <1>3, <1>4, <1>5, <1>6 DEF PageInv

THEOREM PageInvariance == PageSpec => []PageInv
  <1>1. PageInit => PageInv  BY PageInitLemma
  <1>2. PageInv /\ [PageNext]_pageVars => PageInv'
    <2> SUFFICES ASSUME PageInv, [PageNext]_pageVars PROVE PageInv'  OBVIOUS
    <2>1. ASSUME NEW r \in Runs,
                 \/ CourtroomRun(r) \/ Watch(r) \/ TryRun(r) \/ Hire(r) \/ AgentRun(r)
                 \/ Serve(r) \/ Publish(r) \/ PostAnswered(r) \/ HireGoesOn(r) \/ HireFails(r)
          PROVE  PageInv'
      BY <2>1, CourtroomLemma, TryRunLemma, HireLemma, StoryLemma, PublishLemma,
         PostAnsweredLemma, HireStepLemma
    <2>2. CASE Connected  BY <2>2, ConnectedLemma
    <2>3. CASE Message  BY <2>3, MessageLemma
    <2>4. CASE StreamError \/ Watchdog  BY <2>4, DropLemma
    <2>5. CASE Restart  BY <2>5, RestartLemma
    <2>6. CASE UNCHANGED pageVars
      <3>1. UNCHANGED <<page, run, running, stream, watchdog, flow, panel, history, story, faults>>
        BY <2>6 DEF pageVars
      <3>2. RefsStep /\ RestTypes'  BY <3>1, PageTypesLemma DEF RefsStep, RestTypes
      <3> QED  BY <3>1, <3>2, GrowsLemma, NothingShownLemma DEF PageInv, OneStream
    <2> QED  BY <2>1, <2>2, <2>3, <2>4, <2>5, <2>6 DEF PageNext
  <1> QED  BY <1>1, <1>2, PTL DEF PageSpec
------------------------------------------------------------------------------
THEOREM PagesTyped == PageSpec => []PageTypeOK
  <1>1. PageInv => PageTypeOK
    <2> SUFFICES ASSUME PageInv PROVE PageTypeOK  OBVIOUS
    <2>1. {running, watchdog, panel.floor, panel.sawStaticFail} \subseteq BOOLEAN
      BY PageTypesLemma DEF Panels
    <2>2. stream.at # "closed" => stream.of \in Runs /\ stream.read \in 0 .. Len(history[stream.of])
      BY PageTypesLemma DEF PageInv, StreamReads
    <2>3. stream.of \in 0 .. MaxRuns /\ stream.at \in {"closed", "connecting", "open"}
      BY PageTypesLemma DEF Streams
    <2>4. \A i \in DOMAIN panel.steps : panel.steps[i] \in Runs \X Events  BY PageTypesLemma
    <2>5. panel.verdict \in Verdicts \cup {"none"} /\ panel.outcome \in 0 .. MaxRuns
      BY PageTypesLemma DEF Panels
    <2>6. \A r \in Runs : \A s \in {history[r], story[r]} :
            s = NoStory \/ \A i \in DOMAIN s : s[i] \in Events
      <3>1. \A s \in Seq(Events) : \A i \in DOMAIN s : s[i] \in Events  OBVIOUS
      <3> QED  BY <3>1, PageTypesLemma
    <2> QED  BY <2>1, <2>2, <2>3, <2>4, <2>5, <2>6, PageTypesLemma DEF PageTypeOK, Flows
  <1> QED  BY <1>1, PageInvariance, PTL

(* A sequence that agrees with the beginning of another.                   *)
LEMMA PrefixLemma ==
  ASSUME NEW s \in Seq(Runs \X Events), NEW h \in Seq(Events), Len(s) <= Len(h),
         \A i \in 1 .. Len(s) : s[i][2] = h[i]
  PROVE  IsPrefix([i \in DOMAIN s |-> s[i][2]], h)
  <1> DEFINE t == [i \in DOMAIN s |-> s[i][2]]
             n == Len(s)
  <1>1. n \in Nat /\ DOMAIN s = 1 .. n /\ DOMAIN h = 1 .. Len(h) /\ Len(h) \in Nat  OBVIOUS
  <1>2. t \in Seq(Events) /\ Len(t) = n  BY <1>1
  <1>3. SubSeq(t, 1, n) = [i \in 1 .. n |-> t[i]]  BY <1>1, <1>2
  <1>4. SubSeq(h, 1, n) = [i \in 1 .. n |-> h[i]]  BY <1>1, <1>2
  <1>5. SubSeq(t, 1, n) = SubSeq(h, 1, n)  BY <1>1, <1>3, <1>4
  <1> HIDE DEF t
  <1>6. IsPrefix(t, h)  BY <1>1, <1>2, <1>5 DEF IsPrefix
  <1> QED  BY <1>6 DEF t

(* "so a late-connecting dashboard sees the full run" (sse-bus.ts): the    *)
(* courtroom and the rail show, while a run goes on, the worker's events   *)
(* from the first, in order and once each, of the latest run alone, and    *)
(* the floor as blocking exactly when a finding came before the verdict.   *)
THEOREM StoriesAreInOrder == PageSpec => []StoryInOrder
  <1>1. PageInv => StoryInOrder
    <2> SUFFICES ASSUME PageInv, page # "hire"
                 PROVE  /\ \A i \in DOMAIN panel.steps : panel.steps[i][1] = run
                        /\ running => IsPrefix([i \in DOMAIN panel.steps |-> panel.steps[i][2]],
                                               history[run])
                        /\ panel.floor <=>
                             \E i, j \in DOMAIN panel.steps :
                               /\ i < j
                               /\ panel.steps[i][2] = "static_fail"
                               /\ panel.steps[j][2] \in {"fail", "abstain"}
      BY DEF StoryInOrder
    <2>1. DOMAIN panel.steps = 1 .. Len(panel.steps) /\ panel.steps \in Seq(Runs \X Events)
      BY PageTypesLemma
    <2>2. ASSUME running
          PROVE  IsPrefix([i \in DOMAIN panel.steps |-> panel.steps[i][2]], history[run])
      <3>1. run \in Runs /\ stream.read <= Len(history[run])
        BY <2>2 DEF PageInv, OneStream, StreamReads
      <3>2. history[run] \in Seq(Events)  BY <3>1, PageTypesLemma
      <3>3. Len(panel.steps) = stream.read
            /\ \A i \in 1 .. stream.read : panel.steps[i][2] = history[run][i]
        BY <2>2 DEF PageInv, StepsFollowStream
      <3> QED  BY <2>1, <3>1, <3>2, <3>3, PrefixLemma
    <2> QED  BY <2>1, <2>2 DEF PageInv, PanelOfRun, Found, Blocked
  <1> QED  BY <1>1, PageInvariance, PTL
-------------------------------------------------------------------------------
(***************************************************************************)
(* The fee of a verdict.                                                   *)
(*                                                                         *)
(* The properties speak of calls that were captured and counted; they hold *)
(* because a call past the lock still holds it, and because a fee is       *)
(* counted between its capture and the answer and nowhere else.            *)
(***************************************************************************)
CallInv(c) ==
  /\ submission[c].at \in {"judging", "capture", "count"} => judgedBy[WorkOf[c]] = c
  /\ submission[c].at \in {"capture", "count"} => submission[c].rendered
  /\ submission[c].at = "count" => c \in captured
  /\ c \in captured =>
       /\ submission[c].at \in {"count", "done"}
       /\ submission[c].rendered /\ judgedBy[WorkOf[c]] = c
  /\ submission[c].told = "charged" => c \in counted
  /\ c \in captured /\ submission[c].at = "done" /\ troubles = 0 => submission[c].told = "charged"

FeeInv == FeeTypeOK /\ counted \subseteq captured /\ \A c \in Submissions : CallInv(c)

Submission == [at : Steps, auth : BOOLEAN, rendered : BOOLEAN, told : FeeAnswers]

LEMMA FeeTroubleLemma ==
  ASSUME FeeTypeOK, Trouble \/ UNCHANGED troubles
  PROVE  troubles' \in 0 .. MaxTroubles /\ (troubles' = 0 => troubles = 0)
  BY FeeAssumption DEF FeeTypeOK, Trouble

LEMMA WhereLemma ==
  ASSUME FeeTypeOK, NEW c \in Submissions, NEW step \in Steps, NEW what \in FeeAnswers
  PROVE  /\ GoTo(c, step) =>
              /\ submission' \in [Submissions -> Submission]
              /\ submission'[c] = [submission[c] EXCEPT !.at = step]
              /\ \A d \in Submissions : d # c => submission'[d] = submission[d]
         /\ Returns(c, what) =>
              /\ submission' \in [Submissions -> Submission]
              /\ submission'[c] = [submission[c] EXCEPT !.at = "done", !.told = what]
              /\ \A d \in Submissions : d # c => submission'[d] = submission[d]
  <1>1. submission \in [Submissions -> Submission] /\ submission[c] \in Submission
    BY DEF FeeTypeOK, Submission
  <1>2. "done" \in Steps  BY DEF Steps
  <1>3. /\ [submission[c] EXCEPT !.at = step] \in Submission
        /\ [submission[c] EXCEPT !.at = "done", !.told = what] \in Submission
    BY <1>1, <1>2 DEF Submission
  <1> HIDE DEF Submission
  <1>4. GoTo(c, step) => submission' = [submission EXCEPT ![c] = [submission[c] EXCEPT !.at = step]]
    BY <1>1 DEF GoTo
  <1>5. Returns(c, what) =>
          submission' = [submission EXCEPT ![c] = [submission[c] EXCEPT !.at = "done", !.told = what]]
    BY <1>1 DEF Returns
  <1> QED  BY <1>1, <1>3, <1>4, <1>5

(* What a step of one call leaves of the others.                           *)
LEMMA OthersLemma ==
  ASSUME FeeInv, NEW c \in Submissions,
         \A d \in Submissions : d # c =>
            /\ submission'[d] = submission[d]
            /\ d \in captured' <=> d \in captured
            /\ d \in counted => d \in counted',
         \A w \in Works : judgedBy[w] # Nobody => judgedBy'[w] = judgedBy[w],
         Trouble \/ UNCHANGED troubles
  PROVE  \A d \in Submissions : d # c => CallInv(d)'
  <1> SUFFICES ASSUME NEW d \in Submissions, d # c PROVE CallInv(d)'
    OBVIOUS
  <1>1. CallInv(d) /\ submission'[d] = submission[d] /\ d # Nobody /\ WorkOf[d] \in Works
    BY FeeAssumption DEF FeeInv
  <1>2. judgedBy[WorkOf[d]] = d => judgedBy'[WorkOf[d]] = d
    BY <1>1
  <1>3. troubles' = 0 => troubles = 0
    BY FeeTroubleLemma DEF FeeInv
  <1> QED  BY <1>1, <1>2, <1>3 DEF CallInv
LEMMA FeeStepLemma ==
  ASSUME FeeInv, NEW c \in Submissions,
         submission' \in [Submissions -> Submission],
         \A d \in Submissions : d # c =>
            /\ submission'[d] = submission[d]
            /\ d \in captured' <=> d \in captured
            /\ d \in counted' <=> d \in counted,
         counted' \subseteq Submissions, captured' \subseteq Submissions,
         c \in counted' => c \in captured',
         judgedBy' \in [Works -> Submissions \cup {Nobody}],
         \A w \in Works : judgedBy[w] # Nobody => judgedBy'[w] = judgedBy[w],
         purse' \in Nat, inTransit' \in Nat, available' \in Nat, metered' = metered,
         Trouble \/ UNCHANGED troubles,
         CallInv(c)'
  PROVE  FeeInv'
  <1>1. \A d \in Submissions : d # c => CallInv(d)'  BY OthersLemma
  <1>2. counted' \subseteq captured'  BY DEF FeeInv
  <1>3. FeeTypeOK'  BY FeeTroubleLemma DEF FeeInv, FeeTypeOK, Submission
  <1> QED  BY <1>1, <1>2, <1>3 DEF FeeInv

(* Before the lock, and after the answer, a call holds nothing.            *)
LEMMA FeeTypes ==
  ASSUME FeeInv
  PROVE  /\ submission \in [Submissions -> Submission]
         /\ counted \subseteq Submissions /\ captured \subseteq Submissions /\ counted \subseteq captured
         /\ judgedBy \in [Works -> Submissions \cup {Nobody}]
         /\ purse \in Nat /\ inTransit \in Nat /\ available \in Nat
         /\ \A c \in Submissions : CallInv(c)
  BY DEF FeeInv, FeeTypeOK, Submission

LEMMA OnboardingLemma ==
  ASSUME FeeInv, NEW c \in Submissions, EnsureOnboarded(c) \/ CheckWallet(c) \/ RequireVerdictFee(c)
  PROVE  FeeInv'
  <1>1. UNCHANGED <<metered, judgedBy, counted, purse, inTransit, available, captured>>
    BY DEF EnsureOnboarded, CheckWallet, RequireVerdictFee, gateway
  <1>2. submission[c].at \in {"new", "short", "ready"}
    BY DEF EnsureOnboarded, CheckWallet, RequireVerdictFee, At
  <1>3. c \notin captured /\ submission[c].told # "charged"
    <2>1. c \notin captured  BY <1>2, FeeTypes DEF CallInv
    <2> QED  BY <2>1, FeeTypes DEF CallInv
  <1>4. /\ {"short", "ready", "deposit", "claim"} \subseteq Steps
        /\ {"unfunded", "unpaid"} \subseteq FeeAnswers
    BY DEF Steps, FeeAnswers
  <1>5. Trouble \/ UNCHANGED troubles
    BY DEF EnsureOnboarded, CheckWallet, RequireVerdictFee
  <1>6. \/ \E step \in {"short", "ready", "deposit", "claim"} : GoTo(c, step)
        \/ \E what \in {"unfunded", "unpaid"} : Returns(c, what)
        \/ submission' = [submission EXCEPT ![c].at = "claim", ![c].auth = TRUE]
    <2>1. CASE EnsureOnboarded(c)  BY <2>1 DEF EnsureOnboarded
    <2>2. CASE CheckWallet(c)  BY <2>2 DEF CheckWallet
    <2>3. CASE RequireVerdictFee(c)
      <3>1. \/ GoTo(c, "claim") \/ Returns(c, "unpaid")
            \/ submission' = [submission EXCEPT ![c].at = "claim", ![c].auth = TRUE]
        BY <2>3, Zenon DEF RequireVerdictFee
      <3>2. CASE GoTo(c, "claim")  BY <3>2
      <3>3. CASE Returns(c, "unpaid")  BY <3>3
      <3> QED  BY <3>1, <3>2, <3>3
    <2> QED  BY <2>1, <2>2, <2>3
  <1>7. CASE \E step \in {"short", "ready", "deposit", "claim"} : GoTo(c, step)
    <2>1. PICK step \in {"short", "ready", "deposit", "claim"} : GoTo(c, step)  BY <1>7
    <2>2. /\ submission' \in [Submissions -> Submission]
          /\ submission'[c] = [submission[c] EXCEPT !.at = step]
          /\ \A d \in Submissions : d # c => submission'[d] = submission[d]
      BY <1>4, <2>1, WhereLemma DEF FeeInv
    <2>3. submission'[c].at = step /\ submission'[c].told = submission[c].told
      BY <2>2, FeeTypes DEF Submission
    <2>4. CallInv(c)'  BY <1>1, <1>3, <2>3 DEF CallInv
    <2> QED  BY <1>1, <1>5, <2>2, <2>4, FeeTypes, FeeStepLemma
  <1>8. CASE \E what \in {"unfunded", "unpaid"} : Returns(c, what)
    <2>1. PICK what \in {"unfunded", "unpaid"} : Returns(c, what)  BY <1>8
    <2>2. /\ submission' \in [Submissions -> Submission]
          /\ submission'[c] = [submission[c] EXCEPT !.at = "done", !.told = what]
          /\ \A d \in Submissions : d # c => submission'[d] = submission[d]
      BY <1>4, <2>1, WhereLemma DEF FeeInv, Steps
    <2>3. submission'[c].at = "done" /\ submission'[c].told = what
      BY <2>2, FeeTypes DEF Submission
    <2>4. CallInv(c)'  BY <1>1, <1>3, <2>3 DEF CallInv
    <2> QED  BY <1>1, <1>5, <2>2, <2>4, FeeTypes, FeeStepLemma
  <1>9. CASE submission' = [submission EXCEPT ![c].at = "claim", ![c].auth = TRUE]
    <2>1. [submission[c] EXCEPT !.at = "claim", !.auth = TRUE] \in Submission
      BY <1>4, FeeTypes DEF Submission
    <2>2. submission' = [submission EXCEPT ![c] = [submission[c] EXCEPT !.at = "claim", !.auth = TRUE]]
      BY <1>9, FeeTypes
    <2>3. /\ submission' \in [Submissions -> Submission]
          /\ submission'[c] = [submission[c] EXCEPT !.at = "claim", !.auth = TRUE]
          /\ \A d \in Submissions : d # c => submission'[d] = submission[d]
      <3> HIDE DEF Submission
      <3> QED  BY <2>1, <2>2, FeeTypes
    <2>4. submission'[c].at = "claim" /\ submission'[c].told = submission[c].told
      BY <2>3, FeeTypes DEF Submission
    <2>5. CallInv(c)'  BY <1>1, <1>3, <2>4 DEF CallInv
    <2> QED  BY <1>1, <1>5, <2>3, <2>5, FeeTypes, FeeStepLemma
  <1> QED  BY <1>6, <1>7, <1>8, <1>9
LEMMA DepositFeeLemma ==
  ASSUME FeeInv, NEW c \in Submissions, DepositFee(c)
  PROVE  FeeInv'
  <1>1. /\ UNCHANGED <<metered, judgedBy, counted, available, captured>>
        /\ submission[c].at = "deposit" /\ (Trouble \/ UNCHANGED troubles)
    BY DEF DepositFee, At
  <1>2. purse' \in Nat /\ inTransit' \in Nat
    BY FeeTypes, FeeAssumption DEF DepositFee, Deposits
  <1>3. c \notin captured /\ submission[c].told # "charged"
    <2>1. c \notin captured  BY <1>1, FeeTypes DEF CallInv
    <2> QED  BY <1>1, <2>1, FeeTypes DEF CallInv
  <1>4. "ready" \in Steps /\ "error" \in FeeAnswers  BY DEF Steps, FeeAnswers
  <1>5. /\ submission' \in [Submissions -> Submission]
        /\ \A d \in Submissions : d # c => submission'[d] = submission[d]
        /\ \/ submission'[c] = [submission[c] EXCEPT !.at = "ready"]
           \/ submission'[c] = [submission[c] EXCEPT !.at = "done", !.told = "error"]
    BY <1>4, WhereLemma DEF DepositFee, FeeInv
  <1>6. /\ submission'[c].at \in {"ready", "done"}
        /\ submission'[c].told \in {submission[c].told, "error"}
    BY <1>5, FeeTypes DEF Submission
  <1>7. CallInv(c)'  BY <1>1, <1>3, <1>6 DEF CallInv
  <1> QED  BY <1>1, <1>2, <1>5, <1>7, FeeTypes, FeeStepLemma

LEMMA ClaimForJudgingLemma ==
  ASSUME FeeInv, NEW c \in Submissions, ClaimForJudging(c)
  PROVE  FeeInv'
  <1>1. /\ UNCHANGED <<metered, counted, purse, inTransit, available, captured>>
        /\ submission[c].at = "claim" /\ (Trouble \/ UNCHANGED troubles)
    BY DEF ClaimForJudging, At, gateway
  <1>2. c \notin captured /\ submission[c].told # "charged"
    <2>1. c \notin captured  BY <1>1, FeeTypes DEF CallInv
    <2> QED  BY <1>1, <2>1, FeeTypes DEF CallInv
  <1>3. "judging" \in Steps /\ "judged" \in FeeAnswers  BY DEF Steps, FeeAnswers
  <1>4. WorkOf[c] \in Works  BY FeeAssumption
  <1>5. CASE /\ judgedBy[WorkOf[c]] = Nobody
             /\ judgedBy' = [judgedBy EXCEPT ![WorkOf[c]] = c] /\ GoTo(c, "judging")
    <2>1. /\ submission' \in [Submissions -> Submission]
          /\ \A d \in Submissions : d # c => submission'[d] = submission[d]
          /\ submission'[c] = [submission[c] EXCEPT !.at = "judging"]
      BY <1>3, <1>5, WhereLemma DEF FeeInv
    <2>2. /\ judgedBy' \in [Works -> Submissions \cup {Nobody}]
          /\ judgedBy'[WorkOf[c]] = c
          /\ \A w \in Works : judgedBy[w] # Nobody => judgedBy'[w] = judgedBy[w]
      BY <1>4, <1>5, FeeTypes
    <2>3. submission'[c].at = "judging" /\ submission'[c].told = submission[c].told
      BY <2>1, FeeTypes DEF Submission
    <2>4. CallInv(c)'  BY <1>1, <1>2, <2>2, <2>3 DEF CallInv
    <2> QED  BY <1>1, <2>1, <2>2, <2>4, FeeTypes, FeeStepLemma
  <1>6. CASE Returns(c, "judged") /\ UNCHANGED judgedBy
    <2>1. /\ submission' \in [Submissions -> Submission]
          /\ \A d \in Submissions : d # c => submission'[d] = submission[d]
          /\ submission'[c] = [submission[c] EXCEPT !.at = "done", !.told = "judged"]
      BY <1>3, <1>6, WhereLemma DEF FeeInv, Steps
    <2>2. submission'[c].at = "done" /\ submission'[c].told = "judged"
      BY <2>1, FeeTypes DEF Submission
    <2>3. CallInv(c)'  BY <1>1, <1>2, <1>6, <2>2 DEF CallInv
    <2> QED  BY <1>1, <1>6, <2>1, <2>3, FeeTypes, FeeStepLemma
  <1> QED  BY <1>5, <1>6 DEF ClaimForJudging

LEMMA RunVerdictLemma ==
  ASSUME FeeInv, NEW c \in Submissions, RunVerdict(c)
  PROVE  FeeInv'
  <1>1. /\ UNCHANGED <<metered, judgedBy, counted, purse, inTransit, available, captured, troubles>>
        /\ submission[c].at = "judging" /\ judgedBy[WorkOf[c]] = c
    BY FeeTypes DEF RunVerdict, At, gateway, CallInv
  <1>2. c \notin captured /\ submission[c].told # "charged"
    <2>1. c \notin captured  BY <1>1, FeeTypes DEF CallInv
    <2> QED  BY <1>1, <2>1, FeeTypes DEF CallInv
  <1>3. "capture" \in Steps /\ "done" \in Steps /\ "free" \in FeeAnswers  BY DEF Steps, FeeAnswers
  <1>4. CASE submission' = [submission EXCEPT ![c].at = "capture", ![c].rendered = TRUE]
    <2>1. [submission[c] EXCEPT !.at = "capture", !.rendered = TRUE] \in Submission
      BY <1>3, FeeTypes DEF Submission
    <2>2. submission' =
            [submission EXCEPT ![c] = [submission[c] EXCEPT !.at = "capture", !.rendered = TRUE]]
      BY <1>4, FeeTypes
    <2>3. /\ submission' \in [Submissions -> Submission]
          /\ submission'[c] = [submission[c] EXCEPT !.at = "capture", !.rendered = TRUE]
          /\ \A d \in Submissions : d # c => submission'[d] = submission[d]
      <3> HIDE DEF Submission
      <3> QED  BY <2>1, <2>2, FeeTypes
    <2>4. /\ submission'[c].at = "capture" /\ submission'[c].rendered
          /\ submission'[c].told = submission[c].told
      BY <2>3, FeeTypes DEF Submission
    <2>5. CallInv(c)'  BY <1>1, <1>2, <2>4 DEF CallInv
    <2> QED  BY <1>1, <2>3, <2>5, FeeTypes, FeeStepLemma
  <1>5. CASE Returns(c, "free")
    <2>1. /\ submission' \in [Submissions -> Submission]
          /\ \A d \in Submissions : d # c => submission'[d] = submission[d]
          /\ submission'[c] = [submission[c] EXCEPT !.at = "done", !.told = "free"]
      BY <1>3, <1>5, WhereLemma DEF FeeInv
    <2>2. submission'[c].at = "done" /\ submission'[c].told = "free"
      BY <2>1, FeeTypes DEF Submission
    <2>3. CallInv(c)'  BY <1>1, <1>2, <2>2 DEF CallInv
    <2> QED  BY <1>1, <2>1, <2>3, FeeTypes, FeeStepLemma
  <1> QED  BY <1>4, <1>5 DEF RunVerdict
(* A fee settles, or nothing does.                                         *)
LEMMA SettledLemma ==
  ASSUME FeeTypeOK, NEW c \in Submissions,
         \/ available >= VERDICT_FEE_USDC /\ Captures(c)
         \/ UNCHANGED <<captured, available>>
  PROVE  /\ captured \subseteq captured' /\ captured' \subseteq captured \cup {c}
         /\ captured' \subseteq Submissions /\ available' \in Nat
  BY FeeAssumption DEF FeeTypeOK, Captures

LEMMA CaptureVerdictFeeLemma ==
  ASSUME FeeInv, NEW c \in Submissions, CaptureVerdictFee(c)
  PROVE  FeeInv'
  <1>1. /\ UNCHANGED <<metered, judgedBy, counted, purse, inTransit>>
        /\ submission[c].at = "capture" /\ submission[c].rendered /\ judgedBy[WorkOf[c]] = c
        /\ Trouble \/ UNCHANGED troubles
    BY FeeTypes DEF CaptureVerdictFee, At, CallInv
  <1>2. c \notin captured /\ c \notin counted /\ submission[c].told # "charged"
    <2>1. c \notin captured  BY <1>1, FeeTypes DEF CallInv
    <2> QED  BY <1>1, <2>1, FeeTypes DEF CallInv
  <1>3. /\ captured \subseteq captured' /\ captured' \subseteq captured \cup {c}
        /\ captured' \subseteq Submissions /\ available' \in Nat
    <2>1. \/ available >= VERDICT_FEE_USDC /\ Captures(c)
          \/ UNCHANGED <<captured, available>>
      BY DEF CaptureVerdictFee
    <2> QED  BY <2>1, SettledLemma DEF FeeInv
  <1>4. "count" \in Steps /\ "done" \in Steps /\ "free" \in FeeAnswers  BY DEF Steps, FeeAnswers
  <1>5. \/ GoTo(c, "count") /\ c \in captured'
        \/ Returns(c, "free") /\ (c \in captured' => Trouble)
    BY <1>2 DEF CaptureVerdictFee, Captures
  <1>6. CASE GoTo(c, "count") /\ c \in captured'
    <2>1. /\ submission' \in [Submissions -> Submission]
          /\ \A d \in Submissions : d # c => submission'[d] = submission[d]
          /\ submission'[c] = [submission[c] EXCEPT !.at = "count"]
      BY <1>4, <1>6, WhereLemma DEF FeeInv
    <2>2. /\ submission'[c].at = "count" /\ submission'[c].told = submission[c].told
          /\ submission'[c].rendered
      BY <1>1, <2>1, FeeTypes DEF Submission
    <2>3. CallInv(c)'  BY <1>1, <1>2, <1>6, <2>2 DEF CallInv
    <2> QED  BY <1>1, <1>2, <1>3, <2>1, <2>3, FeeTypes, FeeStepLemma
  <1>7. CASE Returns(c, "free") /\ (c \in captured' => Trouble)
    <2>1. /\ submission' \in [Submissions -> Submission]
          /\ \A d \in Submissions : d # c => submission'[d] = submission[d]
          /\ submission'[c] = [submission[c] EXCEPT !.at = "done", !.told = "free"]
      BY <1>4, <1>7, WhereLemma DEF FeeInv
    <2>2. submission'[c].at = "done" /\ submission'[c].told = "free" /\ submission'[c].rendered
      BY <1>1, <2>1, FeeTypes DEF Submission
    <2>3. c \in captured' => troubles' # 0
      BY <1>7, FeeAssumption DEF Trouble, FeeInv, FeeTypeOK
    <2>4. CallInv(c)'  BY <1>1, <1>2, <2>2, <2>3 DEF CallInv
    <2> QED  BY <1>1, <1>2, <1>3, <2>1, <2>4, FeeTypes, FeeStepLemma
  <1> QED  BY <1>5, <1>6, <1>7

LEMMA RecordExternalCallLemma ==
  ASSUME FeeInv, NEW c \in Submissions, RecordExternalCall(c)
  PROVE  FeeInv'
  <1>1. /\ UNCHANGED <<metered, judgedBy, purse, inTransit, available, captured>>
        /\ submission[c].at = "count" /\ submission[c].rendered /\ judgedBy[WorkOf[c]] = c
        /\ c \in captured /\ counted' = counted \cup {c}
        /\ Trouble \/ UNCHANGED troubles
    BY FeeTypes DEF RecordExternalCall, At, CallInv, gateway
  <1>2. {"charged", "error"} \subseteq FeeAnswers  BY DEF FeeAnswers
  <1>3. PICK what \in {"charged", "error"} : Returns(c, what) /\ (what = "error" => Trouble)
    BY Zenon DEF RecordExternalCall
  <1>4. /\ submission' \in [Submissions -> Submission]
        /\ \A d \in Submissions : d # c => submission'[d] = submission[d]
        /\ submission'[c] = [submission[c] EXCEPT !.at = "done", !.told = what]
    BY <1>2, <1>3, WhereLemma DEF FeeInv, Steps
  <1>5. submission'[c].at = "done" /\ submission'[c].told = what /\ submission'[c].rendered
    BY <1>1, <1>4, FeeTypes DEF Submission
  <1>6. what = "error" => troubles' # 0
    BY <1>3, FeeAssumption DEF Trouble, FeeInv, FeeTypeOK
  <1>7. CallInv(c)'  BY <1>1, <1>3, <1>5, <1>6 DEF CallInv
  <1> QED  BY <1>1, <1>4, <1>7, FeeTypes, FeeStepLemma

LEMMA DiesLemma ==
  ASSUME FeeInv, NEW c \in Submissions, Dies(c)
  PROVE  FeeInv'
  <1>1. /\ UNCHANGED <<metered, judgedBy, counted, purse, inTransit>>
        /\ Trouble /\ Returns(c, "error")
        /\ \/ UNCHANGED <<captured, available>>
           \/ submission[c].at = "capture" /\ available >= VERDICT_FEE_USDC /\ Captures(c)
    BY DEF Dies, At
  <1>2. /\ captured \subseteq captured' /\ captured' \subseteq captured \cup {c}
        /\ captured' \subseteq Submissions /\ available' \in Nat
    BY <1>1, SettledLemma DEF FeeInv
  <1>3. /\ submission' \in [Submissions -> Submission]
        /\ \A d \in Submissions : d # c => submission'[d] = submission[d]
        /\ submission'[c] = [submission[c] EXCEPT !.at = "done", !.told = "error"]
    BY <1>1, WhereLemma DEF FeeInv, Steps, FeeAnswers
  <1>4. /\ submission'[c].at = "done" /\ submission'[c].told = "error"
        /\ submission'[c].rendered = submission[c].rendered
    BY <1>3, FeeTypes DEF Submission
  <1>5. troubles' # 0  BY <1>1, FeeAssumption DEF Trouble, FeeInv, FeeTypeOK
  <1>6. c \in captured' => submission[c].rendered /\ judgedBy[WorkOf[c]] = c
    <2>1. CallInv(c)  BY FeeTypes
    <2>2. c \in captured' => c \in captured \/ submission[c].at = "capture"
      BY <1>1
    <2> QED  BY <2>1, <2>2 DEF CallInv
  <1>7. CallInv(c)'  BY <1>1, <1>4, <1>5, <1>6 DEF CallInv
  <1> QED  BY <1>1, <1>2, <1>3, <1>7, FeeTypes, FeeStepLemma

(* Every captured fee belongs to the call that holds the lock of its work  *)
(* and rendered the verdict, in every state.                               *)
THEOREM FeeInvariance == FeeSpec => []FeeInv
  <1>1. FeeInit => FeeInv
    <2> SUFFICES ASSUME FeeInit PROVE FeeInv
      OBVIOUS
    <2>1. FeeTypeOK
      BY FeeAssumption DEF FeeInit, FeeTypeOK, Steps, FeeAnswers
    <2>2. \A c \in Submissions : CallInv(c)
      BY DEF FeeInit, CallInv
    <2> QED  BY <2>1, <2>2 DEF FeeInv, FeeInit
  <1>2. FeeInv /\ [FeeNext]_feeVars => FeeInv'
    <2> SUFFICES ASSUME FeeInv, [FeeNext]_feeVars PROVE FeeInv'
      OBVIOUS
    <2>1. CASE \E c \in Submissions : EnsureOnboarded(c) \/ CheckWallet(c) \/ RequireVerdictFee(c)
      BY <2>1, OnboardingLemma
    <2>2. CASE \E c \in Submissions : DepositFee(c)  BY <2>2, DepositFeeLemma
    <2>3. CASE \E c \in Submissions : ClaimForJudging(c)  BY <2>3, ClaimForJudgingLemma
    <2>4. CASE \E c \in Submissions : RunVerdict(c)  BY <2>4, RunVerdictLemma
    <2>5. CASE \E c \in Submissions : CaptureVerdictFee(c)  BY <2>5, CaptureVerdictFeeLemma
    <2>6. CASE \E c \in Submissions : RecordExternalCall(c)  BY <2>6, RecordExternalCallLemma
    <2>7. CASE \E c \in Submissions : Dies(c)  BY <2>7, DiesLemma
    <2>8. CASE Credit
      <3>1. FeeTypeOK'
        BY <2>8, FeeAssumption DEF Credit, FeeInv, FeeTypeOK
      <3>2. \A c \in Submissions : CallInv(c)'
        BY <2>8, FeeTypes DEF Credit, CallInv
      <3> QED  BY <2>8, <3>1, <3>2 DEF FeeInv, Credit
    <2>9. CASE UNCHANGED feeVars
      <3>1. FeeTypeOK'  BY <2>9 DEF feeVars, FeeInv, FeeTypeOK
      <3>2. \A c \in Submissions : CallInv(c)'
        BY <2>9, FeeTypes DEF feeVars, CallInv
      <3> QED  BY <2>9, <3>1, <3>2 DEF FeeInv, feeVars
    <2> QED  BY <2>1, <2>2, <2>3, <2>4, <2>5, <2>6, <2>7, <2>8, <2>9 DEF FeeNext
  <1> QED  BY <1>1, <1>2, PTL DEF FeeSpec

(* No step overdraws the seller's wallet or its Gateway balance, and every *)
(* call stays at one of the route's steps.                                 *)
THEOREM FeesTyped == FeeSpec => []FeeTypeOK
  <1>1. FeeInv => FeeTypeOK  BY DEF FeeInv
  <1> QED  BY <1>1, FeeInvariance, PTL

(* A fee is captured for a definitive verdict only, and a work costs a     *)
(* seller one fee at most, however many calls it makes (verdict.ts,        *)
(* x402-meter.ts); what the worker counts as earned was captured, and what *)
(* it tells a seller it charged is counted (db.ts).                        *)
THEOREM EveryFeeIsEarned == FeeSpec => []FeesAreEarned
  <1>1. FeeInv => FeesAreEarned  BY DEF FeeInv, FeeTypeOK, CallInv, FeesAreEarned, At
  <1> QED  BY <1>1, FeeInvariance, PTL
-----------------------------------------------------------------------------
(***************************************************************************)
(* The list of a buyer's jobs.                                             *)
(*                                                                         *)
(* While the buyer stays with the first wallet one load is under way at    *)
(* most, it reads the worker after it is asked, and what is shown was read *)
(* before it was asked: so the versions follow one another.                *)
(***************************************************************************)
Under(l) == load[l].at # "free"

LoadInv(l) ==
  /\ Under(l) =>
       /\ load[l].says.of \in Wallets
       /\ load[l].says.of = address \/ address = NoWallet
       /\ list.of = NoWallet \/ load[l].says.of = list.of
       /\ loading
  /\ load[l].at = "read" =>
       /\ load[l].says.version <= ledger[load[l].says.of]
       /\ list.of # NoWallet => list.version <= load[l].says.version

FirstWallet ==
  /\ \A l, k \in Loads : Under(l) /\ Under(k) => l = k
  /\ \A l \in Loads : LoadInv(l)
  /\ list.of # NoWallet =>
       /\ list.of = address \/ address = NoWallet
       /\ list.version <= ledger[list.of]

NotYet == address = NoWallet /\ list = NoList /\ \A l \in Loads : ~Under(l)

ListInv ==
  /\ ListTypeOK
  /\ \A l \in Loads : Under(l) => load[l].says.of \in Wallets
  /\ connects = 0 => NotYet
  /\ connects = 1 => FirstWallet
Told == [of : Wallets \cup {NoWallet}, version : 0 .. MaxVersion]
LoadStates == [at : {"free", "asked", "read"}, says : Told]

LEMMA ListTypes ==
  ASSUME ListTypeOK
  PROVE  /\ ledger \in [Wallets -> 0 .. MaxVersion] /\ address \in Wallets \cup {NoWallet}
         /\ list \in Told /\ load \in [Loads -> LoadStates] /\ NoList \in Told /\ Unused \in LoadStates
         /\ connects \in 0 .. MaxConnects /\ failures \in 0 .. MaxFailures
  BY ListAssumption DEF ListTypeOK, Told, LoadStates, NoList, Unused

LEMMA LoadLemma ==
  ASSUME ListTypeOK, NEW payer \in Wallets, Load(payer)
  PROVE  /\ loading' = TRUE /\ failed' = FALSE /\ load' \in [Loads -> LoadStates]
         /\ \E l \in Loads :
              /\ load'[l] = [at |-> "asked", says |-> [of |-> payer, version |-> 0]]
              /\ \A k \in Loads : k # l => load'[k] = load[k]
  <1>1. PICK l \in Loads :
          load' = [load EXCEPT ![l] = [at |-> "asked", says |-> [of |-> payer, version |-> 0]]]
    BY DEF Load
  <1>2. [at |-> "asked", says |-> [of |-> payer, version |-> 0]] \in LoadStates
    BY ListAssumption DEF LoadStates, Told
  <1> HIDE DEF LoadStates
  <1> QED  BY <1>1, <1>2, ListTypes DEF Load

LEMMA JobMovesLemma ==
  ASSUME ListInv, NEW w \in Wallets, JobMoves(w)
  PROVE  ListInv'
  <1>1. /\ UNCHANGED <<address, list, loading, failed, load, connects, failures>>
        /\ ledger' = [ledger EXCEPT ![w] = ledger[w] + 1] /\ ledger[w] < MaxVersion
    BY DEF JobMoves
  <1>2. ledger' \in [Wallets -> 0 .. MaxVersion] /\ \A v \in Wallets : ledger[v] <= ledger'[v]
    BY <1>1, ListTypes, ListAssumption DEF ListInv
  <1>3. ListTypeOK'  BY <1>1, <1>2 DEF ListInv, ListTypeOK
  <1>4. ASSUME FirstWallet PROVE FirstWallet'
    <2>1. \A l \in Loads : LoadInv(l)'
      <3> SUFFICES ASSUME NEW l \in Loads PROVE LoadInv(l)'
        OBVIOUS
      <3>1. LoadInv(l)  BY <1>4 DEF FirstWallet
      <3>2. load[l].at = "read" =>
              load[l].says.of \in Wallets /\ load[l].says.version \in 0 .. MaxVersion
        BY <3>1, ListTypes DEF LoadInv, Under, ListInv, LoadStates, Told
      <3>3. load[l].at = "read" => load[l].says.version <= ledger'[load[l].says.of]
        BY <1>2, <3>1, <3>2, ListTypes DEF LoadInv, ListInv
      <3> QED  BY <1>1, <3>1, <3>3 DEF LoadInv, Under
    <2>2. list.of # NoWallet => list.version <= ledger'[list.of]
      BY <1>2, <1>4, ListTypes DEF FirstWallet, ListInv, Told
    <2> QED  BY <1>1, <1>4, <2>1, <2>2 DEF FirstWallet, Under
  <1> QED  BY <1>1, <1>3, <1>4 DEF ListInv, NotYet, Under

LEMMA ConnectLemma ==
  ASSUME ListInv, NEW w \in Wallets, Connect(w)
  PROVE  ListInv'
  <1>1. /\ UNCHANGED <<ledger, list, failures>>
        /\ address' = w /\ Load(w) /\ connects' = connects + 1 /\ connects < MaxConnects
    BY DEF Connect
  <1>2. loading' = TRUE /\ failed' = FALSE /\ load' \in [Loads -> LoadStates]
    BY <1>1, LoadLemma DEF ListInv
  <1>3. PICK l \in Loads :
          /\ load'[l] = [at |-> "asked", says |-> [of |-> w, version |-> 0]]
          /\ \A k \in Loads : k # l => load'[k] = load[k]
    BY <1>1, LoadLemma DEF ListInv
  <1>4. connects \in 0 .. MaxConnects /\ connects' \in 0 .. MaxConnects /\ connects' # 0
    BY <1>1, ListTypes, ListAssumption DEF ListInv
  <1>5. ListTypeOK'
    BY <1>1, <1>2, <1>4, ListTypes DEF ListInv, ListTypeOK, LoadStates, Told
  <1>6. \A k \in Loads : Under(k)' => load'[k].says.of \in Wallets
    BY <1>3 DEF ListInv, Under
  <1>7. ASSUME connects = 0 PROVE FirstWallet'
    <2>1. list = NoList /\ \A k \in Loads : ~Under(k)  BY <1>7 DEF ListInv, NotYet
    <2>2. list'.of = NoWallet  BY <1>1, <2>1 DEF NoList
    <2>3. \A k \in Loads : Under(k)' => k = l  BY <1>3, <2>1 DEF Under
    <2>4. \A k \in Loads : LoadInv(k)'
      BY <1>1, <1>2, <1>3, <2>2, <2>3 DEF LoadInv, Under
    <2> QED  BY <2>2, <2>3, <2>4 DEF FirstWallet
  <1> QED  BY <1>1, <1>4, <1>5, <1>6, <1>7 DEF ListInv

LEMMA DisconnectLemma ==
  ASSUME ListInv, Disconnect
  PROVE  ListInv'
  <1>1. /\ UNCHANGED <<ledger, loading, failed, load, connects, failures>>
        /\ address' = NoWallet /\ list' = NoList /\ list'.of = NoWallet
    BY DEF Disconnect, NoList
  <1>2. ListTypeOK'  BY <1>1, ListTypes DEF ListInv, ListTypeOK, Told
  <1>3. ASSUME FirstWallet PROVE FirstWallet'
    BY <1>1, <1>3 DEF FirstWallet, LoadInv, Under
  <1> QED  BY <1>1, <1>2, <1>3 DEF ListInv, NotYet, Under

LEMMA RefreshLemma ==
  ASSUME ListInv, Refresh
  PROVE  ListInv'
  <1>1. /\ UNCHANGED <<ledger, address, list, connects, failures>>
        /\ address \in Wallets /\ address # NoWallet /\ ~loading /\ Load(address)
    BY ListTypes DEF Refresh, ListInv
  <1>2. loading' = TRUE /\ failed' = FALSE /\ load' \in [Loads -> LoadStates]
    BY <1>1, LoadLemma DEF ListInv
  <1>3. PICK l \in Loads :
          /\ load'[l] = [at |-> "asked", says |-> [of |-> address, version |-> 0]]
          /\ \A k \in Loads : k # l => load'[k] = load[k]
    BY <1>1, LoadLemma DEF ListInv
  <1>4. ListTypeOK'
    BY <1>1, <1>2 DEF ListInv, ListTypeOK, LoadStates, Told
  <1>5. \A k \in Loads : Under(k)' => load'[k].says.of \in Wallets
    BY <1>1, <1>3 DEF ListInv, Under
  <1>6. ASSUME FirstWallet PROVE FirstWallet'
    <2>1. \A k \in Loads : ~Under(k)  BY <1>1, <1>6 DEF FirstWallet, LoadInv
    <2>2. \A k \in Loads : Under(k)' => k = l  BY <1>3, <2>1 DEF Under
    <2>3. list.of # NoWallet => list.of = address  BY <1>1, <1>6 DEF FirstWallet
    <2>4. \A k \in Loads : LoadInv(k)'
      BY <1>1, <1>2, <1>3, <2>2, <2>3 DEF LoadInv, Under
    <2> QED  BY <1>1, <1>6, <2>2, <2>4 DEF FirstWallet
  <1>7. connects # 0  BY <1>1 DEF ListInv, NotYet
  <1> QED  BY <1>1, <1>4, <1>5, <1>6, <1>7 DEF ListInv

LEMMA ListByPayerLemma ==
  ASSUME ListInv, NEW l \in Loads, ListByPayer(l)
  PROVE  ListInv'
  <1> DEFINE payer == load[l].says.of
             read == [at |-> "read", says |-> [of |-> payer, version |-> ledger[payer]]]
  <1>1. /\ UNCHANGED <<ledger, address, list, loading, failed, connects, failures>>
        /\ load[l].at = "asked" /\ load' = [load EXCEPT ![l] = read]
    BY DEF ListByPayer
  <1>2. payer \in Wallets /\ Under(l) /\ ledger[payer] \in 0 .. MaxVersion
    BY <1>1, ListTypes DEF ListInv, Under
  <1>3. read \in LoadStates  BY <1>2 DEF LoadStates, Told
  <1>4. read.at = "read" /\ read.says.of = payer /\ read.says.version = ledger[payer]
    OBVIOUS
  <1> HIDE DEF read
  <1>5. /\ load' \in [Loads -> LoadStates] /\ load'[l] = read
        /\ \A k \in Loads : k # l => load'[k] = load[k]
    <2> HIDE DEF LoadStates
    <2> QED  BY <1>1, <1>3, ListTypes DEF ListInv
  <1>6. ListTypeOK'  BY <1>1, <1>5 DEF ListInv, ListTypeOK, LoadStates, Told
  <1>7. \A k \in Loads : Under(k)' <=> Under(k)
    BY <1>1, <1>4, <1>5 DEF Under
  <1>8. \A k \in Loads : Under(k)' => load'[k].says.of \in Wallets
    BY <1>2, <1>4, <1>5, <1>7 DEF ListInv, Under
  <1>9. ASSUME FirstWallet PROVE FirstWallet'
    <2>1. \A k \in Loads : LoadInv(k) /\ (k # l => ~Under(k))  BY <1>2, <1>9 DEF FirstWallet
    <2>2. LoadInv(l)'
      <3>1. /\ payer = address \/ address = NoWallet
            /\ list.of = NoWallet \/ payer = list.of
            /\ loading
        BY <1>2, <2>1 DEF LoadInv
      <3>2. ledger[payer] <= ledger[payer]  BY <1>2
      <3>3. list.of # NoWallet => list.version <= ledger[payer]
        BY <1>9, <3>1 DEF FirstWallet
      <3> QED  BY <1>1, <1>2, <1>4, <1>5, <3>1, <3>2, <3>3 DEF LoadInv
    <2>3. \A k \in Loads : k # l => LoadInv(k)'
      BY <1>5, <1>7, <2>1 DEF LoadInv, Under
    <2> QED  BY <1>1, <1>7, <1>9, <2>2, <2>3 DEF FirstWallet
  <1> QED  BY <1>1, <1>2, <1>6, <1>7, <1>8, <1>9 DEF ListInv, NotYet

LEMMA EndsLemma ==
  ASSUME ListInv, NEW l \in Loads, Under(l), Ends(l),
         UNCHANGED <<ledger, address, connects>>, failed' \in BOOLEAN, failures' \in 0 .. MaxFailures,
         \/ list' = NoList
         \/ load[l].at = "read" /\ list' = load[l].says
  PROVE  ListInv'
  <1>1. load' = [load EXCEPT ![l] = Unused] /\ loading' = FALSE /\ Unused.at = "free"
    BY DEF Ends, Unused
  <1>2. /\ load' \in [Loads -> LoadStates] /\ load'[l] = Unused
        /\ \A k \in Loads : k # l => load'[k] = load[k]
    <2> HIDE DEF LoadStates
    <2> QED  BY <1>1, ListTypes DEF ListInv
  <1>3. list' \in Told  BY ListTypes DEF ListInv, LoadStates
  <1>4. ListTypeOK'
    BY <1>1, <1>2, <1>3 DEF ListInv, ListTypeOK, LoadStates, Told
  <1>5. ~Under(l)' /\ \A k \in Loads : k # l => (Under(k)' <=> Under(k))
    BY <1>1, <1>2 DEF Under
  <1>6. \A k \in Loads : Under(k)' => load'[k].says.of \in Wallets
    BY <1>2, <1>5 DEF ListInv, Under
  <1>7. ASSUME FirstWallet PROVE FirstWallet'
    <2>1. \A k \in Loads : ~Under(k)'  BY <1>5, <1>7 DEF FirstWallet
    <2>2. \A k \in Loads : LoadInv(k)'  BY <2>1 DEF LoadInv, Under
    <2>3. list'.of # NoWallet => load[l].at = "read" /\ list' = load[l].says
      BY DEF NoList
    <2>4. LoadInv(l)  BY <1>7 DEF FirstWallet
    <2>5. list'.of # NoWallet =>
            /\ list'.of = address \/ address = NoWallet
            /\ list'.version <= ledger[list'.of]
      BY <2>3, <2>4 DEF LoadInv
    <2> QED  BY <2>1, <2>2, <2>5 DEF FirstWallet
  <1>8. connects # 0  BY DEF ListInv, NotYet
  <1> QED  BY <1>4, <1>6, <1>7, <1>8 DEF ListInv

LEMMA ListStepLemma ==
  ASSUME ListInv, [ListNext]_listVars
  PROVE  ListInv'
  <1>1. CASE \E w \in Wallets : JobMoves(w)  BY <1>1, JobMovesLemma
  <1>2. CASE \E w \in Wallets : Connect(w)  BY <1>2, ConnectLemma
  <1>3. CASE \E l \in Loads : ListByPayer(l)  BY <1>3, ListByPayerLemma
  <1>4. ASSUME NEW l \in Loads, LoadAnswered(l) PROVE ListInv'
    <2>1. Under(l) /\ failed' \in BOOLEAN /\ failures' \in 0 .. MaxFailures
      BY <1>4, ListTypes DEF LoadAnswered, Under, ListInv, ListTypeOK
    <2> QED  BY <1>4, <2>1, EndsLemma DEF LoadAnswered
  <1>5. ASSUME NEW l \in Loads, LoadFails(l) PROVE ListInv'
    <2>1. Under(l) /\ failed' \in BOOLEAN /\ failures' \in 0 .. MaxFailures
      BY <1>5, ListTypes, ListAssumption DEF LoadFails, Under, ListInv
    <2> QED  BY <1>5, <2>1, EndsLemma DEF LoadFails
  <1>6. CASE Disconnect  BY <1>6, DisconnectLemma
  <1>7. CASE Refresh  BY <1>7, RefreshLemma
  <1>8. CASE UNCHANGED listVars
    BY <1>8 DEF listVars, ListInv, ListTypeOK, NotYet, FirstWallet, LoadInv, Under
  <1> QED  BY <1>1, <1>2, <1>3, <1>4, <1>5, <1>6, <1>7, <1>8 DEF ListNext

(* With the first wallet, what a load brings was read after what is shown. *)
THEOREM ListInvariance == ListSpec => []ListInv
  <1>1. ListInit => ListInv
    <2> SUFFICES ASSUME ListInit PROVE ListInv
      OBVIOUS
    <2>1. ListTypeOK
      <3>1. NoList \in Told /\ Unused \in LoadStates
        BY ListAssumption DEF Told, LoadStates, NoList, Unused
      <3>2. list \in Told /\ load \in [Loads -> LoadStates]
        BY <3>1 DEF ListInit
      <3>3. /\ ledger \in [Wallets -> 0 .. MaxVersion] /\ address \in Wallets \cup {NoWallet}
            /\ loading = FALSE /\ failed = FALSE
            /\ connects \in 0 .. MaxConnects /\ failures \in 0 .. MaxFailures
        BY ListAssumption DEF ListInit
      <3> QED  BY <3>2, <3>3 DEF ListTypeOK, Told, LoadStates
    <2>2. NotYet /\ connects = 0  BY DEF ListInit, NotYet, Under, Unused
    <2> QED  BY <2>1, <2>2 DEF ListInv, NotYet
  <1> QED  BY <1>1, ListStepLemma, PTL DEF ListSpec

(* What is shown and what a load brings keep their types.                  *)
THEOREM ListTyped == ListSpec => []ListTypeOK
  <1>1. ListInv => ListTypeOK  BY DEF ListInv
  <1> QED  BY <1>1, ListInvariance, PTL

(* Refreshing never takes the list back in time (JobsList.tsx:67), for any *)
(* number of loads, failures and moves of the jobs.                        *)
THEOREM RefreshesGoForward == ListSpec => ListGoesForward
  <1>1. ListInv /\ [ListNext]_listVars =>
          [connects' = 1 /\ list.of # NoWallet /\ list'.of # NoWallet =>
             list'.version >= list.version]_listVars
    <2> SUFFICES ASSUME ListInv, [ListNext]_listVars,
                        connects' = 1, list.of # NoWallet, list'.of # NoWallet
                 PROVE  list'.version >= list.version
      OBVIOUS
    <2>1. CASE list' = list  BY <2>1, ListTypes DEF ListInv, Told
    <2>2. ASSUME NEW l \in Loads, LoadAnswered(l) PROVE list'.version >= list.version
      <3>1. FirstWallet  BY <2>2 DEF LoadAnswered, ListInv
      <3>2. LoadInv(l)  BY <3>1 DEF FirstWallet
      <3>3. list.version <= load[l].says.version /\ list' = load[l].says
        BY <2>2, <3>2 DEF LoadAnswered, LoadInv
      <3>4. list.version \in Int /\ load[l].says.version \in Int
        BY ListTypes DEF ListInv, LoadStates, Told
      <3> QED  BY <3>3, <3>4
    <2>3. list' = list \/ list' = NoList \/ \E l \in Loads : LoadAnswered(l)
      BY DEF ListNext, listVars, JobMoves, Connect, ListByPayer, LoadFails, Disconnect, Refresh
    <2> QED  BY <2>1, <2>2, <2>3 DEF NoList
  <1> QED  BY <1>1, ListInvariance, PTL DEF ListSpec, ListGoesForward
------------------------------------------------------------------------------

(***************************************************************************)
(* The components side by side (MCServices).                               *)
(***************************************************************************)
(* A behaviour of the run is, for each component, a behaviour of it: what  *)
(* is proved of a component is proved of the run, which adds nothing but   *)
(* the choice of one that moves.                                           *)
LEMMA ServicesParts ==
  ServicesSpec =>
    Spec /\ PipelineSpec /\ AttestSpec /\ PageSpec /\ SellerSpec /\ FeeSpec /\ ListSpec
  <1>1. ServicesInit =>
          Init /\ PipelineInit /\ AttestInit /\ PageInit /\ SellerInit /\ FeeInit /\ ListInit
    BY DEF ServicesInit
  <1>2. ASSUME [ServicesNext]_servicesVars
        PROVE  /\ [Next]_vars /\ [PipelineNext]_pipelineVars /\ [AttestNext]_attestVars
               /\ [PageNext]_pageVars /\ [SellerNext]_sellerVars /\ [FeeNext]_feeVars
               /\ [ListNext]_listVars
    BY <1>2 DEF ServicesNext, servicesVars
  <1> QED
    BY <1>1, <1>2, PTL DEF ServicesSpec, ServicesFairness, Spec, PipelineSpec, AttestSpec,
                           PageSpec, SellerSpec, FeeSpec, ListSpec

(* In the run, too, every component keeps its types, however long one of   *)
(* them goes on while the others stand still.                              *)
THEOREM ServicesTyped == ServicesSpec => []ServicesTypeOK
  BY ServicesParts, TypeCorrectness, PipelineTyped, AttestTyped, PagesTyped, SellerTypes, FeesTyped,
     ListTyped, PTL
     DEF ServicesTypeOK
=============================================================================
