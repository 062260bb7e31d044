---------------------------- MODULE OfferExchange ----------------------------
(***************************************************************************)
(* How a payer and an independent seller come to work together through the *)
(* SDK (sdk/src/client.ts): the payer registers the acceptance criteria    *)
(* (worker routes/tasks.ts), funds the escrow on Arc or from another chain *)
(* (CrossChainClient), and hands over a signed Task Offer; the seller      *)
(* checks the offer against the chain, delivers, and the worker judges the *)
(* delivery under the criteria it has stored (routes/verdict.ts).          *)
(*                                                                         *)
(* A payer may also do without the SDK and post, fund and sign by hand, in *)
(* any order and with any terms.                                           *)
(***************************************************************************)
EXTENDS CrossChainClient, FiniteSets

CONSTANTS
  Criteria,
  Ttl,        \* DEFAULT_TTL_SECONDS, from funding to refundExpired
  OfferLives, \* expiresInSeconds, from signature to expiry, as the caller pleases
  Halves,     \* the works whose price ends in half an atomic unit, see Asked
  MaxTime,    \* bound of the clock
  MaxOffers   \* bound of the offers a payer signs by hand

VARIABLES
  task,    \* vk_tasks, the criteria stored for each work
  terms,   \* what the payer asks for: criteria, routes
  offers,  \* signed offers, of each work
  seller,  \* where the seller of each work is, and the offer it holds
  verdict, \* the criteria a verdict was given under
  now

exchangeVars == <<chainVars, task, terms, offers, seller, verdict, now>>
offerVars == <<task, terms, offers, seller, verdict, now>>

NoCriteria == "none"
Anywhere == "anywhere"

ASSUME OfferAssumption ==
  /\ Ttl \in Nat /\ OfferLives \subseteq Nat /\ MaxTime \in Nat /\ MaxOffers \in Nat
  /\ Halves \subseteq ClientWorks
  /\ NoCriteria \notin Criteria /\ Anywhere \notin Homes

Offer(criteria, amount, expiresAt) ==
  [criteria |-> criteria, amount |-> amount, expiresAt |-> expiresAt]
Usdc(units, half) == [units |-> units, half |-> half]
NoOffer == Offer(NoCriteria, Usdc(0, FALSE), 0)
Terms(worker, routes, deadline) == [worker |-> worker, routes |-> routes, deadline |-> deadline]

OfferInit ==
  /\ ClientInit
  /\ task = [w \in ClientWorks |-> NoCriteria]
  /\ terms \in {[criteria |-> c, routes |-> r] : c \in Criteria, r \in Routes}
  /\ offers = [w \in ClientWorks |-> {}]
  /\ seller = [w \in ClientWorks |-> [at |-> "idle", offer |-> NoOffer, payout |-> Anywhere]]
  /\ verdict = [w \in ClientWorks |-> NoCriteria]
  /\ now = 0
------------------------------------------------------------------------------
(* amountUsdc is a number of dollars: whole atomic units, or such a half of*)
(* one over that the number as it is stored lies below it (5.0000005).  The*)
(* escrow is given what toFixed(6) makes of the stored number; acceptOffer *)
(* rounds its product with a million, which is the half again, and up.     *)
Asked(w) == Usdc(Amount[w], w \in Halves)
toFixed(usdc) == usdc.units
MathRound(usdc) == IF usdc.half THEN usdc.units + 1 ELSE usdc.units

(* POST /api/tasks: the first registration of a work id stays; the answer  *)
(* carries the hash of the criteria in the request.                        *)
InsertTask(w, c) == task' = [task EXCEPT ![w] = IF @ = NoCriteria THEN c ELSE @]

(* verdikt_create_task names every kind of criteria and leaves those that  *)
(* were not given undefined.                                               *)
Acceptance(w) ==
  [member |-> terms.criteria, undefined |-> IF Kind[w] = "mcp" THEN {"schema", "sources"} ELSE {}]

(* JSON has no undefined, so the members stay behind; canonical, which is  *)
(* the same on either side, writes them out as null.                       *)
OnTheWire(acceptance) == [acceptance EXCEPT !.undefined = {}]
criteriaHash(acceptance) == <<acceptance.member, acceptance.undefined>>

(* createTask and createTaskCrossChain: register, and throw if that was    *)
(* refused or if the server has hashed something else; then fund, sign.    *)
Register(w) ==
  /\ client[w] = "new" /\ Kind[w] \in {"local", "cross", "mcp"}
  /\ \/ /\ InsertTask(w, OnTheWire(Acceptance(w)).member)
        /\ ClientGoesTo(w, IF criteriaHash(OnTheWire(Acceptance(w))) = criteriaHash(Acceptance(w))
                          THEN "ready" ELSE "swapped")
     \/ ClientFails(w) /\ UNCHANGED task  \* not ok: 429, or no answer
  /\ UNCHANGED <<allowance, shown, message, escrow, relay, terms, offers, seller, verdict, now>>

(* fundEscrow: sign the authorization, submit, wait 30 s for the receipt.  *)
LocalRoutes == [p \in Parties |-> Arc]
FundOnArc(w) ==
  /\ client[w] = "ready" /\ Kind[w] \in {"local", "mcp"}
  /\ \/ /\ Funded(w, toFixed(Asked(w)), "seller", LocalRoutes, now + Ttl)
        /\ ClientGoesTo(w, "funded") \/ ClientFails(w)
     \/ ClientFails(w) /\ UNCHANGED escrow
  /\ UNCHANGED <<allowance, shown, message, relay, offerVars>>

FundCrossChainEscrow(w) ==
  /\ LET hookData == Terms("seller", terms.routes, now + Ttl)
     IN MintAndFund(w, hookData) \/ AnyoneFunds(w, hookData)
  /\ UNCHANGED offerVars

Signs(w, criteria, amounts) ==
  \E amount \in amounts, life \in OfferLives :
    offers' = [offers EXCEPT ![w] = @ \cup {Offer(criteria, amount, now + life)}]

(* Mutant: the offer names the amount that was burned.                     *)
SignAskedAmount(w) ==
  /\ client[w] = "funded"
  /\ Signs(w, terms.criteria, {Asked(w)})
  /\ ClientGoesTo(w, "offered")
  /\ UNCHANGED <<allowance, shown, message, escrow, relay, task, terms, seller, verdict, now>>

(* The cross-chain offer names what the escrow holds, which is less; or    *)
(* nothing, when the one reading is of a node that has not seen the funding*)
(* yet, since the receipt came from another one.                           *)
Readings(w) == {Usdc(escrow[w].amount, FALSE), Usdc(0, FALSE)}

SignOffer(w) ==
  /\ client[w] = "funded"
  /\ Signs(w, terms.criteria, IF Kind[w] = "cross" THEN Readings(w) ELSE {Asked(w)})
  /\ ClientGoesTo(w, "offered")
  /\ UNCHANGED <<allowance, shown, message, escrow, relay, task, terms, seller, verdict, now>>

(* A payer without the SDK.                                                *)
ByHand(w) ==
  /\ Kind[w] = "hand" /\ client[w] = "new"
  /\ \/ /\ \E c \in Criteria : InsertTask(w, c)
        /\ UNCHANGED <<escrow, offers>>
     \/ /\ escrow[w] = NoEscrow
        /\ \E worker \in {"seller", "other"} :
             Funded(w, toFixed(Asked(w)), worker, terms.routes, now + Ttl)
        /\ UNCHANGED <<task, offers>>
     \/ /\ Cardinality(offers[w]) < MaxOffers
        /\ \E c \in Criteria : Signs(w, c, {Asked(w), Usdc(Amount[w] + 1, FALSE)})
        /\ UNCHANGED <<task, escrow>>
  /\ UNCHANGED <<client, allowance, shown, message, relay, terms, seller, verdict, now>>
------------------------------------------------------------------------------
(* acceptOffer, with or without an expected payout.  An expected           *)
(* acceptance is compared with the offer alone and left out.               *)
VerifyOffer(offer) == offer.expiresAt > now

Holds(w, at, offer, payout) ==
  seller' = [seller EXCEPT ![w] = [at |-> at, offer |-> offer, payout |-> payout]]

(* Mutant: the escrow's amount is not compared.                            *)
AcceptAnyAmount(w, offer, payout) ==
  /\ VerifyOffer(offer)
  /\ escrow[w].status = "FUNDED" /\ escrow[w].worker = "seller"
  /\ payout # Anywhere => escrow[w].routes["worker"] = payout

Acceptable(w, offer, payout) ==
  /\ VerifyOffer(offer)
  /\ escrow[w].status = "FUNDED"
  /\ escrow[w].worker = "seller" /\ escrow[w].amount = MathRound(offer.amount)
  /\ payout # Anywhere => escrow[w].routes["worker"] = payout

AcceptOffer(w) ==
  /\ seller[w].at = "idle"
  /\ \E offer \in offers[w], payout \in Homes \cup {Anywhere} :
       /\ Acceptable(w, offer, payout)
       /\ Holds(w, "accepted", offer, payout)
  /\ UNCHANGED <<chainVars, task, terms, offers, verdict, now>>

(* submit: accepts again, unless told to skip it, and sends the signed     *)
(* artifact with the criteria hash of the offer.                           *)
Submit(w) ==
  /\ \/ seller[w].at = "idle" /\ \E offer \in offers[w] : Holds(w, "sent", offer, Anywhere)
     \/ /\ seller[w].at = "accepted" /\ Acceptable(w, seller[w].offer, Anywhere)
        /\ seller' = [seller EXCEPT ![w].at = "sent"]
  /\ UNCHANGED <<chainVars, task, terms, offers, verdict, now>>

(* Mutant: the hash in the submission is advisory.                         *)
SameCriteriaUnchecked(w) == task[w] # NoCriteria

(* The hash the submission carries must be that of the stored criteria.    *)
SameCriteria(w) == task[w] # NoCriteria /\ task[w] = seller[w].offer.criteria

(* POST /api/verdict: 404, 409 or 403, or a verdict and its settlement,    *)
(* which may fail after the verdict.                                       *)
Judge(w) ==
  /\ seller[w].at = "sent"
  /\ \/ /\ SameCriteria(w) /\ escrow[w].status = "FUNDED" /\ escrow[w].worker = "seller"
        /\ verdict' = [verdict EXCEPT ![w] = task[w]]
        /\ \/ \E outcome \in PaidOutcomes \ {"expired"} : Settle(w, outcome)
           \/ UNCHANGED <<message, escrow>>
        /\ seller' = [seller EXCEPT ![w].at = "judged"]
     \/ /\ ~(SameCriteria(w) /\ escrow[w].status = "FUNDED" /\ escrow[w].worker = "seller")
        /\ seller' = [seller EXCEPT ![w].at = "refused"]
        /\ UNCHANGED <<verdict, message, escrow>>
  /\ UNCHANGED <<client, allowance, shown, relay, task, terms, offers, now>>

RefundOffered(w) ==
  /\ now > escrow[w].deadline
  /\ Settle(w, "expired")
  /\ UNCHANGED <<client, allowance, shown, relay, offerVars>>

Tick ==
  /\ now < MaxTime /\ now' = now + 1
  /\ UNCHANGED <<chainVars, task, terms, offers, seller, verdict>>

OfferNext ==
  \/ \E w \in ClientWorks :
       \/ Register(w) \/ FundOnArc(w) \/ FundCrossChainEscrow(w) \/ SignOffer(w) \/ ByHand(w)
       \/ AcceptOffer(w) \/ Submit(w) \/ Judge(w) \/ RefundOffered(w)
       \/ TransferStep(w) /\ UNCHANGED offerVars
  \/ Tick

OfferSpec == OfferInit /\ [][OfferNext]_exchangeVars
------------------------------------------------------------------------------
OfferTypeOK ==
  /\ ClientTypeOK
  /\ task \in [ClientWorks -> Criteria \cup {NoCriteria}]
  /\ verdict \in [ClientWorks -> Criteria \cup {NoCriteria}]
  /\ \A w \in ClientWorks :
       /\ seller[w].at \in {"idle", "accepted", "sent", "judged", "refused"}
       /\ seller[w].payout \in Homes \cup {Anywhere}
       /\ \A o \in offers[w] : /\ o.criteria \in Criteria /\ o.expiresAt \in Nat
                               /\ o.amount \in [units : Nat, half : BOOLEAN]
  /\ now \in 0 .. MaxTime

(* What a seller that has accepted an offer and not yet delivered can rely *)
(* on, whoever relayed the funding and whatever the payer signed: the      *)
(* escrow holds the offered amount for it, pays out where it asked, and    *)
(* until the deadline of the escrow, which the offer may outlive, the payer*)
(* cannot have it back.                                                    *)
AcceptedOfferIsBacked ==
  \A w \in ClientWorks : seller[w].at = "accepted" =>
    LET held == seller[w] IN
      /\ escrow[w].worker = "seller" /\ escrow[w].amount = MathRound(held.offer.amount)
      /\ held.payout # Anywhere => escrow[w].routes["worker"] = held.payout
      /\ escrow[w].status # "FUNDED" => escrow[w].outcome = "expired" /\ now > escrow[w].deadline

(* The offers a payer signs through the SDK are ones the seller accepts:   *)
(* while one is open, the escrow's deadline has not passed and nothing has *)
(* been delivered, acceptOffer succeeds.  The exceptions are the offer for *)
(* nothing and the price that the two roundings tell apart, which no seller*)
(* can ever accept.                                                        *)
OwnOffersAreAcceptable ==
  \A w \in ClientWorks : \A offer \in offers[w] :
    Kind[w] # "hand" /\ seller[w].at = "idle" /\ VerifyOffer(offer) /\ now <= escrow[w].deadline =>
      (Acceptable(w, offer, Anywhere) <=> offer.amount.units # 0 /\ ~offer.amount.half)

(* No verdict is given under criteria other than those of the offer the    *)
(* seller answered, however often the payer registered the work (B1).      *)
JudgedAsOffered ==
  \A w \in ClientWorks : verdict[w] # NoCriteria => verdict[w] = seller[w].offer.criteria

(* "Confirm the server committed to the criteria we sent (no silent swap)" *)
(* (client.ts:104): a payer that gives up because the server swapped its   *)
(* criteria registered other criteria than the server keeps.               *)
SwapsAreReal ==
  \A w \in ClientWorks : client[w] = "swapped" => task[w] # terms.criteria
=============================================================================
