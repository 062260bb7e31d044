------------------------------ MODULE HumanHire ------------------------------
(***************************************************************************)
(* The human's way to a funded job.  Sellers register and are listed after *)
(* one probe (lib/registry.ts, routes/sellers.ts, lib/seller-store.ts);    *)
(* the hire page (HireFlow.tsx) registers a task for a fresh work id, has  *)
(* the wallet sign an authorization (web/src/lib/relayer-sign.ts), lets    *)
(* the relayer fund the escrow with it (routes/relayer.ts) and dispatches  *)
(* the job (routes/jobs.ts), each through a proxy of the web server; the   *)
(* faucet (routes/faucet.ts) drips the test USDC for it.                   *)
(*                                                                         *)
(* A transaction that was sent may be mined after the code stopped waiting *)
(* for it, and a proxy may give up on a request the worker goes on with.   *)
(* The faucet's reservations are in the worker's memory: a restart forgets *)
(* them, and ends the requests it was at.                                  *)
(* What becomes of a job is the engine's (JobEngine); here its escrow is   *)
(* concluded in one step.                                                  *)
(***************************************************************************)
EXTENDS Naturals, FiniteSets

CONSTANTS
  Vendors,     \* sellers that may register
  MaxHires,    \* bound: hires of one page, each with a work id of its own
  Clicks,      \* requests to the faucet
  Price, Drip, \* of a hire, of the faucet
  Cooldown,    \* of the faucet
  MaxHireTime, \* bound
  MaxMishaps   \* bound: failed or unheard calls, restarts

VARIABLES
  sellers,    \* vk_sellers, as <<vendor, status, template>>
  reachable,  \* vendors whose endpoint answers now
  hirePage,   \* the hire page: where its flow is, and with whom
  said,       \* what the page told the human of each hire
  hireTask,   \* vk_tasks: the seller each work was registered for
  signed,     \* the authorization the human signed for each work
  relayed,    \* the relayer's request of each work, and the seller it names
  mempool,    \* external: fund transactions sent and not yet mined
  hireEscrow, \* external: VerdiktEscrow, per work
  jobs,       \* vk_jobs, by work
  wallet,     \* external: the human's USDC
  click,      \* the faucet's requests, and when each reserved the address
  lastDrip,   \* the faucet's reservation of the address, 0 for none
  sentDrips, dripped, \* external: requests whose transfer was sent, was mined
  hireNow, mishaps

hireVars == <<sellers, reachable, hirePage, said, hireTask, signed, relayed, mempool, hireEscrow,
              jobs, wallet, click, lastDrip, sentDrips, dripped, hireNow, mishaps>>

Hires == 1 .. MaxHires
PageSteps == {"idle", "registering", "signing", "funding", "dispatching"}
RelaySteps == {"none", "asked", "checking", "sent", "funded", "refused"}

ASSUME HireAssumption ==
  /\ MaxHires \in Nat \ {0} /\ Price \in Nat \ {0} /\ Drip \in Nat /\ Cooldown \in Nat
  /\ MaxHireTime \in Nat \ {0} /\ MaxMishaps \in Nat

NotSigned == [value |-> 0, nonce |-> <<>>]

HireInit ==
  /\ sellers = {} /\ reachable = Vendors
  /\ hirePage = [at |-> "idle", hire |-> 0, seller |-> "none"]
  /\ said = [h \in Hires |-> "nothing"]
  /\ hireTask = [h \in Hires |-> "none"] /\ signed = [h \in Hires |-> NotSigned]
  /\ relayed = [h \in Hires |-> [at |-> "none", to |-> "none"]]
  /\ mempool = {} /\ hireEscrow = [h \in Hires |-> "EMPTY"] /\ jobs = {}
  /\ wallet = 0
  /\ click = [c \in Clicks |-> [at |-> "new", since |-> 0, fate |-> "known", told |-> "nothing"]]
  /\ lastDrip = 0 /\ sentDrips = {} /\ dripped = {} /\ hireNow = 1 /\ mishaps = 0

Mishap == mishaps < MaxMishaps /\ mishaps' = mishaps + 1
catalog == <<sellers, reachable>>
money == <<mempool, hireEscrow, wallet>>
faucet == <<click, lastDrip, sentDrips, dripped>>
worker == <<hireTask, signed, relayed, jobs>>
Ask(h, step) == relayed' = [relayed EXCEPT ![h].at = step]
Here == hirePage.hire
------------------------------------------------------------------------------
Probe(v) == IF v \in reachable THEN "healthy" ELSE "unhealthy"

(* A template is optional, and one without its texts is refused; what is   *)
(* wrong with the rest of a registration is not told apart.                *)
Registrations == [vendor : Vendors, template : {"none", "blank", "filled"}, wellFormed : BOOLEAN]
ValidateRegistration(r) == r.wellFormed /\ r.template # "blank"

(* A new row every time: the catalog never forgets a healthy one.          *)
SaveSeller(r, status) == sellers' = sellers \cup {<<r.vendor, status, r.template>>}

(* handleRegister: probed once, and stored either way.                     *)
RegisterSeller(r) ==
  /\ ValidateRegistration(r)
  /\ SaveSeller(r, Probe(r.vendor))
  /\ UNCHANGED <<reachable, hirePage, said, worker, money, faucet, hireNow, mishaps>>

GoesDown(v) ==
  /\ Mishap /\ reachable' = reachable \ {v}
  /\ UNCHANGED <<sellers, hirePage, said, worker, money, faucet, hireNow>>

(* The human catalog: healthy, and with a template to fill in.             *)
HealthySellers == {s \in sellers : s[2] = "healthy"}
Listed == {s[1] : s \in {h \in HealthySellers : h[3] = "filled"}}
------------------------------------------------------------------------------
Step(to) == hirePage' = [hirePage EXCEPT !.at = to]
Tell(h, what) == said' = [said EXCEPT ![h] = what]

(* One catch for all four calls: it says "Signature rejected. Nothing was  *)
(* charged." whenever the error's text has "rejected" or "denied", and the *)
(* text may be an RPC's (jobs.ts:84).                                      *)
FlowFails == Step("idle") /\ \E what \in {"error", "uncharged"} : Tell(Here, what)

(* hire: refused without the price in the wallet; a fresh work id.         *)
PickAndHire(v) ==
  /\ hirePage.at = "idle" /\ hirePage.hire < MaxHires
  /\ v \in Listed /\ wallet >= Price
  /\ hirePage' = [at |-> "registering", hire |-> hirePage.hire + 1, seller |-> v]
  /\ UNCHANGED <<catalog, said, worker, money, faucet, hireNow, mishaps>>

(* POST /api/tasks, through a proxy that is not in the repository.         *)
RegisterTask ==
  /\ hirePage.at = "registering"
  /\ \/ /\ hireTask' = [hireTask EXCEPT ![Here] = hirePage.seller]
        /\ Step("signing") /\ UNCHANGED <<said, mishaps>>
     \/ /\ Mishap /\ hireTask' \in {hireTask, [hireTask EXCEPT ![Here] = hirePage.seller]}
        /\ FlowFails
  /\ UNCHANGED <<catalog, signed, relayed, jobs, money, faucet, hireNow>>

(* The EIP-3009 nonce commits to every term: the browser, the relayer and  *)
(* the contract derive it alike.                                           *)
deriveNonce(h, v) == <<h, v, Price>>

(* What the wallet signs, and what the relayer rebuilds from the body.     *)
BuildAuthorization(h, v) == [value |-> Price, nonce |-> deriveNonce(h, v)]
FundBody(v) == [at |-> "asked", to |-> v]

(* The wallet signs, and the signed body goes to the relayer; or the human *)
(* declines.                                                               *)
SignAuthorization ==
  /\ hirePage.at = "signing"
  /\ \/ /\ signed' = [signed EXCEPT ![Here] = BuildAuthorization(Here, hirePage.seller)]
        /\ relayed' = [relayed EXCEPT ![Here] = FundBody(hirePage.seller)]
        /\ Step("funding") /\ UNCHANGED said
     \/ FlowFails /\ UNCHANGED <<signed, relayed>>
  /\ UNCHANGED <<catalog, hireTask, jobs, money, faucet, hireNow, mishaps>>

(* verifyRelayerAuth: the signature recovers to the payer over exactly     *)
(* these terms, or the request is refused, as it is when it is late, above *)
(* the relayer's cap or one too many.                                      *)
VerifyRelayerAuth(h) ==
  /\ relayed[h].at = "asked"
  /\ \/ signed[h] = BuildAuthorization(h, relayed[h].to) /\ Ask(h, "checking") /\ UNCHANGED mishaps
     \/ Mishap /\ Ask(h, "refused")
  /\ UNCHANGED <<catalog, hirePage, said, hireTask, signed, jobs, money, faucet, hireNow>>

(* POST /relayer/fund: only for a registered task of the same seller, and  *)
(* not when the escrow exists.                                             *)
Payable(h) ==
  relayed[h].at = "checking" /\ hireTask[h] = relayed[h].to /\ hireEscrow[h] = "EMPTY"

SubmitGaslessly(h) ==
  /\ relayed[h].at = "checking"
  /\ \/ /\ IF Payable(h) THEN Ask(h, "sent") /\ mempool' = mempool \cup {h}
           ELSE Ask(h, "refused") /\ UNCHANGED mempool
        /\ UNCHANGED mishaps
     \/ /\ Mishap /\ Ask(h, "refused")
        /\ UNCHANGED mempool \/ (Payable(h) /\ mempool' = mempool \cup {h})
  /\ UNCHANGED <<catalog, hirePage, said, hireTask, signed, jobs, hireEscrow, wallet, faucet,
                 hireNow>>

(* External: the transaction moves the price, or reverts without it; the   *)
(* contract derives the nonce again, and it was checked already.           *)
MineFund ==
  /\ \E h \in mempool :
       /\ mempool' = mempool \ {h}
       /\ IF wallet >= Price
          THEN hireEscrow' = [hireEscrow EXCEPT ![h] = "FUNDED"] /\ wallet' = wallet - Price
          ELSE UNCHANGED <<hireEscrow, wallet>>
  /\ UNCHANGED <<catalog, hirePage, said, worker, faucet, hireNow, mishaps>>

(* The receipt within sixty seconds, or an error although it may yet land. *)
FundReceipt(h) ==
  /\ relayed[h].at = "sent"
  /\ \/ /\ h \notin mempool /\ UNCHANGED mishaps
        /\ Ask(h, IF hireEscrow[h] = "EMPTY" THEN "refused" ELSE "funded")
     \/ Mishap /\ Ask(h, "refused")
  /\ UNCHANGED <<catalog, hirePage, said, hireTask, signed, jobs, money, faucet, hireNow>>

(* The proxy passes the relayer's answer on, or gives up on it.            *)
FundAnswered ==
  /\ hirePage.at = "funding"
  /\ \/ relayed[Here].at = "funded" /\ Step("dispatching") /\ UNCHANGED <<said, mishaps>>
     \/ relayed[Here].at = "refused" /\ FlowFails /\ UNCHANGED mishaps
     \/ Mishap /\ FlowFails
  /\ UNCHANGED <<catalog, worker, money, faucet, hireNow>>

(* Mutant: the job is acknowledged before it is persisted.                 *)
AckBeforeCreate(h) ==
  \/ jobs' = jobs \cup {h} /\ Step("idle") /\ Tell(h, "working") /\ UNCHANGED mishaps
  \/ Mishap /\ Step("idle") /\ Tell(h, "working") /\ UNCHANGED jobs

(* createJob, then the 202: a lost answer leaves a job behind an error.    *)
CreateAndAck(h) ==
  \/ jobs' = jobs \cup {h} /\ Step("idle") /\ Tell(h, "working") /\ UNCHANGED mishaps
  \/ Mishap /\ FlowFails /\ jobs' \in {jobs, jobs \cup {h}}

(* POST /api/jobs: only for a registered task whose escrow is funded.      *)
DispatchJob ==
  /\ hirePage.at = "dispatching"
  /\ IF hireTask[Here] # "none" /\ hireEscrow[Here] = "FUNDED"
     THEN CreateAndAck(Here)
     ELSE FlowFails /\ UNCHANGED <<jobs, mishaps>>
  /\ UNCHANGED <<catalog, hireTask, signed, relayed, money, faucet, hireNow>>

(* The engine settles or refunds what it has a job for, and nothing else.  *)
Conclude(h) ==
  /\ h \in jobs /\ hireEscrow[h] = "FUNDED"
  /\ hireEscrow' = [hireEscrow EXCEPT ![h] = "CLOSED"]
  /\ \E back \in {0, Price} : wallet' = wallet + back
  /\ UNCHANGED <<catalog, hirePage, said, worker, mempool, faucet, hireNow, mishaps>>
------------------------------------------------------------------------------
(* The faucet: what one request does from an await to the next.            *)
ClickAt(c, step) == click' = [click EXCEPT ![c].at = step]
CoolingDown == lastDrip # 0 /\ hireNow - lastDrip < Cooldown

(* Mutant: the address is not reserved before its transfer is sent.        *)
ReserveNothing(c) ==
  /\ click' = [click EXCEPT ![c].at = "sending", ![c].since = hireNow]
  /\ UNCHANGED lastDrip

Reserve(c) ==
  /\ click' = [click EXCEPT ![c].at = "sending", ![c].since = hireNow]
  /\ lastDrip' = hireNow

(* The cooldown is read and the address reserved in one go.                *)
FaucetAsked(c) ==
  /\ click[c].at = "new"
  /\ IF CoolingDown THEN ClickAt(c, "failed") /\ UNCHANGED lastDrip ELSE Reserve(c)
  /\ UNCHANGED <<catalog, hirePage, said, worker, money, sentDrips, dripped, hireNow, mishaps>>

(* What fails gives the reservation back, whoever holds it by then, and    *)
(* a drip that was sent may still land.                                    *)
DripFails(c) ==
  /\ Mishap /\ lastDrip' = 0
  /\ click' = [click EXCEPT ![c].at = "failed", ![c].fate = "unheard"]

SendDrip(c) ==
  /\ click[c].at = "sending"
  /\ \/ ClickAt(c, "sent") /\ sentDrips' = sentDrips \cup {c} /\ UNCHANGED <<lastDrip, mishaps>>
     \/ DripFails(c) /\ sentDrips' \in {sentDrips, sentDrips \cup {c}}
  /\ UNCHANGED <<catalog, hirePage, said, worker, money, dripped, hireNow>>

(* External: the transfer lands, waited for or not.                        *)
MineDrip(c) ==
  /\ c \in sentDrips \ dripped
  /\ dripped' = dripped \cup {c} /\ wallet' = wallet + Drip
  /\ UNCHANGED <<catalog, hirePage, said, worker, mempool, hireEscrow, click, lastDrip, sentDrips,
                 hireNow, mishaps>>

DripReceipt(c) ==
  /\ click[c].at = "sent"
  /\ \/ c \in dripped /\ ClickAt(c, "done") /\ UNCHANGED <<lastDrip, mishaps>>
     \/ DripFails(c)
  /\ UNCHANGED <<catalog, hirePage, said, worker, money, sentDrips, dripped, hireNow>>

(* A restart forgets the reservation, the requests it had served and those *)
(* it was at; what one of them was sending may be sent.                    *)
Forgotten(request) ==
  IF request.at = "new" THEN request
  ELSE [request EXCEPT !.at = IF @ = "done" THEN "done" ELSE "failed", !.fate = "forgotten"]

HireWorkerRestarts ==
  /\ Mishap /\ lastDrip' = 0
  /\ click' = [c \in Clicks |-> Forgotten(click[c])]
  /\ \E C \in SUBSET {c \in Clicks : click[c].at = "sending"} : sentDrips' = sentDrips \cup C
  /\ relayed' = [h \in Hires |-> IF relayed[h].at \in {"asked", "checking", "sent"}
                                THEN [relayed[h] EXCEPT !.at = "refused"] ELSE relayed[h]]
  /\ \E H \in SUBSET {h \in Hires : Payable(h)} : mempool' = mempool \cup H
  /\ UNCHANGED <<catalog, hirePage, said, hireTask, signed, jobs, hireEscrow, wallet, dripped,
                 hireNow>>

(* The proxy passes the answer on, or gives up after seventy seconds while *)
(* the faucet goes on.                                                     *)
FaucetProxy(c) ==
  \/ click[c].at = "done" /\ click' = [click EXCEPT ![c].told = "received"] /\ UNCHANGED mishaps
  \/ click[c].at = "failed" /\ click' = [click EXCEPT ![c].told = "error"] /\ UNCHANGED mishaps
  \/ click[c].at # "new" /\ Mishap /\ click' = [click EXCEPT ![c].told = "error"]

(* The page's faucet(): what it tells the human of each click.             *)
FaucetTold(c) ==
  /\ click[c].told = "nothing" /\ FaucetProxy(c)
  /\ UNCHANGED <<catalog, hirePage, said, worker, money, lastDrip, sentDrips, dripped, hireNow>>

HireTick ==
  /\ hireNow < MaxHireTime /\ hireNow' = hireNow + 1
  /\ UNCHANGED <<catalog, hirePage, said, worker, money, faucet, mishaps>>

HireNext ==
  \/ \E r \in Registrations : RegisterSeller(r)
  \/ \E v \in Vendors : GoesDown(v) \/ PickAndHire(v)
  \/ RegisterTask \/ SignAuthorization \/ FundAnswered \/ DispatchJob \/ MineFund
  \/ \E h \in Hires : VerifyRelayerAuth(h) \/ SubmitGaslessly(h) \/ FundReceipt(h) \/ Conclude(h)
  \/ \E c \in Clicks : FaucetAsked(c) \/ SendDrip(c) \/ MineDrip(c) \/ DripReceipt(c)
                       \/ FaucetTold(c)
  \/ HireWorkerRestarts \/ HireTick

HireSpec == HireInit /\ [][HireNext]_hireVars
------------------------------------------------------------------------------
HireTypeOK ==
  /\ sellers \subseteq Vendors \X {"healthy", "unhealthy"} \X {"none", "filled"}
  /\ reachable \subseteq Vendors
  /\ hirePage \in [at : PageSteps, hire : 0 .. MaxHires, seller : Vendors \cup {"none"}]
  /\ said \in [Hires -> {"nothing", "uncharged", "error", "working"}]
  /\ hireTask \in [Hires -> Vendors \cup {"none"}]
  /\ relayed \in [Hires -> [at : RelaySteps, to : Vendors \cup {"none"}]]
  /\ signed \in [Hires -> {NotSigned} \cup {BuildAuthorization(h, v) : h \in Hires, v \in Vendors}]
  /\ mempool \subseteq Hires /\ hireEscrow \in [Hires -> {"EMPTY", "FUNDED", "CLOSED"}]
  /\ jobs \subseteq Hires /\ wallet \in Nat
  /\ click \in [Clicks -> [at : {"new", "sending", "sent", "done", "failed"}, since : 0 .. MaxHireTime,
                            fate : {"known", "unheard", "forgotten"},
                            told : {"nothing", "received", "error"}]]
  /\ lastDrip \in 0 .. MaxHireTime /\ dripped \subseteq sentDrips /\ sentDrips \subseteq Clicks
  /\ hireNow \in 1 .. MaxHireTime /\ mishaps \in 0 .. MaxMishaps

(* What the page tells the human of the money is true, however the         *)
(* relayer, the proxies and the chain race: "Agent is working. The verdict *)
(* will settle automatically" (HireFlow.tsx:190) only when a job will see  *)
(* to the escrow, no job before its escrow held the price, no escrow but   *)
(* over a signature for the seller of the registered task; "Received ...   *)
(* test USDC" (HireFlow.tsx:97) only when the drip is in the wallet.  Its  *)
(* "Nothing was charged" (HireFlow.tsx:203) is not among them: it may      *)
(* stand over a funded escrow.                                             *)
PageTellsTheMoney ==
  /\ \A c \in Clicks : click[c].told = "received" => c \in dripped
  /\ \A h \in Hires :
       /\ said[h] = "working" => h \in jobs
       /\ h \in jobs => hireEscrow[h] # "EMPTY"
       /\ hireEscrow[h] # "EMPTY" => signed[h] = BuildAuthorization(h, hireTask[h])

(* "Reserve the slot BEFORE the tx so a retry can't double-drip"           *)
(* (faucet.ts:47): however requests for an address interleave, no two      *)
(* drips reserved within one cooldown are sent between one restart of the  *)
(* worker and the next, while the faucet has heard of the fate of every    *)
(* one it sent since.                                                      *)
OneDripWhenHeard ==
  (\A c \in Clicks : click[c].fate # "unheard") =>
    \A c, d \in {e \in sentDrips : click[e].fate = "known"} :
      c # d => \/ click[c].since >= click[d].since + Cooldown
               \/ click[d].since >= click[c].since + Cooldown
=============================================================================
