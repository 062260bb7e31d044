--------------------------- MODULE CrossChainClient ---------------------------
(***************************************************************************)
(* What a client of the SDK does around the escrow when a party lives on   *)
(* another chain (sdk/src/crosschain.ts).  Inbound, the payer's key burns  *)
(* USDC on its source chain with the escrow terms as hook data, waits for  *)
(* the attestation service (Iris) and relays the message to the hook on    *)
(* Arc, which mints and funds.  Outbound, the settlement burns each routed *)
(* share on Arc and relayOutbound delivers a burn on the recipient's chain.*)
(*                                                                         *)
(* Attested messages may be relayed by anyone; so may one a client gave up *)
(* on, when its own transaction lands late.  Contract and hook have        *)
(* modules of their own: here an escrow is what a client can read of it.   *)
(***************************************************************************)
EXTENDS Naturals, Sequences

CONSTANTS
  ClientWorks,       \* the works paid for, and the transfers of the bridging script
  Kind,        \* how: "local", "cross", by the "mcp" tool or by "hand" without the SDK;
               \* or a "bridge" transfer
  Scenarios,   \* which of them are under way together
  Amount,      \* what the payer puts in
  TransferFee, \* the most a Fast Transfer takes of it, maxFee
  Routes,      \* payout routes a work may be funded with
  Arc          \* the home of a party without a route

VARIABLES
  client,    \* where the payer's call is
  allowance, \* of the payer's key for the TokenMessenger, on the source chain
  shown,     \* what a lagging node still shows of it
  message,   \* CCTP messages: 0 the funding burn, 1 and 2 the settlement's burns
  escrow,    \* what getEscrow answers
  relay      \* the relayOutbound calls

chainVars == <<client, allowance, shown, message, escrow, relay>>

Homes == {r.worker : r \in Routes} \cup {r.payer : r \in Routes} \cup {Arc}
PaymentKinds == {"local", "cross", "mcp", "hand", "bridge"}
Parties == {"worker", "payer"}

ASSUME ClientAssumption ==
  /\ Kind \in [ClientWorks -> PaymentKinds] /\ Amount \in [ClientWorks -> Nat \ {0}]
  /\ TransferFee \in Nat /\ Routes \subseteq [Parties -> Homes]
  /\ \A w \in ClientWorks : Amount[w] > TransferFee

PaidOutcomes == {"release", "refund", "partial", "abstain", "expired"}
NoEscrow == [status |-> "EMPTY", amount |-> 0, worker |-> "nobody", routes |-> [p \in Parties |-> Arc],
             deadline |-> 0, outcome |-> "none"]

ClientInit ==
  /\ \E together \in Scenarios :
       client = [w \in ClientWorks |-> IF w \in together THEN "new" ELSE "absent"]
  /\ allowance = 0 /\ shown = 0
  /\ message = [m \in ClientWorks \X (0 .. 2) |-> "none"]
  /\ escrow = [w \in ClientWorks |-> NoEscrow]
  /\ relay = [x \in ClientWorks \X Homes |-> "idle"]

ClientGoesTo(w, step) == client' = [client EXCEPT ![w] = step]
ClientFails(w) == ClientGoesTo(w, "failed")
Becomes(m, state) == message' = [message EXCEPT ![m] = state]

Funded(w, amount, worker, routes, deadline) ==
  escrow' = [escrow EXCEPT ![w] = [status |-> "FUNDED", amount |-> amount, worker |-> worker,
                                   routes |-> routes, deadline |-> deadline, outcome |-> "none"]]
------------------------------------------------------------------------------
(* depositForBurnWithHook.  The allowance is the key's, so concurrent      *)
(* transfers overwrite and spend each other's.                             *)
Approve(w) ==
  /\ client[w] = "ready"
  /\ \/ /\ shown' = allowance /\ allowance' = Amount[w]
        /\ ClientGoesTo(w, "approved") \/ ClientFails(w)  \* the receipt never came
     \/ ClientFails(w) /\ UNCHANGED <<allowance, shown>>
  /\ UNCHANGED <<message, escrow, relay>>

(* Thirty-one readings, each answered by a node that may lag.              *)
PollAllowance(w) ==
  /\ client[w] = "approved"
  /\ \/ \E seen \in {allowance, shown} : seen >= Amount[w] /\ ClientGoesTo(w, "visible")
     \/ \E seen \in {allowance, shown} : seen < Amount[w] /\ ClientFails(w)
  /\ UNCHANGED <<allowance, shown, message, escrow, relay>>

DepositForBurnWithHook(w) ==
  /\ client[w] = "visible"
  /\ \/ /\ allowance >= Amount[w]
        /\ shown' = allowance /\ allowance' = allowance - Amount[w]
        /\ Becomes(<<w, 0>>, "sent")
        /\ ClientGoesTo(w, "burned") \/ ClientFails(w)  \* 90 s without a receipt
     \/ /\ allowance < Amount[w]
        /\ ClientFails(w) /\ UNCHANGED <<allowance, shown, message>>
  /\ UNCHANGED <<escrow, relay>>

(* Iris attests a burn, after seconds or twenty minutes.                   *)
Attest(m) ==
  /\ message[m] = "sent"
  /\ Becomes(m, "attested")
  /\ UNCHANGED <<client, allowance, shown, escrow, relay>>

(* pollAttestation: the first message of the burn transaction.             *)
Attested(w, first) == message[<<w, first>>] \in {"attested", "delivered"}

PollInbound(w) ==
  /\ client[w] = "burned"
  /\ IF Attested(w, 0) THEN ClientGoesTo(w, "attested") ELSE ClientFails(w)  \* timeoutMs passed
  /\ UNCHANGED <<allowance, shown, message, escrow, relay>>

(* The hook mints and funds in one transaction; what the transfer took is  *)
(* missing from the escrow.                                                *)
HookFunds(w, terms) ==
  /\ message[<<w, 0>>] = "attested"
  /\ Becomes(<<w, 0>>, "delivered")
  /\ \E took \in 0 .. TransferFee :
       Funded(w, Amount[w] - took, terms.worker, terms.routes, terms.deadline)

MintAndFund(w, terms) ==
  /\ client[w] = "attested" /\ Kind[w] = "cross"
  /\ \/ HookFunds(w, terms) /\ ClientGoesTo(w, "funded")
     \/ ClientFails(w) /\ UNCHANGED <<message, escrow>>  \* reverted, or 60 s without a receipt
  /\ UNCHANGED <<allowance, shown, relay>>

AnyoneFunds(w, terms) ==
  /\ Kind[w] = "cross"
  /\ HookFunds(w, terms)
  /\ UNCHANGED <<client, allowance, shown, relay>>

FundCrossChain(w) ==
  /\ Kind[w] = "cross"
  /\ Approve(w) \/ PollAllowance(w) \/ DepositForBurnWithHook(w) \/ PollInbound(w)

(* agents/bridge-usdc.ts moves USDC of the same key to another chain, in   *)
(* the same steps, unless the target is funded already.                    *)
ProvisionTarget(w) ==
  /\ client[w] = "new"
  /\ ClientGoesTo(w, "ready") \/ ClientGoesTo(w, "minted")
  /\ UNCHANGED <<allowance, shown, message, escrow, relay>>

ReceiveBridged(w) ==
  /\ client[w] = "attested"
  /\ \/ message[<<w, 0>>] = "attested" /\ Becomes(<<w, 0>>, "delivered") /\ ClientGoesTo(w, "minted")
     \/ ClientFails(w) /\ UNCHANGED message
  /\ UNCHANGED <<allowance, shown, escrow, relay>>

BridgeOne(w) ==
  /\ Kind[w] = "bridge"
  /\ \/ ProvisionTarget(w) \/ Approve(w) \/ PollAllowance(w) \/ DepositForBurnWithHook(w)
     \/ PollInbound(w) \/ ReceiveBridged(w)
------------------------------------------------------------------------------
(* Settling burns the routed shares in the order the contract pays them.   *)
Routed(w, p) == IF escrow[w].routes[p] = Arc THEN <<>> ELSE <<p>>
Burns(w, outcome) ==
  (IF outcome \in {"release", "partial"} THEN Routed(w, "worker") ELSE <<>>)
    \o (IF outcome # "release" THEN Routed(w, "payer") ELSE <<>>)
PaidLegs(w) == IF escrow[w].outcome = "none" THEN <<>> ELSE Burns(w, escrow[w].outcome)

Settle(w, outcome) ==
  /\ escrow[w].status = "FUNDED"
  /\ escrow' = [escrow EXCEPT ![w].status = "SETTLED", ![w].outcome = outcome]
  /\ message' = [m \in DOMAIN message |->
                   IF m[1] = w /\ m[2] \in DOMAIN Burns(w, outcome) THEN "sent" ELSE message[m]]

(* relayOutbound(settleTxHash, destChain), called for a party's chain.     *)
RelayOutbound(w, home) ==
  /\ relay[<<w, home>>] \in {"idle", "gave up"}
  /\ \E i \in DOMAIN PaidLegs(w) : escrow[w].routes[PaidLegs(w)[i]] = home
  /\ relay' = [relay EXCEPT ![<<w, home>>] = "polling"]
  /\ UNCHANGED <<client, allowance, shown, message, escrow>>

PollPayout(w, home) ==
  /\ relay[<<w, home>>] = "polling"
  /\ relay' = [relay EXCEPT ![<<w, home>>] = IF Attested(w, 1) THEN "attested" ELSE "gave up"]
  /\ UNCHANGED <<client, allowance, shown, message, escrow>>

(* Mutant: the outcome of receiveMessage is not looked at.                 *)
ReceiveUnchecked(w, home) ==
  /\ relay[<<w, home>>] = "attested"
  /\ relay' = [relay EXCEPT ![<<w, home>>] = "done"]
  /\ UNCHANGED <<client, allowance, shown, message, escrow>>

(* receiveMessage reverts on a chain the message is not for, and the       *)
(* second time on the one it is for.                                       *)
ReceiveMessage(w, home) ==
  /\ relay[<<w, home>>] = "attested"
  /\ IF message[<<w, 1>>] = "attested" /\ escrow[w].routes[PaidLegs(w)[1]] = home
     THEN /\ Becomes(<<w, 1>>, "delivered")
          /\ relay' = [relay EXCEPT ![<<w, home>>] = "done"]
     ELSE /\ relay' = [relay EXCEPT ![<<w, home>>] = "reverted"]
          /\ UNCHANGED message
  /\ UNCHANGED <<client, allowance, shown, escrow>>

AnyoneDelivers(w, i) ==
  /\ i # 0 /\ message[<<w, i>>] = "attested"
  /\ Becomes(<<w, i>>, "delivered")
  /\ UNCHANGED <<client, allowance, shown, escrow, relay>>

TransferStep(w) ==
  \/ FundCrossChain(w) \/ BridgeOne(w)
  \/ \E i \in 0 .. 2 : Attest(<<w, i>>) \/ AnyoneDelivers(w, i)
  \/ \E home \in Homes : RelayOutbound(w, home) \/ PollPayout(w, home) \/ ReceiveMessage(w, home)
------------------------------------------------------------------------------
ClientTypeOK ==
  /\ client \in [ClientWorks -> {"absent", "new", "ready", "approved", "visible", "burned", "attested",
                           "minted", "funded", "offered", "swapped", "failed"}]
  /\ allowance \in Nat /\ shown \in Nat
  /\ message \in [ClientWorks \X (0 .. 2) -> {"none", "sent", "attested", "delivered"}]
  /\ escrow \in [ClientWorks -> [status : {"EMPTY", "FUNDED", "SETTLED"}, amount : Nat,
                           worker : {"nobody", "seller", "other"}, routes : [Parties -> Homes],
                           deadline : Nat, outcome : PaidOutcomes \cup {"none"}]]
  /\ relay \in [ClientWorks \X Homes -> {"idle", "polling", "attested", "done", "reverted", "gave up"}]

Delivered(w, home) ==
  \A i \in DOMAIN PaidLegs(w) :
    escrow[w].routes[PaidLegs(w)[i]] = home => message[<<w, i>>] = "delivered"

(* A relay call that ended with a receipt, good or reverted, leaves the    *)
(* share of that chain delivered, when the settlement burned one share: a  *)
(* revert only ever says that somebody else delivered it first.            *)
RelayEndsDelivered ==
  \A w \in ClientWorks, home \in Homes :
    Len(PaidLegs(w)) = 1 /\ relay[<<w, home>>] \in {"done", "reverted"} => Delivered(w, home)
=============================================================================
