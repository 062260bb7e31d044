---------------------------- MODULE VerdiktEscrow ----------------------------
(***************************************************************************)
(* The on-chain escrow (contracts/src/VerdiktEscrow.sol): per-work         *)
(* principal, funded by one of three paths, and closed by a verdict, a     *)
(* partial verdict or a no-show refund.                                    *)
(*                                                                         *)
(* A transaction is atomic, so each external function is one action whose  *)
(* guard is the conjunction of its requires, of the token's and of CCTP's; *)
(* a call that fails one of them reverts and changes nothing.              *)
(* USDC (an EIP-3009 token) and CCTP are external: `usdc' maps every       *)
(* holder, on Arc or on the home chain of a bridged payout, to its         *)
(* balance.                                                                *)
(***************************************************************************)
EXTENDS Integers, FiniteSets

CONSTANTS
  WorkIds,        \* bytes32 work identifiers
  Address,        \* addresses on Arc, the zero address included
  ZeroAddress,
  EscrowAddress,  \* this contract
  Senders,        \* the accounts that send transactions of their own
  Deployer,       \* msg.sender of the constructor: the owner, and first treasury
  InitialVerdict, \* the constructor's argument
  Remote,         \* (domain, recipient) pairs a payout can be bridged to
  NoRecipient,    \* bytes32(0): pay locally on Arc
  Evidence,       \* evidence hashes
  NoEvidence,     \* bytes32(0)
  Amounts, Fees, Ttls, BpsInputs,  \* the numbers callers pass
  Parties,        \* the addresses callers name as payer or worker
  Appointees,     \* the addresses the owner names in its calls
  StrayAmounts,   \* what plain transfers strand in the contract
  RouteInputs,    \* the payout routes callers pass
  Signed,         \* the EIP-3009 authorizations payers have signed
  InitialUsdc,    \* balances before the contract is used
  MaxTime         \* bound on the block timestamp

VARIABLES
  escrows,        \* mapping(bytes32 => Escrow)
  totalEscrowed,
  verdict, hook, feeRecipient,
  usdc,           \* token balance of every holder
  redeemed,       \* EIP-3009 authorizations used up, by (signer, nonce)
  payout,         \* what the emitted events say each escrow paid, by party
  now,            \* block.timestamp
  cctpUp          \* CCTP accepts depositForBurn

roles == <<verdict, hook, feeRecipient>>
world == <<now, cctpUp>>
vars == <<escrows, totalEscrowed, roles, usdc, redeemed, payout, world>>

Status == {"EMPTY", "FUNDED", "SETTLED"}
Outcome == {"RELEASE", "REFUND", "ABSTAIN", "PARTIAL", "EXPIRED"}
VerdictCode == {"pass", "fail", "partial", "abstain", "none"}
Recipient == Remote \cup {NoRecipient}
Holder == Address \cup Remote

BPS_DENOMINATOR == 10000

(* PayoutRoutes: where each side's money goes, chosen at funding time.     *)
Routes == [worker : Recipient, payer : Recipient]
LocalRoutes == [worker |-> NoRecipient, payer |-> NoRecipient]

Escrow == [payer : Address, worker : Address, amount : Nat, fee : Nat,
           deadline : Nat, status : Status, outcome : Outcome,
           verdictCode : VerdictCode, evidenceHash : Evidence \cup {NoEvidence},
           routes : Routes]

(* The zero value of the Solidity struct: outcome 0 is RELEASE, code 0 is  *)
(* pass, which is why only the status says whether they mean anything.     *)
EmptyEscrow == [payer |-> ZeroAddress, worker |-> ZeroAddress, amount |-> 0, fee |-> 0,
                deadline |-> 0, status |-> "EMPTY", outcome |-> "RELEASE",
                verdictCode |-> "pass", evidenceHash |-> NoEvidence,
                routes |-> LocalRoutes]

NoPayout == [worker |-> 0, payer |-> 0, treasury |-> 0]

(* The nonce a funding path derives.  Keccak is injective here, so the     *)
(* nonce is what it hashes; ttl is the relative one, and only the relayed  *)
(* path binds the routes.                                                  *)
NativeNonce(w, worker, amount, fee, ttl, payer) ==
  [path |-> "native", workId |-> w, worker |-> worker, amount |-> amount,
   fee |-> fee, ttl |-> ttl, payer |-> payer]

(* Mutant: the relayed nonce forgets the routes.                           *)
RelayedNonceUnrouted(w, worker, amount, fee, ttl, payer, routes) ==
  [path |-> "relayed", workId |-> w, worker |-> worker, amount |-> amount,
   fee |-> fee, ttl |-> ttl, payer |-> payer, routes |-> LocalRoutes]

RelayedNonce(w, worker, amount, fee, ttl, payer, routes) ==
  [path |-> "relayed", workId |-> w, worker |-> worker, amount |-> amount,
   fee |-> fee, ttl |-> ttl, payer |-> payer, routes |-> routes]

ASSUME AddressAssumption ==
  /\ {ZeroAddress, EscrowAddress, Deployer, InitialVerdict} \subseteq Address
  /\ ZeroAddress \notin {EscrowAddress, Deployer, InitialVerdict}
  /\ Senders \subseteq Address \ {ZeroAddress, EscrowAddress}
  /\ Parties \subseteq Address /\ Appointees \subseteq Address /\ RouteInputs \subseteq Routes
  /\ NoRecipient \notin Remote /\ Remote \cap Address = {}
ASSUME NumbersAssumption ==
  /\ Amounts \subseteq Nat /\ Fees \subseteq Nat /\ Ttls \subseteq Nat /\ BpsInputs \subseteq Nat
  /\ StrayAmounts \subseteq Nat
  /\ MaxTime \in Nat
ASSUME TokenAssumption ==
  /\ InitialUsdc \in [Holder -> Nat]
  /\ \A a \in Signed : a.from \in Senders /\ a.value \in Nat
------------------------------------------------------------------------------
(* The token.  A transfer the sender cannot cover reverts.                 *)
Transfer(balances, from, to, n) ==
  [[balances EXCEPT ![from] = @ - n] EXCEPT ![to] = @ + n]

(* receiveWithAuthorization: the signature must be over exactly this value *)
(* and nonce, inside its validity window, and not used before.             *)
Authorized(from, value, nonce) ==
  /\ \E a \in Signed : /\ a.from = from /\ a.value = value /\ a.nonce = nonce
                       /\ a.validAfter < now /\ now < a.validBefore
  /\ [from |-> from, nonce |-> nonce] \notin redeemed
  /\ value <= usdc[from]

(* _route: where a payout to one side goes, and whether CCTP takes it.  A  *)
(* zero amount is not sent at all.                                         *)
Payee(recipient, localTo) == IF recipient = NoRecipient THEN localTo ELSE recipient
Routable(recipient, n) == recipient = NoRecipient \/ n = 0 \/ cctpUp
------------------------------------------------------------------------------
Init ==
  /\ escrows = [w \in WorkIds |-> EmptyEscrow]
  /\ totalEscrowed = 0
  /\ verdict = InitialVerdict
  /\ hook = ZeroAddress
  /\ feeRecipient = Deployer
  /\ usdc = InitialUsdc
  /\ redeemed = {}
  /\ payout = [w \in WorkIds |-> NoPayout]
  /\ now = 0
  /\ cctpUp = TRUE

SetVerdict(sender, new) ==
  /\ sender = Deployer /\ new # ZeroAddress
  /\ verdict' = new
  /\ UNCHANGED <<escrows, totalEscrowed, hook, feeRecipient, usdc, redeemed, payout, world>>

SetFeeRecipient(sender, new) ==
  /\ sender = Deployer /\ new # ZeroAddress
  /\ feeRecipient' = new
  /\ UNCHANGED <<escrows, totalEscrowed, verdict, hook, usdc, redeemed, payout, world>>

SetHook(sender, new) ==
  /\ sender = Deployer
  /\ hook' = new
  /\ UNCHANGED <<escrows, totalEscrowed, verdict, feeRecipient, usdc, redeemed, payout, world>>
------------------------------------------------------------------------------
(* Mutant: only an escrow that still holds funds keeps its work id.        *)
FundableAgain(w, payer, worker, amount, fee, ttl) ==
  /\ escrows[w].status # "FUNDED"
  /\ amount > 0 /\ fee < amount /\ ttl > 0
  /\ worker # ZeroAddress /\ payer # ZeroAddress
  /\ now + ttl < MaxTime

(* The requires all three funding paths share.                             *)
Fundable(w, payer, worker, amount, fee, ttl) ==
  /\ escrows[w].status = "EMPTY"
  /\ amount > 0 /\ fee < amount /\ ttl > 0
  /\ worker # ZeroAddress /\ payer # ZeroAddress
  /\ now + ttl < MaxTime  \* bound: every deadline can pass

(* _record: the fields a verdict will set still have their zero value.     *)
Record(w, payer, worker, amount, fee, ttl, routes) ==
  /\ totalEscrowed' = totalEscrowed + amount
  /\ escrows' = [escrows EXCEPT ![w] =
       [payer |-> payer, worker |-> worker, amount |-> amount, fee |-> fee,
        deadline |-> now + ttl, status |-> "FUNDED", outcome |-> "RELEASE",
        verdictCode |-> "pass", evidenceHash |-> NoEvidence, routes |-> routes]]

(* The authorized hook pushes USDC it holds on Arc.                        *)
FundCrossChain(sender, w, payer, worker, amount, fee, ttl, routes) ==
  /\ sender = hook
  /\ Fundable(w, payer, worker, amount, fee, ttl)
  /\ Record(w, payer, worker, amount, fee, ttl, routes)
  /\ amount <= usdc[sender]
  /\ usdc' = Transfer(usdc, sender, EscrowAddress, amount)
  /\ UNCHANGED <<roles, redeemed, payout, world>>

(* The two EIP-3009 paths end alike: the signer's USDC is pulled under the *)
(* derived nonce and the escrow is recorded.                               *)
FundByAuthorization(nonce, w, payer, worker, amount, fee, ttl, routes) ==
  /\ Fundable(w, payer, worker, amount, fee, ttl)
  /\ Authorized(payer, amount, nonce)
  /\ usdc' = Transfer(usdc, payer, EscrowAddress, amount)
  /\ redeemed' = redeemed \cup {[from |-> payer, nonce |-> nonce]}
  /\ Record(w, payer, worker, amount, fee, ttl, routes)
  /\ UNCHANGED <<roles, payout, world>>

(* fundWithAuthorization: the payer sends it, and picks the routes then.   *)
FundWithAuthorization(sender, w, worker, amount, fee, ttl, routes) ==
  FundByAuthorization(NativeNonce(w, worker, amount, fee, ttl, sender),
                      w, sender, worker, amount, fee, ttl, routes)

(* fundWithAuthorizationFor: anyone relays it.                             *)
FundWithAuthorizationFor(payer, w, worker, amount, fee, ttl, routes) ==
  FundByAuthorization(RelayedNonce(w, worker, amount, fee, ttl, payer, routes),
                      w, payer, worker, amount, fee, ttl, routes)
------------------------------------------------------------------------------
(* Every way out marks the escrow SETTLED and takes its principal off the  *)
(* books before any money moves.  Solidity's checked subtraction and the   *)
(* token refuse what the books or the balance do not cover.                *)
Close(w, outcome, code, hash) ==
  /\ escrows[w].status = "FUNDED"
  /\ escrows' = [escrows EXCEPT ![w].status = "SETTLED", ![w].outcome = outcome,
                                ![w].verdictCode = code, ![w].evidenceHash = hash]
  /\ escrows[w].amount <= totalEscrowed
  /\ escrows[w].amount <= usdc[EscrowAddress]
  /\ totalEscrowed' = totalEscrowed - escrows[w].amount

(* The transfers of a close: the worker's part, the payer's part, then the *)
(* fee, and the events that report them.                                   *)
PayOut(w, toWorker, toPayer, toTreasury) ==
  LET e == escrows[w]
      afterWorker == Transfer(usdc, EscrowAddress, Payee(e.routes.worker, e.worker), toWorker)
      afterPayer  == Transfer(afterWorker, EscrowAddress, Payee(e.routes.payer, e.payer), toPayer)
  IN /\ Routable(e.routes.worker, toWorker)
     /\ Routable(e.routes.payer, toPayer)
     /\ usdc' = Transfer(afterPayer, EscrowAddress, feeRecipient, toTreasury)
     /\ payout' = [payout EXCEPT ![w] =
                     [worker |-> toWorker, payer |-> toPayer, treasury |-> toTreasury]]

(* The outcome is derived from the code: every code but pass, abstain and  *)
(* the rejected partial is a refund.                                       *)
OutcomeOf(code) ==
  CASE code = "pass"    -> "RELEASE"
    [] code = "abstain" -> "ABSTAIN"
    [] OTHER            -> "REFUND"

Settle(sender, w, code, hash) ==
  LET e == escrows[w]
      outcome == OutcomeOf(code)
  IN /\ sender = verdict /\ code # "partial"
     /\ Close(w, outcome, code, hash)
     /\ \/ outcome = "RELEASE" /\ PayOut(w, e.amount - e.fee, 0, e.fee)
        \/ outcome = "ABSTAIN" /\ PayOut(w, 0, e.amount, 0)
        \/ outcome = "REFUND"  /\ PayOut(w, 0, e.amount - e.fee, e.fee)
     /\ UNCHANGED <<roles, redeemed, world>>

WorkerShare(bounty, bps) == (bounty * bps) \div BPS_DENOMINATOR

(* Mutant: the two parts of a split are rounded down independently.        *)
SettlePartialRounded(sender, w, bps, hash) ==
  LET e == escrows[w]
      bounty == e.amount - e.fee
  IN /\ sender = verdict
     /\ bps > 0 /\ bps < BPS_DENOMINATOR
     /\ Close(w, "PARTIAL", "partial", hash)
     /\ PayOut(w, WorkerShare(bounty, bps), WorkerShare(bounty, BPS_DENOMINATOR - bps), e.fee)
     /\ UNCHANGED <<roles, redeemed, world>>

SettlePartial(sender, w, bps, hash) ==
  LET e == escrows[w]
      bounty == e.amount - e.fee
      toWorker == WorkerShare(bounty, bps)
  IN /\ sender = verdict
     /\ bps > 0 /\ bps < BPS_DENOMINATOR
     /\ Close(w, "PARTIAL", "partial", hash)
     /\ PayOut(w, toWorker, bounty - toWorker, e.fee)
     /\ UNCHANGED <<roles, redeemed, world>>

(* Mutants: the fee is not given back; the caller is refunded; the         *)
(* comparison with the deadline is the wrong way round.                    *)
RefundExpiredLessFee(sender, w) ==
  LET e == escrows[w]
  IN /\ sender = e.payer \/ sender = verdict
     /\ now > e.deadline
     /\ Close(w, "EXPIRED", "none", e.evidenceHash)
     /\ PayOut(w, 0, e.amount - e.fee, 0)
     /\ UNCHANGED <<roles, redeemed, world>>

RefundExpiredToSender(sender, w) ==
  LET e == escrows[w]
  IN /\ sender = e.payer \/ sender = verdict
     /\ now > e.deadline
     /\ Close(w, "EXPIRED", "none", e.evidenceHash)
     /\ usdc' = Transfer(usdc, EscrowAddress, sender, e.amount)
     /\ payout' = [payout EXCEPT ![w].payer = e.amount]
     /\ UNCHANGED <<roles, redeemed, world>>

RefundExpiredEarly(sender, w) ==
  LET e == escrows[w]
  IN /\ sender = e.payer \/ sender = verdict
     /\ now < e.deadline
     /\ Close(w, "EXPIRED", "none", e.evidenceHash)
     /\ PayOut(w, 0, e.amount, 0)
     /\ UNCHANGED <<roles, redeemed, world>>

RefundExpired(sender, w) ==
  LET e == escrows[w]
  IN /\ sender = e.payer \/ sender = verdict
     /\ now > e.deadline
     /\ Close(w, "EXPIRED", "none", e.evidenceHash)
     /\ PayOut(w, 0, e.amount, 0)
     /\ UNCHANGED <<roles, redeemed, world>>

(* Mutant: sweep takes the balance, not what is above the books.           *)
SweepAll(sender, to) ==
  /\ sender = Deployer /\ to # ZeroAddress
  /\ usdc[EscrowAddress] > 0
  /\ usdc' = Transfer(usdc, EscrowAddress, to, usdc[EscrowAddress])
  /\ UNCHANGED <<escrows, totalEscrowed, roles, redeemed, payout, world>>

(* sweep: the owner recovers the balance above the books, never below.     *)
Sweep(sender, to) ==
  LET free == usdc[EscrowAddress] - totalEscrowed
  IN /\ sender = Deployer /\ to # ZeroAddress
     /\ free > 0
     /\ usdc' = Transfer(usdc, EscrowAddress, to, free)
     /\ UNCHANGED <<escrows, totalEscrowed, roles, redeemed, payout, world>>
------------------------------------------------------------------------------
(* The world around the contract: a plain ERC-20 transfer that strands     *)
(* USDC in it, blocks, and CCTP being paused and resumed.                  *)
StrayTransfer(from, amount) ==
  /\ amount <= usdc[from]
  /\ usdc' = Transfer(usdc, from, EscrowAddress, amount)
  /\ UNCHANGED <<escrows, totalEscrowed, roles, redeemed, payout, world>>

Tick ==
  /\ now < MaxTime
  /\ now' = now + 1
  /\ UNCHANGED <<escrows, totalEscrowed, roles, usdc, redeemed, payout, cctpUp>>

CctpFlip ==
  /\ cctpUp' = ~cctpUp
  /\ UNCHANGED <<escrows, totalEscrowed, roles, usdc, redeemed, payout, now>>

Administer(sender) ==
  \E new \in Appointees : \/ SetVerdict(sender, new)
                       \/ SetFeeRecipient(sender, new)
                       \/ SetHook(sender, new)
                       \/ Sweep(sender, new)

Fund(sender) ==
  \E w \in WorkIds, worker \in Parties, amount \in Amounts, fee \in Fees,
     ttl \in Ttls, routes \in RouteInputs :
       \/ FundWithAuthorization(sender, w, worker, amount, fee, ttl, routes)
       \/ \E payer \in Parties :
            \/ FundWithAuthorizationFor(payer, w, worker, amount, fee, ttl, routes)
            \/ FundCrossChain(sender, w, payer, worker, amount, fee, ttl, routes)

Resolve(sender) ==
  \E w \in WorkIds :
    \/ \E hash \in Evidence :
         \/ \E code \in VerdictCode : Settle(sender, w, code, hash)
         \/ \E bps \in BpsInputs : SettlePartial(sender, w, bps, hash)
    \/ RefundExpired(sender, w)

Next ==
  \/ \E sender \in Senders : Administer(sender) \/ Fund(sender) \/ Resolve(sender)
  \/ \E from \in Senders, amount \in StrayAmounts : StrayTransfer(from, amount)
  \/ Tick
  \/ CctpFlip

Spec == Init /\ [][Next]_vars
------------------------------------------------------------------------------
TypeOK ==
  /\ escrows \in [WorkIds -> Escrow]
  /\ totalEscrowed \in Nat
  /\ verdict \in Address \ {ZeroAddress}
  /\ hook \in Address
  /\ feeRecipient \in Address \ {ZeroAddress}
  /\ usdc \in [Holder -> Nat]
  /\ payout \in [WorkIds -> [worker : Nat, payer : Nat, treasury : Nat]]
  /\ now \in 0 .. MaxTime
  /\ cctpUp \in BOOLEAN

(* One element per unit of principal of a FUNDED escrow, so that the sum   *)
(* of the principals is a cardinality.                                     *)
EscrowedUnits ==
  UNION {{w} \X (1 .. escrows[w].amount) : w \in {x \in WorkIds : escrows[x].status = "FUNDED"}}

(* Solvency.  The books equal the sum of the principals of the FUNDED      *)
(* escrows, and the contract always holds at least that much USDC: neither *)
(* a settlement of another work, nor sweep, nor a payout bridged or paid   *)
(* back to the contract itself can eat into it (VerdiktEscrow.sol:86-87).  *)
Backed ==
  /\ totalEscrowed = Cardinality(EscrowedUnits)
  /\ totalEscrowed <= usdc[EscrowAddress]

(* A principal leaves whole and once: what a settled escrow's events report *)
(* adds up to its amount, rounding included, and before that nothing left. *)
PaidInFullOnce ==
  \A w \in WorkIds :
    payout[w].worker + payout[w].payer + payout[w].treasury
      = IF escrows[w].status = "SETTLED" THEN escrows[w].amount ELSE 0

(* No authorization is used up in vain: whatever was redeemed backs an     *)
(* escrow recorded with the very terms that were signed, the routes too on *)
(* the relayed path, with a deadline ttl after a moment of its validity.   *)
NoStrandedAuthorization ==
  \A r \in redeemed :
    LET n == r.nonce
        e == escrows[n.workId]
    IN /\ e.status # "EMPTY"
       /\ <<e.payer, e.worker, e.amount, e.fee>> = <<r.from, n.worker, n.amount, n.fee>>
       /\ n.path = "relayed" => e.routes = n.routes
       /\ \E a \in Signed : /\ a.from = r.from /\ a.nonce = n /\ a.value = e.amount
                            /\ a.validAfter < e.deadline - n.ttl
                            /\ e.deadline - n.ttl < a.validBefore

(* The terms of an escrow never change once recorded, and a settled escrow *)
(* never changes at all: no second settlement, no refund after a verdict,  *)
(* no re-funding of a used work id.                                        *)
Terms(e) == <<e.payer, e.worker, e.amount, e.fee, e.deadline, e.routes>>
TermsAreFinal ==
  [][\A w \in WorkIds :
       /\ escrows[w].status # "EMPTY" => Terms(escrows'[w]) = Terms(escrows[w])
       /\ escrows[w].status = "SETTLED" => escrows'[w] = escrows[w]]_vars

(* A settlement pays nobody but the parties bound at funding time and the  *)
(* treasury, and nobody loses by it but the contract.                      *)
OnlyBoundPartiesPaid ==
  [][\A w \in WorkIds :
       escrows[w].status = "FUNDED" /\ escrows'[w].status = "SETTLED" =>
         LET e == escrows[w]
             workerSide == Payee(e.routes.worker, e.worker)
             payerSide == Payee(e.routes.payer, e.payer)
         IN \A h \in Holder \ {EscrowAddress} :
              /\ usdc'[h] >= usdc[h]
              /\ usdc'[h] > usdc[h] => h \in {workerSide, payerSide, feeRecipient}
              /\ h = feeRecipient /\ h \notin {workerSide, payerSide}
                   => usdc'[h] - usdc[h] \in {0, e.fee}]_vars

(* The contract keeps its promise: every step of it opens, holds or closes *)
(* a deal of EscrowPromise, or leaves the deals alone.                     *)
dealView ==
  [w \in WorkIds |->
     [phase      |-> CASE escrows[w].status = "EMPTY"   -> "none"
                       [] escrows[w].status = "FUNDED"  -> "held"
                       [] escrows[w].status = "SETTLED" -> "closed",
      principal  |-> escrows[w].amount,
      feeTerm    |-> escrows[w].fee,
      toWorker   |-> payout[w].worker,
      toPayer    |-> payout[w].payer,
      toTreasury |-> payout[w].treasury]]
Custody == INSTANCE EscrowPromise WITH deal <- dealView
KeepsPromise == Custody!Promise

(* The no-show backstop.  Time passes, CCTP comes back, and somebody with  *)
(* the lever, the buyer or the court's keeper, keeps trying: then no       *)
(* principal stays locked, whatever else happened to the other escrows.    *)
Levers ==
  /\ WF_vars(~cctpUp /\ CctpFlip)
  /\ \A w \in WorkIds : SF_vars(\E sender \in Senders : RefundExpired(sender, w))
Backstop == WF_vars(Tick) /\ Levers
FairSpec == Spec /\ Backstop
NoPrincipalLocked ==
  \A w \in WorkIds : escrows[w].status = "FUNDED" ~> escrows[w].status = "SETTLED"
=============================================================================
