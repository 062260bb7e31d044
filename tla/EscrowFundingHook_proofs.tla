---------------------- MODULE EscrowFundingHook_proofs ----------------------
(***************************************************************************)
(* What the hook and the escrow guarantee together, for every set of       *)
(* messages, whoever relays them and whatever the owner does, checked by   *)
(* TLAPS.  The hook's steps are steps of the books as the escrow's own.    *)
(***************************************************************************)
EXTENDS EscrowFundingHook, VerdiktEscrow_proofs

(* A step that only moves USDC, and takes none from the escrow.            *)
LEMMA MovedLemma ==
  ASSUME IInv, UNCHANGED <<escrows, totalEscrowed, roles, payout, world>>,
         usdc' \in [Holder -> Nat], usdc'[EscrowAddress] >= usdc[EscrowAddress]
  PROVE  BookStep /\ OthersTyped
  <1>1. EscrowAddress \in Holder  BY AddressAssumption DEF Holder
  <1>2. usdc'[EscrowAddress] >= totalEscrowed  BY <1>1 DEF IInv, TypeOK, Backed
  <1>3. Quiet  BY <1>2 DEF Quiet
  <1> QED  BY <1>3 DEF BookStep, OthersTyped, IInv, TypeOK, roles, world

(* The joint transaction: what is minted is what the escrow records.       *)
LEMMA MintAndFundLemma ==
  ASSUME IInv, NEW m \in Messages, MintAndFund(m)
  PROVE  BookStep /\ OthersTyped
  <1>1. /\ m.minted \in Nat /\ m.fee \in Nat /\ m.ttl \in Nat /\ m.workId \in WorkIds
        /\ m.payer \in Address /\ m.worker \in Address /\ m.routes \in Routes
    BY MessagesAssumption
  <1>2. EscrowAddress \in Holder /\ usdc \in [Holder -> Nat]
    BY AddressAssumption DEF Holder, IInv, TypeOK
  <1>3. usdc' = [usdc EXCEPT ![EscrowAddress] = @ + m.minted]  BY DEF MintAndFund
  <1>4. usdc' \in [Holder -> Nat] /\ usdc'[EscrowAddress] >= usdc[EscrowAddress] + m.minted
    BY <1>1, <1>2, <1>3
  <1>5. /\ Fundable(m.workId, m.payer, m.worker, m.minted, m.fee, m.ttl)
        /\ Record(m.workId, m.payer, m.worker, m.minted, m.fee, m.ttl, m.routes)
        /\ payout' = payout
    BY DEF MintAndFund
  <1>6. Opened(m.workId)  BY <1>1, <1>4, <1>5, RecordLemma DEF IInv
  <1>7. OthersTyped  BY <1>4 DEF MintAndFund, OthersTyped, IInv, TypeOK, roles, world
  <1> QED  BY <1>1, <1>6, <1>7 DEF BookStep

(* The owner's valves.                                                     *)
LEMMA ValvesLemma ==
  ASSUME IInv, NEW sender \in Senders, Valves(sender)
  PROVE  BookStep /\ OthersTyped
  <1>1. /\ HookAddress \in Holder /\ EscrowAddress \in Holder /\ usdc \in [Holder -> Nat]
        /\ HookAddress \in Address \ {EscrowAddress}
    BY AddressAssumption, MessagesAssumption DEF Holder, IInv, TypeOK
  <1>2. ASSUME NEW m \in Messages, AdminMint(sender, m)  PROVE BookStep /\ OthersTyped
    <2>1. m.minted \in Nat  BY MessagesAssumption
    <2>2. usdc' = [usdc EXCEPT ![HookAddress] = @ + m.minted]  BY <1>2 DEF AdminMint
    <2>3. usdc' \in [Holder -> Nat] /\ usdc'[EscrowAddress] >= usdc[EscrowAddress]
      BY <1>1, <2>1, <2>2
    <2> QED  BY <1>2, <2>3, MovedLemma DEF AdminMint
  <1>3. ASSUME NEW w \in WorkIds, NEW payer \in Parties, NEW worker \in Parties,
               NEW amount \in Amounts, AdminFundFromBalance(sender, w, payer, worker, amount)
        PROVE  BookStep /\ OthersTyped
    <2>1. FundCrossChain(HookAddress, w, payer, worker, amount, 0, AdminFallbackTtl, LocalRoutes)
      BY <1>3 DEF AdminFundFromBalance
    <2>2. /\ payer \in Address /\ worker \in Address /\ amount \in Nat
          /\ AdminFallbackTtl \in Nat /\ 0 \in Nat
      BY AddressAssumption, NumbersAssumption, MessagesAssumption
    <2>3. LocalRoutes \in Routes  BY DEF LocalRoutes, Routes, Recipient
    <2>4. Opened(w) /\ OthersTyped  BY <1>1, <2>1, <2>2, <2>3, FundCrossChainLemma
    <2> QED  BY <2>4 DEF BookStep
  <1>4. ASSUME NEW to \in RescueTo, Rescue(sender, to)  PROVE BookStep /\ OthersTyped
    <2>1. to \in Holder  BY MessagesAssumption DEF Holder
    <2>2. usdc' = Transfer(usdc, HookAddress, to, usdc[HookAddress])  BY <1>4 DEF Rescue
    <2>3. usdc[HookAddress] \in Nat  BY <1>1
    <2>4. usdc' \in [Holder -> Nat] /\ usdc'[EscrowAddress] >= usdc[EscrowAddress]
      BY <1>1, <2>1, <2>2, <2>3, TransferLemma
    <2> QED  BY <1>4, <2>4, MovedLemma DEF Rescue
  <1>5. ASSUME NEW new \in Appointees, TransferOwnership(sender, new)
        PROVE  BookStep /\ OthersTyped
    <2>1. UNCHANGED <<escrows, totalEscrowed, roles, payout, world>> /\ usdc' = usdc
      BY <1>5 DEF TransferOwnership, vars, roles, world
    <2>2. usdc'[EscrowAddress] >= usdc[EscrowAddress]  BY <1>1, <2>1
    <2> QED  BY <1>1, <2>1, <2>2, MovedLemma
  <1> QED  BY <1>2, <1>3, <1>4, <1>5 DEF Valves

(* Every step of the two contracts is, for the books, one of three.        *)
LEMMA HookStepLemma ==
  ASSUME IInv, [HookNext]_allVars
  PROVE  BookStep /\ OthersTyped
  <1>1. ASSUME NEW from \in Senders, NEW amount \in StrayAmounts, StrayToHook(from, amount)
        PROVE  BookStep /\ OthersTyped
    <2>1. /\ from \in Holder /\ from # EscrowAddress
          /\ HookAddress \in Holder /\ EscrowAddress \in Holder
      BY AddressAssumption, MessagesAssumption DEF Holder
    <2>2. amount \in Nat /\ usdc \in [Holder -> Nat]  BY NumbersAssumption DEF IInv, TypeOK
    <2>3. amount <= usdc[from] /\ usdc' = Transfer(usdc, from, HookAddress, amount)
      BY <1>1 DEF StrayToHook
    <2>4. usdc' \in [Holder -> Nat] /\ usdc'[EscrowAddress] >= usdc[EscrowAddress]
      BY <2>1, <2>2, <2>3, TransferLemma
    <2> QED  BY <1>1, <2>4, MovedLemma DEF StrayToHook
  <1>2. CASE [Next]_vars
    <2>1. StepOf /\ OthersTyped  BY <1>2, StepLemma
    <2> QED  BY <2>1 DEF StepOf, BookStep
  <1>3. CASE UNCHANGED allVars
    <2>1. UNCHANGED vars  BY <1>3 DEF allVars
    <2> QED  BY <1>2, <2>1
  <1> QED  BY <1>1, <1>2, <1>3, MintAndFundLemma, ValvesLemma DEF HookNext

(* The escrow's invariant survives the hook.                               *)
THEOREM HookInvariance == HookSpec => []IInv
  <1>1. HookInit => IInv  BY InitLemma DEF HookInit
  <1>2. IInv /\ [HookNext]_allVars => IInv'  BY HookStepLemma, BookStepKeeps
  <1> QED  BY <1>1, <1>2, PTL DEF HookSpec

(* Solvency with the hook attached: relayed mints, the owner's valves and  *)
(* money gone astray leave the books backed (EscrowFundingHook.sol).       *)
THEOREM HookSolvency == HookSpec => []Backed
  <1>1. IInv => Backed  BY DEF IInv
  <1> QED  BY <1>1, HookInvariance, PTL

(* Deals funded across chains pay only the bound parties too.              *)
THEOREM HookPaysTheBound == HookSpec => OnlyBoundPartiesPaid
  <1> DEFINE PaysTheBound == \A w \in WorkIds :
       escrows[w].status = "FUNDED" /\ escrows'[w].status = "SETTLED" => BoundTo(w)
  <1>1. IInv /\ [HookNext]_allVars => [PaysTheBound]_vars
    BY HookStepLemma, SettledIsPaid
  <1>2. HookSpec => [][PaysTheBound]_vars  BY <1>1, HookInvariance, PTL DEF HookSpec
  <1> QED  BY <1>2 DEF OnlyBoundPartiesPaid, BoundTo
------------------------------------------------------------------------------
(* The messages.                                                           *)
MessageOK == message \in [Messages -> {"attested", "funded", "minted"}]

(* What a relayed message has funded.                                      *)
FundedBy(m, e, time) ==
  /\ e.status # "EMPTY"
  /\ <<e.payer, e.worker, e.amount, e.fee, e.routes>>
       = <<m.payer, m.worker, m.minted, m.fee, m.routes>>
  /\ e.deadline <= time + m.ttl

(* A message is used up once, and only by its own mint.                    *)
LEMMA MessageLemma ==
  ASSUME MessageOK, [HookNext]_allVars
  PROVE  /\ MessageOK'
         /\ \A m \in Messages : message'[m] = "funded" => message[m] = "funded" \/ MintAndFund(m)
  <1>1. ASSUME NEW m \in Messages, MintAndFund(m)
        PROVE  message' = [message EXCEPT ![m] = "funded"]
    BY <1>1 DEF MintAndFund
  <1>2. ASSUME NEW sender \in Senders, Valves(sender)
        PROVE  UNCHANGED message \/ \E m \in Messages : message' = [message EXCEPT ![m] = "minted"]
    BY <1>2 DEF Valves, AdminMint, AdminFundFromBalance, Rescue, TransferOwnership, hookVars
  <1>3. ASSUME NEW from \in Senders, NEW amount \in StrayAmounts, StrayToHook(from, amount)
        PROVE  UNCHANGED message
    BY <1>3 DEF StrayToHook, hookVars
  <1>4. CASE UNCHANGED hookVars \/ UNCHANGED allVars  BY <1>4 DEF hookVars, allVars, MessageOK
  <1>5. CASE \E m \in Messages : MintAndFund(m)  BY <1>1, <1>5 DEF MessageOK
  <1>6. CASE \E sender \in Senders : Valves(sender)  BY <1>2, <1>6 DEF MessageOK
  <1>7. CASE \E from \in Senders, amount \in StrayAmounts : StrayToHook(from, amount)
    BY <1>3, <1>7 DEF MessageOK
  <1> QED  BY <1>4, <1>5, <1>6, <1>7 DEF HookNext

(* Time does not run back.                                                 *)
LEMMA ClockLemma ==
  ASSUME IInv, [HookNext]_allVars
  PROVE  now \in Nat /\ now' \in Nat /\ now <= now'
  <1>1. now \in Nat  BY NumbersAssumption DEF IInv, TypeOK
  <1>2. CASE UNCHANGED now  BY <1>1, <1>2
  <1>3. CASE Tick  BY <1>1, <1>3 DEF Tick
  <1>4. ASSUME NEW sender \in Senders, Administer(sender)  PROVE UNCHANGED now
    BY <1>4 DEF Administer, SetVerdict, SetFeeRecipient, SetHook, Sweep, world
  <1>5. ASSUME NEW sender \in Senders, Fund(sender)  PROVE UNCHANGED now
    BY <1>5 DEF Fund, FundWithAuthorization, FundWithAuthorizationFor, FundByAuthorization,
                FundCrossChain, world
  <1>6. ASSUME NEW sender \in Senders, Resolve(sender)  PROVE UNCHANGED now
    BY <1>6 DEF Resolve, Settle, SettlePartial, RefundExpired, world
  <1>7. ASSUME NEW from \in Senders, NEW amount \in StrayAmounts,
               StrayTransfer(from, amount) \/ StrayToHook(from, amount)
        PROVE  UNCHANGED now
    BY <1>7 DEF StrayTransfer, StrayToHook, world
  <1>8. ASSUME NEW sender \in Senders, Valves(sender)  PROVE UNCHANGED now
    BY <1>8 DEF Valves, AdminMint, AdminFundFromBalance, FundCrossChain, Rescue,
                TransferOwnership, vars, world
  <1>9. ASSUME NEW m \in Messages, MintAndFund(m)  PROVE UNCHANGED now
    BY <1>9 DEF MintAndFund, world
  <1>10. CASE CctpFlip \/ UNCHANGED allVars  BY <1>2, <1>10 DEF CctpFlip, allVars, vars, world
  <1> QED  BY <1>2, <1>3, <1>4, <1>5, <1>6, <1>7, <1>8, <1>9, <1>10 DEF HookNext, Next

(* The joint transaction funds what its message says.                      *)
LEMMA RelayLemma ==
  ASSUME IInv, NEW m \in Messages, MintAndFund(m)
  PROVE  FundedBy(m, escrows'[m.workId], now')
  <1>1. m.ttl \in Nat /\ m.workId \in WorkIds  BY MessagesAssumption
  <1>2. escrows \in [WorkIds -> Escrow] /\ now \in Nat  BY NumbersAssumption DEF IInv, TypeOK
  <1>3. Record(m.workId, m.payer, m.worker, m.minted, m.fee, m.ttl, m.routes) /\ now' = now
    BY DEF MintAndFund, world
  <1> DEFINE e == escrows'[m.workId]
  <1>4. /\ e.payer = m.payer /\ e.worker = m.worker /\ e.amount = m.minted /\ e.fee = m.fee
        /\ e.routes = m.routes /\ e.deadline = now + m.ttl /\ e.status = "FUNDED"
    BY <1>1, <1>2, <1>3 DEF Record
  <1> HIDE DEF e
  <1>5. e.deadline <= now' + m.ttl  BY <1>1, <1>2, <1>3, <1>4
  <1>6. FundedBy(m, e, now')  BY <1>4, <1>5 DEF FundedBy
  <1> QED  BY <1>6 DEF e

(* What a message has funded stays as it was.                              *)
LEMMA StillFundedBy ==
  ASSUME IInv, [HookNext]_allVars, NEW m \in Messages, FundedBy(m, escrows[m.workId], now)
  PROVE  FundedBy(m, escrows'[m.workId], now')
  <1> DEFINE e == escrows[m.workId]
             f == escrows'[m.workId]
  <1>1. m.workId \in WorkIds /\ m.ttl \in Nat  BY MessagesAssumption
  <1>2. Final(m.workId)  BY <1>1, HookStepLemma, FinalLemma
  <1>3. e.status # "EMPTY"  BY DEF FundedBy
  <1>4. f.status # "EMPTY" /\ Terms(f) = Terms(e)  BY <1>2, <1>3 DEF Final
  <1>5. /\ f.payer = e.payer /\ f.worker = e.worker /\ f.amount = e.amount /\ f.fee = e.fee
        /\ f.deadline = e.deadline /\ f.routes = e.routes
    BY <1>4 DEF Terms
  <1>6. e.deadline \in Nat  BY <1>1 DEF IInv, TypeOK, Escrow
  <1>7. e.deadline <= now + m.ttl  BY DEF FundedBy
  <1>8. now \in Nat /\ now' \in Nat /\ now <= now'  BY ClockLemma
  <1> HIDE DEF f
  <1>9. f.deadline <= now' + m.ttl  BY <1>1, <1>5, <1>6, <1>7, <1>8
  <1>10. FundedBy(m, f, now')  BY <1>4, <1>5, <1>9 DEF FundedBy
  <1> QED  BY <1>10 DEF f

(* A relayed message has funded the deal its payer committed to, with      *)
(* exactly what was minted (EscrowFundingHook.sol, mintAndFund).           *)
THEOREM RelaysFundTheDeal == HookSpec => []RelayedAsCommitted
  <1> DEFINE Inv == MessageOK /\ RelayedAsCommitted
  <1>1. HookInit => Inv  BY DEF HookInit, MessageOK, RelayedAsCommitted
  <1>2. IInv /\ Inv /\ [HookNext]_allVars => Inv'
    <2> SUFFICES ASSUME IInv, Inv, [HookNext]_allVars, NEW m \in Messages, message'[m] = "funded"
                 PROVE  FundedBy(m, escrows'[m.workId], now')
      BY MessageLemma DEF RelayedAsCommitted, FundedBy
    <2>1. CASE MintAndFund(m)  BY <2>1, RelayLemma
    <2>2. CASE message[m] = "funded"
      <3>1. FundedBy(m, escrows[m.workId], now)  BY <2>2 DEF RelayedAsCommitted, FundedBy
      <3> QED  BY <3>1, StillFundedBy
    <2> QED  BY <2>1, <2>2, MessageLemma
  <1> QED  BY <1>1, <1>2, HookInvariance, PTL DEF HookSpec
------------------------------------------------------------------------------
(* Where the hook's USDC may go.                                           *)
Guarded ==
  usdc'[HookAddress] < usdc[HookAddress] =>
    /\ hookOwner \in Senders /\ UNCHANGED hookVars
    /\ \/ \E w \in WorkIds : FundsFromBalance(w, usdc[HookAddress] - usdc'[HookAddress])
       \/ \E to \in RescueTo \ {ZeroAddress} : EmptiesInto(to)

(* The owner's valves: into an escrow of that amount, or all of it out.    *)
LEMMA ValvesGuard ==
  ASSUME IInv, NEW sender \in Senders, Valves(sender)
  PROVE  Guarded
  <1>1. /\ HookAddress \in Holder /\ EscrowAddress \in Holder /\ usdc \in [Holder -> Nat]
        /\ HookAddress # EscrowAddress /\ HookAddress \in Address
    BY AddressAssumption, MessagesAssumption DEF Holder, IInv, TypeOK
  <1>2. ASSUME NEW m \in Messages, AdminMint(sender, m)  PROVE Guarded
    <2>1. m.minted \in Nat  BY MessagesAssumption
    <2>2. usdc'[HookAddress] >= usdc[HookAddress]  BY <1>1, <1>2, <2>1 DEF AdminMint
    <2> QED  BY <1>1, <2>1, <2>2, <1>2 DEF Guarded, AdminMint
  <1>3. ASSUME NEW w \in WorkIds, NEW payer \in Parties, NEW worker \in Parties,
               NEW amount \in Amounts, AdminFundFromBalance(sender, w, payer, worker, amount)
        PROVE  Guarded
    <2>1. FundCrossChain(HookAddress, w, payer, worker, amount, 0, AdminFallbackTtl, LocalRoutes)
      BY <1>3 DEF AdminFundFromBalance
    <2>2. /\ payer \in Address /\ worker \in Address /\ amount \in Nat
          /\ AdminFallbackTtl \in Nat /\ 0 \in Nat
      BY AddressAssumption, NumbersAssumption, MessagesAssumption
    <2>3. LocalRoutes \in Routes  BY DEF LocalRoutes, Routes, Recipient
    <2>4. Opened(w) /\ escrows'[w].amount = amount
      BY <1>1, <2>1, <2>2, <2>3, FundCrossChainLemma
    <2>5. escrows[w].status = "EMPTY" /\ escrows'[w].status = "FUNDED"
      BY <2>4 DEF Opened, IInv, TypeOK
    <2>6. usdc' = Transfer(usdc, HookAddress, EscrowAddress, amount)
      BY <2>1 DEF FundCrossChain
    <2>7. usdc'[HookAddress] = usdc[HookAddress] - amount  BY <1>1, <2>2, <2>6 DEF Transfer
    <2>8. usdc[HookAddress] - usdc'[HookAddress] = amount  BY <1>1, <2>2, <2>7
    <2>9. FundsFromBalance(w, amount)  BY <2>4, <2>5, <2>6 DEF FundsFromBalance
    <2>10. hookOwner \in Senders /\ UNCHANGED hookVars  BY <1>3 DEF AdminFundFromBalance
    <2> QED  BY <2>8, <2>9, <2>10 DEF Guarded
  <1>4. ASSUME NEW to \in RescueTo, Rescue(sender, to)  PROVE Guarded
    <2>1. hookOwner \in Senders /\ to # ZeroAddress /\ UNCHANGED hookVars  BY <1>4 DEF Rescue
    <2>2. EmptiesInto(to)  BY <1>4 DEF Rescue, EmptiesInto
    <2> QED  BY <2>1, <2>2 DEF Guarded
  <1>5. ASSUME NEW new \in Appointees, TransferOwnership(sender, new)  PROVE Guarded
    <2>1. usdc' = usdc  BY <1>5 DEF TransferOwnership, vars
    <2> QED  BY <1>1, <2>1 DEF Guarded
  <1> QED  BY <1>2, <1>3, <1>4, <1>5 DEF Valves

(* The hook gives up USDC only into an escrow recorded for that amount or, *)
(* all of it, to one address its owner rescues to; and nothing in a system *)
(* whose callers do not include the owner (EscrowFundingHook.sol, rescue   *)
(* and the valves).                                                        *)
THEOREM HookBalanceIsGuarded == HookSpec => HookBalanceGuarded
  <1>1. ASSUME IInv, [HookNext]_allVars  PROVE Guarded
    <2>1. /\ HookAddress \in Holder \ {EscrowAddress} /\ EscrowAddress \in Holder
          /\ HookAddress \notin Senders /\ usdc \in [Holder -> Nat] /\ Senders \subseteq Holder
      BY <1>1, AddressAssumption, MessagesAssumption DEF Holder, IInv, TypeOK
    <2>2. CASE [Next]_vars
      <3>1. usdc'[HookAddress] >= usdc[HookAddress]  BY <1>1, <2>1, <2>2, SparesLemma
      <3>2. usdc' \in [Holder -> Nat]  BY <1>1, <2>2, StepLemma DEF OthersTyped
      <3> QED  BY <2>1, <3>1, <3>2 DEF Guarded
    <2>3. ASSUME NEW m \in Messages, MintAndFund(m)  PROVE Guarded
      <3>1. usdc'[HookAddress] = usdc[HookAddress]  BY <2>1, <2>3 DEF MintAndFund
      <3> QED  BY <2>1, <3>1 DEF Guarded
    <2>4. ASSUME NEW from \in Senders, NEW amount \in StrayAmounts, StrayToHook(from, amount)
          PROVE  Guarded
      <3>1. amount \in Nat /\ from # HookAddress /\ from \in Holder  BY <2>1, NumbersAssumption
      <3>2. usdc' = Transfer(usdc, from, HookAddress, amount)  BY <2>4 DEF StrayToHook
      <3>3. usdc'[HookAddress] = usdc[HookAddress] + amount  BY <2>1, <3>1, <3>2 DEF Transfer
      <3> QED  BY <2>1, <3>1, <3>3 DEF Guarded
    <2>5. CASE UNCHANGED allVars
      <3>1. UNCHANGED vars  BY <2>5 DEF allVars
      <3> QED  BY <2>2, <3>1
    <2> QED  BY <1>1, <2>2, <2>3, <2>4, <2>5, ValvesGuard DEF HookNext
  <1>2. IInv /\ [HookNext]_allVars => [Guarded]_allVars  BY <1>1
  <1>3. HookSpec => [][Guarded]_allVars  BY <1>2, HookInvariance, PTL DEF HookSpec
  <1> QED  BY <1>3 DEF HookBalanceGuarded, Guarded
=============================================================================
