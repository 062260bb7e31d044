------------------------ MODULE VerdiktEscrow_proofs ------------------------
(***************************************************************************)
(* What VerdiktEscrow guarantees for every number of works, every amount   *)
(* and every assignment of the addresses, checked by TLAPS.                *)
(*                                                                         *)
(* The sum of the principals is the cardinality of EscrowedUnits, so the   *)
(* books are followed by adding and taking away one work's units.          *)
(***************************************************************************)
EXTENDS VerdiktEscrow, FiniteSetTheorems, TLAPS

(* A transfer the sender can cover keeps every balance a natural number,   *)
(* takes at most n from the sender and nothing from anybody else.          *)
LEMMA TransferLemma ==
  ASSUME NEW b \in [Holder -> Nat], NEW from \in Holder, NEW to \in Holder,
         NEW n \in Nat, n <= b[from]
  PROVE  /\ Transfer(b, from, to, n) \in [Holder -> Nat]
         /\ Transfer(b, from, to, n)[from] >= b[from] - n
         /\ \A h \in Holder \ {from} : Transfer(b, from, to, n)[h] >= b[h]
  BY DEF Transfer

(* settlePartial's floor division: the worker's part is no more than the   *)
(* bounty, so what is left for the payer is not negative.                  *)
LEMMA WorkerShareLemma ==
  ASSUME NEW bounty \in Nat, NEW bps \in Nat, bps < BPS_DENOMINATOR
  PROVE  WorkerShare(bounty, bps) \in 0 .. bounty
  <1>1. bounty * bps <= bounty * 10000  BY DEF BPS_DENOMINATOR
  <1>2. bounty * bps \in Nat  OBVIOUS
  <1>3. (bounty * bps) \div 10000 \in 0 .. bounty  BY <1>1, <1>2
  <1> QED  BY <1>3 DEF WorkerShare, BPS_DENOMINATOR
------------------------------------------------------------------------------
(* An escrow is blank before it is funded, and its fee is inside its       *)
(* amount ever after.                                                      *)
Recorded ==
  \A w \in WorkIds : IF escrows[w].status = "EMPTY" THEN escrows[w] = EmptyEscrow
                     ELSE escrows[w].fee < escrows[w].amount

(* The inductive invariant.  Backed alone is not inductive: a close is     *)
(* only known to pay out what it takes off the books if the fee is inside  *)
(* the amount, and a cardinality only follows its set if that is finite.   *)
IInv ==
  /\ TypeOK
  /\ Recorded
  /\ IsFiniteSet(EscrowedUnits)
  /\ Backed
  /\ PaidInFullOnce

Payouts == [worker : Nat, payer : Nat, treasury : Nat]

(* The three things a step can do to the books.                            *)
Opened(w) ==
  /\ escrows[w].status = "EMPTY"
  /\ \E e \in Escrow :
       /\ e.status = "FUNDED" /\ 0 < e.amount /\ e.fee < e.amount
       /\ escrows' = [escrows EXCEPT ![w] = e]
       /\ totalEscrowed' = totalEscrowed + e.amount
       /\ usdc'[EscrowAddress] >= usdc[EscrowAddress] + e.amount
  /\ payout' = payout

Closed(w) ==
  /\ escrows[w].status = "FUNDED"
  /\ \E e \in Escrow :
       /\ e.status = "SETTLED" /\ Terms(e) = Terms(escrows[w])
       /\ escrows' = [escrows EXCEPT ![w] = e]
  /\ escrows[w].amount <= totalEscrowed
  /\ totalEscrowed' = totalEscrowed - escrows[w].amount
  /\ usdc'[EscrowAddress] >= usdc[EscrowAddress] - escrows[w].amount
  /\ \E p \in Payouts :
       /\ payout' = [payout EXCEPT ![w] = p]
       /\ \/ /\ p.treasury = escrows[w].fee
             /\ p.worker + p.payer = escrows[w].amount - escrows[w].fee
          \/ p = [worker |-> 0, payer |-> escrows[w].amount, treasury |-> 0]

(* A close pays out of the contract, and the treasury gets the fee or not. *)
Paid(w) ==
  \E toWorker \in Nat, toPayer \in Nat, toTreasury \in {0, escrows[w].fee} :
    PayOut(w, toWorker, toPayer, toTreasury)

Quiet ==
  /\ UNCHANGED <<escrows, totalEscrowed, payout>>
  /\ usdc'[EscrowAddress] >= totalEscrowed

(* What a caller of this contract can have opened it with.                 *)
Asked(w) == escrows'[w].amount \in Amounts /\ escrows'[w].fee \in Fees

(* The variables the books do not depend on.                               *)
OthersTyped ==
  /\ verdict' \in Address \ {ZeroAddress}
  /\ hook' \in Address
  /\ feeRecipient' \in Address \ {ZeroAddress}
  /\ usdc' \in [Holder -> Nat]
  /\ now' \in 0 .. MaxTime
  /\ cctpUp' \in BOOLEAN

(* What is pulled from an account that can cover it comes in.              *)
LEMMA PulledLemma ==
  ASSUME TypeOK, NEW from \in Address \ {EscrowAddress}, NEW amount \in Nat, amount <= usdc[from],
         usdc' = Transfer(usdc, from, EscrowAddress, amount)
  PROVE  usdc' \in [Holder -> Nat] /\ usdc'[EscrowAddress] >= usdc[EscrowAddress] + amount
  BY AddressAssumption DEF Transfer, Holder, TypeOK

(* _record writes a well-formed escrow for a principal that came in.       *)
LEMMA RecordLemma ==
  ASSUME TypeOK, NEW w \in WorkIds, NEW payer \in Address, NEW worker \in Address,
         NEW amount \in Nat, NEW fee \in Nat, NEW ttl \in Nat, NEW routes \in Routes,
         Fundable(w, payer, worker, amount, fee, ttl),
         Record(w, payer, worker, amount, fee, ttl, routes),
         usdc'[EscrowAddress] >= usdc[EscrowAddress] + amount,
         payout' = payout
  PROVE  Opened(w) /\ escrows'[w].amount = amount /\ escrows'[w].fee = fee
  <1> DEFINE e == [payer |-> payer, worker |-> worker, amount |-> amount, fee |-> fee,
                   deadline |-> now + ttl, status |-> "FUNDED", outcome |-> "RELEASE",
                   verdictCode |-> "pass", evidenceHash |-> NoEvidence, routes |-> routes]
  <1>1. escrows \in [WorkIds -> Escrow]  BY DEF TypeOK
  <1>2. e \in Escrow
    BY NumbersAssumption DEF Escrow, Status, Outcome, VerdictCode, TypeOK
  <1>3. e.status = "FUNDED" /\ e.amount = amount /\ e.fee = fee
    OBVIOUS
  <1>4. /\ escrows' = [escrows EXCEPT ![w] = e]
        /\ totalEscrowed' = totalEscrowed + amount
    BY DEF Record
  <1> HIDE DEF e
  <1> QED  BY <1>1, <1>2, <1>3, <1>4 DEF Opened, Fundable

(* A close that sends out the whole principal, in one of the two ways the  *)
(* contract splits it.                                                     *)
LEMMA CloseLemma ==
  ASSUME IInv, NEW w \in WorkIds, NEW outcome \in Outcome, NEW code \in VerdictCode,
         NEW hash \in Evidence \cup {NoEvidence},
         Close(w, outcome, code, hash),
         NEW toWorker \in Nat, NEW toPayer \in Nat, NEW toTreasury \in Nat,
         PayOut(w, toWorker, toPayer, toTreasury),
         \/ /\ toTreasury = escrows[w].fee
            /\ toWorker + toPayer = escrows[w].amount - escrows[w].fee
         \/ toWorker = 0 /\ toPayer = escrows[w].amount /\ toTreasury = 0
  PROVE  Closed(w) /\ Paid(w) /\ usdc' \in [Holder -> Nat]
  <1> DEFINE old == escrows[w]
             e == [old EXCEPT !.status = "SETTLED", !.outcome = outcome,
                              !.verdictCode = code, !.evidenceHash = hash]
             p == [worker |-> toWorker, payer |-> toPayer, treasury |-> toTreasury]
             toW == Payee(old.routes.worker, old.worker)
             toP == Payee(old.routes.payer, old.payer)
             u1 == Transfer(usdc, EscrowAddress, toW, toWorker)
             u2 == Transfer(u1, EscrowAddress, toP, toPayer)
             u3 == Transfer(u2, EscrowAddress, feeRecipient, toTreasury)
  <1>1. old \in Escrow  BY DEF IInv, TypeOK
  <1>2. /\ e \in Escrow /\ e.status = "SETTLED" /\ Terms(e) = Terms(old)
        /\ escrows' = [escrows EXCEPT ![w] = e]
    <2>1. e \in Escrow  BY <1>1 DEF Escrow, Status
    <2>2. e.status = "SETTLED" /\ Terms(e) = Terms(old)  BY <1>1 DEF Terms, Escrow
    <2>3. escrows' = [escrows EXCEPT ![w] = e]  BY DEF Close, IInv, TypeOK
    <2> QED  BY <2>1, <2>2, <2>3
  <1>3. toW \in Holder /\ toP \in Holder /\ feeRecipient \in Holder /\ EscrowAddress \in Holder
    BY <1>1, AddressAssumption DEF Escrow, Routes, Recipient, Payee, Holder, IInv, TypeOK
  <1>4. old.amount \in Nat /\ old.fee \in Nat /\ old.fee < old.amount
    BY <1>1 DEF Escrow, IInv, Recorded, Close
  <1>5. toWorker + toPayer + toTreasury = old.amount  BY <1>4
  <1>6. usdc \in [Holder -> Nat] /\ old.amount <= usdc[EscrowAddress]
    BY DEF IInv, TypeOK, Close
  <1>7. u1 \in [Holder -> Nat] /\ u1[EscrowAddress] >= usdc[EscrowAddress] - toWorker
    <2>1. toWorker <= usdc[EscrowAddress]  BY <1>3, <1>4, <1>5, <1>6
    <2> QED  BY <2>1, <1>3, <1>6, TransferLemma
  <1>8. u2 \in [Holder -> Nat] /\ u2[EscrowAddress] >= u1[EscrowAddress] - toPayer
    <2>1. toPayer <= u1[EscrowAddress]  BY <1>3, <1>4, <1>5, <1>6, <1>7
    <2> QED  BY <2>1, <1>3, <1>7, TransferLemma
  <1>9. u3 \in [Holder -> Nat] /\ u3[EscrowAddress] >= u2[EscrowAddress] - toTreasury
    <2>1. toTreasury <= u2[EscrowAddress]  BY <1>3, <1>4, <1>5, <1>6, <1>7, <1>8
    <2> QED  BY <2>1, <1>3, <1>8, TransferLemma
  <1>10. usdc' = u3 /\ payout' = [payout EXCEPT ![w] = p]  BY DEF PayOut
  <1>11. /\ u1[EscrowAddress] \in Nat /\ u2[EscrowAddress] \in Nat
         /\ u3[EscrowAddress] \in Nat /\ usdc[EscrowAddress] \in Nat
    BY <1>3, <1>6, <1>7, <1>8, <1>9
  <1>12. u3[EscrowAddress] >= usdc[EscrowAddress] - old.amount
    <2> HIDE DEF u1, u2, u3, old
    <2> QED  BY <1>4, <1>5, <1>7, <1>8, <1>9, <1>11
  <1>13. /\ old.status = "FUNDED" /\ old.amount <= totalEscrowed
         /\ totalEscrowed' = totalEscrowed - old.amount
    BY DEF Close
  <1>14. /\ p \in Payouts
         /\ \/ p.treasury = old.fee /\ p.worker + p.payer = old.amount - old.fee
            \/ p = [worker |-> 0, payer |-> old.amount, treasury |-> 0]
    BY DEF Payouts
  <1>15. Paid(w)  BY DEF Paid
  <1> HIDE DEF e, p, u1, u2, u3
  <1> QED  BY <1>2, <1>9, <1>10, <1>12, <1>13, <1>14, <1>15 DEF Closed
------------------------------------------------------------------------------
(* A close of one escrow, paid out.                                        *)
ClosesOne == \E w \in WorkIds : Closed(w) /\ Paid(w)

(* A step opens one escrow, closes one, or leaves the books alone; a step  *)
(* of this contract opens what its caller asked for.                       *)
BookStep == Quiet \/ ClosesOne \/ \E w \in WorkIds : Opened(w)
StepOf == Quiet \/ ClosesOne \/ \E w \in WorkIds : Opened(w) /\ Asked(w)

(* The owner's calls move no principal: sweep takes only what is above the *)
(* books.                                                                  *)
LEMMA AdministerLemma ==
  ASSUME IInv, NEW sender \in Senders, Administer(sender)
  PROVE  StepOf /\ OthersTyped
  <1> SUFFICES ASSUME NEW new \in Appointees,
                      \/ SetVerdict(sender, new) \/ SetFeeRecipient(sender, new)
                      \/ SetHook(sender, new) \/ Sweep(sender, new)
               PROVE  Quiet /\ OthersTyped
    BY DEF Administer, StepOf
  <1>1. new \in Address  BY AddressAssumption
  <1>2. CASE SetVerdict(sender, new)
    BY <1>1, <1>2 DEF SetVerdict, IInv, TypeOK, Backed, Quiet, OthersTyped, world
  <1>3. CASE SetFeeRecipient(sender, new)
    BY <1>1, <1>3 DEF SetFeeRecipient, IInv, TypeOK, Backed, Quiet, OthersTyped, world
  <1>4. CASE SetHook(sender, new)
    BY <1>1, <1>4 DEF SetHook, IInv, TypeOK, Backed, Quiet, OthersTyped, world
  <1>5. CASE Sweep(sender, new)
    <2> DEFINE free == usdc[EscrowAddress] - totalEscrowed
    <2>1. EscrowAddress \in Holder /\ new \in Holder  BY <1>1, AddressAssumption DEF Holder
    <2>2. usdc \in [Holder -> Nat] /\ totalEscrowed \in Nat  BY DEF IInv, TypeOK
    <2>3. free \in Nat /\ free <= usdc[EscrowAddress]  BY <1>5, <2>1, <2>2 DEF Sweep
    <2>4. usdc' = Transfer(usdc, EscrowAddress, new, free)  BY <1>5 DEF Sweep
    <2>5. /\ usdc' \in [Holder -> Nat]
          /\ usdc'[EscrowAddress] >= usdc[EscrowAddress] - free
      BY <2>1, <2>2, <2>3, <2>4, TransferLemma
    <2>6. usdc'[EscrowAddress] >= totalEscrowed  BY <2>1, <2>2, <2>5
    <2> QED
      BY <1>5, <2>5, <2>6 DEF Sweep, IInv, TypeOK, Quiet, OthersTyped, roles, world
  <1> QED  BY <1>2, <1>3, <1>4, <1>5

(* The payer of an authorization path has signed, so it is not the escrow. *)
LEMMA FundByAuthorizationLemma ==
  ASSUME IInv, NEW w \in WorkIds, NEW payer \in Address, NEW worker \in Parties,
         NEW amount \in Amounts, NEW fee \in Fees, NEW ttl \in Ttls,
         NEW routes \in RouteInputs, NEW nonce,
         FundByAuthorization(nonce, w, payer, worker, amount, fee, ttl, routes)
  PROVE  Opened(w) /\ Asked(w) /\ OthersTyped
  <1>1. payer \in Address \ {EscrowAddress} /\ amount <= usdc[payer]
    BY AddressAssumption, TokenAssumption DEF FundByAuthorization, Authorized
  <1>2. /\ worker \in Address /\ routes \in Routes
        /\ amount \in Nat /\ fee \in Nat /\ ttl \in Nat
    BY AddressAssumption, NumbersAssumption
  <1>3. /\ Fundable(w, payer, worker, amount, fee, ttl)
        /\ Record(w, payer, worker, amount, fee, ttl, routes)
        /\ usdc' = Transfer(usdc, payer, EscrowAddress, amount)
        /\ payout' = payout
    BY DEF FundByAuthorization
  <1>4. usdc' \in [Holder -> Nat] /\ usdc'[EscrowAddress] >= usdc[EscrowAddress] + amount
    BY <1>1, <1>2, <1>3, PulledLemma DEF IInv
  <1>5. Opened(w) /\ Asked(w)
    BY <1>1, <1>2, <1>3, <1>4, RecordLemma DEF IInv, Asked
  <1> QED  BY <1>4, <1>5 DEF FundByAuthorization, IInv, TypeOK, OthersTyped, roles, world

(* fundCrossChain, from whoever holds the hook's role and the USDC.        *)
LEMMA FundCrossChainLemma ==
  ASSUME IInv, NEW sender \in Address \ {EscrowAddress}, NEW w \in WorkIds, NEW payer \in Address,
         NEW worker \in Address, NEW amount \in Nat, NEW fee \in Nat, NEW ttl \in Nat,
         NEW routes \in Routes,
         FundCrossChain(sender, w, payer, worker, amount, fee, ttl, routes)
  PROVE  Opened(w) /\ escrows'[w].amount = amount /\ escrows'[w].fee = fee /\ OthersTyped
  <1>1. /\ Fundable(w, payer, worker, amount, fee, ttl)
        /\ Record(w, payer, worker, amount, fee, ttl, routes)
        /\ amount <= usdc[sender]
        /\ usdc' = Transfer(usdc, sender, EscrowAddress, amount)
        /\ payout' = payout
    BY DEF FundCrossChain
  <1>2. usdc' \in [Holder -> Nat] /\ usdc'[EscrowAddress] >= usdc[EscrowAddress] + amount
    BY <1>1, PulledLemma DEF IInv
  <1>3. Opened(w) /\ escrows'[w].amount = amount /\ escrows'[w].fee = fee
    BY <1>1, <1>2, RecordLemma DEF IInv
  <1> QED  BY <1>2, <1>3 DEF FundCrossChain, IInv, TypeOK, OthersTyped, roles, world

(* Each funding path opens one escrow with terms the caller passed.        *)
LEMMA FundLemma ==
  ASSUME IInv, NEW sender \in Senders, Fund(sender)
  PROVE  StepOf /\ OthersTyped
  <1>1. PICK w \in WorkIds, worker \in Parties, amount \in Amounts, fee \in Fees,
             ttl \in Ttls, routes \in RouteInputs :
               \/ FundWithAuthorization(sender, w, worker, amount, fee, ttl, routes)
               \/ \E payer \in Parties :
                    \/ FundWithAuthorizationFor(payer, w, worker, amount, fee, ttl, routes)
                    \/ FundCrossChain(sender, w, payer, worker, amount, fee, ttl, routes)
    BY DEF Fund
  <1>2. sender \in Address \ {EscrowAddress}  BY AddressAssumption
  <1>3. CASE FundWithAuthorization(sender, w, worker, amount, fee, ttl, routes)
    <2>1. Opened(w) /\ Asked(w) /\ OthersTyped
      BY <1>2, <1>3, FundByAuthorizationLemma DEF FundWithAuthorization
    <2> QED  BY <2>1 DEF StepOf
  <1>4. ASSUME NEW payer \in Parties,
               FundWithAuthorizationFor(payer, w, worker, amount, fee, ttl, routes)
        PROVE  StepOf /\ OthersTyped
    <2>1. payer \in Address  BY AddressAssumption
    <2>2. Opened(w) /\ Asked(w) /\ OthersTyped
      BY <1>4, <2>1, FundByAuthorizationLemma DEF FundWithAuthorizationFor
    <2> QED  BY <2>2 DEF StepOf
  <1>5. ASSUME NEW payer \in Parties,
               FundCrossChain(sender, w, payer, worker, amount, fee, ttl, routes)
        PROVE  StepOf /\ OthersTyped
    <2>1. /\ payer \in Address /\ worker \in Address /\ routes \in Routes
          /\ amount \in Nat /\ fee \in Nat /\ ttl \in Nat
      BY AddressAssumption, NumbersAssumption
    <2>2. Opened(w) /\ Asked(w) /\ OthersTyped
      BY <1>2, <1>5, <2>1, FundCrossChainLemma DEF Asked
    <2> QED  BY <2>2 DEF StepOf
  <1> QED  BY <1>1, <1>3, <1>4, <1>5

(* settle, settlePartial and refundExpired each close one escrow and pay   *)
(* out all of it; the fee is inside the amount, so no part is negative.    *)
LEMMA ResolveLemma ==
  ASSUME IInv, NEW sender \in Senders, Resolve(sender)
  PROVE  ClosesOne /\ OthersTyped
  <1>1. PICK w \in WorkIds :
          \/ \E hash \in Evidence :
               \/ \E code \in VerdictCode : Settle(sender, w, code, hash)
               \/ \E bps \in BpsInputs : SettlePartial(sender, w, bps, hash)
          \/ RefundExpired(sender, w)
    BY DEF Resolve
  <1> DEFINE e == escrows[w]
  <1>2. e \in Escrow  BY DEF IInv, TypeOK
  <1>3. e.amount \in Nat /\ e.fee \in Nat /\ 0 \in Nat  BY <1>2 DEF Escrow
  <1>4. e.status = "FUNDED" => e.fee < e.amount /\ e.amount - e.fee \in Nat
    BY <1>3 DEF IInv, Recorded
  <1>5. ASSUME NEW hash \in Evidence, NEW code \in VerdictCode, Settle(sender, w, code, hash)
        PROVE  ClosesOne /\ OthersTyped
    <2>1. OutcomeOf(code) \in Outcome  BY DEF OutcomeOf, Outcome
    <2>2. Close(w, OutcomeOf(code), code, hash)  BY <1>5 DEF Settle
    <2>3. e.status = "FUNDED"  BY <2>2 DEF Close
    <2>4. Closed(w) /\ Paid(w) /\ usdc' \in [Holder -> Nat]
      <3>1. CASE PayOut(w, e.amount - e.fee, 0, e.fee)
        BY <1>3, <1>4, <2>1, <2>2, <2>3, <3>1, CloseLemma
      <3>2. CASE PayOut(w, 0, e.amount, 0)
        BY <1>3, <2>1, <2>2, <3>2, CloseLemma
      <3>3. CASE PayOut(w, 0, e.amount - e.fee, e.fee)
        BY <1>3, <1>4, <2>1, <2>2, <2>3, <3>3, CloseLemma
      <3> QED  BY <1>5, <3>1, <3>2, <3>3 DEF Settle
    <2> QED  BY <1>5, <2>4 DEF Settle, IInv, TypeOK, OthersTyped, ClosesOne, roles, world
  <1>6. ASSUME NEW hash \in Evidence, NEW bps \in BpsInputs, SettlePartial(sender, w, bps, hash)
        PROVE  ClosesOne /\ OthersTyped
    <2> DEFINE bounty == e.amount - e.fee
               share == WorkerShare(bounty, bps)
    <2>1. Close(w, "PARTIAL", "partial", hash) /\ bps < BPS_DENOMINATOR
      BY <1>6 DEF SettlePartial
    <2>2. bounty \in Nat  BY <1>4, <2>1 DEF Close
    <2>3. bps \in Nat  BY NumbersAssumption
    <2>4. share \in 0 .. bounty  BY <2>1, <2>2, <2>3, WorkerShareLemma
    <2>5. PayOut(w, share, bounty - share, e.fee)  BY <1>6 DEF SettlePartial
    <2>6. "PARTIAL" \in Outcome /\ "partial" \in VerdictCode  BY DEF Outcome, VerdictCode
    <2>7. Closed(w) /\ Paid(w) /\ usdc' \in [Holder -> Nat]
      <3>1. share \in Nat /\ bounty - share \in Nat  BY <2>2, <2>4
      <3>2. share + (bounty - share) = bounty  BY <2>2, <3>1
      <3> HIDE DEF share
      <3> QED  BY <1>3, <2>1, <2>5, <2>6, <3>1, <3>2, CloseLemma
    <2> QED  BY <1>6, <2>7 DEF SettlePartial, IInv, TypeOK, OthersTyped, ClosesOne, roles, world
  <1>7. ASSUME RefundExpired(sender, w)
        PROVE  ClosesOne /\ OthersTyped
    <2>1. Close(w, "EXPIRED", "none", e.evidenceHash) /\ PayOut(w, 0, e.amount, 0)
      BY <1>7 DEF RefundExpired
    <2>2. /\ "EXPIRED" \in Outcome /\ "none" \in VerdictCode
          /\ e.evidenceHash \in Evidence \cup {NoEvidence}
      BY <1>2 DEF Outcome, VerdictCode, Escrow
    <2>3. Closed(w) /\ Paid(w) /\ usdc' \in [Holder -> Nat]  BY <1>3, <2>1, <2>2, CloseLemma
    <2> QED  BY <1>7, <2>3 DEF RefundExpired, IInv, TypeOK, OthersTyped, ClosesOne, roles, world
  <1> QED  BY <1>1, <1>5, <1>6, <1>7

(* A plain transfer into the contract leaves the books alone.              *)
LEMMA StrayLemma ==
  ASSUME IInv, NEW from \in Senders, NEW amount \in StrayAmounts, StrayTransfer(from, amount)
  PROVE  StepOf /\ OthersTyped
  <1>1. from \in Holder /\ from # EscrowAddress /\ EscrowAddress \in Holder
    BY AddressAssumption DEF Holder
  <1>2. amount \in Nat  BY NumbersAssumption
  <1>3. usdc \in [Holder -> Nat]  BY DEF IInv, TypeOK
  <1>4. amount <= usdc[from] /\ usdc' = Transfer(usdc, from, EscrowAddress, amount)
    BY DEF StrayTransfer
  <1>5. usdc' \in [Holder -> Nat] /\ usdc'[EscrowAddress] >= usdc[EscrowAddress]
    BY <1>1, <1>2, <1>3, <1>4, TransferLemma
  <1>6. usdc'[EscrowAddress] >= totalEscrowed
    BY <1>1, <1>3, <1>5 DEF IInv, Backed, TypeOK
  <1> QED
    BY <1>5, <1>6 DEF StrayTransfer, IInv, TypeOK, Quiet, StepOf, OthersTyped, roles, world

(* Every step opens one escrow, closes one, or is quiet.                   *)
LEMMA StepLemma ==
  ASSUME IInv, [Next]_vars
  PROVE  StepOf /\ OthersTyped
  <1>1. CASE Tick
    BY <1>1, NumbersAssumption
    DEF Tick, IInv, TypeOK, Backed, Quiet, StepOf, OthersTyped, roles
  <1>2. CASE CctpFlip
    BY <1>2 DEF CctpFlip, IInv, TypeOK, Backed, Quiet, StepOf, OthersTyped, roles
  <1>3. CASE UNCHANGED vars
    BY <1>3 DEF vars, IInv, TypeOK, Backed, Quiet, StepOf, OthersTyped, roles, world
  <1> QED
    BY <1>1, <1>2, <1>3, AdministerLemma, FundLemma, ResolveLemma, StrayLemma DEF Next, StepOf
------------------------------------------------------------------------------
(* The units of one work are as many as its principal.                     *)
LEMMA UnitsOfOne ==
  ASSUME NEW w, NEW n \in Nat
  PROVE  IsFiniteSet({w} \X (1 .. n)) /\ Cardinality({w} \X (1 .. n)) = n
  <1>1. IsFiniteSet({w}) /\ Cardinality({w}) = 1  BY FS_Singleton
  <1>2. IsFiniteSet(1 .. n) /\ Cardinality(1 .. n) = n  BY FS_Interval
  <1>3. /\ IsFiniteSet({w} \X (1 .. n))
        /\ Cardinality({w} \X (1 .. n)) = Cardinality({w}) * Cardinality(1 .. n)
    BY <1>1, <1>2, FS_Product
  <1> QED  BY <1>1, <1>2, <1>3

(* Two finite sets with nothing in common.                                 *)
LEMMA DisjointUnion ==
  ASSUME NEW S, NEW T, IsFiniteSet(S), IsFiniteSet(T), S \cap T = {}
  PROVE  IsFiniteSet(S \cup T) /\ Cardinality(S \cup T) = Cardinality(S) + Cardinality(T)
  <1>1. Cardinality(S \cap T) = 0  BY FS_EmptySet
  <1>2. Cardinality(S) \in Nat /\ Cardinality(T) \in Nat  BY FS_CardinalityType
  <1>3. /\ IsFiniteSet(S \cup T)
        /\ Cardinality(S \cup T) = Cardinality(S) + Cardinality(T) - Cardinality(S \cap T)
    BY FS_Union
  <1> QED  BY <1>1, <1>2, <1>3

(* Opening an escrow adds its units, and exactly those to the books.       *)
LEMMA OpenedKeeps ==
  ASSUME IInv, NEW w \in WorkIds, Opened(w), OthersTyped
  PROVE  IInv'
  <1>1. PICK e \in Escrow :
          /\ e.status = "FUNDED" /\ 0 < e.amount /\ e.fee < e.amount
          /\ escrows' = [escrows EXCEPT ![w] = e]
          /\ totalEscrowed' = totalEscrowed + e.amount
          /\ usdc'[EscrowAddress] >= usdc[EscrowAddress] + e.amount
    BY DEF Opened
  <1>2. e.amount \in Nat  BY DEF Escrow
  <1>3. escrows[w].status = "EMPTY" /\ payout' = payout  BY DEF Opened
  <1>4. escrows \in [WorkIds -> Escrow]  BY DEF IInv, TypeOK
  <1>5. \A x \in WorkIds \ {w} : escrows'[x] = escrows[x]  BY <1>1, <1>4
  <1>6. escrows'[w] = e  BY <1>1, <1>4
  <1>7. TypeOK'  BY <1>1, <1>2, <1>3, <1>4 DEF IInv, TypeOK, OthersTyped
  <1>8. Recorded'  BY <1>1, <1>5, <1>6 DEF IInv, Recorded
  <1>9. PaidInFullOnce'  BY <1>1, <1>3, <1>5, <1>6 DEF IInv, PaidInFullOnce
  <1>10. /\ IsFiniteSet(EscrowedUnits')
         /\ Cardinality(EscrowedUnits') = Cardinality(EscrowedUnits) + e.amount
    <2> DEFINE units == {w} \X (1 .. e.amount)
    <2>1. EscrowedUnits' = EscrowedUnits \cup units
      BY <1>1, <1>3, <1>5, <1>6 DEF EscrowedUnits
    <2>2. EscrowedUnits \cap units = {}  BY <1>3 DEF EscrowedUnits
    <2>3. IsFiniteSet(EscrowedUnits)  BY DEF IInv
    <2>4. IsFiniteSet(units) /\ Cardinality(units) = e.amount  BY <1>2, UnitsOfOne
    <2> HIDE DEF units
    <2> QED  BY <2>1, <2>2, <2>3, <2>4, DisjointUnion
  <1>11. Backed'
    <2>1. totalEscrowed = Cardinality(EscrowedUnits) /\ totalEscrowed <= usdc[EscrowAddress]
      BY DEF IInv, Backed
    <2>2. totalEscrowed' = Cardinality(EscrowedUnits')  BY <1>1, <1>10, <2>1
    <2>3. EscrowAddress \in Holder  BY AddressAssumption DEF Holder
    <2>4. totalEscrowed' <= usdc'[EscrowAddress]
      BY <1>1, <1>2, <2>1, <2>3 DEF IInv, TypeOK, OthersTyped
    <2> QED  BY <2>2, <2>4 DEF Backed
  <1> QED  BY <1>7, <1>8, <1>9, <1>10, <1>11 DEF IInv

(* Closing an escrow takes its units away, and exactly those from the      *)
(* books.                                                                  *)
LEMMA ClosedKeeps ==
  ASSUME IInv, NEW w \in WorkIds, Closed(w), OthersTyped
  PROVE  IInv'
  <1> DEFINE old == escrows[w]
  <1>1. PICK e \in Escrow :
          /\ e.status = "SETTLED" /\ Terms(e) = Terms(old)
          /\ escrows' = [escrows EXCEPT ![w] = e]
    BY DEF Closed
  <1>2. PICK p \in Payouts :
          /\ payout' = [payout EXCEPT ![w] = p]
          /\ \/ p.treasury = old.fee /\ p.worker + p.payer = old.amount - old.fee
             \/ p = [worker |-> 0, payer |-> old.amount, treasury |-> 0]
    BY DEF Closed
  <1>3. /\ old.status = "FUNDED" /\ old.amount <= totalEscrowed
        /\ totalEscrowed' = totalEscrowed - old.amount
        /\ usdc'[EscrowAddress] >= usdc[EscrowAddress] - old.amount
    BY DEF Closed
  <1>4. escrows \in [WorkIds -> Escrow] /\ payout \in [WorkIds -> Payouts]
    BY DEF IInv, TypeOK, Payouts
  <1>5. old.amount \in Nat /\ old.fee \in Nat /\ e.amount = old.amount /\ e.fee = old.fee
    BY <1>1, <1>4 DEF Terms, Escrow
  <1>6. \A x \in WorkIds \ {w} : escrows'[x] = escrows[x] /\ payout'[x] = payout[x]
    BY <1>1, <1>2, <1>4
  <1>7. escrows'[w] = e /\ payout'[w] = p  BY <1>1, <1>2, <1>4
  <1>8. TypeOK'
    <2>1. totalEscrowed' \in Nat  BY <1>3, <1>5 DEF IInv, TypeOK
    <2>2. escrows' \in [WorkIds -> Escrow] /\ payout' \in [WorkIds -> Payouts]
      BY <1>1, <1>2, <1>4
    <2> QED  BY <2>1, <2>2 DEF TypeOK, OthersTyped, Payouts
  <1>9. Recorded'
    <2>1. old.fee < old.amount  BY <1>3 DEF IInv, Recorded
    <2> QED  BY <1>1, <1>5, <1>6, <1>7, <2>1 DEF IInv, Recorded
  <1>10. PaidInFullOnce'
    <2>1. p.worker + p.payer + p.treasury = old.amount
      <3>1. p.worker \in Nat /\ p.payer \in Nat /\ p.treasury \in Nat  BY DEF Payouts
      <3>2. CASE p.treasury = old.fee /\ p.worker + p.payer = old.amount - old.fee
        BY <1>5, <3>1, <3>2
      <3>3. CASE p = [worker |-> 0, payer |-> old.amount, treasury |-> 0]
        BY <1>5, <3>3
      <3> QED  BY <1>2, <3>2, <3>3
    <2> QED  BY <1>1, <1>5, <1>6, <1>7, <2>1 DEF IInv, PaidInFullOnce
  <1>11. /\ IsFiniteSet(EscrowedUnits')
         /\ Cardinality(EscrowedUnits) = Cardinality(EscrowedUnits') + old.amount
    <2> DEFINE units == {w} \X (1 .. old.amount)
    <2>1. EscrowedUnits = EscrowedUnits' \cup units
      BY <1>1, <1>3, <1>6, <1>7 DEF EscrowedUnits
    <2>2. EscrowedUnits' \cap units = {}  BY <1>1, <1>7 DEF EscrowedUnits
    <2>3. IsFiniteSet(EscrowedUnits')
      <3>1. EscrowedUnits' \in SUBSET EscrowedUnits  BY <2>1
      <3> QED  BY <3>1, FS_Subset DEF IInv
    <2>4. IsFiniteSet(units) /\ Cardinality(units) = old.amount  BY <1>5, UnitsOfOne
    <2> HIDE DEF units
    <2> QED  BY <2>1, <2>2, <2>3, <2>4, DisjointUnion
  <1>12. Backed'
    <2>1. totalEscrowed = Cardinality(EscrowedUnits) /\ totalEscrowed <= usdc[EscrowAddress]
      BY DEF IInv, Backed
    <2>2. Cardinality(EscrowedUnits') \in Nat  BY <1>11, FS_CardinalityType
    <2>3. totalEscrowed' = Cardinality(EscrowedUnits')  BY <1>3, <1>5, <1>11, <2>1, <2>2
    <2>4. EscrowAddress \in Holder  BY AddressAssumption DEF Holder
    <2>5. totalEscrowed' <= usdc'[EscrowAddress]
      BY <1>3, <1>5, <2>1, <2>4 DEF IInv, TypeOK, OthersTyped
    <2> QED  BY <2>3, <2>5 DEF Backed
  <1> QED  BY <1>8, <1>9, <1>10, <1>11, <1>12 DEF IInv

(* A quiet step changes no escrow and leaves the books covered.            *)
LEMMA QuietKeeps ==
  ASSUME IInv, Quiet, OthersTyped
  PROVE  IInv'
  <1>1. escrows' = escrows /\ totalEscrowed' = totalEscrowed /\ payout' = payout  BY DEF Quiet
  <1>2. EscrowedUnits' = EscrowedUnits  BY <1>1 DEF EscrowedUnits
  <1>3. TypeOK'  BY <1>1 DEF IInv, TypeOK, OthersTyped
  <1>4. Recorded' /\ PaidInFullOnce'  BY <1>1 DEF IInv, Recorded, PaidInFullOnce
  <1>5. Backed'  BY <1>1, <1>2 DEF IInv, Backed, Quiet
  <1> QED  BY <1>2, <1>3, <1>4, <1>5 DEF IInv
------------------------------------------------------------------------------
(* The contract starts with no escrow and empty books.                     *)
LEMMA InitLemma == Init => IInv
  <1> SUFFICES ASSUME Init PROVE IInv  OBVIOUS
  <1>1. EmptyEscrow \in Escrow
    BY AddressAssumption
    DEF EmptyEscrow, Escrow, Status, Outcome, VerdictCode, Routes, LocalRoutes, Recipient
  <1>2. \A w \in WorkIds : escrows[w] = EmptyEscrow /\ payout[w] = NoPayout  BY DEF Init
  <1>3. EmptyEscrow.status = "EMPTY"  BY DEF EmptyEscrow
  <1>4. EscrowedUnits = {}  BY <1>2, <1>3 DEF EscrowedUnits
  <1>5. TypeOK
    BY <1>1, AddressAssumption, NumbersAssumption, TokenAssumption DEF Init, TypeOK, NoPayout
  <1>6. Recorded  BY <1>2, <1>3 DEF Recorded
  <1>7. EscrowAddress \in Holder  BY AddressAssumption DEF Holder
  <1>8. IsFiniteSet(EscrowedUnits) /\ Cardinality(EscrowedUnits) = 0  BY <1>4, FS_EmptySet
  <1>9. Backed  BY <1>5, <1>7, <1>8 DEF Init, Backed, TypeOK
  <1>10. PaidInFullOnce  BY <1>2, <1>3 DEF PaidInFullOnce, NoPayout
  <1> QED  BY <1>5, <1>6, <1>8, <1>9, <1>10 DEF IInv

(* Whatever a step does to the books, it keeps IInv.                       *)
LEMMA BookStepKeeps ==
  ASSUME IInv, BookStep, OthersTyped
  PROVE  IInv'
  BY OpenedKeeps, ClosedKeeps, QuietKeeps DEF BookStep, ClosesOne

(* IInv is inductive.                                                      *)
LEMMA NextLemma == IInv /\ [Next]_vars => IInv'
  <1> SUFFICES ASSUME IInv, [Next]_vars PROVE IInv'  OBVIOUS
  <1>1. StepOf /\ OthersTyped  BY StepLemma
  <1>2. BookStep  BY <1>1 DEF StepOf, BookStep
  <1> QED  BY <1>1, <1>2, BookStepKeeps

(* The invariant holds in every state the contract can reach.              *)
THEOREM Invariance == Spec => []IInv
  <1> QED  BY InitLemma, NextLemma, PTL DEF Spec

(* Every state is well formed: no balance, payout or total goes below 0,   *)
(* whatever the amounts, fees and splits.                                  *)
THEOREM TypeCorrectness == Spec => []TypeOK
  <1>1. IInv => TypeOK  BY DEF IInv
  <1> QED  BY <1>1, Invariance, PTL

(* Solvency (VerdiktEscrow.sol:86-87): totalEscrowed is the sum of the     *)
(* funded principals and never exceeds what the contract holds.            *)
THEOREM Solvency == Spec => []Backed
  <1>1. IInv => Backed  BY DEF IInv
  <1> QED  BY <1>1, Invariance, PTL

(* The parts of a settled escrow's payout add up to its amount exactly, and*)
(* those of an open one to nothing, for every amount, fee and split: how   *)
(* the amount is shared out is not said here, but by Refinement.           *)
THEOREM FullPayout == Spec => []PaidInFullOnce
  <1>1. IInv => PaidInFullOnce  BY DEF IInv
  <1> QED  BY <1>1, Invariance, PTL

(* What a step may do to an escrow that is recorded.                       *)
Final(w) ==
  /\ escrows[w].status # "EMPTY" =>
       escrows'[w].status # "EMPTY" /\ Terms(escrows'[w]) = Terms(escrows[w])
  /\ escrows[w].status = "SETTLED" => escrows'[w] = escrows[w]

(* Whatever a step does to the books, it keeps the recorded terms.         *)
LEMMA FinalLemma ==
  ASSUME IInv, BookStep, NEW w \in WorkIds
  PROVE  Final(w)
  <1>1. escrows \in [WorkIds -> Escrow]  BY DEF IInv, TypeOK
  <1>2. CASE Quiet  BY <1>2 DEF Quiet, Final
  <1>3. ASSUME NEW x \in WorkIds, Opened(x) PROVE Final(w)
    <2>1. escrows[x].status = "EMPTY"  BY <1>3 DEF Opened
    <2>2. w # x => escrows'[w] = escrows[w]  BY <1>1, <1>3 DEF Opened
    <2> QED  BY <2>1, <2>2 DEF Final
  <1>4. ASSUME NEW x \in WorkIds, Closed(x) PROVE Final(w)
    <2>1. escrows[x].status = "FUNDED"  BY <1>4 DEF Closed
    <2>2. w # x => escrows'[w] = escrows[w]  BY <1>1, <1>4 DEF Closed
    <2>3. escrows'[x].status = "SETTLED" /\ Terms(escrows'[x]) = Terms(escrows[x])
      BY <1>1, <1>4 DEF Closed
    <2> QED  BY <2>1, <2>2, <2>3 DEF Final
  <1> QED  BY <1>2, <1>3, <1>4 DEF BookStep, ClosesOne

(* Recorded terms never change and a settled escrow is final.              *)
THEOREM FinalTerms == Spec => TermsAreFinal
  <1> DEFINE Kept == \A w \in WorkIds :
       /\ escrows[w].status # "EMPTY" => Terms(escrows'[w]) = Terms(escrows[w])
       /\ escrows[w].status = "SETTLED" => escrows'[w] = escrows[w]
  <1>1. IInv /\ [Next]_vars => Kept
    <2> SUFFICES ASSUME IInv, [Next]_vars PROVE Kept  OBVIOUS
    <2>1. BookStep  BY StepLemma DEF StepOf, BookStep
    <2>2. \A w \in WorkIds : Final(w)  BY <2>1, FinalLemma
    <2> QED  BY <2>2 DEF Final
  <1>2. IInv /\ [Next]_vars => [Kept]_vars  BY <1>1
  <1> QED  BY <1>2, Invariance, PTL DEF Spec, TermsAreFinal
------------------------------------------------------------------------------
(* Authorizations.  What a redeemed one backs is recorded terms, and those *)
(* are final.                                                              *)
Backing ==
  /\ \A r \in redeemed : r.nonce.workId \in WorkIds
  /\ NoStrandedAuthorization

(* What one redeemed authorization is to back.                             *)
BackedBy(r, e) ==
  LET n == r.nonce
  IN /\ e.status # "EMPTY"
     /\ <<e.payer, e.worker, e.amount, e.fee>> = <<r.from, n.worker, n.amount, n.fee>>
     /\ n.path = "relayed" => e.routes = n.routes
     /\ \E a \in Signed : /\ a.from = r.from /\ a.nonce = n /\ a.value = e.amount
                          /\ a.validAfter < e.deadline - n.ttl
                          /\ e.deadline - n.ttl < a.validBefore

(* The same terms back the same authorization.                             *)
LEMMA SameTermsLemma ==
  ASSUME NEW r, NEW e, NEW f, BackedBy(r, e), f.status # "EMPTY", Terms(f) = Terms(e)
  PROVE  BackedBy(r, f)
  <1>1. /\ f.payer = e.payer /\ f.worker = e.worker /\ f.amount = e.amount /\ f.fee = e.fee
        /\ f.deadline = e.deadline /\ f.routes = e.routes
    BY DEF Terms
  <1> QED  BY <1>1 DEF BackedBy

(* No step takes the backing from an authorization already redeemed.       *)
LEMMA StillBacked ==
  ASSUME IInv, BookStep, Backing, NEW r \in redeemed
  PROVE  r.nonce.workId \in WorkIds /\ BackedBy(r, escrows'[r.nonce.workId])
  <1>1. r.nonce.workId \in WorkIds /\ BackedBy(r, escrows[r.nonce.workId])
    BY DEF Backing, NoStrandedAuthorization, BackedBy
  <1>2. Final(r.nonce.workId)  BY <1>1, FinalLemma
  <1>3. escrows[r.nonce.workId].status # "EMPTY"  BY <1>1 DEF BackedBy
  <1> QED  BY <1>1, <1>2, <1>3, SameTermsLemma DEF Final

(* A redemption records, under the nonce it uses up, what the nonce says.  *)
LEMMA RedemptionLemma ==
  ASSUME IInv, NEW w \in WorkIds, NEW payer, NEW worker \in Parties, NEW amount \in Amounts,
         NEW fee \in Fees, NEW ttl \in Ttls, NEW routes, NEW nonce,
         FundByAuthorization(nonce, w, payer, worker, amount, fee, ttl, routes),
         nonce.worker = worker, nonce.amount = amount, nonce.fee = fee, nonce.ttl = ttl,
         nonce.path = "relayed" => nonce.routes = routes
  PROVE  BackedBy([from |-> payer, nonce |-> nonce], escrows'[w])
  <1> DEFINE r == [from |-> payer, nonce |-> nonce]
             e == escrows'[w]
  <1>1. escrows \in [WorkIds -> Escrow] /\ now \in Nat /\ ttl \in Nat
    BY NumbersAssumption DEF IInv, TypeOK
  <1>2. Record(w, payer, worker, amount, fee, ttl, routes) /\ Authorized(payer, amount, nonce)
    BY DEF FundByAuthorization
  <1>3. /\ e.payer = payer /\ e.worker = worker /\ e.amount = amount /\ e.fee = fee
        /\ e.deadline = now + ttl /\ e.status = "FUNDED" /\ e.routes = routes
    BY <1>1, <1>2 DEF Record
  <1>4. e.deadline - ttl = now  BY <1>1, <1>3
  <1>5. r.from = payer /\ r.nonce = nonce  OBVIOUS
  <1>6. PICK a \in Signed : /\ a.from = payer /\ a.value = amount /\ a.nonce = nonce
                            /\ a.validAfter < now /\ now < a.validBefore
    BY <1>2 DEF Authorized
  <1> HIDE DEF r, e
  <1>7. BackedBy(r, e)  BY <1>3, <1>4, <1>5, <1>6 DEF BackedBy
  <1> QED  BY <1>7 DEF r, e

(* What a step does to the redeemed authorizations.                        *)
Redeems ==
  \/ UNCHANGED redeemed
  \/ \E r : /\ redeemed' = redeemed \cup {r} /\ r.nonce.workId \in WorkIds
            /\ BackedBy(r, escrows'[r.nonce.workId])

(* The two ways to redeem, each with the nonce it derives.                 *)
LEMMA FundRedeems ==
  ASSUME IInv, NEW sender \in Senders, Fund(sender)
  PROVE  Redeems
  <1>1. PICK w \in WorkIds, worker \in Parties, amount \in Amounts, fee \in Fees,
             ttl \in Ttls, routes \in RouteInputs :
               \/ FundWithAuthorization(sender, w, worker, amount, fee, ttl, routes)
               \/ \E payer \in Parties :
                    \/ FundWithAuthorizationFor(payer, w, worker, amount, fee, ttl, routes)
                    \/ FundCrossChain(sender, w, payer, worker, amount, fee, ttl, routes)
    BY DEF Fund
  <1>2. CASE FundWithAuthorization(sender, w, worker, amount, fee, ttl, routes)
    <2> DEFINE n == NativeNonce(w, worker, amount, fee, ttl, sender)
               r == [from |-> sender, nonce |-> n]
    <2>1. FundByAuthorization(n, w, sender, worker, amount, fee, ttl, routes)
      BY <1>2 DEF FundWithAuthorization
    <2>2. /\ n.worker = worker /\ n.amount = amount /\ n.fee = fee /\ n.ttl = ttl
          /\ n.workId = w /\ n.path = "native"
      BY DEF NativeNonce
    <2> HIDE DEF n
    <2>3. BackedBy(r, escrows'[w])  BY <2>1, <2>2, RedemptionLemma
    <2>4. redeemed' = redeemed \cup {r} /\ r.nonce.workId = w
      BY <2>1, <2>2 DEF FundByAuthorization
    <2> QED  BY <2>3, <2>4 DEF Redeems
  <1>3. ASSUME NEW payer \in Parties,
               FundWithAuthorizationFor(payer, w, worker, amount, fee, ttl, routes)
        PROVE  Redeems
    <2> DEFINE n == RelayedNonce(w, worker, amount, fee, ttl, payer, routes)
               r == [from |-> payer, nonce |-> n]
    <2>1. FundByAuthorization(n, w, payer, worker, amount, fee, ttl, routes)
      BY <1>3 DEF FundWithAuthorizationFor
    <2>2. /\ n.worker = worker /\ n.amount = amount /\ n.fee = fee /\ n.ttl = ttl
          /\ n.workId = w /\ n.routes = routes
      BY DEF RelayedNonce
    <2> HIDE DEF n
    <2>3. BackedBy(r, escrows'[w])  BY <2>1, <2>2, RedemptionLemma
    <2>4. redeemed' = redeemed \cup {r} /\ r.nonce.workId = w
      BY <2>1, <2>2 DEF FundByAuthorization
    <2> QED  BY <2>3, <2>4 DEF Redeems
  <1>4. ASSUME NEW payer \in Parties,
               FundCrossChain(sender, w, payer, worker, amount, fee, ttl, routes)
        PROVE  Redeems
    BY <1>4 DEF FundCrossChain, Redeems
  <1> QED  BY <1>1, <1>2, <1>3, <1>4

(* No other step redeems anything.                                         *)
LEMMA RedeemsLemma ==
  ASSUME IInv, [Next]_vars
  PROVE  Redeems
  <1>1. ASSUME NEW sender \in Senders, Administer(sender)  PROVE UNCHANGED redeemed
    BY <1>1 DEF Administer, SetVerdict, SetFeeRecipient, SetHook, Sweep
  <1>2. ASSUME NEW sender \in Senders, Resolve(sender)  PROVE UNCHANGED redeemed
    BY <1>2 DEF Resolve, Settle, SettlePartial, RefundExpired
  <1>3. ASSUME NEW from \in Senders, NEW amount \in StrayAmounts, StrayTransfer(from, amount)
        PROVE  UNCHANGED redeemed
    BY <1>3 DEF StrayTransfer
  <1>4. CASE Tick \/ CctpFlip \/ UNCHANGED vars  BY <1>4 DEF Tick, CctpFlip, vars, Redeems
  <1> QED  BY <1>1, <1>2, <1>3, <1>4, FundRedeems DEF Next, Redeems

(* Whatever a step redeems, the backing is kept.                           *)
LEMMA BackingKept ==
  ASSUME IInv, BookStep, Backing, Redeems
  PROVE  Backing'
  <1> SUFFICES ASSUME NEW r \in redeemed'
               PROVE  r.nonce.workId \in WorkIds /\ BackedBy(r, escrows'[r.nonce.workId])
    BY DEF Backing, NoStrandedAuthorization, BackedBy
  <1> QED  BY StillBacked DEF Redeems

(* An authorization that was used up backs the very deal that was signed,  *)
(* on both EIP-3009 paths and whoever relays it (VerdiktEscrow.sol).       *)
THEOREM AuthorizationsBackDeals == Spec => []NoStrandedAuthorization
  <1>1. Init => Backing  BY DEF Init, Backing, NoStrandedAuthorization
  <1>2. IInv /\ Backing /\ [Next]_vars => Backing'
    <2> SUFFICES ASSUME IInv, Backing, [Next]_vars PROVE Backing'  OBVIOUS
    <2>1. BookStep  BY StepLemma DEF StepOf, BookStep
    <2> QED  BY <2>1, RedeemsLemma, BackingKept
  <1>3. Backing => NoStrandedAuthorization  BY DEF Backing
  <1> QED  BY <1>1, <1>2, <1>3, Invariance, PTL DEF Spec
------------------------------------------------------------------------------
(* Who a settlement pays.                                                  *)
BoundTo(w) ==
  LET e == escrows[w]
      workerSide == Payee(e.routes.worker, e.worker)
      payerSide == Payee(e.routes.payer, e.payer)
  IN \A h \in Holder \ {EscrowAddress} :
       /\ usdc'[h] >= usdc[h]
       /\ usdc'[h] > usdc[h] => h \in {workerSide, payerSide, feeRecipient}
       /\ h = feeRecipient /\ h \notin {workerSide, payerSide}
            => usdc'[h] - usdc[h] \in {0, e.fee}

(* What anybody but the sender has after a transfer.                       *)
LEMMA ReceiptLemma ==
  ASSUME NEW b \in [Holder -> Int], NEW from \in Holder, NEW to \in Holder, NEW n \in Nat
  PROVE  /\ Transfer(b, from, to, n) \in [Holder -> Int]
         /\ \A h \in Holder \ {from} :
              Transfer(b, from, to, n)[h] = IF h = to THEN b[h] + n ELSE b[h]
  BY DEF Transfer

(* The three transfers of a close go to the bound parties and the treasury.*)
LEMMA PaidToTheBound ==
  ASSUME IInv, NEW w \in WorkIds, Paid(w)
  PROVE  BoundTo(w)
  <1>1. PICK toWorker \in Nat, toPayer \in Nat, toTreasury \in {0, escrows[w].fee} :
          PayOut(w, toWorker, toPayer, toTreasury)
    BY DEF Paid
  <1> DEFINE e == escrows[w]
             toW == Payee(e.routes.worker, e.worker)
             toP == Payee(e.routes.payer, e.payer)
             u1 == Transfer(usdc, EscrowAddress, toW, toWorker)
             u2 == Transfer(u1, EscrowAddress, toP, toPayer)
             u3 == Transfer(u2, EscrowAddress, feeRecipient, toTreasury)
  <1>2. e \in Escrow  BY DEF IInv, TypeOK
  <1>3. toW \in Holder /\ toP \in Holder /\ feeRecipient \in Holder /\ EscrowAddress \in Holder
    BY <1>2, AddressAssumption DEF Escrow, Routes, Recipient, Payee, Holder, IInv, TypeOK
  <1>4. e.fee \in Nat /\ toTreasury \in Nat  BY <1>2 DEF Escrow
  <1>5. usdc \in [Holder -> Int]  BY DEF IInv, TypeOK
  <1>6. /\ u1 \in [Holder -> Int]
        /\ \A h \in Holder \ {EscrowAddress} :
             u1[h] = IF h = toW THEN usdc[h] + toWorker ELSE usdc[h]
    BY <1>3, <1>5, ReceiptLemma
  <1>7. /\ u2 \in [Holder -> Int]
        /\ \A h \in Holder \ {EscrowAddress} :
             u2[h] = IF h = toP THEN u1[h] + toPayer ELSE u1[h]
    BY <1>3, <1>6, ReceiptLemma
  <1>8. \A h \in Holder \ {EscrowAddress} :
          u3[h] = IF h = feeRecipient THEN u2[h] + toTreasury ELSE u2[h]
    BY <1>3, <1>4, <1>7, ReceiptLemma
  <1>9. usdc' = u3  BY <1>1 DEF PayOut
  <1> SUFFICES ASSUME NEW h \in Holder \ {EscrowAddress}
               PROVE  /\ usdc'[h] >= usdc[h]
                      /\ usdc'[h] > usdc[h] => h \in {toW, toP, feeRecipient}
                      /\ h = feeRecipient /\ h \notin {toW, toP}
                           => usdc'[h] - usdc[h] \in {0, e.fee}
    BY DEF BoundTo
  <1>10. usdc[h] \in Int /\ u1[h] \in Int /\ u2[h] \in Int  BY <1>5, <1>6, <1>7
  <1> HIDE DEF u1, u2, u3, toW, toP
  <1>11. usdc'[h] >= usdc[h]  BY <1>4, <1>6, <1>7, <1>8, <1>9, <1>10
  <1>12. usdc'[h] > usdc[h] => h \in {toW, toP, feeRecipient}
    BY <1>4, <1>6, <1>7, <1>8, <1>9, <1>10
  <1>13. h = feeRecipient /\ h \notin {toW, toP} => usdc'[h] - usdc[h] = toTreasury
    BY <1>4, <1>6, <1>7, <1>8, <1>9, <1>10
  <1> QED  BY <1>11, <1>12, <1>13

(* Nobody but a sender and the contract itself can lose by a step.         *)
LEMMA SparesLemma ==
  ASSUME IInv, [Next]_vars, NEW h \in Holder \ {EscrowAddress}, h \notin Senders
  PROVE  usdc'[h] >= usdc[h]
  <1>1. usdc \in [Holder -> Nat] /\ EscrowAddress \in Holder /\ Senders \subseteq Holder
    BY AddressAssumption DEF Holder, IInv, TypeOK
  <1>2. ASSUME NEW from \in Senders, NEW amount \in Nat, amount <= usdc[from],
               usdc' = Transfer(usdc, from, EscrowAddress, amount)
        PROVE  usdc'[h] >= usdc[h]
    BY <1>1, <1>2, TransferLemma
  <1>3. ASSUME NEW sender \in Senders, Administer(sender)  PROVE usdc'[h] >= usdc[h]
    <2>1. PICK new \in Appointees : \/ SetVerdict(sender, new) \/ SetFeeRecipient(sender, new)
                                   \/ SetHook(sender, new) \/ Sweep(sender, new)
      BY <1>3 DEF Administer
    <2>2. CASE Sweep(sender, new)
      <3> DEFINE free == usdc[EscrowAddress] - totalEscrowed
      <3>1. new \in Holder  BY AddressAssumption DEF Holder
      <3>2. free \in Nat /\ free <= usdc[EscrowAddress]
        BY <1>1, <2>2 DEF Sweep, IInv, TypeOK
      <3>3. usdc' = Transfer(usdc, EscrowAddress, new, free)  BY <2>2 DEF Sweep
      <3> HIDE DEF free
      <3> QED  BY <1>1, <3>1, <3>2, <3>3, TransferLemma
    <2>3. CASE UNCHANGED usdc  BY <1>1, <2>3
    <2> QED  BY <2>1, <2>2, <2>3 DEF SetVerdict, SetFeeRecipient, SetHook
  <1>4. ASSUME NEW sender \in Senders, Fund(sender)  PROVE usdc'[h] >= usdc[h]
    <2>1. PICK from \in Senders, amount \in Amounts :
            amount <= usdc[from] /\ usdc' = Transfer(usdc, from, EscrowAddress, amount)
      <3>1. PICK w \in WorkIds, worker \in Parties, amount \in Amounts, fee \in Fees,
                 ttl \in Ttls, routes \in RouteInputs :
                   \/ FundWithAuthorization(sender, w, worker, amount, fee, ttl, routes)
                   \/ \E payer \in Parties :
                        \/ FundWithAuthorizationFor(payer, w, worker, amount, fee, ttl, routes)
                        \/ FundCrossChain(sender, w, payer, worker, amount, fee, ttl, routes)
        BY <1>4 DEF Fund
      <3>2. ASSUME NEW payer, NEW nonce,
                   FundByAuthorization(nonce, w, payer, worker, amount, fee, ttl, routes)
            PROVE  /\ payer \in Senders /\ amount <= usdc[payer]
                   /\ usdc' = Transfer(usdc, payer, EscrowAddress, amount)
        BY <3>2, TokenAssumption DEF FundByAuthorization, Authorized
      <3>3. ASSUME NEW payer \in Parties,
                   FundCrossChain(sender, w, payer, worker, amount, fee, ttl, routes)
            PROVE  amount <= usdc[sender] /\ usdc' = Transfer(usdc, sender, EscrowAddress, amount)
        BY <3>3 DEF FundCrossChain
      <3> QED
        BY <3>1, <3>2, <3>3 DEF FundWithAuthorization, FundWithAuthorizationFor
    <2> QED  BY <1>2, <2>1, NumbersAssumption
  <1>5. ASSUME NEW sender \in Senders, Resolve(sender)  PROVE usdc'[h] >= usdc[h]
    <2>1. PICK w \in WorkIds : Paid(w)  BY <1>5, ResolveLemma DEF ClosesOne
    <2>2. BoundTo(w)  BY <2>1, PaidToTheBound
    <2> QED  BY <2>2 DEF BoundTo
  <1>6. ASSUME NEW from \in Senders, NEW amount \in StrayAmounts, StrayTransfer(from, amount)
        PROVE  usdc'[h] >= usdc[h]
    BY <1>2, <1>6, NumbersAssumption DEF StrayTransfer
  <1>7. CASE Tick \/ CctpFlip \/ UNCHANGED vars  BY <1>1, <1>7 DEF Tick, CctpFlip, vars
  <1> QED  BY <1>3, <1>4, <1>5, <1>6, <1>7 DEF Next

(* An escrow that a step settles is the one it closes.                     *)
LEMMA SettledIsPaid ==
  ASSUME IInv, BookStep, NEW w \in WorkIds,
         escrows[w].status = "FUNDED", escrows'[w].status = "SETTLED"
  PROVE  BoundTo(w)
  <1>1. escrows \in [WorkIds -> Escrow]  BY DEF IInv, TypeOK
  <1>2. ~Quiet  BY DEF Quiet
  <1>3. ASSUME NEW x \in WorkIds, Opened(x)  PROVE FALSE
    <2>1. x # w  BY <1>3 DEF Opened
    <2> QED  BY <1>1, <1>3, <2>1 DEF Opened
  <1>4. PICK x \in WorkIds : Closed(x) /\ Paid(x)  BY <1>2, <1>3 DEF BookStep, ClosesOne
  <1>5. x = w  BY <1>1, <1>4 DEF Closed
  <1> QED  BY <1>4, <1>5, PaidToTheBound

(* A settlement pays nobody but the parties bound at funding time and the  *)
(* treasury, for every split and every route (VerdiktEscrow.sol).          *)
THEOREM OnlyTheBoundArePaid == Spec => OnlyBoundPartiesPaid
  <1> DEFINE PaysTheBound == \A w \in WorkIds :
       escrows[w].status = "FUNDED" /\ escrows'[w].status = "SETTLED" => BoundTo(w)
  <1>1. IInv /\ [Next]_vars => PaysTheBound
    <2> SUFFICES ASSUME IInv, [Next]_vars PROVE PaysTheBound  OBVIOUS
    <2>1. BookStep  BY StepLemma DEF StepOf, BookStep
    <2> QED  BY <2>1, SettledIsPaid
  <1>2. IInv /\ [Next]_vars => [PaysTheBound]_vars  BY <1>1
  <1>3. Spec => [][PaysTheBound]_vars  BY <1>2, Invariance, PTL DEF Spec
  <1> QED  BY <1>3 DEF OnlyBoundPartiesPaid, BoundTo
------------------------------------------------------------------------------
(* The refinement, step by step.  An escrow that is not settled has paid   *)
(* nothing.                                                                *)
LEMMA NothingPaidYet ==
  ASSUME IInv, NEW w \in WorkIds, escrows[w].status # "SETTLED"
  PROVE  payout[w] = NoPayout
  <1>1. payout[w] \in Payouts  BY DEF IInv, TypeOK, Payouts
  <1>2. payout[w].worker + payout[w].payer + payout[w].treasury = 0
    BY DEF IInv, PaidInFullOnce
  <1> QED  BY <1>1, <1>2 DEF Payouts, NoPayout

(* Opening an escrow is Hold.                                              *)
LEMMA OpenedIsHold ==
  ASSUME IInv, NEW w \in WorkIds, Opened(w), Asked(w)
  PROVE  Custody!Hold(w)
  <1>1. PICK e \in Escrow :
          /\ e.status = "FUNDED" /\ 0 < e.amount /\ e.fee < e.amount
          /\ escrows' = [escrows EXCEPT ![w] = e]
    BY DEF Opened
  <1>2. escrows[w].status = "EMPTY" /\ payout' = payout  BY DEF Opened
  <1>3. escrows \in [WorkIds -> Escrow]  BY DEF IInv, TypeOK
  <1>4. escrows[w] = EmptyEscrow  BY <1>2 DEF IInv, Recorded
  <1>5. payout[w] = NoPayout  BY <1>2, NothingPaidYet
  <1>6. dealView[w] = Custody!NoDeal
    BY <1>4, <1>5 DEF dealView, Custody!NoDeal, Custody!Deal, EmptyEscrow, NoPayout
  <1>7. dealView' = [dealView EXCEPT ![w] = Custody!Deal("held", e.amount, e.fee, 0, 0, 0)]
    <2>1. payout[w].worker = 0 /\ payout[w].payer = 0 /\ payout[w].treasury = 0
      BY <1>5 DEF NoPayout
    <2>2. escrows'[w] = e /\ \A x \in WorkIds \ {w} : escrows'[x] = escrows[x]
      BY <1>1, <1>3
    <2> QED  BY <1>1, <1>2, <2>1, <2>2 DEF dealView, Custody!Deal
  <1>8. e.amount \in Amounts /\ e.fee \in Fees  BY <1>1, <1>3 DEF Asked
  <1> QED  BY <1>1, <1>6, <1>7, <1>8 DEF Custody!Hold

(* Closing an escrow is CloseOnVerdict when the fee was earned and         *)
(* GiveBack when it was not.                                               *)
LEMMA ClosedIsClose ==
  ASSUME IInv, NEW w \in WorkIds, Closed(w)
  PROVE  Custody!CloseOnVerdict(w) \/ Custody!GiveBack(w)
  <1> DEFINE old == escrows[w]
  <1>1. PICK e \in Escrow :
          /\ e.status = "SETTLED" /\ Terms(e) = Terms(old)
          /\ escrows' = [escrows EXCEPT ![w] = e]
    BY DEF Closed
  <1>2. PICK p \in Payouts :
          /\ payout' = [payout EXCEPT ![w] = p]
          /\ \/ p.treasury = old.fee /\ p.worker + p.payer = old.amount - old.fee
             \/ p = [worker |-> 0, payer |-> old.amount, treasury |-> 0]
    BY DEF Closed
  <1>3. escrows \in [WorkIds -> Escrow] /\ payout \in [WorkIds -> Payouts]
    BY DEF IInv, TypeOK, Payouts
  <1>4. old.status = "FUNDED" /\ old.amount \in Nat /\ old.fee \in Nat
    BY <1>3 DEF Closed, Escrow
  <1>5. e.amount = old.amount /\ e.fee = old.fee  BY <1>1 DEF Terms
  <1>6. /\ dealView[w].phase = "held"
        /\ dealView[w].principal = old.amount /\ dealView[w].feeTerm = old.fee
    BY <1>4 DEF dealView
  <1>7. dealView' = [dealView EXCEPT
          ![w] = Custody!Deal("closed", old.amount, old.fee, p.worker, p.payer, p.treasury)]
    BY <1>1, <1>2, <1>3, <1>5 DEF dealView, Custody!Deal
  <1>8. p.worker \in Nat /\ p.payer \in Nat /\ p.treasury \in Nat  BY DEF Payouts
  <1>9. CASE p.treasury = old.fee /\ p.worker + p.payer = old.amount - old.fee
    <2>1. p.worker \in 0 .. old.amount - old.fee /\ p.payer = (old.amount - old.fee) - p.worker
      BY <1>4, <1>8, <1>9
    <2> QED  BY <1>6, <1>7, <1>9, <2>1 DEF Custody!CloseOnVerdict
  <1>10. CASE p = [worker |-> 0, payer |-> old.amount, treasury |-> 0]
    BY <1>6, <1>7, <1>10 DEF Custody!GiveBack
  <1> QED  BY <1>2, <1>9, <1>10

(* The contract implements EscrowPromise: every behaviour of it, seen      *)
(* through dealView, only opens deals and closes each once, in full.       *)
THEOREM Refinement == Spec => KeepsPromise
  <1>1. Init => Custody!PromiseInit
    BY DEF Init, dealView, Custody!PromiseInit, Custody!NoDeal, Custody!Deal, EmptyEscrow, NoPayout
  <1>2. IInv /\ [Next]_vars => [Custody!PromiseNext]_dealView
    <2> SUFFICES ASSUME IInv, [Next]_vars PROVE [Custody!PromiseNext]_dealView
      OBVIOUS
    <2>1. CASE Quiet  BY <2>1 DEF Quiet, dealView
    <2>2. ASSUME NEW w \in WorkIds, (Opened(w) /\ Asked(w)) \/ Closed(w) PROVE Custody!PromiseNext
      BY <2>2, OpenedIsHold, ClosedIsClose DEF Custody!PromiseNext
    <2> QED  BY <2>1, <2>2, StepLemma DEF StepOf, ClosesOne
  <1> QED  BY <1>1, <1>2, Invariance, PTL DEF Spec, KeepsPromise, Custody!Promise
=============================================================================
