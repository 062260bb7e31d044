---------------------------- MODULE EscrowPromise ----------------------------
(***************************************************************************)
(* What the escrow contract promises to a buyer and a seller, with none of *)
(* its machinery: a deal is opened by putting principal in, stays held for *)
(* any time, and is closed exactly once by giving ALL of the principal out *)
(* to the seller, the buyer and the treasury.  The treasury earns its fee  *)
(* only when the deal closes on a verdict, never when it is given back.    *)
(***************************************************************************)
EXTENDS Integers

CONSTANTS WorkIds,  \* the work identifiers a deal can be keyed by
          Amounts,  \* the principals a deal can hold (bounty + fee)
          Fees      \* the verdict fees a deal can agree

VARIABLE deal

Deal(phase, principal, feeTerm, toWorker, toPayer, toTreasury) ==
  [phase |-> phase, principal |-> principal, feeTerm |-> feeTerm,
   toWorker |-> toWorker, toPayer |-> toPayer, toTreasury |-> toTreasury]
NoDeal == Deal("none", 0, 0, 0, 0, 0)

PromiseInit == deal = [w \in WorkIds |-> NoDeal]

(* A buyer puts principal in; the fee agreed is a part of it.              *)
Hold(w) ==
  /\ deal[w] = NoDeal
  /\ \E amount \in Amounts, fee \in Fees :
       /\ amount > 0
       /\ fee < amount
       /\ deal' = [deal EXCEPT ![w] = Deal("held", amount, fee, 0, 0, 0)]

(* A verdict splits the bounty between the two parties; the fee is earned. *)
CloseOnVerdict(w) ==
  LET principal == deal[w].principal
      fee == deal[w].feeTerm
      bounty == principal - fee
  IN /\ deal[w].phase = "held"
     /\ \E share \in 0 .. bounty :
          deal' = [deal EXCEPT ![w] = Deal("closed", principal, fee, share, bounty - share, fee)]

(* No verdict: everything returns to the buyer, the fee included.          *)
GiveBack(w) ==
  LET principal == deal[w].principal
  IN /\ deal[w].phase = "held"
     /\ deal' = [deal EXCEPT ![w] = Deal("closed", principal, deal[w].feeTerm, 0, principal, 0)]

PromiseNext == \E w \in WorkIds : Hold(w) \/ CloseOnVerdict(w) \/ GiveBack(w)

Promise == PromiseInit /\ [][PromiseNext]_deal
=============================================================================
