------------------------- MODULE MCEscrowFundingHook -------------------------
(* A small instance of the hook and the escrow together.                   *)
EXTENDS EscrowFundingHook

CONSTANTS w1, w2, zero, self, deployer, court, buyer, seller, hookAddress, buyerHome

MCAddress == {zero, self, deployer, court, buyer, seller, hookAddress}
BuyerAbroad == [worker |-> NoRecipient, payer |-> buyerHome]

Message(id, w, minted, fee, routes) ==
  [id |-> id, workId |-> w, payer |-> buyer, worker |-> seller, minted |-> minted,
   fee |-> fee, ttl |-> 1, routes |-> routes, short |-> FALSE]

(* Two burns for the same work (the second relay meets a used work id) and *)
(* a burn whose fee is no less than what the transfer's fee left of it.    *)
MCMessages == {Message(1, w1, 3, 1, BuyerAbroad),
               Message(2, w1, 3, 0, LocalRoutes),
               Message(3, w2, 1, 1, LocalRoutes)}

(* The payer can also fund the first work directly.                        *)
MCSigned == {[from |-> buyer, value |-> 2, validAfter |-> -1, validBefore |-> 2,
              nonce |-> NativeNonce(w1, seller, 2, 1, 1, buyer)]}
MCInitialUsdc == [h \in Holder |-> IF h = buyer THEN 2 ELSE 0]
MCRouteInputs == {LocalRoutes}
=============================================================================
