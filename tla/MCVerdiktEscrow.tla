--------------------------- MODULE MCVerdiktEscrow ---------------------------
(* Small instances of VerdiktEscrow for TLC.                               *)
EXTENDS VerdiktEscrow

CONSTANTS w1, w2, zero, self, deployer, court, buyer, seller, funder,
          sellerHome, buyerHome, h1

MCWorkIds == {w1, w2}
MCAddress == {zero, self, deployer, court, buyer, seller, funder}
MCRemote == {sellerHome, buyerHome}
MCEvidence == {h1}
Bridged == [worker |-> sellerHome, payer |-> buyerHome]
BuyerAbroad == [worker |-> NoRecipient, payer |-> buyerHome]

Authorization(path, w, amount, fee, routes) ==
  [from |-> buyer, value |-> amount, validAfter |-> -1, validBefore |-> 2,
   nonce |-> IF path = "native" THEN NativeNonce(w, seller, amount, fee, 1, buyer)
             ELSE RelayedNonce(w, seller, amount, fee, 1, buyer, routes)]

(* Two authorizations race for w1, one is for w2, and one is over a value  *)
(* its nonce does not say, which no path can redeem.                       *)
MCSigned == {Authorization("native", w1, 3, 1, LocalRoutes),
             Authorization("relayed", w1, 3, 0, Bridged),
             Authorization("relayed", w2, 3, 1, BuyerAbroad),
             [Authorization("native", w2, 3, 1, LocalRoutes) EXCEPT !.value = 2]}

MCInitialUsdc == [h \in Holder |-> CASE h = buyer -> 6 [] h = funder -> 3 [] OTHER -> 0]
MCRouteInputs == {LocalRoutes, Bridged, BuyerAbroad}
=============================================================================
