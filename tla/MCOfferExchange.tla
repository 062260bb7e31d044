--------------------------- MODULE MCOfferExchange ---------------------------
(* A small instance of OfferExchange for TLC: a work in each of the ways   *)
(* it can be paid, the cross-chain one beside a transfer of the same key,  *)
(* and one on Arc whose price ends in half an atomic unit.                 *)
EXTENDS OfferExchange

CONSTANTS x1, b1, l1, p1, m1, h1

HowPaid == [w \in ClientWorks |->
             CASE w = x1 -> "cross" [] w = b1 -> "bridge" [] w \in {l1, p1} -> "local"
               [] w = m1 -> "mcp" [] w = h1 -> "hand"]
AmountsOf == [w \in ClientWorks |-> IF w = b1 THEN 3 ELSE 2]
Together == {s \in {{x1, b1}, {x1}, {l1}, {p1}, {m1}, {h1}} : s \subseteq ClientWorks}
OnArc == [worker |-> "arc", payer |-> "arc"]
RouteChoices == {OnArc, [worker |-> "base", payer |-> "arc"], [worker |-> "base", payer |-> "eth"]}

(* The race for the allowance of a key is over before anything is paid out *)
(* abroad, so the two are not combined.                                    *)
MCOfferInit == OfferInit /\ (client[b1] = "new" => terms.routes = OnArc)
=============================================================================
