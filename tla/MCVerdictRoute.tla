---------------------------- MODULE MCVerdictRoute ----------------------------
(* Small instances of VerdictRoute for TLC: who races for the one work.    *)
EXTENDS VerdictRoute, TLC

CONSTANTS w1, v1, v2, relay1, demo1, demo2

OneWork == [r \in Requests |-> w1]
KindsOf == [r \in Requests |-> CASE r \in {v1, v2} -> "verdict" [] r = relay1 -> "relay"
                                 [] OTHER -> "demo"]

(* An abstain matters to what is billed, so to the verdict requests alone. *)
LabelsOf == [r \in Requests |-> IF KindsOf[r] = "verdict" THEN {"refund", "abstain"} ELSE {"refund"}]
Alike == Permutations({v1, v2}) \cup Permutations({demo1, demo2})
=============================================================================
