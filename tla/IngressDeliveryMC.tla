-------------------------- MODULE IngressDeliveryMC --------------------------
(* Two reports: of one agent state each, or of the same one. *)
EXTENDS IngressDelivery, TLC

CONSTANTS r1, r2, k1, k2

MCReport == {r1, r2}
MCKey == {k1, k2}
OwnKeys == [r \in MCReport |-> IF r = r1 THEN k1 ELSE k2]
SharedKey == [r \in MCReport |-> k1]

(* Every report in the place of its key: the reports are alike. *)
Themselves == [r \in MCReport |-> r]
Interchangeable == Permutations(MCReport)
=============================================================================
