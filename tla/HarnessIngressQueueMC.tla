------------------------ MODULE HarnessIngressQueueMC ------------------------
(* Five reports, two of them under one coalesce key and two under another. *)
EXTENDS HarnessIngressQueue

CONSTANTS r1, r2, r3, r4, r5, k1, k2, k3

MCReport == {r1, r2, r3, r4, r5}
MCKey == {k1, k2, k3}
MCCoalesceKey == [r \in MCReport |-> CASE r \in {r1, r2} -> k1
                                       [] r \in {r3, r5} -> k2
                                       [] OTHER -> k3]
=============================================================================
