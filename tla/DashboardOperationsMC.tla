----------------------- MODULE DashboardOperationsMC -----------------------
EXTENDS DashboardOperations, TLC
CONSTANTS o1, o2
MCOp == {o1, o2}
Interchangeable == Permutations(MCOp)
=============================================================================
