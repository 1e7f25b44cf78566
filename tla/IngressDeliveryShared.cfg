CONSTANTS
  r1 = r1  r2 = r2  k1 = k1  k2 = k2
  NoReport = NoReport
  Report <- MCReport
  Key <- MCKey
  CoalesceKey <- SharedKey
  Caller = {reconcile}
  Reconciler = reconcile
  MaxPending = 1
  MaxRemembered = 2
  MaxEnqueues = 2
  MaxFaults = 0
  MaxCrashes = 0
SPECIFICATION FairSpec
INVARIANT AckedIsHeld
PROPERTIES AckedReachesStore ListedIsDelivered DrainsLeadToReconcile
\* Once every report is sent and no observer is started, nothing is left to do.
CHECK_DEADLOCK FALSE
