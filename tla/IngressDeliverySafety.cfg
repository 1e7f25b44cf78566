CONSTANTS
  r1 = r1  r2 = r2  k1 = k1  k2 = k2
  NoReport = NoReport
  Report <- MCReport
  Key <- MCReport
  CoalesceKey <- Themselves
  Caller = {reconcile}
  Reconciler = reconcile
  MaxPending = 1
  MaxRemembered = 1
  MaxEnqueues = 3
  MaxFaults = 1
  MaxCrashes = 1
SYMMETRY Interchangeable
SPECIFICATION Spec
INVARIANTS TypeOK AnnouncedOnceStored SpooledIsKept
\* Once every report is sent and no observer is started, nothing is left to do.
CHECK_DEADLOCK FALSE
