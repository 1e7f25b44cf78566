CONSTANTS
  c1 = c1  c2 = c2
  User = User
  NoWorktree = NoWorktree  NoWindow = NoWindow  NoAgent = NoAgent  NoPane = NoPane  NoScan = NoScan
  Command <- MCCommand
  KindsOf <- MCKindsOf
  CanStop = {TRUE, FALSE}
  MaxFaults = 1
  MaxPanes = 2
  MaxExits = 1
SPECIFICATION Spec
INVARIANTS TypeOK FailedLaunchLeavesNothing CleanupKeepsItsWord DoneIsShown
\* Commands that have ended, in an observer that shows what is there, leave nothing to do.
CHECK_DEADLOCK FALSE
