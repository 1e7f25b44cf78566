CONSTANTS
  NoSnapshot = NoSnapshot
  Builds = {"same", "other"}
  MaxChanges = 2
  MaxFaults = 1
  MaxCalls = 1
SPECIFICATION FairSpec
INVARIANTS TypeOK QuietClientIsCurrent
PROPERTIES FrozenAfterStop RefreshSettles ResyncsOrParks WokenStopReturns
\* A stopped client has nothing left to do.
CHECK_DEADLOCK FALSE
