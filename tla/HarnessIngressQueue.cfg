CONSTANTS
  r1 = r1  r2 = r2  r3 = r3  r4 = r4  r5 = r5  k1 = k1  k2 = k2  k3 = k3
  NoReport = NoReport
  Report <- MCReport
  Key <- MCKey
  CoalesceKey <- MCCoalesceKey
  Caller = {d1, d2}
  MaxPending = 2
  MaxRemembered = 3
  MaxEnqueues = 6
SPECIFICATION FairQueueSpec
INVARIANTS QueueIsConsistent
PROPERTIES DrainEnds QueuedIsWorkedOff ShutdownEnds
\* A stopped queue only rejects, and only as often as the bound allows.
CHECK_DEADLOCK FALSE
