CONSTANTS
  w1 = w1  r1 = r1  r2 = r2
  NoAgent = NoAgent
  Start <- MCStart
  Exited <- MCExited
  Row = {w1}
  Report = {r1, r2}
  StatusOf <- OneRow
  Manual = {m1}
  MaxRequests = 2
  MaxFaults = 1
SPECIFICATION FairSpec
INVARIANTS TypeOK QuietSnapshotIsCurrent NoForgottenRequest
PROPERTIES BasisNeverShrinks ComesToRest
\* An observer at rest waits for the next report.
CHECK_DEADLOCK FALSE
