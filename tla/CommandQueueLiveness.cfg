CONSTANTS
  c1 = c1  c2 = c2  c3 = c3  s1 = s1  w1 = w1
  NoId = NoId  NoCommand = NoCommand
  Command <- Three
  Request <- TwoScopes
  Handlers <- RegisteredHandlers
  MaxFaults = 0
  MaxCrashes = 0
SPECIFICATION FairSpec
PROPERTIES ChainedCommandLeaves ShutdownCloses
\* A stopped observer, with every command dispatched, has nothing left to do.
CHECK_DEADLOCK FALSE
