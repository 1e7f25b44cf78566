CONSTANTS
  c1 = c1  c2 = c2  c3 = c3  s1 = s1  w1 = w1
  NoId = NoId  NoCommand = NoCommand
  Command <- Three
  Request <- OneSession
  Handlers <- RegisteredHandlers
  MaxFaults = 1
  MaxCrashes = 1
SPECIFICATION Spec
INVARIANTS TypeOK ScopeSerial FlushedAtClose
PROPERTIES AbortHonoured ImplementsLifecycle
\* A stopped observer, with every command dispatched, has nothing left to do.
CHECK_DEADLOCK FALSE
