CONSTANTS
  Hook = {h1, h2}
  Cli = {cli}
  Former = Former
  None = None
  MaxFaults = 1
SYMMETRY Interchangeable
SPECIFICATION Spec
INVARIANTS TypeOK OneServes AutoStartDelivers SomebodyServes
\* With every start at its end nothing is left to do.
CHECK_DEADLOCK FALSE
