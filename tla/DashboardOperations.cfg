CONSTANTS
  o1 = o1  o2 = o2
  NoOp = NoOp
  Op <- MCOp
  Title = {"branch", "name"}
  Branch = "branch"
  MaxWire = 3
  MaxSteps = 2
  MaxFaults = 2
SYMMETRY Interchangeable
SPECIFICATION Spec
INVARIANTS TypeOK RestIsClean FailureIsTold
CHECK_DEADLOCK FALSE
