SPECIFICATION Spec
CONSTANTS
  Call = {c1, c2}
  Expiry = 1
  Slack = 1
  Drain = 1
  StopGrace = 0
  IdleAfter = 1
  Grace = 2
  MaxStalls = 1
SYMMETRY CallSymmetry
INVARIANTS TypeOK WaitingClientIsKept QuietRetirementCutsNobody
PROPERTIES KeepsItsPromise IdleExitIsEarned
CHECK_DEADLOCK FALSE
