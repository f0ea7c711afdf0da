SPECIFICATION Spec
CONSTANTS
  Proc = {a, b}
  MaxSession = 2
  MaxQuarantine = 2
  MaxMishaps = 1
SYMMETRY ProcSymmetry
INVARIANTS TypeOK MixedOnlyIfTainted NothingIsLost
PROPERTIES NewSessionsAreRespected FailedSignInCostsNothing
CHECK_DEADLOCK FALSE
