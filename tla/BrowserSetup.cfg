SPECIFICATION Spec
CONSTANTS
  MaxAttempts = 2
  MaxMishaps = 1
INVARIANTS TypeOK ReadyMeansInstalled
PROPERTIES NewAttemptsAreDue NothingOutlivesItsLease
CHECK_DEADLOCK FALSE
