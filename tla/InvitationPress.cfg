SPECIFICATION InvitationSpec
CONSTANTS
  MaxRequests = 1
  MaxTurns = 0
INVARIANTS LimitMeansRejected
CHECK_DEADLOCK FALSE
