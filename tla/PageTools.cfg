CONSTANTS
  MaxCalls = 3
  MaxIntrusions = 4
  MaxRequests = 2
  MaxTurns = 3
SPECIFICATION PageSpec
INVARIANTS TypeOK SentOnceAsMeant InvitationTypeOK InvitedAsAsked StatusIsTrue
CHECK_DEADLOCK FALSE
