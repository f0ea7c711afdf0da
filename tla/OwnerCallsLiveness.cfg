SPECIFICATION LiveSpec
CONSTANTS
  Call = {c1}
  Expiry = 1
  Slack = 1
  Drain = 1
  StopGrace = 0
  IdleAfter = 1
  Grace = 1
  MaxStalls = 1
CHECK_DEADLOCK FALSE
PROPERTIES AbandonedCallEnds RetiredOwnerGoes
