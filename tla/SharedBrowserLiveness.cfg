SPECIFICATION LiveSpec
CONSTANTS
  NoProc = NoProc
  Proc = {owner, direct}
  Owners = {owner}
  Mortal = {}
  IdleTimeout = TRUE
PROPERTIES HandoffHonoured StrandedOwnerGivesWay DeathFreesTheProfile
