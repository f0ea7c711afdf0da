SPECIFICATION Spec
CONSTANTS
  NoProc = NoProc
  Proc = {owner, direct}
  Owners = {owner}
  Mortal = {owner, direct}
  IdleTimeout = TRUE
INVARIANTS TypeOK OneChromium ReferencesAddUp
PROPERTIES HandoverSparesRunningCalls StrandedUntilDeath LeasePromise
