SPECIFICATION Spec
CONSTANTS
  Frontend = {f1, f2}
  Builds = {1, 2}
  Settings = {plain, other}
  MaxGen = 2
  MaxMishaps = 2
  Nobody = Nobody
INVARIANTS TypeOK PublishedIsNeverUndone OnlyTheUnusableAreBuried
PROPERTIES OneOwnerAfterAnother PublishedUnderTheLock LockIsPutToUse
CHECK_DEADLOCK FALSE
