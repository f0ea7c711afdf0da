SPECIFICATION Spec
CONSTANTS
  Owner = {o1, o2, o3}
  First = o1
  Listing = {l}
  Reading = {r}
  Writing = {w}
  AtOnce = 2
SYMMETRY OwnerAndCallSymmetry
INVARIANTS TypeOK BeatsFollowTheRequest
PROPERTIES PromiseToClients GivesUpInformed
CHECK_DEADLOCK FALSE
