SPECIFICATION Spec
CONSTANTS
  Proc = {a, b}
  MaxSession = 2
  MaxQuarantine = 2
  MaxMishaps = 0
SYMMETRY ProcSymmetry
INVARIANT NoTwoSessionsMixed
CHECK_DEADLOCK FALSE
