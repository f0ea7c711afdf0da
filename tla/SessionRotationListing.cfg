SPECIFICATION Spec
CONSTANTS
  Proc = {a, b}
  MaxSession = 2
  MaxQuarantine = 2
  MaxMishaps = 0
SYMMETRY ProcSymmetry
INVARIANT RetirementIsWhole
CHECK_DEADLOCK FALSE
