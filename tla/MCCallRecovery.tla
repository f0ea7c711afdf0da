--------------------------- MODULE MCCallRecovery ---------------------------
(* Instances of CallRecovery for TLC.                                         *)
EXTENDS CallRecovery, TLC

\* Owners other than the first, and operations of a kind, are interchangeable.
OwnerAndCallSymmetry ==
  Permutations(Owner \ {First}) \cup Permutations(Reading) \cup Permutations(Writing)
=============================================================================
