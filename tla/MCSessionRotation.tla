------------------------- MODULE MCSessionRotation -------------------------
(* Instances of SessionRotation for TLC.                                      *)
EXTENDS SessionRotation, TLC

\* Processes differ only in what they do.
ProcSymmetry == Permutations(Proc)
=============================================================================
