---------------------------- MODULE MCOwnerCalls ----------------------------
(* OwnerCalls for TLC: calls differ in nothing but their marker.               *)
EXTENDS OwnerCalls, TLC

CallSymmetry == Permutations(Call)
=============================================================================
