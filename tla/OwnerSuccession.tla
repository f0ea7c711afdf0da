--------------------------- MODULE OwnerSuccession ---------------------------
(* The owners of a profile, one after the other: what an election promises the *)
(* frontends whatever is lost, killed or late on the way.                      *)
EXTENDS OwnerTerms

CONSTANT Owner

VARIABLE owner  \* what has become of each owner process

Init == owner = [o \in Owner |-> "unborn"]

Comes(o) == MayCome(owner, o) /\ owner' = [owner EXCEPT ![o] = "up"]

Retires(o) == MayRetire(owner[o]) /\ owner' = [owner EXCEPT ![o] = "retiring"]

Goes(o) == MayGo(owner[o]) /\ owner' = [owner EXCEPT ![o] = "gone"]

Next == \E o \in Owner : Comes(o) \/ Retires(o) \/ Goes(o)

Spec == Init /\ [][Next]_owner
=============================================================================
