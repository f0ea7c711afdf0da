---------------------------- MODULE OwnerPromise ----------------------------
(* What one owner promises about the tool requests it is sent: it begins the   *)
(* body of a request once at most, refuses as one that never ran only what did *)
(* not run and never will, and closes admission once and for all.              *)
EXTENDS OwnerTerms

CONSTANT Request

VARIABLES owner,  \* what has become of the owner
          at      \* how far it is with each request

promiseVars == <<owner, at>>

Init == owner = "up" /\ at = [r \in Request |-> "unsent"]

Becomes(r, what) == at' = [at EXCEPT ![r] = what] /\ UNCHANGED owner

Sends(r) == at[r] = "unsent" /\ Becomes(r, "sent")

Takes(r) == MayTake(owner, at[r]) /\ Becomes(r, "taken")

Acts(r) == MayAct(owner, at[r]) /\ Becomes(r, "acted")

Refuses(r) == MayRefuse(owner, at[r]) /\ Becomes(r, "refused")

Answers(r) == MayAnswer(owner, at[r]) /\ Becomes(r, "over")

Retires == MayRetire(owner) /\ owner' = "retiring" /\ UNCHANGED at

\* What it had not answered it never will.
Goes ==
  /\ MayGo(owner) /\ owner' = "gone"
  /\ at' = [r \in Request |-> IF at[r] \in {"sent", "taken", "acted"} THEN "over" ELSE at[r]]

Next ==
  \/ \E r \in Request : Sends(r) \/ Takes(r) \/ Acts(r) \/ Refuses(r) \/ Answers(r)
  \/ Retires \/ Goes

Spec == Init /\ [][Next]_promiseVars
=============================================================================
