----------------------------- MODULE OwnerTerms -----------------------------
(* The terms between the owners of a profile and the frontends that use them: *)
(* how owners follow each other and how one of them deals with a tool request *)
(* it was sent.  CallRecovery takes them as given.  Election keeps those about *)
(* owners (see OwnerSuccession) and OwnerCalls those about requests (see       *)
(* OwnerPromise).                                                              *)

\* An owner that has closed admission is retiring.
OwnerState == {"unborn", "up", "retiring", "gone"}
Running == {"up", "retiring"}

\* An owner comes when all before it are gone: the daemon lock lets one live at a
\* time.  It may also end without ever having been one.
MayCome(owner, o) ==
  /\ owner[o] = "unborn"
  /\ \A p \in DOMAIN owner : owner[p] \in {"unborn", "gone"}
MayRetire(state) == state = "up"
MayGo(state) == state # "gone"

\* A request is sent, then taken by an owner that has not closed admission, and acted
\* on from the moment its tool body begins.
MayTake(state, at) == state = "up" /\ at = "sent"
MayAct(state, at) == state \in Running /\ at = "taken"

\* The signed refusal, which says that the tool never ran: of a request that came too
\* late, and of one that was taken and still queued when its owner stopped waiting.
MayRefuse(state, at) == state = "retiring" /\ at \in {"sent", "taken"}
MayAnswer(state, at) == state \in Running /\ at \in {"taken", "acted"}
=============================================================================
