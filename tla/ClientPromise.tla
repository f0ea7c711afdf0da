---------------------------- MODULE ClientPromise ----------------------------
(* What a client may count on when it calls a tool that changes something: the *)
(* call has its effect once at most, and a client that is told that it may     *)
(* make the call again has made one that had no effect and never will.  Of any *)
(* other answer, and of none, the effect may still come later.                 *)
EXTENDS Naturals

CONSTANT Call

VARIABLES told,     \* "nothing" yet, "repeat" for a call to make again, or "other"
          effects   \* how often the call has had its effect

promiseVars == <<told, effects>>

Init == told = [c \in Call |-> "nothing"] /\ effects = [c \in Call |-> 0]

Acts(c) ==
  /\ told[c] # "repeat" /\ effects[c] = 0
  /\ effects' = [effects EXCEPT ![c] = 1]
  /\ UNCHANGED told

SaysToRepeat(c) ==
  /\ told[c] = "nothing" /\ effects[c] = 0
  /\ told' = [told EXCEPT ![c] = "repeat"]
  /\ UNCHANGED effects

SaysAnythingElse(c) ==
  /\ told[c] = "nothing"
  /\ told' = [told EXCEPT ![c] = "other"]
  /\ UNCHANGED effects

Next == \E c \in Call : Acts(c) \/ SaysToRepeat(c) \/ SaysAnythingElse(c)

Spec == Init /\ [][Next]_promiseVars
=============================================================================
