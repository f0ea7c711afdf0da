-------------------------- MODULE ExclusiveProfile --------------------------
(* What the profile lease promises every server process on the machine: at   *)
(* any moment the browser profile belongs to at most one process, only the   *)
(* process it belongs to opens a Chromium on it, and it is given back only   *)
(* once no Chromium of that process is left, whether or not the process      *)
(* itself still runs.                                                        *)
CONSTANTS Proc, NoProc

VARIABLES holder,   \* the process the profile belongs to, or NoProc
          live      \* the processes with a Chromium on the profile

profileVars == <<holder, live>>

Init == holder = NoProc /\ live = {}

Acquire(p) ==
  /\ holder = NoProc
  /\ holder' = p
  /\ UNCHANGED live

Launch(p) ==
  /\ holder = p
  /\ live' = live \cup {p}
  /\ UNCHANGED holder

\* Chromium goes away; the process it belonged to keeps the profile.
Ends(p) ==
  /\ live' = live \ {p}
  /\ UNCHANGED holder

\* The profile is given back in the step that finds the last Chromium gone,
\* or in a later one.
Release(p) ==
  /\ holder = p
  /\ holder' = NoProc
  /\ live' = live \ {p}

Next == \E p \in Proc : Acquire(p) \/ Launch(p) \/ Ends(p) \/ Release(p)

Spec == Init /\ [][Next]_profileVars
=============================================================================
