--------------------------- MODULE BrowserSetup_proof ---------------------------
(* That BrowserSetup never takes a killed installer for a finished one, and      *)
(* never drops a failure unread, for any number of attempts and mishaps.  The    *)
(* argument: an attempt's processes start once and in order, so an installer    *)
(* that ended well stays ended; a good exit status is sent only after that; and *)
(* an untold failure is always the end of the latest task, which the gate reads *)
(* before it does anything else.  At the end: a closed lease ends its installer. *)
EXTENDS BrowserSetup, TLAPS

\* What the server's own variables say about each other.
Bookkeeping ==
  /\ late => role = "owner"
  /\ server # "up" => call = "none"
  /\ task \in Running => attempt # 0
  /\ unheard => task \in Failure
  /\ state # "failed"

\* An attempt's processes appear once, the outer before the inner.
InOrder(n) ==
  /\ n > attempt \/ (n = attempt /\ task = "checking") => sup[n] = "none"
  /\ sup[n] = "none" => exit[n] = "none"
  /\ sup[n] \in {"none", "gated"} => worker[n] = "none"
  /\ worker[n] \in {"none", "gated"} => target[n] = "none"
  /\ exit[n] = "ok" => target[n] = "ok"

TreeInPlace == \A n \in Attempt : InOrder(n)

\* The types of the server's variables and of the tree's.
ServerTyped ==
  /\ role \in {"owner", "single"} /\ server \in {"up", "stopping", "dead"}
  /\ call \in {"none", "waiting"} /\ attempt \in 0..MaxAttempts
  /\ task \in {"none", "ok"} \cup Running \cup Failure
  /\ why \in Failure \cup {"none"} /\ (why # "none" <=> task = "stopping")
  /\ state \in {"idle", "running", "ready", "failed"}
  /\ late \in BOOLEAN /\ asked \in BOOLEAN /\ unheard \in BOOLEAN
  /\ asked => role = "owner"
  /\ server = "dead" => task = "none" /\ call = "none"

TreeTyped ==
  /\ lease \in [Attempt -> {"open", "closed"}] /\ opened \in [Attempt -> BOOLEAN]
  /\ sup \in [Attempt -> {"none", "gated", "watching", "gone"}]
  /\ worker \in [Attempt -> {"none", "gated", "running", "done", "dead"}]
  /\ target \in [Attempt -> {"none", "running", "ok", "bad", "killed"}]
  /\ exit \in [Attempt -> {"none", "ok", "bad"}]

RestTyped == ready \in BOOLEAN /\ mishaps \in 0..MaxMishaps

Parts ==
  ServerTyped /\ TreeTyped /\ RestTyped /\ Bookkeeping /\ TreeInPlace /\ ReadyMeansInstalled

IInv == TypeOK /\ Bookkeeping /\ TreeInPlace /\ ReadyMeansInstalled

\* An attempt is a positive number.
LEMMA AttemptFacts ==
  /\ Attempt \subseteq Nat /\ 0..MaxAttempts = Attempt \cup {0} /\ 0 \notin Attempt
  /\ MaxAttempts \in Nat
BY BoundsAssumption DEF Attempt

\* A mishap leaves their number within its bound.
LEMMA MishapsAreBounded == /\ MaxMishaps \in Nat /\ 0 \in 0..MaxMishaps
                           /\ RestTyped /\ Mishap => mishaps' \in 0..MaxMishaps
BY BoundsAssumption DEF RestTyped, Mishap

\* The type invariant, part by part.
LEMMA TypeParts == TypeOK <=> ServerTyped /\ TreeTyped /\ RestTyped
<1>1. (why # "none") = (task = "stopping") <=> (why # "none" <=> task = "stopping")
  OBVIOUS
<1>. QED  BY <1>1, Zenon DEF TypeOK, ServerTyped, TreeTyped, RestTyped

LEMMA InvariantParts == /\ IInv <=> Parts
                        /\ IInv' <=> Parts'
<1>1. IInv <=> Parts
  BY TypeParts DEF IInv, Parts
<1>. QED  BY <1>1, PTL

\* The invariant holds before the first tool call.
LEMMA Initially == Init => IInv
<1>. SUFFICES ASSUME Init PROVE Parts
  BY InvariantParts
<1>1. ServerTyped
  BY AttemptFacts DEF Init, ServerTyped, Running, Failure
<1>2. TreeTyped
  BY DEF Init, TreeTyped
<1>4. RestTyped
  BY MishapsAreBounded DEF Init, RestTyped
<1>3. Bookkeeping /\ TreeInPlace /\ ReadyMeansInstalled
  BY DEF Init, Bookkeeping, TreeInPlace, InOrder, ReadyMeansInstalled, Running, Failure
<1>. QED  BY <1>1, <1>2, <1>3, <1>4 DEF Parts

LEMMA CallArrivesKeeps ==
  ASSUME Parts, CallArrives PROVE Parts'
<1>. USE DEF Parts
<1>1. ServerTyped'
  <2>1. CASE HearsOfTheFailure
    <3>1. asked' \in BOOLEAN /\ late' \in BOOLEAN /\ unheard' \in BOOLEAN
      BY <2>1, Zenon DEF HearsOfTheFailure, Consumes
    <3>2. asked' => asked \/ late
      BY <2>1 DEF HearsOfTheFailure, Consumes
    <3>. QED  BY <2>1, <3>1, <3>2 DEF CallArrives, HearsOfTheFailure, Refreshed, Consumes,
              ServerTyped, Bookkeeping, server_vars, Running, Failure
  <2>2. CASE IsTurnedAway
    BY <2>2 DEF CallArrives, IsTurnedAway, Refreshed, ServerTyped, Running, Failure
  <2>3. CASE WaitsForTheCheck
    <3>1. attempt' \in 0..MaxAttempts
      BY <2>3, BoundsAssumption DEF WaitsForTheCheck, ServerTyped
    <3>2. CASE task \in Running
      BY <2>3, <3>1, <3>2 DEF CallArrives, WaitsForTheCheck, ServerTyped
    <3>3. CASE task \notin Running
      BY <2>3, <3>1, <3>3 DEF CallArrives, WaitsForTheCheck, ServerTyped, Running
    <3>. QED  BY <3>2, <3>3
  <2>. QED  BY <2>1, <2>2, <2>3 DEF CallArrives
<1>2. Bookkeeping'
  <2>1. CASE HearsOfTheFailure
    BY <2>1 DEF CallArrives, HearsOfTheFailure, Consumes, Bookkeeping, ServerTyped, Running
  <2>2. CASE IsTurnedAway
    BY <2>2 DEF CallArrives, IsTurnedAway, Refreshed, ServerTyped, Bookkeeping, Running,
       Failure
  <2>3. CASE WaitsForTheCheck
    <3>1. CASE task \in Running
      BY <2>3, <3>1 DEF CallArrives, WaitsForTheCheck, ServerTyped, Bookkeeping
    <3>2. CASE task \notin Running
      <4>1. attempt' # 0
        BY <2>3, <3>2, BoundsAssumption DEF WaitsForTheCheck, ServerTyped
      <4>2. ~unheard'
        BY <2>3, <3>2 DEF WaitsForTheCheck, Refreshed, Bookkeeping
      <4>. QED  BY <2>3, <3>2, <4>1, <4>2 DEF CallArrives, WaitsForTheCheck, Bookkeeping
    <3>. QED  BY <3>1, <3>2
  <2>. QED  BY <2>1, <2>2, <2>3 DEF CallArrives
<1>3. TreeTyped'
  BY DEF CallArrives, HearsOfTheFailure, IsTurnedAway, WaitsForTheCheck, Refreshed,
     Consumes, TreeTyped, tree
<1>4. RestTyped'
  BY BoundsAssumption DEF CallArrives, HearsOfTheFailure, IsTurnedAway,
     WaitsForTheCheck, Refreshed, Consumes, RestTyped
<1>5. TreeInPlace'
  BY AttemptFacts DEF CallArrives, HearsOfTheFailure, IsTurnedAway, WaitsForTheCheck,
     Refreshed, Consumes, ServerTyped, TreeTyped, Bookkeeping, TreeInPlace, InOrder,
     tree, server_vars, Running
<1>6. ReadyMeansInstalled'
  BY AttemptFacts DEF CallArrives, HearsOfTheFailure, IsTurnedAway, WaitsForTheCheck,
     Refreshed, Consumes, ServerTyped, TreeTyped, Bookkeeping, TreeInPlace, InOrder,
     ReadyMeansInstalled, tree, Running
<1>. QED  BY <1>1, <1>2, <1>3, <1>4, <1>5, <1>6

LEMMA CallResumesKeeps ==
  ASSUME Parts, CallResumes PROVE Parts'
<1>. USE DEF Parts
<1>1. ServerTyped'
  <2>1. CASE Consumes
    <3>1. asked' \in BOOLEAN /\ late' \in BOOLEAN /\ unheard' \in BOOLEAN
      BY <2>1, Zenon DEF Consumes
    <3>2. asked' => asked \/ late
      BY <2>1 DEF Consumes
    <3>. QED  BY <2>1, <3>1, <3>2 DEF CallResumes, Consumes, ServerTyped, Bookkeeping,
              server_vars, tree, Running, Failure
  <2>2. CASE task = "ok" /\ task' = "none" /\ state' = "ready" /\ UNCHANGED <<late, asked, unheard>>
    BY <2>2 DEF CallResumes, ServerTyped, server_vars, tree, Running, Failure
  <2>3. CASE UNCHANGED <<task, state, late, asked, unheard>>
    BY <2>3 DEF CallResumes, ServerTyped, server_vars, tree, Running, Failure
  <2>. QED  BY <2>1, <2>2, <2>3 DEF CallResumes
<1>2. Bookkeeping'
  <2>1. CASE Consumes
    BY <2>1 DEF CallResumes, Consumes, Bookkeeping, ServerTyped, Running
  <2>2. CASE task = "ok" /\ task' = "none" /\ state' = "ready" /\ UNCHANGED <<late, asked, unheard>>
    BY <2>2 DEF CallResumes, Bookkeeping, ServerTyped, Running, Failure
  <2>3. CASE UNCHANGED <<task, state, late, asked, unheard>>
    BY <2>3 DEF CallResumes, Bookkeeping, ServerTyped, Running, Failure
  <2>. QED  BY <2>1, <2>2, <2>3 DEF CallResumes
<1>3. TreeTyped'
  BY DEF CallResumes, Consumes, TreeTyped, tree
<1>4. RestTyped'
  BY BoundsAssumption DEF CallResumes, Consumes, RestTyped
<1>5. TreeInPlace'
  BY AttemptFacts DEF CallResumes, Consumes, ServerTyped, TreeTyped, Bookkeeping,
     TreeInPlace, InOrder, tree, server_vars, Running
<1>6. ReadyMeansInstalled'
  BY AttemptFacts DEF CallResumes, Consumes, ServerTyped, TreeTyped, Bookkeeping,
     TreeInPlace, InOrder, ReadyMeansInstalled, tree, Running
<1>. QED  BY <1>1, <1>2, <1>3, <1>4, <1>5, <1>6

LEMMA CallLeavesKeeps ==
  ASSUME Parts, CallLeaves PROVE Parts'
<1>. USE DEF Parts
<1>1. ServerTyped'
  BY AttemptFacts DEF CallLeaves, ServerTyped, Bookkeeping, server_vars, tree,
     Running, Failure
<1>2. Bookkeeping'
  BY AttemptFacts DEF CallLeaves, ServerTyped, Bookkeeping, server_vars, tree,
     Running, Failure
<1>3. TreeTyped'
  BY DEF CallLeaves, TreeTyped, tree
<1>4. RestTyped'
  BY BoundsAssumption DEF CallLeaves, RestTyped
<1>5. TreeInPlace'
  BY AttemptFacts DEF CallLeaves, ServerTyped, TreeTyped, Bookkeeping, TreeInPlace,
     InOrder, tree, server_vars, Running
<1>6. ReadyMeansInstalled'
  BY AttemptFacts DEF CallLeaves, ServerTyped, TreeTyped, Bookkeeping, TreeInPlace,
     InOrder, ReadyMeansInstalled, tree, Running
<1>. QED  BY <1>1, <1>2, <1>3, <1>4, <1>5, <1>6

LEMMA FindsItInstalledKeeps ==
  ASSUME Parts, FindsItInstalled PROVE Parts'
<1>. USE DEF Parts
<1>1. ServerTyped'
  BY AttemptFacts DEF FindsItInstalled, TaskEnds, ServerTyped, Bookkeeping,
     server_vars, tree, Running, Failure
<1>2. Bookkeeping'
  BY AttemptFacts DEF FindsItInstalled, TaskEnds, ServerTyped, Bookkeeping,
     server_vars, tree, Running, Failure
<1>3. TreeTyped'
  BY DEF FindsItInstalled, TaskEnds, TreeTyped, tree
<1>4. RestTyped'
  BY BoundsAssumption DEF FindsItInstalled, TaskEnds, RestTyped
<1>5. TreeInPlace'
  BY AttemptFacts DEF FindsItInstalled, TaskEnds, ServerTyped, TreeTyped, Bookkeeping,
     TreeInPlace, InOrder, tree, server_vars, Running
<1>6. ReadyMeansInstalled'
  BY AttemptFacts DEF FindsItInstalled, TaskEnds, ServerTyped, TreeTyped, Bookkeeping,
     TreeInPlace, InOrder, ReadyMeansInstalled, tree, Running
<1>. QED  BY <1>1, <1>2, <1>3, <1>4, <1>5, <1>6

LEMMA StartsTheInstallerKeeps ==
  ASSUME Parts, StartsTheInstaller PROVE Parts'
<1>. USE DEF Parts
<1>1. ServerTyped'
  BY AttemptFacts DEF StartsTheInstaller, ServerTyped, Bookkeeping, server_vars, tree,
     Running, Failure
<1>2. Bookkeeping'
  BY AttemptFacts DEF StartsTheInstaller, ServerTyped, Bookkeeping, server_vars, tree,
     Running, Failure
<1>3. TreeTyped'
  BY DEF StartsTheInstaller, TreeTyped, tree
<1>4. RestTyped'
  BY BoundsAssumption DEF StartsTheInstaller, RestTyped
<1>5. TreeInPlace'
  BY AttemptFacts DEF StartsTheInstaller, ServerTyped, TreeTyped, Bookkeeping,
     TreeInPlace, InOrder, tree, server_vars, Running
<1>6. ReadyMeansInstalled'
  BY AttemptFacts DEF StartsTheInstaller, ServerTyped, TreeTyped, Bookkeeping,
     TreeInPlace, InOrder, ReadyMeansInstalled, tree, Running
<1>. QED  BY <1>1, <1>2, <1>3, <1>4, <1>5, <1>6

LEMMA OpensTheGateKeeps ==
  ASSUME Parts, OpensTheGate PROVE Parts'
<1>. USE DEF Parts
<1>1. ServerTyped'
  BY AttemptFacts DEF OpensTheGate, ServerTyped, Bookkeeping, server_vars, tree,
     Running, Failure
<1>2. Bookkeeping'
  BY AttemptFacts DEF OpensTheGate, ServerTyped, Bookkeeping, server_vars, tree,
     Running, Failure
<1>3. TreeTyped'
  BY DEF OpensTheGate, TreeTyped, tree
<1>4. RestTyped'
  BY BoundsAssumption DEF OpensTheGate, RestTyped
<1>5. TreeInPlace'
  BY AttemptFacts DEF OpensTheGate, ServerTyped, TreeTyped, Bookkeeping, TreeInPlace,
     InOrder, tree, server_vars, Running
<1>6. ReadyMeansInstalled'
  BY AttemptFacts DEF OpensTheGate, ServerTyped, TreeTyped, Bookkeeping, TreeInPlace,
     InOrder, ReadyMeansInstalled, tree, Running
<1>. QED  BY <1>1, <1>2, <1>3, <1>4, <1>5, <1>6

LEMMA FinishesTheInstallKeeps ==
  ASSUME Parts, FinishesTheInstall PROVE Parts'
<1>. USE DEF Parts
<1>1. ServerTyped'
  BY AttemptFacts DEF FinishesTheInstall, Succeeded, TaskEnds, Mishap, ServerTyped,
     Bookkeeping, server_vars, tree, Running, Failure
<1>2. Bookkeeping'
  BY AttemptFacts DEF FinishesTheInstall, Succeeded, TaskEnds, Mishap, ServerTyped,
     Bookkeeping, server_vars, tree, Running, Failure
<1>3. TreeTyped'
  BY DEF FinishesTheInstall, Succeeded, TaskEnds, Mishap, TreeTyped, tree
<1>4. RestTyped'
  BY MishapsAreBounded DEF FinishesTheInstall, RestTyped
<1>5. TreeInPlace'
  BY AttemptFacts DEF FinishesTheInstall, Succeeded, TaskEnds, Mishap, ServerTyped,
     TreeTyped, Bookkeeping, TreeInPlace, InOrder, tree, server_vars, Running
<1>6. ReadyMeansInstalled'
  BY AttemptFacts DEF FinishesTheInstall, Succeeded, TaskEnds, Mishap, ServerTyped,
     TreeTyped, Bookkeeping, TreeInPlace, InOrder, ReadyMeansInstalled, tree, Running
<1>. QED  BY <1>1, <1>2, <1>3, <1>4, <1>5, <1>6

LEMMA RunsOutOfTimeKeeps ==
  ASSUME Parts, RunsOutOfTime PROVE Parts'
<1>. USE DEF Parts
<1>1. ServerTyped'
  <2>1. CASE task = "checking"
    BY <2>1 DEF RunsOutOfTime, StopsFor, TaskEnds, ServerTyped, Running, Failure
  <2>2. CASE task = "installing"
    BY <2>2 DEF RunsOutOfTime, StopsFor, ServerTyped, Running, Failure
  <2>. QED  BY <2>1, <2>2 DEF RunsOutOfTime, StopsFor
<1>2. Bookkeeping'
  <2>1. CASE task = "checking"
    <3>1. task' = "timed out" /\ (late' => role = "owner")
      BY <2>1 DEF RunsOutOfTime, StopsFor, TaskEnds
    <3>. QED  BY <2>1, <3>1 DEF RunsOutOfTime, Bookkeeping, ServerTyped, Running, Failure
  <2>2. CASE task = "installing"
    <3>1. task' = "stopping" /\ UNCHANGED <<unheard, late>>
      BY <2>2 DEF RunsOutOfTime, StopsFor
    <3>2. ~unheard
      BY <2>2 DEF Bookkeeping, Failure
    <3>. QED  BY <2>2, <3>1, <3>2 DEF RunsOutOfTime, Bookkeeping, Running
  <2>. QED  BY <2>1, <2>2 DEF RunsOutOfTime, StopsFor
<1>3. TreeTyped'
  BY DEF RunsOutOfTime, StopsFor, TaskEnds, TreeTyped, tree
<1>4. RestTyped'
  BY BoundsAssumption DEF RunsOutOfTime, StopsFor, TaskEnds, RestTyped
<1>5. TreeInPlace'
  BY AttemptFacts DEF RunsOutOfTime, StopsFor, TaskEnds, ServerTyped, TreeTyped,
     Bookkeeping, TreeInPlace, InOrder, tree, server_vars, Running
<1>6. ReadyMeansInstalled'
  BY AttemptFacts DEF RunsOutOfTime, StopsFor, TaskEnds, ServerTyped, TreeTyped,
     Bookkeeping, TreeInPlace, InOrder, ReadyMeansInstalled, tree, Running
<1>. QED  BY <1>1, <1>2, <1>3, <1>4, <1>5, <1>6

LEMMA StopCompletesKeeps ==
  ASSUME Parts, StopCompletes PROVE Parts'
<1>. USE DEF Parts
<1>1. ServerTyped'
  BY AttemptFacts DEF StopCompletes, TaskEnds, Mishap, ServerTyped, Bookkeeping,
     server_vars, tree, Running, Failure
<1>2. Bookkeeping'
  BY AttemptFacts DEF StopCompletes, TaskEnds, Mishap, ServerTyped, Bookkeeping,
     server_vars, tree, Running, Failure
<1>3. TreeTyped'
  BY DEF StopCompletes, TreeTyped
<1>4. RestTyped'
  BY MishapsAreBounded DEF StopCompletes, RestTyped
<1>5. TreeInPlace'
  <2>. SUFFICES ASSUME NEW n \in Attempt PROVE InOrder(n)'
    BY DEF TreeInPlace
  <2>1. task' = why /\ why # "checking" /\ attempt' = attempt
    BY DEF StopCompletes, TaskEnds, ServerTyped, Failure
  <2>2. sup'[n] = sup[n] \/ (n = attempt /\ sup'[n] = "gone")
    BY DEF StopCompletes, TreeTyped
  <2>3. UNCHANGED <<worker, target, exit>> /\ InOrder(n)
    BY DEF StopCompletes, TreeInPlace
  <2>. QED  BY <2>1, <2>2, <2>3, AttemptFacts DEF InOrder, ServerTyped
<1>6. ReadyMeansInstalled'
  BY AttemptFacts DEF StopCompletes, TaskEnds, Mishap, ServerTyped, TreeTyped,
     Bookkeeping, TreeInPlace, InOrder, ReadyMeansInstalled, tree, Running
<1>. QED  BY <1>1, <1>2, <1>3, <1>4, <1>5, <1>6

LEMMA ShutsDownKeeps ==
  ASSUME Parts, ShutsDown PROVE Parts'
<1>. USE DEF Parts
<1>1. ServerTyped'
  BY AttemptFacts DEF ShutsDown, StopsFor, TaskEnds, ServerTyped, Bookkeeping,
     server_vars, tree, Running, Failure
<1>2. Bookkeeping'
  BY AttemptFacts DEF ShutsDown, StopsFor, TaskEnds, ServerTyped, Bookkeeping,
     server_vars, tree, Running, Failure
<1>3. TreeTyped'
  BY DEF ShutsDown, StopsFor, TaskEnds, TreeTyped, tree
<1>4. RestTyped'
  BY BoundsAssumption DEF ShutsDown, StopsFor, TaskEnds, RestTyped
<1>5. TreeInPlace'
  BY AttemptFacts DEF ShutsDown, StopsFor, TaskEnds, ServerTyped, TreeTyped,
     Bookkeeping, TreeInPlace, InOrder, tree, server_vars, Running
<1>6. ReadyMeansInstalled'
  BY AttemptFacts DEF ShutsDown, StopsFor, TaskEnds, ServerTyped, TreeTyped,
     Bookkeeping, TreeInPlace, InOrder, ReadyMeansInstalled, tree, Running
<1>. QED  BY <1>1, <1>2, <1>3, <1>4, <1>5, <1>6

LEMMA ExitsKeeps ==
  ASSUME Parts, Exits PROVE Parts'
<1>. USE DEF Parts
<1>1. ServerTyped'
  BY AttemptFacts DEF Exits, ServerTyped, Bookkeeping, server_vars, tree, Running,
     Failure
<1>2. Bookkeeping'
  BY AttemptFacts DEF Exits, ServerTyped, Bookkeeping, server_vars, tree, Running,
     Failure
<1>3. TreeTyped'
  BY DEF Exits, TreeTyped, tree
<1>4. RestTyped'
  BY BoundsAssumption DEF Exits, RestTyped
<1>5. TreeInPlace'
  BY AttemptFacts DEF Exits, ServerTyped, TreeTyped, Bookkeeping, TreeInPlace,
     InOrder, tree, server_vars, Running
<1>6. ReadyMeansInstalled'
  BY AttemptFacts DEF Exits, ServerTyped, TreeTyped, Bookkeeping, TreeInPlace,
     InOrder, ReadyMeansInstalled, tree, Running
<1>. QED  BY <1>1, <1>2, <1>3, <1>4, <1>5, <1>6

LEMMA IsKilledKeeps ==
  ASSUME Parts, IsKilled PROVE Parts'
<1>. USE DEF Parts
<1>1. ServerTyped'
  BY AttemptFacts DEF IsKilled, ServerTyped, Bookkeeping, server_vars, tree, Running,
     Failure
<1>2. Bookkeeping'
  BY AttemptFacts DEF IsKilled, ServerTyped, Bookkeeping, server_vars, tree, Running,
     Failure
<1>3. TreeTyped'
  BY DEF IsKilled, TreeTyped, tree
<1>4. RestTyped'
  BY BoundsAssumption DEF IsKilled, RestTyped
<1>5. TreeInPlace'
  BY AttemptFacts DEF IsKilled, ServerTyped, TreeTyped, Bookkeeping, TreeInPlace,
     InOrder, tree, server_vars, Running
<1>6. ReadyMeansInstalled'
  BY AttemptFacts DEF IsKilled, ServerTyped, TreeTyped, Bookkeeping, TreeInPlace,
     InOrder, ReadyMeansInstalled, tree, Running
<1>. QED  BY <1>1, <1>2, <1>3, <1>4, <1>5, <1>6

LEMMA RestartsKeeps ==
  ASSUME Parts, Restarts PROVE Parts'
<1>. USE DEF Parts
<1>1. ServerTyped'
  BY AttemptFacts DEF Restarts, ServerTyped, Bookkeeping, server_vars, tree, Running,
     Failure
<1>2. Bookkeeping'
  BY AttemptFacts DEF Restarts, ServerTyped, Bookkeeping, server_vars, tree, Running,
     Failure
<1>3. TreeTyped'
  BY DEF Restarts, TreeTyped, tree
<1>4. RestTyped'
  BY BoundsAssumption DEF Restarts, RestTyped
<1>5. TreeInPlace'
  BY AttemptFacts DEF Restarts, ServerTyped, TreeTyped, Bookkeeping, TreeInPlace,
     InOrder, tree, server_vars, Running
<1>6. ReadyMeansInstalled'
  BY AttemptFacts DEF Restarts, ServerTyped, TreeTyped, Bookkeeping, TreeInPlace,
     InOrder, ReadyMeansInstalled, tree, Running
<1>. QED  BY <1>1, <1>2, <1>3, <1>4, <1>5, <1>6

LEMMA SupervisorStartsKeeps ==
  ASSUME Parts, NEW n \in Attempt, SupervisorStarts(n) PROVE Parts'
<1>. USE DEF Parts
<1>1. ServerTyped'
  BY DEF server_vars, ServerTyped, Bookkeeping, SupervisorStarts
<1>2. Bookkeeping'
  BY DEF server_vars, ServerTyped, Bookkeeping, SupervisorStarts
<1>3. TreeTyped'
  BY DEF SupervisorStarts, TreeTyped, tree
<1>4. RestTyped'
  BY BoundsAssumption DEF SupervisorStarts, RestTyped
<1>5. TreeInPlace'
  BY AttemptFacts DEF SupervisorStarts, ServerTyped, TreeTyped, Bookkeeping,
     TreeInPlace, InOrder, tree, server_vars, Running
<1>6. ReadyMeansInstalled'
  BY AttemptFacts DEF SupervisorStarts, ServerTyped, TreeTyped, Bookkeeping,
     TreeInPlace, InOrder, ReadyMeansInstalled, tree, Running
<1>. QED  BY <1>1, <1>2, <1>3, <1>4, <1>5, <1>6

LEMMA SupervisorWatchesKeeps ==
  ASSUME Parts, NEW n \in Attempt, SupervisorWatches(n) PROVE Parts'
<1>. USE DEF Parts
<1>1. ServerTyped'
  BY DEF server_vars, ServerTyped, Bookkeeping, SupervisorWatches, Terminates,
     KillsTheGroup, Mishap
<1>2. Bookkeeping'
  BY DEF server_vars, ServerTyped, Bookkeeping, SupervisorWatches, Terminates,
     KillsTheGroup, Mishap
<1>3. TreeTyped'
  BY DEF SupervisorWatches, Terminates, KillsTheGroup, Mishap, TreeTyped, tree
<1>4. RestTyped'
  BY BoundsAssumption DEF SupervisorWatches, Terminates, KillsTheGroup, Mishap,
     RestTyped
<1>5. TreeInPlace'
  BY AttemptFacts DEF SupervisorWatches, Terminates, KillsTheGroup, Mishap,
     ServerTyped, TreeTyped, Bookkeeping, TreeInPlace, InOrder, tree, server_vars,
     Running
<1>6. ReadyMeansInstalled'
  BY AttemptFacts DEF SupervisorWatches, Terminates, KillsTheGroup, Mishap,
     ServerTyped, TreeTyped, Bookkeeping, TreeInPlace, InOrder, ReadyMeansInstalled,
     tree, Running
<1>. QED  BY <1>1, <1>2, <1>3, <1>4, <1>5, <1>6

LEMMA WorkerStartsKeeps ==
  ASSUME Parts, NEW n \in Attempt, WorkerStarts(n) PROVE Parts'
<1>. USE DEF Parts
<1>1. ServerTyped'
  BY DEF server_vars, ServerTyped, Bookkeeping, WorkerStarts
<1>2. Bookkeeping'
  BY DEF server_vars, ServerTyped, Bookkeeping, WorkerStarts
<1>3. TreeTyped'
  BY DEF WorkerStarts, TreeTyped, tree
<1>4. RestTyped'
  BY BoundsAssumption DEF WorkerStarts, RestTyped
<1>5. TreeInPlace'
  BY AttemptFacts DEF WorkerStarts, ServerTyped, TreeTyped, Bookkeeping, TreeInPlace,
     InOrder, tree, server_vars, Running
<1>6. ReadyMeansInstalled'
  BY AttemptFacts DEF WorkerStarts, ServerTyped, TreeTyped, Bookkeeping, TreeInPlace,
     InOrder, ReadyMeansInstalled, tree, Running
<1>. QED  BY <1>1, <1>2, <1>3, <1>4, <1>5, <1>6

LEMMA WorkerReportsKeeps ==
  ASSUME Parts, NEW n \in Attempt, WorkerReports(n) PROVE Parts'
<1>. USE DEF Parts
<1>1. ServerTyped'
  BY DEF server_vars, ServerTyped, Bookkeeping, WorkerReports
<1>2. Bookkeeping'
  BY DEF server_vars, ServerTyped, Bookkeeping, WorkerReports
<1>3. TreeTyped'
  BY DEF WorkerReports, TreeTyped, tree
<1>4. RestTyped'
  BY BoundsAssumption DEF WorkerReports, RestTyped
<1>5. TreeInPlace'
  BY AttemptFacts DEF WorkerReports, ServerTyped, TreeTyped, Bookkeeping, TreeInPlace,
     InOrder, tree, server_vars, Running
<1>6. ReadyMeansInstalled'
  BY AttemptFacts DEF WorkerReports, ServerTyped, TreeTyped, Bookkeeping, TreeInPlace,
     InOrder, ReadyMeansInstalled, tree, Running
<1>. QED  BY <1>1, <1>2, <1>3, <1>4, <1>5, <1>6

LEMMA WorkerIsOrphanedKeeps ==
  ASSUME Parts, NEW n \in Attempt, WorkerIsOrphaned(n) PROVE Parts'
<1>. USE DEF Parts
<1>1. ServerTyped'
  BY DEF server_vars, ServerTyped, Bookkeeping, WorkerIsOrphaned, KillsTheGroup
<1>2. Bookkeeping'
  BY DEF server_vars, ServerTyped, Bookkeeping, WorkerIsOrphaned, KillsTheGroup
<1>3. TreeTyped'
  BY DEF WorkerIsOrphaned, KillsTheGroup, TreeTyped, tree
<1>4. RestTyped'
  BY BoundsAssumption DEF WorkerIsOrphaned, KillsTheGroup, RestTyped
<1>5. TreeInPlace'
  BY AttemptFacts DEF WorkerIsOrphaned, KillsTheGroup, ServerTyped, TreeTyped,
     Bookkeeping, TreeInPlace, InOrder, tree, server_vars, Running
<1>6. ReadyMeansInstalled'
  BY AttemptFacts DEF WorkerIsOrphaned, KillsTheGroup, ServerTyped, TreeTyped,
     Bookkeeping, TreeInPlace, InOrder, ReadyMeansInstalled, tree, Running
<1>. QED  BY <1>1, <1>2, <1>3, <1>4, <1>5, <1>6

LEMMA TargetEndsKeeps ==
  ASSUME Parts, NEW n \in Attempt, TargetEnds(n) PROVE Parts'
<1>. USE DEF Parts
<1>1. ServerTyped'
  BY DEF server_vars, ServerTyped, Bookkeeping, TargetEnds
<1>2. Bookkeeping'
  BY DEF server_vars, ServerTyped, Bookkeeping, TargetEnds
<1>3. TreeTyped'
  BY DEF TargetEnds, TreeTyped, tree
<1>4. RestTyped'
  BY BoundsAssumption DEF TargetEnds, RestTyped
<1>5. TreeInPlace'
  BY AttemptFacts DEF TargetEnds, ServerTyped, TreeTyped, Bookkeeping, TreeInPlace,
     InOrder, tree, server_vars, Running
<1>6. ReadyMeansInstalled'
  BY AttemptFacts DEF TargetEnds, ServerTyped, TreeTyped, Bookkeeping, TreeInPlace,
     InOrder, ReadyMeansInstalled, tree, Running
<1>. QED  BY <1>1, <1>2, <1>3, <1>4, <1>5, <1>6

LEMMA TreeCrashesKeeps ==
  ASSUME Parts, NEW n \in Attempt, TreeCrashes(n) PROVE Parts'
<1>. USE DEF Parts
<1>1. ServerTyped'
  BY DEF server_vars, ServerTyped, Bookkeeping, TreeCrashes, Mishap
<1>2. Bookkeeping'
  BY DEF server_vars, ServerTyped, Bookkeeping, TreeCrashes, Mishap
<1>3. TreeTyped'
  BY DEF TreeCrashes, Mishap, TreeTyped, tree
<1>4. RestTyped'
  BY BoundsAssumption DEF TreeCrashes, Mishap, RestTyped
<1>5. TreeInPlace'
  BY AttemptFacts DEF TreeCrashes, Mishap, ServerTyped, TreeTyped, Bookkeeping,
     TreeInPlace, InOrder, tree, server_vars, Running
<1>6. ReadyMeansInstalled'
  BY AttemptFacts DEF TreeCrashes, Mishap, ServerTyped, TreeTyped, Bookkeeping,
     TreeInPlace, InOrder, ReadyMeansInstalled, tree, Running
<1>. QED  BY <1>1, <1>2, <1>3, <1>4, <1>5, <1>6

\* Every step keeps the invariant.
LEMMA StepKeeps == IInv /\ [Next]_vars => IInv'
<1>. SUFFICES ASSUME Parts, [Next]_vars PROVE Parts'
  BY InvariantParts
<1>1. CASE UNCHANGED vars
  BY <1>1 DEF vars, server_vars, tree, Parts, ServerTyped, TreeTyped, RestTyped,
     Bookkeeping, TreeInPlace, InOrder,
     ReadyMeansInstalled
<1>2. ASSUME NEW n \in Attempt, TreeStep(n) \/ TargetEnds(n) \/ TreeCrashes(n)
      PROVE  Parts'
  BY <1>2, SupervisorStartsKeeps, SupervisorWatchesKeeps, WorkerStartsKeeps,
     WorkerReportsKeeps,
     WorkerIsOrphanedKeeps, TargetEndsKeeps, TreeCrashesKeeps DEF TreeStep
<1>3. CASE CallArrives \/ CallResumes \/ CallLeaves
  BY <1>3, CallArrivesKeeps, CallResumesKeeps, CallLeavesKeeps
<1>4. CASE \/ FindsItInstalled \/ StartsTheInstaller \/ OpensTheGate \/ FinishesTheInstall
           \/ RunsOutOfTime \/ StopCompletes
  BY <1>4, FindsItInstalledKeeps, StartsTheInstallerKeeps, OpensTheGateKeeps,
     FinishesTheInstallKeeps, RunsOutOfTimeKeeps, StopCompletesKeeps
<1>5. CASE ShutsDown \/ Exits \/ IsKilled \/ Restarts
  BY <1>5, ShutsDownKeeps, ExitsKeeps, IsKilledKeeps, RestartsKeeps
<1>. QED  BY <1>1, <1>2, <1>3, <1>4, <1>5 DEF Next

(***************************************************************************)
(* Theorems                                                                *)
(***************************************************************************)

\* The inductive invariant: what the task, the gate's state and the processes of
\* every attempt say about each other.
THEOREM InOrderAlways == Spec => []IInv
BY Initially, StepKeeps, PTL DEF Spec

\* Every variable keeps its type; a task stops for a reason exactly while it
\* stops, only an owner is asked to stand down, and a dead server runs nothing.
THEOREM SetupTyped == Spec => []TypeOK
BY InOrderAlways, PTL DEF IInv

\* The marker of a finished install is never on disk without an installer that
\* ended well, whatever was killed when.
THEOREM ReadyIsEarned == Spec => []ReadyMeansInstalled
BY InOrderAlways, PTL DEF IInv

\* No attempt starts over a failure nobody was told of, or in an owner that has
\* promised to make way.
THEOREM AttemptsAreDue == Spec => NewAttemptsAreDue
<1>1. ASSUME IInv, Next, attempt' # attempt PROVE ~unheard /\ ~asked
  <2>1. CASE CallArrives
    <3>1. WaitsForTheCheck
      BY <1>1, <2>1 DEF CallArrives, HearsOfTheFailure, IsTurnedAway
    <3>. QED  BY <1>1, <3>1 DEF WaitsForTheCheck, Refreshed, IInv, Bookkeeping
  <2>2. ASSUME NEW n \in Attempt, TreeStep(n) \/ TargetEnds(n) \/ TreeCrashes(n) PROVE FALSE
    BY <1>1, <2>2 DEF TreeStep, SupervisorStarts, SupervisorWatches, WorkerStarts,
       WorkerReports,
       WorkerIsOrphaned, TargetEnds, TreeCrashes, server_vars
  <2>. QED  BY <1>1, <2>1, <2>2 DEF Next, CallResumes, CallLeaves, FindsItInstalled,
            StartsTheInstaller, OpensTheGate, FinishesTheInstall, RunsOutOfTime, StopCompletes,
            ShutsDown, Exits, IsKilled, Restarts, server_vars
<1>2. IInv /\ [Next]_vars => [attempt' # attempt => ~unheard /\ ~asked]_vars
  BY <1>1
<1>. QED  BY <1>2, InOrderAlways, PTL DEF Spec, NewAttemptsAreDue

(***************************************************************************)
(* Nothing outlives its lease                                              *)
(***************************************************************************)

\* What one step can do to an attempt whose installer runs before or after it.
Moves(n) ==
  \/ target'[n] # "running"
  \/ target[n] # "running" /\ sup'[n] = "watching" /\ worker'[n] = "running"
  \/ /\ target[n] = "running" /\ (lease[n] = "closed" => lease'[n] = "closed")
     /\ \/ UNCHANGED <<sup[n], worker[n], mishaps>>
        \/ Mishap /\ sup'[n] = sup[n] /\ worker'[n] \in {worker[n], "dead"}
        \/ Mishap /\ sup'[n] = "gone" /\ worker'[n] = worker[n]

\* A running installer has a supervisor or a worker that will see to it: to lose either
\* takes a mishap, and there is only one.
LookedAfter(n) ==
  target[n] = "running" =>
    /\ \/ sup[n] = "watching"
       \/ sup[n] = "gone" /\ worker[n] = "running" /\ mishaps = MaxMishaps
    /\ worker[n] = "running" \/ (worker[n] = "dead" /\ mishaps = MaxMishaps)
AllLookedAfter == \A n \in Attempt : LookedAfter(n)

\* The server's steps do not touch a running installer: at most they let go of its lease,
\* or kill a supervisor that is stuck.
LEMMA ServersMove ==
  ASSUME Parts, NEW n \in Attempt,
         \/ CallArrives \/ CallResumes \/ CallLeaves \/ FindsItInstalled
         \/ StartsTheInstaller \/ OpensTheGate \/ FinishesTheInstall \/ RunsOutOfTime
         \/ StopCompletes \/ ShutsDown \/ Exits \/ IsKilled \/ Restarts
  PROVE  Moves(n)
<1>1. CASE StartsTheInstaller
  <2>1. sup[attempt] = "none" /\ attempt \in Attempt
    BY <1>1, AttemptFacts DEF StartsTheInstaller, Parts, ServerTyped, Bookkeeping,
       TreeInPlace, InOrder, Running
  <2>2. target[attempt] = "none"
    BY <2>1 DEF Parts, TreeInPlace, InOrder
  <2>. QED  BY <1>1, <2>1, <2>2 DEF StartsTheInstaller, Moves, Parts, TreeTyped
<1>2. CASE CallArrives
  BY <1>2 DEF CallArrives, HearsOfTheFailure, IsTurnedAway, WaitsForTheCheck, Moves
<1>3. CASE CallResumes \/ CallLeaves \/ FindsItInstalled \/ OpensTheGate \/ Exits \/ Restarts
  BY <1>3 DEF CallResumes, CallLeaves, FindsItInstalled, OpensTheGate, Exits, Restarts,
     Moves, tree
<1>4. CASE FinishesTheInstall
  <2>1. UNCHANGED <<sup, worker, target>> /\ lease' = [lease EXCEPT ![attempt] = "closed"]
        /\ (mishaps' = mishaps \/ Mishap)
    BY <1>4 DEF FinishesTheInstall
  <2>. QED  BY <2>1 DEF Moves, Parts, TreeTyped
<1>5. CASE RunsOutOfTime \/ ShutsDown \/ IsKilled
  <2>1. UNCHANGED <<sup, worker, target, mishaps>>
    BY <1>5 DEF RunsOutOfTime, ShutsDown, IsKilled
  <2>2. lease[n] = "closed" => lease'[n] = "closed"
    BY <1>5 DEF RunsOutOfTime, ShutsDown, IsKilled, StopsFor, Parts, TreeTyped
  <2>. QED  BY <2>1, <2>2 DEF Moves
<1>6. CASE StopCompletes
  <2>1. UNCHANGED <<worker, target, lease>>
    BY <1>6 DEF StopCompletes
  <2>2. \/ UNCHANGED <<sup, mishaps>>
        \/ Mishap /\ sup' = [sup EXCEPT ![attempt] = "gone"]
    BY <1>6 DEF StopCompletes
  <2>. QED  BY <2>1, <2>2 DEF Moves, Parts, TreeTyped
<1>. QED  BY <1>1, <1>2, <1>3, <1>4, <1>5, <1>6

\* A tree's own steps follow the order its processes are started in.
LEMMA TreesMove ==
  ASSUME Parts, NEW n \in Attempt, NEW m \in Attempt,
         TreeStep(m) \/ TargetEnds(m) \/ TreeCrashes(m)
  PROVE  Moves(n)
<1>. USE DEF Parts, TreeTyped
<1>1. CASE SupervisorStarts(m)
  BY <1>1 DEF SupervisorStarts, Moves, TreeInPlace, InOrder
<1>2. CASE SupervisorWatches(m)
  BY <1>2 DEF SupervisorWatches, Terminates, KillsTheGroup, Moves, Mishap
<1>3. CASE WorkerStarts(m)
  BY <1>3 DEF WorkerStarts, Moves, TreeInPlace, InOrder
<1>4. CASE WorkerReports(m)
  BY <1>4 DEF WorkerReports, Moves
<1>5. CASE WorkerIsOrphaned(m)
  BY <1>5 DEF WorkerIsOrphaned, KillsTheGroup, Moves
<1>6. CASE TargetEnds(m)
  BY <1>6 DEF TargetEnds, Moves
<1>7. CASE TreeCrashes(m)
  BY <1>7 DEF TreeCrashes, Moves, Mishap
<1>. QED  BY <1>1, <1>2, <1>3, <1>4, <1>5, <1>6, <1>7 DEF TreeStep

LEMMA EveryStepMoves == ASSUME Parts, [Next]_vars, NEW n \in Attempt PROVE Moves(n)
<1>1. CASE UNCHANGED vars
  BY <1>1 DEF vars, tree, Moves
<1>. QED  BY <1>1, ServersMove, TreesMove DEF Next

\* With at most one mishap, whatever runs is looked after.
LEMMA LookedAfterStays ==
  ASSUME IInv, MaxMishaps <= 1, AllLookedAfter, [Next]_vars PROVE AllLookedAfter'
<1>. SUFFICES ASSUME NEW n \in Attempt PROVE LookedAfter(n)'
  BY DEF AllLookedAfter
<1>1. Moves(n)
  BY EveryStepMoves, InvariantParts
<1>2. mishaps \in Nat /\ mishaps <= MaxMishaps /\ MaxMishaps \in Nat
  BY BoundsAssumption DEF IInv, TypeOK
<1>. QED  BY <1>1, <1>2 DEF AllLookedAfter, LookedAfter, Moves, Mishap

\* Whoever is left to take a running installer down can do it.  A reader sees that, and
\* TLC; the provers know nothing of ENABLED.
TreesCanBeTakenDown ==
  \A n \in Attempt :
    target[n] = "running" =>
      /\ sup[n] = "watching" /\ lease[n] = "closed" => ENABLED <<SupervisorWatches(n)>>_vars
      /\ sup[n] = "gone" /\ worker[n] = "running" => ENABLED <<WorkerIsOrphaned(n)>>_vars

\* However the server ends, and whichever process of the tree is killed or stuck, an
\* installer whose lease is closed is taken down, by the supervisor or else by the worker.
THEOREM TheTreeComesDown ==
  ASSUME MaxMishaps <= 1
  PROVE  Spec /\ []TreesCanBeTakenDown => NothingOutlivesItsLease
<1>1. Spec => []AllLookedAfter
  <2>1. Init => AllLookedAfter
    BY DEF Init, AllLookedAfter, LookedAfter
  <2>2. IInv /\ AllLookedAfter /\ [Next]_vars => AllLookedAfter'
    BY LookedAfterStays
  <2>. QED  BY <2>1, <2>2, InOrderAlways, PTL DEF Spec
<1>2. ASSUME NEW n \in Attempt
      PROVE  Spec /\ []TreesCanBeTakenDown
               => (lease[n] = "closed" \/ sup[n] = "gone" ~> target[n] # "running")
  <2>. DEFINE Orphaned == target[n] = "running" /\ sup[n] = "gone"
              Unleased == target[n] = "running" /\ sup[n] = "watching" /\ lease[n] = "closed"
              Down == target[n] # "running"
  <2>1. AllLookedAfter /\ (lease[n] = "closed" \/ sup[n] = "gone")
          => Down \/ Orphaned \/ Unleased
    BY DEF AllLookedAfter, LookedAfter
  <2>2. IInv /\ [Next]_vars /\ Orphaned => Down' \/ Orphaned'
    BY EveryStepMoves, InvariantParts DEF Moves
  <2>3. IInv /\ [Next]_vars /\ Unleased => Down' \/ Orphaned' \/ Unleased'
    BY EveryStepMoves, InvariantParts DEF Moves
  <2>4. IInv /\ <<Next /\ WorkerIsOrphaned(n)>>_vars /\ Orphaned => Down'
    BY DEF WorkerIsOrphaned, KillsTheGroup, IInv, TypeOK
  <2>5. IInv /\ <<Next /\ SupervisorWatches(n)>>_vars /\ Unleased => Down' \/ Orphaned'
    BY DEF SupervisorWatches, Terminates, KillsTheGroup, IInv, TypeOK
  <2>6. AllLookedAfter /\ TreesCanBeTakenDown
          => /\ Orphaned => ENABLED <<WorkerIsOrphaned(n)>>_vars
             /\ Unleased => ENABLED <<SupervisorWatches(n)>>_vars
    BY DEF AllLookedAfter, LookedAfter, TreesCanBeTakenDown
  <2>7. Fairness => Watches(n)
    BY DEF Fairness
  <2>8. Down <=> target[n] # "running"
    OBVIOUS
  <2>. HIDE DEF Orphaned, Unleased, Down
  <2>. QED  BY <1>1, <2>1, <2>2, <2>3, <2>4, <2>5, <2>6, <2>7, <2>8, InOrderAlways, PTL
       DEF Spec, Watches
<1>. QED  BY <1>2 DEF NothingOutlivesItsLease
=================================================================================
