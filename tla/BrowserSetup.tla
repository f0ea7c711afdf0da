----------------------------- MODULE BrowserSetup -----------------------------
(***************************************************************************)
(* The download of the managed browser in the background of one server,    *)
(* from bootstrap.py, installer_supervisor.py and installer_worker.py.     *)
(*                                                                         *)
(* The first tool call starts a task that outlives it.  The task checks    *)
(* what is installed and, when that is not enough, runs the installer in a *)
(* tree of three processes: a supervisor that holds a lease on the server, *)
(* a worker that holds a lease on the supervisor and leads a process       *)
(* group, and the installer itself in that group.  What comes of the task  *)
(* is read by whichever tool call looks next.                              *)
(*                                                                         *)
(* Simplifications.  POSIX only: the Windows job objects are left out.     *)
(* Tool calls come one at a time, as the sequential middleware makes them. *)
(* The readiness check is the marker beside the profile, which is written  *)
(* last.  The nonce and the "started" frame are one step with what they    *)
(* gate.  An installer that leaves its process group is out of reach.      *)
(***************************************************************************)
EXTENDS Naturals

CONSTANTS
  MaxAttempts,  \* bound: setup attempts in a behaviour
  MaxMishaps    \* bound: crashes and stuck stops in the installer's tree

ASSUME BoundsAssumption == MaxAttempts \in Nat \ {0} /\ MaxMishaps \in Nat

VARIABLES
  role,         \* "owner" of a shared browser, or "single" server
  server,       \* "up", "stopping" its lifespan, or "dead"
  call,         \* the tool call at the gate: "none" or "waiting" for the check
  attempt,      \* the latest setup attempt of any server
  task,         \* its task, "none" once its end has been read
  why,          \* how a task that is stopping its installer will end
  state,        \* the setup state the gate reads
  late,         \* whether a deadline decided the last failure of an owner
  asked,        \* whether this process was asked to stand down for it
  ready,        \* whether the marker of a finished install is on disk
  lease,        \* per attempt: the pipe from the server, "open" or "closed"
  opened,       \* per attempt: whether the start record was sent
  sup,          \* per attempt: the supervisor process
  worker,       \* per attempt: the worker process
  target,       \* per attempt: the installer process
  exit,         \* per attempt: what the supervisor's exit status says
  unheard,      \* history: a failure of this process no tool call was told of
  mishaps

server_vars == <<role, server, call, attempt, task, why, state, late, asked, unheard>>
tree == <<lease, opened, sup, worker, target, exit>>
vars == <<server_vars, ready, tree, mishaps>>

Attempt == 1..MaxAttempts
Failure == {"failed", "timed out", "cancelled"}
Running == {"checking", "installing", "stopping"}

TypeOK ==
  /\ role \in {"owner", "single"} /\ server \in {"up", "stopping", "dead"}
  /\ call \in {"none", "waiting"} /\ attempt \in 0..MaxAttempts
  /\ task \in {"none", "ok"} \cup Running \cup Failure
  /\ why \in Failure \cup {"none"} /\ (why # "none") = (task = "stopping")
  /\ state \in {"idle", "running", "ready", "failed"}
  /\ late \in BOOLEAN /\ asked \in BOOLEAN /\ ready \in BOOLEAN
  /\ lease \in [Attempt -> {"open", "closed"}] /\ opened \in [Attempt -> BOOLEAN]
  /\ sup \in [Attempt -> {"none", "gated", "watching", "gone"}]
  /\ worker \in [Attempt -> {"none", "gated", "running", "done", "dead"}]
  /\ target \in [Attempt -> {"none", "running", "ok", "bad", "killed"}]
  /\ exit \in [Attempt -> {"none", "ok", "bad"}]
  /\ unheard \in BOOLEAN /\ mishaps \in 0..MaxMishaps
  /\ asked => role = "owner"
  /\ server = "dead" => task = "none" /\ call = "none"

Init ==
  /\ role \in {"owner", "single"} /\ server = "up" /\ call = "none"
  /\ attempt = 0 /\ task = "none" /\ why = "none" /\ state = "idle"
  /\ late = FALSE /\ asked = FALSE /\ ready = FALSE
  /\ lease = [n \in Attempt |-> "closed"] /\ opened = [n \in Attempt |-> FALSE]
  /\ sup = [n \in Attempt |-> "none"] /\ worker = [n \in Attempt |-> "none"]
  /\ target = [n \in Attempt |-> "none"] /\ exit = [n \in Attempt |-> "none"]
  /\ unheard = FALSE /\ mishaps = 0

Mishap == mishaps < MaxMishaps /\ mishaps' = mishaps + 1

(***************************************************************************)
(* The gate of a tool call                                                 *)
(***************************************************************************)

\* The setup state once a finished task has been read.
Refreshed == CASE task = "ok" -> "ready" [] task \in Failure -> "failed" [] OTHER -> state

\* A failure is told to one call, which clears it; an owner that ran out of
\* time asks its own process to stand down.
Consumes ==
  /\ state' = "idle" /\ task' = "none" /\ unheard' = FALSE
  /\ asked' = (asked \/ late) /\ late' = FALSE

\* Mistake: a finished task is dropped without a look at how it ended.
RetriesUnheard ==
  /\ Refreshed = "failed" /\ Refreshed # state
  /\ state' = "idle" /\ task' = "none"
  /\ UNCHANGED <<call, attempt, lease, sup, unheard, asked, late>>

HearsOfTheFailure ==
  /\ Refreshed = "failed"
  /\ Consumes
  /\ UNCHANGED <<call, attempt, lease, sup>>

\* The caller is sent to the owner that will replace this one.
IsTurnedAway ==
  /\ Refreshed # "failed" /\ asked
  /\ state' = Refreshed /\ task' = (IF task = "ok" THEN "none" ELSE task)
  /\ UNCHANGED <<call, attempt, lease, sup, late, asked, unheard>>

\* A task is shared by every call that finds it, or started afresh.
WaitsForTheCheck ==
  /\ Refreshed # "failed" /\ ~asked
  /\ IF task \in Running
     THEN UNCHANGED <<attempt, task, state, late>>
     ELSE /\ attempt < MaxAttempts
          /\ attempt' = attempt + 1 /\ task' = "checking"
          /\ state' = "running" /\ late' = FALSE
  /\ call' = "waiting"
  /\ UNCHANGED <<lease, sup, asked, unheard>>

CallArrives ==
  /\ server = "up" /\ call = "none"
  /\ HearsOfTheFailure \/ IsTurnedAway \/ WaitsForTheCheck
  /\ UNCHANGED <<role, server, why, ready, opened, worker, target, exit, mishaps>>

\* The check is over: the call is served, told that the download runs, or told
\* how it failed.
CallResumes ==
  /\ call = "waiting" /\ task # "checking" /\ call' = "none"
  /\ \/ task \in Failure /\ Consumes
     \/ /\ task = "ok" /\ task' = "none" /\ state' = "ready"
        /\ UNCHANGED <<late, asked, unheard>>
     \/ task \in {"installing", "stopping"}
        /\ UNCHANGED <<task, state, late, asked, unheard>>
  /\ UNCHANGED <<role, server, attempt, why, ready, tree, mishaps>>

\* A timed-out or cancelled call leaves the task to the others.
CallLeaves ==
  /\ call = "waiting" /\ call' = "none"
  /\ UNCHANGED <<role, server, attempt, task, why, state, late, asked, unheard,
                 ready, tree, mishaps>>

(***************************************************************************)
(* The background task                                                     *)
(***************************************************************************)

\* Mistake: a server without an owner's role is asked to stand down as well.
EndsAlikeForAll(how) ==
  /\ task' = how /\ why' = "none"
  /\ unheard' = (unheard \/ how \in {"failed", "timed out"})
  /\ late' = (late \/ how = "timed out")

\* A task's end, and whether it is a failure somebody still has to hear of.
TaskEnds(how) ==
  /\ task' = how /\ why' = "none"
  /\ unheard' = (unheard \/ how \in {"failed", "timed out"})
  /\ late' = (IF how = "timed out" THEN role = "owner" ELSE late)

FindsItInstalled ==
  /\ task = "checking" /\ ready
  /\ TaskEnds("ok") /\ state' = "ready"
  /\ UNCHANGED <<role, server, call, attempt, asked, ready, tree, mishaps>>

\* Nothing usable: the supervisor is started, empty until it is told to go on.
StartsTheInstaller ==
  /\ task = "checking" /\ ~ready
  /\ task' = "installing"
  /\ state' = IF state = "ready" THEN "idle" ELSE state
  /\ sup' = [sup EXCEPT ![attempt] = "gated"]
  /\ lease' = [lease EXCEPT ![attempt] = "open"]
  /\ UNCHANGED <<role, server, call, attempt, why, late, asked, unheard, ready,
                 opened, worker, target, exit, mishaps>>

OpensTheGate ==
  /\ task = "installing" /\ ~opened[attempt]
  /\ opened' = [opened EXCEPT ![attempt] = TRUE]
  /\ UNCHANGED <<server_vars, ready, lease, sup, worker, target, exit, mishaps>>

\* Mistake: a supervisor that is gone has done its work.
GoneIsDone == exit[attempt] # "none"

Succeeded == exit[attempt] = "ok"

\* The supervisor's exit status decides, then the size of what was installed,
\* then the write of the marker.
FinishesTheInstall ==
  /\ task = "installing" /\ sup[attempt] = "gone"
  /\ lease' = [lease EXCEPT ![attempt] = "closed"]
  /\ \/ Succeeded /\ ready' = TRUE /\ TaskEnds("ok") /\ UNCHANGED mishaps
     \/ Succeeded /\ Mishap /\ TaskEnds("failed") /\ UNCHANGED ready
     \/ ~Succeeded /\ TaskEnds("failed") /\ UNCHANGED <<ready, mishaps>>
  /\ UNCHANGED <<role, server, call, attempt, state, asked, opened, sup, worker,
                 target, exit>>

\* A deadline or bound, or the shutdown's cancellation, ends the attempt: the
\* lease is closed first and the supervisor waited for.
StopsFor(reason) ==
  \/ /\ task = "checking" /\ TaskEnds(reason) /\ UNCHANGED lease
  \/ /\ task = "installing" /\ task' = "stopping" /\ why' = reason
     /\ lease' = [lease EXCEPT ![attempt] = "closed"]
     /\ UNCHANGED <<unheard, late>>

RunsOutOfTime ==
  /\ \/ StopsFor("timed out")
     \/ task = "installing" /\ StopsFor("failed")
  /\ UNCHANGED <<role, server, call, attempt, state, asked, ready, opened, sup,
                 worker, target, exit, mishaps>>

\* The wait for the supervisor is bounded; one that is stuck is killed.
StopCompletes ==
  /\ task = "stopping"
  /\ \/ sup[attempt] = "gone" /\ UNCHANGED <<sup, mishaps>>
     \/ /\ sup[attempt] # "gone" /\ Mishap
        /\ sup' = [sup EXCEPT ![attempt] = "gone"]
  /\ TaskEnds(why)
  /\ UNCHANGED <<role, server, call, attempt, state, asked, ready, lease, opened,
                 worker, target, exit>>

(***************************************************************************)
(* The server process                                                      *)
(***************************************************************************)

\* An idle owner waits for its task and for the failure nobody has read.
ShutsDown ==
  /\ server = "up" /\ call = "none"
  /\ server' = "stopping"
  /\ IF task \in {"checking", "installing"}
     THEN StopsFor("cancelled") ELSE UNCHANGED <<task, why, unheard, late, lease>>
  /\ UNCHANGED <<role, call, attempt, state, asked, ready, opened, sup, worker,
                 target, exit, mishaps>>

Exits ==
  /\ server = "stopping" /\ task \notin Running
  /\ server' = "dead" /\ task' = "none" /\ unheard' = FALSE
  /\ UNCHANGED <<role, call, attempt, why, state, late, asked, ready, tree, mishaps>>

\* A killed server closes its pipes and takes its tasks along.
IsKilled ==
  /\ server # "dead"
  /\ server' = "dead" /\ call' = "none" /\ task' = "none" /\ why' = "none"
  /\ unheard' = FALSE
  /\ lease' = [n \in Attempt |-> "closed"]
  /\ UNCHANGED <<role, attempt, state, late, asked, ready, opened, sup, worker,
                 target, exit, mishaps>>

Restarts ==
  /\ server = "dead" /\ attempt < MaxAttempts
  /\ server' = "up" /\ state' = "idle" /\ late' = FALSE /\ asked' = FALSE
  /\ role' \in {"owner", "single"}
  /\ UNCHANGED <<call, attempt, task, why, unheard, ready, tree, mishaps>>

(***************************************************************************)
(* The supervisor, the worker and the installer of attempt n               *)
(***************************************************************************)

KillsTheGroup(n) ==
  /\ worker' = [worker EXCEPT ![n] = IF @ = "none" THEN @ ELSE "dead"]
  /\ target' = [target EXCEPT ![n] = IF @ = "running" THEN "killed" ELSE @]

\* The group is gone before the supervisor is, unless it cannot be killed in
\* the time given.
Terminates(n, status) ==
  /\ sup' = [sup EXCEPT ![n] = "gone"]
  /\ \/ KillsTheGroup(n) /\ exit' = [exit EXCEPT ![n] = status] /\ UNCHANGED mishaps
     \/ Mishap /\ exit' = [exit EXCEPT ![n] = "bad"] /\ UNCHANGED <<worker, target>>

\* Without a lease no worker is started; with one, the start record starts it.
SupervisorStarts(n) ==
  /\ sup[n] = "gated"
  /\ \/ /\ lease[n] = "closed"
        /\ sup' = [sup EXCEPT ![n] = "gone"] /\ exit' = [exit EXCEPT ![n] = "bad"]
        /\ UNCHANGED worker
     \/ /\ opened[n]
        /\ sup' = [sup EXCEPT ![n] = "watching"]
        /\ worker' = [worker EXCEPT ![n] = "gated"] /\ UNCHANGED exit
  /\ UNCHANGED <<server_vars, ready, lease, opened, target, mishaps>>

\* The worker's own status counts, never the mere end of the worker.
SupervisorWatches(n) ==
  /\ sup[n] = "watching"
  /\ \/ worker[n] = "done" /\ Terminates(n, IF target[n] = "ok" THEN "ok" ELSE "bad")
     \/ worker[n] = "dead" /\ Terminates(n, "bad")
     \/ lease[n] = "closed" /\ Terminates(n, "bad")
  /\ UNCHANGED <<server_vars, ready, lease, opened>>

WorkerStarts(n) ==
  /\ worker[n] = "gated" /\ sup[n] # "gone"
  /\ worker' = [worker EXCEPT ![n] = "running"]
  /\ target' = [target EXCEPT ![n] = "running"]
  /\ UNCHANGED <<server_vars, ready, lease, opened, sup, exit, mishaps>>

\* The status is sent and the worker stays, to keep its group's name taken.
WorkerReports(n) ==
  /\ worker[n] = "running" /\ sup[n] # "gone" /\ target[n] \in {"ok", "bad"}
  /\ worker' = [worker EXCEPT ![n] = "done"]
  /\ UNCHANGED <<server_vars, ready, lease, opened, sup, target, exit, mishaps>>

\* Mistake: a worker that waits for its installer does not watch its lease.
OrphanWaitsItOut(n) ==
  /\ worker[n] \in {"gated", "done"} /\ sup[n] = "gone"
  /\ KillsTheGroup(n)
  /\ UNCHANGED <<server_vars, ready, lease, opened, sup, exit, mishaps>>

\* Whatever it is at, a worker whose supervisor is gone takes its group down.
WorkerIsOrphaned(n) ==
  /\ worker[n] \in {"gated", "running", "done"} /\ sup[n] = "gone"
  /\ KillsTheGroup(n)
  /\ UNCHANGED <<server_vars, ready, lease, opened, sup, exit, mishaps>>

TargetEnds(n) ==
  /\ target[n] = "running"
  /\ \E end \in {"ok", "bad"} : target' = [target EXCEPT ![n] = end]
  /\ UNCHANGED <<server_vars, ready, lease, opened, sup, worker, exit, mishaps>>

\* A process of the tree is killed from outside.
TreeCrashes(n) ==
  /\ Mishap
  /\ \/ /\ sup[n] \in {"gated", "watching"}
        /\ sup' = [sup EXCEPT ![n] = "gone"] /\ exit' = [exit EXCEPT ![n] = "bad"]
        /\ UNCHANGED worker
     \/ /\ worker[n] \in {"gated", "running", "done"}
        /\ worker' = [worker EXCEPT ![n] = "dead"] /\ UNCHANGED <<sup, exit>>
  /\ UNCHANGED <<server_vars, ready, lease, opened, target>>

(***************************************************************************)
(* The specification                                                       *)
(***************************************************************************)

TreeStep(n) ==
  \/ SupervisorStarts(n) \/ SupervisorWatches(n)
  \/ WorkerStarts(n) \/ WorkerReports(n) \/ WorkerIsOrphaned(n)

Next ==
  \/ CallArrives \/ CallResumes \/ CallLeaves
  \/ FindsItInstalled \/ StartsTheInstaller \/ OpensTheGate \/ FinishesTheInstall
  \/ RunsOutOfTime \/ StopCompletes
  \/ ShutsDown \/ Exits \/ IsKilled \/ Restarts
  \/ \E n \in Attempt : TreeStep(n) \/ TargetEnds(n) \/ TreeCrashes(n)

\* The two watching processes poll; nothing is assumed of the server, which may
\* be stuck or dead, or of the installer, whose download may trickle for ever.
Watches(n) ==
  /\ WF_vars(SupervisorStarts(n)) /\ WF_vars(SupervisorWatches(n))
  /\ WF_vars(WorkerIsOrphaned(n))
Fairness == \A n \in Attempt : Watches(n)

Spec == Init /\ [][Next]_vars /\ Fairness

(***************************************************************************)
(* Properties                                                              *)
(***************************************************************************)

\* A failed download is told to a tool call before another one is started, and
\* an owner that asked to be replaced starts none: its shutdown would only
\* cancel the retry it promised.
NewAttemptsAreDue == [][attempt' # attempt => ~unheard /\ ~asked]_vars

\* The marker is written only for an install that ran to its end, so a crash
\* or a kill anywhere in the tree is never taken for a success.
ReadyMeansInstalled == ready => \E n \in Attempt : target[n] = "ok"

\* However the server ends or gives up, its installer does not keep running.
NothingOutlivesItsLease ==
  \A n \in Attempt :
    lease[n] = "closed" \/ sup[n] = "gone" ~> target[n] # "running"

================================================================================
