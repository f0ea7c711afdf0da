---------------------------- MODULE SharedBrowser ----------------------------
(* Server processes that share one Chromium profile: drivers/browser.py, the *)
(* profile lease it holds (profile_lease.py), the middleware that takes the  *)
(* lease around every tool call (sequential_tool_middleware.py) and the      *)
(* crash guardian that outlives the process (process_guardian.py).           *)
(*                                                                           *)
(* One step is what an asyncio task does between two awaits.  The processes' *)
(* middleware runs one call at a time, so a process has one call slot, one   *)
(* handoff poller and one shutdown; time is abstracted to "the minimum hold  *)
(* has passed" and to deadlines that may strike at any moment.               *)
EXTENDS Integers

CONSTANTS Proc,         \* the server processes (slots a new process may reuse)
          NoProc,       \* nobody holds the kernel lock
          Owners,       \* the processes that serve as detached shared owners
          Mortal,       \* the processes that may end, crash or be killed unasked
          IdleTimeout   \* whether an idle browser is closed at all

ASSUME OwnersAreProcesses == Owners \subseteq Proc
ASSUME MortalsAreProcesses == Mortal \subseteq Proc
ASSUME NoProcIsNoProcess == NoProc \notin Proc
ASSUME IdleTimeoutIsASwitch == IdleTimeout \in BOOLEAN

VARIABLES
  phase,         \* "off", "up" or, from the end of its lifespan on, "stopping"
  lock,          \* whose open description holds the kernel lock on profile.lock
  refs,          \* ProfileLease._refs; the descriptor is open while it is positive
  browserOpen,   \* ProfileLease._browser_open
  matured,       \* held_seconds has reached browser_min_hold_seconds
  announced,     \* the waiter's shared lock on the handoff file
  browser,       \* whether _browser is set
  browserLease,  \* whether _browser_lease is set
  callsInFlight, \* _calls_in_flight
  worked,        \* whether _last_activity is set
  lifecycle,     \* the task inside _browser_lifecycle_lock, or "nobody"
  mustExit,      \* _must_hard_exit of an owner
  pc,            \* where each task of a process stands
  page,          \* what the running call got from get_or_create_browser
  chromium,      \* whether a Chromium this process launched is on the profile
  guardian       \* "none", "watching" or, the process being dead, "draining"

vars == <<phase, lock, refs, browserOpen, matured, announced, browser,
          browserLease, callsInFlight, worked, lifecycle, mustExit, pc, page,
          chromium, guardian>>

Task == {"call", "poll", "stop"}

\* A call whose tool body runs, on whose behalf the middleware holds a reference.
Waiting == {"body", "getting", "wantClose", "wantRetire"}
InBody(p) == pc[p]["call"] \in Waiting \cup {"launching", "closing"}

\* Steps a task takes inside the lifecycle lock.
Inside == {"launching", "closing", "handover", "handingOver"}

Step == Waiting \cup Inside
          \cup {"idle", "busy", "waiting", "wantHandover", "stopped"}

TypeOK ==
  /\ phase \in [Proc -> {"off", "up", "stopping"}]
  /\ lock \in Proc \cup {NoProc}
  /\ refs \in [Proc -> 0..3]
  /\ browserOpen \in [Proc -> BOOLEAN]
  /\ matured \in [Proc -> BOOLEAN]
  /\ announced \in [Proc -> BOOLEAN]
  /\ browser \in [Proc -> BOOLEAN]
  /\ browserLease \in [Proc -> BOOLEAN]
  /\ callsInFlight \in [Proc -> 0..1]
  /\ worked \in [Proc -> BOOLEAN]
  /\ lifecycle \in [Proc -> Task \cup {"nobody"}]
  /\ mustExit \in [Proc -> BOOLEAN]
  /\ pc \in [Proc -> [Task -> Step]]
  /\ page \in [Proc -> {"none", "live", "gone"}]
  /\ chromium \in [Proc -> BOOLEAN]
  /\ guardian \in [Proc -> {"none", "watching", "draining"}]

Init ==
  /\ phase = [p \in Proc |-> "off"]
  /\ lock = NoProc
  /\ refs = [p \in Proc |-> 0]
  /\ browserOpen = [p \in Proc |-> FALSE]
  /\ matured = [p \in Proc |-> FALSE]
  /\ announced = [p \in Proc |-> FALSE]
  /\ browser = [p \in Proc |-> FALSE]
  /\ browserLease = [p \in Proc |-> FALSE]
  /\ callsInFlight = [p \in Proc |-> 0]
  /\ worked = [p \in Proc |-> FALSE]
  /\ lifecycle = [p \in Proc |-> "nobody"]
  /\ mustExit = [p \in Proc |-> FALSE]
  /\ pc = [p \in Proc |-> [t \in Task |-> "idle"]]
  /\ page = [p \in Proc |-> "none"]
  /\ chromium = [p \in Proc |-> FALSE]
  /\ guardian = [p \in Proc |-> "none"]

------------------------------------------------------------------------------
(* The lease *)

CanAcquire(p) == refs[p] > 0 \/ lock = NoProc

\* try_acquire(), where it succeeds: the first reference takes the kernel lock.
TakeReference(p) ==
  /\ CanAcquire(p)
  /\ refs' = [refs EXCEPT ![p] = @ + 1]
  /\ lock' = IF refs[p] = 0 THEN p ELSE lock
  /\ matured' = IF refs[p] = 0 THEN [matured EXCEPT ![p] = FALSE] ELSE matured

\* release(): the last reference unlocks, whoever else has a copy of the descriptor.
DropReference(p) ==
  /\ refs' = [refs EXCEPT ![p] = IF @ > 0 THEN @ - 1 ELSE 0]
  /\ lock' = IF refs[p] = 1 THEN NoProc ELSE lock
  /\ UNCHANGED matured

\* held_seconds counts from the acquisition of the kernel lock.
HoldMatures(p) ==
  /\ refs[p] > 0
  /\ ~matured[p]
  /\ matured' = [matured EXCEPT ![p] = TRUE]
  /\ UNCHANGED <<phase, lock, refs, browserOpen, announced, browser, browserLease,
                 callsInFlight, worked, lifecycle, mustExit, pc, page, chromium,
                 guardian>>

HandoffRequested == \E q \in Proc : announced[q]

\* A holder of the browser probes the handoff file with an exclusive lock, and an
\* announcement made in that moment is refused: the waiter then waits quietly.
ProbeMayCollide(p) == \E q \in Proc \ {p} : browser[q] /\ browserLease[q]

------------------------------------------------------------------------------
(* A tool call, from the tool lock to its tool body *)

At(p, t, s) == pc[p][t] = s
Goes(p, t, s) == pc' = [pc EXCEPT ![p][t] = s]

browserVars == <<browserOpen, browser, browserLease, worked, lifecycle, mustExit,
                 chromium, guardian>>

\* The reference is taken and nothing is awaited before note_call_started().
BodyBegins(p) ==
  /\ TakeReference(p)
  /\ callsInFlight' = [callsInFlight EXCEPT ![p] = @ + 1]
  /\ announced' = [announced EXCEPT ![p] = FALSE]
  /\ page' = [page EXCEPT ![p] = "none"]
  /\ Goes(p, "call", "body")
  /\ UNCHANGED <<phase, browserVars>>

\* A call has the tool lock and tries the lease once.
CallArrives(p) ==
  /\ phase[p] = "up"
  /\ At(p, "call", "idle")
  /\ \/ BodyBegins(p)
     \/ /\ ~CanAcquire(p)
        /\ Goes(p, "call", "busy")
        /\ UNCHANGED <<phase, lock, refs, matured, announced, callsInFlight, page,
                       browserVars>>

\* acquire(): once more without announcing, then announced until it succeeds.
StartsWaiting(p) ==
  /\ At(p, "call", "busy")
  /\ \/ BodyBegins(p)
     \/ /\ ~CanAcquire(p)
        /\ \/ announced' = [announced EXCEPT ![p] = TRUE]
           \/ ProbeMayCollide(p) /\ UNCHANGED announced
        /\ Goes(p, "call", "waiting")
        /\ UNCHANGED <<phase, lock, refs, matured, callsInFlight, page, browserVars>>

PollsTheLease(p) ==
  /\ At(p, "call", "waiting")
  /\ BodyBegins(p)

\* The wait budget is spent, the call is cancelled, or it was abandoned by its
\* client: a reference taken only to find that out is dropped in the same step.
GivesUp(p) ==
  /\ pc[p]["call"] \in {"busy", "waiting"}
  /\ announced' = [announced EXCEPT ![p] = FALSE]
  /\ Goes(p, "call", "idle")
  /\ UNCHANGED <<phase, lock, refs, matured, callsInFlight, page, browserVars>>

------------------------------------------------------------------------------
(* get_or_create_browser() in a tool body *)

leaseVars == <<lock, refs, matured, announced>>

\* The fast path takes no lock.
GetsTheBrowser(p) ==
  /\ At(p, "call", "body")
  /\ page[p] = "none"
  /\ browser[p]
  /\ page' = [page EXCEPT ![p] = "live"]
  /\ UNCHANGED <<phase, leaseVars, callsInFlight, pc, browserVars>>

WantsABrowser(p) ==
  /\ At(p, "call", "body")
  /\ page[p] = "none"
  /\ ~browser[p]
  /\ Goes(p, "call", "getting")
  /\ UNCHANGED <<phase, leaseVars, callsInFlight, page, browserVars>>

\* Mistake: a launch only looks at _browser.
OnlyTheCachedOne(p) == browser[p]

\* An earlier browser may still be on the profile.
MayStillBeOpen(p) == browserOpen[p] \/ browserLease[p]

\* The call has both locks (the creation lock only orders creators among
\* themselves) and is refused, or the crash guardian does not start.
LaunchRefused(p) ==
  /\ At(p, "call", "getting")
  /\ lifecycle[p] = "nobody"
  /\ ~browser[p]
  /\ page' = [page EXCEPT ![p] = "gone"]
  /\ Goes(p, "call", "body")
  /\ UNCHANGED <<phase, leaseVars, callsInFlight, browserVars>>

LaunchBegins(p) ==
  /\ At(p, "call", "getting")
  /\ lifecycle[p] = "nobody"
  /\ ~browser[p]
  /\ ~MayStillBeOpen(p)
  /\ TakeReference(p)
  /\ guardian' = [guardian EXCEPT ![p] = "watching"]
  /\ lifecycle' = [lifecycle EXCEPT ![p] = "call"]
  /\ Goes(p, "call", "launching")
  /\ UNCHANGED <<phase, announced, callsInFlight, page, browserOpen, browser,
                 browserLease, worked, mustExit, chromium>>

ChromiumStarts(p) ==
  /\ At(p, "call", "launching")
  /\ ~chromium[p]
  /\ chromium' = [chromium EXCEPT ![p] = TRUE]
  /\ UNCHANGED <<phase, leaseVars, browserOpen, browser, browserLease, callsInFlight,
                 worked, lifecycle, mustExit, pc, page, guardian>>

\* The feed was reached signed in.
LaunchSucceeds(p) ==
  /\ At(p, "call", "launching")
  /\ chromium[p]
  /\ browser' = [browser EXCEPT ![p] = TRUE]
  /\ browserLease' = [browserLease EXCEPT ![p] = TRUE]
  /\ browserOpen' = [browserOpen EXCEPT ![p] = TRUE]
  /\ lifecycle' = [lifecycle EXCEPT ![p] = "nobody"]
  /\ page' = [page EXCEPT ![p] = "live"]
  /\ Goes(p, "call", "body")
  /\ UNCHANGED <<phase, leaseVars, callsInFlight, worked, mustExit, chromium, guardian>>

\* Mistake: a cancelled startup keeps the reference it took.
LaunchFailsHolding(p) ==
  /\ At(p, "call", "launching")
  /\ chromium' = [chromium EXCEPT ![p] = FALSE]
  /\ guardian' = [guardian EXCEPT ![p] = "none"]
  /\ lifecycle' = [lifecycle EXCEPT ![p] = "nobody"]
  /\ page' = [page EXCEPT ![p] = "gone"]
  /\ Goes(p, "call", "body")
  /\ UNCHANGED <<phase, leaseVars, callsInFlight, browserOpen, browser, browserLease,
                 worked, mustExit>>

\* The launch failed or was cancelled, and its Chromium is proven gone.
LaunchFails(p) ==
  /\ At(p, "call", "launching")
  /\ DropReference(p)
  /\ chromium' = [chromium EXCEPT ![p] = FALSE]
  /\ guardian' = [guardian EXCEPT ![p] = "none"]
  /\ lifecycle' = [lifecycle EXCEPT ![p] = "nobody"]
  /\ page' = [page EXCEPT ![p] = "gone"]
  /\ Goes(p, "call", "body")
  /\ UNCHANGED <<phase, announced, callsInFlight, browserOpen, browser, browserLease,
                 worked, mustExit>>

\* Mistake: the marker is read before it is set.
AsksToGoTooSoon(p) ==
  mustExit' = [mustExit EXCEPT ![p] = @ \/ (p \in Owners /\ browserOpen[p])]

\* a_held_profile_means_this_owner_must_go(), asked after the marker is set.
AsksToGo(p) ==
  mustExit' = [mustExit EXCEPT ![p] = @ \/ (p \in Owners /\ browserOpen'[p])]

\* The failed launch's Chromium is not proven gone: everything is kept, with a
\* reference more than the caller will drop.
LaunchUnconfirmed(p) ==
  /\ At(p, "call", "launching")
  /\ browserOpen' = [browserOpen EXCEPT ![p] = TRUE]
  /\ TakeReference(p)
  /\ browserLease' = [browserLease EXCEPT ![p] = TRUE]
  /\ AsksToGo(p)
  /\ lifecycle' = [lifecycle EXCEPT ![p] = "nobody"]
  /\ page' = [page EXCEPT ![p] = "gone"]
  /\ Goes(p, "call", "body")
  /\ UNCHANGED <<phase, announced, callsInFlight, browser, worked, chromium, guardian>>

------------------------------------------------------------------------------
(* Closing: close_browser(), close_unusable_browser() and the handover *)

\* close_session, or the close a stale session brings.
CallAsksForAClose(p) ==
  /\ At(p, "call", "body")
  /\ Goes(p, "call", "wantClose")
  /\ UNCHANGED <<phase, leaseVars, callsInFlight, page, browserVars>>

\* The page or its browser turned out to be dead.
CallFindsItDead(p) ==
  /\ At(p, "call", "body")
  /\ page[p] = "live"
  /\ Goes(p, "call", "wantRetire")
  /\ UNCHANGED <<phase, leaseVars, callsInFlight, page, browserVars>>

\* _close_browser_locked() up to its first await.
ForgetsTheBrowser(p) ==
  /\ browser' = [browser EXCEPT ![p] = FALSE]
  /\ worked' = [worked EXCEPT ![p] = FALSE]

\* Whatever the running call held of it is dead from here on.
LosesThePage(p) == page' = [page EXCEPT ![p] = IF @ = "live" THEN "gone" ELSE @]

CloseBegins(p, t) ==
  /\ lifecycle[p] = "nobody"
  /\ browser[p]
  /\ \/ At(p, t, "wantClose")
     \/ At(p, t, "wantRetire") /\ page[p] = "live"
  /\ ForgetsTheBrowser(p)
  /\ LosesThePage(p)
  /\ lifecycle' = [lifecycle EXCEPT ![p] = t]
  /\ Goes(p, t, "closing")
  /\ UNCHANGED <<phase, leaseVars, browserOpen, browserLease, callsInFlight, mustExit,
                 chromium, guardian>>

\* Where a task stands once its close has ended.
AfterClose(t) == IF t = "call" THEN "body" ELSE "stopped"

CloseFindsNothing(p, t) ==
  /\ At(p, t, "wantClose")
  /\ lifecycle[p] = "nobody"
  /\ ~browser[p]
  /\ ForgetsTheBrowser(p)
  /\ page' = [page EXCEPT ![p] = IF t = "call" THEN "gone" ELSE @]
  /\ Goes(p, t, AfterClose(t))
  /\ UNCHANGED <<phase, leaseVars, browserOpen, browserLease, callsInFlight, lifecycle,
                 mustExit, chromium, guardian>>

\* Another close retired the manager first: the call asks for a browser once more.
RetireFindsAnother(p) ==
  /\ At(p, "call", "wantRetire")
  /\ lifecycle[p] = "nobody"
  /\ page[p] = "gone"
  /\ page' = [page EXCEPT ![p] = "none"]
  /\ Goes(p, "call", "body")
  /\ UNCHANGED <<phase, leaseVars, callsInFlight, browserVars>>

\* The conditional close has the lock; its task has not taken a step yet.
HandoverTakesTheLock(p, t) ==
  /\ At(p, t, "wantHandover")
  /\ lifecycle[p] = "nobody"
  /\ lifecycle' = [lifecycle EXCEPT ![p] = t]
  /\ Goes(p, t, "handover")
  /\ UNCHANGED <<phase, leaseVars, callsInFlight, page, browserOpen, browser,
                 browserLease, worked, mustExit, chromium, guardian>>

\* Mistake: only another close is noticed, not a call.
StillOpen(p) == browser[p]

\* The re-check of _close_browser_if_still_idle(), inside the teardown task.
StillIdle(p) == callsInFlight[p] = 0 /\ browser[p]

HandoverDeclined(p, t) ==
  /\ At(p, t, "handover")
  /\ ~StillIdle(p)
  /\ lifecycle' = [lifecycle EXCEPT ![p] = "nobody"]
  /\ Goes(p, t, "idle")
  /\ UNCHANGED <<phase, leaseVars, callsInFlight, page, browserOpen, browser,
                 browserLease, worked, mustExit, chromium, guardian>>

HandoverBegins(p, t) ==
  /\ At(p, t, "handover")
  /\ StillIdle(p)
  /\ ForgetsTheBrowser(p)
  /\ LosesThePage(p)
  /\ Goes(p, t, "handingOver")
  /\ UNCHANGED <<phase, leaseVars, browserOpen, browserLease, callsInFlight, lifecycle,
                 mustExit, chromium, guardian>>

\* The task leaves the lock: an unconditional close returns to its caller.
LeavesTheClose(p, t) ==
  /\ lifecycle' = [lifecycle EXCEPT ![p] = "nobody"]
  /\ \/ At(p, t, "closing") /\ Goes(p, t, AfterClose(t))
     \/ At(p, t, "handingOver") /\ Goes(p, t, "idle")

\* The drain proved Chromium gone: the guardian first, then the lease.
CloseConfirmed(p, t) ==
  /\ LeavesTheClose(p, t)
  /\ chromium' = [chromium EXCEPT ![p] = FALSE]
  /\ guardian' = [guardian EXCEPT ![p] = "none"]
  /\ browserOpen' = [browserOpen EXCEPT ![p] = FALSE]
  /\ browserLease' = [browserLease EXCEPT ![p] = FALSE]
  /\ DropReference(p)
  /\ UNCHANGED <<phase, announced, browser, callsInFlight, worked, mustExit, page>>

\* Mistake: the lease is handed back on the strength of the attempt.
CloseUnconfirmedReleases(p, t) ==
  /\ LeavesTheClose(p, t)
  /\ browserOpen' = [browserOpen EXCEPT ![p] = FALSE]
  /\ browserLease' = [browserLease EXCEPT ![p] = FALSE]
  /\ DropReference(p)
  /\ UNCHANGED <<phase, announced, browser, callsInFlight, worked, mustExit, page,
                 chromium, guardian>>

\* Nothing proves it gone, so the lease stays and an owner is asked to exit.
CloseUnconfirmed(p, t) ==
  /\ LeavesTheClose(p, t)
  /\ UNCHANGED browserOpen
  /\ AsksToGo(p)
  /\ UNCHANGED <<phase, leaseVars, browser, browserLease, callsInFlight, worked, page,
                 chromium, guardian>>

------------------------------------------------------------------------------
(* The end of a call, and the handoff poller *)

\* Mistake: a browser that has worked is never handed over.
HandsOverUnused(p, activeSoFar) ==
  /\ browser[p]
  /\ browserLease[p]
  /\ HandoffRequested
  /\ ~activeSoFar

\* release_profile_if_idle_or_requested(), up to the lifecycle lock.  Both have a
\* browser of their own lease and no call in flight.
HandsOver(p, activeSoFar) ==
  /\ browser[p]
  /\ browserLease[p]
  /\ HandoffRequested
  /\ matured[p] \/ ~activeSoFar

IdleTooLong(p) ==
  /\ browser[p]
  /\ browserLease[p]
  /\ ~HandoffRequested
  /\ IdleTimeout /\ worked[p]

\* Mistake: the call is not counted out.
NotesTheTimeOnly(p) ==
  /\ worked' = [worked EXCEPT ![p] = TRUE]
  /\ UNCHANGED callsInFlight

\* note_activity()
NotesActivity(p) ==
  /\ worked' = [worked EXCEPT ![p] = TRUE]
  /\ callsInFlight' = [callsInFlight EXCEPT ![p] = IF @ > 0 THEN @ - 1 ELSE 0]

\* The body ends, however it ends, and the call hands over if it is asked to.
CallFinishes(p) ==
  /\ pc[p]["call"] \in Waiting
  /\ NotesActivity(p)
  /\ DropReference(p)
  /\ page' = [page EXCEPT ![p] = "none"]
  /\ IF callsInFlight'[p] = 0 /\ HandsOver(p, TRUE)
       THEN Goes(p, "call", "wantHandover")
       ELSE Goes(p, "call", "idle")
  /\ UNCHANGED <<phase, announced, browserOpen, browser, browserLease, lifecycle,
                 mustExit, chromium, guardian>>

PollerDecides(p) ==
  /\ phase[p] = "up"
  /\ At(p, "poll", "idle")
  /\ callsInFlight[p] = 0
  /\ HandsOver(p, worked[p]) \/ IdleTooLong(p)
  /\ Goes(p, "poll", "wantHandover")
  /\ UNCHANGED <<phase, leaseVars, callsInFlight, page, browserVars>>

\* The call is cancelled while its handover waits for the lifecycle lock.
HandoverCancelled(p) ==
  /\ At(p, "call", "wantHandover")
  /\ Goes(p, "call", "idle")
  /\ UNCHANGED <<phase, leaseVars, callsInFlight, page, browserVars>>

------------------------------------------------------------------------------
(* Processes: start, the end of the lifespan, death, and the guardian *)

\* A new process takes the slot.
ProcessStarts(p) ==
  /\ phase[p] = "off"
  /\ guardian[p] = "none"
  /\ phase' = [phase EXCEPT ![p] = "up"]
  /\ UNCHANGED <<leaseVars, callsInFlight, pc, page, browserVars>>

\* The lifespan ends: the poller is cancelled, and awaited if it is closing.
LifespanEnds(p) ==
  /\ p \in Mortal
  /\ phase[p] = "up"
  /\ phase' = [phase EXCEPT ![p] = "stopping"]
  /\ IF At(p, "poll", "wantHandover") THEN Goes(p, "poll", "idle") ELSE UNCHANGED pc
  /\ UNCHANGED <<leaseVars, callsInFlight, page, browserVars>>

LifespanCloses(p) ==
  /\ phase[p] = "stopping"
  /\ At(p, "poll", "idle")
  /\ At(p, "stop", "idle")
  /\ Goes(p, "stop", "wantClose")
  /\ UNCHANGED <<phase, leaseVars, callsInFlight, page, browserVars>>

\* The lifespan is over, or _must_hard_exit is set and the serve loop sees it.
MustDie(p) == mustExit[p] \/ At(p, "stop", "stopped")

\* Mistake: another copy of the control pipe keeps the end of it from the guardian.
DescriptorsCloseUnheard(p) ==
  /\ lock' = IF lock = p /\ guardian[p] # "watching" THEN NoProc ELSE lock
  /\ UNCHANGED guardian

\* The kernel closes a dead process's descriptors: its guardian reads the end of the
\* control pipe, and the guardian's copy of the lease keeps the lock.
DescriptorsClose(p) ==
  IF guardian[p] = "watching"
    THEN guardian' = [guardian EXCEPT ![p] = "draining"] /\ UNCHANGED lock
    ELSE lock' = (IF lock = p THEN NoProc ELSE lock) /\ UNCHANGED guardian

\* The process exits, exits hard, crashes or is killed.
ProcessDies(p) ==
  /\ p \in Mortal \/ MustDie(p)
  /\ phase[p] # "off"
  /\ phase' = [phase EXCEPT ![p] = "off"]
  /\ DescriptorsClose(p)
  /\ refs' = [refs EXCEPT ![p] = 0]
  /\ browserOpen' = [browserOpen EXCEPT ![p] = FALSE]
  /\ matured' = [matured EXCEPT ![p] = FALSE]
  /\ announced' = [announced EXCEPT ![p] = FALSE]
  /\ browser' = [browser EXCEPT ![p] = FALSE]
  /\ browserLease' = [browserLease EXCEPT ![p] = FALSE]
  /\ callsInFlight' = [callsInFlight EXCEPT ![p] = 0]
  /\ worked' = [worked EXCEPT ![p] = FALSE]
  /\ lifecycle' = [lifecycle EXCEPT ![p] = "nobody"]
  /\ mustExit' = [mustExit EXCEPT ![p] = FALSE]
  /\ pc' = [pc EXCEPT ![p] = [t \in Task |-> "idle"]]
  /\ page' = [page EXCEPT ![p] = "none"]
  /\ UNCHANGED chromium

\* A Chromium ends by itself, or somebody else ends it.
ChromiumEnds(p) ==
  /\ chromium[p]
  /\ chromium' = [chromium EXCEPT ![p] = FALSE]
  /\ UNCHANGED <<phase, leaseVars, callsInFlight, pc, page, browserOpen, browser,
                 browserLease, worked, lifecycle, mustExit, guardian>>

\* _drain() of an orphaned guardian kills what carries the process's markers.
GuardianKills(p) ==
  /\ guardian[p] = "draining"
  /\ ChromiumEnds(p)

\* Mistake: the first scan, which may have failed, is taken for an empty one.
GuardianExitsAtOnce(p) ==
  /\ guardian[p] = "draining"
  /\ guardian' = [guardian EXCEPT ![p] = "none"]
  /\ lock' = IF lock = p THEN NoProc ELSE lock
  /\ UNCHANGED <<phase, refs, matured, announced, callsInFlight, pc, page, browserOpen,
                 browser, browserLease, worked, lifecycle, mustExit, chromium>>

\* Its scans have stayed empty: it exits, and its copy of the descriptor closes.
GuardianExits(p) ==
  /\ guardian[p] = "draining"
  /\ ~chromium[p]
  /\ guardian' = [guardian EXCEPT ![p] = "none"]
  /\ lock' = IF lock = p THEN NoProc ELSE lock
  /\ UNCHANGED <<phase, refs, matured, announced, callsInFlight, pc, page, browserOpen,
                 browser, browserLease, worked, lifecycle, mustExit, chromium>>

------------------------------------------------------------------------------
CallStep(p) ==
  \/ CallArrives(p) \/ StartsWaiting(p) \/ PollsTheLease(p) \/ GivesUp(p)
  \/ GetsTheBrowser(p) \/ WantsABrowser(p)
  \/ LaunchRefused(p) \/ LaunchBegins(p)
  \/ LaunchSucceeds(p) \/ LaunchFails(p) \/ LaunchUnconfirmed(p)
  \/ CallAsksForAClose(p) \/ CallFindsItDead(p) \/ RetireFindsAnother(p)
  \/ CallFinishes(p) \/ HandoverCancelled(p)

CloseStep(p, t) ==
  \/ CloseBegins(p, t) \/ CloseFindsNothing(p, t)
  \/ HandoverTakesTheLock(p, t) \/ HandoverDeclined(p, t) \/ HandoverBegins(p, t)
  \/ CloseConfirmed(p, t) \/ CloseUnconfirmed(p, t)

ProcessStep(p) ==
  \/ PollerDecides(p) \/ HoldMatures(p)
  \/ ProcessStarts(p) \/ LifespanEnds(p) \/ LifespanCloses(p) \/ ProcessDies(p)
  \/ ChromiumStarts(p) \/ ChromiumEnds(p) \/ GuardianKills(p) \/ GuardianExits(p)

Next == \E p \in Proc : \/ CallStep(p) \/ ProcessStep(p)
                        \/ \E t \in Task : CloseStep(p, t)

Spec == Init /\ [][Next]_vars

\* A tool body or a launch comes to its end.
Finishes(p) ==
  CallFinishes(p) \/ LaunchSucceeds(p) \/ LaunchFails(p) \/ LaunchUnconfirmed(p)

\* A task that waits for the lifecycle lock gets it; one that has it gets on.
Enters(p, t) == CloseBegins(p, t) \/ CloseFindsNothing(p, t) \/ HandoverTakesTheLock(p, t)
GetsOn(p, t) == \/ HandoverDeclined(p, t) \/ HandoverBegins(p, t)
                \/ CloseConfirmed(p, t) \/ CloseUnconfirmed(p, t)

\* A process that has to go exits, and its guardian finishes what it left.
LastSteps(p) == \/ MustDie(p) /\ ProcessDies(p)
                \/ GuardianKills(p) \/ GuardianExits(p)

\* What bounded steps, the event loop and the kernel bring about in the end.  A
\* tool body is cut off by its timeout, a launch and a teardown bound their steps,
\* asyncio locks are first come first served, the poller runs every second, and a
\* process whose lifespan is over, or an owner asked to exit, does exit.  Nothing
\* makes a call arrive, a process start, a wait budget run out, or a process die
\* without that.
FairToTask(p, t) == SF_vars(Enters(p, t)) /\ WF_vars(GetsOn(p, t))
FairToProcess(p) ==
  /\ WF_vars(Finishes(p)) /\ WF_vars(PollerDecides(p)) /\ WF_vars(HoldMatures(p))
  /\ WF_vars(LifespanCloses(p)) /\ WF_vars(LastSteps(p))
FairTo(p) == FairToProcess(p) /\ \A t \in Task : FairToTask(p, t)

Fairness == \A p \in Proc : FairTo(p)

LiveSpec == Spec /\ Fairness

------------------------------------------------------------------------------
(* Properties *)

\* Two Chromiums are never on the profile at once, whatever crashed, was cancelled
\* or failed to close in between: the corruption profile_lease.py exists against.
OneChromium == \A p, q \in Proc : chromium[p] /\ chromium[q] => p = q

\* An earlier browser's close was never confirmed.
Stranded(p) ==
  /\ browserLease[p]
  /\ ~browser[p]
  /\ \A t \in Task : pc[p][t] \notin {"closing", "handingOver"}

ReferencesOf(p) ==
  LET rest == refs[p] - (IF InBody(p) THEN 1 ELSE 0)
  IN  IF Stranded(p) THEN rest \in {1, 2}
      ELSE rest = IF browserLease[p] \/ At(p, "call", "launching") THEN 1 ELSE 0

\* The references add up, on every path a call, a launch or a close can take: a
\* running call holds one, a launch in progress or a usable browser one more, a
\* stranded profile one or two, and nothing else any.  One too few would free the
\* profile under a Chromium; one too many would keep it for the process's life.
ReferencesAddUp == \A p \in Proc : ReferencesOf(p)

\* The handover, which runs without being asked for by the call it may hit, never
\* takes the browser from a call that is using it: only the call's own close and
\* the end of the lifespan do.
HandoverSparesRunningCalls ==
  [][\A p \in Proc :
       page[p] = "live" /\ page'[p] = "gone" =>
         \E t \in Task : pc[p][t] \in {"wantClose", "wantRetire"} /\ pc'[p][t] = "closing"
    ]_vars

\* A profile whose browser was not proven gone stays held, and no browser is
\* launched on it, until the process is dead: no later close, call, handover or
\* shutdown of the same process can talk it out of that.
StrandedUntilDeath ==
  [][\A p \in Proc :
       Stranded(p) => \/ phase'[p] = "off"
                      \/ Stranded(p)' /\ lock' = p /\ pc'[p]["call"] # "launching"
    ]_vars

\* The shared browser implements what the lease promises.
Profile == INSTANCE ExclusiveProfile
             WITH holder <- lock, live <- {p \in Proc : chromium[p]}
LeasePromise == Profile!Spec

\* A waiter whose announcement stands gets the browser's process to let go of it,
\* even if calls keep arriving there, unless it stops waiting itself.
HandoffHonoured ==
  \A p \in Proc : \A q \in Proc \ {p} :
    announced[q] /\ browser[p] ~> ~announced[q] \/ ~browser[p]

\* A shared owner stranded by an unconfirmed close gives the profile up: nobody
\* restarts an owner by hand.
StrandedOwnerGivesWay ==
  \A p \in Owners : Stranded(p) ~> lock # p

\* A dead process does not keep the profile, although its Chromium outlived it.
DeathFreesTheProfile ==
  \A p \in Proc : phase[p] = "off" ~> lock # p
=============================================================================
