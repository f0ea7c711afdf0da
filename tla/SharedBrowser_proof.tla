------------------------ MODULE SharedBrowser_proof ------------------------
(* That SharedBrowser keeps a profile to one Chromium, for every set of        *)
(* processes.  The argument: whatever launched a Chromium still has, in the    *)
(* process or in its guardian, a copy of the descriptor that holds the kernel  *)
(* lock, and the kernel lock is one process's.  The last part shows that the   *)
(* profile is let go of: by the dead, by the stranded, and for those who wait. *)
EXTENDS SharedBrowser, TLAPS

CallSteps == Step \ {"stopped"}
PollSteps == {"idle", "wantHandover", "handover", "handingOver"}
StopSteps == {"idle", "wantClose", "closing", "stopped"}

\* Each task of a process is where its own code can be, and is inside the lifecycle
\* lock exactly when the lock is its own.
TasksInPlace(p) ==
  /\ pc[p]["call"] \in CallSteps
  /\ pc[p]["poll"] \in PollSteps
  /\ pc[p]["stop"] \in StopSteps
  /\ \A t \in Task : lifecycle[p] = t <=> pc[p][t] \in Inside

Closing(p) == \E t \in Task : pc[p][t] \in {"closing", "handingOver"}

\* What the module variables of drivers/browser.py say about each other.
BrowserBookkeeping(p) ==
  /\ browserLease[p] <=> browserOpen[p]
  /\ browser[p] => browserLease[p] /\ ~Closing(p)
  /\ Closing(p) => browserLease[p]
  /\ At(p, "call", "launching") => ~browserLease[p]
  /\ page[p] = "live" => browser[p] /\ InBody(p)
  /\ callsInFlight[p] = IF InBody(p) THEN 1 ELSE 0

\* The kernel lock is where the references, or an orphaned guardian, say.
LockInPlace(p) ==
  /\ refs[p] > 0 => lock = p
  /\ lock = p => refs[p] > 0 \/ guardian[p] = "draining"
  /\ guardian[p] = "draining" => lock = p /\ phase[p] = "off"
  /\ guardian[p] = "watching" <=> browserLease[p] \/ At(p, "call", "launching")
  /\ chromium[p] => guardian[p] # "none"

\* Nothing of a dead process is left but its Chromium and its guardian.
DeadIsBlank(p) ==
  phase[p] = "off" =>
    /\ refs[p] = 0 /\ ~browserLease[p] /\ ~browser[p] /\ ~announced[p]
    /\ \A t \in Task : At(p, t, "idle")

Consistent(p) ==
  /\ TasksInPlace(p)
  /\ BrowserBookkeeping(p)
  /\ ReferencesOf(p)
  /\ LockInPlace(p)
  /\ DeadIsBlank(p)

IInv == TypeOK /\ \A p \in Proc : Consistent(p)

\* A step of another process leaves q alone, except that it may move the kernel
\* lock between processes that are not q.
Untouched(q) ==
  /\ phase'[q] = phase[q] /\ refs'[q] = refs[q] /\ (lock' = q <=> lock = q)
  /\ browserOpen'[q] = browserOpen[q] /\ browser'[q] = browser[q]
  /\ browserLease'[q] = browserLease[q] /\ announced'[q] = announced[q]
  /\ callsInFlight'[q] = callsInFlight[q] /\ lifecycle'[q] = lifecycle[q]
  /\ pc'[q] = pc[q] /\ page'[q] = page[q]
  /\ chromium'[q] = chromium[q] /\ guardian'[q] = guardian[q]

USE DEF Task, Waiting, Inside, Step, CallSteps, PollSteps, StopSteps, At, Goes

\* A process no step touches stays consistent.
LEMMA UntouchedStaysConsistent ==
  ASSUME NEW q \in Proc, Consistent(q), Untouched(q)
  PROVE  Consistent(q)'
BY DEF Consistent, Untouched, TasksInPlace, BrowserBookkeeping, ReferencesOf,
       LockInPlace, DeadIsBlank, InBody, Closing, Stranded

\* Initially nothing is open.
LEMMA InitConsistent == Init => IInv
BY NoProcIsNoProcess
   DEF Init, IInv, TypeOK, Consistent, TasksInPlace, BrowserBookkeeping, ReferencesOf,
       LockInPlace, DeadIsBlank, InBody, Closing, Stranded

\* A step of process p leaves the others alone, and a Chromium it starts it starts
\* while the kernel lock is its own.
Confined(p) ==
  /\ \A q \in Proc \ {p} : Untouched(q)
  /\ chromium'[p] => chromium[p] \/ lock = p

\* What every step of process p must leave.
Keeps(p) == TypeOK' /\ Consistent(p)' /\ Confined(p)

\* The minimum hold passes.
LEMMA HoldMaturesKeeps ==
  ASSUME NEW p \in Proc, IInv, HoldMatures(p)
  PROVE  Keeps(p)
<1>. USE DEF HoldMatures
<1>1. TypeOK'
  BY DEF IInv, TypeOK
<1>2. Confined(p)
  BY DEF Confined, Untouched
<1>3. TasksInPlace(p)'
  BY DEF IInv, Consistent, TasksInPlace
<1>4. BrowserBookkeeping(p)'
  BY DEF IInv, Consistent, BrowserBookkeeping, InBody, Closing
<1>5. ReferencesOf(p)'
  BY DEF IInv, Consistent, ReferencesOf, InBody, Stranded
<1>6. LockInPlace(p)'
  BY DEF IInv, Consistent, LockInPlace
<1>7. DeadIsBlank(p)'
  BY DEF IInv, Consistent, DeadIsBlank
<1>. QED  BY <1>1, <1>2, <1>3, <1>4, <1>5, <1>6, <1>7 DEF Keeps, Consistent

\* A call whose reference was refused so far gets it and begins.
LEMMA BodyBeginsKeeps ==
  ASSUME NEW p \in Proc, IInv, BodyBegins(p),
         phase[p] # "off", pc[p]["call"] \in {"idle", "busy", "waiting"}
  PROVE  Keeps(p)
<1>. USE DEF BodyBegins
<1>1. refs' \in [Proc -> 0..3] /\ callsInFlight' \in [Proc -> 0..1]
  BY SMTT(40) DEF TakeReference, browserVars, IInv, TypeOK, Consistent, TasksInPlace,
     BrowserBookkeeping, ReferencesOf, InBody, Closing, Stranded
<1>2. TypeOK'
  BY <1>1 DEF TakeReference, browserVars, IInv, TypeOK
<1>3. Confined(p)
  BY SMTT(40), NoProcIsNoProcess DEF TakeReference, CanAcquire, browserVars, Confined,
     Untouched
<1>4. TasksInPlace(p)'
  BY DEF browserVars, IInv, Consistent, TasksInPlace
<1>5. BrowserBookkeeping(p)'
  BY SMTT(40) DEF browserVars, IInv, TypeOK, Consistent, TasksInPlace, BrowserBookkeeping,
     InBody, Closing
<1>6. ReferencesOf(p)'
  BY SMTT(40) DEF TakeReference, browserVars, IInv, TypeOK, Consistent, TasksInPlace,
     BrowserBookkeeping, ReferencesOf, InBody, Closing, Stranded
<1>7. LockInPlace(p)'
  BY DEF TakeReference, CanAcquire, browserVars, IInv, TypeOK, Consistent,
     LockInPlace
<1>8. DeadIsBlank(p)'
  BY DEF DeadIsBlank
<1>. QED  BY <1>2, <1>3, <1>4, <1>5, <1>6, <1>7, <1>8 DEF Keeps, Consistent

\* A call that is refused the lease on arrival only moves.
LEMMA CallArrivesKeeps ==
  ASSUME NEW p \in Proc, IInv, CallArrives(p), ~BodyBegins(p)
  PROVE  Keeps(p)
<1>. USE DEF CallArrives
<1>1. TypeOK'
  BY SMTT(40) DEF CanAcquire, browserVars, IInv, TypeOK
<1>2. Confined(p)
  BY DEF browserVars, Confined, Untouched, IInv, TypeOK
<1>3. TasksInPlace(p)'
  BY DEF browserVars, IInv, TypeOK, Consistent, TasksInPlace
<1>4. BrowserBookkeeping(p)'
  BY DEF browserVars, IInv, TypeOK, Consistent, BrowserBookkeeping, InBody, Closing
<1>5. ReferencesOf(p)'
  BY SMTT(40) DEF CanAcquire, browserVars, IInv, TypeOK, Consistent, TasksInPlace,
     BrowserBookkeeping, ReferencesOf, InBody, Closing, Stranded
<1>6. LockInPlace(p)'
  BY DEF browserVars, IInv, TypeOK, Consistent, LockInPlace
<1>7. DeadIsBlank(p)'
  BY DEF DeadIsBlank
<1>. QED  BY <1>1, <1>2, <1>3, <1>4, <1>5, <1>6, <1>7 DEF Keeps, Consistent

\* A call that is refused again announces itself, or does not get to.
LEMMA StartsWaitingKeeps ==
  ASSUME NEW p \in Proc, IInv, StartsWaiting(p), ~BodyBegins(p)
  PROVE  Keeps(p)
<1>1. /\ pc[p]["call"] = "busy"
      /\ pc' = [pc EXCEPT ![p]["call"] = "waiting"]
      /\ UNCHANGED <<phase, lock, refs, matured, callsInFlight, page, browserVars>>
  BY DEF StartsWaiting
<1>2. announced' = [announced EXCEPT ![p] = TRUE] \/ announced' = announced
  BY DEF StartsWaiting
<1>3. TypeOK'
  BY <1>1, <1>2 DEF browserVars, IInv, TypeOK
<1>4. Confined(p)
  BY <1>1, <1>2 DEF browserVars, Confined, Untouched, IInv, TypeOK
<1>5. TasksInPlace(p)'
  BY <1>1 DEF browserVars, IInv, Consistent, TasksInPlace
<1>6. BrowserBookkeeping(p)'
  BY <1>1 DEF browserVars, IInv, Consistent, BrowserBookkeeping, InBody, Closing
<1>7. ReferencesOf(p)'
  BY SMTT(40), <1>1 DEF browserVars, IInv, TypeOK, Consistent, ReferencesOf, InBody, Stranded
<1>8. LockInPlace(p)'
  BY <1>1 DEF browserVars, IInv, TypeOK, Consistent, LockInPlace
<1>9. DeadIsBlank(p)'
  BY <1>1 DEF IInv, Consistent, DeadIsBlank
<1>. QED  BY <1>3, <1>4, <1>5, <1>6, <1>7, <1>8, <1>9 DEF Keeps, Consistent

\* A waiting call that gives up withdraws its announcement.
LEMMA GivesUpKeeps ==
  ASSUME NEW p \in Proc, IInv, GivesUp(p)
  PROVE  Keeps(p)
<1>. USE DEF GivesUp
<1>1. TypeOK'
  BY DEF browserVars, IInv, TypeOK
<1>2. Confined(p)
  BY DEF browserVars, Confined, Untouched
<1>3. TasksInPlace(p)'
  BY DEF browserVars, IInv, Consistent, TasksInPlace
<1>4. BrowserBookkeeping(p)'
  BY DEF browserVars, IInv, Consistent, BrowserBookkeeping, InBody, Closing
<1>5. ReferencesOf(p)'
  BY DEF browserVars, IInv, Consistent, ReferencesOf, InBody, Stranded
<1>6. LockInPlace(p)'
  BY DEF browserVars, IInv, Consistent, LockInPlace
<1>7. DeadIsBlank(p)'
  BY DEF IInv, Consistent, DeadIsBlank
<1>. QED  BY <1>1, <1>2, <1>3, <1>4, <1>5, <1>6, <1>7 DEF Keeps, Consistent

\* A call on the fast path learns of a browser that is set.
LEMMA GetsTheBrowserKeeps ==
  ASSUME NEW p \in Proc, IInv, GetsTheBrowser(p)
  PROVE  Keeps(p)
<1>. USE DEF GetsTheBrowser
<1>1. TypeOK'
  BY DEF browserVars, leaseVars, IInv, TypeOK
<1>2. Confined(p)
  BY DEF browserVars, leaseVars, Confined, Untouched
<1>3. TasksInPlace(p)'
  BY DEF browserVars, IInv, Consistent, TasksInPlace
<1>4. BrowserBookkeeping(p)'
  BY DEF browserVars, IInv, Consistent, BrowserBookkeeping, InBody, Closing
<1>5. ReferencesOf(p)'
  BY DEF browserVars, leaseVars, IInv, Consistent, ReferencesOf, InBody, Stranded
<1>6. LockInPlace(p)'
  BY DEF browserVars, leaseVars, IInv, Consistent, LockInPlace
<1>7. DeadIsBlank(p)'
  BY DEF IInv, Consistent, DeadIsBlank
<1>. QED  BY <1>1, <1>2, <1>3, <1>4, <1>5, <1>6, <1>7 DEF Keeps, Consistent

\* A call that finds none goes for the locks.
LEMMA WantsABrowserKeeps ==
  ASSUME NEW p \in Proc, IInv, WantsABrowser(p)
  PROVE  Keeps(p)
<1>. USE DEF WantsABrowser
<1>1. TypeOK'
  BY DEF browserVars, leaseVars, IInv, TypeOK
<1>2. Confined(p)
  BY DEF browserVars, leaseVars, Confined, Untouched
<1>3. TasksInPlace(p)'
  BY DEF browserVars, IInv, Consistent, TasksInPlace
<1>4. BrowserBookkeeping(p)'
  BY DEF browserVars, IInv, Consistent, BrowserBookkeeping, InBody, Closing
<1>5. ReferencesOf(p)'
  BY DEF browserVars, leaseVars, IInv, Consistent, ReferencesOf, InBody, Stranded
<1>6. LockInPlace(p)'
  BY DEF browserVars, leaseVars, IInv, Consistent, LockInPlace
<1>7. DeadIsBlank(p)'
  BY DEF IInv, Consistent, DeadIsBlank
<1>. QED  BY <1>1, <1>2, <1>3, <1>4, <1>5, <1>6, <1>7 DEF Keeps, Consistent

\* A refused launch leaves the call without a page.
LEMMA LaunchRefusedKeeps ==
  ASSUME NEW p \in Proc, IInv, LaunchRefused(p)
  PROVE  Keeps(p)
<1>. USE DEF LaunchRefused
<1>1. TypeOK'
  BY DEF browserVars, leaseVars, IInv, TypeOK
<1>2. Confined(p)
  BY DEF browserVars, leaseVars, Confined, Untouched
<1>3. TasksInPlace(p)'
  BY DEF browserVars, IInv, Consistent, TasksInPlace
<1>4. BrowserBookkeeping(p)'
  BY DEF browserVars, IInv, Consistent, BrowserBookkeeping, InBody, Closing
<1>5. ReferencesOf(p)'
  BY DEF browserVars, leaseVars, IInv, Consistent, ReferencesOf, InBody, Stranded
<1>6. LockInPlace(p)'
  BY DEF browserVars, leaseVars, IInv, Consistent, LockInPlace
<1>7. DeadIsBlank(p)'
  BY DEF IInv, Consistent, DeadIsBlank
<1>. QED  BY <1>1, <1>2, <1>3, <1>4, <1>5, <1>6, <1>7 DEF Keeps, Consistent

\* A launch takes the second reference, and the guardian copies the descriptor.
LEMMA LaunchBeginsKeeps ==
  ASSUME NEW p \in Proc, IInv, LaunchBegins(p)
  PROVE  Keeps(p)
<1>. USE DEF LaunchBegins
<1>1. refs' \in [Proc -> 0..3] /\ callsInFlight' \in [Proc -> 0..1]
  BY SMTT(40) DEF TakeReference, MayStillBeOpen, IInv, TypeOK, Consistent, ReferencesOf,
     Stranded
<1>2. TypeOK'
  BY <1>1 DEF TakeReference, IInv, TypeOK
<1>3. Confined(p)
  BY NoProcIsNoProcess DEF TakeReference, CanAcquire, Confined, Untouched
<1>4. TasksInPlace(p)'
  BY DEF IInv, TypeOK, Consistent, TasksInPlace
<1>5. BrowserBookkeeping(p)'
  BY DEF MayStillBeOpen, IInv, Consistent, BrowserBookkeeping, InBody, Closing
<1>6. ReferencesOf(p)'
  BY DEF TakeReference, MayStillBeOpen, IInv, TypeOK, Consistent, ReferencesOf,
     InBody, Stranded
<1>7. LockInPlace(p)'
  BY SMTT(40) DEF TakeReference, IInv, TypeOK, Consistent, BrowserBookkeeping, LockInPlace
<1>8. DeadIsBlank(p)'
  BY DEF IInv, Consistent, DeadIsBlank
<1>. QED  BY <1>2, <1>3, <1>4, <1>5, <1>6, <1>7, <1>8 DEF Keeps, Consistent

\* Chromium starts under the launch's reference.
LEMMA ChromiumStartsKeeps ==
  ASSUME NEW p \in Proc, IInv, ChromiumStarts(p)
  PROVE  Keeps(p)
<1>. USE DEF ChromiumStarts
<1>1. TypeOK'
  BY DEF leaseVars, IInv, TypeOK
<1>2. Confined(p)
  BY DEF leaseVars, Confined, Untouched, IInv, TypeOK, Consistent,
     BrowserBookkeeping, ReferencesOf, LockInPlace, InBody, Stranded
<1>3. TasksInPlace(p)'
  BY DEF IInv, Consistent, TasksInPlace
<1>4. BrowserBookkeeping(p)'
  BY DEF IInv, Consistent, BrowserBookkeeping, InBody, Closing
<1>5. ReferencesOf(p)'
  BY DEF leaseVars, IInv, Consistent, ReferencesOf, InBody, Stranded
<1>6. LockInPlace(p)'
  BY DEF leaseVars, IInv, Consistent, LockInPlace
<1>7. DeadIsBlank(p)'
  BY DEF IInv, Consistent, DeadIsBlank
<1>. QED  BY <1>1, <1>2, <1>3, <1>4, <1>5, <1>6, <1>7 DEF Keeps, Consistent

\* A browser that is set keeps the launch's reference.
LEMMA LaunchSucceedsKeeps ==
  ASSUME NEW p \in Proc, IInv, LaunchSucceeds(p)
  PROVE  Keeps(p)
<1>. USE DEF LaunchSucceeds
<1>1. TypeOK'
  BY DEF leaseVars, IInv, TypeOK
<1>2. Confined(p)
  BY DEF leaseVars, Confined, Untouched
<1>3. TasksInPlace(p)'
  BY DEF IInv, TypeOK, Consistent, TasksInPlace
<1>4. BrowserBookkeeping(p)'
  BY DEF IInv, TypeOK, Consistent, BrowserBookkeeping, InBody, Closing
<1>5. ReferencesOf(p)'
  BY DEF leaseVars, IInv, TypeOK, Consistent, BrowserBookkeeping, ReferencesOf,
     InBody, Stranded
<1>6. LockInPlace(p)'
  BY DEF leaseVars, IInv, TypeOK, Consistent, LockInPlace
<1>7. DeadIsBlank(p)'
  BY DEF IInv, Consistent, DeadIsBlank
<1>. QED  BY <1>1, <1>2, <1>3, <1>4, <1>5, <1>6, <1>7 DEF Keeps, Consistent

\* A failed launch hands its reference back.
LEMMA LaunchFailsKeeps ==
  ASSUME NEW p \in Proc, IInv, LaunchFails(p)
  PROVE  Keeps(p)
<1>. USE DEF LaunchFails
<1>1. refs' \in [Proc -> 0..3] /\ callsInFlight' \in [Proc -> 0..1]
  BY DEF DropReference, IInv, TypeOK
<1>2. TypeOK'
  BY DEF DropReference, IInv, TypeOK
<1>3. Confined(p)
  BY NoProcIsNoProcess DEF DropReference, Confined, Untouched, IInv, Consistent,
     LockInPlace
<1>4. TasksInPlace(p)'
  BY DEF IInv, TypeOK, Consistent, TasksInPlace
<1>5. BrowserBookkeeping(p)'
  BY DEF IInv, Consistent, BrowserBookkeeping, InBody, Closing
<1>6. ReferencesOf(p)'
  BY SMTT(40) DEF DropReference, IInv, TypeOK, Consistent, BrowserBookkeeping,
     ReferencesOf, InBody, Stranded
<1>7. LockInPlace(p)'
  BY SMTT(40), NoProcIsNoProcess DEF DropReference, IInv, TypeOK, Consistent,
     BrowserBookkeeping, ReferencesOf, LockInPlace
<1>8. DeadIsBlank(p)'
  BY DEF IInv, Consistent, DeadIsBlank
<1>. QED  BY <1>2, <1>3, <1>4, <1>5, <1>6, <1>7, <1>8 DEF Keeps, Consistent

\* A launch that cannot be cleaned up keeps its reference and one more.
LEMMA LaunchUnconfirmedKeeps ==
  ASSUME NEW p \in Proc, IInv, LaunchUnconfirmed(p)
  PROVE  Keeps(p)
<1>1. /\ pc[p]["call"] = "launching"
      /\ pc' = [pc EXCEPT ![p]["call"] = "body"]
      /\ browserOpen' = [browserOpen EXCEPT ![p] = TRUE]
      /\ browserLease' = [browserLease EXCEPT ![p] = TRUE]
      /\ lifecycle' = [lifecycle EXCEPT ![p] = "nobody"]
      /\ page' = [page EXCEPT ![p] = "gone"]
      /\ UNCHANGED <<phase, announced, callsInFlight, browser, worked, chromium, guardian>>
  BY DEF LaunchUnconfirmed
<1>2. mustExit' \in [Proc -> BOOLEAN]
  BY DEF LaunchUnconfirmed, AsksToGo, IInv, TypeOK
<1>3. refs[p] = 2 /\ lock = p /\ ~browserLease[p] /\ ~browser[p]
  BY SMTT(40), <1>1 DEF IInv, TypeOK, Consistent, BrowserBookkeeping, ReferencesOf, LockInPlace,
              InBody, Stranded
<1>4. refs' = [refs EXCEPT ![p] = 3] /\ UNCHANGED <<lock, matured>>
  BY <1>3 DEF LaunchUnconfirmed, TakeReference, IInv, TypeOK
<1>5. TypeOK'
  BY <1>1, <1>2, <1>4 DEF IInv, TypeOK
<1>6. Confined(p)
  BY <1>1, <1>4 DEF Confined, Untouched
<1>7. TasksInPlace(p)'
  BY <1>1 DEF IInv, TypeOK, Consistent, TasksInPlace
<1>8. BrowserBookkeeping(p)'
  BY <1>1, <1>3 DEF IInv, TypeOK, Consistent, TasksInPlace, BrowserBookkeeping, InBody,
                    Closing
<1>9. ReferencesOf(p)'
  <2>1. InBody(p)' /\ refs'[p] = 3
    BY <1>1, <1>4 DEF InBody, IInv, TypeOK
  <2>2. Stranded(p)'
    BY <1>1, <1>3 DEF Stranded, IInv, TypeOK, Consistent, BrowserBookkeeping, Closing
  <2>. QED  BY <2>1, <2>2 DEF ReferencesOf
<1>10. LockInPlace(p)'
  BY <1>1, <1>3, <1>4 DEF IInv, TypeOK, Consistent, LockInPlace
<1>11. DeadIsBlank(p)'
  BY <1>1 DEF IInv, Consistent, DeadIsBlank
<1>. QED  BY <1>5, <1>6, <1>7, <1>8, <1>9, <1>10, <1>11 DEF Keeps, Consistent

\* A call goes for the lifecycle lock to close.
LEMMA CallAsksForACloseKeeps ==
  ASSUME NEW p \in Proc, IInv, CallAsksForAClose(p)
  PROVE  Keeps(p)
<1>. USE DEF CallAsksForAClose
<1>1. TypeOK'
  BY DEF browserVars, leaseVars, IInv, TypeOK
<1>2. Confined(p)
  BY DEF browserVars, leaseVars, Confined, Untouched
<1>3. TasksInPlace(p)'
  BY DEF browserVars, IInv, Consistent, TasksInPlace
<1>4. BrowserBookkeeping(p)'
  BY DEF browserVars, IInv, Consistent, BrowserBookkeeping, InBody, Closing
<1>5. ReferencesOf(p)'
  BY DEF browserVars, leaseVars, IInv, Consistent, ReferencesOf, InBody, Stranded
<1>6. LockInPlace(p)'
  BY DEF browserVars, leaseVars, IInv, Consistent, LockInPlace
<1>7. DeadIsBlank(p)'
  BY DEF IInv, Consistent, DeadIsBlank
<1>. QED  BY <1>1, <1>2, <1>3, <1>4, <1>5, <1>6, <1>7 DEF Keeps, Consistent

\* A call goes for the lifecycle lock to retire a dead browser.
LEMMA CallFindsItDeadKeeps ==
  ASSUME NEW p \in Proc, IInv, CallFindsItDead(p)
  PROVE  Keeps(p)
<1>. USE DEF CallFindsItDead
<1>1. TypeOK'
  BY DEF browserVars, leaseVars, IInv, TypeOK
<1>2. Confined(p)
  BY DEF browserVars, leaseVars, Confined, Untouched
<1>3. TasksInPlace(p)'
  BY DEF browserVars, IInv, Consistent, TasksInPlace
<1>4. BrowserBookkeeping(p)'
  BY DEF browserVars, IInv, Consistent, BrowserBookkeeping, InBody, Closing
<1>5. ReferencesOf(p)'
  BY DEF browserVars, leaseVars, IInv, Consistent, ReferencesOf, InBody, Stranded
<1>6. LockInPlace(p)'
  BY DEF browserVars, leaseVars, IInv, Consistent, LockInPlace
<1>7. DeadIsBlank(p)'
  BY DEF IInv, Consistent, DeadIsBlank
<1>. QED  BY <1>1, <1>2, <1>3, <1>4, <1>5, <1>6, <1>7 DEF Keeps, Consistent

\* A close forgets the browser before it awaits anything.
LEMMA CloseBeginsKeeps ==
  ASSUME NEW p \in Proc, NEW t \in Task, IInv, CloseBegins(p, t)
  PROVE  Keeps(p)
<1>. USE DEF CloseBegins
<1>1. TypeOK'
  BY DEF ForgetsTheBrowser, LosesThePage, leaseVars, IInv, TypeOK
<1>2. Confined(p)
  BY DEF ForgetsTheBrowser, LosesThePage, leaseVars, Confined, Untouched
<1>3. TasksInPlace(p)'
  BY DEF IInv, TypeOK, Consistent, TasksInPlace
<1>4. BrowserBookkeeping(p)'
  BY DEF ForgetsTheBrowser, LosesThePage, IInv, TypeOK, Consistent,
     BrowserBookkeeping, InBody
<1>5. ReferencesOf(p)'
  BY DEF leaseVars, IInv, Consistent, ReferencesOf, InBody, Stranded
<1>6. LockInPlace(p)'
  BY DEF leaseVars, IInv, Consistent, LockInPlace
<1>7. DeadIsBlank(p)'
  BY DEF IInv, Consistent, DeadIsBlank
<1>. QED  BY <1>1, <1>2, <1>3, <1>4, <1>5, <1>6, <1>7 DEF Keeps, Consistent

\* A close with nothing to close touches no lease.
LEMMA CloseFindsNothingKeeps ==
  ASSUME NEW p \in Proc, NEW t \in Task, IInv, CloseFindsNothing(p, t)
  PROVE  Keeps(p)
<1>. USE DEF CloseFindsNothing
<1>1. TypeOK'
  BY DEF ForgetsTheBrowser, AfterClose, leaseVars, IInv, TypeOK
<1>2. Confined(p)
  BY DEF ForgetsTheBrowser, leaseVars, Confined, Untouched
<1>3. TasksInPlace(p)'
  BY DEF AfterClose, IInv, Consistent, TasksInPlace
<1>4. BrowserBookkeeping(p)'
  BY DEF ForgetsTheBrowser, AfterClose, IInv, Consistent, BrowserBookkeeping,
     InBody, Closing
<1>5. ReferencesOf(p)'
  BY DEF ForgetsTheBrowser, AfterClose, leaseVars, IInv, Consistent, ReferencesOf,
     InBody, Stranded
<1>6. LockInPlace(p)'
  BY DEF AfterClose, leaseVars, IInv, Consistent, LockInPlace
<1>7. DeadIsBlank(p)'
  BY DEF IInv, Consistent, DeadIsBlank
<1>. QED  BY <1>1, <1>2, <1>3, <1>4, <1>5, <1>6, <1>7 DEF Keeps, Consistent

\* A retirement that came second changes nothing but its call.
LEMMA RetireFindsAnotherKeeps ==
  ASSUME NEW p \in Proc, IInv, RetireFindsAnother(p)
  PROVE  Keeps(p)
<1>. USE DEF RetireFindsAnother
<1>1. TypeOK'
  BY DEF browserVars, leaseVars, IInv, TypeOK
<1>2. Confined(p)
  BY DEF browserVars, leaseVars, Confined, Untouched
<1>3. TasksInPlace(p)'
  BY DEF browserVars, IInv, Consistent, TasksInPlace
<1>4. BrowserBookkeeping(p)'
  BY DEF browserVars, IInv, Consistent, BrowserBookkeeping, InBody, Closing
<1>5. ReferencesOf(p)'
  BY DEF browserVars, leaseVars, IInv, Consistent, ReferencesOf, InBody, Stranded
<1>6. LockInPlace(p)'
  BY DEF browserVars, leaseVars, IInv, Consistent, LockInPlace
<1>7. DeadIsBlank(p)'
  BY DEF IInv, Consistent, DeadIsBlank
<1>. QED  BY <1>1, <1>2, <1>3, <1>4, <1>5, <1>6, <1>7 DEF Keeps, Consistent

\* A handover enters the lifecycle lock.
LEMMA HandoverTakesTheLockKeeps ==
  ASSUME NEW p \in Proc, NEW t \in Task, IInv, HandoverTakesTheLock(p, t)
  PROVE  Keeps(p)
<1>. USE DEF HandoverTakesTheLock
<1>1. TypeOK'
  BY DEF leaseVars, IInv, TypeOK
<1>2. Confined(p)
  BY DEF leaseVars, Confined, Untouched
<1>3. TasksInPlace(p)'
  BY DEF IInv, TypeOK, Consistent, TasksInPlace
<1>4. BrowserBookkeeping(p)'
  BY DEF IInv, Consistent, BrowserBookkeeping, InBody, Closing
<1>5. ReferencesOf(p)'
  BY DEF leaseVars, IInv, Consistent, ReferencesOf, InBody, Stranded
<1>6. LockInPlace(p)'
  BY DEF leaseVars, IInv, Consistent, LockInPlace
<1>7. DeadIsBlank(p)'
  BY DEF IInv, Consistent, DeadIsBlank
<1>. QED  BY <1>1, <1>2, <1>3, <1>4, <1>5, <1>6, <1>7 DEF Keeps, Consistent

\* A declined handover leaves it.
LEMMA HandoverDeclinedKeeps ==
  ASSUME NEW p \in Proc, NEW t \in Task, IInv, HandoverDeclined(p, t)
  PROVE  Keeps(p)
<1>. USE DEF HandoverDeclined
<1>1. TypeOK'
  BY DEF leaseVars, IInv, TypeOK
<1>2. Confined(p)
  BY DEF leaseVars, Confined, Untouched
<1>3. TasksInPlace(p)'
  BY DEF IInv, TypeOK, Consistent, TasksInPlace
<1>4. BrowserBookkeeping(p)'
  BY DEF IInv, Consistent, BrowserBookkeeping, InBody, Closing
<1>5. ReferencesOf(p)'
  BY DEF leaseVars, IInv, Consistent, ReferencesOf, InBody, Stranded
<1>6. LockInPlace(p)'
  BY DEF leaseVars, IInv, Consistent, LockInPlace
<1>7. DeadIsBlank(p)'
  BY DEF IInv, Consistent, DeadIsBlank
<1>. QED  BY <1>1, <1>2, <1>3, <1>4, <1>5, <1>6, <1>7 DEF Keeps, Consistent

\* A handover forgets the browser: no call is in its body.
LEMMA HandoverBeginsKeeps ==
  ASSUME NEW p \in Proc, NEW t \in Task, IInv, HandoverBegins(p, t)
  PROVE  Keeps(p)
<1>. USE DEF HandoverBegins
<1>1. TypeOK'
  BY DEF ForgetsTheBrowser, LosesThePage, leaseVars, IInv, TypeOK
<1>2. Confined(p)
  BY DEF ForgetsTheBrowser, LosesThePage, leaseVars, Confined, Untouched
<1>3. TasksInPlace(p)'
  BY DEF IInv, Consistent, TasksInPlace
<1>4. BrowserBookkeeping(p)'
  BY DEF StillIdle, ForgetsTheBrowser, LosesThePage, IInv, TypeOK, Consistent,
     BrowserBookkeeping, InBody
<1>5. ReferencesOf(p)'
  BY DEF StillIdle, leaseVars, IInv, Consistent, ReferencesOf, InBody, Stranded
<1>6. LockInPlace(p)'
  BY DEF leaseVars, IInv, Consistent, LockInPlace
<1>7. DeadIsBlank(p)'
  BY DEF IInv, Consistent, DeadIsBlank
<1>. QED  BY <1>1, <1>2, <1>3, <1>4, <1>5, <1>6, <1>7 DEF Keeps, Consistent

\* A confirmed close drops the browser's reference with Chromium gone.
LEMMA CloseConfirmedKeeps ==
  ASSUME NEW p \in Proc, NEW t \in Task, IInv, CloseConfirmed(p, t)
  PROVE  Keeps(p)
<1>. USE DEF CloseConfirmed
<1>1. PICK s \in Step : pc' = [pc EXCEPT ![p][t] = s]
  BY DEF LeavesTheClose, AfterClose
<1>2. pc' \in [Proc -> [Task -> Step]]
  BY <1>1 DEF IInv, TypeOK
<1>3. refs' \in [Proc -> 0..3] /\ callsInFlight' \in [Proc -> 0..1]
  BY DEF DropReference, IInv, TypeOK
<1>4. TypeOK'
  BY <1>2 DEF LeavesTheClose, DropReference, IInv, TypeOK
<1>5. Confined(p)
  BY NoProcIsNoProcess DEF LeavesTheClose, DropReference, Confined, Untouched,
     IInv, TypeOK, Consistent, LockInPlace
<1>6. TasksInPlace(p)'
  BY SMTT(40) DEF LeavesTheClose, AfterClose, DropReference, IInv, TypeOK, Consistent,
     TasksInPlace, BrowserBookkeeping, InBody, Closing
<1>7. BrowserBookkeeping(p)'
  BY SMTT(40) DEF LeavesTheClose, AfterClose, IInv, TypeOK, Consistent, TasksInPlace,
     BrowserBookkeeping, InBody, Closing
<1>8. ReferencesOf(p)'
  BY DEF LeavesTheClose, AfterClose, DropReference, IInv, TypeOK, Consistent,
     BrowserBookkeeping, ReferencesOf, InBody, Closing, Stranded
<1>9. LockInPlace(p)'
  BY SMTT(40), NoProcIsNoProcess DEF LeavesTheClose, AfterClose, DropReference, IInv,
     TypeOK, Consistent, BrowserBookkeeping, LockInPlace, Closing
<1>10. DeadIsBlank(p)'
  BY DEF LeavesTheClose, IInv, Consistent, DeadIsBlank
<1>. QED  BY <1>4, <1>5, <1>6, <1>7, <1>8, <1>9, <1>10 DEF Keeps, Consistent

\* An unconfirmed close keeps everything.
LEMMA CloseUnconfirmedKeeps ==
  ASSUME NEW p \in Proc, NEW t \in Task, IInv, CloseUnconfirmed(p, t)
  PROVE  Keeps(p)
<1>. USE DEF CloseUnconfirmed
<1>1. PICK s \in Step : pc' = [pc EXCEPT ![p][t] = s]
  BY DEF LeavesTheClose, AfterClose
<1>2. pc' \in [Proc -> [Task -> Step]]
  BY <1>1 DEF IInv, TypeOK
<1>3. TypeOK'
  BY <1>2 DEF LeavesTheClose, AsksToGo, leaseVars, IInv, TypeOK
<1>4. Confined(p)
  BY DEF LeavesTheClose, leaseVars, Confined, Untouched, IInv, TypeOK
<1>5. TasksInPlace(p)'
  BY SMTT(40) DEF LeavesTheClose, AfterClose, AsksToGo, IInv, TypeOK, Consistent,
     TasksInPlace
<1>6. BrowserBookkeeping(p)'
  BY DEF LeavesTheClose, AfterClose, IInv, TypeOK, Consistent, BrowserBookkeeping,
     InBody, Closing
<1>7. ReferencesOf(p)'
  BY DEF LeavesTheClose, AfterClose, leaseVars, IInv, TypeOK, Consistent,
     ReferencesOf, InBody, Stranded
<1>8. LockInPlace(p)'
  BY DEF LeavesTheClose, leaseVars, IInv, Consistent, BrowserBookkeeping,
     LockInPlace, Closing
<1>9. DeadIsBlank(p)'
  BY DEF LeavesTheClose, IInv, Consistent, DeadIsBlank
<1>. QED  BY <1>3, <1>4, <1>5, <1>6, <1>7, <1>8, <1>9 DEF Keeps, Consistent

\* A call that ends drops its own reference, never the browser's.
LEMMA CallFinishesKeeps ==
  ASSUME NEW p \in Proc, IInv, CallFinishes(p)
  PROVE  Keeps(p)
<1>1. /\ pc[p]["call"] \in Waiting
      /\ page' = [page EXCEPT ![p] = "none"]
      /\ worked' = [worked EXCEPT ![p] = TRUE]
      /\ UNCHANGED <<phase, matured, announced, browserOpen, browser, browserLease,
                     lifecycle, mustExit, chromium, guardian>>
  BY DEF CallFinishes, NotesActivity, DropReference
<1>2. PICK s \in {"idle", "wantHandover"} : pc' = [pc EXCEPT ![p]["call"] = s]
  BY DEF CallFinishes
<1>3. refs[p] \in 1..3 /\ callsInFlight[p] = 1
  BY <1>1 DEF IInv, TypeOK, Consistent, BrowserBookkeeping, ReferencesOf, InBody, Stranded
<1>4. /\ refs' = [refs EXCEPT ![p] = refs[p] - 1]
      /\ callsInFlight' = [callsInFlight EXCEPT ![p] = 0]
  <2>1. refs' = [refs EXCEPT ![p] = IF @ > 0 THEN @ - 1 ELSE 0]
    BY DEF CallFinishes, DropReference
  <2>2. callsInFlight' = [callsInFlight EXCEPT ![p] = IF @ > 0 THEN @ - 1 ELSE 0]
    BY DEF CallFinishes, NotesActivity
  <2>3. refs[p] > 0
    BY <1>3
  <2>4. callsInFlight[p] > 0 /\ callsInFlight[p] - 1 = 0
    BY <1>3
  <2>. QED  BY <2>1, <2>2, <2>3, <2>4
<1>5. lock' = IF refs[p] = 1 THEN NoProc ELSE lock
  BY DEF CallFinishes, DropReference
<1>6. TypeOK'
  BY <1>1, <1>2, <1>3, <1>4, <1>5 DEF IInv, TypeOK
<1>7. Confined(p)
  BY <1>1, <1>2, <1>3, <1>4, <1>5, NoProcIsNoProcess
     DEF Confined, Untouched, IInv, TypeOK, Consistent, LockInPlace
<1>8. TasksInPlace(p)'
  BY SMTT(40), <1>1, <1>2 DEF IInv, TypeOK, Consistent, TasksInPlace
<1>9. BrowserBookkeeping(p)'
  BY <1>1, <1>2, <1>3, <1>4
     DEF IInv, TypeOK, Consistent, BrowserBookkeeping, InBody, Closing
<1>10. ReferencesOf(p)'
  BY <1>1, <1>2, <1>3, <1>4
     DEF IInv, TypeOK, Consistent, BrowserBookkeeping, ReferencesOf, InBody, Closing,
         Stranded
<1>11. LockInPlace(p)'
  <2>1. refs'[p] = refs[p] - 1 /\ lock = p
    BY <1>3, <1>4 DEF IInv, TypeOK, Consistent, LockInPlace
  <2>2. refs[p] = 1 => ~browserLease[p] /\ guardian[p] = "none"
    <3>1. refs[p] = 1 => ~browserLease[p]
      BY <1>1 DEF IInv, TypeOK, Consistent, ReferencesOf, InBody, Stranded
    <3>2. guardian[p] = "watching" <=> browserLease[p]
      BY <1>1 DEF IInv, Consistent, LockInPlace
    <3>3. guardian[p] # "draining"
      BY <1>1 DEF IInv, Consistent, LockInPlace, DeadIsBlank
    <3>. QED  BY <3>1, <3>2, <3>3 DEF IInv, TypeOK
  <2>3. pc'[p]["call"] # "launching" /\ pc[p]["call"] # "launching"
    BY <1>1, <1>2 DEF IInv, TypeOK
  <2>. QED  BY <1>1, <1>3, <1>5, <2>1, <2>2, <2>3, NoProcIsNoProcess
               DEF IInv, Consistent, LockInPlace
<1>12. DeadIsBlank(p)'
  BY <1>1, <1>2 DEF IInv, Consistent, DeadIsBlank
<1>. QED  BY <1>6, <1>7, <1>8, <1>9, <1>10, <1>11, <1>12 DEF Keeps, Consistent

\* The poller goes for the lifecycle lock.
LEMMA PollerDecidesKeeps ==
  ASSUME NEW p \in Proc, IInv, PollerDecides(p)
  PROVE  Keeps(p)
<1>. USE DEF PollerDecides
<1>1. TypeOK'
  BY DEF browserVars, leaseVars, IInv, TypeOK
<1>2. Confined(p)
  BY DEF browserVars, leaseVars, Confined, Untouched
<1>3. TasksInPlace(p)'
  BY DEF browserVars, IInv, Consistent, TasksInPlace
<1>4. BrowserBookkeeping(p)'
  BY DEF browserVars, IInv, Consistent, BrowserBookkeeping, InBody, Closing
<1>5. ReferencesOf(p)'
  BY DEF browserVars, leaseVars, IInv, Consistent, ReferencesOf, InBody, Stranded
<1>6. LockInPlace(p)'
  BY DEF browserVars, leaseVars, IInv, Consistent, LockInPlace
<1>7. DeadIsBlank(p)'
  BY DEF DeadIsBlank
<1>. QED  BY <1>1, <1>2, <1>3, <1>4, <1>5, <1>6, <1>7 DEF Keeps, Consistent

\* A cancelled handover only moves its call.
LEMMA HandoverCancelledKeeps ==
  ASSUME NEW p \in Proc, IInv, HandoverCancelled(p)
  PROVE  Keeps(p)
<1>. USE DEF HandoverCancelled
<1>1. TypeOK'
  BY DEF browserVars, leaseVars, IInv, TypeOK
<1>2. Confined(p)
  BY DEF browserVars, leaseVars, Confined, Untouched
<1>3. TasksInPlace(p)'
  BY DEF browserVars, IInv, Consistent, TasksInPlace
<1>4. BrowserBookkeeping(p)'
  BY DEF browserVars, IInv, Consistent, BrowserBookkeeping, InBody, Closing
<1>5. ReferencesOf(p)'
  BY DEF leaseVars, browserVars, IInv, Consistent, ReferencesOf, InBody, Stranded
<1>6. LockInPlace(p)'
  BY DEF browserVars, leaseVars, IInv, Consistent, LockInPlace
<1>7. DeadIsBlank(p)'
  BY DEF IInv, Consistent, DeadIsBlank
<1>. QED  BY <1>1, <1>2, <1>3, <1>4, <1>5, <1>6, <1>7 DEF Keeps, Consistent

\* A new process finds nothing of its own.
LEMMA ProcessStartsKeeps ==
  ASSUME NEW p \in Proc, IInv, ProcessStarts(p)
  PROVE  Keeps(p)
<1>. USE DEF ProcessStarts
<1>1. TypeOK'
  BY DEF browserVars, leaseVars, IInv, TypeOK
<1>2. Confined(p)
  BY DEF browserVars, leaseVars, Confined, Untouched
<1>3. TasksInPlace(p)'
  BY DEF browserVars, IInv, Consistent, TasksInPlace
<1>4. BrowserBookkeeping(p)'
  BY DEF browserVars, IInv, Consistent, BrowserBookkeeping, InBody, Closing
<1>5. ReferencesOf(p)'
  BY DEF browserVars, leaseVars, IInv, Consistent, ReferencesOf, InBody, Stranded
<1>6. LockInPlace(p)'
  BY DEF browserVars, leaseVars, IInv, Consistent, LockInPlace
<1>7. DeadIsBlank(p)'
  BY DEF IInv, TypeOK, DeadIsBlank
<1>. QED  BY <1>1, <1>2, <1>3, <1>4, <1>5, <1>6, <1>7 DEF Keeps, Consistent

\* The lifespan's end takes the poller out of its wait.
LEMMA LifespanEndsKeeps ==
  ASSUME NEW p \in Proc, IInv, LifespanEnds(p)
  PROVE  Keeps(p)
<1>1. /\ phase[p] = "up" /\ phase' = [phase EXCEPT ![p] = "stopping"]
      /\ UNCHANGED <<leaseVars, callsInFlight, page, browserVars>>
  BY DEF LifespanEnds
<1>2. PICK s \in PollSteps : /\ pc' = [pc EXCEPT ![p]["poll"] = s]
                             /\ \/ s = pc[p]["poll"]
                                \/ s = "idle" /\ pc[p]["poll"] = "wantHandover"
  <2>1. CASE pc[p]["poll"] = "wantHandover"
    BY <2>1 DEF LifespanEnds
  <2>2. CASE pc[p]["poll"] # "wantHandover"
    <3>1. pc' = pc /\ pc[p]["poll"] \in PollSteps
      BY <2>2 DEF LifespanEnds, IInv, Consistent, TasksInPlace
    <3>2. pc = [pc EXCEPT ![p]["poll"] = pc[p]["poll"]]
      BY DEF IInv, TypeOK
    <3>. QED  BY <3>1, <3>2
  <2>. QED  BY <2>1, <2>2
<1>3. TypeOK'
  BY <1>1, <1>2 DEF browserVars, leaseVars, IInv, TypeOK
<1>4. Confined(p)
  BY <1>1, <1>2 DEF browserVars, leaseVars, Confined, Untouched, IInv, TypeOK
<1>5. TasksInPlace(p)'
  BY <1>1, <1>2 DEF browserVars, IInv, TypeOK, Consistent, TasksInPlace
<1>6. BrowserBookkeeping(p)'
  BY <1>1, <1>2 DEF browserVars, IInv, TypeOK, Consistent, BrowserBookkeeping, InBody,
                    Closing
<1>7. ReferencesOf(p)'
  BY <1>1, <1>2 DEF browserVars, leaseVars, IInv, TypeOK, Consistent, ReferencesOf,
                    InBody, Stranded
<1>8. LockInPlace(p)'
  BY <1>1, <1>2 DEF browserVars, leaseVars, IInv, TypeOK, Consistent, LockInPlace
<1>9. DeadIsBlank(p)'
  BY <1>1 DEF IInv, TypeOK, DeadIsBlank
<1>. QED  BY <1>3, <1>4, <1>5, <1>6, <1>7, <1>8, <1>9 DEF Keeps, Consistent

\* The shutdown goes for the lifecycle lock.
LEMMA LifespanClosesKeeps ==
  ASSUME NEW p \in Proc, IInv, LifespanCloses(p)
  PROVE  Keeps(p)
<1>. USE DEF LifespanCloses
<1>1. TypeOK'
  BY DEF browserVars, leaseVars, IInv, TypeOK
<1>2. Confined(p)
  BY DEF browserVars, leaseVars, Confined, Untouched
<1>3. TasksInPlace(p)'
  BY DEF browserVars, IInv, Consistent, TasksInPlace
<1>4. BrowserBookkeeping(p)'
  BY DEF browserVars, IInv, Consistent, BrowserBookkeeping, InBody, Closing
<1>5. ReferencesOf(p)'
  BY DEF browserVars, leaseVars, IInv, Consistent, ReferencesOf, InBody, Stranded
<1>6. LockInPlace(p)'
  BY DEF browserVars, leaseVars, IInv, Consistent, LockInPlace
<1>7. DeadIsBlank(p)'
  BY DEF DeadIsBlank
<1>. QED  BY <1>1, <1>2, <1>3, <1>4, <1>5, <1>6, <1>7 DEF Keeps, Consistent

\* Death leaves the lock to the guardian if there is one.
LEMMA ProcessDiesKeeps ==
  ASSUME NEW p \in Proc, IInv, ProcessDies(p)
  PROVE  Keeps(p)
<1>. USE DEF ProcessDies
<1>1. TypeOK'
  BY DEF DescriptorsClose, IInv, TypeOK
<1>2. Confined(p)
  BY NoProcIsNoProcess DEF DescriptorsClose, Confined, Untouched, IInv, TypeOK
<1>3. TasksInPlace(p)'
  BY DEF IInv, TypeOK, TasksInPlace
<1>4. BrowserBookkeeping(p)'
  BY DEF IInv, TypeOK, BrowserBookkeeping, InBody, Closing
<1>5. ReferencesOf(p)'
  BY DEF IInv, TypeOK, ReferencesOf, InBody, Stranded
<1>6. LockInPlace(p)'
  BY NoProcIsNoProcess DEF DescriptorsClose, IInv, TypeOK, Consistent,
     ReferencesOf, LockInPlace, InBody, Stranded
<1>7. DeadIsBlank(p)'
  BY DEF IInv, TypeOK, DeadIsBlank
<1>. QED  BY <1>1, <1>2, <1>3, <1>4, <1>5, <1>6, <1>7 DEF Keeps, Consistent

\* A Chromium that ends takes nothing with it.
LEMMA ChromiumEndsKeeps ==
  ASSUME NEW p \in Proc, IInv, ChromiumEnds(p)
  PROVE  Keeps(p)
<1>. USE DEF ChromiumEnds
<1>1. TypeOK'
  BY DEF leaseVars, IInv, TypeOK
<1>2. Confined(p)
  BY DEF leaseVars, Confined, Untouched
<1>3. TasksInPlace(p)'
  BY DEF IInv, Consistent, TasksInPlace
<1>4. BrowserBookkeeping(p)'
  BY DEF IInv, Consistent, BrowserBookkeeping, InBody, Closing
<1>5. ReferencesOf(p)'
  BY DEF leaseVars, IInv, Consistent, ReferencesOf, InBody, Stranded
<1>6. LockInPlace(p)'
  BY DEF leaseVars, IInv, Consistent, LockInPlace
<1>7. DeadIsBlank(p)'
  BY DEF leaseVars, IInv, Consistent, DeadIsBlank
<1>. QED  BY <1>1, <1>2, <1>3, <1>4, <1>5, <1>6, <1>7 DEF Keeps, Consistent

\* The guardian's copy of the descriptor closes with Chromium gone.
LEMMA GuardianExitsKeeps ==
  ASSUME NEW p \in Proc, IInv, GuardianExits(p)
  PROVE  Keeps(p)
<1>. USE DEF GuardianExits
<1>1. TypeOK'
  BY DEF IInv, TypeOK
<1>2. Confined(p)
  BY NoProcIsNoProcess DEF Confined, Untouched
<1>3. TasksInPlace(p)'
  BY DEF IInv, Consistent, TasksInPlace
<1>4. BrowserBookkeeping(p)'
  BY DEF IInv, Consistent, BrowserBookkeeping, InBody, Closing
<1>5. ReferencesOf(p)'
  BY DEF IInv, Consistent, ReferencesOf, InBody, Stranded
<1>6. LockInPlace(p)'
  BY NoProcIsNoProcess DEF IInv, TypeOK, Consistent, LockInPlace, DeadIsBlank
<1>7. DeadIsBlank(p)'
  BY DEF IInv, Consistent, DeadIsBlank
<1>. QED  BY <1>1, <1>2, <1>3, <1>4, <1>5, <1>6, <1>7 DEF Keeps, Consistent

\* A call that has not begun does so in a live process.
LEMMA BeginsInALiveProcess ==
  ASSUME NEW p \in Proc, IInv, BodyBegins(p),
         \/ CallArrives(p)
         \/ StartsWaiting(p)
         \/ PollsTheLease(p)
  PROVE  Keeps(p)
<1>1. phase[p] # "off" /\ pc[p]["call"] \in {"idle", "busy", "waiting"}
  BY DEF CallArrives, StartsWaiting, PollsTheLease, IInv, Consistent, DeadIsBlank
<1>. QED  BY <1>1, BodyBeginsKeeps

\* Every step of a process keeps it consistent and leaves the others alone.
LEMMA EveryStepKeeps ==
  ASSUME NEW p \in Proc, IInv,
         CallStep(p) \/ ProcessStep(p) \/ \E t \in Task : CloseStep(p, t)
  PROVE  Keeps(p)
<1>1. CASE CallStep(p)
  <2>1. CASE CallArrives(p)
    BY <2>1, BeginsInALiveProcess, CallArrivesKeeps
  <2>2. CASE StartsWaiting(p)
    BY <2>2, BeginsInALiveProcess, StartsWaitingKeeps
  <2>3. CASE PollsTheLease(p)
    BY <2>3, BeginsInALiveProcess DEF PollsTheLease
  <2>4. CASE GivesUp(p) \/ GetsTheBrowser(p) \/ WantsABrowser(p)
    BY <2>4, GivesUpKeeps, GetsTheBrowserKeeps, WantsABrowserKeeps
  <2>5. CASE LaunchRefused(p) \/ LaunchBegins(p) \/ LaunchSucceeds(p)
    BY <2>5, LaunchRefusedKeeps, LaunchBeginsKeeps, LaunchSucceedsKeeps
  <2>6. CASE LaunchFails(p) \/ LaunchUnconfirmed(p)
    BY <2>6, LaunchFailsKeeps, LaunchUnconfirmedKeeps
  <2>7. CASE CallAsksForAClose(p) \/ CallFindsItDead(p) \/ RetireFindsAnother(p)
    BY <2>7, CallAsksForACloseKeeps, CallFindsItDeadKeeps, RetireFindsAnotherKeeps
  <2>8. CASE CallFinishes(p) \/ HandoverCancelled(p)
    BY <2>8, CallFinishesKeeps, HandoverCancelledKeeps
  <2>. QED  BY <1>1, <2>1, <2>2, <2>3, <2>4, <2>5, <2>6, <2>7, <2>8 DEF CallStep
<1>2. CASE ProcessStep(p)
  <2>1. CASE PollerDecides(p) \/ HoldMatures(p)
    BY <2>1, PollerDecidesKeeps, HoldMaturesKeeps
  <2>2. CASE ProcessStarts(p) \/ LifespanEnds(p) \/ LifespanCloses(p) \/ ProcessDies(p)
    BY <2>2, ProcessStartsKeeps, LifespanEndsKeeps, LifespanClosesKeeps, ProcessDiesKeeps
  <2>3. CASE ChromiumStarts(p) \/ ChromiumEnds(p) \/ GuardianKills(p) \/ GuardianExits(p)
    BY <2>3, ChromiumStartsKeeps, ChromiumEndsKeeps, GuardianExitsKeeps DEF GuardianKills
  <2>. QED  BY <1>2, <2>1, <2>2, <2>3 DEF ProcessStep
<1>3. ASSUME NEW t \in Task, CloseStep(p, t)
      PROVE  Keeps(p)
  BY <1>3, CloseBeginsKeeps, CloseFindsNothingKeeps, HandoverTakesTheLockKeeps,
     HandoverDeclinedKeeps, HandoverBeginsKeeps, CloseConfirmedKeeps, CloseUnconfirmedKeeps
     DEF CloseStep
<1>. QED  BY <1>1, <1>2, <1>3

\* A step of the whole system is one process's, or leaves every process alone.
LEMMA StepIsOneProcess ==
  ASSUME IInv, Next
  PROVE  \E p \in Proc : Keeps(p) /\ (\/ CallStep(p) \/ ProcessStep(p)
                                      \/ \E t \in Task : CloseStep(p, t))
BY EveryStepKeeps DEF Next

\* The strengthened invariant is inductive.
LEMMA InvariantIsInductive == IInv /\ [Next]_vars => IInv'
<1>. SUFFICES ASSUME IInv, [Next]_vars  PROVE IInv'
  OBVIOUS
<1>1. CASE Next
  <2>1. PICK p \in Proc : Keeps(p)
    BY <1>1, StepIsOneProcess
  <2>2. ASSUME NEW q \in Proc \ {p}  PROVE Consistent(q)'
    BY <2>1, UntouchedStaysConsistent DEF Keeps, Confined, IInv
  <2>. QED  BY <2>1, <2>2 DEF Keeps, IInv
<1>2. CASE UNCHANGED vars
  <2>1. TypeOK'
    BY <1>2 DEF vars, IInv, TypeOK
  <2>2. ASSUME NEW q \in Proc  PROVE Consistent(q)'
    <3>1. Untouched(q)
      BY <1>2 DEF vars, Untouched
    <3>. QED  BY <3>1, UntouchedStaysConsistent DEF IInv
  <2>. QED  BY <2>1, <2>2 DEF IInv
<1>. QED  BY <1>1, <1>2

\* In every state the program can reach, the lease, the browser's bookkeeping, the
\* lifecycle lock and the kernel lock agree with each other.
THEOREM ConsistentAlways == Spec => []IInv
BY InitConsistent, InvariantIsInductive, PTL DEF Spec

\* Every variable keeps its type; in particular no process ever holds more than
\* three references to its lease, and no call is counted twice.
THEOREM TypeCorrect == Spec => []TypeOK
<1>1. IInv => TypeOK
  BY DEF IInv
<1>. QED  BY <1>1, ConsistentAlways, PTL

\* Whoever launched a Chromium that still runs has the kernel lock, dead or alive.
ChromiumUnderTheLock == \A p \in Proc : chromium[p] => lock = p

\* The copy of the descriptor is the process's own or, after its death, its guardian's.
LEMMA SomeCopyHolds == IInv => ChromiumUnderTheLock
<1>. SUFFICES ASSUME IInv, NEW p \in Proc, chromium[p]
              PROVE  lock = p
  BY DEF ChromiumUnderTheLock
<1>1. guardian[p] \in {"watching", "draining"} /\ LockInPlace(p) /\ ReferencesOf(p)
  BY DEF IInv, TypeOK, Consistent, LockInPlace
<1>2. CASE guardian[p] = "draining"
  BY <1>1, <1>2 DEF LockInPlace
<1>3. CASE guardian[p] = "watching"
  <2>1. browserLease[p] \/ pc[p]["call"] = "launching"
    BY <1>1, <1>3 DEF LockInPlace
  <2>2. refs[p] > 0
    BY <1>1, <2>1 DEF ReferencesOf, InBody, IInv, TypeOK
  <2>. QED  BY <1>1, <2>2 DEF LockInPlace
<1>. QED  BY <1>1, <1>2, <1>3

\* Two Chromiums are never on the profile at once.
THEOREM OneChromiumAlways == Spec => []OneChromium
<1>1. IInv => OneChromium
  BY SomeCopyHolds DEF OneChromium, ChromiumUnderTheLock
<1>. QED  BY <1>1, ConsistentAlways, PTL

\* The references of a process's lease are those of its running call, of its launch
\* or browser, and of a close it could not confirm.
THEOREM ReferencesAddUpAlways == Spec => []ReferencesAddUp
<1>1. IInv => ReferencesAddUp
  BY DEF IInv, Consistent, ReferencesAddUp
<1>. QED  BY <1>1, ConsistentAlways, PTL

\* The shared browser implements the lease's promise.
THEOREM ImplementsTheLease == Spec => LeasePromise
<1>1. Init => Profile!Init
  BY DEF Init, Profile!Init
<1>2. /\ IInv /\ ChromiumUnderTheLock /\ ChromiumUnderTheLock' /\ TypeOK'
      /\ [Next]_vars
      => [Profile!Next]_(Profile!profileVars)
  <2>. SUFFICES ASSUME IInv, ChromiumUnderTheLock, ChromiumUnderTheLock', TypeOK',
                       [Next]_vars, ~UNCHANGED Profile!profileVars
                PROVE  Profile!Next
    OBVIOUS
  <2>1. Next
    BY DEF vars, Profile!profileVars
  <2>2. PICK p \in Proc : Confined(p)
    BY <2>1, StepIsOneProcess DEF Keeps
  <2>3. \A q \in Proc \ {p} : (chromium'[q] <=> chromium[q]) /\ (lock' = q <=> lock = q)
    BY <2>2 DEF Confined, Untouched
  <2>4. (chromium[p] => lock = p) /\ (chromium'[p] => lock' = p)
    BY DEF ChromiumUnderTheLock
  <2>5. chromium'[p] => chromium[p] \/ lock = p
    BY <2>2 DEF Confined
  <2>6. lock \in Proc \cup {NoProc} /\ lock' \in Proc \cup {NoProc}
    BY DEF IInv, TypeOK
  <2>7. CASE lock' = lock /\ chromium'[p]
    BY <2>3, <2>5, <2>7 DEF Profile!Next, Profile!Launch, Profile!profileVars
  <2>8. CASE lock' = lock /\ ~chromium'[p]
    BY <2>3, <2>8 DEF Profile!Next, Profile!Ends
  <2>9. CASE lock' # lock
    BY <2>3, <2>4, <2>5, <2>6, <2>9 DEF Profile!Next, Profile!Acquire, Profile!Release
  <2>. QED  BY <2>7, <2>8, <2>9
<1>3. Spec => []ChromiumUnderTheLock
  BY SomeCopyHolds, ConsistentAlways, PTL
<1>. QED  BY <1>1, <1>2, <1>3, ConsistentAlways, TypeCorrect, PTL
          DEF Spec, LeasePromise, Profile!Spec

\* No step of a process un-strands it, short of its death: only a close in progress
\* gives the reference of a browser back, and only a launch sets a browser.
LEMMA NothingUnstrands ==
  ASSUME NEW p \in Proc, IInv, Stranded(p),
         CallStep(p) \/ ProcessStep(p) \/ \E t \in Task : CloseStep(p, t)
  PROVE  Stranded(p)' \/ phase'[p] = "off"
<1>. USE DEF Stranded
<1>1. CASE CallStep(p)
  <2>1. ASSUME CallArrives(p) \/ StartsWaiting(p) \/ PollsTheLease(p) \/ GivesUp(p)
        PROVE  Stranded(p)'
    BY <2>1
       DEF CallArrives, StartsWaiting, PollsTheLease, GivesUp, BodyBegins, browserVars,
           IInv, TypeOK
  <2>2. ASSUME GetsTheBrowser(p) \/ WantsABrowser(p) \/ LaunchRefused(p) \/ LaunchBegins(p)
        PROVE  Stranded(p)'
    BY <2>2
       DEF GetsTheBrowser, WantsABrowser, LaunchRefused, LaunchBegins, browserVars, IInv,
           TypeOK
  <2>3. ~LaunchSucceeds(p) /\ ~LaunchFails(p) /\ ~LaunchUnconfirmed(p)
    BY DEF LaunchSucceeds, LaunchFails, LaunchUnconfirmed, IInv, Consistent,
           BrowserBookkeeping
  <2>4. ASSUME CallAsksForAClose(p) \/ CallFindsItDead(p) \/ RetireFindsAnother(p)
        PROVE  Stranded(p)'
    BY <2>4
       DEF CallAsksForAClose, CallFindsItDead, RetireFindsAnother, browserVars, IInv,
           TypeOK
  <2>5. ASSUME CallFinishes(p) \/ HandoverCancelled(p)
        PROVE  Stranded(p)'
    <3>1. PICK s \in {"idle", "wantHandover"} : pc' = [pc EXCEPT ![p]["call"] = s]
      BY <2>5 DEF CallFinishes, HandoverCancelled
    <3>2. UNCHANGED <<browser, browserLease>>
      BY <2>5 DEF CallFinishes, HandoverCancelled, browserVars
    <3>. QED  BY <3>1, <3>2 DEF IInv, TypeOK
  <2>. QED  BY <1>1, <2>1, <2>2, <2>3, <2>4, <2>5 DEF CallStep
<1>2. CASE ProcessStep(p)
  <2>1. ASSUME PollerDecides(p) \/ HoldMatures(p) \/ LifespanCloses(p)
        PROVE  Stranded(p)'
    BY <2>1 DEF PollerDecides, HoldMatures, LifespanCloses, browserVars, IInv, TypeOK
  <2>2. ASSUME ProcessStarts(p) \/ LifespanEnds(p)
        PROVE  Stranded(p)'
    BY <2>2 DEF ProcessStarts, LifespanEnds, browserVars, IInv, TypeOK
  <2>3. ASSUME ProcessDies(p)
        PROVE  phase'[p] = "off"
    BY <2>3 DEF ProcessDies, IInv, TypeOK
  <2>4. ASSUME ChromiumStarts(p) \/ ChromiumEnds(p) \/ GuardianKills(p) \/ GuardianExits(p)
        PROVE  Stranded(p)'
    BY <2>4 DEF ChromiumStarts, ChromiumEnds, GuardianKills, GuardianExits, IInv, TypeOK
  <2>. QED  BY <1>2, <2>1, <2>2, <2>3, <2>4 DEF ProcessStep
<1>3. ASSUME NEW t \in Task, CloseStep(p, t)
      PROVE  Stranded(p)'
  <2>1. ~CloseBegins(p, t) /\ ~HandoverBegins(p, t)
    BY DEF CloseBegins, HandoverBegins, StillIdle
  <2>2. ~CloseConfirmed(p, t) /\ ~CloseUnconfirmed(p, t)
    BY DEF CloseConfirmed, CloseUnconfirmed, LeavesTheClose
  <2>3. ASSUME CloseFindsNothing(p, t)
        PROVE  Stranded(p)'
    BY <2>3 DEF CloseFindsNothing, ForgetsTheBrowser, AfterClose, IInv, TypeOK
  <2>4. ASSUME HandoverTakesTheLock(p, t) \/ HandoverDeclined(p, t)
        PROVE  Stranded(p)'
    BY <2>4 DEF HandoverTakesTheLock, HandoverDeclined, IInv, TypeOK
  <2>. QED  BY <1>3, <2>1, <2>2, <2>3, <2>4 DEF CloseStep
<1>. QED  BY <1>1, <1>2, <1>3

\* A step strands a process for good, until it dies, and keeps its profile unlaunched.
LEMMA StrandedHolds ==
  ASSUME IInv, IInv', Next, NEW q \in Proc, Stranded(q), phase'[q] # "off"
  PROVE  Stranded(q)' /\ lock' = q /\ pc'[q]["call"] # "launching"
<1>1. PICK p \in Proc : /\ Keeps(p)
                        /\ \/ CallStep(p) \/ ProcessStep(p)
                           \/ \E t \in Task : CloseStep(p, t)
  BY StepIsOneProcess
<1>2. Stranded(q)'
  <2>1. CASE q = p
    BY <1>1, <2>1, NothingUnstrands
  <2>2. CASE q # p
    BY <1>1, <2>2 DEF Keeps, Confined, Untouched, Stranded
  <2>. QED  BY <2>1, <2>2
<1>3. ReferencesOf(q)' /\ LockInPlace(q)' /\ BrowserBookkeeping(q)' /\ refs'[q] \in 0..3
  BY DEF IInv, TypeOK, Consistent
<1>4. refs'[q] > 0
  BY <1>2, <1>3 DEF ReferencesOf
<1>. QED  BY <1>2, <1>3, <1>4 DEF LockInPlace, BrowserBookkeeping, Stranded

\* A stranded profile stays held, and unlaunched, until its process is dead.
THEOREM StrandedStays == Spec => StrandedUntilDeath
<1>1. IInv /\ IInv' /\ [Next]_vars
        => [\A p \in Proc :
              Stranded(p) => \/ phase'[p] = "off"
                             \/ Stranded(p)' /\ lock' = p /\ pc'[p]["call"] # "launching"
           ]_vars
  BY StrandedHolds
<1>. QED  BY <1>1, ConsistentAlways, PTL DEF Spec, StrandedUntilDeath

\* No step of a process takes the page from its running call, except the beginning of
\* a close that the call or the shutdown asked for.
LEMMA OnlyACloseTakesThePage ==
  ASSUME NEW p \in Proc, IInv, page[p] = "live", page'[p] = "gone",
         CallStep(p) \/ ProcessStep(p) \/ \E t \in Task : CloseStep(p, t)
  PROVE  \E t \in Task : pc[p][t] \in {"wantClose", "wantRetire"} /\ pc'[p][t] = "closing"
<1>1. browser[p] /\ InBody(p) /\ pc[p]["call"] # "launching" /\ callsInFlight[p] = 1
  BY DEF IInv, Consistent, BrowserBookkeeping
<1>2. ~CallStep(p)
  <2>1. ~CallArrives(p) /\ ~StartsWaiting(p) /\ ~PollsTheLease(p) /\ ~GivesUp(p)
    BY <1>1 DEF CallArrives, StartsWaiting, PollsTheLease, GivesUp, InBody
  <2>2. ~GetsTheBrowser(p) /\ ~WantsABrowser(p) /\ ~LaunchRefused(p) /\ ~LaunchBegins(p)
    BY <1>1 DEF GetsTheBrowser, WantsABrowser, LaunchRefused, LaunchBegins
  <2>3. ~LaunchSucceeds(p) /\ ~LaunchFails(p) /\ ~LaunchUnconfirmed(p)
    BY <1>1 DEF LaunchSucceeds, LaunchFails, LaunchUnconfirmed
  <2>4. ~CallAsksForAClose(p) /\ ~CallFindsItDead(p) /\ ~RetireFindsAnother(p)
    BY DEF CallAsksForAClose, CallFindsItDead, RetireFindsAnother
  <2>5. ~CallFinishes(p) /\ ~HandoverCancelled(p)
    BY DEF CallFinishes, HandoverCancelled, IInv, TypeOK
  <2>. QED  BY <2>1, <2>2, <2>3, <2>4, <2>5 DEF CallStep
<1>3. ~ProcessStep(p)
  <2>1. ~PollerDecides(p) /\ ~HoldMatures(p) /\ ~LifespanEnds(p) /\ ~LifespanCloses(p)
    BY DEF PollerDecides, HoldMatures, LifespanEnds, LifespanCloses
  <2>2. ~ProcessStarts(p) /\ ~ProcessDies(p)
    BY DEF ProcessStarts, ProcessDies, IInv, TypeOK
  <2>3. ~ChromiumStarts(p) /\ ~ChromiumEnds(p) /\ ~GuardianKills(p) /\ ~GuardianExits(p)
    BY DEF ChromiumStarts, ChromiumEnds, GuardianKills, GuardianExits
  <2>. QED  BY <2>1, <2>2, <2>3 DEF ProcessStep
<1>4. ASSUME NEW t \in Task, CloseStep(p, t)
      PROVE  CloseBegins(p, t)
  <2>1. ~CloseFindsNothing(p, t) /\ ~HandoverBegins(p, t)
    BY <1>1 DEF CloseFindsNothing, HandoverBegins, StillIdle
  <2>2. ~HandoverTakesTheLock(p, t) /\ ~HandoverDeclined(p, t)
    BY DEF HandoverTakesTheLock, HandoverDeclined
  <2>3. ~CloseConfirmed(p, t) /\ ~CloseUnconfirmed(p, t)
    BY DEF CloseConfirmed, CloseUnconfirmed
  <2>. QED  BY <1>4, <2>1, <2>2, <2>3 DEF CloseStep
<1>5. PICK t \in Task : CloseBegins(p, t)
  BY <1>2, <1>3, <1>4
<1>. QED  BY <1>5 DEF CloseBegins, IInv, TypeOK

\* The handover never takes the browser from a call that is using it.
THEOREM HandoverIsHarmless == Spec => HandoverSparesRunningCalls
<1>1. ASSUME IInv, Next, NEW q \in Proc, page[q] = "live", page'[q] = "gone"
      PROVE  \E t \in Task :
               pc[q][t] \in {"wantClose", "wantRetire"} /\ pc'[q][t] = "closing"
  <2>1. PICK p \in Proc : /\ Keeps(p)
                          /\ \/ CallStep(p) \/ ProcessStep(p)
                             \/ \E t \in Task : CloseStep(p, t)
    BY <1>1, StepIsOneProcess
  <2>2. q = p
    BY <1>1, <2>1 DEF Keeps, Confined, Untouched
  <2>. QED  BY <1>1, <2>1, <2>2, OnlyACloseTakesThePage
<1>2. IInv /\ [Next]_vars
        => [\A p \in Proc :
              page[p] = "live" /\ page'[p] = "gone" =>
                \E t \in Task :
                  pc[p][t] \in {"wantClose", "wantRetire"} /\ pc'[p][t] = "closing"
           ]_vars
  BY <1>1
<1>. QED  BY <1>2, ConsistentAlways, PTL DEF Spec, HandoverSparesRunningCalls

(***************************************************************************)
(* The profile of a dead process                                           *)
(***************************************************************************)

\* What a process left, as long as it is dead and the profile still its own.
Left(p) == phase[p] = "off" /\ lock = p

\* A dead process has no task that could go on, and only its guardian and its Chromium
\* still take steps.
LEMMA OnlyTheGuardianIsLeft ==
  ASSUME NEW p \in Proc, IInv, Left(p)
  PROVE  /\ guardian[p] = "draining"
         /\ ~CallStep(p) /\ ~ \E t \in Task : CloseStep(p, t)
         /\ ProcessStep(p) => ChromiumEnds(p) \/ GuardianExits(p)
<1>1. /\ guardian[p] = "draining"
      /\ \A t \in Task : At(p, t, "idle")
      /\ ~browserLease[p] /\ ~browser[p] /\ refs[p] = 0
  BY DEF Left, IInv, Consistent, LockInPlace, DeadIsBlank
<1>2. ~CallStep(p)
  <2>1. ~CallArrives(p) /\ ~StartsWaiting(p) /\ ~PollsTheLease(p) /\ ~GivesUp(p)
    BY <1>1 DEF CallArrives, StartsWaiting, PollsTheLease, GivesUp, Left
  <2>2. ~GetsTheBrowser(p) /\ ~WantsABrowser(p) /\ ~LaunchRefused(p) /\ ~LaunchBegins(p)
    BY <1>1 DEF GetsTheBrowser, WantsABrowser, LaunchRefused, LaunchBegins
  <2>3. ~LaunchSucceeds(p) /\ ~LaunchFails(p) /\ ~LaunchUnconfirmed(p)
    BY <1>1 DEF LaunchSucceeds, LaunchFails, LaunchUnconfirmed
  <2>4. ~CallAsksForAClose(p) /\ ~CallFindsItDead(p) /\ ~RetireFindsAnother(p)
    BY <1>1 DEF CallAsksForAClose, CallFindsItDead, RetireFindsAnother, InBody
  <2>5. ~CallFinishes(p) /\ ~HandoverCancelled(p)
    BY <1>1 DEF CallFinishes, HandoverCancelled, InBody
  <2>. QED  BY <2>1, <2>2, <2>3, <2>4, <2>5 DEF CallStep
<1>3. ASSUME NEW t \in Task PROVE ~CloseStep(p, t)
  <2>1. ~CloseBegins(p, t) /\ ~CloseFindsNothing(p, t) /\ ~HandoverTakesTheLock(p, t)
    BY <1>1 DEF CloseBegins, CloseFindsNothing, HandoverTakesTheLock
  <2>2. ~HandoverDeclined(p, t) /\ ~HandoverBegins(p, t)
    BY <1>1 DEF HandoverDeclined, HandoverBegins
  <2>3. ~CloseConfirmed(p, t) /\ ~CloseUnconfirmed(p, t)
    BY <1>1 DEF CloseConfirmed, CloseUnconfirmed, LeavesTheClose
  <2>. QED  BY <2>1, <2>2, <2>3 DEF CloseStep
<1>4. ProcessStep(p) => ChromiumEnds(p) \/ GuardianExits(p)
  <2>1. ~PollerDecides(p) /\ ~HoldMatures(p)
    BY <1>1 DEF PollerDecides, HoldMatures, Left
  <2>2. ~ProcessStarts(p) /\ ~LifespanEnds(p) /\ ~LifespanCloses(p) /\ ~ProcessDies(p)
    BY <1>1 DEF ProcessStarts, LifespanEnds, LifespanCloses, ProcessDies, Left
  <2>3. ~ChromiumStarts(p)
    BY <1>1 DEF ChromiumStarts
  <2>. QED  BY <2>1, <2>2, <2>3 DEF ProcessStep, GuardianKills
<1>. QED  BY <1>1, <1>2, <1>3, <1>4

\* What a dead process left stays, and only dwindles, until the profile is free.
LEMMA WhatIsLeftDwindles ==
  ASSUME NEW p \in Proc, IInv, [Next]_vars, Left(p)
  PROVE  \/ lock' # p
         \/ Left(p)' /\ (chromium'[p] => chromium[p])
<1>1. CASE UNCHANGED vars
  BY <1>1 DEF vars, Left
<1>2. CASE Next
  <2>1. PICK q \in Proc : /\ Keeps(q)
                          /\ \/ CallStep(q) \/ ProcessStep(q)
                             \/ \E t \in Task : CloseStep(q, t)
    BY <1>2, StepIsOneProcess
  <2>2. CASE q # p
    BY <2>1, <2>2 DEF Keeps, Confined, Untouched, Left
  <2>3. CASE q = p
    <3>1. ChromiumEnds(p) \/ GuardianExits(p)
      BY <2>1, <2>3, OnlyTheGuardianIsLeft
    <3>. QED  BY <3>1 DEF ChromiumEnds, GuardianExits, leaseVars, Left, IInv, TypeOK
  <2>. QED  BY <2>2, <2>3
<1>. QED  BY <1>1, <1>2

\* A guardian that drains first kills what its process left and then lets go.
LEMMA GuardianGetsOn ==
  ASSUME NEW p \in Proc, IInv, Left(p), LastSteps(p)
  PROVE  IF chromium[p] THEN ~chromium'[p] ELSE lock' # p
<1>1. GuardianKills(p) \/ GuardianExits(p)
  BY DEF LastSteps, ProcessDies, Left
<1>2. CASE GuardianKills(p)
  BY <1>2 DEF GuardianKills, ChromiumEnds, IInv, TypeOK
<1>3. CASE GuardianExits(p)
  BY <1>3, NoProcIsNoProcess DEF GuardianExits, Left
<1>. QED  BY <1>1, <1>2, <1>3

\* The last steps of a process that has to go, and of its guardian, are open to them.
\* A reader sees that, and TLC; the provers know nothing of ENABLED.
LastStepsAreOpen ==
  \A p \in Proc : guardian[p] = "draining" \/ (MustDie(p) /\ phase[p] # "off")
                    => ENABLED <<LastSteps(p)>>_vars

\* A dead process does not keep the profile, although its Chromium outlived it: its
\* guardian, which does not stop, kills the one and then closes the other.
THEOREM TheDeadLetGo == LiveSpec /\ []LastStepsAreOpen => DeathFreesTheProfile
<1>1. ASSUME NEW p \in Proc
      PROVE  LiveSpec /\ []LastStepsAreOpen => (phase[p] = "off" ~> lock # p)
  <2>1. IInv /\ [Next]_vars /\ Left(p) => (lock # p)' \/ Left(p)'
    BY WhatIsLeftDwindles
  <2>2. IInv /\ [Next]_vars /\ Left(p) /\ ~chromium[p]
          => (lock # p)' \/ (Left(p)' /\ (~chromium[p])')
    BY WhatIsLeftDwindles
  <2>3. IInv /\ <<Next /\ LastSteps(p)>>_vars /\ Left(p) /\ chromium[p]
          => (~chromium[p])'
    BY GuardianGetsOn
  <2>4. IInv /\ <<Next /\ LastSteps(p)>>_vars /\ Left(p) /\ ~chromium[p]
          => (lock # p)'
    BY GuardianGetsOn
  <2>5. IInv /\ LastStepsAreOpen /\ Left(p) => ENABLED <<LastSteps(p)>>_vars
    BY OnlyTheGuardianIsLeft DEF LastStepsAreOpen
  <2>6. Fairness => FairTo(p)
    BY DEF Fairness
  <2>7. phase[p] = "off" => Left(p) \/ lock # p
    BY DEF Left
  <2>. QED  BY <2>1, <2>2, <2>3, <2>4, <2>5, <2>6, <2>7, ConsistentAlways, PTL
            DEF LiveSpec, Spec, FairTo, FairToProcess
<1>. QED  BY <1>1 DEF DeathFreesTheProfile

(***************************************************************************)
(* The profile of a stranded owner                                         *)
(***************************************************************************)

\* An owner that cannot prove its browser gone has been asked to exit.
StrandedOwnersMustGo == \A p \in Owners : Stranded(p) => mustExit[p]

\* Only its own death takes back that a process has been asked to exit.
LEMMA AskedUntilDeath ==
  ASSUME NEW p \in Proc, NEW q \in Proc, IInv, mustExit[q],
         CallStep(p) \/ ProcessStep(p) \/ \E t \in Task : CloseStep(p, t)
  PROVE  mustExit'[q] \/ (q = p /\ phase'[q] = "off")
<1>. USE DEF IInv, TypeOK
<1>1. CASE CallStep(p)
  <2>1. CASE CallArrives(p) \/ StartsWaiting(p) \/ PollsTheLease(p) \/ GivesUp(p)
    BY <2>1 DEF CallArrives, StartsWaiting, PollsTheLease, GivesUp, BodyBegins, browserVars
  <2>2. CASE GetsTheBrowser(p) \/ WantsABrowser(p) \/ LaunchRefused(p) \/ LaunchBegins(p)
    BY <2>2 DEF GetsTheBrowser, WantsABrowser, LaunchRefused, LaunchBegins, browserVars
  <2>3. CASE LaunchSucceeds(p) \/ LaunchFails(p) \/ LaunchUnconfirmed(p)
    BY <2>3 DEF LaunchSucceeds, LaunchFails, LaunchUnconfirmed, AsksToGo
  <2>4. CASE CallAsksForAClose(p) \/ CallFindsItDead(p) \/ RetireFindsAnother(p)
    BY <2>4 DEF CallAsksForAClose, CallFindsItDead, RetireFindsAnother, browserVars
  <2>5. CASE CallFinishes(p) \/ HandoverCancelled(p)
    BY <2>5 DEF CallFinishes, HandoverCancelled, browserVars
  <2>. QED  BY <1>1, <2>1, <2>2, <2>3, <2>4, <2>5 DEF CallStep
<1>2. CASE ProcessStep(p)
  <2>1. CASE PollerDecides(p) \/ HoldMatures(p) \/ LifespanCloses(p)
    BY <2>1 DEF PollerDecides, HoldMatures, LifespanCloses, browserVars
  <2>2. CASE ProcessStarts(p) \/ LifespanEnds(p)
    BY <2>2 DEF ProcessStarts, LifespanEnds, browserVars
  <2>3. CASE ProcessDies(p)
    BY <2>3 DEF ProcessDies
  <2>4. CASE ChromiumStarts(p) \/ ChromiumEnds(p) \/ GuardianKills(p) \/ GuardianExits(p)
    BY <2>4 DEF ChromiumStarts, ChromiumEnds, GuardianKills, GuardianExits
  <2>. QED  BY <1>2, <2>1, <2>2, <2>3, <2>4 DEF ProcessStep
<1>3. ASSUME NEW t \in Task, CloseStep(p, t)
      PROVE  mustExit'[q] \/ (q = p /\ phase'[q] = "off")
  <2>1. CASE CloseBegins(p, t) \/ CloseFindsNothing(p, t) \/ HandoverTakesTheLock(p, t)
    BY <2>1 DEF CloseBegins, CloseFindsNothing, HandoverTakesTheLock
  <2>2. CASE HandoverDeclined(p, t) \/ HandoverBegins(p, t)
    BY <2>2 DEF HandoverDeclined, HandoverBegins
  <2>3. CASE CloseConfirmed(p, t) \/ CloseUnconfirmed(p, t)
    BY <2>3 DEF CloseConfirmed, CloseUnconfirmed, AsksToGo
  <2>. QED  BY <1>3, <2>1, <2>2, <2>3 DEF CloseStep
<1>. QED  BY <1>1, <1>2, <1>3

\* A process is stranded only by a close or a launch that proves nothing.
LEMMA OnlyTheUnprovenStrands ==
  ASSUME NEW p \in Proc, IInv, ~Stranded(p), Stranded(p)',
         CallStep(p) \/ ProcessStep(p) \/ \E t \in Task : CloseStep(p, t)
  PROVE  AsksToGo(p) /\ browserOpen'[p]
<1>. USE DEF IInv, TypeOK, Stranded
<1>1. CASE CallStep(p)
  <2>1. ~(CallArrives(p) \/ StartsWaiting(p) \/ PollsTheLease(p) \/ GivesUp(p))
    BY DEF CallArrives, StartsWaiting, PollsTheLease, GivesUp, BodyBegins, browserVars
  <2>2. ~(GetsTheBrowser(p) \/ WantsABrowser(p) \/ LaunchRefused(p) \/ LaunchBegins(p))
    BY DEF GetsTheBrowser, WantsABrowser, LaunchRefused, LaunchBegins, browserVars
  <2>3. ~LaunchSucceeds(p) /\ ~LaunchFails(p)
    BY DEF LaunchSucceeds, LaunchFails, Consistent, BrowserBookkeeping
  <2>4. ~(CallAsksForAClose(p) \/ CallFindsItDead(p) \/ RetireFindsAnother(p))
    BY DEF CallAsksForAClose, CallFindsItDead, RetireFindsAnother, browserVars
  <2>5. ~(CallFinishes(p) \/ HandoverCancelled(p))
    <3>1. SUFFICES ASSUME CallFinishes(p) \/ HandoverCancelled(p) PROVE FALSE
      OBVIOUS
    <3>2. PICK s \in {"idle", "wantHandover"} : pc' = [pc EXCEPT ![p]["call"] = s]
      BY <3>1 DEF CallFinishes, HandoverCancelled
    <3>3. UNCHANGED <<browser, browserLease>> /\ pc[p]["call"] \notin {"closing", "handingOver"}
      BY <3>1 DEF CallFinishes, HandoverCancelled, browserVars
    <3>. QED  BY <3>2, <3>3
  <2>6. CASE LaunchUnconfirmed(p)
    BY <2>6 DEF LaunchUnconfirmed
  <2>. QED  BY <1>1, <2>1, <2>2, <2>3, <2>4, <2>5, <2>6 DEF CallStep
<1>2. ~ProcessStep(p)
  <2>1. ~(PollerDecides(p) \/ HoldMatures(p) \/ LifespanCloses(p))
    BY DEF PollerDecides, HoldMatures, LifespanCloses, browserVars
  <2>2. ~(ProcessStarts(p) \/ LifespanEnds(p))
    BY DEF ProcessStarts, LifespanEnds, browserVars
  <2>3. ~ProcessDies(p)
    BY DEF ProcessDies
  <2>4. ~(ChromiumStarts(p) \/ ChromiumEnds(p) \/ GuardianKills(p) \/ GuardianExits(p))
    BY DEF ChromiumStarts, ChromiumEnds, GuardianKills, GuardianExits
  <2>. QED  BY <2>1, <2>2, <2>3, <2>4 DEF ProcessStep
<1>3. ASSUME NEW t \in Task, CloseStep(p, t)
      PROVE  AsksToGo(p) /\ browserOpen'[p]
  <2>1. ~CloseBegins(p, t) /\ ~HandoverBegins(p, t)
    BY DEF CloseBegins, HandoverBegins
  <2>2. ~(CloseFindsNothing(p, t) \/ HandoverTakesTheLock(p, t) \/ HandoverDeclined(p, t))
    BY DEF CloseFindsNothing, HandoverTakesTheLock, HandoverDeclined, ForgetsTheBrowser,
           AfterClose
  <2>3. ~CloseConfirmed(p, t)
    BY DEF CloseConfirmed
  <2>4. CASE CloseUnconfirmed(p, t)
    BY <2>4 DEF CloseUnconfirmed, Consistent, BrowserBookkeeping
  <2>. QED  BY <1>3, <2>1, <2>2, <2>3, <2>4 DEF CloseStep
<1>. QED  BY <1>1, <1>2, <1>3

\* What strands an owner asks it to exit, and it stays asked.
LEMMA StrandedOwnersStayAsked ==
  IInv /\ IInv' /\ StrandedOwnersMustGo /\ [Next]_vars => StrandedOwnersMustGo'
<1>. SUFFICES ASSUME IInv, IInv', StrandedOwnersMustGo, [Next]_vars,
                     NEW q \in Owners, Stranded(q)'
              PROVE  mustExit'[q]
  BY DEF StrandedOwnersMustGo
<1>q. q \in Proc
  BY OwnersAreProcesses
<1>1. CASE UNCHANGED vars
  BY <1>1 DEF vars, Stranded, StrandedOwnersMustGo
<1>2. CASE Next
  <2>1. PICK p \in Proc : /\ Keeps(p)
                          /\ \/ CallStep(p) \/ ProcessStep(p)
                             \/ \E t \in Task : CloseStep(p, t)
    BY <1>2, StepIsOneProcess
  <2>2. phase'[q] # "off"
    BY <1>q DEF Stranded, IInv, Consistent, DeadIsBlank
  <2>3. CASE Stranded(q)
    BY <1>q, <2>1, <2>2, <2>3, AskedUntilDeath DEF StrandedOwnersMustGo
  <2>4. CASE ~Stranded(q)
    <3>1. q = p
      BY <1>q, <2>1, <2>4 DEF Keeps, Confined, Untouched, Stranded
    <3>2. AsksToGo(q) /\ browserOpen'[q]
      BY <2>1, <2>4, <3>1, OnlyTheUnprovenStrands
    <3>. QED  BY <1>q, <3>2 DEF AsksToGo, IInv, TypeOK
  <2>. QED  BY <2>3, <2>4
<1>. QED  BY <1>1, <1>2

\* An owner that is stranded and has to go takes no last step but its death.
LEMMA TheStrandedDie ==
  ASSUME NEW p \in Proc, IInv, Stranded(p), LastSteps(p)
  PROVE  phase'[p] = "off"
<1>1. phase[p] # "off" /\ guardian[p] # "draining"
  BY DEF Stranded, IInv, Consistent, DeadIsBlank, LockInPlace
<1>. QED  BY <1>1 DEF LastSteps, ProcessDies, GuardianKills, GuardianExits, IInv, TypeOK

\* An owner stranded by an unconfirmed close exits, and its guardian then frees the
\* profile: nobody has to restart it by hand.
THEOREM TheStrandedLetGo == LiveSpec /\ []LastStepsAreOpen => StrandedOwnerGivesWay
<1>1. Spec => []StrandedOwnersMustGo
  <2>1. Init => StrandedOwnersMustGo
    BY OwnersAreProcesses DEF Init, StrandedOwnersMustGo, Stranded
  <2>. QED  BY <2>1, StrandedOwnersStayAsked, ConsistentAlways, PTL DEF Spec
<1>2. ASSUME NEW p \in Owners
      PROVE  LiveSpec /\ []LastStepsAreOpen => (Stranded(p) ~> lock # p)
  <2>p. p \in Proc
    BY OwnersAreProcesses
  <2>1. IInv /\ IInv' /\ [Next]_vars /\ Stranded(p) => (phase[p] = "off")' \/ Stranded(p)'
    <3>1. UNCHANGED vars /\ Stranded(p) => Stranded(p)'
      BY DEF vars, Stranded
    <3>. QED  BY <2>p, <3>1, StrandedHolds
  <2>2. IInv /\ <<Next /\ LastSteps(p)>>_vars /\ Stranded(p) => (phase[p] = "off")'
    BY <2>p, TheStrandedDie
  <2>3. IInv /\ LastStepsAreOpen /\ StrandedOwnersMustGo /\ Stranded(p)
          => ENABLED <<LastSteps(p)>>_vars
    <3>1. IInv /\ Stranded(p) => phase[p] # "off"
      BY <2>p DEF Stranded, IInv, Consistent, DeadIsBlank
    <3>. QED  BY <2>p, <3>1 DEF LastStepsAreOpen, StrandedOwnersMustGo, MustDie
  <2>4. Fairness => FairTo(p)
    BY <2>p DEF Fairness
  <2>5. DeathFreesTheProfile => (phase[p] = "off" ~> lock # p)
    BY <2>p DEF DeathFreesTheProfile
  <2>. QED  BY <1>1, <2>1, <2>2, <2>3, <2>4, <2>5, TheDeadLetGo, ConsistentAlways, PTL
            DEF LiveSpec, Spec, FairTo, FairToProcess
<1>. QED  BY <1>2 DEF StrandedOwnerGivesWay

(***************************************************************************)
(* The handoff                                                             *)
(***************************************************************************)

\* Where the call slot of a process with a browser stands: away from its body, or in it.
Away == {"idle", "busy", "waiting"}
Working(p) == pc[p]["call"] \in Waiting

\* What one step does to the tasks of a process that is asked for its profile and keeps
\* its browser throughout.
CallMoves(p) ==
  /\ UNCHANGED <<pc[p]["poll"], pc[p]["stop"], phase[p]>>
  /\ \/ pc[p]["call"] \in Away /\ pc'[p]["call"] \in Away \cup Waiting
     \/ Working(p) /\ pc'[p]["call"] \in Waiting \cup {"wantHandover"}
     \/ At(p, "call", "wantHandover") /\ pc'[p]["call"] \in {"idle", "handover"}
PollMoves(p) ==
  /\ UNCHANGED <<pc[p]["call"], pc[p]["stop"], phase[p]>>
  /\ \/ /\ phase[p] = "up" /\ ~Working(p)
        /\ At(p, "poll", "idle") /\ pc'[p]["poll"] = "wantHandover"
     \/ At(p, "poll", "wantHandover") /\ pc'[p]["poll"] = "handover"
     \/ At(p, "poll", "handover") /\ pc'[p]["poll"] = "idle" /\ Working(p)
LifespanMoves(p) ==
  /\ UNCHANGED pc[p]["call"]
  /\ \/ /\ phase'[p] = "stopping" /\ UNCHANGED pc[p]["stop"]
        /\ \/ UNCHANGED pc[p]["poll"]
           \/ At(p, "poll", "wantHandover") /\ pc'[p]["poll"] = "idle"
     \/ /\ UNCHANGED <<phase[p], pc[p]["poll"]>>
        /\ At(p, "stop", "idle") /\ pc'[p]["stop"] = "wantClose"
TasksMove(p) ==
  \/ UNCHANGED <<pc[p], phase[p]>>
  \/ CallMoves(p) \/ PollMoves(p) \/ (phase[p] # "off" /\ LifespanMoves(p))

\* A process with a browser that may hand it over.
Ripe(p) == browser[p] /\ matured[p] /\ HandoffRequested

\* Where a process with a browser can be at all.
LEMMA WithABrowser ==
  ASSUME NEW p \in Proc, IInv, browser[p]
  PROVE  /\ phase[p] # "off" /\ browserLease[p] /\ refs[p] > 0 /\ guardian[p] # "draining"
         /\ pc[p]["call"] \in Away \cup Waiting \cup {"wantHandover", "handover"}
         /\ pc[p]["poll"] \in {"idle", "wantHandover", "handover"}
         /\ pc[p]["stop"] \in {"idle", "wantClose", "stopped"}
         /\ callsInFlight[p] = IF Working(p) THEN 1 ELSE 0
         /\ lifecycle[p] = "nobody"
              <=> pc[p]["call"] # "handover" /\ pc[p]["poll"] # "handover"
<1>1. Consistent(p) /\ lifecycle[p] \in Task \cup {"nobody"}
  BY DEF IInv, TypeOK
<1>2. phase[p] # "off" /\ browserLease[p] /\ ~Closing(p) /\ ~At(p, "call", "launching")
  BY <1>1 DEF Consistent, DeadIsBlank, BrowserBookkeeping
<1>3. refs[p] > 0 /\ guardian[p] # "draining"
  BY <1>1, <1>2 DEF Consistent, LockInPlace, ReferencesOf, Stranded, IInv, TypeOK
<1>4. /\ pc[p]["call"] \in Away \cup Waiting \cup {"wantHandover", "handover"}
      /\ pc[p]["poll"] \in {"idle", "wantHandover", "handover"}
      /\ pc[p]["stop"] \in {"idle", "wantClose", "stopped"}
  BY <1>1, <1>2 DEF Consistent, TasksInPlace, Closing, Away
<1>5. callsInFlight[p] = IF Working(p) THEN 1 ELSE 0
  BY <1>1, <1>4 DEF Consistent, BrowserBookkeeping, InBody, Working, Away
<1>6. lifecycle[p] = "nobody"
        <=> pc[p]["call"] # "handover" /\ pc[p]["poll"] # "handover"
  BY <1>1, <1>4 DEF Consistent, TasksInPlace, Away
<1>. QED  BY <1>2, <1>3, <1>4, <1>5, <1>6

\* What a call does while its process keeps the browser.
LEMMA CallsMove ==
  ASSUME NEW p \in Proc, IInv, Ripe(p), browser'[p], CallStep(p)
  PROVE  TasksMove(p)
<1>. USE DEF IInv, TypeOK, TasksMove, CallMoves, Away, Working
<1>w. /\ phase[p] # "off" /\ browserLease[p] /\ refs[p] > 0 /\ guardian[p] # "draining"
      /\ pc[p]["call"] \in Away \cup Waiting \cup {"wantHandover", "handover"}
      /\ callsInFlight[p] = IF Working(p) THEN 1 ELSE 0
  BY WithABrowser DEF Ripe
<1>1. CASE CallArrives(p) \/ StartsWaiting(p) \/ PollsTheLease(p)
  BY <1>1 DEF CallArrives, StartsWaiting, PollsTheLease, BodyBegins
<1>2. CASE GivesUp(p) \/ GetsTheBrowser(p) \/ WantsABrowser(p) \/ LaunchRefused(p)
  BY <1>2 DEF GivesUp, GetsTheBrowser, WantsABrowser, LaunchRefused
<1>3. ~LaunchBegins(p) /\ ~LaunchSucceeds(p) /\ ~LaunchFails(p) /\ ~LaunchUnconfirmed(p)
  BY <1>w DEF LaunchBegins, LaunchSucceeds, LaunchFails, LaunchUnconfirmed, Ripe
<1>4. CASE CallAsksForAClose(p) \/ CallFindsItDead(p) \/ RetireFindsAnother(p)
           \/ HandoverCancelled(p)
  BY <1>4 DEF CallAsksForAClose, CallFindsItDead, RetireFindsAnother, HandoverCancelled
<1>5. CASE CallFinishes(p)
  <2>1. callsInFlight'[p] = 0
    BY <1>5, <1>w DEF CallFinishes, NotesActivity
  <2>2. HandsOver(p, TRUE)
    BY <1>w DEF HandsOver, Ripe
  <2>3. Goes(p, "call", "wantHandover") /\ UNCHANGED phase /\ Working(p)
    BY <1>5, <2>1, <2>2 DEF CallFinishes
  <2>. QED  BY <2>3
<1>. QED  BY <1>1, <1>2, <1>3, <1>4, <1>5 DEF CallStep

\* What the poller and the lifespan do, and what else goes on in a process.
LEMMA ProcessesMove ==
  ASSUME NEW p \in Proc, IInv, Ripe(p), browser'[p], ProcessStep(p)
  PROVE  TasksMove(p)
<1>. USE DEF IInv, TypeOK, TasksMove
<1>w. /\ phase[p] # "off" /\ guardian[p] # "draining"
      /\ callsInFlight[p] = IF Working(p) THEN 1 ELSE 0
  BY WithABrowser DEF Ripe
<1>1. CASE PollerDecides(p)
  BY <1>1, <1>w DEF PollerDecides, PollMoves
<1>2. CASE HoldMatures(p) \/ ChromiumStarts(p) \/ ChromiumEnds(p)
  BY <1>2 DEF HoldMatures, ChromiumStarts, ChromiumEnds
<1>3. ~ProcessStarts(p) /\ ~ProcessDies(p) /\ ~GuardianKills(p) /\ ~GuardianExits(p)
  BY <1>w DEF ProcessStarts, ProcessDies, GuardianKills, GuardianExits
<1>4. CASE LifespanEnds(p) \/ LifespanCloses(p)
  BY <1>4, <1>w DEF LifespanEnds, LifespanCloses, LifespanMoves
<1>. QED  BY <1>1, <1>2, <1>3, <1>4 DEF ProcessStep

\* A close or a handover that does not take the browser enters or leaves the lock.
LEMMA ClosesMove ==
  ASSUME NEW p \in Proc, NEW t \in Task, IInv, browser[p], browser'[p], CloseStep(p, t)
  PROVE  /\ TasksMove(p)
         /\ Enters(p, t) => /\ t # "stop" /\ pc'[p][t] = "handover"
                            /\ At(p, t, "wantHandover")
         /\ GetsOn(p, t) => t = "poll" /\ At(p, "poll", "handover") /\ Working(p)
                              /\ pc'[p]["poll"] = "idle"
<1>. USE DEF IInv, TypeOK, TasksMove
<1>w. /\ pc[p]["call"] \in Away \cup Waiting \cup {"wantHandover", "handover"}
      /\ pc[p]["poll"] \in {"idle", "wantHandover", "handover"}
      /\ pc[p]["stop"] \in {"idle", "wantClose", "stopped"}
      /\ callsInFlight[p] = IF Working(p) THEN 1 ELSE 0
  BY WithABrowser
<1>1. ~CloseBegins(p, t) /\ ~CloseFindsNothing(p, t) /\ ~HandoverBegins(p, t)
  BY DEF CloseBegins, CloseFindsNothing, HandoverBegins, ForgetsTheBrowser
<1>2. ~CloseConfirmed(p, t) /\ ~CloseUnconfirmed(p, t)
  BY <1>w DEF CloseConfirmed, CloseUnconfirmed, LeavesTheClose, Away
<1>3. CASE HandoverTakesTheLock(p, t)
  <2>1. t # "stop" /\ pc'[p][t] = "handover" /\ At(p, t, "wantHandover")
        /\ UNCHANGED phase /\ \A u \in Task \ {t} : pc'[p][u] = pc[p][u]
    BY <1>3, <1>w DEF HandoverTakesTheLock
  <2>2. ~HandoverDeclined(p, t)
    BY <2>1 DEF HandoverDeclined
  <2>. QED  BY <1>1, <1>2, <2>1, <2>2 DEF CallMoves, PollMoves, GetsOn
<1>4. CASE HandoverDeclined(p, t)
  <2>1. Working(p) /\ At(p, t, "handover")
    BY <1>4, <1>w DEF HandoverDeclined, StillIdle
  <2>2. t = "poll"
    BY <1>w, <2>1 DEF Working
  <2>3. pc'[p]["poll"] = "idle" /\ UNCHANGED <<phase, pc[p]["call"], pc[p]["stop"]>>
    BY <1>4, <2>2 DEF HandoverDeclined
  <2>4. ~HandoverTakesTheLock(p, t)
    BY <2>1 DEF HandoverTakesTheLock
  <2>. QED  BY <1>1, <2>1, <2>2, <2>3, <2>4 DEF PollMoves, Enters
<1>. QED  BY <1>1, <1>2, <1>3, <1>4 DEF CloseStep

\* The minimum hold, once it has passed, has passed until the profile is let go of.
LEMMA MaturedStays ==
  ASSUME NEW p \in Proc, NEW r \in Proc, IInv, browser[p], browser'[p],
         CallStep(r) \/ ProcessStep(r) \/ \E t \in Task : CloseStep(r, t)
  PROVE  matured[p] => matured'[p]
<1>. USE DEF IInv, TypeOK
<1>w. refs[p] > 0 /\ phase[p] # "off"
  BY WithABrowser
<1>t. TakeReference(r) => (matured[p] => matured'[p])
  BY <1>w DEF TakeReference
<1>1. CASE CallStep(r)
  <2>1. CASE CallArrives(r) \/ StartsWaiting(r) \/ PollsTheLease(r) \/ GivesUp(r)
    BY <1>t, <2>1 DEF CallArrives, StartsWaiting, PollsTheLease, GivesUp, BodyBegins
  <2>2. CASE GetsTheBrowser(r) \/ WantsABrowser(r) \/ LaunchRefused(r) \/ LaunchBegins(r)
    BY <1>t, <2>2 DEF GetsTheBrowser, WantsABrowser, LaunchRefused, LaunchBegins, leaseVars
  <2>3. CASE LaunchSucceeds(r) \/ LaunchFails(r) \/ LaunchUnconfirmed(r)
    BY <1>t, <2>3 DEF LaunchSucceeds, LaunchFails, LaunchUnconfirmed, leaseVars, DropReference
  <2>4. CASE CallAsksForAClose(r) \/ CallFindsItDead(r) \/ RetireFindsAnother(r)
    BY <2>4 DEF CallAsksForAClose, CallFindsItDead, RetireFindsAnother, leaseVars
  <2>5. CASE CallFinishes(r) \/ HandoverCancelled(r)
    BY <2>5 DEF CallFinishes, HandoverCancelled, leaseVars, DropReference
  <2>. QED  BY <1>1, <2>1, <2>2, <2>3, <2>4, <2>5 DEF CallStep
<1>2. CASE ProcessStep(r)
  <2>1. CASE PollerDecides(r) \/ HoldMatures(r) \/ LifespanCloses(r)
    BY <2>1 DEF PollerDecides, HoldMatures, LifespanCloses, leaseVars
  <2>2. CASE ProcessStarts(r) \/ LifespanEnds(r)
    BY <2>2 DEF ProcessStarts, LifespanEnds, leaseVars
  <2>3. CASE ProcessDies(r)
    BY <2>3 DEF ProcessDies
  <2>4. CASE ChromiumStarts(r) \/ ChromiumEnds(r) \/ GuardianKills(r) \/ GuardianExits(r)
    BY <2>4 DEF ChromiumStarts, ChromiumEnds, GuardianKills, GuardianExits, leaseVars
  <2>. QED  BY <1>2, <2>1, <2>2, <2>3, <2>4 DEF ProcessStep
<1>3. ASSUME NEW t \in Task, CloseStep(r, t) PROVE matured[p] => matured'[p]
  BY <1>3 DEF CloseStep, CloseBegins, CloseFindsNothing, HandoverTakesTheLock,
     HandoverDeclined, HandoverBegins, CloseConfirmed, CloseUnconfirmed, DropReference,
     leaseVars
<1>. QED  BY <1>1, <1>2, <1>3

\* Any step at all, of whichever process, moves the tasks of a process that is asked for
\* its profile and keeps its browser in one of those ways.
LEMMA AskedProcessesMove ==
  ASSUME NEW p \in Proc, IInv, [Next]_vars, browser[p], browser'[p], HandoffRequested
  PROVE  matured[p] => matured'[p] /\ TasksMove(p)
<1>1. CASE UNCHANGED vars
  BY <1>1 DEF vars, TasksMove
<1>2. CASE Next
  <2>1. PICK r \in Proc : /\ Keeps(r)
                          /\ \/ CallStep(r) \/ ProcessStep(r)
                             \/ \E t \in Task : CloseStep(r, t)
    BY <1>2, StepIsOneProcess
  <2>2. matured[p] => matured'[p]
    BY <2>1, MaturedStays
  <2>3. CASE r # p
    <3>1. UNCHANGED <<pc[p], phase[p]>>
      BY <2>1, <2>3 DEF Keeps, Confined, Untouched
    <3>. QED  BY <2>2, <3>1 DEF TasksMove
  <2>4. CASE r = p
    BY <2>1, <2>2, <2>4, CallsMove, ProcessesMove, ClosesMove DEF Ripe
  <2>. QED  BY <2>3, <2>4
<1>. QED  BY <1>1, <1>2

\* The steps a process that is asked for its profile takes in the end, while it keeps the
\* browser.
LEMMA AskedProcessesGetOn ==
  ASSUME NEW p \in Proc, IInv, browser[p], browser'[p], HandoffRequested
  PROVE  /\ HoldMatures(p) => matured'[p]
         /\ matured[p] /\ Finishes(p) => pc'[p]["call"] = "wantHandover"
         /\ PollerDecides(p) => pc'[p]["poll"] = "wantHandover"
         /\ LifespanCloses(p) => pc'[p]["stop"] = "wantClose"
         /\ ~LastSteps(p)
         /\ Enters(p, "call") => pc'[p]["call"] = "handover"
         /\ Enters(p, "poll") => pc'[p]["poll"] = "handover"
         /\ ~Enters(p, "stop") /\ ~GetsOn(p, "call")
         /\ GetsOn(p, "poll") => pc'[p]["poll"] = "idle" /\ Working(p)
<1>. USE DEF IInv, TypeOK
<1>w. /\ phase[p] # "off" /\ browserLease[p] /\ guardian[p] # "draining"
      /\ pc[p]["call"] \in Away \cup Waiting \cup {"wantHandover", "handover"}
      /\ callsInFlight[p] = IF Working(p) THEN 1 ELSE 0
  BY WithABrowser
<1>1. HoldMatures(p) => matured'[p]
  BY DEF HoldMatures
<1>2. ASSUME matured[p], Finishes(p) PROVE pc'[p]["call"] = "wantHandover"
  <2>1. CallFinishes(p)
    BY <1>2, <1>w DEF Finishes, LaunchSucceeds, LaunchFails, LaunchUnconfirmed, Away
  <2>2. callsInFlight'[p] = 0 /\ HandsOver(p, TRUE)
    BY <1>2, <1>w, <2>1 DEF CallFinishes, NotesActivity, HandsOver, Working
  <2>. QED  BY <2>1, <2>2 DEF CallFinishes
<1>3. PollerDecides(p) => pc'[p]["poll"] = "wantHandover"
  BY DEF PollerDecides
<1>4. LifespanCloses(p) => pc'[p]["stop"] = "wantClose"
  BY DEF LifespanCloses
<1>5. ~LastSteps(p)
  BY <1>w DEF LastSteps, ProcessDies, GuardianKills, GuardianExits
<1>6. ASSUME NEW t \in Task
      PROVE  /\ Enters(p, t) => t # "stop" /\ pc'[p][t] = "handover"
             /\ GetsOn(p, t) => t = "poll" /\ Working(p) /\ pc'[p]["poll"] = "idle"
  BY ClosesMove DEF Enters, GetsOn, CloseStep
<1>. QED  BY <1>1, <1>2, <1>3, <1>4, <1>5, <1>6

\* The steps that a process with a browser owes to a waiter are open to it.  A reader sees
\* that, and TLC; the provers know nothing of ENABLED.
ProcessIsOpen(p) ==
  /\ ~matured[p] => ENABLED <<HoldMatures(p)>>_vars
  /\ Working(p) => ENABLED <<Finishes(p)>>_vars
  /\ matured[p] /\ phase[p] = "up" /\ At(p, "poll", "idle") /\ ~Working(p)
       => ENABLED <<PollerDecides(p)>>_vars
  /\ phase[p] = "stopping" /\ At(p, "poll", "idle") /\ At(p, "stop", "idle")
       => ENABLED <<LifespanCloses(p)>>_vars
TaskIsOpen(p, t) ==
  /\ At(p, t, "handover") => ENABLED <<GetsOn(p, t)>>_vars
  /\ lifecycle[p] = "nobody" /\ pc[p][t] \in {"wantHandover", "wantClose"}
       => ENABLED <<Enters(p, t)>>_vars
HandoffStepsAreOpen ==
  \A p \in Proc : browser[p] /\ HandoffRequested =>
    ProcessIsOpen(p) /\ \A t \in Task : TaskIsOpen(p, t)

\* A process that is asked for the profile lets go of its browser, however many calls keep
\* arriving there: the hold passes; no handover that has the lifecycle lock is declined but
\* for a call, whose end then finds the lock free; and a lifespan that ends closes the
\* browser instead.
THEOREM WaitersAreServed ==
  LiveSpec /\ []HandoffStepsAreOpen /\ []LastStepsAreOpen => HandoffHonoured
<1>1. ASSUME NEW p \in Proc, NEW q \in Proc \ {p}
      PROVE  LiveSpec /\ []HandoffStepsAreOpen /\ []LastStepsAreOpen
               => (announced[q] /\ browser[p] ~> ~announced[q] \/ ~browser[p])
  <2>. DEFINE Held == announced[q] /\ browser[p]
              M == matured[p]
              Up == phase[p] = "up"
              Out == pc[p]["call"] \in Away
              In == Working(p)
              Wants == At(p, "call", "wantHandover")
              Has == At(p, "call", "handover")
              PollIdle == At(p, "poll", "idle")
              PollWants == At(p, "poll", "wantHandover")
              PollHas == At(p, "poll", "handover")
              StopIdle == At(p, "stop", "idle")
              StopWants == At(p, "stop", "wantClose")
              StopDone == At(p, "stop", "stopped")
              Kept == IInv /\ Held /\ Held' /\ [Next]_vars
  \* Where its tasks can be, and where each of them goes from there.
  <2>1. IInv /\ Held => /\ Out \/ In \/ Wants \/ Has
                        /\ PollIdle \/ PollWants \/ PollHas
                        /\ StopIdle \/ StopWants \/ StopDone
                        /\ ~(In /\ Wants) /\ ~(PollIdle /\ PollHas) /\ ~(In /\ Out)
                        /\ ~(Out /\ Wants) /\ ~(StopIdle /\ StopWants)
    BY WithABrowser DEF Away, Working
  <2>2. Kept /\ M => M'
    BY AskedProcessesMove DEF HandoffRequested
  <2>3. Kept /\ M => /\ Has => Has'
                     /\ In => In' \/ Wants'
                     /\ Wants => Wants' \/ Out' \/ Has'
                     /\ Out => Out' \/ In'
    BY AskedProcessesMove DEF HandoffRequested, TasksMove, CallMoves, PollMoves, LifespanMoves,
       Working, Away
  <2>4. Kept /\ M => /\ PollIdle => PollIdle' \/ (PollWants' /\ ~In)
                     /\ PollWants => PollWants' \/ PollHas' \/ (PollIdle' /\ (~Up)')
                     /\ PollHas => PollHas' \/ (PollIdle' /\ In /\ In')
    BY AskedProcessesMove DEF HandoffRequested, TasksMove, CallMoves, PollMoves, LifespanMoves,
       Working
  <2>5. Kept /\ M => /\ ~Up => (~Up)'
                     /\ ~Up /\ PollIdle => PollIdle'
                     /\ StopWants => StopWants'
                     /\ StopDone => StopDone'
    BY AskedProcessesMove DEF HandoffRequested, TasksMove, CallMoves, PollMoves, LifespanMoves,
       Working
  <2>6. Held => HandoffRequested
    BY DEF HandoffRequested
  \* What the steps it owes achieve, and that they are open to it.
  <2>7. Kept => /\ HoldMatures(p) => M'
                /\ M /\ Finishes(p) => Wants'
                /\ PollerDecides(p) => PollWants'
                /\ LifespanCloses(p) => StopWants'
                /\ Enters(p, "call") => Has'
                /\ Enters(p, "poll") => PollHas'
                /\ GetsOn(p, "poll") => PollIdle'
    BY <2>6, AskedProcessesGetOn
  <2>8. Kept => ~LastSteps(p) /\ ~Enters(p, "stop") /\ ~GetsOn(p, "call")
    BY <2>6, AskedProcessesGetOn
  <2>9. Held /\ HandoffStepsAreOpen
          => ProcessIsOpen(p) /\ TaskIsOpen(p, "call") /\ TaskIsOpen(p, "poll")
               /\ TaskIsOpen(p, "stop")
    BY <2>6 DEF HandoffStepsAreOpen
  <2>10. IInv /\ Held /\ ~Has /\ ~PollHas => lifecycle[p] = "nobody"
    BY WithABrowser
  <2>11. IInv /\ ~Up /\ browser[p] => phase[p] = "stopping"
    BY WithABrowser DEF IInv, TypeOK
  <2>12. IInv /\ Held /\ HandoffStepsAreOpen
          => /\ ~M => ENABLED <<HoldMatures(p)>>_vars
             /\ In => ENABLED <<Finishes(p)>>_vars
             /\ M /\ Up /\ PollIdle /\ ~In => ENABLED <<PollerDecides(p)>>_vars
             /\ ~Up /\ PollIdle /\ StopIdle => ENABLED <<LifespanCloses(p)>>_vars
             /\ Has => ENABLED <<GetsOn(p, "call")>>_vars
             /\ PollHas => ENABLED <<GetsOn(p, "poll")>>_vars
             /\ ~Has /\ ~PollHas /\ Wants => ENABLED <<Enters(p, "call")>>_vars
             /\ ~Has /\ ~PollHas /\ PollWants => ENABLED <<Enters(p, "poll")>>_vars
             /\ ~Has /\ ~PollHas /\ StopWants => ENABLED <<Enters(p, "stop")>>_vars
    BY <2>9, <2>10, <2>11 DEF ProcessIsOpen, TaskIsOpen
  <2>13. IInv /\ Held /\ LastStepsAreOpen /\ StopDone => ENABLED <<LastSteps(p)>>_vars
    BY WithABrowser DEF LastStepsAreOpen, MustDie
  <2>14. Fairness => FairTo(p)
    BY DEF Fairness
  <2>15. FairTo(p) => FairToTask(p, "call") /\ FairToTask(p, "poll") /\ FairToTask(p, "stop")
    BY DEF FairTo
  \* A waiter that waits, at a process that keeps its browser, for ever after.
  <2>. DEFINE Env == /\ [][Next]_vars /\ []IInv /\ []Held
                     /\ []HandoffStepsAreOpen /\ []LastStepsAreOpen
                     /\ FairToProcess(p) /\ FairToTask(p, "call")
                     /\ FairToTask(p, "poll") /\ FairToTask(p, "stop")
  <2>16. FairToProcess(p) => []FairToProcess(p)
    BY PTL DEF FairToProcess
  <2>17. /\ FairToTask(p, "call") => []FairToTask(p, "call")
         /\ FairToTask(p, "poll") => []FairToTask(p, "poll")
         /\ FairToTask(p, "stop") => []FairToTask(p, "stop")
    BY PTL DEF FairToTask
  <2>18. Env => []Env
    BY <2>16, <2>17, PTL
  <2>19. LiveSpec /\ []HandoffStepsAreOpen /\ []LastStepsAreOpen => []([]Held => Env)
    BY <2>14, <2>15, <2>16, <2>17, ConsistentAlways, PTL DEF LiveSpec, Spec, FairTo
  <2>20. Held <=> announced[q] /\ browser[p]
    OBVIOUS
  <2>. HIDE DEF Held, M, Up, Out, In, Wants, Has, PollIdle, PollWants, PollHas, StopIdle,
                StopWants, StopDone
  \* The hold passes; nobody keeps the lifecycle lock; the lifespan does not end.
  <2>21. Env => <>[]M
    BY <2>2, <2>7, <2>12, PTL DEF FairToProcess
  <2>22. Env /\ []M => []~Has
    BY <2>3, <2>8, <2>12, PTL DEF FairToTask
  <2>23. Env /\ []M => []<>~PollHas
    BY <2>1, <2>4, <2>7, <2>12, PTL DEF FairToTask
  <2>24. Env /\ []M => []StopIdle
    BY <2>1, <2>5, <2>8, <2>12, <2>13, <2>22, <2>23, PTL DEF FairToProcess, FairToTask
  <2>25. Env /\ []M => []Up
    <3>1. Env /\ []M /\ []~Up => <>PollIdle
      BY <2>1, <2>4, <2>7, <2>12, <2>22, PTL DEF FairToTask
    <3>2. Env /\ []M /\ []~Up /\ []PollIdle => FALSE
      BY <2>1, <2>7, <2>12, <2>24, PTL DEF FairToProcess
    <3>. QED  BY <2>5, <2>18, <3>1, <3>2, PTL
  \* So a call's handover finds the lock taken by the poller's, which therefore ends for
  \* a call, whose own handover finds the lock free.
  <2>26. Env /\ []M => <>[](Wants => PollHas)
    BY <2>7, <2>12, <2>22, PTL DEF FairToTask
  <2>27. Env /\ []M /\ [](Wants => PollHas) => FALSE
    <3>1. Env /\ []M => [](In => <>Wants)
      BY <2>3, <2>7, <2>12, <2>18, PTL DEF FairToProcess
    <3>2. Env /\ []M /\ [](Wants => PollHas) => []~(In /\ PollIdle)
      BY <2>1, <2>3, <2>4, <3>1, PTL
    <3>3. Env /\ []M /\ [](Wants => PollHas) => []~PollHas
      BY <2>4, <2>23, <2>18, <3>2, PTL
    <3>4. Env /\ []M /\ [](Wants => PollHas) => []~In
      BY <3>1, <3>3, PTL
    <3>5. Env /\ []M /\ []~PollHas /\ []~In => FALSE
      BY <2>1, <2>4, <2>7, <2>12, <2>22, <2>25, PTL DEF FairToProcess, FairToTask
    <3>. QED  BY <3>3, <3>4, <3>5, PTL
  <2>. QED  BY <2>19, <2>21, <2>26, <2>27, <2>20, PTL
<1>. QED  BY <1>1 DEF HandoffHonoured
=============================================================================
