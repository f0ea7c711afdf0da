----------------------------- MODULE OwnerCalls -----------------------------
(* Which calls a shared owner takes, stops and answers: daemon_liveness.py,    *)
(* the serve loop that scans and retires (daemon_owner.py) and the heartbeats  *)
(* a frontend sends for as long as it waits (daemon_proxy.py).                 *)
(*                                                                             *)
(* One step is what a task of the owner's event loop does between two awaits.  *)
(* Time passes in ticks of about one heartbeat.  While the owner runs, its     *)
(* loop scans in every tick and a beat is heard within Slack of them; while it *)
(* is stalled (asleep, starved, blocked) it takes no step at all.              *)
EXTENDS Integers, FiniteSets

CONSTANTS
  Call,          \* the calls frontends make, each with its own marker
  Expiry,        \* EXPIRY_SECONDS
  Slack,         \* how long a waiting frontend may go unheard by a running owner
  Drain,         \* _TURNOVER_DRAIN_SECONDS
  StopGrace,     \* timeout_graceful_shutdown
  IdleAfter,     \* browser_idle_timeout_seconds
  Grace,         \* _SETUP_FAILURE_RETRY_GRACE_SECONDS
  MaxStalls      \* bound: how often the owner stalls

ASSUME CallIsFinite == IsFiniteSet(Call)
ASSUME TimesAreTicks ==
  /\ Expiry \in Nat /\ Slack \in Nat /\ Drain \in Nat /\ StopGrace \in Nat
  /\ MaxStalls \in Nat
  /\ IdleAfter \in Nat /\ Grace \in Nat /\ IdleAfter <= Grace
ASSUME BeatsFitTheExpiry == Slack + StopGrace <= Expiry

VARIABLES
  stage,      \* where a call stands, from its frontend's preflight to its answer
  wanted,     \* the calls whose client still waits
  answer,     \* what the client was told
  ended,      \* how the call's own task ended
  ran,        \* history: the calls whose tool body ever began
  waiting,    \* the keys of _waiting
  cut,        \* _cut
  began,      \* _began
  inFlight,   \* _in_flight
  retired,    \* retire_reason, or "no" while not retiring
  cancelling, \* the calls whose task is asked to end
  dropped,    \* the calls whose connection the stopping server cancelled
  unheard,    \* ticks since last_heard
  silence,    \* ticks the owner ran without hearing the call's frontend
  mode,       \* where the owner process stands
  turnover,   \* whether a stand-down was asked for
  wedged,     \* whether stand_down_reason() has one
  awake,      \* whether the event loop gets to run
  stalls,     \* how often it did not
  scanned,    \* whether _last_scan is set
  looked,     \* whether it was set since the last tick
  stale,      \* whether it is more than _STALL_SECONDS old
  elapsed,    \* ticks of the drain, or of the stop
  quiet,      \* ticks since _quiet_since, or NotQuiet for None
  setup,      \* the detached browser setup: "none", "running" or "failed"
  lull        \* history: ticks since this owner really had anything to do

callVars == <<stage, wanted, answer, ended, ran, waiting, cut, began, inFlight,
              cancelling, dropped, unheard, silence>>
clockVars == <<awake, stalls, scanned, looked, stale, elapsed>>
modeVars == <<mode, turnover, wedged, retired>>
idleVars == <<quiet, setup, lull>>
vars == <<callVars, clockVars, modeVars, idleVars>>

NotQuiet == -1

Stages == {"new", "sent", "queued", "running", "ended", "answered"}
Answers == {"none", "result", "retiring", "unknown", "abandoned", "lost"}

InFlight == {c \in Call : stage[c] \in {"queued", "running", "ended"}}

\* Beside the types: the books of the calls in flight balance.  Each is counted once
\* and can be reached by a heartbeat or is being stopped, and an ended one leaves
\* nothing.
TypeOK ==
  /\ stage \in [Call -> Stages]
  /\ wanted \subseteq Call
  /\ answer \in [Call -> Answers]
  /\ ended \in [Call -> {"no", "result", "cancelled", "abandoned"}]
  /\ ran \subseteq Call
  /\ waiting \subseteq Call /\ cut \subseteq Call /\ began \subseteq Call
  /\ inFlight \in 0..Cardinality(Call)
  /\ retired \in {"no", "idle", "retire", "turnover", "wedged"}
  /\ cancelling \subseteq Call /\ dropped \subseteq Call
  /\ unheard \in [Call -> 0..(Expiry + 1)]
  /\ silence \in [Call -> 0..Slack]
  /\ mode \in {"starting", "serving", "draining", "stopping", "exited"}
  /\ turnover \in BOOLEAN /\ wedged \in BOOLEAN /\ awake \in BOOLEAN
  /\ stalls \in 0..MaxStalls
  /\ scanned \in BOOLEAN /\ looked \in BOOLEAN /\ stale \in BOOLEAN
  /\ elapsed \in Nat
  /\ quiet \in NotQuiet..Grace /\ lull \in 0..Grace
  /\ setup \in {"none", "running", "failed"}
  /\ inFlight = Cardinality(InFlight)
  /\ waiting \cup cut \cup began \subseteq InFlight
  /\ \A c \in InFlight : stage[c] # "ended" => c \in waiting \cup cancelling

Init ==
  /\ stage = [c \in Call |-> "new"]
  /\ wanted = Call
  /\ answer = [c \in Call |-> "none"]
  /\ ended = [c \in Call |-> "no"]
  /\ ran = {} /\ waiting = {} /\ cut = {} /\ began = {}
  /\ inFlight = 0
  /\ retired = "no"
  /\ cancelling = {} /\ dropped = {}
  /\ unheard = [c \in Call |-> 0]
  /\ silence = [c \in Call |-> 0]
  /\ mode = "starting"
  /\ turnover = FALSE /\ wedged = FALSE /\ awake = TRUE
  /\ stalls = 0
  /\ scanned = FALSE /\ looked = FALSE /\ stale = FALSE
  /\ elapsed = 0
  /\ quiet = NotQuiet /\ lull = 0
  /\ setup = "none"

\* The owner's event loop gets a turn.
Runs == awake /\ mode # "exited"

------------------------------------------------------------------------------
(* The frontend of a call *)

\* A client finds the owner by the descriptor that commit_prepared() renames into
\* place.  The owner's loop does not await between that rename and its first scan,
\* here or in the reconciliation, so the first request it hears comes after it.
Heard == Runs /\ scanned /\ mode # "stopping"

\* heartbeat_route() answers 409 for a call it does not know once it is retiring;
\* any other preflight lets the call go.
Preflight(c) ==
  /\ Heard
  /\ c \in wanted /\ stage[c] = "new"
  /\ retired = "no"
  /\ stage' = [stage EXCEPT ![c] = "sent"]
  /\ silence' = [silence EXCEPT ![c] = 0]
  /\ UNCHANGED <<wanted, answer, ended, ran, waiting, cut, began, inFlight, cancelling,
                 dropped, unheard, clockVars, modeVars, idleVars>>

\* heard(), for a call it does not know as for one it does.
Heartbeat(c) ==
  /\ Heard
  /\ c \in wanted /\ stage[c] \in {"sent", "queued", "running", "ended"}
  /\ silence' = [silence EXCEPT ![c] = 0]
  /\ unheard' = IF c \in waiting THEN [unheard EXCEPT ![c] = 0] ELSE unheard
  /\ UNCHANGED <<stage, wanted, answer, ended, ran, waiting, cut, began, inFlight,
                 cancelling, dropped, clockVars, modeVars, idleVars>>

\* The client gives up, which its owner is not told.
Leaves(c) ==
  /\ c \in wanted /\ stage[c] \in {"sent", "queued", "running", "ended"}
  /\ wanted' = wanted \ {c}
  /\ UNCHANGED <<stage, answer, ended, ran, waiting, cut, began, inFlight, cancelling,
                 dropped, unheard, silence, clockVars, modeVars, idleVars>>

------------------------------------------------------------------------------
(* A call in the owner *)

\* Mistake: admission does not look at retirement.
AdmitsAnyway == TRUE

Admits == retired = "no"

\* OwnerCallLivenessMiddleware up to its first await: admit(), or the refusal.
CallArrives(c) ==
  /\ Runs
  /\ stage[c] = "sent"
  /\ \/ /\ Admits
        /\ stage' = [stage EXCEPT ![c] = "queued"]
        /\ inFlight' = inFlight + 1
        /\ quiet' = NotQuiet /\ lull' = 0
        /\ waiting' = waiting \cup {c}
        /\ unheard' = [unheard EXCEPT ![c] = 0]
        /\ UNCHANGED answer
     \/ /\ ~Admits
        /\ stage' = [stage EXCEPT ![c] = "answered"]
        /\ answer' = [answer EXCEPT ![c] = "retiring"]
        /\ UNCHANGED <<inFlight, quiet, lull, waiting, unheard>>
  /\ UNCHANGED <<wanted, ended, ran, cut, began, cancelling, dropped, silence,
                 clockVars, modeVars, setup>>

\* abandoned()
Abandoned(c) ==
  \/ c \notin waiting
  \/ ~(scanned /\ stale) /\ unheard[c] > Expiry

\* Every wait of the call is over: it has the tool lock and the profile lease, and
\* declines or begins its body without another await.
WaitIsOver(c) ==
  /\ Runs
  /\ stage[c] = "queued" /\ c \notin cancelling
  /\ \A d \in Call : stage[d] # "running"

BodyBegins(c) ==
  /\ WaitIsOver(c)
  /\ ~Abandoned(c)
  /\ stage' = [stage EXCEPT ![c] = "running"]
  /\ began' = began \cup {c}
  /\ ran' = ran \cup {c}
  /\ UNCHANGED <<wanted, answer, ended, waiting, cut, inFlight, cancelling, dropped,
                 unheard, silence, clockVars, modeVars, idleVars>>

TaskEnds(c, how) ==
  /\ stage' = [stage EXCEPT ![c] = "ended"]
  /\ ended' = [ended EXCEPT ![c] = how]
  /\ UNCHANGED <<wanted, answer, ran, waiting, cut, began, inFlight, cancelling,
                 dropped, unheard, silence, clockVars, modeVars, idleVars>>

Declines(c) ==
  /\ WaitIsOver(c)
  /\ Abandoned(c)
  /\ TaskEnds(c, "abandoned")

\* The body ends by itself, or the call gives up queueing (the profile stayed busy).
Ends(c) ==
  /\ Runs
  /\ \/ stage[c] = "running"
     \/ stage[c] = "queued" /\ c \notin cancelling
  /\ TaskEnds(c, "result")

CancellationLands(c) ==
  /\ Runs
  /\ stage[c] \in {"queued", "running"} /\ c \in cancelling
  /\ TaskEnds(c, "cancelled")

\* Mistake: a call that was cut off may always be tried again.
MayBeRepeated(c) == TRUE

\* A call cut off before its body began never ran.
NeverBegan(c) == c \notin began

\* How the middleware tells the ends of a call, and the cancellations, apart.
AnswerTo(c) ==
  IF c \in dropped THEN "lost"
  ELSE IF ended[c] # "cancelled" THEN ended[c]
  ELSE IF c \in cut THEN IF NeverBegan(c) THEN "retiring" ELSE "unknown"
  ELSE IF c \notin waiting THEN "abandoned" ELSE "lost"

\* Mistake: a call that ends is forgotten as a waiting one only.
ReleasesTheEntry(c) ==
  /\ waiting' = waiting \ {c}
  /\ UNCHANGED <<cut, began>>

\* release()
Releases(c) ==
  /\ waiting' = waiting \ {c}
  /\ cut' = cut \ {c}
  /\ began' = began \ {c}

\* The middleware resumes: it answers, releases and counts the call out.
CallIsAnswered(c) ==
  /\ Runs
  /\ stage[c] = "ended"
  /\ answer' = [answer EXCEPT ![c] = AnswerTo(c)]
  /\ stage' = [stage EXCEPT ![c] = "answered"]
  /\ Releases(c)
  /\ inFlight' = IF inFlight > 0 THEN inFlight - 1 ELSE 0
  /\ quiet' = IF inFlight' = 0 THEN 0 ELSE quiet
  /\ lull' = 0
  /\ ended' = [ended EXCEPT ![c] = "no"]
  /\ unheard' = [unheard EXCEPT ![c] = 0]
  /\ silence' = [silence EXCEPT ![c] = 0]
  /\ cancelling' = cancelling \ {c} /\ dropped' = dropped \ {c}
  /\ UNCHANGED <<wanted, ran, clockVars, modeVars, setup>>

------------------------------------------------------------------------------
(* The detached browser setup *)

\* A tool body starts the setup, which an owner that has to go does not, or is told
\* of the last one's failure: of a setup that ran out of time this wedges the owner.
UsesSetup(c) ==
  /\ Runs
  /\ stage[c] = "running"
  /\ \/ /\ setup = "none" /\ ~wedged
        /\ setup' = "running"
        /\ UNCHANGED wedged
     \/ /\ setup = "failed"
        /\ setup' = "none"
        /\ wedged' \in {wedged, TRUE}
  /\ UNCHANGED <<callVars, clockVars, mode, turnover, retired, quiet, lull>>

\* Mistake: the end of the setup does not start a quiet period.
LeavesTheQuiet == UNCHANGED quiet

\* background_activity_finished()
QuietBegins == quiet' = IF inFlight = 0 THEN 0 ELSE quiet

SetupEnds ==
  /\ Runs
  /\ setup = "running"
  /\ setup' \in {"none", "failed"}
  /\ QuietBegins
  /\ lull' = 0
  /\ UNCHANGED <<callVars, clockVars, modeVars>>

------------------------------------------------------------------------------
(* Retirement and the serve loop *)

\* retire(): the first reason is kept.
Retires(reason) == retired' = IF retired = "no" THEN reason ELSE retired

Busy == inFlight > 0 \/ waiting # {} \/ setup = "running"

\* stand_down_route() without a body.
StandDownAsked ==
  /\ Heard
  /\ Retires("turnover")
  /\ turnover' = TRUE
  /\ UNCHANGED <<callVars, clockVars, mode, wedged, idleVars>>

\* stand_down_route() with the idle-only body; a busy owner changes nothing.
RetireAsked ==
  /\ Heard
  /\ ~Busy
  /\ Retires("retire")
  /\ turnover' = TRUE
  /\ UNCHANGED <<callVars, clockVars, mode, wedged, idleVars>>

\* The browser can no longer be driven.
Wedges ==
  /\ Runs
  /\ wedged' = TRUE
  /\ UNCHANGED <<callVars, clockVars, mode, turnover, retired, idleVars>>

\* Mistake: only a queued call is written off.
WrittenOffInTheQueue == {c \in waiting : stage[c] = "queued" /\ unheard[c] > Expiry}

WrittenOff == {c \in waiting : unheard[c] > Expiry}

\* Mistake: silence counts whether or not the owner was there to hear.
ScansRegardless ==
  /\ scanned' = TRUE /\ looked' = TRUE /\ stale' = FALSE
  /\ waiting' = waiting \ WrittenOff
  /\ cancelling' = cancelling \cup WrittenOff
  /\ UNCHANGED unheard

\* cancel_the_abandoned()
Scans ==
  /\ scanned' = TRUE /\ looked' = TRUE /\ stale' = FALSE
  /\ IF scanned /\ stale
       THEN /\ unheard' = [c \in Call |-> IF c \in waiting THEN 0 ELSE unheard[c]]
            /\ UNCHANGED <<waiting, cancelling>>
       ELSE /\ waiting' = waiting \ WrittenOff
            /\ cancelling' = cancelling \cup WrittenOff
            /\ UNCHANGED unheard

unscannedVars == <<stage, wanted, answer, ended, ran, cut, began, inFlight, dropped,
                   silence, awake, stalls, turnover, wedged, idleVars>>

\* The scans while a publication is being reconciled.
ScansBeforeServing ==
  /\ Runs /\ mode = "starting"
  /\ Scans
  /\ UNCHANGED <<unscannedVars, mode, retired, elapsed>>

\* the_endpoint_is_live(), and the loop takes over.
GoesLive ==
  /\ Runs /\ mode = "starting"
  /\ mode' = "serving"
  /\ quiet' = IF quiet = NotQuiet /\ inFlight = 0 THEN 0 ELSE quiet
  /\ lull' = IF quiet = NotQuiet THEN 0 ELSE lull
  /\ UNCHANGED <<callVars, clockVars, turnover, wedged, retired, setup>>

StandsDownWedged ==
  /\ Runs /\ mode = "serving" /\ wedged
  /\ Retires("wedged")
  /\ mode' = "stopping"
  /\ UNCHANGED <<callVars, clockVars, turnover, wedged, idleVars>>

TurnsOver ==
  /\ Runs /\ mode = "serving" /\ ~wedged /\ turnover
  /\ Retires("turnover")
  /\ mode' = "draining"
  /\ UNCHANGED <<callVars, clockVars, turnover, wedged, idleVars>>

IdleRequired == IF setup = "failed" THEN Grace ELSE IdleAfter

IdleLongEnough ==
  /\ IdleAfter > 0
  /\ inFlight = 0 /\ quiet # NotQuiet
  /\ quiet >= IdleRequired

\* One turn of the loop: the scan, and then the idle exit.
Looks ==
  /\ Runs /\ mode = "serving" /\ ~wedged /\ ~turnover
  /\ Scans
  /\ IF IdleLongEnough /\ ~Busy
       THEN Retires("idle") /\ mode' = "stopping"
       ELSE UNCHANGED <<retired, mode>>
  /\ UNCHANGED <<unscannedVars, elapsed>>

\* Mistake: the drain waits for every call.
DrainIsEmpty == inFlight = 0

\* _drain_admitted_calls()
DrainIsOver == inFlight = 0 \/ elapsed = Drain \/ wedged

DrainLooks ==
  /\ Runs /\ mode = "draining" /\ ~DrainIsOver
  /\ Scans
  /\ UNCHANGED <<unscannedVars, mode, retired, elapsed>>

DrainEnds ==
  /\ Runs /\ mode = "draining" /\ DrainIsOver
  /\ waiting' = {}
  /\ cut' = cut \cup waiting
  /\ cancelling' = cancelling \cup waiting
  /\ mode' = "stopping"
  /\ elapsed' = 0
  /\ UNCHANGED <<stage, wanted, answer, ended, ran, began, inFlight, dropped, unheard,
                 silence, awake, stalls, scanned, looked, stale, turnover, wedged,
                 retired, idleVars>>

\* The stopping server's grace is over for a connection.
ConnectionDropped(c) ==
  /\ Runs /\ mode = "stopping"
  /\ c \in InFlight
  /\ dropped' = dropped \cup {c}
  /\ cancelling' = cancelling \cup {c}
  /\ UNCHANGED <<stage, wanted, answer, ended, ran, waiting, cut, began, inFlight,
                 unheard, silence, clockVars, modeVars, idleVars>>

\* The process ends, when it has stopped, hard, or by a crash; what was sent to it
\* is never answered.
ProcessEnds ==
  /\ mode # "exited"
  /\ mode' = "exited"
  /\ LET lost == {c \in Call : stage[c] \notin {"new", "answered"}}
     IN  /\ stage' = [c \in Call |-> IF c \in lost THEN "answered" ELSE stage[c]]
         /\ answer' = [c \in Call |-> IF c \in lost THEN "lost" ELSE answer[c]]
  /\ waiting' = {} /\ cut' = {} /\ began' = {} /\ inFlight' = 0
  /\ cancelling' = {} /\ dropped' = {}
  /\ ended' = [c \in Call |-> "no"]
  /\ unheard' = [c \in Call |-> 0] /\ silence' = [c \in Call |-> 0]
  /\ setup' = "none" /\ quiet' = NotQuiet /\ lull' = 0
  /\ turnover' = FALSE /\ wedged' = FALSE
  /\ elapsed' = 0 /\ looked' = FALSE /\ stale' = FALSE
  /\ UNCHANGED <<wanted, ran, awake, stalls, scanned, retired>>

------------------------------------------------------------------------------
(* Time *)

\* The machine sleeps, or something holds the event loop.
Stalls ==
  /\ mode # "exited"
  /\ awake /\ stalls < MaxStalls
  /\ awake' = FALSE
  /\ stalls' = stalls + 1
  /\ UNCHANGED <<callVars, scanned, looked, stale, elapsed, modeVars, idleVars>>

Resumes ==
  /\ mode # "exited"
  /\ ~awake
  /\ awake' = TRUE
  /\ UNCHANGED <<callVars, stalls, scanned, looked, stale, elapsed, modeVars, idleVars>>

\* The calls whose frontend beats, to an owner that still accepts connections.
Beating ==
  {c \in wanted : stage[c] \in {"sent", "queued", "running", "ended"}}

OneMore(n, most) == IF n < most THEN n + 1 ELSE n

Tick ==
  /\ mode # "exited"
  /\ awake => /\ (mode \in {"serving", "draining"} => looked)
              /\ (mode # "stopping" => \A c \in Beating : silence[c] < Slack)
              /\ (mode = "stopping" /\ elapsed = StopGrace => InFlight \subseteq dropped)
  /\ unheard' = [c \in Call |-> IF c \in waiting THEN OneMore(unheard[c], Expiry + 1)
                                ELSE unheard[c]]
  /\ silence' = [c \in Call |-> IF awake /\ mode # "stopping" /\ c \in Beating
                                  THEN silence[c] + 1 ELSE silence[c]]
  /\ looked' = FALSE
  /\ stale' = (stale \/ ~(awake /\ looked))
  /\ elapsed' = CASE mode = "draining" -> OneMore(elapsed, Drain)
                   [] mode = "stopping" -> OneMore(elapsed, StopGrace)
                   [] OTHER -> 0
  /\ quiet' = IF quiet = NotQuiet THEN quiet ELSE OneMore(quiet, Grace)
  /\ lull' = IF inFlight = 0 /\ setup # "running" THEN OneMore(lull, Grace) ELSE 0
  /\ UNCHANGED <<stage, wanted, answer, ended, ran, waiting, cut, began, inFlight,
                 cancelling, dropped, awake, stalls, scanned, modeVars, setup>>

------------------------------------------------------------------------------
CallStep(c) ==
  \/ Preflight(c) \/ Heartbeat(c) \/ Leaves(c)
  \/ CallArrives(c) \/ BodyBegins(c) \/ Declines(c) \/ Ends(c)
  \/ CancellationLands(c) \/ CallIsAnswered(c) \/ UsesSetup(c) \/ ConnectionDropped(c)

OwnerStep ==
  \/ SetupEnds \/ StandDownAsked \/ RetireAsked \/ Wedges
  \/ ScansBeforeServing \/ GoesLive
  \/ StandsDownWedged \/ TurnsOver \/ Looks \/ DrainLooks \/ DrainEnds \/ ProcessEnds

Next == OwnerStep \/ Stalls \/ Resumes \/ Tick \/ \E c \in Call : CallStep(c)

Spec == Init /\ [][Next]_vars

\* The event loop runs what is ready, a cancellation lands, beats arrive, stalls end
\* and time passes.  No tool body has to end by itself, no client to leave, nobody
\* to ask for anything.
Fairness ==
  /\ WF_vars(GoesLive)
  /\ WF_vars(StandsDownWedged \/ TurnsOver \/ Looks \/ DrainLooks \/ DrainEnds)
  /\ WF_vars(Resumes)
  /\ WF_vars(Tick)
  /\ WF_vars(mode = "stopping" /\ ProcessEnds)
  /\ \A c \in Call :
       /\ WF_vars(Heartbeat(c))
       /\ WF_vars(CallArrives(c))
       /\ WF_vars(CancellationLands(c))
       /\ WF_vars(CallIsAnswered(c))

LiveSpec == Spec /\ Fairness

------------------------------------------------------------------------------
(* Properties *)

\* A call that is refused as one that may be repeated never began its tool body,
\* however the refusal raced the queue, the drain and the cut: repeating it cannot
\* act twice.
RepeatableMeansNotRun == \A c \in Call : answer[c] = "retiring" => c \notin ran

\* The owner as a frontend sees it.
Seen ==
  IF mode = "exited" THEN "gone" ELSE IF retired = "no" THEN "up" ELSE "retiring"
Standing(c) ==
  CASE stage[c] = "new" -> "unsent"
    [] stage[c] = "sent" -> "sent"
    [] stage[c] \in {"queued", "running", "ended"} -> IF c \in ran THEN "acted" ELSE "taken"
    [] stage[c] = "answered" -> IF answer[c] = "retiring" THEN "refused" ELSE "over"
Promise == INSTANCE OwnerPromise
             WITH Request <- Call, owner <- Seen, at <- [c \in Call |-> Standing(c)]

\* The owner keeps what CallRecovery counts on: closed admission never opens again, a
\* body begins once at most, and a request that is refused as one that never ran did
\* not run and never will, however the refusal raced the queue, the drain and the cut.
KeepsItsPromise == Promise!Spec

\* A client that keeps waiting is never told that it stopped: neither a stall of the
\* owner, nor a queue, nor a stand-down is taken for its silence.
WaitingClientIsKept == \A c \in wanted : answer[c] # "abandoned"

\* Admission and retirement are one decision: an owner that retired because nothing
\* needed it has no call and no setup, then or later.
QuietRetirementCutsNobody ==
  retired \in {"idle", "retire"} => InFlight = {} /\ setup # "running"

\* The idle exit is earned by real idleness: neither the start of the process, nor a
\* call, nor a setup that outlived its call counts towards it, and the failure of a
\* setup is kept for the retry it asked for.
IdleExitIsEarned ==
  [][retired = "no" /\ retired' = "idle" => lull >= IdleRequired]_vars

\* A call whose client is gone comes to an end, even one whose body never would.
AbandonedCallEnds ==
  \A c \in Call : c \in InFlight \ wanted ~> c \notin InFlight

\* An owner that has closed admission goes away, whatever its calls do.
RetiredOwnerGoes == retired # "no" ~> mode = "exited"
=============================================================================
