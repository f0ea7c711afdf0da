------------------------------- MODULE Election -------------------------------
(***************************************************************************)
(* How the frontends of one profile come to share one owner process, from  *)
(* daemon_election.py (the frontend's side), daemon_owner.py (the child's  *)
(* side) and daemon_descriptor.py (what the two of them leave on disk).    *)
(*                                                                         *)
(* A frontend looks for a published owner it can use; failing that it      *)
(* starts a child.  The child contends for the daemon lock, proves its     *)
(* endpoint, stages its descriptor and token under a generation of its own *)
(* and waits.  Only the starter's COMMIT record lets it rename the staged  *)
(* descriptor over the canonical one; until that record is sent the        *)
(* starter may kill the child, and after it never, unless the child itself *)
(* says that it gave up.                                                   *)
(*                                                                         *)
(* Simplifications.  A descriptor is its generation; the version, the      *)
(* configuration fingerprint and the token of a generation are those of    *)
(* its starter.  A protocol mismatch and the predecessor startup protocol  *)
(* (no COMMIT record) are left out.  Deadlines are choices: a frontend or  *)
(* child that waits may stop waiting at any time.  The bounded shutdown of *)
(* an endpoint nobody was told about is one step with its verdict, and a   *)
(* killed child is dead at once.                                           *)
(***************************************************************************)
EXTENDS Naturals, Sequences, FiniteSets

CONSTANTS
  Frontend,     \* the client processes that want an owner
  Builds,       \* the package versions installed, ordered as numbers
  Settings,     \* the configurations an owner may be asked to serve
  MaxGen,       \* bound: children started in a behaviour
  MaxMishaps,   \* bound: crashes, failed starts and failed renames
  Nobody        \* the starter of a generation not started yet

ASSUME BoundsAssumption == MaxGen \in Nat \ {0} /\ MaxMishaps \in Nat
ASSUME BuildsAssumption == Builds \subseteq Nat
ASSUME NobodyAssumption == Nobody \notin Frontend

VARIABLES
  build,        \* the version each frontend runs
  settings,     \* the configuration each frontend runs
  pc,           \* where each frontend is in its election
  child,        \* the child it started and still waits on, 0 when none
  owner,        \* the owner it is attached to, 0 when none
  buried,       \* the generations it has written off
  asked,        \* whether it has asked an owner to stand down
  proc,         \* where each generation's process is
  starter,      \* the frontend that started it
  said,         \* its verdicts its starter has not read
  control,      \* what its control channel holds: "none", "commit" or "eof"
  turnover,     \* the owners asked to stand down
  lock,         \* the generation holding the daemon lock, 0 when free
  canonical,    \* the generation the published descriptor names, 0 when none
  pending,      \* the generations whose staged descriptor is on disk
  tokens,       \* the generations whose token is on disk
  doomed,       \* the generations a cleanup thread has yet to discard
  killed,       \* history: the generations a frontend killed while they ran
  mishaps

frontends == <<build, settings, pc, child, owner, buried, asked>>
children  == <<proc, starter, said, control, turnover>>
disk      == <<canonical, pending, tokens, doomed>>
vars == <<frontends, children, lock, disk, killed, mishaps>>

Gen == 1..MaxGen
Phase == {"unborn", "starting", "locked", "prepared", "uncertain", "serving",
          "leaving", "dead"}
Verdict == {"prepared", "committed", "aborted", "retry", "failed"}

TypeOK ==
  /\ build \in [Frontend -> Builds] /\ settings \in [Frontend -> Settings]
  /\ pc \in [Frontend -> {"looking", "contending", "waiting", "awaiting",
                          "settling", "attached", "direct", "dead"}]
  /\ child \in [Frontend -> 0..MaxGen] /\ owner \in [Frontend -> 0..MaxGen]
  /\ buried \in [Frontend -> SUBSET Gen] /\ asked \in [Frontend -> BOOLEAN]
  /\ proc \in [Gen -> Phase] /\ starter \in [Gen -> Frontend \cup {Nobody}]
  /\ said \in [Gen -> Seq(Verdict)]
  /\ control \in [Gen -> {"none", "commit", "eof"}]
  /\ turnover \subseteq Gen /\ lock \in 0..MaxGen /\ canonical \in 0..MaxGen
  /\ pending \subseteq Gen /\ tokens \subseteq Gen /\ doomed \subseteq Gen
  /\ killed \subseteq Gen /\ mishaps \in 0..MaxMishaps
  /\ \A f \in Frontend : /\ (child[f] # 0) = (pc[f] \in {"waiting", "awaiting"})
                        /\ (owner[f] # 0) = (pc[f] = "attached")
  /\ lock # 0 => proc[lock] \notin {"unborn", "starting", "dead"}

Init ==
  /\ build \in [Frontend -> Builds] /\ settings \in [Frontend -> Settings]
  /\ pc = [f \in Frontend |-> "looking"]
  /\ child = [f \in Frontend |-> 0] /\ owner = [f \in Frontend |-> 0]
  /\ buried = [f \in Frontend |-> {}] /\ asked = [f \in Frontend |-> FALSE]
  /\ proc = [g \in Gen |-> "unborn"] /\ starter = [g \in Gen |-> Nobody]
  /\ said = [g \in Gen |-> <<>>] /\ control = [g \in Gen |-> "none"]
  /\ turnover = {} /\ lock = 0 /\ canonical = 0
  /\ pending = {} /\ tokens = {} /\ doomed = {} /\ killed = {} /\ mishaps = 0

Mishap == mishaps < MaxMishaps /\ mishaps' = mishaps + 1

(***************************************************************************)
(* Looking for an owner                                                    *)
(***************************************************************************)

\* Whether the endpoint answers a listing.  A retiring owner still does.
Listening(g) == proc[g] \in {"prepared", "uncertain", "serving", "leaving"}

\* Whether an owner has closed admission for good.
Retired(g) == proc[g] \in {"leaving", "dead"} \/ g \in turnover

\* The pair of files names an owner this election has not written off.
Published(f) == canonical # 0 /\ canonical \notin buried[f] /\ canonical \in tokens

SameBuild(f, g) == build[starter[g]] = build[f]
SameSettings(f, g) == settings[starter[g]] = settings[f]
Stale(f, g) == build[starter[g]] < build[f]

\* An unusable look sends an active election to the lock; a settling one only
\* looks again.
Onward(f) ==
  pc' = [pc EXCEPT ![f] = IF @ = "looking" THEN "contending" ELSE @]

Buries(f, g) == buried' = [buried EXCEPT ![f] = @ \cup {g}]

FindsNothing(f) ==
  /\ Published(f) => ~SameSettings(f, canonical) /\ ~SameBuild(f, canonical)
  /\ Onward(f)
  /\ UNCHANGED <<build, settings, child, owner, buried, asked, turnover>>

\* A stale owner is asked once to stand down, never by a settling election,
\* and written off either way.
FindsStale(f) ==
  /\ Published(f) /\ SameSettings(f, canonical) /\ Stale(f, canonical)
  /\ LET asks == pc[f] = "looking" /\ ~asked[f]
     IN /\ asked' = [asked EXCEPT ![f] = @ \/ asks]
        /\ turnover' = IF asks /\ Listening(canonical)
                       THEN turnover \cup {canonical} ELSE turnover
  /\ Buries(f, canonical) /\ Onward(f)
  /\ UNCHANGED <<build, settings, child, owner>>

\* A compatible owner, or one of this build that serves another configuration.
Probes(f) ==
  /\ Published(f)
  /\ IF SameSettings(f, canonical) THEN ~Stale(f, canonical) ELSE SameBuild(f, canonical)

FindsRefused(f) ==
  /\ Probes(f) /\ ~Listening(canonical)
  /\ Buries(f, canonical) /\ Onward(f)
  /\ UNCHANGED <<build, settings, child, owner, asked, turnover>>

\* Mistake: silence is taken for a refusal.
BuriesTheSilent(f) ==
  /\ Probes(f) /\ Listening(canonical) /\ SameSettings(f, canonical)
  /\ Buries(f, canonical) /\ Onward(f)
  /\ UNCHANGED <<build, settings, child, owner, asked, turnover>>

FindsSilent(f) ==
  /\ Probes(f) /\ Listening(canonical) /\ SameSettings(f, canonical)
  /\ Onward(f)
  /\ UNCHANGED <<build, settings, child, owner, buried, asked, turnover>>

FindsAnswering(f) ==
  /\ Probes(f) /\ Listening(canonical) /\ SameSettings(f, canonical)
  /\ pc' = [pc EXCEPT ![f] = "attached"]
  /\ owner' = [owner EXCEPT ![f] = canonical]
  /\ UNCHANGED <<build, settings, child, buried, asked, turnover>>

\* Another configuration on this build: alive or silent, it keeps the browser
\* and this client drives one of its own.
LeavesTheRivalAlone(f) ==
  /\ Probes(f) /\ Listening(canonical) /\ ~SameSettings(f, canonical)
  /\ pc' = [pc EXCEPT ![f] = "direct"]
  /\ UNCHANGED <<build, settings, child, owner, buried, asked, turnover>>

Looks(f) ==
  /\ pc[f] \in {"looking", "settling"}
  /\ \/ FindsNothing(f) \/ FindsStale(f) \/ FindsRefused(f)
     \/ FindsSilent(f) \/ FindsAnswering(f) \/ LeavesTheRivalAlone(f)
  /\ UNCHANGED <<proc, starter, said, control, lock, disk, killed, mishaps>>

\* The active budget ends in a tail that only looks, and the tail in a browser
\* of the client's own.
RunsOutOfTime(f) ==
  /\ pc[f] \in {"looking", "contending", "settling"}
  /\ pc' = [pc EXCEPT ![f] = IF @ = "settling" THEN "direct" ELSE "settling"]
  /\ UNCHANGED <<build, settings, child, owner, buried, asked, children, lock,
                 disk, killed, mishaps>>

\* An attached proxy whose owner refuses or drops its calls elects again.
LosesItsOwner(f) ==
  /\ pc[f] = "attached" /\ Retired(owner[f])
  /\ pc' = [pc EXCEPT ![f] = "looking"]
  /\ Buries(f, owner[f])
  /\ owner' = [owner EXCEPT ![f] = 0] /\ asked' = [asked EXCEPT ![f] = FALSE]
  /\ UNCHANGED <<build, settings, child, children, lock, disk, killed, mishaps>>

(***************************************************************************)
(* Starting a child                                                        *)
(***************************************************************************)

Spawns(f) ==
  /\ pc[f] = "contending"
  /\ \E g \in Gen :
       /\ proc[g] = "unborn" /\ \A h \in 1..(g - 1) : proc[h] # "unborn"
       /\ proc' = [proc EXCEPT ![g] = "starting"]
       /\ starter' = [starter EXCEPT ![g] = f]
       /\ child' = [child EXCEPT ![f] = g]
  /\ pc' = [pc EXCEPT ![f] = "waiting"]
  /\ UNCHANGED <<build, settings, owner, buried, asked, said, control, turnover,
                 lock, disk, killed, mishaps>>

\* Too soon for another start: somebody else's child is given its time.
HoldsBack(f) ==
  /\ pc[f] = "contending"
  /\ pc' = [pc EXCEPT ![f] = "looking"]
  /\ UNCHANGED <<build, settings, child, owner, buried, asked, children, lock,
                 disk, killed, mishaps>>

\* Mistake: the lock outlives its holder.
EndsHoldingTheLock(g) == proc' = [proc EXCEPT ![g] = "dead"] /\ UNCHANGED lock

\* The child's process ends and the kernel frees the lock it held.
Ends(g) ==
  /\ proc' = [proc EXCEPT ![g] = "dead"]
  /\ lock' = IF lock = g THEN 0 ELSE lock

\* Ends the child, and hands what it staged to a cleanup thread when its
\* generation is known to the starter.
Abandons(f, staged) ==
  LET g == child[f]
  IN /\ Ends(g)
     /\ killed' = IF proc[g] = "dead" THEN killed ELSE killed \cup {g}
     /\ doomed' = IF staged THEN doomed \cup {g} ELSE doomed

\* The verdicts that leave nothing to wait for; only a permanent failure ends
\* the active election.
AfterTheStart(f, permanent) ==
  /\ pc' = [pc EXCEPT ![f] = IF permanent THEN "settling" ELSE "looking"]
  /\ child' = [child EXCEPT ![f] = 0]
  /\ said' = [said EXCEPT ![child[f]] = <<>>]

Heard(f) == said[child[f]]
NextIs(f, v) == Heard(f) # <<>> /\ Head(Heard(f)) = v

\* Prepared, attached to its control channel and valid on disk: authorized.
\* From this record on the child owns itself.
SendsCommit(f) ==
  /\ pc[f] = "waiting" /\ NextIs(f, "prepared")
  /\ child[f] \in pending \cap tokens
  /\ said' = [said EXCEPT ![child[f]] = Tail(@)]
  /\ control' = [control EXCEPT ![child[f]] = "commit"]
  /\ pc' = [pc EXCEPT ![f] = "awaiting"]
  /\ UNCHANGED <<build, settings, child, owner, buried, asked, proc, starter,
                 turnover, lock, disk, killed, mishaps>>

\* Prepared, but its state was unreadable or not read in time, or it never
\* attached: it is stopped and its generation discarded.
RejectsThePrepared(f) ==
  /\ pc[f] = "waiting" /\ NextIs(f, "prepared")
  /\ Abandons(f, TRUE)
  /\ \E permanent \in BOOLEAN : AfterTheStart(f, permanent)
  /\ UNCHANGED <<build, settings, owner, buried, asked, starter, control, turnover,
                 canonical, pending, tokens, mishaps>>

\* A failure, a lost lock, silence past the budget or a closed pipe.
StopsTheUnprepared(f) ==
  /\ pc[f] = "waiting"
  /\ AfterTheStart(f, NextIs(f, "aborted")) \/ AfterTheStart(f, FALSE)
  /\ Abandons(f, FALSE)
  /\ UNCHANGED <<build, settings, owner, buried, asked, starter, control, turnover,
                 canonical, pending, tokens, mishaps>>

HearsOfTheCommit(f) ==
  /\ pc[f] = "awaiting" /\ NextIs(f, "committed")
  /\ AfterTheStart(f, FALSE)
  /\ UNCHANGED <<build, settings, owner, buried, asked, proc, starter, control,
                 turnover, lock, disk, killed, mishaps>>

\* The child itself says that its generation is not published and will not be.
StopsTheGivenUp(f) ==
  /\ pc[f] = "awaiting"
  /\ \E v \in {"aborted", "retry"} :
       NextIs(f, v) /\ AfterTheStart(f, v = "aborted")
  /\ Abandons(f, FALSE)
  /\ UNCHANGED <<build, settings, owner, buried, asked, starter, control, turnover,
                 canonical, pending, tokens, mishaps>>

\* Mistake: silence after the commit record is failure.
StopsTheMissing(f) ==
  /\ pc[f] = "awaiting"
  /\ AfterTheStart(f, FALSE) /\ Abandons(f, FALSE)
  /\ UNCHANGED <<build, settings, owner, buried, asked, starter, control, turnover,
                 canonical, pending, tokens, mishaps>>

\* A verdict that is missing, late or no verdict at all proves nothing: dead,
\* slow and committed look the same.  The child is left to settle itself and
\* the next look reads what is published.
SettlesTheMissing(f) ==
  /\ pc[f] = "awaiting"
  /\ AfterTheStart(f, FALSE)
  /\ UNCHANGED <<build, settings, owner, buried, asked, proc, starter, control,
                 turnover, lock, disk, killed, mishaps>>

\* The cleanup thread may finish long after its frontend stopped waiting for it.
Discards(g) ==
  /\ g \in doomed
  /\ doomed' = doomed \ {g}
  /\ pending' = pending \ {g} /\ tokens' = tokens \ {g}
  /\ UNCHANGED <<frontends, children, lock, canonical, killed, mishaps>>

\* A client is closed while it waits on a child.  The child is detached and
\* lives on; the control channel it was not told anything on ends.
FrontendDies(f) ==
  /\ child[f] # 0 /\ Mishap
  /\ pc' = [pc EXCEPT ![f] = "dead"] /\ child' = [child EXCEPT ![f] = 0]
  /\ control' = [control EXCEPT ![child[f]] = IF @ = "none" THEN "eof" ELSE @]
  /\ said' = [said EXCEPT ![child[f]] = <<>>]
  /\ doomed' = {g \in doomed : starter[g] # f}
  /\ UNCHANGED <<build, settings, owner, buried, asked, proc, starter,
                 turnover, lock, canonical, pending, tokens, killed>>

(***************************************************************************)
(* The child                                                               *)
(***************************************************************************)

\* Nobody reads the pipe of a starter that stopped waiting.
Says(g, v) ==
  said' = IF child[starter[g]] = g THEN [said EXCEPT ![g] = Append(@, v)] ELSE said

\* Losing the lock is an ordinary race.
ContendsForTheLock(g) ==
  /\ proc[g] = "starting"
  /\ \/ /\ lock = 0 /\ lock' = g
        /\ proc' = [proc EXCEPT ![g] = "locked"] /\ UNCHANGED said
     \/ lock # 0 /\ Says(g, "retry") /\ Ends(g)
  /\ UNCHANGED <<frontends, starter, control, turnover, disk, killed, mishaps>>

\* The endpoint does not come up or does not answer its own probe.
FailsToStart(g) ==
  /\ proc[g] = "locked" /\ Mishap
  /\ Says(g, "failed") /\ Ends(g)
  /\ UNCHANGED <<frontends, starter, control, turnover, disk, killed>>

\* Under the lock: every generation but the canonical one is swept, then this
\* one is staged.
Swept == tokens \cap {canonical}
Prepares(g) ==
  /\ proc[g] = "locked"
  /\ tokens' = Swept \cup {g} /\ pending' = {g}
  /\ proc' = [proc EXCEPT ![g] = "prepared"]
  /\ Says(g, "prepared")
  /\ UNCHANGED <<frontends, starter, control, turnover, lock, canonical, doomed,
                 killed, mishaps>>

\* Mistake: the end of the channel is taken for the record.
AnyEndGoesAhead(g) == control[g] # "none"

GoAhead(g) == control[g] = "commit"

Renames(g) == g \in pending /\ canonical' = g /\ pending' = pending \ {g}

\* The rename returns, fails provably before it happened, or fails in a way a
\* remote file system may report after applying it.
Commits(g) ==
  /\ proc[g] = "prepared" /\ GoAhead(g)
  /\ \/ /\ Renames(g) /\ proc' = [proc EXCEPT ![g] = "serving"]
        /\ Says(g, "committed") /\ UNCHANGED <<lock, mishaps>>
     \/ /\ Mishap /\ Says(g, "aborted") /\ Ends(g)
        /\ UNCHANGED <<canonical, pending>>
     \/ /\ Mishap \/ (g \notin pending /\ UNCHANGED mishaps)
        /\ Renames(g) \/ UNCHANGED <<canonical, pending>>
        /\ proc' = [proc EXCEPT ![g] = "uncertain"]
        /\ UNCHANGED <<said, lock>>
  /\ UNCHANGED <<frontends, starter, control, turnover, tokens, doomed, killed>>

HearsTheStarterGo(g) ==
  /\ proc[g] = "prepared" /\ control[g] = "eof"
  /\ Says(g, "aborted") /\ Ends(g)
  /\ UNCHANGED <<frontends, starter, control, turnover, disk, killed, mishaps>>

\* Mistake: a prepared child waits for as long as it takes.
WaitsForTheStarter(g) == proc[g] = "prepared" /\ UNCHANGED vars

\* The authorization does not arrive in time, or arrives as time runs out.
AuthorizationTimesOut(g) ==
  /\ proc[g] = "prepared"
  /\ Says(g, "retry") /\ Ends(g)
  /\ UNCHANGED <<frontends, starter, control, turnover, disk, killed, mishaps>>

\* The lock stays held until a read names this generation or a rename returns.
Reconciles(g) ==
  /\ proc[g] = "uncertain" /\ g \notin turnover
  /\ \/ canonical = g /\ UNCHANGED <<canonical, pending>>
     \/ canonical # g /\ Renames(g)
  /\ proc' = [proc EXCEPT ![g] = "serving"]
  /\ Says(g, "committed")
  /\ UNCHANGED <<frontends, starter, control, turnover, lock, tokens, doomed,
                 killed, mishaps>>

\* Mistake: an owner gives the lock back before it has drained.
RetiresUnlocking(g) ==
  /\ proc[g] = "serving"
  /\ proc' = [proc EXCEPT ![g] = "leaving"] /\ lock' = 0
  /\ UNCHANGED <<frontends, starter, said, control, turnover, disk, killed, mishaps>>

\* Idle for long enough, or unable to drive the browser any more.
Retires(g) ==
  /\ proc[g] = "serving"
  /\ proc' = [proc EXCEPT ![g] = "leaving"]
  /\ UNCHANGED <<frontends, starter, said, control, turnover, lock, disk, killed,
                 mishaps>>

\* A newer build asked; a generation still reconciling is never published on.
TurnsOver(g) ==
  /\ g \in turnover /\ proc[g] \in {"serving", "uncertain"}
  /\ proc' = [proc EXCEPT ![g] = "leaving"]
  /\ UNCHANGED <<frontends, starter, said, control, turnover, lock, disk, killed,
                 mishaps>>

\* The drain and the shutdown are bounded; the descriptor is left behind.
Stops(g) ==
  /\ proc[g] = "leaving" /\ Ends(g)
  /\ UNCHANGED <<frontends, starter, said, control, turnover, disk, killed, mishaps>>

Crashes(g) ==
  /\ proc[g] \notin {"unborn", "dead"} /\ Mishap /\ Ends(g)
  /\ UNCHANGED <<frontends, starter, said, control, turnover, disk, killed>>

(***************************************************************************)
(* The specification                                                       *)
(***************************************************************************)

FrontendStep(f) ==
  \/ Looks(f) \/ RunsOutOfTime(f) \/ LosesItsOwner(f) \/ Spawns(f) \/ HoldsBack(f)
  \/ SendsCommit(f) \/ RejectsThePrepared(f) \/ StopsTheUnprepared(f)
  \/ HearsOfTheCommit(f) \/ StopsTheGivenUp(f) \/ SettlesTheMissing(f)
  \/ FrontendDies(f)

\* What a running child does next of its own accord.
ChildProceeds(g) ==
  \/ ContendsForTheLock(g) \/ Prepares(g) \/ Commits(g) \/ HearsTheStarterGo(g)
  \/ AuthorizationTimesOut(g) \/ Reconciles(g) \/ TurnsOver(g) \/ Stops(g)

Next ==
  \/ \E f \in Frontend : FrontendStep(f)
  \/ \E g \in Gen : ChildProceeds(g) \/ FailsToStart(g) \/ Retires(g)
                    \/ Crashes(g) \/ Discards(g)

\* Every wait of a child is bounded by a timer of its own.  Nothing is assumed
\* of the frontends, whose processes may be suspended or killed.
KeepsOn(g) == WF_vars(ChildProceeds(g))
Fairness == \A g \in Gen : KeepsOn(g)

Spec == Init /\ [][Next]_vars /\ Fairness

(***************************************************************************)
(* Properties                                                              *)
(***************************************************************************)

\* What is published stays whole: no frontend has killed the owner the
\* descriptor names, whatever verdict it missed, and no cleanup or sweep has
\* taken the token that clients need to talk to it.
PublishedIsNeverUndone ==
  canonical # 0 => canonical \notin killed /\ canonical \in tokens

\* A generation a frontend will never contact again is one it could not use:
\* older than the frontend, or on its way out.  An owner that is only slow, or
\* whose publication is still being settled, is never written off.
OnlyTheUnusableAreBuried ==
  \A f \in Frontend : \A g \in buried[f] : Stale(f, g) \/ Retired(g)

\* The descriptor changes hands only under the daemon lock and only to a
\* generation its starter validated and authorized.
PublishedUnderTheLock ==
  [][canonical' # canonical => lock = canonical' /\ control[canonical'] = "commit"]_vars

\* A child is an owner from the moment it has the lock until it ends, and closes
\* admission when it leaves or is asked to make way.
OwnerSeen(g) ==
  CASE proc[g] \in {"unborn", "starting"} -> "unborn"
    [] proc[g] = "dead" -> "gone"
    [] OTHER -> IF Retired(g) THEN "retiring" ELSE "up"
Succession == INSTANCE OwnerSuccession
                WITH Owner <- Gen, owner <- [g \in Gen |-> OwnerSeen(g)]

\* However many children contend, lose, crash or are killed: there is one owner at a
\* time, it comes when the one before it is gone, and closed admission stays closed.
OneOwnerAfterAnother == Succession!Spec

\* A child that takes the lock serves or gives it back, even when its starter
\* is suspended or dies with the authorization unsent.
LockIsPutToUse ==
  \A g \in Gen : lock = g ~> lock # g \/ proc[g] = "serving"

================================================================================
