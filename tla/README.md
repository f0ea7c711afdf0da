# TLA+ models of the LinkedIn MCP server

The server drives one Chromium on one profile for however many MCP clients are
running. Either each client has its own server process ("direct") or all of them
share one detached process ("owner") through a proxy ("frontend"). What is hard in
this code is not the scraping. It is who may have the browser, what happens to
the profile when a browser cannot be proven gone, and what a client is told about
a call that was cut off: a second Chromium on the profile destroys a session, and
a wrong answer sends a message twice. The models are about that.

Paths below are relative to `linkedin_mcp_server/`.

## 1. Inventory

| Component | State it keeps | Operations | Talks to | What makes it correct |
|---|---|---|---|---|
| Profile lease, `profile_lease.py` | kernel lock on `profile.lock`, `_refs`, `_browser_open`, acquisition time; the handoff file | `try_acquire`, `acquire`, `release`, `announce`, `handoff_requested`, markers | other processes, through two locked files | one holder; no reference lost or dropped twice |
| Browser singleton, `drivers/browser.py` | `_browser`, `_browser_lease`, `_last_activity`, `_calls_in_flight`, two asyncio locks | get or create, four kinds of close, the handover poll | lease, manager, guardian, role | never two Chromiums; no close under a call; an unproven teardown keeps the profile |
| Tool middleware, `sequential_tool_middleware.py` | the tool lock | `on_call_tool` | lease, singleton, liveness | one body at a time, with the profile held |
| Crash guardian, `process_guardian.py`, `process_tree.py` | markers, a copy of the lease descriptor | arm, release, drain | control pipe, process table | the profile is not free before Chromium is gone |
| Browser manager, `core/browser.py` | handles, `_close_proven`, `_close_interrupted` | start, close | driver, process tree | a close verdict is never one of another launch |
| Lifespan and role, `server.py`, `server_role.py` | `_must_stand_down`, `_must_hard_exit` | start, stop, ask to stand down | singleton, serve loop | a stranded owner is replaced |
| Owner admission, `daemon_liveness.py` | `_waiting`, `_cut`, `_began`, `_in_flight`, `_quiet_since`, `_last_scan`, `retire_reason` | admit, heard, scan, retire, cut off, release | middleware, routes, serve loop | who is refused, stopped, and told what |
| Serve loop, `daemon_owner.py` | turnover mark, the serving task | scan, idle exit, drain, stop, hard exit | liveness, daemon lock | an owner that promised to go, goes, and not too early |
| Frontend, `daemon_proxy.py`, `daemon_auth.py` | current attachment, heartbeat tasks | preflight, beat, recover, repeat, repair a sign-in | owner over loopback | a call that may act reaches a body at most once |
| Election, `daemon_election.py`, `daemon.py`, `daemon_descriptor.py`, `process_control.py` | descriptor, token, child process | contend, prepare, commit, publish, stand an older build down | daemon lock, child | at most one published owner, and a lost verdict is settled |
| Daemon lock, `daemon_lock.py` | a descriptor and its copies | acquire, hand over, adopt, release | kernel | never free while an owner serves |
| Session state, `session_state.py` | auth artifacts, quarantines | rotate, restore, clear | lease, file system | one session in one place, at any failure |
| Bootstrap, `bootstrap.py` | setup and login state | detached setup, background login, quiescence | installer, liveness | setup ends; a login is not started twice |
| Installer, `installer_*.py`, `process_gate.py`, `process_protocol.py` | two gates, two pipes | arm, start, report | parent, worker | nothing survives its parent |
| Profile claim, `profile_claim.py`, `browser_downgrade.py` | marker file | claim, require | file lock | one claimer decides |
| Message sending, `linkedin/message_sender.py` | page state | verify, submit, confirm | page | a sent message is not sent again |
| Invitations, `linkedin/connection_actions.py`, `linkedin/connection.py`, `scraping/network.py` | page state | connect, accept, ignore, withdraw | page, the member | an invitation is sent only as asked, and the status is true |
| Login and import, `setup.py`, `browser_import/` | the session being made | open, export, commit, stage, validate, end | rotation, lease, worker threads | a sign-in that comes to nothing restores what it retired |

Private state and ACLs, storage classification, scraping, the command line and
configuration are listed in `PROJECT.json` with the reason they are left out.
`scraping/` is a near copy of `linkedin/`.

How the parts meet. Every tool call passes the middleware, which takes the profile lease
and then asks the singleton for the browser; the singleton drives the manager, whose
launch arms a guardian that shares the lease descriptor. In an owner the calls come
through `daemon_liveness` from frontends, and the serve loop decides when the owner goes.
A frontend finds or starts its owner by an election and repeats what was lost when the
owner goes away. A sign-in, in a frontend or in a server of its own, replaces the stored
session under the same lease the browser needs.

The behaviours that are hard to test are the `hazards` of `PROJECT.json`, each at its
line: interleavings of tool calls, the poller and the shutdown inside one event loop,
crashes of a process at any step, teardowns that prove nothing, suspended machines,
clients that leave silently, and drains that must end.

## 2. Plan

Done, in this order: `SharedBrowser` with `ExclusiveProfile`, `OwnerCalls`, `CallRecovery`,
`SessionRotation`, `Election`, `BrowserSetup`, `SendMessage`, `Invitations`, and a module
of proofs for each component.

The modules meet at abstract specifications rather than in one composition, which would be
too large to check. Each is small, and says what one side promises and the other relies on:

| Abstract specification | Implemented by | Relied on by |
|---|---|---|
| `ExclusiveProfile`: one lease, no browser without it | `SharedBrowser`, `SessionRotation` | each other: both take the lease as free when nobody in it has a browser |
| `OwnerSuccession`: one owner after the other | `Election` | `CallRecovery`, whose owners come and go by it |
| `OwnerPromise`: what an owner does with a request | `OwnerCalls` | `CallRecovery`, whose owners treat requests by it |
| `ClientPromise`: what a client may repeat | `CallRecovery`, `SendMessage` | the client |

`OwnerTerms` holds the guards of owners and requests. `CallRecovery` is written with them,
and so are `OwnerSuccession` and `OwnerPromise`: what `CallRecovery` assumes of its
environment is word for word what `Election` and `OwnerCalls` are shown to do. Its elections
may find any live owner that it has not been told to pass over. `BrowserSetup` and
`OwnerCalls` share the detached setup: the first runs it, the second counts it as work.
`SendMessage` and `Invitations` are what two tools do with a browser that `SharedBrowser` has
given them; calls take turns at it, so neither sees the other's page.

Left, most useful first:

1. The teardown steps of `core/browser.py` under cancellation, as a refinement of the
   close of `SharedBrowser`.
2. The predecessor startup protocol and a protocol mismatch in `Election`.
3. Windows: job objects in `BrowserSetup`, the adoption of an owner.

## 3. Modules

### ExclusiveProfile: what sharing the profile promises

Two variables, the holder of the lease and the set of processes that have a Chromium on the profile. A
process acquires a free profile, launches only while it holds it, and releases only
when no Chromium is left. `SharedBrowser` implements it with the mapping
`holder <- lock`, `live <- {p : chromium[p]}`, checked by TLC as `LeasePromise` and
proved as `ImplementsTheLease`. `SessionRotation` implements it with `holder <- lease`,
`live <- Browsing`, the processes that have a login window or validate an import: its
`UsesTheLease`, proved as `SignInsUseTheLease`.

### OwnerTerms, OwnerSuccession, OwnerPromise, ClientPromise: what the parts owe each other

`OwnerTerms` says when an owner may come, retire and go, and when it may take, begin, answer
or refuse a request. The signed refusal, which tells a frontend that nothing ran, has two
occasions in `daemon_liveness.py`: a call that comes when admission is closed, and one that
was admitted and was still queued when the drain of a leaving owner ran out.

| Abstract | In `Election` (`OwnerSeen`) | In `OwnerCalls` (`Seen`, `Standing`) |
|---|---|---|
| owner `"unborn"` | not started, or contending for the lock | - |
| `"up"`, `"retiring"` | holds the lock and has not, or has, closed admission | has not, or has, closed admission |
| `"gone"` | dead | its process has ended |
| request `"sent"`, `"taken"` | - | on its way; admitted, its body not begun |
| `"acted"` | - | its body has begun |
| `"refused"`, `"over"` | - | answered as retiring; answered otherwise, or lost |

`ClientPromise` has two variables, what each call's client was told and how often the call
had its effect. A call acts once at most, and one whose client is told to make it again has
not acted and never will; of any other answer the effect may still come later. In
`CallRecovery` the answer to repeat is `"lost"` and `acted` counts effects. In `SendMessage`
it is `retry_safe` or an error, each of the client's calls is a call of its own, and the
effect is the message that LinkedIn is sent. An answer that leaves the outcome open maps to
`"other"`, as a plain success does: it permits nothing.

### SharedBrowser: processes that share one profile

One step is what an asyncio task does between two awaits, because nothing else can
interleave inside a process. A process has three tasks: the running tool call (the tool
lock lets one through), the handoff poller and the shutdown. `pc[p][t]` says where each
stands. Processes interleave freely and crash at any step.

| Code | Model |
|---|---|
| kernel lock on `profile.lock`, `_refs`, `_browser_open`, `held_seconds` | `lock`, `refs`, `browserOpen`, `matured` |
| shared lock on the handoff file | `announced`; `ProbeMayCollide` for one refused by a probe |
| `_browser`, `_browser_lease`, `_calls_in_flight`, `_last_activity` | `browser`, `browserLease`, `callsInFlight`, `worked` |
| holder of `_browser_lifecycle_lock` | `lifecycle` |
| `_must_hard_exit` | `mustExit` |
| a page the body got from `get_or_create_browser` | `page` (live, or gone since) |
| Chromium, guardian process | `chromium`, `guardian` |
| middleware | `CallArrives`, `StartsWaiting`, `PollsTheLease`, `GivesUp`, `BodyBegins`, `CallFinishes` |
| `get_or_create_browser`, `_create_browser` | `GetsTheBrowser`, `WantsABrowser`, `LaunchRefused`, `LaunchBegins`, `ChromiumStarts`, `LaunchSucceeds`, `LaunchFails`, `LaunchUnconfirmed` |
| `close_browser`, `close_unusable_browser`, `_settle_the_profile` | `CallAsksForAClose`, `CallFindsItDead`, `CloseBegins`, `CloseFindsNothing`, `RetireFindsAnother`, `CloseConfirmed`, `CloseUnconfirmed` |
| `release_profile_if_idle_or_requested` and below | `HandsOver`, `IdleTooLong`, `PollerDecides`, `HandoverTakesTheLock`, `HandoverDeclined`, `HandoverBegins`, `HandoverCancelled` |
| lifespan, process exit | `ProcessStarts`, `LifespanEnds`, `LifespanCloses`, `ProcessDies` |
| guardian | `DescriptorsClose`, `GuardianKills`, `GuardianExits` |

`_browser_create_lock` is not a variable: it only orders creators among themselves, and
a process has one call slot. The guard and the re-check of a handover are separate
steps on purpose, with the start of the teardown task between them: that is the gap
`_close_browser_if_still_idle` was written for.

Abstracted: time (the minimum hold has passed or not; a deadline may strike at any
moment), authentication and cookie export inside a launch or a close (they end it well,
badly or unproven), the search for marked processes (the guardian finds them all, in
any number of scans). Left out: Windows jobs, the reset after a fork, a guardian that
dies before its process, a browser driver spawned after its process died, a process
whose profile root is retargeted while it runs, references taken by worker threads.

### OwnerCalls: admission, abandonment and retirement

One owner, its calls and their frontends. `stage[c]` follows a call from the preflight
through the queue and the tool body to the answer; the middleware resumes in a step of
its own after the call's task ended, since a cancellation, a cut and a release may fall
between the two.

| Code | Model |
|---|---|
| `_waiting` and its `last_heard`, `_cut`, `_began`, `_in_flight` | `waiting` and `unheard`, `cut`, `began`, `inFlight` |
| `retire_reason`, `_quiet_since`, `_last_scan` | `retired`, `quiet`, `scanned` with `looked` and `stale` |
| `stand_down_reason()`, `turnover` list | `wedged`, `turnover` |
| `running.cancel()`, uvicorn's own cancellation | `cancelling`, `dropped` |
| preflight, heartbeats, a client that leaves | `Preflight`, `Heartbeat`, `Leaves` |
| `OwnerCallLivenessMiddleware` | `CallArrives`, `CancellationLands`, `AnswerTo`, `CallIsAnswered` |
| tool middleware, seen from here | `BodyBegins`, `Declines`, `Ends` |
| `cancel_the_abandoned` | `Scans`, in `ScansBeforeServing`, `Looks`, `DrainLooks` |
| `_serve_until_stopped`, `_turn_over`, `_drain_admitted_calls` | `Looks`, `StandsDownWedged`, `TurnsOver`, `DrainLooks`, `DrainEnds` |
| the two stand-down requests | `StandDownAsked`, `RetireAsked` |
| detached browser setup | `UsesSetup`, `SetupEnds` |

Time passes in ticks of about a heartbeat. A tick needs the owner's loop to have
scanned, and every waiting frontend to have been heard within `Slack` ticks, unless the
owner is stalled: `Stalls` and `Resumes` stand for a suspended machine, starvation and a
blocked loop, and in between time passes while the owner takes no step. `silence` and
`lull` are history variables: ticks the owner was really there and heard nothing, and
ticks it really had nothing to do. `ran` remembers which bodies ever began.

A client finds the owner by the descriptor that is renamed into place, and the serve loop
does not await between that rename and its first `cancel_the_abandoned()`, nor does the
reconciliation of an uncertain rename. So no request is heard before the first scan, however
long the owner stalls in between: `Heard` guards preflights, heartbeats and the stand-down
route with `scanned`, which is what the stall rule of `abandoned()` relies on.

`ProcessEnds` may happen at any step, which covers the hard exits, crashes, and the
immediate exits of an owner that cannot settle its publication. A call that was sent to
it is then "lost", and what a frontend does about that belongs to `CallRecovery`.

### CallRecovery: a call whose owner goes away

One frontend with its client's operations: listings, calls of tools that only read, calls
of tools that change something. Owners come one after the other. A request that has left
the frontend is a record in `requests` that the owner may take, act on, answer or drop at
any later time, also after the frontend stopped waiting: nothing forwards a cancellation.

| Code | Model |
|---|---|
| `DaemonProxyBackend`: attachment, `_unusable`, the shared election | `attachment`, `unusable`, `flight` |
| the owner a call's heartbeats go to, the one its client is opened on | `binding`, `target` |
| `OwnerUnreachableError` with its class and `unsent` | `failure` |
| an attempt: preflight, heartbeats, opening the session, the request | `BeginsCall`, `PreflightAnswered`, `OpensClient`, `SendsToolRequest`, `ListingAnswered`, `RequestUnanswered` |
| the owner's answers | `OwnerTakes`, `OwnerActs`, `OwnerRefuses`, `OwnerAnswers`, `OwnerAsksForSignIn` |
| `recover()`, `_elect()` | `Recovers`, `ElectionLands`, `ReadsTheElection` |
| what is decided after it | `ListingDecides`, `CallDecides`, `RepeatFails` |
| `daemon_auth.py`: the marker, waiting, the replay | `SignInEnds`, `ReplayRunsOut` |
| the client leaves, owners come and go | `ClientLeaves`, `OwnerLives` |

`try` numbers the attempts 1 and 2, and 3 and 4 after a sign-in. `acted` counts effects on
LinkedIn. An election is reduced to what it may answer: an owner that is up, or nobody.
Owners come, go and treat requests under `OwnerTerms`. A refusal may therefore also hit a
request that had been taken and was still queued, which ends in the same recovery.
Left out: resources and prompts, which go the way of listings, and schema checks.

### SessionRotation: the stored session and its replacements

A session is three artifacts (profile directory, cookies, metadata), each at its live path,
in a quarantine, or parked beside one. Every move or deletion is a step. `task[p]` and
`pc[p]` say what a process is doing and how far it is; the lease is taken where the code
takes it and, as in the code, files are read outside it.

| Code | Model |
|---|---|
| `rotate_source_profile`, its undo, `superseded_by` | `Lists`, `TakesItToMove`, `MovesAway`, `RotationDone`, `UndoesTheMoves` |
| `_restore_source_profile_locked`, `_retire` | `Parks`, `PutsBack`, `Restored`, `RetiresAgain` |
| manual login, `setup.py` | `OpensTheLogin`, `ExportsCookies`, `Commits`, `EndsTheLogin` |
| import, `browser_import/orchestrate.py` | `Extracts`, `StagesCookies`, `OpensTheValidation`, `Rejected`, `EndsTheImport`, `TheWorkerStages` |
| `a_peer_already_signed_in`, `current_login_generation` | `APeerSignedIn`, `Generation` |
| `--logout`, `clear_auth_state` | `AsksToLogOut`, `LogsOut`, `Deletes` |
| retirement of a session that stopped working, `bootstrap.py` | task `"retire"` |
| death of a process at any step | `Dies` |

`mishaps` counts moves that fail with the file in place and deaths half way. `tainted` is a
history variable: a sign-in that was given up left files behind, or wrote them late. The
code does allow that (see the differences below), and three of the properties are stated
up to it. Left out: derived runtime profiles, cookies read out of other browsers.

### Election: how frontends come to share one owner

| Code | Model |
|---|---|
| descriptor (version, fingerprint, generation), staged copy, token | `canonical`, `pending`, `tokens` |
| daemon lock | `lock` |
| the child's life | `proc`, from `"starting"` through `"locked"`, `"prepared"`, `"uncertain"`, `"serving"` to `"dead"` |
| pipe of verdicts to the starter, record or end of file to the child | `said`, `control` |
| look, probe, write-off, stand-down of an older build | `Looks` and the `Finds...` operators, `BuriesTheSilent`, `LeavesTheRivalAlone` |
| start and its supervision | `Spawns`, `HoldsBack`, `SendsCommit`, `RejectsThePrepared`, `StopsTheUnprepared`, `HearsOfTheCommit`, `StopsTheGivenUp`, `SettlesTheMissing`, `Discards` |
| the child: contend, prepare, commit, reconcile | `ContendsForTheLock`, `Prepares`, `Commits`, `HearsTheStarterGo`, `AuthorizationTimesOut`, `Reconciles` |
| it retires and stops | `Retires`, `TurnsOver`, `Stops` |
| crashes of either | `FrontendDies`, `Crashes`, `FailsToStart` |

A rename may fail after it was applied; the child is then `"uncertain"` until it has read
the descriptor back. Every deadline of a frontend is a choice. Left out: the predecessor
protocol and a protocol mismatch, stale reads of a remote file system, the lock descriptor
handed down to a child (every caller passes `lock_fd=None`), Windows job adoption.

### BrowserSetup: the detached download of a browser

| Code | Model |
|---|---|
| gate of a tool call, `bootstrap.py` | `CallArrives`, `CallResumes`, `CallLeaves`, with `Consumes`, `RetriesUnheard`, `HearsOfTheFailure` |
| the setup task | `FindsItInstalled`, `StartsTheInstaller`, `OpensTheGate`, `FinishesTheInstall`, `RunsOutOfTime`, `StopCompletes` |
| lifespan, kill, restart | `ShutsDown`, `Exits`, `IsKilled`, `Restarts` |
| `installer_supervisor.py` | `SupervisorStarts`, `SupervisorWatches` |
| `installer_worker.py`, the installer | `WorkerStarts`, `WorkerReports`, `WorkerIsOrphaned`, `TargetEnds`, `TreeCrashes` |

Each attempt has a lease from the server to its supervisor, one from there to the worker,
and an exit status that travels back. `unheard` is a history variable: a failure no tool
call was told of. POSIX only; an installer that leaves its process group is out of reach.

### SendMessage: one message, sent by scripts

The tool does nothing to the page itself. It sends scripts that the page runs in their
order, each in one piece, possibly after the tool has stopped waiting; and the answer may be
lost when the script was not. `Intrusion`s are what LinkedIn or a person does in between:
typing, a remounted composer, another address, a lost page.

| Code | Model |
|---|---|
| the composer, its text, the pin and the ownership mark | `composer`, `text`, `pinned`, `owned` |
| `may_have_submitted`, the reply reserve | the variables of the same name, `reserve` |
| steps of `send_message` | `ChecksTheComposer`, `PinsTheComposer`, `Writes`, `ReadsTheWrite`, `Arms`, `Submits`, `ReadsTheSubmission`, `Confirms`, `Answers` |
| deadlines and a client that leaves | `DeadlinePasses`, `BudgetEnds`, `TimePasses`, `ClientLeaves` |
| the scripts | `RunsWrite`, `RunsSubmit`, `RunsCleanup`, `RunsDispose` |

The client calls again as long as the answer permits. Finding the recipient is one step with
its refusals; what the observer accepts as a confirmation is a choice once the button was
clicked; the event loop is not starved for longer than the reply reserve.

### Invitations: connect, accept, ignore, withdraw

One member and the account. LinkedIn keeps the relation between them, which the member may
change at any time and which pages may show late. A call reads the state of the profile from
structural signals, decides, clicks, and reads the state again.

| Code | Model |
|---|---|
| the relation, what pages may still show | `relation`, `behind` |
| the page, its dialog as a layout of buttons, the link to Premium, the note in the editor | `view`, `dialog`, `nudge`, `draft` |
| `ACTION_SIGNALS_JS`, `detect_connection_state` | `SignalsOf`, `detect_connection_state` |
| `connect_with_person`: branches, accept, More menu, write gate | `BranchesToConnect`, `ClicksAccept`, `VerifiesAccept`, `OpensTheMenu`, `Gates`, `NavigatesToTheInvitation` |
| `_submit_invite_dialog` | `SubmitsTheDialog` to `AwaitsTheClosing` |
| the re-read after an invitation and its settle retry | `Verifies`, `Settles` |
| the page read again after an answer or a withdrawal | `ReRenders`, in `PollsTheProfile`, `ChecksThePending` |
| `_probe_invite_note_limit` | `Probes`, `ProbesTheEditor`, `AnswersTheProbe` |
| `act_on_invitation`, accept and ignore, on the profile or in the list | `BranchesToAnswer`, `ClicksTheRow`, `PollsTheProfile`, `ListsTheReceived`, `ClicksTheCard`, `ListsAgain` |
| `act_on_invitation`, withdraw | `BranchesToWithdraw`, `ClicksPending`, `ConfirmsTheWithdrawal`, `ChecksThePending` |
| what a click does at LinkedIn | `Becomes`, `OpensTheEditor`, `SendsTheInvitation`, `ClosesTheDialog`, chosen by `Presses` |
| the other side, LinkedIn, a portal | `TheMemberActs`, `PagesCatchUp`, `DialogChanges`, `PageIsTaken` |

A dialog's buttons are counted in one step and one of them is pressed by its number in a later
one; in between LinkedIn may mount the editor, put its upsell there, lay the dialog out with
fewer buttons or close it. A press counted on one layout then lands on another, so that one
meant for Add a note may send. The code has no guard against that; such an invitation is
marked (`steady`), and `Swapped` names the exception in the properties. A click may land
whose answer is lost, and what a click that landed asks for may be refused by LinkedIn or lost
(`Becomes`, `SendsTheInvitation`), which is what the verifications after it are there for.

`did` records what the clicks of a call did. Four history variables record why a status could
not know better: `misled`, a landed click whose answer said that it had not; `hasty`, a press
that was answered and whose closing dialog was taken for an open one; `blind`, a page or list
taken for evidence that did not plainly show the relation there is; `meddled`, a relation that
somebody else changed or pages that lagged behind it. Each is set by the one event it names.
Left out: two members, the parsing of cards, and how a script finds its buttons, except that
it may find another person's (`"stray"`). LinkedIn closes the dialog of an invitation it has
recorded within the five seconds the call waits.

`tools/person.py` reaches `connection_actions.py`; `tools/network.py` reaches
`scraping/network.py`, of which `linkedin/network.py` is a copy with other imports.

## 4. Runs

| Run | Instance | Shows |
|---|---|---|
| `SharedBrowserSafety` | an owner and a direct process, both may crash at any step | `TypeOK`, `OneChromium`, `ReferencesAddUp`, `HandoverSparesRunningCalls`, `StrandedUntilDeath`, `LeasePromise` |
| `SharedBrowserLiveness` | the same, nobody dies unasked | `HandoffHonoured`, `StrandedOwnerGivesWay`, `DeathFreesTheProfile` |
| `OwnerCallsSafety` | 2 calls, a setup, one stall, a drain of one tick, idle exit after one tick, or two after a failed setup | `TypeOK`, `KeepsItsPromise`, `WaitingClientIsKept`, `QuietRetirementCutsNobody`, `IdleExitIsEarned` |
| `OwnerCallsLiveness` | 1 call, 1 stall, idle exit | `AbandonedCallEnds`, `RetiredOwnerGoes` |
| `CallRecovery` | 3 owners, any 2 of a listing, a reading and a writing call | `TypeOK`, `PromiseToClients`, `BeatsFollowTheRequest`, `GivesUpInformed` |
| `Election` | 2 frontends, each of either build and configuration, 2 children, 2 mishaps | `TypeOK`, `PublishedIsNeverUndone`, `OnlyTheUnusableAreBuried`, `OneOwnerAfterAnother`, `PublishedUnderTheLock`, `LockIsPutToUse` |
| `SessionRotationSafety` | 2 processes, 2 sessions, 2 quarantines, 1 failed move or death | `TypeOK`, `MixedOnlyIfTainted`, `NothingIsLost`, `NewSessionsAreRespected`, `FailedSignInCostsNothing` |
| `SessionRotationWorker`, `SessionRotationListing` | the same without a mishap | two violations, see below |
| `BrowserSetup` | 2 attempts, 1 mishap in the installer's tree, a server killed at any step | `TypeOK`, `ReadyMeansInstalled`, `NewAttemptsAreDue`, `NothingOutlivesItsLease` |
| `PageTools` | `SendMessage` with 3 calls and 4 intrusions, or `Invitations` with 2 calls and 3 turns of the other side | `TypeOK`, `SentOnceAsMeant`, `InvitationTypeOK`, `InvitedAsAsked`, `StatusIsTrue` |
| `InvitationPress` | 1 call, nothing changed from outside | a violation, see below |

Only the runs of `SharedBrowser` check for deadlock. In the other modules behaviours stop by
themselves: owners have gone and calls are answered, or the children, sessions or attempts
of the bound are used up. Symmetry is used in safety runs only.

### Bounds

* `SharedBrowser`: two processes are enough to see every hazard listed for the profile, a
  holder and one that wants it, with either dying and its slot reused while its guardian
  still drains. References are bounded by what the code takes, not by the model.
* `OwnerCalls`: two calls are needed for the tool lock to hold one in the queue while a
  drain cuts both; a third would be in the same place as the second. `Expiry`, `Slack`,
  `Drain`, `StopGrace`, `IdleAfter` and `Grace` are small but keep the order of the code's
  constants: a beat is heard well within the expiry, a stop's grace is shorter than what is
  left of it (`BeatsFitTheExpiry`), the grace for a failed setup is at least the idle time.
  Counters saturate one past the last value a guard compares with. `MaxStalls` bounds stalls.
* `CallRecovery`: a recovery waits for at most two elections, so a third owner is the
  last one a call can meet before it is answered for good. Two operations at once are what
  the shared election needs: one that starts it and one that joins.
* `Election`: two frontends, because a starter and its rival are all that meet at one child;
  two generations, an owner and its replacement. Two mishaps allow a lost verdict and a
  crash in the recovery from it.
* `SessionRotation`: a session and its replacement, a quarantine for each of the two
  processes; the mishap may fall between any two moves.
* `BrowserSetup`: a failed attempt and its retry. One mishap is a single-failure assumption
  for `NothingOutlivesItsLease`: if supervisor and worker both crash, nobody is left to end
  the installer, in the code as in the model.
* `SendMessage`: a first call, a repeat of it, and one after that; four intrusions can
  change the page at each of its scripts.
* `Invitations`: the second call meets what the first one and the member left behind; three
  turns allow the dialog to be laid out anew or swapped, the page to be taken and the relation
  to change within one call. The first call finds no relation, a request from the member, or
  the account's own profile. `InvitationPress` needs one call and no turn.

The proofs remove the bounds for the properties they state.

### Fairness

In `SharedBrowser`: bounded steps end (a tool timeout cuts a body off; a launch and a
teardown bound their waits), asyncio locks are first come first served (strong fairness on
taking the lifecycle lock), the poller runs every second, and a process that must exit does.
Nothing makes a call arrive, a process start, a wait budget run out or a process die
unasked. In `OwnerCalls`: the loop runs, ready callbacks run, cancellations land, beats
arrive, stalls end and time passes. No body ends by itself and no client leaves: that is
what makes `AbandonedCallEnds` worth having. In `Election`: a child's own waits are bounded
by timers and it goes on; nothing is assumed of frontends. The retries of a reconciliation
are not bounded by the code, so `LockIsPutToUse` rests on the bound on mishaps there. In
`BrowserSetup`: the two watching processes poll; nothing is assumed of the server or of the
installer. The other specifications have safety properties only.

### Differences between the code and its documentation

`SessionRotationWorker` violates `NoTwoSessionsMixed`. An import that runs out of time
stops waiting for its worker thread (`browser_import/orchestrate.py:363`), restores the old
session and lets the profile go; the thread still writes the cookies it has read. They land
on the session restored, or on one a peer has made since.

`SessionRotationListing` violates `RetirementIsWhole`. The artifacts to retire are listed
before the profile is held (`session_state.py:1059`). When a peer's sign-in is moving the
session away at that time and then fails and restores it, the generation is the one the
caller expected, and the process that waited moves only the part that it had seen.

`InvitationPress` violates `LimitMeansRejected`. When the click on Send fails,
`_submit_invite_dialog` presses Enter on the button and takes the press for sent if
`_dialog_is_open(timeout=2000)` says no (`linkedin/connection_actions.py:670`). That helper
waits for a dialog to be visible, so it says yes at once while the dialog of an invitation
just recorded is still closing. With the Premium banner that may sit beside a live editor,
the call then answers `custom_note_limit_reached`, which `tools/person.py:253` explains as a
rejection, and its client sends another invitation without the note. After a click that was
answered the code waits five seconds for the dialog to close, and the comment at line 710
says why. The exception `hasty` of `StatusIsTrue` is this case and no other.

Two more differences are stated in the exception `blind` of `StatusIsTrue`, not as runs.

* The comment at `linkedin/connection_actions.py:965` says that only a pending or already
  accepted invitation is evidence that one landed. That holds of the second reading. The
  first answers `connected` whenever the anchor that offers an invitation is not there
  (line 961), so also on a profile that hides it in the More menu, and on a page that could
  not be read.
* The docstring at `scraping/network.py:2229` says that after Accept the profile should flip
  to `already_connected`. Line 2381 takes anything but an incoming request for success: a
  page that could not be read, and one that shows the labelled anchor of an incoming request
  and is read as pending. Withdrawing (line 2111) takes anything but pending for success,
  and the list of received invitations (line 2196) a list that was cut short.

So `blind` is set when the page read for evidence is not the one that shows the relation
beyond doubt (`Plain`), or the list lacks a request that is there, and only then. A reading
that does show it plainly must be heeded: `StatusIsTrue` fails if any of these readings is
replaced by success.

## 5. Proofs

Each module of proofs extends its component's, assumes only what that module assumes of its
constants, and holds for every value of them: any number of processes, owners, calls,
generations, attempts, intrusions (`TheTreeComesDown` alone asks for more, see below). The invariants of the runs are seldom inductive;
each module defines what has to be added as named parts of `IInv`, proves that every action
keeps it with one lemma per action, and draws the properties from it.

`SharedBrowser_proof`. `OneChromium` is not inductive, since nothing in it says who may start
one. `IInv` adds, for each process, what its references consist of; that the kernel lock is
its own exactly while it holds a reference or its guardian still drains; that a Chromium
implies a guardian; and that a task inside the lifecycle lock is the one `lifecycle` names.
All of it is about one process but for the lock, so a step of one process leaves every other
as it was (`UntouchedStaysConsistent`). Every Chromium then has a process whose claim on the
lock is its own (`SomeCopyHolds`), and there is one lock. `ImplementsTheLease` and the two
action properties follow from the invariant.

Every refinement is proved in the same way: the initial states map to initial states, and
under the invariant, before and after, each action maps to one named action of the abstract
module or to a stutter, one step per action. What the invariants above did not yet say had
to be added for that, and is proved along with them.

`OwnerCalls_proof`. The books of the calls in flight balance: `inFlight` is the number of
calls between their first and their last step, and each of them can be reached by a
heartbeat or is being stopped. Hence nobody is in flight when a quiet retirement has closed
admission. A body that began is marked until its call is answered, so a repeatable refusal
is never given to it. A waiting client's unheard time is at most the beats it missed plus
the time the server has been stopping, unless the owner stalled, which its next scan
knows; this needs the assumption `BeatsFitTheExpiry`, and that no call is heard before the
first scan (`UnknownUntilScanned`). `quiet` never exceeds the real `lull`.
For `OwnerKeepsItsPromise` the invariant needs one fact more (`CutsInRetirement`): calls are
cut off only by an owner that has closed admission, so a refusal that follows a cut is one
`OwnerPromise` allows.

`CallRecovery_proof`. A call that changes something has at most one request that could still
act, and is repeated only when that request was never taken (`OneRequest`). Attempts are numbered
upwards, so a request somebody waits for is the latest one, addressed to the owner the
heartbeats go to. An election begun after a burial, or the second one a recovery waits for,
has been told of that burial. `ClientsCanCountOnIt` draws on all of it: an answer is
`"lost"` only when the one request there was has been refused or was never sent, so no step
that acts can follow it. `NoEffectTwice` and `RepeatableWasNotDone` state two sides of that
by themselves.

`Election_proof`. The lock is with whoever may rename; nothing is renamed without its
starter's record; after that record a starter ends its child only on the child's own verdict
of giving up, and a child that has given up is dead and never was published.
`OwnersSucceedEachOther` follows from where the lock is: a child comes by taking it, every
child past that point and not dead holds it, and only an owner that is up can be asked to
make way (`AskedWasUp`).

`BrowserSetup_proof`. The processes of an attempt start once and in order, and a good exit
status is sent only after the installer ended well; an untold failure is always the end of the
latest task, which the gate reads before it starts another.

`SendMessage_proof`. The one script that may click is on its way only in a call that records
that it may have submitted, and only while nothing was sent; such a call gives no answer its
client may repeat. The script checks address, pin and text itself, in one piece with the click.
`AnswersMayBeHeeded` is about each call by itself. By the invariant a call that may be
repeated has sent nothing and left no script that could, so whatever is sent, the latest call
sends; beyond that it needs only that there is a call whenever there is an answer (`Counted`).

`Invitations_proof`. `InvitedAsAsked` rests on the counting: the reveal and the probe press the
last button but one, which sends only in a dialog that has lost a button since (`RevealsOf`),
and a call with a note presses the last one only after the note is in the editor (`AsCounted`,
`AsShown`). For `NothingMeansNothing` the invariant says, of every step of a call, what its
clicks may have done by then: nothing before the first of them (`NothingYet`). For
`DoneMeansDone` it says what a call that comes to verify something knows (`AsDone`): the click
has taken effect, or the relation is still the one that was there. The page that plainly shows
that relation is one the code does not take for success (`PlainOf`, `StateOf`); so the theorem
rests on what each verification reads and on the test it makes.

`SessionRotation_proof`. The files of the profile are moved only by the process that holds its
lease, so what lies where is known at each of that process's steps: `Laid` says what is in place
and what is retired at its point, `Accounted` which of the two is whole, `Meant` that it is the
session its guard named, and `Orderly` what is true of the files whoever holds them. Every
step of a bystander leaves all of this (`BystanderKeeps`), which is what reduces a rotation among
any number of processes to one process's sequence of moves. What is said of the files is said as
long as nothing is `tainted`: a sign-in that was given up and left files behind does break it.
None of the properties is inductive by itself: that no session is lost says nothing of which of
two half-moved directories an undo will put back. `SignInsUseTheLease` needs only the part of
the invariant about the lease: every place at which a browser of a sign-in may be open is one
at which its process holds it (`BrowsersHold`).

### What happens eventually

Five of the seven liveness properties are theorems too, drawn from the invariants and from
the fairness of the specifications. A weakly fair step happens only if it stays *enabled*,
and the provers know nothing of `ENABLED`. So each of these theorems carries, as an explicit
hypothesis, a formula that says which steps are open where, and nothing else:

| Hypothesis | Says | Used by |
|---|---|---|
| `LastStepsAreOpen` | a process that must exit can die, and a draining guardian can kill or exit | `TheDeadLetGo`, `TheStrandedLetGo`, `WaitersAreServed` |
| `HandoffStepsAreOpen` | while a browser is kept from a waiter: an unripe hold can ripen, a running call can finish, an idle poller can decide, an ended lifespan can close, a task inside the lifecycle lock can get on, and one that waits for a free lock can enter | `WaitersAreServed` |
| `HoldersCanProceed` | a child that holds the daemon lock and does not serve has a step of its own | `TheLockIsPutToUse` |
| `TreesCanBeTakenDown` | a watching supervisor, or an orphaned worker, can end a running installer | `TheTreeComesDown` |

They are facts about single states: all the reasoning over time is proved. TLC has found each
of them to be an invariant of the reachable states of the runs' instances (up to 1.16 million
states); to repeat that, give a copy of the run's configuration the line
`INVARIANT HoldersCanProceed`, and so on, and check the module of proofs with it.

* `TheDeadLetGo`, `TheStrandedLetGo`. What a process leaves behind only dwindles
  (`WhatIsLeftDwindles`): a guardian that drains does nothing but kill and then close. One
  fair step ends the Chromium, the next gives back the lock.
* `WaitersAreServed`. Once the hold has ripened it stays so while the waiter waits. A
  handover that has entered the lifecycle lock lets the browser go, unless it is the poller's
  and a call is running; then that call ends, asks for a handover itself, and its own is not
  declined. Taking the lifecycle lock is strongly fair, and the lock comes free again and
  again, since whoever is inside gets on. If the lifespan ends meanwhile, its close takes the
  browser down instead.
* `TheLockIsPutToUse`. No step of another takes a holder of the lock back, and each of its
  own takes it to a later phase (`Later`), of which there are finitely many. One fact had to
  be added (`NothingStagedIsLost`): what an uncertain holder staged is still pending or has
  been renamed, so its reconciliation finds something to go by.
* `TheTreeComesDown`. With at most one process killed or stuck, a running installer still
  has a supervisor that watches its lease or a worker that will find itself orphaned
  (`AllLookedAfter`). With two, both may be gone, so `MaxMishaps <= 1` is assumed. The run has the same
  bound.

| Module | Theorems |
|---|---|
| `SharedBrowser_proof` | `ConsistentAlways`, `TypeCorrect`, `OneChromiumAlways`, `ReferencesAddUpAlways`, `ImplementsTheLease`, `StrandedStays`, `HandoverIsHarmless`, `TheDeadLetGo`, `TheStrandedLetGo`, `WaitersAreServed` |
| `OwnerCalls_proof` | `BooksAlways`, `CallsAreTyped`, `RepeatsAreSafe`, `QuietRetirements`, `WaitingClients`, `IdleExits`, `OwnerKeepsItsPromise` |
| `CallRecovery_proof` | `InductiveInvariant`, `TypeCorrect`, `NoEffectTwice`, `RepeatableWasNotDone`, `BeatsAreHeard`, `NobodyGivesUpUninformed`, `ClientsCanCountOnIt` |
| `Election_proof` | `InPlaceAlways`, `ElectionTyped`, `NeverUndone`, `BurialsAreEarned`, `PublishesUnderTheLock`, `OwnersSucceedEachOther`, `TheLockIsPutToUse` |
| `BrowserSetup_proof` | `InOrderAlways`, `SetupTyped`, `ReadyIsEarned`, `AttemptsAreDue`, `TheTreeComesDown` |
| `SendMessage_proof` | `ClickIsRemembered`, `SendTyped`, `SentOnce`, `AnswersMayBeHeeded` |
| `Invitations_proof` | `KeptAlways`, `InvitationsTyped`, `InvitesAsAsked`, `StatusesAreTrue` |
| `SessionRotation_proof` | `AlwaysInPlace`, `RotationTyped`, `NeverMixed`, `EverythingIsKept`, `PeersAreRespected`, `FailuresAreFree`, `SignInsUseTheLease` |

Only model-checked: `AbandonedCallEnds` and `RetiredOwnerGoes` of `OwnerCalls`. Both count
ticks of a clock down to a bound that is a constant, which takes an induction over the
naturals inside a temporal proof, and the library's induction theorems take an operator as
their parameter, which none of the provers can instantiate. The four hypotheses about
`ENABLED` above are model-checked too.

## 6. Not modelled

* Reading LinkedIn pages, parsing and wording (`scraping/`, most of `linkedin/`, `tools/`):
  most of the lines of the repository, with no state shared across calls. What is right
  there depends on LinkedIn's markup, not on an order of steps.
* Private state and ACLs, storage classification: sequential code over file permissions and
  mount tables.
* Profile claim and downgrade guard: one critical section that reads again before it writes.
* References taken by worker threads (`session_state.py:937`): `_refs` is changed without a
  lock, and a model of that would be one of the interpreter.
* Who among several waiters gets the lease: the kernel promises no order.
* Windows throughout.
* Configuration, the command line but for `--logout`, logging and progress.

`PROJECT.json` gives for each component what is modelled and what is not.

## 7. Running

    tlc -workers 2 -config SharedBrowserSafety.cfg SharedBrowser.tla
    tlc -workers 2 -config OwnerCallsSafety.cfg MCOwnerCalls.tla
    tlc -workers 2 -config CallRecovery.cfg MCCallRecovery.tla
    tlc -workers 2 -config SessionRotationSafety.cfg MCSessionRotation.tla
    tlc -workers 2 -config Election.cfg Election.tla
    tlc -workers 2 -config PageTools.cfg MCPageTools.tla
    tlapm SharedBrowser_proof.tla

The `runs` of `PROJECT.json` name the module of each configuration. Every run ends within
two minutes on two cores; the largest, `SessionRotationSafety`, has 4.6 million states.
