-------------------------- MODULE SessionRotation --------------------------
(* Who replaces the stored LinkedIn session, and what is left of the old one:  *)
(* session_state.py moves and deletes its files, setup.py (login) and          *)
(* browser_import/orchestrate.py (import) put a new one in their place,        *)
(* bootstrap.py retires one that stopped working and cli_main.py logs out.     *)
(*                                                                             *)
(* Every move of a file or directory is a step, since a crash or a failing     *)
(* move may come between two of them, and so are the steps of a process that   *)
(* reads the files without holding the profile.                                *)
EXTENDS Integers, FiniteSets

CONSTANTS
  Proc,          \* processes, each a server, a frontend or a command at a terminal
  MaxSession,    \* bound: sessions ever made, the first one included
  MaxQuarantine, \* bound: rotations that get as far as making a directory
  MaxMishaps     \* bound: moves that fail with the file in place, and deaths half way

ASSUME BoundsAreNumbers ==
  /\ MaxSession \in Nat \ {0} /\ MaxQuarantine \in Nat /\ MaxMishaps \in Nat
ASSUME ProcsAreNamed == "nobody" \notin Proc

VARIABLES
  live,        \* the session each artifact at its live path belongs to
  kept,        \* the same for each quarantine directory
  debris,      \* and for what a restore parked beside it
  rotations,   \* quarantines made so far
  minted,      \* sessions made so far
  lease,       \* who holds the profile lease
  task,        \* what a process is doing
  pc,          \* how far it is
  guard,       \* superseded_by, or the session a logout was confirmed for
  todo,        \* the artifacts this phase still has to move
  moved,       \* those it has moved
  retired,     \* the quarantine a login or import may have to restore
  fresh,       \* the session it is making
  adrift,      \* the session whose cookies a cancelled import's worker still writes
  mishaps,     \* failed moves and deaths so far
  tainted,     \* history: files of a sign-in that was given up were left, or came late
  spoiled,     \* history: a move failed, or was refused, in this task
  before,      \* history: the session stored when the task took the profile
  established, \* history: sessions that were once complete at the live paths
  forgotten    \* history: sessions a logout set out to delete

files == <<live, kept, debris, rotations, minted>>
tasks == <<task, pc, guard, todo, moved, retired, fresh, adrift>>
histories == <<tainted, spoiled, before, established, forgotten>>
vars == <<files, tasks, histories, lease, mishaps>>

\* The derived runtime profiles, moved last with the rest, are left out.
Artifact == {"profile", "cookies", "state"}
Rank == [profile |-> 1, cookies |-> 2, state |-> 3]
Session == 1..MaxSession
NoSession == 0
Unguarded == -1
Quarantine == 1..MaxQuarantine
NoQuarantine == 0
Nothing == [a \in Artifact |-> NoSession]
Nobody == "nobody"

Contents == [Artifact -> Session \cup {NoSession}]

Steps == {"idle", "lists", "holds", "moves", "undoes", "asks", "opens", "opened",
          "exported", "committed", "staging", "staged", "validating", "parks",
          "putsBack", "retiresAgain", "ends", "stuck", "asked", "deletes"}

TypeOK ==
  /\ live \in Contents
  /\ kept \in [Quarantine -> Contents] /\ debris \in [Quarantine -> Contents]
  /\ rotations \in 0..MaxQuarantine /\ minted \in 0..MaxSession
  /\ lease \in Proc \cup {Nobody}
  /\ lease # Nobody => pc[lease] # "idle"
  /\ task \in [Proc -> {"none", "retire", "login", "import", "logout"}]
  /\ pc \in [Proc -> Steps]
  /\ guard \in [Proc -> {Unguarded, NoSession} \cup Session]
  /\ todo \in [Proc -> SUBSET Artifact] /\ moved \in [Proc -> SUBSET Artifact]
  /\ retired \in [Proc -> Quarantine \cup {NoQuarantine}]
  /\ fresh \in [Proc -> Session \cup {NoSession}]
  /\ adrift \in [Proc -> Session \cup {NoSession}]
  /\ mishaps \in 0..MaxMishaps
  /\ tainted \in BOOLEAN /\ spoiled \in [Proc -> BOOLEAN]
  /\ before \in [Proc -> Session \cup {NoSession}]
  /\ established \subseteq Session /\ forgotten \subseteq Session

\* One session is stored, or none is.
Init ==
  /\ \/ live = [a \in Artifact |-> 1] /\ minted = 1 /\ established = {1}
     \/ live = Nothing /\ minted = 0 /\ established = {}
  /\ kept = [q \in Quarantine |-> Nothing] /\ debris = [q \in Quarantine |-> Nothing]
  /\ rotations = 0
  /\ lease = Nobody
  /\ task = [p \in Proc |-> "none"] /\ pc = [p \in Proc |-> "idle"]
  /\ guard = [p \in Proc |-> Unguarded]
  /\ todo = [p \in Proc |-> {}] /\ moved = [p \in Proc |-> {}]
  /\ retired = [p \in Proc |-> NoQuarantine]
  /\ fresh = [p \in Proc |-> NoSession] /\ adrift = [p \in Proc |-> NoSession]
  /\ mishaps = 0 /\ tainted = FALSE
  /\ spoiled = [p \in Proc |-> FALSE]
  /\ before = [p \in Proc |-> NoSession]
  /\ forgotten = {}

------------------------------------------------------------------------------
(* What is on disk *)

Present(place) == {a \in Artifact : place[a] # NoSession}

\* _auth_ready(), and what a restore takes for a committed replacement.
Ready(place) == Present(place) = Artifact

\* One session, complete.
Whole(place, s) == \A a \in Artifact : place[a] = s

\* current_login_generation()
Generation == live["state"]

\* Mistake: whatever is on disk is taken for the session that was complained about.
NeverAPeer(g) == FALSE

\* a_peer_already_signed_in()
APeerSignedIn(g) == g # Unguarded /\ Ready(live) /\ Generation # g

\* The next artifact in the order of _auth_state_targets().
Foremost(S) == CHOOSE a \in S : \A b \in S : Rank[a] <= Rank[b]

Goes(p, step) == pc' = [pc EXCEPT ![p] = step]

\* A move or deletion of a file that is there fails.
Fault(p) ==
  /\ mishaps < MaxMishaps
  /\ mishaps' = mishaps + 1
  /\ spoiled' = [spoiled EXCEPT ![p] = TRUE]

\* The process is done with its task: nothing of it is left but the files.
Forgets(p) ==
  /\ Goes(p, "idle")
  /\ task' = [task EXCEPT ![p] = "none"]
  /\ guard' = [guard EXCEPT ![p] = Unguarded]
  /\ todo' = [todo EXCEPT ![p] = {}] /\ moved' = [moved EXCEPT ![p] = {}]
  /\ retired' = [retired EXCEPT ![p] = NoQuarantine]
  /\ fresh' = [fresh EXCEPT ![p] = NoSession]
  /\ spoiled' = [spoiled EXCEPT ![p] = FALSE]
  /\ before' = [before EXCEPT ![p] = NoSession]

\* The profile is the process's own, and shows no other holder (profile_in_use_by).
Holds(p) == lease \in {p, Nobody}

------------------------------------------------------------------------------
(* The start of a task *)

\* A tool call that found the session broken retires it, and a login or an import
\* that a tool call starts supersedes the generation read here; a command at a
\* terminal supersedes whatever it finds.
Starts(p, t, g) ==
  /\ pc[p] = "idle"
  /\ task' = [task EXCEPT ![p] = t]
  /\ guard' = [guard EXCEPT ![p] = g]
  /\ Goes(p, IF t = "retire" THEN "lists" ELSE "asks")
  /\ UNCHANGED <<files, todo, moved, retired, fresh, adrift, histories, lease,
                 mishaps>>

StartsATask(p) ==
  \/ Starts(p, "retire", Generation)
  \/ \E t \in {"login", "import"}, g \in {Unguarded, Generation} : Starts(p, t, g)

\* Login and import: the profile is waited for, and only then is a peer looked for.
TakesTheProfile(p) ==
  /\ pc[p] = "asks"
  /\ Holds(p)
  /\ lease' = p
  /\ before' = [before EXCEPT ![p] = IF Ready(live) THEN Generation ELSE NoSession]
  /\ IF APeerSignedIn(guard[p]) THEN Goes(p, "ends") ELSE Goes(p, "lists")
  /\ UNCHANGED <<files, task, guard, todo, moved, retired, fresh, adrift, tainted,
                 spoiled, established, forgotten, mishaps>>

\* Another client keeps the profile for longer than the wait.
GivesUp(p) ==
  /\ pc[p] \in {"asks", "asked"}
  /\ ~Holds(p)
  /\ Forgets(p)
  /\ UNCHANGED <<files, adrift, lease, tainted, established, forgotten, mishaps>>

------------------------------------------------------------------------------
(* rotate_source_profile() *)

\* What comes after a rotation, whether or not there was anything to retire: the
\* replacement, or its cancellation (rotate_shielded), or the end of a retirement.
AfterRotation(p, q) ==
  /\ retired' = [retired EXCEPT ![p] = q]
  /\ \/ task[p] = "retire" /\ Goes(p, "ends")
     \/ task[p] = "login" /\ Goes(p, "opens")
     \/ task[p] = "import" /\ Goes(p, "staging")
     \/ task[p] # "retire" /\ Goes(p, IF q = NoQuarantine THEN "ends" ELSE "parks")

\* Mistake: the cookies and the metadata are left to be overwritten.
TheProfileOnly == Present(live) \cap {"profile"}

Existing == Present(live)

\* The artifacts are listed before the profile is asked for.
Lists(p) ==
  /\ pc[p] = "lists"
  /\ todo' = [todo EXCEPT ![p] = Existing]
  /\ IF Existing = {} THEN AfterRotation(p, NoQuarantine)
                           ELSE Goes(p, "holds") /\ UNCHANGED retired
  /\ UNCHANGED <<files, task, guard, moved, fresh, adrift, histories, lease,
                 mishaps>>

\* The profile is held, which a login or an import already does, and the session on
\* disk is not a peer's; or nothing is touched.
TakesItToMove(p) ==
  /\ pc[p] = "holds"
  /\ \/ /\ Holds(p)
        /\ lease' = p
        /\ IF task[p] = "retire" /\ APeerSignedIn(guard[p])
             THEN Goes(p, "ends") /\ UNCHANGED rotations
             ELSE /\ rotations < MaxQuarantine
                  /\ rotations' = rotations + 1
                  /\ Goes(p, "moves")
        /\ UNCHANGED spoiled
     \/ /\ spoiled' = [spoiled EXCEPT ![p] = TRUE]
        /\ Goes(p, "ends")
        /\ UNCHANGED <<lease, rotations>>
  /\ retired' = [retired EXCEPT ![p] = IF pc'[p] = "moves" THEN rotations' ELSE @]
  /\ UNCHANGED <<live, kept, debris, minted, task, guard, todo, moved, fresh, adrift,
                 tainted, before, established, forgotten, mishaps>>

MovesAway(p) ==
  /\ pc[p] = "moves" /\ todo[p] # {}
  /\ LET a == Foremost(todo[p])
         q == retired[p]
     IN  \/ /\ live[a] # NoSession
            /\ kept' = [kept EXCEPT ![q][a] = live[a]]
            /\ live' = [live EXCEPT ![a] = NoSession]
            /\ todo' = [todo EXCEPT ![p] = @ \ {a}]
            /\ moved' = [moved EXCEPT ![p] = @ \cup {a}]
            /\ UNCHANGED <<pc, mishaps, spoiled>>
         \/ /\ IF live[a] = NoSession THEN UNCHANGED <<mishaps, spoiled>> ELSE Fault(p)
            /\ Goes(p, "undoes")
            /\ UNCHANGED <<live, kept, todo, moved>>
  /\ UNCHANGED <<debris, rotations, minted, task, guard, retired, fresh, adrift,
                 tainted, before, established, forgotten, lease>>

RotationDone(p) ==
  /\ pc[p] = "moves" /\ todo[p] = {}
  /\ AfterRotation(p, retired[p])
  /\ moved' = [moved EXCEPT ![p] = {}]
  /\ UNCHANGED <<files, task, guard, todo, fresh, adrift, histories, lease, mishaps>>

\* _restore(): best effort, and then the failure is passed on.
UndoesTheMoves(p) ==
  /\ pc[p] = "undoes"
  /\ IF moved[p] = {}
       THEN /\ Goes(p, "ends")
            /\ UNCHANGED <<live, kept, moved, mishaps, spoiled>>
       ELSE LET a == Foremost(moved[p])
                q == retired[p]
            IN  /\ moved' = [moved EXCEPT ![p] = @ \ {a}]
                /\ UNCHANGED pc
                /\ \/ /\ live' = [live EXCEPT ![a] = kept[q][a]]
                      /\ kept' = [kept EXCEPT ![q][a] = NoSession]
                      /\ UNCHANGED <<mishaps, spoiled>>
                   \/ Fault(p) /\ UNCHANGED <<live, kept>>
  /\ UNCHANGED <<debris, rotations, minted, task, guard, todo, retired, fresh, adrift,
                 tainted, before, established, forgotten, lease>>

------------------------------------------------------------------------------
(* A new session *)

Mints(p) ==
  /\ minted < MaxSession
  /\ minted' = minted + 1
  /\ fresh' = [fresh EXCEPT ![p] = minted + 1]

\* The login browser starts, on a profile directory of its own.
OpensTheLogin(p) ==
  /\ pc[p] = "opens"
  /\ Mints(p)
  /\ live' = [live EXCEPT !["profile"] = IF @ = NoSession THEN fresh'[p] ELSE @]
  /\ Goes(p, "opened")
  /\ UNCHANGED <<kept, debris, rotations, task, guard, todo, moved, retired, adrift,
                 histories, lease, mishaps>>

ExportsCookies(p) ==
  /\ pc[p] = "opened"
  /\ live' = [live EXCEPT !["cookies"] = fresh[p]]
  /\ Goes(p, "exported")
  /\ UNCHANGED <<kept, debris, rotations, minted, task, guard, todo, moved, retired,
                 fresh, adrift, histories, lease, mishaps>>

\* write_source_state()
Commits(p) ==
  /\ \/ pc[p] = "exported" /\ Goes(p, "committed")
     \/ pc[p] = "validating" /\ Goes(p, "ends")
  /\ live' = [live EXCEPT !["state"] = fresh[p]]
  /\ established' = IF Whole(live', fresh[p]) THEN established \cup {fresh[p]}
                                              ELSE established
  /\ UNCHANGED <<kept, debris, rotations, minted, task, guard, todo, moved, retired,
                 fresh, adrift, tainted, spoiled, before, forgotten, lease, mishaps>>

\* The login succeeds, fails or is cancelled, and its browser is closed: the old
\* session is restored unless the close proved nothing.
EndsTheLogin(p) ==
  /\ \/ pc[p] = "committed" /\ Goes(p, "ends")
     \/ /\ pc[p] \in {"opens", "opened", "exported", "committed"}
        /\ Goes(p, IF retired[p] = NoQuarantine THEN "ends" ELSE "parks")
     \/ pc[p] \in {"opened", "exported", "committed"} /\ Goes(p, "stuck")
  /\ UNCHANGED <<files, task, guard, todo, moved, retired, fresh, adrift, histories,
                 lease, mishaps>>

\* A worker reads a browser's cookies.
Extracts(p) ==
  /\ pc[p] = "staging" /\ fresh[p] = NoSession
  /\ Mints(p)
  /\ UNCHANGED <<live, kept, debris, rotations, task, pc, guard, todo, moved, retired,
                 adrift, histories, lease, mishaps>>

\* And stages what it found.
StagesCookies(p) ==
  /\ pc[p] = "staging" /\ fresh[p] # NoSession
  /\ live' = [live EXCEPT !["cookies"] = fresh[p]]
  /\ Goes(p, "staged")
  /\ UNCHANGED <<kept, debris, rotations, minted, task, guard, todo, moved, retired,
                 fresh, adrift, histories, lease, mishaps>>

OpensTheValidation(p) ==
  /\ pc[p] = "staged"
  /\ live' = [live EXCEPT !["profile"] = IF @ = NoSession THEN fresh[p] ELSE @]
  /\ Goes(p, "validating")
  /\ UNCHANGED <<kept, debris, rotations, minted, task, guard, todo, moved, retired,
                 fresh, adrift, histories, lease, mishaps>>

\* Mistake: only the staged cookies are dropped.
DropsTheCookies == live' = [live EXCEPT !["cookies"] = NoSession]

\* reset_source_profile()
DropsTheStaged == live' = [live EXCEPT !["cookies"] = NoSession, !["profile"] = NoSession]

\* LinkedIn rejects the candidate, and the next one is tried.  A profile directory
\* that will not go is ignored, a cookie file that will not ends the import.
Rejected(p) ==
  /\ pc[p] = "validating"
  /\ fresh' = [fresh EXCEPT ![p] = NoSession]
  /\ \/ DropsTheStaged /\ Goes(p, "staging") /\ UNCHANGED <<mishaps, spoiled, tainted>>
     \/ /\ Fault(p)
        /\ live' = [live EXCEPT !["cookies"] = NoSession]
        /\ Goes(p, "staging")
        /\ tainted' = TRUE
     \/ /\ Fault(p)
        /\ Goes(p, IF retired[p] = NoQuarantine THEN "ends" ELSE "parks")
        /\ UNCHANGED <<live, tainted>>
  /\ UNCHANGED <<kept, debris, rotations, minted, task, guard, todo, moved, retired,
                 adrift, before, established, forgotten, lease>>

\* No candidate is left, the import fails or its time is over.  The cancellation of
\* the import does not reach the worker, which may be about to stage.
EndsTheImport(p) ==
  /\ \/ /\ pc[p] \in {"staging", "staged", "validating"}
        /\ Goes(p, IF retired[p] = NoQuarantine THEN "ends" ELSE "parks")
     \/ pc[p] = "validating" /\ Goes(p, "stuck")
  /\ adrift' = [adrift EXCEPT ![p] =
                  IF pc[p] = "staging" /\ adrift[p] = NoSession
                  THEN fresh[p] ELSE @]
  /\ UNCHANGED <<files, task, guard, todo, moved, retired, fresh, histories, lease,
                 mishaps>>

TheWorkerStages(p) ==
  /\ adrift[p] # NoSession
  /\ live' = [live EXCEPT !["cookies"] = adrift[p]]
  /\ adrift' = [adrift EXCEPT ![p] = NoSession]
  /\ tainted' = TRUE
  /\ UNCHANGED <<kept, debris, rotations, minted, task, pc, guard, todo, moved, retired,
                 fresh, spoiled, before, established, forgotten, lease, mishaps>>

------------------------------------------------------------------------------
(* restore_source_profile() *)

\* Mistake: whatever lies at the live paths is a replacement.
AnythingIsAReplacement == Present(live) # {}

ReplacementCommitted == Ready(live)

\* What is at the live paths is no session: it is parked beside the backup.
Parks(p) ==
  /\ pc[p] = "parks"
  /\ LET q == retired[p]
     IN  \/ /\ ReplacementCommitted /\ todo[p] = {}
            /\ Goes(p, "ends")
            /\ UNCHANGED <<live, debris, todo, mishaps, spoiled>>
         \/ \* another process is seen on the profile
            /\ todo[p] = {}
            /\ spoiled' = [spoiled EXCEPT ![p] = TRUE]
            /\ Goes(p, "ends")
            /\ UNCHANGED <<live, debris, todo, mishaps>>
         \/ /\ ~(ReplacementCommitted /\ todo[p] = {})
            /\ Present(live) # {}
            /\ LET a == Foremost(Present(live))
               IN  \/ /\ debris' = [debris EXCEPT ![q][a] = live[a]]
                      /\ live' = [live EXCEPT ![a] = NoSession]
                      /\ todo' = [todo EXCEPT ![p] = Present(kept[q])]
                      /\ UNCHANGED <<pc, mishaps, spoiled>>
                   \/ /\ Fault(p)
                      /\ Goes(p, "ends")
                      /\ UNCHANGED <<live, debris, todo>>
         \/ /\ Present(live) = {}
            /\ todo' = [todo EXCEPT ![p] = Present(kept[q])]
            /\ Goes(p, "putsBack")
            /\ UNCHANGED <<live, debris, mishaps, spoiled>>
  /\ UNCHANGED <<kept, rotations, minted, task, guard, moved, retired, fresh, adrift,
                 tainted, before, established, forgotten, lease>>

PutsBack(p) ==
  /\ pc[p] = "putsBack" /\ todo[p] # {}
  /\ LET q == retired[p]
     IN  \E a \in todo[p] :
           \/ /\ live' = [live EXCEPT ![a] = kept[q][a]]
              /\ kept' = [kept EXCEPT ![q][a] = NoSession]
              /\ todo' = [todo EXCEPT ![p] = @ \ {a}]
              /\ moved' = [moved EXCEPT ![p] = @ \cup {a}]
              /\ UNCHANGED <<pc, mishaps, spoiled>>
           \/ /\ Fault(p)
              /\ Goes(p, "retiresAgain")
              /\ UNCHANGED <<live, kept, todo, moved>>
  /\ UNCHANGED <<debris, rotations, minted, task, guard, retired, fresh, adrift,
                 tainted, before, established, forgotten, lease>>

Restored(p) ==
  /\ pc[p] = "putsBack" /\ todo[p] = {}
  /\ moved' = [moved EXCEPT ![p] = {}]
  /\ Goes(p, "ends")
  /\ UNCHANGED <<files, task, guard, todo, retired, fresh, adrift, histories, lease,
                 mishaps>>

\* _retire(), best effort.
RetiresAgain(p) ==
  /\ pc[p] = "retiresAgain"
  /\ IF moved[p] = {}
       THEN /\ Goes(p, "ends")
            /\ UNCHANGED <<live, kept, moved, mishaps, spoiled>>
       ELSE LET a == Foremost(moved[p])
                q == retired[p]
            IN  /\ moved' = [moved EXCEPT ![p] = @ \ {a}]
                /\ UNCHANGED pc
                /\ \/ /\ kept' = [kept EXCEPT ![q][a] = live[a]]
                      /\ live' = [live EXCEPT ![a] = NoSession]
                      /\ UNCHANGED <<mishaps, spoiled>>
                   \/ Fault(p) /\ UNCHANGED <<live, kept>>
  /\ UNCHANGED <<debris, rotations, minted, task, guard, todo, retired, fresh, adrift,
                 tainted, before, established, forgotten, lease>>

------------------------------------------------------------------------------
(* The end of a task *)

\* Mistake: a task that ends early keeps the profile.
ReleasesAtTheEnd(p) == lease' = IF lease = p /\ pc[p] = "ends" /\ todo[p] = {} THEN Nobody ELSE lease

Releases(p) == lease' = IF lease = p THEN Nobody ELSE lease

\* A retirement may be followed by the login it made room for, which supersedes the
\* generation the retirement did.
Ends(p) ==
  /\ pc[p] = "ends"
  /\ Releases(p)
  /\ \/ Forgets(p)
     \/ /\ task[p] = "retire"
        /\ Goes(p, "asks")
        /\ task' = [task EXCEPT ![p] = "login"]
        /\ todo' = [todo EXCEPT ![p] = {}] /\ moved' = [moved EXCEPT ![p] = {}]
        /\ retired' = [retired EXCEPT ![p] = NoQuarantine]
        /\ spoiled' = [spoiled EXCEPT ![p] = FALSE]
        /\ UNCHANGED <<guard, fresh, before>>
  /\ UNCHANGED <<files, adrift, tainted, established, forgotten, mishaps>>

\* The process dies, its guardian ends its browser, and another one starts in its
\* place.  A browser that could not be closed ends no other way.
Dies(p) ==
  /\ pc[p] # "idle" \/ adrift[p] # NoSession
  /\ mishaps < MaxMishaps \/ pc[p] = "stuck"
  /\ mishaps' = IF pc[p] = "stuck" THEN mishaps ELSE mishaps + 1
  /\ Releases(p)
  /\ Forgets(p)
  /\ adrift' = [adrift EXCEPT ![p] = NoSession]
  /\ UNCHANGED <<files, tainted, established, forgotten>>

------------------------------------------------------------------------------
(* clear_auth_state() *)

\* auth_state_identity(): the generation, or else what the cookies belong to.
Identity == IF Generation # NoSession THEN Generation ELSE live["cookies"]

AsksToLogOut(p) ==
  /\ pc[p] = "idle"
  /\ Present(live) # {}
  /\ task' = [task EXCEPT ![p] = "logout"]
  /\ guard' = [guard EXCEPT ![p] = Identity]
  /\ todo' = [todo EXCEPT ![p] = Present(live) \cap {"state"}]
  /\ Goes(p, "asked")
  /\ UNCHANGED <<files, moved, retired, fresh, adrift, histories, lease, mishaps>>

\* The identity read under the lease is the one that was confirmed.
SameSession(p) ==
  /\ Identity = guard[p]
  /\ Present(live) \cap {"state"} = todo[p]

LogsOut(p) ==
  /\ pc[p] = "asked"
  /\ Holds(p)
  /\ lease' = p
  /\ IF SameSession(p)
       THEN /\ Goes(p, "deletes")
            /\ todo' = [todo EXCEPT ![p] = Artifact]
            /\ forgotten' = 1..minted
       ELSE /\ Goes(p, "ends")
            /\ UNCHANGED <<todo, forgotten>>
  /\ UNCHANGED <<files, task, guard, moved, retired, fresh, adrift, tainted, spoiled, before,
                 established, mishaps>>

\* The artifacts one by one, then the quarantines; a failing deletion is passed over.
Deletes(p) ==
  /\ pc[p] = "deletes"
  /\ IF todo[p] # {}
       THEN LET a == Foremost(todo[p])
            IN  /\ todo' = [todo EXCEPT ![p] = @ \ {a}]
                /\ \/ /\ live' = [live EXCEPT ![a] = NoSession]
                      /\ UNCHANGED <<mishaps, spoiled>>
                   \/ live[a] # NoSession /\ Fault(p) /\ UNCHANGED live
                /\ UNCHANGED <<kept, debris, pc>>
       ELSE /\ kept' = [q \in Quarantine |-> Nothing]
            /\ debris' = [q \in Quarantine |-> Nothing]
            /\ Goes(p, "ends")
            /\ UNCHANGED <<live, todo, mishaps, spoiled>>
  /\ UNCHANGED <<rotations, minted, task, guard, moved, retired, fresh, adrift, tainted, before,
                 established, forgotten, lease>>

------------------------------------------------------------------------------
Rotates(p) ==
  \/ Lists(p) \/ TakesItToMove(p) \/ MovesAway(p) \/ RotationDone(p) \/ UndoesTheMoves(p)

Restores(p) == Parks(p) \/ PutsBack(p) \/ Restored(p) \/ RetiresAgain(p)

LogsIn(p) == OpensTheLogin(p) \/ ExportsCookies(p) \/ Commits(p) \/ EndsTheLogin(p)

Imports(p) ==
  \/ Extracts(p) \/ StagesCookies(p) \/ OpensTheValidation(p) \/ Rejected(p)
  \/ EndsTheImport(p) \/ TheWorkerStages(p)

Next ==
  \E p \in Proc :
    \/ StartsATask(p) \/ TakesTheProfile(p) \/ GivesUp(p)
    \/ Rotates(p) \/ Restores(p) \/ LogsIn(p) \/ Imports(p)
    \/ Ends(p) \/ Dies(p)
    \/ AsksToLogOut(p) \/ LogsOut(p) \/ Deletes(p)

Spec == Init /\ [][Next]_vars

------------------------------------------------------------------------------
(* Properties *)

\* What counts as a usable session is one session: no two LinkedIn logins ever share
\* a profile, its cookies and its metadata.
NoTwoSessionsMixed ==
  Ready(live) => live["profile"] = live["cookies"] /\ live["cookies"] = live["state"]

\* Whatever fails and whoever dies half way through moving a session away or back,
\* the files of two are not mixed, as long as a sign-in that is given up leaves none.
MixedOnlyIfTainted == tainted \/ NoTwoSessionsMixed

Places == {live} \cup {kept[q] : q \in Quarantine} \cup {debris[q] : q \in Quarantine}

\* A session that once worked is moved, never destroyed: after any crash and any
\* failing move each of its parts is still somewhere under the profile root, until
\* the user logs out.
NothingIsLost ==
  \A s \in established \ forgotten :
    \A a \in Artifact : tainted \/ \E place \in Places : place[a] = s

\* A session is retired or deleted only by someone who meant that one: a peer that
\* waited for the profile with an older view of it leaves a new session alone, and so
\* does a logout confirmed for another.
NewSessionsAreRespected ==
  [][\A s \in Session :
       Whole(live, s) /\ ~Whole(live', s) =>
         tainted' \/ \E p \in Proc : lease = p /\ guard[p] \in {Unguarded, s}]_vars

\* A sign-in that comes to nothing costs nothing: unless a move failed, the session
\* it retired is back in its place when the profile is let go.
FailedSignInCostsNothing ==
  [][\A p \in Proc :
       /\ pc[p] = "ends" /\ pc'[p] = "idle"
       /\ task[p] \in {"login", "import"} /\ ~spoiled[p]
       /\ before[p] # NoSession
       => tainted \/ Whole(live, before[p]) \/ Whole(live, fresh[p])]_vars

\* A retirement is complete or did not happen: without a death or a failing move, no
\* session that worked is left half in its place and half in quarantine.
RetirementIsWhole ==
  mishaps = 0 /\ ~tainted /\ lease = Nobody =>
    \A s \in established, q \in Quarantine :
      ~ \E a, b \in Artifact : live[a] = s /\ kept[q][b] = s

\* The processes with a browser of their own on the profile: a login window, or one that
\* validates an import.
Browsing ==
  {p \in Proc : pc[p] \in {"opened", "exported", "committed", "validating", "stuck"}}

Profile == INSTANCE ExclusiveProfile WITH NoProc <- Nobody, holder <- lease, live <- Browsing

\* A sign-in uses the profile as every process does: one at a time, with a browser only
\* while it has the profile, which it keeps as long as its browser is not proven gone.
UsesTheLease == Profile!Spec
=============================================================================
