---------------------------- MODULE CallRecovery ----------------------------
(* A frontend forwarding its client's calls to an owner that can go away:      *)
(* daemon_proxy.py finds a replacement and repeats what is safe to repeat,     *)
(* daemon_auth.py signs in for the owner and runs a call again.                *)
(*                                                                             *)
(* The processes that serve as owners come one after the other (the daemon     *)
(* lock lets one live at a time), and how they deal with requests is OwnerTerms. *)
(* A request that was sent may be handled late, after the frontend has stopped *)
(* waiting for it, or never: cancellation is not forwarded. What an election   *)
(* does is reduced to what it may answer.                                      *)
EXTENDS Integers, FiniteSets, OwnerTerms

CONSTANTS
  Owner,     \* owner processes, told apart by their instance id
  First,     \* the one this frontend attached to when it started
  Listing,   \* the client's listings,
  Reading,   \* its calls of tools that declare readOnlyHint,
  Writing,   \* and its calls of tools that do not
  AtOnce     \* bound: how many of these it makes

ASSUME FirstIsAnOwner == First \in Owner
ASSUME OperationsAreDisjoint ==
  /\ Listing \cap Reading = {} /\ Listing \cap Writing = {} /\ Reading \cap Writing = {}
ASSUME AtOnceIsANumber == AtOnce \in Nat
ASSUME OwnersAreNamed == "nobody" \notin Owner

Call == Reading \cup Writing
Operation == Listing \cup Call

VARIABLES
  owner,      \* what has become of each owner process
  attachment, \* the owner the backend forwards to
  unusable,   \* owners this frontend has written off
  flight,     \* the election in progress, with the owners it was told to pass over
  pc,         \* how far an operation is
  try,        \* which attempt it is on: 1 and 2, then 3 and 4 after a sign-in
  binding,    \* the owner its heartbeats go to
  target,     \* the owner its request is addressed to
  failure,    \* the loss of an owner it is recovering from
  changes,    \* a_repeat_could_change_something, once it has been asked
  landed,     \* the election it waited for: its answer and what it passed over
  joined,     \* elections it has waited for in this recovery
  answer,     \* what its client was told; "over" is an answer of the owner's, or the
              \* client's own leaving
  requests,   \* tool requests that have left the frontend, by operation and attempt
  acted       \* history: effects a writing call has had on LinkedIn

backend == <<attachment, unusable, flight>>
recovery == <<failure, changes, landed, joined>>
calls == <<pc, try, binding, target, recovery, answer>>
vars == <<owner, backend, calls, requests, acted>>

Nobody == "nobody"

\* OwnerFailure, as far as recovery tells its members apart: those that bury the
\* owner, a token it did not accept, and those of the moment (unreachable, an error).
Failures == {"buries", "token_rejected", "momentary"}

Failure == [owner : Owner \cup {Nobody}, unsent : BOOLEAN, class : Failures]
NoFailure == [owner |-> Nobody, unsent |-> TRUE, class |-> "momentary"]

\* One election: not running, or with the set it was started with.
NoFlight == [running |-> FALSE, buried |-> {}]
NotLanded == [found |-> Nobody, buried |-> {}]

Request == [call : Call, try : 1..4, owner : Owner, at : {"sent", "taken", "acted"}]

TypeOK ==
  /\ owner \in [Owner -> OwnerState]
  /\ attachment \in Owner /\ unusable \subseteq Owner
  /\ flight \in [running : BOOLEAN, buried : SUBSET Owner]
  /\ pc \in [Operation -> {"new", "preflight", "marked", "opened", "sent", "failed",
                           "joining", "landed", "recovered", "refused", "repairing", "done"}]
  /\ try \in [Operation -> 1..4]
  /\ binding \in [Operation -> Owner \cup {Nobody}]
  /\ target \in [Operation -> Owner \cup {Nobody}]
  /\ failure \in [Operation -> Failure]
  /\ changes \in [Operation -> {"unasked", "yes", "no"}]
  /\ landed \in [Operation -> [found : Owner \cup {Nobody}, buried : SUBSET Owner]]
  /\ joined \in [Operation -> 0..2]
  /\ answer \in [Operation -> {"none", "over", "lost", "unknown"}]
  /\ requests \subseteq Request
  /\ acted \in [Writing -> Nat]

Init ==
  /\ owner = [o \in Owner |-> IF o = First THEN "up" ELSE "unborn"]
  /\ attachment = First /\ unusable = {} /\ flight = NoFlight
  /\ \E made \in SUBSET Operation :
       /\ Cardinality(made) = AtOnce
       /\ pc = [c \in Operation |-> IF c \in made THEN "new" ELSE "done"]
  /\ try = [c \in Operation |-> 1]
  /\ binding = [c \in Operation |-> Nobody] /\ target = [c \in Operation |-> Nobody]
  /\ failure = [c \in Operation |-> NoFailure]
  /\ changes = [c \in Operation |-> "unasked"]
  /\ landed = [c \in Operation |-> NotLanded] /\ joined = [c \in Operation |-> 0]
  /\ answer = [c \in Operation |-> "none"]
  /\ requests = {} /\ acted = [c \in Writing |-> 0]

------------------------------------------------------------------------------
(* How an attempt goes on, fails or ends *)

GoesTo(c, step) == pc' = [pc EXCEPT ![c] = step]

\* OwnerUnreachableError. The beats of a call stop with the attempt.
Fails(c, o, unsent, class) ==
  /\ GoesTo(c, "failed")
  /\ failure' = [failure EXCEPT ![c] = [owner |-> o, unsent |-> unsent, class |-> class]]
  /\ binding' = [binding EXCEPT ![c] = Nobody]
  /\ target' = [target EXCEPT ![c] = Nobody]
  /\ UNCHANGED <<try, changes, landed, joined, answer>>

Answers(c, what) ==
  /\ GoesTo(c, "done")
  /\ answer' = [answer EXCEPT ![c] = what]
  /\ binding' = [binding EXCEPT ![c] = Nobody]
  /\ target' = [target EXCEPT ![c] = Nobody]
  /\ failure' = [failure EXCEPT ![c] = NoFailure]
  /\ changes' = [changes EXCEPT ![c] = "unasked"]
  /\ landed' = [landed EXCEPT ![c] = NotLanded]
  /\ joined' = [joined EXCEPT ![c] = 0]
  /\ try' = [try EXCEPT ![c] = 1]

\* refuse_if_written_off(): the failure names the owner that was written off, with
\* the class that did it.
RefusedAsWrittenOff(c, o) == o \in unusable /\ Fails(c, o, TRUE, "buries")

\* Mistake: a repeat that is lost recovers and is repeated in its turn.
NeverARepeat(c) == FALSE
\* A repeat is attempt 2 of the first round or of the one after a sign-in.
IsRepeat(c) == try[c] \in {2, 4}
AfterSignIn(c) == try[c] > 2

\* _classify_preflight(): 409 and 404 bury, and so does any answer an owner does not
\* give; 401 is a token. The port of an owner that is gone may be a stranger's.
PreflightFailures(o) ==
  CASE owner[o] = "up"       -> {"momentary"}
    [] owner[o] = "retiring" -> {"buries", "momentary"}
    [] OTHER -> Failures

------------------------------------------------------------------------------
(* An attempt: FrontendCallHeartbeatMiddleware, open_client and the session *)

\* A call picks its owner before it beats; a listing has no beats.
BeginsCall(c) ==
  /\ c \in Call /\ pc[c] = "new"
  /\ \/ RefusedAsWrittenOff(c, attachment)
     \/ /\ attachment \notin unusable
        /\ binding' = [binding EXCEPT ![c] = attachment]
        /\ GoesTo(c, "preflight")
        /\ UNCHANGED <<try, target, recovery, answer>>
  /\ UNCHANGED <<owner, backend, requests, acted>>

\* _preflight() and, after it, the owner asked about once more.
PreflightAnswered(c) ==
  /\ pc[c] = "preflight"
  /\ LET o == binding[c] IN
     \/ \E class \in PreflightFailures(o) : Fails(c, o, TRUE, class)
     \/ owner[o] = "up" /\ RefusedAsWrittenOff(c, o)
     \/ /\ owner[o] = "up" /\ o \notin unusable
        /\ GoesTo(c, "marked")
        /\ UNCHANGED <<try, binding, target, recovery, answer>>
  /\ UNCHANGED <<owner, backend, requests, acted>>

\* Mistake: the client is built for whoever is the owner now.
AddressedToTheLatest(c) == attachment
\* The owner a client is built for: a call's own, or the present one.
AddressedTo(c) == IF c \in Call THEN binding[c] ELSE attachment

\* open_client(). A call lists its tool before it runs it; the listing is part of
\* what may fail between here and the request.
OpensClient(c) ==
  /\ \/ pc[c] = "marked"
     \/ c \in Listing /\ pc[c] = "new"
  /\ LET o == AddressedTo(c) IN
     \/ RefusedAsWrittenOff(c, o)
     \/ /\ o \notin unusable
        /\ target' = [target EXCEPT ![c] = o]
        /\ GoesTo(c, "opened")
        /\ UNCHANGED <<try, binding, recovery, answer>>
  /\ UNCHANGED <<owner, backend, requests, acted>>

\* _check_at_the_session(), the last point at which the request can be kept back.
StillUsable(o) == o \notin unusable

\* The tool request enters the session: from here on it may have left. What makes
\* the request refused, or fail before it, says that nothing was sent.
SendsToolRequest(c) ==
  /\ c \in Call /\ pc[c] = "opened"
  /\ LET o == target[c] IN
     \/ /\ StillUsable(o)
        /\ requests' = requests \cup {[call |-> c, try |-> try[c], owner |-> o, at |-> "sent"]}
        /\ GoesTo(c, "sent")
        /\ UNCHANGED <<try, binding, target, recovery, answer>>
     \/ RefusedAsWrittenOff(c, o) /\ UNCHANGED requests
     \/ Fails(c, o, TRUE, "momentary") /\ UNCHANGED requests
  /\ UNCHANGED <<owner, backend, acted>>

\* A listing is answered or fails; it changes nothing either way.
ListingAnswered(c) ==
  /\ c \in Listing /\ pc[c] = "opened"
  /\ LET o == target[c] IN
     \/ owner[o] \in Running /\ o \notin unusable /\ Answers(c, "over")
     \/ RefusedAsWrittenOff(c, o)
     \/ Fails(c, o, TRUE, "momentary")
  /\ UNCHANGED <<owner, backend, requests, acted>>

\* Mistake: a request without an answer counts as one that was never sent.
TakenForUnsent == TRUE
\* What a failure says of a request the session has taken.
SaidUnsent == FALSE

\* No answer: a deadline, a connection that closed, an error the client made up.
RequestUnanswered(c) ==
  /\ pc[c] = "sent"
  /\ Fails(c, target[c], SaidUnsent, "momentary")
  /\ UNCHANGED <<owner, backend, requests, acted>>

------------------------------------------------------------------------------
(* The owner's side *)

Becomes(r, at) == requests' = (requests \ {r}) \cup {[r EXCEPT !.at = at]}

\* The owner lets a tool request in, if it has not closed admission.
OwnerTakes(r) ==
  /\ MayTake(owner[r.owner], r.at)
  /\ Becomes(r, "taken")
  /\ UNCHANGED <<owner, backend, calls, acted>>

\* The tool does to LinkedIn what it is for.
OwnerActs(r) ==
  /\ MayAct(owner[r.owner], r.at) /\ r.call \in Writing
  /\ Becomes(r, "acted")
  /\ acted' = [acted EXCEPT ![r.call] = @ + 1]
  /\ UNCHANGED <<owner, backend, calls>>

AwaitsAnswer(r) == pc[r.call] = "sent" /\ try[r.call] = r.try
Dropped(r) == ~AwaitsAnswer(r) /\ UNCHANGED calls

\* A signed refusal: the tool never ran, and never will for this request.
OwnerRefuses(r) ==
  /\ MayRefuse(owner[r.owner], r.at)
  /\ requests' = requests \ {r}
  /\ \/ Dropped(r)
     \/ AwaitsAnswer(r) /\ Fails(r.call, r.owner, TRUE, "buries")
  /\ UNCHANGED <<owner, backend, acted>>

\* The tool's result, or its failure.
OwnerAnswers(r) ==
  /\ MayAnswer(owner[r.owner], r.at)
  /\ requests' = requests \ {r}
  /\ \/ Dropped(r)
     \/ AwaitsAnswer(r) /\ Answers(r.call, "over")
  /\ UNCHANGED <<owner, backend, acted>>

\* OwnerAuthSignalMiddleware and _readable_marker(): a marker that asks the
\* frontend to sign in. After a sign-in it is passed on as it is, and so is one
\* that says the profile is still held. One that says that the tool had begun gets
\* its sign-in, but the client gets the owner's own words.
OwnerAsksForSignIn(r) ==
  /\ MayAnswer(owner[r.owner], r.at)
  /\ requests' = requests \ {r}
  /\ \/ Dropped(r)
     \/ AwaitsAnswer(r) /\ Answers(r.call, "over")
     \/ /\ AwaitsAnswer(r) /\ ~AfterSignIn(r.call)
        /\ r.at = "taken"
        /\ GoesTo(r.call, "repairing")
        /\ binding' = [binding EXCEPT ![r.call] = Nobody]
        /\ target' = [target EXCEPT ![r.call] = Nobody]
        /\ UNCHANGED <<try, recovery, answer>>
  /\ UNCHANGED <<owner, backend, acted>>

OwnerComes(o) ==
  /\ MayCome(owner, o)
  /\ owner' = [owner EXCEPT ![o] = "up"]
  /\ UNCHANGED <<backend, calls, requests, acted>>

OwnerRetires(o) ==
  /\ MayRetire(owner[o])
  /\ owner' = [owner EXCEPT ![o] = "retiring"]
  /\ UNCHANGED <<backend, calls, requests, acted>>

\* An exit or a crash: what it had not answered it never will.
OwnerGoes(o) ==
  /\ MayGo(owner[o])
  /\ owner' = [owner EXCEPT ![o] = "gone"]
  /\ requests' = {r \in requests : r.owner # o}
  /\ UNCHANGED <<backend, calls, acted>>

------------------------------------------------------------------------------
(* Recovery: DaemonProxyBackend *)

\* note_failure()
WrittenOffBy(f) == IF f.class = "buries" THEN {f.owner} ELSE {}

\* The election in progress is joined; without one, one is started.
JoinsElection(c, buried) ==
  IF flight.running THEN UNCHANGED flight
                    ELSE flight' = [running |-> TRUE, buried |-> buried]

\* recover(), up to the election, for the first attempt of a round.
Recovers(c) ==
  /\ pc[c] = "failed" /\ ~IsRepeat(c)
  /\ LET f == failure[c]
         off == unusable \cup WrittenOffBy(f)
     IN /\ unusable' = off
        /\ IF attachment # f.owner /\ attachment \notin off
             THEN GoesTo(c, "recovered") /\ UNCHANGED <<flight, joined>>
             ELSE /\ JoinsElection(c, off)
                  /\ joined' = [joined EXCEPT ![c] = 1]
                  /\ GoesTo(c, "joining")
  /\ UNCHANGED <<owner, attachment, try, binding, target, failure, changes, landed,
                 answer, requests, acted>>

\* _elect(): obtain_owner() in its thread answers, the flight is over and whoever
\* waits for it is woken. An owner on its way out still answers the probe. What it
\* found is adopted unless it was written off meanwhile.
ElectionLands ==
  /\ flight.running
  /\ \E found \in {o \in Owner : owner[o] \in Running} \cup {Nobody} :
       LET usable == IF found \in unusable THEN Nobody ELSE found IN
       /\ found \notin flight.buried
       /\ attachment' = IF usable = Nobody THEN attachment ELSE usable
       /\ landed' = [c \in Operation |->
                       IF pc[c] = "joining" THEN [found |-> usable, buried |-> flight.buried]
                                            ELSE landed[c]]
       /\ pc' = [c \in Operation |-> IF pc[c] = "joining" THEN "landed" ELSE pc[c]]
  /\ flight' = NoFlight
  /\ UNCHANGED <<owner, unusable, try, binding, target, failure, changes, joined, answer,
                 requests, acted>>

\* Mistake: an election's answer is final, whatever has been learned since.
OneElectionOnly(c) == TRUE
\* The election knew all that is known now, or two have been waited for.
NothingMoreToAsk(c) == unusable \subseteq landed[c].buried \/ joined[c] = 2

UsableFind(c) ==
  /\ landed[c].found \notin unusable \cup {Nobody}
  /\ ~(failure[c].class = "token_rejected" /\ landed[c].found = failure[c].owner)
RejectedAgain(c) ==
  /\ landed[c].found \notin unusable \cup {Nobody}
  /\ failure[c].class = "token_rejected" /\ landed[c].found = failure[c].owner

\* recover(), after the election.
ReadsTheElection(c) ==
  /\ pc[c] = "landed"
  /\ \/ UsableFind(c) /\ GoesTo(c, "recovered") /\ UNCHANGED <<flight, joined>>
     \/ /\ ~UsableFind(c) /\ (RejectedAgain(c) \/ NothingMoreToAsk(c))
        /\ GoesTo(c, "refused")
        /\ UNCHANGED <<flight, joined>>
     \/ /\ ~UsableFind(c) /\ ~RejectedAgain(c) /\ ~NothingMoreToAsk(c)
        /\ JoinsElection(c, unusable)
        /\ joined' = [joined EXCEPT ![c] = 2]
        /\ GoesTo(c, "joining")
  /\ UNCHANGED <<owner, attachment, unusable, try, binding, target, failure, changes,
                 landed, answer, requests, acted>>

------------------------------------------------------------------------------
(* What becomes of the call: FrontendOwnerRecoveryMiddleware and                *)
(* FrontendAuthRepairMiddleware                                                 *)

\* a_repeat_could_change_something(): a tool that declares nothing counts as one
\* that changes something, and so does one whose listing fails.
CouldChange(c) == IF c \in Writing THEN {"yes"} ELSE {"yes", "no"}

\* The next attempt, with a fresh client and, for a call, a fresh identifier.
TriesAgain(c, n) ==
  /\ GoesTo(c, "new")
  /\ try' = [try EXCEPT ![c] = n]
  /\ failure' = [failure EXCEPT ![c] = NoFailure]
  /\ landed' = [landed EXCEPT ![c] = NotLanded]
  /\ joined' = [joined EXCEPT ![c] = 0]
  /\ UNCHANGED <<binding, target, answer>>

\* A listing is repeated whenever there is an owner to repeat it on.
ListingDecides(c) ==
  /\ c \in Listing
  /\ \/ pc[c] = "recovered" /\ TriesAgain(c, 2) /\ UNCHANGED changes
     \/ pc[c] = "refused" /\ Answers(c, "lost")
  /\ UNCHANGED <<owner, backend, requests, acted>>

\* A call that may have reached the owner is looked up first, whether or not there
\* is a new owner. One that cannot have is repeated, or reported lost.
CallDecides(c) ==
  /\ c \in Call /\ pc[c] \in {"recovered", "refused"}
  /\ \/ /\ ~failure[c].unsent /\ changes[c] = "unasked"
        /\ \E could \in CouldChange(c) : changes' = [changes EXCEPT ![c] = could]
        /\ UNCHANGED <<pc, try, binding, target, failure, landed, joined, answer>>
     \/ changes[c] = "yes" /\ Answers(c, "unknown")
     \/ /\ failure[c].unsent \/ changes[c] = "no"
        /\ \/ pc[c] = "recovered" /\ TriesAgain(c, try[c] + 1) /\ UNCHANGED changes
           \/ pc[c] = "refused" /\ Answers(c, "lost")
  /\ UNCHANGED <<owner, backend, requests, acted>>

\* The second except: what was answered the first time is remembered, and what was
\* never asked is asked now.
RepeatVerdict(c, could) ==
  IF ~failure[c].unsent /\ could = "yes" THEN "unknown" ELSE "lost"

\* The repeat failed too: the owner is written off if it has to be, and nobody
\* looks for a third.
RepeatFails(c) ==
  /\ pc[c] = "failed" /\ IsRepeat(c)
  /\ unusable' = unusable \cup WrittenOffBy(failure[c])
  /\ \E could \in IF c \in Listing THEN {"no"}
                  ELSE IF changes[c] = "unasked" THEN CouldChange(c) ELSE {changes[c]} :
       Answers(c, RepeatVerdict(c, could))
  /\ UNCHANGED <<owner, attachment, flight, requests, acted>>

\* Only a call whose repeat cannot change anything is run again after a sign-in.
Replays(c) == c \in Reading

\* The sign-in is over: refused, not done in time, or done by this process or
\* another. The session rotation behind it is SessionRotation's.
SignInEnds(c) ==
  /\ c \in Call /\ pc[c] = "repairing"
  /\ \/ Answers(c, "over")
     \/ /\ Replays(c)
        /\ TriesAgain(c, 3)
        /\ changes' = [changes EXCEPT ![c] = "unasked"]
  /\ UNCHANGED <<owner, backend, requests, acted>>

\* wait_for(): what is left of the call's time runs out on the replay.
ReplayRunsOut(c) ==
  /\ AfterSignIn(c) /\ pc[c] # "done"
  /\ Answers(c, "over")
  /\ UNCHANGED <<owner, backend, requests, acted>>

\* The client gives its call up. An election it waited for goes on.
ClientLeaves(c) ==
  /\ pc[c] \notin {"new", "done"}
  /\ Answers(c, "over")
  /\ UNCHANGED <<owner, backend, requests, acted>>

------------------------------------------------------------------------------
Frontend(c) ==
  \/ BeginsCall(c) \/ PreflightAnswered(c) \/ OpensClient(c) \/ SendsToolRequest(c)
  \/ ListingAnswered(c) \/ RequestUnanswered(c) \/ Recovers(c) \/ ReadsTheElection(c)
  \/ ListingDecides(c) \/ CallDecides(c) \/ RepeatFails(c) \/ SignInEnds(c)
  \/ ReplayRunsOut(c) \/ ClientLeaves(c)

OwnerHandles(r) ==
  \/ OwnerTakes(r) \/ OwnerActs(r) \/ OwnerRefuses(r) \/ OwnerAnswers(r)
  \/ OwnerAsksForSignIn(r)

OwnerLives(o) == OwnerComes(o) \/ OwnerRetires(o) \/ OwnerGoes(o)

Next ==
  \/ \E c \in Operation : Frontend(c)
  \/ \E r \in requests : OwnerHandles(r)
  \/ \E o \in Owner : OwnerLives(o)
  \/ ElectionLands

Spec == Init /\ [][Next]_vars

------------------------------------------------------------------------------
(* Properties *)

\* A message or a connection request goes out once per call the client makes,
\* however many owners went away under it and whatever was signed in meanwhile,
\* also when an owner gets to a request nobody waits for any more.
EffectsHappenOnce == \A c \in Writing : acted[c] <= 1

\* What a client is told and what its calls do is what ClientPromise allows.
Told(c) ==
  CASE answer[c] = "none" -> "nothing" [] answer[c] = "lost" -> "repeat" [] OTHER -> "other"
Client == INSTANCE ClientPromise
            WITH Call <- Writing, told <- [c \in Writing |-> Told(c)], effects <- acted

\* Whatever owners go away under a call, whoever signs in meanwhile and however late
\* a request is handled: the call has its effect once at most, and none, then or
\* later, if its client was told that it was lost and may be made again.
PromiseToClients == Client!Spec

Pending(c) == \E r \in requests : r.call = c

\* "This server lost the shared browser process" is said of a call only if it had
\* no effect and never will have one: the client may safely make it again.
LostMeansNeverActed ==
  \A c \in Writing : answer[c] = "lost" => acted[c] = 0 /\ ~Pending(c)

\* While a frontend waits for its request, the owner that runs it is the one that
\* hears its heartbeats: one that does not cancels a call somebody wants.
BeatsFollowTheRequest ==
  \A r \in requests : AwaitsAnswer(r) => binding[r.call] = r.owner

\* A frontend gives up on finding an owner only if an election that knew about its
\* own burial has come back without one: it never takes the word of one that was
\* already running when the owner turned out to be unusable.
GivesUpInformed ==
  [][\A c \in Operation :
       pc[c] = "landed" /\ pc'[c] = "refused" /\ ~RejectedAgain(c)
         => WrittenOffBy(failure[c]) \subseteq landed[c].buried]_vars
=============================================================================
