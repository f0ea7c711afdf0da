------------------------------- MODULE SendMessage -------------------------------
(***************************************************************************)
(* One message to one recipient, from linkedin/message_sender.py: a client *)
(* calls the tool until it has an answer it may not repeat, while the page *)
(* the tool drives belongs to LinkedIn and to whoever sits in front of it. *)
(*                                                                         *)
(* The tool does nothing to the page itself.  It sends scripts, which the  *)
(* page runs in their order, each without interruption, possibly after the *)
(* tool has stopped waiting for the answer; and the answer may be lost     *)
(* when the script was not.                                                *)
(*                                                                         *)
(* Simplifications.  Finding the recipient and opening the composer is one *)
(* step with its refusals.  What the observer in the page accepts as a     *)
(* confirmation is a choice once the button was clicked.  The event loop   *)
(* is not starved for longer than the reply reserve, so that an answer     *)
(* decided at the budget is given before the tool's own deadline.  Text a  *)
(* person sends from the composer is theirs and not counted.               *)
(***************************************************************************)
EXTENDS Naturals, Sequences

CONSTANTS
  MaxCalls,     \* bound: calls the client makes
  MaxIntrusions \* bound: what LinkedIn or a person does to the page meanwhile

ASSUME BoundsAssumption == MaxCalls \in Nat \ {0} /\ MaxIntrusions \in Nat

VARIABLES
  \* the page
  place,     \* whether its address is the one the composer was opened at
  composer,  \* the composer it shows, counted as they are mounted, 0 for none
  text,      \* what the editor holds: the call's message, or anything else
  pinned,    \* the composer the call has pinned, 0 when none
  owned,     \* whether the pin records the message as written by the call
  scripts,   \* the scripts sent and not run yet
  \* the call
  pc,        \* where it is
  result,    \* what the script it waits for returned
  may_have_submitted,
  reserve,   \* whether the send budget is over and only the reply reserve left
  decided,   \* the answer it is about to give
  answer,    \* the last answer: a retry_safe one, an error, "sent", one that
             \* says retry_safe is false, or nothing for a client that left
  calls,
  \* LinkedIn
  sent,      \* the messages it was sent by a click of ours
  intrusions

page == <<place, composer, text, pinned, owned, scripts>>
call == <<pc, result, may_have_submitted, reserve, decided, answer, calls>>
vars == <<page, call, sent, intrusions>>

Answer == {"retry_safe", "error", "sent", "unconfirmed", "none"}
Script == {"write", "submit", "cleanup", "dispose"}
Sending == {"submitting", "confirming"}
Preparing == {"opened", "seen", "pinned", "writing", "written", "armed"}

\* One page load a call, and a remount an intrusion.
Mounts == 0..(MaxCalls + MaxIntrusions)

TypeOK ==
  /\ place \in {"recipient", "elsewhere"} /\ composer \in Mounts
  /\ text \in {"empty", "message", "other"}
  /\ pinned \in Mounts /\ owned \in BOOLEAN /\ (owned => pinned # 0)
  /\ scripts \in Seq(Script) /\ Len(scripts) <= 3
  /\ pc \in {"idle", "leaving", "answered"} \cup Preparing \cup Sending
  /\ result \in {"none", "written", "occupied", "invalid", "clicked", "lost"}
  /\ may_have_submitted \in BOOLEAN /\ reserve \in BOOLEAN
  /\ (may_have_submitted => pc \in Sending \cup {"leaving", "answered"})
  /\ decided \in Answer /\ answer \in Answer /\ calls \in 0..MaxCalls
  /\ sent \in Seq([text : {"message", "other"}, to : {"recipient", "elsewhere"}])
  /\ intrusions \in 0..MaxIntrusions

Init ==
  /\ place = "elsewhere" /\ composer = 0 /\ text = "empty"
  /\ pinned = 0 /\ owned = FALSE /\ scripts = <<>>
  /\ pc = "idle" /\ result = "none" /\ may_have_submitted = FALSE
  /\ reserve = FALSE /\ decided = "none" /\ answer = "none" /\ calls = 0
  /\ sent = <<>> /\ intrusions = 0

Goes(step) == pc' = step

(***************************************************************************)
(* The client                                                              *)
(***************************************************************************)

\* It repeats what it was told it may repeat: an answer with retry_safe, or an
\* error of the tool.  Navigating loads the page anew, and with it whatever
\* draft LinkedIn keeps for the conversation.
Calls ==
  /\ pc = "idle" \/ (pc = "answered" /\ answer \in {"retry_safe", "error"})
  /\ calls < MaxCalls /\ calls' = calls + 1
  /\ place' = "recipient" /\ composer' = composer + 1
  /\ text' \in {text, "empty"}
  /\ pinned' = 0 /\ owned' = FALSE /\ scripts' = <<>>
  /\ Goes("opened")
  /\ result' = "none" /\ may_have_submitted' = FALSE /\ reserve' = FALSE
  /\ UNCHANGED <<decided, answer, sent, intrusions>>

(***************************************************************************)
(* The end of a call                                                       *)
(***************************************************************************)

\* Before a composer is pinned there is nothing to clean up.
Refuses(a) ==
  /\ Goes("answered") /\ answer' = a
  /\ UNCHANGED <<page, result, may_have_submitted, reserve, decided, calls>>

\* The text of a call that cannot have submitted is taken back out of the
\* editor, and the pin is released either way.
Finishes(a, submitted) ==
  /\ Goes("leaving") /\ decided' = a /\ may_have_submitted' = submitted
  /\ scripts' = scripts \o (IF submitted THEN <<"dispose">> ELSE <<"cleanup", "dispose">>)
  /\ UNCHANGED <<place, composer, text, pinned, owned, result, reserve, answer,
                 calls>>

\* Both scripts are waited for, but not for long.
Answers ==
  /\ pc = "leaving" /\ Goes("answered") /\ answer' = decided
  /\ UNCHANGED <<page, result, may_have_submitted, reserve, decided, calls, sent,
                 intrusions>>

Ends(a) ==
  IF pc \in {"opened", "seen"} THEN Refuses(a)
                            ELSE Finishes(a, may_have_submitted)

(***************************************************************************)
(* Before the click                                                        *)
(***************************************************************************)

\* The recipient, the address or the composer is not what it has to be, the
\* caller did not confirm the send, or the page cannot be read at all.
IsRefused ==
  /\ pc \in {"opened", "seen", "written"}
  /\ \E a \in {"retry_safe", "error"} : Ends(a)
  /\ UNCHANGED <<sent, intrusions>>

ChecksTheComposer ==
  /\ pc = "opened"
  /\ place = "recipient" /\ composer # 0 /\ text = "empty"
  /\ Goes("seen")
  /\ UNCHANGED <<page, result, may_have_submitted, reserve, decided, answer, calls,
                 sent, intrusions>>

\* _resolve_message_owner(): the address and the composer once more, not the text.
PinsTheComposer ==
  /\ pc = "seen" /\ place = "recipient" /\ composer # 0
  /\ pinned' = composer /\ owned' = FALSE
  /\ Goes("pinned")
  /\ UNCHANGED <<place, composer, text, scripts, result, may_have_submitted, reserve,
                 decided, answer, calls, sent, intrusions>>

Sends(script, step) ==
  /\ scripts' = Append(scripts, script) /\ Goes(step) /\ result' = "none"
  /\ UNCHANGED <<place, composer, text, pinned, owned, reserve, decided, answer,
                 calls, sent, intrusions>>

Writes == pc = "pinned" /\ Sends("write", "writing") /\ UNCHANGED may_have_submitted

\* An error of the round trip is passed on as one.
ReadsTheWrite ==
  /\ pc = "writing" /\ result # "none"
  /\ \/ /\ result = "written" /\ Goes("written")
        /\ UNCHANGED <<page, result, may_have_submitted, reserve, decided, answer,
                       calls>>
     \/ result = "lost" /\ Ends("error")
     \/ result # "lost" /\ Ends("retry_safe")
  /\ UNCHANGED <<sent, intrusions>>

\* The composer is still the pinned one, at the pinned address.
StillPinned == pinned # 0 /\ pinned = composer /\ place = "recipient"

\* The submit button is ready and the observer of the conversation is installed.
Arms ==
  /\ pc = "written"
  /\ StillPinned /\ owned /\ text = "message"
  /\ Goes("armed")
  /\ UNCHANGED <<page, result, may_have_submitted, reserve, decided, answer, calls,
                 sent, intrusions>>

\* Without time to confirm a send, none is made: the call waits for its deadline.
\* The same deadline ends whatever comes before the click.
DeadlinePasses ==
  /\ pc \in Preparing /\ reserve
  /\ Ends("error")
  /\ UNCHANGED <<sent, intrusions>>

(***************************************************************************)
(* The click and after it                                                  *)
(***************************************************************************)

\* Mistake: a submission that was not confirmed does not count.
OnceConfirmed == FALSE

FromTheFirstAttempt == TRUE

Submits ==
  /\ pc = "armed" /\ ~reserve
  /\ Sends("submit", "submitting")
  /\ may_have_submitted' = FromTheFirstAttempt

\* A script that says it did not click is believed; an error says nothing.
ReadsTheSubmission ==
  /\ pc = "submitting" /\ result # "none"
  /\ \/ /\ result = "clicked" /\ Goes("confirming")
        /\ UNCHANGED <<page, result, may_have_submitted, reserve, decided, answer,
                       calls>>
     \/ result = "invalid" /\ Finishes("retry_safe", FALSE)
     \/ result = "lost" /\ Ends(IF may_have_submitted THEN "unconfirmed" ELSE "error")
  /\ UNCHANGED <<sent, intrusions>>

\* The conversation shows the message, or cannot be made to say so.
Confirms ==
  /\ pc = "confirming"
  /\ \E a \in {"sent", "unconfirmed"} : Ends(a)
  /\ UNCHANGED <<sent, intrusions>>

\* The script may be on its way, run or not; its answer is not waited for.
BudgetEnds ==
  /\ pc \in Sending /\ reserve
  /\ Ends("unconfirmed")
  /\ UNCHANGED <<sent, intrusions>>

\* A client that cancels or goes away gets no answer, whatever was done.
ClientLeaves ==
  /\ pc \in Preparing \cup Sending
  /\ Ends("none")
  /\ UNCHANGED <<sent, intrusions>>

TimePasses ==
  /\ pc \in Preparing \cup Sending /\ ~reserve
  /\ reserve' = TRUE
  /\ UNCHANGED <<page, pc, result, may_have_submitted, decided, answer, calls, sent,
                 intrusions>>

(***************************************************************************)
(* The scripts                                                             *)
(***************************************************************************)

Returns(script, r) ==
  result' = IF (script = "write" /\ pc = "writing")
               \/ (script = "submit" /\ pc = "submitting") THEN r ELSE result

\* Text that is there belongs to whoever typed it.  An insertion that reports a
\* failure may have happened, and one that left something else is not owned.
RunsWrite ==
  \/ /\ ~StillPinned /\ Returns("write", "invalid")
     /\ UNCHANGED <<text, owned>>
  \/ /\ StillPinned /\ text # "empty" /\ Returns("write", "occupied")
     /\ UNCHANGED <<text, owned>>
  \/ /\ StillPinned /\ text = "empty"
     /\ \/ text' = "message" /\ owned' = TRUE /\ Returns("write", "written")
        \/ /\ text' \in {"empty", "message", "other"} /\ owned' = (text' = "message")
           /\ Returns("write", "invalid")

MayClick == StillPinned /\ owned /\ text = "message"

\* LinkedIn empties the editor it sends from; a request it never gets is lost.
RunsSubmit ==
  /\ UNCHANGED owned
  /\ \/ /\ MayClick /\ Returns("submit", "clicked")
        /\ \/ /\ sent' = Append(sent, [text |-> text, to |-> place])
              /\ text' = "empty"
           \/ UNCHANGED <<text, sent>>
     \/ Returns("submit", "invalid") /\ UNCHANGED <<text, sent>>

\* Only the very text, in the very editor, that the pin says the call wrote.
RunsCleanup ==
  IF owned /\ pinned = composer /\ text = "message"
  THEN text' = "empty" /\ owned' = FALSE
  ELSE UNCHANGED <<text, owned>>

\* Mistake: the pin goes and what it recorded stays.
DropsThePin == pinned' = 0 /\ UNCHANGED owned

RunsDispose == pinned' = 0 /\ owned' = FALSE

RunsTheNextScript ==
  /\ scripts # <<>> /\ scripts' = Tail(scripts)
  /\ \/ Head(scripts) = "write" /\ RunsWrite /\ UNCHANGED <<pinned, sent>>
     \/ Head(scripts) = "submit" /\ RunsSubmit /\ UNCHANGED pinned
     \/ Head(scripts) = "cleanup" /\ RunsCleanup /\ UNCHANGED <<pinned, result, sent>>
     \/ Head(scripts) = "dispose" /\ RunsDispose /\ UNCHANGED <<text, result, sent>>
  /\ UNCHANGED <<place, composer, pc, may_have_submitted, reserve, decided, answer,
                 calls, intrusions>>

(***************************************************************************)
(* LinkedIn and the person in front of the page                            *)
(***************************************************************************)

Intrusion == intrusions < MaxIntrusions /\ intrusions' = intrusions + 1

\* A person, or LinkedIn, which may bring back a draft late.
SomebodyTypes ==
  /\ composer # 0 /\ text' \in {"empty", "message", "other"}
  /\ UNCHANGED <<place, composer, pinned, owned, scripts, result>>

\* The page changes its address, and may come back to it.
PageMoves ==
  /\ place' = (IF place = "recipient" THEN "elsewhere" ELSE "recipient")
  /\ UNCHANGED <<composer, text, pinned, owned, scripts, result>>

ComposerIsRemounted ==
  /\ composer' = composer + 1 /\ text' \in {text, "empty"}
  /\ UNCHANGED <<place, pinned, owned, scripts, result>>

\* A reload, a crash or a lost connection: what was waited for fails, whether its
\* script ran or not, and what was queued does not run any more.
PageIsLost ==
  /\ composer' = 0 /\ pinned' = 0 /\ owned' = FALSE /\ scripts' = <<>>
  /\ place' = "elsewhere" /\ UNCHANGED text
  /\ result' = IF pc \in {"writing", "submitting"} THEN "lost" ELSE result

PageChanges ==
  /\ Intrusion /\ calls > 0
  /\ SomebodyTypes \/ PageMoves \/ ComposerIsRemounted \/ PageIsLost
  /\ UNCHANGED <<pc, may_have_submitted, reserve, decided, answer, calls, sent>>

(***************************************************************************)
(* The specification                                                       *)
(***************************************************************************)

Tool ==
  \/ IsRefused \/ ChecksTheComposer \/ PinsTheComposer \/ Writes \/ ReadsTheWrite
  \/ Arms \/ DeadlinePasses \/ Submits \/ ReadsTheSubmission \/ Confirms
  \/ BudgetEnds \/ Answers

Next ==
  \/ Calls \/ Tool \/ RunsTheNextScript
  \/ ClientLeaves \/ TimePasses \/ PageChanges

Spec == Init /\ [][Next]_vars

(***************************************************************************)
(* Properties                                                              *)
(***************************************************************************)

\* However often a client that heeds the answers calls again, LinkedIn is sent
\* the message at most once, and never anything else from the composer: neither
\* a person's draft nor the message under another address.
SentOnceAsMeant ==
  \/ sent = <<>>
  \/ sent = <<[text |-> "message", to |-> "recipient"]>>

\* What the client was told of each of its calls, and how often the message went out in it.
ToldOf(k) ==
  CASE k > calls -> "nothing"
    [] k < calls -> "repeat"
    [] k = calls -> IF pc # "answered" THEN "nothing"
                    ELSE IF answer \in {"retry_safe", "error"} THEN "repeat" ELSE "other"
WentOutIn(k) == IF k = calls THEN Len(sent) ELSE 0

Client == INSTANCE ClientPromise
            WITH Call <- 1..MaxCalls,
                 told <- [k \in 1..MaxCalls |-> ToldOf(k)],
                 effects <- [k \in 1..MaxCalls |-> WentOutIn(k)]

\* A call sends the message once at most, and a client that is told that it may try
\* again has made a call that sent nothing and never will, whatever script of it the
\* page has still to run and whether or not the client does try again.
ClientsMayHeedTheAnswer == Client!Spec

================================================================================
