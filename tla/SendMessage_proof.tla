----------------------------- MODULE SendMessage_proof -----------------------------
(* That a message is sent at most once, as it was meant, however many calls and   *)
(* intrusions there are.  The argument follows the one script that may click: it  *)
(* is on its way only in a call that records that it may have submitted, and only *)
(* while nothing was sent; and a call that may have submitted gives no answer its *)
(* client may repeat.  What the page holds is looked at by the script itself, so  *)
(* nothing needs to be known of it beforehand.                                    *)
EXTENDS SendMessage, SequenceTheorems, TLAPS

\* Every load of the page is a call's or an intrusion's.
MountsAreCounted == composer <= calls + intrusions

\* The scripts that may be on their way at each point of a call.
Pending ==
  /\ pc \in {"idle", "opened", "seen", "pinned", "written", "armed", "confirming"} =>
       scripts = <<>>
  /\ pc = "writing" => scripts = <<>> \/ (scripts = <<"write">> /\ result = "none")
  /\ pc = "submitting" =>
       scripts = <<>> \/ (scripts = <<"submit">> /\ result = "none" /\ sent = <<>>)
  /\ pc \in {"leaving", "answered"} =>
       \/ scripts \in {<<>>, <<"dispose">>, <<"cleanup", "dispose">>,
                       <<"write", "cleanup", "dispose">>}
       \/ scripts = <<"submit", "dispose">> /\ may_have_submitted /\ sent = <<>>

\* What a client may not repeat.
Final == {"unconfirmed", "sent", "none"}

\* What the call remembers about its click, and what it makes of it.
Remembers ==
  /\ pc \in Sending => may_have_submitted
  /\ ~may_have_submitted => sent = <<>>
  /\ pc = "submitting" /\ result = "invalid" => sent = <<>>
  /\ pc = "leaving" /\ may_have_submitted => decided \in Final
  /\ pc = "answered" /\ may_have_submitted => answer \in Final

\* The types of the page's variables, and of the others.
PageTyped ==
  /\ place \in {"recipient", "elsewhere"} /\ composer \in Mounts
  /\ text \in {"empty", "message", "other"}
  /\ pinned \in Mounts /\ owned \in BOOLEAN /\ (owned => pinned # 0)
  /\ scripts \in Seq(Script) /\ Len(scripts) <= 3

CallTyped ==
  /\ pc \in {"idle", "leaving", "answered"} \cup Preparing \cup Sending
  /\ result \in {"none", "written", "occupied", "invalid", "clicked", "lost"}
  /\ may_have_submitted \in BOOLEAN /\ reserve \in BOOLEAN
  /\ (may_have_submitted => pc \in Sending \cup {"leaving", "answered"})
  /\ decided \in Answer /\ answer \in Answer /\ calls \in 0..MaxCalls
  /\ sent \in Seq([text : {"message", "other"}, to : {"recipient", "elsewhere"}])
  /\ intrusions \in 0..MaxIntrusions

Parts ==
  /\ PageTyped /\ CallTyped /\ MountsAreCounted
  /\ Pending /\ Remembers /\ SentOnceAsMeant

IInv == TypeOK /\ MountsAreCounted /\ Pending /\ Remembers /\ SentOnceAsMeant

LEMMA InvariantParts == /\ IInv <=> Parts
                        /\ IInv' <=> Parts'
<1>1. IInv <=> Parts
  BY Zenon DEF IInv, Parts, TypeOK, PageTyped, CallTyped
<1>. QED  BY <1>1, PTL

(***************************************************************************)
(* The few sequences of scripts there are                                  *)
(***************************************************************************)

LEMMA Queues ==
  /\ <<>> \in Seq(Script) /\ Len(<<>>) = 0
  /\ <<"dispose">> \in Seq(Script) /\ Len(<<"dispose">>) = 1
  /\ <<"cleanup", "dispose">> \in Seq(Script) /\ Len(<<"cleanup", "dispose">>) = 2
  /\ <<"submit", "dispose">> \in Seq(Script) /\ Len(<<"submit", "dispose">>) = 2
  /\ <<"write", "cleanup", "dispose">> \in Seq(Script)
  /\ Len(<<"write", "cleanup", "dispose">>) = 3
  /\ <<"write">> \in Seq(Script) /\ Len(<<"write">>) = 1
  /\ <<"submit">> \in Seq(Script) /\ Len(<<"submit">>) = 1
BY DEF Script

LEMMA QueueTyped ==
  \A q \in {<<>>, <<"dispose">>, <<"cleanup", "dispose">>, <<"submit", "dispose">>,
            <<"write", "cleanup", "dispose">>, <<"write">>, <<"submit">>} :
    q \in Seq(Script) /\ Len(q) <= 3
<1>. 0 <= 3 /\ 1 <= 3 /\ 2 <= 3 /\ 3 <= 3
  OBVIOUS
<1>. QED  BY Queues, Zenon

\* What the end of a call leaves queued.
LEMMA Endings ==
  /\ <<>> \o <<"dispose">> = <<"dispose">>
  /\ <<>> \o <<"cleanup", "dispose">> = <<"cleanup", "dispose">>
  /\ <<"submit">> \o <<"dispose">> = <<"submit", "dispose">>
  /\ <<"write">> \o <<"cleanup", "dispose">> = <<"write", "cleanup", "dispose">>
<1>1. <<>> \o <<"dispose">> = <<"dispose">> /\ <<>> \o <<"cleanup", "dispose">> = <<"cleanup", "dispose">>
  OBVIOUS
<1>2. <<"submit">> \o <<"dispose">> = <<"submit", "dispose">>
  <2>. DEFINE s == <<"submit">> \o <<"dispose">>
  <2>1. s \in Seq(Script) /\ Len(s) = 2 /\ s[1] = "submit" /\ s[2] = "dispose"
    BY DEF Script
  <2>2. \A i \in 1..2 : i = 1 \/ i = 2
    OBVIOUS
  <2>3. \A i \in 1..Len(s) : s[i] = <<"submit", "dispose">>[i]
    BY <2>1, <2>2
  <2>. HIDE DEF s
  <2>4. s = <<"submit", "dispose">>
    BY <2>1, <2>3, Queues, SeqEqual
  <2>. QED  BY <2>4 DEF s
<1>3. <<"write">> \o <<"cleanup", "dispose">> = <<"write", "cleanup", "dispose">>
  <2>. DEFINE s == <<"write">> \o <<"cleanup", "dispose">>
  <2>1. s \in Seq(Script) /\ Len(s) = 3 /\ s[1] = "write" /\ s[2] = "cleanup" /\ s[3] = "dispose"
    BY DEF Script
  <2>2. \A i \in 1..3 : i = 1 \/ i = 2 \/ i = 3
    OBVIOUS
  <2>3. \A i \in 1..Len(s) : s[i] = <<"write", "cleanup", "dispose">>[i]
    BY <2>1, <2>2
  <2>. HIDE DEF s
  <2>4. s = <<"write", "cleanup", "dispose">>
    BY <2>1, <2>3, Queues, SeqEqual
  <2>. QED  BY <2>4 DEF s
<1>. QED  BY <1>1, <1>2, <1>3

\* What is left when the first script has run.
LEMMA Running ==
  /\ Head(<<"write">>) = "write" /\ Tail(<<"write">>) = <<>>
  /\ Head(<<"submit">>) = "submit" /\ Tail(<<"submit">>) = <<>>
  /\ Head(<<"dispose">>) = "dispose" /\ Tail(<<"dispose">>) = <<>>
  /\ Head(<<"cleanup", "dispose">>) = "cleanup"
  /\ Tail(<<"cleanup", "dispose">>) = <<"dispose">>
  /\ Head(<<"submit", "dispose">>) = "submit"
  /\ Tail(<<"submit", "dispose">>) = <<"dispose">>
  /\ Head(<<"write", "cleanup", "dispose">>) = "write"
  /\ Tail(<<"write", "cleanup", "dispose">>) = <<"cleanup", "dispose">>
OBVIOUS

(***************************************************************************)
(* Initially                                                               *)
(***************************************************************************)

LEMMA Initially == Init => IInv
<1>. SUFFICES ASSUME Init PROVE Parts
  BY InvariantParts
<1>1. MaxCalls \in Nat /\ MaxIntrusions \in Nat /\ 0 \in Mounts
  BY BoundsAssumption DEF Mounts
<1>2. PageTyped
  <2>1. scripts \in Seq(Script) /\ Len(scripts) <= 3
    BY QueueTyped DEF Init
  <2>. QED  BY <1>1, <2>1 DEF Init, PageTyped
<1>3. CallTyped
  <2>1. sent \in Seq([text : {"message", "other"}, to : {"recipient", "elsewhere"}])
    BY DEF Init
  <2>2. pc = "idle" /\ result = "none" /\ decided \in Answer /\ answer \in Answer
    BY DEF Init, Answer
  <2>3. calls \in 0..MaxCalls /\ intrusions \in 0..MaxIntrusions
    BY <1>1 DEF Init
  <2>4. may_have_submitted = FALSE /\ reserve = FALSE
    BY DEF Init
  <2>. QED  BY <2>1, <2>2, <2>3, <2>4 DEF CallTyped
<1>4. MountsAreCounted /\ Pending /\ Remembers /\ SentOnceAsMeant
  BY DEF Init, MountsAreCounted, Pending, Remembers, SentOnceAsMeant, Sending
<1>. QED  BY <1>2, <1>3, <1>4 DEF Parts

(***************************************************************************)
(* The client and the end of a call                                        *)
(***************************************************************************)

LEMMA CallsKeeps == ASSUME Parts, Calls PROVE Parts'
<1>. USE DEF Parts
<1>1. ~may_have_submitted /\ sent = <<>>
  BY DEF Calls, CallTyped, Remembers, Final, Preparing, Sending
<1>2. composer' \in Mounts /\ 0 \in Mounts /\ composer' <= calls' + intrusions' /\ calls' \in 0..MaxCalls
  BY BoundsAssumption DEF Calls, MountsAreCounted, PageTyped, CallTyped, Mounts
<1>3. PageTyped'
  <2>1. scripts' \in Seq(Script) /\ Len(scripts') <= 3
    BY QueueTyped DEF Calls
  <2>. QED  BY <1>2, <2>1 DEF Calls, PageTyped
<1>4. CallTyped'
  BY <1>2 DEF Calls, Goes, CallTyped, Preparing, Sending
<1>5. Pending' /\ Remembers'
  BY <1>1 DEF Calls, Goes, Pending, Remembers, Sending
<1>6. SentOnceAsMeant' /\ MountsAreCounted'
  BY <1>1, <1>2 DEF Calls, SentOnceAsMeant, MountsAreCounted
<1>. QED  BY <1>3, <1>4, <1>5, <1>6

\* A call ends with an answer its client may repeat only if it did not submit.
LEMMA EndsKeeps ==
  ASSUME Parts, NEW a \in Answer, pc \in Preparing \cup Sending, Ends(a),
         pc \in Sending => a \in Final, UNCHANGED <<sent, intrusions>>
  PROVE  Parts'
<1>. USE DEF Parts
<1>1. CASE Refuses(a) /\ pc \in {"opened", "seen"}
  <2>1. PageTyped' /\ MountsAreCounted'
    BY <1>1 DEF Refuses, page, PageTyped, MountsAreCounted
  <2>2. CallTyped'
    BY <1>1 DEF Refuses, Goes, CallTyped, Preparing, Sending
  <2>3. Pending' /\ Remembers' /\ SentOnceAsMeant'
    BY <1>1 DEF Refuses, Goes, page, Pending, Remembers, SentOnceAsMeant, CallTyped,
       Sending
  <2>. QED  BY <2>1, <2>2, <2>3
<1>2. CASE Finishes(a, may_have_submitted) /\ pc \notin {"opened", "seen"}
  <2>1. CASE may_have_submitted
    <3>1. pc \in Sending /\ a \in Final
      BY <2>1 DEF CallTyped, Preparing, Sending
    <3>2. scripts' \in {<<"dispose">>, <<"submit", "dispose">>}
      BY <1>2, <2>1, <3>1, Endings DEF Finishes, Pending, Sending
    <3>3. scripts' = <<"dispose">> \/ sent = <<>>
      BY <1>2, <2>1, <3>1, Endings DEF Finishes, Pending, Sending
    <3>4. PageTyped' /\ MountsAreCounted'
      BY <1>2, <3>2, Queues DEF Finishes, PageTyped, MountsAreCounted
    <3>5. CallTyped'
      BY <1>2, <2>1 DEF Finishes, Goes, CallTyped
    <3>6. Pending' /\ Remembers' /\ SentOnceAsMeant'
      BY <1>2, <2>1, <3>1, <3>2, <3>3 DEF Finishes, Goes, Pending, Remembers,
         SentOnceAsMeant, Sending
    <3>. QED  BY <3>4, <3>5, <3>6
  <2>2. CASE ~may_have_submitted
    <3>1. pc \in Preparing /\ sent = <<>>
      BY <2>2 DEF Remembers, Preparing
    <3>2. scripts' \in {<<"cleanup", "dispose">>, <<"write", "cleanup", "dispose">>}
      BY <1>2, <2>2, <3>1, Endings DEF Finishes, Pending, Preparing
    <3>3. PageTyped' /\ MountsAreCounted'
      BY <1>2, <3>2, Queues DEF Finishes, PageTyped, MountsAreCounted
    <3>4. CallTyped'
      BY <1>2, <2>2 DEF Finishes, Goes, CallTyped
    <3>5. Pending' /\ Remembers' /\ SentOnceAsMeant'
      BY <1>2, <2>2, <3>1, <3>2 DEF Finishes, Goes, Pending, Remembers, SentOnceAsMeant,
         Sending
    <3>. QED  BY <3>3, <3>4, <3>5
  <2>. QED  BY <2>1, <2>2
<1>. QED  BY <1>1, <1>2 DEF Ends

LEMMA AnswersKeeps == ASSUME Parts, Answers PROVE Parts'
<1>. USE DEF Parts
<1>1. PageTyped' /\ MountsAreCounted'
  BY DEF Answers, page, PageTyped, MountsAreCounted
<1>2. CallTyped'
  BY DEF Answers, Goes, CallTyped
<1>3. Pending' /\ Remembers' /\ SentOnceAsMeant'
  BY DEF Answers, Goes, page, Pending, Remembers, SentOnceAsMeant, Sending
<1>. QED  BY <1>1, <1>2, <1>3

(***************************************************************************)
(* The steps of a call                                                     *)
(***************************************************************************)

\* Every way a call ends.
LEMMA EndingsKeep ==
  ASSUME Parts, \/ IsRefused \/ DeadlinePasses \/ Confirms \/ BudgetEnds \/ ClientLeaves
                \/ ReadsTheWrite /\ (Ends("error") \/ Ends("retry_safe"))
                \/ ReadsTheSubmission /\ result = "lost"
  PROVE  Parts'
<1>1. Final \subseteq Answer /\ {"retry_safe", "error"} \subseteq Answer
  BY DEF Final, Answer
<1>2. CASE IsRefused
  BY <1>1, <1>2, EndsKeeps DEF IsRefused, Preparing, Sending
<1>3. CASE DeadlinePasses
  BY <1>1, <1>3, EndsKeeps DEF DeadlinePasses, Preparing, Sending
<1>4. CASE Confirms
  BY <1>1, <1>4, EndsKeeps DEF Confirms, Sending, Final
<1>5. CASE BudgetEnds
  BY <1>1, <1>5, EndsKeeps DEF BudgetEnds, Sending, Final
<1>6. CASE ClientLeaves
  BY <1>1, <1>6, EndsKeeps DEF ClientLeaves, Sending, Final
<1>7. CASE ReadsTheWrite /\ (Ends("error") \/ Ends("retry_safe"))
  BY <1>1, <1>7, EndsKeeps DEF ReadsTheWrite, Preparing, Sending
<1>8. CASE ReadsTheSubmission /\ result = "lost"
  <2>1. pc \in Sending /\ may_have_submitted /\ Ends("unconfirmed")
    BY <1>8 DEF ReadsTheSubmission, Parts, Remembers, Sending
  <2>. QED  BY <1>1, <1>8, <2>1, EndsKeeps DEF ReadsTheSubmission, Final
<1>. QED  BY <1>2, <1>3, <1>4, <1>5, <1>6, <1>7, <1>8

\* The steps that only move a call on.
LEMMA MovesKeep ==
  ASSUME Parts, \/ ChecksTheComposer \/ PinsTheComposer \/ Arms \/ TimePasses
                \/ /\ ReadsTheWrite \/ ReadsTheSubmission
                   /\ UNCHANGED <<page, result, may_have_submitted, reserve, decided,
                                  answer, calls>>
                   /\ \/ Goes("written") /\ pc = "writing"
                      \/ Goes("confirming") /\ pc = "submitting"
  PROVE  Parts'
<1>. USE DEF Parts
<1>1. UNCHANGED <<place, composer, text, scripts, result, may_have_submitted, decided, answer,
                  calls, sent, intrusions>>
  BY DEF ChecksTheComposer, PinsTheComposer, Arms, TimePasses, ReadsTheWrite,
     ReadsTheSubmission, page
<1>2. pinned' \in Mounts /\ owned' \in BOOLEAN /\ (owned' => pinned' # 0)
  <2>1. CASE PinsTheComposer
    BY <2>1 DEF PinsTheComposer, PageTyped
  <2>2. CASE UNCHANGED <<pinned, owned>>
    BY <2>2 DEF PageTyped
  <2>. QED  BY <2>1, <2>2 DEF ChecksTheComposer, Arms, TimePasses, page
<1>3. PageTyped' /\ MountsAreCounted'
  BY <1>1, <1>2 DEF PageTyped, MountsAreCounted
<1>4. CASE TimePasses
  BY <1>1, <1>3, <1>4 DEF TimePasses, CallTyped, Pending, Remembers, SentOnceAsMeant
<1>5. CASE ~TimePasses
  <2>1. /\ reserve' = reserve
        /\ \/ pc \in {"opened", "seen", "written"} /\ pc' \in {"seen", "pinned", "armed"}
           \/ pc = "writing" /\ pc' = "written" /\ scripts = <<>>
           \/ pc = "submitting" /\ pc' = "confirming" /\ scripts = <<>>
    BY <1>5 DEF ChecksTheComposer, PinsTheComposer, Arms, ReadsTheWrite,
       ReadsTheSubmission,
       Goes, Pending
  <2>2. CallTyped'
    BY <1>1, <2>1 DEF CallTyped, Preparing, Sending
  <2>3. Pending' /\ Remembers' /\ SentOnceAsMeant'
    BY <1>1, <2>1 DEF Pending, Remembers, SentOnceAsMeant, Sending
  <2>. QED  BY <1>3, <2>2, <2>3
<1>. QED  BY <1>4, <1>5

LEMMA WritesKeeps == ASSUME Parts, Writes PROVE Parts'
<1>. USE DEF Parts
<1>1. scripts' = <<"write">>
  BY DEF Writes, Sends, Pending
<1>2. PageTyped' /\ MountsAreCounted'
  BY <1>1, Queues DEF Writes, Sends, PageTyped, MountsAreCounted
<1>3. CallTyped'
  BY DEF Writes, Sends, Goes, CallTyped, Preparing, Sending
<1>4. Pending' /\ Remembers' /\ SentOnceAsMeant'
  BY <1>1 DEF Writes, Sends, Goes, Pending, Remembers, SentOnceAsMeant, CallTyped,
     Sending
<1>. QED  BY <1>2, <1>3, <1>4

LEMMA SubmitsKeeps == ASSUME Parts, Submits PROVE Parts'
<1>. USE DEF Parts
<1>1. scripts' = <<"submit">> /\ may_have_submitted'
  BY DEF Submits, Sends, Pending, FromTheFirstAttempt
<1>2. PageTyped' /\ MountsAreCounted'
  BY <1>1, Queues DEF Submits, Sends, PageTyped, MountsAreCounted
<1>3. sent = <<>>
  BY DEF Submits, CallTyped, Remembers, Sending
<1>4. CallTyped'
  BY DEF Submits, Sends, Goes, CallTyped, FromTheFirstAttempt, Sending
<1>5. Pending' /\ Remembers' /\ SentOnceAsMeant'
  BY <1>1, <1>3 DEF Submits, Sends, Goes, Pending, Remembers, SentOnceAsMeant
<1>. QED  BY <1>2, <1>4, <1>5

\* A script that did not click is believed, and the call takes its text back.
LEMMA TakesBackKeeps ==
  ASSUME Parts, ReadsTheSubmission, Finishes("retry_safe", FALSE), result = "invalid" PROVE Parts'
<1>. USE DEF Parts
<1>1. pc = "submitting" /\ sent = <<>> /\ scripts' = <<"cleanup", "dispose">>
  BY Endings DEF ReadsTheSubmission, Remembers, Pending, Finishes
<1>2. PageTyped' /\ MountsAreCounted'
  BY <1>1, Queues DEF Finishes, ReadsTheSubmission, PageTyped, MountsAreCounted
<1>3. CallTyped'
  BY <1>1 DEF Finishes, ReadsTheSubmission, Goes, CallTyped, Answer
<1>4. Pending' /\ Remembers' /\ SentOnceAsMeant'
  BY <1>1 DEF Finishes, ReadsTheSubmission, Goes, Pending, Remembers, SentOnceAsMeant,
     Sending
<1>. QED  BY <1>2, <1>3, <1>4

(***************************************************************************)
(* The scripts and the page                                                *)
(***************************************************************************)

\* A script leaves the queue of its call as it may be.
LEMMA QueueMoves ==
  ASSUME Parts, scripts # <<>>, scripts' = Tail(scripts), UNCHANGED <<pc, may_have_submitted>>,
         Head(scripts) = "submit" \/ sent' = sent
  PROVE  Pending' /\ scripts' \in Seq(Script) /\ Len(scripts') <= 3
<1>. USE DEF Parts
<1>1. \/ pc = "writing" /\ scripts = <<"write">> /\ scripts' = <<>>
      \/ pc = "submitting" /\ scripts = <<"submit">> /\ scripts' = <<>>
      \/ /\ pc \in {"leaving", "answered"}
         /\ scripts' \in {<<>>, <<"dispose">>, <<"cleanup", "dispose">>}
  <2>1. CASE pc = "writing"
    BY <2>1, Running DEF Pending
  <2>2. CASE pc = "submitting"
    BY <2>2, Running DEF Pending
  <2>3. CASE pc \in {"leaving", "answered"}
    BY <2>3, Running DEF Pending
  <2>. QED  BY <2>1, <2>2, <2>3 DEF Pending, CallTyped, Preparing, Sending
<1>2. Pending'
  BY <1>1 DEF Pending
<1>. QED  BY <1>1, <1>2, QueueTyped

LEMMA ScriptKeeps == ASSUME Parts, RunsTheNextScript PROVE Parts'
<1>. USE DEF Parts
<1>1. Pending' /\ scripts' \in Seq(Script) /\ Len(scripts') <= 3
  BY QueueMoves DEF RunsTheNextScript
<1>2. PageTyped' /\ MountsAreCounted'
  <2>1. UNCHANGED <<place, composer, calls, intrusions>>
    BY DEF RunsTheNextScript
  <2>2. text' \in {"empty", "message", "other"}
    BY DEF RunsTheNextScript, RunsWrite, RunsSubmit, RunsCleanup, RunsDispose, PageTyped
  <2>3. 0 \in Mounts
    BY BoundsAssumption DEF Mounts
  <2>4. pinned' \in Mounts /\ owned' \in BOOLEAN /\ (owned' => pinned' # 0)
    <3>1. CASE Head(scripts) = "write"
      <4>1. RunsWrite /\ pinned' = pinned
        BY <3>1 DEF RunsTheNextScript
      <4>2. owned' \in BOOLEAN
        BY <4>1, Zenon DEF RunsWrite, PageTyped
      <4>3. owned' => owned \/ pinned # 0
        BY <4>1 DEF RunsWrite, StillPinned
      <4>. QED  BY <4>1, <4>2, <4>3 DEF PageTyped
    <3>2. CASE Head(scripts) # "write"
      BY <2>3, <3>2 DEF RunsTheNextScript, RunsSubmit, RunsCleanup, RunsDispose,
         PageTyped
    <3>. QED  BY <3>1, <3>2
  <2>. QED  BY <1>1, <2>1, <2>2, <2>4 DEF PageTyped, MountsAreCounted
<1>3. CASE sent' = sent
  <2>1. CallTyped'
    BY <1>3 DEF RunsTheNextScript, RunsWrite, RunsSubmit, RunsCleanup, RunsDispose,
       Returns, CallTyped
  <2>2. Remembers' /\ SentOnceAsMeant'
    <3>1. pc = "submitting" /\ result' = "invalid" => sent = <<>>
      BY Running DEF RunsTheNextScript, RunsWrite, RunsCleanup, RunsDispose, Returns,
         Remembers, Pending
    <3>. QED  BY <1>3, <3>1 DEF RunsTheNextScript, Remembers, SentOnceAsMeant
  <2>. QED  BY <1>1, <1>2, <2>1, <2>2
<1>4. CASE sent' # sent
  <2>1. Head(scripts) = "submit" /\ RunsSubmit /\ MayClick
    BY <1>4 DEF RunsTheNextScript, RunsSubmit
  <2>2. sent' = Append(sent, [text |-> text, to |-> place]) /\ Returns("submit", "clicked")
    BY <1>4, <2>1 DEF RunsSubmit
  <2>3. sent = <<>> /\ may_have_submitted /\ pc \in {"submitting", "leaving", "answered"}
    BY <2>1, Running DEF RunsTheNextScript, Pending, Remembers, CallTyped, Preparing,
       Sending
  <2>4. sent' = <<[text |-> "message", to |-> "recipient"]>>
    BY <2>1, <2>2, <2>3 DEF MayClick, StillPinned
  <2>5. sent' \in Seq([text : {"message", "other"}, to : {"recipient", "elsewhere"}])
    BY <2>4
  <2>6. CallTyped'
    BY <2>2, <2>5 DEF RunsTheNextScript, Returns, CallTyped
  <2>7. Remembers' /\ SentOnceAsMeant'
    BY <2>2, <2>3, <2>4 DEF RunsTheNextScript, Returns, Remembers, SentOnceAsMeant
  <2>. QED  BY <1>1, <1>2, <2>6, <2>7
<1>. QED  BY <1>3, <1>4

LEMMA PageChangesKeeps == ASSUME Parts, PageChanges PROVE Parts'
<1>. USE DEF Parts
<1>1. intrusions' \in 0..MaxIntrusions /\ intrusions' = intrusions + 1
  BY BoundsAssumption DEF PageChanges, Intrusion, CallTyped
<1>2. composer' \in Mounts /\ 0 \in Mounts /\ MountsAreCounted'
  <2>1. composer' \in {composer, composer + 1, 0} /\ calls' = calls
    BY DEF PageChanges, SomebodyTypes, PageMoves, ComposerIsRemounted, PageIsLost
  <2>. QED  BY <1>1, <2>1, BoundsAssumption DEF CallTyped, PageTyped,
     MountsAreCounted, Mounts
<1>3. CASE PageIsLost
  <2>1. PageTyped'
    <3>1. scripts' \in Seq(Script) /\ Len(scripts') <= 3
      BY <1>3, QueueTyped DEF PageIsLost
    <3>. QED  BY <1>2, <1>3, <3>1 DEF PageIsLost, PageTyped
  <2>2. CallTyped'
    BY <1>1, <1>3 DEF PageChanges, PageIsLost, CallTyped
  <2>3. Pending' /\ Remembers' /\ SentOnceAsMeant'
    BY <1>3 DEF PageChanges, PageIsLost, Pending, Remembers, SentOnceAsMeant
  <2>. QED  BY <1>2, <2>1, <2>2, <2>3
<1>4. CASE SomebodyTypes \/ PageMoves \/ ComposerIsRemounted
  <2>1. PageTyped'
    BY <1>2, <1>4 DEF SomebodyTypes, PageMoves, ComposerIsRemounted, PageTyped
  <2>2. UNCHANGED <<scripts, result>>
    BY <1>4 DEF SomebodyTypes, PageMoves, ComposerIsRemounted
  <2>3. CallTyped'
    BY <1>1, <2>2 DEF PageChanges, CallTyped
  <2>4. Pending' /\ Remembers' /\ SentOnceAsMeant'
    BY <2>2 DEF PageChanges, Pending, Remembers, SentOnceAsMeant
  <2>. QED  BY <1>2, <2>1, <2>3, <2>4
<1>. QED  BY <1>3, <1>4 DEF PageChanges

LEMMA StepKeeps == IInv /\ [Next]_vars => IInv'
<1>. SUFFICES ASSUME Parts, [Next]_vars PROVE Parts'
  BY InvariantParts
<1>1. CASE UNCHANGED vars
  BY <1>1 DEF vars, page, call, Parts, PageTyped, CallTyped, MountsAreCounted, Pending,
     Remembers, SentOnceAsMeant
<1>2. CASE ReadsTheWrite
  <2>1. CASE Ends("error") \/ Ends("retry_safe")
    BY <1>2, <2>1, EndingsKeep
  <2>2. CASE ~(Ends("error") \/ Ends("retry_safe"))
    <3>1. /\ UNCHANGED <<page, result, may_have_submitted, reserve, decided, answer, calls>>
          /\ Goes("written") /\ pc = "writing"
      BY <1>2, <2>2 DEF ReadsTheWrite
    <3>. QED  BY <1>2, <3>1, MovesKeep
  <2>. QED  BY <2>1, <2>2
<1>3. CASE ReadsTheSubmission
  <2>1. CASE result = "lost"
    BY <1>3, <2>1, EndingsKeep
  <2>2. CASE result = "invalid"
    BY <1>3, <2>2, TakesBackKeeps DEF ReadsTheSubmission
  <2>3. CASE result = "clicked"
    <3>1. /\ UNCHANGED <<page, result, may_have_submitted, reserve, decided, answer, calls>>
          /\ Goes("confirming") /\ pc = "submitting"
      BY <1>3, <2>3 DEF ReadsTheSubmission
    <3>. QED  BY <1>3, <3>1, MovesKeep
  <2>. QED  BY <1>3, <2>1, <2>2, <2>3 DEF ReadsTheSubmission
<1>4. CASE Tool /\ ~ReadsTheWrite /\ ~ReadsTheSubmission
  BY <1>4, EndingsKeep, MovesKeep, WritesKeeps, SubmitsKeeps, AnswersKeeps DEF Tool
<1>5. CASE Calls \/ RunsTheNextScript \/ PageChanges
  BY <1>5, CallsKeeps, ScriptKeeps, PageChangesKeeps
<1>6. CASE ClientLeaves \/ TimePasses
  BY <1>6, EndingsKeep, MovesKeep
<1>. QED  BY <1>1, <1>2, <1>3, <1>4, <1>5, <1>6 DEF Next

(***************************************************************************)
(* Theorems                                                                *)
(***************************************************************************)

\* The inductive invariant: where the script that may click can be, and what the
\* call that sent it remembers and answers.
THEOREM ClickIsRemembered == Spec => []IInv
BY Initially, StepKeeps, PTL DEF Spec

\* Every variable keeps its type; no more than three scripts are ever queued.
THEOREM SendTyped == Spec => []TypeOK
BY ClickIsRemembered, PTL DEF IInv

\* However often the call is repeated and whatever becomes of the page, LinkedIn
\* is sent the message at most once, under the recipient's address, and nothing
\* else from the composer.
THEOREM SentOnce == Spec => []SentOnceAsMeant
BY ClickIsRemembered, PTL DEF IInv

(***************************************************************************)
(* What the answers are worth to the client                                *)
(***************************************************************************)

\* A call is under way, or answered, once there was one.
Counted == pc = "idle" <=> calls = 0

LEMMA CountedKept == IInv /\ Counted /\ [Next]_vars => Counted'
<1>. SUFFICES ASSUME IInv, Counted, [Next]_vars PROVE Counted'
  OBVIOUS
<1>t. calls \in 0..MaxCalls /\ MaxCalls \in Nat
  BY BoundsAssumption DEF IInv, TypeOK
<1>1. CASE Calls
  BY <1>1, <1>t DEF Calls, Goes, Counted
<1>2. ASSUME NEW a, NEW b, Refuses(a) \/ Finishes(a, b)
      PROVE  calls' = calls /\ pc' # "idle"
  BY <1>2 DEF Refuses, Finishes, Goes
<1>3. ASSUME NEW a, Ends(a)
      PROVE  calls' = calls /\ pc' # "idle"
  BY <1>3, <1>2 DEF Ends
<1>4. CASE Tool
  <2>1. calls' = calls /\ pc # "idle" /\ pc' # "idle"
    BY <1>2, <1>3, <1>4
       DEF Tool, IsRefused, ChecksTheComposer, PinsTheComposer, Writes, ReadsTheWrite, Arms,
           DeadlinePasses, Submits, ReadsTheSubmission, Confirms, BudgetEnds, Answers, Sends,
           Goes, Preparing, Sending
  <2>. QED  BY <2>1 DEF Counted
<1>5. CASE ClientLeaves
  <2>1. calls' = calls /\ pc # "idle" /\ pc' # "idle"
    BY <1>3, <1>5 DEF ClientLeaves, Preparing, Sending
  <2>. QED  BY <2>1 DEF Counted
<1>6. CASE RunsTheNextScript \/ TimePasses \/ PageChanges \/ UNCHANGED vars
  <2>1. UNCHANGED <<pc, calls>>
    BY <1>6 DEF RunsTheNextScript, TimePasses, PageChanges, vars, call
  <2>. QED  BY <2>1 DEF Counted
<1>. QED  BY <1>1, <1>4, <1>5, <1>6 DEF Next

Repeatable == {"retry_safe", "error"}

\* What the client sees does not change while a call goes on.
LEMMA NothingIsTold ==
  ASSUME UNCHANGED <<calls, sent>>,
         UNCHANGED <<pc, answer>> \/ (pc # "answered" /\ pc' # "answered")
  PROVE  UNCHANGED Client!promiseVars
<1>1. ASSUME NEW k \in 1..MaxCalls
      PROVE  ToldOf(k)' = ToldOf(k) /\ WentOutIn(k)' = WentOutIn(k)
  BY DEF ToldOf, WentOutIn
<1>. QED  BY <1>1 DEF Client!promiseVars

\* An answer that may be repeated is given to a call that sent nothing.
LEMMA AnswerIsTold ==
  ASSUME IInv, Counted, pc \notin {"idle", "answered"}, pc' = "answered",
         UNCHANGED <<calls, sent>>, answer' \in Repeatable => sent = <<>>
  PROVE  Client!Next
<1>. DEFINE told == [k \in 1..MaxCalls |-> ToldOf(k)]
            effects == [k \in 1..MaxCalls |-> WentOutIn(k)]
<1>t. calls \in 1..MaxCalls /\ MaxCalls \in Nat
  BY BoundsAssumption DEF IInv, TypeOK, Counted
<1>1. told[calls] = "nothing"
  BY <1>t DEF ToldOf
<1>2. told' = [told EXCEPT ![calls] =
                 IF answer' \in Repeatable THEN "repeat" ELSE "other"]
  <2>1. ASSUME NEW k \in 1..MaxCalls, k # calls
        PROVE  ToldOf(k)' = ToldOf(k)
    BY <1>t, <2>1 DEF ToldOf
  <2>2. ToldOf(calls)' = IF answer' \in Repeatable THEN "repeat" ELSE "other"
    BY <1>t DEF ToldOf, Repeatable
  <2>. QED  BY <2>1, <2>2, <1>t
<1>3. effects' = effects
  <2>1. ASSUME NEW k \in 1..MaxCalls PROVE WentOutIn(k)' = WentOutIn(k)
    BY DEF WentOutIn
  <2>. QED  BY <2>1
<1>4. CASE answer' \in Repeatable
  <2>1. effects[calls] = 0
    BY <1>4, <1>t DEF WentOutIn
  <2>2. told' = [told EXCEPT ![calls] = "repeat"]
    BY <1>2, <1>4
  <2>3. Client!SaysToRepeat(calls)
    BY <1>1, <1>3, <2>1, <2>2 DEF Client!SaysToRepeat
  <2>. QED  BY <2>3, <1>t DEF Client!Next
<1>5. CASE answer' \notin Repeatable
  <2>1. told' = [told EXCEPT ![calls] = "other"]
    BY <1>2, <1>5
  <2>2. Client!SaysAnythingElse(calls)
    BY <1>1, <1>3, <2>1 DEF Client!SaysAnythingElse
  <2>. QED  BY <2>2, <1>t DEF Client!Next
<1>. QED  BY <1>4, <1>5

\* The message goes out in a call whose client has not been told to try again.
LEMMA ClickIsAnEffect ==
  ASSUME IInv, Counted, pc # "idle", UNCHANGED <<pc, answer, calls>>,
         sent = <<>>, NEW m, sent' = Append(sent, m),
         pc = "answered" => answer \notin Repeatable
  PROVE  Client!Next
<1>. DEFINE told == [k \in 1..MaxCalls |-> ToldOf(k)]
            effects == [k \in 1..MaxCalls |-> WentOutIn(k)]
<1>t. calls \in 1..MaxCalls /\ MaxCalls \in Nat
  BY BoundsAssumption DEF IInv, TypeOK, Counted
<1>l. Len(sent) = 0 /\ Len(sent') = 1
  OBVIOUS
<1>1. told[calls] # "repeat" /\ effects[calls] = 0
  BY <1>t, <1>l DEF ToldOf, WentOutIn, Repeatable
<1>2. told' = told
  <2>1. ASSUME NEW k \in 1..MaxCalls PROVE ToldOf(k)' = ToldOf(k)
    BY DEF ToldOf
  <2>. QED  BY <2>1
<1>3. effects' = [effects EXCEPT ![calls] = 1]
  <2>1. ASSUME NEW k \in 1..MaxCalls
        PROVE  WentOutIn(k)' = IF k = calls THEN 1 ELSE WentOutIn(k)
    BY <1>l DEF WentOutIn
  <2>. QED  BY <2>1, <1>t
<1>4. Client!Acts(calls)
  BY <1>1, <1>2, <1>3 DEF Client!Acts
<1>. QED  BY <1>4, <1>t DEF Client!Next

\* Only the script that submits sends, and only in a call that remembers it.
LEMMA ScriptsPromise ==
  ASSUME IInv, Counted, RunsTheNextScript
  PROVE  Client!Next \/ UNCHANGED Client!promiseVars
<1>p. Parts
  BY InvariantParts
<1>u. UNCHANGED <<pc, answer, calls>>
  BY DEF RunsTheNextScript
<1>1. CASE sent' = sent
  BY <1>1, <1>u, NothingIsTold
<1>2. CASE sent' # sent
  <2>1. /\ scripts # <<>> /\ Head(scripts) = "submit"
        /\ \E m : sent' = Append(sent, m)
    BY <1>2 DEF RunsTheNextScript, RunsSubmit
  <2>2. /\ pc \in {"submitting", "leaving", "answered"} /\ sent = <<>>
        /\ may_have_submitted
    BY <1>p, <2>1, Running DEF Parts, Pending, Remembers, CallTyped, Preparing, Sending
  <2>3. pc = "answered" => answer \notin Repeatable
    BY <1>p, <2>2 DEF Parts, Remembers, Final, Repeatable
  <2>. QED  BY <1>u, <2>1, <2>2, <2>3, ClickIsAnEffect
<1>. QED  BY <1>1, <1>2

\* A call that ends, in an answer or in the cleanup before it.
LEMMA EndingPromise ==
  ASSUME IInv, Counted, NEW a, Ends(a), UNCHANGED sent,
         pc \in Preparing \cup Sending
  PROVE  Client!Next \/ UNCHANGED Client!promiseVars
<1>p. Parts
  BY InvariantParts
<1>1. CASE Refuses(a) /\ pc \in {"opened", "seen"}
  <2>1. sent = <<>>
    BY <1>p, <1>1 DEF Parts, Remembers, CallTyped, Sending
  <2>. QED  BY <1>1, <2>1, AnswerIsTold DEF Refuses, Goes
<1>2. CASE Finishes(a, may_have_submitted)
  BY <1>2, NothingIsTold DEF Finishes, Goes, Preparing, Sending
<1>. QED  BY <1>1, <1>2 DEF Ends

\* Another call begins where the last one sent nothing.
LEMMA CallsPromise ==
  ASSUME IInv, Counted, Calls
  PROVE  UNCHANGED Client!promiseVars
<1>p. Parts
  BY InvariantParts
<1>t. calls \in 0..MaxCalls /\ MaxCalls \in Nat /\ calls' = calls + 1
  BY BoundsAssumption DEF IInv, TypeOK, Calls
<1>1. sent = <<>> /\ Len(sent) = 0 /\ sent' = sent
  <2>1. ~may_have_submitted
    BY <1>p DEF Calls, Parts, Remembers, Final, CallTyped, Sending
  <2>2. sent = <<>> /\ sent' = sent
    BY <1>p, <2>1 DEF Calls, Parts, Remembers
  <2>. QED  BY <2>2
<1>2. /\ pc' = "opened"
      /\ (pc = "idle" /\ calls = 0) \/ (pc = "answered" /\ answer \in Repeatable)
  BY DEF Calls, Goes, Counted, Repeatable
<1>3. ASSUME NEW k \in 1..MaxCalls
      PROVE  ToldOf(k)' = ToldOf(k) /\ WentOutIn(k)' = WentOutIn(k)
  <2>1. WentOutIn(k)' = WentOutIn(k)
    BY <1>1 DEF WentOutIn
  <2>2. CASE k < calls
    BY <2>1, <2>2, <1>t DEF ToldOf
  <2>3. CASE k = calls
    BY <2>1, <2>3, <1>t, <1>2 DEF ToldOf, Repeatable
  <2>4. CASE k > calls
    BY <2>1, <2>4, <1>t, <1>2 DEF ToldOf
  <2>. QED  BY <2>2, <2>3, <2>4, <1>t
<1>. QED  BY <1>3 DEF Client!promiseVars

LEMMA StepPromise ==
  IInv /\ Counted /\ [Next]_vars => [Client!Next]_(Client!promiseVars)
<1>. SUFFICES ASSUME IInv, Counted, [Next]_vars
              PROVE  Client!Next \/ UNCHANGED Client!promiseVars
  OBVIOUS
<1>p. Parts
  BY InvariantParts
<1>1. CASE Calls
  BY <1>1, CallsPromise
<1>2. CASE RunsTheNextScript
  BY <1>2, ScriptsPromise
<1>3. CASE TimePasses \/ PageChanges \/ UNCHANGED vars
  BY <1>3, NothingIsTold DEF TimePasses, PageChanges, vars, call
<1>4. CASE IsRefused \/ DeadlinePasses \/ Confirms \/ BudgetEnds \/ ClientLeaves
  BY <1>4, EndingPromise
     DEF IsRefused, DeadlinePasses, Confirms, BudgetEnds, ClientLeaves, Preparing, Sending
<1>5. CASE ChecksTheComposer \/ PinsTheComposer \/ Writes \/ Arms \/ Submits
  BY <1>5, NothingIsTold
     DEF ChecksTheComposer, PinsTheComposer, Writes, Arms, Submits, Sends, Goes
<1>6. CASE ReadsTheWrite
  <2>1. CASE Ends("error") \/ Ends("retry_safe")
    BY <1>6, <2>1, EndingPromise DEF ReadsTheWrite, Preparing
  <2>2. CASE ~(Ends("error") \/ Ends("retry_safe"))
    BY <1>6, <2>2, NothingIsTold DEF ReadsTheWrite, Goes
  <2>. QED  BY <2>1, <2>2
<1>7. CASE ReadsTheSubmission
  <2>1. CASE result = "lost"
    BY <1>7, <2>1, EndingPromise DEF ReadsTheSubmission, Sending
  <2>2. CASE result # "lost"
    BY <1>7, <2>2, NothingIsTold DEF ReadsTheSubmission, Finishes, Goes
  <2>. QED  BY <2>1, <2>2
<1>8. CASE Answers
  <2>1. decided \in Repeatable => sent = <<>>
    BY <1>p, <1>8 DEF Answers, Parts, Remembers, Final, Repeatable
  <2>. QED  BY <1>8, <2>1, AnswerIsTold DEF Answers, Goes
<1>. QED  BY <1>1, <1>2, <1>3, <1>4, <1>5, <1>6, <1>7, <1>8 DEF Next, Tool

\* For any number of calls and intrusions the tool keeps the promise CallRecovery keeps
\* one level up: one effect a call at most, and an answer that allows another try only
\* for a call that sent nothing and never will, also with a script still to run.
THEOREM AnswersMayBeHeeded == Spec => ClientsMayHeedTheAnswer
<1>1. Init => Client!Init /\ Counted
  <2>. SUFFICES ASSUME Init PROVE Client!Init /\ Counted
    OBVIOUS
  <2>1. ASSUME NEW k \in 1..MaxCalls PROVE ToldOf(k) = "nothing" /\ WentOutIn(k) = 0
    BY BoundsAssumption DEF Init, ToldOf, WentOutIn
  <2>2. Counted
    BY DEF Init, Counted
  <2>. QED  BY <2>1, <2>2 DEF Client!Init
<1>. QED  BY <1>1, CountedKept, StepPromise, ClickIsRemembered, PTL
     DEF Spec, ClientsMayHeedTheAnswer, Client!Spec
====================================================================================
