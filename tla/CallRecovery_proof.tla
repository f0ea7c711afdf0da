----------------------------- MODULE CallRecovery_proof -----------------------------
(* What CallRecovery promises, for any owners and any calls made at once.  The      *)
(* argument: a call that changes something is on its way in one request at most,    *)
(* and goes out again only when that request was never taken; the owner a request   *)
(* is at is the one its beats go to, since both come from one choice and attempts   *)
(* are numbered upwards; and an election that began after a burial knows of it.     *)
EXTENDS CallRecovery, TLAPS

Recovering == {"failed", "joining", "landed", "recovered", "refused"}
Unsent == {"new", "preflight", "marked", "opened"}

\* The types of what is kept for each operation, and of the rest.
CallsTyped ==
  /\ pc \in [Operation -> {"new", "preflight", "marked", "opened", "sent", "failed",
                           "joining", "landed", "recovered", "refused", "repairing", "done"}]
  /\ try \in [Operation -> 1..4]
  /\ binding \in [Operation -> Owner \cup {Nobody}]
  /\ target \in [Operation -> Owner \cup {Nobody}]
  /\ failure \in [Operation -> Failure]
  /\ changes \in [Operation -> {"unasked", "yes", "no"}]
  /\ landed \in [Operation -> [found : Owner \cup {Nobody}, buried : SUBSET Owner]]
  /\ joined \in [Operation -> 0..2]
  /\ answer \in [Operation -> {"none", "over", "lost", "unknown"}]

RestTyped ==
  /\ owner \in [Owner -> OwnerState]
  /\ attachment \in Owner /\ unusable \subseteq Owner
  /\ flight \in [running : BOOLEAN, buried : SUBSET Owner]
  /\ requests \subseteq Request
  /\ acted \in [Writing -> Nat]

\* Where an attempt goes, and whom its failure is about.
Addressed ==
  /\ \A c \in Operation :
       /\ pc[c] \in {"preflight", "marked", "sent", "repairing"} => c \in Call
       /\ failure[c].class = "buries" => failure[c].owner \in Owner
  /\ \A c \in Call :
       /\ pc[c] \in {"preflight", "marked", "opened", "sent"} => binding[c] \in Owner
       /\ pc[c] \in {"opened", "sent"} => target[c] = binding[c]

\* Attempts are numbered upwards, and a request is of an attempt that was made.
Numbered ==
  /\ \A c \in Operation :
       /\ pc[c] \in {"joining", "landed", "recovered", "refused"} => ~IsRepeat(c)
       /\ pc[c] = "repairing" \/ c \in Listing => try[c] <= 2
  /\ \A r \in requests :
       /\ pc[r.call] # "done" => r.try <= try[r.call]
       /\ pc[r.call] \in Unsent => r.try < try[r.call]
       /\ pc[r.call] = "sent" /\ r.try = try[r.call] => r.owner = binding[r.call]

\* A call that changes something has one request at most, which acts once.
OneRequest(c) ==
  /\ \A r, s \in requests : r.call = c /\ s.call = c => r = s
  /\ acted[c] <= 1
  /\ \A r \in requests : r.call = c /\ r.at # "acted" => acted[c] = 0

Clean(c) == acted[c] = 0 /\ ~Pending(c)

ActsOnce ==
  \A c \in Writing :
    /\ OneRequest(c)
    /\ pc[c] \in Unsent \cup {"repairing"} => Clean(c)
    /\ pc[c] \in Recovering /\ failure[c].unsent => Clean(c)
    /\ answer[c] = "lost" => Clean(c)
    /\ answer[c] # "none" => pc[c] = "done"
    /\ changes[c] # "no"

\* An election that a call waits for a second time, or that began after its burial,
\* knows of it.
Informed ==
  \A c \in Operation :
    /\ pc[c] \in {"joining", "landed", "recovered", "refused"} =>
         WrittenOffBy(failure[c]) \subseteq unusable
    /\ pc[c] = "landed" /\ flight.running => WrittenOffBy(failure[c]) \subseteq flight.buried
    /\ pc[c] = "joining" /\ joined[c] = 2 => WrittenOffBy(failure[c]) \subseteq flight.buried
    /\ pc[c] = "landed" /\ joined[c] = 2 => WrittenOffBy(failure[c]) \subseteq landed[c].buried

Parts == CallsTyped /\ RestTyped /\ Addressed /\ Numbered /\ ActsOnce /\ Informed

IInv == TypeOK /\ Addressed /\ Numbered /\ ActsOnce /\ Informed

LEMMA InvariantParts == /\ IInv <=> Parts
                        /\ IInv' <=> Parts'
<1>1. IInv <=> Parts
  BY Zenon DEF IInv, Parts, TypeOK, CallsTyped, RestTyped
<1>. QED  BY <1>1, PTL

\* What the constants give: the operations are of three disjoint kinds.
LEMMA Kinds ==
  /\ Call \subseteq Operation /\ Listing \subseteq Operation /\ Writing \subseteq Call
  /\ Operation = Listing \cup Call /\ Listing \cap Call = {}
  /\ Reading \cap Writing = {} /\ Listing \cap Writing = {}
  /\ Nobody \notin Owner /\ First \in Owner
BY FirstIsAnOwner, OperationsAreDisjoint, OwnersAreNamed DEF Call, Operation, Nobody

LEMMA Initially == Init => IInv
<1>. SUFFICES ASSUME Init PROVE Parts
  BY InvariantParts
<1>1. pc \in [Operation -> {"new", "done"}]
  BY DEF Init
<1>2. CallsTyped
  BY <1>1 DEF Init, CallsTyped, Failure, Failures, NoFailure, NotLanded
<1>3. RestTyped
  BY Kinds DEF Init, RestTyped, NoFlight, OwnerState
<1>4. Addressed
  BY <1>1, Kinds DEF Init, Addressed, NoFailure
<1>5. Numbered
  BY <1>1 DEF Init, Numbered
<1>6. ActsOnce
  BY <1>1, Kinds DEF Init, ActsOnce, OneRequest, Clean, Pending, Recovering
<1>7. Informed
  BY <1>1 DEF Init, Informed
<1>. QED  BY <1>2, <1>3, <1>4, <1>5, <1>6, <1>7 DEF Parts

(***************************************************************************)
(* How an attempt goes on, fails or ends                                   *)
(***************************************************************************)

LEMMA FailsKeeps ==
  ASSUME Parts, NEW c \in Operation, NEW o \in Owner \cup {Nobody}, NEW unsent \in BOOLEAN,
         NEW class \in Failures, Fails(c, o, unsent, class),
         class = "buries" => o \in Owner, pc[c] # "done",
         requests' \subseteq requests, UNCHANGED <<owner, backend, acted>>,
         c \in Writing /\ unsent => Clean(c)'
  PROVE  Parts'
<1>. USE DEF Parts
<1>1. CallsTyped'
  BY DEF Fails, GoesTo, CallsTyped, Failure
<1>2. RestTyped'
  BY DEF backend, RestTyped
<1>3. Addressed'
  BY DEF Fails, GoesTo, Addressed, CallsTyped, Failure
<1>4. Numbered'
  BY DEF Fails, GoesTo, Numbered, CallsTyped, RestTyped, Request, IsRepeat, Unsent
<1>5. ActsOnce'
  <2>. SUFFICES ASSUME NEW d \in Writing
                PROVE  /\ OneRequest(d)'
                       /\ pc'[d] \in Unsent \cup {"repairing"} => Clean(d)'
                       /\ pc'[d] \in Recovering /\ failure'[d].unsent => Clean(d)'
                       /\ answer'[d] = "lost" => Clean(d)'
                       /\ answer'[d] # "none" => pc'[d] = "done"
                       /\ changes'[d] # "no"
    BY DEF ActsOnce
  <2>1. OneRequest(d)' /\ (Clean(d) => Clean(d)')
    BY DEF ActsOnce, OneRequest, Clean, Pending
  <2>2. CASE d = c
    BY <2>1, <2>2, Kinds DEF Fails, GoesTo, ActsOnce, CallsTyped, Unsent
  <2>3. CASE d # c
    BY <2>1, <2>3, Kinds DEF Fails, GoesTo, ActsOnce, CallsTyped
  <2>. QED  BY <2>2, <2>3
<1>6. Informed'
  BY DEF Fails, GoesTo, backend, Informed, CallsTyped
<1>. QED  BY <1>1, <1>2, <1>3, <1>4, <1>5, <1>6

LEMMA AnswersKeeps ==
  ASSUME Parts, NEW c \in Operation, NEW what \in {"over", "lost", "unknown"},
         Answers(c, what), what = "lost" /\ c \in Writing => Clean(c),
         requests' \subseteq requests, UNCHANGED <<owner, attachment, flight, acted>>,
         unusable \subseteq unusable', unusable' \subseteq Owner
  PROVE  Parts'
<1>. USE DEF Parts
<1>1. CallsTyped'
  BY DEF Answers, GoesTo, CallsTyped, Failure, Failures, NoFailure, NotLanded
<1>2. RestTyped'
  BY DEF RestTyped
<1>3. Addressed'
  BY DEF Answers, GoesTo, Addressed, CallsTyped, NoFailure
<1>4. Numbered'
  BY DEF Answers, GoesTo, Numbered, CallsTyped, RestTyped, Request, IsRepeat, Unsent
<1>5. ActsOnce'
  <2>. SUFFICES ASSUME NEW d \in Writing
                PROVE  /\ OneRequest(d)'
                       /\ pc'[d] \in Unsent \cup {"repairing"} => Clean(d)'
                       /\ pc'[d] \in Recovering /\ failure'[d].unsent => Clean(d)'
                       /\ answer'[d] = "lost" => Clean(d)'
                       /\ answer'[d] # "none" => pc'[d] = "done"
                       /\ changes'[d] # "no"
    BY DEF ActsOnce
  <2>1. OneRequest(d)' /\ (Clean(d) => Clean(d)')
    BY DEF ActsOnce, OneRequest, Clean, Pending
  <2>2. CASE d = c
    BY <2>1, <2>2, Kinds DEF Answers, GoesTo, ActsOnce, CallsTyped, Unsent, Recovering
  <2>3. CASE d # c
    BY <2>1, <2>3, Kinds DEF Answers, GoesTo, ActsOnce, CallsTyped
  <2>. QED  BY <2>2, <2>3
<1>6. Informed'
  BY DEF Answers, GoesTo, Informed, CallsTyped
<1>. QED  BY <1>1, <1>2, <1>3, <1>4, <1>5, <1>6

\* The next attempt has a higher number, and nothing is left of the last one of a
\* call that changes something.
LEMMA TriesAgainKeeps ==
  ASSUME Parts, NEW c \in Operation, NEW n \in 1..4, TriesAgain(c, n), n > try[c],
         c \in Listing => n <= 2,
         changes' \in {changes, [changes EXCEPT ![c] = "unasked"]},
         c \in Writing => Clean(c), answer[c] = "none" \/ c \notin Writing,
         pc[c] \notin {"done", "new"},
         UNCHANGED <<owner, backend, requests, acted>>
  PROVE  Parts'
<1>. USE DEF Parts
<1>1. CallsTyped'
  BY DEF TriesAgain, GoesTo, CallsTyped, Failure, Failures, NoFailure, NotLanded
<1>2. RestTyped'
  BY DEF backend, RestTyped
<1>3. Addressed'
  BY DEF TriesAgain, GoesTo, Addressed, CallsTyped, NoFailure
<1>4. Numbered'
  <2>1. \A d \in Operation \ {c} : pc'[d] = pc[d] /\ try'[d] = try[d]
    BY DEF TriesAgain, GoesTo, CallsTyped
  <2>2. pc'[c] = "new" /\ try'[c] = n /\ binding' = binding /\ requests' = requests
    BY DEF TriesAgain, GoesTo, CallsTyped
  <2>3. \A r \in requests : r.call \in Operation /\ r.try \in Nat
    BY Kinds DEF RestTyped, Request
  <2>4. try[c] \in Nat
    BY DEF CallsTyped
  <2>. QED  BY <2>1, <2>2, <2>3, <2>4 DEF Numbered, IsRepeat, Unsent
<1>5. ActsOnce'
  <2>. SUFFICES ASSUME NEW d \in Writing
                PROVE  /\ OneRequest(d)'
                       /\ pc'[d] \in Unsent \cup {"repairing"} => Clean(d)'
                       /\ pc'[d] \in Recovering /\ failure'[d].unsent => Clean(d)'
                       /\ answer'[d] = "lost" => Clean(d)'
                       /\ answer'[d] # "none" => pc'[d] = "done"
                       /\ changes'[d] # "no"
    BY DEF ActsOnce
  <2>1. OneRequest(d)' /\ (Clean(d) => Clean(d)')
    BY DEF ActsOnce, OneRequest, Clean, Pending
  <2>2. CASE d = c
    BY <2>1, <2>2, Kinds DEF TriesAgain, GoesTo, ActsOnce, CallsTyped, Unsent,
       Recovering
  <2>3. CASE d # c
    BY <2>1, <2>3, Kinds DEF TriesAgain, GoesTo, ActsOnce, CallsTyped
  <2>. QED  BY <2>2, <2>3
<1>6. Informed'
  BY DEF TriesAgain, GoesTo, backend, Informed, CallsTyped
<1>. QED  BY <1>1, <1>2, <1>3, <1>4, <1>5, <1>6

\* An attempt goes on before its request is sent.
LEMMA GoesOnKeeps ==
  ASSUME Parts, NEW c \in Operation,
         pc[c] \in Unsent, NEW step \in {"preflight", "marked", "opened"}, GoesTo(c, step),
         step # "opened" => c \in Call,
         binding' \in [Operation -> Owner \cup {Nobody}],
         target' \in [Operation -> Owner \cup {Nobody}],
         \A d \in Operation \ {c} : binding'[d] = binding[d] /\ target'[d] = target[d],
         c \in Call => binding'[c] \in Owner,
         c \in Call /\ step = "opened" => target'[c] = binding'[c],
         UNCHANGED <<owner, backend, try, recovery, answer, requests, acted>>
  PROVE  Parts'
<1>. USE DEF Parts
<1>1. CallsTyped'
  BY DEF GoesTo, recovery, CallsTyped
<1>2. RestTyped'
  BY DEF backend, RestTyped
<1>3. Addressed'
  BY Kinds DEF GoesTo, recovery, Addressed, CallsTyped
<1>4. Numbered'
  BY Kinds DEF GoesTo, Numbered, CallsTyped, RestTyped, Request, IsRepeat, Unsent
<1>5. ActsOnce'
  BY Kinds DEF GoesTo, recovery, ActsOnce, OneRequest, Clean, Pending, CallsTyped,
     Unsent,
     Recovering
<1>6. Informed'
  BY DEF GoesTo, recovery, backend, Informed, CallsTyped
<1>. QED  BY <1>1, <1>2, <1>3, <1>4, <1>5, <1>6

\* What a failure that writes an owner off says, and that it is typed.
LEMMA WrittenOffKeeps ==
  ASSUME Parts, NEW c \in Operation, NEW o, RefusedAsWrittenOff(c, o), pc[c] \in Unsent,
         UNCHANGED <<owner, backend, requests, acted>>
  PROVE  Parts'
<1>1. o \in Owner /\ Fails(c, o, TRUE, "buries")
  BY DEF RefusedAsWrittenOff, Parts, RestTyped
<1>2. c \in Writing => Clean(c)'
  BY DEF Parts, ActsOnce, Clean, Pending
<1>3. pc[c] # "done"
  BY DEF Unsent
<1>. QED  BY <1>1, <1>2, <1>3, FailsKeeps DEF Failures

\* Before its request is sent an attempt may fail as one that was not.
LEMMA FailsUnsentKeeps ==
  ASSUME Parts, NEW c \in Operation, NEW o \in Owner \cup {Nobody}, NEW class \in Failures,
         Fails(c, o, TRUE, class), class = "buries" => o \in Owner, pc[c] \in Unsent,
         UNCHANGED <<owner, backend, requests, acted>>
  PROVE  Parts'
<1>1. c \in Writing => Clean(c)'
  BY DEF Parts, ActsOnce, Clean, Pending
<1>2. pc[c] # "done"
  BY DEF Unsent
<1>. QED  BY <1>1, <1>2, FailsKeeps

(***************************************************************************)
(* The steps of an attempt                                                 *)
(***************************************************************************)

LEMMA BeginsCallKeeps == ASSUME Parts, NEW c \in Operation, BeginsCall(c) PROVE Parts'
<1>1. c \in Call /\ pc[c] = "new" /\ pc[c] \in Unsent /\ UNCHANGED <<owner, backend, requests, acted>>
  BY DEF BeginsCall, Unsent
<1>2. CASE RefusedAsWrittenOff(c, attachment)
  BY <1>1, <1>2, WrittenOffKeeps
<1>3. CASE ~RefusedAsWrittenOff(c, attachment)
  <2>1. /\ binding' = [binding EXCEPT ![c] = attachment] /\ GoesTo(c, "preflight")
        /\ UNCHANGED <<try, target, recovery, answer>>
    BY <1>3 DEF BeginsCall
  <2>2. attachment \in Owner /\ binding \in [Operation -> Owner \cup {Nobody}]
        /\ target \in [Operation -> Owner \cup {Nobody}]
    BY DEF Parts, CallsTyped, RestTyped
  <2>. QED  BY <1>1, <2>1, <2>2, GoesOnKeeps
<1>. QED  BY <1>2, <1>3

LEMMA PreflightAnsweredKeeps ==
  ASSUME Parts, NEW c \in Operation, PreflightAnswered(c) PROVE Parts'
<1>. DEFINE o == binding[c]
<1>1. pc[c] = "preflight" /\ pc[c] \in Unsent /\ UNCHANGED <<owner, backend, requests, acted>>
  BY DEF PreflightAnswered, Unsent
<1>2. c \in Call /\ o \in Owner
  BY <1>1 DEF Parts, Addressed
<1>3. CASE RefusedAsWrittenOff(c, o)
  BY <1>1, <1>3, WrittenOffKeeps
<1>4. ASSUME NEW class \in PreflightFailures(o), Fails(c, o, TRUE, class) PROVE Parts'
  <2>1. class \in Failures
    BY <1>4 DEF PreflightFailures, Failures
  <2>. QED  BY <1>1, <1>2, <1>4, <2>1, FailsUnsentKeeps
<1>5. CASE GoesTo(c, "marked") /\ UNCHANGED <<try, binding, target, recovery, answer>>
  <2>1. /\ binding' \in [Operation -> Owner \cup {Nobody}]
        /\ target' \in [Operation -> Owner \cup {Nobody}]
        /\ binding' = binding /\ target' = target
    BY <1>5 DEF Parts, CallsTyped
  <2>2. UNCHANGED <<try, recovery, answer>>
    BY <1>5
  <2>. QED  BY <1>1, <1>2, <1>5, <2>1, <2>2, GoesOnKeeps
<1>. QED  BY <1>3, <1>4, <1>5 DEF PreflightAnswered

LEMMA OpensClientKeeps == ASSUME Parts, NEW c \in Operation, OpensClient(c) PROVE Parts'
<1>. DEFINE o == AddressedTo(c)
<1>1. pc[c] \in Unsent /\ UNCHANGED <<owner, backend, requests, acted>>
  BY DEF OpensClient, Unsent
<1>2. o \in Owner /\ (c \in Call => o = binding[c])
  BY Kinds DEF OpensClient, AddressedTo, Parts, Addressed, RestTyped
<1>3. CASE RefusedAsWrittenOff(c, o)
  BY <1>1, <1>3, WrittenOffKeeps
<1>4. CASE target' = [target EXCEPT ![c] = o] /\ GoesTo(c, "opened")
           /\ UNCHANGED <<try, binding, recovery, answer>>
  <2>1. /\ binding' \in [Operation -> Owner \cup {Nobody}] /\ binding' = binding
        /\ target' \in [Operation -> Owner \cup {Nobody}] /\ target'[c] = o
        /\ \A d \in Operation \ {c} : target'[d] = target[d]
    BY <1>2, <1>4 DEF Parts, CallsTyped
  <2>2. UNCHANGED <<try, recovery, answer>>
    BY <1>4
  <2>. QED  BY <1>1, <1>2, <1>4, <2>1, <2>2, GoesOnKeeps
<1>. QED  BY <1>3, <1>4 DEF OpensClient

LEMMA SendsToolRequestKeeps ==
  ASSUME Parts, NEW c \in Operation, SendsToolRequest(c) PROVE Parts'
<1>. DEFINE o == target[c]
<1>1. c \in Call /\ pc[c] = "opened" /\ pc[c] \in Unsent /\ UNCHANGED <<owner, backend, acted>>
  BY DEF SendsToolRequest, Unsent
<1>2. o \in Owner /\ o = binding[c]
  BY <1>1 DEF Parts, Addressed
<1>3. CASE RefusedAsWrittenOff(c, o) /\ UNCHANGED requests
  BY <1>1, <1>3, WrittenOffKeeps
<1>4. CASE Fails(c, o, TRUE, "momentary") /\ UNCHANGED requests
  BY <1>1, <1>2, <1>4, FailsUnsentKeeps DEF Failures
<1>5. CASE /\ requests' = requests \cup {[call |-> c, try |-> try[c], owner |-> o, at |-> "sent"]}
           /\ GoesTo(c, "sent") /\ UNCHANGED <<try, binding, target, recovery, answer>>
  <2>. USE DEF Parts
  <2>. DEFINE r == [call |-> c, try |-> try[c], owner |-> o, at |-> "sent"]
  <2>1. CallsTyped'
    BY <1>5 DEF GoesTo, recovery, CallsTyped
  <2>2. RestTyped'
    BY <1>1, <1>2, <1>5, Kinds DEF backend, RestTyped, CallsTyped, Request
  <2>3. Addressed'
    BY <1>1, <1>2, <1>5, Kinds DEF GoesTo, recovery, Addressed, CallsTyped
  <2>4. Numbered'
    <3>1. \A s \in requests : s.call = c => s.try < try[c]
      BY <1>1 DEF Numbered
    <3>2. \A s \in requests : s.call \in Operation /\ s.try \in Nat
      BY Kinds DEF RestTyped, Request
    <3>3. try[c] \in Nat
      BY DEF CallsTyped
    <3>. QED  BY <1>1, <1>2, <1>5, <3>1, <3>2, <3>3 DEF GoesTo, Numbered, CallsTyped,
       IsRepeat, Unsent
  <2>5. ActsOnce'
    <3>. SUFFICES ASSUME NEW d \in Writing
                  PROVE  /\ OneRequest(d)'
                         /\ pc'[d] \in Unsent \cup {"repairing"} => Clean(d)'
                         /\ pc'[d] \in Recovering /\ failure'[d].unsent => Clean(d)'
                         /\ answer'[d] = "lost" => Clean(d)'
                         /\ answer'[d] # "none" => pc'[d] = "done"
                         /\ changes'[d] # "no"
      BY DEF ActsOnce
    <3>1. CASE d = c
      <4>1. acted[c] = 0 /\ \A s \in requests : s.call # c
        BY <1>1, <3>1 DEF ActsOnce, Clean, Pending
      <4>2. requests' = requests \cup {r} /\ r.call = c /\ acted' = acted
        BY <1>1, <1>5
      <4>3. OneRequest(c)'
        BY <4>1, <4>2 DEF OneRequest
      <4>4. pc'[c] = "sent" /\ answer'[c] = "none" /\ changes'[c] # "no"
        BY <1>1, <1>5, <3>1, Kinds DEF GoesTo, recovery, ActsOnce, CallsTyped
      <4>. QED  BY <3>1, <4>3, <4>4 DEF Unsent, Recovering
    <3>2. CASE d # c
      <4>1. Clean(d) => Clean(d)'
        BY <1>1, <1>5, <3>2 DEF Clean, Pending
      <4>2. OneRequest(d)'
        BY <1>1, <1>5, <3>2 DEF ActsOnce, OneRequest
      <4>. QED  BY <1>5, <3>2, <4>1, <4>2, Kinds DEF GoesTo, recovery, ActsOnce,
         CallsTyped
    <3>. QED  BY <3>1, <3>2
  <2>6. Informed'
    BY <1>1, <1>5 DEF GoesTo, recovery, backend, Informed, CallsTyped
  <2>. QED  BY <2>1, <2>2, <2>3, <2>4, <2>5, <2>6
<1>. QED  BY <1>3, <1>4, <1>5 DEF SendsToolRequest

LEMMA ListingAnsweredKeeps ==
  ASSUME Parts, NEW c \in Operation, ListingAnswered(c) PROVE Parts'
<1>. DEFINE o == target[c]
<1>1. c \in Listing /\ c \notin Writing /\ pc[c] \in Unsent
      /\ UNCHANGED <<owner, backend, requests, acted>>
  BY Kinds DEF ListingAnswered, Unsent
<1>2. CASE RefusedAsWrittenOff(c, o)
  BY <1>1, <1>2, WrittenOffKeeps
<1>3. CASE Fails(c, o, TRUE, "momentary")
  <2>1. o \in Owner \cup {Nobody}
    BY DEF Parts, CallsTyped
  <2>. QED  BY <1>1, <1>3, <2>1, FailsUnsentKeeps DEF Failures
<1>4. CASE Answers(c, "over")
  BY <1>1, <1>4, AnswersKeeps DEF backend, Parts, RestTyped
<1>. QED  BY <1>2, <1>3, <1>4 DEF ListingAnswered

LEMMA RequestUnansweredKeeps ==
  ASSUME Parts, NEW c \in Operation, RequestUnanswered(c) PROVE Parts'
<1>1. pc[c] = "sent" /\ Fails(c, target[c], FALSE, "momentary")
      /\ UNCHANGED <<owner, backend, requests, acted>>
  BY DEF RequestUnanswered, SaidUnsent
<1>2. target[c] \in Owner \cup {Nobody}
  BY DEF Parts, CallsTyped
<1>. QED  BY <1>1, <1>2, FailsKeeps DEF Failures

(***************************************************************************)
(* The owners                                                              *)
(***************************************************************************)

\* A request that gets on keeps its place among the requests.
LEMMA BecomesKeeps ==
  ASSUME Parts, NEW r \in requests, NEW at \in {"taken", "acted"}, Becomes(r, at),
         UNCHANGED <<owner, backend, calls>>,
         \/ at = "taken" /\ r.at = "sent" /\ acted' = acted
         \/ at = "acted" /\ r.at = "taken" /\ r.call \in Writing
            /\ acted' = [acted EXCEPT ![r.call] = @ + 1]
  PROVE  Parts'
<1>. USE DEF Parts
<1>. DEFINE s == [r EXCEPT !.at = at]
<1>1. r \in Request /\ s \in Request /\ s.call = r.call /\ s.try = r.try /\ s.owner = r.owner
      /\ s.at = at
  BY DEF RestTyped, Request
<1>2. requests' = (requests \ {r}) \cup {s}
  BY DEF Becomes
<1>3. CallsTyped' /\ Addressed'
  BY DEF calls, recovery, CallsTyped, Addressed
<1>4. RestTyped'
  <2>1. requests' \subseteq Request
    BY <1>1, <1>2 DEF RestTyped
  <2>2. acted' \in [Writing -> Nat]
    BY DEF RestTyped
  <2>. QED  BY <2>1, <2>2 DEF backend, RestTyped
<1>5. Numbered'
  <2>1. \A q \in requests' : \E p \in requests :
          q.call = p.call /\ q.try = p.try /\ q.owner = p.owner
    BY <1>1, <1>2
  <2>. QED  BY <2>1 DEF calls, recovery, Numbered, IsRepeat
<1>6. ActsOnce'
  <2>. SUFFICES ASSUME NEW d \in Writing PROVE OneRequest(d)' /\ (Clean(d) => Clean(d)')
    BY DEF calls, recovery, ActsOnce
  <2>1. CASE d = r.call
    <3>1. \A q \in requests : q.call = d => q = r
      BY <2>1 DEF ActsOnce, OneRequest
    <3>2. \A q \in requests' : q.call = d => q = s
      BY <1>1, <1>2, <3>1
    <3>3. acted[d] = 0
      BY <2>1 DEF ActsOnce, OneRequest
    <3>4. acted'[d] <= 1 /\ (at = "taken" => acted'[d] = 0)
      BY <2>1, <3>3 DEF RestTyped
    <3>5. OneRequest(d)'
      BY <1>1, <3>2, <3>4 DEF OneRequest
    <3>6. ~Clean(d)
      BY <2>1 DEF Clean, Pending
    <3>. QED  BY <3>5, <3>6
  <2>2. CASE d # r.call
    <3>1. acted'[d] = acted[d]
      BY <2>2 DEF RestTyped
    <3>2. \A q \in requests' : q.call = d => q \in requests
      BY <1>1, <1>2, <2>2
    <3>. QED  BY <3>1, <3>2 DEF ActsOnce, OneRequest, Clean, Pending
  <2>. QED  BY <2>1, <2>2
<1>7. Informed'
  BY DEF calls, recovery, backend, Informed
<1>. QED  BY <1>3, <1>4, <1>5, <1>6, <1>7

\* Requests may go away, and owners come and go.
LEMMA RequestsGoKeeps ==
  ASSUME Parts, UNCHANGED <<backend, calls, acted>>, requests' \subseteq requests,
         owner' \in [Owner -> OwnerState]
  PROVE  Parts'
<1>. USE DEF Parts
<1>1. CallsTyped' /\ Addressed' /\ Informed'
  BY DEF calls, recovery, backend, CallsTyped, Addressed, Informed
<1>2. RestTyped'
  BY DEF backend, RestTyped
<1>3. Numbered'
  BY DEF calls, recovery, Numbered, IsRepeat
<1>4. ActsOnce'
  BY DEF calls, recovery, ActsOnce, OneRequest, Clean, Pending
<1>. QED  BY <1>1, <1>2, <1>3, <1>4

LEMMA OwnerLivesKeeps == ASSUME Parts, NEW o \in Owner, OwnerLives(o) PROVE Parts'
<1>1. owner' \in [Owner -> OwnerState]
  BY DEF OwnerLives, OwnerComes, OwnerRetires, OwnerGoes, Parts, RestTyped, OwnerState
<1>2. requests' \subseteq requests /\ UNCHANGED <<backend, calls, acted>>
  BY DEF OwnerLives, OwnerComes, OwnerRetires, OwnerGoes
<1>. QED  BY <1>1, <1>2, RequestsGoKeeps

\* The request of a call that was taken and not acted on, or not even taken, is gone
\* without a trace.
LEMMA WithoutATrace ==
  ASSUME Parts, NEW r \in requests, r.at # "acted", r.call \in Writing,
         requests' = requests \ {r}, acted' = acted
  PROVE  Clean(r.call)'
<1>1. OneRequest(r.call)
  BY DEF Parts, ActsOnce
<1>. QED  BY <1>1 DEF OneRequest, Clean, Pending

LEMMA OwnerHandlesKeeps == ASSUME Parts, NEW r \in requests, OwnerHandles(r) PROVE Parts'
<1>1. r \in Request /\ r.call \in Operation /\ r.call \in Call /\ r.owner \in Owner
  BY Kinds DEF Parts, RestTyped, Request
<1>2. CASE OwnerTakes(r) \/ OwnerActs(r)
  BY <1>2, BecomesKeeps DEF OwnerTakes, OwnerActs, MayTake, MayAct
<1>3. CASE OwnerRefuses(r) \/ OwnerAnswers(r) \/ OwnerAsksForSignIn(r)
  <2>1. requests' = requests \ {r} /\ UNCHANGED <<owner, backend, acted>>
    BY <1>3 DEF OwnerRefuses, OwnerAnswers, OwnerAsksForSignIn
  <2>2. CASE UNCHANGED calls
    BY <2>1, <2>2, RequestsGoKeeps DEF Parts, RestTyped
  <2>3. CASE Fails(r.call, r.owner, TRUE, "buries") /\ OwnerRefuses(r) /\ AwaitsAnswer(r)
    <3>1. r.call \in Writing => Clean(r.call)'
      BY <2>1, <2>3, WithoutATrace DEF OwnerRefuses, MayRefuse
    <3>. QED  BY <1>1, <2>1, <2>3, <3>1, FailsKeeps DEF AwaitsAnswer, Failures
  <2>4. CASE Answers(r.call, "over")
    BY <1>1, <2>1, <2>4, AnswersKeeps DEF backend, Parts, RestTyped
  <2>5. CASE OwnerAsksForSignIn(r) /\ ~UNCHANGED calls /\ ~Answers(r.call, "over")
    <3>. USE DEF Parts
    <3>. DEFINE c == r.call
    <3>1. /\ pc[c] = "sent" /\ ~AfterSignIn(c) /\ r.at = "taken" /\ GoesTo(c, "repairing")
          /\ binding' = [binding EXCEPT ![c] = Nobody] /\ target' = [target EXCEPT ![c] = Nobody]
          /\ UNCHANGED <<try, recovery, answer>>
      BY <2>5 DEF OwnerAsksForSignIn, AwaitsAnswer, Dropped
    <3>2. c \in Writing => Clean(c)'
      BY <2>1, <3>1, WithoutATrace
    <3>3. CallsTyped'
      BY <1>1, <3>1 DEF GoesTo, recovery, CallsTyped
    <3>4. RestTyped'
      BY <2>1 DEF backend, RestTyped
    <3>5. Addressed'
      BY <1>1, <3>1, Kinds DEF GoesTo, recovery, Addressed, CallsTyped
    <3>6. Numbered'
      BY <1>1, <2>1, <3>1, Kinds DEF GoesTo, Numbered, CallsTyped, RestTyped, Request,
         IsRepeat,
         AfterSignIn, Unsent
    <3>7. ActsOnce'
      <4>. SUFFICES ASSUME NEW d \in Writing
                    PROVE  /\ OneRequest(d)'
                           /\ pc'[d] \in Unsent \cup {"repairing"} => Clean(d)'
                           /\ pc'[d] \in Recovering /\ failure'[d].unsent => Clean(d)'
                           /\ answer'[d] = "lost" => Clean(d)'
                           /\ answer'[d] # "none" => pc'[d] = "done"
                           /\ changes'[d] # "no"
        BY DEF ActsOnce
      <4>1. OneRequest(d)' /\ (Clean(d) => Clean(d)')
        BY <2>1 DEF ActsOnce, OneRequest, Clean, Pending
      <4>2. CASE d = c
        BY <1>1, <3>1, <3>2, <4>1, <4>2 DEF GoesTo, recovery, ActsOnce, CallsTyped,
           Recovering
      <4>3. CASE d # c
        BY <1>1, <3>1, <4>1, <4>3, Kinds DEF GoesTo, recovery, ActsOnce, CallsTyped
      <4>. QED  BY <4>2, <4>3
    <3>8. Informed'
      BY <1>1, <2>1, <3>1 DEF GoesTo, recovery, backend, Informed, CallsTyped
    <3>. QED  BY <3>3, <3>4, <3>5, <3>6, <3>7, <3>8
  <2>. QED  BY <1>3, <2>2, <2>3, <2>4, <2>5 DEF OwnerRefuses, OwnerAnswers, Dropped
<1>. QED  BY <1>2, <1>3 DEF OwnerHandles

(***************************************************************************)
(* Recovery                                                                *)
(***************************************************************************)

LEMMA RecoversKeeps == ASSUME Parts, NEW c \in Operation, Recovers(c) PROVE Parts'
<1>. USE DEF Parts
<1>. DEFINE off == unusable \cup WrittenOffBy(failure[c])
<1>1. /\ pc[c] = "failed" /\ ~IsRepeat(c) /\ unusable' = off
      /\ UNCHANGED <<owner, attachment, try, binding, target, failure, changes, landed,
                     answer, requests, acted>>
  BY DEF Recovers
<1>2. \/ GoesTo(c, "recovered") /\ UNCHANGED <<flight, joined>>
      \/ /\ JoinsElection(c, off) /\ joined' = [joined EXCEPT ![c] = 1] /\ GoesTo(c, "joining")
  BY Zenon DEF Recovers
<1>3. off \in SUBSET Owner
  BY DEF RestTyped, Addressed, WrittenOffBy
<1>4. PICK step \in {"recovered", "joining"} : GoesTo(c, step)
  BY <1>2
<1>5. joined' \in [Operation -> 0..2]
  BY <1>2 DEF CallsTyped
<1>6. flight' \in [running : BOOLEAN, buried : SUBSET Owner]
  <2>1. flight' = flight \/ flight' = [running |-> TRUE, buried |-> off]
    BY <1>2 DEF JoinsElection
  <2>2. flight \in [running : BOOLEAN, buried : SUBSET Owner] /\ off \in SUBSET Owner
    BY <1>3 DEF RestTyped
  <2>. HIDE DEF Parts, off
  <2>3. [running |-> TRUE, buried |-> off] \in [running : BOOLEAN, buried : SUBSET Owner]
    BY <2>2
  <2>. QED  BY <2>1, <2>2, <2>3
<1>7. CallsTyped'
  BY <1>1, <1>4, <1>5 DEF GoesTo, CallsTyped
<1>8. RestTyped'
  BY <1>1, <1>3, <1>6 DEF RestTyped
<1>9. Addressed'
  BY <1>1, <1>4 DEF GoesTo, Addressed, CallsTyped
<1>10. Numbered'
  BY <1>1, <1>4 DEF GoesTo, Numbered, CallsTyped, IsRepeat, Unsent
<1>11. ActsOnce'
  BY <1>1, <1>4, Kinds DEF GoesTo, ActsOnce, OneRequest, Clean, Pending, CallsTyped,
     Unsent,
     Recovering
<1>12. Informed'
  <2>1. unusable \subseteq unusable' /\ WrittenOffBy(failure[c]) \subseteq unusable'
    BY <1>1
  <2>2. \/ flight' = flight
        \/ ~flight.running /\ flight' = [running |-> TRUE, buried |-> unusable']
    BY <1>1, <1>2 DEF JoinsElection
  <2>3. \A d \in Operation \ {c} : pc'[d] = pc[d] /\ joined'[d] = joined[d]
    BY <1>2 DEF GoesTo, CallsTyped
  <2>4. \/ pc'[c] = "recovered"
        \/ pc'[c] = "joining" /\ joined'[c] = 1
    BY <1>2 DEF GoesTo, CallsTyped
  <2>5. failure' = failure /\ landed' = landed
    BY <1>1
  <2>. QED  BY <2>1, <2>2, <2>3, <2>4, <2>5 DEF Informed
<1>. QED  BY <1>7, <1>8, <1>9, <1>10, <1>11, <1>12

LEMMA ElectionLandsKeeps == ASSUME Parts, ElectionLands PROVE Parts'
<1>. USE DEF Parts
<1>1. /\ flight' = NoFlight
      /\ UNCHANGED <<owner, unusable, try, binding, target, failure, changes, joined, answer,
                     requests, acted>>
      /\ pc' = [c \in Operation |-> IF pc[c] = "joining" THEN "landed" ELSE pc[c]]
  BY DEF ElectionLands
<1>2. PICK usable \in Owner \cup {Nobody} :
        /\ attachment' = IF usable = Nobody THEN attachment ELSE usable
        /\ landed' = [c \in Operation |->
                        IF pc[c] = "joining" THEN [found |-> usable, buried |-> flight.buried]
                                             ELSE landed[c]]
  <2>1. PICK found \in {o \in Owner : owner[o] \in Running} \cup {Nobody} :
          LET usable == IF found \in unusable THEN Nobody ELSE found IN
          /\ attachment' = IF usable = Nobody THEN attachment ELSE usable
          /\ landed' = [c \in Operation |->
                        IF pc[c] = "joining" THEN [found |-> usable, buried |-> flight.buried]
                                             ELSE landed[c]]
    BY DEF ElectionLands
  <2>. QED  BY <2>1
<1>3. CallsTyped'
  BY <1>1, <1>2 DEF CallsTyped, RestTyped
<1>4. RestTyped'
  <2>1. flight' \in [running : BOOLEAN, buried : SUBSET Owner]
    BY <1>1 DEF NoFlight
  <2>2. attachment' \in Owner
    BY <1>2 DEF RestTyped
  <2>. QED  BY <1>1, <2>1, <2>2 DEF RestTyped
<1>5. Addressed'
  <2>1. \A c \in Operation : pc'[c] = pc[c] \/ pc'[c] = "landed"
    BY <1>1
  <2>2. UNCHANGED <<failure, binding, target>>
    BY <1>1
  <2>. QED  BY <2>1, <2>2, Kinds DEF Addressed
<1>6. Numbered'
  <2>1. \A r \in requests : r.call \in Operation
    BY Kinds DEF RestTyped, Request
  <2>. QED  BY <1>1, <2>1 DEF Numbered, CallsTyped, IsRepeat, Unsent
<1>7. ActsOnce'
  BY <1>1, Kinds DEF ActsOnce, OneRequest, Clean, Pending, CallsTyped, Unsent,
     Recovering
<1>8. Informed'
  BY <1>1, <1>2 DEF Informed, CallsTyped, NoFlight
<1>. QED  BY <1>3, <1>4, <1>5, <1>6, <1>7, <1>8

LEMMA ReadsTheElectionKeeps ==
  ASSUME Parts, NEW c \in Operation, ReadsTheElection(c) PROVE Parts'
<1>. USE DEF Parts
<1>1. /\ pc[c] = "landed"
      /\ UNCHANGED <<owner, attachment, unusable, try, binding, target, failure, changes,
                     landed, answer, requests, acted>>
  BY DEF ReadsTheElection
<1>2. \/ /\ GoesTo(c, "recovered") \/ GoesTo(c, "refused")
         /\ UNCHANGED <<flight, joined>>
      \/ JoinsElection(c, unusable) /\ joined' = [joined EXCEPT ![c] = 2] /\ GoesTo(c, "joining")
  BY Zenon DEF ReadsTheElection
<1>3. PICK step \in {"recovered", "refused", "joining"} : GoesTo(c, step)
  BY <1>2
<1>4. joined' \in [Operation -> 0..2]
  BY <1>2 DEF CallsTyped
<1>5. flight' \in [running : BOOLEAN, buried : SUBSET Owner]
  <2>1. flight' = flight \/ flight' = [running |-> TRUE, buried |-> unusable]
    BY <1>2 DEF JoinsElection
  <2>2. flight \in [running : BOOLEAN, buried : SUBSET Owner] /\ unusable \in SUBSET Owner
    BY DEF RestTyped
  <2>3. [running |-> TRUE, buried |-> unusable] \in [running : BOOLEAN, buried : SUBSET Owner]
    BY <2>2
  <2>. QED  BY <2>1, <2>2, <2>3
<1>6. CallsTyped'
  BY <1>1, <1>3, <1>4 DEF GoesTo, CallsTyped
<1>7. RestTyped'
  BY <1>1, <1>5 DEF RestTyped
<1>8. Addressed'
  BY <1>1, <1>3 DEF GoesTo, Addressed, CallsTyped
<1>9. Numbered'
  BY <1>1, <1>3 DEF GoesTo, Numbered, CallsTyped, IsRepeat, Unsent
<1>10. ActsOnce'
  BY <1>1, <1>3, Kinds DEF GoesTo, ActsOnce, OneRequest, Clean, Pending, CallsTyped,
     Unsent,
     Recovering
<1>11. Informed'
  <2>1. WrittenOffBy(failure[c]) \subseteq unusable
        /\ (flight.running => WrittenOffBy(failure[c]) \subseteq flight.buried)
    BY <1>1 DEF Informed
  <2>2. \/ flight' = flight
        \/ ~flight.running /\ flight' = [running |-> TRUE, buried |-> unusable]
    BY <1>2 DEF JoinsElection
  <2>3. \A d \in Operation \ {c} : pc'[d] = pc[d] /\ joined'[d] = joined[d]
    BY <1>2 DEF GoesTo, CallsTyped
  <2>4. \/ pc'[c] \in {"recovered", "refused"}
        \/ pc'[c] = "joining" /\ flight'.buried \in {flight.buried, unusable}
           /\ (flight'.buried = flight.buried => flight.running \/ flight.buried = unusable)
    BY <1>2 DEF GoesTo, CallsTyped, JoinsElection
  <2>5. UNCHANGED <<failure, landed, unusable>>
    BY <1>1
  <2>. QED  BY <2>1, <2>2, <2>3, <2>4, <2>5 DEF Informed
<1>. QED  BY <1>6, <1>7, <1>8, <1>9, <1>10, <1>11

(***************************************************************************)
(* What becomes of the call                                                *)
(***************************************************************************)

LEMMA ListingDecidesKeeps ==
  ASSUME Parts, NEW c \in Operation, ListingDecides(c) PROVE Parts'
<1>1. c \in Listing /\ c \notin Writing /\ UNCHANGED <<owner, backend, requests, acted>>
  BY Kinds DEF ListingDecides
<1>2. CASE pc[c] = "recovered" /\ TriesAgain(c, 2) /\ UNCHANGED changes
  <2>1. 2 > try[c]
    BY <1>1, <1>2 DEF Parts, Numbered, CallsTyped, IsRepeat
  <2>. QED  BY <1>1, <1>2, <2>1, TriesAgainKeeps
<1>3. CASE Answers(c, "lost")
  BY <1>1, <1>3, AnswersKeeps DEF backend, Parts, RestTyped
<1>. QED  BY <1>2, <1>3 DEF ListingDecides

LEMMA CallDecidesKeeps == ASSUME Parts, NEW c \in Operation, CallDecides(c) PROVE Parts'
<1>1. pc[c] \in {"recovered", "refused"} /\ UNCHANGED <<owner, backend, requests, acted>>
  BY DEF CallDecides
<1>2. c \in Writing => answer[c] = "none" /\ changes[c] # "no" /\ (failure[c].unsent => Clean(c))
  BY <1>1 DEF Parts, ActsOnce, Recovering
<1>3. ASSUME NEW could \in CouldChange(c), changes' = [changes EXCEPT ![c] = could],
             UNCHANGED <<pc, try, binding, target, failure, landed, joined, answer>>
      PROVE  Parts'
  <2>. USE DEF Parts
  <2>1. could \in {"yes", "no"} /\ (c \in Writing => could = "yes")
    BY <1>3 DEF CouldChange
  <2>2. CallsTyped'
    BY <1>3, <2>1 DEF CallsTyped
  <2>3. RestTyped' /\ Addressed' /\ Informed'
    BY <1>1, <1>3 DEF backend, RestTyped, Addressed, Informed
  <2>4. Numbered'
    BY <1>1, <1>3 DEF Numbered, IsRepeat
  <2>5. \A d \in Writing : changes'[d] # "no"
    BY <1>3, <2>1, Kinds DEF ActsOnce, CallsTyped
  <2>6. ActsOnce'
    BY <1>1, <1>3, <2>5 DEF ActsOnce, OneRequest, Clean, Pending
  <2>. QED  BY <2>2, <2>3, <2>4, <2>6
<1>4. CASE Answers(c, "unknown")
  BY <1>1, <1>4, AnswersKeeps DEF backend, Parts, RestTyped
<1>5. CASE /\ failure[c].unsent \/ changes[c] = "no"
           /\ TriesAgain(c, try[c] + 1) /\ UNCHANGED changes
  <2>1. try[c] + 1 \in 1..4 /\ try[c] + 1 > try[c]
    BY <1>1 DEF Parts, Numbered, CallsTyped, IsRepeat
  <2>2. c \notin Listing
    BY Kinds DEF CallDecides
  <2>. QED  BY <1>1, <1>2, <1>5, <2>1, <2>2, TriesAgainKeeps
<1>6. CASE (failure[c].unsent \/ changes[c] = "no") /\ Answers(c, "lost")
  BY <1>1, <1>2, <1>6, AnswersKeeps DEF backend, Parts, RestTyped
<1>. QED  BY <1>3, <1>4, <1>5, <1>6 DEF CallDecides

LEMMA RepeatFailsKeeps == ASSUME Parts, NEW c \in Operation, RepeatFails(c) PROVE Parts'
<1>1. /\ pc[c] = "failed" /\ unusable' = unusable \cup WrittenOffBy(failure[c])
      /\ UNCHANGED <<owner, attachment, flight, requests, acted>>
  BY DEF RepeatFails
<1>2. PICK could \in IF c \in Listing THEN {"no"}
                     ELSE IF changes[c] = "unasked" THEN CouldChange(c) ELSE {changes[c]} :
        Answers(c, RepeatVerdict(c, could))
  BY DEF RepeatFails
<1>3. unusable' \subseteq Owner /\ unusable \subseteq unusable'
  BY <1>1 DEF Parts, RestTyped, Addressed, WrittenOffBy
<1>4. RepeatVerdict(c, could) \in {"over", "lost", "unknown"}
  BY DEF RepeatVerdict
<1>5. ASSUME c \in Writing, RepeatVerdict(c, could) = "lost" PROVE Clean(c)
  <2>1. could = "yes"
    BY <1>2, <1>5, Kinds DEF CouldChange, Parts, ActsOnce, CallsTyped
  <2>. QED  BY <1>1, <1>5, <2>1 DEF RepeatVerdict, Parts, ActsOnce, Recovering
<1>. QED  BY <1>1, <1>2, <1>3, <1>4, <1>5, AnswersKeeps

LEMMA SignInEndsKeeps == ASSUME Parts, NEW c \in Operation, SignInEnds(c) PROVE Parts'
<1>1. pc[c] = "repairing" /\ UNCHANGED <<owner, backend, requests, acted>>
  BY DEF SignInEnds
<1>2. CASE Answers(c, "over")
  BY <1>1, <1>2, AnswersKeeps DEF backend, Parts, RestTyped
<1>3. CASE Replays(c) /\ TriesAgain(c, 3) /\ changes' = [changes EXCEPT ![c] = "unasked"]
  <2>1. 3 > try[c]
    BY <1>1 DEF Parts, Numbered, CallsTyped
  <2>2. c \notin Writing /\ pc[c] \notin {"done", "new"} /\ 3 \in 1..4 /\ c \notin Listing
    BY <1>1, <1>3, Kinds DEF Replays, SignInEnds
  <2>3. TriesAgain(c, 3) /\ changes' \in {changes, [changes EXCEPT ![c] = "unasked"]}
    BY <1>3
  <2>. QED  BY <1>1, <2>1, <2>2, <2>3, TriesAgainKeeps
<1>. QED  BY <1>2, <1>3 DEF SignInEnds

LEMMA LeavingKeeps ==
  ASSUME Parts, NEW c \in Operation, ReplayRunsOut(c) \/ ClientLeaves(c) PROVE Parts'
<1>1. Answers(c, "over") /\ UNCHANGED <<owner, backend, requests, acted>>
  BY DEF ReplayRunsOut, ClientLeaves
<1>. QED  BY <1>1, AnswersKeeps DEF backend, Parts, RestTyped

(***************************************************************************)
(* The theorems                                                            *)
(***************************************************************************)

LEMMA StepKeeps == IInv /\ [Next]_vars => IInv'
<1>. SUFFICES ASSUME Parts, [Next]_vars PROVE Parts'
  BY InvariantParts
<1>1. CASE UNCHANGED vars
  BY <1>1 DEF vars, calls, recovery, backend, Parts, CallsTyped, RestTyped, Addressed,
     Numbered,
     ActsOnce, Informed, OneRequest, Clean, Pending, IsRepeat
<1>2. ASSUME NEW c \in Operation, Frontend(c) PROVE Parts'
  BY <1>2, BeginsCallKeeps, PreflightAnsweredKeeps, OpensClientKeeps,
     SendsToolRequestKeeps,
     ListingAnsweredKeeps, RequestUnansweredKeeps, RecoversKeeps, ReadsTheElectionKeeps,
     ListingDecidesKeeps, CallDecidesKeeps, RepeatFailsKeeps, SignInEndsKeeps, LeavingKeeps
     DEF Frontend
<1>3. ASSUME NEW r \in requests, OwnerHandles(r) PROVE Parts'
  BY <1>3, OwnerHandlesKeeps
<1>4. ASSUME NEW o \in Owner, OwnerLives(o) PROVE Parts'
  BY <1>4, OwnerLivesKeeps
<1>. QED  BY <1>1, <1>2, <1>3, <1>4, ElectionLandsKeeps DEF Next

\* Only the reading of an election's answer makes a frontend give up.
LEMMA OnlyReadingGivesUp ==
  ASSUME Parts, NEW c \in Operation, Frontend(c), ~ReadsTheElection(c), NEW d \in Operation,
         pc'[d] = "refused"
  PROVE  pc[d] = "refused"
<1>. DEFINE Elsewhere == {"preflight", "marked", "opened", "sent", "failed", "joining",
                          "recovered", "new", "done"}
<1>1. pc' = pc \/ \E step \in Elsewhere : GoesTo(c, step)
  <2>1. CASE BeginsCall(c) \/ PreflightAnswered(c) \/ OpensClient(c) \/ SendsToolRequest(c)
             \/ ListingAnswered(c) \/ RequestUnanswered(c)
    BY <2>1 DEF BeginsCall, PreflightAnswered, OpensClient, SendsToolRequest,
       ListingAnswered,
       RequestUnanswered, RefusedAsWrittenOff, Fails, Answers
  <2>2. CASE Recovers(c)
    BY <2>2, Zenon DEF Recovers
  <2>3. CASE ListingDecides(c) \/ CallDecides(c) \/ RepeatFails(c) \/ SignInEnds(c)
             \/ ReplayRunsOut(c) \/ ClientLeaves(c)
    BY <2>3 DEF ListingDecides, CallDecides, RepeatFails, SignInEnds, ReplayRunsOut,
       ClientLeaves, Answers, TriesAgain
  <2>. QED  BY <2>1, <2>2, <2>3 DEF Frontend
<1>. QED  BY <1>1 DEF GoesTo, Parts, CallsTyped

\* A frontend that gives up has the answer of an election that knew of its burial:
\* either it knew all there is to know, or it was the second one waited for.
LEMMA GivesUpStep ==
  ASSUME IInv, [Next]_vars, NEW c \in Operation, pc[c] = "landed", pc'[c] = "refused",
         ~RejectedAgain(c)
  PROVE  WrittenOffBy(failure[c]) \subseteq landed[c].buried
<1>1. Parts
  BY InvariantParts
<1>2. ASSUME NEW d \in Operation, ReadsTheElection(d) PROVE d = c /\ NothingMoreToAsk(c)
  <2>1. \E step \in {"recovered", "refused", "joining"} : GoesTo(d, step)
    BY <1>2 DEF ReadsTheElection
  <2>2. d = c
    BY <1>1, <2>1 DEF GoesTo, Parts, CallsTyped
  <2>3. ~GoesTo(c, "recovered") /\ ~GoesTo(c, "joining")
    BY <1>1 DEF GoesTo, Parts, CallsTyped
  <2>. QED  BY <1>2, <2>2, <2>3 DEF ReadsTheElection
<1>3. \E d \in Operation : ReadsTheElection(d)
  <2>1. ~UNCHANGED pc
    OBVIOUS
  <2>2. ~UNCHANGED vars /\ \A o \in Owner : ~OwnerLives(o)
    BY <2>1 DEF vars, calls, OwnerLives, OwnerComes, OwnerRetires, OwnerGoes
  <2>3. ~ElectionLands
    BY DEF ElectionLands
  <2>4. ASSUME NEW r \in requests, OwnerHandles(r) PROVE FALSE
    <3>1. \E step \in {"failed", "done", "repairing"} : GoesTo(r.call, step)
      BY <2>1, <2>4 DEF OwnerHandles, OwnerTakes, OwnerActs, OwnerRefuses, OwnerAnswers,
         OwnerAsksForSignIn, Dropped, Fails, Answers, calls
    <3>. QED  BY <1>1, <3>1 DEF GoesTo, Parts, CallsTyped
  <2>. QED  BY <1>1, <2>2, <2>3, <2>4, OnlyReadingGivesUp DEF Next
<1>4. NothingMoreToAsk(c)
  BY <1>2, <1>3
<1>. QED  BY <1>1, <1>4 DEF NothingMoreToAsk, Parts, Informed

\* What holds in every state: the types, one request at most for what changes
\* something, and what an election that is waited for has been told.
THEOREM InductiveInvariant == Spec => []IInv
BY Initially, StepKeeps, PTL DEF Spec

\* The variables keep their types, whatever owners, listings and calls there are.
THEOREM TypeCorrect == Spec => []TypeOK
<1>1. IInv => TypeOK
  BY DEF IInv
<1>. QED  BY InductiveInvariant, <1>1, PTL

\* A call that changes something changes it once at most, however often the owner
\* it was sent to goes away: recovery in daemon_proxy.py never sends it twice unless
\* the first request was never taken.
THEOREM NoEffectTwice == Spec => []EffectsHappenOnce
<1>1. IInv => EffectsHappenOnce
  BY DEF IInv, ActsOnce, OneRequest, EffectsHappenOnce
<1>. QED  BY InductiveInvariant, <1>1, PTL

\* A client that is told to make its call again has made one that had no effect and
\* never will have one.
THEOREM RepeatableWasNotDone == Spec => []LostMeansNeverActed
<1>1. IInv => LostMeansNeverActed
  BY DEF IInv, ActsOnce, Clean, LostMeansNeverActed
<1>. QED  BY InductiveInvariant, <1>1, PTL

(***************************************************************************)
(* What a client may count on                                              *)
(***************************************************************************)

\* A client has been told what it was told before, as long as nothing is answered.
LEMMA ToldStep ==
  ASSUME NEW c \in Writing, UNCHANGED answer PROVE Told(c)' = Told(c)
BY DEF Told

\* An answer is given once, and one that says to repeat only of a call that has had
\* no effect.
LEMMA AnswerIsAllowed ==
  ASSUME Parts, Parts', NEW c \in Operation, NEW what \in {"over", "lost", "unknown"},
         pc[c] # "done", Answers(c, what), acted' = acted
  PROVE  [Client!Next]_(Client!promiseVars)
<1>. DEFINE told == [d \in Writing |-> Told(d)]
<1>1. answer' = [answer EXCEPT ![c] = what] /\ answer \in [Operation -> {"none", "over", "lost", "unknown"}]
  BY DEF Answers, Parts, CallsTyped
<1>2. CASE c \notin Writing
  <2>1. \A d \in Writing : answer'[d] = answer[d]
    BY <1>1, <1>2, Kinds
  <2>2. \A d \in Writing : Told(d)' = Told(d)
    BY <2>1 DEF Told
  <2>3. told' = told
    BY <2>2
  <2>. QED  BY <2>3 DEF Client!promiseVars
<1>3. CASE c \in Writing
  <2>1. answer[c] = "none"
    BY <1>3 DEF Parts, ActsOnce
  <2>2. \A d \in Writing : Told(d)' = IF d = c THEN (IF what = "lost" THEN "repeat" ELSE "other")
                                                ELSE Told(d)
    BY <1>1, Kinds DEF Told
  <2>3. told' = [told EXCEPT ![c] = IF what = "lost" THEN "repeat" ELSE "other"]
    BY <2>2
  <2>4. told[c] = "nothing"
    BY <1>3, <2>1 DEF Told
  <2>5. what = "lost" => acted[c] = 0
    <3>1. answer'[c] = what
      BY <1>1
    <3>. QED  BY <1>3, <3>1 DEF Parts, ActsOnce, Clean
  <2>6. CASE what = "lost"
    <3>1. Client!SaysToRepeat(c)
      BY <2>3, <2>4, <2>5, <2>6 DEF Client!SaysToRepeat
    <3>. QED  BY <1>3, <3>1 DEF Client!Next
  <2>7. CASE what # "lost"
    <3>1. Client!SaysAnythingElse(c)
      BY <2>3, <2>4, <2>7 DEF Client!SaysAnythingElse
    <3>. QED  BY <1>3, <3>1 DEF Client!Next
  <2>. QED  BY <2>6, <2>7
<1>. QED  BY <1>2, <1>3

\* Whatever says nothing to the client and does nothing to LinkedIn.
LEMMA Unnoticed ==
  ASSUME UNCHANGED <<answer, acted>> PROVE [Client!Next]_(Client!promiseVars)
<1>1. [d \in Writing |-> Told(d)]' = [d \in Writing |-> Told(d)]
  BY ToldStep
<1>. QED  BY <1>1 DEF Client!promiseVars

\* The frontend answers, or nothing is noticed.
LEMMA FrontendAnswersOnce ==
  ASSUME Parts, NEW c \in Operation, Frontend(c)
  PROVE  /\ acted' = acted
         /\ \/ answer' = answer
            \/ pc[c] # "done" /\ \E what \in {"over", "lost", "unknown"} : Answers(c, what)
<1>1. CASE BeginsCall(c) \/ PreflightAnswered(c) \/ OpensClient(c) \/ SendsToolRequest(c)
           \/ RequestUnanswered(c)
  BY <1>1 DEF BeginsCall, PreflightAnswered, OpensClient, SendsToolRequest,
     RequestUnanswered, RefusedAsWrittenOff, Fails
<1>2. CASE ListingAnswered(c)
  BY <1>2 DEF ListingAnswered, RefusedAsWrittenOff, Fails
<1>3. CASE Recovers(c) \/ ReadsTheElection(c)
  BY <1>3, Zenon DEF Recovers, ReadsTheElection
<1>4. CASE ListingDecides(c) \/ SignInEnds(c) \/ ReplayRunsOut(c) \/ ClientLeaves(c)
  BY <1>4 DEF ListingDecides, SignInEnds, ReplayRunsOut, ClientLeaves, TriesAgain
<1>5. CASE CallDecides(c)
  BY <1>5 DEF CallDecides, TriesAgain
<1>6. CASE RepeatFails(c)
  BY <1>6 DEF RepeatFails, RepeatVerdict
<1>. QED  BY <1>1, <1>2, <1>3, <1>4, <1>5, <1>6 DEF Frontend

\* What an owner does to a request is an effect, an answer, or unnoticed.
LEMMA OwnerIsAllowed ==
  ASSUME Parts, Parts', NEW r \in requests, OwnerHandles(r)
  PROVE  [Client!Next]_(Client!promiseVars)
<1>1. r.call \in Operation
  BY Kinds DEF Parts, RestTyped, Request
<1>2. CASE OwnerActs(r)
  <2>. DEFINE c == r.call
  <2>1. c \in Writing /\ r.at = "taken" /\ acted' = [acted EXCEPT ![c] = @ + 1] /\ answer' = answer
    BY <1>2 DEF OwnerActs, MayAct, calls
  <2>2. acted[c] = 0 /\ answer[c] # "lost"
    BY <2>1 DEF Parts, ActsOnce, OneRequest, Clean, Pending
  <2>3. [d \in Writing |-> Told(d)]' = [d \in Writing |-> Told(d)]
    BY <2>1, ToldStep
  <2>4. Told(c) # "repeat"
    BY <2>2 DEF Told
  <2>5. Client!Acts(c)
    BY <2>1, <2>2, <2>3, <2>4 DEF Client!Acts
  <2>. QED  BY <2>1, <2>5 DEF Client!Next
<1>3. CASE ~OwnerActs(r)
  <2>1. acted' = acted
    BY <1>3 DEF OwnerHandles, OwnerTakes, OwnerRefuses, OwnerAnswers, OwnerAsksForSignIn
  <2>2. answer' = answer \/ (pc[r.call] = "sent" /\ Answers(r.call, "over"))
    BY <1>3 DEF OwnerHandles, OwnerTakes, OwnerRefuses, OwnerAnswers, OwnerAsksForSignIn,
       Dropped, Fails, AwaitsAnswer, calls
  <2>. QED  BY <1>1, <2>1, <2>2, AnswerIsAllowed, Unnoticed
<1>. QED  BY <1>2, <1>3

\* CallRecovery implements ClientPromise: whatever owners come and go, and whatever
\* becomes of its requests, a client sees one effect of its call at most, and none,
\* then or later, of a call it is told to make again.
THEOREM ClientsCanCountOnIt == Spec => PromiseToClients
<1>1. Init => Client!Init
  <2>. SUFFICES ASSUME Init PROVE Client!Init
    OBVIOUS
  <2>1. \A c \in Writing : Told(c) = "nothing"
    BY Kinds DEF Init, Told
  <2>. QED  BY <2>1 DEF Init, Client!Init
<1>2. IInv /\ IInv' /\ [Next]_vars => [Client!Next]_(Client!promiseVars)
  <2>. SUFFICES ASSUME Parts, Parts', [Next]_vars PROVE [Client!Next]_(Client!promiseVars)
    BY InvariantParts
  <2>1. CASE UNCHANGED vars
    BY <2>1, Unnoticed DEF vars, calls
  <2>2. ASSUME NEW c \in Operation, Frontend(c) PROVE [Client!Next]_(Client!promiseVars)
    BY <2>2, FrontendAnswersOnce, AnswerIsAllowed, Unnoticed
  <2>3. ASSUME NEW r \in requests, OwnerHandles(r) PROVE [Client!Next]_(Client!promiseVars)
    BY <2>3, OwnerIsAllowed
  <2>4. CASE ElectionLands \/ \E o \in Owner : OwnerLives(o)
    <3>1. UNCHANGED <<answer, acted>>
      BY <2>4 DEF ElectionLands, OwnerLives, OwnerComes, OwnerRetires, OwnerGoes, calls
    <3>. QED  BY <3>1, Unnoticed
  <2>. QED  BY <2>1, <2>2, <2>3, <2>4 DEF Next
<1>. QED  BY InductiveInvariant, <1>1, <1>2, PTL DEF Spec, PromiseToClients, Client!Spec

\* The owner that has a request somebody waits for is the owner that hears the
\* heartbeats of the call.
THEOREM BeatsAreHeard == Spec => []BeatsFollowTheRequest
<1>1. IInv => BeatsFollowTheRequest
  BY DEF IInv, Numbered, AwaitsAnswer, BeatsFollowTheRequest
<1>. QED  BY InductiveInvariant, <1>1, PTL

\* A frontend gives up only on the word of an election that knew of its burial.
THEOREM NobodyGivesUpUninformed == Spec => GivesUpInformed
<1>1. IInv /\ [Next]_vars =>
        [\A c \in Operation :
           pc[c] = "landed" /\ pc'[c] = "refused" /\ ~RejectedAgain(c)
             => WrittenOffBy(failure[c]) \subseteq landed[c].buried]_vars
  BY GivesUpStep
<1>. QED  BY InductiveInvariant, <1>1, PTL DEF Spec, GivesUpInformed
====================================================================================
