------------------------------- MODULE Invitations -------------------------------
(***************************************************************************)
(* Invitations between the account and one member: connect_with_person,    *)
(* from linkedin/connection_actions.py, and accepting, ignoring and        *)
(* withdrawing, from scraping/network.py, which the tools still call.      *)
(* A client calls one tool after the other.  Each call drives a page that  *)
(* LinkedIn changes under it: the relation changes from the other side,    *)
(* pages show an older one for a while, a dialog mounts late or is laid    *)
(* out anew, a click may land whose answer is lost, and what a click asks  *)
(* for may be refused or lost.                                             *)
(*                                                                         *)
(* Simplifications.  A dialog is its layout: which buttons it has, in      *)
(* order.  A page load, reading its text and reading its signals are one   *)
(* step, since the last two are of one document; so are the repeated       *)
(* readings of one verification, which end on the first that differs.      *)
(* LinkedIn closes the dialog of an invitation it has recorded before the  *)
(* five seconds are over that the call waits for it.                       *)
(***************************************************************************)
EXTENDS Naturals, Sequences

CONSTANTS
  MaxRequests, \* bound: calls the client makes
  MaxTurns     \* bound: what the member, LinkedIn or a portal does meanwhile

ASSUME InvitationBounds == MaxRequests \in Nat /\ MaxTurns \in Nat

VARIABLES
  \* LinkedIn
  relation, \* of the account to the member
  behind,   \* the relation that pages may still show
  turns,
  \* the page
  view,     \* what it shows
  dialog,   \* the layout of the dialog that is open, or none
  nudge,    \* whether that dialog links to Premium beside what it is for
  draft,    \* whether its editor holds the note
  \* the call
  step, tool,
  asked,    \* whether the client gave a note
  offered,  \* whether the call has seen the anchor that offers an invitation
  counted,  \* the buttons it has counted in the dialog
  reply,    \* the last status answered
  requests,
  \* history of the call
  did,      \* what its clicks did at LinkedIn
  misled,   \* a click landed whose answer said that it had not
  hasty,    \* a press was answered and the closing of its dialog not awaited
  blind,    \* what it took for evidence did not plainly show the relation there is
  meddled   \* somebody else changed the relation, or pages still lag behind it

linkedin == <<relation, behind, turns>>
tab == <<view, dialog, nudge, draft>>
request == <<step, tool, asked, offered, counted, reply, requests>>
history == <<did, misled, hasty, blind, meddled>>
invitationVars == <<linkedin, tab, request, history>>

Relation == {"self", "none", "outgoing", "incoming", "connected"}
Request == {"connect", "accept", "ignore", "withdraw"}

\* Profiles that hide Connect in the More menu show Follow; a page without text,
\* or with text and no main column, shows nothing of the relation.
Profile == {"self", "connectable", "follow", "hides", "menu", "pending", "incoming",
            "connected"}
View == Profile \cup {"blank", "bare", "invite", "portal"}

\* The buttons of each dialog, in the order of the page.
Layout(d) ==
  CASE d = "legacy" -> <<"dismiss", "note", "send">>
    [] d = "gate" -> <<"note", "send">>
    [] d \in {"editor", "closing"} -> <<"dismiss", "send">>
    [] d \in {"mounting", "upsell"} -> <<"dismiss">>
    [] d = "confirm" -> <<"withdraw">>
    [] d = "none" -> <<>>

Dialog == {"legacy", "gate", "editor", "closing", "mounting", "upsell", "confirm", "none"}

\* What our clicks can do: whom a stray one concerns is not known, and a press is
\* steady on a dialog that has as many buttons as were counted.
Effect ==
  [what : {"invited"}, note : BOOLEAN, offered : BOOLEAN, steady : BOOLEAN]
    \cup [what : {"accepted", "ignored", "withdrawn", "stray"}]

Connecting ==
  {"accepts", "verifiesAccept", "settlesAccept", "menu", "gates", "navigates", "submits",
   "reveals", "revealed", "fills", "unfilled", "sends", "presses", "pressed", "unsent",
   "waits", "verifies", "settles", "probes", "probeClicks", "probed"}
Answering == {"clicks", "polls", "lists", "card", "relists"}
Withdrawing == {"opensConfirm", "confirms", "checks"}

Nothing == {"unavailable", "not_found", "connect_unavailable", "already_connected",
            "pending", "custom_note_limit_reached"}
Status == Nothing \cup {"none", "error", "connected", "accepted", "ignored", "withdrawn",
                        "send_failed", "action_unavailable", "verification_failed"}

InvitationTypeOK ==
  /\ relation \in Relation /\ behind \in Relation /\ turns \in 0..MaxTurns
  /\ view \in View /\ dialog \in Dialog /\ nudge \in BOOLEAN /\ draft \in BOOLEAN
  /\ step \in {"idle", "loads"} \cup Connecting \cup Answering \cup Withdrawing
  /\ tool \in Request /\ asked \in BOOLEAN /\ offered \in BOOLEAN /\ counted \in 0..3
  /\ (step \in Connecting => tool = "connect")
  /\ (step \in Answering => tool \in {"accept", "ignore"})
  /\ (step \in Withdrawing => tool = "withdraw")
  /\ reply \in Status /\ requests \in 0..MaxRequests
  /\ did \subseteq Effect
  /\ misled \in BOOLEAN /\ hasty \in BOOLEAN
  /\ blind \in BOOLEAN /\ meddled \in BOOLEAN

InvitationInit ==
  /\ relation \in {"none", "incoming", "self"} /\ behind = relation /\ turns = 0
  /\ view = "blank" /\ dialog = "none" /\ nudge = FALSE /\ draft = FALSE
  /\ step = "idle" /\ tool = "connect" /\ asked = FALSE /\ offered = FALSE
  /\ counted = 0 /\ reply = "none" /\ requests = 0
  /\ did = {} /\ misled = FALSE /\ hasty = FALSE /\ blind = FALSE /\ meddled = FALSE

(***************************************************************************)
(* What a page shows                                                       *)
(***************************************************************************)

ShownFor(r) ==
  CASE r = "self" -> {"self"}
    [] r = "none" -> {"connectable", "follow", "hides"}
    [] r = "outgoing" -> {"pending"}
    [] r = "incoming" -> {"incoming", "pending"}
    [] r = "connected" -> {"connected"}

Loadable == ShownFor(relation) \cup ShownFor(behind) \cup {"blank", "bare"}

\* The page that leaves no doubt of a relation: no other may show it.
Plain(r) ==
  CASE r = "self" -> "self"
    [] r = "none" -> "connectable"
    [] r = "outgoing" -> "pending"
    [] r = "incoming" -> "incoming"
    [] r = "connected" -> "connected"

\* What an open profile may show by now.
ReRendered == {view, "bare"} \cup ShownFor(relation)

\* ACTION_SIGNALS_JS.  Beside an incoming request the walk from a compose anchor
\* ends at somebody else's card, and finds a labelled anchor there.
SignalsOf(v) ==
  [has_invite_anchor |-> v \in {"connectable", "menu"},
   has_compose_anchor_in_action_root |-> v \in Profile,
   has_edit_intro_anchor |-> v = "self",
   has_labeled_action_button |-> v \in {"connectable", "follow", "hides", "menu"},
   has_labeled_action_anchor |-> v \in {"pending", "incoming"},
   has_incoming_action_row |-> v = "incoming"]

detect_connection_state(s) ==
  IF s.has_edit_intro_anchor THEN "self_profile"
  ELSE IF s.has_invite_anchor THEN "connectable"
  ELSE IF s.has_incoming_action_row THEN "incoming_request"
  ELSE IF s.has_labeled_action_anchor THEN "pending"
  ELSE IF ~s.has_compose_anchor_in_action_root THEN "unavailable"
  ELSE IF s.has_labeled_action_button THEN "follow_only"
  ELSE "already_connected"

State(v) == detect_connection_state(SignalsOf(v))

\* A page is loaded, without any dialog.
Shows(v) == view' = v /\ dialog' = "none" /\ nudge' = FALSE /\ draft' = FALSE

(***************************************************************************)
(* Steps of a call                                                         *)
(***************************************************************************)

Proceeds(s) == step' = s /\ UNCHANGED reply
Replies(status) == step' = "idle" /\ reply' = status

\* What most steps leave alone.
Same == UNCHANGED <<linkedin, tool, asked, requests>>
Uneventful == UNCHANGED <<did, misled, hasty, blind, meddled>>
Staying == UNCHANGED tab

Requests ==
  /\ step = "idle" /\ requests < MaxRequests /\ requests' = requests + 1
  /\ tool' \in Request /\ asked' \in BOOLEAN /\ (asked' => tool' = "connect")
  /\ offered' = FALSE /\ counted' = 0 /\ Proceeds("loads")
  /\ did' = {} /\ misled' = FALSE /\ hasty' = FALSE /\ blind' = FALSE
  /\ meddled' = (behind # relation)
  /\ UNCHANGED <<linkedin, tab>>

\* connect_with_person(), once it has the profile.
BranchesToConnect(v) ==
  \/ v = "blank" /\ Replies("unavailable")
  \/ State(v) = "self_profile" /\ Replies("connect_unavailable")
  \/ State(v) \in {"already_connected", "pending"} /\ Replies(State(v))
  \/ State(v) = "incoming_request" /\ Proceeds("accepts")
  \/ State(v) = "follow_only" /\ Proceeds("menu")
  \/ State(v) \in {"connectable", "unavailable"} /\ v # "blank" /\ Proceeds("gates")

\* Mistake: whoever answers a request is taken to accept it.
AcceptsEither(v) ==
  IF State(v) = "incoming_request" THEN Proceeds("accepts") ELSE Replies("not_found")

BranchesToAnswer(v) ==
  \/ State(v) = "already_connected" /\ Replies("already_connected")
  \/ State(v) = "pending" /\ Proceeds("lists")
  \/ State(v) = "incoming_request" /\ Proceeds("clicks")
  \/ /\ State(v) \notin {"already_connected", "pending", "incoming_request"}
     /\ Replies("not_found")

BranchesToWithdraw(v) ==
  \/ State(v) = "already_connected" /\ Replies("already_connected")
  \/ State(v) = "pending" /\ Proceeds("opensConfirm")
  \/ State(v) \notin {"already_connected", "pending"} /\ Replies("not_found")

LoadsTheProfile ==
  /\ step = "loads"
  /\ \E v \in Loadable :
       /\ Shows(v) /\ offered' = SignalsOf(v).has_invite_anchor
       /\ \/ tool = "connect" /\ BranchesToConnect(v)
          \/ tool \in {"accept", "ignore"} /\ BranchesToAnswer(v)
          \/ tool = "withdraw" /\ BranchesToWithdraw(v)
  /\ Same /\ Uneventful /\ UNCHANGED counted

(***************************************************************************)
(* Accepting on the way to a connection                                    *)
(***************************************************************************)

NothingDone == UNCHANGED <<relation, behind, did>>

\* LinkedIn may do what a click asks for if the relation is still the one the page
\* showed; the request may also be refused, or lost.
Becomes(from, to, effect) ==
  \/ /\ relation = from /\ relation' = to /\ behind' = from
     /\ did' = did \cup {[what |-> effect]}
  \/ NothingDone

\* The script answers, or its answer is lost and counts as no click.
Answered(yes, no) ==
  \/ yes /\ UNCHANGED misled
  \/ no /\ misled' = TRUE

ClicksAccept ==
  /\ step = "accepts"
  /\ \/ /\ view = "incoming" /\ Becomes("incoming", "connected", "accepted")
        /\ Answered(Proceeds("verifiesAccept"), Replies("send_failed"))
     \/ NothingDone /\ Replies("send_failed") /\ UNCHANGED misled
  /\ Staying
  /\ UNCHANGED <<turns, tool, asked, offered, counted, requests, hasty, blind, meddled>>

\* Twice, since LinkedIn may show the old top card the first time.
VerifiesAccept ==
  /\ step \in {"verifiesAccept", "settlesAccept"}
  /\ \E v \in Loadable :
       /\ Shows(v)
       /\ IF State(v) = "already_connected" THEN Replies("accepted")
          ELSE IF step = "verifiesAccept" THEN Proceeds("settlesAccept")
          ELSE Replies("send_failed")
  /\ Same /\ Uneventful /\ UNCHANGED <<offered, counted>>

(***************************************************************************)
(* The gate                                                                *)
(***************************************************************************)

OpensTheMenu ==
  /\ step = "menu" /\ Proceeds("gates")
  /\ view' \in IF view = "hides" THEN {"hides", "menu"} ELSE {view}
  /\ offered' = SignalsOf(view').has_invite_anchor
  /\ Same /\ Uneventful /\ UNCHANGED <<dialog, nudge, draft, counted>>

\* Without the anchor the invitation's page is opened only to see whether a note
\* could be sent at all.
Gates ==
  /\ step = "gates"
  /\ \/ (offered \/ asked) /\ Proceeds("navigates")
     \/ ~offered /\ ~asked /\ Replies("connect_unavailable")
  /\ Same /\ Uneventful /\ Staying /\ UNCHANGED <<offered, counted>>

NavigatesToTheInvitation ==
  /\ step = "navigates"
  /\ view' = "invite" /\ draft' = FALSE
  /\ dialog' \in {"none", "legacy", "gate", "upsell"} /\ nudge' \in BOOLEAN
  /\ Proceeds(IF offered THEN "submits" ELSE "probes")
  /\ Same /\ Uneventful /\ UNCHANGED <<offered, counted>>

(***************************************************************************)
(* The dialog                                                              *)
(***************************************************************************)

\* _get_premium_upsell_message()
Premium == dialog = "upsell" \/ (nudge /\ dialog # "none")

\* _dismiss_dialog(), which does not insist.
Dismissed(status) ==
  /\ Replies(status) /\ dialog' \in {"none", dialog}
  /\ UNCHANGED <<view, nudge, draft>>

\* Add a note: the editor mounts, now or later, or the upsell instead.
OpensTheEditor ==
  /\ dialog' \in {"editor", "mounting", "upsell"} /\ draft' = FALSE /\ nudge' \in BOOLEAN
  /\ UNCHANGED view /\ NothingDone

\* Send: the invitation is recorded, LinkedIn wants to be paid for the note, or
\* the request is lost.
SendsTheInvitation(steady) ==
  /\ UNCHANGED view
  /\ \/ /\ relation = "none" /\ relation' = "outgoing" /\ behind' = "none"
        /\ did' = did \cup {[what |-> "invited", note |-> draft, offered |-> offered,
                            steady |-> steady]}
        /\ dialog' \in {"closing", "none"} /\ UNCHANGED <<nudge, draft>>
     \/ draft /\ dialog' = "upsell" /\ NothingDone /\ UNCHANGED <<nudge, draft>>
     \/ dialog' \in {dialog, "none"} /\ NothingDone /\ UNCHANGED <<nudge, draft>>

ClosesTheDialog == dialog' = "none" /\ NothingDone /\ UNCHANGED <<view, nudge, draft>>

\* The n-th button as it is resolved now, of so many when they were counted.
Presses(n, total) ==
  /\ n \in DOMAIN Layout(dialog)
  /\ \/ Layout(dialog)[n] = "note" /\ OpensTheEditor
     \/ Layout(dialog)[n] = "send" /\ SendsTheInvitation(total = Len(Layout(dialog)))
     \/ Layout(dialog)[n] = "dismiss" /\ ClosesTheDialog

Untouched == Staying /\ NothingDone

Counts == counted' = Len(Layout(dialog))

(***************************************************************************)
(* _submit_invite_dialog()                                                 *)
(***************************************************************************)

\* A dialog that is not seen in time is none.
SubmitsTheDialog ==
  /\ step = "submits" /\ Counts
  /\ \/ Replies("connect_unavailable")
     \/ dialog # "none" /\ ~asked /\ Proceeds("sends")
     \/ dialog \notin {"none", "editor"} /\ asked /\ Proceeds("reveals")
     \/ dialog = "editor" /\ asked /\ Proceeds("fills")
  /\ Same /\ Uneventful /\ Staying /\ UNCHANGED offered

\* The last button but one; a click that fails here is an error of the tool.
RevealsTheEditor ==
  /\ step = "reveals"
  /\ \/ counted < 2 /\ Untouched /\ Proceeds("fills")
     \/ /\ counted >= 2 /\ Presses(counted - 1, counted)
        /\ Proceeds("revealed") \/ Replies("error")
     \/ counted >= 2 /\ Untouched /\ Replies("error")
  /\ UNCHANGED <<turns, tool, asked, offered, counted, requests>>
  /\ UNCHANGED <<misled, hasty, blind, meddled>>

\* The link to Premium says something only when the editor did not come.
AwaitsTheEditor ==
  /\ step = "revealed"
  /\ \/ dialog = "editor" /\ Proceeds("fills") /\ Staying
     \/ dialog # "editor" /\ Premium /\ Dismissed("custom_note_limit_reached")
     \/ dialog # "editor" /\ ~Premium /\ Proceeds("fills") /\ Staying
  /\ Same /\ Uneventful /\ UNCHANGED <<offered, counted>>

\* Mistake: a note that could not be filled in does not stop the call.
FillsOrNot ==
  /\ step = "fills" /\ Proceeds("sends") /\ Counts
  /\ draft' = (dialog = "editor")
  /\ UNCHANGED <<view, dialog, nudge, offered>> /\ Same /\ Uneventful

FillsTheNote ==
  /\ step = "fills" /\ Counts
  /\ \/ dialog = "editor" /\ draft' = TRUE /\ Proceeds("sends")
     \/ draft' = draft /\ Proceeds("unfilled")
  /\ UNCHANGED <<view, dialog, nudge, offered>> /\ Same /\ Uneventful

IsNotFilled ==
  /\ step = "unfilled"
  /\ \/ (dialog = "editor" \/ ~Premium) /\ Dismissed("connect_unavailable")
     \/ dialog # "editor" /\ Premium /\ Dismissed("custom_note_limit_reached")
  /\ Same /\ Uneventful /\ UNCHANGED <<offered, counted>>

\* The last button.  A click that fails may have landed all the same.
ClicksThePrimary ==
  /\ step = "sends"
  /\ \/ Presses(counted, counted) /\ Answered(Proceeds("waits"), Proceeds("presses"))
     \/ Untouched /\ Proceeds("presses") /\ UNCHANGED misled
  /\ UNCHANGED <<turns, tool, asked, offered, counted, requests, hasty, blind, meddled>>

\* Enter on the last button there is now; a dialog that closes is taken for sent.
PressesEnter ==
  /\ step = "presses" /\ Counts
  /\ \/ Presses(counted', counted') /\ Answered(Proceeds("pressed"), Proceeds("unsent"))
     \/ Untouched /\ Proceeds("unsent") /\ UNCHANGED misled
  /\ UNCHANGED <<turns, tool, asked, offered, requests, hasty, blind, meddled>>

\* A dialog that is visible is open at once, the one of an invitation that has just
\* been recorded too.
SeesTheDialogClosed ==
  /\ step = "pressed"
  /\ \/ Proceeds("waits") /\ UNCHANGED hasty
     \/ dialog # "none" /\ Proceeds("unsent") /\ hasty' = (dialog = "closing")
  /\ Same /\ Staying /\ UNCHANGED <<offered, counted, did, misled, blind, meddled>>

IsNotSent ==
  /\ step = "unsent"
  /\ \/ asked /\ Premium /\ Dismissed("custom_note_limit_reached")
     \/ ~(asked /\ Premium) /\ Dismissed("connect_unavailable")
  /\ Same /\ Uneventful /\ UNCHANGED <<offered, counted>>

AwaitsTheClosing ==
  /\ step = "waits" /\ dialog # "closing"
  /\ \/ dialog # "none" /\ asked /\ Premium /\ Dismissed("custom_note_limit_reached")
     \/ ~(dialog # "none" /\ asked /\ Premium) /\ Proceeds("verifies") /\ Staying
  /\ Same /\ Uneventful /\ UNCHANGED <<offered, counted>>

\* An anchor that is gone is taken for an invitation that is recorded; one that
\* is still there is looked for once more.
Verifies ==
  /\ step = "verifies"
  /\ \E v \in Loadable :
       /\ Shows(v)
       /\ blind' = (v # Plain(relation))
       /\ IF SignalsOf(v).has_invite_anchor THEN Proceeds("settles") ELSE Replies("connected")
  /\ Same /\ UNCHANGED <<offered, counted, did, misled, hasty, meddled>>

Settles ==
  /\ step = "settles"
  /\ \E v \in Loadable :
       /\ Shows(v)
       /\ IF State(v) \in {"pending", "already_connected"}
          THEN Replies("connected") /\ blind' = FALSE
          ELSE Replies("send_failed") /\ UNCHANGED blind
  /\ Same /\ UNCHANGED <<offered, counted, did, misled, hasty, meddled>>

(***************************************************************************)
(* _probe_invite_note_limit()                                              *)
(***************************************************************************)

Probes ==
  /\ step = "probes" /\ Counts
  /\ \/ Replies("connect_unavailable") /\ Staying
     \/ Premium /\ Dismissed("custom_note_limit_reached")
     \/ dialog = "editor" /\ ~Premium /\ Dismissed("connect_unavailable")
     \/ /\ dialog \notin {"none", "editor"} /\ ~Premium /\ Staying
        /\ Proceeds(IF Len(Layout(dialog)) >= 3 THEN "probeClicks" ELSE "probed")
  /\ Same /\ Uneventful /\ UNCHANGED offered

ProbesTheEditor ==
  /\ step = "probeClicks" /\ Proceeds("probed")
  /\ Presses(counted - 1, counted) \/ Untouched
  /\ UNCHANGED <<turns, tool, asked, offered, counted, requests>>
  /\ UNCHANGED <<misled, hasty, blind, meddled>>

AnswersTheProbe ==
  /\ step = "probed"
  /\ Dismissed(IF Premium THEN "custom_note_limit_reached" ELSE "connect_unavailable")
  /\ Same /\ Uneventful /\ UNCHANGED <<offered, counted>>

(***************************************************************************)
(* act_on_invitation(): accepting and ignoring                             *)
(***************************************************************************)

Success == IF tool = "accept" THEN "accepted" ELSE "ignored"

DoesAsAsked ==
  Becomes("incoming", IF tool = "accept" THEN "connected" ELSE "none", Success)

\* _CLICK_INCOMING_ACTION_JS: by the labels of one language, else by what looks
\* like it around a compose anchor, which beside a request is another person's.
ClicksTheRow ==
  /\ step = "clicks"
  /\ \/ /\ view = "incoming" /\ DoesAsAsked
        /\ Answered(Proceeds("polls"), Replies("action_unavailable"))
     \/ /\ view = "incoming" /\ did' = did \cup {[what |-> "stray"]}
        /\ UNCHANGED <<relation, behind>>
        /\ Answered(Proceeds("polls"), Replies("action_unavailable"))
     \/ NothingDone /\ Replies("action_unavailable") /\ UNCHANGED misled
  /\ Staying
  /\ UNCHANGED <<turns, tool, asked, offered, counted, requests, hasty, blind, meddled>>

\* The open page, read again for evidence.
ReRenders(v) ==
  /\ view' = v /\ blind' = (v # Plain(relation)) /\ UNCHANGED <<dialog, nudge, draft>>
  /\ Same /\ UNCHANGED <<offered, counted, did, misled, hasty, meddled>>

\* Mistake: a click that landed is taken for what it asked for.
TakesTheClickForDone == step = "polls" /\ \E v \in ReRendered : ReRenders(v) /\ Replies(Success)

\* Anything but an incoming request is taken for success.
PollsTheProfile ==
  /\ step = "polls"
  /\ \E v \in ReRendered :
       /\ ReRenders(v)
       /\ Replies(IF State(v) = "incoming_request" THEN "verification_failed" ELSE Success)

\* _respond_via_received_invitations(): the list may be short or unreadable.
Listable == IF "incoming" \in {relation, behind} THEN BOOLEAN ELSE {FALSE}

ListsTheReceived ==
  /\ step = "lists" /\ Shows("bare")
  /\ \E there \in Listable : IF there THEN Proceeds("card") ELSE Replies("not_found")
  /\ Same /\ Uneventful /\ UNCHANGED <<offered, counted>>

ClicksTheCard ==
  /\ step = "card"
  /\ \/ DoesAsAsked /\ Answered(Proceeds("relists"), Replies("action_unavailable"))
     \/ NothingDone /\ Replies("action_unavailable") /\ UNCHANGED misled
  /\ Staying
  /\ UNCHANGED <<turns, tool, asked, offered, counted, requests, hasty, blind, meddled>>

ListsAgain ==
  /\ step = "relists" /\ Staying
  /\ \E there \in Listable :
       /\ blind' = (~there /\ relation = "incoming")
       /\ Replies(IF there THEN "verification_failed" ELSE Success)
  /\ Same /\ UNCHANGED <<offered, counted, did, misled, hasty, meddled>>

(***************************************************************************)
(* act_on_invitation(): withdrawing                                        *)
(***************************************************************************)

ClicksPending ==
  /\ step = "opensConfirm"
  /\ \/ /\ view = "pending" /\ Proceeds("confirms")
        /\ dialog' \in IF "outgoing" \in {relation, behind} THEN {"none", "confirm"}
                       ELSE {"none"}
        /\ UNCHANGED <<view, nudge, draft>>
     \/ Replies("action_unavailable") /\ Staying
  /\ Same /\ Uneventful /\ UNCHANGED <<offered, counted>>

\* A script whose answer is lost is sent again.  Its choice is the richest dialog,
\* which may be another one; with none there is nothing to click.
ConfirmsTheWithdrawal ==
  /\ step = "confirms"
  /\ \/ /\ dialog = "confirm" /\ dialog' = "none" /\ UNCHANGED <<view, nudge, draft>>
        /\ Becomes("outgoing", "none", "withdrawn")
        /\ Answered(Proceeds("checks"), Proceeds("confirms"))
     \/ /\ dialog = "confirm" /\ Staying /\ Proceeds("checks") /\ UNCHANGED misled
        /\ did' = did \cup {[what |-> "stray"]} /\ UNCHANGED <<relation, behind>>
     \/ Untouched /\ Replies("action_unavailable") /\ UNCHANGED misled
  /\ UNCHANGED <<turns, tool, asked, offered, counted, requests, hasty, blind, meddled>>

ChecksThePending ==
  /\ step = "checks"
  /\ \E v \in ReRendered :
       /\ ReRenders(v)
       /\ Replies(IF State(v) = "pending" THEN "verification_failed" ELSE "withdrawn")

(***************************************************************************)
(* Errors, LinkedIn, the member and the portal                             *)
(***************************************************************************)

\* A page that is not LinkedIn's is refused; the tool's deadline or the client
\* ends the call anywhere.
Fails ==
  /\ step # "idle" /\ Replies("error")
  /\ Same /\ Uneventful /\ Staying /\ UNCHANGED <<offered, counted>>

Turn(r) ==
  /\ turns < MaxTurns /\ turns' = turns + 1
  /\ relation' = r /\ behind' = relation /\ meddled' = TRUE
  /\ UNCHANGED <<tab, request, did, misled, hasty, blind>>

TheMemberActs ==
  \/ relation = "none" /\ Turn("incoming")
  \/ relation = "incoming" /\ Turn("none")
  \/ relation = "outgoing" /\ \E r \in {"connected", "none"} : Turn(r)
  \/ relation = "connected" /\ Turn("none")

PagesCatchUp ==
  /\ behind # relation /\ behind' = relation
  /\ UNCHANGED <<relation, turns, tab, request, history>>

\* A dialog mounts, is swapped for the upsell, is laid out anew or opened to the
\* editor by the person, which moves Send to another number, or closed.
DialogChanges ==
  /\ dialog' \in (CASE dialog = "legacy" -> {"gate", "editor", "upsell", "none"}
                    [] dialog = "gate" -> {"editor", "upsell", "none"}
                    [] dialog = "editor" -> {"upsell", "none"}
                    [] dialog = "mounting" -> {"editor", "upsell", "none"}
                    [] dialog \in {"closing", "upsell", "confirm"} -> {"none"}
                    [] dialog = "none" -> {})
  /\ turns < MaxTurns \/ dialog \in {"mounting", "closing"}
  /\ turns' = IF dialog \in {"mounting", "closing"} THEN turns ELSE turns + 1
  /\ UNCHANGED <<relation, behind, view, nudge, draft, request, history>>

PageIsTaken ==
  /\ step # "idle" /\ turns < MaxTurns /\ turns' = turns + 1
  /\ view' \in {"portal", "bare"} /\ view' # view /\ dialog' = "none"
  /\ UNCHANGED <<relation, behind, nudge, draft, request, history>>

(***************************************************************************)
(* The specification                                                       *)
(***************************************************************************)

Connects ==
  \/ ClicksAccept \/ VerifiesAccept \/ OpensTheMenu \/ Gates \/ NavigatesToTheInvitation
  \/ SubmitsTheDialog \/ RevealsTheEditor \/ AwaitsTheEditor \/ FillsTheNote \/ IsNotFilled
  \/ ClicksThePrimary \/ PressesEnter \/ SeesTheDialogClosed \/ IsNotSent
  \/ AwaitsTheClosing \/ Verifies \/ Settles \/ Probes \/ ProbesTheEditor
  \/ AnswersTheProbe

Responds ==
  \/ ClicksTheRow \/ PollsTheProfile \/ ListsTheReceived \/ ClicksTheCard \/ ListsAgain
  \/ ClicksPending \/ ConfirmsTheWithdrawal \/ ChecksThePending

InvitationNext ==
  \/ Requests \/ LoadsTheProfile
  \/ (view # "portal" /\ (Connects \/ Responds)) \/ Fails
  \/ TheMemberActs \/ PagesCatchUp \/ DialogChanges \/ PageIsTaken

InvitationSpec == InvitationInit /\ [][InvitationNext]_invitationVars

(***************************************************************************)
(* Properties                                                              *)
(***************************************************************************)

\* A press that landed on a dialog with other buttons than were counted: by a number
\* the code cannot know what it presses.
Swapped(e) == e.what = "invited" /\ ~e.steady

\* An invitation goes out only in a call that LinkedIn offered it to, and with
\* its note if the client gave one: neither a probe nor an editor that did not
\* come sends another.  Only a dialog that loses a button between counting and
\* pressing does.
InvitedAsAsked ==
  \A e \in did :
    e.what = "invited" =>
      Swapped(e) \/ (tool = "connect" /\ e.offered /\ (asked => e.note))

\* A status that says nothing was done is answered when nothing was, unless a click
\* landed that was reported failed, or in such a dialog, or LimitMeansRejected fails.
NothingMeansNothing ==
  reply \in Nothing /\ step = "idle" =>
    did = {} \/ misled \/ hasty \/ \E e \in did : Swapped(e)

\* What one that says it was done names.
Named == IF reply = "connected" THEN "invited" ELSE reply

\* And it was done, however the request was refused or lost, unless the other side
\* changed the relation meanwhile or the page or list that was read for evidence did
\* not plainly show what it is.  The way to a connection over an incoming request
\* takes nothing but the connection for evidence.
DoneMeansDone ==
  reply \in {"connected", "accepted", "ignored", "withdrawn"} /\ step = "idle" =>
    \/ \E e \in did : e.what = Named
    \/ meddled
    \/ blind /\ ~(tool = "connect" /\ reply = "accepted")

\* The status of a call is true, whichever of its steps failed.
StatusIsTrue == NothingMeansNothing /\ DoneMeansDone

\* An invitation that a click sent which was answered is not reported as rejected for
\* the note's sake: the client would send another one without its note.  Refuted by
\* the dialog that is still closing after Enter.
LimitMeansRejected ==
  reply = "custom_note_limit_reached" /\ step = "idle" =>
    misled \/ \A e \in did : e.what = "invited" => Swapped(e)

==================================================================================
