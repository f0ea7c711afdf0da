--------------------------- MODULE Invitations_proof ---------------------------
(***************************************************************************)
(* Invitations, proved for any number of calls and of changes from outside.*)
(***************************************************************************)
EXTENDS Invitations, TLAPS

(***************************************************************************)
(* What pages and dialogs hold                                             *)
(***************************************************************************)

\* The buttons of a dialog, one by one.
LEMMA LayoutOf ==
  /\ Layout("legacy") = <<"dismiss", "note", "send">>
  /\ Layout("gate") = <<"note", "send">>
  /\ Layout("editor") = <<"dismiss", "send">>
  /\ Layout("closing") = <<"dismiss", "send">>
  /\ Layout("mounting") = <<"dismiss">>
  /\ Layout("upsell") = <<"dismiss">>
  /\ Layout("confirm") = <<"withdraw">>
  /\ Layout("none") = <<>>
  BY DEF Layout

LEMMA LayoutLengths ==
  ASSUME NEW d \in Dialog
  PROVE  Len(Layout(d)) \in 0..3 /\ DOMAIN Layout(d) = 1..Len(Layout(d))
<1>1. Layout(d) \in {<<"dismiss", "note", "send">>, <<"note", "send">>,
                     <<"dismiss", "send">>, <<"dismiss">>, <<"withdraw">>, <<>>}
  BY Zenon DEF Layout, Dialog
<1>2. QED BY <1>1

\* What each page is taken for.
LEMMA StateOf ==
  ASSUME NEW v \in View
  PROVE  /\ State(v) = "self_profile" <=> v = "self"
         /\ State(v) = "connectable" <=> v \in {"connectable", "menu"}
         /\ State(v) = "incoming_request" <=> v = "incoming"
         /\ State(v) = "pending" <=> v = "pending"
         /\ State(v) = "already_connected" <=> v = "connected"
         /\ State(v) = "follow_only" <=> v \in {"follow", "hides"}
         /\ State(v) = "unavailable" <=> v \in {"blank", "bare", "invite", "portal"}
         /\ SignalsOf(v).has_invite_anchor <=> v \in {"connectable", "menu"}
<1>1. /\ SignalsOf(v).has_invite_anchor <=> v \in {"connectable", "menu"}
      /\ SignalsOf(v).has_compose_anchor_in_action_root <=> v \in Profile
      /\ SignalsOf(v).has_edit_intro_anchor <=> v = "self"
      /\ SignalsOf(v).has_labeled_action_button
           <=> v \in {"connectable", "follow", "hides", "menu"}
      /\ SignalsOf(v).has_labeled_action_anchor <=> v \in {"pending", "incoming"}
      /\ SignalsOf(v).has_incoming_action_row <=> v = "incoming"
  BY Zenon DEF SignalsOf
<1>2. State(v) =
        IF v = "self" THEN "self_profile"
        ELSE IF v \in {"connectable", "menu"} THEN "connectable"
        ELSE IF v = "incoming" THEN "incoming_request"
        ELSE IF v \in {"pending", "incoming"} THEN "pending"
        ELSE IF v \notin Profile THEN "unavailable"
        ELSE IF v \in {"connectable", "follow", "hides", "menu"} THEN "follow_only"
        ELSE "already_connected"
  BY <1>1, Zenon DEF State, detect_connection_state
<1>3. QED BY <1>1, <1>2 DEF View, Profile

\* The page that shows a relation plainly.
LEMMA PlainOf ==
  ASSUME NEW r \in Relation
  PROVE  /\ r = "none" => Plain(r) = "connectable"
         /\ r = "incoming" => Plain(r) = "incoming"
         /\ r = "outgoing" => Plain(r) = "pending"
  BY DEF Plain

\* Which relation a page betrays.
LEMMA ShownOf ==
  ASSUME NEW r \in Relation
  PROVE  /\ ShownFor(r) \subseteq Profile
         /\ "menu" \notin ShownFor(r)
         /\ \A v \in ShownFor(r) :
              /\ v \in {"connectable", "follow", "hides"} => r = "none"
              /\ v = "incoming" => r = "incoming"
              /\ v = "connected" => r = "connected"
              /\ v = "pending" => r \in {"outgoing", "incoming"}
  BY DEF Relation, ShownFor, Profile

LEMMA LoadableIsViewed ==
  ASSUME relation \in Relation, behind \in Relation
  PROVE  Loadable \subseteq View
  BY ShownOf DEF Loadable, View

LEMMA ReRenderedIsViewed ==
  ASSUME relation \in Relation, view \in View
  PROVE  ReRendered \subseteq View
  BY ShownOf DEF ReRendered, View

LEMMA AnchorIsSeenOrNot ==
  ASSUME NEW v
  PROVE  SignalsOf(v).has_invite_anchor \in BOOLEAN
<1>1. SignalsOf(v).has_invite_anchor = (v \in {"connectable", "menu"})
  BY Zenon DEF SignalsOf
<1>2. CASE v \in {"connectable", "menu"}
  BY <1>1, <1>2
<1>3. CASE v \notin {"connectable", "menu"}
  BY <1>1, <1>3
<1>4. QED BY <1>2, <1>3

\* What pressing the n-th button of a dialog can come to.
LEMMA PressOf ==
  ASSUME dialog \in Dialog, NEW n \in Nat, NEW total, Presses(n, total)
  PROVE  \/ OpensTheEditor /\ <<dialog, n>> \in {<<"legacy", 2>>, <<"gate", 1>>}
         \/ /\ SendsTheInvitation(total = Len(Layout(dialog)))
            /\ <<dialog, n>> \in {<<"legacy", 3>>, <<"gate", 2>>, <<"editor", 2>>,
                                 <<"closing", 2>>}
         \/ ClosesTheDialog
<1>1. \/ OpensTheEditor /\ Layout(dialog)[n] = "note"
      \/ SendsTheInvitation(total = Len(Layout(dialog))) /\ Layout(dialog)[n] = "send"
      \/ ClosesTheDialog
  BY DEF Presses
<1>2. n \in DOMAIN Layout(dialog)
  BY DEF Presses
<1>3. /\ Layout(dialog)[n] = "note" => <<dialog, n>> \in {<<"legacy", 2>>, <<"gate", 1>>}
      /\ Layout(dialog)[n] = "send" =>
           <<dialog, n>> \in {<<"legacy", 3>>, <<"gate", 2>>, <<"editor", 2>>,
                             <<"closing", 2>>}
  BY <1>2, LayoutOf, LayoutLengths DEF Dialog
<1>4. QED BY <1>1, <1>3

LEMMA LoadOf ==
  ASSUME InvitationTypeOK, LoadsTheProfile
  PROVE  /\ step = "loads" /\ dialog' = "none" /\ view' \in Loadable \cap View
         /\ offered' <=> view' \in {"connectable", "menu"}
         /\ \/ step' = "idle" /\ reply' \in Nothing
            \/ step' = "accepts" /\ view' = "incoming" /\ tool = "connect"
            \/ step' = "menu" /\ view' \in {"follow", "hides"} /\ tool = "connect"
            \/ step' = "gates" /\ tool = "connect"
            \/ step' = "lists" /\ tool \in {"accept", "ignore"}
            \/ step' = "clicks" /\ view' = "incoming" /\ tool \in {"accept", "ignore"}
            \/ step' = "opensConfirm" /\ tool = "withdraw"
         /\ (step' # "idle" => reply' = reply)
<1>1. PICK v \in Loadable :
        /\ Shows(v) /\ offered' = SignalsOf(v).has_invite_anchor
        /\ \/ tool = "connect" /\ BranchesToConnect(v)
           \/ tool \in {"accept", "ignore"} /\ BranchesToAnswer(v)
           \/ tool = "withdraw" /\ BranchesToWithdraw(v)
  BY DEF LoadsTheProfile
<1>2. v \in View
  BY LoadableIsViewed DEF InvitationTypeOK
<1>3. step = "loads" /\ dialog' = "none" /\ view' = v
  BY <1>1 DEF LoadsTheProfile, Shows
<1>4. offered' <=> v \in {"connectable", "menu"}
  BY <1>1, <1>2, StateOf, Zenon
<1>5. CASE tool = "connect" /\ BranchesToConnect(v)
  BY <1>2, <1>3, <1>4, <1>5, StateOf DEF BranchesToConnect, Nothing, Replies, Proceeds
<1>6. CASE tool \in {"accept", "ignore"} /\ BranchesToAnswer(v)
  BY <1>2, <1>3, <1>4, <1>6, StateOf DEF BranchesToAnswer, Nothing, Replies, Proceeds
<1>7. CASE tool = "withdraw" /\ BranchesToWithdraw(v)
  BY <1>2, <1>3, <1>4, <1>7, StateOf DEF BranchesToWithdraw, Nothing, Replies, Proceeds
<1>8. QED BY <1>1, <1>5, <1>6, <1>7

(***************************************************************************)
(* Types                                                                   *)
(***************************************************************************)

USE DEF Proceeds, Replies, Same, Uneventful, Staying, NothingDone, Untouched, Answered,
        Dismissed, linkedin, tab, request, history

Counters ==
  turns \in 0..MaxTurns /\ counted \in 0..3 /\ requests \in 0..MaxRequests

Flags ==
  /\ nudge \in BOOLEAN /\ draft \in BOOLEAN /\ asked \in BOOLEAN /\ offered \in BOOLEAN
  /\ misled \in BOOLEAN /\ hasty \in BOOLEAN /\ blind \in BOOLEAN /\ meddled \in BOOLEAN

Names ==
  /\ relation \in Relation /\ behind \in Relation /\ view \in View /\ dialog \in Dialog
  /\ tool \in Request /\ reply \in Status /\ did \subseteq Effect

Steps ==
  /\ step \in {"idle", "loads"} \cup Connecting \cup Answering \cup Withdrawing
  /\ (step \in Connecting => tool = "connect")
  /\ (step \in Answering => tool \in {"accept", "ignore"})
  /\ (step \in Withdrawing => tool = "withdraw")

LEMMA TypeParts == InvitationTypeOK <=> Counters /\ Flags /\ Names /\ Steps
  BY Zenon DEF InvitationTypeOK, Counters, Flags, Names, Steps

LEMMA InitTyped == InvitationInit => InvitationTypeOK
<1>1. InvitationInit => Counters
  BY InvitationBounds DEF InvitationInit, Counters
<1>2. InvitationInit => Flags
  BY Zenon DEF InvitationInit, Flags
<1>3. InvitationInit => Names
  BY DEF InvitationInit, Names, Relation, View, Dialog, Request, Status
<1>4. InvitationInit => Steps
  BY DEF InvitationInit, Steps, Connecting, Answering, Withdrawing
<1>5. QED BY <1>1, <1>2, <1>3, <1>4, TypeParts

\* What a press can leave of the page and of the relation.
LEMMA PressTyped ==
  ASSUME Flags, Names, NEW n, NEW total, Presses(n, total)
  PROVE  /\ nudge' \in BOOLEAN /\ draft' \in BOOLEAN /\ view' = view
         /\ dialog' \in Dialog /\ relation' \in Relation /\ behind' \in Relation
         /\ did' \subseteq Effect
<1>1. CASE OpensTheEditor \/ ClosesTheDialog
  BY <1>1 DEF OpensTheEditor, ClosesTheDialog, Flags, Names, Dialog
<1>2. CASE SendsTheInvitation(total = Len(Layout(dialog)))
  <2>1. PICK steady \in BOOLEAN : SendsTheInvitation(steady)
    BY <1>2
  <2>2. [what |-> "invited", note |-> draft, offered |-> offered, steady |-> steady]
          \in Effect
    BY DEF Flags, Effect
  <2>3. did' \subseteq Effect
    BY <2>1, <2>2, Zenon DEF SendsTheInvitation, Names
  <2>4. QED BY <2>1, <2>3 DEF SendsTheInvitation, Flags, Names, Dialog, Relation
<1>3. QED BY <1>1, <1>2 DEF Presses

LEMMA TypeKept ==
  ASSUME InvitationTypeOK, [InvitationNext]_invitationVars
  PROVE  InvitationTypeOK'
<1>1. /\ Counters /\ Flags /\ Names /\ Steps
  BY TypeParts
<1>2. Counters'
  <2>0. CASE \/ SubmitsTheDialog \/ FillsTheNote \/ Probes \/ PressesEnter
    <3>1. Len(Layout(dialog)) \in 0..3
      BY <1>1, LayoutLengths DEF Names
    <3>2. counted' = Len(Layout(dialog)) /\ turns' = turns /\ requests' = requests
      BY <2>0, Zenon DEF SubmitsTheDialog, FillsTheNote, Probes, PressesEnter, Counts
    <3>3. QED BY <1>1, <3>1, <3>2 DEF Counters
  <2>1. CASE LoadsTheProfile
    BY <2>1, <1>1, SMT DEF Counters, LoadsTheProfile
  <2>2. CASE Requests
    BY <2>2, <1>1, InvitationBounds, SMT DEF Counters, Requests
  <2>3. CASE \/ RevealsTheEditor \/ ClicksThePrimary \/ ProbesTheEditor
    BY <2>3, <1>1, SMT DEF Counters, RevealsTheEditor, ClicksThePrimary,
      ProbesTheEditor, Presses, OpensTheEditor, SendsTheInvitation, ClosesTheDialog
  <2>4. CASE \/ ClicksAccept \/ VerifiesAccept \/ OpensTheMenu \/ Gates
           \/ NavigatesToTheInvitation \/ AwaitsTheEditor \/ IsNotFilled
    BY <2>4, <1>1, SMT DEF Counters, ClicksAccept, VerifiesAccept, OpensTheMenu,
      Gates, NavigatesToTheInvitation, AwaitsTheEditor, IsNotFilled, Shows, Becomes
  <2>5. CASE \/ SeesTheDialogClosed \/ IsNotSent \/ AwaitsTheClosing \/ Verifies
           \/ Settles \/ AnswersTheProbe
    BY <2>5, <1>1, SMT DEF Counters, SeesTheDialogClosed, IsNotSent, AwaitsTheClosing,
      Verifies, Settles, AnswersTheProbe, Shows
  <2>6. CASE \/ ClicksTheRow \/ PollsTheProfile \/ ListsTheReceived \/ ClicksTheCard
           \/ ListsAgain \/ ClicksPending \/ ConfirmsTheWithdrawal
           \/ ChecksThePending \/ Fails \/ TheMemberActs \/ PagesCatchUp
           \/ DialogChanges \/ PageIsTaken
    BY <2>6, <1>1, InvitationBounds, SMT DEF Counters, ClicksTheRow, PollsTheProfile,
      ListsTheReceived, ClicksTheCard, ListsAgain, ClicksPending,
      ConfirmsTheWithdrawal, ChecksThePending, Fails, TheMemberActs, PagesCatchUp,
      DialogChanges, PageIsTaken, Shows, ReRenders, Becomes, DoesAsAsked, Turn
  <2>7. CASE UNCHANGED invitationVars
    BY <2>7, <1>1, SMT DEF Counters, invitationVars
  <2>8. QED BY <2>0, <2>1, <2>2, <2>3, <2>4, <2>5, <2>6, <2>7 DEF InvitationNext, Connects, Responds
<1>3. Flags'
  <2>1. CASE \/ LoadsTheProfile \/ OpensTheMenu
    BY <2>1, <1>1, AnchorIsSeenOrNot, Zenon DEF Flags, LoadsTheProfile, OpensTheMenu,
      Shows
  <2>0. CASE \/ Requests \/ SubmitsTheDialog \/ FillsTheNote \/ Probes
    BY <2>0, <1>1, Zenon DEF Flags, Requests, SubmitsTheDialog, FillsTheNote, Probes,
      Counts
  <2>2. CASE \/ RevealsTheEditor \/ ClicksThePrimary \/ PressesEnter
           \/ ProbesTheEditor
    <3>1. Untouched \/ \E n, total : Presses(n, total)
      BY <2>2, Zenon DEF RevealsTheEditor, ClicksThePrimary, PressesEnter, ProbesTheEditor
    <3>2. nudge' \in BOOLEAN /\ draft' \in BOOLEAN
      BY <1>1, <3>1, PressTyped, Zenon DEF Flags
    <3>3. /\ asked' = asked /\ offered' = offered /\ misled' \in {misled, TRUE}
          /\ hasty' = hasty /\ blind' = blind /\ meddled' = meddled
      BY <2>2, Zenon DEF RevealsTheEditor, ClicksThePrimary, PressesEnter, ProbesTheEditor
    <3>4. QED BY <1>1, <3>2, <3>3, Zenon DEF Flags
  <2>3. CASE \/ ClicksAccept \/ VerifiesAccept \/ Gates \/ NavigatesToTheInvitation
           \/ AwaitsTheEditor \/ IsNotFilled
    BY <2>3, <1>1, Zenon DEF Flags, ClicksAccept, VerifiesAccept, Gates,
      NavigatesToTheInvitation, AwaitsTheEditor, IsNotFilled, Shows, Becomes
  <2>4. CASE \/ SeesTheDialogClosed \/ IsNotSent \/ AwaitsTheClosing \/ Verifies
           \/ Settles \/ AnswersTheProbe
    BY <2>4, <1>1, Zenon DEF Flags, SeesTheDialogClosed, IsNotSent, AwaitsTheClosing,
      Verifies, Settles, AnswersTheProbe, Shows
  <2>5. CASE \/ ClicksTheRow \/ ListsTheReceived \/ ClicksTheCard \/ ClicksPending
           \/ ConfirmsTheWithdrawal
    <3>1. /\ nudge' \in {nudge, FALSE} /\ draft' \in {draft, FALSE}
          /\ asked' = asked /\ offered' = offered /\ misled' \in {misled, TRUE}
          /\ hasty' = hasty /\ blind' = blind /\ meddled' = meddled
      BY <2>5, Zenon DEF ClicksTheRow, ListsTheReceived, ClicksTheCard, ClicksPending,
        ConfirmsTheWithdrawal, Shows
    <3>2. QED BY <1>1, <3>1, Zenon DEF Flags
  <2>9. CASE \/ Fails \/ TheMemberActs \/ PagesCatchUp \/ DialogChanges \/ PageIsTaken
    <3>1. /\ nudge' = nudge /\ draft' = draft /\ asked' = asked /\ offered' = offered
          /\ misled' = misled /\ hasty' = hasty /\ blind' = blind
          /\ meddled' \in {meddled, TRUE}
      BY <2>9, Zenon DEF Fails, TheMemberActs, PagesCatchUp, DialogChanges, PageIsTaken, Turn
    <3>2. QED BY <1>1, <3>1, Zenon DEF Flags
  <2>8. CASE \/ PollsTheProfile \/ ListsAgain \/ ChecksThePending
    BY <2>8, <1>1, Zenon DEF Flags, PollsTheProfile, ListsAgain, ChecksThePending, ReRenders
  <2>6. CASE UNCHANGED invitationVars
    BY <2>6, <1>1, Zenon DEF Flags, invitationVars
  <2>7. QED BY <2>0, <2>1, <2>2, <2>3, <2>4, <2>5, <2>6, <2>8, <2>9
    DEF InvitationNext, Connects, Responds
<1>4. Names'
  <2>1. CASE LoadsTheProfile
    BY <2>1, <1>1, LoadOf, SMT DEF Names, LoadsTheProfile, Status, Dialog
  <2>0. CASE \/ RevealsTheEditor \/ ClicksThePrimary \/ PressesEnter
           \/ ProbesTheEditor
    <3>1. Untouched \/ \E n, total : Presses(n, total)
      BY <2>0, Zenon DEF RevealsTheEditor, ClicksThePrimary, PressesEnter, ProbesTheEditor
    <3>2. tool' = tool /\ reply' \in {reply, "error"}
      BY <2>0, Zenon DEF RevealsTheEditor, ClicksThePrimary, PressesEnter, ProbesTheEditor
    <3>3. /\ view' = view /\ dialog' \in Dialog /\ relation' \in Relation
          /\ behind' \in Relation /\ did' \subseteq Effect
      BY <1>1, <3>1, PressTyped, Zenon DEF Names
    <3>4. QED BY <1>1, <3>2, <3>3 DEF Names, Status
  <2>2. CASE \/ Requests \/ SubmitsTheDialog \/ FillsTheNote \/ Probes
           \/ ClicksAccept \/ VerifiesAccept \/ OpensTheMenu
           \/ Gates \/ NavigatesToTheInvitation \/ AwaitsTheEditor \/ IsNotFilled
           \/ SeesTheDialogClosed \/ IsNotSent \/ AwaitsTheClosing \/ Verifies
           \/ Settles \/ AnswersTheProbe
    BY <2>2, <1>1, LoadableIsViewed, SMT DEF Names, Requests, SubmitsTheDialog,
      FillsTheNote, Probes, ClicksAccept, VerifiesAccept, OpensTheMenu, Gates,
      NavigatesToTheInvitation, AwaitsTheEditor, IsNotFilled, SeesTheDialogClosed,
      IsNotSent, AwaitsTheClosing, Verifies, Settles, AnswersTheProbe, Shows, Becomes,
      Counts, Relation, Dialog, View, Profile, Request, Status, Nothing, Effect
  <2>3. CASE \/ ClicksTheRow \/ PollsTheProfile \/ ListsTheReceived \/ ClicksTheCard
           \/ ListsAgain \/ ClicksPending \/ ConfirmsTheWithdrawal
           \/ ChecksThePending \/ Fails \/ TheMemberActs \/ PagesCatchUp
           \/ DialogChanges \/ PageIsTaken
    BY <2>3, <1>1, ReRenderedIsViewed, LoadableIsViewed, SMT DEF Names, ClicksTheRow,
      PollsTheProfile, ListsTheReceived, ClicksTheCard, ListsAgain, ClicksPending,
      ConfirmsTheWithdrawal, ChecksThePending, Fails, TheMemberActs, PagesCatchUp,
      DialogChanges, PageIsTaken, Shows, ReRenders, Becomes, DoesAsAsked, Success, Turn,
      Relation, Dialog, View, Profile, Request, Status, Nothing, Effect
  <2>4. CASE UNCHANGED invitationVars
    BY <2>4, <1>1, SMT DEF Names, invitationVars
  <2>5. QED BY <2>0, <2>1, <2>2, <2>3, <2>4 DEF InvitationNext, Connects, Responds
<1>5. Steps'
  <2>1. CASE LoadsTheProfile
    BY <2>1, <1>1, LoadOf, SMT DEF Steps, LoadsTheProfile, Same, Connecting,
      Answering, Withdrawing
  <2>2. CASE \/ Requests \/ SubmitsTheDialog \/ FillsTheNote \/ Probes
           \/ RevealsTheEditor \/ ClicksThePrimary \/ PressesEnter
           \/ ProbesTheEditor \/ ClicksAccept \/ VerifiesAccept \/ OpensTheMenu
           \/ Gates \/ NavigatesToTheInvitation \/ AwaitsTheEditor \/ IsNotFilled
           \/ SeesTheDialogClosed \/ IsNotSent \/ AwaitsTheClosing \/ Verifies
           \/ Settles \/ AnswersTheProbe
    BY <2>2, <1>1, SMT DEF Steps, Requests, SubmitsTheDialog, FillsTheNote, Probes,
      RevealsTheEditor, ClicksThePrimary, PressesEnter, ProbesTheEditor, ClicksAccept,
      VerifiesAccept, OpensTheMenu, Gates, NavigatesToTheInvitation, AwaitsTheEditor,
      IsNotFilled, SeesTheDialogClosed, IsNotSent, AwaitsTheClosing, Verifies,
      Settles, AnswersTheProbe, Connecting, Answering, Withdrawing
  <2>3. CASE \/ ClicksTheRow \/ PollsTheProfile \/ ListsTheReceived \/ ClicksTheCard
           \/ ListsAgain \/ ClicksPending \/ ConfirmsTheWithdrawal
           \/ ChecksThePending \/ Fails \/ TheMemberActs \/ PagesCatchUp
           \/ DialogChanges \/ PageIsTaken
    BY <2>3, <1>1, SMT DEF Steps, ClicksTheRow, PollsTheProfile, ListsTheReceived,
      ClicksTheCard, ListsAgain, ClicksPending, ConfirmsTheWithdrawal,
      ChecksThePending, Fails, TheMemberActs, PagesCatchUp, DialogChanges,
      PageIsTaken, ReRenders, Connecting, Answering, Withdrawing, Turn
  <2>4. CASE UNCHANGED invitationVars
    BY <2>4, <1>1, SMT DEF Steps, invitationVars
  <2>5. QED BY <2>1, <2>2, <2>3, <2>4 DEF InvitationNext, Connects, Responds
<1>6. QED BY <1>2, <1>3, <1>4, <1>5, TypeParts DEF InvitationTypeOK, Counters, Flags, Names, Steps

(***************************************************************************)
(* The inductive invariant                                                 *)
(***************************************************************************)

\* The steps of a call that is to send an invitation.
Inviting ==
  {"submits", "reveals", "revealed", "fills", "unfilled", "sends", "presses", "pressed",
   "unsent", "waits", "verifies", "settles"}

\* The steps before its click of a call that may answer that nothing was done.
Untried ==
  {"loads", "menu", "gates", "navigates", "submits", "reveals", "revealed", "fills",
   "unfilled", "sends", "lists", "probes", "probeClicks", "probed"}

Some(names) == \E e \in did : e.what \in names

SomeSwapped == \E e \in did : Swapped(e)

\* Until the first click nothing has been done, but by a press on a dialog that lost
\* a button, and after a click that is said to have failed the call knows better or
\* the dialog tells it.
NothingYet ==
  /\ step \in Untried => did = {} \/ SomeSwapped
  /\ step = "presses" => did = {} \/ SomeSwapped \/ misled
  /\ step = "unsent" => did = {} \/ SomeSwapped \/ misled \/ hasty
  /\ step \in {"pressed", "waits"} =>
       did = {} \/ SomeSwapped \/ misled \/ dialog \in {"closing", "none"}

\* Which dialogs can be open where a button is pressed by its number.
AsCounted ==
  /\ step \in {"submits", "probes"} =>
       dialog \in {"none", "legacy", "gate", "editor", "upsell"}
  /\ step = "reveals" =>
       \/ counted < 2
       \/ counted = 2 /\ dialog \in {"none", "gate", "editor", "upsell"}
       \/ counted = 3 /\ dialog \in {"none", "legacy", "gate", "editor", "upsell"}
  /\ step = "probeClicks" =>
       counted = 3 /\ dialog \in {"none", "legacy", "gate", "editor", "upsell"}
  /\ step \in {"sends", "presses"} /\ asked =>
       draft /\ dialog \in {"none", "editor", "closing", "upsell"}

\* While nobody else changes the relation, it is what the page showed until one of
\* our clicks changes it.
AsShown ==
  /\ step \in Inviting => offered
  /\ step = "menu" => view \in {"follow", "hides", "bare", "portal"}
  /\ ~meddled =>
       /\ step \in {"loads", "accepts", "menu", "lists", "card", "clicks", "opensConfirm"}
            => behind = relation
       /\ step = "menu" /\ view = "hides" => relation = "none"
       /\ step \in {"accepts", "clicks"} /\ view = "incoming" => relation = "incoming"
       /\ step = "card" => relation = "incoming"
       /\ step = "confirms" /\ dialog = "confirm" => relation = "outgoing"

\* And a call that comes to verify something has done it, or LinkedIn has not and the
\* relation still is the one there was.
AsDone ==
  ~meddled =>
    /\ step \in Inviting \cup {"gates", "navigates"} /\ offered =>
         (relation = "none" /\ behind = "none") \/ Some({"invited"})
    /\ step \in {"verifiesAccept", "settlesAccept"} =>
         (relation = "incoming" /\ behind = "incoming") \/ Some({"accepted"})
    /\ step \in {"polls", "relists"} => relation = "incoming" \/ Some({Success})
    /\ step = "checks" => relation = "outgoing" \/ Some({"withdrawn"})

Claims ==
  /\ InvitedAsAsked /\ NothingMeansNothing /\ DoneMeansDone
  /\ NothingYet /\ AsCounted /\ AsShown /\ AsDone

IInv == InvitationTypeOK /\ Claims

(***************************************************************************)
(* Presses by number                                                       *)
(***************************************************************************)

\* The reveal and the probe reach the button that sends only in a dialog that has lost
\* one since it was counted.
LEMMA RevealsOf ==
  ASSUME InvitationTypeOK, AsCounted, RevealsTheEditor \/ ProbesTheEditor
  PROVE  \/ NothingDone /\ (OpensTheEditor \/ ClosesTheDialog \/ Untouched)
         \/ SendsTheInvitation(FALSE)
<1>1. dialog \in Dialog /\ counted \in 0..3
  BY TypeParts DEF Names, Counters
<1>2. SUFFICES ASSUME counted \in {2, 3}, Presses(counted - 1, counted)
               PROVE  OpensTheEditor \/ ClosesTheDialog \/ SendsTheInvitation(FALSE)
  <2>1. RevealsTheEditor /\ counted < 2 => Untouched
    BY <1>1 DEF RevealsTheEditor
  <2>2. \/ Untouched
        \/ counted \in {2, 3} /\ Presses(counted - 1, counted)
    BY <1>1, <2>1 DEF RevealsTheEditor, ProbesTheEditor, AsCounted
  <2>3. QED BY <1>2, <2>2 DEF OpensTheEditor, ClosesTheDialog
<1>3. counted - 1 \in Nat
  BY <1>2
<1>4. \/ OpensTheEditor \/ ClosesTheDialog
      \/ /\ SendsTheInvitation(counted = Len(Layout(dialog)))
         /\ <<dialog, counted - 1>> \in {<<"legacy", 3>>, <<"gate", 2>>, <<"editor", 2>>,
                                       <<"closing", 2>>}
  BY <1>1, <1>2, <1>3, PressOf
<1>5. ASSUME <<dialog, counted - 1>> \in {<<"legacy", 3>>, <<"gate", 2>>, <<"editor", 2>>,
                                        <<"closing", 2>>}
      PROVE  (counted = Len(Layout(dialog))) = FALSE
  <2>1. counted = 3 /\ dialog \in {"gate", "editor", "closing"}
    BY <1>2, <1>5
  <2>2. Len(Layout(dialog)) = 2
    BY <2>1, LayoutOf
  <2>3. QED BY <2>1, <2>2
<1>6. QED BY <1>4, <1>5

\* A press that is to send a note opens no editor anew.
LEMMA SendsWithTheNote ==
  ASSUME InvitationTypeOK, AsCounted, ClicksThePrimary \/ PressesEnter
  PROVE  \/ OpensTheEditor /\ ~asked
         \/ (\E steady \in BOOLEAN : SendsTheInvitation(steady)) /\ (asked => draft)
         \/ ClosesTheDialog
         \/ Untouched
<1>1. dialog \in Dialog /\ counted \in Nat
  BY TypeParts DEF Names, Counters
<1>2. Len(Layout(dialog)) \in Nat
  BY <1>1, LayoutLengths
<1>3. step \in {"sends", "presses"}
  BY DEF ClicksThePrimary, PressesEnter
<1>4. Untouched \/ \E n \in Nat : Presses(n, n)
  BY <1>1, <1>2 DEF ClicksThePrimary, PressesEnter, Counts
<1>5. \/ OpensTheEditor /\ dialog \in {"legacy", "gate"}
      \/ \E steady \in BOOLEAN : SendsTheInvitation(steady)
      \/ ClosesTheDialog \/ Untouched
  <2>1. SUFFICES ASSUME NEW n \in Nat, Presses(n, n)
                 PROVE  \/ OpensTheEditor /\ dialog \in {"legacy", "gate"}
                        \/ SendsTheInvitation(n = Len(Layout(dialog)))
                        \/ ClosesTheDialog
    <3>1. \A n : (n = Len(Layout(dialog))) \in BOOLEAN
      OBVIOUS
    <3>2. QED BY <1>4, <2>1, <3>1
  <2>2. QED BY <1>1, <2>1, PressOf
<1>6. asked => draft /\ dialog \notin {"legacy", "gate"}
  BY <1>3 DEF AsCounted
<1>7. QED BY <1>5, <1>6

(***************************************************************************)
(* The steps that the invariant is about                                   *)
(***************************************************************************)

LEMMA Adding ==
  ASSUME NEW S, NEW N, NEW x \in N
  PROVE  \E e \in S \cup {[what |-> x]} : e.what \in N
<1>1. [what |-> x].what = x
  OBVIOUS
<1>2. [what |-> x] \in S \cup {[what |-> x]}
  OBVIOUS
<1>3. QED BY <1>1, <1>2, Zenon

LEMMA RequestsKeeps ==
  ASSUME IInv, Requests
  PROVE  Claims'
<1>1. /\ step' = "loads" /\ did' = {} /\ behind' = behind /\ relation' = relation
      /\ ~meddled' => behind = relation
  BY Zenon DEF Requests
<1>2. QED BY <1>1 DEF Claims, InvitedAsAsked, Swapped, NothingMeansNothing, DoneMeansDone,
    NothingYet, AsCounted, AsShown, AsDone, Inviting, Untried, Some

LEMMA LoadsTheProfileKeeps ==
  ASSUME IInv, LoadsTheProfile
  PROVE  Claims'
<1> USE DEF IInv, Claims
<1>1. /\ step = "loads" /\ dialog' = "none" /\ view' \in Loadable
      /\ step' \in {"idle", "accepts", "menu", "gates", "lists", "clicks", "opensConfirm"}
      /\ step' = "idle" => reply' \in Nothing
      /\ step' = "menu" => view' \in {"follow", "hides"}
      /\ offered' => view' \in {"connectable", "menu"}
  BY LoadOf
<1>2. /\ relation' = relation /\ behind' = behind /\ tool' = tool /\ asked' = asked
      /\ did' = did /\ misled' = misled /\ meddled' = meddled
  BY DEF LoadsTheProfile
<1>3. did = {} \/ SomeSwapped
  BY <1>1 DEF NothingYet, Untried
<1>4. ASSUME ~meddled
      PROVE  /\ behind = relation /\ view' # "menu"
             /\ view' \in {"connectable", "follow", "hides"} => relation = "none"
             /\ view' = "incoming" => relation = "incoming"
  <2>1. behind = relation /\ relation \in Relation
    BY <1>1, <1>4 DEF AsShown, InvitationTypeOK
  <2>2. QED BY <1>1, <2>1, ShownOf DEF Loadable
<1>5. InvitedAsAsked' /\ NothingMeansNothing' /\ NothingYet'
  BY <1>1, <1>2, <1>3 DEF InvitedAsAsked, Swapped, NothingMeansNothing, NothingYet, Untried,
     SomeSwapped, Swapped
<1>6. DoneMeansDone'
  BY <1>1 DEF DoneMeansDone, Nothing
<1>7. AsCounted'
  BY <1>1, Zenon DEF AsCounted
<1>8. AsShown'
  BY <1>1, <1>2, <1>4 DEF AsShown, Inviting
<1>9. AsDone'
  BY <1>1, <1>2, <1>4 DEF AsDone, Inviting
<1>10. QED BY <1>5, <1>6, <1>7, <1>8, <1>9

LEMMA ClicksAcceptKeeps ==
  ASSUME IInv, ClicksAccept
  PROVE  Claims'
<1> USE DEF IInv, Claims
<1>1. AsDone'
  <2>1. /\ step = "accepts" /\ step' \in {"idle", "verifiesAccept"} /\ meddled' = meddled
        /\ step' = "verifiesAccept" => view = "incoming"
        /\ step' = "verifiesAccept" =>
             did' = did \cup {[what |-> "accepted"]} \/ NothingDone
    BY DEF ClicksAccept, Becomes
  <2>2. step' = "verifiesAccept" /\ ~meddled =>
          (relation' = "incoming" /\ behind' = "incoming") \/ Some({"accepted"})'
    BY <2>1, Adding DEF AsShown, Some
  <2>3. QED BY <2>1, <2>2 DEF AsDone, Inviting
<1>2. InvitedAsAsked'
  BY DEF ClicksAccept, Becomes, InvitedAsAsked, Swapped
<1>3. QED BY <1>1, <1>2 DEF ClicksAccept, NothingMeansNothing, Nothing, DoneMeansDone,
    NothingYet, Untried, AsCounted, AsShown, Inviting

LEMMA OpensTheMenuKeeps ==
  ASSUME IInv, OpensTheMenu
  PROVE  Claims'
<1> USE DEF IInv, Claims
<1>1. /\ step = "menu" /\ step' = "gates" /\ relation' = relation /\ behind' = behind
      /\ did' = did /\ meddled' = meddled /\ offered' = SignalsOf(view').has_invite_anchor
      /\ view' = view \/ (view = "hides" /\ view' = "menu")
  BY DEF OpensTheMenu
<1>2. view' \in View /\ view \in {"follow", "hides", "bare", "portal"}
  BY <1>1 DEF AsShown, View, Profile
<1>3. offered' => view' \in {"connectable", "menu"}
  BY <1>1, <1>2, StateOf, Zenon
<1>4. ~meddled /\ view = "hides" => relation = "none" /\ behind = "none"
  BY <1>1 DEF AsShown
<1>5. AsDone'
  BY <1>1, <1>2, <1>3, <1>4 DEF AsDone, Inviting
<1>6. QED BY <1>5 DEF OpensTheMenu, InvitedAsAsked, Swapped, NothingMeansNothing, DoneMeansDone,
    NothingYet, Untried, AsCounted, AsShown, Inviting, SomeSwapped

LEMMA RevealsKeep ==
  ASSUME IInv, RevealsTheEditor \/ ProbesTheEditor
  PROVE  Claims'
<1> USE DEF IInv, Claims
<1> DEFINE sent == [what |-> "invited", note |-> draft, offered |-> offered,
                    steady |-> FALSE]
<1>1. \/ NothingDone
      \/ did' = did \cup {sent}
  BY RevealsOf, Zenon DEF SendsTheInvitation
<1>2. Swapped(sent) /\ sent.what = "invited"
  BY DEF Swapped
<1> HIDE DEF sent
<1>3. /\ \/ step = "reveals" /\ step' \in {"fills", "revealed", "idle"}
         \/ step = "probeClicks" /\ step' = "probed"
      /\ step' = "idle" => reply' = "error"
      /\ tool' = tool /\ asked' = asked /\ offered' = offered
      /\ misled' = misled /\ meddled' = meddled
  BY Zenon DEF RevealsTheEditor, ProbesTheEditor
<1>4. did = {} \/ SomeSwapped
  BY <1>3 DEF NothingYet, Untried
<1>5. did' = {} \/ SomeSwapped'
  BY <1>1, <1>2, <1>4 DEF SomeSwapped, Swapped
<1>6. InvitedAsAsked'
  BY <1>1, <1>2, <1>3 DEF InvitedAsAsked, Swapped
<1>7. NothingYet' /\ NothingMeansNothing' /\ DoneMeansDone'
  BY <1>3, <1>5 DEF NothingYet, Untried, NothingMeansNothing, DoneMeansDone, Nothing
<1>8. AsCounted'
  BY <1>3, Zenon DEF AsCounted
<1>9. did' = did \cup {sent} => Some({"invited"})'
  BY <1>2 DEF Some
<1>10. AsShown' /\ AsDone'
  BY <1>1, <1>3, <1>9 DEF AsShown, AsDone, Inviting, Some
<1>11. QED BY <1>6, <1>7, <1>8, <1>10

\* What a press that is to send can change.
LEMMA PressedEffect ==
  ASSUME IInv, ClicksThePrimary \/ PressesEnter
  PROVE  /\ InvitedAsAsked'
         /\ did' = did \/ (dialog' \in {"closing", "none"} /\ Some({"invited"})')
         /\ ~asked \/ (draft' /\ dialog' \in {"none", "editor", "closing", "upsell"})
         /\ ~Some({"invited"})' => relation' = relation /\ behind' = behind
         /\ did \subseteq did'
<1> USE DEF IInv, Claims
<1>1. /\ step \in {"sends", "presses"} /\ offered
      /\ tool' = tool /\ asked' = asked /\ tool = "connect"
  BY DEF ClicksThePrimary, PressesEnter, AsShown, Inviting, InvitationTypeOK, Connecting
<1>2. asked => draft /\ dialog \in {"none", "editor", "closing", "upsell"}
  BY <1>1 DEF AsCounted
<1> DEFINE sent(steady) == [what |-> "invited", note |-> draft, offered |-> offered,
                            steady |-> steady]
<1>3. \/ \E steady \in BOOLEAN :
           did' = did \cup {sent(steady)} /\ dialog' \in {"closing", "none"} /\ draft' = draft
      \/ /\ relation' = relation /\ behind' = behind /\ did' = did
         /\ asked => draft' /\ dialog' \in {"none", "editor", "closing", "upsell"}
  BY <1>2, SendsWithTheNote, Zenon
     DEF OpensTheEditor, SendsTheInvitation, ClosesTheDialog
<1>4. \A steady : /\ sent(steady).what = "invited"
                  /\ sent(steady).offered /\ (asked => sent(steady).note)
  BY <1>1, <1>2, Zenon
<1> HIDE DEF sent
<1>5. InvitedAsAsked'
  BY <1>1, <1>3, <1>4 DEF InvitedAsAsked, Swapped
<1>6. \A steady : did' = did \cup {sent(steady)} => Some({"invited"})'
  BY <1>4 DEF Some
<1>7. QED BY <1>2, <1>3, <1>5, <1>6

LEMMA ClicksThePrimaryKeeps ==
  ASSUME IInv, ClicksThePrimary
  PROVE  Claims'
<1> USE DEF IInv, Claims
<1>1. /\ step = "sends" /\ step' \in {"waits", "presses"} /\ offered' = offered
      /\ asked' = asked /\ meddled' = meddled
      /\ step' = "presses" => misled' \/ Untouched
  BY DEF ClicksThePrimary
<1>2. /\ InvitedAsAsked'
      /\ did' = did \/ (dialog' \in {"closing", "none"} /\ Some({"invited"})')
      /\ ~asked \/ (draft' /\ dialog' \in {"none", "editor", "closing", "upsell"})
      /\ ~Some({"invited"})' => relation' = relation /\ behind' = behind
      /\ did \subseteq did'
  BY PressedEffect
<1>3. did = {} \/ SomeSwapped
  BY <1>1 DEF NothingYet, Untried
<1>4. NothingMeansNothing' /\ DoneMeansDone'
  BY <1>1 DEF NothingMeansNothing, DoneMeansDone
<1>5. NothingYet'
  BY <1>1, <1>2, <1>3 DEF NothingYet, Untried, SomeSwapped, Swapped
<1>6. AsCounted'
  BY <1>1, <1>2, Zenon DEF AsCounted
<1>7. AsShown'
  BY <1>1 DEF AsShown, Inviting
<1>8. AsDone'
  BY <1>1, <1>2, <1>3 DEF AsDone, Inviting, Some
<1>9. QED BY <1>2, <1>4, <1>5, <1>6, <1>7, <1>8

LEMMA PressesEnterKeeps ==
  ASSUME IInv, PressesEnter
  PROVE  Claims'
<1> USE DEF IInv, Claims
<1>1. /\ step = "presses" /\ step' \in {"pressed", "unsent"} /\ offered' = offered
      /\ meddled' = meddled /\ (misled => misled')
      /\ step' = "unsent" => misled' \/ Untouched
  BY DEF PressesEnter
<1>2. /\ InvitedAsAsked'
      /\ did' = did \/ (dialog' \in {"closing", "none"} /\ Some({"invited"})')
      /\ ~Some({"invited"})' => relation' = relation /\ behind' = behind
      /\ did \subseteq did'
  BY PressedEffect
<1>3. did = {} \/ SomeSwapped \/ misled
  BY <1>1 DEF NothingYet
<1>4. NothingMeansNothing' /\ DoneMeansDone'
  BY <1>1 DEF NothingMeansNothing, DoneMeansDone
<1>5. NothingYet'
  BY <1>1, <1>2, <1>3 DEF NothingYet, Untried, SomeSwapped, Swapped
<1>6. AsCounted'
  BY <1>1, Zenon DEF AsCounted
<1>7. AsShown'
  BY <1>1 DEF AsShown, Inviting
<1>8. AsDone'
  BY <1>1, <1>2 DEF AsDone, Inviting, Some
<1>9. QED BY <1>2, <1>4, <1>5, <1>6, <1>7, <1>8

LEMMA SeesTheDialogClosedKeeps ==
  ASSUME IInv, SeesTheDialogClosed
  PROVE  Claims'
<1> USE DEF IInv, Claims
<1>1. /\ step = "pressed" /\ did' = did /\ dialog' = dialog /\ misled' = misled
      /\ \/ step' = "waits"
         \/ step' = "unsent" /\ dialog # "none" /\ hasty' = (dialog = "closing")
  BY Zenon DEF SeesTheDialogClosed
<1>2. NothingYet'
  BY <1>1 DEF NothingYet, Untried, SomeSwapped, Swapped
<1>3. AsCounted'
  BY <1>1, Zenon DEF AsCounted
<1>4. QED BY <1>2, <1>3 DEF SeesTheDialogClosed, InvitedAsAsked, Swapped,
    NothingMeansNothing, DoneMeansDone, AsShown, AsDone, Inviting, Some

LEMMA VerifiesKeeps ==
  ASSUME IInv, Verifies
  PROVE  Claims'
<1> USE DEF IInv, Claims
<1>1. PICK v \in Loadable :
        /\ blind' = (v # Plain(relation))
        /\ \/ step' = "settles"
           \/ step' = "idle" /\ reply' = "connected" /\ ~SignalsOf(v).has_invite_anchor
  BY DEF Verifies
<1>2. /\ step = "verifies" /\ offered /\ dialog' = "none"
      /\ did' = did /\ relation' = relation /\ behind' = behind /\ offered' = offered
      /\ meddled' = meddled /\ tool' = tool /\ asked' = asked
  BY DEF Verifies, Shows, AsShown, Inviting
<1>3. ~meddled => (relation = "none" /\ behind = "none") \/ Some({"invited"})
  BY <1>2 DEF AsDone, Inviting
<1>4. relation = "none" /\ step' = "idle" => blind'
  <2>1. v \in View /\ relation \in Relation
    BY LoadableIsViewed DEF InvitationTypeOK
  <2>2. SignalsOf(v).has_invite_anchor <=> v \in {"connectable", "menu"}
    BY <2>1, StateOf
  <2>3. relation = "none" => Plain(relation) = "connectable"
    BY <2>1, PlainOf
  <2>4. step' = "idle" => ~SignalsOf(v).has_invite_anchor
    BY <1>1
  <2>5. QED BY <1>1, <2>2, <2>3, <2>4, Zenon
<1>5. DoneMeansDone'
  BY <1>1, <1>2, <1>3, <1>4 DEF DoneMeansDone, Named, Some
<1>6. InvitedAsAsked' /\ NothingMeansNothing' /\ NothingYet' /\ AsShown' /\ AsDone'
  BY <1>1, <1>2, <1>3 DEF InvitedAsAsked, Swapped, NothingMeansNothing, Nothing, NothingYet,
     Untried, AsShown, AsDone, Inviting, Some
<1>7. AsCounted'
  BY <1>1, Zenon DEF AsCounted
<1>8. QED BY <1>5, <1>6, <1>7

LEMMA ListsTheReceivedKeeps ==
  ASSUME IInv, ListsTheReceived
  PROVE  Claims'
<1> USE DEF IInv, Claims
<1>1. /\ step = "lists" /\ did' = did /\ relation' = relation /\ behind' = behind
      /\ step' = "card" \/ (step' = "idle" /\ reply' = "not_found")
      /\ meddled' = meddled /\ tool' = tool /\ asked' = asked
  BY DEF ListsTheReceived
<1>2. step' = "card" => "incoming" \in {relation, behind}
  BY Zenon DEF ListsTheReceived, Listable
<1>3. AsShown'
  BY <1>1, <1>2 DEF AsShown, Inviting
<1>4. AsCounted'
  BY <1>1, Zenon DEF AsCounted
<1>5. QED BY <1>1, <1>3, <1>4 DEF InvitedAsAsked, Swapped, NothingMeansNothing,
    DoneMeansDone, NothingYet, Untried, AsDone, Inviting, Some, SomeSwapped

LEMMA AnswersKeep ==
  ASSUME IInv, ClicksTheRow \/ ClicksTheCard
  PROVE  Claims'
<1> USE DEF IInv, Claims
<1>1. /\ step \in {"clicks", "card"} /\ step' \in {"polls", "relists", "idle"}
      /\ step' = "idle" => reply' = "action_unavailable"
      /\ meddled' = meddled /\ tool' = tool /\ asked' = asked
      /\ tool \in {"accept", "ignore"} /\ Success' = Success
  BY DEF ClicksTheRow, ClicksTheCard, InvitationTypeOK, Answering, Success
<1>2. step' \in {"polls", "relists"} =>
        \/ DoesAsAsked
        \/ relation' = relation /\ did' = did \cup {[what |-> "stray"]}
  BY DEF ClicksTheRow, ClicksTheCard
<1>3. step' \in {"polls", "relists"} /\ ~meddled =>
        relation' = "incoming" \/ Some({Success})'
  <2>1. SUFFICES ASSUME step' \in {"polls", "relists"}, ~meddled
                 PROVE  relation' = "incoming" \/ \E e \in did' : e.what \in {Success}
    BY <1>1 DEF Some
  <2>2. relation = "incoming"
    BY <1>1, <2>1 DEF AsShown, ClicksTheRow, ClicksTheCard
  <2>3. relation' = relation \/ did' = did \cup {[what |-> Success]}
    BY <1>2, <2>1 DEF DoesAsAsked, Becomes
  <2>4. QED BY <2>2, <2>3, Adding
<1>4. AsDone'
  BY <1>1, <1>3 DEF AsDone, Inviting
<1>5. InvitedAsAsked'
  BY <1>1 DEF InvitedAsAsked, InvitationTypeOK, ClicksTheRow, ClicksTheCard, DoesAsAsked,
     Becomes, Success
<1>6. AsCounted'
  BY <1>1, Zenon DEF AsCounted
<1>7. QED BY <1>1, <1>4, <1>5, <1>6 DEF NothingMeansNothing, Nothing, DoneMeansDone,
    NothingYet, Untried, AsShown, Inviting

LEMMA ConfirmsTheWithdrawalKeeps ==
  ASSUME IInv, ConfirmsTheWithdrawal
  PROVE  Claims'
<1> USE DEF IInv, Claims
<1>1. /\ step = "confirms" /\ step' \in {"checks", "confirms", "idle"}
      /\ step' = "idle" => reply' = "action_unavailable"
      /\ step' = "confirms" => dialog' = "none"
      /\ meddled' = meddled /\ tool' = tool /\ asked' = asked
  BY DEF ConfirmsTheWithdrawal
<1>2. step' = "checks" /\ ~meddled => relation' = "outgoing" \/ Some({"withdrawn"})'
  <2>1. SUFFICES ASSUME step' = "checks", ~meddled
                 PROVE  relation' = "outgoing" \/ Some({"withdrawn"})'
    OBVIOUS
  <2>2. relation' = relation \/ did' = did \cup {[what |-> "withdrawn"]}
    BY <2>1 DEF ConfirmsTheWithdrawal, Becomes
  <2>3. relation = "outgoing"
    BY <1>1, <2>1 DEF AsShown, ConfirmsTheWithdrawal
  <2>4. QED BY <2>2, <2>3, Adding DEF Some
<1>3. AsDone'
  BY <1>1, <1>2 DEF AsDone, Inviting
<1>4. InvitedAsAsked'
  BY <1>1 DEF InvitedAsAsked, ConfirmsTheWithdrawal, Becomes
<1>5. AsCounted'
  BY <1>1, Zenon DEF AsCounted
<1>6. QED BY <1>1, <1>3, <1>4, <1>5 DEF NothingMeansNothing, Nothing, DoneMeansDone,
    NothingYet, Untried, AsShown, Inviting

LEMMA DialogChangesKeeps ==
  ASSUME IInv, DialogChanges
  PROVE  Claims'
<1> USE DEF IInv, Claims
<1>1. /\ relation' = relation /\ behind' = behind /\ view' = view /\ draft' = draft
      /\ step' = step /\ tool' = tool /\ asked' = asked /\ offered' = offered
      /\ counted' = counted /\ reply' = reply
      /\ did' = did /\ misled' = misled /\ hasty' = hasty /\ blind' = blind
      /\ meddled' = meddled
  BY DEF DialogChanges
<1>2. dialog' \in (CASE dialog = "legacy" -> {"gate", "editor", "upsell", "none"}
                    [] dialog = "gate" -> {"editor", "upsell", "none"}
                    [] dialog = "editor" -> {"upsell", "none"}
                    [] dialog = "mounting" -> {"editor", "upsell", "none"}
                    [] dialog \in {"closing", "upsell", "confirm"} -> {"none"}
                    [] dialog = "none" -> {})
      /\ dialog \in Dialog
  BY DEF DialogChanges, InvitationTypeOK
<1>3. \/ dialog' = "none"
      \/ dialog' \in {"upsell", "editor"} /\ dialog \notin {"none", "closing", "confirm", "upsell"}
      \/ dialog' = "gate" /\ dialog = "legacy"
  BY <1>2 DEF Dialog
<1>4. AsCounted'
  BY <1>1, <1>3 DEF AsCounted
<1>5. NothingYet' /\ AsShown'
  BY <1>1, <1>3 DEF NothingYet, SomeSwapped, Swapped, AsShown
<1>6. InvitedAsAsked' /\ NothingMeansNothing' /\ DoneMeansDone' /\ AsDone'
  BY <1>1, Zenon DEF InvitedAsAsked, Swapped, NothingMeansNothing, DoneMeansDone, AsDone,
     Some, Named,
     Success
<1>7. QED BY <1>4, <1>5, <1>6

\* The probe goes on to click only in the dialog of three buttons.
LEMMA ProbesCount ==
  ASSUME Probes, dialog \in {"none", "legacy", "gate", "editor", "upsell"}
  PROVE  step' = "probeClicks" => counted' = 3 /\ dialog' = "legacy"
<1>1. counted' = Len(Layout(dialog))
  BY DEF Probes, Counts
<1>2. step' = "probeClicks" => dialog' = dialog /\ Len(Layout(dialog)) >= 3
  BY Zenon DEF Probes
<1>3. /\ Len(Layout("legacy")) = 3 /\ Len(Layout("gate")) = 2
      /\ Len(Layout("editor")) = 2 /\ Len(Layout("upsell")) = 1 /\ Len(Layout("none")) = 0
  BY LayoutOf
<1>4. dialog # "legacy" => Len(Layout(dialog)) \in {0, 1, 2}
  BY <1>3, Zenon
<1>5. Len(Layout(dialog)) >= 3 => dialog = "legacy"
  <2>1. \A n \in {0, 1, 2} : ~(n >= 3)
    OBVIOUS
  <2>2. QED BY <1>4, <2>1, Zenon
<1>6. QED BY <1>1, <1>2, <1>3, <1>5

\* What the page or the list says at the end of an answer or a withdrawal.
LEMMA ChecksKeep ==
  ASSUME IInv, PollsTheProfile \/ ListsAgain \/ ChecksThePending
  PROVE  Claims'
<1> USE DEF IInv, Claims
<1>1. /\ step \in {"polls", "relists", "checks"} /\ step' = "idle"
      /\ tool' = tool /\ asked' = asked /\ offered' = offered /\ did' = did
      /\ relation' = relation /\ behind' = behind /\ meddled' = meddled
      /\ reply' \in {"verification_failed", "accepted", "ignored", "withdrawn"}
  BY DEF PollsTheProfile, ListsAgain, ChecksThePending, ReRenders, Success
<1>2. CASE PollsTheProfile
  <2>1. PICK v \in ReRendered :
          /\ ReRenders(v) /\ step = "polls"
          /\ reply' = IF State(v) = "incoming_request" THEN "verification_failed"
                       ELSE Success
    BY <1>2 DEF PollsTheProfile
  <2>2. v \in View /\ relation \in Relation /\ tool \in {"accept", "ignore"}
    BY <2>1, ReRenderedIsViewed DEF InvitationTypeOK, Answering
  <2>3. State(v) = "incoming_request" <=> v = "incoming"
    BY <2>2, StateOf
  <2>4. relation = "incoming" => Plain(relation) = "incoming"
    BY <2>2, PlainOf
  <2>5. reply' # "verification_failed" /\ relation = "incoming" => blind'
    BY <2>1, <2>3, <2>4 DEF ReRenders
  <2>6. ~meddled => relation = "incoming" \/ \E e \in did : e.what = Success
    BY <2>1 DEF AsDone, Some
  <2>7. reply' = "verification_failed" \/ (reply' = Success /\ Named' = Success)
    BY <2>1, <2>2 DEF Named, Success
  <2>8. QED BY <1>1, <2>2, <2>5, <2>6, <2>7 DEF DoneMeansDone, InvitedAsAsked, Swapped,
      NothingMeansNothing, Nothing, NothingYet, Untried, AsCounted, AsShown, AsDone, Inviting
<1>3. CASE ListsAgain
  <2>1. /\ step = "relists" /\ tool \in {"accept", "ignore"}
        /\ \/ reply' = "verification_failed"
           \/ reply' = Success /\ (relation = "incoming" => blind')
    BY <1>3 DEF ListsAgain, InvitationTypeOK, Answering
  <2>2. ~meddled => relation = "incoming" \/ \E e \in did : e.what = Success
    BY <2>1 DEF AsDone, Some
  <2>3. reply' = "verification_failed" \/ (reply' = Success /\ Named' = Success)
    BY <2>1 DEF Named, Success
  <2>4. QED BY <1>1, <2>1, <2>2, <2>3 DEF DoneMeansDone, InvitedAsAsked, Swapped,
      NothingMeansNothing, Nothing, NothingYet, Untried, AsCounted, AsShown, AsDone, Inviting
<1>4. CASE ChecksThePending
  <2>1. PICK v \in ReRendered :
          /\ ReRenders(v) /\ step = "checks"
          /\ reply' = IF State(v) = "pending" THEN "verification_failed" ELSE "withdrawn"
    BY <1>4 DEF ChecksThePending
  <2>2. v \in View /\ relation \in Relation /\ tool = "withdraw"
    BY <2>1, ReRenderedIsViewed DEF InvitationTypeOK, Withdrawing
  <2>3. State(v) = "pending" <=> v = "pending"
    BY <2>2, StateOf
  <2>4. relation = "outgoing" => Plain(relation) = "pending"
    BY <2>2, PlainOf
  <2>5. reply' # "verification_failed" /\ relation = "outgoing" => blind'
    BY <2>1, <2>3, <2>4 DEF ReRenders
  <2>6. ~meddled => relation = "outgoing" \/ \E e \in did : e.what = "withdrawn"
    BY <2>1 DEF AsDone, Some
  <2>7. reply' = "verification_failed" \/ (reply' = "withdrawn" /\ Named' = "withdrawn")
    BY <2>1 DEF Named
  <2>8. QED BY <1>1, <2>2, <2>5, <2>6, <2>7 DEF DoneMeansDone, InvitedAsAsked, Swapped,
      NothingMeansNothing, Nothing, NothingYet, Untried, AsCounted, AsShown, AsDone, Inviting
<1>5. QED BY <1>2, <1>3, <1>4

LEMMA OthersKeep ==
  ASSUME IInv, InvitationTypeOK', [InvitationNext]_invitationVars,
         ~(RevealsTheEditor \/ ProbesTheEditor), ~Requests, ~LoadsTheProfile, ~ClicksAccept,
         ~OpensTheMenu, ~ClicksThePrimary, ~PressesEnter, ~SeesTheDialogClosed, ~Verifies,
         ~ListsTheReceived, ~(ClicksTheRow \/ ClicksTheCard), ~ConfirmsTheWithdrawal,
         ~DialogChanges
  PROVE  Claims'
<1> USE DEF IInv, Claims, InvitedAsAsked, NothingMeansNothing, DoneMeansDone, Named, Nothing,
        NothingYet, Untried, AsCounted, AsShown, AsDone, Inviting, Some, SomeSwapped, Swapped,
        InvitationTypeOK
<1>1. CASE VerifiesAccept
  BY <1>1, StateOf, ShownOf, LoadableIsViewed, SMTT(30) DEF VerifiesAccept, Shows,
    Loadable
<1>2. CASE Gates
  BY <1>2, SMTT(30) DEF Gates
<1>3. CASE NavigatesToTheInvitation
  BY <1>3, SMTT(30) DEF NavigatesToTheInvitation
<1>4. CASE SubmitsTheDialog
  BY <1>4, LayoutOf, SMTT(30) DEF SubmitsTheDialog, Counts
<1>5. CASE AwaitsTheEditor
  BY <1>5, SMTT(30) DEF AwaitsTheEditor
<1>6. CASE FillsTheNote
  BY <1>6, SMTT(30) DEF FillsTheNote, Counts
<1>7. CASE IsNotFilled
  BY <1>7, SMTT(30) DEF IsNotFilled
<1>8. CASE IsNotSent
  BY <1>8, SMTT(30) DEF IsNotSent
<1>9. CASE AwaitsTheClosing
  BY <1>9, SMTT(30) DEF AwaitsTheClosing
<1>10. CASE Settles
  BY <1>10, StateOf, ShownOf, LoadableIsViewed, SMTT(30) DEF Settles, Shows,
    Loadable
<1>11. CASE Probes
  <2>1. /\ step = "probes" /\ step' \in {"idle", "probeClicks", "probed"}
        /\ relation' = relation /\ behind' = behind /\ did' = did /\ tool' = tool
        /\ asked' = asked /\ offered' = offered /\ meddled' = meddled
        /\ step' = "idle" => reply' \in {"connect_unavailable", "custom_note_limit_reached"}
    BY <1>11, Zenon DEF Probes
  <2>2. step' = "probeClicks" => counted' = 3 /\ dialog' = "legacy"
    BY <1>11, <2>1, ProbesCount
  <2>3. AsCounted'
    BY <2>1, <2>2, Zenon
  <2>4. QED BY <2>1, <2>3
<1>12. CASE AnswersTheProbe
  BY <1>12, SMTT(30) DEF AnswersTheProbe
<1>13. CASE PollsTheProfile \/ ListsAgain \/ ChecksThePending
  BY <1>13, ChecksKeep
<1>15. CASE ClicksPending
  BY <1>15, SMTT(30) DEF ClicksPending
<1>17. CASE Fails
  BY <1>17, SMTT(30) DEF Fails
<1>18. CASE TheMemberActs
  BY <1>18, SMTT(30) DEF TheMemberActs, Turn
<1>19. CASE PagesCatchUp
  BY <1>19, SMTT(30) DEF PagesCatchUp, Success
<1>20. CASE PageIsTaken
  BY <1>20, SMTT(30) DEF PageIsTaken, Success
<1>21. CASE UNCHANGED invitationVars
  BY <1>21, SMTT(30) DEF invitationVars, Success
<1>22. QED BY <1>1, <1>2, <1>3, <1>4, <1>5, <1>6, <1>7, <1>8, <1>9, <1>10, <1>11,
    <1>12, <1>13, <1>15, <1>17, <1>18, <1>19, <1>20, <1>21
    DEF InvitationNext, Connects, Responds

(***************************************************************************)
(* The theorems                                                            *)
(***************************************************************************)

LEMMA InitKeeps == InvitationInit => IInv
<1>1. InvitationInit => Claims
  BY DEF InvitationInit, Claims, InvitedAsAsked, Swapped, NothingMeansNothing, Nothing, DoneMeansDone,
     NothingYet, AsCounted, AsShown, AsDone, Untried, Inviting, Some
<1>2. QED BY <1>1, InitTyped DEF IInv

LEMMA NextKeeps == IInv /\ [InvitationNext]_invitationVars => IInv'
<1> SUFFICES ASSUME IInv, [InvitationNext]_invitationVars PROVE IInv'
  OBVIOUS
<1>1. InvitationTypeOK'
  BY TypeKept DEF IInv
<1>2. Claims'
  BY <1>1, OthersKeep, RevealsKeep, RequestsKeeps, LoadsTheProfileKeeps, ClicksAcceptKeeps,
     OpensTheMenuKeeps, ClicksThePrimaryKeeps, PressesEnterKeeps, SeesTheDialogClosedKeeps,
     VerifiesKeeps, ListsTheReceivedKeeps, AnswersKeep, ConfirmsTheWithdrawalKeeps,
     DialogChangesKeeps
<1>3. QED BY <1>1, <1>2 DEF IInv

\* At every step of a call to connect, to answer or to withdraw, the dialog is one its
\* count still fits, and what the call has done is what its step says.
THEOREM KeptAlways == InvitationSpec => []IInv
BY InitKeeps, NextKeeps, PTL DEF InvitationSpec

\* Every variable of a call keeps its type, and each step belongs to its tool.
THEOREM InvitationsTyped == InvitationSpec => []InvitationTypeOK
<1>1. IInv => InvitationTypeOK
  BY DEF IInv
<1>2. QED BY <1>1, KeptAlways, PTL

\* _submit_invite_dialog() sends only where the anchor was offered, and never without
\* the note it was given, and _probe_invite_note_limit() sends nothing, unless the
\* dialog loses a button between the count and the press.
THEOREM InvitesAsAsked == InvitationSpec => []InvitedAsAsked
<1>1. IInv => InvitedAsAsked
  BY DEF IInv, Claims
<1>2. QED BY <1>1, KeptAlways, PTL

\* The status of connect_with_person() and act_on_invitation() is true, whichever of
\* their steps fail, although LinkedIn refuses or loses what they ask for, however
\* late its pages are: but for a click reported failed that landed, a closing dialog
\* taken for one that stays, and evidence that does not plainly show the relation.
THEOREM StatusesAreTrue == InvitationSpec => []StatusIsTrue
<1>1. IInv => StatusIsTrue
  BY DEF IInv, Claims, StatusIsTrue
<1>2. QED BY <1>1, KeptAlways, PTL

================================================================================
