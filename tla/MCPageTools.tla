------------------------------ MODULE MCPageTools ------------------------------
(***************************************************************************)
(* The two tools that write through LinkedIn's pages, for TLC.  Calls take *)
(* turns at the browser and each loads its page anew, so that what one     *)
(* leaves behind is nothing to the other: a behaviour is one of either.    *)
(***************************************************************************)
EXTENDS SendMessage, Invitations

VARIABLE used \* the tools that are called

pageVars == <<used, vars, invitationVars>>

PageInit ==
  /\ Init /\ InvitationInit
  /\ used \in {"messages", "invitations"}
  /\ (used = "messages" => relation = "none")

PageNext ==
  /\ UNCHANGED used
  /\ \/ used = "messages" /\ Next /\ UNCHANGED invitationVars
     \/ used = "invitations" /\ InvitationNext /\ UNCHANGED vars

PageSpec == PageInit /\ [][PageNext]_pageVars

================================================================================
