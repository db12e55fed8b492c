------------------------------ MODULE MCToldOnce ------------------------------
(* What a student must be told at most once although several processes work    *)
(* at it, some of them longer than they should: a push of be-feed, the         *)
(* invitations to teams and the news of teams of be-library.  The components   *)
(* do not interact; a behaviour runs one of them, chosen at the start.         *)
EXTENDS MCFeedPushDelivery, TeamInvitations, TeamSuccess

VARIABLE part

toldVars == <<vars, invitationVars, successVars, part>>

MCInit ==
  /\ Init /\ InvitationInit /\ SuccessInit
  /\ part \in {"push", "invitations", "successes"}
  /\ part = "push" \/ \A s \in Students : config[s].kind = "missing"

MCNext ==
  /\ UNCHANGED part
  /\ \/ part = "push" /\ Next /\ UNCHANGED <<invitationVars, successVars>>
     \/ part = "invitations" /\ InvitationNext /\ UNCHANGED <<vars, successVars>>
     \/ part = "successes" /\ SuccessNext /\ UNCHANGED <<vars, invitationVars>>

\* Bound: of the changes of preferences and the midnight between invitations,
\* two.
MCBound == day + subscription[1].version + subscription[2].version <= 2

MCSpec == MCInit /\ [][MCNext]_toldVars
=============================================================================
