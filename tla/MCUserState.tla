----------------------------- MODULE MCUserState -----------------------------
(* What is kept of a user beside the timetable and the grades: the refresh  *)
(* counter, the account with its credentials, the sessions and the record   *)
(* of active days.  The components do not interact; a behaviour runs one of *)
(* them, chosen at the start, and leaves the others as they began.          *)
EXTENDS CounterRefresh, UserCredentials, ActivityDays, LoginSessions

VARIABLE part

userVars == <<counterVars, credentialVars, activityVars, sessionVars, part>>

(* calcVariation of the configured rates, for the scores of this instance. *)
MCDecay == [n \in 1 .. 9 |-> IF n <= 4 THEN 1 ELSE IF n <= 7 THEN 2 ELSE 3]
MCBoost == [n \in 1 .. 9 |-> IF n = 1 THEN 1 ELSE IF n <= 3 THEN 2 ELSE IF n <= 6 THEN 3 ELSE 4]
MCLevelOf == [r \in Runs |-> "high"]

MCInit ==
  /\ CounterInit /\ CredentialInit /\ ActivityInit /\ SessionInit
  /\ part \in {"counter", "account", "activity", "sessions"}

MCNext ==
  /\ UNCHANGED part
  /\ \/ /\ part = "counter" /\ CounterNext
        /\ UNCHANGED <<credentialVars, activityVars, sessionVars>>
     \/ /\ part = "account" /\ CredentialNext
        /\ UNCHANGED <<counterVars, activityVars, sessionVars>>
     \/ /\ part = "activity" /\ ActivityNext
        /\ UNCHANGED <<counterVars, credentialVars, sessionVars>>
     \/ /\ part = "sessions" /\ SessionNext
        /\ UNCHANGED <<counterVars, credentialVars, activityVars>>

\* Bound: of the midnights and marks of the counter two, a new password or a
\* second credential, and losses on two days or on all of them at once.
MCBound ==
  /\ midnights + marks <= 2
  /\ schoolPassword + issued <= 3
  /\ Cardinality({d \in Days : losses[d] > 0}) \in {0, 1, 2, MaxDay + 1}

MCSpec == MCInit /\ [][MCNext]_userVars
=============================================================================
