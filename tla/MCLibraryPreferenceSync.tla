---------------------- MODULE MCLibraryPreferenceSync ----------------------
(* A small instance of LibraryPreferenceSync, with team invitations        *)
(* enabled and without, as decided at the start of a behaviour.            *)
EXTENDS LibraryPreferenceSync

CONSTANTS s1, s2

(* The students in the order of their primary keys. *)
MCId == [s \in Students |-> IF s = s1 THEN 1 ELSE 2]

VARIABLE inviting

Inviting == INSTANCE LibraryPreferenceSync WITH Invitation <- TRUE

MCVars == <<vars, inviting>>

MCInit == Init /\ inviting \in BOOLEAN

MCNext ==
  /\ UNCHANGED inviting
  /\ \/ inviting /\ Inviting!Next
     \/ ~inviting /\ Next

(* FairSpec, of the instance that was chosen. *)
MCSpec ==
  /\ MCInit /\ [][MCNext]_MCVars
  /\ WF_vars(\E s \in Students : MigrateInitialLibraryPreference(s))
  /\ WF_vars(FeedStarts)
  /\ WF_vars(ServiceStarts)
  /\ WF_vars((inviting /\ Inviting!SyncPreferences) \/ (~inviting /\ SyncPreferences))
  /\ SF_vars(CalibratePreferences)
  /\ WF_vars((inviting /\ Inviting!Steps) \/ (~inviting /\ Steps))
  /\ <>[][~Outage]_vars
=============================================================================
