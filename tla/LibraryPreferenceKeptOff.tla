---------------------- MODULE LibraryPreferenceKeptOff ----------------------
(***************************************************************************)
(* LibraryPreferenceSync with a memory: the students whose last saved      *)
(* settings left the library preference off.                               *)
(***************************************************************************)
EXTENDS LibraryPreferenceSync

VARIABLE keptOff

KeptInit == Init /\ keptOff = {}

(* Every time a student saves the settings, the result is remembered. *)
Saves(s) == \E choice \in {"on", "off", "omitted"} : ChangeConfigBits(s, choice)

Remember ==
  keptOff' = {s \in Students : IF Saves(s) THEN ~LibraryOn(s)' ELSE s \in keptOff}

KeptNext == Feed /\ Remember

KeptSpec == KeptInit /\ [][KeptNext]_<<vars, keptOff>>

(* Settings saved with the library preference off have it off until the    *)
(* student saves them again: repository/dao/userFeedConfig.go brings a     *)
(* soft-deleted row back from "all off" so that a preference the student   *)
(* did not send is not revived.                                            *)
SavedOffStaysOff == \A s \in keptOff : ~LibraryOn(s)

=============================================================================
