--------------------- MODULE MCLibraryPreferenceKeptOff ---------------------
(* A small instance of LibraryPreferenceKeptOff. *)
EXTENDS LibraryPreferenceKeptOff, TLC

CONSTANTS s1, s2

MCId == [s \in Students |-> IF s = s1 THEN 1 ELSE 2]

=============================================================================
