----------------------------- MODULE MCClassTable -----------------------------
EXTENDS ClassTable

CONSTANTS c1, c2, a1, a2

(* The second class meets the first and takes a section more. *)
MCSlotsOf == [c \in Classes |-> IF c = c1 THEN {1} ELSE {1, 2}]
=============================================================================
