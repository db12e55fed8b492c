------------------------- MODULE MCFeedPushDelivery -------------------------
(* Small instances of FeedPushDelivery: one student; d1 is an urgent       *)
(* library reminder with a deadline, d2 a grade notification.              *)
EXTENDS FeedPushDelivery, TLC

CONSTANTS d1, d2, s1, p1, p2, c1, c2, c3

MCOwner  == [d \in Deliveries |-> s1]
MCTypeOf == [d \in Deliveries |-> IF d = d1 THEN "library" ELSE "grade"]

(* Processes and identifiers are interchangeable. *)
MCSymmetry == Permutations(CIDs) \cup Permutations(Procs)

=============================================================================
