----------------------------- MODULE PushOutbox -----------------------------
(***************************************************************************)
(* What be-feed promises about the push of one stored notification,        *)
(* whatever the number of dispatching processes, retries and crashes:      *)
(* a stored delivery stays open until it is settled once and for all as    *)
(* sent, failed or suppressed; the push vendor shows it at most once; and  *)
(* it is settled as sent only after it was shown.                          *)
(*                                                                         *)
(* FeedPushDelivery implements this specification (Outbox!Spec there).     *)
(***************************************************************************)
EXTENDS Naturals

CONSTANT Deliveries   \* the deliveries the feed may ever store

VARIABLES
  state,              \* state[d]: where delivery d stands
  shown               \* shown[d]: how many notifications its device showed

Open  == "open"
Final == {"sent", "failed", "suppressed"}

Init ==
  /\ state = [d \in Deliveries |-> "absent"]
  /\ shown = [d \in Deliveries |-> 0]

(* Deliveries stored by one transaction become open together. *)
Enqueue(D) ==
  /\ D # {}
  /\ \A d \in D : state[d] = "absent"
  /\ state' = [d \in Deliveries |-> IF d \in D THEN Open ELSE state[d]]
  /\ UNCHANGED shown

(* The device shows an open delivery, once. *)
Show(d) ==
  /\ state[d] = Open
  /\ shown[d] = 0
  /\ shown' = [shown EXCEPT ![d] = 1]
  /\ UNCHANGED state

(* Only a delivery that was shown may be settled as sent. *)
Sent(d) ==
  /\ state[d] = Open
  /\ shown[d] = 1
  /\ state' = [state EXCEPT ![d] = "sent"]
  /\ UNCHANGED shown

Fail(d) ==
  /\ state[d] = Open
  /\ state' = [state EXCEPT ![d] = "failed"]
  /\ UNCHANGED shown

(* One preference change suppresses all open deliveries it closes. *)
Suppress(D) ==
  /\ D # {}
  /\ \A d \in D : state[d] = Open
  /\ state' = [d \in Deliveries |-> IF d \in D THEN "suppressed" ELSE state[d]]
  /\ UNCHANGED shown

Next ==
  \/ \E D \in SUBSET Deliveries : Enqueue(D) \/ Suppress(D)
  \/ \E d \in Deliveries : Show(d) \/ Sent(d) \/ Fail(d)

Spec == Init /\ [][Next]_<<state, shown>>

=============================================================================
