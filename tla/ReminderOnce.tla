----------------------------- MODULE ReminderOnce -----------------------------
(***************************************************************************)
(* What be-library promises about a reminder, whatever becomes of the      *)
(* processes, claims and calls behind it.  A reminder waits for its time,  *)
(* and may be called off and scheduled again as long as it waits.  Once it *)
(* is ready to be sent it is never scheduled again: the student is told,   *)
(* or it is dropped.  The feed hears of it only then, and it counts as     *)
(* told only if the feed has heard of it.                                  *)
(***************************************************************************)
CONSTANT Reminders

VARIABLES
  stage,  \* stage[r]: how far the reminder has come
  heard   \* the reminders the feed has accepted

vars == <<stage, heard>>

Stage == {"none", "waiting", "off", "ready", "told", "dropped", "forgotten"}

Init ==
  /\ stage = [r \in Reminders |-> "none"]
  /\ heard = {}

Moves(R, from, to) ==
  /\ \A r \in R : stage[r] \in from
  /\ stage' = [r \in Reminders |-> IF r \in R THEN to ELSE stage[r]]
  /\ UNCHANGED heard

Schedule(r) == Moves({r}, {"none", "off"}, "waiting")

Prepare(r)  == Moves({r}, {"waiting"}, "ready")

(* Reminders that wait are off, those that are ready are dropped. *)
CallOff(R) ==
  /\ \A r \in R : stage[r] \in {"waiting", "ready"}
  /\ stage' = [r \in Reminders |-> IF r \notin R THEN stage[r]
                                   ELSE IF stage[r] = "waiting" THEN "off" ELSE "dropped"]
  /\ UNCHANGED heard

(* The answer may be lost, or the reminder dropped while the call is       *)
(* under way: the feed may hear again, and of a dropped one.               *)
Hear(r) ==
  /\ stage[r] \in {"ready", "dropped"}
  /\ heard' = heard \cup {r}
  /\ UNCHANGED stage

Tell(r) == r \in heard /\ Moves({r}, {"ready"}, "told")

Forget(R) == Moves(R, {"off", "told", "dropped"}, "forgotten")

Next ==
  \/ \E r \in Reminders : Schedule(r) \/ Prepare(r) \/ Hear(r) \/ Tell(r)
  \/ \E R \in SUBSET Reminders : CallOff(R) \/ Forget(R)

Spec == Init /\ [][Next]_vars
=============================================================================
