------------------------ MODULE LibraryAwayReminders -------------------------
(***************************************************************************)
(* The reminders be-library sends a student who has been away from a       *)
(* reserved seat for too long: one student, one reservation.               *)
(*                                                                         *)
(* A scan observes the seat and keeps an episode per absence; an open      *)
(* episode schedules a job.  A dispatcher claims due jobs, looks at the    *)
(* seat again and completes the job into a row of an outbox; a sender      *)
(* claims outbox rows, looks once more and publishes to be-feed.  Both     *)
(* claim by compare-and-set: a job by its version, an outbox row by its    *)
(* attempts.  Scan, dispatcher, sender, the recovery of stale claims, the  *)
(* student and the preference run concurrently; calls fail or lose their   *)
(* answer; the one process crashes and restarts.                           *)
(*                                                                         *)
(* The job and the outbox row of episode e carry the same key, which be-   *)
(* feed takes for the dedupe key of the event.                             *)
(***************************************************************************)
EXTENDS Integers, FiniteSets

CONSTANTS
  RetryMaxAttempts,
  MaxEpisode,   \* bound: episodes of the reservation
  MaxVersion,   \* bound: preference versions
  MaxLeaves,    \* bound: how often the student leaves the seat
  MaxFaults     \* bound: failed and unanswered calls, crashes, overruns

ASSUME ConstantsAssumption ==
  /\ RetryMaxAttempts \in Nat \ {0}
  /\ MaxEpisode \in Nat
  /\ MaxVersion \in Nat
  /\ MaxLeaves \in Nat
  /\ MaxFaults \in Nat

VARIABLES
  (* the seat: absence, absences so far, is the reservation over? *)
  away, leaves, over,
  (* be-library's database: the subscription, the latest episode, jobs and *)
  (* outbox rows by episode, the rows whose next attempt is due            *)
  sub, episode, job, outbox, dueJobs, dueOutbox,
  (* its process: is it up, DispatchJobs and its workers, SendOutbox and   *)
  (* the rows it works on, the active scan                                 *)
  up, dispatching, dispatcher, sending, sender, scan,
  (* be-feed: Publish calls per key, keys put on Kafka, keys stored *)
  calls, accepted, stored,
  faults

worldVars == <<away, leaves, over>>
rowVars   == <<job, outbox, dueJobs, dueOutbox>>
dbVars    == <<sub, episode, rowVars>>
sendVars  == <<sending, sender>>
jobVars   == <<dispatching, dispatcher>>
procVars  == <<up, jobVars, sendVars, scan>>
feedVars  == <<calls, accepted, stored>>
vars == <<worldVars, dbVars, procVars, feedVars, faults>>

Episodes == 1..MaxEpisode

(* NotificationJob.  "disabled" is suppressed with the reason "feature     *)
(* disabled"; "deleted" is a row CleanupHistory has removed.               *)
JobStatus == {"none", "pending", "running", "done", "cancelled", "suppressed",
              "disabled", "deleted"}
Job    == [status : JobStatus, version : Nat, attempts : Nat, pv : Nat]
NoJob  == [status |-> "none", version |-> 0, attempts |-> 0, pv |-> 0]

(* NotificationOutbox *)
OutboxStatus == {"none", "pending", "sending", "sent", "failed", "suppressed", "deleted"}
Outbox   == [status : OutboxStatus, attempts : Nat, pv : Nat]
NoOutbox == [status |-> "none", attempts |-> 0, pv |-> 0]

(* A worker of DispatchJobs with its copy of the row, and one of SendOutbox. *)
DispatchStep == {"none", "listed", "claimed", "checked", "end", "suppress", "retry",
                 "postpone", "complete", "release"}
Dispatcher   == [pc : DispatchStep, version : Nat, attempts : Nat, pv : Nat]
NoDispatcher == [pc |-> "none", version |-> 0, attempts |-> 0, pv |-> 0]
SendStep     == {"none", "claimed", "checked", "end", "suppress", "observed", "publish",
                 "sent", "refused", "fail"}
Sender       == [pc : SendStep, attempts : Nat, pv : Nat]
NoSender     == [pc |-> "none", attempts |-> 0, pv |-> 0]

(* What GetCurrentReservation says of the seat. *)
Observations == {"ended", "no", "early", "long"}
NoScan       == [seen |-> "none", pv |-> 0]

TypeOK ==
  /\ away \in {"no", "early", "long"}
  /\ leaves \in Nat
  /\ over \in BOOLEAN
  /\ sub \in [enabled : BOOLEAN, version : Nat]
  /\ episode \in [version : 0..MaxEpisode, open : BOOLEAN]
  /\ job \in [Episodes -> Job]
  /\ outbox \in [Episodes -> Outbox]
  /\ dueJobs \in SUBSET Episodes
  /\ dueOutbox \in SUBSET Episodes
  /\ up \in BOOLEAN
  /\ dispatching \in {"idle", "list", "work"}
  /\ dispatcher \in [Episodes -> Dispatcher]
  /\ sending \in {"idle", "claim", "work"}
  /\ sender \in [Episodes -> Sender]
  /\ scan \in [seen : Observations \cup {"none"}, pv : Nat]
  /\ calls \in [Episodes -> Nat]
  /\ accepted \in SUBSET Episodes
  /\ stored \in SUBSET accepted
  /\ faults \in Nat

Init ==
  /\ away = "no" /\ leaves = 0 /\ over = FALSE
  /\ sub \in [enabled : BOOLEAN, version : {1}]
  /\ episode = [version |-> 0, open |-> FALSE]
  /\ job = [e \in Episodes |-> NoJob]
  /\ outbox = [e \in Episodes |-> NoOutbox]
  /\ dueJobs = {} /\ dueOutbox = {}
  /\ up = FALSE
  /\ dispatching = "idle" /\ dispatcher = [e \in Episodes |-> NoDispatcher]
  /\ sending = "idle" /\ sender = [e \in Episodes |-> NoSender]
  /\ scan = NoScan
  /\ calls = [e \in Episodes |-> 0] /\ accepted = {} /\ stored = {}
  /\ faults = 0

-----------------------------------------------------------------------------
(* Calls *)

Fault == faults < MaxFaults /\ faults' = faults + 1

(* An update that only takes effect if can: it is applied and answered, it *)
(* is answered that no row matched, or there is no answer.                 *)
Update(can, applied, answered) ==
  /\ applied => can
  /\ answered /\ can => applied
  /\ IF answered THEN UNCHANGED faults ELSE Fault

-----------------------------------------------------------------------------
(* The seat and the clock *)

Leave ==
  /\ ~over /\ away = "no" /\ leaves < MaxLeaves
  /\ away' = "early" /\ leaves' = leaves + 1
  /\ UNCHANGED <<over, dbVars, procVars, feedVars, faults>>

AbsenceGrows ==
  /\ away = "early"
  /\ away' = "long"
  /\ UNCHANGED <<leaves, over, dbVars, procVars, feedVars, faults>>

Return ==
  /\ away # "no"
  /\ away' = "no"
  /\ UNCHANGED <<leaves, over, dbVars, procVars, feedVars, faults>>

ReservationEnds ==
  /\ ~over
  /\ over' = TRUE
  /\ UNCHANGED <<away, leaves, dbVars, procVars, feedVars, faults>>

(* run_at is the moment the absence reaches the threshold: a job does not  *)
(* come due while the absence is short, unless it is a later absence and   *)
(* the job has waited for its next attempt.                                *)
JobDue(e) ==
  /\ job[e].status = "pending" /\ e \notin dueJobs
  /\ away = "early" => leaves > 1 /\ job[e].attempts \in 1..RetryMaxAttempts
  /\ dueJobs' = dueJobs \cup {e}
  /\ UNCHANGED <<worldVars, sub, episode, job, outbox, dueOutbox, procVars, feedVars, faults>>

OutboxDue(e) ==
  /\ outbox[e].status = "failed" /\ e \notin dueOutbox
  /\ dueOutbox' = dueOutbox \cup {e}
  /\ UNCHANGED <<worldVars, sub, episode, job, outbox, dueJobs, procVars, feedVars, faults>>

-----------------------------------------------------------------------------
(* Rows *)

LiveJob    == {"pending", "running"}
LiveOutbox == {"pending", "sending", "failed"}

IsCurrent(pv) == sub.enabled /\ sub.version = pv

(* Mutation of CancelWork: a claimed job is left to its worker. *)
CancelWork_Pending(final) ==
  /\ job' = [e \in Episodes |->
               IF job[e].status = "pending"
               THEN [job[e] EXCEPT !.status = final, !.version = @ + 1] ELSE job[e]]
  /\ outbox' = [e \in Episodes |->
                  IF outbox[e].status \in LiveOutbox
                  THEN [outbox[e] EXCEPT !.status = "suppressed"] ELSE outbox[e]]
  /\ UNCHANGED <<dueJobs, dueOutbox>>

(* CancelReservationJobTypes for the away types, suppressStudentWorkTx and *)
(* SuppressAllWork: live jobs get a final status, live outbox rows too.    *)
CancelWork(final) ==
  /\ job' = [e \in Episodes |->
               IF job[e].status \in LiveJob
               THEN [job[e] EXCEPT !.status = final, !.version = @ + 1] ELSE job[e]]
  /\ outbox' = [e \in Episodes |->
                  IF outbox[e].status \in LiveOutbox
                  THEN [outbox[e] EXCEPT !.status = "suppressed"] ELSE outbox[e]]
  /\ UNCHANGED <<dueJobs, dueOutbox>>

(* A student turns the preference off or on, or off and on between two     *)
(* snapshots (LibraryPreferenceSync has the whole story).                  *)
PreferenceTurnsOff ==
  /\ sub.enabled /\ sub.version < MaxVersion
  /\ sub' = [enabled |-> FALSE, version |-> sub.version + 1]
  /\ CancelWork("cancelled")
  /\ UNCHANGED <<worldVars, episode, procVars, feedVars, faults>>

PreferenceTurnsOn ==
  /\ ~sub.enabled /\ sub.version < MaxVersion
  /\ sub' = [enabled |-> TRUE, version |-> sub.version + 1]
  /\ UNCHANGED <<worldVars, episode, rowVars, procVars, feedVars, faults>>

PreferenceRenewed ==
  /\ sub.enabled /\ sub.version < MaxVersion
  /\ sub' = [sub EXCEPT !.version = @ + 1]
  /\ CancelWork("cancelled")
  /\ UNCHANGED <<worldVars, episode, procVars, feedVars, faults>>

(* UpsertJob with the run_at of the episode.  A job that is done, running  *)
(* or pending stays, and so does one suppressed under this preference.     *)
Upserted(r) ==
  IF r.status \in {"none", "deleted"}
  THEN [status |-> "pending", version |-> 1, attempts |-> 0, pv |-> sub.version]
  ELSE IF r.status \in {"done", "running", "pending"} \/ (r.status = "suppressed" /\ r.pv = sub.version)
  THEN r
  ELSE [r EXCEPT !.status = "pending", !.version = @ + 1, !.pv = sub.version]

(* nextAwayEpisode *)
NextEpisode == IF episode.open THEN episode.version ELSE episode.version + 1

-----------------------------------------------------------------------------
(* The active scan of the student; userTaskGate keeps a second one out     *)
(* unless the preference has changed, and then the first writes nothing.   *)

Observation == IF over THEN "ended" ELSE away

ScanActiveUser ==
  /\ up /\ sub.enabled
  /\ scan.seen = "none" \/ scan.pv # sub.version
  /\ scan' = [seen |-> Observation, pv |-> sub.version]
  /\ UNCHANGED <<worldVars, dbVars, up, jobVars, sendVars, feedVars, faults>>

(* Mutation of ScanStillCurrent: the locked subscription is not compared. *)
ScanStillCurrent_Always == TRUE

(* The comparison with the locked subscription. *)
ScanStillCurrent == IsCurrent(scan.pv)

(* applyActiveObservation, in the transaction of scanActiveUserAttempt     *)
(* that holds the row of the subscription.                                 *)
ApplyActiveObservation ==
  /\ scan.seen # "none"
  /\ scan' = NoScan
  /\ \/ /\ ~ScanStillCurrent
        /\ UNCHANGED <<episode, rowVars>>
     \/ /\ ScanStillCurrent /\ scan.seen \in {"ended", "no"}
        /\ IF episode.open
           THEN /\ episode' = [episode EXCEPT !.open = FALSE]
                /\ CancelWork("cancelled")
           ELSE UNCHANGED <<episode, rowVars>>
     \/ (* a reservation reported as over: CancelReservationJobs comes first *)
        /\ ScanStillCurrent /\ scan.seen = "ended" /\ ~episode.open
        /\ CancelWork("cancelled")
        /\ UNCHANGED episode
     \/ /\ ScanStillCurrent /\ scan.seen \in {"early", "long"}
        /\ NextEpisode \in Episodes
        /\ episode' = [version |-> NextEpisode, open |-> TRUE]
        /\ job' = [job EXCEPT ![NextEpisode] = Upserted(@)]
        /\ dueJobs' = IF job'[NextEpisode] = job[NextEpisode] THEN dueJobs
                      ELSE dueJobs \ {NextEpisode}
        /\ UNCHANGED <<outbox, dueOutbox>>
  /\ UNCHANGED <<worldVars, sub, up, jobVars, sendVars, feedVars, faults>>

(* reconcileReservation in a full refresh: a reservation that is over      *)
(* loses its work, but its episode stays open until the scan closes it.    *)
ReconcileReservation ==
  /\ up /\ over /\ sub.enabled
  /\ CancelWork("cancelled")
  /\ UNCHANGED <<worldVars, sub, episode, procVars, feedVars, faults>>

(* The token, the crawler or the transaction fails. *)
ScanFails ==
  /\ scan.seen # "none"
  /\ scan' = NoScan
  /\ UNCHANGED <<worldVars, dbVars, up, jobVars, sendVars, feedVars, faults>>

(* endAwayEpisode, called by a worker whose row has version pv. *)
CanEndEpisode(e, pv) == IsCurrent(pv) /\ episode.open /\ episode.version = e

EndAwayEpisode ==
  /\ episode' = [episode EXCEPT !.open = FALSE]
  /\ CancelWork("cancelled")

EpisodeCurrent(e) == episode.open /\ episode.version = e

-----------------------------------------------------------------------------
(* DispatchJobs; cron never runs two of them at once *)

DispatcherTo(e, step) ==
  dispatcher' = [dispatcher EXCEPT ![e] =
                   IF step = "none" THEN NoDispatcher ELSE [@ EXCEPT !.pc = step]]

Busy(e) == dispatcher[e].pc # "none"

(* ClaimDueJobs, first statement: pending jobs of an old preference. *)
SuppressStaleJobs ==
  /\ up /\ dispatching = "idle"
  /\ dispatching' = "list"
  /\ job' = [e \in Episodes |->
               IF job[e].status = "pending" /\ ~IsCurrent(job[e].pv)
               THEN [job[e] EXCEPT !.status = "suppressed"] ELSE job[e]]
  /\ UNCHANGED <<worldVars, sub, episode, outbox, dueJobs, dueOutbox, up, dispatcher,
                 sendVars, scan, feedVars, faults>>

DueJobs == {e \in dueJobs : job[e].status = "pending" /\ IsCurrent(job[e].pv)}

(* Second statement: the candidates, as copies of their rows. *)
ListDueJobs ==
  /\ dispatching = "list"
  /\ dispatching' = IF DueJobs = {} THEN "idle" ELSE "work"
  /\ dispatcher' = [e \in Episodes |->
                      IF e \in DueJobs
                      THEN [pc |-> "listed", version |-> job[e].version,
                            attempts |-> job[e].attempts, pv |-> job[e].pv]
                      ELSE NoDispatcher]
  /\ UNCHANGED <<worldVars, dbVars, up, sendVars, scan, feedVars, faults>>

ListedJobs == {e \in Episodes : dispatcher[e].pc = "listed"}

CanClaim(e) ==
  /\ job[e].status = "pending" /\ job[e].version = dispatcher[e].version
  /\ IsCurrent(job[e].pv)

(* The claim of one candidate.  Without an answer the whole batch is       *)
(* released, this job too, under the version the claim would have.         *)
ClaimJob(e) ==
  /\ e \in ListedJobs
  /\ \E applied, answered \in BOOLEAN :
       /\ Update(CanClaim(e), applied, answered)
       /\ job' = IF applied
                 THEN [job EXCEPT ![e].status = "running", ![e].version = @ + 1,
                                  ![e].attempts = @ + 1]
                 ELSE job
       /\ LET d == dispatcher[e]
              mine(step) == [d EXCEPT !.pc = step, !.version = @ + 1, !.attempts = @ + 1]
          IN dispatcher' =
               IF answered
               THEN [dispatcher EXCEPT ![e] = IF applied THEN mine("claimed") ELSE NoDispatcher]
               ELSE [f \in Episodes |->
                       IF f = e THEN mine("release")
                       ELSE IF dispatcher[f].pc = "claimed"
                            THEN [dispatcher[f] EXCEPT !.pc = "release"]
                            ELSE NoDispatcher]
  /\ UNCHANGED <<worldVars, sub, episode, outbox, dueJobs, dueOutbox, up, dispatching,
                 sendVars, scan, feedVars>>

(* dispatchJobBatch: the context ends, jobs without a worker are released. *)
StopLaunching ==
  /\ ListedJobs = {}
  /\ \E e \in Episodes : dispatcher[e].pc = "claimed"
  /\ Fault
  /\ dispatcher' = [e \in Episodes |->
                      IF dispatcher[e].pc = "claimed"
                      THEN [dispatcher[e] EXCEPT !.pc = "release"] ELSE dispatcher[e]]
  /\ UNCHANGED <<worldVars, dbVars, up, dispatching, sendVars, scan, feedVars>>

DispatchDone ==
  /\ dispatching = "work" /\ \A e \in Episodes : ~Busy(e)
  /\ dispatching' = "idle"
  /\ UNCHANGED <<worldVars, dbVars, up, dispatcher, sendVars, scan, feedVars, faults>>

(* retryJob: the attempts are used up, or the next one would come after    *)
(* the reservation ends, or the job goes back with a backoff.              *)
RetryStep(e, step) ==
  step \in IF dispatcher[e].attempts >= RetryMaxAttempts THEN {"suppress"}
           ELSE {"suppress", "retry"}

(* dispatchJob up to the episode.  A reservation over before its time is   *)
(* not told from one in use here, only one whose end has passed.           *)
CheckJob(e) ==
  /\ dispatcher[e].pc = "claimed" /\ ListedJobs = {}
  /\ \/ /\ over \/ ~IsCurrent(dispatcher[e].pv)
        /\ DispatcherTo(e, "suppress")
        /\ UNCHANGED faults
     \/ /\ IsCurrent(dispatcher[e].pv)
        /\ DispatcherTo(e, "checked")
        /\ UNCHANGED faults
     \/ \E step \in DispatchStep : Fault /\ RetryStep(e, step) /\ DispatcherTo(e, step)
  /\ UNCHANGED <<worldVars, dbVars, up, dispatching, sendVars, scan, feedVars>>

(* The episode and the preference again, then the seat.  Away for less     *)
(* than the threshold: later, unless the reservation is over by then.      *)
ObserveForJob(e) ==
  /\ dispatcher[e].pc = "checked"
  /\ \/ /\ \E step \in DispatchStep :
             /\ step \in IF ~EpisodeCurrent(e) \/ ~IsCurrent(dispatcher[e].pv) THEN {"suppress"}
                         ELSE IF Observation \in {"ended", "no"} THEN {"end"}
                         ELSE IF Observation = "early" THEN {"postpone", "suppress"}
                         ELSE {"complete"}
             /\ DispatcherTo(e, step)
        /\ UNCHANGED faults
     \/ \E step \in DispatchStep : Fault /\ RetryStep(e, step) /\ DispatcherTo(e, step)
  /\ UNCHANGED <<worldVars, dbVars, up, dispatching, sendVars, scan, feedVars>>

(* endAwayEpisode cancels this very job; if the episode was not ended, the *)
(* job is suppressed.                                                      *)
EndForJob(e) ==
  /\ dispatcher[e].pc = "end"
  /\ \E applied, answered \in BOOLEAN :
       /\ Update(CanEndEpisode(e, dispatcher[e].pv), applied, answered)
       /\ IF applied THEN EndAwayEpisode ELSE UNCHANGED <<episode, rowVars>>
       /\ IF answered
          THEN DispatcherTo(e, IF applied THEN "none" ELSE "suppress")
          ELSE \E step \in DispatchStep : RetryStep(e, step) /\ DispatcherTo(e, step)
  /\ UNCHANGED <<worldVars, sub, up, dispatching, sendVars, scan, feedVars>>

(* Mutation of HoldsJob: a job that went back to pending counts as held. *)
HoldsJob_VersionOnly(e) ==
  job[e].status \in LiveJob /\ job[e].version = dispatcher[e].version

(* The row is still the one this worker claimed. *)
HoldsJob(e) == job[e].status = "running" /\ job[e].version = dispatcher[e].version

(* FinishJob.  A retry returns its cause, so that it is released as well.  *)
FinishJob(e) ==
  /\ dispatcher[e].pc \in {"suppress", "retry", "postpone"}
  /\ \E applied, answered \in BOOLEAN :
       /\ Update(HoldsJob(e), applied, answered)
       /\ LET status == IF dispatcher[e].pc = "suppress" THEN "suppressed" ELSE "pending"
          IN /\ job' = IF applied THEN [job EXCEPT ![e].status = status] ELSE job
             /\ dueJobs' = IF applied /\ status = "pending" THEN dueJobs \ {e} ELSE dueJobs
       /\ DispatcherTo(e, IF applied /\ answered /\ dispatcher[e].pc # "retry"
                          THEN "none" ELSE "release")
  /\ UNCHANGED <<worldVars, sub, episode, outbox, dueOutbox, up, dispatching, sendVars, scan,
                 feedVars>>

(* The row CompleteJobAndEnqueue writes unless the key is taken. *)
Enqueued(e) ==
  IF outbox[e].status \in {"none", "deleted"}
  THEN [status |-> "pending", attempts |-> 0, pv |-> dispatcher[e].pv]
  ELSE outbox[e]

(* CompleteJobAndEnqueue: the job is done and its outbox row exists.       *)
CompleteJobAndEnqueue(e) ==
  /\ dispatcher[e].pc = "complete"
  /\ \E applied, answered \in BOOLEAN :
       /\ Update(HoldsJob(e), applied, answered)
       /\ IF applied
          THEN /\ job' = [job EXCEPT ![e].status = "done"]
               /\ outbox' = [outbox EXCEPT ![e] = Enqueued(e)]
               /\ dueOutbox' = dueOutbox \cup {e}
          ELSE UNCHANGED <<job, outbox, dueOutbox>>
       /\ DispatcherTo(e, IF applied /\ answered THEN "none" ELSE "release")
  /\ UNCHANGED <<worldVars, sub, episode, dueJobs, up, dispatching, sendVars, scan, feedVars>>

(* Mutation of Refunded: the attempt is given back twice. *)
(* A job goes back to pending as if it had not been claimed. *)
Refunded(r) ==
  [r EXCEPT !.status = "pending", !.version = @ + 1,
            !.attempts = IF @ > 0 THEN @ - 1 ELSE 0]

(* ReleaseClaimedJobs, on whatever this worker may still hold. *)
ReleaseClaimedJob(e) ==
  /\ dispatcher[e].pc = "release"
  /\ \E applied, answered \in BOOLEAN :
       /\ Update(HoldsJob(e), applied, answered)
       /\ job' = IF applied THEN [job EXCEPT ![e] = Refunded(@)] ELSE job
  /\ DispatcherTo(e, "none")
  /\ UNCHANGED <<worldVars, sub, episode, outbox, dueJobs, dueOutbox, up, dispatching, sendVars,
                 scan, feedVars>>

-----------------------------------------------------------------------------
(* SendOutbox; its loop handles one row after the other *)

SenderTo(e, step) ==
  sender' = [sender EXCEPT ![e] = IF step = "none" THEN NoSender ELSE [@ EXCEPT !.pc = step]]

(* ClaimOutbox, first statement: rows of an old preference. *)
SuppressStaleOutbox ==
  /\ up /\ sending = "idle"
  /\ sending' = "claim"
  /\ outbox' = [e \in Episodes |->
                  IF outbox[e].status \in {"pending", "failed"} /\ ~IsCurrent(outbox[e].pv)
                  THEN [outbox[e] EXCEPT !.status = "suppressed"] ELSE outbox[e]]
  /\ UNCHANGED <<worldVars, sub, episode, job, dueJobs, dueOutbox, up, jobVars, sender, scan,
                 feedVars, faults>>

Sendable == {e \in dueOutbox : /\ outbox[e].status \in {"pending", "failed"}
                               /\ outbox[e].attempts < RetryMaxAttempts}

(* Then one transaction claims all that are due; without an answer nobody  *)
(* works on them.                                                          *)
ClaimOutbox ==
  /\ sending = "claim"
  /\ \E applied, answered \in BOOLEAN :
       /\ Update(Sendable # {}, applied, answered)
       /\ outbox' = [e \in Episodes |->
                       IF applied /\ e \in Sendable
                       THEN [outbox[e] EXCEPT !.status = "sending", !.attempts = @ + 1]
                       ELSE outbox[e]]
       /\ sending' = IF applied /\ answered THEN "work" ELSE "idle"
       /\ sender' = [e \in Episodes |->
                       IF applied /\ answered /\ e \in Sendable
                       THEN [pc |-> "claimed", attempts |-> outbox[e].attempts + 1,
                             pv |-> outbox[e].pv]
                       ELSE NoSender]
  /\ UNCHANGED <<worldVars, sub, episode, job, dueJobs, dueOutbox, up, jobVars, scan, feedVars>>

(* Mutation of HoldsOutbox: a row suppressed meanwhile is finished too. *)
HoldsOutbox_AnyStatus(e) == outbox[e].attempts = sender[e].attempts

HoldsOutbox(e) == outbox[e].status = "sending" /\ outbox[e].attempts = sender[e].attempts

CanSendOutbox(e) == HoldsOutbox(e) /\ IsCurrent(outbox[e].pv)

InHand == {e \in Episodes : sender[e].pc \notin {"none", "claimed"}}

MaySend(e) == CanSendOutbox(e) /\ EpisodeCurrent(e)

(* sendOutboxRow up to the episode.  The snapshot of the reservation may   *)
(* be older than its end.                                                  *)
CheckOutbox(e) ==
  /\ sender[e].pc = "claimed" /\ InHand = {}
  /\ \/ (over \/ ~MaySend(e)) /\ SenderTo(e, "suppress") /\ UNCHANGED faults
     \/ MaySend(e) /\ SenderTo(e, "checked") /\ UNCHANGED faults
     \/ Fault /\ SenderTo(e, "fail")
  /\ UNCHANGED <<worldVars, dbVars, up, jobVars, sending, scan, feedVars>>

(* The seat. *)
ObserveForOutbox(e) ==
  /\ sender[e].pc = "checked"
  /\ \/ /\ SenderTo(e, IF Observation \in {"ended", "no"} THEN "end"
                       ELSE IF Observation = "early" THEN "suppress" ELSE "observed")
        /\ UNCHANGED faults
     \/ Fault /\ SenderTo(e, "fail")
  /\ UNCHANGED <<worldVars, dbVars, up, jobVars, sending, scan, feedVars>>

(* endAwayEpisode suppresses this very row. *)
EndForOutbox(e) ==
  /\ sender[e].pc = "end"
  /\ \E applied, answered \in BOOLEAN :
       /\ Update(CanEndEpisode(e, sender[e].pv), applied, answered)
       /\ IF applied THEN EndAwayEpisode ELSE UNCHANGED <<episode, rowVars>>
       /\ SenderTo(e, IF ~answered THEN "fail" ELSE IF applied THEN "none" ELSE "suppress")
  /\ UNCHANGED <<worldVars, sub, up, jobVars, sending, scan, feedVars>>

(* The last check before the call. *)
RecheckOutbox(e) ==
  /\ sender[e].pc = "observed"
  /\ \/ (over \/ ~MaySend(e)) /\ SenderTo(e, "suppress") /\ UNCHANGED faults
     \/ MaySend(e) /\ SenderTo(e, "publish") /\ UNCHANGED faults
     \/ Fault /\ SenderTo(e, "fail")
  /\ UNCHANGED <<worldVars, dbVars, up, jobVars, sending, scan, feedVars>>

(* FeedGateway.Publish.  be-feed knows a preference before be-library does *)
(* and may suppress; a stored key is a duplicate; else the event goes to   *)
(* Kafka, whether or not the answer arrives.                               *)
Publish(e) ==
  /\ sender[e].pc = "publish"
  /\ calls' = [calls EXCEPT ![e] = @ + 1]
  /\ \/ /\ SenderTo(e, "suppress")
        /\ UNCHANGED <<accepted, faults>>
     \/ /\ SenderTo(e, "sent")
        /\ accepted' = accepted \cup {e}
        /\ UNCHANGED faults
     \/ /\ Fault /\ SenderTo(e, "refused")
        /\ accepted' \in {accepted, accepted \cup {e}}
  /\ UNCHANGED <<worldVars, dbVars, up, jobVars, sending, scan, stored>>

(* FinishOutbox; on any error releaseOutboxAfterFailure follows. *)
FinishOutbox(e) ==
  /\ sender[e].pc \in {"sent", "suppress", "refused"}
  /\ \E applied, answered \in BOOLEAN :
       /\ Update(HoldsOutbox(e), applied, answered)
       /\ LET status == IF sender[e].pc = "sent" THEN "sent"
                        ELSE IF sender[e].pc = "suppress" THEN "suppressed" ELSE "failed"
          IN /\ outbox' = IF applied THEN [outbox EXCEPT ![e].status = status] ELSE outbox
             /\ dueOutbox' = IF applied /\ status = "failed" THEN dueOutbox \ {e} ELSE dueOutbox
       /\ SenderTo(e, IF applied /\ answered THEN "none" ELSE "fail")
  /\ UNCHANGED <<worldVars, sub, episode, job, dueJobs, up, jobVars, sending, scan, feedVars>>

ReleaseOutboxAfterFailure(e) ==
  /\ sender[e].pc = "fail"
  /\ \E applied, answered \in BOOLEAN :
       /\ Update(HoldsOutbox(e), applied, answered)
       /\ outbox' = IF applied THEN [outbox EXCEPT ![e].status = "failed"] ELSE outbox
       /\ dueOutbox' = IF applied THEN dueOutbox \ {e} ELSE dueOutbox
  /\ SenderTo(e, "none")
  /\ UNCHANGED <<worldVars, sub, episode, job, dueJobs, up, jobVars, sending, scan, feedVars>>

(* The context ends between two rows: the rest of the batch, which nobody  *)
(* has touched, goes back with its attempt refunded.                       *)
ReleaseClaimedOutbox ==
  /\ InHand = {}
  /\ \E e \in Episodes : sender[e].pc = "claimed"
  /\ Fault
  /\ \E applied \in BOOLEAN :
       outbox' = [e \in Episodes |->
                    IF applied /\ sender[e].pc = "claimed" /\ HoldsOutbox(e)
                    THEN [outbox[e] EXCEPT !.status = "pending",
                                           !.attempts = IF @ > 0 THEN @ - 1 ELSE 0]
                    ELSE outbox[e]]
  /\ sender' = [e \in Episodes |-> NoSender]
  /\ UNCHANGED <<worldVars, sub, episode, job, dueJobs, dueOutbox, up, jobVars, sending, scan,
                 feedVars>>

SendDone ==
  /\ sending = "work" /\ \A e \in Episodes : sender[e].pc = "none"
  /\ sending' = "idle"
  /\ UNCHANGED <<worldVars, dbVars, up, jobVars, sender, scan, feedVars, faults>>

(* be-feed stores the event, once per key (FeedPushDelivery goes on here). *)
FeedStores(e) ==
  /\ e \in accepted \ stored
  /\ stored' = stored \cup {e}
  /\ UNCHANGED <<worldVars, dbVars, procVars, calls, accepted, faults>>

-----------------------------------------------------------------------------
(* The process *)

(* Mutation of RecoverClaimedWork: outbox rows are refunded like jobs. *)
RecoverClaimedWork_Refund(J, O) ==
  /\ job' = [e \in Episodes |-> IF e \in J THEN Refunded(job[e]) ELSE job[e]]
  /\ outbox' = [e \in Episodes |->
                  IF e \in O THEN [outbox[e] EXCEPT !.status = "failed", !.attempts = @ - 1]
                  ELSE outbox[e]]
  /\ UNCHANGED <<dueJobs, dueOutbox>>

(* recoverClaimedWork on the chosen rows: the attempt of a job is refunded, *)
(* that of an outbox row is not, because it may have been published.        *)
RecoverClaimedWork(J, O) ==
  /\ job' = [e \in Episodes |-> IF e \in J THEN Refunded(job[e]) ELSE job[e]]
  /\ outbox' = [e \in Episodes |->
                  IF e \in O THEN [outbox[e] EXCEPT !.status = "failed"] ELSE outbox[e]]
  /\ UNCHANGED <<dueJobs, dueOutbox>>

RunningJobs   == {e \in Episodes : job[e].status = "running"}
SendingOutbox == {e \in Episodes : outbox[e].status = "sending"}

(* ReminderScheduler.Start with the feature on. *)
RecoverOrphanedWork ==
  /\ ~up
  /\ up' = TRUE
  /\ RecoverClaimedWork(RunningJobs, SendingOutbox)
  /\ UNCHANGED <<worldVars, sub, episode, jobVars, sendVars, scan, feedVars, faults>>

(* ReminderScheduler.Start with the feature off. *)
SuppressDisabledWork ==
  /\ ~up
  /\ CancelWork("disabled")
  /\ UNCHANGED <<worldVars, sub, episode, procVars, feedVars, faults>>

Abandoned(J, O) ==
  /\ \A e \in J : ~Busy(e)
  /\ \A e \in O : sender[e].pc = "none"

(* Mutation of RecoverStaleWork: only the jobs. *)
RecoverStaleWork_Jobs ==
  /\ up
  /\ \E J \in SUBSET RunningJobs :
       J # {} /\ Abandoned(J, {}) /\ RecoverClaimedWork(J, {})
  /\ UNCHANGED <<worldVars, sub, episode, procVars, feedVars, faults>>

(* RecoverStaleWork: claims older than ClaimTimeout.  Their workers should *)
(* be gone, but a task that ignores its deadline may outlive the timeout.  *)
RecoverStaleWork ==
  /\ up
  /\ \E J \in SUBSET RunningJobs, O \in SUBSET SendingOutbox :
       /\ J \cup O # {}
       /\ \/ Abandoned(J, O) /\ UNCHANGED faults
          \/ Fault
       /\ RecoverClaimedWork(J, O)
  /\ UNCHANGED <<worldVars, sub, episode, procVars, feedVars>>

(* CleanupHistory, a week after the reservation: final jobs, then final    *)
(* outbox rows; an outbox row is never older than its job.                 *)
CleanupHistory ==
  /\ up /\ over /\ scan.seen = "none"
  /\ \E J \in SUBSET {e \in Episodes : job[e].status \in {"done", "cancelled", "suppressed", "disabled"}},
        O \in SUBSET {e \in Episodes : \/ outbox[e].status \in {"sent", "suppressed"}
                                       \/ /\ outbox[e].status = "failed"
                                          /\ outbox[e].attempts >= RetryMaxAttempts} :
       /\ J \cup O # {} /\ Abandoned(J, O)
       /\ \A e \in O : e \in J \/ job[e].status = "deleted"
       /\ job' = [e \in Episodes |-> IF e \in J THEN [NoJob EXCEPT !.status = "deleted"] ELSE job[e]]
       /\ outbox' = [e \in Episodes |->
                       IF e \in O THEN [NoOutbox EXCEPT !.status = "deleted"] ELSE outbox[e]]
  /\ UNCHANGED <<worldVars, sub, episode, dueJobs, dueOutbox, procVars, feedVars, faults>>

(* The process dies: batches, workers and the scan are gone. *)
Crash ==
  /\ up /\ Fault
  /\ up' = FALSE
  /\ dispatching' = "idle" /\ dispatcher' = [e \in Episodes |-> NoDispatcher]
  /\ sending' = "idle" /\ sender' = [e \in Episodes |-> NoSender]
  /\ scan' = NoScan
  /\ UNCHANGED <<worldVars, dbVars, feedVars>>

-----------------------------------------------------------------------------
World == Leave \/ AbsenceGrows \/ Return \/ ReservationEnds
           \/ (\E e \in Episodes : JobDue(e) \/ OutboxDue(e) \/ FeedStores(e))

Preference == PreferenceTurnsOff \/ PreferenceTurnsOn \/ PreferenceRenewed

Scan == ScanActiveUser \/ ApplyActiveObservation \/ ReconcileReservation \/ ScanFails

DispatchStepOf(e) ==
  ClaimJob(e) \/ CheckJob(e) \/ ObserveForJob(e) \/ EndForJob(e) \/ FinishJob(e)
    \/ CompleteJobAndEnqueue(e) \/ ReleaseClaimedJob(e)

Dispatch == SuppressStaleJobs \/ ListDueJobs \/ StopLaunching \/ DispatchDone
              \/ \E e \in Episodes : DispatchStepOf(e)

SendStepOf(e) ==
  CheckOutbox(e) \/ ObserveForOutbox(e) \/ EndForOutbox(e) \/ RecheckOutbox(e)
    \/ Publish(e) \/ FinishOutbox(e) \/ ReleaseOutboxAfterFailure(e)

Send == SuppressStaleOutbox \/ ClaimOutbox \/ ReleaseClaimedOutbox \/ SendDone
          \/ \E e \in Episodes : SendStepOf(e)

Process == RecoverOrphanedWork \/ SuppressDisabledWork \/ RecoverStaleWork \/ CleanupHistory \/ Crash

Next == World \/ Preference \/ Scan \/ Dispatch \/ Send \/ Process

Spec == Init /\ [][Next]_vars
-----------------------------------------------------------------------------
(* Properties *)

(* No work for a closed episode.  Once an absence is over, whoever noticed *)
(* it (the scan, a worker of the dispatcher or the sender), no reminder of *)
(* it is pending, claimed or waiting for a retry: closing the episode and  *)
(* cancelling its rows is one transaction, and no claim, retry, release,   *)
(* recovery or completion under way brings a row back.                     *)
NoWorkForClosedEpisode ==
  \A e \in Episodes :
    job[e].status \in LiveJob \/ outbox[e].status \in LiveOutbox => EpisodeCurrent(e)

(* Live work belongs to the current preference: turning the preference off *)
(* voids everything scheduled before, also what is being dispatched or     *)
(* sent, and turning it on again revives none of it.                       *)
WorkMatchesPreference ==
  \A e \in Episodes :
    /\ job[e].status \in LiveJob => IsCurrent(job[e].pv)
    /\ outbox[e].status \in LiveOutbox => IsCurrent(outbox[e].pv)

(* be-feed is not called more often for a reminder than RetryMaxAttempts:  *)
(* every call has used up an attempt, and no release or recovery gives     *)
(* back the attempt of a claim that may have published.                    *)
PublishBudget ==
  \A e \in Episodes :
    outbox[e].status # "deleted" =>
      /\ calls[e] <= outbox[e].attempts
      /\ outbox[e].attempts <= RetryMaxAttempts

(* A retry that was recorded stays recorded: the release that follows it   *)
(* in dispatchJobBatch gives back the attempt of a job that is still       *)
(* claimed, never of one that went back with a backoff, though both carry  *)
(* the same version.                                                       *)
RetriesAreKept ==
  [][\A e \in Episodes :
       job'[e].attempts < job[e].attempts =>
         job[e].status = "running" \/ job'[e].status = "deleted"]_vars

(* The stage of a reminder in ReminderOnce: the outbox row decides, and    *)
(* before there is one, the job.                                           *)
StageOf(e) ==
  LET o == outbox[e]
      j == job[e].status
  IN IF o.status = "none"
     THEN IF j \in {"none"} THEN "none"
          ELSE IF j \in LiveJob THEN "waiting"
          ELSE IF j = "deleted" THEN "forgotten" ELSE "off"
     ELSE IF o.status = "deleted" THEN "forgotten"
     ELSE IF o.status = "sent" THEN "told"
     ELSE IF o.status = "suppressed" \/ (o.status = "failed" /\ o.attempts >= RetryMaxAttempts)
          THEN "dropped" ELSE "ready"

(* The refinement mapping: the stages of all, and what was accepted, was    *)
(* heard.                                                                  *)
OnceStage == [e \in Episodes |-> StageOf(e)]

Once == INSTANCE ReminderOnce WITH
  Reminders <- Episodes, stage <- OnceStage, heard <- accepted

(* Jobs, outbox and claims together keep the promise of ReminderOnce.      *)
ImplementsReminderOnce == Once!Spec

(* Cron and loops go on, their workers run to the end, the clock moves, a  *)
(* dead process is restarted.  Faults are finite, which is their bound.    *)
FairSpec ==
  /\ Spec
  /\ WF_vars(AbsenceGrows)
  /\ WF_vars(RecoverOrphanedWork) /\ WF_vars(RecoverStaleWork)
  /\ WF_vars(SuppressStaleJobs) /\ WF_vars(ListDueJobs) /\ WF_vars(DispatchDone)
  /\ WF_vars(SuppressStaleOutbox) /\ WF_vars(ClaimOutbox) /\ WF_vars(SendDone)
  /\ \A e \in Episodes :
       /\ WF_vars(JobDue(e)) /\ WF_vars(OutboxDue(e))
       /\ WF_vars(DispatchStepOf(e)) /\ WF_vars(SendStepOf(e))

Settled(e) ==
  /\ job[e].status \notin LiveJob
  /\ \/ outbox[e].status \notin LiveOutbox
     \/ outbox[e].status = "failed" /\ outbox[e].attempts >= RetryMaxAttempts

(* Every reminder is settled in the end: no claim whose release failed, no *)
(* claim without an answer and no crash leaves a job running or a row      *)
(* sending for ever.                                                       *)
EveryReminderSettles == \A e \in Episodes : ~Settled(e) ~> Settled(e)
=============================================================================
